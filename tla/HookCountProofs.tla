-------------------------- MODULE HookCountProofs --------------------------
(***************************************************************************)
(* TLAPS proofs about what HookTransport counts: every record emitted is   *)
(* sent, counted as dropped or on its way (Accounting), no drop goes       *)
(* uncounted, a shutdown leaves no record behind, and its final status     *)
(* reports the drops among those it had to settle (ShutdownSettles).       *)
(***************************************************************************)
EXTENDS HookTransportProofs, Sums

(* Rings: the registry holds the ring a thread uses and those of threads   *)
(* that are gone; a ring that is not in it is empty and has no counters.   *)
Fields == {"emitted", "dropped_full", "rejected"}
CountTypes ==
    /\ ctr \in [Fields -> Nat] /\ rctr \in [RingId -> [Fields -> Nat]]
    /\ sent \in Nat /\ dropped_lost \in Nat
RingsInv ==
    /\ \A t \in Thread : tls[t] # None => tls[t] \in Registered /\ tls[t] \notin orphan
    /\ orphan \subseteq Registered /\ \A t \in Thread : <<t, 2>> \notin orphan
    /\ \A r \in Registered : r \in orphan \/ tls[r[1]] = r
    /\ \A r \in RingId : r \notin Registered => rb[r] = <<>> /\ rctr[r] = ZeroCtr
    /\ \A t \in Thread : pc[t] = "register" => tls[t] = None

accounts == <<rings, rb, orphan, tls, cur, batch, ctr, rctr, sent, dropped_lost, dropped>>
Quiescent ==
    /\ UNCHANGED accounts
    /\ \A t \in Thread : pc'[t] = "register" => pc[t] = "register" \/ tls[t] = None

InHandSent(t) == SendInHand(t) /\ pc[t] \in {"sync", "sweep"} /\ Holding(t) /\ batch[t] = <<>>

\* The steps, seen from the counters.
Accounted ==
    \/ Quiescent
    \/ \E t \in Thread : EmitBegin(t) \/ Drops(t) \/ Registers(t) \/ Publishes(t) \/ InHandSent(t) \/ ThreadExit(t) \/ Fork(t)
    \/ \E p \in Proc : Take(p) \/ Sweep(p) \/ CountSent(p) \/ CountLost(p)

LEMMA CountCases ==
    ASSUME TypeInv, Control, [Next]_vars
    PROVE  Accounted
<1> USE DEF Proc
<1>a. CASE UNCHANGED vars
    BY <1>a DEF Accounted, Quiescent, accounts, vars, image, lifecycle, ringvars, counters, passvars
<1>1. ASSUME Collector PROVE Accounted
    BY <1>1 DEF Collector, CloseConnection, GoDown, Stall, RateLimitEnds, envframe, Accounted, Quiescent, accounts,
        lifecycle, ringvars, locks, counters, passvars, history
<1>2. ASSUME NEW p \in Proc, NEW l \in Label, Step(p, l), l # "register" PROVE Quiescent
    BY <1>2 DEF Step, Goto, Quiescent, accounts, lifecycle, ringvars, counters, passvars, TypeInv
<1>3. ASSUME NEW p \in Proc, Deliver(p) PROVE Accounted
    <2> USE DEF Accounted, Quiescent, accounts, Goto, TypeInv, lifecycle, ringvars, counters, passvars
    <2>1. CASE LockSocket(p) \/ Connect(p)
        BY <2>1 DEF LockSocket, Connect
    <2>2. CASE Send(p) \/ SendFailed(p)
        BY <2>2 DEF Send, SendFailed
    <2> QED
        BY <1>3, <2>1, <2>2 DEF Deliver
<1>4. ASSUME NEW p \in Proc, NEW why, NEW rs, LockAndDrain(p, why, rs) PROVE Quiescent
    BY <1>4 DEF LockAndDrain, Goto, Quiescent, accounts, lifecycle, ringvars, counters, passvars, TypeInv
<1>5. ASSUME NEW p \in Proc, DrainPass(p) PROVE Accounted
    <2>1. CASE BatchFull(p) \/ PassDone(p)
        BY <2>1, <1>2 DEF BatchFull, PassDone, Accounted, Label
    <2>2. CASE NextRing(p)
        BY <2>2 DEF NextRing, Accounted, Quiescent, accounts, lifecycle, ringvars, counters, passvars
    <2> QED
        BY <1>5, <2>1, <2>2 DEF DrainPass, Accounted
<1>6. ASSUME NEW p \in Proc, Status(p) PROVE Quiescent
    <2> USE DEF Quiescent, accounts, Goto, TypeInv, lifecycle, ringvars, counters, passvars
    <2>0. AfterStatus(p) # "register"
        BY DEF AfterStatus
    <2>1. CASE StatusGlobal(p) \/ StatusDelivery(p) \/ StatusConnect(p)
        BY <2>1 DEF StatusGlobal, StatusDelivery, StatusConnect
    <2>2. CASE StatusRings(p)
        <3> DEFINE sum == CtrAdd(snap[p], CtrSum(Registered))
        <3>1. CASE p \in Thread /\ sum.emitted = 0
            BY <2>0, <2>2, <3>1 DEF StatusRings, StatusReturns
        <3>2. CASE ~(p \in Thread /\ sum.emitted = 0)
            <4>1. Goto(p, "statusline")
                  /\ UNCHANGED <<lifecycle, ringvars, locks, netvars, envvars, counters, cur, passvars, history>>
                BY <2>2, <3>2 DEF StatusRings
            <4> QED
                BY <4>1
        <3> QED
            BY <3>1, <3>2
    <2>3. CASE StatusSent(p)
        BY <2>0, <2>3 DEF StatusSent, StatusReturns
    <2> QED
        BY <1>6, <2>1, <2>2, <2>3 DEF Status
<1>7. ASSUME NEW t \in Thread, Emit(t) PROVE Accounted
    <2> USE DEF Accounted
    <2>1. CASE Reject(t) \/ NoMemory(t)
        BY <2>1 DEF Reject, NoMemory, Drops
    <2>2. CASE LoadState(t)
        BY <2>2 DEF LoadState, Goto, Quiescent, accounts, lifecycle, ringvars, counters, passvars, TypeInv
    <2>3. CASE Start(t)
        <3> USE <2>3 DEF Start, Quiescent, accounts, ringvars, counters, passvars, TypeInv
        <3>1. ASSUME NEW d \in use.drains, StartRing(t, d) PROVE Quiescent
            BY <3>1 DEF StartRing, Use
        <3>2. CASE StartSync(t) \/ StartedByOther(t)
            BY <3>2 DEF StartSync, StartedByOther, Goto
        <3> QED
            BY <3>1, <3>2
    <2>4. CASE Register(t)
        BY <2>4 DEF Register, Registers, Quiescent, accounts, Goto, lifecycle, counters, passvars, TypeInv
    <2>5. CASE Store(t)
        BY <2>5, <1>2 DEF Store, Publishes, Drops, Label
    <2>6. CASE Wait(t)
        BY <2>6, <1>2 DEF Wait, WaitExpires, Publishes, Drops, Label
    <2>7. CASE Check(t)
        BY <2>7, <1>2 DEF Check, Label
    <2>8. CASE DrainOwn(t)
        <3>1. CASE LockAndDrain(t, "own", <<tls[t]>>)
            BY <3>1, <1>4
        <3>2. CASE OwnStarves(t)
            BY <3>2 DEF OwnStarves, Goto, Quiescent, accounts, ringvars, counters, passvars, TypeInv
        <3> QED
            BY <2>8, <3>1, <3>2 DEF DrainOwn
    <2>9. CASE EmitSync(t)
        <3>1. CASE LockAndDrain(t, "sync", <<tls[t]>>)
            BY <3>1, <1>4
        <3>2. CASE pc[t] = "sync" /\ SendInHand(t)
            BY <3>2 DEF InHandSent, Control, ControlAt, BatchAt, Delivering, Holding, Emitting
        <3> QED
            BY <2>9, <3>1, <3>2 DEF EmitSync, Overtake
    <2>10. CASE OwnDone(t)
        <3>1. CASE job[t] = "sync"
            BY <2>10, <3>1 DEF OwnDone, InHandSent, Control, ControlAt, BatchAt, Delivering, Passing, Holding, InPass, PassJobs
        <3>2. CASE job[t] # "sync"
            BY <2>10, <3>2 DEF OwnDone, Goto, Quiescent, accounts, lifecycle, ringvars, counters, passvars, TypeInv
        <3> QED
            BY <3>1, <3>2
    <2> QED
        BY <1>7, <2>1, <2>2, <2>3, <2>4, <2>5, <2>6, <2>7, <2>8, <2>9, <2>10 DEF Emit
<1>8. ASSUME NEW t \in Thread, ShutdownSteps(t) PROVE Accounted
    <2> USE DEF Accounted
    <2>1. CASE ShutdownDrain(t)
        BY <2>1, <1>4 DEF ShutdownDrain
    <2>2. CASE ShutdownGivesUp(t) \/ ExecFailed(t) \/ JoinTimeout(t)
        BY <2>2 DEF ShutdownGivesUp, ExecFailed, JoinTimeout, JoinEnds, Goto, Quiescent, accounts,
            lifecycle, ringvars, counters, passvars, TypeInv
    <2>3. CASE Join(t)
        BY <2>3 DEF Join, JoinEnds, Quiescent, accounts, ringvars, counters, passvars, TypeInv
    <2> QED
        BY <1>8, <2>1, <2>2, <2>3 DEF ShutdownSteps
<1>9. ASSUME NEW d \in Drain, Pass(d) \/ Drained(d) PROVE Accounted
    BY <1>9, <1>2, <1>4 DEF Pass, PassStarves, Drained, Accounted, Label
<1>10. ASSUME NEW t \in Thread, Call(t) PROVE Accounted
    <2>1. ASSUME NEW why, Shutdown(t, why) PROVE Quiescent
        BY <2>1 DEF Shutdown, Goto, Quiescent, accounts, ringvars, counters, passvars, TypeInv
    <2> QED
        BY <1>10, <2>1 DEF Call, Accounted
<1> QED
    BY <1>a, <1>1, <1>3, <1>5, <1>6, <1>7, <1>8, <1>9, <1>10 DEF Next, Run, Accounted

-----------------------------------------------------------------------------
(* The registry.                                                           *)

\* Unlink keeps exactly the live rings.
LEMMA Unlinked ==
    ASSUME TypeInv, Unlink
    PROVE  /\ rings' \in Seq(RingId)
           /\ Registered' = {r \in Registered : IsLive(r)}
<1>1. PICK n \in 0..Len(rings) : \E f \in [1..n -> 1..Len(rings)] :
        /\ {f[i] : i \in 1..n} = {i \in 1..Len(rings) : IsLive(rings[i])}
        /\ rings' = [i \in 1..n |-> rings[f[i]]]
    BY DEF Unlink
<1>2. PICK f \in [1..n -> 1..Len(rings)] :
        /\ {f[i] : i \in 1..n} = {i \in 1..Len(rings) : IsLive(rings[i])}
        /\ rings' = [i \in 1..n |-> rings[f[i]]]
    BY <1>1
<1>3. n \in Nat /\ \A i \in 1..Len(rings) : rings[i] \in RingId
    BY DEF TypeInv
<1>4. rings' \in Seq(RingId) /\ Len(rings') = n
    BY <1>2, <1>3
<1>5. Registered' = {rings[f[i]] : i \in 1..n}
    BY <1>2, <1>4 DEF Registered
<1> QED
    BY <1>2, <1>4, <1>5 DEF Registered

LEMMA Prepended ==
    ASSUME TypeInv, NEW r \in RingId, rings' = <<r>> \o rings
    PROVE  Registered' = Registered \cup {r}
<1>1. rings \in Seq(RingId) /\ Len(rings) \in Nat
    BY DEF TypeInv
<1>2. Len(<<r>> \o rings) = Len(rings) + 1
    BY <1>1
<1>3. ASSUME NEW i \in 1..(Len(rings) + 1) PROVE (<<r>> \o rings)[i] = IF i = 1 THEN r ELSE rings[i - 1]
    BY <1>1, <1>3
<1>4. Registered' = {(<<r>> \o rings)[i] : i \in 1..(Len(rings) + 1)}
    BY <1>2 DEF Registered
<1>5. ASSUME NEW x \in Registered' PROVE x = r \/ x \in Registered
    <2>1. PICK i \in 1..(Len(rings) + 1) : x = (<<r>> \o rings)[i]
        BY <1>4, <1>5
    <2>2. CASE i = 1
        BY <1>3, <2>1, <2>2
    <2>3. CASE i # 1
        BY <1>1, <1>3, <2>1, <2>3 DEF Registered
    <2> QED
        BY <2>2, <2>3
<1>6. r \in Registered'
    BY <1>1, <1>3, <1>4
<1>7. ASSUME NEW x \in Registered PROVE x \in Registered'
    <2>1. PICK i \in 1..Len(rings) : x = rings[i]
        BY DEF Registered
    <2>2. i + 1 \in 1..(Len(rings) + 1) /\ i + 1 # 1 /\ (i + 1) - 1 = i
        BY <1>1
    <2>3. (<<r>> \o rings)[i + 1] = x
        BY <1>3, <2>1, <2>2
    <2> QED
        BY <1>4, <2>2, <2>3
<1> QED
    BY <1>5, <1>6, <1>7

LEMMA FreshIsNew ==
    ASSUME TypeInv, Control, RingsInv, NEW t \in Thread, tls[t] = None
    PROVE  /\ FreshRing(t) \in RingId /\ FreshRing(t) # None /\ FreshRing(t) \notin Registered
           /\ FreshRing(t)[1] = t /\ rb[FreshRing(t)] = <<>> /\ rctr[FreshRing(t)] = ZeroCtr
<1>1. FreshRing(t) \in RingId /\ FreshRing(t)[1] = t
    BY DEF FreshRing, RingId
<1>2. FreshRing(t) # None
    BY <1>1, TransportAssumption DEF RingId
<1>3. FreshRing(t) \notin orphan
    BY DEF FreshRing, RingsInv
<1> QED
    BY <1>1, <1>2, <1>3 DEF RingsInv

CountInv == CountTypes /\ RingsInv

LEMMA FiniteRings == ASSUME TypeInv PROVE IsFiniteSet(RingId) /\ Registered \subseteq RingId /\ IsFiniteSet(Registered)
<1>1. IsFiniteSet({1, 2})
    <2>1. IsFiniteSet(1..2)
        BY FS_Interval, 1 \in Int, 2 \in Int, Zenon
    <2>2. 1..2 = {1, 2}
        OBVIOUS
    <2> QED
        BY <2>1, <2>2
<1>2. IsFiniteSet(RingId)
    BY <1>1, FS_Product, TransportAssumption DEF RingId
<1>3. Registered \subseteq RingId
    BY DEF Registered, TypeInv
<1> QED
    BY <1>2, <1>3, FS_Subset

LEMMA IncTypes ==
    ASSUME TypeInv, CountTypes, NEW t \in Thread, NEW f \in Fields, Inc(t, f)
    PROVE  /\ ctr' \in [Fields -> Nat] /\ rctr' \in [RingId -> [Fields -> Nat]]
           /\ \A r \in RingId : tls[t] # r => rctr'[r] = rctr[r]
<1>1. CASE tls[t] = None
    <2>1. ctr' = [ctr EXCEPT ![f] = @ + 1] /\ rctr' = rctr
        BY <1>1 DEF Inc
    <2>2. ctr \in [Fields -> Nat] /\ rctr \in [RingId -> [Fields -> Nat]]
        BY DEF CountTypes
    <2> HIDE DEF Fields
    <2> QED
        BY <2>1, <2>2
<1>2. CASE tls[t] # None
    <2>1. tls[t] \in RingId /\ rctr' = [rctr EXCEPT ![tls[t]] = [rctr[tls[t]] EXCEPT ![f] = @ + 1]] /\ ctr' = ctr
        BY <1>2 DEF Inc, TypeInv
    <2>2. [rctr[tls[t]] EXCEPT ![f] = @ + 1] \in [Fields -> Nat]
        BY <2>1 DEF CountTypes
    <2> HIDE DEF Fields
    <2> QED
        BY <2>1, <2>2 DEF CountTypes
<1> QED
    BY <1>1, <1>2

LEMMA ZeroTypes == ZeroCtr \in [Fields -> Nat] /\ DOMAIN ZeroCtr = Fields
BY DEF ZeroCtr, Fields

LEMMA LenNat == ASSUME TypeInv PROVE \A p \in Proc : Len(batch[p]) \in Nat
BY DEF TypeInv

(* The sums of the model, as Total.                                        *)
Counters(f) == [r \in RingId |-> rctr[r][f]]
Lengths == [r \in RingId |-> Len(rb[r])]
Sizes == [p \in Proc |-> Len(batch[p])]

LEMMA CountersSummed ==
    ASSUME NEW S, S \subseteq RingId, NEW f
    PROVE  MapThenSumSet(LAMBDA r : rctr[r][f], S) = Total(Counters(f), S)
<1> DEFINE g == Counters(f)
           Def(j) == j = [s \in SUBSET S |-> IF s = {} THEN 0 ELSE LET x == CHOOSE x \in s : TRUE IN rctr[x][f] + j[s \ {x}]]
<1>1. ASSUME NEW s \in SUBSET S, s # {} PROVE (CHOOSE x \in s : TRUE) \in RingId
    <2>1. PICK x \in s : x = CHOOSE y \in s : TRUE
        BY <1>1
    <2> QED
        BY <2>1
<1>2. ASSUME NEW j PROVE Def(j) <=> Adds(g, S, j)
    BY <1>1 DEF Adds, Counters
<1>3. MapThenSumSet(LAMBDA r : rctr[r][f], S) = (CHOOSE j : Def(j))[S]
    BY DEF MapThenSumSet, MapThenFoldSet
<1>4. (CHOOSE j : Def(j)) = (CHOOSE j : Adds(g, S, j))
    <2> HIDE DEF Def, g
    <2> QED
        BY <1>2, Zenon
<1> QED
    BY <1>3, <1>4, TotalIs

LEMMA LengthsSummed ==
    ASSUME NEW S, S \subseteq RingId
    PROVE  MapThenSumSet(Waiting, S) = Total(Lengths, S)
<1> DEFINE g == Lengths
           Def(j) == j = [s \in SUBSET S |-> IF s = {} THEN 0 ELSE LET x == CHOOSE x \in s : TRUE IN Len(rb[x]) + j[s \ {x}]]
<1>1. ASSUME NEW s \in SUBSET S, s # {} PROVE (CHOOSE x \in s : TRUE) \in RingId
    <2>1. PICK x \in s : x = CHOOSE y \in s : TRUE
        BY <1>1
    <2> QED
        BY <2>1
<1>2. ASSUME NEW j PROVE Def(j) <=> Adds(g, S, j)
    BY <1>1 DEF Adds, Lengths
<1>3. MapThenSumSet(Waiting, S) = (CHOOSE j : Def(j))[S]
    BY DEF MapThenSumSet, MapThenFoldSet, Waiting
<1>4. (CHOOSE j : Def(j)) = (CHOOSE j : Adds(g, S, j))
    <2> HIDE DEF Def, g
    <2> QED
        BY <1>2, Zenon
<1> QED
    BY <1>3, <1>4, TotalIs

LEMMA SizesSummed ==
    ASSUME NEW S, S \subseteq Proc
    PROVE  MapThenSumSet(LAMBDA p : Len(batch[p]), S) = Total(Sizes, S)
<1> DEFINE g == Sizes
           Def(j) == j = [s \in SUBSET S |-> IF s = {} THEN 0 ELSE LET x == CHOOSE x \in s : TRUE IN Len(batch[x]) + j[s \ {x}]]
<1>1. ASSUME NEW s \in SUBSET S, s # {} PROVE (CHOOSE x \in s : TRUE) \in Proc
    <2>1. PICK x \in s : x = CHOOSE y \in s : TRUE
        BY <1>1
    <2> QED
        BY <2>1
<1>2. ASSUME NEW j PROVE Def(j) <=> Adds(g, S, j)
    BY <1>1 DEF Adds, Sizes
<1>3. MapThenSumSet(LAMBDA p : Len(batch[p]), S) = (CHOOSE j : Def(j))[S]
    BY DEF MapThenSumSet, MapThenFoldSet
<1>4. (CHOOSE j : Def(j)) = (CHOOSE j : Adds(g, S, j))
    <2> HIDE DEF Def, g
    <2> QED
        BY <1>2, Zenon
<1> QED
    BY <1>3, <1>4, TotalIs

LEMMA SumsTyped ==
    ASSUME TypeInv, CountTypes, NEW S \in SUBSET Registered
    PROVE  /\ CtrSum(S) \in [Fields -> Nat]
           /\ \A f \in Fields : /\ CtrSum(S)[f] = Total(Counters(f), S) /\ Total(Counters(f), S) \in Nat
                                 /\ Countable(Counters(f), S)
<1>1. IsFiniteSet(S) /\ S \subseteq RingId
    BY FiniteRings, FS_Subset
<1>2. ASSUME NEW f \in Fields
      PROVE  CtrSum(S)[f] = Total(Counters(f), S) /\ Total(Counters(f), S) \in Nat /\ Countable(Counters(f), S)
    <2>1. Countable(Counters(f), S)
        BY <1>1 DEF Countable, Counters, CountTypes
    <2>2. CtrSum(S)[f] = MapThenSumSet(LAMBDA r : rctr[r][f], S)
        BY ZeroTypes DEF CtrSum
    <2>3. MapThenSumSet(LAMBDA r : rctr[r][f], S) = Total(Counters(f), S)
        BY <1>1, CountersSummed
    <2> QED
        BY <1>1, <2>1, <2>2, <2>3, TotalType
<1>3. CtrSum(S) = [f \in Fields |-> CtrSum(S)[f]]
    BY ZeroTypes DEF CtrSum
<1> QED
    BY <1>2, <1>3

LEMMA CountTypesStep == ASSUME TypeInv, Control, CountInv, Accounted PROVE CountTypes'
<1> USE DEF CountInv
<1>1. CASE Quiescent
    BY <1>1 DEF Quiescent, accounts, CountTypes
<1>2. ASSUME NEW t \in Thread, EmitBegin(t) \/ Drops(t) PROVE CountTypes'
    <2>1. PICK f \in Fields : Inc(t, f) /\ UNCHANGED <<sent, dropped_lost>>
        BY <1>2 DEF EmitBegin, Drops, Drop, CountDrop, Fields
    <2> QED
        BY <2>1, IncTypes DEF CountTypes
<1>3. ASSUME NEW t \in Thread, Registers(t) \/ Publishes(t) \/ InHandSent(t) \/ ThreadExit(t) PROVE CountTypes'
    BY <1>3 DEF Registers, Register, Goto, Publishes, Publish, InHandSent, SendInHand, ThreadExit, counters, CountTypes, TypeInv
<1>4. ASSUME NEW t \in Thread, Fork(t) PROVE CountTypes'
    BY <1>4, ZeroTypes DEF Fork, CountTypes
<1>5. ASSUME NEW p \in Proc, Take(p) PROVE CountTypes'
    BY <1>5 DEF Take, counters, CountTypes
<1>6. ASSUME NEW p \in Proc, Sweep(p) PROVE CountTypes'
    <2>1. Dead \in SUBSET Registered
        BY DEF Dead, RingsInv
    <2>2. CtrSum(Dead) \in [Fields -> Nat]
        BY <2>1, SumsTyped
    <2>3. ctr' = [f \in Fields |-> ctr[f] + CtrSum(Dead)[f]]
        BY <1>6, ZeroTypes DEF Sweep, KeepCounters, CtrAdd
    <2> QED
        BY <1>6, <2>2, <2>3, ZeroTypes DEF Sweep, CountTypes
<1>7. ASSUME NEW p \in Proc, CountSent(p) \/ CountLost(p) PROVE CountTypes'
    BY <1>7, LenNat DEF CountSent, CountLost, Lost, Counted, CountTypes
<1> QED
    BY <1>1, <1>2, <1>3, <1>4, <1>5, <1>6, <1>7 DEF Accounted

LEMMA RingsInvStep == ASSUME TypeInv, Control, CountInv, Accounted PROVE RingsInv'
<1> USE DEF CountInv
<1>0. \A t \in Thread : tls[t] # None => tls[t] \in RingId /\ tls[t][1] = t
    BY DEF TypeInv, Control, ControlAt, OwnRingAt, Proc
<1>1. CASE Quiescent
    <2>1. Registered' = Registered
        BY <1>1 DEF Quiescent, accounts, Registered
    <2> QED
        BY <1>1, <2>1 DEF Quiescent, accounts, RingsInv
<1>2. ASSUME NEW t \in Thread, EmitBegin(t) \/ Drops(t) PROVE RingsInv'
    <2>1. PICK f \in Fields : Inc(t, f) /\ UNCHANGED <<rings, rb, orphan, tls>> /\ pc'[t] \in {"push", "idle"}
                               /\ \A u \in Thread \ {t} : pc'[u] = pc[u]
        BY <1>2 DEF EmitBegin, Drops, Drop, CountDrop, Fields, Goto, ringvars, TypeInv, Proc
    <2>2. \A r \in RingId : tls[t] # r => rctr'[r] = rctr[r]
        BY <2>1, IncTypes
    <2>3. Registered' = Registered
        BY <2>1 DEF Registered
    <2>4. None \notin RingId
        BY TransportAssumption DEF RingId
    <2>5. \A r \in RingId : r \notin Registered => rb'[r] = <<>> /\ rctr'[r] = ZeroCtr
        BY <2>1, <2>2, <2>4 DEF RingsInv
    <2>6. \A u \in Thread : pc'[u] = "register" => pc[u] = "register"
        BY <2>1
    <2> QED
        BY <2>1, <2>3, <2>5, <2>6 DEF RingsInv
<1>3. ASSUME NEW t \in Thread, Registers(t) PROVE RingsInv'
    <2>1. CASE UNCHANGED <<rings, tls>> 
        <3>1. Registered' = Registered
            BY <2>1 DEF Registered
        <3>2. UNCHANGED <<rb, rctr, orphan>> /\ \A u \in Thread : pc'[u] = "register" => pc[u] = "register"
            BY <1>3 DEF Registers, Register, counters, TypeInv, Proc
        <3> QED
            BY <2>1, <3>1, <3>2 DEF RingsInv
    <2>2. CASE rings' = <<FreshRing(t)>> \o rings /\ tls' = [tls EXCEPT ![t] = FreshRing(t)]
        <3>1. tls[t] = None
            BY <1>3 DEF Registers, RingsInv
        <3>2. /\ FreshRing(t) \in RingId /\ FreshRing(t) # None /\ FreshRing(t) \notin Registered
              /\ FreshRing(t)[1] = t
            BY <3>1, FreshIsNew
        <3>3. Registered' = Registered \cup {FreshRing(t)}
            BY <2>2, <3>2, Prepended
        <3>4. UNCHANGED <<rb, rctr, orphan>> /\ \A u \in Thread : pc'[u] = "register" => pc[u] = "register" /\ u # t
            BY <1>3 DEF Registers, Register, counters, TypeInv, Proc
        <3>5. tls'[t] = FreshRing(t) /\ \A u \in Thread \ {t} : tls'[u] = tls[u]
            BY <2>2 DEF TypeInv
        <3>6. \A r \in Registered : r[1] \in Thread /\ (r \in orphan \/ (tls[r[1]] = r /\ r # None))
            BY TransportAssumption, FiniteRings DEF RingsInv, RingId
        <3>7. \A r \in Registered' : r \in orphan' \/ tls'[r[1]] = r
            BY <3>1, <3>2, <3>3, <3>4, <3>5, <3>6
        <3> QED
            BY <3>1, <3>2, <3>3, <3>4, <3>5, <3>7 DEF RingsInv
    <2> QED
        BY <1>3, <2>1, <2>2 DEF Registers, Register
<1>4. ASSUME NEW t \in Thread, Publishes(t) PROVE RingsInv'
    <2>1. tls[t] # None
        BY <1>4 DEF Publishes, Control, ControlAt, OwnRingAt, Proc
    <2>2. tls[t] \in Registered /\ tls[t] \in RingId
        BY <1>0, <2>1 DEF RingsInv
    <2>3. UNCHANGED <<rings, orphan, tls, rctr>> /\ (\A u \in Thread : pc'[u] = "register" => pc[u] = "register")
          /\ \A r \in RingId : r # tls[t] => rb'[r] = rb[r]
        BY <1>4 DEF Publishes, Publish, counters, Goto, TypeInv, Proc
    <2>4. Registered' = Registered
        BY <2>3 DEF Registered
    <2>5. \A r \in RingId : r \notin Registered' => rb'[r] = <<>> /\ rctr'[r] = ZeroCtr
        BY <2>2, <2>3, <2>4 DEF RingsInv
    <2> QED
        BY <2>3, <2>4, <2>5 DEF RingsInv
<1>5. ASSUME NEW t \in Thread, InHandSent(t) PROVE RingsInv'
    <2>1. UNCHANGED <<rings, orphan, tls, rctr, rb>> /\ (\A u \in Thread : pc'[u] = "register" => pc[u] = "register")
        BY <1>5 DEF InHandSent, SendInHand, counters, ringvars, Goto, TypeInv, Proc
    <2>2. Registered' = Registered
        BY <2>1 DEF Registered
    <2> QED
        BY <2>1, <2>2 DEF RingsInv
<1>6. ASSUME NEW t \in Thread, ThreadExit(t) PROVE RingsInv'
    <2>1. /\ tls[t] = <<t, 1>> /\ UNCHANGED <<rings, rb, rctr>> /\ orphan' = orphan \cup {<<t, 1>>} /\ tls'[t] = None
          /\ (\A u \in Thread \ {t} : tls'[u] = tls[u]) /\ \A u \in Thread : pc'[u] = "register" => pc[u] = "register" /\ u # t
        BY <1>6 DEF ThreadExit, counters, Goto, TypeInv, Proc
    <2>2. Registered' = Registered
        BY <2>1 DEF Registered
    <2>3. <<t, 1>> # None /\ <<t, 1>> \in RingId
        BY TransportAssumption DEF RingId
    <2>4. <<t, 1>> \in Registered
        BY <2>1, <2>3 DEF RingsInv
    <2>5. \A u \in Thread \ {t} : tls[u] # <<t, 1>>
        BY <1>0, <2>3
    <2>6. \A r \in Registered : r[1] \in Thread
        BY FiniteRings DEF RingId
    <2>7. \A r \in Registered : r \in orphan' \/ tls'[r[1]] = r
        BY <2>1, <2>6 DEF RingsInv
    <2> QED
        BY <2>1, <2>2, <2>4, <2>5, <2>7 DEF RingsInv
<1>7. ASSUME NEW t \in Thread, Fork(t) PROVE RingsInv'
    <2>1. Registered' = {}
        BY <1>7 DEF Fork, ChildRings, Registered
    <2> QED
        BY <1>7, <2>1 DEF Fork, ChildRings, RingsInv
<1>8. ASSUME NEW p \in Proc, Take(p) PROVE RingsInv'
    <2>1. PICK r \in RingId : rb[r] # <<>> /\ rb' = [rb EXCEPT ![r] = Tail(@)]
        <3>1. todo[p] \in Seq(RingId) /\ todo[p] # <<>>
            BY <1>8 DEF Take, TypeInv
        <3>2. Head(todo[p]) \in RingId
            BY <3>1
        <3> QED
            BY <1>8, <3>2 DEF Take
    <2>2. UNCHANGED <<rings, orphan, tls, rctr, pc>>
        BY <1>8 DEF Take, counters
    <2>3. Registered' = Registered
        BY <2>2 DEF Registered
    <2> QED
        BY <2>1, <2>2, <2>3 DEF RingsInv, TypeInv
<1>9. ASSUME NEW p \in Proc, Sweep(p) PROVE RingsInv'
    <2>1. Registered' = {r \in Registered : IsLive(r)}
        BY <1>9, Unlinked DEF Sweep
    <2>2. /\ orphan' = orphan \ Dead /\ UNCHANGED <<tls, rb>> /\ rctr' = [r \in RingId |-> IF r \in Dead THEN ZeroCtr ELSE rctr[r]]
          /\ \A u \in Thread : pc'[u] = "register" => pc[u] = "register"
        BY <1>9 DEF Sweep, Goto, TypeInv, Proc
    <2> QED
        BY <2>1, <2>2 DEF RingsInv, IsLive, Dead
<1>10. ASSUME NEW p \in Proc, CountSent(p) \/ CountLost(p) PROVE RingsInv'
    <2>1. UNCHANGED <<rings, orphan, tls, rctr, rb>> /\ (\A u \in Thread : pc'[u] = "register" => pc[u] = "register")
        BY <1>10 DEF CountSent, CountLost, Counted, ringvars, Goto, TypeInv, Proc
    <2>2. Registered' = Registered
        BY <2>1 DEF Registered
    <2> QED
        BY <2>1, <2>2 DEF RingsInv
<1> QED
    BY <1>1, <1>2, <1>3, <1>4, <1>5, <1>6, <1>7, <1>8, <1>9, <1>10 DEF Accounted

-----------------------------------------------------------------------------
(* What is counted, and what is on its way.                                *)
All(f) == ctr[f] + Total(Counters(f), Registered)
Hands == {t \in Thread : cur[t] # None}
InRings == Total(Lengths, Registered)
InBatches == Total(Sizes, Proc)
Balance ==
    All("emitted") = sent + dropped_lost + All("dropped_full") + All("rejected")
                     + (Cardinality(Hands) + InRings + InBatches)

LEMMA AllNat ==
    ASSUME TypeInv, CountInv
    PROVE  /\ \A f \in Fields : All(f) \in Nat
           /\ sent \in Nat /\ dropped_lost \in Nat
<1>1. ASSUME NEW f \in Fields PROVE All(f) \in Nat
    <2>1. Total(Counters(f), Registered) \in Nat
        BY SumsTyped DEF CountInv
    <2>2. ctr[f] \in Nat
        BY DEF CountInv, CountTypes
    <2> QED
        BY <2>1, <2>2 DEF All
<1> QED
    BY <1>1 DEF CountInv, CountTypes

LEMMA FiniteProc == IsFiniteSet(Thread) /\ IsFiniteSet(Proc)
BY TransportAssumption, FS_Union DEF Proc

LEMMA WaysNat ==
    ASSUME TypeInv
    PROVE  /\ IsFiniteSet(Hands) /\ Cardinality(Hands) \in Nat
           /\ Countable(Lengths, Registered) /\ InRings \in Nat
           /\ Countable(Sizes, Proc) /\ InBatches \in Nat
<1>1. IsFiniteSet(Hands)
    BY FiniteProc, FS_Subset DEF Hands
<1>2. Countable(Lengths, Registered)
    BY FiniteRings DEF Countable, Lengths, TypeInv
<1>3. Countable(Sizes, Proc)
    BY DEF Countable, Sizes, TypeInv
<1> QED
    BY <1>1, <1>2, <1>3, FiniteRings, FiniteProc, TotalType, FS_CardinalityType DEF InRings, InBatches

LEMMA AllInc ==
    ASSUME TypeInv, CountInv, NEW t \in Thread, NEW f \in Fields, Inc(t, f), UNCHANGED rings
    PROVE  All(f)' = All(f) + 1 /\ \A g \in Fields : g # f => All(g)' = All(g)
<1> DEFINE C(g) == [r \in RingId |-> rctr'[r][g]]
<1>1. Registered' = Registered /\ Registered \subseteq RingId /\ IsFiniteSet(Registered)
    BY FiniteRings DEF Registered
<1>2. ASSUME NEW g \in Fields PROVE All(g)' = ctr'[g] + Total(C(g), Registered)
    BY <1>1 DEF All, Counters
<1>3. /\ ctr \in [Fields -> Nat] /\ rctr \in [RingId -> [Fields -> Nat]]
      /\ ctr' \in [Fields -> Nat] /\ rctr' \in [RingId -> [Fields -> Nat]]
    BY IncTypes DEF CountInv, CountTypes
<1>4. ASSUME NEW g \in Fields
      PROVE  Countable(Counters(g), Registered) /\ Countable(C(g), Registered) /\ Total(Counters(g), Registered) \in Nat
    <2>1. Countable(Counters(g), Registered) /\ Countable(C(g), Registered)
        BY <1>1, <1>3 DEF Countable, Counters
    <2> QED
        BY <1>1, <2>1, TotalType
<1>5. ASSUME NEW g \in Fields PROVE All(g) = ctr[g] + Total(Counters(g), Registered) /\ ctr[g] \in Nat
    BY <1>3 DEF All
<1> HIDE DEF Fields, C
<1>6. CASE tls[t] = None
    <2>1. ctr' = [ctr EXCEPT ![f] = @ + 1] /\ rctr' = rctr
        BY <1>6 DEF Inc
    <2>2. ASSUME NEW g \in Fields PROVE Total(C(g), Registered) = Total(Counters(g), Registered)
        BY <2>1 DEF C, Counters
    <2>3. ctr'[f] = ctr[f] + 1 /\ \A g \in Fields : g # f => ctr'[g] = ctr[g]
        BY <1>3, <2>1
    <2> QED
        BY <1>2, <1>4, <1>5, <2>2, <2>3
<1>7. CASE tls[t] # None
    <2>1. tls[t] \in RingId /\ tls[t] \in Registered
        BY <1>7 DEF TypeInv, CountInv, RingsInv
    <2>2. rctr' = [rctr EXCEPT ![tls[t]] = [rctr[tls[t]] EXCEPT ![f] = @ + 1]] /\ ctr' = ctr
        BY <1>7, <2>1 DEF Inc
    <2>3. \A r \in RingId : r # tls[t] => rctr'[r] = rctr[r]
        BY <1>3, <2>1, <2>2
    <2>4. rctr'[tls[t]] = [rctr[tls[t]] EXCEPT ![f] = @ + 1] /\ rctr[tls[t]] \in [Fields -> Nat]
        BY <1>3, <2>1, <2>2
    <2>5. rctr'[tls[t]][f] = rctr[tls[t]][f] + 1 /\ \A g \in Fields : g # f => rctr'[tls[t]][g] = rctr[tls[t]][g]
        BY <2>4
    <2>6. Total(C(f), Registered) = Total(Counters(f), Registered) + 1
        <3>1. \A r \in Registered \ {tls[t]} : Counters(f)[r] = C(f)[r]
            BY <1>1, <2>3 DEF C, Counters
        <3>2. C(f)[tls[t]] = Counters(f)[tls[t]] + 1 /\ Counters(f)[tls[t]] \in Nat
            BY <2>1, <2>4, <2>5 DEF C, Counters
        <3>3. Total(C(f), Registered) = Total(Counters(f), Registered) + C(f)[tls[t]] - Counters(f)[tls[t]]
            BY <1>1, <1>4, <2>1, <3>1, TotalChanges
        <3> QED
            BY <1>4, <3>2, <3>3
    <2>7. ASSUME NEW g \in Fields, g # f PROVE Total(C(g), Registered) = Total(Counters(g), Registered)
        <3>1. \A r \in Registered : Counters(g)[r] = C(g)[r]
            BY <1>1, <2>3, <2>5, <2>7 DEF C, Counters
        <3> QED
            BY <1>1, <3>1, TotalSame
    <2> QED
        BY <1>2, <1>4, <1>5, <2>2, <2>6, <2>7
<1> QED
    BY <1>6, <1>7

\* Nothing counted changes.
LEMMA AllKept ==
    ASSUME UNCHANGED <<rings, ctr, rctr>>
    PROVE  \A f \in Fields : All(f)' = All(f)
BY DEF All, Counters, Registered

LEMMA HandFilled ==
    ASSUME TypeInv, NEW t \in Thread, cur[t] = None, NEW x, x # None, cur' = [cur EXCEPT ![t] = x]
    PROVE  Cardinality(Hands)' = Cardinality(Hands) + 1
<1>1. Hands' = Hands \cup {t} /\ t \notin Hands
    BY DEF Hands, TypeInv
<1> QED
    BY <1>1, WaysNat, FS_AddElement

LEMMA HandEmptied ==
    ASSUME TypeInv, NEW t \in Thread, cur[t] # None, cur' = [cur EXCEPT ![t] = None]
    PROVE  Cardinality(Hands)' = Cardinality(Hands) - 1
<1>1. Hands' = Hands \ {t} /\ t \in Hands
    BY DEF Hands, TypeInv
<1> QED
    BY <1>1, WaysNat, FS_RemoveElement

LEMMA HandsKept == ASSUME UNCHANGED cur PROVE Cardinality(Hands)' = Cardinality(Hands)
BY DEF Hands

LEMMA RingChanges ==
    ASSUME TypeInv, NEW r \in Registered, NEW s \in Seq(Rec), rb' = [rb EXCEPT ![r] = s], UNCHANGED rings
    PROVE  InRings' = InRings + Len(s) - Len(rb[r])
<1> DEFINE L == [q \in RingId |-> Len(rb'[q])]
<1>1. Registered' = Registered /\ Registered \subseteq RingId /\ IsFiniteSet(Registered)
    BY FiniteRings DEF Registered
<1>2. rb \in [RingId -> Seq(Rec)] /\ rb' \in [RingId -> Seq(Rec)] /\ rb'[r] = s
    BY <1>1 DEF TypeInv
<1>3. Countable(L, Registered) /\ L[r] = Len(s) /\ Lengths[r] = Len(rb[r])
    BY <1>1, <1>2 DEF Countable, Lengths
<1>4. \A q \in Registered \ {r} : Lengths[q] = L[q]
    BY <1>1, <1>2 DEF Lengths
<1>5. Total(L, Registered) = Total(Lengths, Registered) + L[r] - Lengths[r]
    <2> HIDE DEF L
    <2> QED
        BY <1>1, <1>3, <1>4, WaysNat, TotalChanges
<1>6. InRings' = Total(L, Registered)
    BY <1>1 DEF InRings, Lengths
<1> QED
    BY <1>3, <1>5, <1>6 DEF InRings

LEMMA RingsKept == ASSUME UNCHANGED <<rings, rb>> PROVE InRings' = InRings
BY DEF InRings, Lengths, Registered

LEMMA BatchChanges ==
    ASSUME TypeInv, NEW p \in Proc, NEW s \in Seq(Rec), batch' = [batch EXCEPT ![p] = s]
    PROVE  InBatches' = InBatches + Len(s) - Len(batch[p])
<1> DEFINE L == [q \in Proc |-> Len(batch'[q])]
<1>2. batch \in [Proc -> Seq(Rec)] /\ batch' \in [Proc -> Seq(Rec)] /\ batch'[p] = s
    BY DEF TypeInv
<1>3. Countable(L, Proc) /\ L[p] = Len(s) /\ Sizes[p] = Len(batch[p])
    BY <1>2 DEF Countable, Sizes
<1>4. \A q \in Proc \ {p} : Sizes[q] = L[q]
    BY <1>2 DEF Sizes
<1>5. Total(L, Proc) = Total(Sizes, Proc) + L[p] - Sizes[p]
    <2> HIDE DEF L
    <2> QED
        BY FiniteProc, <1>3, <1>4, WaysNat, TotalChanges
<1>6. InBatches' = Total(L, Proc)
    BY DEF InBatches, Sizes
<1> QED
    BY <1>3, <1>5, <1>6 DEF InBatches

LEMMA BatchesKept == ASSUME UNCHANGED batch PROVE InBatches' = InBatches
BY DEF InBatches, Sizes

\* A new ring is empty and has counted nothing.
LEMMA RegisterKeeps ==
    ASSUME TypeInv, Control, CountInv, NEW t \in Thread, tls[t] = None,
           rings' = <<FreshRing(t)>> \o rings, UNCHANGED <<rb, ctr, rctr>>
    PROVE  InRings' = InRings /\ \A f \in Fields : All(f)' = All(f)
<1> DEFINE r == FreshRing(t)
<1>1. r \in RingId /\ r \notin Registered /\ rb[r] = <<>> /\ rctr[r] = ZeroCtr
    BY FreshIsNew DEF CountInv
<1>2. Registered' = Registered \cup {r} /\ Registered \cup {r} \subseteq RingId
    BY <1>1, Prepended, FiniteRings
<1> HIDE DEF r
<1>3. IsFiniteSet(Registered)
    BY FiniteRings
<1>4. InRings' = Total(Lengths, Registered \cup {r})
    BY <1>2 DEF InRings, Lengths
<1>5. Countable(Lengths, Registered \cup {r}) /\ Lengths[r] = 0
    BY <1>1, <1>2 DEF Countable, Lengths, TypeInv
<1>6. Total(Lengths, Registered \cup {r}) = Lengths[r] + Total(Lengths, Registered)
    BY <1>1, <1>3, <1>5, TotalAddsOne
<1>7. ASSUME NEW f \in Fields PROVE All(f)' = All(f)
    <2>1. All(f)' = ctr[f] + Total(Counters(f), Registered \cup {r})
        BY <1>2 DEF All, Counters
    <2>2. Countable(Counters(f), Registered \cup {r})
        BY <1>2 DEF Countable, Counters, CountInv, CountTypes
    <2>3. Counters(f)[r] = 0
        BY <1>1, <1>7 DEF Counters, ZeroCtr, Fields
    <2>4. Total(Counters(f), Registered \cup {r}) = Counters(f)[r] + Total(Counters(f), Registered)
        BY <1>1, <1>3, <2>2, TotalAddsOne
    <2>5. Total(Counters(f), Registered) \in Nat
        BY SumsTyped DEF CountInv
    <2> QED
        BY <2>1, <2>3, <2>4, <2>5 DEF All
<1> QED
    BY <1>4, <1>5, <1>6, <1>7, WaysNat DEF InRings

\* A sweep frees empty rings and keeps what they counted.
LEMMA SweepKeeps ==
    ASSUME TypeInv, CountInv, NEW p \in Proc, Sweep(p)
    PROVE  InRings' = InRings /\ \A f \in Fields : All(f)' = All(f)
<1> DEFINE Live == Registered \ Dead
<1>1. /\ Registered' = Live /\ Dead \in SUBSET Registered /\ Live \subseteq RingId
      /\ IsFiniteSet(Registered) /\ IsFiniteSet(Live) /\ IsFiniteSet(Dead)
    <2>1. Registered' = Live
        BY Unlinked DEF Sweep, IsLive
    <2>2. Dead \in SUBSET Registered
        BY DEF Dead, CountInv, RingsInv
    <2> QED
        BY <2>1, <2>2, FiniteRings, FS_Subset
<1>2. /\ rb' = rb /\ rctr' = [r \in RingId |-> IF r \in Dead THEN ZeroCtr ELSE rctr[r]]
      /\ \A f \in Fields : ctr'[f] = ctr[f] + CtrSum(Dead)[f]
    BY ZeroTypes DEF Sweep, KeepCounters, CtrAdd
<1>3. Registered \ (Registered \ Dead) = Dead
    BY <1>1
<1> HIDE DEF Live
<1>4. InRings' = InRings
    <2>1. InRings' = Total(Lengths, Live)
        BY <1>1, <1>2 DEF InRings, Lengths
    <2>2. Total(Lengths, Registered) = Total(Lengths, Dead) + Total(Lengths, Live)
        BY <1>1, WaysNat, TotalSplits DEF Live
    <2>3. \A r \in Dead : Lengths[r] = 0
        BY <1>1, FiniteRings DEF Lengths, Dead
    <2>4. Total(Lengths, Dead) = 0
        BY <1>1, <2>3, TotalZero
    <2>5. Countable(Lengths, Live)
        BY WaysNat DEF Live, Countable
    <2>6. Total(Lengths, Live) \in Nat
        BY <1>1, <2>5, TotalType
    <2> QED
        BY <2>1, <2>2, <2>4, <2>6 DEF InRings
<1>5. ASSUME NEW f \in Fields PROVE All(f)' = All(f)
    <2> DEFINE D == [r \in RingId |-> rctr'[r][f]]
    <2>1. All(f)' = ctr'[f] + Total(D, Live)
        BY <1>1 DEF All, Counters
    <2>2. \A r \in Live : D[r] = Counters(f)[r]
        BY <1>1, <1>2 DEF Live, Counters
    <2>3. Total(D, Live) = Total(Counters(f), Live)
        <3> HIDE DEF D
        <3> QED
            BY <1>1, <2>2, TotalSame
    <2>4. Countable(Counters(f), Registered) /\ CtrSum(Dead)[f] = Total(Counters(f), Dead) /\ Total(Counters(f), Dead) \in Nat
        BY <1>1, SumsTyped DEF CountInv
    <2>5. Total(Counters(f), Registered) = Total(Counters(f), Dead) + Total(Counters(f), Live)
        BY <1>1, <2>4, TotalSplits DEF Live
    <2>6. Total(Counters(f), Live) \in Nat
        <3>1. Live \in SUBSET Registered
            BY DEF Live
        <3> QED
            BY <3>1, SumsTyped DEF CountInv
    <2>7. ctr[f] \in Nat /\ ctr'[f] = ctr[f] + CtrSum(Dead)[f]
        BY <1>2 DEF CountInv, CountTypes
    <2> HIDE DEF D
    <2> QED
        BY <2>1, <2>3, <2>4, <2>5, <2>6, <2>7 DEF All
<1> QED
    BY <1>4, <1>5

\* The hand of a thread at the steps that fill or empty it.
LEMMA HandIs ==
    ASSUME Control, NEW t \in Thread
    PROVE  /\ pc[t] = "idle" => cur[t] = None
           /\ pc[t] \in {"push", "store", "retry", "waited"} \/ Holding(t) => cur[t] # None
BY DEF Control, ControlAt, JobsAt, HandAt, Holding, Emitting, InPass, Passing, Delivering, Proc

\* An image that starts, or a forked child, has counted nothing.
Blank ==
    /\ Registered = {} /\ ctr = ZeroCtr /\ sent = 0 /\ dropped_lost = 0
    /\ cur = [u \in Thread |-> None] /\ batch = [p \in Proc |-> <<>>]
LEMMA BlankBalances == ASSUME Blank PROVE Balance
<1>1. \A g : Total(g, {}) = 0
    BY FS_EmptySet, TotalUnfolds
<1>2. Hands = {} /\ Cardinality(Hands) = 0
    BY FS_EmptySet DEF Blank, Hands
<1>3. Countable(Sizes, Proc) /\ \A p \in Proc : Sizes[p] = 0
    BY DEF Blank, Countable, Sizes
<1>4. InRings = 0 /\ InBatches = 0
    BY <1>1, <1>3, FiniteProc, TotalZero DEF InRings, InBatches, Blank
<1>5. \A f \in Fields : All(f) = 0
    BY <1>1 DEF All, Blank, ZeroCtr, Fields
<1> QED
    BY <1>2, <1>4, <1>5 DEF Balance, Blank, Fields

LEMMA BalanceStep ==
    ASSUME TypeInv, Control, CountInv, CountTypes', Accounted, Balance
    PROVE  Balance'
<1> DEFINE E == All("emitted") F == All("dropped_full") R == All("rejected") H == Cardinality(Hands)
<1>0. E \in Nat /\ F \in Nat /\ R \in Nat /\ H \in Nat /\ InRings \in Nat /\ InBatches \in Nat /\ sent \in Nat /\ dropped_lost \in Nat
    BY AllNat, WaysNat DEF Fields
<1>b. ASSUME E' = E, F' = F, R' = R,
             sent' + dropped_lost' + H' + InRings' + InBatches' = sent + dropped_lost + H + InRings + InBatches,
             H' \in Int, InRings' \in Int, InBatches' \in Int
      PROVE  Balance'
    <2>1. sent' \in Nat /\ dropped_lost' \in Nat
        BY DEF CountTypes
    <2> QED
        BY <1>0, <1>b, <2>1 DEF Balance
<1>1. CASE Quiescent
    BY <1>1, <1>0, <1>b, AllKept, HandsKept, RingsKept, BatchesKept DEF Quiescent, accounts, Fields
<1>2. ASSUME NEW t \in Thread, EmitBegin(t) PROVE Balance'
    <2>1. Inc(t, "emitted") /\ UNCHANGED <<rings, rb, batch, sent, dropped_lost>>
        BY <1>2 DEF EmitBegin, ringvars, passvars
    <2>2. E' = E + 1 /\ F' = F /\ R' = R
        BY <2>1, AllInc DEF Fields
    <2>3. cur[t] = None /\ cur' = [cur EXCEPT ![t] = <<t, nemit[t] + 1>>]
        BY <1>2, HandIs DEF EmitBegin
    <2>4. <<t, nemit[t] + 1>> # None
        BY TransportAssumption DEF TypeInv
    <2>5. H' = H + 1
        BY <2>3, <2>4, HandFilled
    <2>6. InRings' = InRings /\ InBatches' = InBatches
        BY <2>1, RingsKept, BatchesKept
    <2> QED
        BY <1>0, <2>1, <2>2, <2>5, <2>6 DEF Balance
<1>3. ASSUME NEW t \in Thread, Drops(t) PROVE Balance'
    <2>1. PICK f \in {"dropped_full", "rejected"} :
            Inc(t, f) /\ cur' = [cur EXCEPT ![t] = None] /\ UNCHANGED <<rings, rb, batch, sent, dropped_lost>>
        BY <1>3 DEF Drops, Drop, CountDrop, ringvars, passvars
    <2>2. All(f)' = All(f) + 1 /\ \A g \in Fields : g # f => All(g)' = All(g)
        BY <2>1, AllInc DEF Fields
    <2>3. cur[t] # None
        BY <1>3, HandIs DEF Drops
    <2>4. H' = H - 1
        BY <2>1, <2>3, HandEmptied
    <2>5. InRings' = InRings /\ InBatches' = InBatches
        BY <2>1, RingsKept, BatchesKept
    <2>6. UNCHANGED <<sent, dropped_lost>>
        BY <2>1
    <2>7. CASE f = "dropped_full"
        <3>1. E' = E /\ F' = F + 1 /\ R' = R
            BY <2>2, <2>7 DEF Fields
        <3> QED
            BY <1>0, <2>4, <2>5, <2>6, <3>1 DEF Balance
    <2>8. CASE f = "rejected"
        <3>1. E' = E /\ F' = F /\ R' = R + 1
            BY <2>2, <2>8 DEF Fields
        <3> QED
            BY <1>0, <2>4, <2>5, <2>6, <3>1 DEF Balance
    <2> QED
        BY <2>1, <2>7, <2>8
<1>4. ASSUME NEW t \in Thread, Registers(t) PROVE Balance'
    <2>1. tls[t] = None /\ UNCHANGED <<cur, batch, sent, dropped_lost, rb, ctr, rctr>>
        BY <1>4 DEF Registers, Register, CountInv, RingsInv, counters, passvars
    <2>2. InRings' = InRings /\ E' = E /\ F' = F /\ R' = R
        <3>1. CASE UNCHANGED rings
            BY <2>1, <3>1, RingsKept, AllKept DEF Fields
        <3>2. CASE rings' = <<FreshRing(t)>> \o rings
            BY <2>1, <3>2, RegisterKeeps DEF Fields
        <3> QED
            BY <1>4, <3>1, <3>2 DEF Registers, Register
    <2> QED
        BY <1>0, <1>b, <2>1, <2>2, HandsKept, BatchesKept
<1>5. ASSUME NEW t \in Thread, Publishes(t) PROVE Balance'
    <2>1. /\ rb' = [rb EXCEPT ![tls[t]] = Append(rb[tls[t]], cur[t])] /\ cur' = [cur EXCEPT ![t] = None]
          /\ UNCHANGED <<rings, batch, ctr, rctr, sent, dropped_lost>> /\ cur[t] # None
        BY <1>5, HandIs DEF Publishes, Publish, counters, passvars
    <2>2. tls[t] \in Registered /\ rb[tls[t]] \in Seq(Rec) /\ cur[t] \in Rec
        BY <1>5, <2>1 DEF Publishes, Control, ControlAt, OwnRingAt, Proc, CountInv, RingsInv, TypeInv
    <2>3. Append(rb[tls[t]], cur[t]) \in Seq(Rec) /\ Len(Append(rb[tls[t]], cur[t])) = Len(rb[tls[t]]) + 1
          /\ Len(rb[tls[t]]) \in Nat
        BY <2>2
    <2>4. InRings' = InRings + Len(Append(rb[tls[t]], cur[t])) - Len(rb[tls[t]])
        BY <2>1, <2>2, <2>3, RingChanges
    <2>5. H' = H - 1
        BY <2>1, HandEmptied
    <2>6. InRings' = InRings + 1
        BY <1>0, <2>3, <2>4
    <2>7. E' = E /\ F' = F /\ R' = R /\ InBatches' = InBatches
        BY <2>1, AllKept, BatchesKept DEF Fields
    <2> QED
        BY <1>0, <1>b, <2>1, <2>5, <2>6, <2>7
<1>6. ASSUME NEW t \in Thread, InHandSent(t) PROVE Balance'
    <2>1. /\ batch' = [batch EXCEPT ![t] = <<cur[t]>>] /\ cur' = [cur EXCEPT ![t] = None] /\ cur[t] # None /\ cur[t] \in Rec
          /\ batch[t] = <<>> /\ t \in Proc /\ UNCHANGED <<rings, rb, ctr, rctr, sent, dropped_lost>>
        BY <1>6, HandIs DEF InHandSent, SendInHand, counters, ringvars, Proc, TypeInv
    <2>2. <<cur[t]>> \in Seq(Rec) /\ Len(<<cur[t]>>) = 1 /\ Len(batch[t]) = 0
        BY <2>1
    <2>3. InBatches' = InBatches + 1
        <3>1. InBatches' = InBatches + Len(<<cur[t]>>) - Len(batch[t])
            BY <2>1, <2>2, BatchChanges
        <3> QED
            BY <1>0, <2>2, <3>1
    <2>4. H' = H - 1
        BY <2>1, HandEmptied
    <2>5. E' = E /\ F' = F /\ R' = R /\ InRings' = InRings /\ UNCHANGED <<sent, dropped_lost>>
        BY <2>1, AllKept, RingsKept DEF Fields
    <2> HIDE DEF E, F, R, H
    <2> QED
        BY <1>0, <1>b, <2>3, <2>4, <2>5
<1>7. ASSUME NEW t \in Thread, ThreadExit(t) PROVE Balance'
    <2>1. UNCHANGED <<rings, rb, cur, batch, ctr, rctr, sent, dropped_lost>>
        BY <1>7 DEF ThreadExit, counters, passvars
    <2> QED
        BY <1>0, <1>b, <2>1, AllKept, HandsKept, RingsKept, BatchesKept DEF Fields
<1>8. ASSUME NEW t \in Thread, Fork(t) PROVE Balance'
    <2>1. Registered' = {} /\ ctr' = ZeroCtr /\ sent' = 0 /\ dropped_lost' = 0 /\ cur' = [u \in Thread |-> None]
          /\ batch' = [p \in Proc |-> <<>>]
        BY <1>8 DEF Fork, ChildRings, Registered
    <2>2. Blank'
        BY <2>1 DEF Blank
    <2>3. Balance'
        BY <2>2, BlankBalances, PTL
    <2> QED
        BY <2>3
<1>9. ASSUME NEW p \in Proc, Take(p) PROVE Balance'
    <2>1. todo[p] \in Seq(RingId) /\ todo[p] # <<>>
        BY <1>9 DEF Take, TypeInv
    <2>2. PICK r \in RingId : /\ rb[r] # <<>> /\ rb' = [rb EXCEPT ![r] = Tail(rb[r])]
                              /\ batch' = [batch EXCEPT ![p] = Append(batch[p], Head(rb[r]))]
        <3>1. Head(todo[p]) \in RingId
            BY <2>1
        <3> QED
            BY <1>9, <3>1 DEF Take
    <2>3. r \in Registered
        BY <2>2 DEF CountInv, RingsInv
    <2>4. rb[r] \in Seq(Rec) /\ batch[p] \in Seq(Rec)
        BY DEF TypeInv
    <2>5. /\ Tail(rb[r]) \in Seq(Rec) /\ Len(Tail(rb[r])) = Len(rb[r]) - 1 /\ Head(rb[r]) \in Rec
          /\ Len(rb[r]) \in Nat /\ Len(batch[p]) \in Nat
        BY <2>2, <2>4
    <2>6. /\ Append(batch[p], Head(rb[r])) \in Seq(Rec)
          /\ Len(Append(batch[p], Head(rb[r]))) = Len(batch[p]) + 1
        BY <2>4, <2>5
    <2>7. UNCHANGED <<rings, cur, ctr, rctr, sent, dropped_lost>>
        BY <1>9 DEF Take, counters
    <2>8. InRings' = InRings + Len(Tail(rb[r])) - Len(rb[r])
        BY <2>2, <2>3, <2>5, <2>7, RingChanges
    <2>9. InBatches' = InBatches + Len(Append(batch[p], Head(rb[r]))) - Len(batch[p])
        BY <2>2, <2>6, BatchChanges
    <2>10. InRings' = InRings - 1 /\ InBatches' = InBatches + 1
        <3> DEFINE i == Len(rb[r]) i1 == Len(Tail(rb[r])) j == Len(batch[p]) j1 == Len(Append(batch[p], Head(rb[r])))
        <3>1. /\ i \in Nat /\ i1 = i - 1 /\ j \in Nat /\ j1 = j + 1
              /\ InRings' = InRings + i1 - i /\ InBatches' = InBatches + j1 - j
            BY <2>5, <2>6, <2>8, <2>9
        <3> HIDE DEF i, i1, j, j1
        <3> QED
            BY <1>0, <3>1
    <2>11. E' = E /\ F' = F /\ R' = R /\ H' = H
        BY <2>7, AllKept, HandsKept DEF Fields
    <2>12. UNCHANGED <<sent, dropped_lost>>
        BY <2>7
    <2> HIDE DEF E, F, R, H
    <2> QED
        BY <1>0, <1>b, <2>10, <2>11, <2>12
<1>10. ASSUME NEW p \in Proc, Sweep(p) PROVE Balance'
    <2>1. UNCHANGED <<cur, batch, sent, dropped_lost>>
        BY <1>10 DEF Sweep, passvars
    <2>2. E' = E /\ F' = F /\ R' = R /\ InRings' = InRings
        BY <1>10, SweepKeeps DEF Fields
    <2> QED
        BY <1>0, <1>b, <2>1, <2>2, HandsKept, BatchesKept
<1>11. ASSUME NEW p \in Proc, CountSent(p) \/ CountLost(p) PROVE Balance'
    <2>1. batch' = [batch EXCEPT ![p] = <<>>] /\ UNCHANGED <<rings, rb, cur, ctr, rctr>>
        BY <1>11 DEF CountSent, CountLost, Counted, ringvars
    <2>3. <<>> \in Seq(Rec) /\ Len(<<>>) = 0 /\ Len(batch[p]) \in Nat
        BY LenNat
    <2>4. InBatches' = InBatches + Len(<<>>) - Len(batch[p])
        <3>1. <<>> \in Seq(Rec)
            OBVIOUS
        <3> QED
            BY <2>1, <3>1, BatchChanges
    <2>5. InBatches' = InBatches - Len(batch[p])
        BY <1>0, <2>3, <2>4
    <2>6. E' = E /\ F' = F /\ R' = R /\ H' = H /\ InRings' = InRings
        BY <2>1, AllKept, HandsKept, RingsKept DEF Fields
    <2> DEFINE j == Len(batch[p])
    <2>7. InBatches' = InBatches - j /\ j \in Nat
        BY <2>3, <2>5
    <2>8. (sent' = sent + j /\ dropped_lost' = dropped_lost) \/ (dropped_lost' = dropped_lost + j /\ sent' = sent)
        BY <1>11 DEF CountSent, CountLost, Lost
    <2> HIDE DEF E, F, R, H, j
    <2>9. CASE sent' = sent + j /\ dropped_lost' = dropped_lost
        BY <1>0, <1>b, <2>6, <2>7, <2>9
    <2>10. CASE dropped_lost' = dropped_lost + j /\ sent' = sent
        BY <1>0, <1>b, <2>6, <2>7, <2>10
    <2> QED
        BY <2>8, <2>9, <2>10
<1> QED
    BY <1>1, <1>2, <1>3, <1>4, <1>5, <1>6, <1>7, <1>8, <1>9, <1>10, <1>11 DEF Accounted

LEMMA CountInit == ASSUME Init PROVE CountInv /\ Balance
<1>1. rings = <<>> /\ Registered = {}
    BY DEF Init, Registered
<1>2. Blank
    BY <1>1 DEF Init, Blank
<1>3. CountTypes
    BY ZeroTypes DEF Init, CountTypes
<1>4. RingsInv
    BY <1>1 DEF Init, RingsInv, Proc
<1> QED
    BY <1>2, <1>3, <1>4, BlankBalances DEF CountInv

LEMMA CountStep ==
    ASSUME TypeInv, Control, CountInv, [Next]_vars
    PROVE  CountInv' /\ (Balance => Balance')
<1>1. Accounted
    BY CountCases
<1> QED
    BY <1>1, CountTypesStep, RingsInvStep, BalanceStep DEF CountInv

LEMMA CountAlways == Spec => [](TypeInv /\ Control /\ CountInv /\ Balance)
<1>1. Init => TypeInv /\ Control /\ CountInv /\ Balance
    BY TypeInit, ControlInit, CountInit
<1>2. TypeInv /\ Control /\ CountInv /\ Balance /\ [Next]_vars => (TypeInv /\ Control /\ CountInv /\ Balance)'
    BY TypeStep, ControlStep, CountStep
<1> QED
    BY <1>1, <1>2, PTL DEF Spec

(* Every record a hook produced is in exactly one place: sent, counted as  *)
(* dropped, or on its way (in hand, in a ring, in a batch), however many   *)
(* threads emit, through reconnects, freed rings, shutdowns and restarts.  *)
THEOREM AllAccounted == Spec => []Accounting
<1>1. TypeInv /\ CountInv /\ Balance => Accounting
    <2> SUFFICES ASSUME TypeInv, CountInv, Balance PROVE Accounting
        OBVIOUS
    <2> DEFINE all == CtrAdd(ctr, CtrSum(Registered))
    <2>1. all.emitted = All("emitted") /\ all.dropped_full = All("dropped_full") /\ all.rejected = All("rejected")
        <3>1. \A f \in Fields : all[f] = ctr[f] + CtrSum(Registered)[f]
            BY ZeroTypes DEF CtrAdd
        <3>2. \A f \in Fields : CtrSum(Registered)[f] = Total(Counters(f), Registered)
            BY SumsTyped DEF CountInv
        <3>3. \A f \in Fields : all[f] = All(f)
            BY <3>1, <3>2 DEF All
        <3> HIDE DEF all
        <3> QED
            BY <3>3 DEF Fields
    <2>2. MapThenSumSet(Waiting, Registered) = InRings
        BY FiniteRings, LengthsSummed DEF InRings
    <2>3. MapThenSumSet(LAMBDA p : Len(batch[p]), Proc) = InBatches
        BY SizesSummed DEF InBatches
    <2>4. all.emitted = sent + dropped_lost + all.dropped_full + all.rejected
                        + (Cardinality(Hands) + MapThenSumSet(Waiting, Registered) + MapThenSumSet(LAMBDA p : Len(batch[p]), Proc))
        <3> HIDE DEF all
        <3> QED
            BY <2>1, <2>2, <2>3 DEF Balance
    <2> QED
        BY <2>4 DEF Accounting, Hands
<1> QED
    BY <1>1, CountAlways, PTL

-----------------------------------------------------------------------------
(* The drop counters.                                                      *)
DropCount == dropped_lost + All("dropped_full") + All("rejected")

(* A record that was dropped was counted: the records behind the drop      *)
(* counters are no more than those counters say.                           *)
DropsCounted == IsFiniteSet(dropped) /\ Cardinality(dropped) <= DropCount

\* A set with at most so many more members.
LEMMA AtMost ==
    ASSUME NEW S, IsFiniteSet(S), NEW n \in Nat, NEW s \in [1..n -> Rec], NEW T, T = S \cup {s[i] : i \in 1..n}
    PROVE  IsFiniteSet(T) /\ Cardinality(T) <= Cardinality(S) + n
<1>1. IsFiniteSet(1..n) /\ Cardinality(1..n) = n
    BY FS_Interval
<1>2. IsFiniteSet({s[i] : i \in 1..n}) /\ Cardinality({s[i] : i \in 1..n}) <= Cardinality(1..n)
    <2>1. s \in Surjection(1..n, {s[i] : i \in 1..n})
        BY DEF Surjection
    <2> QED
        BY <1>1, <2>1, FS_Surjection
<1>3. IsFiniteSet(T) /\ Cardinality(T) = Cardinality(S) + Cardinality({s[i] : i \in 1..n}) - Cardinality(S \cap {s[i] : i \in 1..n})
    BY <1>2, FS_Union
<1>4. IsFiniteSet(S \cap {s[i] : i \in 1..n})
    BY FS_Subset
<1> QED
    BY <1>1, <1>2, <1>3, <1>4, FS_CardinalityType

LEMMA DropsStep ==
    ASSUME TypeInv, Control, CountInv, CountInv', Accounted, DropsCounted
    PROVE  DropsCounted'
<1> DEFINE F == All("dropped_full") R == All("rejected") D == Cardinality(dropped)
<1>0. F \in Nat /\ R \in Nat /\ dropped_lost \in Nat /\ IsFiniteSet(dropped) /\ D \in Nat /\ D <= dropped_lost + F + R
    BY AllNat, FS_CardinalityType DEF Fields, DropsCounted, DropCount
<1>b. ASSUME F' = F, R' = R, UNCHANGED <<dropped, dropped_lost>> PROVE DropsCounted'
    BY <1>b DEF DropsCounted, DropCount
<1>1. CASE Quiescent
    BY <1>1, <1>b, AllKept DEF Quiescent, accounts, Fields
<1>2. ASSUME NEW t \in Thread, EmitBegin(t) PROVE DropsCounted'
    <2>1. Inc(t, "emitted") /\ UNCHANGED <<rings, dropped, dropped_lost>>
        BY <1>2 DEF EmitBegin, ringvars
    <2>2. F' = F /\ R' = R
        BY <2>1, AllInc DEF Fields
    <2> QED
        BY <1>b, <2>1, <2>2
<1>3. ASSUME NEW t \in Thread, Drops(t) PROVE DropsCounted'
    <2>1. PICK f \in {"dropped_full", "rejected"} :
            Inc(t, f) /\ dropped' = dropped \cup {cur[t]} /\ UNCHANGED <<rings, dropped_lost>>
        BY <1>3 DEF Drops, Drop, CountDrop, ringvars
    <2>2. All(f)' = All(f) + 1 /\ \A g \in Fields : g # f => All(g)' = All(g)
        BY <2>1, AllInc DEF Fields
    <2>3. IsFiniteSet(dropped') /\ D' \in Nat /\ D' <= D + 1
        <3> DEFINE grown == dropped \cup {cur[t]}
        <3>1. IsFiniteSet(dropped) /\ Cardinality(dropped) \in Nat
            BY <1>0
        <3>2. IsFiniteSet(grown) /\ Cardinality(grown) = IF cur[t] \in dropped THEN Cardinality(dropped) ELSE Cardinality(dropped) + 1
            BY <3>1, FS_AddElement
        <3>3. dropped' = grown
            BY <2>1
        <3> HIDE DEF grown
        <3> QED
            BY <3>1, <3>2, <3>3
    <2>4. CASE f = "dropped_full"
        <3>1. F' = F + 1 /\ R' = R /\ dropped_lost' = dropped_lost
            BY <2>1, <2>2, <2>4 DEF Fields
        <3> HIDE DEF F, R, D
        <3>2. D' <= dropped_lost' + F' + R'
            BY <1>0, <2>3, <3>1
        <3> QED
            BY <2>3, <3>2 DEF DropsCounted, DropCount, D, F, R
    <2>5. CASE f = "rejected"
        <3>1. F' = F /\ R' = R + 1 /\ dropped_lost' = dropped_lost
            BY <2>1, <2>2, <2>5 DEF Fields
        <3> HIDE DEF F, R, D
        <3>2. D' <= dropped_lost' + F' + R'
            BY <1>0, <2>3, <3>1
        <3> QED
            BY <2>3, <3>2 DEF DropsCounted, DropCount, D, F, R
    <2> QED
        BY <2>1, <2>4, <2>5
<1>4. ASSUME NEW t \in Thread, Registers(t) PROVE DropsCounted'
    <2>1. tls[t] = None /\ UNCHANGED <<dropped, dropped_lost, rb, ctr, rctr>>
        BY <1>4 DEF Registers, Register, CountInv, RingsInv, counters
    <2>2. CASE UNCHANGED rings
        BY <1>b, <2>1, <2>2, AllKept DEF Fields
    <2>3. CASE rings' = <<FreshRing(t)>> \o rings
        BY <1>b, <2>1, <2>3, RegisterKeeps DEF Fields
    <2> QED
        BY <1>4, <2>2, <2>3 DEF Registers, Register
<1>5. ASSUME NEW t \in Thread, Publishes(t) \/ InHandSent(t) \/ ThreadExit(t) PROVE DropsCounted'
    <2>1. UNCHANGED <<rings, ctr, rctr, dropped, dropped_lost>>
        BY <1>5 DEF Publishes, Publish, InHandSent, SendInHand, ThreadExit, counters, ringvars
    <2> QED
        BY <1>b, <2>1, AllKept DEF Fields
<1>6. ASSUME NEW t \in Thread, Fork(t) PROVE DropsCounted'
    <2>1. dropped' = {} /\ dropped_lost' \in Nat /\ F' \in Nat /\ R' \in Nat
        <3>1. /\ ctr' = ZeroCtr /\ dropped_lost' = 0 /\ dropped' = {} /\ Registered' = {}
            BY <1>6 DEF Fork, ChildRings, Registered
        <3>2. \A g : Total(g, {}) = 0
            BY FS_EmptySet, TotalUnfolds
        <3> QED
            BY <3>1, <3>2 DEF All, ZeroCtr
    <2>2. IsFiniteSet({}) /\ Cardinality({}) = 0
        BY FS_EmptySet
    <2> QED
        BY <2>1, <2>2 DEF DropsCounted, DropCount
<1>7. ASSUME NEW p \in Proc, Take(p) PROVE DropsCounted'
    BY <1>7, <1>b, AllKept DEF Take, counters, Fields
<1>8. ASSUME NEW p \in Proc, Sweep(p) PROVE DropsCounted'
    BY <1>8, <1>b, SweepKeeps DEF Sweep, Fields
<1>9. ASSUME NEW p \in Proc, CountSent(p) PROVE DropsCounted'
    BY <1>9, <1>b, AllKept DEF CountSent, Counted, ringvars, Fields
<1>10. ASSUME NEW p \in Proc, CountLost(p) PROVE DropsCounted'
    <2> DEFINE n == Len(batch[p])
    <2>1. n \in Nat /\ batch[p] \in [1..n -> Rec]
        BY DEF TypeInv
    <2>2. dropped' = dropped \cup {batch[p][i] : i \in 1..n} /\ dropped_lost' = dropped_lost + n /\ UNCHANGED <<rings, ctr, rctr>>
        BY <1>10 DEF CountLost, Lost, BatchRecords, Counted, ringvars
    <2>3. IsFiniteSet(dropped') /\ Cardinality(dropped') <= Cardinality(dropped) + n
        BY <1>0, <2>1, <2>2, AtMost
    <2>4. F' = F /\ R' = R
        BY <2>2, AllKept DEF Fields
    <2>5. IsFiniteSet(dropped') /\ D' \in Nat /\ D' <= D + n
        BY <2>3, FS_CardinalityType
    <2> HIDE DEF F, R, D, n
    <2>6. D' <= dropped_lost' + F' + R'
        BY <1>0, <2>1, <2>2, <2>4, <2>5
    <2> QED
        BY <2>5, <2>6 DEF DropsCounted, DropCount, D, F, R
<1> QED
    BY <1>1, <1>2, <1>3, <1>4, <1>5, <1>6, <1>7, <1>8, <1>9, <1>10 DEF Accounted

(* No record is dropped behind the counters: the drop counters, which a    *)
(* status record reports, are never less than the records dropped.         *)
THEOREM AllDropsCounted == Spec => []DropsCounted
<1>1. Init => DropsCounted
    <2> SUFFICES ASSUME Init PROVE DropsCounted
        OBVIOUS
    <2>1. dropped = {} /\ IsFiniteSet({}) /\ Cardinality({}) = 0 /\ TypeInv /\ CountInv
        BY FS_EmptySet, TypeInit, CountInit DEF Init
    <2>2. DropCount \in Nat
        BY <2>1, AllNat DEF DropCount, Fields
    <2> QED
        BY <2>1, <2>2 DEF DropsCounted
<1>2. TypeInv /\ Control /\ CountInv /\ DropsCounted /\ [Next]_vars => DropsCounted'
    BY CountCases, CountStep, DropsStep
<1> QED
    BY <1>1, <1>2, CountAlways, PTL DEF Spec

-----------------------------------------------------------------------------
(* What a shutdown leaves behind.  The records owed to it are in no hand;  *)
(* once it drains under drain_mu, those still in a ring are in one it has  *)
(* yet to visit, and when it sends its status they are in none.            *)
StatusSteps == {"status", "statusrings", "statusline", "statuslock", "statussend"}
Sweeping(t) == InPass(t) /\ job[t] \in {"main", "shutdown", "exec"}
Waits(x, r) == \E i \in DOMAIN rb[r] : rb[r][i] = x
Batched(x, p) == \E i \in DOMAIN batch[p] : batch[p][i] = x

Returned(x) ==
    /\ x[1] \in Thread /\ x[2] \in Nat \ {0} /\ x = <<x[1], x[2]>> /\ x[2] <= nemit[x[1]] /\ x \notin inherited
    /\ \A u \in Thread : cur[u] # x /\ (job[u] = "one" => ~Batched(x, u))
OwedAt(t, x) ==
    /\ Returned(x)
    /\ Sweeping(t) => /\ \A r \in RingId : Waits(x, r) => \E j \in DOMAIN todo[t] : todo[t][j] = r
                      /\ \A p \in Proc \ {t} : ~Batched(x, p)
    /\ pc[t] \in StatusSteps => gave_up \/ ((\A r \in RingId : ~Waits(x, r)) /\ \A p \in Proc : ~Batched(x, p))
OwedInv ==
    /\ owed \in [Thread -> SUBSET Record]
    /\ \A t \in Thread : \A x \in owed[t] : OwedAt(t, x)

\* The step brings x nowhere it was not, and t no nearer to its status.
Quieter(t, x) ==
    /\ nemit'[x[1]] >= nemit[x[1]] /\ nemit'[x[1]] \in Nat /\ inherited' = inherited /\ (gave_up => gave_up')
    /\ \A u \in Thread : cur'[u] = x => cur[u] = x
    /\ \A r \in RingId : Waits(x, r)' => Waits(x, r)
    /\ \A p \in Proc : Batched(x, p)' => Batched(x, p)
    /\ \A u \in Thread : job'[u] = "one" /\ Batched(x, u)' => job[u] = "one"
    /\ Sweeping(t)' => Sweeping(t) /\ todo'[t] = todo[t]
    /\ pc'[t] \in StatusSteps => pc[t] \in StatusSteps \/ gave_up'

LEMMA QuieterKeeps ==
    ASSUME TypeInv, NEW t \in Thread, NEW x, OwedAt(t, x), Quieter(t, x)
    PROVE  OwedAt(t, x)'
<1>1. Returned(x)'
    <2>1. x[1] \in Thread /\ x[2] \in Nat \ {0} /\ x[2] <= nemit[x[1]] /\ nemit[x[1]] \in Nat
        BY DEF OwedAt, Returned, TypeInv
    <2>2. x[2] <= nemit'[x[1]]
        BY <2>1 DEF Quieter
    <2> QED
        BY <2>2 DEF OwedAt, Returned, Quieter, Proc
<1>2. (Sweeping(t) => /\ \A r \in RingId : Waits(x, r) => \E j \in DOMAIN todo[t] : todo[t][j] = r
                      /\ \A p \in Proc \ {t} : ~Batched(x, p))'
    BY DEF OwedAt, Quieter
<1>3. (pc[t] \in StatusSteps => gave_up \/ ((\A r \in RingId : ~Waits(x, r)) /\ \A p \in Proc : ~Batched(x, p)))'
    BY DEF OwedAt, Quieter
<1> QED
    BY <1>1, <1>2, <1>3 DEF OwedAt

\* Nothing that matters to the records owed.
Calm ==
    /\ UNCHANGED <<rb, cur, batch, todo, nemit, inherited>> /\ (gave_up => gave_up')
    /\ owed' \in [Thread -> SUBSET Record] /\ \A t \in Thread : owed'[t] \subseteq owed[t]
    /\ \A p \in Proc : job'[p] \in {job[p], "none"} /\ (pc'[p] \in Passing \cup Delivering => pc[p] \in Passing \cup Delivering)
    /\ \A t \in Thread : pc'[t] \in StatusSteps => pc[t] \in StatusSteps \/ gave_up'

Settling ==
    \/ Calm
    \/ \E t \in Thread : \/ EmitBegin(t) \/ Drops(t) \/ Publishes(t) \/ InHandSent(t) \/ Fork(t)
                         \/ \E why \in {"shutdown", "exec"} : Shutdown(t, why)
    \/ \E p \in Proc : Locking(p) \/ Take(p) \/ NextRing(p) \/ Sweep(p) \/ CountSent(p) \/ CountLost(p)

LEMMA SettleCases ==
    ASSUME TypeInv, Control, OwedInv, [Next]_vars
    PROVE  Settling
<1> USE DEF Proc
<1>0. owed \in [Thread -> SUBSET Record]
    BY DEF OwedInv
<1>a. CASE UNCHANGED vars
    BY <1>0, <1>a DEF Settling, Calm, vars, image, ringvars, passvars, history
<1>1. ASSUME Collector PROVE Calm
    BY <1>0, <1>1 DEF Collector, CloseConnection, GoDown, Stall, RateLimitEnds, envframe, Calm, ringvars, passvars, history
<1>2. ASSUME NEW p \in Proc, NEW l \in Label, Step(p, l), l \in Passing \cup Delivering => pc[p] \in Passing \cup Delivering,
             l \in StatusSteps => p \in Drain
      PROVE  Calm
    BY <1>0, <1>2, TransportAssumption DEF Step, Goto, Calm, ringvars, passvars, history, TypeInv
<1>3. ASSUME NEW p \in Proc, Deliver(p) PROVE Settling
    <2> USE <1>0 DEF Settling, Calm, Goto, TypeInv, ringvars, passvars, history, Passing, Delivering, StatusSteps
    <2>1. CASE LockSocket(p)
        BY <2>1 DEF LockSocket
    <2>2. CASE Connect(p)
        BY <2>2 DEF Connect
    <2>3. CASE Send(p)
        BY <2>3 DEF Send
    <2>4. CASE SendFailed(p)
        BY <2>4 DEF SendFailed
    <2> QED
        BY <1>3, <2>1, <2>2, <2>3, <2>4 DEF Deliver
<1>4. ASSUME NEW p \in Proc, DrainPass(p) PROVE Settling
    <2>1. CASE BatchFull(p) \/ PassDone(p)
        BY <2>1, <1>2 DEF BatchFull, PassDone, Settling, Label, Passing, Delivering, StatusSteps
    <2> QED
        BY <1>4, <2>1 DEF DrainPass, Settling
<1>5. ASSUME NEW p \in Proc, Status(p) PROVE Calm
    <2> USE <1>0 DEF Calm, Goto, TypeInv, ringvars, passvars, history, Passing, Delivering
    <2>1. CASE StatusGlobal(p) \/ StatusDelivery(p) \/ StatusConnect(p)
        BY <2>1 DEF StatusGlobal, StatusDelivery, StatusConnect, StatusSteps
    <2>2. ASSUME StatusReturns(p) PROVE Calm
        <3>1. AfterStatus(p) \notin Passing \cup Delivering \cup StatusSteps
            BY DEF AfterStatus, StatusSteps
        <3> QED
            BY <3>1, <2>2 DEF StatusReturns
    <2>3. CASE StatusRings(p)
        <3> DEFINE sum == CtrAdd(snap[p], CtrSum(Registered))
        <3>1. CASE p \in Thread /\ sum.emitted = 0
            BY <2>2, <2>3, <3>1 DEF StatusRings
        <3>2. CASE ~(p \in Thread /\ sum.emitted = 0)
            <4>1. pc[p] = "statusrings" /\ Goto(p, "statusline")
                  /\ UNCHANGED <<lifecycle, ringvars, locks, netvars, envvars, counters, cur, passvars, history>>
                BY <2>3, <3>2 DEF StatusRings
            <4> QED
                BY <4>1 DEF StatusSteps
        <3> QED
            BY <3>1, <3>2
    <2>4. CASE StatusSent(p)
        BY <2>2, <2>4 DEF StatusSent
    <2> QED
        BY <1>5, <2>1, <2>3, <2>4 DEF Status
<1>6. ASSUME NEW t \in Thread, Emit(t) PROVE Settling
    <2> USE DEF Settling
    <2> t \notin Drain
        BY TransportAssumption
    <2>1. CASE Reject(t) \/ NoMemory(t)
        BY <2>1 DEF Reject, NoMemory, Drops
    <2>2. CASE LoadState(t)
        BY <1>0, <2>2 DEF LoadState, Goto, Calm, ringvars, passvars, history, TypeInv, Passing, Delivering, StatusSteps
    <2>3. CASE Start(t)
        <3> USE <1>0, <2>3 DEF Start, Calm, ringvars, passvars, history, TypeInv, Passing, Delivering, StatusSteps
        <3>1. ASSUME NEW d \in use.drains, StartRing(t, d) PROVE Calm
            BY <3>1 DEF StartRing, Use
        <3>2. CASE StartSync(t) \/ StartedByOther(t)
            BY <3>2 DEF StartSync, StartedByOther, Goto
        <3> QED
            BY <3>1, <3>2
    <2>4. CASE Register(t)
        BY <1>0, <2>4 DEF Register, Goto, Calm, passvars, history, TypeInv, Passing, Delivering, StatusSteps
    <2>5. CASE Store(t)
        BY <2>5, <1>2 DEF Store, Publishes, Drops, Label, Passing, Delivering, StatusSteps
    <2>6. CASE Wait(t)
        BY <2>6, <1>2 DEF Wait, WaitExpires, Publishes, Drops, Label, Passing, Delivering, StatusSteps
    <2>7. CASE Check(t)
        BY <2>7, <1>2 DEF Check, Label, Passing, Delivering, StatusSteps
    <2>8. CASE DrainOwn(t)
        <3>1. CASE pc[t] = "own" /\ LockAndDrain(t, "own", <<tls[t]>>)
            <4>1. <<tls[t]>> \in Seq(RingId)
                BY <3>1 DEF Control, ControlAt, OwnRingAt, TypeInv
            <4> QED
                BY <3>1, <4>1 DEF Locking, Job
        <3>2. CASE OwnStarves(t)
            BY <1>0, <3>2 DEF OwnStarves, Goto, Calm, ringvars, passvars, history, TypeInv, Passing, Delivering, StatusSteps
        <3> QED
            BY <2>8, <3>1, <3>2 DEF DrainOwn
    <2>9. CASE EmitSync(t)
        <3>1. CASE HasLeftover(t) /\ pc[t] = "sync" /\ LockAndDrain(t, "sync", <<tls[t]>>)
            <4>1. <<tls[t]>> \in Seq(RingId)
                BY <3>1 DEF TypeInv, HasLeftover
            <4>2. "sync" \in Job /\ t \in Proc
                BY DEF Job
            <4>3. LockAndDrain(t, "sync", <<tls[t]>>) /\ pc[t] = "sync" /\ tls[t] # None
                BY <3>1 DEF HasLeftover
            <4>4. Locking(t)
                BY <4>1, <4>2, <4>3 DEF Locking
            <4> QED
                BY <4>4
        <3>2. CASE pc[t] = "sync" /\ SendInHand(t)
            BY <3>2 DEF InHandSent, Control, ControlAt, BatchAt, Delivering, Holding, Emitting
        <3> QED
            BY <2>9, <3>1, <3>2 DEF EmitSync, Overtake
    <2>10. CASE OwnDone(t)
        <3>1. CASE job[t] = "sync"
            BY <2>10, <3>1 DEF OwnDone, InHandSent, Control, ControlAt, BatchAt, Delivering, Passing, Holding, InPass, PassJobs
        <3>2. CASE job[t] # "sync"
            BY <1>0, <2>10, <3>2 DEF OwnDone, Goto, Calm, ringvars, passvars, history, TypeInv, Passing, Delivering, StatusSteps
        <3> QED
            BY <3>1, <3>2
    <2> QED
        BY <1>6, <2>1, <2>2, <2>3, <2>4, <2>5, <2>6, <2>7, <2>8, <2>9, <2>10 DEF Emit
<1>7. ASSUME NEW t \in Thread, ShutdownSteps(t) PROVE Settling
    <2> USE <1>0 DEF Settling, Goto, Calm, ringvars, passvars, history, TypeInv, Passing, Delivering, StatusSteps
    <2>1. CASE ShutdownDrain(t)
        BY <2>1 DEF ShutdownDrain, Locking
    <2>2. CASE ShutdownGivesUp(t)
        BY <2>2 DEF ShutdownGivesUp
    <2>3. CASE ExecFailed(t)
        BY <2>3 DEF ExecFailed
    <2>4. CASE JoinTimeout(t)
        BY <2>4 DEF JoinTimeout, JoinEnds
    <2>5. CASE Join(t)
        BY <2>5 DEF Join, JoinEnds
    <2> QED
        BY <1>7, <2>1, <2>2, <2>3, <2>4, <2>5 DEF ShutdownSteps
<1>8. ASSUME NEW d \in Drain, Pass(d) \/ Drained(d) PROVE Settling
    <2>1. CASE pc[d] = "lock" /\ LockAndDrain(d, "main", rings)
        BY <2>1 DEF Settling, Locking, Job, TypeInv
    <2> QED
        BY <1>8, <2>1, <1>2 DEF Pass, PassStarves, Drained, Settling, Label, Passing, Delivering, StatusSteps
<1>9. ASSUME NEW t \in Thread, Call(t) PROVE Settling
    <2>1. CASE ThreadExit(t)
        BY <1>0, <2>1 DEF ThreadExit, Goto, Settling, Calm, passvars, history, TypeInv, Passing, Delivering, StatusSteps
    <2> QED
        BY <1>9, <2>1 DEF Call, Settling
<1> QED
    BY <1>a, <1>1, <1>3, <1>4, <1>5, <1>6, <1>7, <1>8, <1>9 DEF Next, Run, Settling

LEMMA OwedStep ==
    ASSUME TypeInv, Control, CountInv, OwedInv, Settling
    PROVE  OwedInv'
<1> USE DEF OwedInv
<1>q. ASSUME owed' \in [Thread -> SUBSET Record],
             \A t \in Thread : \A x \in owed'[t] : x \in owed[t] /\ (Quieter(t, x) \/ OwedAt(t, x)')
      PROVE  OwedInv'
    BY <1>q, QuieterKeeps
<1>r. \A t \in Thread : \A x \in owed[t] : OwedAt(t, x) /\ Returned(x)
    BY DEF OwedAt
<1>n. \A t \in Thread : nemit[t] \in Nat
    BY DEF TypeInv
<1>t. /\ pc \in [Proc -> Label] /\ job \in [Proc -> Job] /\ todo \in [Proc -> Seq(RingId)]
      /\ batch \in [Proc -> Seq(Rec)] /\ cur \in [Thread -> Rec \cup {None}] /\ nemit \in [Thread -> Nat]
    BY DEF TypeInv
<1>1. CASE Calm
    <2>1. ASSUME NEW t \in Thread, NEW x \in owed'[t] PROVE x \in owed[t] /\ Quieter(t, x)
        BY <1>1, <1>n, <1>r, <2>1 DEF Calm, Quieter, Returned, Waits, Batched, Sweeping, InPass, PassJobs, Proc
    <2> QED
        BY <1>1, <1>q, <2>1 DEF Calm
<1>2. ASSUME NEW u \in Thread, EmitBegin(u) PROVE OwedInv'
    <2>1. ASSUME NEW t \in Thread, NEW x \in owed[t] PROVE Quieter(t, x)
        <3>1. Returned(x) /\ nemit[x[1]] \in Nat /\ nemit[u] \in Nat
            BY <1>n, <1>r DEF Returned
        <3>2. /\ nemit' = [nemit EXCEPT ![u] = @ + 1] /\ cur' = [cur EXCEPT ![u] = <<u, nemit[u] + 1>>]
              /\ pc' = [pc EXCEPT ![u] = "push"] /\ UNCHANGED <<rb, batch, todo, job, inherited, gave_up>>
            BY <1>2 DEF EmitBegin, Goto, ringvars, passvars
        <3>3. nemit'[x[1]] >= nemit[x[1]] /\ nemit'[x[1]] \in Nat
            BY <3>1, <3>2 DEF TypeInv, Returned
        <3>4. ASSUME NEW v \in Thread, cur'[v] = x PROVE cur[v] = x
            BY <3>1, <3>2, <3>4 DEF TypeInv, Returned
        <3> QED
            BY <1>t, <3>2, <3>3, <3>4 DEF Quieter, Waits, Batched, Sweeping, InPass, Passing, Delivering, StatusSteps, Proc
    <2>2. owed' = owed
        BY <1>2 DEF EmitBegin
    <2> QED
        BY <1>q, <2>1, <2>2
<1>3. ASSUME NEW u \in Thread, Drops(u) PROVE OwedInv'
    <2>1. /\ cur' = [cur EXCEPT ![u] = None] /\ pc' = [pc EXCEPT ![u] = "idle"]
          /\ UNCHANGED <<rb, batch, todo, job, inherited, gave_up, nemit, owed>>
        BY <1>3 DEF Drops, Drop, Goto, ringvars, passvars, history
    <2>2. ASSUME NEW t \in Thread, NEW x \in owed[t] PROVE Quieter(t, x)
        <3>1. x # None
            BY <1>r, TransportAssumption DEF Returned
        <3> QED
            BY <1>t, <1>n, <1>r, <2>1, <3>1 DEF Quieter, Returned, Waits, Batched, Sweeping, InPass, Passing, Delivering, StatusSteps, Proc
    <2> QED
        BY <1>q, <2>1, <2>2
<1>4. ASSUME NEW u \in Thread, Publishes(u) PROVE OwedInv'
    <2>1. /\ cur' = [cur EXCEPT ![u] = None] /\ pc' = [pc EXCEPT ![u] = "check"]
          /\ rb' = [rb EXCEPT ![tls[u]] = Append(rb[tls[u]], cur[u])]
          /\ UNCHANGED <<batch, todo, job, inherited, gave_up, nemit, owed>>
        BY <1>4 DEF Publishes, Publish, Goto, passvars, history
    <2>2. tls[u] \in RingId /\ rb[tls[u]] \in Seq(Rec) /\ cur[u] # None
        BY <1>4, HandIs DEF Publishes, Control, ControlAt, OwnRingAt, Proc, TypeInv
    <2>3. ASSUME NEW t \in Thread, NEW x \in owed[t] PROVE Quieter(t, x)
        <3>1. x # None /\ cur[u] # x
            BY <1>r, TransportAssumption DEF Returned
        <3>2. ASSUME NEW r \in RingId, Waits(x, r)' PROVE Waits(x, r)
            <4>1. CASE r # tls[u]
                BY <2>1, <2>2, <3>2, <4>1 DEF Waits, TypeInv
            <4>2. CASE r = tls[u]
                <5> DEFINE s == rb[tls[u]]
                <5>1. rb'[r] = Append(s, cur[u])
                    BY <2>1, <2>2, <4>2 DEF TypeInv
                <5>2. PICK i \in DOMAIN Append(s, cur[u]) : Append(s, cur[u])[i] = x
                    BY <3>2, <5>1 DEF Waits
                <5>3. i \in 1..(Len(s) + 1) /\ (i = Len(s) + 1 => Append(s, cur[u])[i] = cur[u])
                      /\ (i # Len(s) + 1 => i \in DOMAIN s /\ Append(s, cur[u])[i] = s[i])
                    BY <2>2, <5>2, Appended
                <5> QED
                    BY <3>1, <4>2, <5>2, <5>3 DEF Waits
            <4> QED
                BY <4>1, <4>2
        <3> QED
            BY <1>t, <1>n, <1>r, <2>1, <3>1, <3>2 DEF Quieter, Returned, Batched, Sweeping, InPass, Passing, Delivering, StatusSteps, Proc
    <2> QED
        BY <1>q, <2>1, <2>3
<1>5. ASSUME NEW u \in Thread, InHandSent(u) PROVE OwedInv'
    <2>1. /\ cur' = [cur EXCEPT ![u] = None] /\ pc' = [pc EXCEPT ![u] = "deliver"] /\ job' = [job EXCEPT ![u] = "one"]
          /\ batch' = [batch EXCEPT ![u] = <<cur[u]>>]
          /\ UNCHANGED <<rb, todo, inherited, gave_up, nemit, owed>>
        BY <1>5 DEF InHandSent, SendInHand, Goto, ringvars, history
    <2>2. ASSUME NEW t \in Thread, NEW x \in owed[t] PROVE Quieter(t, x)
        <3>1. x # None /\ cur[u] # x
            BY <1>r, TransportAssumption DEF Returned
        <3>2. ASSUME NEW p \in Proc, Batched(x, p)' PROVE Batched(x, p) /\ p # u
            <4>1. CASE p = u
                <5>1. batch'[p] = <<cur[u]>>
                    BY <2>1, <4>1 DEF TypeInv, Proc
                <5> QED
                    BY <3>1, <3>2, <5>1 DEF Batched
            <4>2. CASE p # u
                BY <2>1, <3>2, <4>2 DEF Batched, TypeInv
            <4> QED
                BY <4>1, <4>2
        <3>3. Sweeping(t)' => Sweeping(t)
            BY <2>1 DEF Sweeping, InPass, TypeInv, Proc
        <3>4. \A v \in Thread : job'[v] = "one" /\ Batched(x, v)' => job[v] = "one"
            BY <2>1, <3>2 DEF TypeInv, Proc
        <3> QED
            BY <1>t, <1>n, <1>r, <2>1, <3>1, <3>2, <3>3, <3>4 DEF Quieter, Returned, Waits, StatusSteps, Proc
    <2> QED
        BY <1>q, <2>1, <2>2
<1>6. ASSUME NEW u \in Thread, Fork(u) PROVE OwedInv'
    BY <1>6 DEF Fork
<1>7. ASSUME NEW u \in Thread, NEW why \in {"shutdown", "exec"}, Shutdown(u, why) PROVE OwedInv'
    <2>1. /\ owed' = [owed EXCEPT ![u] = Emitted \ InHand] /\ job' = [job EXCEPT ![u] = why]
          /\ pc'[u] \in {"join", "shutlock"} /\ \A p \in Proc \ {u} : pc'[p] = pc[p]
          /\ UNCHANGED <<rb, cur, batch, todo, nemit, gave_up, inherited>>
        BY <1>7 DEF Shutdown, Goto, ringvars, TypeInv, Proc
    <2>2. ~Sweeping(u)' /\ pc'[u] \notin StatusSteps
        BY <2>1 DEF Sweeping, InPass, Passing, Delivering, StatusSteps
    <2>3. ASSUME NEW x \in Emitted \ InHand PROVE OwedAt(u, x)'
        <3>1. x[1] \in Thread /\ x[2] \in Nat \ {0} /\ x = <<x[1], x[2]>> /\ x[2] <= nemit[x[1]] /\ x \notin inherited
            BY TransportAssumption DEF Emitted, Record, Use
        <3>2. \A v \in Thread : cur[v] # x
            BY DEF InHand
        <3>3. \A v \in Thread : job[v] = "one" => ~Batched(x, v)
            <4> SUFFICES ASSUME NEW v \in Thread, job[v] = "one", Batched(x, v) PROVE FALSE
                OBVIOUS
            <4>1. PICK i \in DOMAIN batch[v] : batch[v][i] = x
                BY DEF Batched
            <4>2. batch[v] \in Seq(Rec)
                BY DEF TypeInv, Proc
            <4>3. i \in 1..Len(batch[v])
                BY <4>1, <4>2
            <4> QED
                BY <4>1, <4>3 DEF InHand, BatchRecords
        <3>4. Returned(x)'
            BY <2>1, <3>1, <3>2, <3>3 DEF Returned, Batched, TypeInv, Proc
        <3> QED
            BY <2>2, <3>4 DEF OwedAt
    <2>4. ASSUME NEW t \in Thread \ {u}, NEW x \in owed[t] PROVE Quieter(t, x)
        BY <1>t, <1>n, <1>r, <2>1 DEF Quieter, Returned, Waits, Batched, Sweeping, InPass, Proc
    <2>5. Emitted \ InHand \in SUBSET Record
        BY DEF Emitted
    <2> QED
        BY <2>1, <2>3, <2>4, <2>5, QuieterKeeps
<1>8. ASSUME NEW p \in Proc, Locking(p) PROVE OwedInv'
    <2>1. PICK why \in Job, rs \in Seq(RingId) :
            /\ LockAndDrain(p, why, rs)
            /\ why \in {"own", "sync"} \/ (rs = rings /\ why \in {"main", "shutdown", "exec"})
        BY <1>8 DEF Locking, Control, ControlAt, JobsAt, Proc
    <2>2. /\ drain_mu = None /\ job' = [job EXCEPT ![p] = why] /\ todo' = [todo EXCEPT ![p] = rs] /\ pc' = [pc EXCEPT ![p] = "drain"]
          /\ UNCHANGED <<rb, cur, batch, nemit, gave_up, inherited, owed>> /\ why \in PassJobs
        BY <2>1 DEF LockAndDrain, Goto, ringvars, history, PassJobs
    <2>3. ASSUME NEW t \in Thread \ {p}, NEW x \in owed[t] PROVE Quieter(t, x)
        <3>1. job'[t] = job[t] /\ pc'[t] = pc[t] /\ todo'[t] = todo[t]
            BY <2>2 DEF TypeInv, Proc
        <3>2. \A u \in Thread : job'[u] = "one" => job[u] = "one"
            BY <2>2 DEF TypeInv, Proc, PassJobs
        <3> QED
            BY <1>n, <1>r, <2>2, <3>1, <3>2 DEF Quieter, Returned, Waits, Batched, Sweeping, InPass
    <2>4. ASSUME p \in Thread, NEW x \in owed[p] PROVE OwedAt(p, x)'
        <3>0. \A u \in Thread : job'[u] = "one" => job[u] = "one"
            BY <1>t, <2>2 DEF Proc, PassJobs
        <3>1. Returned(x)'
            BY <1>r, <2>2, <2>4, <3>0 DEF Returned, Batched
        <3>2. pc'[p] \notin StatusSteps
            BY <2>2 DEF StatusSteps, TypeInv
        <3>3. ASSUME Sweeping(p)', NEW r \in RingId, Waits(x, r)' PROVE \E j \in DOMAIN todo'[p] : todo'[p][j] = r
            <4>1. todo'[p] = rings
                BY <2>1, <2>2, <3>3 DEF Sweeping, TypeInv
            <4>2. rb[r] # <<>>
                BY <2>2, <3>3 DEF Waits
            <4>3. r \in Registered
                BY <4>2 DEF CountInv, RingsInv
            <4> QED
                BY <4>1, <4>3 DEF Registered, TypeInv
        <3>4. ASSUME NEW q \in Proc \ {p} PROVE ~Batched(x, q)'
            <4>1. drain_mu # q
                BY <2>2, TransportAssumption DEF Proc
            <4>2. batch[q] # <<>> => job[q] = "one" /\ q \in Thread
                BY <4>1 DEF Control, ControlAt, LocksAt, BatchAt, JobsAt, InPass, Passing
            <4>3. ~Batched(x, q)
                BY <1>r, <2>4, <4>2 DEF Batched, Returned
            <4> QED
                BY <2>2, <4>3 DEF Batched
        <3> QED
            BY <3>1, <3>2, <3>3, <3>4 DEF OwedAt
    <2> QED
        BY <2>2, <2>3, <2>4, QuieterKeeps
<1>9. ASSUME NEW p \in Proc, Take(p) PROVE OwedInv'
    <2>1. todo[p] \in Seq(RingId) /\ todo[p] # <<>>
        BY <1>9 DEF Take, TypeInv
    <2>2. PICK r0 \in RingId : /\ rb[r0] # <<>> /\ rb' = [rb EXCEPT ![r0] = Tail(rb[r0])]
                               /\ batch' = [batch EXCEPT ![p] = Append(batch[p], Head(rb[r0]))]
        <3>1. Head(todo[p]) \in RingId
            BY <2>1
        <3> QED
            BY <1>9, <3>1 DEF Take
    <2>3. UNCHANGED <<pc, job, todo, cur, nemit, gave_up, inherited, owed>> /\ pc[p] = "drain"
        BY <1>9 DEF Take, history
    <2>4. InPass(p) /\ drain_mu = p /\ job[p] # "one"
        BY <2>3 DEF InPass, Passing, Control, ControlAt, JobsAt, LocksAt, PassJobs
    <2>5. ASSUME NEW x, NEW r \in RingId, Waits(x, r)' PROVE Waits(x, r)
        <3>1. CASE r # r0
            BY <2>2, <2>5, <3>1 DEF Waits, TypeInv
        <3>2. CASE r = r0
            <4> DEFINE s == rb[r0]
            <4>1. rb'[r] = Tail(s) /\ s \in Seq(Rec) /\ s # <<>>
                BY <2>2, <3>2 DEF TypeInv
            <4>2. PICK i \in DOMAIN Tail(s) : Tail(s)[i] = x
                BY <2>5, <4>1 DEF Waits
            <4>3. i + 1 \in DOMAIN s /\ s[i + 1] = x
                BY <4>1, <4>2
            <4> QED
                BY <3>2, <4>3 DEF Waits
        <3> QED
            BY <3>1, <3>2
    <2>6. ASSUME NEW x, NEW q \in Proc, Batched(x, q)' PROVE Batched(x, q) \/ (q = p /\ Waits(x, r0))
        <3>1. CASE q # p
            BY <2>2, <2>6, <3>1 DEF Batched, TypeInv
        <3>2. CASE q = p
            <4> DEFINE s == batch[p] h == Head(rb[r0])
            <4>1. batch'[q] = Append(s, h) /\ s \in Seq(Rec)
                BY <2>2, <3>2 DEF TypeInv
            <4>2. PICK i \in DOMAIN Append(s, h) : Append(s, h)[i] = x
                BY <2>6, <4>1 DEF Batched
            <4>3. i \in 1..(Len(s) + 1) /\ (i = Len(s) + 1 => Append(s, h)[i] = h)
                  /\ (i # Len(s) + 1 => i \in DOMAIN s /\ Append(s, h)[i] = s[i])
                BY <4>1, <4>2, Appended
            <4>4. CASE i = Len(s) + 1
                <5>1. rb[r0] \in Seq(Rec) /\ rb[r0][1] = h /\ 1 \in DOMAIN rb[r0]
                    BY <2>2 DEF TypeInv
                <5> QED
                    BY <3>2, <4>2, <4>3, <4>4, <5>1 DEF Waits
            <4>5. CASE i # Len(s) + 1
                BY <3>2, <4>2, <4>3, <4>5 DEF Batched
            <4> QED
                BY <4>4, <4>5
        <3> QED
            BY <3>1, <3>2
    <2>7. ASSUME NEW t \in Thread, NEW x \in owed[t] PROVE OwedAt(t, x)'
        <3>1. Returned(x)'
            <4>1. Returned(x)
                BY <1>r
            <4>2. \A u \in Thread : job[u] = "one" => ~Batched(x, u)'
                BY <2>4, <2>6, <4>1 DEF Returned, Proc
            <4> QED
                BY <2>3, <4>1, <4>2 DEF Returned
        <3>2. Sweeping(t)' => /\ \A r \in RingId : Waits(x, r)' => \E j \in DOMAIN todo'[t] : todo'[t][j] = r
                              /\ \A q \in Proc \ {t} : ~Batched(x, q)'
            <4> SUFFICES ASSUME Sweeping(t)' PROVE /\ \A r \in RingId : Waits(x, r)' => \E j \in DOMAIN todo'[t] : todo'[t][j] = r
                                                   /\ \A q \in Proc \ {t} : ~Batched(x, q)'
                OBVIOUS
            <4>1. Sweeping(t)
                BY <2>3 DEF Sweeping, InPass
            <4>2. t = p
                BY <2>4, <4>1 DEF Sweeping, Control, ControlAt, LocksAt, Proc
            <4> QED
                BY <1>r, <2>3, <2>5, <2>6, <4>1, <4>2 DEF OwedAt
        <3>3. pc'[t] \in StatusSteps => gave_up' \/ ((\A r \in RingId : ~Waits(x, r)') /\ \A q \in Proc : ~Batched(x, q)')
            BY <1>r, <2>3, <2>5, <2>6 DEF OwedAt
        <3> QED
            BY <3>1, <3>2, <3>3 DEF OwedAt
    <2> QED
        BY <2>3, <2>7
<1>10. ASSUME NEW p \in Proc, NextRing(p) PROVE OwedInv'
    <2>1. /\ todo[p] \in Seq(RingId) /\ todo[p] # <<>> /\ rb[Head(todo[p])] = <<>> /\ todo' = [todo EXCEPT ![p] = Tail(todo[p])]
          /\ UNCHANGED <<rb, batch, pc, job, cur, nemit, gave_up, inherited, owed>>
        BY <1>10 DEF NextRing, ringvars, history, TypeInv
    <2>2. ASSUME NEW t \in Thread, NEW x \in owed[t] PROVE OwedAt(t, x)'
        <3>1. OwedAt(t, x)
            BY <1>r
        <3>2. ASSUME Sweeping(t)', NEW r \in RingId, Waits(x, r)' PROVE \E j \in DOMAIN todo'[t] : todo'[t][j] = r
            <4>1. PICK j \in DOMAIN todo[t] : todo[t][j] = r
                BY <2>1, <3>1, <3>2 DEF OwedAt, Sweeping, InPass, Waits
            <4>2. rb[r] # <<>>
                BY <2>1, <3>2 DEF Waits
            <4>3. CASE t = p
                <5> DEFINE s == todo[p]
                <5>1. s[1] # r /\ s \in Seq(RingId) /\ j \in 1..Len(s) /\ s[j] = r
                    BY <2>1, <4>1, <4>2, <4>3
                <5>2. j # 1 /\ j - 1 \in 1..(Len(s) - 1) /\ Tail(s)[j - 1] = s[j] /\ DOMAIN Tail(s) = 1..(Len(s) - 1)
                    BY <2>1, <5>1
                <5>3. todo'[t] = Tail(s)
                    BY <2>1, <4>3 DEF TypeInv
                <5> QED
                    BY <5>1, <5>2, <5>3
            <4>4. CASE t # p
                BY <2>1, <4>1, <4>4 DEF TypeInv, Proc
            <4> QED
                BY <4>3, <4>4
        <3>3. Returned(x)' /\ (Sweeping(t)' => \A q \in Proc \ {t} : ~Batched(x, q)')
            BY <2>1, <3>1 DEF OwedAt, Returned, Batched, Sweeping, InPass
        <3>4. pc'[t] \in StatusSteps => gave_up' \/ ((\A r \in RingId : ~Waits(x, r)') /\ \A q \in Proc : ~Batched(x, q)')
            BY <2>1, <3>1 DEF OwedAt, Waits, Batched
        <3> QED
            BY <3>2, <3>3, <3>4 DEF OwedAt
    <2> QED
        BY <2>1, <2>2
<1>11. ASSUME NEW p \in Proc, Sweep(p) PROVE OwedInv'
    <2>1. /\ UNCHANGED <<rb, batch, job, todo, cur, nemit, gave_up, inherited, owed>> /\ pc[p] = "sweep"
          /\ pc' = [pc EXCEPT ![p] = IF job[p] = "main" THEN "drained" ELSE "status"] /\ job[p] \in {"main", "shutdown", "exec"}
        BY <1>11 DEF Sweep, Goto, passvars, history
    <2>2. ASSUME NEW t \in Thread \ {p}, NEW x \in owed[t] PROVE Quieter(t, x)
        BY <1>t, <1>n, <1>r, <2>1 DEF Quieter, Returned, Waits, Batched, Sweeping, InPass, Proc
    <2>3. ASSUME p \in Thread, NEW x \in owed[p] PROVE OwedAt(p, x)'
        <3>1. OwedAt(p, x)
            BY <1>r, <2>3
        <3>2. Sweeping(p) /\ todo[p] = <<>> /\ batch[p] = <<>>
            BY <2>1 DEF Sweeping, InPass, Passing, Delivering, PassJobs, Control, ControlAt, BatchAt
        <3>3. (\A r \in RingId : ~Waits(x, r)) /\ \A q \in Proc : ~Batched(x, q)
            <4>1. \A r \in RingId : ~Waits(x, r)
                BY <3>1, <3>2 DEF OwedAt
            <4>2. ~Batched(x, p)
                BY <3>2 DEF Batched
            <4> QED
                BY <3>1, <3>2, <4>1, <4>2 DEF OwedAt
        <3>4. Returned(x)'
            BY <2>1, <3>1 DEF OwedAt, Returned, Batched
        <3>5. ~Sweeping(p)'
            BY <2>1 DEF Sweeping, InPass, Passing, Delivering, TypeInv
        <3> QED
            BY <2>1, <3>3, <3>4, <3>5 DEF OwedAt, Waits, Batched
    <2> QED
        BY <2>1, <2>2, <2>3, QuieterKeeps
<1>12. ASSUME NEW p \in Proc, CountSent(p) \/ CountLost(p) PROVE OwedInv'
    <2>1. /\ batch' = [batch EXCEPT ![p] = <<>>] /\ UNCHANGED <<rb, todo, cur, nemit, gave_up, inherited, owed>>
          /\ pc[p] \in Delivering /\ (\A q \in Proc : job'[q] \in {job[q], "none"})
          /\ (\A q \in Proc : pc'[q] # pc[q] => q = p /\ pc'[q] \in {"idle", "drain", "sweep"})
        BY <1>12 DEF CountSent, CountLost, Counted, Goto, ringvars, history, Delivering, TypeInv
    <2>2. ASSUME NEW t \in Thread, NEW x \in owed[t] PROVE Quieter(t, x)
        <3>1. \A q \in Proc : Batched(x, q)' => Batched(x, q)
            BY <2>1 DEF Batched, TypeInv
        <3>2. Sweeping(t)' => Sweeping(t)
            BY <2>1 DEF Sweeping, InPass, PassJobs, Passing, Delivering, Proc
        <3> QED
            BY <1>n, <1>r, <2>1, <3>1, <3>2 DEF Quieter, Returned, Waits, StatusSteps, Proc
    <2> QED
        BY <1>q, <2>1, <2>2
<1> QED
    BY <1>1, <1>2, <1>3, <1>4, <1>5, <1>6, <1>7, <1>8, <1>9, <1>10, <1>11, <1>12 DEF Settling

OwedNowhere == \A t \in Thread : pc[t] \in StatusSteps /\ ~gave_up => owed[t] \subseteq OnWire \cup dropped

LEMMA OwedInit == Init => OwedInv
BY DEF Init, OwedInv

LEMMA OwedAlways == Spec => []OwedInv
<1>1. TypeInv /\ Control /\ CountInv /\ OwedInv /\ [Next]_vars => OwedInv'
    BY SettleCases, OwedStep
<1> QED
    BY <1>1, OwedInit, CountAlways, PTL DEF Spec

(* A shutdown that got drain_mu and a buffer to drain with, and goes on to *)
(* its final status, leaves no record behind whose emit call had returned  *)
(* before it: each is on the wire or was given up and counted, whatever    *)
(* else runs.                                                              *)
THEOREM ShutdownDrains == Spec => []OwedNowhere
<1>1. TypeInv /\ RecordInv /\ OwedInv => OwedNowhere
    <2> SUFFICES ASSUME TypeInv, RecordInv, OwedInv, NEW t \in Thread, pc[t] \in StatusSteps, ~gave_up, NEW x \in owed[t]
                 PROVE  x \in OnWire \cup dropped
        BY DEF OwedNowhere
    <2>1. OwedAt(t, x) /\ Returned(x)
        BY DEF OwedInv, OwedAt
    <2>2. Present(x)
        <3>1. x[2] \in 1..nemit[x[1]]
            BY <2>1 DEF Returned, TypeInv
        <3> QED
            BY <2>1, <3>1 DEF RecordInv, NothingVanishes, Returned
    <2>3. ~InHands(x)
        BY <2>1 DEF Returned, InHands
    <2>4. ~InRing(x) /\ ~InBatch(x)
        BY <2>1 DEF OwedAt, Waits, Batched, InRing, InBatch
    <2>5. WasSent(x) => x \in OnWire
        BY DEF WasSent, OnWire, TypeInv
    <2> QED
        BY <2>2, <2>3, <2>4, <2>5 DEF Present
<1> QED
    BY <1>1, ControlAlways, RecordsAlways, OwedAlways, PTL

-----------------------------------------------------------------------------
(* The counters of the final status.  Where a program shuts down once and  *)
(* waits for the drain thread to end, nobody else frees rings while the    *)
(* counters are read.                                                      *)
Single == use.shutdowns <= 1 /\ ~use.timeout
Shutting(t) == job[t] \in {"shutdown", "exec"}
InShut(t) == Shutting(t) \/ pc[t] = "execfailed"
StatusFields == {"emitted", "dropped_full", "rejected", "sent", "dropped_lost"}

Lone ==
    /\ nshut <= 1
    /\ \A t \in Thread : InShut(t) => nshut = 1 /\ \A u \in Thread : InShut(u) => u = t
    /\ \A d \in Drain : pc[d] # "none" => drain = d
    /\ drain # None => state = "RING" \/ \E t \in Thread : pc[t] = "join"
    /\ \A t \in Thread : pc[t] = "join" => init_mu = t /\ state = "SYNC"
    /\ \A t \in Thread : InShut(t) /\ pc[t] # "join" => state = "SYNC" /\ drain = None
LifeInv ==
    /\ snap \in [Proc -> [StatusFields -> Nat]] /\ nshut \in Nat
    /\ \A t \in Thread : /\ job[t] # "main" /\ (pc[t] \in StatusSteps => Shutting(t))
                         /\ (pc[t] = "execfailed" => job[t] = "none")
    /\ Single => Lone

\* A step that is not about the lifecycle, of the process that takes it.
AsideAt(q) ==
    /\ pc'[q] = "none" <=> pc[q] = "none"
    /\ q \in Thread =>
        /\ pc'[q] = "join" <=> pc[q] = "join"
        /\ pc'[q] = "execfailed" => pc[q] = "execfailed" /\ job'[q] = job[q]
        /\ job'[q] \in {"none", "one", "own", "sync"} \/ job'[q] = job[q]
        /\ pc'[q] \in StatusSteps => (pc'[q] = pc[q] \/ Sweep(q) \/ gave_up') /\ job'[q] = job[q]
        /\ pc'[q] \in StatusSteps => Shutting(q)
Aside ==
    /\ UNCHANGED <<state, drain, init_mu, nshut, snap, use>> /\ (gave_up => gave_up')
    /\ \A q \in Proc : AsideAt(q)
Living ==
    \/ Aside
    \/ \E p \in Proc : Status(p) /\ UNCHANGED use
    \/ \E t \in Thread :
        /\ UNCHANGED use
        /\ \/ Start(t) \/ Join(t) \/ JoinTimeout(t) \/ ExecFailed(t) \/ Fork(t)
           \/ \E why \in {"shutdown", "exec"} : Shutdown(t, why)

LEMMA AsideBy ==
    ASSUME TypeInv, LifeInv, NEW p \in Proc, NEW l \in Label, NEW j \in Job,
           pc' = [pc EXCEPT ![p] = l], job' = [job EXCEPT ![p] = j],
           UNCHANGED <<state, drain, init_mu, nshut, snap, use>>, gave_up => gave_up',
           pc[p] \notin {"none", "join"}, l \notin {"none", "join", "execfailed"},
           p \in Thread => /\ j \in {"none", "one", "own", "sync"} \/ j = job[p]
                           /\ l \in StatusSteps => (l = pc[p] \/ Sweep(p) \/ gave_up') /\ j = job[p] /\ Shutting(p)
    PROVE  Aside
<1>1. ASSUME NEW q \in Proc \ {p} PROVE AsideAt(q)
    BY <1>1 DEF AsideAt, LifeInv, TypeInv
<1>2. AsideAt(p)
    BY DEF AsideAt, TypeInv, StatusSteps
<1> QED
    BY <1>1, <1>2 DEF Aside

LEMMA LifeCases ==
    ASSUME TypeInv, Control, LifeInv, Next
    PROVE  Living
<1> USE DEF Living
<1>0. UNCHANGED use /\ \A p \in Proc : job[p] \in Job /\ pc[p] \in Label
    BY DEF Next, TypeInv
<1>j. ASSUME UNCHANGED job, NEW p \in Proc PROVE job' = [job EXCEPT ![p] = job[p]]
    BY <1>j DEF TypeInv
<1>1. ASSUME Collector PROVE Aside
    BY <1>0, <1>1 DEF Collector, CloseConnection, GoDown, Stall, RateLimitEnds, envframe, Aside, AsideAt, LifeInv,
        lifecycle, locks, passvars, history
<1>2. ASSUME NEW p \in Proc, NEW l \in Label, Step(p, l), pc[p] \notin {"none", "join"}, l \notin {"none", "join", "execfailed"},
             l \in StatusSteps => p \in Drain
      PROVE  Aside
    <2>1. /\ pc' = [pc EXCEPT ![p] = l] /\ UNCHANGED <<job, state, drain, init_mu, nshut, snap, gave_up>>
        BY <1>2 DEF Step, Goto, lifecycle, locks, passvars, history
    <2>2. job' = [job EXCEPT ![p] = job[p]]
        BY <1>j, <2>1
    <2>3. p \in Thread => l \notin StatusSteps
        BY <1>2, TransportAssumption
    <2> QED
        BY <1>0, <1>2, <2>1, <2>2, <2>3, AsideBy
<1>3. ASSUME NEW p \in Proc, Deliver(p) PROVE Aside
    <2> USE DEF Goto, lifecycle, locks, passvars, history, Label, StatusSteps
    <2>1. CASE LockSocket(p) \/ Connect(p) \/ Send(p) \/ SendFailed(p)
        <3>1. PICK l \in {"connect", "send", "lost", "sent"} :
                /\ pc' = [pc EXCEPT ![p] = l] /\ UNCHANGED <<job, state, drain, init_mu, nshut, snap, gave_up>>
                /\ pc[p] \notin {"none", "join"}
            <4>1. CASE LockSocket(p)
                BY <4>1 DEF LockSocket
            <4>2. CASE Connect(p)
                BY <4>2 DEF Connect
            <4>3. CASE Send(p)
                BY <4>3 DEF Send, TypeInv
            <4>4. CASE SendFailed(p)
                BY <4>4 DEF SendFailed
            <4> QED
                BY <2>1, <4>1, <4>2, <4>3, <4>4
        <3>2. job' = [job EXCEPT ![p] = job[p]]
            BY <1>j, <3>1
        <3> QED
            BY <1>0, <3>1, <3>2, AsideBy
    <2>2. CASE CountSent(p) \/ CountLost(p)
        <3>1. PICK l \in {"idle", "drain", "sweep"}, j \in {"none", job[p]} :
                /\ pc' = [pc EXCEPT ![p] = l] /\ job' = [job EXCEPT ![p] = j]
                /\ UNCHANGED <<state, drain, init_mu, nshut, snap, gave_up>> /\ pc[p] \notin {"none", "join"}
            <4>1. Counted(p) /\ pc[p] \notin {"none", "join"}
                BY <2>2 DEF CountSent, CountLost
            <4>2. job' = [job EXCEPT ![p] = IF job[p] = "one" THEN "none" ELSE job[p]]
                BY <4>1, <1>j DEF Counted
            <4> QED
                BY <4>1, <4>2 DEF Counted
        <3>2. j \in Job
            BY <1>0, <3>1 DEF Job
        <3> QED
            BY <1>0, <3>1, <3>2, AsideBy
    <2> QED
        BY <1>3, <2>1, <2>2 DEF Deliver
<1>4. ASSUME NEW p \in Proc, DrainPass(p) PROVE Aside
    <2>1. CASE BatchFull(p) \/ PassDone(p)
        BY <2>1, <1>2 DEF BatchFull, PassDone, Label, StatusSteps
    <2>2. CASE Take(p) \/ NextRing(p)
        <3>1. UNCHANGED <<pc, job, state, drain, init_mu, nshut, snap, gave_up>>
            BY <2>2 DEF Take, NextRing, lifecycle, locks, history
        <3> QED
            BY <1>0, <3>1 DEF Aside, AsideAt, LifeInv
    <2>3. CASE Sweep(p)
        <3>1. /\ pc' = [pc EXCEPT ![p] = IF job[p] = "main" THEN "drained" ELSE "status"]
              /\ UNCHANGED <<job, state, drain, init_mu, nshut, snap, gave_up>> /\ pc[p] = "sweep"
              /\ job[p] \in {"main", "shutdown", "exec"}
            BY <2>3 DEF Sweep, Goto, lifecycle, passvars, history
        <3>2. job' = [job EXCEPT ![p] = job[p]]
            BY <1>j, <3>1
        <3> QED
            BY <1>0, <2>3, <3>1, <3>2, AsideBy DEF Label, StatusSteps, Shutting
    <2> QED
        BY <1>4, <2>1, <2>2, <2>3 DEF DrainPass
<1>5. ASSUME NEW p \in Proc, NEW why \in Job, NEW rs, LockAndDrain(p, why, rs), pc[p] \notin {"none", "join"},
             p \in Thread => why \in {"own", "sync"} \/ why = job[p]
      PROVE  Aside
    <2>1. /\ pc' = [pc EXCEPT ![p] = "drain"] /\ job' = [job EXCEPT ![p] = why]
          /\ UNCHANGED <<state, drain, init_mu, nshut, snap, gave_up>>
        BY <1>5 DEF LockAndDrain, Goto, lifecycle, history
    <2> QED
        BY <1>0, <1>5, <2>1, AsideBy DEF Label, StatusSteps
<1>6. ASSUME NEW t \in Thread, SendInHand(t), UNCHANGED <<state, drain, init_mu>>, pc[t] \notin {"none", "join"} PROVE Aside
    <2>1. /\ pc' = [pc EXCEPT ![t] = "deliver"] /\ job' = [job EXCEPT ![t] = "one"]
          /\ UNCHANGED <<state, drain, init_mu, nshut, snap, gave_up>>
        BY <1>6 DEF SendInHand, Goto, history
    <2> QED
        BY <1>0, <1>6, <2>1, AsideBy DEF Label, StatusSteps, Job, Proc
<1>7. ASSUME NEW t \in Thread, NEW l \in Label, pc' = [pc EXCEPT ![t] = l], pc[t] \notin {"none", "join"},
             l \notin {"none", "join", "execfailed"} \cup StatusSteps, UNCHANGED <<job, state, drain, init_mu, nshut, snap, gave_up>>
      PROVE  Aside
    <2>1. t \in Proc
        BY DEF Proc
    <2>2. job' = [job EXCEPT ![t] = job[t]]
        BY <1>j, <1>7, <2>1
    <2> QED
        BY <1>0, <1>7, <2>1, <2>2, AsideBy
<1>8. ASSUME NEW t \in Thread, NEW f, Drop(t, f), pc[t] \in {"push", "store", "waited"} PROVE Aside
    BY <1>7, <1>8 DEF Drop, Goto, Label, StatusSteps, lifecycle, locks, passvars, history
<1>9. ASSUME NEW t \in Thread, Publish(t), pc[t] \in {"store", "retry"} PROVE Aside
    BY <1>7, <1>9 DEF Publish, Goto, Label, StatusSteps, lifecycle, locks, passvars, history
<1>10. ASSUME NEW t \in Thread, Emit(t) PROVE Living
    <2> t \in Proc /\ t \notin Drain
        BY TransportAssumption DEF Proc
    <2>1. CASE Reject(t) \/ NoMemory(t)
        BY <2>1, <1>8 DEF Reject, NoMemory
    <2>2. CASE LoadState(t)
        <3>1. PICK l \in {"start", "register", "store", "sync"} :
                /\ pc' = [pc EXCEPT ![t] = l] /\ pc[t] \in {"push", "push2"}
                /\ UNCHANGED <<job, state, drain, init_mu, nshut, snap, gave_up>>
            BY <2>2 DEF LoadState, Goto, lifecycle, locks, passvars, history
        <3> QED
            BY <1>7, <3>1 DEF Label, StatusSteps
    <2>3. CASE Start(t)
        BY <1>0, <2>3
    <2>4. CASE Register(t)
        <3>1. PICK l \in {"store", "sync"} :
                /\ pc' = [pc EXCEPT ![t] = l] /\ pc[t] = "register"
                /\ UNCHANGED <<job, state, drain, init_mu, nshut, snap, gave_up>>
            BY <2>4 DEF Register, Goto, lifecycle, locks, passvars, history
        <3> QED
            BY <1>7, <3>1 DEF Label, StatusSteps
    <2>5. CASE Store(t)
        BY <2>5, <1>2, <1>8, <1>9 DEF Store, Label, StatusSteps
    <2>6. CASE Wait(t)
        BY <2>6, <1>2, <1>8, <1>9 DEF Wait, WaitExpires, Label, StatusSteps
    <2>7. CASE Check(t)
        BY <2>7, <1>2 DEF Check, Label, StatusSteps
    <2>8. CASE DrainOwn(t)
        <3>1. CASE pc[t] = "own" /\ LockAndDrain(t, "own", <<tls[t]>>)
            BY <3>1, <1>5 DEF Job
        <3>2. CASE OwnStarves(t)
            BY <3>2, <1>7 DEF OwnStarves, Starved, Goto, Label, StatusSteps, locks, passvars, history
        <3> QED
            BY <2>8, <3>1, <3>2 DEF DrainOwn
    <2>9. CASE EmitSync(t)
        <3>1. CASE pc[t] = "sync" /\ LockAndDrain(t, "sync", <<tls[t]>>)
            BY <3>1, <1>5 DEF Job
        <3>2. CASE pc[t] = "sync" /\ SendInHand(t) /\ UNCHANGED <<lifecycle, locks>>
            BY <3>2, <1>6 DEF lifecycle, locks
        <3>3. CASE Overtake(t)
            BY <3>3, <1>6 DEF Overtake, Starved, locks
        <3> QED
            BY <2>9, <3>1, <3>2, <3>3 DEF EmitSync
    <2>10. CASE OwnDone(t)
        <3>1. CASE job[t] = "sync"
            BY <2>10, <3>1, <1>6 DEF OwnDone, lifecycle
        <3>2. CASE job[t] # "sync"
            <4>1. /\ pc' = [pc EXCEPT ![t] = "idle"] /\ job' = [job EXCEPT ![t] = "none"] /\ pc[t] = "sweep"
                  /\ UNCHANGED <<state, drain, init_mu, nshut, snap, gave_up>>
                BY <2>10, <3>2 DEF OwnDone, Goto, lifecycle, history
            <4> QED
                BY <1>0, <4>1, AsideBy DEF Label, StatusSteps, Job
        <3> QED
            BY <3>1, <3>2
    <2> QED
        BY <1>10, <2>1, <2>2, <2>3, <2>4, <2>5, <2>6, <2>7, <2>8, <2>9, <2>10 DEF Emit
<1>11. ASSUME NEW t \in Thread, ShutdownSteps(t) PROVE Living
    <2> t \in Proc
        BY DEF Proc
    <2>1. CASE ShutdownDrain(t)
        BY <1>0, <2>1, <1>5 DEF ShutdownDrain
    <2>2. CASE ShutdownGivesUp(t)
        <3>1. /\ pc' = [pc EXCEPT ![t] = "status"] /\ pc[t] = "shutlock" /\ gave_up' = TRUE
              /\ UNCHANGED <<job, state, drain, init_mu, nshut, snap>>
            BY <2>2 DEF ShutdownGivesUp, Goto, lifecycle, locks, passvars
        <3>2. Shutting(t)
            BY <3>1 DEF Control, ControlAt, JobsAt, Shutting
        <3>3. job' = [job EXCEPT ![t] = job[t]]
            BY <1>j, <3>1
        <3> QED
            BY <1>0, <3>1, <3>2, <3>3, AsideBy DEF Label, StatusSteps
    <2> QED
        BY <1>0, <1>11, <2>1, <2>2 DEF ShutdownSteps
<1>12. ASSUME NEW d \in Drain, Pass(d) \/ Drained(d) PROVE Living
    <2> d \in Proc /\ d \notin Thread
        BY TransportAssumption DEF Proc
    <2>1. CASE pc[d] = "lock" /\ LockAndDrain(d, "main", rings)
        BY <2>1, <1>5 DEF Job
    <2> QED
        BY <1>12, <2>1, <1>2 DEF Pass, PassStarves, Drained, Label, StatusSteps
<1>13. ASSUME NEW t \in Thread, Call(t) PROVE Living
    <2>1. CASE EmitBegin(t)
        BY <2>1, <1>7 DEF EmitBegin, Goto, Label, StatusSteps, lifecycle, locks, passvars
    <2>2. CASE ThreadExit(t)
        <3>1. PICK l \in {"idle", "gone"} :
                /\ pc' = [pc EXCEPT ![t] = l] /\ pc[t] = "idle"
                /\ UNCHANGED <<job, state, drain, init_mu, nshut, snap, gave_up>>
            BY <2>2 DEF ThreadExit, Goto, lifecycle, locks, passvars, history, TypeInv, Proc
        <3> QED
            BY <1>7, <3>1 DEF Label, StatusSteps
    <2> QED
        BY <1>0, <1>13, <2>1, <2>2 DEF Call
<1> QED
    BY <1>0, <1>1, <1>3, <1>4, <1>10, <1>11, <1>12, <1>13 DEF Next, Run

LEMMA StatusTypes ==
    ASSUME TypeInv, CountInv, LifeInv, NEW p \in Proc, Status(p)
    PROVE  snap' \in [Proc -> [StatusFields -> Nat]]
<1>1. snap \in [Proc -> [StatusFields -> Nat]] /\ snap[p] \in [StatusFields -> Nat]
    BY DEF LifeInv
<1>2. ASSUME NEW c \in [Fields -> Nat] PROVE Counts(c) \in [StatusFields -> Nat]
    BY <1>2, ZeroTypes DEF Counts, ZeroStatus, StatusFields
<1>3. ZeroStatus \in [StatusFields -> Nat]
    BY DEF ZeroStatus, StatusFields
<1>4. ASSUME NEW v \in [StatusFields -> Nat], snap' = [snap EXCEPT ![p] = v] PROVE snap' \in [Proc -> [StatusFields -> Nat]]
    BY <1>1, <1>4
<1> HIDE DEF StatusFields, Fields
<1>5. CASE StatusGlobal(p)
    BY <1>2, <1>4, <1>5 DEF StatusGlobal, CountInv, CountTypes
<1>6. CASE StatusRings(p)
    <2> DEFINE sum == CtrAdd(snap[p], CtrSum(Registered))
    <2>1. CtrSum(Registered) \in [Fields -> Nat]
        BY SumsTyped DEF CountInv
    <2>2. sum \in [Fields -> Nat]
        BY <1>1, <2>1, ZeroTypes DEF CtrAdd, Fields, StatusFields
    <2> HIDE DEF sum
    <2> QED
        BY <1>2, <1>3, <1>4, <1>6, <2>2 DEF StatusRings, StatusReturns, sum
<1>7. CASE StatusDelivery(p)
    <2>1. snap' = [snap EXCEPT ![p] = [[snap[p] EXCEPT !.sent = sent] EXCEPT !.dropped_lost = dropped_lost]]
        BY <1>1, <1>7 DEF StatusDelivery
    <2>2. [[snap[p] EXCEPT !.sent = sent] EXCEPT !.dropped_lost = dropped_lost] \in [StatusFields -> Nat]
        BY <1>1 DEF CountInv, CountTypes
    <2> QED
        BY <1>4, <2>1, <2>2
<1>8. CASE StatusConnect(p)
    BY <1>1, <1>8 DEF StatusConnect
<1>9. CASE StatusSent(p)
    BY <1>3, <1>4, <1>9 DEF StatusSent, StatusReturns
<1> QED
    BY <1>5, <1>6, <1>7, <1>8, <1>9 DEF Status

LEMMA LifeInit == Init => LifeInv
<1> SUFFICES ASSUME Init PROVE LifeInv
    OBVIOUS
<1>1. snap \in [Proc -> [StatusFields -> Nat]]
    BY DEF Init, ZeroStatus, StatusFields
<1>2. \A t \in Thread : pc[t] \in {"idle", "none", "gone"} /\ job[t] = "none"
    BY DEF Init, Proc
<1>3. \A d \in Drain : pc[d] = "none" /\ drain = None /\ nshut = 0 /\ ~gave_up
    BY TransportAssumption DEF Init, Proc, Use
<1>4. drain = None /\ nshut = 0 /\ gave_up = FALSE
    BY DEF Init
<1> QED
    BY <1>1, <1>2, <1>3, <1>4 DEF LifeInv, Lone, InShut, Shutting, StatusSteps

LEMMA LifeStep ==
    ASSUME TypeInv, Control, CountInv, LifeInv, [Next]_vars
    PROVE  LifeInv'
<1> USE DEF Proc
<1>0. CASE UNCHANGED vars
    BY <1>0 DEF vars, image, lifecycle, locks, passvars, history, LifeInv, Lone, Single, InShut, Shutting
<1>s. ASSUME NEW t \in Thread PROVE /\ pc[t] \in {"join", "shutlock"} => Shutting(t)
                                    /\ pc[t] = "idle" => cur[t] = None
    BY DEF Control, ControlAt, JobsAt, Shutting, HandAt, Holding, Emitting, InPass, Passing, Delivering
<1>1. CASE Aside
    <2>1. \A t \in Thread : /\ pc'[t] = "join" <=> pc[t] = "join"
                            /\ InShut(t)' => InShut(t)
        BY <1>1 DEF Aside, AsideAt, InShut, Shutting
    <2>2. \A t \in Thread : /\ job'[t] # "main" /\ (pc'[t] \in StatusSteps => Shutting(t)')
                            /\ (pc'[t] = "execfailed" => job'[t] = "none")
        BY <1>1 DEF Aside, AsideAt, LifeInv, Shutting
    <2>3. Single => Lone'
        BY <1>1, <2>1 DEF Aside, AsideAt, LifeInv, Lone
    <2> QED
        BY <1>1, <2>2, <2>3 DEF Aside, LifeInv, Single
<1>2. ASSUME NEW p \in Proc, Status(p), UNCHANGED use PROVE LifeInv'
    <2>1. UNCHANGED <<state, drain, init_mu, nshut, gave_up>> /\ pc[p] \in StatusSteps
        BY <1>2 DEF Status, StatusGlobal, StatusRings, StatusDelivery, StatusConnect, StatusSent, StatusReturns, lifecycle, locks,
            history, StatusSteps
    <2>2. \/ pc'[p] \in StatusSteps /\ job' = job
          \/ pc'[p] = AfterStatus(p) /\ job' = [job EXCEPT ![p] = "none"]
        <3> USE <1>2 DEF Status, StatusReturns, passvars, StatusSteps, Goto, TypeInv
        <3>1. CASE StatusGlobal(p)
            BY <3>1 DEF StatusGlobal
        <3>2. CASE StatusRings(p)
            BY <3>2 DEF StatusRings
        <3>3. CASE StatusDelivery(p)
            BY <3>3 DEF StatusDelivery
        <3>4. CASE StatusConnect(p)
            BY <3>4 DEF StatusConnect
        <3>5. CASE StatusSent(p)
            BY <3>5 DEF StatusSent
        <3> QED
            BY <3>1, <3>2, <3>3, <3>4, <3>5
    <2>3. \A q \in Proc \ {p} : pc'[q] = pc[q] /\ job'[q] = job[q]
        <3> USE <1>2 DEF Status, StatusReturns, passvars, Goto, TypeInv
        <3>1. CASE StatusGlobal(p)
            BY <3>1 DEF StatusGlobal
        <3>2. CASE StatusRings(p)
            BY <3>2 DEF StatusRings
        <3>3. CASE StatusDelivery(p)
            BY <3>3 DEF StatusDelivery
        <3>4. CASE StatusConnect(p)
            BY <3>4 DEF StatusConnect
        <3>5. CASE StatusSent(p)
            BY <3>5 DEF StatusSent
        <3> QED
            BY <3>1, <3>2, <3>3, <3>4, <3>5
    <2>4. p \in Thread => Shutting(p) /\ AfterStatus(p) \in {"idle", "execfailed"}
        BY <2>1, TransportAssumption DEF LifeInv, AfterStatus
    <2>5. p \in Drain => AfterStatus(p) = "loop" /\ p \notin Thread
        BY TransportAssumption DEF AfterStatus
    <2>6. \A t \in Thread : /\ (pc'[t] = "join" <=> pc[t] = "join") /\ (InShut(t)' => InShut(t))
                            /\ job'[t] # "main" /\ (pc'[t] \in StatusSteps => Shutting(t)')
                            /\ (pc'[t] = "execfailed" => job'[t] = "none")
        BY <2>1, <2>2, <2>3, <2>4, <2>5 DEF LifeInv, InShut, Shutting, StatusSteps, TypeInv
    <2>7. \A d \in Drain : pc'[d] # "none" => pc[d] # "none"
        BY <2>1, <2>3 DEF StatusSteps
    <2>8. Single => Lone'
        BY <2>1, <2>6, <2>7 DEF LifeInv, Lone
    <2> QED
        BY <1>2, <2>1, <2>6, <2>8, StatusTypes DEF LifeInv, Single
<1>3. ASSUME NEW t \in Thread, Start(t), UNCHANGED use PROVE LifeInv'
    <2>0. UNCHANGED <<job, nshut, snap, gave_up, init_mu>> /\ pc[t] = "start" /\ init_mu = None
        BY <1>3 DEF Start, locks, passvars, history
    <2>1. CASE StartSync(t) \/ StartedByOther(t)
        <3>1. pc' = [pc EXCEPT ![t] = "push2"] /\ drain' = drain /\ (state' = state \/ (state = "UNINIT" /\ state' = "SYNC"))
            BY <2>1 DEF StartSync, StartedByOther, Goto, lifecycle
        <3>2. \A u \in Thread : (pc'[u] = "join" <=> pc[u] = "join") /\ (InShut(u)' <=> InShut(u))
            BY <2>0, <3>1 DEF InShut, Shutting, TypeInv
        <3>3. Single => Lone'
            BY <2>0, <3>1, <3>2, TransportAssumption DEF LifeInv, Lone, TypeInv
        <3> QED
            BY <1>3, <2>0, <3>1, <3>3 DEF LifeInv, Single, Shutting, StatusSteps, TypeInv
    <2>2. ASSUME NEW d \in use.drains, StartRing(t, d) PROVE LifeInv'
        <3>1. /\ d \in Drain /\ d # None /\ d \notin Thread
              /\ state = "UNINIT" /\ state' = "RING" /\ drain' = d /\ pc' = [pc EXCEPT ![t] = "push2", ![d] = "loop"]
            BY <2>2, TransportAssumption DEF StartRing, TypeInv, Use
        <3>2. \A u \in Thread : (pc'[u] = "join" <=> pc[u] = "join") /\ (InShut(u)' <=> InShut(u))
            BY <2>0, <3>1 DEF InShut, Shutting, TypeInv
        <3>3. \A e \in Drain \ {d} : pc'[e] = pc[e]
            BY <3>1, TransportAssumption DEF TypeInv
        <3>4. Single => Lone'
            <4> SUFFICES ASSUME Single, Lone PROVE Lone'
                BY DEF LifeInv
            <4>1. drain = None /\ \A u \in Thread : pc[u] # "join" /\ ~InShut(u)
                BY <2>0, <3>1, TransportAssumption DEF Lone
            <4>2. \A e \in Drain : pc[e] = "none"
                BY <4>1, TransportAssumption DEF Lone
            <4> QED
                BY <2>0, <3>1, <3>2, <3>3, <4>1, <4>2 DEF Lone
        <3> QED
            BY <1>3, <2>0, <3>1, <3>4 DEF LifeInv, Single, Shutting, StatusSteps, TypeInv
    <2> QED
        BY <1>3, <2>1, <2>2 DEF Start
<1>4. ASSUME NEW t \in Thread, Join(t) \/ JoinTimeout(t), UNCHANGED use PROVE LifeInv'
    <2>0. /\ UNCHANGED <<job, nshut, snap, gave_up, state>> /\ pc[t] = "join" /\ drain' = None /\ init_mu' = None
          /\ pc'[t] = "shutlock" /\ \A u \in Thread \ {t} : pc'[u] = pc[u] \/ (pc'[u] = "none" /\ drain = u)
        BY <1>4 DEF Join, JoinTimeout, JoinEnds, Goto, passvars, history, TypeInv
    <2>1. Single => Lone'
        <3> SUFFICES ASSUME Single, Lone PROVE Lone'
            BY DEF LifeInv
        <3>1. Join(t)
            BY <1>4 DEF JoinTimeout, Single
        <3>2. init_mu = t /\ state = "SYNC" /\ Shutting(t)
            BY <1>s, <2>0 DEF Lone
        <3>3. \A u \in Thread : u # t => pc[u] # "join" /\ ~InShut(u)
            BY <2>0, <3>2 DEF Lone, InShut
        <3>4. pc' = [pc EXCEPT ![t] = "shutlock", ![drain] = "none"] /\ pc[drain] = "dead"
            BY <3>1 DEF Join
        <3>5. \A d \in Drain : pc'[d] = "none"
            BY <3>4, TransportAssumption DEF Lone, TypeInv
        <3>6. \A u \in Thread : InShut(u)' => u = t
            BY <2>0, <3>3 DEF InShut, Shutting
        <3>7. \A u \in Thread : pc'[u] # "join"
            BY <2>0, <3>3
        <3>8. nshut = 1
            BY <3>2 DEF Lone, InShut
        <3> QED
            BY <2>0, <3>2, <3>5, <3>6, <3>7, <3>8 DEF Lone
    <2> QED
        BY <1>4, <2>0, <2>1 DEF LifeInv, Single, Shutting, StatusSteps
<1>5. ASSUME NEW t \in Thread, ExecFailed(t), UNCHANGED use PROVE LifeInv'
    <2>0. /\ UNCHANGED <<job, nshut, snap, gave_up, drain, init_mu>> /\ pc[t] = "execfailed" /\ pc' = [pc EXCEPT ![t] = "idle"]
          /\ init_mu = None
        BY <1>5 DEF ExecFailed, Goto, locks, passvars, history
    <2>1. Single => Lone'
        <3> SUFFICES ASSUME Single, Lone PROVE Lone'
            BY DEF LifeInv
        <3>1. InShut(t) /\ drain = None /\ job[t] = "none"
            BY <2>0 DEF Lone, InShut, LifeInv
        <3>2. \A u \in Thread : ~InShut(u)'
            BY <2>0, <3>1 DEF Lone, InShut, Shutting, TypeInv
        <3>3. \A u \in Thread : pc'[u] # "join"
            BY <1>s, <2>0, <3>1, <3>2 DEF Lone, InShut, Shutting, TypeInv
        <3>4. \A d \in Drain : pc'[d] = pc[d]
            BY <2>0, TransportAssumption DEF TypeInv
        <3> QED
            BY <2>0, <3>1, <3>2, <3>3, <3>4 DEF Lone
    <2> QED
        BY <1>5, <2>0, <2>1 DEF LifeInv, Single, Shutting, StatusSteps, TypeInv
<1>6. ASSUME NEW t \in Thread, Fork(t), UNCHANGED use PROVE LifeInv'
    <2>0. /\ UNCHANGED <<nshut, snap>> /\ gave_up' = FALSE /\ drain' = None /\ state' = "UNINIT"
          /\ \A p \in Proc : job'[p] = "none"
          /\ \A u \in Thread : pc'[u] \in {"idle", "gone"}
          /\ \A d \in Drain : pc'[d] = "none"
        BY <1>6, TransportAssumption DEF Fork
    <2>1. Single => Lone'
        BY <2>0 DEF LifeInv, Lone, InShut, Shutting
    <2> QED
        BY <1>6, <2>0, <2>1 DEF LifeInv, Single, StatusSteps
<1>7. ASSUME NEW t \in Thread, NEW why \in {"shutdown", "exec"}, Shutdown(t, why), UNCHANGED use PROVE LifeInv'
    <2>0. /\ UNCHANGED <<snap, gave_up, drain>> /\ pc[t] = "idle" /\ nshut < use.shutdowns /\ nshut' = nshut + 1
          /\ init_mu = None /\ job' = [job EXCEPT ![t] = why] /\ state' = "SYNC"
          /\ IF state = "RING" /\ drain # None THEN init_mu' = t /\ pc' = [pc EXCEPT ![t] = "join"]
                                               ELSE pc' = [pc EXCEPT ![t] = "shutlock"] /\ UNCHANGED init_mu
        BY <1>7 DEF Shutdown, Goto
    <2>1. use.shutdowns \in Nat /\ nshut \in Nat
        BY DEF TypeInv, Use, LifeInv
    <2>2. \A u \in Thread : /\ job'[u] # "main" /\ (pc'[u] \in StatusSteps => Shutting(u)')
                            /\ (pc'[u] = "execfailed" => job'[u] = "none")
        BY <2>0 DEF LifeInv, Shutting, StatusSteps, TypeInv
    <2>3. Single => Lone'
        <3> SUFFICES ASSUME Single, Lone PROVE Lone'
            BY DEF LifeInv
        <3>1. nshut = 0 /\ \A u \in Thread : ~InShut(u) /\ pc[u] # "join"
            BY <1>s, <2>0, <2>1 DEF Lone, Single, InShut
        <3>2. drain # None => state = "RING"
            BY <3>1 DEF Lone
        <3>3. \A u \in Thread \ {t} : ~InShut(u)' /\ pc'[u] # "join"
            BY <2>0, <3>1 DEF InShut, Shutting, TypeInv
        <3>4. \A d \in Drain : pc'[d] = pc[d]
            BY <2>0, TransportAssumption DEF TypeInv
        <3>5. nshut' = 1
            BY <2>0, <3>1
        <3>6. CASE drain # None
            <4>1. pc'[t] = "join" /\ init_mu' = t
                BY <2>0, <3>2, <3>6 DEF TypeInv
            <4> QED
                BY <2>0, <3>3, <3>4, <3>5, <4>1 DEF Lone
        <3>7. CASE drain = None
            <4>1. pc'[t] = "shutlock"
                BY <2>0, <3>7 DEF TypeInv
            <4> QED
                BY <2>0, <3>3, <3>4, <3>5, <3>7, <4>1 DEF Lone
        <3> QED
            BY <3>6, <3>7
    <2> QED
        BY <1>7, <2>0, <2>1, <2>2, <2>3 DEF LifeInv, Single
<1> QED
    BY <1>0, <1>1, <1>2, <1>3, <1>4, <1>5, <1>6, <1>7, LifeCases DEF Living

\* What a status under way will report, and the owed records among the dropped.
RingSum(f) == Total(Counters(f), Registered)
Tally(t) ==
    CASE pc[t] = "statusrings" -> dropped_lost + snap[t].dropped_full + snap[t].rejected + RingSum("dropped_full") + RingSum("rejected")
      [] pc[t] = "statusline" -> dropped_lost + snap[t].dropped_full + snap[t].rejected
      [] pc[t] \in {"statuslock", "statussend"} -> snap[t].dropped_lost + snap[t].dropped_full + snap[t].rejected
      [] OTHER -> DropCount
OwedDrops(t) == Cardinality(owed[t] \cap dropped)
Reported(t) == pc[t] \in StatusSteps => OwedDrops(t) <= Tally(t)
ReportInv == Single /\ ~gave_up => \A t \in Thread : Reported(t)

LEMMA TallyTypes ==
    ASSUME TypeInv, CountInv, LifeInv, NEW t \in Thread
    PROVE  /\ RingSum("dropped_full") \in Nat /\ RingSum("rejected") \in Nat /\ dropped_lost \in Nat
           /\ ctr["dropped_full"] \in Nat /\ ctr["rejected"] \in Nat
           /\ snap[t].dropped_full \in Nat /\ snap[t].rejected \in Nat /\ snap[t].dropped_lost \in Nat
<1>1. RingSum("dropped_full") \in Nat /\ RingSum("rejected") \in Nat
    BY SumsTyped DEF RingSum, CountInv, Fields
<1>2. snap[t] \in [StatusFields -> Nat]
    BY DEF LifeInv, Proc
<1> QED
    BY <1>1, <1>2 DEF StatusFields, CountInv, CountTypes, Fields

\* No ring is freed while a thread sends its final status.
LEMMA NoSweep ==
    ASSUME TypeInv, LifeInv, Single, NEW t \in Thread, pc[t] \in StatusSteps
    PROVE  \A p \in Proc : ~Sweep(p)
<1>1. Lone /\ Shutting(t) /\ InShut(t)
    BY DEF LifeInv, InShut
<1>2. drain = None
    BY <1>1 DEF Lone, StatusSteps
<1>3. ASSUME NEW d \in Drain PROVE pc[d] = "none"
    BY <1>1, <1>2, <1>3, TransportAssumption DEF Lone
<1>4. ASSUME NEW u \in Thread, pc[u] = "sweep" PROVE job[u] \notin {"main", "shutdown", "exec"}
    BY <1>1, <1>4 DEF Lone, InShut, Shutting, LifeInv, StatusSteps
<1> QED
    BY <1>3, <1>4 DEF Sweep, Proc

LEMMA RingSumNat == TypeInv /\ CountTypes => \A f \in Fields : RingSum(f) \in Nat
    BY SumsTyped DEF RingSum

Tallied == DropCount \in Nat /\ \A t \in Thread : Tally(t) \in Nat

LEMMA TallyNat == TypeInv /\ CountInv /\ LifeInv => Tallied
<1> SUFFICES ASSUME TypeInv, CountInv, LifeInv PROVE Tallied
    OBVIOUS
<1>1. DropCount \in Nat
    BY AllNat DEF DropCount, Fields, CountInv, CountTypes
<1>2. ASSUME NEW t \in Thread PROVE Tally(t) \in Nat
    BY <1>1, TallyTypes DEF Tally
<1> QED
    BY <1>1, <1>2 DEF Tallied

\* Without a sweep or a fork no counter falls.
Grows ==
    /\ dropped_lost' >= dropped_lost
    /\ \A f \in Fields : RingSum(f)' >= RingSum(f) /\ ctr'[f] >= ctr[f]

LEMMA TallyGrows ==
    ASSUME TypeInv, TypeInv', Control, CountInv, CountTypes', Accounted, \A p \in Proc : ~Sweep(p), \A t \in Thread : ~Fork(t)
    PROVE  Grows
<1>p. (\A f \in Fields : RingSum(f) \in Nat)'
    BY RingSumNat, PTL
<1>0. /\ dropped_lost \in Nat /\ dropped_lost' \in Nat
      /\ \A f \in Fields : RingSum(f) \in Nat /\ ctr[f] \in Nat /\ ctr'[f] \in Nat /\ RingSum(f)' \in Nat
    BY <1>p, RingSumNat DEF CountInv, CountTypes
<1>s. ASSUME UNCHANGED <<rctr, rings>> PROVE \A f \in Fields : RingSum(f)' = RingSum(f)
    BY <1>s DEF RingSum, Counters, Registered
<1>1. ASSUME UNCHANGED <<ctr, rctr, rings, dropped_lost>> PROVE Grows
    BY <1>0, <1>s, <1>1 DEF Grows
<1>2. CASE Quiescent
    BY <1>1, <1>2 DEF Quiescent, accounts
<1>3. ASSUME NEW t \in Thread, NEW g \in Fields, Inc(t, g), UNCHANGED <<rings, dropped_lost>> PROVE Grows
    <2>1. All(g)' = All(g) + 1 /\ \A f \in Fields : f # g => All(f)' = All(f)
        BY <1>3, AllInc
    <2> HIDE DEF Fields
    <2>2. CASE tls[t] = None
        <3>1. rctr' = rctr /\ \A f \in Fields : ctr'[f] >= ctr[f]
            BY <1>0, <1>3, <2>2 DEF Inc, CountInv, CountTypes
        <3> QED
            BY <1>0, <1>3, <1>s, <3>1 DEF Grows
    <2>3. CASE tls[t] # None
        <3>1. ctr' = ctr
            BY <1>3, <2>3 DEF Inc
        <3>2. ASSUME NEW f \in Fields PROVE RingSum(f)' >= RingSum(f)
            <4>1. All(f) = ctr[f] + RingSum(f) /\ All(f)' = ctr[f] + RingSum(f)'
                BY <3>1 DEF All, RingSum
            <4>2. CASE f = g
                BY <1>0, <2>1, <4>1, <4>2
            <4>3. CASE f # g
                BY <1>0, <2>1, <4>1, <4>3
            <4> QED
                BY <4>2, <4>3
        <3> QED
            BY <1>0, <1>3, <3>1, <3>2 DEF Grows
    <2> QED
        BY <2>2, <2>3
<1>4. ASSUME NEW t \in Thread, EmitBegin(t) PROVE Grows
    BY <1>3, <1>4 DEF EmitBegin, ringvars, Fields
<1>5. ASSUME NEW t \in Thread, Drops(t) PROVE Grows
    BY <1>3, <1>5 DEF Drops, Drop, CountDrop, ringvars, Fields
<1>6. ASSUME NEW t \in Thread, Registers(t) PROVE Grows
    <2>1. /\ tls[t] = None /\ rings' = <<FreshRing(t)>> \o rings
          /\ UNCHANGED <<rb, ctr, rctr, dropped_lost>>
        BY <1>6 DEF Registers, Register, Goto, TypeInv, Proc, counters, CountInv, RingsInv
    <2>2. \A f \in Fields : All(f)' = All(f)
        BY <2>1, RegisterKeeps
    <2>3. ASSUME NEW f \in Fields PROVE RingSum(f)' >= RingSum(f)
        <3>1. All(f) = ctr[f] + RingSum(f) /\ All(f)' = ctr[f] + RingSum(f)'
            BY <2>1 DEF All, RingSum
        <3> QED
            BY <1>0, <2>2, <3>1
    <2> QED
        BY <1>0, <2>1, <2>3 DEF Grows
<1>7. ASSUME NEW t \in Thread, Publishes(t) \/ InHandSent(t) \/ ThreadExit(t) PROVE Grows
    BY <1>1, <1>7 DEF Publishes, Publish, InHandSent, SendInHand, ThreadExit, counters, ringvars
<1>8. ASSUME NEW p \in Proc, Take(p) \/ CountSent(p) PROVE Grows
    BY <1>1, <1>8 DEF Take, CountSent, Counted, counters, ringvars
<1>9. ASSUME NEW p \in Proc, CountLost(p) PROVE Grows
    <2>1. UNCHANGED <<ctr, rctr, rings>> /\ dropped_lost' = dropped_lost + Len(batch[p])
        BY <1>9 DEF CountLost, Lost, Counted, ringvars
    <2> QED
        BY <1>0, <1>s, <2>1, LenNat DEF Grows
<1> QED
    BY <1>2, <1>4, <1>5, <1>6, <1>7, <1>8, <1>9 DEF Accounted

\* What is owed to a status under way is in no hand, ring or batch any more, so
\* nothing that is dropped now is among it.
LEMMA OwedDropsFall ==
    ASSUME TypeInv, Control, OwedInv, IsFiniteSet(dropped), [Next]_vars,
           NEW t \in Thread, pc[t] \in StatusSteps, ~gave_up
    PROVE  OwedDrops(t)' <= OwedDrops(t) /\ OwedDrops(t)' \in Nat /\ OwedDrops(t) \in Nat
<1>1. \A x \in owed[t] : /\ \A u \in Thread : cur[u] # x
                         /\ \A p \in Proc : \A i \in DOMAIN batch[p] : batch[p][i] # x
    BY DEF OwedInv, OwedAt, Returned, Batched
<1>2. owed'[t] \subseteq owed[t]
    <2>1. Settling
        BY SettleCases
    <2>2. ASSUME NEW u \in Thread, NEW why, Shutdown(u, why) PROVE owed'[t] \subseteq owed[t]
        BY <2>2 DEF Shutdown, OwedInv, StatusSteps
    <2>3. ASSUME NEW u \in Thread, EmitBegin(u) \/ Drops(u) \/ Publishes(u) \/ InHandSent(u) \/ Fork(u)
          PROVE  owed'[t] \subseteq owed[t]
        BY <2>3 DEF EmitBegin, Drops, Drop, Publishes, Publish, InHandSent, SendInHand, Fork, history
    <2>4. ASSUME NEW p \in Proc, Locking(p) \/ Take(p) \/ NextRing(p) \/ Sweep(p) \/ CountSent(p) \/ CountLost(p)
          PROVE  owed'[t] \subseteq owed[t]
        BY <2>4 DEF Locking, LockAndDrain, Take, NextRing, Sweep, CountSent, CountLost, Counted, history
    <2> QED
        BY <2>1, <2>2, <2>3, <2>4 DEF Settling, Calm
<1>3. owed[t] \cap dropped' \subseteq dropped
    <2>1. Accounted
        BY CountCases
    <2>2. ASSUME NEW u \in Thread, Drops(u) PROVE owed[t] \cap dropped' \subseteq dropped
        BY <1>1, <2>2 DEF Drops, Drop
    <2>3. ASSUME NEW p \in Proc, CountLost(p) PROVE owed[t] \cap dropped' \subseteq dropped
        <3>1. dropped' = dropped \cup BatchRecords(p) /\ DOMAIN batch[p] = 1..Len(batch[p])
            BY <2>3 DEF CountLost, TypeInv
        <3> QED
            BY <1>1, <3>1 DEF BatchRecords
    <2>4. ASSUME NEW u \in Thread, EmitBegin(u) \/ Registers(u) \/ Publishes(u) \/ InHandSent(u) \/ ThreadExit(u) \/ Fork(u)
          PROVE  dropped' \subseteq dropped
        BY <2>4 DEF EmitBegin, Registers, Register, Publishes, Publish, InHandSent, SendInHand, ThreadExit, Fork, counters
    <2>5. ASSUME NEW p \in Proc, Take(p) \/ Sweep(p) \/ CountSent(p) PROVE dropped' \subseteq dropped
        BY <2>5 DEF Take, Sweep, CountSent, counters
    <2> QED
        BY <2>1, <2>2, <2>3, <2>4, <2>5 DEF Accounted, Quiescent, accounts
<1>4. owed'[t] \cap dropped' \subseteq owed[t] \cap dropped /\ IsFiniteSet(owed[t] \cap dropped)
    BY <1>2, <1>3, FS_Subset
<1> QED
    BY <1>4, FS_Subset, FS_CardinalityType DEF OwedDrops

\* A process counts what it sends, as it goes, in the status it puts together.
LEMMA TallyKept ==
    ASSUME TypeInv, CountInv, LifeInv, NEW t \in Thread, Status(t), pc'[t] \in StatusSteps
    PROVE  Tally(t)' = Tally(t)
<1> USE DEF Goto, TypeInv, Proc
<1>0. /\ UNCHANGED <<ctr, rctr, rings, dropped_lost>> => DropCount' = DropCount
                                                         /\ RingSum("dropped_full")' = RingSum("dropped_full")
                                                         /\ RingSum("rejected")' = RingSum("rejected")
    BY DEF DropCount, All, RingSum, Counters, Registered
<1>r. ASSUME StatusReturns(t) PROVE FALSE
    BY <1>r DEF StatusReturns, AfterStatus, StatusSteps
<1>1. CASE StatusGlobal(t)
    <2>1. /\ UNCHANGED <<ctr, rctr, rings, dropped_lost>>
          /\ snap'[t] = Counts(ctr) /\ pc[t] = "status" /\ pc'[t] = "statusrings"
        BY <1>1 DEF StatusGlobal, ringvars, counters, LifeInv
    <2>2. snap'[t].dropped_full = ctr["dropped_full"] /\ snap'[t].rejected = ctr["rejected"]
        BY <2>1 DEF Counts, ZeroStatus, ZeroCtr
    <2>3. Tally(t) = DropCount
        BY <2>1 DEF Tally
    <2>4. Tally(t)' = dropped_lost + ctr["dropped_full"] + ctr["rejected"] + RingSum("dropped_full") + RingSum("rejected")
        BY <1>0, <2>1, <2>2 DEF Tally
    <2>5. DropCount = dropped_lost + (ctr["dropped_full"] + RingSum("dropped_full")) + (ctr["rejected"] + RingSum("rejected"))
        BY DEF DropCount, All, RingSum
    <2>6. DropCount = dropped_lost + ctr["dropped_full"] + ctr["rejected"] + RingSum("dropped_full") + RingSum("rejected")
        <3>1. /\ dropped_lost \in Nat /\ ctr["dropped_full"] \in Nat /\ ctr["rejected"] \in Nat
              /\ RingSum("dropped_full") \in Nat /\ RingSum("rejected") \in Nat
            BY TallyTypes
        <3> QED
            BY <2>5, <3>1, SMTT(60)
    <2> QED
        BY <2>3, <2>4, <2>6
<1>2. CASE StatusRings(t)
    <2> DEFINE sum == CtrAdd(snap[t], CtrSum(Registered))
    <2>1. /\ UNCHANGED <<ctr, rctr, rings, dropped_lost>>
          /\ snap'[t] = Counts(sum) /\ pc[t] = "statusrings" /\ pc'[t] = "statusline"
        BY <1>2, <1>r DEF StatusRings, ringvars, counters, LifeInv
    <2>2. sum.dropped_full = snap[t].dropped_full + RingSum("dropped_full") /\ sum.rejected = snap[t].rejected + RingSum("rejected")
        BY SumsTyped DEF CtrAdd, ZeroCtr, RingSum, CountInv, Fields
    <2>3. snap'[t].dropped_full = sum.dropped_full /\ snap'[t].rejected = sum.rejected
        BY <2>1 DEF Counts, ZeroStatus, ZeroCtr
    <2> HIDE DEF sum
    <2>4. Tally(t) = dropped_lost + snap[t].dropped_full + snap[t].rejected + RingSum("dropped_full") + RingSum("rejected")
        BY <2>1 DEF Tally
    <2>5. Tally(t)' = dropped_lost + (snap[t].dropped_full + RingSum("dropped_full")) + (snap[t].rejected + RingSum("rejected"))
        BY <2>1, <2>2, <2>3 DEF Tally
    <2>6. dropped_lost + (snap[t].dropped_full + RingSum("dropped_full")) + (snap[t].rejected + RingSum("rejected"))
          = dropped_lost + snap[t].dropped_full + snap[t].rejected + RingSum("dropped_full") + RingSum("rejected")
        <3>1. /\ dropped_lost \in Nat /\ snap[t].dropped_full \in Nat /\ snap[t].rejected \in Nat
              /\ RingSum("dropped_full") \in Nat /\ RingSum("rejected") \in Nat
            BY TallyTypes
        <3> QED
            BY <3>1, SMTT(60)
    <2> QED
        BY <2>4, <2>5, <2>6
<1>3. CASE StatusDelivery(t)
    <2>1. /\ pc[t] = "statusline" /\ pc'[t] = "statuslock"
          /\ snap'[t].dropped_lost = dropped_lost
          /\ snap'[t].dropped_full = snap[t].dropped_full /\ snap'[t].rejected = snap[t].rejected
        BY <1>3 DEF StatusDelivery, LifeInv, StatusFields
    <2> QED
        BY <2>1 DEF Tally
<1>4. CASE StatusConnect(t)
    <2>1. pc[t] = "statuslock" /\ pc'[t] = "statussend" /\ snap' = snap
        BY <1>4 DEF StatusConnect
    <2> QED
        BY <2>1 DEF Tally
<1>5. CASE StatusSent(t)
    BY <1>5, <1>r DEF StatusSent
<1> QED
    BY <1>1, <1>2, <1>3, <1>4, <1>5 DEF Status

LEMMA TallyNoLess ==
    ASSUME TypeInv, TypeInv', CountInv, CountInv', LifeInv, NEW t \in Thread, Grows, pc'[t] = pc[t], snap'[t] = snap[t]
    PROVE  Tally(t)' >= Tally(t)
<1>p. (\A f \in Fields : RingSum(f) \in Nat)'
    BY RingSumNat, PTL DEF CountInv
<1>0. /\ dropped_lost \in Nat /\ dropped_lost' \in Nat /\ dropped_lost' >= dropped_lost
      /\ \A f \in Fields : RingSum(f) \in Nat /\ ctr[f] \in Nat /\ ctr'[f] \in Nat /\ RingSum(f)' \in Nat
                           /\ RingSum(f)' >= RingSum(f) /\ ctr'[f] >= ctr[f]
    BY <1>p, RingSumNat DEF CountInv, CountTypes, Grows
<1>1. snap[t].dropped_full \in Nat /\ snap[t].rejected \in Nat /\ snap[t].dropped_lost \in Nat
    BY TallyTypes
<1>2. CASE pc[t] = "statusrings"
    BY <1>0, <1>1, <1>2 DEF Tally, Fields
<1>3. CASE pc[t] = "statusline"
    BY <1>0, <1>1, <1>3 DEF Tally
<1>4. CASE pc[t] \in {"statuslock", "statussend"}
    BY <1>0, <1>1, <1>4 DEF Tally
<1>5. CASE pc[t] \notin {"statusrings", "statusline", "statuslock", "statussend"}
    <2>1. Tally(t) = DropCount /\ Tally(t)' = DropCount'
        BY <1>5 DEF Tally
    <2>2. \A f \in Fields : All(f) = ctr[f] + RingSum(f) /\ All(f)' = ctr'[f] + RingSum(f)'
        BY DEF All, RingSum
    <2>3. \A f \in Fields : All(f) \in Nat /\ All(f)' \in Nat /\ All(f)' >= All(f)
        BY <1>0, <2>2
    <2> QED
        BY <1>0, <2>1, <2>3 DEF DropCount, Fields
<1> QED
    BY <1>2, <1>3, <1>4, <1>5

LEMMA ReportStep ==
    ASSUME TypeInv, TypeInv', Control, CountInv, CountInv', DropsCounted, DropsCounted', OwedInv,
           LifeInv, LifeInv', ReportInv, [Next]_vars
    PROVE  ReportInv'
<1> USE DEF Proc
<1>0. use' = use /\ Accounted
    BY CountCases DEF Next, vars
<1> SUFFICES ASSUME Single, ~gave_up', NEW t \in Thread, pc'[t] \in StatusSteps
             PROVE  OwedDrops(t)' <= Tally(t)'
    BY <1>0 DEF ReportInv, Reported, Single
<1>1. ~gave_up
    <2>1. CASE UNCHANGED vars
        BY <2>1 DEF vars, image, history
    <2>2. CASE Next
        <3>1. Living
            BY <2>2, LifeCases
        <3>2. CASE Aside
            BY <3>2 DEF Aside
        <3>3. ASSUME NEW p \in Proc, Status(p) PROVE gave_up' = gave_up
            BY <3>3 DEF Status, StatusGlobal, StatusRings, StatusDelivery, StatusConnect, StatusSent, StatusReturns, history
        <3>4. ASSUME NEW u \in Thread,
                     Start(u) \/ Join(u) \/ JoinTimeout(u) \/ ExecFailed(u) \/ \E why \in {"shutdown", "exec"} : Shutdown(u, why)
              PROVE  gave_up' = gave_up
            BY <3>4 DEF Start, Join, JoinTimeout, JoinEnds, ExecFailed, Shutdown, history
        <3>5. ASSUME NEW u \in Thread, Fork(u) PROVE FALSE
            BY <3>5 DEF Fork, StatusSteps
        <3> QED
            BY <3>1, <3>2, <3>3, <3>4, <3>5 DEF Living
    <2> QED
        BY <2>1, <2>2
<1>2. CASE UNCHANGED vars
    BY <1>2 DEF vars, image, lifecycle, ringvars, counters, passvars, history, ReportInv, Reported, OwedDrops, Tally,
        DropCount, All, RingSum, Counters, Registered
<1>3. CASE Next
    <2>0. Living
        BY <1>3, LifeCases
    <2>f. ASSUME NEW u \in Thread, Fork(u) PROVE FALSE
        BY <2>f DEF Fork, StatusSteps
    <2>s. ASSUME NEW p \in Proc, Status(p), p # t PROVE pc'[t] = pc[t] /\ snap'[t] = snap[t]
        <3> USE <2>s DEF StatusReturns, passvars, Goto, TypeInv, LifeInv
        <3>1. CASE StatusGlobal(p)
            BY <3>1 DEF StatusGlobal
        <3>2. CASE StatusRings(p)
            BY <3>2 DEF StatusRings
        <3>3. CASE StatusDelivery(p)
            BY <3>3 DEF StatusDelivery
        <3>4. CASE StatusConnect(p)
            BY <3>4 DEF StatusConnect
        <3>5. CASE StatusSent(p)
            BY <3>5 DEF StatusSent
        <3> QED
            BY <3>1, <3>2, <3>3, <3>4, <3>5 DEF Status
    <2>c. ASSUME NEW u \in Thread,
                 Start(u) \/ Join(u) \/ JoinTimeout(u) \/ ExecFailed(u) \/ \E why \in {"shutdown", "exec"} : Shutdown(u, why)
          PROVE  pc'[t] = pc[t] /\ snap'[t] = snap[t]
        <3> USE <2>c DEF Goto, TypeInv, LifeInv, StatusSteps, passvars, history
        <3>1. CASE Start(u)
            <4>1. ASSUME NEW d \in use.drains, StartRing(u, d) PROVE pc'[t] = pc[t]
                <5>1. pc' = [pc EXCEPT ![u] = "push2", ![d] = "loop"] /\ d # t
                    BY <4>1, TransportAssumption DEF StartRing, Use
                <5> QED
                    BY <5>1
            <4>2. ASSUME StartSync(u) \/ StartedByOther(u) PROVE pc'[t] = pc[t]
                <5>1. pc' = [pc EXCEPT ![u] = "push2"]
                    BY <4>2 DEF StartSync, StartedByOther
                <5> QED
                    BY <5>1
            <4> QED
                BY <3>1, <4>1, <4>2 DEF Start
        <3>2. CASE Join(u) \/ JoinTimeout(u)
            BY <3>2 DEF Join, JoinTimeout, JoinEnds
        <3>3. CASE ExecFailed(u)
            <4>1. pc' = [pc EXCEPT ![u] = "idle"] /\ snap' = snap /\ pc[u] = "execfailed"
                BY <3>3 DEF ExecFailed
            <4> QED
                BY <4>1
        <3>4. CASE \E why \in {"shutdown", "exec"} : Shutdown(u, why)
            <4>1. /\ pc' = [pc EXCEPT ![u] = "join"] \/ pc' = [pc EXCEPT ![u] = "shutlock"]
                  /\ snap' = snap
                BY <3>4 DEF Shutdown
            <4> QED
                BY <4>1
        <3> QED
            BY <2>c, <3>1, <3>2, <3>3, <3>4
    <2>1. \/ pc'[t] = pc[t] /\ snap'[t] = snap[t]
          \/ Sweep(t)
          \/ Status(t)
        BY <1>1, <2>0, <2>f, <2>s, <2>c DEF Living, Aside, AsideAt
    <2>2. CASE pc[t] \notin StatusSteps
        <3>1. Sweep(t)
            BY <2>1, <2>2 DEF Status, StatusGlobal, StatusRings, StatusDelivery, StatusConnect, StatusSent, StatusSteps
        <3>2. pc'[t] = "status"
            BY <3>1 DEF Sweep, StatusSteps, Goto, TypeInv
        <3>3. Tally(t)' = DropCount'
            BY <3>2 DEF Tally
        <3>4. OwedDrops(t)' <= Cardinality(dropped')
            BY FS_Subset DEF OwedDrops, DropsCounted
        <3>t. Tallied'
            BY TallyNat, PTL
        <3>5. DropCount' \in Nat
            BY <3>t DEF Tallied
        <3>6. OwedDrops(t)' \in Nat /\ Cardinality(dropped') \in Nat
            BY FS_Subset, FS_CardinalityType DEF OwedDrops, DropsCounted
        <3> QED
            BY <3>3, <3>4, <3>5, <3>6 DEF DropsCounted
    <2>3. CASE pc[t] \in StatusSteps
        <3>1. OwedDrops(t) <= Tally(t)
            BY <1>1, <2>3 DEF ReportInv, Reported
        <3>2. OwedDrops(t)' <= OwedDrops(t) /\ OwedDrops(t)' \in Nat /\ OwedDrops(t) \in Nat
            BY <1>1, <2>3, OwedDropsFall DEF DropsCounted
        <3>3. \A p \in Proc : ~Sweep(p)
            BY <2>3, NoSweep
        <3>4. Grows
            BY <1>0, <2>f, <3>3, TallyGrows DEF CountInv
        <3>5. Tally(t)' >= Tally(t)
            <4>1. CASE Status(t)
                BY <4>1, TallyKept, TallyNat DEF Tallied
            <4> QED
                BY <2>1, <3>3, <3>4, <4>1, TallyNoLess
        <3>6. Tally(t) \in Nat
            BY TallyNat DEF Tallied
        <3>t. Tallied'
            BY TallyNat, PTL
        <3>7. Tally(t)' \in Nat
            BY <3>t DEF Tallied
        <3> QED
            BY <3>1, <3>2, <3>5, <3>6, <3>7
    <2> QED
        BY <2>2, <2>3
<1> QED
    BY <1>2, <1>3

LEMMA ReportInit == Init => ReportInv
<1> SUFFICES ASSUME Init, NEW t \in Thread PROVE pc[t] \notin StatusSteps
    BY DEF ReportInv, Reported
<1> QED
    BY TransportAssumption DEF Init, Proc, StatusSteps

LEMMA ReportAlways == Spec => [](LifeInv /\ ReportInv)
<1>1. Init => LifeInv /\ ReportInv
    BY LifeInit, ReportInit
<1>2. /\ TypeInv /\ TypeInv' /\ Control /\ CountInv /\ CountInv' /\ DropsCounted /\ DropsCounted' /\ OwedInv
      /\ LifeInv /\ ReportInv /\ [Next]_vars
      => LifeInv' /\ ReportInv'
    BY LifeStep, ReportStep
<1> QED
    BY <1>1, <1>2, CountAlways, AllDropsCounted, OwedAlways, PTL DEF Spec

(* When a shutdown that got drain_mu and a buffer to drain with is about   *)
(* to send its final status, every record whose emit call had returned     *)
(* before it is on the wire or in the drop counters that status reports    *)
(* (hp_tx_shutdown): the ShutdownSettles the runs check, for a program     *)
(* that shuts down once and whose drain thread ends in time.               *)
THEOREM ShutdownReports == Spec => [](Single => ShutdownSettles)
<1>1. TypeInv /\ CountInv /\ LifeInv /\ ReportInv /\ OwedNowhere => (Single => ShutdownSettles)
    <2> SUFFICES ASSUME TypeInv, CountInv, LifeInv, ReportInv, OwedNowhere, Single,
                        NEW t \in Thread, pc[t] \in {"statuslock", "statussend"}, ~gave_up
                 PROVE  Settled(t)
        BY DEF ShutdownSettles
    <2>1. owed[t] \subseteq OnWire \cup dropped
        BY DEF OwedNowhere, StatusSteps
    <2>2. OwedDrops(t) <= snap[t].dropped_lost + snap[t].dropped_full + snap[t].rejected
        BY DEF ReportInv, Reported, Tally, StatusSteps
    <2>3. snap[t].dropped_lost + snap[t].dropped_full + snap[t].rejected
          = snap[t].dropped_full + snap[t].rejected + snap[t].dropped_lost
        BY TallyTypes
    <2> QED
        BY <2>1, <2>2, <2>3 DEF Settled, OwedDrops
<1> QED
    BY <1>1, CountAlways, ReportAlways, ShutdownDrains, PTL
=============================================================================
