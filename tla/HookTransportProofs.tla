------------------------ MODULE HookTransportProofs ------------------------
(***************************************************************************)
(* TLAPS proofs about HookTransport, for any number of threads and drain   *)
(* threads, any ring and batch size and every way of using the transport:  *)
(* a connection carries a thread's records in the order they were emitted  *)
(* (PerThreadOrder), a forked child sends none of its parent's records and *)
(* nothing on its connections (ChildClean), and no record vanishes.        *)
(***************************************************************************)
EXTENDS HookTransport, TLAPS

-----------------------------------------------------------------------------
(* Types.                                                                  *)

Rec == Thread \X Nat
Label == {"none", "dead", "loop", "lock", "drained", "idle", "gone", "check", "own", "join", "shutlock", "execfailed",
          "status", "statusrings", "statusline", "statuslock", "statussend", "drain", "sweep",
          "push", "push2", "start", "register", "store", "wait", "retry", "waited", "sync",
          "deliver", "connect", "send", "sent", "lost"}
Job == {"none", "one", "own", "sync", "main", "shutdown", "exec"}
Sent == [conn : Nat, rec : Rec]

TypeInv ==
    /\ use \in Use
    /\ rings \in Seq(RingId) /\ rb \in [RingId -> Seq(Rec)] /\ orphan \in SUBSET RingId
    /\ tls \in [Thread -> RingId \cup {None}]
    /\ cur \in [Thread -> Rec \cup {None}] /\ nemit \in [Thread -> Nat]
    /\ pc \in [Proc -> Label] /\ job \in [Proc -> Job]
    /\ todo \in [Proc -> Seq(RingId)] /\ batch \in [Proc -> Seq(Rec)] /\ k \in [Proc -> Nat]
    /\ sock \in Nat /\ nconn \in Nat /\ wire \in Seq(Sent)
    /\ dropped \in SUBSET Rec /\ inherited \in SUBSET Rec /\ forked_at \in Nat

(* Control.  The steps of hp_tx_deliver, those of a pass, and those of an  *)
(* emit call that still has its record in hand.                            *)
Delivering == {"deliver", "connect", "send", "sent", "lost"}
Passing == {"drain", "sweep"}
Emitting == {"push", "push2", "start", "register", "store", "wait", "retry", "waited", "sync"}
PassJobs == {"own", "sync", "main", "shutdown", "exec"}

InPass(p) == pc[p] \in Passing \cup Delivering /\ job[p] \in PassJobs
Holding(t) == pc[t] \in Emitting \/ (InPass(t) /\ job[t] = "sync")

(* A pass is made under drain_mu, a socket is used under sock_mu.          *)
LocksAt(p) ==
    /\ InPass(p) => drain_mu = p
    /\ pc[p] \in {"connect", "send", "statussend"} => sock_mu = p

(* What a process is doing agrees with what it has in its hands.           *)
JobsAt(p) ==
    /\ pc[p] \in Passing => job[p] \in PassJobs
    /\ pc[p] \in Delivering => job[p] \in PassJobs \/ (job[p] = "one" /\ p \in Thread)
    /\ job[p] = "one" => pc[p] \in Delivering
    /\ job[p] = "sync" => pc[p] \in Passing \cup Delivering
    /\ pc[p] \in {"join", "shutlock"} => job[p] \in {"shutdown", "exec"}

HandAt(t) ==
    /\ Holding(t) => cur[t] # None
    /\ ~Holding(t) => cur[t] = None
    /\ cur[t] # None => cur[t] = <<t, nemit[t]>>

BatchAt(p) ==
    /\ batch[p] # <<>> => pc[p] \in {"drain"} \cup Delivering
    /\ pc[p] \in Delivering /\ job[p] = "one" => Len(batch[p]) = 1 /\ batch[p][1][1] = p
    /\ pc[p] = "sweep" => todo[p] = <<>>
    /\ pc[p] \in {"deliver", "connect", "send"} => batch[p] # <<>>
    /\ pc[p] = "connect" => k[p] = 0
    /\ pc[p] = "send" => sock # 0 /\ k[p] < Len(batch[p])
    /\ pc[p] = "statussend" => sock # 0

OwnRingAt(t) ==
    /\ tls[t] # None => tls[t][1] = t
    /\ pc[t] \in {"store", "wait", "retry", "waited", "check", "own"} => tls[t] # None

ControlAt(p) ==
    LocksAt(p) /\ JobsAt(p) /\ BatchAt(p) /\ (p \in Thread => HandAt(p) /\ OwnRingAt(p))
Control == \A p \in Proc : ControlAt(p)

-----------------------------------------------------------------------------
(* The way of a thread's records: hand, ring, batch, wire.                 *)

(* Where no thread emits after its ring's destructor ran, a thread has one *)
(* ring, and none before it registered it.                                 *)
OneRingAt(t) ==
    /\ rb[<<t, 2>>] = <<>> /\ tls[t] \in {None, <<t, 1>>}
    /\ <<t, 1>> \in orphan => pc[t] = "gone"
    /\ tls[t] = None /\ pc[t] # "gone" => rb[<<t, 1>>] = <<>>

(* A thread once had no buffer to drain its ring with before it sent a     *)
(* record itself.                                                          *)
Overtook(t) == <<t, "sync">> \in starved

(* Otherwise a thread that sends a record itself has nothing left in its   *)
(* ring.                                                                   *)
OwnFirstAt(t) ==
    /\ job[t] = "one" => Overtook(t) \/ rb[<<t, 1>>] = <<>>
    /\ job[t] = "sync" => tls[t] = <<t, 1>> /\ (todo[t] = <<<<t, 1>>>> \/ (todo[t] = <<>> /\ rb[<<t, 1>>] = <<>>))

OneRing == \A t \in Thread : OneRingAt(t) /\ OwnFirstAt(t)

(* Records that have been emitted carry their thread and a number no       *)
(* larger than the last.                                                   *)
Numbered ==
    /\ \A r \in RingId : \A i \in DOMAIN rb[r] : rb[r][i][1] = r[1] /\ rb[r][i][2] <= nemit[r[1]]
    /\ \A p \in Proc : \A i \in DOMAIN batch[p] : batch[p][i][2] <= nemit[batch[p][i][1]]
    /\ \A i \in DOMAIN wire : wire[i].rec[2] <= nemit[wire[i].rec[1]]
    /\ \A i \in DOMAIN wire : wire[i].conn # 0 /\ wire[i].conn <= nconn
    /\ sock <= nconn

(* The record in hand is the newest.                                       *)
HandLast == \A t \in Thread : cur[t] # None =>
    /\ \A i \in DOMAIN rb[<<t, 1>>] : rb[<<t, 1>>][i][2] < nemit[t]
    /\ \A p \in Proc : \A i \in DOMAIN batch[p] : batch[p][i][1] = t => batch[p][i][2] < nemit[t]
    /\ \A i \in DOMAIN wire : wire[i].rec[1] = t => wire[i].rec[2] < nemit[t]

RingSorted == \A t \in Thread : \A i, j \in DOMAIN rb[<<t, 1>>] :
                i < j => rb[<<t, 1>>][i][2] < rb[<<t, 1>>][j][2]

(* A batch is sorted, older than the rings, and no other batch has records *)
(* of the same threads, but for those that overtook their ring.            *)
BatchSorted == \A p \in Proc : \A i, j \in DOMAIN batch[p] :
                i < j /\ batch[p][i][1] = batch[p][j][1] => Overtook(batch[p][i][1]) \/ batch[p][i][2] < batch[p][j][2]
BatchBeforeRing == \A p \in Proc : \A i \in DOMAIN batch[p] : \A j \in DOMAIN rb[<<batch[p][i][1], 1>>] :
                     Overtook(batch[p][i][1]) \/ batch[p][i][2] < rb[<<batch[p][i][1], 1>>][j][2]
OneBatch == \A p, q \in Proc : \A i \in DOMAIN batch[p], j \in DOMAIN batch[q] :
                batch[p][i][1] = batch[q][j][1] => p = q \/ Overtook(batch[p][i][1])

(* The connection in use has taken nothing newer than what is still to be  *)
(* sent.                                                                   *)
Unsent(p, j) == pc[p] \in {"drain", "deliver", "connect"} \/ (pc[p] = "send" /\ k[p] < j)
WireBeforeRing == \A i \in DOMAIN wire : wire[i].conn = sock =>
    \A j \in DOMAIN rb[<<wire[i].rec[1], 1>>] : Overtook(wire[i].rec[1]) \/ wire[i].rec[2] < rb[<<wire[i].rec[1], 1>>][j][2]
WireBeforeBatch == \A i \in DOMAIN wire : wire[i].conn = sock =>
    \A p \in Proc : \A j \in DOMAIN batch[p] :
        Unsent(p, j) /\ batch[p][j][1] = wire[i].rec[1] => Overtook(wire[i].rec[1]) \/ wire[i].rec[2] < batch[p][j][2]
WireSorted == \A i, j \in DOMAIN wire :
    (i < j /\ wire[i].conn = wire[j].conn /\ wire[i].rec[1] = wire[j].rec[1])
        => Overtook(wire[i].rec[1]) \/ wire[i].rec[2] < wire[j].rec[2]

Order ==
    /\ Numbered /\ HandLast /\ RingSorted /\ BatchSorted /\ BatchBeforeRing /\ OneBatch
    /\ WireBeforeRing /\ WireBeforeBatch /\ WireSorted
OrderInv == ~use.late => OneRing /\ Order

-----------------------------------------------------------------------------
(* A record is on the wire, among the dropped ones, in its thread's hand,  *)
(* in a ring or in a batch.                                                *)
InBatch(x) == \E p \in Proc : \E i \in DOMAIN batch[p] : batch[p][i] = x
InRing(x) == \E r \in RingId : \E i \in DOMAIN rb[r] : rb[r][i] = x
InHands(x) == \E t \in Thread : cur[t] = x
WasSent(x) == \E i \in DOMAIN wire : wire[i].rec = x
Present(x) == InBatch(x) \/ InRing(x) \/ InHands(x) \/ WasSent(x) \/ x \in dropped

(* No record of the parent is anywhere in a forked child.                  *)
ChildInv == \A x \in inherited : x[2] <= nemit[x[1]] /\ ~Present(x)

(* A record a hook has produced is somewhere, or the parent's.             *)
NothingVanishes == \A t \in Thread : \A n \in 1..nemit[t] : Present(<<t, n>>) \/ <<t, n>> \in inherited

TakenAt(p) ==
    /\ pc[p] \in {"send", "sent"} => \A i \in DOMAIN batch[p] : i <= k[p] => WasSent(batch[p][i])
    /\ pc[p] = "sent" => k[p] = Len(batch[p])
Taken == \A p \in Proc : TakenAt(p)
Bounded == use \in Uses /\ \A t \in Thread : nemit[t] <= use.emits[t]
RecordInv == Bounded /\ Taken /\ ChildInv /\ NothingVanishes

-----------------------------------------------------------------------------
(* Steps that only move control.                                           *)
held == <<rb, cur, nemit, batch, wire, dropped, inherited, forked_at, k, sock, nconn>>
hands == <<rings, orphan, tls, job, todo, drain_mu, sock_mu, use>>

(* The other processes stay where they are, but that a drain thread may be *)
(* created or joined.                                                      *)
Others(p) == \A q \in Proc \ {p} : pc'[q] = pc[q] \/ (pc[q] \in {"none", "dead"} /\ pc'[q] \in {"none", "loop"})

MoveEmit(t) ==
    /\ UNCHANGED <<held, hands, starved>> /\ pc' \in [Proc -> Label] /\ Others(t)
    /\ pc[t] \in Emitting /\ pc'[t] \in Emitting
    /\ pc'[t] \in {"store", "wait", "retry", "waited"} => tls[t] # None \/ pc[t] \in {"store", "wait", "retry"}
Outside == {"loop", "drained", "status", "statusrings", "statusline", "join", "shutlock", "execfailed", "check",
            "own", "lock"}
MoveOutside(p) ==
    /\ UNCHANGED <<held, hands>> /\ starved \subseteq starved' /\ pc' \in [Proc -> Label] /\ Others(p)
    /\ pc[p] \in Outside
    /\ pc'[p] \in {"idle", "own", "dead", "loop", "lock", "drained", "status", "statusrings", "statusline", "statuslock", "shutlock"}
    /\ pc'[p] = "own" => pc[p] = "check"
    /\ pc'[p] = "shutlock" => pc[p] = "join"
MovePass(p) ==
    /\ UNCHANGED <<held, hands, starved>> /\ pc' \in [Proc -> Label] /\ Others(p)
    /\ pc[p] = "drain"
    /\ \/ pc'[p] = "deliver" /\ batch[p] # <<>>
       \/ pc'[p] = "sweep" /\ batch[p] = <<>> /\ todo[p] = <<>>
Still == UNCHANGED <<held, hands, starved, pc>>

Registers(t) == pc[t] = "register" /\ pc' = [pc EXCEPT ![t] = "store"] /\ Register(t)
Drops(t) == pc[t] \in {"push", "store", "waited"} /\ \E f \in {"dropped_full", "rejected"} : Drop(t, f)
Publishes(t) == pc[t] \in {"store", "retry"} /\ Publish(t)
Locking(p) ==
    /\ \E why \in Job, rs \in Seq(RingId) :
        /\ LockAndDrain(p, why, rs)
        /\ \/ p \in Thread /\ pc[p] = "own" /\ why = "own" /\ rs = <<tls[p]>>
           \/ p \in Thread /\ pc[p] = "sync" /\ tls[p] # None /\ why = "sync" /\ rs = <<tls[p]>>
           \/ p \in Thread /\ pc[p] = "shutlock" /\ why = job[p] /\ rs = rings
           \/ p \in Drain /\ pc[p] = "lock" /\ why = "main" /\ rs = rings
SendsFirst(t) ==
    /\ pc[t] = "sync" /\ drain_mu = None
    /\ tls[t] = None \/ rb[tls[t]] = <<>> \/ Overtook(t)'
    /\ starved \subseteq starved' /\ SendInHand(t) /\ UNCHANGED locks

(* The steps, seen from the records.                                       *)
StepOf(p) ==
    \/ MoveOutside(p) \/ MovePass(p) \/ Locking(p) \/ Take(p) \/ NextRing(p) \/ Sweep(p)
    \/ LockSocket(p) \/ Connect(p) \/ Send(p) \/ SendFailed(p) \/ CountSent(p) \/ CountLost(p)
    \/ StatusConnect(p) \/ StatusSent(p) \/ (pc[p] = "statusrings" /\ StatusReturns(p) /\ UNCHANGED <<sock, nconn, sock_mu>>)
CallOf(t) ==
    \/ MoveEmit(t) \/ EmitBegin(t) \/ Drops(t) \/ Registers(t) \/ Publishes(t) \/ SendsFirst(t) \/ OwnDone(t)
    \/ (\E why \in {"shutdown", "exec"} : Shutdown(t, why)) \/ ThreadExit(t) \/ Fork(t)

\* Next, one action at a time.
LEMMA StepCases ==
    ASSUME TypeInv, Control, Next
    PROVE  Still \/ (\E p \in Proc : StepOf(p) /\ UNCHANGED use) \/ (\E t \in Thread : CallOf(t) /\ UNCHANGED use)
<1> USE DEF Proc, Label, Job
<1> UNCHANGED use
    BY DEF Next
<1>1. ASSUME Collector PROVE Still
    BY <1>1 DEF Collector, CloseConnection, GoDown, Stall, RateLimitEnds, envframe, Still, held, hands,
        lifecycle, ringvars, locks, counters, passvars, history
<1>2. ASSUME NEW p \in Proc, Deliver(p) PROVE StepOf(p)
    BY <1>2 DEF Deliver, StepOf
<1>3. ASSUME NEW p \in Proc, NEW l \in Label, Step(p, l)
      PROVE  /\ UNCHANGED <<held, hands, starved>> /\ pc' \in [Proc -> Label] /\ Others(p) /\ pc'[p] = l
    BY <1>3 DEF Step, Goto, held, hands, lifecycle, ringvars, locks, netvars, envvars, counters, passvars, history,
        Others, TypeInv
<1>4. ASSUME NEW p \in Proc, DrainPass(p) PROVE StepOf(p)
    <2>1. CASE BatchFull(p)
        <3>1. batch[p] # <<>>
            BY <2>1 DEF BatchFull, TypeInv, Use
        <3> QED
            BY <2>1, <3>1, <1>3 DEF BatchFull, StepOf, MovePass
    <2>2. CASE PassDone(p)
        BY <2>2, <1>3 DEF PassDone, StepOf, MovePass
    <2> QED
        BY <1>4, <2>1, <2>2 DEF DrainPass, StepOf
<1>5. ASSUME NEW p \in Proc, Status(p) PROVE StepOf(p)
    <2> USE DEF Status, StepOf
    <2>1. CASE StatusGlobal(p)
        BY <2>1 DEF StatusGlobal, MoveOutside, Outside, Goto, held, hands, lifecycle, ringvars, locks, netvars,
            counters, passvars, history, Others, TypeInv
    <2>2. CASE StatusDelivery(p)
        BY <2>2 DEF StatusDelivery, MoveOutside, Outside, Goto, held, hands, lifecycle, ringvars, locks, netvars,
            counters, passvars, history, Others, TypeInv
    <2>3. CASE StatusRings(p)
        <3> DEFINE sum == CtrAdd(snap[p], CtrSum(Registered))
        <3>1. CASE p \in Thread /\ sum.emitted = 0
            BY <2>3, <3>1 DEF StatusRings
        <3>2. CASE ~(p \in Thread /\ sum.emitted = 0)
            <4>1. pc[p] = "statusrings" /\ Goto(p, "statusline")
                  /\ UNCHANGED <<lifecycle, ringvars, locks, netvars, envvars, counters, cur, passvars, history>>
                BY <2>3, <3>2 DEF StatusRings
            <4> QED
                BY <4>1 DEF MoveOutside, Outside, Goto, held, hands, lifecycle, ringvars, locks, netvars,
                    counters, passvars, history, Others, TypeInv
        <3> QED
            BY <3>1, <3>2
    <2> QED
        BY <1>5, <2>1, <2>2, <2>3
<1>6. ASSUME NEW t \in Thread, Emit(t) PROVE StepOf(t) \/ CallOf(t)
    <2> USE DEF StepOf, CallOf
    <2>1. CASE Reject(t) \/ NoMemory(t)
        BY <2>1 DEF Reject, NoMemory, Drops
    <2>2. CASE LoadState(t)
        BY <2>2 DEF LoadState, MoveEmit, Emitting, Goto, held, hands, lifecycle, ringvars, locks, netvars,
            counters, passvars, history, Others, TypeInv
    <2>3. CASE Start(t)
        <3> USE <2>3 DEF Start, MoveEmit, Emitting, held, hands, ringvars, locks, netvars, counters, passvars,
            history, Others, TypeInv
        <3>1. ASSUME NEW d \in use.drains, StartRing(t, d) PROVE MoveEmit(t)
            BY <3>1 DEF StartRing, Use
        <3>2. CASE StartSync(t) \/ StartedByOther(t)
            BY <3>2 DEF StartSync, StartedByOther, Goto, lifecycle
        <3> QED
            BY <3>1, <3>2
    <2>4. CASE Register(t)
        BY <2>4 DEF Register, Registers, MoveEmit, Emitting, Goto, held, hands, lifecycle, ringvars, locks, netvars,
            counters, passvars, history, Others, TypeInv
    <2>5. CASE Store(t)
        BY <2>5, <1>3 DEF Store, Publishes, Drops, MoveEmit, Emitting
    <2>6. CASE Wait(t)
        BY <2>6, <1>3 DEF Wait, WaitExpires, Publishes, Drops, MoveEmit, Emitting, Control, ControlAt, OwnRingAt
    <2>7. CASE Check(t)
        BY <2>7, <1>3 DEF Check, MoveOutside, Outside
    <2>8. CASE DrainOwn(t)
        <3>1. CASE pc[t] = "own" /\ LockAndDrain(t, "own", <<tls[t]>>)
            <4>1. <<tls[t]>> \in Seq(RingId)
                BY <3>1 DEF Control, ControlAt, OwnRingAt, TypeInv
            <4> QED
                BY <3>1, <4>1 DEF Locking
        <3>2. CASE OwnStarves(t)
            BY <3>2 DEF OwnStarves, NoBatch, Starved, MoveOutside, Outside, Goto, held, hands, ringvars, locks,
                netvars, counters, passvars, history, Others, TypeInv
        <3> QED
            BY <2>8, <3>1, <3>2 DEF DrainOwn
    <2>9. CASE EmitSync(t)
        <3>1. CASE ~Overtake(t) /\ HasLeftover(t)
            <4>1. <<tls[t]>> \in Seq(RingId)
                BY <3>1 DEF HasLeftover, TypeInv
            <4> QED
                BY <2>9, <3>1, <4>1 DEF EmitSync, HasLeftover, Locking
        <3>2. CASE ~Overtake(t) /\ ~HasLeftover(t)
            BY <2>9, <3>2 DEF EmitSync, HasLeftover, SendsFirst, lifecycle
        <3>3. CASE Overtake(t)
            BY <3>3 DEF Overtake, NoBatch, Starved, SendsFirst, Overtook, locks
        <3> QED
            BY <3>1, <3>2, <3>3
    <2> QED
        BY <1>6, <2>1, <2>2, <2>3, <2>4, <2>5, <2>6, <2>7, <2>8, <2>9 DEF Emit
<1>7. ASSUME NEW t \in Thread, ShutdownSteps(t) PROVE StepOf(t)
    <2> USE DEF StepOf
    <2>1. CASE ShutdownDrain(t)
        BY <2>1 DEF ShutdownDrain, Locking, TypeInv
    <2>2. CASE ShutdownGivesUp(t) \/ ExecFailed(t) \/ JoinTimeout(t)
        BY ZenonT(60), <2>2 DEF ShutdownGivesUp, ExecFailed, JoinTimeout, JoinEnds, MoveOutside, Outside, Goto, held, hands,
            lifecycle, ringvars, locks, netvars, counters, passvars, history, Others, TypeInv
    <2>3. CASE Join(t)
        BY <2>3 DEF Join, JoinEnds, MoveOutside, Outside, held, hands,
            lifecycle, ringvars, locks, netvars, counters, passvars, history, Others, TypeInv
    <2> QED
        BY <1>7, <2>1, <2>2, <2>3 DEF ShutdownSteps
<1>8. ASSUME NEW d \in Drain, Pass(d) \/ Drained(d) PROVE StepOf(d)
    BY <1>8, <1>3 DEF Pass, PassStarves, Drained, StepOf, MoveOutside, Outside, Locking, TypeInv
<1>9. ASSUME NEW t \in Thread, Call(t) PROVE CallOf(t)
    BY <1>9 DEF Call, CallOf
<1> QED
    BY <1>1, <1>2, <1>4, <1>5, <1>6, <1>7, <1>8, <1>9 DEF Next, Run

\* The types hold at the start ...
LEMMA TypeInit == Init => TypeInv
<1> SUFFICES ASSUME Init PROVE TypeInv
    OBVIOUS
<1>1. use \in Use
    BY TransportAssumption DEF Init
<1>2. pc \in [Proc -> Label]
    BY DEF Init, Label
<1> QED
    BY <1>1, <1>2 DEF Init, TypeInv, Job, Sent

\* ... and after every step.
LEMMA TypeStep == ASSUME TypeInv, Control, [Next]_vars PROVE TypeInv'
<1> USE DEF Proc
<1>0. CASE UNCHANGED vars \/ Still
    BY <1>0 DEF Still, held, hands, vars, image, lifecycle, ringvars, locks, netvars, counters, passvars, history, TypeInv
<1>a. ASSUME NEW p \in Proc, StepOf(p), UNCHANGED use PROVE TypeInv'
    <2>1. CASE MoveOutside(p) \/ MovePass(p)
        BY <2>1 DEF MoveOutside, MovePass, held, hands, TypeInv
    <2>2. CASE Locking(p)
        <3>1. PICK why \in Job, rs \in Seq(RingId) : LockAndDrain(p, why, rs)
            BY <2>2 DEF Locking
        <3> QED
            BY <1>a, <3>1 DEF LockAndDrain, Goto, Label, lifecycle, ringvars, netvars, counters, history, TypeInv
    <2>3. CASE Take(p)
        <3>1. Head(todo[p]) \in RingId
            BY <2>3 DEF Take, TypeInv
        <3>2. /\ Head(rb[Head(todo[p])]) \in Rec /\ Tail(rb[Head(todo[p])]) \in Seq(Rec)
            BY <2>3, <3>1 DEF Take, TypeInv
        <3>3. Append(batch[p], Head(rb[Head(todo[p])])) \in Seq(Rec)
            BY <3>2 DEF TypeInv
        <3> QED
            BY <1>a, <2>3, <3>1, <3>2, <3>3 DEF Take, lifecycle, ringvars, netvars, counters, history, TypeInv
    <2>4. CASE NextRing(p)
        <3>1. Tail(todo[p]) \in Seq(RingId)
            BY <2>4 DEF NextRing, TypeInv
        <3> QED
            BY <1>a, <2>4, <3>1 DEF NextRing, lifecycle, ringvars, netvars, counters, history, TypeInv
    <2>5. CASE Sweep(p)
        <3>1. rings' \in Seq(RingId)
            BY <2>5 DEF Sweep, Unlink, TypeInv
        <3> QED
            BY <1>a, <2>5, <3>1 DEF Sweep, Goto, Label, lifecycle, netvars, passvars, history, TypeInv
    <2>6. CASE LockSocket(p)
        BY <1>a, <2>6 DEF LockSocket, Goto, Label, lifecycle, ringvars, netvars, counters, history, TypeInv
    <2>7. CASE Connect(p)
        <3>1. pc' \in [Proc -> Label]
            BY <2>7 DEF Connect, Goto, Label, TypeInv
        <3>2. sock' \in Nat /\ nconn' \in Nat
            BY <2>7 DEF Connect, Connected, NewConnection, NoConnection, TypeInv
        <3> QED
            BY <1>a, <2>7, <3>1, <3>2 DEF Connect, ringvars, counters, passvars, history, TypeInv
    <2>8. CASE Send(p)
        <3>1. batch[p][k[p] + 1] \in Rec
            BY <2>8 DEF Send, Control, ControlAt, BatchAt, TypeInv
        <3>2. wire' \in Seq(Sent)
            BY <2>8, <3>1 DEF Send, Sent, TypeInv
        <3>3. k' \in [Proc -> Nat]
            BY <2>8 DEF Send, TypeInv
        <3>4. pc' = pc \/ Goto(p, "sent")
            BY <2>8 DEF Send
        <3>5. pc' \in [Proc -> Label]
            BY <3>4 DEF Goto, Label, TypeInv
        <3> QED
            BY <1>a, <2>8, <3>2, <3>3, <3>5 DEF Send, ringvars, counters, history, TypeInv
    <2>9. CASE SendFailed(p)
        <3>1. pc' \in [Proc -> Label]
            BY ZenonT(60), <2>9 DEF SendFailed, Goto, Label, TypeInv
        <3>2. k' \in [Proc -> Nat]
            <4>1. k' = k \/ k' = [k EXCEPT ![p] = 0]
                BY <2>9 DEF SendFailed
            <4> QED
                BY <4>1 DEF TypeInv
        <3> QED
            BY <1>a, <2>9, <3>1, <3>2 DEF SendFailed, ringvars, counters, history, TypeInv
    <2>10. CASE CountSent(p)
        BY <1>a, <2>10 DEF CountSent, Counted, Goto, Label, Job, ringvars, netvars, history, TypeInv
    <2>11. CASE CountLost(p)
        <3>1. BatchRecords(p) \subseteq Rec
            BY DEF BatchRecords, TypeInv
        <3> QED
            BY <1>a, <2>11, <3>1 DEF CountLost, Counted, Goto, Label, Job, ringvars, netvars, history, TypeInv
    <2>12. CASE StatusConnect(p)
        BY <1>a, <2>12 DEF StatusConnect, Connected, NewConnection, Goto, Label, ringvars, counters, passvars, history, TypeInv
    <2>13. ASSUME StatusReturns(p), sock' \in Nat, nconn' = nconn PROVE TypeInv'
        BY <1>a, <2>13 DEF StatusReturns, AfterStatus, Goto, Label, Job, ringvars, TypeInv
    <2>14. CASE StatusSent(p)
        BY SMTT(30), <2>13, <2>14 DEF StatusSent, NoConnection, TypeInv
    <2> QED
        BY <1>a, <2>1, <2>2, <2>3, <2>4, <2>5, <2>6, <2>7, <2>8, <2>9, <2>10, <2>11, <2>12, <2>13, <2>14 DEF StepOf, TypeInv
<1>b. ASSUME NEW t \in Thread, CallOf(t), UNCHANGED use PROVE TypeInv'
    <2>1. CASE MoveEmit(t)
        BY <2>1 DEF MoveEmit, held, hands, TypeInv
    <2>2. CASE EmitBegin(t)
        <3>1. nemit[t] + 1 \in Nat
            BY DEF TypeInv
        <3>2. cur' \in [Thread -> Rec \cup {None}] /\ nemit' \in [Thread -> Nat]
            BY <2>2, <3>1 DEF EmitBegin, Rec, TypeInv
        <3> QED
            BY <1>b, <2>2, <3>2 DEF EmitBegin, Goto, Label, lifecycle, ringvars, netvars, passvars, TypeInv
    <2>3. CASE Drops(t)
        <3>1. cur[t] \in Rec
            BY <2>3 DEF Drops, Control, ControlAt, HandAt, Holding, Emitting, TypeInv
        <3> QED
            BY <1>b, <2>3, <3>1 DEF Drops, Drop, Goto, Label, lifecycle, ringvars, netvars, passvars, history, TypeInv
    <2>4. CASE Registers(t)
        <3>1. FreshRing(t) \in RingId
            BY DEF FreshRing, RingId
        <3>2. <<FreshRing(t)>> \o rings \in Seq(RingId)
            BY <3>1 DEF TypeInv
        <3> QED
            BY <1>b, <2>4, <3>1, <3>2 DEF Registers, Register, Goto, Label, lifecycle, netvars, counters, passvars, history, TypeInv
    <2>5. CASE Publishes(t)
        <3>1. cur[t] \in Rec /\ tls[t] \in RingId
            BY <2>5 DEF Publishes, Control, ControlAt, HandAt, Holding, Emitting, OwnRingAt, TypeInv
        <3>2. Append(rb[tls[t]], cur[t]) \in Seq(Rec)
            BY <3>1 DEF TypeInv
        <3> QED
            BY <1>b, <2>5, <3>1, <3>2 DEF Publishes, Publish, Goto, Label, netvars, counters, passvars, history, TypeInv
    <2>6. ASSUME SendInHand(t), cur[t] # None PROVE TypeInv'
        <3>1. <<cur[t]>> \in Seq(Rec)
            BY <2>6 DEF TypeInv
        <3> QED
            BY <1>b, <2>6, <3>1 DEF SendInHand, Goto, Label, Job, ringvars, netvars, counters, history, TypeInv
    <2>7. CASE SendsFirst(t)
        BY <2>6, <2>7 DEF SendsFirst, Control, ControlAt, HandAt, Holding, Emitting
    <2>8. CASE OwnDone(t)
        <3>1. CASE job[t] = "sync"
            BY <2>6, <2>8, <3>1 DEF OwnDone, Control, ControlAt, HandAt, Holding, InPass, Passing, PassJobs
        <3>2. CASE job[t] # "sync"
            BY <1>b, <2>8, <3>2 DEF OwnDone, Goto, Label, Job, ringvars, netvars, counters, history, TypeInv
        <3> QED
            BY <3>1, <3>2
    <2>9. ASSUME NEW why \in {"shutdown", "exec"}, Shutdown(t, why) PROVE TypeInv'
        BY <1>b, <2>9 DEF Shutdown, Goto, Label, Job, ringvars, netvars, counters, TypeInv
    <2>10. CASE ThreadExit(t)
        <3>1. pc' \in [Proc -> Label]
            BY <2>10 DEF ThreadExit, Goto, Label, TypeInv
        <3>2. tls[t] \in RingId
            BY <2>10 DEF ThreadExit, RingId
        <3> QED
            BY <1>b, <2>10, <3>1, <3>2 DEF ThreadExit, netvars, counters, passvars, history, TypeInv
    <2>11. CASE Fork(t)
        <3>1. Emitted \subseteq Rec
            BY TransportAssumption DEF Emitted, Record, Rec, Use
        <3> QED
            BY <1>b, <2>11, <3>1 DEF Fork, ChildSocket, ChildRings, Label, Job, TypeInv
    <2> QED
        BY <1>b, <2>1, <2>2, <2>3, <2>4, <2>5, <2>7, <2>8, <2>9, <2>10, <2>11 DEF CallOf
<1> QED
    BY <1>0, <1>a, <1>b, StepCases

-----------------------------------------------------------------------------
(* The steps once more, process by process: what each of them does to the  *)
(* process that takes it (Apart: the others keep what they have), to the   *)
(* records and to the locks.                                               *)

Apart(p) == \A q \in Proc \ {p} :
    /\ pc'[q] = pc[q] /\ job'[q] = job[q] /\ batch'[q] = batch[q] /\ todo'[q] = todo[q] /\ k'[q] = k[q]
SameWork(p) == job'[p] = job[p] /\ batch'[p] = batch[p] /\ todo'[p] = todo[p] /\ k'[p] = k[p]
records == <<rb, cur, nemit, wire, dropped, inherited, forked_at>>
shared == <<sock, nconn, sock_mu>>
own == <<tls, orphan, drain_mu>>

DoLock(p) ==
    /\ Apart(p) /\ UNCHANGED <<records, shared, tls, orphan, use, starved>>
    /\ drain_mu = None /\ drain_mu' = p
    /\ pc'[p] = "drain" /\ batch'[p] = batch[p] /\ k'[p] = k[p]
    /\ \/ p \in Thread /\ pc[p] = "own" /\ job'[p] = "own"
       \/ p \in Thread /\ pc[p] = "sync" /\ job'[p] = "sync" /\ tls[p] # None /\ todo'[p] = <<tls[p]>>
       \/ p \in Thread /\ pc[p] = "shutlock" /\ job'[p] = job[p]
       \/ p \in Drain /\ pc[p] = "lock" /\ job'[p] = "main"
DoTake(p, r) ==
    /\ Apart(p) /\ UNCHANGED <<cur, nemit, wire, dropped, inherited, forked_at, shared, own, use, starved>>
    /\ pc[p] = "drain" /\ pc'[p] = "drain" /\ job'[p] = job[p] /\ todo'[p] = todo[p] /\ k'[p] = k[p]
    /\ todo[p] # <<>> /\ r = Head(todo[p]) /\ rb[r] # <<>>
    /\ batch'[p] = Append(batch[p], Head(rb[r]))
    /\ rb'[r] = Tail(rb[r]) /\ \A s \in RingId \ {r} : rb'[s] = rb[s]
DoNext(p) ==
    /\ Apart(p) /\ UNCHANGED <<records, shared, own, use, starved>>
    /\ pc[p] = "drain" /\ pc'[p] = "drain" /\ job'[p] = job[p] /\ batch'[p] = batch[p] /\ k'[p] = k[p]
    /\ todo[p] # <<>> /\ rb[Head(todo[p])] = <<>> /\ todo'[p] = Tail(todo[p])
DoSweep(p) ==
    /\ Apart(p) /\ SameWork(p) /\ UNCHANGED <<records, shared, tls, use, starved>>
    /\ orphan' \subseteq orphan /\ drain_mu' = None
    /\ pc[p] = "sweep" /\ pc'[p] \in {"drained", "status"} /\ job[p] \in {"main", "shutdown", "exec"}
DoLockSocket(p) ==
    /\ Apart(p) /\ UNCHANGED <<records, sock, nconn, own, use, starved>>
    /\ job'[p] = job[p] /\ batch'[p] = batch[p] /\ todo'[p] = todo[p] /\ k'[p] = 0
    /\ sock_mu = None /\ sock_mu' = p /\ pc[p] = "deliver" /\ pc'[p] = "connect"
DoConnect(p) ==
    /\ Apart(p) /\ SameWork(p) /\ UNCHANGED <<records, own, use, starved>>
    /\ pc[p] = "connect"
    /\ \/ pc'[p] = "send" /\ UNCHANGED sock_mu /\ sock # 0 /\ UNCHANGED <<sock, nconn>>
       \/ pc'[p] = "send" /\ UNCHANGED sock_mu /\ sock = 0 /\ nconn' = nconn + 1 /\ sock' = nconn + 1
       \/ pc'[p] = "lost" /\ sock_mu' = None /\ UNCHANGED <<sock, nconn>>
DoSend(p) ==
    /\ Apart(p) /\ UNCHANGED <<rb, cur, nemit, dropped, inherited, forked_at, sock, nconn, own, use, starved>>
    /\ job'[p] = job[p] /\ batch'[p] = batch[p] /\ todo'[p] = todo[p] /\ k'[p] = k[p] + 1
    /\ wire' = Append(wire, [conn |-> sock, rec |-> batch[p][k[p] + 1]])
    /\ pc[p] = "send"
    /\ \/ pc'[p] = "send" /\ UNCHANGED sock_mu /\ k[p] + 1 # Len(batch[p])
       \/ pc'[p] = "sent" /\ sock_mu' = None /\ k[p] + 1 = Len(batch[p])
DoFail(p) ==
    /\ Apart(p) /\ UNCHANGED <<records, nconn, own, use, starved>>
    /\ job'[p] = job[p] /\ batch'[p] = batch[p] /\ todo'[p] = todo[p]
    /\ sock' = 0 /\ pc[p] = "send"
    /\ \/ pc'[p] = "connect" /\ k'[p] = 0 /\ UNCHANGED sock_mu
       \/ pc'[p] = "lost" /\ k'[p] = k[p] /\ sock_mu' = None
DoCount(p) ==
    /\ Apart(p) /\ UNCHANGED <<rb, cur, nemit, wire, inherited, forked_at, shared, own, use, starved>>
    /\ batch'[p] = <<>> /\ k'[p] = 0 /\ todo'[p] = todo[p]
    /\ \/ job[p] = "one" /\ job'[p] = "none" /\ pc'[p] = "idle"
       \/ job[p] # "one" /\ job'[p] = job[p] /\ todo[p] # <<>> /\ pc'[p] = "drain"
       \/ job[p] # "one" /\ job'[p] = job[p] /\ todo[p] = <<>> /\ pc'[p] = "sweep"
    /\ \/ pc[p] = "sent" /\ dropped' = dropped
       \/ pc[p] = "lost" /\ dropped' = dropped \cup BatchRecords(p)
DoStatusConnect(p) ==
    /\ Apart(p) /\ SameWork(p) /\ UNCHANGED <<records, own, use, starved>>
    /\ pc[p] = "statuslock" /\ pc'[p] = "statussend" /\ sock_mu = None /\ sock_mu' = p
    /\ \/ sock # 0 /\ UNCHANGED <<sock, nconn>>
       \/ sock = 0 /\ nconn' = nconn + 1 /\ sock' = nconn + 1
DoStatusEnd(p) ==
    /\ Apart(p) /\ UNCHANGED <<records, nconn, own, use, starved>>
    /\ job'[p] = "none" /\ batch'[p] = batch[p] /\ todo'[p] = todo[p] /\ k'[p] = k[p]
    /\ pc[p] \in {"statusrings", "statuslock", "statussend"} /\ pc'[p] \in {"loop", "idle", "execfailed"}
    /\ \/ UNCHANGED <<sock, sock_mu>>
       \/ pc[p] = "statussend" /\ sock_mu' = None /\ sock' \in {sock, 0}
DoBegin(t) ==
    /\ Apart(t) /\ SameWork(t) /\ UNCHANGED <<rb, wire, dropped, inherited, forked_at, shared, own, use, starved>>
    /\ pc[t] = "idle" /\ pc'[t] = "push" /\ nemit[t] < use.emits[t]
    /\ nemit'[t] = nemit[t] + 1 /\ cur'[t] = <<t, nemit[t] + 1>>
    /\ \A u \in Thread \ {t} : nemit'[u] = nemit[u] /\ cur'[u] = cur[u]
DoDrop(t) ==
    /\ Apart(t) /\ SameWork(t) /\ UNCHANGED <<rb, nemit, wire, inherited, forked_at, shared, own, use, starved>>
    /\ pc[t] \in {"push", "store", "waited"} /\ pc'[t] = "idle"
    /\ dropped' = dropped \cup {cur[t]} /\ cur'[t] = None
    /\ \A u \in Thread \ {t} : cur'[u] = cur[u]
DoRegister(t) ==
    /\ Apart(t) /\ SameWork(t) /\ UNCHANGED <<records, shared, orphan, drain_mu, use, starved>>
    /\ pc[t] = "register" /\ pc'[t] = "store"
    /\ tls'[t] = FreshRing(t) /\ \A u \in Thread \ {t} : tls'[u] = tls[u]
DoPublish(t) ==
    /\ Apart(t) /\ SameWork(t) /\ UNCHANGED <<nemit, wire, dropped, inherited, forked_at, shared, own, use, starved>>
    /\ pc[t] \in {"store", "retry"} /\ pc'[t] = "check"
    /\ cur'[t] = None /\ \A u \in Thread \ {t} : cur'[u] = cur[u]
    /\ rb'[tls[t]] = Append(rb[tls[t]], cur[t]) /\ \A s \in RingId \ {tls[t]} : rb'[s] = rb[s]
DoSendInHand(t) ==
    /\ Apart(t) /\ UNCHANGED <<rb, nemit, wire, dropped, inherited, forked_at, shared, tls, orphan, use>> /\ starved \subseteq starved'
    /\ batch'[t] = <<cur[t]>> /\ cur'[t] = None /\ \A u \in Thread \ {t} : cur'[u] = cur[u]
    /\ job'[t] = "one" /\ pc'[t] = "deliver" /\ todo'[t] = todo[t] /\ k'[t] = k[t]
    /\ \/ pc[t] = "sync" /\ drain_mu = None /\ (tls[t] = None \/ rb[tls[t]] = <<>> \/ Overtook(t)') /\ drain_mu' = None
       \/ pc[t] = "sweep" /\ job[t] = "sync" /\ drain_mu' = None
DoOwnDone(t) ==
    /\ Apart(t) /\ UNCHANGED <<records, shared, tls, orphan, use, starved>>
    /\ pc[t] = "sweep" /\ job[t] = "own" /\ drain_mu' = None
    /\ pc'[t] = "idle" /\ job'[t] = "none" /\ batch'[t] = batch[t] /\ todo'[t] = todo[t] /\ k'[t] = k[t]
DoShutdown(t) ==
    /\ Apart(t) /\ UNCHANGED <<records, shared, own, use, starved>>
    /\ pc[t] = "idle" /\ pc'[t] \in {"join", "shutlock"}
    /\ job'[t] \in {"shutdown", "exec"} /\ batch'[t] = batch[t] /\ todo'[t] = todo[t] /\ k'[t] = k[t]
DoExit(t) ==
    /\ Apart(t) /\ SameWork(t) /\ UNCHANGED <<records, shared, drain_mu, use, starved>>
    /\ pc[t] = "idle" /\ tls[t] = <<t, 1>> /\ tls'[t] = None /\ \A u \in Thread \ {t} : tls'[u] = tls[u]
    /\ orphan' = orphan \cup {<<t, 1>>}
    /\ \/ use.late /\ pc'[t] = "idle"
       \/ ~use.late /\ pc'[t] = "gone"

Does(p) ==
    \/ MoveOutside(p) \/ MovePass(p) \/ DoLock(p) \/ (\E r \in RingId : DoTake(p, r)) \/ DoNext(p) \/ DoSweep(p)
    \/ DoLockSocket(p) \/ DoConnect(p) \/ DoSend(p) \/ DoFail(p) \/ DoCount(p) \/ DoStatusConnect(p) \/ DoStatusEnd(p)
Calls(t) ==
    \/ MoveEmit(t) \/ DoBegin(t) \/ DoDrop(t) \/ DoRegister(t) \/ DoPublish(t) \/ DoSendInHand(t) \/ DoOwnDone(t)
    \/ DoShutdown(t) \/ DoExit(t) \/ Fork(t)

\* Every step is one of the effects above.
LEMMA StepEffects ==
    ASSUME TypeInv, Control, [Next]_vars
    PROVE  (UNCHANGED vars \/ Still) \/ (\E p \in Proc : Does(p)) \/ (\E t \in Thread : Calls(t))
<1> USE DEF TypeInv, Apart, SameWork, records, shared, own, Goto, lifecycle, ringvars, locks, netvars, counters,
        passvars, history
<1>a. ASSUME NEW p \in Proc, StepOf(p), UNCHANGED use PROVE Does(p)
    <2> USE <1>a DEF Does
    <2>2. CASE Locking(p)
        <3>1. PICK why \in Job, rs \in Seq(RingId) : 
                /\ LockAndDrain(p, why, rs)
                /\ \/ p \in Thread /\ pc[p] = "own" /\ why = "own" /\ rs = <<tls[p]>>
                   \/ p \in Thread /\ pc[p] = "sync" /\ tls[p] # None /\ why = "sync" /\ rs = <<tls[p]>>
                   \/ p \in Thread /\ pc[p] = "shutlock" /\ why = job[p] /\ rs = rings
                   \/ p \in Drain /\ pc[p] = "lock" /\ why = "main" /\ rs = rings
            BY <2>2 DEF Locking
        <3>2. DoLock(p)
            BY <3>1 DEF LockAndDrain, DoLock
        <3> QED
            BY <3>2
    <2>3. CASE Take(p)
        <3>1. Head(todo[p]) \in RingId
            BY <2>3 DEF Take
        <3>2. DoTake(p, Head(todo[p]))
            BY <2>3, <3>1 DEF Take, DoTake
        <3> QED
            BY <3>1, <3>2
    <2>4. CASE NextRing(p)
        <3>1. DoNext(p)
            BY <2>4 DEF NextRing, DoNext
        <3> QED
            BY <3>1
    <2>5. CASE Sweep(p)
        <3>1. DoSweep(p)
            BY <2>5 DEF Sweep, DoSweep
        <3> QED
            BY <3>1
    <2>6. CASE LockSocket(p)
        <3>1. DoLockSocket(p)
            BY <2>6 DEF LockSocket, DoLockSocket
        <3> QED
            BY <3>1
    <2>7. CASE Connect(p)
        <3>1. DoConnect(p)
            BY <2>7 DEF Connect, Connected, NewConnection, NoConnection, DoConnect
        <3> QED
            BY <3>1
    <2>8. CASE Send(p)
        <3>1. \/ pc' = pc /\ UNCHANGED sock_mu /\ k[p] + 1 # Len(batch[p])
              \/ Goto(p, "sent") /\ sock_mu' = None /\ k[p] + 1 = Len(batch[p])
            BY <2>8 DEF Send
        <3>2. DoSend(p)
            BY <2>8, <3>1 DEF Send, DoSend
        <3> QED
            BY <3>2
    <2>9. CASE SendFailed(p)
        <3>1. \/ Goto(p, "connect") /\ k' = [k EXCEPT ![p] = 0] /\ UNCHANGED sock_mu
              \/ Goto(p, "lost") /\ k' = k /\ sock_mu' = None
            BY <2>9 DEF SendFailed
        <3>2. DoFail(p)
            BY <2>9, <3>1 DEF SendFailed, DoFail
        <3> QED
            BY <3>2
    <2>10. CASE CountSent(p) \/ CountLost(p)
        <3>1. /\ Counted(p)
              /\ \/ pc[p] = "sent" /\ dropped' = dropped
                 \/ pc[p] = "lost" /\ dropped' = dropped \cup BatchRecords(p)
            BY <2>10 DEF CountSent, CountLost
        <3>2. \/ job[p] = "one" /\ job' = [job EXCEPT ![p] = "none"] /\ Goto(p, "idle")
              \/ job[p] # "one" /\ job' = job /\ todo[p] # <<>> /\ Goto(p, "drain")
              \/ job[p] # "one" /\ job' = job /\ todo[p] = <<>> /\ Goto(p, "sweep")
            BY <3>1 DEF Counted
        <3>3. DoCount(p)
            BY <3>1, <3>2 DEF Counted, DoCount
        <3> QED
            BY <3>3
    <2>11. CASE StatusConnect(p)
        <3>1. DoStatusConnect(p)
            BY <2>11 DEF StatusConnect, Connected, NewConnection, DoStatusConnect
        <3> QED
            BY <3>1
    <2>12. ASSUME StatusReturns(p), pc[p] \in {"statusrings", "statuslock", "statussend"}, UNCHANGED nconn,
                  \/ UNCHANGED <<sock, sock_mu>>
                  \/ pc[p] = "statussend" /\ sock_mu' = None /\ sock' \in {sock, 0}
           PROVE  Does(p)
        <3>1. AfterStatus(p) \in {"loop", "idle", "execfailed"}
            BY DEF AfterStatus, Proc
        <3>2. DoStatusEnd(p)
            BY <2>12, <3>1 DEF StatusReturns, DoStatusEnd
        <3> QED
            BY <3>2
    <2>13. CASE StatusSent(p)
        BY <2>12, <2>13 DEF StatusSent, NoConnection
    <2>14. CASE pc[p] = "statusrings" /\ StatusReturns(p) /\ UNCHANGED <<sock, nconn, sock_mu>>
        BY <2>12, <2>14
    <2> QED
        BY <1>a, <2>2, <2>3, <2>4, <2>5, <2>6, <2>7, <2>8, <2>9, <2>10, <2>11, <2>13, <2>14 DEF StepOf
<1>b. ASSUME NEW t \in Thread, CallOf(t), UNCHANGED use PROVE Calls(t)
    <2> USE <1>b DEF Calls
    <2> t \in Proc
        BY DEF Proc
    <2>2. CASE EmitBegin(t)
        <3>1. DoBegin(t)
            BY <2>2 DEF EmitBegin, DoBegin
        <3> QED
            BY <3>1
    <2>3. CASE Drops(t)
        <3>1. DoDrop(t)
            BY <2>3 DEF Drops, Drop, DoDrop
        <3> QED
            BY <3>1
    <2>4. CASE Registers(t)
        <3>1. pc' = [pc EXCEPT ![t] = "store"] /\ tls' = [tls EXCEPT ![t] = FreshRing(t)]
            BY <2>4 DEF Registers, Register, Label
        <3>2. DoRegister(t)
            BY <2>4, <3>1 DEF Registers, Register, DoRegister
        <3> QED
            BY <3>2
    <2>5. CASE Publishes(t)
        <3>1. tls[t] \in RingId
            BY <2>5 DEF Publishes, Control, ControlAt, OwnRingAt
        <3>2. DoPublish(t)
            BY <2>5, <3>1 DEF Publishes, Publish, DoPublish
        <3> QED
            BY <3>2
    <2>6. CASE SendsFirst(t)
        <3>1. DoSendInHand(t)
            BY <2>6 DEF SendsFirst, SendInHand, DoSendInHand
        <3> QED
            BY <3>1
    <2>7. CASE OwnDone(t) /\ job[t] = "sync"
        <3>1. SendInHand(t)
            BY <2>7 DEF OwnDone
        <3>2. DoSendInHand(t)
            BY <2>7, <3>1 DEF OwnDone, SendInHand, DoSendInHand
        <3> QED
            BY <3>2
    <2>8. CASE OwnDone(t) /\ job[t] # "sync"
        <3>1. DoOwnDone(t)
            BY <2>8 DEF OwnDone, DoOwnDone
        <3> QED
            BY <3>1
    <2>9. ASSUME NEW why \in {"shutdown", "exec"}, Shutdown(t, why) PROVE Calls(t)
        <3>1. Goto(t, "join") \/ Goto(t, "shutlock")
            BY <2>9 DEF Shutdown
        <3>2. DoShutdown(t)
            BY <2>9, <3>1 DEF Shutdown, DoShutdown
        <3> QED
            BY <3>2
    <2>10. CASE ThreadExit(t)
        <3>1. (use.late /\ pc' = pc) \/ (~use.late /\ Goto(t, "gone"))
            BY <2>10 DEF ThreadExit
        <3>2. DoExit(t)
            BY <2>10, <3>1 DEF ThreadExit, DoExit
        <3> QED
            BY <3>2
    <2> QED
        BY <1>b, <2>2, <2>3, <2>4, <2>5, <2>6, <2>7, <2>8, <2>9, <2>10 DEF CallOf
<1> QED
    BY <1>a, <1>b, StepCases

(* What a step does not take from the other processes: their locks, and    *)
(* the connection while one of them uses it.                               *)
Away(p) ==
    /\ drain_mu' = drain_mu \/ drain_mu \in {None, p}
    /\ sock_mu' = sock_mu \/ sock_mu \in {None, p}
    /\ sock' = sock \/ sock_mu \in {None, p}
    /\ \A q \in Proc \ {p} :
        /\ pc'[q] = pc[q] \/ (pc[q] \in {"none", "dead"} /\ pc'[q] \in {"none", "loop"})
        /\ job'[q] = job[q] /\ batch'[q] = batch[q] /\ todo'[q] = todo[q] /\ k'[q] = k[q]
        /\ q \in Thread => cur'[q] = cur[q] /\ nemit'[q] = nemit[q] /\ tls'[q] = tls[q]

\* What a process's step does to the bookkeeping of the others: nothing.
LEMMA StepsAway ==
    ASSUME TypeInv, Control, NEW p \in Proc, Does(p) \/ (p \in Thread /\ Calls(p) /\ ~Fork(p))
    PROVE  Away(p)
<1> USE TransportAssumption DEF Proc, Away, Control, ControlAt, LocksAt, InPass, Passing, Delivering, PassJobs
<1>1. CASE MoveOutside(p)
    BY <1>1 DEF MoveOutside, Outside, Others, held, hands
<1>2. CASE MovePass(p)
    BY <1>2 DEF MovePass, Others, held, hands
<1>3. CASE DoLock(p)
    BY <1>3 DEF DoLock, Apart, records, shared
<1>4. ASSUME NEW r \in RingId, DoTake(p, r) PROVE Away(p)
    BY <1>4 DEF DoTake, Apart, shared, own
<1>5. CASE DoNext(p)
    BY <1>5 DEF DoNext, Apart, records, shared, own
<1>6. CASE DoSweep(p)
    BY <1>6 DEF DoSweep, Apart, records, shared
<1>7. CASE DoLockSocket(p)
    BY <1>7 DEF DoLockSocket, Apart, records, own
<1>8. CASE DoConnect(p)
    BY <1>8 DEF DoConnect, Apart, records, own
<1>9. CASE DoSend(p)
    BY <1>9 DEF DoSend, Apart, own
<1>10. CASE DoFail(p)
    BY <1>10 DEF DoFail, Apart, records, own
<1>11. CASE DoCount(p)
    BY <1>11 DEF DoCount, BatchRecords, Apart, shared, own
<1>12. CASE DoStatusConnect(p)
    BY <1>12 DEF DoStatusConnect, Apart, records, own
<1>13. CASE DoStatusEnd(p)
    BY <1>13 DEF DoStatusEnd, Apart, records, own
<1>14. CASE p \in Thread /\ MoveEmit(p)
    BY <1>14 DEF MoveEmit, Others, held, hands
<1>15. CASE p \in Thread /\ DoBegin(p)
    BY <1>15 DEF DoBegin, Apart, shared, own
<1>16. CASE p \in Thread /\ DoDrop(p)
    BY <1>16 DEF DoDrop, Apart, shared, own
<1>17. CASE p \in Thread /\ DoRegister(p)
    BY <1>17 DEF DoRegister, FreshRing, RingId, Apart, records, shared
<1>18. CASE p \in Thread /\ DoPublish(p)
    BY <1>18 DEF DoPublish, Apart, shared, own
<1>19. CASE p \in Thread /\ DoSendInHand(p)
    BY <1>19 DEF DoSendInHand, Apart, shared
<1>20. CASE p \in Thread /\ DoOwnDone(p)
    BY <1>20 DEF DoOwnDone, Apart, records, shared
<1>21. CASE p \in Thread /\ DoShutdown(p)
    BY <1>21 DEF DoShutdown, Apart, records, shared, own
<1>22. CASE p \in Thread /\ DoExit(p)
    BY <1>22 DEF DoExit, Apart, records, shared
<1> QED
    BY <1>1, <1>2, <1>3, <1>4, <1>5, <1>6, <1>7, <1>8, <1>9, <1>10, <1>11, <1>12, <1>13, <1>14, <1>15, <1>16, <1>17, <1>18, <1>19, <1>20, <1>21, <1>22 DEF Does, Calls

\* The acting process, one part of Control after the other: the locks,
LEMMA LocksStep ==
    ASSUME TypeInv, Control, NEW p \in Proc, Does(p) \/ (p \in Thread /\ Calls(p) /\ ~Fork(p))
    PROVE  LocksAt(p)'
<1> USE TransportAssumption DEF Proc, Control, ControlAt, Passing, Delivering, Emitting, PassJobs, LocksAt, JobsAt, InPass
<1>1. CASE MoveOutside(p)
    BY <1>1 DEF MoveOutside, Outside, Others, held, hands
<1>2. CASE MovePass(p)
    BY <1>2 DEF MovePass, Others, held, hands
<1>3. CASE DoLock(p)
    BY <1>3 DEF DoLock
<1>4. ASSUME NEW r \in RingId, DoTake(p, r) PROVE LocksAt(p)'
    BY <1>4 DEF DoTake, own
<1>5. CASE DoNext(p)
    BY <1>5 DEF DoNext, own
<1>6. CASE DoSweep(p)
    BY <1>6 DEF DoSweep
<1>7. CASE DoLockSocket(p)
    BY <1>7 DEF DoLockSocket, own
<1>8. CASE DoConnect(p)
    BY <1>8 DEF DoConnect, SameWork, own
<1>9. CASE DoSend(p)
    BY <1>9 DEF DoSend, own
<1>10. CASE DoFail(p)
    BY <1>10 DEF DoFail, own
<1>11. CASE DoCount(p)
    BY <1>11 DEF DoCount, BatchRecords, own
<1>12. CASE DoStatusConnect(p)
    BY <1>12 DEF DoStatusConnect
<1>13. CASE DoStatusEnd(p)
    BY <1>13 DEF DoStatusEnd
<1>14. CASE p \in Thread /\ MoveEmit(p)
    BY <1>14 DEF MoveEmit, Others, held, hands
<1>15. CASE p \in Thread /\ DoBegin(p)
    BY <1>15 DEF DoBegin
<1>16. CASE p \in Thread /\ DoDrop(p)
    BY <1>16 DEF DoDrop
<1>17. CASE p \in Thread /\ DoRegister(p)
    BY <1>17 DEF DoRegister, FreshRing, RingId
<1>18. CASE p \in Thread /\ DoPublish(p)
    BY <1>18 DEF DoPublish
<1>19. CASE p \in Thread /\ DoSendInHand(p)
    BY <1>19 DEF DoSendInHand
<1>20. CASE p \in Thread /\ DoOwnDone(p)
    BY <1>20 DEF DoOwnDone
<1>21. CASE p \in Thread /\ DoShutdown(p)
    BY <1>21 DEF DoShutdown
<1>22. CASE p \in Thread /\ DoExit(p)
    BY <1>22 DEF DoExit
<1> QED
    BY <1>1, <1>2, <1>3, <1>4, <1>5, <1>6, <1>7, <1>8, <1>9, <1>10, <1>11, <1>12, <1>13, <1>14, <1>15, <1>16, <1>17, <1>18, <1>19, <1>20, <1>21, <1>22 DEF Does, Calls

\* its job,
LEMMA JobsStep ==
    ASSUME TypeInv, Control, NEW p \in Proc, Does(p) \/ (p \in Thread /\ Calls(p) /\ ~Fork(p))
    PROVE  JobsAt(p)'
<1> USE TransportAssumption DEF Proc, Control, ControlAt, Passing, Delivering, Emitting, PassJobs, JobsAt
<1>1. CASE MoveOutside(p)
    BY <1>1 DEF MoveOutside, Outside, Others, held, hands
<1>2. CASE MovePass(p)
    BY <1>2 DEF MovePass, Others, held, hands
<1>3. CASE DoLock(p)
    BY <1>3 DEF DoLock
<1>4. ASSUME NEW r \in RingId, DoTake(p, r) PROVE JobsAt(p)'
    BY <1>4 DEF DoTake
<1>5. CASE DoNext(p)
    BY <1>5 DEF DoNext
<1>6. CASE DoSweep(p)
    BY <1>6 DEF DoSweep, SameWork
<1>7. CASE DoLockSocket(p)
    BY <1>7 DEF DoLockSocket
<1>8. CASE DoConnect(p)
    BY <1>8 DEF DoConnect, SameWork
<1>9. CASE DoSend(p)
    BY <1>9 DEF DoSend
<1>10. CASE DoFail(p)
    BY <1>10 DEF DoFail
<1>11. CASE DoCount(p)
    BY <1>11 DEF DoCount, BatchRecords
<1>12. CASE DoStatusConnect(p)
    BY <1>12 DEF DoStatusConnect, SameWork
<1>13. CASE DoStatusEnd(p)
    BY <1>13 DEF DoStatusEnd
<1>14. CASE p \in Thread /\ MoveEmit(p)
    BY <1>14 DEF MoveEmit, Others, held, hands
<1>15. CASE p \in Thread /\ DoBegin(p)
    BY <1>15 DEF DoBegin, SameWork
<1>16. CASE p \in Thread /\ DoDrop(p)
    BY <1>16 DEF DoDrop, SameWork
<1>17. CASE p \in Thread /\ DoRegister(p)
    BY <1>17 DEF DoRegister, FreshRing, RingId, SameWork
<1>18. CASE p \in Thread /\ DoPublish(p)
    BY <1>18 DEF DoPublish, SameWork
<1>19. CASE p \in Thread /\ DoSendInHand(p)
    BY <1>19 DEF DoSendInHand
<1>20. CASE p \in Thread /\ DoOwnDone(p)
    BY <1>20 DEF DoOwnDone
<1>21. CASE p \in Thread /\ DoShutdown(p)
    BY <1>21 DEF DoShutdown
<1>22. CASE p \in Thread /\ DoExit(p)
    BY <1>22 DEF DoExit, SameWork
<1> QED
    BY <1>1, <1>2, <1>3, <1>4, <1>5, <1>6, <1>7, <1>8, <1>9, <1>10, <1>11, <1>12, <1>13, <1>14, <1>15, <1>16, <1>17, <1>18, <1>19, <1>20, <1>21, <1>22 DEF Does, Calls

\* its batch,
LEMMA BatchStep ==
    ASSUME TypeInv, Control, NEW p \in Proc, Does(p) \/ (p \in Thread /\ Calls(p) /\ ~Fork(p))
    PROVE  BatchAt(p)'
<1> USE TransportAssumption DEF Proc, Control, ControlAt, Passing, Delivering, Emitting, PassJobs, BatchAt, JobsAt
<1>1. CASE MoveOutside(p)
    BY <1>1 DEF MoveOutside, Outside, Others, held, hands
<1>2. CASE MovePass(p)
    BY <1>2 DEF MovePass, Others, held, hands
<1>3. CASE DoLock(p)
    BY <1>3 DEF DoLock
<1>4. ASSUME NEW r \in RingId, DoTake(p, r) PROVE BatchAt(p)'
    BY <1>4 DEF DoTake
<1>5. CASE DoNext(p)
    BY <1>5 DEF DoNext
<1>6. CASE DoSweep(p)
    BY <1>6 DEF DoSweep, SameWork
<1>7. CASE DoLockSocket(p)
    BY <1>7 DEF DoLockSocket
<1>8. CASE DoConnect(p)
    BY <1>8 DEF DoConnect, TypeInv, SameWork
<1>9. CASE DoSend(p)
    BY SMTT(30), <1>9 DEF DoSend, TypeInv
<1>10. CASE DoFail(p)
    BY <1>10 DEF DoFail
<1>11. CASE DoCount(p)
    BY <1>11 DEF DoCount, BatchRecords
<1>12. CASE DoStatusConnect(p)
    <2>1. sock' # 0
        BY <1>12 DEF DoStatusConnect, TypeInv
    <2>2. pc'[p] = "statussend" /\ batch'[p] = batch[p] /\ pc[p] = "statuslock"
        BY <1>12 DEF DoStatusConnect, SameWork
    <2> QED
        BY <2>1, <2>2
<1>13. CASE DoStatusEnd(p)
    BY <1>13 DEF DoStatusEnd
<1>14. CASE p \in Thread /\ MoveEmit(p)
    BY <1>14 DEF MoveEmit, Others, held, hands
<1>15. CASE p \in Thread /\ DoBegin(p)
    BY <1>15 DEF DoBegin, SameWork
<1>16. CASE p \in Thread /\ DoDrop(p)
    BY <1>16 DEF DoDrop, SameWork
<1>17. CASE p \in Thread /\ DoRegister(p)
    BY <1>17 DEF DoRegister, FreshRing, RingId, SameWork
<1>18. CASE p \in Thread /\ DoPublish(p)
    BY <1>18 DEF DoPublish, SameWork
<1>19. CASE p \in Thread /\ DoSendInHand(p)
    <2>1. cur[p] # None
        BY <1>19 DEF DoSendInHand, HandAt, Holding, InPass
    <2>2. batch'[p] = <<<<p, nemit[p]>>>>
        BY <1>19, <2>1 DEF DoSendInHand, HandAt
    <2>3. Len(batch'[p]) = 1 /\ batch'[p][1][1] = p /\ batch'[p] # <<>> /\ pc'[p] = "deliver"
        BY <1>19, <2>2 DEF DoSendInHand
    <2> QED
        BY <2>3
<1>20. CASE p \in Thread /\ DoOwnDone(p)
    BY <1>20 DEF DoOwnDone
<1>21. CASE p \in Thread /\ DoShutdown(p)
    BY <1>21 DEF DoShutdown
<1>22. CASE p \in Thread /\ DoExit(p)
    BY <1>22 DEF DoExit, SameWork
<1> QED
    BY <1>1, <1>2, <1>3, <1>4, <1>5, <1>6, <1>7, <1>8, <1>9, <1>10, <1>11, <1>12, <1>13, <1>14, <1>15, <1>16, <1>17, <1>18, <1>19, <1>20, <1>21, <1>22 DEF Does, Calls

\* the record in hand,
LEMMA HandStep ==
    ASSUME TypeInv, Control, NEW p \in Proc, Does(p) \/ (p \in Thread /\ Calls(p) /\ ~Fork(p))
    PROVE  p \in Thread => HandAt(p)'
<1> USE TransportAssumption DEF Proc, Control, ControlAt, Passing, Delivering, Emitting, PassJobs, HandAt, JobsAt, Holding, InPass
<1>1. CASE MoveOutside(p)
    BY <1>1 DEF MoveOutside, Outside, Others, held, hands
<1>2. CASE MovePass(p)
    BY <1>2 DEF MovePass, Others, held, hands
<1>3. CASE DoLock(p)
    BY <1>3 DEF DoLock, records
<1>4. ASSUME NEW r \in RingId, DoTake(p, r) PROVE p \in Thread => HandAt(p)'
    BY <1>4 DEF DoTake
<1>5. CASE DoNext(p)
    BY <1>5 DEF DoNext, records
<1>6. CASE DoSweep(p)
    BY <1>6 DEF DoSweep, records
<1>7. CASE DoLockSocket(p)
    BY <1>7 DEF DoLockSocket, records
<1>8. CASE DoConnect(p)
    BY <1>8 DEF DoConnect, SameWork, records
<1>9. CASE DoSend(p)
    BY <1>9 DEF DoSend
<1>10. CASE DoFail(p)
    BY <1>10 DEF DoFail, records
<1>11. CASE DoCount(p)
    BY <1>11 DEF DoCount, BatchRecords
<1>12. CASE DoStatusConnect(p)
    BY <1>12 DEF DoStatusConnect, records
<1>13. CASE DoStatusEnd(p)
    BY <1>13 DEF DoStatusEnd, records
<1>14. CASE p \in Thread /\ MoveEmit(p)
    BY <1>14 DEF MoveEmit, Others, held, hands
<1>15. CASE p \in Thread /\ DoBegin(p)
    BY <1>15 DEF DoBegin, TypeInv
<1>16. CASE p \in Thread /\ DoDrop(p)
    BY <1>16 DEF DoDrop
<1>17. CASE p \in Thread /\ DoRegister(p)
    BY <1>17 DEF DoRegister, FreshRing, RingId, records
<1>18. CASE p \in Thread /\ DoPublish(p)
    BY <1>18 DEF DoPublish
<1>19. CASE p \in Thread /\ DoSendInHand(p)
    BY <1>19 DEF DoSendInHand
<1>20. CASE p \in Thread /\ DoOwnDone(p)
    BY <1>20 DEF DoOwnDone, records
<1>21. CASE p \in Thread /\ DoShutdown(p)
    BY <1>21 DEF DoShutdown, records
<1>22. CASE p \in Thread /\ DoExit(p)
    BY <1>22 DEF DoExit, records
<1> QED
    BY <1>1, <1>2, <1>3, <1>4, <1>5, <1>6, <1>7, <1>8, <1>9, <1>10, <1>11, <1>12, <1>13, <1>14, <1>15, <1>16, <1>17, <1>18, <1>19, <1>20, <1>21, <1>22 DEF Does, Calls

\* and its ring.
LEMMA OwnRingStep ==
    ASSUME TypeInv, Control, NEW p \in Proc, Does(p) \/ (p \in Thread /\ Calls(p) /\ ~Fork(p))
    PROVE  p \in Thread => OwnRingAt(p)'
<1> USE TransportAssumption DEF Proc, Control, ControlAt, Passing, Delivering, Emitting, PassJobs, OwnRingAt
<1>1. CASE MoveOutside(p)
    BY <1>1 DEF MoveOutside, Outside, Others, held, hands
<1>2. CASE MovePass(p)
    BY <1>2 DEF MovePass, Others, held, hands
<1>3. CASE DoLock(p)
    BY <1>3 DEF DoLock
<1>4. ASSUME NEW r \in RingId, DoTake(p, r) PROVE p \in Thread => OwnRingAt(p)'
    BY <1>4 DEF DoTake, own
<1>5. CASE DoNext(p)
    BY <1>5 DEF DoNext, own
<1>6. CASE DoSweep(p)
    BY <1>6 DEF DoSweep
<1>7. CASE DoLockSocket(p)
    BY <1>7 DEF DoLockSocket, own
<1>8. CASE DoConnect(p)
    BY <1>8 DEF DoConnect, own
<1>9. CASE DoSend(p)
    BY <1>9 DEF DoSend, own
<1>10. CASE DoFail(p)
    BY <1>10 DEF DoFail, own
<1>11. CASE DoCount(p)
    BY <1>11 DEF DoCount, BatchRecords, own
<1>12. CASE DoStatusConnect(p)
    BY <1>12 DEF DoStatusConnect, own
<1>13. CASE DoStatusEnd(p)
    BY <1>13 DEF DoStatusEnd, own
<1>14. CASE p \in Thread /\ MoveEmit(p)
    BY <1>14 DEF MoveEmit, Others, held, hands
<1>15. CASE p \in Thread /\ DoBegin(p)
    BY <1>15 DEF DoBegin, own
<1>16. CASE p \in Thread /\ DoDrop(p)
    BY <1>16 DEF DoDrop, own
<1>17. CASE p \in Thread /\ DoRegister(p)
    BY <1>17 DEF DoRegister, FreshRing, RingId
<1>18. CASE p \in Thread /\ DoPublish(p)
    BY <1>18 DEF DoPublish, own
<1>19. CASE p \in Thread /\ DoSendInHand(p)
    BY <1>19 DEF DoSendInHand
<1>20. CASE p \in Thread /\ DoOwnDone(p)
    BY <1>20 DEF DoOwnDone
<1>21. CASE p \in Thread /\ DoShutdown(p)
    BY <1>21 DEF DoShutdown, own
<1>22. CASE p \in Thread /\ DoExit(p)
    BY <1>22 DEF DoExit
<1> QED
    BY <1>1, <1>2, <1>3, <1>4, <1>5, <1>6, <1>7, <1>8, <1>9, <1>10, <1>11, <1>12, <1>13, <1>14, <1>15, <1>16, <1>17, <1>18, <1>19, <1>20, <1>21, <1>22 DEF Does, Calls

LEMMA ControlStep == ASSUME TypeInv, Control, [Next]_vars PROVE Control'
<1>1. CASE UNCHANGED vars \/ Still
    BY <1>1 DEF Still, held, hands, vars, image, lifecycle, ringvars, locks, netvars, counters, passvars, history,
        Control, ControlAt, LocksAt, JobsAt, BatchAt, HandAt, OwnRingAt, Holding, InPass
<1>2. ASSUME NEW p \in Proc, Away(p), NEW q \in Proc \ {p} PROVE ControlAt(q)'
    <2> USE <1>2, TransportAssumption DEF Away, Control, ControlAt, Passing, Delivering, Emitting, PassJobs, Proc
    <2>1. LocksAt(q)'
        BY DEF LocksAt, InPass
    <2>2. JobsAt(q)'
        BY DEF JobsAt
    <2>3. BatchAt(q)'
        BY DEF BatchAt, LocksAt
    <2>4. q \in Thread => HandAt(q)' /\ OwnRingAt(q)'
        BY DEF HandAt, OwnRingAt, Holding, InPass
    <2> QED
        BY <2>1, <2>2, <2>3, <2>4
<1>3. ASSUME NEW p \in Proc, Does(p) \/ (p \in Thread /\ Calls(p) /\ ~Fork(p)) PROVE Control'
    <2>1. ControlAt(p)'
        BY <1>3, LocksStep, JobsStep, BatchStep, HandStep, OwnRingStep DEF ControlAt
    <2> QED
        BY <1>2, <1>3, <2>1, StepsAway DEF Control
<1>4. ASSUME NEW t \in Thread, Fork(t) PROVE Control'
    BY <1>4, TransportAssumption DEF Fork, ChildSocket, ChildRings, Control, ControlAt, LocksAt, JobsAt, BatchAt, HandAt,
        OwnRingAt, Holding, InPass, Passing, Delivering, Emitting, PassJobs, Proc
<1> QED
    BY <1>1, <1>3, <1>4, StepEffects DEF Proc

LEMMA ControlInit == Init => Control
<1> SUFFICES ASSUME Init PROVE Control
    OBVIOUS
<1>1. \A p \in Proc : pc[p] \in {"idle", "none", "gone"}
    BY DEF Init, Proc
<1> QED
    BY <1>1, TransportAssumption DEF Init, Control, ControlAt, LocksAt, JobsAt, BatchAt, HandAt, OwnRingAt, Holding,
        InPass, Passing, Delivering, Emitting, PassJobs, Proc

-----------------------------------------------------------------------------
(* Order, when no thread emits after its ring's destructor ran.            *)

(* Nobody fills another thread's ring, or gives it one.                    *)
RingsAway(p) == starved \subseteq starved' /\ \A t \in Thread \ {p} :
    /\ tls'[t] = tls[t] /\ (<<t, 1>> \in orphan' => <<t, 1>> \in orphan)
    /\ rb[<<t, 1>>] = <<>> => rb'[<<t, 1>>] = <<>>
    /\ rb[<<t, 2>>] = <<>> => rb'[<<t, 2>>] = <<>>

\* A thread's rings as the steps of other processes leave them.
LEMMA StepsRingsAway ==
    ASSUME TypeInv, Control, OneRing, NEW p \in Proc, Does(p) \/ (p \in Thread /\ Calls(p) /\ ~Fork(p))
    PROVE  RingsAway(p)
<1> USE TransportAssumption DEF RingsAway, OneRing, OneRingAt, Proc, RingId
<1>1. CASE MoveOutside(p)
    BY <1>1 DEF MoveOutside, Outside, Others, held, hands
<1>2. CASE MovePass(p)
    BY <1>2 DEF MovePass, Others, held, hands
<1>3. CASE DoLock(p)
    BY <1>3 DEF DoLock, records
<1>4. ASSUME NEW r \in RingId, DoTake(p, r) PROVE RingsAway(p)
    <2>1. \A s \in RingId : rb[s] = <<>> => rb'[s] = <<>>
        BY <1>4 DEF DoTake
    <2> QED
        BY <1>4, <2>1 DEF DoTake, own
<1>5. CASE DoNext(p)
    BY <1>5 DEF DoNext, records, own
<1>6. CASE DoSweep(p)
    BY <1>6 DEF DoSweep, records
<1>7. CASE DoLockSocket(p)
    BY <1>7 DEF DoLockSocket, records, own
<1>8. CASE DoConnect(p)
    BY <1>8 DEF DoConnect, records, own
<1>9. CASE DoSend(p)
    BY <1>9 DEF DoSend, own
<1>10. CASE DoFail(p)
    BY <1>10 DEF DoFail, records, own
<1>11. CASE DoCount(p)
    BY <1>11 DEF DoCount, BatchRecords, own
<1>12. CASE DoStatusConnect(p)
    BY <1>12 DEF DoStatusConnect, records, own
<1>13. CASE DoStatusEnd(p)
    BY <1>13 DEF DoStatusEnd, records, own
<1>14. CASE p \in Thread /\ MoveEmit(p)
    BY <1>14 DEF MoveEmit, Others, held, hands
<1>15. CASE p \in Thread /\ DoBegin(p)
    BY <1>15 DEF DoBegin, own
<1>16. CASE p \in Thread /\ DoDrop(p)
    BY <1>16 DEF DoDrop, own
<1>17. CASE p \in Thread /\ DoRegister(p)
    BY <1>17 DEF DoRegister, FreshRing, RingId, records
<1>18. CASE p \in Thread /\ DoPublish(p)
    <2>1. tls[p] \in RingId /\ tls[p][1] = p /\ \A s \in RingId \ {tls[p]} : rb'[s] = rb[s]
        BY <1>18 DEF DoPublish, TypeInv, Control, ControlAt, OwnRingAt
    <2>2. ASSUME NEW t \in Thread \ {p} PROVE rb'[<<t, 1>>] = rb[<<t, 1>>] /\ rb'[<<t, 2>>] = rb[<<t, 2>>]
        BY <2>1, <2>2
    <2> QED
        BY <1>18, <2>2 DEF DoPublish, own
<1>19. CASE p \in Thread /\ DoSendInHand(p)
    BY <1>19 DEF DoSendInHand
<1>20. CASE p \in Thread /\ DoOwnDone(p)
    BY <1>20 DEF DoOwnDone, records
<1>21. CASE p \in Thread /\ DoShutdown(p)
    BY <1>21 DEF DoShutdown, records, own
<1>22. CASE p \in Thread /\ DoExit(p)
    BY <1>22 DEF DoExit, records
<1> QED
    BY <1>1, <1>2, <1>3, <1>4, <1>5, <1>6, <1>7, <1>8, <1>9, <1>10, <1>11, <1>12, <1>13, <1>14, <1>15, <1>16, <1>17, <1>18, <1>19, <1>20, <1>21, <1>22 DEF Does, Calls

\* Without a late emit a thread has one ring ...
LEMMA OneRingStep ==
    ASSUME TypeInv, Control, OneRing, ~use.late, NEW p \in Proc, Does(p) \/ (p \in Thread /\ Calls(p) /\ ~Fork(p))
    PROVE  p \in Thread => OneRingAt(p)'
<1> USE TransportAssumption DEF OneRing, OneRingAt, Emitting, Proc, RingId
<1>1. CASE MoveOutside(p)
    BY <1>1 DEF MoveOutside, Outside, Others, held, hands
<1>2. CASE MovePass(p)
    BY <1>2 DEF MovePass, Others, held, hands
<1>3. CASE DoLock(p)
    BY <1>3 DEF DoLock, records
<1>4. ASSUME NEW r \in RingId, DoTake(p, r) PROVE p \in Thread => OneRingAt(p)'
    <2>1. \A s \in RingId : rb[s] = <<>> => rb'[s] = <<>>
        BY <1>4 DEF DoTake
    <2> QED
        BY <1>4, <2>1 DEF DoTake, own
<1>5. CASE DoNext(p)
    BY <1>5 DEF DoNext, records, own
<1>6. CASE DoSweep(p)
    BY <1>6 DEF DoSweep, records
<1>7. CASE DoLockSocket(p)
    BY <1>7 DEF DoLockSocket, records, own
<1>8. CASE DoConnect(p)
    BY <1>8 DEF DoConnect, records, own
<1>9. CASE DoSend(p)
    BY <1>9 DEF DoSend, own
<1>10. CASE DoFail(p)
    BY <1>10 DEF DoFail, records, own
<1>11. CASE DoCount(p)
    BY <1>11 DEF DoCount, BatchRecords, own
<1>12. CASE DoStatusConnect(p)
    BY <1>12 DEF DoStatusConnect, records, own
<1>13. CASE DoStatusEnd(p)
    BY <1>13 DEF DoStatusEnd, records, own
<1>14. CASE p \in Thread /\ MoveEmit(p)
    BY <1>14 DEF MoveEmit, Others, held, hands
<1>15. CASE p \in Thread /\ DoBegin(p)
    BY <1>15 DEF DoBegin, own
<1>16. CASE p \in Thread /\ DoDrop(p)
    BY <1>16 DEF DoDrop, own
<1>17. CASE p \in Thread /\ DoRegister(p)
    <2>1. tls'[p] = <<p, 1>>
        BY <1>17 DEF DoRegister, FreshRing
    <2> QED
        BY <1>17, <2>1 DEF DoRegister, records
<1>18. CASE p \in Thread /\ DoPublish(p)
    <2>1. tls[p] = <<p, 1>>
        BY <1>18 DEF DoPublish, Control, ControlAt, OwnRingAt
    <2>2. rb'[<<p, 2>>] = rb[<<p, 2>>]
        BY <1>18, <2>1 DEF DoPublish
    <2>3. tls' = tls /\ orphan' = orphan /\ pc[p] # "gone" /\ pc'[p] # "gone"
        BY <1>18 DEF DoPublish, own
    <2> QED
        BY <1>18, <2>1, <2>2, <2>3
<1>19. CASE p \in Thread /\ DoSendInHand(p)
    BY <1>19 DEF DoSendInHand
<1>20. CASE p \in Thread /\ DoOwnDone(p)
    BY <1>20 DEF DoOwnDone, records
<1>21. CASE p \in Thread /\ DoShutdown(p)
    BY <1>21 DEF DoShutdown, records, own
<1>22. CASE p \in Thread /\ DoExit(p)
    <2>1. tls'[p] = None /\ pc'[p] = "gone" /\ UNCHANGED rb
        BY <1>22 DEF DoExit, records
    <2> QED
        BY <2>1
<1> QED
    BY <1>1, <1>2, <1>3, <1>4, <1>5, <1>6, <1>7, <1>8, <1>9, <1>10, <1>11, <1>12, <1>13, <1>14, <1>15, <1>16, <1>17, <1>18, <1>19, <1>20, <1>21, <1>22 DEF Does, Calls

\* ... and sends in hand only when that ring is empty.
LEMMA OwnFirstStep ==
    ASSUME TypeInv, Control, OneRing, NEW p \in Proc, Does(p) \/ (p \in Thread /\ Calls(p) /\ ~Fork(p))
    PROVE  p \in Thread => OwnFirstAt(p)'
<1> USE TransportAssumption DEF Overtook, OneRing, OneRingAt, OwnFirstAt, Control, ControlAt, JobsAt, BatchAt, Passing, Delivering, Emitting, PassJobs, Proc, RingId
<1>1. CASE MoveOutside(p)
    BY <1>1 DEF MoveOutside, Outside, Others, held, hands
<1>2. CASE MovePass(p)
    BY <1>2 DEF MovePass, Others, held, hands
<1>3. CASE DoLock(p)
    BY <1>3 DEF DoLock
<1>4. ASSUME NEW r \in RingId, DoTake(p, r) PROVE p \in Thread => OwnFirstAt(p)'
    <2>1. \A s \in RingId : rb[s] = <<>> => rb'[s] = <<>>
        BY <1>4 DEF DoTake
    <2> QED
        BY <1>4, <2>1 DEF DoTake, own
<1>5. CASE DoNext(p)
    <2>1. CASE p \in Thread /\ job[p] = "sync"
        <3>1. todo[p] = <<<<p, 1>>>> /\ tls[p] = <<p, 1>>
            BY <1>5, <2>1 DEF DoNext
        <3>2. Head(todo[p]) = <<p, 1>> /\ Tail(todo[p]) = <<>>
            BY <3>1
        <3> QED
            BY <1>5, <2>1, <3>1, <3>2 DEF DoNext, records, own
    <2>2. CASE ~(p \in Thread /\ job[p] = "sync")
        <3>1. job[p] # "one" /\ job'[p] = job[p]
            BY <1>5 DEF DoNext
        <3> QED
            BY <2>2, <3>1
    <2> QED
        BY <2>1, <2>2
<1>6. CASE DoSweep(p)
    BY <1>6 DEF DoSweep, SameWork
<1>7. CASE DoLockSocket(p)
    BY <1>7 DEF DoLockSocket, records, own
<1>8. CASE DoConnect(p)
    BY <1>8 DEF DoConnect, SameWork, records, own
<1>9. CASE DoSend(p)
    BY <1>9 DEF DoSend, own
<1>10. CASE DoFail(p)
    BY <1>10 DEF DoFail, records, own
<1>11. CASE DoCount(p)
    BY <1>11 DEF DoCount, BatchRecords, own
<1>12. CASE DoStatusConnect(p)
    <2>1. job[p] \notin {"one", "sync"} /\ job'[p] = job[p]
        BY <1>12 DEF DoStatusConnect, SameWork
    <2> QED
        BY <2>1
<1>13. CASE DoStatusEnd(p)
    BY <1>13 DEF DoStatusEnd
<1>14. CASE p \in Thread /\ MoveEmit(p)
    BY <1>14 DEF MoveEmit, Others, held, hands
<1>15. CASE p \in Thread /\ DoBegin(p)
    <2>1. job[p] \notin {"one", "sync"} /\ job'[p] = job[p]
        BY <1>15 DEF DoBegin, SameWork
    <2> QED
        BY <2>1
<1>16. CASE p \in Thread /\ DoDrop(p)
    <2>1. job[p] \notin {"one", "sync"} /\ job'[p] = job[p]
        BY <1>16 DEF DoDrop, SameWork
    <2> QED
        BY <2>1
<1>17. CASE p \in Thread /\ DoRegister(p)
    BY <1>17 DEF DoRegister, FreshRing, RingId, SameWork, records
<1>18. CASE p \in Thread /\ DoPublish(p)
    <2>1. job[p] \notin {"one", "sync"} /\ job'[p] = job[p]
        BY <1>18 DEF DoPublish, SameWork
    <2> QED
        BY <2>1
<1>19. CASE p \in Thread /\ DoSendInHand(p)
    <2>1. rb[<<p, 1>>] = <<>> \/ Overtook(p)'
        <3>1. CASE pc[p] = "sync" /\ tls[p] = None
            BY <1>19, <3>1
        <3>2. CASE pc[p] = "sync" /\ rb[tls[p]] = <<>> /\ tls[p] # None
            BY <1>19, <3>2
        <3>3. CASE pc[p] = "sweep" /\ job[p] = "sync"
            <4>1. todo[p] = <<>> /\ <<<<p, 1>>>> # <<>>
                BY <3>3
            <4> QED
                BY <1>19, <3>3, <4>1
        <3> QED
            BY <1>19, <3>1, <3>2, <3>3 DEF DoSendInHand
    <2> QED
        BY <1>19, <2>1 DEF DoSendInHand
<1>20. CASE p \in Thread /\ DoOwnDone(p)
    BY <1>20 DEF DoOwnDone
<1>21. CASE p \in Thread /\ DoShutdown(p)
    BY <1>21 DEF DoShutdown
<1>22. CASE p \in Thread /\ DoExit(p)
    <2>1. job[p] \notin {"one", "sync"} /\ job'[p] = job[p]
        BY <1>22 DEF DoExit, SameWork
    <2> QED
        BY <2>1
<1> QED
    BY <1>1, <1>2, <1>3, <1>4, <1>5, <1>6, <1>7, <1>8, <1>9, <1>10, <1>11, <1>12, <1>13, <1>14, <1>15, <1>16, <1>17, <1>18, <1>19, <1>20, <1>21, <1>22 DEF Does, Calls

LEMMA RingsStep == ASSUME TypeInv, Control, OneRing, ~use.late, [Next]_vars PROVE OneRing'
<1>1. CASE UNCHANGED vars \/ Still
    BY <1>1 DEF Still, held, hands, vars, image, lifecycle, ringvars, locks, netvars, counters, passvars, history,
        OneRing, OneRingAt, OwnFirstAt, Overtook
<1>2. ASSUME NEW p \in Proc, Does(p) \/ (p \in Thread /\ Calls(p) /\ ~Fork(p)) PROVE OneRing'
    <2>1. Away(p) /\ RingsAway(p)
        BY <1>2, StepsAway, StepsRingsAway
    <2>2. ASSUME NEW t \in Thread \ {p} PROVE OneRingAt(t)' /\ OwnFirstAt(t)'
        BY <2>1, <2>2 DEF Away, RingsAway, OneRing, OneRingAt, OwnFirstAt, Overtook, Proc
    <2>3. p \in Thread => OneRingAt(p)' /\ OwnFirstAt(p)'
        BY <1>2, OneRingStep, OwnFirstStep
    <2> QED
        BY <2>2, <2>3 DEF OneRing
<1>3. ASSUME NEW t \in Thread, Fork(t) PROVE OneRing'
    BY <1>3 DEF Fork, ChildSocket, ChildRings, OneRing, OneRingAt, OwnFirstAt, Overtook, RingId, Proc
<1> QED
    BY <1>1, <1>2, <1>3, StepEffects DEF Proc

\* Appending a number above all others keeps a sequence sorted.
LEMMA Appended ==
    ASSUME NEW S, NEW s \in Seq(S), NEW x \in S
    PROVE  /\ Append(s, x) \in Seq(S) /\ Len(s) + 1 \in Nat
           /\ DOMAIN Append(s, x) = DOMAIN s \cup {Len(s) + 1}
           /\ Append(s, x)[Len(s) + 1] = x
           /\ \A i \in DOMAIN s : i \in Nat /\ i < Len(s) + 1 /\ Append(s, x)[i] = s[i]
OBVIOUS

\* So does dropping the first ones.
LEMMA Shortened ==
    ASSUME NEW S, NEW s \in Seq(S), s # <<>>
    PROVE  /\ 1 \in DOMAIN s /\ Head(s) = s[1] /\ s[1] \in S
           /\ \A i \in DOMAIN Tail(s) : i \in Nat /\ 1 < i + 1 /\ i + 1 \in DOMAIN s /\ Tail(s)[i] = s[i + 1]
OBVIOUS

(* Every record anywhere has a thread and a number.                        *)

LEMMA Numbers ==
    ASSUME TypeInv
    PROVE  /\ \A r \in RingId : \A i \in DOMAIN rb[r] : rb[r][i][1] \in Thread /\ rb[r][i][2] \in Nat /\ i \in Nat
           /\ \A p \in Proc : \A i \in DOMAIN batch[p] : batch[p][i][1] \in Thread /\ batch[p][i][2] \in Nat /\ i \in Nat
           /\ \A i \in DOMAIN wire : /\ wire[i].rec[1] \in Thread /\ wire[i].rec[2] \in Nat
                                    /\ wire[i].conn \in Nat /\ i \in Nat
           /\ \A t \in Thread : nemit[t] \in Nat /\ <<t, 1>> \in RingId
           /\ sock \in Nat /\ nconn \in Nat
<1>1. \A r \in RingId : \A i \in DOMAIN rb[r] : rb[r][i] \in Rec /\ i \in Nat
    BY DEF TypeInv
<1>2. \A p \in Proc : \A i \in DOMAIN batch[p] : batch[p][i] \in Rec /\ i \in Nat
    BY DEF TypeInv
<1>3. \A i \in DOMAIN wire : wire[i] \in Sent /\ i \in Nat
    BY DEF TypeInv
<1>4. \A t \in Thread : nemit[t] \in Nat /\ <<t, 1>> \in RingId
    BY DEF TypeInv, RingId
<1>5. sock \in Nat /\ nconn \in Nat
    BY DEF TypeInv
<1> QED
    BY <1>1, <1>2, <1>3, <1>4, <1>5 DEF Rec, Sent

(* Steps that bring no record anywhere new.                                *)
Quiet ==
    /\ UNCHANGED <<rb, nemit, wire>> /\ starved \subseteq starved'
    /\ \A t \in Thread : cur'[t] \in {cur[t], None}
    /\ \A q \in Proc : batch'[q] \in {batch[q], <<>>}
    /\ \/ /\ UNCHANGED <<sock, nconn>>
          /\ \A q \in Proc : \A j \in DOMAIN batch'[q] : Unsent(q, j)' => Unsent(q, j)
       \/ sock' = 0 /\ nconn' = nconn
       \/ sock' = nconn + 1 /\ nconn' = nconn + 1

\* Steps that move no record.
LEMMA QuietStep == ASSUME TypeInv, Order, Quiet PROVE Order'
<1> USE DEF Order, Quiet, Overtook
<1>1. \A q \in Proc : \A j \in DOMAIN batch'[q] : j \in DOMAIN batch[q] /\ batch'[q][j] = batch[q][j]
    OBVIOUS
<1>2. Numbered'
    BY <1>1, Numbers DEF Numbered
<1>3. HandLast'
    BY <1>1 DEF HandLast
<1>4. RingSorted' /\ WireSorted'
    BY DEF RingSorted, WireSorted
<1>5. BatchSorted'
    BY <1>1 DEF BatchSorted
<1>6. BatchBeforeRing'
    BY <1>1 DEF BatchBeforeRing
<1>7. OneBatch'
    BY <1>1 DEF OneBatch
<1>8. ASSUME sock' # sock PROVE \A i \in DOMAIN wire : wire[i].conn # sock'
    BY <1>8, Numbers DEF Numbered
<1>9. WireBeforeRing'
    BY <1>8 DEF WireBeforeRing
<1>10. WireBeforeBatch'
    <2> SUFFICES ASSUME NEW i \in DOMAIN wire, wire[i].conn = sock', NEW q \in Proc, NEW j \in DOMAIN batch'[q],
                        Unsent(q, j)', batch'[q][j][1] = wire[i].rec[1]
                 PROVE  Overtook(wire[i].rec[1])' \/ wire[i].rec[2] < batch'[q][j][2]
        BY DEF WireBeforeBatch
    <2>1. sock' = sock
        BY <1>8
    <2>2. nconn' = nconn
        BY <2>1, Numbers DEF Numbered
    <2>3. Unsent(q, j) \/ sock' = 0
        BY <2>2, Numbers
    <2>4. Unsent(q, j)
        BY <2>3, <2>1 DEF Numbered
    <2> QED
        BY <1>1, <2>1, <2>4 DEF WireBeforeBatch
<1> QED
    BY <1>2, <1>3, <1>4, <1>5, <1>6, <1>7, <1>9, <1>10

\* A new record has the highest number of its thread.
LEMMA BeginStep == ASSUME TypeInv, Control, Order, NEW t \in Thread, DoBegin(t) PROVE Order'
<1> USE DEF Order, Overtook
<1>1. /\ UNCHANGED <<rb, wire, sock, nconn, starved>> /\ nemit'[t] = nemit[t] + 1 /\ cur'[t] = <<t, nemit[t] + 1>>
      /\ \A u \in Thread \ {t} : nemit'[u] = nemit[u] /\ cur'[u] = cur[u]
      /\ \A q \in Proc : batch'[q] = batch[q] /\ k'[q] = k[q]
      /\ pc[t] = "idle" /\ pc'[t] = "push" /\ \A q \in Proc \ {t} : pc'[q] = pc[q]
    BY DEF DoBegin, Apart, SameWork, records, shared
<1>2. \A u \in Thread : nemit'[u] \in Nat /\ nemit[u] <= nemit'[u]
    <2>1. \A u \in Thread : nemit[u] \in Nat
        BY Numbers
    <2> QED
        BY <1>1, <2>1
<1>3. Numbered'
    <2>0. ASSUME NEW u \in Thread, NEW m \in Nat, m <= nemit[u] PROVE m <= nemit'[u]
        <3>1. nemit[u] \in Nat /\ nemit'[u] \in Nat /\ nemit[u] <= nemit'[u]
            BY <1>2, Numbers
        <3> QED
            BY <2>0, <3>1
    <2>1. ASSUME NEW r \in RingId, NEW i \in DOMAIN rb[r] PROVE rb[r][i][1] = r[1] /\ rb[r][i][2] <= nemit'[r[1]]
        <3>1. rb[r][i][2] \in Nat /\ rb[r][i][1] \in Thread
            BY Numbers
        <3>2. rb[r][i][1] = r[1] /\ rb[r][i][2] <= nemit[r[1]]
            BY DEF Numbered
        <3> QED
            BY <2>0, <3>1, <3>2
    <2>2. ASSUME NEW p \in Proc, NEW i \in DOMAIN batch[p] PROVE batch[p][i][2] <= nemit'[batch[p][i][1]]
        <3>1. batch[p][i][2] \in Nat /\ batch[p][i][1] \in Thread
            BY Numbers
        <3> QED
            BY <2>0, <3>1 DEF Numbered
    <2>3. ASSUME NEW i \in DOMAIN wire PROVE wire[i].rec[2] <= nemit'[wire[i].rec[1]]
        <3>1. wire[i].rec[2] \in Nat /\ wire[i].rec[1] \in Thread
            BY Numbers
        <3> QED
            BY <2>0, <3>1 DEF Numbered
    <2> QED
        BY <1>1, <2>1, <2>2, <2>3 DEF Numbered
<1>4. HandLast'
    <2>1. ASSUME NEW u \in Thread \ {t}, cur[u] # None
          PROVE  nemit'[u] = nemit[u] /\ cur'[u] = cur[u]
        BY <1>1, <2>1
    <2>2. /\ \A i \in DOMAIN rb[<<t, 1>>] : rb[<<t, 1>>][i][2] < nemit'[t]
          /\ \A p \in Proc : \A i \in DOMAIN batch[p] : batch[p][i][1] = t => batch[p][i][2] < nemit'[t]
          /\ \A i \in DOMAIN wire : wire[i].rec[1] = t => wire[i].rec[2] < nemit'[t]
        <3>1. \A i \in DOMAIN rb[<<t, 1>>] : rb[<<t, 1>>][i][2] <= nemit[t]
            BY Numbers DEF Numbered
        <3>2. \A p \in Proc : \A i \in DOMAIN batch[p] : batch[p][i][1] = t => batch[p][i][2] <= nemit[t]
            BY DEF Numbered
        <3>3. \A i \in DOMAIN wire : wire[i].rec[1] = t => wire[i].rec[2] <= nemit[t]
            BY DEF Numbered
        <3> QED
            BY <1>1, <3>1, <3>2, <3>3, Numbers
    <2> QED
        BY ZenonT(60), <1>1, <2>1, <2>2 DEF HandLast
<1>5. RingSorted' /\ WireSorted' /\ BatchSorted' /\ BatchBeforeRing' /\ OneBatch' /\ WireBeforeRing'
    BY SMTT(30), <1>1 DEF RingSorted, WireSorted, BatchSorted, BatchBeforeRing, OneBatch, WireBeforeRing
<1>6. \A q \in Proc : \A j \in DOMAIN batch[q] : Unsent(q, j)' => Unsent(q, j)
    BY <1>1 DEF Unsent
<1>7. WireBeforeBatch'
    BY <1>1, <1>6 DEF WireBeforeBatch
<1> QED
    BY <1>3, <1>4, <1>5, <1>7

\* Publishing moves it from the hand to the end of the ring.
LEMMA PublishStep == ASSUME TypeInv, Control, OneRing, Order, NEW t \in Thread, DoPublish(t) PROVE Order'
<1> USE DEF Order, Overtook
<1>1. /\ UNCHANGED <<nemit, wire, sock, nconn, starved>> /\ cur'[t] = None /\ \A u \in Thread \ {t} : cur'[u] = cur[u]
      /\ \A q \in Proc : batch'[q] = batch[q] /\ k'[q] = k[q]
      /\ pc[t] \in {"store", "retry"} /\ pc'[t] = "check" /\ \A q \in Proc \ {t} : pc'[q] = pc[q]
    BY DEF DoPublish, Apart, SameWork, shared
<1>2. tls[t] = <<t, 1>>
    BY <1>1 DEF Control, ControlAt, OwnRingAt, OneRing, OneRingAt, Proc
<1>3. cur[t] = <<t, nemit[t]>> /\ cur[t] # None
    BY <1>1 DEF Control, ControlAt, HandAt, Holding, Emitting, Proc
<1> DEFINE r == <<t, 1>>  x == <<t, nemit[t]>>  n == Len(rb[r]) + 1
<1>4. /\ DOMAIN rb'[r] = DOMAIN rb[r] \cup {n} /\ rb'[r][n] = x /\ n \in Nat
      /\ \A i \in DOMAIN rb[r] : i \in Nat /\ i < n /\ rb'[r][i] = rb[r][i]
      /\ \A s \in RingId \ {r} : rb'[s] = rb[s]
    <2>1. rb'[r] = Append(rb[r], x) /\ \A s \in RingId \ {r} : rb'[s] = rb[s]
        BY <1>2, <1>3 DEF DoPublish
    <2>2. rb[r] \in Seq(Rec) /\ x \in Rec
        BY Numbers DEF TypeInv, Rec
    <2>3. /\ DOMAIN Append(rb[r], x) = DOMAIN rb[r] \cup {n} /\ Append(rb[r], x)[n] = x /\ n \in Nat
          /\ \A i \in DOMAIN rb[r] : i \in Nat /\ i < n /\ Append(rb[r], x)[i] = rb[r][i]
        BY SMTT(30), <2>2, Appended
    <2> QED
        BY <2>1, <2>3
<1> HIDE DEF n
<1>5. /\ \A i \in DOMAIN rb[r] : rb[r][i][2] < x[2]
      /\ \A p \in Proc : \A i \in DOMAIN batch[p] : batch[p][i][1] = t => batch[p][i][2] < x[2]
      /\ \A i \in DOMAIN wire : wire[i].rec[1] = t => wire[i].rec[2] < x[2]
    BY <1>3 DEF HandLast
<1>6. Numbered'
    <2>1. \A s \in RingId : \A i \in DOMAIN rb'[s] : rb'[s][i][1] = s[1] /\ rb'[s][i][2] <= nemit[s[1]]
        BY <1>4, Numbers DEF Numbered
    <2> QED
        BY <1>1, <2>1 DEF Numbered
<1>7. \A u \in Thread \ {t} : <<u, 1>> \in RingId \ {r}
    BY DEF RingId
<1>8. HandLast'
    BY ZenonT(60), <1>1, <1>4, <1>7 DEF HandLast
<1>9. RingSorted'
    <2>1. \A i, j \in DOMAIN rb'[r] : i < j => rb'[r][i][2] < rb'[r][j][2]
        BY <1>4, <1>5 DEF RingSorted
    <2> QED
        BY <1>4, <1>7, <2>1 DEF RingSorted
<1>10. BatchBeforeRing'
    <2> SUFFICES ASSUME NEW p \in Proc, NEW i \in DOMAIN batch[p], NEW j \in DOMAIN rb'[<<batch[p][i][1], 1>>]
                 PROVE  Overtook(batch[p][i][1]) \/ batch[p][i][2] < rb'[<<batch[p][i][1], 1>>][j][2]
        BY <1>1 DEF BatchBeforeRing
    <2>1. CASE batch[p][i][1] = t
        BY <1>4, <1>5, <2>1 DEF BatchBeforeRing
    <2>2. CASE batch[p][i][1] # t
        BY <1>4, <1>7, <2>2, Numbers DEF BatchBeforeRing
    <2> QED
        BY <2>1, <2>2
<1>11. WireBeforeRing'
    <2> SUFFICES ASSUME NEW i \in DOMAIN wire, wire[i].conn = sock, NEW j \in DOMAIN rb'[<<wire[i].rec[1], 1>>]
                 PROVE  Overtook(wire[i].rec[1]) \/ wire[i].rec[2] < rb'[<<wire[i].rec[1], 1>>][j][2]
        BY <1>1 DEF WireBeforeRing
    <2>1. CASE wire[i].rec[1] = t
        BY <1>4, <1>5, <2>1 DEF WireBeforeRing
    <2>2. CASE wire[i].rec[1] # t
        BY <1>4, <1>7, <2>2, Numbers DEF WireBeforeRing
    <2> QED
        BY <2>1, <2>2
<1>12. \A q \in Proc : \A j \in DOMAIN batch[q] : Unsent(q, j)' => Unsent(q, j)
    BY <1>1 DEF Unsent
<1>13. BatchSorted' /\ OneBatch' /\ WireSorted' /\ WireBeforeBatch'
    BY <1>1, <1>12 DEF BatchSorted, OneBatch, WireSorted, WireBeforeBatch
<1> QED
    BY <1>6, <1>8, <1>9, <1>10, <1>11, <1>13

\* Sending in hand: nothing older is left in the ring or in a batch.
LEMMA InHandStep == ASSUME TypeInv, Control, OneRing, OneRing', Order, NEW t \in Thread, DoSendInHand(t) PROVE Order'
<1> USE DEF Order, Overtook
<1> t \in Proc
    BY DEF Proc
<1>1. /\ UNCHANGED <<rb, nemit, wire, sock, nconn>> /\ starved \subseteq starved' /\ cur'[t] = None /\ \A u \in Thread \ {t} : cur'[u] = cur[u]
      /\ \A q \in Proc \ {t} : pc'[q] = pc[q] /\ batch'[q] = batch[q] /\ k'[q] = k[q]
      /\ batch'[t] = <<cur[t]>> /\ job'[t] = "one" /\ pc'[t] = "deliver"
    BY DEF DoSendInHand, Apart, shared
<1>2. cur[t] = <<t, nemit[t]>> /\ cur[t] # None
    BY DEF DoSendInHand, Control, ControlAt, HandAt, Holding, Emitting, InPass, Passing, PassJobs
<1> DEFINE x == <<t, nemit[t]>>
<1>3. DOMAIN batch'[t] = {1} /\ batch'[t][1] = x
    BY <1>1, <1>2
<1>4. rb[<<t, 1>>] = <<>> \/ <<t, "sync">> \in starved'
    BY <1>1 DEF OneRing, OwnFirstAt
<1>5. /\ \A p \in Proc : \A i \in DOMAIN batch[p] : batch[p][i][1] = t => batch[p][i][2] < x[2]
      /\ \A i \in DOMAIN wire : wire[i].rec[1] = t => wire[i].rec[2] < x[2]
    BY <1>2 DEF HandLast
(* No other batch has a record of t: the pass that could have it would     *)
(* hold drain_mu.                                                          *)
<1>6. ASSUME NEW q \in Proc \ {t}, NEW j \in DOMAIN batch[q] PROVE batch[q][j][1] # t
    <2>1. batch[q] # <<>>
        BY <1>6
    <2>2. drain_mu \in {None, t}
        BY DEF DoSendInHand, Control, ControlAt, LocksAt, InPass, Passing, PassJobs
    <2>3. ~InPass(q)
        BY <2>2, TransportAssumption DEF Control, ControlAt, LocksAt, Proc
    <2>4. pc[q] \in Delivering /\ job[q] = "one"
        BY <2>1, <2>3 DEF Control, ControlAt, BatchAt, JobsAt, InPass, Passing, Delivering
    <2>5. Len(batch[q]) = 1 /\ batch[q][1][1] = q /\ batch[q] \in Seq(Rec)
        BY <2>4 DEF Control, ControlAt, BatchAt, TypeInv
    <2>6. j = 1
        BY <2>5
    <2> QED
        BY <2>5, <2>6
<1>7. \A q \in Proc : \A j \in DOMAIN batch'[q] : q # t => j \in DOMAIN batch[q] /\ batch'[q][j] = batch[q][j]
    BY <1>1
<1>8. Numbered'
    <2>1. \A q \in Proc : \A j \in DOMAIN batch'[q] : batch'[q][j][2] <= nemit[batch'[q][j][1]]
        <3>1. nemit[t] \in Nat
            BY Numbers
        <3>2. \A j \in DOMAIN batch'[t] : batch'[t][j][2] <= nemit[batch'[t][j][1]]
            BY <1>3, <3>1
        <3> QED
            BY <1>7, <3>2 DEF Numbered
    <2> QED
        BY <1>1, <2>1 DEF Numbered
<1>9. HandLast'
    <2> SUFFICES ASSUME NEW u \in Thread, cur'[u] # None, NEW q \in Proc, NEW i \in DOMAIN batch'[q], batch'[q][i][1] = u
                 PROVE  batch'[q][i][2] < nemit[u]
        BY <1>1 DEF HandLast
    <2>1. u # t /\ cur[u] # None
        BY <1>1
    <2>2. q # t
        BY <1>3, <2>1
    <2> QED
        BY <1>7, <2>1, <2>2 DEF HandLast
<1>10. BatchSorted'
    BY <1>1, <1>3, <1>7 DEF BatchSorted
<1>11. BatchBeforeRing'
    <2> SUFFICES ASSUME NEW q \in Proc, NEW i \in DOMAIN batch'[q], NEW j \in DOMAIN rb[<<batch'[q][i][1], 1>>]
                 PROVE  \/ <<batch'[q][i][1], "sync">> \in starved'
                        \/ batch'[q][i][2] < rb[<<batch'[q][i][1], 1>>][j][2]
        BY <1>1 DEF BatchBeforeRing
    <2>1. CASE q = t
        <3>1. batch'[q][i] = x /\ x[1] = t
            BY <1>3, <2>1
        <3>2. batch'[q][i][1] = t
            BY <3>1
        <3> HIDE DEF x
        <3> QED
            BY <1>4, <3>2
    <2>2. CASE q # t
        <3>1. i \in DOMAIN batch[q] /\ batch'[q][i] = batch[q][i]
            BY <1>7, <2>2
        <3>2. <<batch[q][i][1], "sync">> \in starved \/ batch[q][i][2] < rb[<<batch[q][i][1], 1>>][j][2]
            BY <3>1 DEF BatchBeforeRing
        <3> QED
            BY <1>1, <3>1, <3>2
    <2> QED
        BY <2>1, <2>2
<1>12. OneBatch'
    BY <1>1, <1>3, <1>6, <1>7 DEF OneBatch
<1>13. WireBeforeBatch'
    <2> SUFFICES ASSUME NEW i \in DOMAIN wire, wire[i].conn = sock, NEW q \in Proc, NEW j \in DOMAIN batch'[q],
                        Unsent(q, j)', batch'[q][j][1] = wire[i].rec[1]
                 PROVE  Overtook(wire[i].rec[1])' \/ wire[i].rec[2] < batch'[q][j][2]
        BY <1>1 DEF WireBeforeBatch
    <2>1. CASE q = t
        BY <1>3, <1>5, <2>1
    <2>2. CASE q # t
        BY <1>1, <1>7, <2>2 DEF WireBeforeBatch, Unsent
    <2> QED
        BY <2>1, <2>2
<1>14. RingSorted' /\ WireSorted' /\ WireBeforeRing'
    BY <1>1 DEF RingSorted, WireSorted, WireBeforeRing
<1> QED
    BY <1>8, <1>9, <1>10, <1>11, <1>12, <1>13, <1>14

\* A drain pass takes the head of the ring into its batch.
LEMMA TakeStep == ASSUME TypeInv, Control, OneRing, Order, NEW p \in Proc, NEW r \in RingId, DoTake(p, r) PROVE Order'
<1> USE DEF Order, Overtook
<1>1. /\ UNCHANGED <<cur, nemit, wire, sock, nconn, starved>>
      /\ \A q \in Proc \ {p} : pc'[q] = pc[q] /\ batch'[q] = batch[q] /\ k'[q] = k[q]
      /\ pc[p] = "drain" /\ pc'[p] = "drain" /\ rb[r] # <<>>
      /\ \A s \in RingId \ {r} : rb'[s] = rb[s]
    BY DEF DoTake, Apart, shared
<1> DEFINE t == r[1]  x == rb[r][1]  n == Len(batch[p]) + 1
<1>2. t \in Thread /\ r = <<t, 1>>
    <2>1. t \in Thread /\ (r = <<t, 1>> \/ r = <<t, 2>>)
        BY DEF RingId
    <2>2. rb[<<t, 2>>] = <<>>
        BY <2>1 DEF OneRing, OneRingAt
    <2> QED
        BY <1>1, <2>1, <2>2
<1>3. /\ 1 \in DOMAIN rb[r] /\ x \in Rec /\ x[1] = t
      /\ \A i \in DOMAIN rb'[r] : i \in Nat /\ 1 < i + 1 /\ i + 1 \in DOMAIN rb[r] /\ rb'[r][i] = rb[r][i + 1]
    <2>1. rb[r] \in Seq(Rec) /\ rb'[r] = Tail(rb[r])
        BY DEF TypeInv, DoTake
    <2>2. /\ 1 \in DOMAIN rb[r] /\ x \in Rec
          /\ \A i \in DOMAIN Tail(rb[r]) : i \in Nat /\ 1 < i + 1 /\ i + 1 \in DOMAIN rb[r] /\ Tail(rb[r])[i] = rb[r][i + 1]
        BY <1>1, <2>1, Shortened
    <2>3. x[1] = t
        BY <2>2 DEF Numbered
    <2> QED
        BY <2>1, <2>2, <2>3
<1>4. /\ DOMAIN batch'[p] = DOMAIN batch[p] \cup {n} /\ batch'[p][n] = x /\ n \in Nat
      /\ \A i \in DOMAIN batch[p] : i \in Nat /\ i < n /\ batch'[p][i] = batch[p][i]
    <2>1. batch[p] \in Seq(Rec) /\ batch'[p] = Append(batch[p], x)
        BY <1>1 DEF TypeInv, DoTake
    <2>2. /\ DOMAIN Append(batch[p], x) = DOMAIN batch[p] \cup {n} /\ Append(batch[p], x)[n] = x /\ n \in Nat
          /\ \A i \in DOMAIN batch[p] : i \in Nat /\ i < n /\ Append(batch[p], x)[i] = batch[p][i]
        BY <1>3, <2>1, Appended
    <2> QED
        BY <2>1, <2>2
<1> HIDE DEF n, x, t
(* No other batch has a record of t.                                       *)
<1>5. ASSUME NEW q \in Proc \ {p}, NEW j \in DOMAIN batch[q], ~Overtook(t) PROVE batch[q][j][1] # t
    <2>1. batch[q] # <<>>
        BY <1>5
    <2>2. drain_mu = p
        BY <1>1 DEF Control, ControlAt, LocksAt, JobsAt, InPass, Passing
    <2>3. ~InPass(q)
        BY <2>2 DEF Control, ControlAt, LocksAt
    <2>4. pc[q] \in Delivering /\ job[q] = "one" /\ q \in Thread
        BY <2>1, <2>3 DEF Control, ControlAt, BatchAt, JobsAt, InPass, Passing, Delivering, PassJobs
    <2>5. Len(batch[q]) = 1 /\ batch[q][1][1] = q /\ batch[q] \in Seq(Rec)
        BY <2>4 DEF Control, ControlAt, BatchAt, TypeInv
    <2>6. j = 1
        BY <2>5
    <2>7. q # t
        BY <1>1, <1>2, <1>5, <2>4 DEF OneRing, OwnFirstAt
    <2> QED
        BY <2>5, <2>6, <2>7
<1>6. \A q \in Proc : \A j \in DOMAIN batch'[q] : 
        (q = p /\ j = n) \/ (j \in DOMAIN batch[q] /\ batch'[q][j] = batch[q][j])
    BY <1>1, <1>4
<1>7. \A s \in RingId : \A i \in DOMAIN rb'[s] : \E j \in DOMAIN rb[s] : rb'[s][i] = rb[s][j]
    BY <1>1, <1>3
<1>8. /\ x[2] <= nemit[t] /\ (cur[t] # None => x[2] < nemit[t])
      /\ \A i \in DOMAIN rb'[r] : x[2] < rb'[r][i][2]
      /\ \A q \in Proc : \A j \in DOMAIN batch[q] : batch[q][j][1] = t => Overtook(t) \/ batch[q][j][2] < x[2]
      /\ \A i \in DOMAIN wire : wire[i].conn = sock /\ wire[i].rec[1] = t => Overtook(t) \/ wire[i].rec[2] < x[2]
    <2>1. x[2] <= nemit[t] /\ (cur[t] # None => x[2] < nemit[t])
        BY <1>2, <1>3 DEF Numbered, HandLast, x
    <2>2. \A i \in DOMAIN rb'[r] : x[2] < rb'[r][i][2]
        BY <1>2, <1>3 DEF RingSorted, x
    <2>3. \A q \in Proc : \A j \in DOMAIN batch[q] : batch[q][j][1] = t => Overtook(t) \/ batch[q][j][2] < x[2]
        BY <1>2, <1>3 DEF BatchBeforeRing, x
    <2>4. \A i \in DOMAIN wire : wire[i].conn = sock /\ wire[i].rec[1] = t => Overtook(t) \/ wire[i].rec[2] < x[2]
        BY <1>2, <1>3 DEF WireBeforeRing, x
    <2> QED
        BY <2>1, <2>2, <2>3, <2>4
<1>9. Numbered'
    <2>1. \A s \in RingId : \A i \in DOMAIN rb'[s] : rb'[s][i][1] = s[1] /\ rb'[s][i][2] <= nemit[s[1]]
        BY <1>7 DEF Numbered
    <2>2. \A q \in Proc : \A j \in DOMAIN batch'[q] : batch'[q][j][2] <= nemit[batch'[q][j][1]]
        BY <1>3, <1>4, <1>6, <1>8 DEF Numbered
    <2> QED
        BY <1>1, <2>1, <2>2 DEF Numbered
<1>10. HandLast'
    <2>1. ASSUME NEW u \in Thread, cur[u] # None, NEW i \in DOMAIN rb'[<<u, 1>>] PROVE rb'[<<u, 1>>][i][2] < nemit[u]
        BY <1>7, <2>1, Numbers DEF HandLast
    <2>2. ASSUME NEW u \in Thread, cur[u] # None, NEW q \in Proc, NEW i \in DOMAIN batch'[q], batch'[q][i][1] = u
          PROVE  batch'[q][i][2] < nemit[u]
        BY <1>3, <1>4, <1>6, <1>8, <2>2 DEF HandLast
    <2> QED
        BY <1>1, <2>1, <2>2 DEF HandLast
<1>11. RingSorted'
    <2>1. \A i, j \in DOMAIN rb'[r] : i < j => rb'[r][i][2] < rb'[r][j][2]
        <3> SUFFICES ASSUME NEW i \in DOMAIN rb'[r], NEW j \in DOMAIN rb'[r], i < j PROVE rb'[r][i][2] < rb'[r][j][2]
            OBVIOUS
        <3>1. i + 1 < j + 1 /\ i + 1 \in DOMAIN rb[r] /\ j + 1 \in DOMAIN rb[r]
            BY <1>3
        <3>2. rb[r][i + 1][2] < rb[r][j + 1][2]
            BY <1>2, <3>1 DEF RingSorted
        <3> QED
            BY <1>3, <3>2
    <2>2. \A u \in Thread : <<u, 1>> \in RingId
        BY Numbers
    <2> QED
        BY <1>1, <2>1, <2>2 DEF RingSorted
<1>12. BatchSorted'
    <2> SUFFICES ASSUME NEW q \in Proc, NEW i \in DOMAIN batch'[q], NEW j \in DOMAIN batch'[q],
                        i < j, batch'[q][i][1] = batch'[q][j][1]
                 PROVE  <<batch'[q][i][1], "sync">> \in starved' \/ batch'[q][i][2] < batch'[q][j][2]
        BY DEF BatchSorted
    <2>1. CASE q = p /\ j = n
        <3>1. i \in DOMAIN batch[p] /\ batch'[p][i] = batch[p][i] /\ batch'[p][n] = x
            BY <1>4, <2>1
        <3>2. batch[p][i][1] = t
            BY <1>3, <2>1, <3>1
        <3> QED
            BY <1>1, <1>8, <2>1, <3>1, <3>2
    <2>2. CASE q = p /\ i = n /\ j # n
        BY <1>4, <2>2
    <2>3. CASE q # p \/ (i # n /\ j # n)
        <3>1. i \in DOMAIN batch[q] /\ j \in DOMAIN batch[q] /\ batch'[q][i] = batch[q][i] /\ batch'[q][j] = batch[q][j]
            BY <1>6, <2>3
        <3>2. <<batch[q][i][1], "sync">> \in starved \/ batch[q][i][2] < batch[q][j][2]
            BY <3>1 DEF BatchSorted
        <3> QED
            BY <1>1, <3>1, <3>2
    <2> QED
        BY <2>1, <2>2, <2>3
<1>13. BatchBeforeRing'
    <2> SUFFICES ASSUME NEW q \in Proc, NEW i \in DOMAIN batch'[q], NEW j \in DOMAIN rb'[<<batch'[q][i][1], 1>>]
                 PROVE  Overtook(batch'[q][i][1]) \/ batch'[q][i][2] < rb'[<<batch'[q][i][1], 1>>][j][2]
        BY <1>1 DEF BatchBeforeRing
    <2>1. CASE q = p /\ i = n
        BY <1>2, <1>3, <1>4, <1>8, <2>1
    <2>2. CASE ~(q = p /\ i = n)
        <3>1. i \in DOMAIN batch[q] /\ batch'[q][i] = batch[q][i]
            BY <1>6, <2>2
        <3>2. <<batch[q][i][1], 1>> \in RingId
            BY <3>1, Numbers
        <3> QED
            BY <1>7, <3>1, <3>2 DEF BatchBeforeRing
    <2> QED
        BY <2>1, <2>2
<1>14. OneBatch'
    <2> SUFFICES ASSUME NEW u \in Proc, NEW q \in Proc, NEW i \in DOMAIN batch'[u], NEW j \in DOMAIN batch'[q],
                        batch'[u][i][1] = batch'[q][j][1], u # q
                 PROVE  <<batch'[u][i][1], "sync">> \in starved'
        BY DEF OneBatch
    <2>1. CASE u = p /\ i = n
        <3>1. j \in DOMAIN batch[q] /\ batch'[q][j] = batch[q][j] /\ batch'[u][i][1] = t
            BY <1>3, <1>4, <1>6, <2>1
        <3> QED
            BY <1>1, <1>5, <2>1, <3>1
    <2>2. CASE q = p /\ j = n
        <3>1. i \in DOMAIN batch[u] /\ batch'[u][i] = batch[u][i] /\ batch'[q][j][1] = t
            BY <1>3, <1>4, <1>6, <2>2
        <3> QED
            BY <1>1, <1>5, <2>2, <3>1
    <2>3. CASE ~(u = p /\ i = n) /\ ~(q = p /\ j = n)
        <3>1. /\ i \in DOMAIN batch[u] /\ batch'[u][i] = batch[u][i]
              /\ j \in DOMAIN batch[q] /\ batch'[q][j] = batch[q][j]
            BY <1>6, <2>3
        <3>2. <<batch[u][i][1], "sync">> \in starved
            BY <3>1 DEF OneBatch
        <3> QED
            BY <1>1, <3>1, <3>2
    <2> QED
        BY <2>1, <2>2, <2>3
<1>15. WireBeforeRing'
    BY <1>1, <1>7, Numbers DEF WireBeforeRing
<1>16. WireBeforeBatch'
    <2> SUFFICES ASSUME NEW i \in DOMAIN wire, wire[i].conn = sock, NEW q \in Proc, NEW j \in DOMAIN batch'[q],
                        Unsent(q, j)', batch'[q][j][1] = wire[i].rec[1]
                 PROVE  Overtook(wire[i].rec[1])' \/ wire[i].rec[2] < batch'[q][j][2]
        BY <1>1 DEF WireBeforeBatch
    <2>1. CASE q = p /\ j = n
        BY <1>1, <1>3, <1>4, <1>8, <2>1
    <2>2. CASE ~(q = p /\ j = n)
        <3>1. j \in DOMAIN batch[q] /\ batch'[q][j] = batch[q][j]
            BY <1>6, <2>2
        <3>2. Unsent(q, j)
            BY <1>1 DEF Unsent
        <3> QED
            BY <1>1, <3>1, <3>2 DEF WireBeforeBatch
    <2> QED
        BY <2>1, <2>2
<1>17. WireSorted'
    BY <1>1 DEF WireSorted
<1> QED
    BY <1>9, <1>10, <1>11, <1>12, <1>13, <1>14, <1>15, <1>16, <1>17

\* A record written goes to the wire in the order of its batch.
LEMMA SendStep == ASSUME TypeInv, Control, Order, NEW p \in Proc, DoSend(p) PROVE Order'
<1> USE DEF Order, Overtook
<1>1. /\ UNCHANGED <<rb, cur, nemit, sock, nconn, starved>> /\ \A q \in Proc : batch'[q] = batch[q]
      /\ \A q \in Proc \ {p} : pc'[q] = pc[q] /\ k'[q] = k[q]
      /\ pc[p] = "send" /\ pc'[p] \in {"send", "sent"} /\ k'[p] = k[p] + 1
    BY DEF DoSend, Apart
<1>2. sock # 0 /\ k[p] + 1 \in DOMAIN batch[p] /\ k[p] \in Nat
    BY <1>1 DEF Control, ControlAt, BatchAt, TypeInv
<1> DEFINE x == batch[p][k[p] + 1]  n == Len(wire) + 1
<1>3. x \in Rec /\ x[1] \in Thread /\ x[2] \in Nat
    <2>1. x \in Rec
        BY <1>2 DEF TypeInv
    <2> QED
        BY <2>1 DEF Rec
<1>4. /\ DOMAIN wire' = DOMAIN wire \cup {n} /\ wire'[n].conn = sock /\ wire'[n].rec = x /\ n \in Nat
      /\ \A i \in DOMAIN wire : i \in Nat /\ i < n /\ wire'[i] = wire[i]
    <2> DEFINE y == [conn |-> sock, rec |-> x]
    <2>1. wire \in Seq(Sent) /\ wire' = Append(wire, y) /\ y \in Sent
        BY <1>3 DEF TypeInv, DoSend, Sent
    <2>2. /\ DOMAIN Append(wire, y) = DOMAIN wire \cup {n} /\ Append(wire, y)[n] = y /\ n \in Nat
          /\ \A i \in DOMAIN wire : i \in Nat /\ i < n /\ Append(wire, y)[i] = wire[i]
        <3> HIDE DEF y
        <3> QED
            BY <2>1, Appended
    <2> QED
        BY <2>1, <2>2
<1> HIDE DEF n
<1>5. x[2] <= nemit[x[1]] /\ sock <= nconn
    BY <1>2 DEF Numbered
<1>6. Numbered'
    BY <1>1, <1>2, <1>4, <1>5 DEF Numbered
<1>7. HandLast'
    <2>1. ASSUME cur[x[1]] # None PROVE x[2] < nemit[x[1]]
        BY <1>2, <1>3, <2>1 DEF HandLast
    <2> HIDE DEF x
    <2> QED
        BY ZenonT(60), <1>1, <1>4, <2>1 DEF HandLast
<1>8. RingSorted' /\ BatchSorted' /\ BatchBeforeRing' /\ OneBatch'
    BY <1>1 DEF RingSorted, BatchSorted, BatchBeforeRing, OneBatch
<1>9. WireBeforeRing'
    <2>1. \A j \in DOMAIN rb[<<x[1], 1>>] : Overtook(x[1]) \/ x[2] < rb[<<x[1], 1>>][j][2]
        BY <1>2 DEF BatchBeforeRing
    <2> HIDE DEF x
    <2> QED
        BY <1>1, <1>4, <2>1 DEF WireBeforeRing
<1>10. \A q \in Proc : \A j \in DOMAIN batch[q] : Unsent(q, j)' => Unsent(q, j)
    BY <1>1, <1>2, Numbers DEF Unsent
<1>11. ASSUME NEW q \in Proc, NEW j \in DOMAIN batch[q], Unsent(q, j)', batch[q][j][1] = x[1], ~Overtook(x[1]) PROVE x[2] < batch[q][j][2]
    <2>1. q = p
        BY <1>2, <1>11 DEF OneBatch
    <2>2. k[p] + 1 < j
        BY <1>1, <1>11, <2>1 DEF Unsent
    <2> QED
        BY <1>2, <1>11, <2>1, <2>2 DEF BatchSorted
<1>12. WireBeforeBatch'
    <2> SUFFICES ASSUME NEW i \in DOMAIN wire', wire'[i].conn = sock, NEW q \in Proc, NEW j \in DOMAIN batch[q],
                        Unsent(q, j)', batch[q][j][1] = wire'[i].rec[1]
                 PROVE  Overtook(wire'[i].rec[1]) \/ wire'[i].rec[2] < batch[q][j][2]
        BY <1>1 DEF WireBeforeBatch
    <2>1. CASE i = n
        BY <1>4, <1>11, <2>1
    <2>2. CASE i # n
        BY <1>4, <1>10, <2>2 DEF WireBeforeBatch
    <2> QED
        BY <2>1, <2>2
<1>13. WireSorted'
    <2>1. ASSUME NEW i \in DOMAIN wire, wire[i].conn = sock, wire[i].rec[1] = x[1] PROVE Overtook(x[1]) \/ wire[i].rec[2] < x[2]
        <3>1. Unsent(p, k[p] + 1)
            BY <1>1, <1>2 DEF Unsent
        <3> QED
            BY <1>2, <2>1, <3>1 DEF WireBeforeBatch
    <2> HIDE DEF x
    <2> QED
        BY <1>1, <1>4, <2>1 DEF WireSorted
<1> QED
    BY <1>6, <1>7, <1>8, <1>9, <1>12, <1>13

\* All steps.
LEMMA OrderSteps ==
    ASSUME TypeInv, Control, OneRing, OneRing', Order, NEW p \in Proc, Does(p) \/ (p \in Thread /\ Calls(p) /\ ~Fork(p))
    PROVE  Order'
<1> USE TransportAssumption DEF Quiet, Unsent, Proc, Control, ControlAt, BatchAt, Passing, Delivering, PassJobs
<1>1. CASE MoveOutside(p)
    <2>1. Quiet
        BY <1>1 DEF MoveOutside, Outside, Others, held, hands
    <2> QED
        BY <2>1, QuietStep
<1>2. CASE MovePass(p)
    <2>1. Quiet
        BY <1>2 DEF MovePass, Others, held, hands
    <2> QED
        BY <2>1, QuietStep
<1>3. CASE DoLock(p)
    <2>1. batch[p] = <<>> /\ \A q \in Proc : batch'[q] = batch[q]
        BY <1>3 DEF DoLock, Apart
    <2>2. \A q \in Proc : \A j \in DOMAIN batch'[q] : Unsent(q, j)' => Unsent(q, j)
        BY <1>3, <2>1 DEF DoLock, Apart
    <2>3. Quiet
        BY <1>3, <2>1, <2>2 DEF DoLock, records, shared
    <2> QED
        BY <2>3, QuietStep
<1>4. ASSUME NEW r \in RingId, DoTake(p, r) PROVE Order'
    BY <1>4, TakeStep
<1>5. CASE DoNext(p)
    <2>1. Quiet
        BY <1>5 DEF DoNext, Apart, records, shared
    <2> QED
        BY <2>1, QuietStep
<1>6. CASE DoSweep(p)
    <2>1. Quiet
        BY <1>6 DEF DoSweep, Apart, SameWork, records, shared
    <2> QED
        BY <2>1, QuietStep
<1>7. CASE DoLockSocket(p)
    <2>1. Quiet
        BY <1>7 DEF DoLockSocket, Apart, records
    <2> QED
        BY <2>1, QuietStep
<1>8. CASE DoConnect(p)
    <2>1. Quiet
        BY <1>8 DEF DoConnect, Apart, SameWork, records
    <2> QED
        BY <2>1, QuietStep
<1>9. CASE DoSend(p)
    BY <1>9, SendStep
<1>10. CASE DoFail(p)
    <2>1. Quiet
        BY <1>10 DEF DoFail, Apart, records
    <2> QED
        BY <2>1, QuietStep
<1>11. CASE DoCount(p)
    <2>1. \A q \in Proc : batch'[q] \in {batch[q], <<>>}
        BY <1>11 DEF DoCount, Apart
    <2>2. \A q \in Proc : \A j \in DOMAIN batch'[q] : q # p
        BY <1>11 DEF DoCount
    <2>3. \A q \in Proc : \A j \in DOMAIN batch'[q] : Unsent(q, j)' => Unsent(q, j)
        BY <1>11, <2>2 DEF DoCount, Apart
    <2>4. Quiet
        BY <1>11, <2>1, <2>3 DEF DoCount, shared
    <2> QED
        BY <2>4, QuietStep
<1>12. CASE DoStatusConnect(p)
    <2>1. Quiet
        BY <1>12 DEF DoStatusConnect, Apart, SameWork, records
    <2> QED
        BY <2>1, QuietStep
<1>13. CASE DoStatusEnd(p)
    <2>1. Quiet
        BY <1>13 DEF DoStatusEnd, Apart, records
    <2> QED
        BY <2>1, QuietStep
<1>14. CASE p \in Thread /\ MoveEmit(p)
    <2>1. Quiet
        BY <1>14 DEF MoveEmit, Others, held, hands, Emitting
    <2> QED
        BY <2>1, QuietStep
<1>15. CASE p \in Thread /\ DoBegin(p)
    BY <1>15, BeginStep
<1>16. CASE p \in Thread /\ DoDrop(p)
    <2>1. Quiet
        BY <1>16 DEF DoDrop, Apart, SameWork, shared
    <2> QED
        BY <2>1, QuietStep
<1>17. CASE p \in Thread /\ DoRegister(p)
    <2>1. Quiet
        BY <1>17 DEF DoRegister, FreshRing, RingId, Apart, SameWork, records, shared
    <2> QED
        BY <2>1, QuietStep
<1>18. CASE p \in Thread /\ DoPublish(p)
    BY <1>18, PublishStep
<1>19. CASE p \in Thread /\ DoSendInHand(p)
    BY <1>19, InHandStep
<1>20. CASE p \in Thread /\ DoOwnDone(p)
    <2>1. Quiet
        BY <1>20 DEF DoOwnDone, Apart, records, shared
    <2> QED
        BY <2>1, QuietStep
<1>21. CASE p \in Thread /\ DoShutdown(p)
    <2>1. Quiet
        BY <1>21 DEF DoShutdown, Apart, records, shared
    <2> QED
        BY <2>1, QuietStep
<1>22. CASE p \in Thread /\ DoExit(p)
    <2>1. Quiet
        BY <1>22 DEF DoExit, Apart, SameWork, records, shared
    <2> QED
        BY <2>1, QuietStep
<1> QED
    BY <1>1, <1>2, <1>3, <1>4, <1>5, <1>6, <1>7, <1>8, <1>9, <1>10, <1>11, <1>12, <1>13, <1>14, <1>15, <1>16, <1>17, <1>18, <1>19, <1>20, <1>21, <1>22 DEF Does, Calls

LEMMA OrderStep == ASSUME TypeInv, Control, OrderInv, [Next]_vars PROVE OrderInv'
<1>1. use' = use
    BY DEF Next, vars
<1> SUFFICES ASSUME ~use.late PROVE OneRing' /\ Order'
    BY <1>1 DEF OrderInv
<1>2. OneRing /\ Order /\ OneRing'
    BY RingsStep DEF OrderInv
<1>3. CASE UNCHANGED vars \/ Still
    <2>1. Quiet
        BY <1>3 DEF Quiet, Unsent, Still, held, hands, vars, image, lifecycle, ringvars, locks, netvars, counters, passvars, history
    <2> QED
        BY <1>2, <2>1, QuietStep
<1>4. ASSUME NEW t \in Thread, Fork(t) PROVE Order'
    <2>1. /\ rb' = [r \in RingId |-> <<>>] /\ batch' = [p \in Proc |-> <<>>] /\ wire' = <<>> /\ sock' = 0 /\ nconn' = nconn
          /\ cur' = [u \in Thread |-> None]
        BY <1>4 DEF Fork, ChildSocket, ChildRings
    <2>2. /\ DOMAIN wire' = {} /\ sock' <= nconn'
          /\ \A r \in RingId : DOMAIN rb'[r] = {}
          /\ \A p \in Proc : DOMAIN batch'[p] = {}
          /\ \A u \in Thread : cur'[u] = None /\ <<u, 1>> \in RingId
        BY <2>1 DEF TypeInv, RingId
    <2> QED
        BY <2>2 DEF Order, Numbered, HandLast, RingSorted, BatchSorted, BatchBeforeRing, OneBatch, WireBeforeRing,
            WireBeforeBatch, WireSorted
<1> QED
    BY <1>2, <1>3, <1>4, OrderSteps, StepEffects DEF Proc

LEMMA OrderInit == Init => OrderInv
<1> SUFFICES ASSUME Init PROVE OneRing /\ Order
    BY DEF OrderInv
<1>1. /\ DOMAIN wire = {} /\ sock <= nconn
      /\ \A r \in RingId : rb[r] = <<>> /\ DOMAIN rb[r] = {}
      /\ \A p \in Proc : DOMAIN batch[p] = {}
      /\ \A u \in Thread : cur[u] = None /\ tls[u] = None /\ job[u] = "none" /\ orphan = {} /\ <<u, 1>> \in RingId /\ <<u, 2>> \in RingId
    BY DEF Init, RingId, Proc
<1>2. OneRing
    BY <1>1 DEF OneRing, OneRingAt, OwnFirstAt
<1> QED
    BY <1>1, <1>2 DEF Order, Numbered, HandLast, RingSorted, BatchSorted, BatchBeforeRing, OneBatch, WireBeforeRing,
        WireBeforeBatch, WireSorted

(* TypeInv and Control hold in every state: among them that a pass is made *)
(* under drain_mu and a socket written under sock_mu (LocksAt), that a     *)
(* record is in hand exactly while an emit call is on its way (HandAt),    *)
(* and that a process connects and sends only with something to send.      *)

THEOREM ControlAlways == Spec => [](TypeInv /\ Control)
<1>1. Init => TypeInv /\ Control
    BY TypeInit, ControlInit
<1>2. TypeInv /\ Control /\ [Next]_vars => (TypeInv /\ Control)'
    BY TypeStep, ControlStep
<1> QED
    BY <1>1, <1>2, PTL DEF Spec

(* On every connection the records of a thread stand in the order in which *)
(* the thread emitted them, whichever of drain thread, shutdown or the     *)
(* thread itself sent them and however often the connection was renewed,   *)
(* as long as no thread emits after its ring's destructor ran, and but for *)
(* the threads that had to send a record past a ring they found no memory  *)
(* to drain.                                                               *)
THEOREM OrderKept == Spec => []PerThreadOrder
<1>1. Init => TypeInv /\ Control /\ OrderInv
    BY TypeInit, ControlInit, OrderInit
<1>2. TypeInv /\ Control /\ OrderInv /\ [Next]_vars => (TypeInv /\ Control /\ OrderInv)'
    BY TypeStep, ControlStep, OrderStep
<1>3. TypeInv /\ OrderInv => PerThreadOrder
    <2> SUFFICES ASSUME TypeInv, OrderInv, ~use.late PROVE PerThreadOrder
        BY DEF PerThreadOrder
    <2>1. WireSorted /\ DOMAIN wire = 1..Len(wire)
        BY DEF OrderInv, Order, TypeInv
    <2> QED
        BY <2>1 DEF WireSorted, Overtook, PerThreadOrder
<1> QED
    BY <1>1, <1>2, <1>3, PTL DEF Spec

-----------------------------------------------------------------------------
(* Records move; they neither vanish nor appear.                           *)
Fresh(x) == nemit[x[1]] < x[2]
Carried == \A x \in Rec : (Present(x) => Present(x)') /\ (Present(x)' => Present(x) \/ Fresh(x))

(* Nothing moves.                                                          *)
AtRest == UNCHANGED <<rb, cur, wire, dropped>> /\ \A q \in Proc : batch'[q] = batch[q]

\* A step that touches no record loses none.
LEMMA RestCarries == ASSUME AtRest PROVE Carried
<1>1. ASSUME NEW x \in Rec PROVE Present(x)' <=> Present(x)
    BY DEF AtRest, Present, InBatch, InRing, InHands, WasSent
<1> QED
    BY <1>1 DEF Carried

\* A record stays in a hand, a ring or a batch until it is sent, dropped or given up.
LEMMA CarriedStep ==
    ASSUME TypeInv, Control, Taken, NEW p \in Proc, Does(p) \/ (p \in Thread /\ Calls(p) /\ ~Fork(p))
    PROVE  Carried
<1> USE TransportAssumption DEF Proc
<1>1. CASE MoveOutside(p)
    <2>1. AtRest
        BY <1>1 DEF MoveOutside, Outside, Others, held, hands, AtRest, Proc
    <2> QED
        BY <2>1, RestCarries
<1>2. CASE MovePass(p)
    <2>1. AtRest
        BY <1>2 DEF MovePass, Others, held, hands, AtRest, Proc
    <2> QED
        BY <2>1, RestCarries
<1>3. CASE DoLock(p)
    <2>1. AtRest
        BY <1>3 DEF DoLock, AtRest, Apart, records, Proc
    <2> QED
        BY <2>1, RestCarries
<1>4. ASSUME NEW r \in RingId, DoTake(p, r) PROVE Carried
    <2>1. /\ UNCHANGED <<cur, wire, dropped>> /\ \A q \in Proc \ {p} : batch'[q] = batch[q]
          /\ \A s \in RingId \ {r} : rb'[s] = rb[s]
          /\ rb[r] \in Seq(Rec) /\ batch[p] \in Seq(Rec) /\ rb[r] # <<>>
          /\ rb'[r] = Tail(rb[r]) /\ batch'[p] = Append(batch[p], Head(rb[r]))
        BY <1>4 DEF DoTake, Apart, TypeInv
    <2>2. ASSUME NEW x PROVE (\E i \in DOMAIN rb[r] : rb[r][i] = x) <=> (x = Head(rb[r]) \/ \E i \in DOMAIN rb'[r] : rb'[r][i] = x)
        <3>1. ASSUME NEW i \in DOMAIN rb[r] PROVE i = 1 \/ (i - 1 \in DOMAIN Tail(rb[r]) /\ Tail(rb[r])[i - 1] = rb[r][i])
            BY <2>1
        <3>2. ASSUME NEW i \in DOMAIN Tail(rb[r]) PROVE i + 1 \in DOMAIN rb[r] /\ Tail(rb[r])[i] = rb[r][i + 1]
            BY <2>1
        <3>3. 1 \in DOMAIN rb[r] /\ rb[r][1] = Head(rb[r])
            BY <2>1
        <3>4. ASSUME NEW i \in DOMAIN rb[r], rb[r][i] = x PROVE x = Head(rb[r]) \/ \E j \in DOMAIN Tail(rb[r]) : Tail(rb[r])[j] = x
            BY <3>1, <3>3, <3>4
        <3>5. ASSUME NEW j \in DOMAIN Tail(rb[r]), Tail(rb[r])[j] = x PROVE \E i \in DOMAIN rb[r] : rb[r][i] = x
            BY <3>2, <3>5
        <3> QED
            BY <2>1, <3>3, <3>4, <3>5
    <2>3. ASSUME NEW x PROVE (\E i \in DOMAIN batch'[p] : batch'[p][i] = x) <=> (x = Head(rb[r]) \/ \E i \in DOMAIN batch[p] : batch[p][i] = x)
        <3>1. Head(rb[r]) \in Rec
            BY <2>1
        <3>2. LET n == Len(batch[p]) + 1 IN
              /\ DOMAIN batch'[p] = DOMAIN batch[p] \cup {n} /\ batch'[p][n] = Head(rb[r])
              /\ \A i \in DOMAIN batch[p] : batch'[p][i] = batch[p][i]
            BY <2>1, <3>1
        <3> QED
            BY <3>2
    <2>4. ASSUME NEW x \in Rec PROVE Present(x)' <=> Present(x)
        <3>1. InBatch(x)' <=> (x = Head(rb[r]) \/ InBatch(x))
            <4>1. (\E i \in DOMAIN batch'[p] : batch'[p][i] = x) <=> (x = Head(rb[r]) \/ \E i \in DOMAIN batch[p] : batch[p][i] = x)
                BY <2>3
            <4> QED
                BY <2>1, <4>1 DEF InBatch
        <3>2. InRing(x) <=> (x = Head(rb[r]) \/ InRing(x)')
            <4>1. (\E i \in DOMAIN rb[r] : rb[r][i] = x) <=> (x = Head(rb[r]) \/ \E i \in DOMAIN rb'[r] : rb'[r][i] = x)
                BY <2>2
            <4> QED
                BY <2>1, <4>1 DEF InRing
        <3>3. (InHands(x)' <=> InHands(x)) /\ (WasSent(x)' <=> WasSent(x)) /\ dropped' = dropped
            BY <2>1 DEF InHands, WasSent
        <3> QED
            BY <3>1, <3>2, <3>3 DEF Present
    <2> QED
        BY <2>4 DEF Carried
<1>5. CASE DoNext(p)
    <2>1. AtRest
        BY <1>5 DEF DoNext, AtRest, Apart, records, Proc
    <2> QED
        BY <2>1, RestCarries
<1>6. CASE DoSweep(p)
    <2>1. AtRest
        BY <1>6 DEF DoSweep, AtRest, Apart, SameWork, records, Proc
    <2> QED
        BY <2>1, RestCarries
<1>7. CASE DoLockSocket(p)
    <2>1. AtRest
        BY <1>7 DEF DoLockSocket, AtRest, Apart, records, Proc
    <2> QED
        BY <2>1, RestCarries
<1>8. CASE DoConnect(p)
    <2>1. AtRest
        BY <1>8 DEF DoConnect, AtRest, Apart, SameWork, records, Proc
    <2> QED
        BY <2>1, RestCarries
<1>9. CASE DoSend(p)
    <2>1. /\ UNCHANGED <<rb, cur, dropped>> /\ \A q \in Proc : batch'[q] = batch[q]
          /\ k[p] + 1 \in DOMAIN batch[p] /\ wire' = Append(wire, [conn |-> sock, rec |-> batch[p][k[p] + 1]])
        BY <1>9 DEF DoSend, Apart, Control, ControlAt, BatchAt, TypeInv
    <2>2. ASSUME NEW x \in Rec PROVE WasSent(x)' <=> (WasSent(x) \/ x = batch[p][k[p] + 1])
        <3> DEFINE n == Len(wire) + 1
        <3>1. /\ DOMAIN wire' = DOMAIN wire \cup {n} /\ wire'[n].rec = batch[p][k[p] + 1]
              /\ \A i \in DOMAIN wire : wire'[i] = wire[i]
            BY SMTT(30), <2>1 DEF TypeInv
        <3> HIDE DEF n
        <3> QED
            BY <3>1 DEF WasSent
    <2>3. ASSUME NEW x \in Rec PROVE Present(x)' <=> Present(x)
        BY <2>1, <2>2 DEF Present, InBatch, InRing, InHands
    <2> QED
        BY <2>3 DEF Carried
<1>10. CASE DoFail(p)
    <2>1. AtRest
        BY <1>10 DEF DoFail, AtRest, Apart, records, Proc
    <2> QED
        BY <2>1, RestCarries
<1>11. CASE DoCount(p)
    <2>1. /\ UNCHANGED <<rb, cur, wire>> /\ \A q \in Proc \ {p} : batch'[q] = batch[q]
          /\ batch'[p] = <<>> /\ dropped \subseteq dropped' /\ dropped' \subseteq dropped \cup BatchRecords(p)
        BY <1>11 DEF DoCount, Apart
    <2>2. ASSUME NEW i \in DOMAIN batch[p] PROVE WasSent(batch[p][i]) \/ batch[p][i] \in dropped'
        <3>1. i \in 1..Len(batch[p])
            BY <2>2 DEF TypeInv
        <3>2. CASE pc[p] = "sent"
            BY <3>1, <3>2, <2>2 DEF Taken, TakenAt
        <3>3. CASE pc[p] = "lost" /\ dropped' = dropped \cup BatchRecords(p)
            BY <3>1, <3>3 DEF BatchRecords
        <3> QED
            BY <1>11, <3>2, <3>3 DEF DoCount
    <2>3. ASSUME NEW x \in BatchRecords(p) PROVE InBatch(x)
        BY <2>3 DEF BatchRecords, InBatch
    <2>4. ASSUME NEW x \in Rec PROVE Present(x)' <=> Present(x)
        <3>1. (InRing(x)' <=> InRing(x)) /\ (InHands(x)' <=> InHands(x)) /\ (WasSent(x)' <=> WasSent(x))
            BY <2>1 DEF InRing, InHands, WasSent
        <3>2. InBatch(x)' => InBatch(x)
            BY <2>1 DEF InBatch
        <3>3. InBatch(x) => InBatch(x)' \/ WasSent(x) \/ x \in dropped'
            BY <2>1, <2>2 DEF InBatch
        <3>4. x \in dropped' => x \in dropped \/ InBatch(x)
            BY <2>1, <2>3
        <3> QED
            BY <2>1, <3>1, <3>2, <3>3, <3>4 DEF Present
    <2> QED
        BY <2>4 DEF Carried
<1>12. CASE DoStatusConnect(p)
    <2>1. AtRest
        BY <1>12 DEF DoStatusConnect, AtRest, Apart, SameWork, records, Proc
    <2> QED
        BY <2>1, RestCarries
<1>13. CASE DoStatusEnd(p)
    <2>1. AtRest
        BY <1>13 DEF DoStatusEnd, AtRest, Apart, records, Proc
    <2> QED
        BY <2>1, RestCarries
<1>14. CASE p \in Thread /\ MoveEmit(p)
    <2>1. AtRest
        BY <1>14 DEF MoveEmit, Others, held, hands, AtRest, Proc
    <2> QED
        BY <2>1, RestCarries
<1>15. CASE p \in Thread /\ DoBegin(p)
    <2>1. /\ UNCHANGED <<rb, wire, dropped>> /\ \A q \in Proc : batch'[q] = batch[q]
          /\ cur[p] = None /\ cur'[p] = <<p, nemit[p] + 1>> /\ \A u \in Thread \ {p} : cur'[u] = cur[u]
          /\ nemit[p] \in Nat
        BY <1>15 DEF DoBegin, Apart, SameWork, Control, ControlAt, HandAt, Holding, InPass, Emitting, Passing, Delivering, TypeInv
    <2>2. ASSUME NEW x \in Rec PROVE (InHands(x) => InHands(x)') /\ (InHands(x)' => InHands(x) \/ Fresh(x))
        <3>1. x # None
            BY TransportAssumption DEF Rec
        <3> QED
            BY <1>15, <2>1, <3>1 DEF InHands, Fresh
    <2>3. ASSUME NEW x \in Rec PROVE (InBatch(x)' <=> InBatch(x)) /\ (InRing(x)' <=> InRing(x)) /\ (WasSent(x)' <=> WasSent(x))
        BY <2>1 DEF InBatch, InRing, WasSent
    <2> QED
        BY <2>1, <2>2, <2>3 DEF Carried, Present
<1>16. CASE p \in Thread /\ DoDrop(p)
    <2>1. /\ UNCHANGED <<rb, wire>> /\ \A q \in Proc : batch'[q] = batch[q]
          /\ cur'[p] = None /\ dropped' = dropped \cup {cur[p]} /\ \A u \in Thread \ {p} : cur'[u] = cur[u]
        BY <1>16 DEF DoDrop, Apart, SameWork
    <2>2. ASSUME NEW x \in Rec PROVE InHands(x) <=> (InHands(x)' \/ x = cur[p])
        <3>1. x # None
            BY TransportAssumption DEF Rec
        <3> QED
            BY <1>16, <2>1, <3>1 DEF InHands
    <2>3. ASSUME NEW x \in Rec PROVE (InBatch(x)' <=> InBatch(x)) /\ (InRing(x)' <=> InRing(x)) /\ (WasSent(x)' <=> WasSent(x))
        BY <2>1 DEF InBatch, InRing, WasSent
    <2> QED
        BY <2>1, <2>2, <2>3 DEF Carried, Present
<1>17. CASE p \in Thread /\ DoRegister(p)
    <2>1. AtRest
        BY <1>17 DEF DoRegister, FreshRing, RingId, AtRest, Apart, SameWork, records, Proc
    <2> QED
        BY <2>1, RestCarries
<1>18. CASE p \in Thread /\ DoPublish(p)
    <2>1. /\ UNCHANGED <<wire, dropped>> /\ \A q \in Proc : batch'[q] = batch[q]
          /\ cur'[p] = None /\ \A u \in Thread \ {p} : cur'[u] = cur[u]
        BY <1>18 DEF DoPublish, Apart, SameWork
    <2>2. ASSUME NEW x \in Rec PROVE InHands(x) <=> (InHands(x)' \/ x = cur[p])
        <3>1. x # None
            BY TransportAssumption DEF Rec
        <3> QED
            BY <1>18, <2>1, <3>1 DEF InHands
    <2>3. tls[p] \in RingId /\ cur[p] \in Rec
        BY <1>18 DEF DoPublish, Control, ControlAt, OwnRingAt, HandAt, Holding, Emitting, TypeInv
    <2>4. LET r == tls[p]  n == Len(rb[r]) + 1 IN
          /\ DOMAIN rb'[r] = DOMAIN rb[r] \cup {n} /\ rb'[r][n] = cur[p]
          /\ \A i \in DOMAIN rb[r] : rb'[r][i] = rb[r][i]
          /\ \A s \in RingId \ {r} : rb'[s] = rb[s]
        BY <1>18, <2>3 DEF DoPublish
    <2>5. ASSUME NEW x \in Rec PROVE InRing(x)' <=> (InRing(x) \/ x = cur[p])
        <3>1. (\E i \in DOMAIN rb'[tls[p]] : rb'[tls[p]][i] = x) <=> (x = cur[p] \/ \E i \in DOMAIN rb[tls[p]] : rb[tls[p]][i] = x)
            BY <2>4
        <3> QED
            BY <2>3, <2>4, <3>1 DEF InRing
    <2>6. ASSUME NEW x \in Rec PROVE (InBatch(x)' <=> InBatch(x)) /\ (WasSent(x)' <=> WasSent(x))
        BY <2>1 DEF InBatch, WasSent
    <2> QED
        BY <2>1, <2>2, <2>5, <2>6 DEF Carried, Present
<1>19. CASE p \in Thread /\ DoSendInHand(p)
    <2>1. /\ UNCHANGED <<rb, wire, dropped>> /\ \A q \in Proc \ {p} : batch'[q] = batch[q]
          /\ cur'[p] = None /\ \A u \in Thread \ {p} : cur'[u] = cur[u]
          /\ batch'[p] = <<cur[p]>> /\ batch[p] = <<>>
        BY <1>19 DEF DoSendInHand, Apart, Control, ControlAt, BatchAt, Delivering
    <2>2. ASSUME NEW x \in Rec PROVE InHands(x) <=> (InHands(x)' \/ x = cur[p])
        <3>1. x # None
            BY TransportAssumption DEF Rec
        <3> QED
            BY <1>19, <2>1, <3>1 DEF InHands
    <2>3. DOMAIN batch'[p] = {1} /\ batch'[p][1] = cur[p] /\ DOMAIN batch[p] = {}
        BY <2>1
    <2>4. ASSUME NEW x \in Rec PROVE InBatch(x)' <=> (InBatch(x) \/ x = cur[p])
        BY <2>1, <2>3 DEF InBatch
    <2>5. ASSUME NEW x \in Rec PROVE (InRing(x)' <=> InRing(x)) /\ (WasSent(x)' <=> WasSent(x))
        BY <2>1 DEF InRing, WasSent
    <2> QED
        BY <2>1, <2>2, <2>4, <2>5 DEF Carried, Present
<1>20. CASE p \in Thread /\ DoOwnDone(p)
    <2>1. AtRest
        BY <1>20 DEF DoOwnDone, AtRest, Apart, records, Proc
    <2> QED
        BY <2>1, RestCarries
<1>21. CASE p \in Thread /\ DoShutdown(p)
    <2>1. AtRest
        BY <1>21 DEF DoShutdown, AtRest, Apart, records, Proc
    <2> QED
        BY <2>1, RestCarries
<1>22. CASE p \in Thread /\ DoExit(p)
    <2>1. AtRest
        BY <1>22 DEF DoExit, AtRest, Apart, SameWork, records, Proc
    <2> QED
        BY <2>1, RestCarries
<1> QED
    BY <1>1, <1>2, <1>3, <1>4, <1>5, <1>6, <1>7, <1>8, <1>9, <1>10, <1>11, <1>12, <1>13, <1>14, <1>15, <1>16, <1>17, <1>18, <1>19, <1>20, <1>21, <1>22 DEF Does, Calls

(* No connection of the child was the parent's.                            *)
OwnConn ==
    /\ forked_at <= nconn /\ (sock = 0 \/ sock > forked_at)
    /\ \A i \in DOMAIN wire : wire[i].conn > forked_at

\* A new connection has a number above all earlier ones.
LEMMA OwnConnStep == ASSUME TypeInv, Control, OwnConn, [Next]_vars PROVE OwnConn'
<1>1. sock \in Nat /\ nconn \in Nat /\ forked_at \in Nat
    BY DEF TypeInv
<1>2. ASSUME UNCHANGED <<forked_at, wire>>,
             \/ UNCHANGED <<sock, nconn>>
             \/ sock' = 0 /\ nconn' = nconn
             \/ sock' = nconn + 1 /\ nconn' = nconn + 1
      PROVE  OwnConn'
    BY <1>1, <1>2 DEF OwnConn
<1>3. CASE UNCHANGED vars \/ Still
    BY <1>2, <1>3 DEF Still, held, vars, image, netvars, history
<1>4. ASSUME NEW p \in Proc, Does(p) \/ (p \in Thread /\ Calls(p) /\ ~Fork(p)), ~DoSend(p) PROVE OwnConn'
    <2>1. UNCHANGED <<forked_at, wire>>
        BY <1>4 DEF Does, Calls, MoveOutside, MovePass, MoveEmit, held, DoLock, DoTake, DoNext, DoSweep, DoLockSocket,
            DoConnect, DoFail, DoCount, DoStatusConnect, DoStatusEnd, DoBegin, DoDrop, DoRegister, DoPublish,
            DoSendInHand, DoOwnDone, DoShutdown, DoExit, records
    <2>2. \/ UNCHANGED <<sock, nconn>>
          \/ sock' = 0 /\ nconn' = nconn
          \/ sock' = nconn + 1 /\ nconn' = nconn + 1
        BY <1>4 DEF Does, Calls, MoveOutside, MovePass, MoveEmit, held, DoLock, DoTake, DoNext, DoSweep, DoLockSocket,
            DoConnect, DoFail, DoCount, DoStatusConnect, DoStatusEnd, DoBegin, DoDrop, DoRegister, DoPublish,
            DoSendInHand, DoOwnDone, DoShutdown, DoExit, shared
    <2> QED
        BY <1>2, <2>1, <2>2
<1>5. ASSUME NEW p \in Proc, DoSend(p) PROVE OwnConn'
    <2> DEFINE y == [conn |-> sock, rec |-> batch[p][k[p] + 1]]
    <2>1. UNCHANGED <<forked_at, sock, nconn>> /\ wire' = Append(wire, y)
        BY <1>5 DEF DoSend
    <2>2. sock # 0
        BY <1>5 DEF DoSend, Control, ControlAt, BatchAt
    <2>3. \A i \in DOMAIN wire' : wire'[i] = y \/ (i \in DOMAIN wire /\ wire'[i] = wire[i])
        <3>1. wire \in Seq(Sent)
            BY DEF TypeInv
        <3> HIDE DEF y
        <3> QED
            BY <2>1, <3>1
    <2>4. y.conn > forked_at
        BY <2>2 DEF OwnConn
    <2> HIDE DEF y
    <2> QED
        BY <2>1, <2>3, <2>4 DEF OwnConn
<1>6. ASSUME NEW t \in Thread, Fork(t) PROVE OwnConn'
    <2>1. sock' = 0 /\ forked_at' = nconn /\ nconn' = nconn /\ wire' = <<>>
        BY <1>6 DEF Fork, ChildSocket
    <2> QED
        BY <1>1, <2>1 DEF OwnConn
<1> QED
    BY <1>3, <1>4, <1>5, <1>6, StepEffects DEF Proc

\* What is on the wire stays there.
LEMMA WireGrows ==
    ASSUME TypeInv, Control, NEW p \in Proc, Does(p) \/ (p \in Thread /\ Calls(p) /\ ~Fork(p))
    PROVE  \A x \in Rec : WasSent(x) \/ (DoSend(p) /\ x = batch[p][k[p] + 1]) => WasSent(x)'
<1>1. CASE DoSend(p)
    <2> DEFINE n == Len(wire) + 1
    <2>1. /\ DOMAIN wire' = DOMAIN wire \cup {n} /\ wire'[n].rec = batch[p][k[p] + 1]
          /\ \A i \in DOMAIN wire : wire'[i] = wire[i]
        BY <1>1 DEF DoSend
    <2> HIDE DEF n
    <2> QED
        BY <2>1 DEF WasSent
<1>2. CASE ~DoSend(p)
    <2>1. UNCHANGED wire
        BY <1>2 DEF Does, Calls, MoveOutside, MovePass, MoveEmit, held, DoLock, DoTake, DoNext, DoSweep, DoLockSocket,
            DoConnect, DoFail, DoCount, DoStatusConnect, DoStatusEnd, DoBegin, DoDrop, DoRegister, DoPublish,
            DoSendInHand, DoOwnDone, DoShutdown, DoExit, records
    <2> QED
        BY <1>2, <2>1 DEF WasSent
<1> QED
    BY <1>1, <1>2

\* What a pass counts as taken is behind it.
LEMMA TakenStep ==
    ASSUME TypeInv, Control, Taken, NEW p \in Proc, Does(p) \/ (p \in Thread /\ Calls(p) /\ ~Fork(p))
    PROVE  TakenAt(p)'
<1> USE TransportAssumption DEF Proc, Taken, TakenAt, Control, ControlAt, BatchAt, Emitting
<1>1. CASE MoveOutside(p)
    BY <1>1 DEF MoveOutside, Outside, Others, held, hands
<1>2. CASE MovePass(p)
    BY <1>2 DEF MovePass, Others, held, hands
<1>3. CASE DoLock(p)
    BY <1>3 DEF DoLock
<1>4. ASSUME NEW r \in RingId, DoTake(p, r) PROVE TakenAt(p)'
    BY <1>4 DEF DoTake
<1>5. CASE DoNext(p)
    BY <1>5 DEF DoNext
<1>6. CASE DoSweep(p)
    BY <1>6 DEF DoSweep
<1>7. CASE DoLockSocket(p)
    BY <1>7 DEF DoLockSocket
<1>8. CASE DoConnect(p)
    BY <1>8 DEF DoConnect, TypeInv, SameWork
<1>9. CASE DoSend(p)
    <2>1. /\ batch'[p] = batch[p] /\ k'[p] = k[p] + 1 /\ k[p] \in Nat /\ pc[p] = "send" /\ batch[p] \in Seq(Rec)
          /\ pc'[p] = "sent" => k'[p] = Len(batch[p])
        BY <1>9 DEF DoSend, TypeInv
    <2>2. ASSUME NEW i \in DOMAIN batch[p], i <= k[p] + 1, NEW x, x = batch[p][i] PROVE WasSent(x)'
        <3>1. x \in Rec /\ i \in Nat
            BY <2>1, <2>2
        <3>2. CASE i <= k[p]
            <4>1. WasSent(x)
                BY <2>1, <2>2, <3>2
            <4> QED
                BY <3>1, <4>1, WireGrows
        <3>3. CASE i = k[p] + 1
            BY <1>9, <2>2, <3>1, <3>3, WireGrows
        <3> QED
            BY <2>1, <2>2, <3>1, <3>2, <3>3
    <2> QED
        BY <2>1, <2>2
<1>10. CASE DoFail(p)
    BY <1>10 DEF DoFail
<1>11. CASE DoCount(p)
    BY <1>11 DEF DoCount, BatchRecords
<1>12. CASE DoStatusConnect(p)
    BY <1>12 DEF DoStatusConnect
<1>13. CASE DoStatusEnd(p)
    BY <1>13 DEF DoStatusEnd
<1>14. CASE p \in Thread /\ MoveEmit(p)
    BY <1>14 DEF MoveEmit, Others, held, hands
<1>15. CASE p \in Thread /\ DoBegin(p)
    BY <1>15 DEF DoBegin
<1>16. CASE p \in Thread /\ DoDrop(p)
    BY <1>16 DEF DoDrop
<1>17. CASE p \in Thread /\ DoRegister(p)
    BY <1>17 DEF DoRegister, FreshRing, RingId
<1>18. CASE p \in Thread /\ DoPublish(p)
    BY <1>18 DEF DoPublish
<1>19. CASE p \in Thread /\ DoSendInHand(p)
    BY <1>19 DEF DoSendInHand
<1>20. CASE p \in Thread /\ DoOwnDone(p)
    BY <1>20 DEF DoOwnDone
<1>21. CASE p \in Thread /\ DoShutdown(p)
    BY <1>21 DEF DoShutdown
<1>22. CASE p \in Thread /\ DoExit(p)
    BY <1>22 DEF DoExit
<1> QED
    BY <1>1, <1>2, <1>3, <1>4, <1>5, <1>6, <1>7, <1>8, <1>9, <1>10, <1>11, <1>12, <1>13, <1>14, <1>15, <1>16, <1>17, <1>18, <1>19, <1>20, <1>21, <1>22 DEF Does, Calls

LEMMA RecordsStep == ASSUME TypeInv, TypeInv', Control, RecordInv, [Next]_vars PROVE RecordInv'
<1> USE DEF RecordInv
<1>1. use' = use
    BY DEF Next, vars
<1>2. CASE UNCHANGED vars \/ Still
    <2>1. UNCHANGED <<rb, cur, wire, dropped, batch, nemit, inherited, pc, k>>
        BY <1>2 DEF Still, held, hands, vars, image, lifecycle, ringvars, locks, netvars, counters, passvars, history
    <2>2. Bounded'
        BY <1>1, <2>1 DEF Bounded
    <2>3. Taken'
        BY <2>1 DEF Taken, TakenAt, WasSent
    <2>4. ASSUME NEW x PROVE Present(x)' <=> Present(x)
        BY <2>1 DEF Present, InBatch, InRing, InHands, WasSent
    <2>5. ChildInv'
        BY <2>1, <2>4 DEF ChildInv
    <2>6. NothingVanishes'
        BY <2>1, <2>4 DEF NothingVanishes
    <2> QED
        BY <2>2, <2>3, <2>5, <2>6
<1>3. ASSUME NEW p \in Proc, Does(p) \/ (p \in Thread /\ Calls(p) /\ ~Fork(p)) PROVE RecordInv'
    <2>1. Carried
        BY <1>3, CarriedStep
    <2>2. inherited' = inherited
        BY <1>3 DEF Does, Calls, MoveOutside, MovePass, MoveEmit, held, DoLock, DoTake, DoNext, DoSweep, DoLockSocket,
            DoConnect, DoSend, DoFail, DoCount, DoStatusConnect, DoStatusEnd, DoBegin, DoDrop, DoRegister, DoPublish,
            DoSendInHand, DoOwnDone, DoShutdown, DoExit, records
    <2>3. nemit' = nemit \/ (p \in Thread /\ DoBegin(p))
        BY <1>3 DEF Does, Calls, MoveOutside, MovePass, MoveEmit, held, DoLock, DoTake, DoNext, DoSweep, DoLockSocket,
            DoConnect, DoSend, DoFail, DoCount, DoStatusConnect, DoStatusEnd, DoDrop, DoRegister, DoPublish,
            DoSendInHand, DoOwnDone, DoShutdown, DoExit, records
    <2>4. \A t \in Thread : nemit[t] \in Nat /\ use.emits[t] \in Nat
        BY DEF TypeInv, Use
    <2>5. /\ \A t \in Thread : nemit'[t] \in Nat /\ nemit[t] <= nemit'[t] /\ nemit'[t] <= use.emits[t]
          /\ \A t \in Thread : nemit'[t] = nemit[t] \/ (nemit'[t] = nemit[t] + 1 /\ cur'[t] = <<t, nemit'[t]>>)
        BY <2>3, <2>4 DEF DoBegin, Bounded
    <2>6. Bounded'
        BY <1>1, <2>5 DEF Bounded
    <2>7. Taken'
        <3>1. ASSUME NEW q \in Proc \ {p} PROVE TakenAt(q)'
            <4>1. batch'[q] = batch[q] /\ k'[q] = k[q] /\ (pc'[q] = pc[q] \/ pc'[q] \in {"none", "loop"})
                BY <1>3, StepsAway DEF Away
            <4>2. \A i \in DOMAIN batch[q] : batch[q][i] \in Rec
                BY SMTT(30) DEF TypeInv
            <4> QED
                BY <1>3, <4>1, <4>2, WireGrows DEF Taken, TakenAt
        <3> QED
            BY <1>3, <3>1, TakenStep DEF Taken
    <2>8. ChildInv'
        <3> SUFFICES ASSUME NEW x \in inherited PROVE x[2] <= nemit'[x[1]] /\ ~Present(x)'
            BY <2>2 DEF ChildInv
        <3>1. x \in Rec /\ x[1] \in Thread /\ x[2] \in Nat
            BY DEF TypeInv, Rec
        <3>2. x[2] <= nemit[x[1]] /\ ~Present(x)
            BY DEF ChildInv
        <3>3. ~Fresh(x)
            BY <2>4, <3>1, <3>2 DEF Fresh
        <3>4. ~Present(x)'
            BY <2>1, <3>1, <3>2, <3>3 DEF Carried
        <3>5. x[2] <= nemit'[x[1]]
            BY <2>4, <2>5, <3>1, <3>2
        <3> QED
            BY <3>4, <3>5
    <2>9. NothingVanishes'
        <3> SUFFICES ASSUME NEW t \in Thread, NEW n \in 1..nemit'[t] PROVE Present(<<t, n>>)' \/ <<t, n>> \in inherited
            BY <2>2 DEF NothingVanishes
        <3>1. <<t, n>> \in Rec
            BY <2>5 DEF Rec
        <3>2. CASE n \in 1..nemit[t]
            BY <2>1, <3>1, <3>2 DEF NothingVanishes, Carried
        <3>3. CASE n \notin 1..nemit[t]
            <4>1. nemit'[t] = nemit[t] + 1 /\ n = nemit'[t] /\ cur'[t] = <<t, n>>
                BY <2>4, <2>5, <3>3
            <4> QED
                BY <4>1 DEF Present, InHands
        <3> QED
            BY <3>2, <3>3
    <2> QED
        BY <2>6, <2>7, <2>8, <2>9
<1>4. ASSUME NEW t \in Thread, Fork(t) PROVE RecordInv'
    <2>1. /\ rb' = [r \in RingId |-> <<>>] /\ batch' = [p \in Proc |-> <<>>] /\ wire' = <<>> /\ dropped' = {}
          /\ cur' = [u \in Thread |-> None] /\ inherited' = Emitted /\ inherited = {} /\ nemit' = nemit
          /\ pc' = [p \in Proc |-> IF p = t THEN "idle" ELSE IF p \in Thread THEN "gone" ELSE "none"]
        BY <1>4 DEF Fork, ChildSocket, ChildRings
    <2>2. ASSUME NEW x \in Rec PROVE ~Present(x)'
        BY <2>1, <2>2, TransportAssumption DEF Present, InBatch, InRing, InHands, WasSent, Rec
    <2>3. Bounded' /\ Taken'
        <3>1. \A p \in Proc : pc'[p] \notin {"send", "sent"}
            BY <2>1
        <3> QED
            BY <1>1, <2>1, <3>1 DEF Bounded, Taken, TakenAt
    <2>4. ChildInv'
        BY <2>1, <2>2 DEF ChildInv, Emitted, TypeInv
    <2>5. NothingVanishes'
        <3> SUFFICES ASSUME NEW u \in Thread, NEW n \in 1..nemit[u] PROVE <<u, n>> \in Emitted
            BY <2>1 DEF NothingVanishes
        <3>1. n \in 1..use.emits[u]
            <4>1. nemit[u] <= use.emits[u] /\ nemit[u] \in Nat
                BY DEF RecordInv, Bounded, TypeInv
            <4>2. use.emits[u] \in Nat
                BY TransportAssumption DEF RecordInv, Bounded, Use
            <4> QED
                BY <4>1, <4>2
        <3>2. <<u, n>> \in Record
            <4>1. <<u, n>> \in {u} \X (1..use.emits[u])
                BY <3>1
            <4>2. use \in Uses
                BY DEF Bounded
            <4> DEFINE S == {{v} \X (1..w.emits[v]) : v \in Thread, w \in Uses}
            <4>3. {u} \X (1..use.emits[u]) \in S
                BY <4>2
            <4>4. <<u, n>> \in UNION S
                <5> HIDE DEF S
                <5> QED
                    BY <4>1, <4>3
            <4> QED
                BY <4>4 DEF Record
        <3>3. n <= nemit[u]
            BY DEF TypeInv
        <3> QED
            BY <2>1, <3>2, <3>3 DEF Emitted
    <2> QED
        BY <2>3, <2>4, <2>5
<1> QED
    BY <1>2, <1>3, <1>4, StepEffects DEF Proc

LEMMA RecordsInit == Init => RecordInv
<1> SUFFICES ASSUME Init PROVE RecordInv
    OBVIOUS
<1>1. Bounded
    BY TransportAssumption DEF Init, Bounded, Use
<1>2. \A p \in Proc : pc[p] \notin {"send", "sent"}
    BY DEF Init, Proc
<1>3. Taken
    BY <1>2 DEF Taken, TakenAt
<1> QED
    BY <1>1, <1>3 DEF Init, RecordInv, ChildInv, NothingVanishes

LEMMA RecordsAlways == Spec => [](TypeInv /\ Control /\ RecordInv /\ OwnConn)
<1>1. Init => OwnConn
    BY DEF Init, OwnConn
<1>2. Init => TypeInv /\ Control /\ RecordInv /\ OwnConn
    BY <1>1, TypeInit, ControlInit, RecordsInit
<1>3. TypeInv /\ Control /\ RecordInv /\ OwnConn /\ [Next]_vars => (TypeInv /\ Control /\ RecordInv /\ OwnConn)'
    BY TypeStep, ControlStep, RecordsStep, OwnConnStep
<1> QED
    BY <1>2, <1>3, PTL DEF Spec

(* A forked child never sends, nor counts as dropped, a record the parent  *)
(* emitted before the fork: hp_tx_atfork_child leaves none of them in a    *)
(* ring, a batch or a hand, and no later step brings one back.  Nor does   *)
(* it send anything on a connection the parent had opened: the child's     *)
(* copy of the socket is closed, and every connection it opens is new.     *)

THEOREM ChildSendsItsOwn == Spec => []ChildClean
<1>1. TypeInv /\ RecordInv /\ OwnConn => ChildClean
    <2> SUFFICES ASSUME TypeInv, RecordInv, OwnConn PROVE ChildClean
        OBVIOUS
    <2>1. ASSUME NEW x \in inherited PROVE x \notin OnWire /\ x \notin dropped
        <3>1. ~Present(x)
            BY DEF RecordInv, ChildInv
        <3>2. x \in OnWire => WasSent(x)
            BY DEF OnWire, WasSent, TypeInv
        <3> QED
            BY <3>1, <3>2 DEF Present
    <2>2. DOMAIN wire = 1..Len(wire)
        BY DEF TypeInv
    <2> QED
        BY <2>1, <2>2 DEF ChildClean, OwnConn
<1> QED
    BY <1>1, RecordsAlways, PTL

(* No record is lost without a trace: each record a hook has produced is   *)
(* in its thread's hand, in a ring, in a batch, on the wire or among those *)
(* a drop counter stands for, or the parent of a forked child has it       *)
(* ("never discards silently").                                            *)

THEOREM NoneVanishes == Spec => []NothingVanishes
<1>1. TypeInv /\ Control /\ RecordInv /\ OwnConn => NothingVanishes
    BY DEF RecordInv
<1> QED
    BY <1>1, RecordsAlways, PTL

=============================================================================
