--------------------------- MODULE HookTransport ---------------------------
(***************************************************************************)
(* The event transport every hook library carries                          *)
(* (hooks/common/hp_transport.h): one ring per thread, a drain thread that *)
(* batches the rings into the collector's socket, a bounded wait when a    *)
(* ring is full, one reconnect per batch, status records, and the          *)
(* shutdown, fork and exec protocol around them.                           *)
(*                                                                         *)
(* One process image of the profiled program.  Its threads emit records    *)
(* and call hp_tx_shutdown (hook destructor, MPI_Finalize, exec); Drain    *)
(* holds the drain threads hp_tx_start may create.  A ring is the record   *)
(* queue ByteRing implements.  drain_mu, sock_mu and init_mu are held      *)
(* across steps; reg_mu only ever covers one step.  The kick futex only    *)
(* shortens the drain thread's timed sleep and is left out.                *)
(***************************************************************************)
EXTENDS Integers, Sequences, FiniteSetsExt

CONSTANTS
    Thread,      \* application threads that emit
    Drain,       \* drain threads hp_tx_start can create
    None,        \* no owner, no ring, no record
    RingCap,     \* records a ring holds
    Uses         \* the ways of using the transport to look at, see Use

(* One way of using the transport: the environment of one process image.   *)
Use == [
    threads : SUBSET Thread,  \* the threads the program has
    drains : SUBSET Drain,    \* the drain threads that may exist at once
    batch : Nat \ {0},        \* records a batch holds (HP_TX_BATCH)
    wait : BOOLEAN,           \* HPROFILER_RING_WAIT_MS > 0
    late : BOOLEAN,           \* a thread may emit after its ring's TLS destructor ran
    emits : [Thread -> Nat],  \* bound: records each thread emits
    reject : BOOLEAN,         \* a record may be too large, or not formattable
    fail : BOOLEAN,           \* pthread_create and malloc may fail; HPROFILER_TRANSPORT may be sync
    timeout : BOOLEAN,        \* HPROFILER_SHUTDOWN_MS may pass before the drain thread ends
    shutdowns : Nat,          \* bound: calls of hp_tx_shutdown
    breaks : Nat,             \* bound: connections the collector closes
    stall : BOOLEAN,          \* the collector may stop reading for ever
    fork : BOOLEAN,           \* the image may go on as a forked child
    down : BOOLEAN]           \* there may be no collector, or it may stop accepting

ASSUME TransportAssumption ==
    /\ None \notin Thread \cup Drain \cup (Thread \X Nat)
    /\ Thread \cap Drain = {} /\ IsFiniteSet(Thread) /\ IsFiniteSet(Drain)
    /\ RingCap \in Nat \ {0}
    /\ \A u \in Uses : u \in Use

Proc == Thread \cup Drain
RingId == Thread \X {1, 2}       \* a thread's ring, and one made after its destructor ran
Record == UNION {{t} \X (1..u.emits[t]) : t \in Thread, u \in Uses}

VARIABLES
    use,                        \* the use this image makes of the transport, chosen once
    state, want_ring, stop,     \* hp_tx.state, .want_ring, .stop
    drain,                      \* the joinable drain thread, or None (drain_started)
    has_batch,                  \* hp_tx.batch is allocated
    starved,                    \* history: threads whose own ring stayed full for want of it, and why
    rings,                      \* hp_tx.rings: newest ring first
    rb, orphan,                 \* contents of each ring; rings whose thread exited
    tls,                        \* hp_tx_tls_ring of each thread
    init_mu, drain_mu, sock_mu, \* owners of the mutexes
    sock, backoff,              \* connection in use (0: none); next_connect_ns in the future
    ctr, rctr,                  \* producer counters: global block, each ring's block
    sent, dropped_lost, dirty,  \* delivery counters, status pending
    pc, cur,                    \* step of each process, record in a thread's hand
    job, todo, batch,           \* why a process drains, rings to visit, records taken
    k, attempt,                 \* hp_tx_deliver: records of the batch sent, attempt
    snap,                       \* the counters a status record is made of
    nconn, up, reading, broken, \* the collector: connections, accepting, reading, closed
    wire, status,               \* history: records the socket took; its last status record
    nemit, nshut,               \* history: records emitted, shutdowns called
    dropped,                    \* history: the records behind the drop counters
    owed, gave_up,              \* history: see ShutdownSettles
    inherited, forked_at        \* history: the parent's records and connections, see ChildClean

lifecycle == <<state, want_ring, stop, drain, has_batch, starved>>
ringvars  == <<rings, rb, orphan, tls>>
locks     == <<init_mu, drain_mu, sock_mu>>
netvars   == <<sock, backoff, nconn, wire, status>>
envvars   == <<up, reading, broken>>
counters  == <<ctr, rctr, sent, dropped_lost, dirty, dropped>>
passvars  == <<job, todo, batch, k, attempt>>
history   == <<nemit, nshut, owed, gave_up, inherited, forked_at>>
image == <<lifecycle, ringvars, locks, netvars, envvars, counters, pc, cur, passvars, snap, history>>
vars == <<image, use>>

ZeroCtr == [emitted |-> 0, dropped_full |-> 0, rejected |-> 0]
ZeroStatus == [emitted |-> 0, dropped_full |-> 0, rejected |-> 0, sent |-> 0, dropped_lost |-> 0]
CtrAdd(a, b) == [f \in DOMAIN ZeroCtr |-> a[f] + b[f]]          \* hp_tx_ctr_add

Init ==
    /\ use \in Uses
    /\ state = "UNINIT" /\ want_ring \in (IF use.fail THEN BOOLEAN ELSE {TRUE}) /\ stop = FALSE /\ drain = None
    /\ has_batch = FALSE /\ starved = {}
    /\ rings = <<>> /\ rb = [r \in RingId |-> <<>>] /\ orphan = {}
    /\ tls = [t \in Thread |-> None]
    /\ init_mu = None /\ drain_mu = None /\ sock_mu = None
    /\ sock = 0 /\ backoff = FALSE
    /\ ctr = ZeroCtr /\ rctr = [r \in RingId |-> ZeroCtr]
    /\ sent = 0 /\ dropped_lost = 0 /\ dirty = FALSE /\ dropped = {}
    /\ pc = [p \in Proc |-> CASE p \in use.threads -> "idle" [] p \in Drain -> "none" [] OTHER -> "gone"]
    /\ cur = [t \in Thread |-> None] /\ job = [p \in Proc |-> "none"]
    /\ todo = [p \in Proc |-> <<>>] /\ batch = [p \in Proc |-> <<>>]
    /\ k = [p \in Proc |-> 0] /\ attempt = [p \in Proc |-> 0]
    /\ snap = [p \in Proc |-> ZeroStatus]
    /\ nconn = 0 /\ up \in (IF use.down THEN BOOLEAN ELSE {TRUE})
    /\ reading = TRUE /\ broken = {}
    /\ wire = <<>> /\ status = None
    /\ nemit = [t \in Thread |-> 0] /\ nshut = 0
    /\ owed = [t \in Thread |-> {}] /\ gave_up = FALSE /\ inherited = {} /\ forked_at = 0

Goto(p, l) == pc' = [pc EXCEPT ![p] = l]

(* HP_TX_INC: the counter of the thread's ring block, or the global one.   *)
Inc(t, f) ==
    IF tls[t] = None
    THEN ctr' = [ctr EXCEPT ![f] = @ + 1] /\ UNCHANGED rctr
    ELSE rctr' = [rctr EXCEPT ![tls[t]][f] = @ + 1] /\ UNCHANGED ctr

-----------------------------------------------------------------------------
(* hp_tx_emit, hp_tx_emitf and hp_tx_push: the producer.                   *)

EmitBegin(t) ==
    /\ pc[t] = "idle"
    /\ nemit[t] < use.emits[t]
    /\ nemit' = [nemit EXCEPT ![t] = @ + 1]
    /\ Inc(t, "emitted")
    /\ cur' = [cur EXCEPT ![t] = <<t, nemit[t] + 1>>]
    /\ Goto(t, "push")
    /\ UNCHANGED <<lifecycle, ringvars, locks, netvars, envvars, sent, dropped_lost, dirty, dropped,
                   passvars, snap, nshut, owed, gave_up, inherited, forked_at>>

(* The record is counted in f and given up.                                *)
CountDrop(t, f) == Inc(t, f) /\ dirty' = TRUE
Drop(t, f) ==
    /\ CountDrop(t, f)
    /\ dropped' = dropped \cup {cur[t]}
    /\ cur' = [cur EXCEPT ![t] = None]
    /\ Goto(t, "idle")
    /\ UNCHANGED <<lifecycle, ringvars, locks, netvars, envvars, sent, dropped_lost,
                   passvars, snap, history>>

(* Not formattable, over HP_TX_MAX_RECORD, or over half the ring: oversize *)
(* and format_errors are counted alike here.                               *)
Reject(t) == use.reject /\ pc[t] \in {"push", "store"} /\ Drop(t, "rejected")

(* No memory for the copy: hp_tx_emit counts it as dropped, hp_tx_emitf as *)
(* a format error.                                                         *)
NoMemory(t) ==
    /\ use.fail /\ pc[t] = "push"
    /\ \E f \in {"dropped_full", "rejected"} : Drop(t, f)

(* hp_tx_push loads the state, calls hp_tx_start if it is UNINIT and loads *)
(* it again; without a ring the record goes out synchronously.             *)
LoadState(t) ==
    /\ pc[t] \in {"push", "push2"}
    /\ Goto(t, CASE state = "UNINIT" /\ pc[t] = "push" -> "start"
                 [] state = "RING" /\ tls[t] = None -> "register"
                 [] state = "RING" /\ tls[t] # None -> "store"
                 [] OTHER -> "sync")
    /\ UNCHANGED <<lifecycle, ringvars, locks, netvars, envvars, counters, cur, passvars, snap, history>>

(* hp_tx_start, under init_mu: the drain thread is created, or creating it *)
(* fails and the transport is synchronous for good.                        *)
StartRing(t, d) ==
    /\ state = "UNINIT" /\ want_ring
    /\ pc[d] \in {"none", "dead"}
    /\ state' = "RING" /\ drain' = d /\ stop' = FALSE
    /\ pc' = [pc EXCEPT ![t] = "push2", ![d] = "loop"]
    /\ UNCHANGED <<want_ring, has_batch, starved>>

StartSync(t) ==
    /\ state = "UNINIT" /\ (want_ring => use.fail)
    /\ state' = "SYNC" /\ want_ring' = FALSE
    /\ stop' = IF want_ring THEN FALSE ELSE stop
    /\ Goto(t, "push2")
    /\ UNCHANGED <<drain, has_batch, starved>>

StartedByOther(t) == state # "UNINIT" /\ Goto(t, "push2") /\ UNCHANGED lifecycle

Start(t) ==
    /\ pc[t] = "start"
    /\ init_mu = None
    /\ (\E d \in use.drains : StartRing(t, d)) \/ StartSync(t) \/ StartedByOther(t)
    /\ UNCHANGED <<ringvars, locks, netvars, envvars, counters, cur, passvars, snap, history>>

(* hp_tx_my_ring: a new ring goes to the front of the registry; without    *)
(* memory for one the record is sent synchronously.                        *)
FreshRing(t) == IF <<t, 1>> \in orphan THEN <<t, 2>> ELSE <<t, 1>>

Register(t) ==
    /\ pc[t] = "register"
    /\ \/ /\ rings' = <<FreshRing(t)>> \o rings
          /\ tls' = [tls EXCEPT ![t] = FreshRing(t)]
          /\ Goto(t, "store")
       \/ /\ use.fail /\ Goto(t, "sync")
          /\ UNCHANGED <<rings, tls>>
    /\ UNCHANGED <<lifecycle, rb, orphan, locks, netvars, envvars, counters, cur, passvars, snap, history>>

(* rb_bytes_push succeeds and publishes the record.                        *)
Publish(t) ==
    /\ Len(rb[tls[t]]) < RingCap
    /\ rb' = [rb EXCEPT ![tls[t]] = Append(@, cur[t])]
    /\ cur' = [cur EXCEPT ![t] = None]
    /\ Goto(t, "check")
    /\ UNCHANGED <<lifecycle, rings, orphan, tls, locks, netvars, envvars, counters, passvars, snap, history>>

RingFull(t) == Len(rb[tls[t]]) >= RingCap

Step(t, l) ==
    /\ Goto(t, l)
    /\ UNCHANGED <<lifecycle, ringvars, locks, netvars, envvars, counters, cur, passvars, snap, history>>

Store(t) ==
    /\ pc[t] = "store"
    /\ \/ Publish(t)
       \/ RingFull(t) /\ use.wait /\ Step(t, "wait")
       \/ RingFull(t) /\ ~use.wait /\ Drop(t, "dropped_full")

(* HPROFILER_RING_WAIT_MS have passed.                                     *)
WaitExpires(t) == pc[t] = "retry" /\ RingFull(t) /\ Step(t, "waited")

(* The bounded wait: look whether the transport was shut down, sleep, try  *)
(* again, until the record fits or HPROFILER_RING_WAIT_MS have passed.     *)
Wait(t) ==
    \/ pc[t] = "wait" /\ Step(t, IF state # "RING" THEN "waited" ELSE "retry")
    \/ pc[t] = "retry" /\ (Publish(t) \/ (RingFull(t) /\ Step(t, "wait")))
    \/ WaitExpires(t)
    \/ /\ pc[t] = "waited"
       /\ \/ state # "RING" /\ Step(t, "sync")
          \/ state = "RING" /\ Drop(t, "dropped_full")

(* Publish-then-check: a record published after the final drain of a       *)
(* concurrent shutdown is drained by its own thread.                       *)
CheckNothing(t) == pc[t] = "check" /\ Step(t, "idle")
Check(t) == pc[t] = "check" /\ Step(t, IF state # "RING" THEN "own" ELSE "idle")

-----------------------------------------------------------------------------
(* Draining, by whoever holds drain_mu.                                    *)

LockAndDrain(p, why, rs) ==
    /\ drain_mu = None /\ drain_mu' = p
    /\ job' = [job EXCEPT ![p] = why]
    /\ todo' = [todo EXCEPT ![p] = rs]
    /\ has_batch' = TRUE
    /\ Goto(p, "drain")
    /\ UNCHANGED <<state, want_ring, stop, drain, starved, ringvars, init_mu, sock_mu, netvars, envvars,
                   counters, cur, batch, k, attempt, snap, history>>

(* drain_mu is taken, malloc(HP_TX_BATCH) fails, drain_mu is released:     *)
(* nothing is drained.  The buffer stays once a pass has allocated it.     *)
NoBatch == use.fail /\ ~has_batch /\ drain_mu = None
Starved(t, why) ==
    /\ starved' = starved \cup {<<t, why>>}
    /\ UNCHANGED <<state, want_ring, stop, drain, has_batch, locks>>

(* hp_tx_deliver is called with the record in hand.                        *)
SendInHand(t) ==
    /\ batch' = [batch EXCEPT ![t] = <<cur[t]>>]
    /\ cur' = [cur EXCEPT ![t] = None]
    /\ job' = [job EXCEPT ![t] = "one"]
    /\ Goto(t, "deliver")
    /\ UNCHANGED <<ringvars, netvars, envvars, counters, todo, k, attempt, snap, history>>

(* Without a batch buffer the thread's ring is left as it is.              *)
OwnStarves(t) ==
    /\ pc[t] = "own" /\ NoBatch
    /\ Starved(t, "own")
    /\ Goto(t, "idle")
    /\ UNCHANGED <<ringvars, netvars, envvars, counters, cur, passvars, snap, history>>
DrainOwn(t) ==
    \/ pc[t] = "own" /\ LockAndDrain(t, "own", <<tls[t]>>)
    \/ OwnStarves(t)

(* hp_tx_emit_sync: the thread's leftover ring goes first, unless there is *)
(* no buffer to drain it with; then the record in hand overtakes it.       *)
HasLeftover(t) == tls[t] # None /\ rb[tls[t]] # <<>>
EmitSyncUnordered(t) == pc[t] = "sync" /\ SendInHand(t) /\ UNCHANGED <<lifecycle, locks>>
Overtake(t) ==
    /\ pc[t] = "sync" /\ HasLeftover(t) /\ NoBatch
    /\ Starved(t, "sync")
    /\ SendInHand(t)
EmitSync(t) ==
    \/ /\ pc[t] = "sync" /\ drain_mu = None
       /\ IF HasLeftover(t)
          THEN LockAndDrain(t, "sync", <<tls[t]>>)
          ELSE SendInHand(t) /\ UNCHANGED <<lifecycle, locks>>
    \/ Overtake(t)

(* hp_tx_drain_ring: the next record of the ring goes to the batch; a full *)
(* batch is delivered first.                                               *)
Take(p) ==
    /\ pc[p] = "drain" /\ todo[p] # <<>>
    /\ LET r == Head(todo[p]) IN
       /\ rb[r] # <<>>
       /\ Len(batch[p]) < use.batch
       /\ batch' = [batch EXCEPT ![p] = Append(@, Head(rb[r]))]
       /\ rb' = [rb EXCEPT ![r] = Tail(@)]
    /\ UNCHANGED <<lifecycle, rings, orphan, tls, locks, netvars, envvars, counters, pc, cur,
                   job, todo, k, attempt, snap, history>>

BatchFull(p) ==
    /\ pc[p] = "drain" /\ todo[p] # <<>>
    /\ rb[Head(todo[p])] # <<>>
    /\ Len(batch[p]) = use.batch
    /\ Step(p, "deliver")

NextRing(p) ==
    /\ pc[p] = "drain" /\ todo[p] # <<>>
    /\ rb[Head(todo[p])] = <<>>
    /\ todo' = [todo EXCEPT ![p] = Tail(@)]
    /\ UNCHANGED <<lifecycle, ringvars, locks, netvars, envvars, counters, pc, cur, job, batch, k, attempt,
                   snap, history>>

PassDone(p) ==
    /\ pc[p] = "drain" /\ todo[p] = <<>>
    /\ Step(p, IF batch[p] # <<>> THEN "deliver" ELSE "sweep")

(* The end of a pass.  hp_tx_drain_all_locked frees the orphaned rings     *)
(* that are empty, keeping their counters; then drain_mu is released.      *)
Dead == {r \in orphan : rb[r] = <<>>}
IsLive(r) == r \notin Dead
CtrSum(rs) == [f \in DOMAIN ZeroCtr |-> MapThenSumSet(LAMBDA r : rctr[r][f], rs)]

(* The registry keeps the live rings, in their order.                      *)
Unlink ==
    \E n \in 0..Len(rings) : \E f \in [1..n -> 1..Len(rings)] :
        /\ \A i, j \in 1..n : i < j => f[i] < f[j]
        /\ {f[i] : i \in 1..n} = {i \in 1..Len(rings) : IsLive(rings[i])}
        /\ rings' = [i \in 1..n |-> rings[f[i]]]

KeepNoCounters == UNCHANGED ctr
KeepCounters == ctr' = CtrAdd(ctr, CtrSum(Dead))

Sweep(p) ==
    /\ pc[p] = "sweep" /\ job[p] \in {"main", "shutdown", "exec"}
    /\ Unlink
    /\ orphan' = orphan \ Dead
    /\ KeepCounters
    /\ rctr' = [r \in RingId |-> IF r \in Dead THEN ZeroCtr ELSE rctr[r]]
    /\ drain_mu' = None
    /\ Goto(p, IF job[p] = "main" THEN "drained" ELSE "status")
    /\ UNCHANGED <<lifecycle, rb, tls, init_mu, sock_mu, netvars, envvars, sent, dropped_lost, dirty,
                   dropped, cur, passvars, snap, history>>

OwnDone(t) ==
    /\ pc[t] = "sweep" /\ job[t] \in {"own", "sync"}
    /\ drain_mu' = None
    /\ IF job[t] = "sync" THEN SendInHand(t)
       ELSE /\ Goto(t, "idle")
            /\ job' = [job EXCEPT ![t] = "none"]
            /\ UNCHANGED <<ringvars, netvars, envvars, counters, cur, todo, batch, k, attempt, snap, history>>
    /\ UNCHANGED <<lifecycle, init_mu, sock_mu>>

-----------------------------------------------------------------------------
(* hp_tx_deliver, under sock_mu: at most two attempts, each sending the    *)
(* batch from its beginning.                                               *)

LockSocket(p) ==
    /\ pc[p] = "deliver"
    /\ sock_mu = None /\ sock_mu' = p
    /\ k' = [k EXCEPT ![p] = 0] /\ attempt' = [attempt EXCEPT ![p] = 1]
    /\ Goto(p, "connect")
    /\ UNCHANGED <<lifecycle, ringvars, init_mu, drain_mu, netvars, envvars, counters, cur,
                   job, todo, batch, snap, history>>

(* hp_tx_connect_locked: the open socket, or a new connection, or none     *)
(* while the rate limit holds or nobody listens.                           *)
Connected == sock # 0 /\ UNCHANGED <<sock, nconn, backoff>>
NewConnection ==
    /\ sock = 0 /\ ~backoff /\ up
    /\ nconn' = nconn + 1 /\ sock' = nconn + 1
    /\ UNCHANGED backoff
NoConnection ==
    /\ sock = 0 /\ (backoff \/ ~up)
    /\ backoff' = TRUE
    /\ UNCHANGED <<sock, nconn>>

Connect(p) ==
    /\ pc[p] = "connect"
    /\ \/ (Connected \/ NewConnection) /\ Goto(p, "send") /\ UNCHANGED sock_mu
       \/ NoConnection /\ Goto(p, "lost") /\ sock_mu' = None
    /\ UNCHANGED <<lifecycle, ringvars, init_mu, drain_mu, wire, status, envvars, counters, cur, passvars,
                   snap, history>>

(* send() takes the next record; it blocks while the collector does not    *)
(* read.                                                                   *)
Send(p) ==
    /\ pc[p] = "send"
    /\ sock \notin broken /\ reading
    /\ wire' = Append(wire, [conn |-> sock, rec |-> batch[p][k[p] + 1]])
    /\ k' = [k EXCEPT ![p] = @ + 1]
    /\ IF k[p] + 1 = Len(batch[p]) THEN sock_mu' = None /\ Goto(p, "sent")
                                   ELSE UNCHANGED <<sock_mu, pc>>
    /\ UNCHANGED <<lifecycle, ringvars, init_mu, drain_mu, sock, backoff, nconn, status, envvars, counters,
                   cur, job, todo, batch, attempt, snap, history>>

(* send() fails: the socket is closed, and the first time the whole batch  *)
(* is tried again on a new connection.                                     *)
AttemptsLeft(p) == attempt[p] < 2
SendFailed(p) ==
    /\ pc[p] = "send"
    /\ sock \in broken
    /\ sock' = 0 /\ backoff' = FALSE
    /\ IF AttemptsLeft(p)
       THEN /\ attempt' = [attempt EXCEPT ![p] = @ + 1] /\ k' = [k EXCEPT ![p] = 0]
            /\ Goto(p, "connect") /\ UNCHANGED sock_mu
       ELSE /\ sock_mu' = None /\ Goto(p, "lost")
            /\ UNCHANGED <<attempt, k>>
    /\ UNCHANGED <<lifecycle, ringvars, init_mu, drain_mu, nconn, wire, status, envvars, counters, cur,
                   job, todo, batch, snap, history>>

BatchRecords(p) == {batch[p][i] : i \in 1..Len(batch[p])}

Counted(p) ==
    /\ batch' = [batch EXCEPT ![p] = <<>>]
    /\ k' = [k EXCEPT ![p] = 0] /\ attempt' = [attempt EXCEPT ![p] = 0]
    /\ Goto(p, CASE job[p] = "one" -> "idle"
                 [] job[p] # "one" /\ todo[p] # <<>> -> "drain"
                 [] OTHER -> "sweep")
    /\ job' = IF job[p] = "one" THEN [job EXCEPT ![p] = "none"] ELSE job
    /\ UNCHANGED <<lifecycle, ringvars, locks, netvars, envvars, ctr, rctr, cur, todo, snap, history>>

CountSent(p) ==
    /\ pc[p] = "sent"
    /\ sent' = sent + Len(batch[p])
    /\ UNCHANGED <<dropped_lost, dirty, dropped>>
    /\ Counted(p)

Lost(p) == dropped_lost' = dropped_lost + Len(batch[p]) /\ UNCHANGED sent
CountLost(p) ==
    /\ pc[p] = "lost"
    /\ Lost(p)
    /\ dirty' = TRUE
    /\ dropped' = dropped \cup BatchRecords(p)
    /\ Counted(p)

-----------------------------------------------------------------------------
(* hp_tx_drain_main: the drain thread.                                     *)

(* A stop it has not seen may come before it gets drain_mu.                *)
PassStarves(d) == pc[d] = "lock" /\ NoBatch /\ Step(d, "drained")
Pass(d) ==
    \/ pc[d] = "loop" /\ Step(d, IF stop THEN "dead" ELSE "lock")
    \/ pc[d] = "lock" /\ LockAndDrain(d, "main", rings)
    \/ PassStarves(d)

(* After a pass: a status if a loss is pending and a second has passed.    *)
Drained(d) ==
    /\ pc[d] = "drained"
    /\ \/ Step(d, "loop")
       \/ dirty /\ Step(d, "status")

(* hp_tx_send_status: the global counters, then under reg_mu the rings',   *)
(* then the delivery counters; a final status of an image that emitted     *)
(* nothing is not sent.                                                    *)
Counts(c) == [f \in DOMAIN ZeroStatus |-> IF f \in DOMAIN ZeroCtr THEN c[f] ELSE 0]

StatusGlobal(p) ==
    /\ pc[p] = "status"
    /\ snap' = [snap EXCEPT ![p] = Counts(ctr)]
    /\ Goto(p, "statusrings")
    /\ UNCHANGED <<lifecycle, ringvars, locks, netvars, envvars, counters, cur, passvars, history>>

Registered == {rings[i] : i \in 1..Len(rings)}
AfterStatus(p) ==
    CASE p \in Drain -> "loop"
      [] p \in Thread /\ job[p] = "exec" -> "execfailed"
      [] OTHER -> "idle"

StatusReturns(p) ==
    /\ Goto(p, AfterStatus(p))
    /\ snap' = [snap EXCEPT ![p] = ZeroStatus]
    /\ job' = [job EXCEPT ![p] = "none"]
    /\ owed' = IF p \in Thread THEN [owed EXCEPT ![p] = {}] ELSE owed
    /\ UNCHANGED <<lifecycle, ringvars, init_mu, drain_mu, wire, envvars, ctr, rctr, sent, dropped_lost,
                   dropped, cur, todo, batch, k, attempt, nemit, nshut, gave_up, inherited, forked_at>>

StatusRings(p) ==
    /\ pc[p] = "statusrings"
    /\ LET sum == CtrAdd(snap[p], CtrSum(Registered)) IN
       IF p \in Thread /\ sum.emitted = 0
       THEN StatusReturns(p) /\ UNCHANGED <<sock, backoff, nconn, status, sock_mu, dirty>>
       ELSE /\ snap' = [snap EXCEPT ![p] = Counts(sum)]
            /\ Goto(p, "statusline")
            /\ UNCHANGED <<lifecycle, ringvars, locks, netvars, envvars, counters, cur, passvars, history>>

StatusDelivery(p) ==
    /\ pc[p] = "statusline"
    /\ snap' = [snap EXCEPT ![p].sent = sent, ![p].dropped_lost = dropped_lost]
    /\ Goto(p, "statuslock")
    /\ UNCHANGED <<lifecycle, ringvars, locks, netvars, envvars, counters, cur, passvars, history>>

StatusConnect(p) ==
    /\ pc[p] = "statuslock" /\ sock_mu = None
    /\ Connected \/ NewConnection
    /\ sock_mu' = p
    /\ Goto(p, "statussend")
    /\ UNCHANGED <<lifecycle, ringvars, init_mu, drain_mu, wire, status, envvars, counters, cur, passvars,
                   snap, history>>

(* One attempt, never repeated: dirty is cleared whether the status was    *)
(* taken or not.                                                           *)
StatusSent(p) ==
    /\ \/ pc[p] = "statuslock" /\ sock_mu = None /\ NoConnection /\ UNCHANGED <<sock_mu, status>>
       \/ /\ pc[p] = "statussend" /\ sock \notin broken /\ reading
          /\ status' = [final |-> p \in Thread, counts |-> snap[p]]
          /\ sock_mu' = None
          /\ UNCHANGED <<sock, nconn, backoff>>
       \/ /\ pc[p] = "statussend" /\ sock \in broken
          /\ sock' = 0
          /\ sock_mu' = None
          /\ UNCHANGED <<nconn, backoff, status>>
    /\ dirty' = FALSE
    /\ StatusReturns(p)

Status(p) ==
    StatusGlobal(p) \/ StatusRings(p) \/ StatusDelivery(p) \/ StatusConnect(p) \/ StatusSent(p)

-----------------------------------------------------------------------------
(* hp_tx_shutdown: switch to synchronous sends, stop the drain thread      *)
(* (bounded), drain what is left (bounded), send the final status.         *)

Emitted == {r \in Record : r[2] <= nemit[r[1]]} \ inherited

(* Records whose emit call has not returned.                               *)
InHand == {cur[t] : t \in Thread} \cup UNION {BatchRecords(t) : t \in {u \in Thread : job[u] = "one"}}

Shutdown(t, why) ==
    /\ pc[t] = "idle"
    /\ nshut < use.shutdowns
    /\ init_mu = None
    /\ nshut' = nshut + 1
    /\ owed' = [owed EXCEPT ![t] = Emitted \ InHand]
    /\ job' = [job EXCEPT ![t] = why]
    /\ state' = "SYNC"
    /\ IF state = "RING" /\ drain # None
       THEN stop' = TRUE /\ init_mu' = t /\ Goto(t, "join")
       ELSE Goto(t, "shutlock") /\ UNCHANGED <<stop, init_mu>>
    /\ UNCHANGED <<want_ring, drain, has_batch, starved, ringvars, drain_mu, sock_mu, netvars, envvars, counters,
                   cur, todo, batch, k, attempt, snap, nemit, gave_up, inherited, forked_at>>

JoinEnds(t) ==
    /\ drain' = None /\ init_mu' = None
    /\ UNCHANGED <<state, want_ring, stop, has_batch, starved, ringvars, drain_mu, sock_mu, netvars, envvars,
                   counters, cur, passvars, snap, history>>
Join(t) ==
    /\ pc[t] = "join" /\ pc[drain] = "dead"
    /\ pc' = [pc EXCEPT ![t] = "shutlock", ![drain] = "none"]
    /\ JoinEnds(t)
(* HPROFILER_SHUTDOWN_MS pass: the drain thread is detached.               *)
JoinTimeout(t) ==
    /\ use.timeout /\ pc[t] = "join" /\ pc[drain] # "dead"
    /\ Goto(t, "shutlock")
    /\ JoinEnds(t)

ShutdownDrainNone(t) == pc[t] = "shutlock" /\ LockAndDrain(t, job[t], <<>>)
ShutdownDrain(t) == pc[t] = "shutlock" /\ LockAndDrain(t, job[t], rings)

(* Two seconds without drain_mu, or no batch buffer: the rings are left as *)
(* they are.  Only the first marks the status dirty.                       *)
ShutdownGivesUp(t) ==
    /\ pc[t] = "shutlock"
    /\ \/ use.timeout /\ drain_mu # None /\ dirty' = TRUE
       \/ NoBatch /\ UNCHANGED dirty
    /\ gave_up' = TRUE
    /\ Goto(t, "status")
    /\ UNCHANGED <<lifecycle, ringvars, locks, netvars, envvars, ctr, rctr, sent, dropped_lost, dropped, cur,
                   passvars, snap, nemit, nshut, owed, inherited, forked_at>>

(* hp_tx_after_failed_exec: the ring transport may start again.            *)
ExecFailed(t) ==
    /\ pc[t] = "execfailed"
    /\ init_mu = None
    /\ state' = IF state = "SYNC" /\ want_ring THEN "UNINIT" ELSE state
    /\ Goto(t, "idle")
    /\ UNCHANGED <<want_ring, stop, drain, has_batch, starved, ringvars, locks, netvars, envvars, counters, cur,
                   passvars, snap, history>>

(* hp_tx_ring_dtor: the thread exits; its ring is left to the drain.       *)
ThreadExit(t) ==
    /\ pc[t] = "idle" /\ tls[t] = <<t, 1>>
    /\ orphan' = orphan \cup {tls[t]}
    /\ tls' = [tls EXCEPT ![t] = None]
    /\ IF use.late THEN UNCHANGED pc ELSE Goto(t, "gone")
    /\ UNCHANGED <<lifecycle, rings, rb, locks, netvars, envvars, counters, cur, passvars, snap, history>>

(* hp_tx_atfork_child: from here on the model follows the child, where     *)
(* only the forking thread exists.  The batch buffer is in its copy of the *)
(* heap.                                                                   *)
ChildKeepsSocket == UNCHANGED <<sock, backoff>>
ChildSocket == sock' = 0 /\ backoff' = FALSE
ChildKeepsRings == UNCHANGED ringvars
ChildRings ==
    /\ rings' = <<>> /\ rb' = [r \in RingId |-> <<>>] /\ orphan' = {}
    /\ tls' = [u \in Thread |-> None]
Fork(t) ==
    /\ use.fork /\ pc[t] = "idle" /\ inherited = {} /\ Emitted # {}
    /\ init_mu' = None /\ drain_mu' = None /\ sock_mu' = None
    /\ ChildSocket /\ wire' = <<>> /\ status' = None
    /\ ChildRings
    /\ drain' = None /\ stop' = FALSE /\ state' = "UNINIT" /\ starved' = {}
    /\ ctr' = ZeroCtr /\ rctr' = [r \in RingId |-> ZeroCtr]
    /\ sent' = 0 /\ dropped_lost' = 0 /\ dirty' = FALSE /\ dropped' = {}
    /\ pc' = [p \in Proc |-> IF p = t THEN "idle" ELSE IF p \in Thread THEN "gone" ELSE "none"]
    /\ cur' = [u \in Thread |-> None] /\ job' = [p \in Proc |-> "none"]
    /\ todo' = [p \in Proc |-> <<>>] /\ batch' = [p \in Proc |-> <<>>]
    /\ owed' = [u \in Thread |-> {}] /\ gave_up' = FALSE /\ inherited' = Emitted /\ forked_at' = nconn
    /\ UNCHANGED <<want_ring, has_batch, nconn, envvars, k, attempt, snap, nemit, nshut>>

-----------------------------------------------------------------------------
(* The collector, and the clock.                                           *)

envframe == <<lifecycle, ringvars, locks, sock, nconn, wire, status, counters, pc, cur, passvars, snap, history>>

CloseConnection ==
    /\ sock # 0 /\ sock \notin broken /\ Cardinality(broken) < use.breaks
    /\ broken' = broken \cup {sock}
    /\ UNCHANGED <<envframe, up, reading, backoff>>
GoDown ==
    /\ use.down /\ up
    /\ up' = FALSE /\ broken' = broken \cup 1..nconn
    /\ UNCHANGED <<envframe, reading, backoff>>
Stall == use.stall /\ reading /\ reading' = FALSE /\ UNCHANGED <<envframe, up, broken, backoff>>
RateLimitEnds == backoff /\ backoff' = FALSE /\ UNCHANGED <<envframe, envvars>>

Collector == CloseConnection \/ GoDown \/ Stall \/ RateLimitEnds

Deliver(p) == LockSocket(p) \/ Connect(p) \/ Send(p) \/ SendFailed(p) \/ CountSent(p) \/ CountLost(p)
DrainPass(p) == Take(p) \/ BatchFull(p) \/ NextRing(p) \/ PassDone(p) \/ Sweep(p)

Emit(t) ==
    \/ Reject(t) \/ NoMemory(t) \/ LoadState(t) \/ Start(t) \/ Register(t) \/ Store(t) \/ Wait(t)
    \/ Check(t) \/ DrainOwn(t) \/ EmitSync(t) \/ OwnDone(t)
ShutdownSteps(t) ==
    Join(t) \/ JoinTimeout(t) \/ ShutdownDrain(t) \/ ShutdownGivesUp(t) \/ ExecFailed(t)

(* Steps a process takes on its own, and calls the program makes.          *)
Run(p) ==
    \/ Deliver(p) \/ DrainPass(p) \/ Status(p)
    \/ p \in Thread /\ (Emit(p) \/ ShutdownSteps(p))
    \/ p \in Drain /\ (Pass(p) \/ Drained(p))
Call(t) ==
    \/ EmitBegin(t) \/ ThreadExit(t) \/ Fork(t)
    \/ \E why \in {"shutdown", "exec"} : Shutdown(t, why)

Next ==
    /\ (\E p \in Proc : Run(p)) \/ (\E t \in Thread : Call(t)) \/ Collector
    /\ UNCHANGED use

Spec == Init /\ [][Next]_vars

(* Threads keep running; a full ring's wait ends (the clock advances); the *)
(* reconnect rate limit ends.  The drain thread sleeps HPROFILER_DRAIN_US  *)
(* without drain_mu after every empty pass, so a thread that wants it is   *)
(* not passed over for ever.                                               *)
WantsDrainLock(t) == DrainOwn(t) \/ EmitSync(t) \/ ShutdownDrain(t)
Fairness ==
    /\ \A p \in Proc : WF_image(Run(p))
    /\ \A t \in Thread : SF_image(WaitExpires(t)) /\ SF_image(WantsDrainLock(t))
    /\ WF_image(RateLimitEnds)
FairSpec == Spec /\ Fairness

-----------------------------------------------------------------------------
OnWire == {wire[i].rec : i \in 1..Len(wire)}
Waiting(r) == Len(rb[r])

(* Every record a hook produced is in exactly one place: sent, counted as  *)
(* dropped, or on its way (in hand, in a ring, in a batch), through        *)
(* reconnects, freed rings, shutdowns and restarts ("never discards        *)
(* silently", hp_transport.h).                                             *)
Accounting ==
    LET all == CtrAdd(ctr, CtrSum(Registered))
        pending == Cardinality({t \in Thread : cur[t] # None})
                   + MapThenSumSet(Waiting, Registered)
                   + MapThenSumSet(LAMBDA p : Len(batch[p]), Proc)
    IN  all.emitted = sent + dropped_lost + all.dropped_full + all.rejected + pending

(* A connection carries the records of one thread in the order the thread  *)
(* emitted them, whoever drained them ("Per-thread order is preserved"),   *)
(* as long as no thread emits after its ring's destructor ran.  A thread   *)
(* that once found no memory for the batch buffer when it had to drain its *)
(* ring before a synchronous send is the other exception: that record      *)
(* overtakes the ring.                                                     *)
PerThreadOrder ==
    ~use.late => \A i, j \in 1..Len(wire) :
        (i < j /\ wire[i].conn = wire[j].conn /\ wire[i].rec[1] = wire[j].rec[1]
               /\ <<wire[i].rec[1], "sync">> \notin starved)
            => wire[i].rec[2] < wire[j].rec[2]

(* When a shutdown that got drain_mu, and a buffer to drain with, is about *)
(* to send its final status, every record whose emit call had returned     *)
(* before it is on the wire or in the drop counters that status reports.   *)
Settled(t) ==
    /\ owed[t] \subseteq OnWire \cup dropped
    /\ Cardinality(owed[t] \cap dropped)
           <= snap[t].dropped_full + snap[t].rejected + snap[t].dropped_lost
ShutdownSettles ==
    \A t \in Thread : (pc[t] \in {"statuslock", "statussend"} /\ ~gave_up) => Settled(t)

(* A forked child sends none of the parent's buffered records ("the parent *)
(* sends them") and nothing, records or status, on a connection that was   *)
(* the parent's.                                                           *)
ChildClean ==
    /\ OnWire \cap inherited = {} /\ dropped \cap inherited = {}
    /\ sock = 0 \/ sock > forked_at
    /\ \A i \in 1..Len(wire) : wire[i].conn > forked_at

(* hp_tx_shutdown returns, whatever the collector does ("a collector that  *)
(* stopped reading must not hang exit()").                                 *)
InShutdown(t) == pc[t] \in {"join", "shutlock"}
ShutdownReturns == \A t \in Thread : InShutdown(t) ~> pc[t] \in {"idle", "gone"}

(* Nothing stays undone.  Unless the collector stops reading, a shutdown   *)
(* returns (the join, the drain_mu lock and the final status wait for      *)
(* nothing else) and, unless it gave up on drain_mu or a drain found no    *)
(* memory for its buffer, every record a hook produced is sent or counted. *)
(* A producer that found its ring full stops waiting even when nobody      *)
(* reads ("It never blocks indefinitely").                                 *)
EventuallySettled ==
    /\ \A t \in Thread :
        /\ InShutdown(t) ~> (pc[t] \in {"idle", "gone"} \/ ~reading)
        /\ pc[t] = "wait" ~> pc[t] \notin {"wait", "retry"}
    /\ \A r \in Record :
        (r \in Emitted) ~> (r \in OnWire \cup dropped \cup inherited \/ gave_up \/ starved # {} \/ ~reading)
=============================================================================
