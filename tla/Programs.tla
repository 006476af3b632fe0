------------------------------ MODULE Programs ------------------------------
(***************************************************************************)
(* Profiled programs, and what the hooks record of them: the traces the    *)
(* analyses are checked on.  Threads run scripts of MPI, CUDA and OpenMP   *)
(* calls against models of these runtimes (MPI's message matching, CUDA's  *)
(* streams, a critical section); a call's span is recorded as the hook's   *)
(* wrapper does, when the call returns, with the tags the analyses read.   *)
(* The runtimes' own knowledge (match, born, who) is the truth the         *)
(* analyses have to recover from the spans.                                *)
(*                                                                         *)
(* A program is [script, skew, lag, corrs, proxy, lost]: the script of     *)
(* each thread <<pid, tid>>, the offset of each process's host clock, the  *)
(* lag of the devices' clock, the number of correlation ids before they    *)
(* repeat, whether the hook adds a proxy of its own to each device record, *)
(* and the calls whose records were lost.  A call of a script is a record  *)
(* with op and what the call takes: peer (0: any source), tag, req, root,  *)
(* stream, event, kernel (its name), at (the frames the call is made from, *)
(* where the hook captures them).  A test stands for a loop of MPI_Test:   *)
(* its instants are not spans.                                             *)
(***************************************************************************)
EXTENDS SpanTags

CONSTANTS ProgramSet,        \* the programs to run
          PauseNs            \* how long a pause between two phases of one lasts

VARIABLES program, pc, call,         \* the next call of each thread, the open one
          now,                       \* true time: one step takes one unit
          spans, who,                \* the trace, and which call or device operation each span is of
          wire, posted, arrived,     \* messages on their way; receives and messages without a partner
          match,                     \* receive -> send, calls as <<thread, k>>
          queue, running, happened,  \* per stream: what waits, what runs; records passed
          born,                      \* true start and end of each span
          critical,                  \* the thread inside the critical section, and since when
          ranges                     \* of each thread, when the annotation ranges and regions open on it began
msgVars == <<wire, posted, arrived, match>>
devVars == <<queue, running, happened>>
vars == <<program, pc, call, now, spans, who, msgVars, devVars, born, critical, ranges>>

Threads == DOMAIN program.script
Processes == {th[1] : th \in Threads}
Name(n) == ToString(n)
Streams == {"0", "7", "8"}
Nowhere == <<>>
Script(th) == program.script[th]
OpAt(c) == Script(c[1])[c[2]]

Init ==
    /\ program \in ProgramSet
    /\ pc = [th \in Threads |-> 1] /\ call = [th \in Threads |-> Nowhere]
    /\ now = 0 /\ spans = <<>> /\ who = <<>> /\ born = <<>>
    /\ wire = [c \in Processes \X Processes |-> <<>>]
    /\ posted = [p \in Processes |-> <<>>] /\ arrived = [p \in Processes |-> <<>>] /\ match = <<>>
    /\ queue = [s \in Processes \X Streams |-> <<>>] /\ running = [s \in Processes \X Streams |-> Nowhere] /\ happened = {}
    /\ critical = Nowhere /\ ranges = [th \in Threads |-> <<>>]
Restart(q) ==
    LET processes == {th[1] : th \in DOMAIN q.script}
        each(S, x) == [y \in S |-> x]
    IN /\ program' = q /\ pc' = each(DOMAIN q.script, 1) /\ call' = each(DOMAIN q.script, Nowhere)
       /\ now' = 0 /\ spans' = <<>> /\ who' = <<>> /\ born' = <<>> /\ wire' = each(processes \X processes, <<>>)
       /\ posted' = each(processes, <<>>) /\ arrived' = each(processes, <<>>) /\ match' = <<>>
       /\ queue' = each(processes \X Streams, <<>>) /\ running' = each(processes \X Streams, Nowhere) /\ happened' = {}
       /\ critical' = Nowhere /\ ranges' = each(DOMAIN q.script, <<>>)

(***************************************************************************)
(* MPI: a message meets the earliest posted receive it fits, a receive the *)
(* earliest message that waits for one; messages of one sender do not      *)
(* overtake each other.                                                    *)
(***************************************************************************)
Fits(receive, message) ==
    OpAt(receive).peer \in {0, message[1][1]} /\ OpAt(receive).tag = OpAt(message).tag
FirstFit(s, Fit(_)) == LET k == {i \in DOMAIN s : Fit(s[i])} IN IF k = {} THEN 0 ELSE Min(k)
Post(c) ==
    LET p == c[1][1]
        k == FirstFit(arrived[p], LAMBDA m : Fits(c, m))
    IN IF k = 0 THEN posted' = [posted EXCEPT ![p] = Append(@, c)] /\ UNCHANGED <<arrived, match, wire>>
       ELSE /\ match' = (c :> arrived[p][k]) @@ match /\ arrived' = [arrived EXCEPT ![p] = RemoveAt(@, k)]
            /\ UNCHANGED <<posted, wire>>
Deliver(from, to) ==
    LET m == Head(wire[<<from, to>>])
        k == FirstFit(posted[to], LAMBDA c : Fits(c, m))
    IN /\ wire[<<from, to>>] # <<>>
       /\ wire' = [wire EXCEPT ![<<from, to>>] = Tail(@)]
       /\ IF k = 0 THEN arrived' = [arrived EXCEPT ![to] = Append(@, m)] /\ UNCHANGED <<posted, match>>
          ELSE /\ match' = (posted[to][k] :> m) @@ match /\ posted' = [posted EXCEPT ![to] = RemoveAt(@, k)]
               /\ UNCHANGED arrived
       /\ UNCHANGED <<program, pc, call, now, spans, who, devVars, born, critical, ranges>>

\* Calls of a kind a process has entered.
Entered(p, op) ==
    Cardinality({c \in {<<th, k>> : th \in {t \in Threads : t[1] = p}, k \in 1 .. 9} :
                   /\ c[2] <= Len(Script(c[1])) /\ OpAt(c).op = op
                   /\ c[2] < pc[c[1]] \/ (c[2] = pc[c[1]] /\ call[c[1]] # Nowhere)})
\* The post whose request a wait names: the last one of its thread.
PostOf(th, k, req) == <<th, Max({i \in 1 .. (k - 1) : Script(th)[i].op \in {"isend", "irecv"} /\ Script(th)[i].req = req})>>

(***************************************************************************)
(* CUDA: a stream is a FIFO of operations, records and waits; the default  *)
(* stream waits for the others and they for it.  n numbers the operations  *)
(* of a process in the order of their submission.                          *)
(***************************************************************************)
Items(s) == {queue[s][i] : i \in DOMAIN queue[s]} \cup (IF running[s] = Nowhere THEN {} ELSE {running[s].item})
OfProcess(p) == UNION {Items(s) : s \in {t \in DOMAIN queue : t[1] = p}}
LastRecord(th, k, event) ==
    LET r == {i \in 1 .. (k - 1) : Script(th)[i].op = "record" /\ Script(th)[i].event = event}
    IN IF r = {} THEN Nowhere ELSE <<th, Max(r)>>
Submission(c) == [call |-> c, n |-> now, kind |-> OpAt(c).op,
            awaits |-> IF OpAt(c).op = "streamwait" THEN LastRecord(c[1], c[2], OpAt(c).event) ELSE Nowhere]
MayStart(s) ==
    /\ running[s] = Nowhere /\ queue[s] # <<>>
    /\ \A t \in DOMAIN queue : t[1] = s[1] /\ (s[2] = "0" \/ t[2] = "0") => \A i \in Items(t) : i.n >= Head(queue[s]).n
    /\ Head(queue[s]).awaits = Nowhere \/ Head(queue[s]).awaits \in happened
Works == {"launch", "copy"}
Pop(s) == queue' = [queue EXCEPT ![s] = Tail(@)]

\* The correlation id of a submission: numbered per process, then repeated.
CorrOf(c) == Name(1 + (Cardinality({i \in 1 .. c[2] : Script(c[1])[i].op \in Works}) % program.corrs))
\* A process on another node than the first names it.
NodeTag(p) == IF program.skew[p] = 0 THEN <<>> ELSE [node |-> Name(p)]
Record(c, kind, new, from) ==
    IF c \in program.lost \/ OpAt(c).op \in {"pause", "test", "push", "fork"} THEN UNCHANGED <<spans, who, born>>
    ELSE /\ spans' = spans \o new /\ who' = who \o [k \in DOMAIN new |-> <<kind, c>>]
         /\ born' = born \o [k \in DOMAIN new |-> <<from, now'>>]
DeviceSpan(c, from, to) ==
    [cat |-> IF OpAt(c).op = "copy" THEN "memory" ELSE "cuda", name |-> IF "kernel" \in DOMAIN OpAt(c) THEN OpAt(c).kernel ELSE OpAt(c).op, pid |-> c[1][1], tid |-> 0, start |-> from + program.skew[c[1][1]] - program.lag, dur |-> to - from,
     sid |-> None, psid |-> <<>>, stack |-> <<>>,
     tags |-> [type |-> IF OpAt(c).op = "launch" THEN "kernel" ELSE "memcpy", side |-> "gpu", rt |-> "cuda", timing |-> "device",
               op |-> IF OpAt(c).op = "launch" THEN "kernel" ELSE "memcpy", corr |-> CorrOf(c), dev |-> "0", nstream |-> "n" \o OpAt(c).stream] @@ NodeTag(c[1][1])]
\* The hook's own record of a launched kernel, timed with events around it.
ProxySpan(c, from, to) ==
    [DeviceSpan(c, from, to) EXCEPT !.start = from + program.skew[c[1][1]],
                                    !.tags = [timing |-> "proxy_event", lid |-> Name(c[2]), stream |-> OpAt(c).stream] @@ @]
DeviceRecords(c, from, to) == <<DeviceSpan(c, from, to)>> \o IF program.proxy /\ OpAt(c).op = "launch" THEN <<ProxySpan(c, from, to)>> ELSE <<>>
DevStart(s) ==
    /\ MayStart(s) /\ Head(queue[s]).kind \in Works
    /\ now' = now + 1 /\ running' = [running EXCEPT ![s] = [item |-> Head(queue[s]), start |-> now']] /\ Pop(s)
    /\ UNCHANGED <<program, pc, call, spans, who, msgVars, happened, born, critical, ranges>>
DevEnd(s) ==
    /\ running[s] # Nowhere
    /\ now' = now + 1 /\ running' = [running EXCEPT ![s] = Nowhere]
    /\ LET c == running[s].item.call IN Record(c, "device", DeviceRecords(c, running[s].start, now'), running[s].start)
    /\ UNCHANGED <<program, pc, call, msgVars, queue, happened, critical, ranges>>
DevMarker(s) ==
    /\ MayStart(s) /\ Head(queue[s]).kind \in {"record", "streamwait"} /\ Pop(s)
    /\ happened' = happened \cup {Head(queue[s]).call}
    /\ UNCHANGED <<program, pc, call, now, spans, who, msgVars, running, born, critical, ranges>>

(***************************************************************************)
(* The calls.                                                              *)
(***************************************************************************)
Submits == Works \cup {"record", "streamwait"}
\* OpenMP: the threads of a process with a parallel region open; its
\* implicit tasks begin once it is, and it ends after they have.
Masters(p) == {th \in Threads : th[1] = p /\ ranges[th] # <<>>}
TasksDone(p) == \A th \in {t \in Threads : t[1] = p} : \A k \in pc[th] .. Len(Script(th)) : Script(th)[k].op # "task"
Begin(th) ==
    LET c == <<th, pc[th]>>
        o == OpAt(c)
    IN /\ pc[th] <= Len(Script(th)) /\ call[th] = Nowhere /\ (o.op = "task" => Masters(th[1]) # {})
       /\ now' = now + 1 /\ call' = [call EXCEPT ![th] = <<now'>>]
       /\ IF o.op \in {"send", "isend"} THEN wire' = [wire EXCEPT ![<<th[1], o.peer>>] = Append(@, c)] /\ UNCHANGED <<posted, arrived, match>>
          ELSE IF o.op \in {"recv", "irecv"} THEN Post(c) ELSE UNCHANGED msgVars
       /\ IF o.op \in Submits THEN queue' = [queue EXCEPT ![<<th[1], o.stream>>] = Append(@, Submission(c))] ELSE UNCHANGED queue
       /\ UNCHANGED <<program, pc, spans, who, running, happened, born, critical, ranges>>
MayReturn(c) ==
    LET o == OpAt(c)
        p == c[1][1]
    IN CASE o.op = "recv" -> c \in DOMAIN match
         [] o.op \in {"wait", "test"} -> \A r \in o.req : LET q == PostOf(c[1], c[2], r) IN OpAt(q).op = "irecv" => q \in DOMAIN match
         [] o.op = "barrier" -> \A q \in Processes : Entered(q, "barrier") >= Entered(p, "barrier")
         [] o.op = "bcast" -> Entered(o.root, "bcast") >= Entered(p, "bcast")
         [] o.op = "copy" -> c \notin {i.call : i \in OfProcess(p)}
         [] o.op = "sync" -> OfProcess(p) = {}
         [] o.op = "syncstream" -> Items(<<p, o.stream>>) = {}
         [] o.op = "lock" -> critical = Nowhere
         [] o.op = "join" -> TasksDone(p)
         [] OTHER -> TRUE

Mpi(c, type) == [type |-> type, rank |-> Name(c[1][1]), commid |-> "0"]
Peer(n, tag) == [peer |-> Name(n), wpeer |-> Name(n), tag |-> tag]
AnySource(c) == IF OpAt(c).peer = 0 THEN [wildcard |-> "1"] ELSE <<>>
Host(c, type, op) == [type |-> type, op |-> op, side |-> "cpu", rt |-> "cuda", timing |-> "host", lid |-> Name(c[2])]
\* What MPI_Status says of a wildcard receive's message, per request.
Statuses(c) ==
    LET of(r) == match[PostOf(c[1], c[2], r)]
        told == {r \in OpAt(c).req : OpAt(PostOf(c[1], c[2], r)).op = "irecv" /\ OpAt(PostOf(c[1], c[2], r)).peer = 0}
        one == CHOOSE r \in told : TRUE
    IN IF told = {} THEN <<>>
       ELSE IF Cardinality(OpAt(c).req) = 1 THEN [rpeer |-> Name(of(one)[1][1]), rtag |-> OpAt(of(one)).tag, rwpeer |-> Name(of(one)[1][1])]
       ELSE [rmatches |-> [r \in told |-> <<Name(of(r)[1][1]), OpAt(of(r)).tag, Name(of(r)[1][1])>>]]
TagsOf(c) ==
    LET o == OpAt(c)
    IN CASE o.op \in {"send", "isend"} -> Mpi(c, o.op) @@ Peer(o.peer, o.tag)
         [] o.op = "recv" -> Mpi(c, o.op) @@ Peer(match[c][1][1], OpAt(match[c]).tag) @@ AnySource(c)
         [] o.op = "irecv" -> Mpi(c, o.op) @@ AnySource(c) @@ IF o.peer = 0 THEN [peer |-> "-1", tag |-> o.tag] ELSE Peer(o.peer, o.tag)
         [] o.op = "wait" -> Mpi(c, IF Cardinality(o.req) = 1 THEN "wait" ELSE "waitall") @@ Statuses(c)
         [] o.op = "barrier" -> Mpi(c, o.op)
         [] o.op = "bcast" -> Mpi(c, o.op) @@ [wroot |-> Name(o.root)]
         [] o.op = "launch" -> Host(c, "launch", "kernel") @@ [stream |-> o.stream, corr |-> CorrOf(c)]
         [] o.op = "copy" -> Host(c, "memcpy", "memcpy") @@ [stream |-> o.stream, corr |-> CorrOf(c), blocking |-> "1"]
         [] o.op = "record" -> Host(c, "event_record", "event_record") @@ [event |-> o.event, stream |-> o.stream]
         [] o.op = "streamwait" -> Host(c, "stream_wait", "stream_wait") @@ [event |-> o.event, stream |-> o.stream]
         [] o.op = "sync" -> Host(c, "sync", "sync") @@ [sync |-> "device"]
         [] o.op = "syncstream" -> Host(c, "sync", "sync") @@ [sync |-> "stream", stream |-> o.stream]
         [] o.op = "pop" -> [type |-> "nvtx_range"]
         [] o.op = "join" -> [type |-> "parallel"]
         [] o.op = "task" -> [type |-> "implicit_task"]
         [] o.op = "lock" -> [type |-> "sync"]
         [] o.op = "unlock" -> [type |-> "critical"]
         [] OTHER -> <<>>
CudaOps == Submits \cup {"sync", "syncstream"}
MpiOps == {"send", "isend", "recv", "irecv", "wait", "barrier", "bcast"}
CatOf(o) == CASE o.op \in MpiOps -> "mpi" [] o.op \in {"sync", "syncstream", "lock"} -> "sync" [] o.op \in {"unlock", "join", "task"} -> "openmp" [] o.op = "pop" -> "nvtx" [] o.op = "copy" -> "memory" [] OTHER -> "cuda"
NameOf(o) == CASE o.op = "wait" -> IF Cardinality(o.req) = 1 THEN "MPI_Wait" ELSE "MPI_Waitall"
               [] o.op = "lock" -> "omp_critical_wait" [] o.op = "unlock" -> "omp_critical_hold"
               [] o.op = "join" -> "parallel_region" [] o.op = "task" -> "omp_implicit_task"
               [] o.op = "sync" -> "cudaDeviceSynchronize" [] o.op = "syncstream" -> "cudaStreamSynchronize" [] OTHER -> o.op
\* Ranges are told apart by when they began.
RangeId(since) == "r" \o Name(since)
\* A CUDA call is in the innermost range open on its thread.
InRange(th) == IF ranges[th] = <<>> THEN <<>> ELSE <<RangeId(Last(ranges[th]))>>
HostSpan(c, from, to) ==
    LET o == OpAt(c)
    IN [cat |-> CatOf(o), name |-> NameOf(o), pid |-> c[1][1], tid |-> c[1][2], start |-> from + program.skew[c[1][1]], dur |-> to - from,
        sid |-> CASE o.op \in {"isend", "irecv"} -> o.req [] o.op \in CudaOps -> Name(c[2]) [] o.op \in {"pop", "join"} -> RangeId(from) [] OTHER -> None,
        psid |-> CASE o.op = "wait" -> SetToSeq(o.req) [] o.op \in CudaOps -> InRange(c[1])
                  [] o.op = "task" -> InRange(CHOOSE th \in Masters(c[1][1]) : TRUE) [] OTHER -> <<>>,
        stack |-> IF "at" \in DOMAIN o THEN o.at ELSE <<>>, tags |-> TagsOf(c) @@ NodeTag(c[1][1])]
\* A call that was open returns; the end of a critical section is the span
\* of having held it, that of a range or region the span since its begin.
Complete(th) ==
    LET c == <<th, pc[th]>>
        from == CASE OpAt(c).op = "unlock" -> critical[2] [] OpAt(c).op \in {"pop", "join"} -> Last(ranges[th]) [] OTHER -> call[th][1]
    IN /\ call[th] # Nowhere /\ MayReturn(c)
       /\ now' = now + (IF OpAt(c).op = "pause" THEN PauseNs ELSE 1) /\ pc' = [pc EXCEPT ![th] = @ + 1] /\ call' = [call EXCEPT ![th] = Nowhere]
       /\ Record(c, "call", <<HostSpan(c, from, now')>>, from)
       /\ critical' = IF OpAt(c).op = "lock" THEN <<th, now'>> ELSE IF OpAt(c).op = "unlock" THEN Nowhere ELSE critical
       /\ ranges' = [ranges EXCEPT ![th] = IF OpAt(c).op \in {"push", "fork"} THEN Append(@, call[th][1]) ELSE IF OpAt(c).op \in {"pop", "join"} THEN Front(@) ELSE @]
       /\ UNCHANGED <<program, msgVars, devVars>>

Finished == (\A th \in Threads : pc[th] > Len(Script(th))) /\ \A s \in DOMAIN queue : Items(s) = {}
Next ==
    \/ \E th \in Threads : Begin(th) \/ Complete(th)
    \/ \E c \in DOMAIN wire : Deliver(c[1], c[2])
    \/ \E s \in DOMAIN queue : DevStart(s) \/ DevEnd(s) \/ DevMarker(s)
Spec == Init /\ [][Next]_vars
=============================================================================
