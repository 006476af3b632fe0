----------------------------- MODULE HostEdges -----------------------------
(***************************************************************************)
(* Dependency edges within a process (src/analysis/criticalpath.py and     *)
(* semantics/openmp.py, semantics/opencl.py): program order, the streams   *)
(* of traces without a host/device split, explicit span ids, OpenMP tasks  *)
(* and locks, OpenCL command queues.                                       *)
(***************************************************************************)
EXTENDS SpanTags

CONSTANT HandoffTolerance    \* HANDOFF_TOLERANCE_NS

GpuCats == {"cuda", "rocm"}
DeviceSyncNames == {"cudaDeviceSynchronize", "hipDeviceSynchronize", "cuCtxSynchronize"}
NamedGpu(s) == s.name = "copy_gpu"        \* stands for the names that end with _gpu
OffHostThread(s) == IsDeviceSpan(s) \/ Tag(s, "side") = "gpu" \/ (NamedGpu(s) /\ s.cat = "memory")
OnThread(s) == ~OffHostThread(s) /\ ~IsAnnotation(s)
ThreadOf(s) == <<s.pid, s.tid>>

(***************************************************************************)
(* Program order: each span after the latest one its thread completed,     *)
(* the outermost on a tie.  pending holds the spans not yet passed.        *)
(***************************************************************************)
LaterDone(spans, a, b) ==
    \/ EndOf(spans[a]) > EndOf(spans[b])
    \/ EndOf(spans[a]) = EndOf(spans[b]) /\ spans[a].start < spans[b].start
    \/ EndOf(spans[a]) = EndOf(spans[b]) /\ spans[a].start = spans[b].start /\ a > b
OrderStep(spans, st, b) ==
    LET done == {i \in st.pending : EndOf(spans[i]) <= spans[b].start}
        cands == done \cup st.best
        best == {a \in cands : \A c \in cands \ {a} : LaterDone(spans, a, c)}
    IN [best |-> best, pending |-> (st.pending \ done) \cup {b},
        edges |-> st.edges \cup {Edge(b, a, "sequential", "certain") : a \in best}]
ThreadOrder(spans, S) ==
    FoldLeft(LAMBDA st, b : OrderStep(spans, st, b), [best |-> {}, pending |-> {}, edges |-> {}],
             Ordered(S, LAMBDA a, b : Before(spans, a, b))).edges
ProgramOrderEdges(spans) ==
    LET on == {i \in DOMAIN spans : OnThread(spans[i])}
    IN UNION {ThreadOrder(spans, {i \in on : ThreadOf(spans[i]) = th}) : th \in {ThreadOf(spans[i]) : i \in on}}

(***************************************************************************)
(* Traces from before the host/device split.                               *)
(***************************************************************************)
StreamOrderEdges(spans) ==
    LET on == {i \in DOMAIN spans : /\ ~IsNewFormat(spans[i]) /\ spans[i].cat \in GpuCats \cup {"sync"} /\ Has(spans[i], "stream")}
        key(i) == <<spans[i].pid, spans[i].tags.stream>>
    IN UNION {{Edge(p[2], p[1], "sequential", "certain") :
                 p \in Consecutive({i \in on : key(i) = k}, LAMBDA a, b : Before(spans, a, b))} : k \in {key(i) : i \in on}}
\* A device-wide sync waits for what was issued since the previous one ended.
DeviceSyncEdges(spans) ==
    LET old == {i \in DOMAIN spans : ~IsNewFormat(spans[i])}
        gpu(pid) == {i \in old : spans[i].cat \in GpuCats /\ spans[i].pid = pid}
        syncs(pid) == {i \in old : spans[i].cat = "sync" /\ spans[i].name \in DeviceSyncNames /\ spans[i].pid = pid}
        previous(s) == {p[1] : p \in {q \in Consecutive(syncs(spans[s].pid), LAMBDA a, b : Before(spans, a, b)) : q[2] = s}}
    IN UNION {UNION {{Edge(s, g, "device_sync", "certain") :
                        g \in {h \in gpu(pid) : /\ spans[h].start < spans[s].start
                                                /\ \A p \in previous(s) : spans[h].start >= EndOf(spans[p])}}
                     : s \in syncs(pid)} : pid \in {spans[i].pid : i \in old}}

(***************************************************************************)
(* Explicit ids: a parent id is looked up in the child's own process, then *)
(* in the only process that carries it.                                    *)
(***************************************************************************)
Carriers(spans, id) == {i \in DOMAIN spans : spans[i].sid = id /\ ~IsAnnotation(spans[i])}
Lookup(spans, i, id) ==
    LET all == Carriers(spans, id)
        own == {j \in all : spans[j].pid = spans[i].pid}
    IN IF own # {} THEN Resolve(spans, own, spans[i].start, IdFamily(spans[i]))
       ELSE IF Cardinality({spans[j].pid : j \in all}) = 1 THEN {Max(all)} ELSE {}
ExplicitIdEdges(spans) ==
    UNION {UNION {{Edge(i, p, "explicit_span_id", "certain") : p \in Lookup(spans, i, id) \ {i}} : id \in Range(spans[i].psid)}
           : i \in {j \in DOMAIN spans : ~IsDeviceSpan(spans[j]) /\ ~IsAnnotation(spans[j])}}

(***************************************************************************)
(* OpenMP tasks: deps is a set of [pid, src, sink].                        *)
(***************************************************************************)
Execs(spans, pid, id) == {i \in DOMAIN spans : /\ spans[i].pid = pid /\ spans[i].cat = "openmp" /\ spans[i].name = "omp_task"
                                               /\ Tag(spans[i], "id") = id}
Completion(spans, pid, id) == LET e == Execs(spans, pid, id) IN IF e = {} THEN {} ELSE {LatestBy(e, LAMBDA j : EndOf(spans[j]))}
First(spans, pid, id) == LET e == Execs(spans, pid, id) IN IF e = {} THEN {} ELSE {EarliestBy(e, LAMBDA j : spans[j].start)}
Creations(spans, pid) ==
    {i \in DOMAIN spans : /\ spans[i].pid = pid /\ spans[i].cat = "openmp" /\ Tag(spans[i], "type") = "task_create"
                          /\ Has(spans[i], "id") /\ Has(spans[i], "parent")}
Children(spans, pid, parent) == {i \in Creations(spans, pid) : spans[i].tags.parent = parent}
Descendants(spans, pid, ids) ==
    LET grow(S) == S \cup {spans[i].tags.id : i \in {j \in Creations(spans, pid) : spans[j].tags.parent \in S}}
    IN FoldLeft(LAMBDA S, k : grow(S), ids, [k \in 1 .. Cardinality(Creations(spans, pid)) |-> k])
\* taskwait: the children created before it; taskgroup: the tasks created
\* in it and all their descendants.
WaitedFor(spans, j) ==
    LET s == spans[j]
        mine == Children(spans, s.pid, s.tags.task)
    IN IF s.name = "omp_taskwait" THEN {spans[i].tags.id : i \in {k \in mine : spans[k].start < s.start}}
       ELSE Descendants(spans, s.pid, {spans[i].tags.id : i \in {k \in mine : spans[k].start \in s.start .. EndOf(s)}})
TaskEdges(spans, deps) ==
    UNION {UNION {{Edge(j, k, "task_join", "certain") : k \in Completion(spans, spans[j].pid, id) \ {j}} : id \in WaitedFor(spans, j)}
           : j \in {i \in DOMAIN spans : /\ spans[i].cat = "sync" /\ spans[i].name \in {"omp_taskwait", "omp_taskgroup"}
                                         /\ Has(spans[i], "task")}}
    \cup UNION {{Edge(b, a, "task_dep", "certain") :
                   <<a, b>> \in {p \in Completion(spans, d.pid, d.src) \X First(spans, d.pid, d.sink) : p[1] # p[2]}} : d \in deps}

(***************************************************************************)
(* Locks: a contended acquisition ends when another thread's hold of the   *)
(* lock did.                                                               *)
(***************************************************************************)
LockOf(s) ==
    CASE Has(s, "mutex") /\ Has(s, "wait_id") -> <<s.pid, s.tags.mutex, s.tags.wait_id>>
      [] Has(s, "mutex") /\ ~Has(s, "wait_id") /\ Has(s, "lock") -> <<s.pid, s.tags.mutex, s.tags.lock>>
      [] ~Has(s, "mutex") /\ s.name \in {"omp_critical_wait", "omp_critical_hold"} /\ ~Has(s, "named") -> <<s.pid, "critical", "unnamed">>
      [] OTHER -> <<>>
IsHold(s) == s.name = "omp_critical_hold" \/ Tag(s, "type") = "hold"
IsLockWait(s) == ~IsHold(s) /\ s.name = "omp_critical_wait"
LockEdges(spans) ==
    UNION {LET s == spans[w]
               others == {h \in DOMAIN spans : /\ LockOf(spans[h]) = LockOf(s) /\ IsHold(spans[h]) /\ spans[h].tid # s.tid
                                               /\ EndOf(spans[h]) <= EndOf(s) + HandoffTolerance}
               last == IF others = {} THEN {} ELSE {LastBy(others, LAMBDA h : EndOf(spans[h]))}
           IN {Edge(w, h, "lock_order", "high") :
                 h \in {g \in last : EndOf(spans[g]) >= s.start /\ EndOf(s) - EndOf(spans[g]) <= HandoffTolerance}}
           : w \in {i \in DOMAIN spans : LockOf(spans[i]) # <<>> /\ IsLockWait(spans[i])}}

(***************************************************************************)
(* OpenCL queues.  wait= is the parsed sequence of event ids.              *)
(***************************************************************************)
ClWaits(s) == IF Has(s, "wait") THEN s.tags.wait ELSE <<>>
IsClDevice(s) == Tag(s, "side") = "gpu" \/ NamedGpu(s)
ClCats == {"opencl", "memory", "sync"}
Calls(spans, pid) == {i \in DOMAIN spans : /\ spans[i].pid = pid /\ spans[i].cat \in ClCats /\ ~IsClDevice(spans[i]) /\ Has(spans[i], "queue")
                                           /\ ~(spans[i].cat = "sync" /\ (spans[i].name = "clFinish" \/ (spans[i].name = "clWaitForEvents" /\ Has(spans[i], "nwait"))))}
ClWork(spans, pid, sid) ==
    LET d == {i \in DOMAIN spans : /\ spans[i].pid = pid /\ spans[i].cat \in ClCats /\ IsClDevice(spans[i]) /\ Has(spans[i], "queue")
                                   /\ sid # None /\ spans[i].psid = <<sid>>}
    IN IF d = {} THEN {} ELSE {Max(d)}
Kind(s) == IF Tag(s, "type") \in {"marker", "barrier"} THEN s.tags.type ELSE "command"
OutOfOrder(spans, pid) == {spans[i].tags.queue : i \in {j \in Calls(spans, pid) : Tag(spans[j], "ooo") = "1"}}
Resolved1(spans, pid, done, ev) ==
    LET src == {i \in Calls(spans, pid) : Tag(spans[i], "ev") = ev}
        dev == IF src = {} THEN {} ELSE ClWork(spans, pid, spans[Max(src)].sid)
    IN IF src = {} THEN {} ELSE IF dev # {} THEN dev ELSE IF ev \in DOMAIN done THEN done[ev] ELSE {}
LatestEnd(spans, S) == IF S = {} THEN {} ELSE {LatestBy(S, LAMBDA j : EndOf(spans[j]))}

\* One call of a queue; st is [last, barrier, since, done, edges].
QueueStep(spans, in_order, st, i) ==
    LET s == spans[i]
        waits == UNION {Resolved1(spans, s.pid, st.done, ev) : ev \in Range(ClWaits(s))}
        pre == IF ClWaits(s) # <<>> THEN waits \cup (IF in_order THEN st.last ELSE {})
               ELSE IF in_order THEN st.last ELSE st.since \cup st.barrier
        m == LatestEnd(spans, pre)
        dev == ClWork(spans, s.pid, s.sid)
        sources == waits \cup (IF in_order THEN st.last ELSE st.barrier)
    IN IF Kind(s) # "command"
       THEN [st EXCEPT !.done = IF Has(s, "ev") THEN (s.tags.ev :> m) @@ @ ELSE @,
                       !.last = IF in_order /\ m # {} THEN m ELSE @,
                       !.barrier = IF ~in_order /\ Kind(s) = "barrier" /\ m # {} THEN m ELSE @,
                       !.since = IF ~in_order /\ Kind(s) = "barrier" THEN {} ELSE @]
       ELSE [st EXCEPT !.edges = @ \cup (IF dev # {} THEN UNION {{Edge(d, j, "sequential", "certain") : j \in sources \ {d}} : d \in dev}
                                         ELSE IF Tag(s, "blocking") = "1" THEN {Edge(i, j, "device_wait", "certain") : j \in sources} ELSE {}),
                       !.last = IF in_order /\ dev # {} THEN dev ELSE @, !.since = @ \cup dev]
QueueWalk(spans, pid, q, done) ==
    FoldLeft(LAMBDA st, i : QueueStep(spans, q \notin OutOfOrder(spans, pid), st, i),
             [last |-> {}, barrier |-> {}, since |-> {}, done |-> done, edges |-> {}],
             Ordered({i \in Calls(spans, pid) : spans[i].tags.queue = q}, LAMBDA a, b : Before(spans, a, b)))
\* Two passes settle what markers stand for across queues, a third emits.
\* Two passes settle which event an id names, the last one takes the edges.
ClPass(spans, pid, queues, done) == FoldLeft(LAMBDA d, q : QueueWalk(spans, pid, q, d).done, done, queues)
ClStep(st, w) == [done |-> w.done, edges |-> st.edges \cup w.edges]
ClFinal(spans, pid, queues) ==
    FoldLeft(LAMBDA st, q : ClStep(st, QueueWalk(spans, pid, q, st.done)),
             [done |-> ClPass(spans, pid, queues, ClPass(spans, pid, queues, <<>>)), edges |-> {}], queues)
ClWaitEdges(spans, pid, final) ==
    LET of(name, tag) == {i \in DOMAIN spans : /\ spans[i].pid = pid /\ spans[i].cat = "sync" /\ spans[i].name = name /\ Has(spans[i], tag)
                                               /\ ~IsClDevice(spans[i])}
        enqueued(f) == UNION {ClWork(spans, pid, spans[i].sid) :
                                i \in {c \in Calls(spans, pid) : spans[c].tags.queue = spans[f].tags.queue /\ spans[c].start <= spans[f].start}}
    IN final.edges
       \cup UNION {{Edge(f, j, "device_wait", "certain") : j \in LatestEnd(spans, enqueued(f))} : f \in of("clFinish", "queue")}
       \cup UNION {{Edge(w, j, "device_wait", "certain") : j \in UNION {Resolved1(spans, pid, final.done, ev) : ev \in Range(ClWaits(spans[w]))}}
                   : w \in of("clWaitForEvents", "nwait")}
ClProcessEdges(spans, pid) == ClWaitEdges(spans, pid, ClFinal(spans, pid, SetToSeq({spans[i].tags.queue : i \in Calls(spans, pid)})))
OpenClEdges(spans) == UNION {ClProcessEdges(spans, pid) : pid \in {spans[i].pid : i \in DOMAIN spans}}

(***************************************************************************)
(* semantics.blocking_wait: calls that wait for another lane.              *)
(***************************************************************************)
MpiBlockingTypes == {"recv", "sendrecv", "ssend", "wait", "waitall", "waitany", "waitsome", "probe", "allreduce", "bcast", "reduce",
                     "alltoall", "allgather", "scatter", "gather", "barrier", "scan"}
SyncCalls == DeviceSyncNames \cup {"cudaStreamSynchronize", "cudaEventSynchronize", "clFinish", "clWaitForEvents"}
BlockingWait(s) ==
    /\ Tag(s, "side") # "gpu"
    /\ \/ s.cat = "mpi" /\ Tag(s, "type") \in MpiBlockingTypes
       \/ s.cat = "sync" /\ IF s.name \in OmpNames THEN s.name # "omp_critical_hold"
                            ELSE s.name \in SyncCalls \/ Tag(s, "type") = "sync"
=============================================================================
