---------------------------- MODULE Dependencies ----------------------------
(***************************************************************************)
(* The dependency graph of a trace and the span-level longest path over it *)
(* (src/analysis/criticalpath.py).  facts is what the builders read beside *)
(* the spans: [health, exact, deps] (capture health, the exact-match rule, *)
(* OpenMP task dependences).  Edges form a set: where the code keeps the   *)
(* same edge twice nothing below depends on it.                            *)
(***************************************************************************)
EXTENDS MessageEdges, HostEdges, GpuEdges

Pids(spans) == {spans[i].pid : i \in DOMAIN spans}
LossOf(spans, facts, hooks) == EventLossPids(facts.health, hooks, Pids(spans))
\* GpuEdges takes the processes themselves.
GpuLoss(spans, facts) == LET l == LossOf(spans, facts, {"cuda", "rocm"}) IN IF l = AllProcesses THEN Pids(spans) ELSE l
SemanticEdges(spans, deps) == TaskEdges(spans, deps) \cup LockEdges(spans) \cup OpenClEdges(spans)

\* build_dependency_graph: every builder over all spans.
BuildDependencyGraph(spans, facts) ==
    ProgramOrderEdges(spans) \cup StreamOrderEdges(spans) \cup DeviceSyncEdges(spans)
    \cup DeviceEdges(spans, GpuLoss(spans, facts)) \cup ExplicitIdEdges(spans)
    \cup P2PEdges(spans, LossOf(spans, facts, {"mpi"}), facts.exact) \cup MpiRendezvousEdges(spans)
    \cup NcclEdges(spans, LossOf(spans, facts, {"nccl"})) \cup OmpBarrierEdges(spans)
    \cup SemanticEdges(spans, facts.deps)

\* build_edges: the builders that stay within a process see one at a time,
\* and of it what the store's query selects.
Of(spans, P(_)) == Subset(spans, {i \in DOMAIN spans : P(spans[i])})
LegacyGpu(spans, pid) ==
    Of(spans, LAMBDA s : /\ s.pid = pid /\ ~IsNewFormat(s)
                         /\ s.cat \in GpuCats \/ (s.cat = "sync" /\ (Has(s, "stream") \/ s.name \in DeviceSyncNames)))
WithIdsOwn(s) == s.sid # None
WithIds(s) == s.sid # None \/ s.psid # <<>>
ProcessEdges(spans, facts, pid) ==
    LET old == LegacyGpu(spans, pid)
        omp == Of(spans, LAMBDA s : s.pid = pid /\ s.cat \in {"openmp", "sync"})
    IN StreamOrderEdges(old) \cup DeviceSyncEdges(old)
       \cup DeviceEdges(Of(spans, LAMBDA s : s.pid = pid /\ IsNewFormat(s)), GpuLoss(spans, facts))
       \cup OmpBarrierEdges(Of(spans, LAMBDA s : s.pid = pid /\ s.cat = "sync"))
       \cup TaskEdges(omp, {d \in facts.deps : d.pid = pid}) \cup LockEdges(omp)
       \cup OpenClEdges(Of(spans, LAMBDA s : s.pid = pid /\ s.cat \in ClCats))
CompactEdges(mpi, loss, exact) == P2PEdges(mpi, loss, exact) \cup MpiRendezvousEdges(mpi)
BuildEdges(spans, facts) ==
    LET threads == {ThreadOf(spans[i]) : i \in DOMAIN spans}
    IN UNION {ThreadOrder(spans, {i \in DOMAIN spans : ThreadOf(spans[i]) = th /\ OnThread(spans[i])}) : th \in threads}
       \cup UNION {ProcessEdges(spans, facts, pid) : pid \in Pids(spans)}
       \cup ExplicitIdEdges(Of(spans, WithIds))
       \cup CompactEdges(Of(spans, IsMpi), LossOf(spans, facts, {"mpi"}), facts.exact)
       \cup NcclEdges(Of(spans, IsNccl), LossOf(spans, facts, {"nccl"}))

\* load_comm_graph: the connectors the Timeline draws.
CommEdges(edges) == {e \in edges : e.kind \in {"p2p", "arrival"}}

(***************************************************************************)
(* The longest path over spans.  An edge gives [gate, limit, gap]: it      *)
(* holds when gate <= limit, and gap is the time before dst it accounts.   *)
(***************************************************************************)
EndGated == {"sequential", "device_sync", "explicit_span_id"}
OverlapKinds == {"launch", "device_wait"}
GapAndGate(spans, e) ==
    LET u == spans[e.src]
        v == spans[e.dst]
    IN CASE e.kind \in EndGated -> [gate |-> EffectiveEnd(u), limit |-> EffectiveStart(v),
                                    gap |-> Max({0, EffectiveStart(v) - EffectiveEnd(u)})]
         [] e.kind = "launch" -> [gate |-> u.start, limit |-> EffectiveStart(v) + ClockTolerance, gap |-> EffectiveStart(v) - EndOf(u)]
         [] e.kind = "device_wait" -> [gate |-> EffectiveEnd(u), limit |-> EndOf(v) + ClockTolerance, gap |-> v.start - EffectiveEnd(u)]
         [] OTHER -> [gate |-> EffectiveStart(u), limit |-> EffectiveEnd(v), gap |-> 0]
\* Kahn's algorithm: nodes in an order that respects the edges, as far as
\* there is one; the order among free nodes decides nothing.
TopoOrder(nodes, edges) ==
    FoldLeft(LAMBDA order, k :
               LET free == {v \in nodes \ Range(order) : \A e \in edges : e.dst = v => e.src \in Range(order)}
               IN IF free = {} THEN order ELSE Append(order, Min(free)),
             <<>>, [k \in 1 .. Cardinality(nodes) |-> k])

Holds(spans, e) == LET g == GapAndGate(spans, e) IN g.gate <= g.limit /\ ~IsAnnotation(spans[e.src])
\* The choice at v: the edge with the most accounted time, where it beats
\* v alone; among equals in the host/device model, the one whose source
\* finished last.
PathChoice(spans, edges, acc, v) ==
    LET held == {e \in edges : e.dst = v /\ Holds(spans, e)}
        value(e) == acc[e.src] + GapAndGate(spans, e).gap + spans[v].dur
        top == Max({value(e) : e \in held})
        best == {e \in held : value(e) = top}
        late == Max({EffectiveEnd(spans[e.src]) : e \in best})
        gpu == IsNewFormat(spans[v]) \/ \E e \in best : e.kind \in OverlapKinds
    IN IF held = {} \/ top <= spans[v].dur THEN [acc |-> spans[v].dur, by |-> {}]
       ELSE [acc |-> top, by |-> IF gpu THEN {e \in best : EffectiveEnd(spans[e.src]) = late} ELSE best]
LongestSpans(spans, edges) ==
    FoldLeft(LAMBDA st, v : IF IsAnnotation(spans[v]) THEN st
                            ELSE LET c == PathChoice(spans, edges, st.acc, v)
                                 IN [acc |-> [st.acc EXCEPT ![v] = c.acc], by |-> [st.by EXCEPT ![v] = c.by]],
             [acc |-> [i \in DOMAIN spans |-> 0], by |-> [i \in DOMAIN spans |-> {}]],
             TopoOrder(DOMAIN spans, edges))
\* A path of the longest-path search, from its last span backwards; one of
\* the ties is followed.
DpPath(spans, edges) ==
    LET st == LongestSpans(spans, edges)
        ends == {i \in DOMAIN spans : ~IsAnnotation(spans[i])}
        back(path) == IF st.by[path[1]] = {} THEN path ELSE <<(CHOOSE e \in st.by[path[1]] : TRUE).src>> \o path
    IN IF ends = {} THEN <<>>
       ELSE FoldLeft(LAMBDA p, k : back(p), <<LatestBy(ends, LAMBDA i : st.acc[i])>>, [k \in 1 .. Cardinality(ends) |-> k])
\* The fallback for a graph with a cycle: backwards by the latest gate.
GreedyPath(spans, edges) ==
    LET ends == {i \in DOMAIN spans : ~IsAnnotation(spans[i])}
        back(path) == LET c == {e \in edges : e.dst = path[1] /\ e.src \notin Range(path) /\ Holds(spans, e)}
                          gate(e) == GapAndGate(spans, e).gate
                      IN IF c = {} THEN path
                         ELSE <<(CHOOSE e \in c : \A f \in c : gate(f) <= gate(e)).src>> \o path
    IN IF ends = {} THEN <<>>
       ELSE FoldLeft(LAMBDA p, k : back(p), <<LatestBy(ends, LAMBDA i : EndOf(spans[i]))>>, [k \in 1 .. Cardinality(ends) |-> k])
SpanPath(spans, edges) ==
    IF Len(TopoOrder(DOMAIN spans, edges)) = Cardinality(DOMAIN spans) THEN DpPath(spans, edges) ELSE GreedyPath(spans, edges)

\* attribute_blame: what each span of a path adds beyond the latest end so
\* far; own and gap per position, waits by the category waited for.
BlameAlong(spans, path) ==
    FoldLeft(LAMBDA st, i :
               LET s == spans[i]
                   first == st.own = <<>>
                   gap == IF first THEN 0 ELSE Max({0, s.start - st.front})
                   own == IF first THEN s.dur ELSE Max({0, EndOf(s) - Max({s.start, st.front})})
               IN [own |-> Append(st.own, own), gap |-> Append(st.gap, gap), total |-> st.total + gap + own,
                   front |-> IF first THEN EndOf(s) ELSE Max({st.front, EndOf(s)})],
             [own |-> <<>>, gap |-> <<>>, total |-> 0, front |-> 0], path)
WallNs(spans) ==
    LET timed == {i \in DOMAIN spans : spans[i].dur > 0}
    IN IF timed = {} THEN 1
       ELSE Max({1, Max({EndOf(spans[i]) : i \in timed}) - Min({spans[i].start : i \in timed})})
\* Path time inside each annotation range open on the step's thread.
AnnotationTime(spans, path, b) ==
    LET ranges == {i \in DOMAIN spans : IsAnnotation(spans[i]) /\ spans[i].dur > 0}
        inside(r) == {k \in DOMAIN path : /\ ThreadOf(spans[path[k]]) = ThreadOf(spans[r])
                                          /\ spans[r].start <= spans[path[k]].start /\ spans[path[k]].start < EndOf(spans[r])}
    IN [name \in {spans[r].name : r \in ranges} |->
          FoldSet(LAMBDA r, n : n + FoldSet(LAMBDA k, m : m + b.own[k] + b.gap[k], 0, inside(r)), 0,
                  {r \in ranges : spans[r].name = name})]
\* serialization_efficiency_from_path as <<numerator, denominator>>; kinds[k]
\* is the kind of the step that reached path[k + 1].
SerializationEfficiency(spans, path, own, gap, kinds, comm) ==
    LET total == FoldSet(LAMBDA i, n : n + spans[i].dur, 0, comm)
        at(i) == {k \in DOMAIN path : path[k] = i}
        on(i) == FoldSet(LAMBDA k, n : n + own[k] + (IF k > 1 /\ kinds[k - 1] \in {"p2p", "arrival"} THEN gap[k] ELSE 0), 0, at(i))
    IN IF total <= 0 THEN <<>> ELSE <<FoldSet(LAMBDA i, n : n + Min({spans[i].dur, on(i)}), 0, comm), total>>
=============================================================================
