----------------------------- MODULE EventGraph -----------------------------
(***************************************************************************)
(* The event-point graph of the critical path (src/analysis/cp_model.py)   *)
(* and the clocks its timestamps come from (src/analysis/cp_clock.py).     *)
(*                                                                         *)
(* Span i has the nodes Start(i) and Fin(i).  An edge is [src, dst, mode,  *)
(* kind, prov, conf, owner, tol, d, whi]: d is the observed time between   *)
(* its events, whi the most of it that may be required.  A graph is        *)
(* [spans, t, nodes, edges, gated, release, clock, order].                 *)
(***************************************************************************)
EXTENDS Dependencies

Infinite == 1000000          \* math.inf
Plus(a, b) == IF a >= Infinite \/ b >= Infinite THEN Infinite ELSE a + b

Start(i) == 2 * i
Fin(i) == 2 * i + 1
SpanOf(v) == v \div 2
IsFin(v) == v % 2 = 1

IsDeviceTimedSpan(s) ==
    IF Tag(s, "side") \in {"gpu", "cpu"} THEN Tag(s, "side") = "gpu"
    ELSE NamedGpu(s) \/ Tag(s, "type") = "memcpy_async" \/ s.cat \in {"cuda", "rocm", "opencl", "nccl"}
\* Labels, perf samples and scheduler states are not calls.
Excluded(s) == IsAnnotation(s) \/ s.cat \in {"cpu", "sched"}
OnLane(s) == ~Excluded(s) /\ ~IsDeviceTimedSpan(s)
SameLane(a, b) == OnLane(a) /\ OnLane(b) /\ ThreadOf(a) = ThreadOf(b)
QueueOf(s) ==
    IF Has(s, "queue") /\ ~Has(s, "rt") THEN <<s.pid, "opencl", s.tags.queue, None>>
    ELSE <<s.pid, IF Has(s, "rt") THEN s.tags.rt ELSE s.cat, Tag(s, "stream"), Tag(s, "dev")>>
ResolvedWildcard(s) == IsMpi(s) /\ (Has(s, "rpeer") \/ Has(s, "rmatches"))
RootFlow(s) == Has(s, "wroot") /\ Tag(s, "type") \in FromRoot \cup ToRoot \cup {"broadcast"}

\* The recorded times of the events, with the clock domains in shift moved.
Times(spans, domain, shift) ==
    LET move(i) == IF domain[i] \in DOMAIN shift THEN shift[domain[i]] ELSE 0
    IN [v \in {Start(i) : i \in DOMAIN spans} \cup {Fin(i) : i \in DOMAIN spans} |->
          move(SpanOf(v)) + IF IsFin(v) THEN EffectiveEnd(spans[SpanOf(v)]) ELSE EffectiveStart(spans[SpanOf(v)])]

(***************************************************************************)
(* Evidence.                                                               *)
(***************************************************************************)
InferredProvenance == {"posting_order", "status_resolved", "call_order", "time_overlap", "lock_handoff", "rooted_flow"}
EdgeClass(prov, conf) == IF prov \in InferredProvenance \/ Rank(conf) < Rank("high") THEN "inferred" ELSE "direct"
IsInferred(e) == e.mode = "dep" /\ EdgeClass(e.prov, e.conf) = "inferred"

(***************************************************************************)
(* Dependency edges: the events a span-level edge orders.                  *)
(***************************************************************************)
Arc(u, v, mode, kind, prov, conf, owner, tol) ==
    [src |-> u, dst |-> v, mode |-> mode, kind |-> kind, prov |-> prov, conf |-> conf, owner |-> owner, tol |-> tol]
SequentialArcs(spans, e) ==
    LET u == spans[e.src]
        v == spans[e.dst]
        arc(b, mode, kind, prov) == {Arc(Fin(e.src), b, mode, kind, prov, e.conf, 0, ClockTolerance)}
    IN CASE IsDeviceTimedSpan(u) /\ IsDeviceTimedSpan(v) /\ QueueOf(u) = QueueOf(v) -> arc(Start(e.dst), "idle", "stream_order", "stream_fifo")
         [] IsDeviceTimedSpan(u) /\ IsDeviceTimedSpan(v) /\ QueueOf(u) # QueueOf(v) -> arc(Start(e.dst), "dep", "event_wait", "event_record")
         [] IsDeviceTimedSpan(u) /\ ~IsDeviceTimedSpan(v) /\ v.cat = "sync" -> arc(Fin(e.dst), "dep", "device_sync", "stream_fifo")
         [] IsDeviceTimedSpan(u) # IsDeviceTimedSpan(v) /\ ~(IsDeviceTimedSpan(u) /\ v.cat = "sync") ->
              arc(Start(e.dst), "dep", "sequential", IF u.cat = "sync" THEN "stream_fifo" ELSE "thread_timeline")
         [] OTHER -> {}
ExplicitArcs(spans, t, e) ==
    LET u == e.src
        v == e.dst
        arc(a, b, kind, prov) == Arc(a, b, "dep", kind, prov, e.conf, 0, 0)
    IN IF SameLane(spans[u], spans[v]) THEN {}
       ELSE IF t[Start(u)] <= t[Start(v)] /\ t[Start(v)] <= t[Fin(u)] /\ spans[u].cat = "openmp"
       THEN {arc(Start(u), Start(v), "fork", "fork_join"), arc(Fin(v), Fin(u), "join", "fork_join")}
       ELSE {arc(IF t[Fin(u)] <= t[Start(v)] THEN Fin(u) ELSE Start(u),
                 IF t[Start(u)] <= t[Start(v)] THEN Start(v) ELSE Fin(v), "explicit_span_id", "explicit_id")}
P2PProvenance(s, conf) ==
    IF IsNccl(s) THEN "nccl_pseq" ELSE IF ResolvedWildcard(s) /\ conf = "high" THEN "status_resolved" ELSE "posting_order"
ArrivalProvenance(u, v, conf) ==
    IF conf # "high" THEN "time_overlap"
    ELSE IF IsNccl(v) THEN "nccl_seq" ELSE IF RootFlow(u) \/ RootFlow(v) THEN "rooted_flow" ELSE "call_order"
Arcs(spans, t, e) ==
    LET u == e.src
        v == e.dst
        arc(a, b, kind, prov, tol) == {Arc(a, b, "dep", kind, prov, e.conf, 0, tol)}
    IN IF Excluded(spans[u]) \/ Excluded(spans[v]) THEN {}
       ELSE CASE e.kind = "sequential" -> SequentialArcs(spans, e)
              [] e.kind = "explicit_span_id" -> ExplicitArcs(spans, t, e)
              [] e.kind = "launch" -> arc(Start(u), Start(v), "launch", "correlation_id", ClockTolerance)
              [] e.kind \in {"device_wait", "device_sync"} -> arc(Fin(u), Fin(v), e.kind, "sync_target", ClockTolerance)
              [] e.kind = "p2p" -> arc(Start(u), Fin(v), "p2p", P2PProvenance(spans[v], e.conf), 0)
              [] e.kind = "arrival" -> arc(Start(u), Fin(v), "arrival", ArrivalProvenance(spans[u], spans[v], e.conf), 0)
              [] e.kind = "task_join" -> arc(Fin(u), Fin(v), "task_join", "task_id", 0)
              [] e.kind = "task_dep" -> arc(Fin(u), Start(v), "task_dependence", "task_id", 0)
              [] e.kind = "lock_order" -> arc(Fin(u), Fin(v), "lock_handoff", "lock_handoff", ClockTolerance)
\* add: an edge against time, beyond its tolerance, is dropped.
InTime(t, a) == t[a.src] - t[a.dst] <= a.tol

(***************************************************************************)
(* Gates: a call whose end another lane releases, and when it was          *)
(* released.  The last arriver of a rendezvous, and a member that by the   *)
(* data flow waits for nobody, are released by their own arrival.          *)
(***************************************************************************)
Sources(arcs, j) == {a.src : a \in {b \in arcs : b.mode = "dep" /\ b.dst = Fin(j)}}
LastArrivers(spans, arcs) == {SpanOf(a.src) : a \in {b \in arcs : b.kind = "arrival" /\ BlockingWait(spans[SpanOf(b.src)])}}
Gated(spans, arcs) ==
    {j \in DOMAIN spans : Sources(arcs, j) # {} \/ j \in LastArrivers(spans, arcs)
                          \/ (~Excluded(spans[j]) /\ RootFlow(spans[j]) /\ BlockingWait(spans[j]))}
ReleaseOf(t, arcs, j) == Max({t[v] : v \in Sources(arcs, j)} \cup {t[Start(j)]})

(***************************************************************************)
(* Lanes: the events of a thread in order (nested ends first, enclosing    *)
(* starts first), each interval belonging to the innermost open call.      *)
(***************************************************************************)
EventKey(t, v) ==
    LET st == t[Start(SpanOf(v))]
        en == t[Fin(SpanOf(v))]
    IN IF st = en THEN <<st, 1, 0, SpanOf(v), v>>
       ELSE IF IsFin(v) THEN <<en, 0, -st, -SpanOf(v), v>> ELSE <<st, 2, -en, SpanOf(v), v>>
LexLess(a, b) == \E k \in DOMAIN a : a[k] < b[k] /\ \A m \in 1 .. (k - 1) : a[m] = b[m]
LaneOrder(t, S) == Ordered({Start(i) : i \in S} \cup {Fin(i) : i \in S}, LAMBDA a, b : LexLess(EventKey(t, a), EventKey(t, b)))
ModeInside(spans, gated, j) == IF j \in gated THEN "wait" ELSE IF BlockingWait(spans[j]) THEN "unknown" ELSE "busy"
LaneStep(spans, t, gated, st, v) ==
    LET j == SpanOf(v)
        inner == IF st.open = <<>> THEN 0 ELSE Last(st.open)
        mode == IF inner = 0 THEN "gap" ELSE ModeInside(spans, gated, inner)
    IN [prev |-> v,
        arcs |-> st.arcs \cup (IF st.prev = 0 THEN {} ELSE {Arc(st.prev, v, mode, "thread", "thread_timeline", "certain", inner, 0)}),
        open |-> IF t[Start(j)] = t[Fin(j)] THEN st.open ELSE IF IsFin(v) THEN SelectSeq(st.open, LAMBDA k : k # j) ELSE Append(st.open, j)]
ThreadLaneArcs(spans, t, gated, S) ==
    FoldLeft(LAMBDA st, v : LaneStep(spans, t, gated, st, v), [prev |-> 0, arcs |-> {}, open |-> <<>>], LaneOrder(t, S)).arcs
LaneArcs(spans, t, gated) ==
    LET on == {i \in DOMAIN spans : OnLane(spans[i])}
        device == {i \in DOMAIN spans : ~Excluded(spans[i]) /\ IsDeviceTimedSpan(spans[i])}
    IN UNION {ThreadLaneArcs(spans, t, gated, {i \in on : ThreadOf(spans[i]) = th}) : th \in {ThreadOf(spans[i]) : i \in on}}
       \cup {Arc(Start(i), Fin(i), IF i \in gated THEN "wait" ELSE "busy", "device_work", "device_interval", "certain", i, 0) : i \in device}

(***************************************************************************)
(* Required time, at most.                                                 *)
(***************************************************************************)
LaneModes == {"busy", "wait", "gap", "unknown"}
OwnTime(t, release, a) ==
    LET d == Max({0, t[a.dst] - t[a.src]})
    IN CASE a.mode = "wait" -> Max({0, Min({t[a.dst], t[Fin(a.owner)]}) - Max({t[a.src], release[a.owner]})})
         [] a.mode \in {"busy", "gap", "unknown"} -> d
         [] OTHER -> 0
\* A gated call's time after its release, nested calls included: its lane
\* backwards from its end, up to the release or its start.
RECURSIVE TailFrom(_, _, _, _, _)
TailFrom(t, release, lane, j, v) ==
    LET into == {a \in lane : a.dst = v}
        a == CHOOSE b \in into : TRUE
        w == IF a.mode = "gap" THEN 0 ELSE OwnTime(t, release, a)
    IN IF v = Start(j) \/ into = {} THEN 0
       ELSE IF t[a.src] >= release[j] THEN w + TailFrom(t, release, lane, j, a.src)
       ELSE Min({w, Max({0, t[v] - release[j]})})
Weighted(t, gated, release, lane, a) ==
    LET d == Max({0, t[a.dst] - t[a.src]})
    IN a @@ [d |-> d, whi |-> IF a.mode = "dep" /\ IsFin(a.dst) /\ SpanOf(a.dst) \in gated
                              THEN Min({d, TailFrom(t, release, lane, SpanOf(a.dst), a.dst)}) ELSE OwnTime(t, release, a)]

(***************************************************************************)
(* Clock domains (cp_clock).  nodes gives the bound of each other node's   *)
(* host clock.  A constraint [a, b, need, strength, arc] says that b's     *)
(* offset exceeds a's by need at least.                                    *)
(***************************************************************************)
Reference == <<"host", "0">>
NodeOf(s) == IF Has(s, "node") THEN s.tags.node ELSE "0"
HostBound(n, nodes) == IF n = "0" THEN 0 ELSE IF n \in DOMAIN nodes THEN nodes[n] ELSE Infinite
DomainOf(s, nodes) ==
    LET n == NodeOf(s)
        dev == IF Has(s, "dev") THEN s.tags.dev ELSE IF Has(s, "ctx") THEN s.tags.ctx ELSE ""
        corr == IF Has(s, "clock_corr_ns") THEN s.tags.clock_corr_ns ELSE 0
    IN IF ~IsDeviceTimedSpan(s) THEN [key |-> <<"host", n>>, bound |-> HostBound(n, nodes)]
       ELSE IF Tag(s, "timing") = "async"
       THEN [key |-> <<"nccl_async", n, s.pid>>, bound |-> IF Has(s, "ref_err") THEN s.tags.ref_err ELSE 0]
       ELSE IF s.cat \in {"opencl", "memory"} /\ ~IsNewFormat(s) /\ (Tag(s, "side") = "gpu" \/ NamedGpu(s))
       THEN [key |-> <<"opencl", n, s.pid>>, bound |-> Infinite]
       ELSE IF IsDeviceSpan(s) /\ DeviceTimed(s)
       THEN [key |-> <<"device", n, s.pid, s.tags.rt, dev>>, bound |-> Max({ClockTolerance, corr})]
       ELSE [key |-> <<"host", n>>, bound |-> HostBound(n, nodes)]
Domains(spans, nodes) == [i \in DOMAIN spans |-> DomainOf(spans[i], nodes).key]
Bounds(spans, nodes) ==
    LET all == {DomainOf(spans[i], nodes) : i \in DOMAIN spans} \cup {[key |-> Reference, bound |-> 0]}
    IN [k \in {x.key : x \in all} |-> Max({x.bound : x \in {y \in all : y.key = k}})]
ConstraintReversed(t, domain, a, strength) ==
    [a |-> domain[SpanOf(a.src)], b |-> domain[SpanOf(a.dst)], need |-> t[a.dst] - t[a.src], strength |-> strength, arc |-> a]
Constraint(t, domain, a, strength) ==
    [a |-> domain[SpanOf(a.src)], b |-> domain[SpanOf(a.dst)], need |-> t[a.src] - t[a.dst], strength |-> strength, arc |-> a]
Constraints(t, domain, arcs) ==
    {c \in {Constraint(t, domain, a, IF InTime(t, a) THEN (IF IsInferred(a) THEN 0 ELSE 1)
                                     ELSE IF Rank(a.conf) < Rank("high") THEN 0 ELSE 1) : a \in arcs} : c.a # c.b}

\* The network: delta_v <= delta_u + Hop(u, v).
NeedOf(cons, u, v) == {c.need : c \in {x \in cons : x.b = u /\ x.a = v}}
PairHop(cons, u, v) == IF NeedOf(cons, u, v) = {} THEN Infinite ELSE -Max(NeedOf(cons, u, v))
BoundHop(bounds, u, v) == IF u = Reference THEN bounds[v] ELSE IF v = Reference THEN bounds[u] ELSE Infinite
Hop(cons, bounds, u, v) == IF u = v THEN 0 ELSE Min({PairHop(cons, u, v), BoundHop(bounds, u, v)})
Shortest(cons, bounds) ==
    LET D == DOMAIN bounds
    IN FoldSet(LAMBDA k, d : [p \in D \X D |-> Min({d[p], Plus(d[<<p[1], k>>], d[<<k, p[2]>>])})],
               [p \in D \X D |-> Hop(cons, bounds, p[1], p[2])], D)
Feasible(cons, bounds) == LET d == Shortest(cons, bounds) IN \A k \in DOMAIN bounds : d[<<k, k>>] >= 0
Cycles(D) == {c \in SeqOf(D, Cardinality(D)) : Len(c) > 1 /\ IsInjective(c)}
Hops(c) == {<<c[i], c[(i % Len(c)) + 1]>> : i \in DOMAIN c}
CycleLength(cons, bounds, c) == FoldSet(LAMBDA h, n : Plus(n, Hop(cons, bounds, h[1], h[2])), 0, Hops(c))
\* The weakest pair on a negative cycle gives up what the cycle lacks.
Relaxed(cons, bounds) ==
    LET c == CHOOSE x \in Cycles(DOMAIN bounds) : CycleLength(cons, bounds, x) < 0
        lacks == -CycleLength(cons, bounds, c)
        pairs == {h \in Hops(c) : PairHop(cons, h[1], h[2]) <= BoundHop(bounds, h[1], h[2])}
        of(h) == {x \in cons : x.b = h[1] /\ x.a = h[2]}
        strength(h) == Min({x.strength : x \in of(h)})
        need(h) == Max({x.need : x \in of(h)})
        weak == CHOOSE h \in pairs : \A g \in pairs : strength(h) < strength(g) \/ (strength(h) = strength(g) /\ need(h) >= need(g))
    IN cons \ {x \in of(weak) : x.need > need(weak) - lacks}
RECURSIVE Satisfiable(_, _)
Satisfiable(cons, bounds) == IF Feasible(cons, bounds) THEN cons ELSE Satisfiable(Relaxed(cons, bounds), bounds)
Solve(cons, bounds) ==
    LET kept == Satisfiable(cons, bounds)
        d == Shortest(kept, bounds)
        hi == [k \in DOMAIN bounds |-> d[<<Reference, k>>]]
        lo == [k \in DOMAIN bounds |-> -d[<<k, Reference>>]]
        off == {k \in DOMAIN bounds : k[1] = "opencl" /\ ~(lo[k] <= 0 /\ 0 <= hi[k])}
    IN [lo |-> lo, hi |-> hi, shift |-> [k \in off |-> IF lo[k] > 0 THEN lo[k] ELSE hi[k]],
        contradicted |-> {c.arc : c \in cons \ kept}, feasible |-> kept = cons]

(***************************************************************************)
(* Assembly.                                                               *)
(***************************************************************************)
Ends(edges) == {e.src : e \in edges} \cup {e.dst : e \in edges}
Unplaced(nodes, edges) == nodes \ Range(TopoOrder(nodes, edges))
\* An edge among events a topological sort cannot place: dependencies
\* first, then any.
BreakCycles(nodes, edges) ==
    LET among(es, U, modes) == {e \in es : e.src \in U /\ e.dst \in U /\ e.mode \in modes}
        once == edges \ among(edges, Unplaced(nodes, edges), {"dep"})
    IN once \ among(once, Unplaced(nodes, once), LaneModes \cup {"dep", "idle"})
EventEdges(spans, t, held, gated, release) ==
    LET lane == LaneArcs(spans, t, gated) IN {Weighted(t, gated, release, lane, a) : a \in held \cup lane}
Agreed(edges, clock) == {e \in edges : \A a \in clock.contradicted : \E k \in DOMAIN a : e[k] # a[k]}
Ordering(ends, left) == [nodes |-> ends, edges |-> left, order |-> TopoOrder(ends, left)]
Acyclic(g, edges) == g @@ [all |-> edges] @@ Ordering(Ends(edges), BreakCycles(Ends(edges), Agreed(edges, g.clock)))
GraphFrom(spans, nodes, domain, t, wanted) ==
    LET held == {a \in wanted : InTime(t, a)}
        gated == Gated(spans, held)
        release == [j \in gated |-> ReleaseOf(t, held, j)]
    IN Acyclic([spans |-> spans, t |-> t, domain |-> domain, gated |-> gated, release |-> release, dropped |-> wanted \ held,
                clock |-> Solve(Constraints(t, domain, wanted), Bounds(spans, nodes))],
               EventEdges(spans, t, held, gated, release))
ArcsOf(spans, t, deps) == UNION {Arcs(spans, t, e) : e \in deps}
AssembleGraph(spans, deps, nodes, shift) ==
    LET domain == Domains(spans, nodes)
        t == Times(spans, domain, shift)
    IN GraphFrom(spans, nodes, domain, t, ArcsOf(spans, t, deps))
\* build_event_graph: assembled once more when a clock has to be shifted.
Shifted(spans, deps, nodes, g) == IF g.clock.shift = <<>> THEN g ELSE AssembleGraph(spans, deps, nodes, g.clock.shift)
BuildEventGraph(spans, deps, nodes) == Shifted(spans, deps, nodes, AssembleGraph(spans, deps, nodes, <<>>))

(***************************************************************************)
(* The observed critical path: backwards from the last event, by the edge  *)
(* whose release came last.  opt is [gaps, direct, gated] (VARIANTS).      *)
(***************************************************************************)
Required(e, opt) ==
    CASE e.mode = "busy" -> e.d
      [] e.mode \in {"gap", "unknown"} -> IF opt.gaps THEN e.d ELSE 0
      [] e.mode \in {"wait", "dep"} -> IF opt.gated THEN e.whi ELSE 0
      [] OTHER -> 0
Into(g, v, opt) == {e \in g.edges : e.dst = v /\ ~(opt.direct /\ IsInferred(e))}
LastEvents(g) ==
    LET top == Max({g.t[v] : v \in Range(g.order)})
        at == {v \in Range(g.order) : g.t[v] = top}
        free == {v \in at : \A e \in g.edges : e.src # v}
    IN IF g.order = <<>> THEN {} ELSE IF free # {} THEN free ELSE at
ReleaseKey(g, e, opt) == <<g.t[e.src] + Required(e, opt), IF e.mode = "dep" THEN 0 ELSE 1, Rank(e.conf), e.src>>
Binding(g, cands, opt) == CHOOSE e \in cands : \A f \in cands : ~LexLess(ReleaseKey(g, e, opt), ReleaseKey(g, f, opt))
\* Candidates the clocks allow to have released later than the chosen one.
Undecidable(g, cands, best, opt) ==
    LET rel(e) == g.t[e.src] + Required(e, opt)
        a == g.domain[SpanOf(best.src)]
    IN {e \in cands : LET b == g.domain[SpanOf(e.src)]
                      IN rel(e) < rel(best) /\ a # b /\ rel(best) - rel(e) + g.clock.lo[a] - g.clock.hi[b] < 0}
WalkStepUnclipped(g, opt, st) ==
    LET v == st.first
        best == Binding(g, Into(g, v, opt), opt)
    IN IF Into(g, v, opt) = {} THEN st
       ELSE [st EXCEPT !.first = best.src, !.steps = <<best>> \o @, !.cover = <<Max({0, g.t[v] - g.t[best.src]})>> \o @]
\* One step back; st.first is the event reached, front the earliest time so
\* far.
WalkStep(g, opt, st) ==
    LET v == st.first
        cands == Into(g, v, opt)
        best == Binding(g, cands, opt)
        lo == Min({g.t[best.src], st.front})
        tie == \E e \in cands : e.src # best.src /\ ReleaseKey(g, e, opt)[1] = ReleaseKey(g, best, opt)[1]
    IN IF cands = {} THEN st
       ELSE [first |-> best.src, sink |-> st.sink, front |-> lo, steps |-> <<best>> \o st.steps,
             cover |-> <<Max({0, Min({g.t[v], st.front}) - lo})>> \o st.cover,
             ties |-> st.ties + (IF tie THEN 1 ELSE 0),
             undecidable |-> st.undecidable + IF Undecidable(g, cands, best, opt) = {} THEN 0 ELSE 1]
Walk(g, opt) ==
    LET sink == IF LastEvents(g) = {} THEN 0 ELSE Max(LastEvents(g))
        start == [first |-> sink, sink |-> sink, front |-> IF sink = 0 THEN 0 ELSE g.t[sink], steps |-> <<>>, cover |-> <<>>,
                  ties |-> 0, undecidable |-> 0]
    IN FoldLeft(LAMBDA st, k : WalkStep(g, opt, st), start, [k \in 1 .. Len(g.order) |-> k])
WalkSpans(w) ==
    (IF w.first = 0 THEN {} ELSE {SpanOf(w.first)}) \cup {SpanOf(e.dst) : e \in Range(w.steps)}
    \cup {e.owner : e \in {f \in Range(w.steps) : f.owner # 0}}
Covered(w) == FoldLeft(LAMBDA n, k : n + k, 0, w.cover)
=============================================================================
