------------------------------ MODULE Analysis ------------------------------
(***************************************************************************)
(* A program runs to its end, and its trace is analysed                    *)
(* (criticalpath.analyze): the report is what the analysis says, the       *)
(* variables of Programs are what happened.  The properties compare the    *)
(* two.                                                                    *)
(***************************************************************************)
EXTENDS NodeMerge, CompareReport, Efficiency, CallTree, Programs

CONSTANTS NodeBound,         \* what the trace says of the other node's clock
          Reruns             \* <<p, q>>: q is run after p, and compared with it

VARIABLES report,            \* <<>>, then [trace, dropped, corr, deps, graph]
          projection,        \* <<>>, then what Build makes of it
          baseline,          \* <<>>, then [trace, projection] of an earlier run
          comparison         \* <<>>, then the report of comparing the two
analysis == <<report, projection, baseline, comparison>>

Facts ==
    LET lossy == {c[1][1] : c \in program.lost}
        status(p) == [pid |-> p, hook |-> "mpi", lost |-> TRUE, ended_without_final |-> FALSE, final |-> TRUE, sent |-> 0, received |-> 0]
    IN [health |-> [bad |-> FALSE, transport |-> {status(p) : p \in lossy}],
        exact |-> [on |-> TRUE, complete |-> Processes \ lossy, tainted |-> {}], deps |-> {}, nodes |-> ("2" :> NodeBound)]
Run == Next /\ UNCHANGED analysis
\* What the tool does with a capture: the GPU records are assembled, the
\* edges built, then the event graph and what is read from it.
WithGraph(a, deps, f) == [trace |-> a.spans, dropped |-> a.drop, corr |-> a.corr, deps |-> deps, graph |-> BuildEventGraph(a.spans, deps, f.nodes)]
WithEdges(a, f) == WithGraph(a, BuildEdges(a.spans, f), f)
Analyse ==
    /\ Finished /\ report = <<>> /\ report' = WithEdges(Assemble(spans), Facts)
    /\ UNCHANGED <<vars, projection, baseline, comparison>>
Analysed == report # <<>>
Project ==
    /\ Analysed /\ projection = <<>>
    /\ projection' = Build(report.trace, report.deps, report.graph)
    /\ UNCHANGED <<vars, report, baseline, comparison>>
Projected == projection # <<>>
\* The report has just been made; what follows leaves it as it is.
IsReported == Analysed /\ ~Projected
\* The trace is kept, and another run made.
Again ==
    /\ Projected /\ baseline = <<>>
    /\ baseline' = [trace |-> report.trace, projection |-> projection] /\ report' = <<>> /\ projection' = <<>>
    /\ \E q \in {c[2] : c \in {x \in Reruns : x[1] = program}} : Restart(q)
    /\ UNCHANGED comparison
Compare ==
    /\ Projected /\ baseline # <<>> /\ comparison = <<>>
    /\ comparison' = CompareProjections(baseline.projection, projection)
    /\ UNCHANGED <<vars, report, projection, baseline>>
IsCompared == comparison # <<>>
Stop == Projected /\ UNCHANGED <<vars, analysis>>
AInit == Init /\ report = <<>> /\ projection = <<>> /\ baseline = <<>> /\ comparison = <<>>
ANext == Run \/ Analyse \/ Project \/ Again \/ Compare \/ Stop
ASpec == AInit /\ [][ANext]_<<vars, analysis>>

(***************************************************************************)
(* What happened.                                                          *)
(***************************************************************************)
RecordedAs(kind, c) == {i \in DOMAIN who : who[i] = <<kind, c>>}
\* A receive ended where its call did, or the wait for its request.
EndedIn(r) ==
    IF OpAt(r).op = "recv" THEN {r}
    ELSE {<<r[1], k>> : k \in {j \in (r[2] + 1) .. Len(Script(r[1])) : OpAt(<<r[1], j>>).op = "wait" /\ OpAt(r).req \in OpAt(<<r[1], j>>).req}}
TruePairs == UNION {{<<match[r], e>> : e \in EndedIn(r)} : r \in DOMAIN match}
SaidPairs(edges) == {<<who[e.src][2], who[e.dst][2]>> : e \in {x \in edges : x.kind = "p2p"}}
TrueTime(v) == born[SpanOf(v)][IF IsFin(v) THEN 2 ELSE 1]
CallsOf(op) == {i \in DOMAIN report.trace : who[i][1] = "call" /\ OpAt(who[i][2]).op = op}
DeviceWork == {i \in DOMAIN report.trace : who[i][1] = "device"}

NothingOpen(d) == d.matched = d.receives /\ d.unmatched = {} /\ d.unfinished = {} /\ d.orphans = 0 /\ d.test_only = {}

(***************************************************************************)
(* Properties.                                                             *)
(***************************************************************************)
\* A point-to-point edge joins a receive to the message it really got,
\* unless a loss in one of the two processes makes it "low"; with no loss
\* every message has its edge among the connectors the Timeline draws, and
\* the diagnostics have nothing to report (_P2PMatcher: MPI's
\* non-overtaking rule, requests completed out of order, wildcards resolved
\* by their status; mpi_dependency_diagnostics).
PairsRight ==
    IsReported =>
        /\ SaidPairs({e \in report.deps : e.conf # "low"}) \subseteq TruePairs
        /\ program.lost = {} => SaidPairs(CommEdges(report.deps)) = TruePairs /\ NothingOpen(Diagnostics(report.trace, {}))

AllMatched(s) == s.unmatched_device = 0 /\ s.host_without_device = 0
\* Assembly keeps each device operation once, on the stream the program
\* used, linked to the call that submitted it, not before that call and
\* never later than it ran or was recorded (gpu_activity.assemble: proxies
\* beside native records, reused correlation ids, a clock that runs behind).
KernelsRight ==
    IsReported =>
        /\ \A i, j \in DeviceWork : who[i] = who[j] => i = j
        /\ {who[i] : i \in DeviceWork} = {w \in Range(who) : w[1] = "device"}
        /\ \A i \in DeviceWork :
             /\ report.trace[i].tags.stream = OpAt(who[i][2]).stream
             /\ i \in DOMAIN report.corr.host /\ who[report.corr.host[i]] = <<"call", who[i][2]>>
             /\ report.trace[report.corr.host[i]].start <= report.trace[i].start
             /\ report.trace[i].start <= born[i][1] + program.skew[spans[i].pid] + Max({0, -program.lag})
        /\ \A k \in {RuntimeKey(spans[i]) : i \in {j \in DOMAIN spans : IsNewFormat(spans[j])}} :
             AllMatched(Summary(spans, [spans |-> report.trace, drop |-> report.dropped, corr |-> report.corr], k))

RECURSIVE Reached(_, _)
Reached(edges, S) == LET n == S \cup {e.dst : e \in {x \in edges : x.src \in S}} IN IF n = S THEN S ELSE Reached(edges, n)
\* The event graph orders what really happened in that order, and knows
\* that a synchronization waits for the work submitted before it, and work
\* behind a stream's wait for the work before the awaited record
\* (cp_model._add_dependency_edges, criticalpath._add_gpu_edges).
Causal ==
    IsReported =>
        LET edges == report.graph.edges
            k(i) == who[i][2][2]
            stream(i) == OpAt(who[i][2]).stream
        IN /\ \A e \in edges : e.conf # "low" => TrueTime(e.src) <= TrueTime(e.dst)
           /\ \A s \in CallsOf("sync") : \A d \in DeviceWork : k(d) < k(s) => Fin(s) \in Reached(edges, {Fin(d)})
           /\ \A c \in CallsOf("streamwait") :
                LET rec == LastRecord(who[c][2][1], k(c), OpAt(who[c][2]).event)
                IN rec # Nowhere => \A d, f \in DeviceWork :
                     k(d) < rec[2] /\ stream(d) = OpAt(rec).stream /\ k(f) > k(c) /\ stream(f) = stream(c)
                     => Start(f) \in Reached(edges, {Fin(d)})

\* The clocks' offsets lie within the bounds the analysis derives from the
\* messages, and no true dependency is set aside as contradicted
\* (cp_clock.solve).
ClocksBracket ==
    IsReported /\ program.lost = {} /\ program.lag = 0 =>
        LET c == report.graph.clock
            offset(d) == IF d = <<"host", "2">> THEN -program.skew[2] ELSE 0
            w == Walk(report.graph, Default)
            range == CoveredRange(report.graph, w)
            length == TrueTime(w.sink) - TrueTime(w.first)
        IN /\ c.feasible /\ \A d \in DOMAIN c.lo : c.lo[d] <= offset(d) /\ offset(d) <= c.hi[d]
           /\ w.first # 0 => range[1] <= length /\ (range[2] = -1 \/ length <= range[2])

TotalOf(f) == SumOver(DOMAIN f, LAMBDA x : f[x])
Tiled(g, w, rows, view) ==
    LET met == {w.first, w.sink} \cup {e.src : e \in Range(w.steps)}
    IN /\ Covered(w) = g.t[w.sink] - Min({g.t[v] : v \in met})
       /\ \A f \in {ByMode(w), ByTier(w), ByClass(w), ByProvenance(w)} : TotalOf(f) = Covered(w)
       /\ SumOver(DOMAIN rows, LAMBDA k : rows[k].own + rows[k].other) = Covered(w)
       /\ SumOver(DOMAIN view, LAMBDA k : view[k].credited + view[k].gap) = Covered(w)
       /\ \A k \in DOMAIN view : view[k].credited <= g.spans[view[k].span].dur
TiledBy(g, w) == Tiled(g, w, PathRows(g, w), SpanView(w))
Sorted(evidence, n) == \A x \in DOMAIN evidence : TotalOf(evidence[x]) = n
Reports(w, r) == r.total = Covered(w) /\ TotalOf(r.on_path) + TotalOf(r.waited) = r.total
\* The path over whole spans, which a streamed analysis follows.
SpanTiled(t, path, b) ==
    LET nested(n) == Cardinality({i \in DOMAIN t : IsAnnotation(t[i]) /\ t[i].name = n})
        inside == AnnotationTime(t, path, b)
    IN /\ path # <<>> => b.total = Max({EndOf(t[i]) : i \in Range(path)}) - t[path[1]].start
       /\ \A k \in DOMAIN path : b.own[k] <= t[path[k]].dur
       /\ \A n \in DOMAIN inside : inside[n] <= nested(n) * b.total
SpanTiledBy(t, path) == SpanTiled(t, path, BlameAlong(t, path))
InOrder(g) == \A e \in g.edges : g.t[e.src] <= g.t[e.dst]
Recorded(g) == [v \in g.nodes |-> g.t[v]]
\* The observed path counts every instant from its first event to its last
\* exactly once, however it is broken down: by mode, tier, class,
\* provenance and category, by rows, by spans, and so does the path over
\* whole spans; no span is credited more than it lasted.
\* All waiting is charged once, no more and no less, and a replay that
\* changes nothing reproduces a recording in which no edge goes against
\* time (cp_model.walk, path_rows, _span_view, cp_attribution.blame, replay,
\* criticalpath.attribute_blame).
WalkTiles ==
    IsReported =>
        /\ TiledBy(report.graph, Walk(report.graph, Default))
        /\ Reports(Walk(report.graph, Default), Analyze(report.trace, report.graph, Walk(report.graph, Default)))
        /\ Sorted(GraphEvidence(report.graph), Cardinality({e \in report.graph.edges : e.mode \in {"dep", "idle"}}))
        /\ SpanTiledBy(report.trace, SpanPath(report.trace, report.deps))
        /\ SumF(Blame(report.graph)) = <<WaitingNs(report.graph), 1>>
        /\ InOrder(report.graph) => Replay(report.graph, {}) = Recorded(report.graph)

RECURSIVE PathsFrom(_, _)
PathsFrom(edges, v) == {<<>>} \cup UNION {{<<e>> \o p : p \in PathsFrom(edges, e.dst)} : e \in {x \in edges : x.src = v}}
Exactly(g, c, all) ==
    LET length(p) == FoldLeft(LAMBDA n, e : n + Required(e, Headline), 0, p)
        longest == {Range(p) : p \in {q \in all : length(q) = c.length}}
        busy == {e \in g.edges : e.mode = "busy" /\ e.d > 0}
    IN /\ longest # {} /\ \A p \in all : length(p) <= c.length
       /\ c.some = busy \cap UNION longest
       /\ c.all = {e \in busy : \A p \in longest : e \in p}
\* Without the work of one span a path shrinks by no more than that work,
\* and by some of it if a segment of it is on all longest paths.
Sensitive(g, c) ==
    \A j \in {e.owner : e \in {x \in g.edges : x.mode = "busy"}} :
      LET r == Reduction(g, {j})
          work == SumOver({e \in g.edges : e.mode = "busy" /\ e.owner = j}, LAMBDA e : e.d)
      IN /\ 0 <= r.modeled /\ r.modeled <= work
         /\ InOrder(g) => 0 <= r.replayed /\ r.replayed <= work
         /\ (\E e \in c.all : e.owner = j) => r.modeled > 0
\* Of the variants of the model none makes up or loses the headline.
Variation(g, c, alt) ==
    /\ alt.range[1] <= c.length /\ c.length <= alt.range[2]
    /\ \A o \in Variants : alt.every \subseteq WalkSpans(Walk(g, o)) /\ WalkSpans(Walk(g, o)) \subseteq alt.some
    /\ alt.every = WalkSpans(Walk(g, Default)) => alt.only_ns = 0
\* The modeled length is that of a longest path, and the segments said to
\* lie on some and on all longest paths are those that do
\* (cp_model.longest, criticality: forward and backward passes and cuts
\* instead of the paths themselves); what a span's work costs the run is
\* bounded by that work (_sensitivity).
CriticalExact ==
    IsReported => LET g == report.graph
                  IN /\ Exactly(g, Criticality(g), UNION {PathsFrom(g.edges, v) : v \in g.nodes})
                     /\ Sensitive(g, Criticality(g)) /\ Variation(g, Criticality(g), Alternatives(g))

\* The streamed builders find the edges the builders over all spans find
\* (criticalpath.build_edges, build_dependency_graph).
PipelinesAgree == IsReported => BuildDependencyGraph(report.trace, Facts) = report.deps

\* What an edge says is so: the message, the submitting call, and among the
\* members of a barrier the last to arrive.
IsTrue(e) ==
    LET barriers == CallsOf("barrier")
    IN CASE e.kind = "p2p" -> <<who[e.src][2], who[e.dst][2]>> \in TruePairs
         [] e.kind = "launch" -> who[e.src] = <<"call", who[e.dst][2]>>
         [] e.kind = "arrival" /\ e.src \in barriers /\ Cardinality(barriers) = 2 -> \A j \in barriers : born[j][1] <= born[e.src][1]
         [] OTHER -> TRUE
\* The monotone fit of least squared error: at k, the largest over i of the
\* smallest over j of the mean of i .. j.
IsFit(points, fit) ==
    LET sum(i, j, n) == SumOver(i .. j, LAMBDA k : points[k][n])
        mean(i, j) == <<sum(i, j, 2), sum(i, j, 3)>>
        least(i, k) == CHOOSE m \in {mean(i, j) : j \in k .. Len(points)} : \A j \in k .. Len(points) : ~Above(m, mean(i, j))
        fitted(k) == CHOOSE m \in {least(i, k) : i \in 1 .. k} : \A i \in 1 .. k : ~Above(least(i, k), m)
    IN \A k \in DOMAIN points : ~Above(fit[k], fitted(k)) /\ ~Above(fitted(k), fit[k])
\* However its candidates are labelled, a stratum is fitted best.
Calibrated(stratum) ==
    \A truth \in SUBSET stratum :
      LET points == Points({[score |-> ScoreOf(c), label |-> c \in truth, of |-> c] : c \in stratum})
      IN IsFit(points, [k \in DOMAIN points |-> Probability(points, points[k][1])])
\* Of the worlds a sample may draw, at gives the [edges, value].  Units share
\* no span, so no combination of their options pairs a message twice; one of
\* them has every paired receive and every barrier's last arriver as they
\* were (that a run draws it, nothing says).
Allowed(units, at) ==
    LET asked == {e[2] : e \in SaidPairs(report.deps)}
        true == {p \in TruePairs : RecordedAs("call", p[1]) # {} /\ p[2] \in asked}
        of(f, kind) == {x \in at[f].edges : x.kind = kind}
        ends(u) == UNION {EndsOf(o) : o \in u.options}
    IN /\ \A u, v \in units : u # v => ends(u) \cap ends(v) = {}
       /\ \A f \in DOMAIN at : \A d, e \in of(f, "p2p") : d # e => d.src # e.src
       /\ \E f \in DOMAIN at :
            {p \in SaidPairs(of(f, "p2p")) : p[2] \in asked} = true /\ \A e \in of(f, "arrival") : IsTrue(e)
\* A world's path is not the recorded one only if a unit that touches the
\* recorded path changes an edge of one of its spans.
FoundByOneChange(units, at, recorded) ==
    \A f \in DOMAIN at : at[f].value # recorded =>
      \E u \in Touching(units, recorded.spans) : f[u] \in FirstTouching(u, recorded.spans)
\* An alternative's source is not after its destination, except where the
\* data of a collective flows from its root.
NeverAfter(units) ==
    \A u \in units : \A o \in u.options : \A e \in o.add :
      \A a \in BecameArcs(report.graph, e) : a.prov = "rooted_flow" \/ InTime(report.graph.t, a)
WorldsAre(units, at, recorded) == Allowed(units, at) /\ FoundByOneChange(units, at, recorded) /\ NeverAfter(units)
\* The recorded world has been evaluated.
WorldAt(edges, recorded) == [edges |-> edges, value |-> IF edges = report.deps THEN recorded ELSE Evaluate(report.graph, edges, Facts.nodes)]
WorldsFrom(units, recorded) == WorldsAre(units, [f \in WorldChoices(units) |-> WorldAt(WorldEdges(report.deps, f), recorded)], recorded)
Undisputed(candidates) ==
    /\ \A c \in candidates : c.status \in {"observed", "inferred"} => IsTrue(c.edge)
    /\ \A s \in {<<c.edge.kind, c.prov>> : c \in candidates} : Calibrated({c \in candidates : <<c.edge.kind, c.prov>> = s})
Judged(units) ==
    /\ WorldsFrom(units, EvaluateGraph(report.graph, Facts.nodes))
    /\ Undisputed(WithAlternatives(report.graph, report.deps, units))
\* Where a loss or a clock leaves a choice open, the alternatives allow the
\* truth, in combinations that never contradict each other, none against
\* time, and the one-change worlds look at every unit without which the path
\* could not move; an edge nothing disputes is true, and a calibration fits
\* the candidates' labels as well as a monotone function can
\* (cp_alternatives.generate, analyze_alternatives,
\* evidence.with_alternatives, edge_calibration.fit).
WorldsAllowTruth == IsReported => Judged(Units(report.graph, report.deps))

BusyInstants(th) ==
    LET host == {i \in HostTimed(report.trace) : ThreadOf(report.trace[i]) = th}
    IN UNION {report.trace[i].start .. (EndOf(report.trace[i]) - 1) : i \in host}
\* The projection neither loses nor doubles time: its phases tile the run
\* and each host call counts in the phase it starts in; every timed span is
\* in one node; the self times of a process's host nodes add up to the time
\* its threads were in calls; and nodes and phases share out the observed
\* path (projection._Builder: nested calls, iterations cut out of a flat
\* list of calls, device work placed by its launch).
ProjectionConserves ==
    Projected =>
        LET p == projection
            n == Len(p.phases)
            w == Walk(report.graph, Default)
            rows == PathRows(report.graph, w)
            host == {k \in DOMAIN p.nodes : p.nodes[k].key.thread # "device"}
            threads == {ThreadOf(report.trace[i]) : i \in HostTimed(report.trace)}
            e == Extent(report.trace)
        IN /\ p.phases[1].start = e[1] /\ p.phases[n].end = e[2] /\ \A k \in 1 .. (n - 1) : p.phases[k].end = p.phases[k + 1].start
           /\ \A i \in HostTimed(report.trace) :
                LET ph == p.phases[p.nodes[p.node_of[i]].phase]
                IN ph.start <= report.trace[i].start /\ report.trace[i].start < ph.end
           /\ SumOver(DOMAIN p.nodes, LAMBDA k : p.nodes[k].count) = Cardinality(TimedOf(report.trace))
           /\ SumOver(host, LAMBDA k : p.nodes[k].self) = SumOver(threads, LAMBDA th : Cardinality(BusyInstants(th)))
           /\ SumOver(DOMAIN p.nodes, LAMBDA k : p.nodes[k].cp) = SumOver(DOMAIN rows, LAMBDA k : rows[k].own)
           /\ p.total = Covered(w) /\ SumOver(1 .. n, LAMBDA k : p.phases[k].critical) = p.total

InstantsOf(S) == UNION {report.trace[i].start .. (EndOf(report.trace[i]) - 1) : i \in S}
Measured(e, gpu, kernels, syncs) ==
    LET all == InstantsOf(TimedOf(report.trace))
        n == Cardinality(DOMAIN e.useful)
    IN /\ \A p \in DOMAIN e.useful : e.useful[p] = Cardinality(InstantsOf(Useful(report.trace, p)))
       /\ e.parallel # <<>> => e.parallel[1] * n * e.wall = e.parallel[2] * TotalOf(e.useful)
       /\ gpu.active = Cardinality(InstantsOf(kernels))
       /\ gpu.gap = Cardinality((Min(all) .. Max(all)) \ InstantsOf(kernels \cup syncs))
MeasuredOf(t, wall) == Measured(Efficiencies(t, SpanView(Walk(report.graph, Default)), UsefulTimeByPid(t), wall), GpuStarvation(t, wall), KernelActivity(t).used, SyncCallsOf(t))
\* The efficiencies count instants: useful time is that of a process's
\* compute spans, overlapping streams once; load balance times
\* communication efficiency is the useful share of all processes' time,
\* no bound hiding any of it; a device's gap is the run's time with
\* neither a kernel nor a synchronization, though the two overlap
\* (pop_efficiency.analyze, cct.gpu_starvation).
EfficiencyExact == IsReported => MeasuredOf(report.trace, WallNs(report.trace))

RECURSIVE Counted(_)
Counted(forest) == SumOver(forest, LAMBDA n : n.count + Counted(n.children))
Nested(t, S, parent) ==
    \A i \in {j \in S : t[j].psid = <<>> /\ ~IsDeviceTimedSpan(t[j])} :
      LET around == {j \in S \ {i} : t[j].start <= t[i].start /\ EndOf(t[i]) <= EndOf(t[j]) /\ Before(t, j, i)}
      IN parent[i] = IF around = {} THEN 0 ELSE LastBy(around, LAMBDA j : t[j].start)
TreeOf(t, S, parent) == Counted(Under(t, parent)) = Cardinality(S) /\ Nested(t, S, parent)
ThreadTree(t, S) == TreeOf(t, S, RawTree(t, S))
SameStacks(nodes, cct) ==
    LET flat == {PathOf(report.trace[i]) : i \in {j \in DOMAIN report.trace : report.trace[j].dur = 0}}
    IN /\ DOMAIN nodes \subseteq DOMAIN cct /\ \A path \in DOMAIN cct \ DOMAIN nodes : cct[path].incl = 0
       /\ \A path \in DOMAIN nodes : nodes[path].self = cct[path].self /\ nodes[path].total = cct[path].incl
       /\ \A path \in DOMAIN nodes \ flat : nodes[path].count = cct[path].count
\* The streamed call tree is the one built from all spans; in a thread's
\* tree every span counts once, and a host call without a parent id is
\* below the call it was made in; over stack frames the call tree and the
\* calling context tree give every path the same times
\* (call_tree._ct_build, _build_call_tree, cct.CCT.build).
CallTreesAgree ==
    IsReported =>
        /\ BuildCallTree(report.trace) = CtBuild(report.trace, TimedOf(report.trace))
        /\ \A th \in ThreadsOf(report.trace, TimedOf(report.trace)) : ThreadTree(report.trace, OnThreadOf(report.trace, TimedOf(report.trace), th))
        /\ SameStacks(FromStacks(report.trace, Stacked(report.trace)), CCT(report.trace))

\* Each process as the trace of a node of its own, with a clock measurement
\* off by err (none when it exceeds the bound).
NodeTraces(err) ==
    LET k(p) == IF p % 2 = 0 THEN err ELSE -err
        bare(s) == [s EXCEPT !.tags = [t \in DOMAIN s.tags \ {"node"} |-> s.tags[t]]]
        own(p) == SelectSeq(report.trace, LAMBDA s : s.pid = p)
        \* the way there takes NodeBound + k, the way back NodeBound - k
        measured(p) == EstimateClockOffset(program.skew[p], NodeBound + k(p), NodeBound + k(p), program.skew[p] + 2 * NodeBound)
        sync(p) == [rank |-> Name(p), reference |-> p = 1, phase |-> "init", offset |-> measured(p).offset, bound |-> measured(p).bound,
                    at |-> 0, boot |-> "", timens |-> 0]
    IN [p \in 1 .. Cardinality(Processes) |->
          [spans |-> [i \in DOMAIN own(p) |-> bare(own(p)[i])], boot |-> Name(p), timens |-> 0,
           syncs |-> IF p = 1 \/ err <= NodeBound THEN <<sync(p)>> ELSE <<>>, counters |-> <<>>, explicit |-> <<>>]]
NodeOrder(p, i) == Cardinality({j \in 1 .. i : report.trace[j].pid = p})
Origin(i) ==        \* the span a merged one comes from
    CHOOSE o \in DOMAIN report.trace :
      LET p == report.trace[o].pid
      IN i = Cardinality({j \in DOMAIN report.trace : report.trace[j].pid < p}) + NodeOrder(p, o)
MergedRight(err, nodes, plan, merged, edges) ==
    LET late == {e \in ValidateCausality(merged, edges) : merged[e.src].start > EndOf(merged[e.dst]) + IF Len(nodes) > 2 THEN 1 ELSE 0}
        off(k) == OffsetAt(plan.plans[k].model, 0) - plan.plans[k].model.offset
    IN /\ plan.ok /\ late = {}
       /\ err <= NodeBound => Uncorrected(plan) = {}
       /\ err <= NodeBound => \A k \in DOMAIN nodes : -NodeBound <= off(k) /\ off(k) <= NodeBound
       /\ {<<who[Origin(e.src)][2], who[Origin(e.dst)][2]>> : e \in edges} = TruePairs
MergedAs(err, nodes, plan, merged, f) == MergedRight(err, nodes, plan, merged, P2PEdges(merged, {}, f.exact))
MergedBy(err, nodes, plan, f) == MergedAs(err, nodes, plan, MergeTraces(nodes, plan), f)
MergedFrom(err, nodes, f) == MergedBy(err, nodes, PlanOffsets(nodes, f.exact, FALSE), f)
\* Where every measurement is within its bound, or there is none, offsets
\* within the bounds exist, stay within them, pair the messages as they
\* were and leave no send after the end of its receive; of three nodes two
\* are moved, and rounding both to whole ns may leave 1 ns
\* (multinode.plan_offsets, merge_traces, validate_causality).
MergeInOrder ==
    IsReported /\ program.lost = {} /\ Cardinality(Processes) > 1 =>
        \A err \in -NodeBound .. (NodeBound + 1) : MergedFrom(err, NodeTraces(err), Facts)

OnceEach(nodes, cells, side) == \A n \in DOMAIN nodes : Cardinality({x \in DOMAIN cells : cells[x][side] = n}) = 1
Positive(n) == Max({n, 0})
SumRows(rows, F(_)) == SumOver(DOMAIN rows, LAMBDA i : F(rows[i]))
Explains == IsCompared /\ comparison.method # "aggregate"
\* A comparison neither loses nor invents a change: every node of either
\* run is in one identity, the identities make up each run's path, the
\* waits hand their origins no more of a change than there was, in either
\* direction, and the totals by name differ by what the runs differ
\* (_Comparison.run, _cp_view, _attribute_to_origins, compare.py).
ComparisonAccounts ==
    /\ IsCompared =>
         /\ LET c == comparison.comp IN OnceEach(c.pa.nodes, c.cells, "a") /\ OnceEach(c.pb.nodes, c.cells, "b")
         /\ SumOver(CompareAggregates(baseline.trace, report.trace), LAMBDA r : r.delta)
              = SumRows(report.trace, LAMBDA s : s.dur) - SumRows(baseline.trace, LAMBDA s : s.dur)
    /\ Explains =>
         /\ \A side \in {"a", "b"} : LET v == comparison.paths[side] IN TotalOf(v.composition) = v.total
         /\ \A sign \in {1, -1} : SumRows(comparison.rows, LAMBDA r : Positive(sign * r.impact)) <= SumRows(comparison.rows, LAMBDA r : Positive(sign * r.delta))

Opposite(status) ==
    CASE status = "regressed" -> "improved" [] status = "improved" -> "regressed" [] status = "new" -> "removed"
      [] status = "removed" -> "new" [] OTHER -> status
SaysNothing(r) == r.conf = Per /\ r.contributors = <<>> /\ r.improvements \cup r.offCriticalPath \cup r.newWork \cup r.removedWork = {}
Mirrored(c, r) ==
    LET ids == DOMAIN c.rows
        twin(i) == CHOOSE j \in DOMAIN r.comp.idents : r.comp.idents[j].ka = c.comp.idents[i].kb /\ r.comp.idents[j].kb = c.comp.idents[i].ka
        mixed(i) == c.comp.idents[i].both /\ {c.rows[i].status, ImpactOf(c.comp.idents[i])} = {"regressed", "improved"}
    IN (\A i \in ids : ~mixed(i)) =>
         \A i \in ids : /\ r.rows[twin(i)].status = Opposite(c.rows[i].status) /\ r.rows[twin(i)].impact = -c.rows[i].impact
                        /\ r.rows[twin(i)].from = IF c.rows[i].from = 0 THEN 0 ELSE twin(c.rows[i].from)
\* A run compared with itself shows no change, and exchanging the two runs
\* turns every change round and keeps its origins; changes whose own time
\* went one way and critical time the other are followed in one direction
\* only, and a comparison with one of these is left out (_Explainer.chain).
ComparisonMirrors ==
    /\ IsCompared => SaysNothing(CompareProjections(projection, projection))
    /\ Explains => Mirrored(comparison, CompareProjections(projection, baseline.projection))

\* A comparison accounts for every change and reads the same backwards.
ComparisonSound == ComparisonAccounts /\ ComparisonMirrors
=============================================================================
