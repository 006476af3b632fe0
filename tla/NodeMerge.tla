----------------------------- MODULE NodeMerge -----------------------------
(***************************************************************************)
(* Per-node traces brought onto one clock and merged                       *)
(* (src/analysis/multinode.py).                                            *)
(*                                                                         *)
(* A node's trace is [spans, boot, timens, syncs, counters, explicit]:     *)
(* syncs are the hook's clock_sync instants [rank, reference, phase,       *)
(* offset, bound, at, boot, timens] in order, counters is <<>> or the      *)
(* older hooks' [offset, bound], explicit <<>> or the offset the command   *)
(* line gives.  Offsets are integers; a correction is counted in units of  *)
(* 1/Unit ns.                                                              *)
(***************************************************************************)
EXTENDS Projection

CONSTANT LamSteps            \* the bisection's resolution: lam is a multiple of 1/LamSteps
ASSUME LamAssumption == LamSteps \in Nat \ {0}
PidStride == 100             \* PID_NAMESPACE_STRIDE
Unit == 2 * LamSteps
\* round(): half to even.
RoundDiv(a, b) ==
    LET q == a \div b
        r == 2 * (a - q * b)
    IN IF r < b \/ (r = b /\ q % 2 = 0) THEN q ELSE q + 1

\* estimate_clock_offset: Cristian's algorithm.
EstimateClockOffset(t1, t2, t3, t4) ==
    [offset |-> (t2 + t3) \div 2 - (t1 + (t4 - t1) \div 2), bound |-> (t4 - t1) \div 2, round_trip |-> t4 - t1]

(***************************************************************************)
(* OffsetModel: the offset at a time of the node's own clock.              *)
(***************************************************************************)
FixedOffset(n) == [offset |-> n, t0 |-> 0, t1 |-> 0, rise |-> 0, correction |-> 0]
\* The measured drift is not extrapolated.
OffsetAt(m, t) ==
    LET at == Max({m.t0, Min({t, m.t1})})
        run == m.t1 - m.t0
    IN IF m.rise = 0 THEN RoundDiv(m.offset * Unit + m.correction, Unit)
       ELSE RoundDiv((m.offset * run + m.rise * (at - m.t0)) * Unit + m.correction * run, run * Unit)

(***************************************************************************)
(* node_clock: what a trace says of its clock.  Of several measurements of *)
(* a phase the one with the smallest bound.                                *)
(***************************************************************************)
NodeClock(t) ==
    LET own == SelectSeq(t.syncs, LAMBDA i : i.boot # "")
        measured(phase) == {k \in DOMAIN t.syncs : LET i == t.syncs[k] IN i.phase = phase /\ ~i.reference /\ i.rank # "0"}
        best(phase) == t.syncs[EarliestBy(measured(phase), LAMBDA k : t.syncs[k].bound)]
        tell == IF t.boot = "" /\ own # <<>> THEN own[1] ELSE t
    IN [boot |-> tell.boot, timens |-> tell.timens,
        rank0 |-> (\E i \in Range(t.syncs) : i.reference \/ i.rank = "0") \/ (\E s \in Range(t.spans) : IsMpi(s) /\ Tag(s, "rank") = "0"),
        samples |-> [phase \in {i.phase : i \in {j \in Range(t.syncs) : ~j.reference /\ j.rank # "0"}} |-> best(phase)]]
FirstEstimate(c, ref, t, isRef, ignoreBoot) ==
    LET a == c.samples.init
        b == c.samples.finalize
        one == IF "init" \in DOMAIN c.samples THEN a ELSE b
    IN CASE t.explicit # <<>> -> [method |-> "explicit", bound |-> 0, model |-> FixedOffset(t.explicit[1])]
         [] t.explicit = <<>> /\ isRef -> [method |-> "reference", bound |-> 0, model |-> FixedOffset(0)]
         [] t.explicit = <<>> /\ ~isRef /\ ~ignoreBoot /\ c.boot # "" /\ c.boot = ref.boot /\ c.timens = ref.timens ->
              [method |-> "same-clock", bound |-> 0, model |-> FixedOffset(0)]
         [] OTHER ->
              IF {"init", "finalize"} \subseteq DOMAIN c.samples /\ a.at # b.at
              THEN [method |-> "estimate+drift", bound |-> Max({a.bound, b.bound}),
                    model |-> [offset |-> a.offset, t0 |-> a.at, t1 |-> b.at, rise |-> b.offset - a.offset, correction |-> 0]]
              ELSE IF DOMAIN c.samples # {} THEN [method |-> "estimate", bound |-> one.bound, model |-> FixedOffset(one.offset)]
              ELSE IF t.counters # <<>> THEN [method |-> "estimate", bound |-> t.counters.bound, model |-> FixedOffset(t.counters.offset)]
              ELSE [method |-> "none", bound |-> Infinite, model |-> FixedOffset(0)]

(***************************************************************************)
(* Corrections: x_a <= x_b + w for every pair <<b, a>>, and every node     *)
(* within lam times its bound.  pairs maps <<b, a>> to w.                  *)
(***************************************************************************)
Distances(n, hops, ref) ==
    FoldLeft(LAMBDA d, k : [v \in 1 .. n |-> Min({d[v]} \cup {Plus(d[h[1]], h[3]) : h \in {x \in hops : x[2] = v}})],
             [v \in 1 .. n |-> IF v = ref THEN 0 ELSE Infinite], [k \in 1 .. n |-> k])
Settled(n, hops, d) == \A h \in hops : d[h[2]] <= Plus(d[h[1]], h[3])
\* <<>> or [lo, hi] of every node, in units of 1/LamSteps, for lam = k/LamSteps.
Region(n, ref, pairs, bounds, k) ==
    LET finite == {i \in 1 .. n : i # ref /\ bounds[i] < Infinite}
        hops == {<<p[1], p[2], pairs[p] * LamSteps>> : p \in DOMAIN pairs} \cup {<<ref, i, k * bounds[i]>> : i \in finite}
                \cup {<<i, ref, k * bounds[i]>> : i \in finite}
        back == {<<h[2], h[1], h[3]>> : h \in hops}
        hi == Distances(n, hops, ref)
        down == Distances(n, back, ref)
    IN IF ~Settled(n, hops, hi) \/ ~Settled(n, back, down) THEN <<>> ELSE <<[hi |-> hi, down |-> down]>>
MiddleOf(r, ref, v) ==
    CASE v = ref -> 0
      [] v # ref /\ r.hi[v] < Infinite /\ r.down[v] < Infinite -> r.hi[v] - r.down[v]
      [] v # ref /\ r.hi[v] >= Infinite /\ r.down[v] < Infinite -> -2 * r.down[v]
      [] v # ref /\ r.hi[v] < Infinite /\ r.down[v] >= Infinite -> 2 * r.hi[v]
      [] OTHER -> 0
Smallest(n, ref, regions, fits) ==
    IF LamSteps \notin fits THEN [ok |-> FALSE, c |-> [v \in 1 .. n |-> 0], lam |-> 0]
    ELSE [ok |-> TRUE, c |-> [v \in 1 .. n |-> MiddleOf(regions[Min(fits)][1], ref, v)], lam |-> Min(fits)]
AmongRegions(n, ref, regions) == Smallest(n, ref, regions, {k \in DOMAIN regions : regions[k] # <<>>})
\* _solve_corrections: [ok, c, lam], the smallest lam and the middle of what
\* it allows.
SolveCorrections(n, ref, pairs, bounds) ==
    IF \A p \in DOMAIN pairs : pairs[p] >= 0 THEN [ok |-> TRUE, c |-> [v \in 1 .. n |-> 0], lam |-> 0]
    ELSE AmongRegions(n, ref, [k \in 0 .. LamSteps |-> Region(n, ref, pairs, bounds, k)])

(***************************************************************************)
(* plan_offsets.                                                           *)
(***************************************************************************)
Fixed == {"explicit", "reference", "same-clock"}
Numbered(nodes) ==
    FoldLeft(LAMBDA all, k : all \o [i \in DOMAIN nodes[k].spans |-> [node |-> k, span |-> [nodes[k].spans[i] EXCEPT !.pid = @ + k * PidStride]]],
             <<>>, [k \in DOMAIN nodes |-> k])
Matched(all, exact) == P2PEdges([i \in DOMAIN all |-> all[i].span], {}, exact)
PairSlackReceiveStart(all, plans, e) ==
    LET at(i, t) == t + OffsetAt(plans[all[i].node].model, t)
    IN at(e.dst, all[e.dst].span.start) - at(e.src, all[e.src].span.start)
\* How long after its send started a receive ended.
PairSlack(all, plans, e) ==
    LET at(i, t) == t + OffsetAt(plans[all[i].node].model, t)
    IN at(e.dst, EndOf(all[e.dst].span)) - at(e.src, all[e.src].span.start)
Pairs(all, plans, edges) ==
    LET across == {e \in edges : all[e.src].node # all[e.dst].node}
        key(e) == <<all[e.dst].node, all[e.src].node>>
    IN [p \in {key(e) : e \in across} |-> Min({PairSlack(all, plans, e) : e \in {x \in across : key(x) = p}})]
ReferenceNode(clocks) == LET zero == {k \in DOMAIN clocks : clocks[k].rank0} IN IF zero = {} THEN 1 ELSE Min(zero)
FirstPlans(nodes, clocks, ref, ignoreBoot) == [k \in DOMAIN nodes |-> FirstEstimate(clocks[k], clocks[ref], nodes[k], k = ref, ignoreBoot)]
FixedNodes(plans) == {k \in DOMAIN plans : plans[k].method \in Fixed}
UnknownNodes(plans) == {k \in DOMAIN plans \ FixedNodes(plans) : plans[k].bound >= Infinite}
CorrectedPlans(plans, first, rest) ==
    [k \in DOMAIN plans |-> CASE k \in UnknownNodes(plans) -> [plans[k] EXCEPT !.method = "message order", !.model.correction = first.c[k]]
                              [] k \in FixedNodes(plans) -> plans[k]
                              [] OTHER -> [plans[k] EXCEPT !.model.correction = rest.c[k]]]
\* What the nodes without an estimate leave the other pairs, in whole ns.
PlanRest(plans, ref, pairs, first) ==
    LET given(k) == IF k \in UnknownNodes(plans) THEN first.c[k] ELSE 0
        moved == [p \in DOMAIN pairs |-> pairs[p] + (given(p[1]) - given(p[2])) \div Unit]
    IN SolveCorrections(Len(plans), ref, moved, [k \in DOMAIN plans |-> IF k \in FixedNodes(plans) \cup UnknownNodes(plans) THEN 0 ELSE plans[k].bound])
\* Nodes without an estimate, from the order of the messages alone.
PlanFirst(plans, ref, pairs) == SolveCorrections(Len(plans), ref, pairs, [k \in DOMAIN plans |-> IF k \in UnknownNodes(plans) THEN Infinite ELSE 0])
PlanOf(plans, ref, first, rest) == [ref |-> ref, plans |-> CorrectedPlans(plans, first, rest), ok |-> rest.ok, lam |-> rest.lam]
PlanSolved(plans, ref, pairs, first) == PlanOf(plans, ref, first, PlanRest(plans, ref, pairs, first))
PlanWith(plans, ref, pairs) ==
    IF FixedNodes(plans) = DOMAIN plans \/ DOMAIN pairs = {} THEN [ref |-> ref, plans |-> plans, ok |-> TRUE, lam |-> 0]
    ELSE PlanSolved(plans, ref, pairs, PlanFirst(plans, ref, pairs))
PlanMeasured(plans, ref, all, exact) == PlanWith(plans, ref, Pairs(all, plans, Matched(all, exact)))
PlanFrom(nodes, clocks, ref, exact, ignoreBoot) == PlanMeasured(FirstPlans(nodes, clocks, ref, ignoreBoot), ref, Numbered(nodes), exact)
PlanClocked(nodes, clocks, exact, ignoreBoot) == PlanFrom(nodes, clocks, ReferenceNode(clocks), exact, ignoreBoot)
PlanOffsets(nodes, exact, ignoreBoot) == PlanClocked(nodes, [k \in DOMAIN nodes |-> NodeClock(nodes[k])], exact, ignoreBoot)

(***************************************************************************)
(* merge_traces, validate_causality.                                       *)
(***************************************************************************)
MergedSpan(s, k, model) ==
    LET from == s.start + OffsetAt(model, s.start)
        to == EndOf(s) + OffsetAt(model, EndOf(s))
    IN [s EXCEPT !.pid = @ + k * PidStride, !.start = from, !.dur = Max({0, to - from}), !.tags = [node |-> ToString(k)] @@ @]
MergeTraces(nodes, plan) ==
    FoldLeft(LAMBDA out, k : out \o [i \in DOMAIN nodes[k].spans |-> MergedSpan(nodes[k].spans[i], k, plan.plans[k].model)],
             <<>>, [k \in DOMAIN nodes |-> k])
Uncorrected(plan) == {k \in DOMAIN plan.plans : k # 1 /\ plan.plans[k].method = "none"}
ValidateCausality(merged, edges) == {e \in edges : e.kind = "p2p" /\ merged[e.src].start > EndOf(merged[e.dst])}
=============================================================================
