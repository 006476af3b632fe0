------------------------------- MODULE Worlds -------------------------------
(***************************************************************************)
(* What the trace does not decide (src/analysis/evidence.py,               *)
(* cp_alternatives.py, edge_calibration.py): the status of each span-level *)
(* edge, the alternatives to it, the critical path in each world they      *)
(* allow, and the probability a calibration gives an edge.                 *)
(***************************************************************************)
EXTENDS PathModel

(***************************************************************************)
(* Evidence.  A candidate is a span-level edge; its status says what the   *)
(* trace has for and against it.                                           *)
(***************************************************************************)
BecameArcs(g, e) == Arcs(g.spans, g.t, e)
SameArc(a, x) == \A k \in DOMAIN a : x[k] = a[k]
InModel(g, e) == \E a \in BecameArcs(g, e) : \E x \in g.edges : SameArc(a, x)
DroppedInTime(g, e) == \E a \in BecameArcs(g, e) : ~InTime(g.t, a)
Disabled(g, e) == BecameArcs(g, e) # {} /\ ~InModel(g, e)
FallbackProvenance(e) ==
    CASE e.kind = "p2p" -> "posting_order"
      [] e.kind = "launch" -> "correlation_id"
      [] e.kind \in {"device_wait", "device_sync"} -> "sync_target"
      [] e.kind = "sequential" -> "thread_timeline"
      [] e.kind = "explicit_span_id" -> "explicit_id"
      [] e.kind \in {"task_join", "task_dep"} -> "task_id"
      [] e.kind = "lock_order" -> "lock_handoff"
      [] OTHER -> IF Rank(e.conf) >= Rank("high") THEN "call_order" ELSE "time_overlap"
ProvenanceOf(g, e) == LET held == {a \in BecameArcs(g, e) : InTime(g.t, a)}
                      IN IF held = {} THEN FallbackProvenance(e) ELSE (CHOOSE a \in held : TRUE).prov
\* The question an edge answers, and whether it has one answer only.
GroupOf(e) == IF e.kind \in {"launch", "arrival", "device_wait"} THEN <<e.kind, e.dst>> ELSE <<"single", e>>
OneAnswer(e) == e.kind \in {"launch", "arrival", "p2p"}
StatusAlone(g, e) == IF DroppedInTime(g, e) \/ Disabled(g, e) THEN "contradicted"
                     ELSE IF EdgeClass(ProvenanceOf(g, e), e.conf) = "direct" THEN "observed" ELSE "inferred"
\* alts are the alternatives [edge, contests]: an alternative joins the
\* question of the edge it contests.
EvidenceStatus(g, deps, alts, contested, e) ==
    LET live == {x \in deps : GroupOf(x) = GroupOf(e) /\ StatusAlone(g, x) # "contradicted"}
        rivals == {a \in alts : GroupOf(a.contests) = GroupOf(e)}
    IN IF StatusAlone(g, e) = "contradicted" THEN "contradicted"
       ELSE IF (OneAnswer(e) /\ Cardinality(live) + Cardinality(rivals) > 1) \/ e \in contested THEN "ambiguous"
       ELSE StatusAlone(g, e)

(***************************************************************************)
(* Generators.  A unit is [gen, options, touches]; an option is [remove,   *)
(* add], sets of edges; the recorded world is the option that does nothing.*)
(***************************************************************************)
AsRecorded == [remove |-> {}, add |-> {}]
Option(remove, add) == [remove |-> remove, add |-> add]

\* _p2p_alignment.  A channel's sends in time order, and its pairings in
\* the order of their sends.
ChannelOf(s) == <<Tag(s, "rank"), IF Has(s, "wpeer") THEN s.tags.wpeer ELSE Tag(s, "peer"), Tag(s, "tag"), Tag(s, "commid")>>
SendsOf(g, ch) ==
    Ordered({i \in DOMAIN g.spans : /\ IsMpi(g.spans[i]) /\ ChannelOf(g.spans[i]) = ch
                                    /\ Tag(g.spans[i], "type") \in SendTypes
                                       \/ (Tag(g.spans[i], "type") = "start" /\ Tag(g.spans[i], "ptype") = "send")},
            LAMBDA a, b : g.t[Start(a)] < g.t[Start(b)] \/ (g.t[Start(a)] = g.t[Start(b)] /\ a < b))
At(sends, i) == CHOOSE k \in DOMAIN sends : sends[k] = i
\* The run of consecutive pairings around p: positions of its sends.
RunOf(sends, pairs, p) ==
    LET paired == {At(sends, q.src) : q \in pairs}
        k == At(sends, p.src)
    IN {m \in paired : \A x \in Min({m, k}) .. Max({m, k}) : x \in paired}
ShiftOptionsUp(g, sends, pairs, lost, run) == {}
ShiftOptions(g, sends, pairs, lost, run) ==
    LET lo == Min(run)
        hi == Max(run)
        pair(k) == CHOOSE q \in pairs : q.src = sends[k]
        to(k, m) == Edge(pair(k).dst, sends[m], "p2p", "low")
        fits(k) == g.t[Start(sends[k + 1])] <= g.t[Fin(pair(k).dst)]
        of(a, b) == {pair(k) : k \in a .. b}
    IN {Option(of(i, hi), {to(k, k + 1) : k \in i .. hi}) : i \in {j \in run : hi < Len(sends) /\ \A k \in j .. hi : fits(k)}}
       \cup {Option(of(lo, i), {to(k, k - 1) : k \in lo .. i}) : i \in {j \in run : lo > 1}}
       \cup {Option(of(i, hi), {to(k, k - 1) : k \in (i + 1) .. hi}) : i \in {j \in run : lost}}
AlignmentUnits(g, deps) ==
    LET p2p == {e \in deps : e.kind = "p2p" /\ IsMpi(g.spans[e.src])}
        of(ch) == {e \in p2p : ChannelOf(g.spans[e.src]) = ch}
        lost(ch) == \E e \in of(ch) : e.conf = "low"
        open == {ch \in {ChannelOf(g.spans[e.src]) : e \in p2p} :
                   /\ Len(SendsOf(g, ch)) > Cardinality(of(ch)) \/ lost(ch)
                   /\ \A d, e \in of(ch) : d # e => d.src # e.src}
        unit(ch) == [gen |-> "p2p_alignment",
                     options |-> {AsRecorded} \cup UNION {ShiftOptions(g, SendsOf(g, ch), of(ch), lost(ch), RunOf(SendsOf(g, ch), of(ch), p)) : p \in of(ch)},
                     touches |-> {e.dst : e \in of(ch)} \cup Range(SendsOf(g, ch))]
    IN {u \in {unit(ch) : ch \in open} : Cardinality(u.options) > 1}

\* _last_arriver: another member within the clocks' uncertainty as the last.
LastArriverUnits(g, deps) ==
    LET arrivals == {e \in deps : e.kind = "arrival"}
        of(last) == {e \in arrivals : e.src = last}
        runner(last) == LatestBy({e.dst : e \in of(last)}, LAMBDA j : g.t[Start(j)])
        gap(last) == g.t[Start(last)] - g.t[Start(runner(last))]
        undecided(last) == LET a == g.domain[runner(last)]
                               b == g.domain[last]
                           IN IF a = b THEN gap(last) <= 0 ELSE OffsetHi(g, a, b) > gap(last)
        conf(last) == (CHOOSE e \in of(last) : TRUE).conf
        swapped(last) == {Edge(j, runner(last), "arrival", conf(last)) : j \in ({last} \cup {e.dst : e \in of(last)}) \ {runner(last)}}
    IN {[gen |-> "last_arriver", options |-> {AsRecorded, Option(of(last), swapped(last))},
         touches |-> {last} \cup {e.dst : e \in of(last)}] : last \in {l \in {e.src : e \in arrivals} : undecided(l)}}

\* _launch_corr: operations whose correlation id matched several host
\* calls, grouped by the calls they share; one moves to a call nothing
\* uses, or two trade theirs.
LaunchUnits(g, deps) ==
    LET launches == {e \in deps : e.kind = "launch"}
        used == {e.src : e \in launches}
        others(e) == {h \in DOMAIN g.spans : /\ h # e.src /\ IsHostSubmission(g.spans[h]) /\ g.spans[h].pid = g.spans[e.dst].pid
                                             /\ Tag(g.spans[h], "rt") = Tag(g.spans[e.dst], "rt")
                                             /\ Ids(g.spans[h]) \cap Ids(g.spans[e.dst]) # {}
                                             /\ g.t[Start(h)] <= g.t[Start(e.dst)] + ClockTolerance}
        open == {e \in launches : e.conf = "high" /\ others(e) # {}}
        reach(e) == {e.src} \cup others(e)
        joined(S) == {e \in open : reach(e) \cap UNION {reach(x) : x \in S} # {}}
        group(e) == FoldLeft(LAMBDA S, k : joined(S), {e}, [k \in 1 .. Cardinality(open) |-> k])
        to(e, h) == Edge(e.dst, h, "launch", "high")
        options(S) == UNION {{Option({e}, {to(e, h)}) : h \in others(e) \ used} : e \in S}
                      \cup {Option({p[1], p[2]}, {to(p[1], p[2].src), to(p[2], p[1].src)}) :
                              p \in {q \in S \X S : q[1].src # q[2].src /\ q[2].src \in others(q[1]) /\ q[1].src \in others(q[2])}}
    IN {u \in {[gen |-> "launch_corr", options |-> {AsRecorded} \cup options(group(e)),
                touches |-> {x.dst : x \in group(e)} \cup UNION {reach(x) : x \in group(e)}] : e \in open} : Cardinality(u.options) > 1}

Units(g, deps) == AlignmentUnits(g, deps) \cup LastArriverUnits(g, deps) \cup LaunchUnits(g, deps)

(***************************************************************************)
(* Worlds.  choice gives one option of each unit.                          *)
(***************************************************************************)
WorldEdges(deps, choice) ==
    (deps \ UNION {choice[u].remove : u \in DOMAIN choice}) \cup UNION {choice[u].add : u \in DOMAIN choice}
WorldChoices(units) == {f \in [units -> UNION {u.options : u \in units}] : \A u \in units : f[u] \in u.options}
Touching(units, spans) == {u \in units : u.touches \cap spans # {}}
\* The alternative of a unit that a one-change world takes: one that changes
\* an edge of a span of the path, any when none does.
EndsOf(o) == UNION {{e.src, e.dst} : e \in o.remove \cup o.add}
FirstTouching(u, spans) ==
    LET hits == {o \in u.options : EndsOf(o) \cap spans # {}}
    IN IF hits = {} THEN u.options \ {AsRecorded} ELSE hits
\* The observed path of a world.
EvaluateGraph(g, nodes) == LET w == Walk(g, Default) IN [spans |-> WalkSpans(w), covered |-> Covered(w)]
\* The alternatives join the question of the edge they would replace; a
\* matched receive whose send may be the lost record has none of them.
Rivals(units) ==
    LET contests(o, a) == LET same == {r \in o.remove : r.dst = a.dst} IN CHOOSE r \in (IF same = {} THEN o.remove ELSE same) : TRUE
    IN UNION {UNION {{[edge |-> a, contests |-> contests(o, a)] : a \in o.add} : o \in u.options} : u \in units}
ContestedIn(units) ==
    UNION {UNION {{r \in o.remove : \A a \in o.add : a.dst # r.dst} : o \in u.options} : u \in {x \in units : x.gen = "p2p_alignment"}}
\* Every candidate with its status and its provenance.
WithAlternatives(g, deps, units) ==
    {[edge |-> e, prov |-> ProvenanceOf(g, e), status |-> EvidenceStatus(g, deps, Rivals(units), ContestedIn(units), e)] : e \in deps}
    \cup {[edge |-> a.edge, prov |-> FallbackProvenance(a.edge), status |-> "unsupported"] : a \in Rivals(units)}

\* The event graph of the default world's spans, its clocks already shifted.
Evaluate(g, deps, nodes) == EvaluateGraph(AssembleGraph(g.spans, deps, nodes, g.clock.shift), nodes)

(***************************************************************************)
(* Calibration: an isotonic fit of labels on evidence scores.  Points are  *)
(* <<score, sum of labels, count>> with scores increasing; a block is      *)
(* <<sum, count, first, last>>.                                            *)
(***************************************************************************)
StatusOrder(s) == CASE s = "contradicted" -> 0 [] s = "unsupported" -> 1 [] s = "ambiguous" -> 2 [] s = "inferred" -> 3 [] s = "observed" -> 4
EvidenceScore(status, conf, class) == 100 * StatusOrder(status) + 10 * Rank(conf) + IF class = "direct" THEN 1 ELSE 0
ScoreOf(c) == EvidenceScore(c.status, c.edge.conf, EdgeClass(c.prov, c.edge.conf))
\* Examples are [score, label, of].
Points(examples) ==
    LET scores == SetToSortSeq({e.score : e \in examples}, LAMBDA a, b : a < b)
        at(x) == {e \in examples : e.score = x}
    IN [i \in DOMAIN scores |-> <<scores[i], Cardinality({e \in at(scores[i]) : e.label}), Cardinality(at(scores[i]))>>]
\* a / b > c / d
Above(x, y) == x[1] * y[2] > y[1] * x[2]
PoolOnce(blocks) ==
    LET n == Len(blocks)
    IN IF n > 1 /\ Above(blocks[n - 1], blocks[n])
       THEN Append(SubSeq(blocks, 1, n - 2),
                   <<blocks[n - 1][1] + blocks[n][1], blocks[n - 1][2] + blocks[n][2], blocks[n - 1][3], blocks[n][4]>>)
       ELSE blocks
RECURSIVE Pool(_)
Pool(blocks) == IF PoolOnce(blocks) = blocks THEN blocks ELSE Pool(PoolOnce(blocks))
Blocks(points) == FoldLeft(LAMBDA bs, k : Pool(Append(bs, <<points[k][2], points[k][3], k, k>>)), <<>>, [k \in DOMAIN points |-> k])
Pav(points) == LET bs == Blocks(points)
               IN [k \in DOMAIN points |-> LET b == CHOOSE x \in Range(bs) : x[3] <= k /\ k <= x[4] IN <<b[1], b[2]>>]
\* Calibration.probability: the fitted value of the next lower score.
Probability(points, score) ==
    LET below == {k \in DOMAIN points : points[k][1] <= score} IN Pav(points)[IF below = {} THEN 1 ELSE Max(below)]
=============================================================================
