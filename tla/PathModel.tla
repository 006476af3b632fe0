----------------------------- MODULE PathModel -----------------------------
(***************************************************************************)
(* What the critical-path report says of an event graph: the composition   *)
(* of the observed path, the modeled longest path and what is critical to  *)
(* it (src/analysis/cp_model.py), blame for waiting and the replay of an   *)
(* intervention (src/analysis/cp_attribution.py), and the whole analysis   *)
(* of a trace (criticalpath.analyze).                                      *)
(***************************************************************************)
EXTENDS EventGraph

CONSTANTS JointNs,           \* blame's joint_ns
          BlameDepth         \* blame's depth

ASSUME BlameAssumption == JointNs \in Nat /\ BlameDepth \in Nat

SumOver(S, F(_)) == FoldSet(LAMBDA x, n : n + F(x), 0, S)

(***************************************************************************)
(* Longest path by required time; the work of the spans in zero counts for *)
(* nothing.                                                                *)
(***************************************************************************)
Default == [gaps |-> FALSE, direct |-> FALSE, gated |-> FALSE]
Variants == {Default, [Default EXCEPT !.gaps = TRUE], [Default EXCEPT !.direct = TRUE], [Default EXCEPT !.gated = TRUE]}
Headline == [Default EXCEPT !.gaps = TRUE]
RequiredBut(e, opt, zero) ==
    IF (IF e.mode = "dep" THEN SpanOf(e.dst) ELSE e.owner) \in zero /\ e.mode \in {"busy", "wait", "dep"} THEN 0 ELSE Required(e, opt)
Longest(g, opt, zero) ==
    FoldLeft(LAMBDA F, v : [F EXCEPT ![v] = Max({0} \cup {F[e.src] + RequiredBut(e, opt, zero) : e \in Into(g, v, opt)})],
             [v \in g.nodes |-> 0], g.order)
LongestNs(g, opt, zero) == LET F == Longest(g, opt, zero) IN Max({0} \cup {F[v] : v \in g.nodes})
Backward(g, opt) ==
    FoldLeft(LAMBDA B, v : [B EXCEPT ![v] = Max({0} \cup {B[e.dst] + Required(e, opt) : e \in {f \in g.edges : f.src = v}})],
             [v \in g.nodes |-> 0], Reverse(g.order))

(***************************************************************************)
(* Criticality: a tight edge lies on some longest path; on every one iff   *)
(* it alone crosses some cut of the topological order (paths run from a    *)
(* virtual source before it to a virtual sink behind it).                  *)
(***************************************************************************)
Position(g) == [v \in Range(g.order) |-> CHOOSE k \in DOMAIN g.order : g.order[k] = v]
Tight(g, F, B, L) == {e \in g.edges : F[e.src] + Required(e, Headline) + B[e.dst] = L}
CrossingEdgesOnly(g, F, B, L, pos, c) == Cardinality({e \in Tight(g, F, B, L) : pos[e.src] < c /\ c <= pos[e.dst]})
Crossing(g, F, B, L, pos, c) ==
    Cardinality({e \in Tight(g, F, B, L) : pos[e.src] < c /\ c <= pos[e.dst]})
    + Cardinality({v \in Range(g.order) : B[v] = L /\ c <= pos[v]}) + Cardinality({v \in Range(g.order) : F[v] = L /\ pos[v] < c})
Criticality(g) ==
    LET F == Longest(g, Headline, {})
        B == Backward(g, Headline)
        L == Max({0} \cup {F[v] : v \in g.nodes})
        pos == Position(g)
        single == {c \in 1 .. (Len(g.order) + 1) : Crossing(g, F, B, L, pos, c) = 1}
        busy == {e \in g.edges : e.mode = "busy" /\ e.d > 0}
        some == busy \cap Tight(g, F, B, L)
        all == {e \in some : \E c \in single : pos[e.src] < c /\ c <= pos[e.dst]}
        own(S, j) == {e \in S : e.owner = j}
    IN [length |-> L, some |-> some, all |-> all,
        on_some |-> {e.owner : e \in some}, on_all |-> {e.owner : e \in all},
        slack |-> [j \in {e.owner : e \in busy} |-> Min({L - (F[e.src] + e.d + B[e.dst]) : e \in own(busy, j)})],
        work |-> [j \in {e.owner : e \in some} |-> SumOver(own(some, j), LAMBDA e : e.d)]]

(***************************************************************************)
(* The observed path as rows, as spans, and by what its time was.          *)
(***************************************************************************)
Owning == {"busy", "wait", "unknown"}
LegacyKind(kind) == CASE kind \in {"thread", "device_work", "stream_order", "event_wait"} -> "sequential"
                      [] kind \in {"fork", "join"} -> "explicit_span_id"
                      [] OTHER -> kind
\* Consecutive steps of one owner in one mode are one row.
AddRowOf(g, rows, e, ns) ==
    LET row == [span |-> IF e.mode \in Owning THEN e.owner ELSE SpanOf(e.dst), own |-> IF e.mode \in Owning THEN ns ELSE 0,
                other |-> IF e.mode \in Owning THEN 0 ELSE ns, start |-> g.t[e.src], end |-> g.t[e.dst], mode |-> e.mode,
                kind |-> e.kind, conf |-> e.conf, source |-> IF e.mode = "dep" THEN SpanOf(e.src) ELSE 0]
        last == rows[Len(rows)]
    IN IF e.mode \in Owning /\ rows # <<>> /\ last.span = e.owner /\ last.mode = e.mode /\ last.end = g.t[e.src]
       THEN [rows EXCEPT ![Len(rows)] = [last EXCEPT !.own = @ + ns, !.end = g.t[e.dst]]]
       ELSE Append(rows, row)
PathRows(g, w) == FoldLeft(LAMBDA rows, k : AddRowOf(g, rows, w.steps[k], w.cover[k]), <<>>, [k \in DOMAIN w.steps |-> k])
\* Spans in the order they are met, the time each owns on the path, the
\* time before it, and the step that reached it.
Meet(view, j, kind, conf) ==
    IF \E k \in DOMAIN view : view[k].span = j THEN view
    ELSE Append(view, [span |-> j, credited |-> 0, gap |-> 0, kind |-> kind, conf |-> conf])
Credit(view, j, own, gap) ==
    [k \in DOMAIN view |-> IF view[k].span = j THEN [view[k] EXCEPT !.credited = @ + own, !.gap = @ + gap] ELSE view[k]]
ViewStep(view, e, ns) ==
    LET kind == LegacyKind(e.kind)
    IN IF e.mode \in Owning THEN Meet(Credit(Meet(view, e.owner, kind, e.conf), e.owner, ns, 0), SpanOf(e.dst), kind, e.conf)
       ELSE Credit(Meet(view, SpanOf(e.dst), kind, e.conf), SpanOf(e.dst), 0, ns)
SpanView(w) ==
    IF w.first = 0 THEN <<>>
    ELSE FoldLeft(LAMBDA view, k : ViewStep(view, w.steps[k], w.cover[k]), Meet(<<>>, SpanOf(w.first), "", ""), [k \in DOMAIN w.steps |-> k])
\* Time on the path by any label of its steps.
TimeBy(w, Label(_)) ==
    [x \in {Label(e) : e \in Range(w.steps)} |-> SumOver({k \in DOMAIN w.steps : Label(w.steps[k]) = x}, LAMBDA k : w.cover[k])]
ByMode(w) == TimeBy(w, LAMBDA e : e.mode)
ByTier(w) == TimeBy(w, LAMBDA e : e.conf)
ByClass(w) == TimeBy(w, LAMBDA e : EdgeClass(e.prov, e.conf))
ByProvenance(w) == TimeBy(w, LAMBDA e : e.prov)
\* The extent when the path starts and ends on different clocks; -1 for no
\* upper end.
CoveredRange(g, w) ==
    LET a == g.domain[SpanOf(w.sink)]
        b == g.domain[SpanOf(w.first)]
        hi == Plus(g.clock.hi[a], IF g.clock.lo[b] <= -Infinite THEN Infinite ELSE -g.clock.lo[b])
        wide == Plus(g.clock.hi[b], IF g.clock.lo[a] <= -Infinite THEN Infinite ELSE -g.clock.lo[a])
    IN IF w.first = 0 \/ a = b THEN <<Covered(w), Covered(w)>>
       ELSE <<IF wide >= Infinite THEN 0 ELSE Max({0, Covered(w) - wide}), IF hi >= Infinite THEN -1 ELSE Covered(w) + hi>>
\* _alternatives: the spans every variant's path passes, and the extremes
\* of the modeled length.
Alternatives(g) ==
    LET spans == [o \in Variants |-> WalkSpans(Walk(g, o))]
        modeled == {LongestNs(g, o, {}) : o \in Variants} \cup {LongestNs(g, Headline, {})}
        every == {j \in spans[Default] : \A o \in Variants : j \in spans[o]}
        w == Walk(g, Default)
        rest == {k \in DOMAIN w.steps : w.steps[k].mode \in Owning /\ w.steps[k].owner \notin every}
    IN [every |-> every, some |-> UNION {spans[o] : o \in Variants}, only_ns |-> SumOver(rest, LAMBDA k : w.cover[k]),
        range |-> <<Min(modeled), Max(modeled)>>]
GraphEvidence(g) ==
    LET deps == {e \in g.edges : e.mode \in {"dep", "idle"}}
        count(F(_)) == [x \in {F(e) : e \in deps} |-> Cardinality({e \in deps : F(e) = x})]
    IN [provenance |-> count(LAMBDA e : e.prov), class |-> count(LAMBDA e : EdgeClass(e.prov, e.conf)),
        tier |-> count(LAMBDA e : e.conf), kind |-> count(LAMBDA e : e.kind)]

(***************************************************************************)
(* Replay: every event as early as its predecessors allow, plus the time   *)
(* it had after them in the recording.  scale gives the spans whose busy   *)
(* time is set to zero.                                                    *)
(***************************************************************************)
Delta(e, zero) == CASE e.mode = "busy" -> IF e.owner \in zero THEN 0 ELSE e.d
                    [] e.mode \in {"gap", "unknown"} -> e.d
                    [] OTHER -> 0
Residuals(g) ==
    [v \in g.nodes |-> LET into == Into(g, v, Default)
                       IN IF into = {} THEN -1 ELSE Max({0, g.t[v] - Max({g.t[e.src] + Delta(e, {}) : e \in into})})]
Replay(g, zero) ==
    LET res == Residuals(g)
    IN FoldLeft(LAMBDA tp, v : [tp EXCEPT ![v] = IF res[v] < 0 THEN g.t[v]
                                                 ELSE res[v] + Max({tp[e.src] + Delta(e, zero) : e \in Into(g, v, Default)})],
                [v \in g.nodes |-> 0], g.order)
RunEnd(g, tp) == Max({0} \cup {tp[v] : v \in Range(g.order)})
\* _sensitivity of one candidate: graph estimate and replay.
Reduction(g, zero) == [modeled |-> LongestNs(g, Headline, {}) - LongestNs(g, Headline, zero),
                       replayed |-> RunEnd(g, g.t) - RunEnd(g, Replay(g, zero))]

(***************************************************************************)
(* Blame.  Shares are fractions <<numerator, denominator>>; a charge is    *)
(* [to, share], to being a span or what is not one.                        *)
(***************************************************************************)
Unrecorded == -1
DeviceIdle == -2
Unknown == -3
RECURSIVE Gcd(_, _)
Gcd(a, b) == IF b = 0 THEN a ELSE Gcd(b, a % b)
Frac(n, d) == LET k == Gcd(n, d) IN <<n \div k, d \div k>>
AddF(a, b) == Frac(a[1] * b[2] + b[1] * a[2], a[2] * b[2])
TimesF(a, n, d) == LET k == Gcd(n, d) IN Frac(a[1] * (n \div k), a[2] * (d \div k))
SumF(charges) == FoldLeft(LAMBDA s, c : AddF(s, c.share), <<0, 1>>, charges)

LaneKinds == {"thread", "device_work", "stream_order"}
LanePred(g, v) == {e \in g.edges : e.dst = v /\ e.kind \in LaneKinds}
GateEdges(g, j) == {e \in g.edges : e.dst = Fin(j) /\ e.mode = "dep"}
OffsetHi(g, a, b) == Plus(g.clock.hi[a], IF g.clock.lo[b] <= -Infinite THEN Infinite ELSE -g.clock.lo[b])
\* Sources that released together, as far as the clocks can tell.
Joint(g, srcs) ==
    LET late == CHOOSE e \in srcs : \A f \in srcs : g.t[f.src] <= g.t[e.src]
        behind(e) == g.t[late.src] - g.t[e.src]
        dom(e) == g.domain[SpanOf(e.src)]
    IN {e \in srcs : behind(e) <= JointNs \/ (dom(e) # dom(late) /\ OffsetHi(g, dom(e), dom(late)) >= behind(e))}
\* The parts of [a, b] the lane spent on each edge, backwards from v.
RECURSIVE Pieces(_, _, _, _)
Pieces(g, v, a, b) ==
    LET e == CHOOSE x \in LanePred(g, v) : TRUE
        over == Min({b, g.t[v]}) - Max({a, g.t[e.src]})
        here == IF over > 0 THEN <<[edge |-> e, ns |-> over]>> ELSE <<>>
    IN IF LanePred(g, v) = {} THEN <<>> ELSE IF g.t[e.src] <= a THEN here ELSE here \o Pieces(g, e.src, a, b)
Charges(S, For(_)) == FoldSet(LAMBDA x, cs : cs \o For(x), <<>>, S)
RECURSIVE Charge(_, _, _, _, _, _), ChargePiece(_, _, _, _, _, _)
Charge(g, v, a, b, share, level) ==
    LET ps == Pieces(g, v, a, b)
        covered == FoldLeft(LAMBDA n, p : n + p.ns, 0, ps)
    IN CASE share[1] <= 0 -> <<>>
         [] share[1] > 0 /\ b <= a -> <<[to |-> SpanOf(v), share |-> share]>>
         [] share[1] > 0 /\ b > a /\ covered <= 0 -> <<[to |-> Unrecorded, share |-> share]>>
         [] OTHER -> Charges(DOMAIN ps, LAMBDA k : ChargePiece(g, ps[k].edge, a, b, TimesF(share, ps[k].ns, covered), level))
\* Inside a gated call of the source, the time until its own release passes
\* on to what released it.
ChargePiece(g, e, a, b, part, level) ==
    LET j == e.owner
        lo == Max({a, g.t[e.src]})
        hi == Min({b, g.t[e.dst]})
        waited == Max({0, Min({hi, g.release[j]}) - lo})
        passed == TimesF(part, waited, hi - lo)
        own == <<[to |-> j, share |-> TimesF(part, hi - lo - waited, hi - lo)]>>
        joint == Joint(g, GateEdges(g, j))
    IN CASE e.mode = "busy" -> <<[to |-> j, share |-> part]>>
         [] e.mode = "idle" -> <<[to |-> DeviceIdle, share |-> part]>>
         [] e.mode = "unknown" -> <<[to |-> Unknown, share |-> part]>>
         [] e.mode = "gap" -> <<[to |-> Unrecorded, share |-> part]>>
         [] e.mode = "wait" /\ waited = 0 -> own
         [] e.mode = "wait" /\ waited > 0 /\ level >= BlameDepth -> own \o <<[to |-> j, share |-> passed]>>
         [] e.mode = "wait" /\ waited > 0 /\ level < BlameDepth /\ GateEdges(g, j) = {} -> own \o <<[to |-> Unknown, share |-> passed]>>
         [] OTHER -> own \o Charges(joint, LAMBDA s : Charge(g, s.src, lo, Min({hi, Max({lo, g.t[s.src]})}),
                                                           TimesF(passed, 1, Cardinality(joint)), level + 1))
Waiting(g, j) == Min({g.t[Fin(j)], Max({g.t[e.src] : e \in GateEdges(g, j)})}) - g.t[Start(j)]
Waiters(g) == {j \in g.gated : ~Excluded(g.spans[j]) /\ GateEdges(g, j) # {} /\ Waiting(g, j) > 0}
Blame(g) ==
    Charges(Waiters(g), LAMBDA j : LET joint == Joint(g, GateEdges(g, j))
                                   IN Charges(joint, LAMBDA e : Charge(g, e.src, g.t[Start(j)], Min({g.t[Fin(j)], Max({g.t[Start(j)], g.t[e.src]})}),
                                                                       <<Waiting(g, j), Cardinality(joint)>>, 0)))
WaitingNs(g) == SumOver(Waiters(g), LAMBDA j : Waiting(g, j))

(***************************************************************************)
(* criticalpath.analyze: the report of a trace.                            *)
(***************************************************************************)
Analyze(spans, g, w) ==
    LET by(modes, Cat(_)) == LET ks == {k \in DOMAIN w.steps : w.steps[k].mode \in modes}
                             IN [c \in {Cat(w.steps[k]) : k \in ks} |-> SumOver({k \in ks : Cat(w.steps[k]) = c}, LAMBDA k : w.cover[k])]
    IN [wall |-> WallNs(spans), total |-> Covered(w),
        on_path |-> by(Owning, LAMBDA e : spans[e.owner].cat),
        waited |-> by({"dep", "idle", "gap"}, LAMBDA e : IF e.mode = "gap" THEN "(unrecorded)" ELSE spans[SpanOf(e.src)].cat)]
=============================================================================
