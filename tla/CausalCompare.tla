--------------------------- MODULE CausalCompare ----------------------------
(***************************************************************************)
(* Two runs compared, a baseline and a candidate                           *)
(* (src/analysis/causal_compare.py, compare.py): their phases are aligned, *)
(* the nodes of aligned phases matched and gathered into identities, and   *)
(* every identity's change is explained and, where it only waited, moved   *)
(* to the identity it waited for.                                          *)
(*                                                                         *)
(* Similarities, scores and means are whole numbers of 1/Per; a phase or a *)
(* node is its index, 0 where there is none; a side is "a" or "b".         *)
(***************************************************************************)
EXTENDS Projection

CONSTANTS NoiseNs,           \* 1 ms
          EndTolerance       \* 50 us
ASSUME NoiseAssumption == NoiseNs \in Nat /\ EndTolerance \in Nat
Per == 27720
NoisePct == 5
MinPhaseSimilarity == (4 * Per) \div 10
MinNodeScore == (55 * Per) \div 100
MinConfidence == Per \div 2
MaxChain == 6
GatingKinds == {"p2p", "arrival", "device_wait", "device_sync", "launch", "explicit_span_id", "sequential"}
Magnitude(n) == IF n < 0 THEN -n ELSE n

(***************************************************************************)
(* compare.py: totals by category and name.                                *)
(***************************************************************************)
Direction(d) == IF d > 0 THEN "regressed" ELSE "improved"
Classify(a, b) ==
    CASE a = 0 /\ b = 0 -> "zero"
      [] a = 0 /\ b # 0 -> Direction(b - a)
      [] a # 0 /\ (100 * Magnitude(b - a) < NoisePct * Magnitude(a) \/ Magnitude(b - a) < NoiseNs) -> "unchanged"
      [] OTHER -> Direction(b - a)
\* Names with their totals, longest first.
AggregatedStats(spans) ==
    LET names == {<<s.cat, s.name>> : s \in Range(spans)}
        of(n) == {i \in DOMAIN spans : <<spans[i].cat, spans[i].name>> = n}
        rows == {[key |-> n, total |-> SumOver(of(n), LAMBDA i : spans[i].dur), count |-> Cardinality(of(n)), first |-> Min(of(n))] : n \in names}
    IN SetToSortSeq(rows, LAMBDA x, y : x.total > y.total \/ (x.total = y.total /\ x.first < y.first))
\* <<k, l>>: row k of the one and row l of the other, 0 where there is none.
\* Equal names first, then names that are shown alike.
MatchRows(ra, rb) ==
    LET same(k) == {l \in DOMAIN rb : rb[l].key = ra[k].key}
        taken == UNION {same(k) : k \in DOMAIN ra}
        alike(k, used) == {l \in DOMAIN rb \ used : rb[l].key[1] = ra[k].key[1] /\ Shown(rb[l].key[2]) = Shown(ra[k].key[2])}
        claim(st, k) == LET l == IF same(k) # {} THEN Min(same(k)) ELSE Min(alike(k, st.used) \cup {Len(rb) + 1})
                        IN IF l > Len(rb) THEN [st EXCEPT !.out = Append(@, <<k, 0>>)]
                           ELSE [used |-> st.used \cup {l}, out |-> Append(st.out, <<k, l>>)]
        st == FoldLeft(claim, [used |-> taken, out |-> <<>>], [k \in DOMAIN ra |-> k])
    IN Range(st.out) \cup {<<0, l>> : l \in DOMAIN rb \ st.used}
CompareAggregates(spansA, spansB) ==
    LET ra == AggregatedStats(spansA)
        rb == AggregatedStats(spansB)
        status(k, l) == IF k = 0 THEN "new" ELSE IF l = 0 THEN "removed" ELSE Classify(ra[k].total, rb[l].total)
    IN {[base |-> m[1], comp |-> m[2], status |-> status(m[1], m[2]),
         delta |-> (IF m[2] = 0 THEN 0 ELSE rb[m[2]].total) - (IF m[1] = 0 THEN 0 ELSE ra[m[1]].total)] : m \in MatchRows(ra, rb)}

(***************************************************************************)
(* Alignment of the phases: the best monotone one, by a table of the best  *)
(* scores of prefixes.                                                     *)
(***************************************************************************)
Jaccard(a, b) == IF a \cup b = {} THEN Per ELSE (Per * Cardinality(a \cap b)) \div Cardinality(a \cup b)
PhaseSimilarity(p, q) ==
    LET s == (Jaccard(p.tokens, q.tokens) + Jaccard(p.paths, q.paths)) \div 2
    IN IF p.kind # q.kind /\ ~({p.kind, q.kind} \subseteq {"iteration", "segment", "whole"}) THEN s \div 2 ELSE s
Duration(p) == p.end - p.start
Bonus(p, q) ==
    LET longer == Max({Duration(p), Duration(q)})
    IN IF longer = 0 THEN Per \div 100 ELSE (Per * Min({Duration(p), Duration(q)})) \div (100 * longer)
Upto(n) == [k \in 1 .. n |-> k]
ScoreTable(pa, pb) ==
    LET cell(prev, row, i, j) ==
          LET s == PhaseSimilarity(pa[i], pb[j])
          IN Max({row[j], prev[j + 1]} \cup IF s >= MinPhaseSimilarity THEN {prev[j] + s + Bonus(pa[i], pb[j])} ELSE {})
        line(prev, i) == FoldLeft(LAMBDA row, j : Append(row, cell(prev, row, i, j)), <<0>>, Upto(Len(pb)))
    IN FoldLeft(LAMBDA t, i : Append(t, line(Last(t), i)), <<[j \in 1 .. (Len(pb) + 1) |-> 0]>>, Upto(Len(pa)))
RECURSIVE Traceback(_, _, _)
\* A gap before a match on a tie.
Traceback(t, i, j) ==
    CASE i = 0 /\ j = 0 -> <<>>
      [] j > 0 /\ (i = 0 \/ t[i + 1][j + 1] = t[i + 1][Max({j, 1})]) -> Append(Traceback(t, i, j - 1), [a |-> 0, b |-> j, status |-> "inserted"])
      [] i > 0 /\ (j = 0 \/ (t[i + 1][j + 1] # t[i + 1][Max({j, 1})] /\ t[i + 1][j + 1] = t[i][j + 1])) ->
            Append(Traceback(t, i - 1, j), [a |-> i, b |-> 0, status |-> "removed"])
      [] OTHER -> Append(Traceback(t, i - 1, j - 1), [a |-> i, b |-> j, status |-> "matched"])
SameClass(p, q) == p.kind = q.kind /\ p.tokens = q.tokens /\ p.paths = q.paths
\* [pairs, conf]: an unmatched phase counts as explained when one of its
\* class was matched.
Aligned(pa, pb, pairs) ==
    LET matched == {m \in Range(pairs) : m.status = "matched"}
        known(m) == IF m.b = 0 THEN \E x \in matched : SameClass(pa[x.a], pa[m.a]) ELSE \E x \in matched : SameClass(pb[x.b], pb[m.b])
        weight(m) == (IF m.a = 0 THEN 0 ELSE Duration(pa[m.a])) + (IF m.b = 0 THEN 0 ELSE Duration(pb[m.b]))
        share(m) == IF m \in matched THEN PhaseSimilarity(pa[m.a], pb[m.b]) ELSE IF known(m) THEN Per ELSE 0
        beside(k) == {pairs[x] : x \in {k - 1, k + 1} \cap DOMAIN pairs}
        ambiguous(k) == LET m == pairs[k]
                        IN /\ m \notin matched /\ known(m)
                           /\ \E x \in beside(k) : IF m.b = 0 THEN x.a # 0 /\ SameClass(pa[x.a], pa[m.a]) ELSE x.b # 0 /\ SameClass(pb[x.b], pb[m.b])
        total == SumOver(Range(pairs), weight)
    IN [pairs |-> [k \in DOMAIN pairs |-> pairs[k] @@ [ambiguous |-> ambiguous(k)]],
        conf |-> IF total > 0 THEN SumOver(Range(pairs), LAMBDA m : share(m) * weight(m)) \div total ELSE IF pairs = <<>> THEN 0 ELSE Per]
AlignPhases(pa, pb) == Aligned(pa, pb, Traceback(ScoreTable(pa, pb), Len(pa), Len(pb)))

(***************************************************************************)
(* Matching of nodes.                                                      *)
(***************************************************************************)
PhaseNodes(p, k) == SelectSeq(Upto(Len(p.nodes)), LAMBDA n : p.nodes[n].phase = k)
Neighbourhood(p, n) ==
    LET other(o) == IF p.nodes[o].key = p.nodes[n].key THEN <<"self">> ELSE p.nodes[o].leaf
    IN {<<"in", e.kind, other(e.src)>> : e \in {x \in p.edges : x.dst = n}} \cup {<<"out", e.kind, other(e.dst)>> : e \in {x \in p.edges : x.src = n}}
RECURSIVE Common(_, _)
\* difflib: the elements in common, around the longest run in common.
Common(s, t) ==
    LET runs == {r \in (1 .. Len(s)) \X (1 .. Len(t)) \X (1 .. Len(s)) :
                   r[1] + r[3] - 1 <= Len(s) /\ r[2] + r[3] - 1 <= Len(t) /\ SubSeq(s, r[1], r[1] + r[3] - 1) = SubSeq(t, r[2], r[2] + r[3] - 1)}
        r == CHOOSE x \in runs : \A y \in runs : ~LexLess(<<-y[3], y[1], y[2]>>, <<-x[3], x[1], x[2]>>)
    IN IF runs = {} THEN 0
       ELSE r[3] + Common(SubSeq(s, 1, r[1] - 1), SubSeq(t, 1, r[2] - 1)) + Common(SubSeq(s, r[1] + r[3], Len(s)), SubSeq(t, r[2] + r[3], Len(t)))
Sourced(n) == n.source # <<None>>
NodeScore(a, b, na, nb) ==
    LET path == (2 * Per * Common(a.key.path, b.key.path)) \div (Len(a.key.path) + Len(b.key.path))
        roles == (Per \div 5) * Cardinality({r \in {"rank", "thread", "stream", "device", "comm"} : a.key[r] = b.key[r]})
        src == IF Sourced(a) /\ Sourced(b) THEN IF a.source = b.source THEN Per ELSE 0 ELSE Per \div 2
        near == IF na \cup nb = {} THEN Per \div 2 ELSE Jaccard(na, nb)
        score == (2 * path + roles + src + near) \div 5
    IN IF a.key.backend # b.key.backend THEN 0
       ELSE IF a.leaf = b.leaf THEN score ELSE IF Sourced(a) /\ src = Per THEN (8 * score) \div 10 ELSE 0
RECURSIVE Greedy(_)
Greedy(cands) ==
    LET key(c) == <<-c.s, -c.w, c.a, c.b>>
        best == CHOOSE c \in cands : \A d \in cands : ~LexLess(key(d), key(c))
    IN IF cands = {} THEN <<>> ELSE <<[a |-> best.a, b |-> best.b, s |-> best.s]>> \o Greedy({c \in cands : c.a # best.a /\ c.b # best.b})
MatchNodes(pa, na, pb, nb) ==
    LET A(n) == pa.nodes[n]
        B(n) == pb.nodes[n]
        twins(n) == {m \in Range(nb) : B(m).key = A(n).key}
        exact == SelectSeq(na, LAMBDA n : twins(n) # {})
        restA == SelectSeq(na, LAMBDA n : twins(n) = {})
        restB == SelectSeq(nb, LAMBDA m : ~\E n \in Range(na) : A(n).key = B(m).key)
        near == {p \in Range(restA) \X Range(restB) : A(p[1]).leaf = B(p[2]).leaf \/ (Sourced(A(p[1])) /\ A(p[1]).source = B(p[2]).source)}
        scored == {[a |-> p[1], b |-> p[2], w |-> A(p[1]).self + B(p[2]).self,
                    s |-> NodeScore(A(p[1]), B(p[2]), Neighbourhood(pa, p[1]), Neighbourhood(pb, p[2]))] : p \in near}
        found == Greedy({c \in scored : c.s >= MinNodeScore})
        pair(n, m, s) == [a |-> n, b |-> m, s |-> s]
    IN Each(exact, LAMBDA n : pair(n, Min(twins(n)), Per)) \o found
       \o Each(SelectSeq(restA, LAMBDA n : ~\E c \in Range(found) : c.a = n), LAMBDA n : pair(n, 0, 0))
       \o Each(SelectSeq(restB, LAMBDA m : ~\E c \in Range(found) : c.b = m), LAMBDA m : pair(0, m, 0))
=============================================================================
