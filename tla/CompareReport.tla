--------------------------- MODULE CompareReport ----------------------------
(***************************************************************************)
(* The report of a comparison (src/analysis/causal_compare.py): matched    *)
(* nodes gathered into identities, each identity's change explained, and   *)
(* the change of the critical path attributed to its origins.              *)
(***************************************************************************)
EXTENDS CausalCompare

(***************************************************************************)
(* Identities: pairs of keys, <<>> for a side without one.  A cell is what *)
(* an identity has in one pair of phases.                                  *)
(***************************************************************************)
Absent == <<>>
NodeKey(p, n) == IF n = 0 THEN Absent ELSE p.nodes[n].key
KeysOf(p, k) == {p.nodes[n].key : n \in Range(PhaseNodes(p, k))}
NodeWith(p, k, key) == IF key = Absent THEN 0 ELSE CHOOSE n \in Range(PhaseNodes(p, k)) : p.nodes[n].key = key
Attach(st, cell, ident) ==
    LET known == {i \in DOMAIN st.idents : st.idents[i] = ident}
        id == Min(known \cup {Len(st.idents) + 1})
    IN [idents |-> IF known = {} THEN Append(st.idents, ident) ELSE st.idents, cells |-> Append(st.cells, cell @@ [id |-> id])]
\* Phases of the same keys are matched as the first of them was.
Mapping(pa, pb, pairs, k) ==
    LET alike == {x \in 1 .. k : pairs[x].status = "matched" /\ KeysOf(pa, pairs[x].a) = KeysOf(pa, pairs[k].a) /\ KeysOf(pb, pairs[x].b) = KeysOf(pb, pairs[k].b)}
        m == pairs[Min(alike)]
    IN Each(MatchNodes(pa, PhaseNodes(pa, m.a), pb, PhaseNodes(pb, m.b)),
            LAMBDA c : LET ka == NodeKey(pa, c.a)
                           kb == NodeKey(pb, c.b)
                       IN [ident |-> <<ka, kb>>, s |-> c.s, a |-> NodeWith(pa, pairs[k].a, ka), b |-> NodeWith(pb, pairs[k].b, kb)])
\* A node of an unmatched phase joins the first identity with its key.
AttachExtra(st, k, p, n, side) ==
    LET with == {i \in DOMAIN st.idents : st.idents[i][side] = p.nodes[n].key}
        own == IF side = 1 THEN <<p.nodes[n].key, Absent>> ELSE <<Absent, p.nodes[n].key>>
        cell == [pair |-> k, s |-> 0, a |-> IF side = 1 THEN n ELSE 0, b |-> IF side = 1 THEN 0 ELSE n]
    IN Attach(st, cell, IF with = {} THEN own ELSE st.idents[Min(with)])
SideOf(p, nodes) ==
    LET sum(F(_)) == SumOver(nodes, LAMBDA n : F(p.nodes[n]))
        self == sum(LAMBDA x : x.self)
        queue == sum(LAMBDA x : x.queue)
        cp == sum(LAMBDA x : x.cp)
    IN [nodes |-> nodes, count |-> sum(LAMBDA x : x.count), self |-> self, queue |-> queue, own |-> self + queue,
        queued |-> sum(LAMBDA x : x.queued), overlap |-> sum(LAMBDA x : x.overlap), cp |-> cp, critical |-> cp + sum(LAMBDA x : x.blame),
        bucket |-> IF nodes = {} THEN None ELSE p.nodes[LatestBy(nodes, LAMBDA n : p.nodes[n].self)].bucket]
MatchedCells(pa, pb, pairs) ==
    LET matched == SelectSeq(Upto(Len(pairs)), LAMBDA k : pairs[k].status = "matched")
        cell(k, c) == [pair |-> k, s |-> c.s, a |-> c.a, b |-> c.b]
    IN FoldLeft(LAMBDA st, k : FoldLeft(LAMBDA x, c : Attach(x, cell(k, c), c.ident), st, Mapping(pa, pb, pairs, k)),
                [idents |-> <<>>, cells |-> <<>>], matched)
AllCells(pa, pb, pairs, first) ==
    LET extra(st, k) == CASE pairs[k].status = "removed" -> FoldLeft(LAMBDA x, n : AttachExtra(x, k, pa, n, 1), st, PhaseNodes(pa, pairs[k].a))
                          [] pairs[k].status = "inserted" -> FoldLeft(LAMBDA x, n : AttachExtra(x, k, pb, n, 2), st, PhaseNodes(pb, pairs[k].b))
                          [] OTHER -> st
    IN FoldLeft(extra, first, Upto(Len(pairs)))
Gathered(pa, pb, pairs, first, all) ==
    LET weight(c) == (IF c.a = 0 THEN 0 ELSE pa.nodes[c.a].self) + (IF c.b = 0 THEN 0 ELSE pb.nodes[c.b].self)
        total == SumOver(Range(first.cells), weight)
        ident(i) == LET of == {c \in Range(all.cells) : c.id = i}
                    IN [ka |-> all.idents[i][1], kb |-> all.idents[i][2], both |-> Absent \notin Range(all.idents[i]),
                        a |-> SideOf(pa, {c.a : c \in of} \ {0}), b |-> SideOf(pb, {c.b : c \in of} \ {0})]
    IN [pa |-> pa, pb |-> pb, pairs |-> pairs, idents |-> Each(Upto(Len(all.idents)), ident), cells |-> all.cells,
        conf |-> IF total > 0 THEN SumOver(Range(first.cells), LAMBDA c : c.s * weight(c)) \div total
                 ELSE IF pa.nodes = <<>> /\ pb.nodes = <<>> THEN Per ELSE 0]
WithExtras(pa, pb, pairs, first) == Gathered(pa, pb, pairs, first, AllCells(pa, pb, pairs, first))
\* _Comparison.run: [pa, pb, pairs, idents, cells, conf].
Compared(pa, pb, pairs) == WithExtras(pa, pb, pairs, MatchedCells(pa, pb, pairs))

(***************************************************************************)
(* collapse: all phases as one.                                            *)
(***************************************************************************)
Collapse(p) ==
    LET keys == FoldLeft(LAMBDA ks, n : IF n.key \in Range(ks) THEN ks ELSE Append(ks, n.key), <<>>, p.nodes)
        new(n) == IF n = 0 THEN 0 ELSE IndexIn(keys, p.nodes[n].key)
        merged(key) ==
            LET of == {n \in DOMAIN p.nodes : p.nodes[n].key = key}
                sum(F(_)) == SumOver(of, LAMBDA n : F(p.nodes[n]))
                sourced == {n \in of : Sourced(p.nodes[n])}
            IN [p.nodes[Min(of)] EXCEPT !.phase = 1, !.source = IF sourced = {} THEN @ ELSE p.nodes[Min(sourced)].source,
                  !.timing = IF \A n \in of : p.nodes[n].timing = @ THEN @ ELSE "mixed",
                  !.first = Min({p.nodes[n].first : n \in of}), !.last = Max({p.nodes[n].last : n \in of}), !.threads = UNION {p.nodes[n].threads : n \in of},
                  !.count = sum(LAMBDA x : x.count), !.total = sum(LAMBDA x : x.total), !.self = sum(LAMBDA x : x.self),
                  !.queue = sum(LAMBDA x : x.queue), !.queued = sum(LAMBDA x : x.queued), !.overlap = sum(LAMBDA x : x.overlap),
                  !.cp = sum(LAMBDA x : x.cp), !.cp_count = sum(LAMBDA x : x.cp_count), !.blame = sum(LAMBDA x : x.blame),
                  !.wait_blame = sum(LAMBDA x : x.wait_blame)]
        lines(i, j, kind) == {e \in p.edges : new(e.src) = i /\ new(e.dst) = j /\ e.kind = kind}
        edge(i, j, kind) == LET of == lines(i, j, kind)
                            IN [src |-> i, dst |-> j, kind |-> kind, count |-> SumOver(of, LAMBDA e : e.count),
                                conf |-> (CHOOSE e \in of : \A f \in of : Rank(f.conf) <= Rank(e.conf)).conf]
        n == Len(p.phases)
    IN [p EXCEPT !.method = "whole", !.nodes = Each(keys, merged), !.edges = {edge(new(e.src), new(e.dst), e.kind) : e \in {x \in p.edges : new(x.src) # new(x.dst)}},
          !.segments = Each(@, LAMBDA s : [s EXCEPT !.node = new(s.node), !.blamed = new(s.blamed), !.phase = 1]),
          !.node_of = FoldSet(LAMBDA i, f : (i :> new(p.node_of[i])) @@ f, <<>>, DOMAIN p.node_of),
          !.phases = <<[kind |-> "whole", start |-> p.phases[1].start, end |-> p.phases[n].end, iterations |-> 0, critical |-> p.total,
                        tokens |-> UNION {x.tokens : x \in Range(p.phases)}, paths |-> {x.path : x \in Range(keys)}]>>]

(***************************************************************************)
(* compare_projections, up to the method: by phases, else as whole runs,   *)
(* else by names only.                                                     *)
(***************************************************************************)
ByPhases(pa, pb, al) == LET comp == Compared(pa, pb, al.pairs) IN [method |-> "phase-aligned", comp |-> comp, conf |-> (al.conf * comp.conf) \div Per]
WholeRuns(ca, cb) ==
    LET comp == Compared(ca, cb, <<[a |-> 1, b |-> 1, status |-> "matched", ambiguous |-> FALSE]>>)
    IN [method |-> "whole-run", comp |-> comp, conf |-> (PhaseSimilarity(ca.phases[1], cb.phases[1]) * comp.conf) \div Per]
Chosen(phases, runs, whole) ==
    IF phases.conf >= MinConfidence /\ ~whole THEN phases
    ELSE IF runs.conf >= MinConfidence \/ whole THEN runs
    ELSE [IF runs.conf > phases.conf THEN runs ELSE phases EXCEPT !.method = "aggregate"]
Method(pa, pb) ==
    Chosen(ByPhases(pa, pb, AlignPhases(pa.phases, pb.phases)), WholeRuns(Collapse(pa), Collapse(pb)), pa.method = "whole" /\ pb.method = "whole")

(***************************************************************************)
(* Explanation (_Explainer).  Edges join identities; how far an identity's *)
(* end moved within its phases is a mean over the pairs that have both.    *)
(***************************************************************************)
IdentMap(c, side) == FoldLeft(LAMBDA f, x : IF x[side] = 0 THEN f ELSE (x[side] :> x.id) @@ f, <<>>, c.cells)
EdgeSet(p, m) ==
    LET lifted == {[src |-> m[e.src], dst |-> m[e.dst], kind |-> e.kind] : e \in {x \in p.edges : {x.src, x.dst} \subseteq DOMAIN m}}
    IN {e \in lifted : e.src # e.dst}
Offsets(c, i) ==
    LET cs == {x \in Range(c.cells) : x.id = i /\ x.a # 0 /\ x.b # 0}
        endA(x) == c.pa.nodes[x.a].last - c.pa.phases[c.pairs[x.pair].a].start
        endB(x) == c.pb.nodes[x.b].last - c.pb.phases[c.pairs[x.pair].b].start
        mean(F(_)) == (Per * SumOver(cs, F)) \div Cardinality(cs)
    IN IF cs = {} THEN Absent ELSE [a |-> mean(endA), b |-> mean(endB), shift |-> mean(LAMBDA x : endB(x) - endA(x))]
BucketCause(x) ==
    LET bucket == IF x.b.nodes # {} THEN x.b.bucket ELSE x.a.bucket
    IN CASE bucket = "Synchronization" -> "synchronization" [] bucket = "Communication" -> "communication" [] OTHER -> "increased_work"
\* What an identity's change is made of, in the order in which it is summed.
Components(x) ==
    LET inv == (Per * (x.b.count - x.a.count) * x.a.self) \div Max({1, x.a.count})
    IN <<[cause |-> "more_invocations", ns |-> inv], [cause |-> BucketCause(x), ns |-> Per * (x.b.self - x.a.self) - inv]>>
       \o IF x.a.queued > 0 /\ x.b.queued > 0 THEN <<[cause |-> "queueing", ns |-> Per * (x.b.queue - x.a.queue)]>> ELSE <<>>
OwnStatus(x) == IF x.ka = Absent THEN "new" ELSE IF x.kb = Absent THEN "removed" ELSE Classify(x.a.own, x.b.own)
ImpactOf(x) == Classify(x.a.critical, x.b.critical)
SignOf(status) == IF status = "regressed" THEN 1 ELSE -1
NewEdges(c, from, to, i) == {e \in to : e.dst = i /\ c.idents[e.src].both /\ e \notin from}
CauseOf(c, ea, eb, i) ==
    LET x == c.idents[i]
        own == OwnStatus(x)
        sign == SignOf(IF own \in {"regressed", "improved"} THEN own ELSE ImpactOf(x))
        parts == Components(x)
        largest == parts[LatestBy(DOMAIN parts, LAMBDA k : sign * parts[k].ns)].cause
        added == (IF sign > 0 THEN NewEdges(c, ea, eb, i) ELSE NewEdges(c, eb, ea, i)) # {}
        moved == x.ka.stream # x.kb.stream
        lost == sign * (x.a.overlap - x.b.overlap) >= NoiseNs
        before == IF sign > 0 THEN x.a.critical ELSE x.b.critical
    IN IF ~x.both THEN "new_work"
       ELSE IF own \in {"regressed", "improved"} THEN IF largest = "queueing" /\ lost /\ (moved \/ added) THEN "lost_overlap" ELSE largest
       ELSE IF ImpactOf(x) \notin {"regressed", "improved"} THEN None
       ELSE IF lost /\ (added \/ moved) THEN "lost_overlap"
       ELSE IF added THEN "changed_dependency"
       ELSE IF before >= NoiseNs /\ lost THEN "lost_overlap" ELSE "moved_onto_critical_path"
Explained(c) ==
    LET ea == EdgeSet(c.pa, IdentMap(c, "a"))
        eb == EdgeSet(c.pb, IdentMap(c, "b"))
        ids == Upto(Len(c.idents))
    IN [a |-> ea, b |-> eb, status |-> Each(ids, LAMBDA i : OwnStatus(c.idents[i])), cause |-> Each(ids, LAMBDA i : CauseOf(c, ea, eb, i)),
        off |-> Each(ids, LAMBDA i : Offsets(c, i))]

(***************************************************************************)
(* What a wait waited for: the predecessors that end within it, the one    *)
(* that moved most first.  An improvement is followed in the baseline.     *)
(***************************************************************************)
Moved(improved) == IF improved THEN "improved" ELSE "regressed"
GatesOn(ex, cur, side, seen) ==
    LET within(s) == ex.off[cur] = Absent \/ ex.off[s][side] <= ex.off[cur][side] + Per * EndTolerance
    IN {s \in {e.src : e \in {x \in ex[side] : x.dst = cur /\ x.kind \in GatingKinds}} \ seen : ex.off[s] # Absent /\ within(s)}
GatingShiftsCandidate(ex, cur, improved, seen) == GatesOn(ex, cur, "b", seen)    \* mutant: of one side only
GatingShifts(ex, cur, improved, seen) == GatesOn(ex, cur, IF improved THEN "a" ELSE "b", seen)
ShiftOf(ex, s, improved) == IF improved THEN -ex.off[s].shift ELSE ex.off[s].shift
IsOrigin(ex, s, improved) == ex.status[s] = Moved(improved) /\ ex.cause[s] \in {"increased_work", "more_invocations", "queueing"}
RECURSIVE ChainFrom(_, _, _, _, _)
ChainFrom(ex, cur, improved, seen, n) ==
    LET S == GatingShifts(ex, cur, improved, seen)
        best == LatestBy(S, LAMBDA s : ShiftOf(ex, s, improved))
        by == ShiftOf(ex, best, improved)
    IN IF n = 0 \/ S = {} THEN <<>>
       ELSE IF by <= 0 \/ 2 * by < Per * NoiseNs THEN <<>>
       ELSE IF IsOrigin(ex, best, improved) THEN <<best>> ELSE <<best>> \o ChainFrom(ex, best, improved, seen \cup {best}, n - 1)
\* The others that held it up as long.
JointOrigins(ex, i, chain, improved) ==
    LET S == GatingShifts(ex, i, improved, {i})
        by(s) == ShiftOf(ex, s, improved)
        long == {s \in S \ {chain[1]} : 2 * by(s) >= Per * NoiseNs /\ 2 * (by(chain[1]) - by(s)) <= Per * NoiseNs}
        last(s) == IF IsOrigin(ex, s, improved) THEN s ELSE Last(<<s>> \o ChainFrom(ex, s, improved, {i, s}, MaxChain))
    IN {o \in {last(s) : s \in long} : ex.status[o] = Moved(improved) /\ o # Last(chain)}

(***************************************************************************)
(* Rows.                                                                   *)
(***************************************************************************)
FollowedCauses == {"synchronization", "communication", "moved_onto_critical_path", "lost_overlap", "changed_dependency", "queueing"}
HasPath(c) == c.pa.segments # <<>> /\ c.pb.segments # <<>>
IdentRow(c, ex, i) ==
    LET x == c.idents[i]
        impact == IF x.both /\ HasPath(c) THEN ImpactOf(x) ELSE "unavailable"
        regress == "regressed" \in {ex.status[i], impact}
        improve == ~regress /\ "improved" \in {ex.status[i], impact}
        chain == IF x.both /\ (regress \/ improve) /\ ex.cause[i] \in FollowedCauses THEN ChainFrom(ex, i, improve, {i}, MaxChain) ELSE <<>>
        origin == IF chain # <<>> /\ ex.status[Last(chain)] = Moved(improve) THEN Last(chain) ELSE 0
        delta == IF x.both /\ HasPath(c) THEN x.b.critical - x.a.critical ELSE 0
    IN [status |-> ex.status[i], impactStatus |-> impact, cause |-> ex.cause[i], own |-> x.b.own - x.a.own, delta |-> delta, impact |-> delta,
        chain |-> chain, from |-> origin, joint |-> IF origin = 0 THEN {} ELSE JointOrigins(ex, i, chain, improve) \ {origin}, base |-> x.a.critical,
        match |-> IF ~x.both THEN ex.status[i] ELSE IF x.ka = x.kb THEN "exact" ELSE "structural"]
\* In sixths of a ns, so that up to three origins share a wait exactly.
Sixths == 6
Round6(n) ==           \* to whole ns, a half to the even one
    LET q == n \div Sixths
    IN IF 2 * (n % Sixths) > Sixths \/ (2 * (n % Sixths) = Sixths /\ q % 2 = 1) THEN q + 1 ELSE q
OriginsOf(r) == {r.from} \cup r.joint
\* What an origin takes over: no more than the waits for it, and its own
\* change, allow.
Give(total, base, own) == Max({0, Min({total, Sixths * (Max({base, own}) - base)})})
\* The changes of one direction: an origin takes over what its own change
\* accounts for, the waits keep the rest.
AttributeOnce(rows, sign) ==
    LET symptoms == {i \in DOMAIN rows : rows[i].from # 0 /\ sign * rows[i].delta > 0}
        origins == UNION {OriginsOf(rows[i]) : i \in symptoms}
        of(o) == {i \in symptoms : o \in OriginsOf(rows[i])}
        part(i) == (Sixths * sign * rows[i].delta) \div Cardinality(OriginsOf(rows[i]))
        total(o) == SumOver(of(o), part)
        against(o) == sign * rows[o].own < 0
        base(o) == Max({sign * rows[o].delta, 0})
        give(o) == Give(total(o), base(o), sign * rows[o].own)
        kept(i, o) == IF against(o) THEN part(i) ELSE ((total(o) - give(o)) * part(i)) \div total(o)
        residual(i) == SumOver(OriginsOf(rows[i]), LAMBDA o : kept(i, o))
        taken(i) == IF i \in origins /\ ~against(i) THEN sign * (base(i) + Round6(give(i))) ELSE rows[i].impact
    IN Each(Upto(Len(rows)), LAMBDA i : [rows[i] EXCEPT !.impact = IF i \in symptoms THEN sign * Round6(residual(i)) ELSE taken(i)])
AttributeToOrigins(c, rows) ==
    LET done == AttributeOnce(AttributeOnce(rows, 1), -1)
    IN Each(Upto(Len(done)), LAMBDA i : LET r == done[i]
                                        IN IF c.idents[i].both /\ HasPath(c) THEN [r EXCEPT !.impactStatus = Classify(r.base, r.base + r.impact)] ELSE r)

(***************************************************************************)
(* _phase_rows: the same, within one pair of phases.                       *)
(***************************************************************************)
PhaseRow(c, rows, k) ==
    LET cs == {x \in Range(c.cells) : x.pair = k /\ x.a # 0 /\ x.b # 0 /\ c.idents[x.id].both}
        ids == {x.id : x \in cs}
        cell(i) == CHOOSE x \in cs : x.id = i
        crit(i) == LET x == cell(i) IN c.pb.nodes[x.b].cp + c.pb.nodes[x.b].blame - c.pa.nodes[x.a].cp - c.pa.nodes[x.a].blame
        own(i) == LET x == cell(i) IN c.pb.nodes[x.b].self + c.pb.nodes[x.b].queue - c.pa.nodes[x.a].self - c.pa.nodes[x.a].queue
        symptoms == {i \in ids : rows[i].from # 0 /\ crit(i) > 0}
        of(o) == {i \in symptoms : rows[i].from = o}
        total(o) == SumOver(of(o), crit)
        base(f, o) == IF o \in DOMAIN f THEN Max({f[o], 0}) ELSE 0
        give(f, o) == Max({0, Min({total(o), Max({base(f, o), IF o \in ids THEN own(o) ELSE 0}) - base(f, o)})})
        move(f, o) == [i \in DOMAIN f \cup {o} |-> IF i \in of(o) THEN ((total(o) - give(f, o)) * crit(i)) \div total(o)
                                                   ELSE IF i = o THEN base(f, o) + give(f, o) ELSE f[i]]
        groups == Ordered({rows[i].from : i \in symptoms}, LAMBDA o, q : Min(of(o)) < Min(of(q)))
        share == FoldLeft(move, [i \in ids |-> crit(i)], groups)
        m == c.pairs[k]
        dur(p, n) == IF n = 0 THEN 0 ELSE Duration(p.phases[n])
    IN [status |-> IF m.a = 0 THEN "new" ELSE IF m.b = 0 THEN "removed" ELSE Classify(dur(c.pa, m.a), dur(c.pb, m.b)),
        delta |-> dur(c.pb, m.b) - dur(c.pa, m.a), top |-> {[id |-> i, impact |-> share[i]] : i \in {j \in DOMAIN share : share[j] >= NoiseNs}}]

(***************************************************************************)
(* _cp_view: one side's critical path by identity, 0 for what has none,    *)
(* and its segments with neighbours of one identity and pair joined.       *)
(***************************************************************************)
PathView(c, side) ==
    LET p == IF side = "a" THEN c.pa ELSE c.pb
        ident == IdentMap(c, side)
        of(s) == IF s.node \in DOMAIN ident THEN ident[s.node] ELSE 0
        pair(s) == IF s.node = 0 THEN 0 ELSE Max({0} \cup {k \in DOMAIN c.pairs : c.pairs[k][side] = p.nodes[s.node].phase})
        ns(S) == SumOver(S, LAMBDA k : p.segments[k].own + p.segments[k].other)
        all == DOMAIN p.segments
        join(out, s) == LET n == Len(out)
                        IN IF n > 0 /\ out[Max({n, 1})].id = of(s) /\ out[Max({n, 1})].pair = pair(s)
                           THEN [out EXCEPT ![n].ns = @ + s.own + s.other, ![n].end = s.end, ![n].spans = @ + 1]
                           ELSE Append(out, [id |-> of(s), pair |-> pair(s), ns |-> s.own + s.other, start |-> s.start, end |-> s.end, spans |-> 1])
    IN [total |-> p.total, composition |-> [i \in 0 .. Len(c.idents) |-> ns({k \in all : of(p.segments[k]) = i})],
        byPair |-> [k \in DOMAIN c.pairs |-> ns({x \in all : pair(p.segments[x]) = k})], segments |-> FoldLeft(join, <<>>, p.segments)]

(***************************************************************************)
(* What the comparison cannot say.                                         *)
(***************************************************************************)
Unavailable(pa, pb) ==
    LET nodes == Range(pa.nodes) \cup Range(pb.nodes)
        queue(p) == \E n \in Range(p.nodes) : n.queued > 0
        said(name, cond) == IF cond THEN {name} ELSE {}
    IN {"statistical significance"} \cup said("critical path", pa.segments = <<>> \/ pb.segments = <<>>)
       \cup said("queueing", (\E n \in nodes : n.key.thread = "device") /\ ~(queue(pa) /\ queue(pb)))
       \cup said("source locations", ~\E n \in nodes : Sourced(n))
       \cup said("phase alignment", pa.method = "whole" /\ pb.method = "whole")

(***************************************************************************)
(* compare_projections.                                                    *)
(***************************************************************************)
RowsOf(c, ex) == AttributeToOrigins(c, Each(Upto(Len(c.idents)), LAMBDA i : IdentRow(c, ex, i)))
Reported(m, c, rows) ==
    LET ids == DOMAIN rows
        both == {i \in ids : c.idents[i].both}
        with(S, status) == {i \in S : rows[i].impactStatus = status}
        worse == with(both, "regressed")
        order == Ordered(worse, LAMBDA i, j : LexLess(<<-rows[i].impact, IF rows[i].from = 0 THEN 0 ELSE 1, i>>, <<-rows[j].impact, IF rows[j].from = 0 THEN 0 ELSE 1, j>>))
        gains == {i \in with(ids, "improved") : rows[i].impact < 0}
        change == c.pb.total - c.pa.total
        ns(S) == SumOver(S, LAMBDA i : rows[i].impact)
        head == [method |-> m.method, conf |-> m.conf, comp |-> c, wall |-> Classify(c.pa.wall, c.pb.wall), unavailable |-> Unavailable(c.pa, c.pb)]
    IN IF m.method = "aggregate" THEN head
       ELSE head @@
         [rows |-> rows, contributors |-> order,
          offCriticalPath |-> {i \in both \ worse : rows[i].status = "regressed" /\ rows[i].from = 0},
          improvements |-> {i \in both : rows[i].impactStatus = "improved" \/ (rows[i].status = "improved" /\ rows[i].from = 0)},
          propagated |-> {i \in both : rows[i].from # 0 /\ (rows[i].status \in {"regressed", "improved"} \/ Magnitude(rows[i].delta) >= NoiseNs)},
          newWork |-> {i \in ids : c.idents[i].ka = Absent /\ c.idents[i].b.own >= NoiseNs},
          removedWork |-> {i \in ids : c.idents[i].kb = Absent /\ c.idents[i].a.own >= NoiseNs},
          change |-> [delta |-> change, contributors |-> ns(worse), gains |-> ns(gains), other |-> change - ns(worse) - ns(gains)],
          phases |-> Each(Upto(Len(c.pairs)), LAMBDA k : PhaseRow(c, rows, k)), paths |-> [a |-> PathView(c, "a"), b |-> PathView(c, "b")]]
Explaining(m, c, ex) == Reported(m, c, RowsOf(c, ex))
FromMethod(m) == Explaining(m, m.comp, Explained(m.comp))
CompareProjections(pa, pb) == FromMethod(Method(pa, pb))
=============================================================================
