----------------------------- MODULE Projection -----------------------------
(***************************************************************************)
(* A trace as a small graph that can be compared with another's            *)
(* (src/analysis/projection.py): phases of the driver thread, nodes that   *)
(* gather the spans of one call path and one place in one phase, the edges *)
(* between them and the observed critical path by node.                    *)
(*                                                                         *)
(* Shown is the spelling of a name without the hash of one compilation     *)
(* (dashboard.fmt_kernel_name); addresses and clone suffixes, which        *)
(* normalize_name also removes, are left out of the names.                 *)
(***************************************************************************)
EXTENDS Worlds

CONSTANTS MaxIterationPhases, MaxSegmentPhases,  \* 400 and 200
          Shown(_)
ASSUME PhaseAssumption == MaxIterationPhases \in Nat \ {0} /\ MaxSegmentPhases \in Nat \ {0}
DriverDepth == 3

Number(s) == CHOOSE n \in 0 .. 9 : ToString(n) = s
TimedOf(spans) == {i \in DOMAIN spans : spans[i].dur > 0}
HostTimed(spans) == {i \in TimedOf(spans) : ~IsDeviceTimedSpan(spans[i])}
Token(s) == <<s.cat, Shown(s.name)>>
\* F of every element of a sequence.
Each(s, F(_)) == FoldLeft(LAMBDA out, x : Append(out, F(x)), <<>>, s)
CeilDiv(a, b) == (a + b - 1) \div b
Extent(spans) ==
    LET of == IF TimedOf(spans) = {} THEN DOMAIN spans ELSE TimedOf(spans)
    IN IF of = {} THEN <<0, 0>> ELSE <<Min({spans[i].start : i \in of}), Max({EndOf(spans[i]) : i \in of})>>

(***************************************************************************)
(* Roles: what a process, a thread, a stream and a communicator are called *)
(* in every run.                                                           *)
(***************************************************************************)
RankTag(spans, p) ==
    LET m == {i \in DOMAIN spans : spans[i].pid = p /\ IsMpi(spans[i]) /\ Has(spans[i], "rank")}
    IN IF m = {} THEN None ELSE spans[Min(m)].tags.rank
FirstOf(spans, S) == Min({spans[i].start : i \in S})
ProcessOrder(spans) ==
    LET first(p) == FirstOf(spans, {i \in DOMAIN spans : spans[i].pid = p})
    IN Ordered(Pids(spans), LAMBDA p, q : first(p) < first(q) \/ (first(p) = first(q) /\ p < q))
IndexIn(s, x) == CHOOSE k \in DOMAIN s : s[k] = x
RankRole(spans, p) ==
    IF RankTag(spans, p) # None THEN "rank" \o RankTag(spans, p) ELSE "proc" \o ToString(IndexIn(ProcessOrder(spans), p) - 1)
DriverPid(spans) ==
    LET ranked == {p \in Pids(spans) : RankTag(spans, p) # None}
    IN IF ranked = {} THEN ProcessOrder(spans)[1] ELSE EarliestBy(ranked, LAMBDA p : Number(RankTag(spans, p)))
\* {} without host activity.
MainTid(spans, p) ==
    LET host == {i \in HostTimed(spans) : spans[i].pid = p}
    IN IF host = {} THEN {} ELSE {Min({spans[i].tid : i \in {j \in host : spans[j].start = FirstOf(spans, host)}})}
StreamRole(spans, p, ident) ==
    LET ids == {spans[i].tags.stream : i \in {j \in DOMAIN spans : spans[j].pid = p /\ IsDeviceTimedSpan(spans[j]) /\ Has(spans[j], "stream")}}
    IN "s" \o ToString(Cardinality({x \in ids : Number(x) < Number(ident)}))

(***************************************************************************)
(* The calls a call lies in: a stack per thread.  open has the calls still *)
(* on it, above[i] the call i is inside of (0: none; for device work, the  *)
(* call on top), under[i] all that were on it.                             *)
(***************************************************************************)
StillOpen(spans, open, t) == SubSeq(open, 1, Max({0} \cup {k \in DOMAIN open : EndOf(spans[open[k]]) > t}))
StackStep(spans, st, i) ==
    LET open == StillOpen(spans, st.open, spans[i].start)
        top == IF open = <<>> THEN 0 ELSE Last(open)
        device == IsDeviceTimedSpan(spans[i])
        inside == top # 0 /\ EndOf(spans[top]) >= EndOf(spans[i])
    IN [open |-> IF device THEN open ELSE Append(open, i),
        above |-> (i :> IF device \/ inside THEN top ELSE 0) @@ st.above, under |-> (i :> Range(open)) @@ st.under]
Stacks(spans) ==
    LET onThread(th) == Ordered({i \in TimedOf(spans) : ThreadOf(spans[i]) = th}, LAMBDA a, b : Before(spans, a, b))
        of(th) == FoldLeft(LAMBDA st, i : StackStep(spans, st, i), [open |-> <<>>, above |-> <<>>, under |-> <<>>], onThread(th))
        threads == {ThreadOf(spans[i]) : i \in TimedOf(spans)}
    IN [above |-> FoldSet(LAMBDA th, f : of(th).above @@ f, <<>>, threads), under |-> FoldSet(LAMBDA th, f : of(th).under @@ f, <<>>, threads)]
RECURSIVE DepthOf(_, _), HostPath(_, _, _)
DepthOf(above, i) == IF above[i] = 0 THEN 0 ELSE 1 + DepthOf(above, above[i])
HostPath(spans, above, i) == Append(IF above[i] = 0 THEN <<>> ELSE HostPath(spans, above, above[i]), Token(spans[i]))

(***************************************************************************)
(* Phases of the driver's main thread: iterations of a recurring call,     *)
(* else segments of equal calls, else the whole run.  A call is seen with  *)
(* the kinds of dependency it and the calls inside it take part in.        *)
(***************************************************************************)
CrossKinds == {"p2p", "arrival", "device_wait", "device_sync"}
KindsAt(deps, i) == {e.kind : e \in {x \in deps : x.kind \in CrossKinds /\ i \in {x.src, x.dst}}}
Call(spans, deps, under, i) ==
    [start |-> spans[i].start, end |-> EndOf(spans[i]),
     aug |-> <<Token(spans[i]), UNION {KindsAt(deps, j) : j \in {i} \cup {k \in DOMAIN under : i \in under[k] /\ ~IsDeviceTimedSpan(spans[k])}}>>]
\* The outermost calls, or those of a call that holds nearly all the time.
DriverLevel(spans, stacks, driver) ==
    LET children(i) == {j \in driver : stacks.above[j] = i}
        inner(level) == LET covered == Max({1, SumOver(level, LAMBDA i : spans[i].dur)})
                            top == LatestBy(level, LAMBDA i : spans[i].dur)
                        IN IF level # {} /\ 5 * spans[top].dur >= 4 * covered /\ Cardinality(children(top)) >= 2 THEN children(top) ELSE level
    IN inner(inner(inner({i \in driver : stacks.above[i] = 0})))
DriverCalls(spans, deps, stacks) ==
    LET p == DriverPid(spans)
        driver == {i \in HostTimed(spans) : spans[i].pid = p /\ spans[i].tid \in MainTid(spans, p) /\ DepthOf(stacks.above, i) <= DriverDepth}
        order == Ordered(DriverLevel(spans, stacks, driver), LAMBDA a, b : Before(spans, a, b))
    IN Each(order, LAMBDA i : Call(spans, deps, stacks.under, i))

Positions(s, x) == SelectSeq([k \in DOMAIN s |-> k], LAMBDA k : s[k] = x)
CountIn(s, x) == Len(Positions(s, x))
MedianOf(s) ==
    LET o == SortSeq(s, LAMBDA a, b : a < b)
        n == Len(s)
    IN IF n % 2 = 1 THEN o[n \div 2 + 1] ELSE (o[n \div 2] + o[n \div 2 + 1]) \div 2
Steps(pos) == [k \in 1 .. (Len(pos) - 1) |-> pos[k + 1] - pos[k]]
LastCut(calls, pos) == Min({Len(calls) + 1, Last(pos) + MedianOf(Steps(pos))})
\* At least 80% of two multisets of calls in common.
Alike(a, b) ==
    LET both == Range(a) \cup Range(b)
    IN 5 * SumOver(both, LAMBDA x : Min({CountIn(a, x), CountIn(b, x)})) >= 4 * SumOver(both, LAMBDA x : Max({CountIn(a, x), CountIn(b, x)}))
SameBag(a, b) == \A x \in Range(a) \cup Range(b) : CountIn(a, x) = CountIn(b, x)
\* [pos, end, num, den]: the cuts at one recurring call, and the share of
\* alike iterations times the share of time they cover.
Cuts(calls, anchor) ==
    LET toks == [k \in DOMAIN calls |-> calls[k].aug]
        pos == Positions(toks, anchor)
        end == LastCut(calls, pos)
        iter == [k \in DOMAIN pos |-> SubSeq(toks, pos[k], (IF k < Len(pos) THEN pos[k + 1] ELSE end) - 1)]
        like(k) == Cardinality({j \in DOMAIN iter : SameBag(iter[j], iter[k])})
        modal == iter[LatestBy(DOMAIN iter, like)]
        total == Max({1, Last(calls).end - calls[1].start})
    IN [pos |-> pos, end |-> end, anchor |-> anchor,
        num |-> Cardinality({k \in DOMAIN iter : Alike(iter[k], modal)}) * (calls[end - 1].end - calls[pos[1]].start), den |-> Len(pos) * total]
\* As far before the anchor as the calls of all iterations agree.
Period(calls, best) ==
    LET toks == [k \in DOMAIN calls |-> calls[k].aug]
        free == Min({best.pos[1] - 1} \cup {n - 1 : n \in Range(Steps(best.pos))})
        back == Max({k \in 0 .. free : \A p, q \in Range(best.pos) : SubSeq(toks, p - k, p - 1) = SubSeq(toks, q - k, q - 1)})
        pos == [k \in DOMAIN best.pos |-> best.pos[k] - back]
    IN IF 5 * best.num < 3 * best.den THEN <<>>
       ELSE <<[pos |-> pos, end |-> IF back = 0 THEN best.end ELSE LastCut(calls, pos), anchor |-> best.anchor[1]]>>
BestCuts(cands) ==
    LET better(c, d) == c.num * d.den > d.num * c.den \/ (c.num * d.den = d.num * c.den /\ c.pos[1] <= d.pos[1])
    IN CHOOSE c \in cands : \A d \in cands : better(c, d)
FindPeriod(calls) ==
    LET toks == [k \in DOMAIN calls |-> calls[k].aug]
        anchors == {x \in Range(toks) : CountIn(toks, x) >= 2}
    IN IF anchors = {} THEN <<>> ELSE Period(calls, BestCuts({Cuts(calls, a) : a \in anchors}))

PhaseRec(kind, start, end, iterations, calls) ==
    [kind |-> kind, start |-> start, end |-> end, iterations |-> iterations, tokens |-> {c.aug : c \in calls}]
Opening(lo, start) == IF start > lo THEN <<PhaseRec("prologue", lo, start, 0, {})>> ELSE <<>>
IterationPhases(calls, p, lo, hi) ==
    LET c == Len(p.pos)
        start(k) == calls[p.pos[k]].start
        end(k) == IF k < c THEN start(k + 1) ELSE calls[p.end - 1].end
        block == CeilDiv(c, MaxIterationPhases)
        from(a, b) == {x \in Range(calls) : a <= x.start /\ x.start < b}
        iteration(n) == LET b == (n - 1) * block + 1
                            k == Min({c, n * block})
                        IN PhaseRec("iteration", start(b), end(k), k - b + 1, from(start(b), end(k)))
    IN Opening(lo, start(1)) \o [n \in 1 .. CeilDiv(c, block) |-> iteration(n)]
       \o IF end(c) < hi THEN <<PhaseRec("epilogue", end(c), hi, 0, {x \in Range(calls) : x.start >= end(c)})>> ELSE <<>>
SegmentPhases(calls, lo, hi) ==
    LET begins == SelectSeq([k \in DOMAIN calls |-> k], LAMBDA k : k = 1 \/ (k > 1 /\ calls[k - 1].aug # calls[k].aug))
        merge == CeilDiv(Len(begins), MaxSegmentPhases)
        first == SelectSeq(begins, LAMBDA k : (IndexIn(begins, k) - 1) % merge = 0)
        end(n) == IF n < Len(first) THEN calls[first[n + 1]].start ELSE hi
        group(n) == {calls[k] : k \in first[n] .. ((IF n < Len(first) THEN first[n + 1] ELSE Len(calls) + 1) - 1)}
    IN Opening(lo, calls[1].start) \o [n \in DOMAIN first |-> PhaseRec("segment", calls[first[n]].start, end(n), 0, group(n))]
\* detect_phases, make_phases.
PhasesOf(calls, p, e) ==
    CASE p # <<>> -> [method |-> "iterations", anchor |-> p[1].anchor, phases |-> IterationPhases(calls, p[1], e[1], e[2])]
      [] p = <<>> /\ calls # <<>> -> [method |-> "segments", anchor |-> None, phases |-> SegmentPhases(calls, e[1], e[2])]
      [] OTHER -> [method |-> "whole", anchor |-> None, phases |-> <<PhaseRec("whole", e[1], e[2], 0, {})>>]
PhasesFrom(calls, e) == PhasesOf(calls, IF Len(calls) >= 2 THEN FindPeriod(calls) ELSE <<>>, e)
DetectPhases(spans, deps, stacks) == PhasesFrom(DriverCalls(spans, deps, stacks), Extent(spans))
PhaseAt(phases, t) == Max({1} \cup {k \in DOMAIN phases : phases[k].start <= t})

(***************************************************************************)
(* Nodes.                                                                  *)
(***************************************************************************)
SourceOf(s) == IF Has(s, "file") THEN <<s.tags.file, Tag(s, "line")>> ELSE <<Tag(s, "sym")>>
\* The order in which the host pass and the device pass meet the spans.
VisitKey(spans, i) ==
    IF IsDeviceTimedSpan(spans[i]) THEN <<1, spans[i].pid, 0, spans[i].start, i>> ELSE <<0, spans[i].pid, spans[i].tid, spans[i].start, i>>
Visits(spans) == Ordered(TimedOf(spans), LAMBDA a, b : LexLess(VisitKey(spans, a), VisitKey(spans, b)))
CommRole(spans, visits, i) ==
    LET s == spans[i]
        with == SelectSeq(visits, LAMBDA j : spans[j].pid = s.pid /\ spans[j].cat \in {"mpi", "nccl"} /\ Tag(spans[j], "commid") \notin {None, "-1"})
        ids == FoldLeft(LAMBDA seen, j : IF spans[j].tags.commid \in Range(seen) THEN seen ELSE Append(seen, spans[j].tags.commid), <<>>, with)
    IN IF s.cat \notin {"mpi", "nccl"} \/ ~Has(s, "commid") THEN None
       ELSE IF s.tags.commid = "-1" THEN "unregistered" ELSE "c" \o ToString(IndexIn(ids, s.tags.commid) - 1)
Submitter(deps, i) == {e.src : e \in {x \in deps : x.kind = "launch" /\ x.dst = i}}
\* A host call is placed by where it starts, device work by the call that
\* submitted it.
PlaceOf(spans, deps, stacks, phases, i) ==
    LET host == Submitter(deps, i) \cap HostTimed(spans)
        by == Min(host)
        above == IF stacks.above[i] = 0 THEN <<>> ELSE HostPath(spans, stacks.above, stacks.above[i])
    IN IF i \in HostTimed(spans) THEN [path |-> HostPath(spans, stacks.above, i), phase |-> PhaseAt(phases, spans[i].start)]
       ELSE IF host # {} THEN [path |-> Append(HostPath(spans, stacks.above, by), Token(spans[i])), phase |-> PhaseAt(phases, spans[by].start)]
       ELSE [path |-> Append(above, Token(spans[i])), phase |-> PhaseAt(phases, spans[i].start)]
KeyOf(spans, deps, stacks, phases, visits, i) ==
    LET s == spans[i]
        host == i \in HostTimed(spans)
    IN PlaceOf(spans, deps, stacks, phases, i)
       @@ [backend |-> <<s.cat, IF ~host THEN "device" ELSE IF s.cat \in {"cuda", "rocm", "opencl"} THEN "host" ELSE "">>,
           rank |-> RankRole(spans, s.pid), comm |-> CommRole(spans, visits, i),
           thread |-> IF ~host THEN "device" ELSE IF s.tid \in MainTid(spans, s.pid) THEN "main" ELSE "worker",
           stream |-> IF host \/ ~Has(s, "stream") THEN None ELSE StreamRole(spans, s.pid, s.tags.stream),
           device |-> IF host THEN None ELSE Tag(s, "dev")]
\* The time of i during which another lane of its kind was busy: streams of
\* a device, threads of a process.
OverlapOf(spans, stacks, i) ==
    LET s == spans[i]
        host == i \in HostTimed(spans)
        lane(j) == IF host THEN spans[j].tid ELSE <<Tag(spans[j], "stream"), spans[j].tid>>
        others == {j \in TimedOf(spans) : /\ spans[j].pid = s.pid /\ lane(j) # lane(i)
                                          /\ IF host THEN j \in HostTimed(spans) /\ stacks.above[j] = 0
                                             ELSE j \notin HostTimed(spans) /\ Tag(spans[j], "dev") = Tag(s, "dev")}
    IN IF host /\ stacks.above[i] # 0 THEN 0
       ELSE Cardinality({t \in s.start .. (EndOf(s) - 1) : \E j \in others : spans[j].start <= t /\ t < EndOf(spans[j])})
SelfOfUnclosed(spans, stacks, i) ==
    IF i \notin HostTimed(spans) THEN spans[i].dur
    ELSE Max({0, spans[i].dur - SumOver({j \in TimedOf(spans) : stacks.above[j] = i}, LAMBDA j : spans[j].dur)})
SelfOf(spans, stacks, i) ==
    IF i \notin HostTimed(spans) THEN spans[i].dur
    ELSE Max({0, spans[i].dur - SumOver({j \in HostTimed(spans) : stacks.above[j] = i}, LAMBDA j : spans[j].dur)})
\* The types of each bucket are those the hooks of Programs tag; the
\* category decides for a span without one of them.
BucketOf(s) ==
    LET type == Tag(s, "type")
        call == Tag(s, "side") = "cpu" /\ (type = "kernel" \/ s.cat \in {"opencl", "nccl"})
    IN CASE call \/ type \in {"launch", "event_record", "stream_wait", "graph_launch", "alloc", "free", "group", "task_create"} -> "Runtime overhead"
         [] IsAnnotation(s) -> "Annotation"
         [] type \in {"kernel", "work", "task", "parallel"} -> "Computation"
         [] type \in {"send", "recv", "isend", "irecv", "allreduce"} -> "Communication"
         [] type \in {"barrier", "wait", "waitall", "sync", "test", "critical"} -> "Synchronization"
         [] type \in {"memcpy", "memcpy_async", "memset", "HtoD", "DtoH"} -> "Memory transfer"
         [] s.cat \in {"mpi", "nccl"} -> "Communication"
         [] s.cat = "sync" -> "Synchronization"
         [] s.cat = "memory" -> "Memory transfer"
         [] s.cat = "sched" -> "Idle"
         [] s.cat = "jit" -> "Runtime overhead"
         [] s.cat \in {"cpu", "cuda", "rocm", "opencl", "openmp", "sycl"} -> "Computation"
         [] OTHER -> "Other"
TimingOf(spans, S) ==
    LET t(i) == IF i \in HostTimed(spans) THEN "host" ELSE IF Has(spans[i], "timing") THEN spans[i].tags.timing ELSE "device"
    IN IF \A i, j \in S : t(i) = t(j) THEN t(Min(S)) ELSE "mixed"
Node(spans, stacks, visits, credit, blamed, key, S) ==
    LET sourced == SelectSeq(visits, LAMBDA i : i \in S /\ SourceOf(spans[i]) # <<None>>)
        queued == {i \in S : Has(spans[i], "queue_ns") /\ i \notin HostTimed(spans)}
        sum(F(_)) == SumOver(S, F)
    IN [key |-> [f \in DOMAIN key \ {"phase"} |-> key[f]], phase |-> key.phase, leaf |-> Last(key.path), bucket |-> BucketOf(spans[Min(S)]),
        source |-> IF sourced = <<>> THEN <<None>> ELSE SourceOf(spans[sourced[1]]), timing |-> TimingOf(spans, S),
        count |-> Cardinality(S), total |-> sum(LAMBDA i : spans[i].dur), self |-> sum(LAMBDA i : SelfOf(spans, stacks, i)),
        first |-> FirstOf(spans, S), last |-> Max({EndOf(spans[i]) : i \in S}),
        queue |-> SumOver(queued, LAMBDA i : spans[i].tags.queue_ns), queued |-> Cardinality(queued),
        overlap |-> sum(LAMBDA i : OverlapOf(spans, stacks, i)),
        cp |-> sum(LAMBDA i : credit[i]), wait_blame |-> sum(LAMBDA i : blamed[i]), threads |-> {spans[i].tid : i \in S}]

(***************************************************************************)
(* Edges between nodes, numbered with the kind as the code numbers them:   *)
(* eight kinds to a pair of nodes.                                         *)
(***************************************************************************)
EdgeKinds == <<"sequential", "device_sync", "explicit_span_id", "p2p", "arrival", "launch", "device_wait", "task_join", "task_dep", "lock_order">>
KindsPerPair == 8
NodeEdges(node_of, m, deps) ==
    LET id(i) == IF i \in DOMAIN node_of THEN node_of[i] - 1 ELSE -1
        kept == {e \in deps : id(e.src) >= 0 /\ id(e.dst) >= 0 /\ id(e.src) # id(e.dst)}
        code(e) == (id(e.src) * m + id(e.dst)) * KindsPerPair + IndexIn(EdgeKinds, e.kind) - 1
        of(c) == {e \in kept : code(e) = c}
        pair(c) == c \div KindsPerPair
    IN {[src |-> (pair(c) \div m) + 1, dst |-> (pair(c) % m) + 1, kind |-> EdgeKinds[(c % KindsPerPair) + 1], count |-> Cardinality(of(c)),
         conf |-> (CHOOSE e \in of(c) : \A f \in of(c) : Rank(f.conf) <= Rank(e.conf)).conf] : c \in {code(e) : e \in kept}}

(***************************************************************************)
(* build.  The critical path's rows give each node its own time on it; the *)
(* time a dependency took is blamed on its source's node.                  *)
(***************************************************************************)
Segments(rows, node_of, nodes, phases) ==
    Each(rows, LAMBDA r :
       LET n == IF r.span \in DOMAIN node_of THEN node_of[r.span] ELSE 0
       IN [node |-> n, own |-> r.own, other |-> r.other, start |-> r.start, end |-> r.end, kind |-> r.kind, conf |-> r.conf,
           blamed |-> IF r.other # 0 /\ r.source \in DOMAIN node_of THEN node_of[r.source] ELSE 0,
           phase |-> IF n # 0 THEN nodes[n].phase ELSE PhaseAt(phases, r.start)])
Rounded(f) == (2 * f[1] + f[2]) \div (2 * f[2])
\* With the path's segments.
Finish(spans, deps, d, rows, nodes, node_of, segments) ==
    LET with(S) == SumOver(S, LAMBDA k : segments[k].own + segments[k].other)
        on(n) == {k \in DOMAIN rows : segments[k].node = n}
    IN [method |-> d.method, anchor |-> d.anchor, wall |-> Extent(spans)[2] - Extent(spans)[1], node_of |-> node_of, segments |-> segments,
        nodes |-> [n \in DOMAIN nodes |-> nodes[n] @@ [cp_count |-> Cardinality({rows[k].span : k \in on(n)}),
                     blame |-> SumOver({k \in DOMAIN rows : segments[k].blamed = n}, LAMBDA k : rows[k].other)]],
        edges |-> NodeEdges(node_of, Max({1, Len(nodes)}), deps), total |-> with(DOMAIN rows),
        phases |-> [k \in DOMAIN d.phases |-> d.phases[k] @@ [critical |-> with({x \in DOMAIN rows : segments[x].phase = k}),
                      paths |-> {nodes[n].key.path : n \in {x \in DOMAIN nodes : nodes[x].phase = k}}]]]
WithSegments(spans, deps, d, rows, nodes, node_of) == Finish(spans, deps, d, rows, nodes, node_of, Segments(rows, node_of, nodes, d.phases))
WithNodes(spans, deps, stacks, d, rows, charges, key, keys) ==
    LET visits == Visits(spans)
        credit == [i \in TimedOf(spans) |-> SumOver({k \in DOMAIN rows : rows[k].span = i}, LAMBDA k : rows[k].own)]
        blamed == [i \in TimedOf(spans) |-> Rounded(SumF(SelectSeq(charges, LAMBDA c : c.to = i)))]
    IN WithSegments(spans, deps, d, rows,
         Each(keys, LAMBDA k : Node(spans, stacks, visits, credit, blamed, k, {i \in TimedOf(spans) : key[i] = k})),
         FoldLeft(LAMBDA f, i : (i :> IndexIn(keys, key[i])) @@ f, <<>>, visits))
\* The keys in the order in which they are met.
WithKeys(spans, deps, stacks, d, rows, charges, key) ==
    WithNodes(spans, deps, stacks, d, rows, charges, key,
      FoldLeft(LAMBDA ks, i : IF key[i] \in Range(ks) THEN ks ELSE Append(ks, key[i]), <<>>, Visits(spans)))
WithPhases(spans, deps, stacks, d, rows, charges) ==
    WithKeys(spans, deps, stacks, d, rows, charges,
      FoldLeft(LAMBDA f, i : (i :> KeyOf(spans, deps, stacks, d.phases, Visits(spans), i)) @@ f, <<>>, Visits(spans)))
Placed(spans, deps, g, stacks) == WithPhases(spans, deps, stacks, DetectPhases(spans, deps, stacks), PathRows(g, Walk(g, Default)), Blame(g))
Build(spans, deps, g) == Placed(spans, deps, g, Stacks(spans))
=============================================================================
