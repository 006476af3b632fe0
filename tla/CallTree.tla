------------------------------ MODULE CallTree ------------------------------
(***************************************************************************)
(* The call tree of a trace (src/analysis/call_tree.py): by the spans'     *)
(* stack frames where any has them, else by the ids that link spans and by *)
(* containment in time, each thread on its own.  The tree is built from a  *)
(* list of spans and, for large traces, streamed from a store; the calling *)
(* context tree (src/analysis/cct.py) is a second tree over stack frames.  *)
(*                                                                         *)
(* Siblings are a set: the order of the rows is left out.                  *)
(***************************************************************************)
EXTENDS Projection

(***************************************************************************)
(* _ct_build_raw: parent[i] is the parent of a span, 0 for a root.         *)
(***************************************************************************)
\* The span a parent id names; a list of several ids names none.
ParentOf(spans, S, i) ==
    IF Len(spans[i].psid) # 1 THEN {}
    ELSE Resolve(spans, {j \in S : spans[j].pid = spans[i].pid /\ spans[j].sid = spans[i].psid[1]}, spans[i].start, IdFamily(spans[i]))
Unwound(spans, stack, t) ==
    LET open == {k \in DOMAIN stack : EndOf(spans[stack[k]]) > t}
    IN IF open = {} THEN <<>> ELSE SubSeq(stack, 1, Max(open))
PlaceUnder(spans, explicit, st, i, stack) ==
    LET inside == stack # <<>> /\ EndOf(spans[Last(stack)]) >= EndOf(spans[i])
    IN [stack |-> Append(stack, i),
        parent |-> (i :> IF explicit # {} THEN Max(explicit) ELSE IF inside THEN Last(stack) ELSE 0) @@ st.parent]
Place(spans, S, st, i) ==
    PlaceUnder(spans, {p \in ParentOf(spans, S, i) : Before(spans, p, i)}, st, i, Unwound(spans, st.stack, spans[i].start))
RawTree(spans, S) ==
    FoldLeft(LAMBDA st, i : Place(spans, S, st, i), [stack |-> <<>>, parent |-> <<>>], Ordered(S, LAMBDA a, b : Before(spans, a, b))).parent

(***************************************************************************)
(* _ct_aggregate: siblings of one name and category are one node.          *)
(***************************************************************************)
TreeNode(spans, group, children) ==
    LET one == spans[Min(group)]
        total == SumOver(group, LAMBDA i : spans[i].dur)
    IN [name |-> one.name, cat |-> one.cat, total |-> total, count |-> Cardinality(group),
        self |-> Max({0, total - SumOver(children, LAMBDA c : c.total)}), children |-> children]
RECURSIVE Aggregate(_, _, _)
Aggregate(spans, parent, S) ==
    LET like(i) == {j \in S : spans[j].name = spans[i].name /\ spans[j].cat = spans[i].cat}
    IN {TreeNode(spans, group, Aggregate(spans, parent, {j \in DOMAIN parent : parent[j] \in group})) : group \in {like(i) : i \in S}}
Under(spans, parent) == Aggregate(spans, parent, {i \in DOMAIN parent : parent[i] = 0})
Contained(spans, S) == Under(spans, RawTree(spans, S))

(***************************************************************************)
(* _ct_build_from_stacks: the frames from the outermost inwards, then the  *)
(* span itself; a node for each prefix, told apart by it.                  *)
(***************************************************************************)
PathOf(s) == Reverse(s.stack) \o <<s.name>>
Through(spans, S, path) == {i \in S : IsPrefix(path, PathOf(spans[i]))}
EndingAt(spans, S, path) == {i \in S : PathOf(spans[i]) = path}
PrefixesOf(spans, S) == UNION {{SubSeq(PathOf(spans[i]), 1, n) : n \in 1 .. Len(PathOf(spans[i]))} : i \in S}
TotalAt(spans, S, path) == SumOver(Through(spans, S, path), LAMBDA i : spans[i].dur)
\* The category is that of the last span that ends here.
StackNode(spans, S, all, path) ==
    LET total == TotalAt(spans, S, path)
        ends == EndingAt(spans, S, path)
        below == {q \in all : Len(q) = Len(path) + 1 /\ IsPrefix(path, q)}
    IN [total |-> total, count |-> Cardinality(ends), cat |-> IF ends = {} THEN "other" ELSE spans[Max(ends)].cat,
        self |-> Max({0, total - SumOver(below, LAMBDA q : TotalAt(spans, S, q))})]
StackNodes(spans, S, all) == [path \in all |-> StackNode(spans, S, all, path)]
FromStacks(spans, S) == StackNodes(spans, S, PrefixesOf(spans, S))
\* CCT.build: own time where a path ends, the sum from there to the root.
CctNode(spans, S, path) ==
    LET ends == EndingAt(spans, S, path)
    IN [self |-> SumOver(ends, LAMBDA i : spans[i].dur), count |-> Cardinality(ends), incl |-> TotalAt(spans, S, path)]
CctOver(spans, S) == [path \in PrefixesOf(spans, S) |-> CctNode(spans, S, path)]
\* It takes zero-length spans too, which the call tree leaves out.
CCT(spans) == CctOver(spans, {i \in DOMAIN spans : spans[i].stack # <<>>})

(***************************************************************************)
(* A node for each thread, with the spans whose parent is on it but which  *)
(* are not: these are in their own thread's tree too.                      *)
(***************************************************************************)
ThreadNode(th, own, cross) ==
    [thread |-> th, own |-> own, cross |-> cross, total |-> SumOver(own, LAMBDA c : c.total) + SumOver(cross, LAMBDA c : c.total)]
OnThreadOf(spans, S, th) == {i \in S : ThreadOf(spans[i]) = th}
\* The spans of S, linked within ids, whose parent is on thread th.
CrossChildren(spans, S, ids, th) ==
    {i \in S : ThreadOf(spans[i]) # th /\ \E p \in ParentOf(spans, ids, i) : ThreadOf(spans[p]) = th}
Stacked(spans) == {i \in TimedOf(spans) : spans[i].stack # <<>>}
ThreadsOf(spans, S) == {ThreadOf(spans[i]) : i \in S}
\* _ct_build: from all the spans.
CtBuild(spans, S) ==
    IF Stacked(spans) # {} THEN FromStacks(spans, Stacked(spans))
    ELSE IF Cardinality(ThreadsOf(spans, S)) = 1 THEN Contained(spans, S)
    ELSE {ThreadNode(th, Contained(spans, OnThreadOf(spans, S, th)), Contained(spans, CrossChildren(spans, S, S, th))) : th \in ThreadsOf(spans, S)}
\* What the disk store reads for containment: no tags, no frames.
LightAnonymous(s) == [s EXCEPT !.tags = <<>>, !.stack = <<>>, !.psid = <<>>]       \* mutant: no parent ids either
Light(s) == [s EXCEPT !.tags = <<>>, !.stack = <<>>]
LightSpans(spans) == [i \in DOMAIN spans |-> Light(spans[i])]
\* _build_call_tree: a thread at a time from light spans, the links between
\* threads from the spans that have ids.
Streamed(spans, light, S, linked) ==
    IF Stacked(spans) # {} THEN FromStacks(spans, Stacked(spans))
    ELSE IF Cardinality(ThreadsOf(light, S)) = 1 THEN Contained(light, S)
    ELSE {ThreadNode(th, Contained(light, OnThreadOf(light, S, th)), Contained(spans, CrossChildren(spans, linked, linked, th))) : th \in ThreadsOf(light, S)}
BuildCallTree(spans) == Streamed(spans, LightSpans(spans), TimedOf(spans), {i \in TimedOf(spans) : WithIds(spans[i])})
=============================================================================
