----------------------------- MODULE Timeline ------------------------------
(***************************************************************************)
(* The Timeline's rows: TimelineModel (src/gui/models.py) and the lane     *)
(* tree (src/gui/timeline_hierarchy.py).  A user filters, groups, hides,   *)
(* isolates and reorders lanes; the view is exported when the window       *)
(* closes and restored when the profile, perhaps captured again with       *)
(* other lanes, is opened.                                                 *)
(***************************************************************************)
EXTENDS Integers, Sequences, SequencesExt, FiniteSets, TLC

CONSTANTS Traces,       \* sets of lanes a capture of the profile may have
          Attr,         \* lane -> [no, pid, rank, kind, tid, dev, stream, cat]
          Matched,      \* lanes with an event the event filter matches
          OnPath,       \* lanes on the critical path
          Filters,      \* filter specifications, see PassesFilters
          MaxOps        \* bound on operations per window

VARIABLES lanes,        \* _lane_names
          filters, grouping, collapsed, hidden, isolated, order,
          focus,        \* _overlay.focusPath, with an analysis that is ready
          rows,         \* _rows
          ops,
          file,         \* the exported state
          before        \* history: [lanes, rows] when it was exported
vars == <<lanes, filters, grouping, collapsed, hidden, isolated, order, focus, rows, ops, file, before>>

None == <<>>
Unset == [procs |-> {}, events |-> FALSE, activeOnly |-> FALSE]
Groupings == {"hierarchy", "process", "stream", "none"}
ByNumber(S) == SetToSortSeq(S, LAMBDA x, y : Attr[x].no < Attr[y].no)

(***************************************************************************)
(* Which lanes have a row.                                                 *)
(***************************************************************************)
PassesFilters(f, l) == f.procs = {} \/ Attr[l].pid \in f.procs
\* _lane_row: dropped when only lanes with matching events are wanted.
HasRow(f, l) == f.activeOnly => (f.events => l \in Matched)

EffectiveLaneOrder(v) ==
    SelectSeq(IF v.order = None THEN v.lanes ELSE v.order,
              LAMBDA l : l \in Range(v.lanes) /\ l \notin v.hidden /\ (v.isolated = None \/ l \in v.isolated[1]))
LaneNames(v) == SelectSeq(EffectiveLaneOrder(v), LAMBDA l : PassesFilters(v.filters, l) /\ HasRow(v.filters, l))

LaneRow(l, level) == [kind |-> "lane", id |-> l, lanes |-> <<l>>, level |-> level, collapsed |-> FALSE]
GroupRow(id, ls, level, c) == [kind |-> "group", id |-> id, lanes |-> ls, level |-> level, collapsed |-> c]

(***************************************************************************)
(* build_tree: process, then thread or device and stream, then lane.       *)
(***************************************************************************)
Leaf(l) == [kind |-> "lane", id |-> <<"l", l>>, lane |-> l, kids |-> <<>>]
Branch(kind, id, kids) == [kind |-> kind, id |-> id, lane |-> "", kids |-> kids]
Values(S, op(_)) == SetToSortSeq({op(l) : l \in S}, <)
IsThread(l) == Attr[l].kind = "thread"
IsStream(l) == Attr[l].kind = "stream"
Leaves(S) == LET s == SetToSortSeq(S, LAMBDA x, y : Attr[x].cat < Attr[y].cat \/ (Attr[x].cat = Attr[y].cat /\ Attr[x].no < Attr[y].no))
             IN [i \in DOMAIN s |-> Leaf(s[i])]
ThreadNodes(p, S) ==
    LET tids == Values(S, LAMBDA l : Attr[l].tid)
    IN [i \in DOMAIN tids |-> Branch("thread", <<"t", p, tids[i]>>, Leaves({l \in S : Attr[l].tid = tids[i]}))]
StreamNodes(p, d, S) ==
    LET ss == Values(S, LAMBDA l : Attr[l].stream)
    IN [i \in DOMAIN ss |-> Branch("stream", <<"s", p, d, ss[i]>>, Leaves({l \in S : Attr[l].stream = ss[i]}))]
DeviceNodes(p, S) ==
    LET ds == Values(S, LAMBDA l : Attr[l].dev)
        Of(d) == {l \in S : Attr[l].dev = d}
    IN [i \in DOMAIN ds |-> Branch("device", <<"d", p, ds[i]>>,
                                   StreamNodes(p, ds[i], {l \in Of(ds[i]) : IsStream(l)})
                                   \o Leaves({l \in Of(ds[i]) : ~IsStream(l)}))]
ProcessNode(p, S) ==
    Branch("process", <<"p", p>>,
           ThreadNodes(p, {l \in S : IsThread(l)})
           \o DeviceNodes(p, {l \in S : Attr[l].kind \in {"stream", "device"}})
           \o Leaves({l \in S : Attr[l].kind = "other"}))
BuildTree(S) ==
    LET RankOf(p) == (CHOOSE l \in S : Attr[l].pid = p)
        pids == SetToSortSeq({Attr[l].pid : l \in S},
                             LAMBDA p, q : Attr[RankOf(p)].rank < Attr[RankOf(q)].rank
                                           \/ (Attr[RankOf(p)].rank = Attr[RankOf(q)].rank /\ p < q))
    IN Branch("system", <<"system">>, [i \in DOMAIN pids |-> ProcessNode(pids[i], {l \in S : Attr[l].pid = pids[i]})])

RECURSIVE LanesOf(_)
LanesOf(n) == IF n.kind = "lane" THEN <<n.lane>> ELSE FlattenSeq([i \in DOMAIN n.kids |-> LanesOf(n.kids[i])])

\* flatten: a header without a visible lane is dropped; a thread or stream
\* with one visible lane is that lane's row.
RECURSIVE Visit(_, _, _, _)
Visit(n, depth, shown, coll) ==
    IF n.kind = "lane" THEN IF n.lane \in shown THEN <<LaneRow(n.lane, depth)>> ELSE <<>>
    ELSE LET kids == SelectSeq(n.kids, LAMBDA c : Range(LanesOf(c)) \cap shown # {})
             mine == SelectSeq(LanesOf(n), LAMBDA l : l \in shown)
         IN IF kids = <<>> THEN <<>>
            ELSE IF n.kind \in {"thread", "stream"} /\ Len(kids) = 1 /\ kids[1].kind = "lane"
            THEN Visit(kids[1], depth, shown, coll)
            ELSE <<GroupRow(n.id, mine, depth, n.id \in coll)>>
                 \o (IF n.id \in coll THEN <<>>
                     ELSE FlattenSeq([i \in DOMAIN kids |-> Visit(kids[i], depth + 1, shown, coll)]))

\* _reorder_within_groups: a custom order sorts each run of lane rows of one level.
ReorderWithinGroups(rs, ord) ==
    LET Break(i) == i = 1 \/ rs[i].kind = "group" \/ rs[i - 1].kind = "group" \/ rs[i].level # rs[i - 1].level
        Run(i) == Cardinality({j \in 1 .. i : Break(j)})
        Rank(i) == IF rs[i].kind = "group" THEN 0 ELSE CHOOSE k \in DOMAIN ord : ord[k] = rs[i].id
        by == SortSeq([i \in DOMAIN rs |-> i], LAMBDA i, j : Run(i) < Run(j) \/ (Run(i) = Run(j) /\ Rank(i) < Rank(j)))
    IN [i \in DOMAIN rs |-> rs[by[i]]]

HierarchyRows(v) ==
    LET shown == Range(LaneNames(v)) \cap (IF v.focus THEN OnPath ELSE Range(v.lanes))
        rs == Visit(BuildTree(Range(v.lanes)), 0, shown, v.collapsed)
    IN IF v.order = None THEN rs ELSE ReorderWithinGroups(rs, v.order)

GroupKey(g, l) == IF g = "process" THEN <<g, Attr[l].pid>> ELSE <<g, Attr[l].stream>>
\* Groups in the order of their first lane.
GroupedRows(v) ==
    LET ls == LaneNames(v)
        Key(l) == GroupKey(v.grouping, l)
        First(i) == \A j \in 1 .. i - 1 : Key(ls[j]) # Key(ls[i])
        firsts == SelectSeq([i \in DOMAIN ls |-> i], First)
        Members(k) == SelectSeq(ls, LAMBDA l : Key(l) = k)
        Group(k) == <<GroupRow(k, Members(k), 0, k \in v.collapsed)>>
                    \o (IF k \in v.collapsed THEN <<>> ELSE [i \in DOMAIN Members(k) |-> LaneRow(Members(k)[i], 1)])
    IN FlattenSeq([i \in DOMAIN firsts |-> Group(Key(ls[firsts[i]]))])

Rows(v) == CASE v.grouping = "hierarchy" -> HierarchyRows(v)
             [] v.grouping = "none" -> [i \in DOMAIN LaneNames(v) |-> LaneRow(LaneNames(v)[i], 0)]
             [] OTHER -> GroupedRows(v)

(***************************************************************************)
(* Operations.  Each ends with _rebuild_rows.                              *)
(***************************************************************************)
View == [lanes |-> lanes, filters |-> filters, grouping |-> grouping, collapsed |-> collapsed, hidden |-> hidden,
         isolated |-> isolated, order |-> order, focus |-> focus]
Becomes(v) ==
    /\ lanes' = v.lanes /\ filters' = v.filters /\ grouping' = v.grouping /\ collapsed' = v.collapsed
    /\ hidden' = v.hidden /\ isolated' = v.isolated /\ order' = v.order /\ focus' = v.focus
    /\ rows' = Rows(v)
Op(v) == ops < MaxOps /\ ops' = ops + 1 /\ Becomes(v) /\ UNCHANGED <<file, before>>

Opened(ls) == [lanes |-> ByNumber(ls), filters |-> Unset, grouping |-> "hierarchy", collapsed |-> {}, hidden |-> {},
               isolated |-> None, order |-> None, focus |-> FALSE]
Init == \E ls \in Traces :
    LET v == Opened(ls)
    IN /\ lanes = v.lanes /\ filters = v.filters /\ grouping = v.grouping /\ collapsed = {} /\ hidden = {}
       /\ isolated = None /\ order = None /\ focus = FALSE
       /\ rows = Rows(v) /\ ops = 0 /\ file = Opened(ls) /\ before = [lanes |-> <<>>, rows |-> <<>>]

ApplyFilters == \E f \in Filters : f # filters /\ Op([View EXCEPT !.filters = f])
ClearFilters == filters # Unset /\ Op([View EXCEPT !.filters = Unset])
SetGrouping == \E g \in Groupings \ {grouping} : Op([View EXCEPT !.grouping = g])
Headers == {rows[i].id : i \in {j \in DOMAIN rows : rows[j].kind = "group"}}
SetGroupCollapsed == \E g \in Headers :
    Op([View EXCEPT !.collapsed = IF g \in collapsed THEN collapsed \ {g} ELSE collapsed \cup {g}])
\* Only the headers shown now: a header inside a collapsed one keeps its state.
CollapseAllGroups == Op([View EXCEPT !.collapsed = collapsed \cup Headers])
ExpandAllGroups == Op([View EXCEPT !.collapsed = collapsed \ Headers])
HideLane == \E l \in Range(lanes) \ hidden : Op([View EXCEPT !.hidden = hidden \cup {l}])
ShowLane == \E l \in hidden : Op([View EXCEPT !.hidden = hidden \ {l}])
IsolateLane == \E l \in Range(lanes) : Op([View EXCEPT !.isolated = <<{l}>>])
ShowAllLanes == Op([View EXCEPT !.hidden = {}, !.isolated = None])
SetFocus == Op([View EXCEPT !.focus = ~focus])

BaseOrder == IF order = None THEN lanes ELSE order
Others(l) == SelectSeq(BaseOrder, LAMBDA x : x # l)
MoveRow == \E l \in Range(lanes), i \in 1 .. Len(lanes) :
    Op([View EXCEPT !.order = SubSeq(Others(l), 1, i - 1) \o <<l>> \o SubSeq(Others(l), i, Len(Others(l)))])

GivenOnly(given) == given
\* The lanes a caller omits come after the given ones.
Completed(given) == given \o SelectSeq(lanes, LAMBDA l : l \notin Range(given))
SetRowOrder == \E a, b \in Range(lanes) : a # b /\ Op([View EXCEPT !.order = Completed(<<a, b>>)])

(***************************************************************************)
(* Closing and opening again.                                              *)
(***************************************************************************)
ExportViewState == View
\* Lanes that are gone are dropped, new ones come last; nothing left means no custom order.
RestoreOrder(o, ls) ==
    LET kept == IF o = None THEN <<>> ELSE SelectSeq(o, LAMBDA l : l \in Range(ls))
    IN IF kept = <<>> THEN None ELSE kept \o SelectSeq(ls, LAMBDA l : l \notin Range(kept))
RestoreIsolated(i, ls) == IF i = None THEN None
                          ELSE IF i[1] \cap Range(ls) = {} THEN None ELSE <<i[1] \cap Range(ls)>>
RestoreViewState(state, ls) ==
    [state EXCEPT !.lanes = ls, !.hidden = state.hidden \cap Range(ls), !.isolated = RestoreIsolated(state.isolated, ls),
                  !.order = RestoreOrder(state.order, ls), !.focus = FALSE]

Reopen == \E ls \in Traces :
    /\ before.lanes = <<>>
    /\ file' = ExportViewState /\ before' = [lanes |-> lanes, rows |-> Rows([View EXCEPT !.focus = FALSE])]
    /\ Becomes(RestoreViewState(ExportViewState, ByNumber(ls)))
    /\ ops' = MaxOps

Next == ApplyFilters \/ ClearFilters \/ SetGrouping \/ SetGroupCollapsed \/ CollapseAllGroups \/ ExpandAllGroups \/ HideLane
        \/ ShowLane \/ IsolateLane \/ ShowAllLanes \/ SetFocus \/ MoveRow \/ SetRowOrder \/ Reopen
Spec == Init /\ [][Next]_vars

(***************************************************************************)
(* Properties.                                                             *)
(***************************************************************************)
Wanted(l) == /\ l \notin hidden /\ (isolated = None \/ l \in isolated[1])
             /\ PassesFilters(filters, l) /\ HasRow(filters, l)
             /\ (focus /\ grouping = "hierarchy" => l \in OnPath)
Places(l) == {i \in DOMAIN rows : (rows[i].kind = "lane" \/ rows[i].collapsed) /\ Contains(rows[i].lanes, l)}

\* Every lane the user did not filter out, hide or exclude is on the screen
\* exactly once, as its own row or inside one collapsed header, in every
\* grouping, under every custom order, and after a restore on a capture
\* that lost or gained lanes (_set_rows anchors overlays there); no header
\* is empty.
EachLaneOnce == /\ \A l \in Range(lanes) : Cardinality(Places(l)) = IF Wanted(l) THEN 1 ELSE 0
                /\ \A i \in DOMAIN rows : rows[i].lanes # <<>> /\ Cardinality(Range(rows[i].lanes)) = Len(rows[i].lanes)
                                          /\ Range(rows[i].lanes) \subseteq Range(lanes)

\* A view restored on the same lanes shows the rows it was closed with.
SameRows == before.lanes = lanes => rows = before.rows
=============================================================================
