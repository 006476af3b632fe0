----------------------------- MODULE MCViewer ------------------------------
(***************************************************************************)
(* The viewer's parts with the Timeline's rows beside them, and the        *)
(* instance they are checked on.                                           *)
(***************************************************************************)
EXTENDS Viewer

CONSTANTS Traces, Attr, Matched, OnPath, Filters, MaxOps
VARIABLES lanes, filters, grouping, collapsed, hidden, isolated, order, focus, rows, ops, file, before

T == INSTANCE Timeline
rowVars == <<lanes, filters, grouping, collapsed, hidden, isolated, order, focus, rows, ops, file, before>>
vars == <<viewer, rowVars>>

Init == /\ part \in {"files", "windows", "timeline", "overlays"} /\ Start /\ T!Init
        /\ part # "windows" => schema
        /\ part # "timeline" => Len(lanes) = 4
TimelineStep == part = "timeline" /\ T!Next /\ UNCHANGED viewer
Next == (Step /\ UNCHANGED rowVars) \/ TimelineStep
Spec == Init /\ [][Next]_vars /\ Fairness

\* Every wanted lane is on the screen exactly once, and a restored view has
\* the rows it was closed with (Timeline.EachLaneOnce, Timeline.SameRows).
RowsKept == T!EachLaneOnce /\ T!SameRows

(***************************************************************************)
(* The instance.                                                           *)
(***************************************************************************)
MCEvents == <<1, 0>>
L(no, pid, rank, kind, tid, dev, stream, cat) ==
    [no |-> no, pid |-> pid, rank |-> rank, kind |-> kind, tid |-> tid, dev |-> dev, stream |-> stream, cat |-> cat]
MCAttr == [a |-> L(1, 1, 1, "thread", 7, 0, 0, 1), b |-> L(2, 1, 1, "thread", 7, 0, 0, 0),
           c |-> L(3, 1, 1, "stream", 0, 0, 3, 2), d |-> L(4, 2, 0, "thread", 7, 0, 0, 1),
           e |-> L(5, 1, 1, "device", 0, 0, 0, 1), f |-> L(6, 2, 0, "other", 0, 0, 0, 1)]
MCTraces == {{"a", "b", "c", "d"}, {"a", "c", "d", "e", "f"}}
MCFilters == {[procs |-> {1}, events |-> FALSE, activeOnly |-> FALSE],
              [procs |-> {}, events |-> TRUE, activeOnly |-> TRUE]}
=============================================================================
