----------------------------- MODULE Overlays ------------------------------
(***************************************************************************)
(* The Timeline's background work (TimelineModel in src/gui/models.py,     *)
(* evaluate_alternatives and apply_alternatives in                         *)
(* src/gui/timeline_analysis.py): the analysis thread, the alternative     *)
(* worlds evaluated on request, their queued signals, what they do to the  *)
(* selected edge, and the history of views.                                *)
(***************************************************************************)
EXTENDS Integers, Sequences, FiniteSets

CONSTANTS Worlds,       \* worlds an evaluation plans
          MaxJobs,      \* bound on evaluations
          MaxViews,     \* bound on pushed views
          HistoryLimit  \* 200 views are kept

VARIABLES analysis,     \* "none", "ok", "failed"
          anState,      \* _analysis_state
          anThread,     \* "none", "building", "ok", "failed" (emitted, not delivered)
          job,          \* _alt_job: [running, done, asked]; asked: cancelled by the user (history)
          stop,       \* _alt_cancel
          altThread,    \* -1 no thread, else planned worlds left + 1
          queue,        \* queued signals of the evaluation
          report,       \* the last report applied: [worlds, cancelled, asked]
          late,         \* history: worlds begun after the user cancelled
          jobs,
          epoch,        \* times the extra edges were renumbered
          painted,      \* the epoch the painted geometry has
          edge,         \* _selected_edge: [extra, epoch, fresh]
          hist, pos     \* _history, _history_pos
altVars == <<job, stop, altThread, queue, report, late, jobs>>
anVars == <<analysis, anState, anThread>>
edgeVars == <<epoch, painted, edge>>
histVars == <<hist, pos>>
vars == <<anVars, altVars, edgeVars, histVars>>

NoEdge == [extra |-> FALSE, epoch |-> 0, fresh |-> TRUE]
NoReport == [worlds |-> Worlds, cancelled |-> FALSE, asked |-> FALSE]
Init ==
    /\ analysis = "none" /\ anState = "idle" /\ anThread = "none"
    /\ job = [running |-> FALSE, done |-> 0, asked |-> FALSE] /\ stop = FALSE /\ altThread = -1
    /\ queue = <<>> /\ report = NoReport /\ late = 0 /\ jobs = 0
    /\ epoch = 0 /\ painted = 0 /\ edge = NoEdge
    /\ hist = <<>> /\ pos = 0

(***************************************************************************)
(* The analysis.  Asked for by an overlay while there is none, by opening  *)
(* the screen, or by the button shown while idle or failed.                *)
(***************************************************************************)
StartAnalysis ==
    /\ anState \in {"idle", "failed"}
    /\ anState' = "running" /\ anThread' = "building"
    /\ UNCHANGED <<analysis, altVars, edgeVars, histVars>>
AnalysisBuilt ==
    /\ anThread = "building" /\ anThread' \in {"ok", "failed"}
    /\ UNCHANGED <<analysis, anState, altVars, edgeVars, histVars>>
OnAnalysisDone ==
    /\ anThread \in {"ok", "failed"}
    /\ analysis' = anThread /\ anThread' = "none"
    /\ anState' = IF anThread = "ok" THEN "ready" ELSE "failed"
    /\ UNCHANGED <<altVars, edgeVars, histVars>>

(***************************************************************************)
(* Alternative worlds.                                                     *)
(***************************************************************************)
KeepCancel == stop
ResetCancel == FALSE
EvaluateAlternatives ==
    /\ analysis = "ok" /\ ~job.running /\ jobs < MaxJobs
    /\ jobs' = jobs + 1 /\ late' = 0
    /\ stop' = ResetCancel
    /\ job' = [running |-> TRUE, done |-> 0, asked |-> FALSE]
    /\ altThread' = Worlds + 1
    /\ UNCHANGED <<queue, report, anVars, edgeVars, histVars>>

CancelAlternatives ==
    /\ job.running /\ ~job.asked
    /\ stop' = TRUE /\ job' = [job EXCEPT !.asked = TRUE]
    /\ UNCHANGED <<altThread, queue, report, late, jobs, anVars, edgeVars, histVars>>

Done(n, c) == [kind |-> "done", worlds |-> n, cancelled |-> c]
CancelSeen == stop
\* analyze_alternatives: the flag is looked at before each world.
EvaluateWorld ==
    /\ altThread > 0
    /\ IF altThread = 1 THEN queue' = Append(queue, Done(Worlds, FALSE)) /\ altThread' = -1 /\ UNCHANGED late
       ELSE IF CancelSeen THEN queue' = Append(queue, Done(Worlds + 1 - altThread, TRUE)) /\ altThread' = -1 /\ UNCHANGED late
       ELSE /\ altThread' = altThread - 1
            /\ late' = IF job.asked THEN late + 1 ELSE late
            /\ queue' = Append(queue, [kind |-> "progress", worlds |-> Worlds + 2 - altThread, cancelled |-> FALSE])
    /\ UNCHANGED <<job, stop, report, jobs, anVars, edgeVars, histVars>>
EvaluationFails ==
    /\ altThread > 0 /\ altThread' = -1
    /\ queue' = Append(queue, [kind |-> "error", worlds |-> 0, cancelled |-> FALSE])
    /\ UNCHANGED <<job, stop, report, late, jobs, anVars, edgeVars, histVars>>

\* Ids of extra edges were handed out anew: such a selection is dropped.
DropExtraEdge == IF edge.extra THEN NoEdge ELSE edge

DeliverSignal ==
    /\ queue # <<>> /\ queue' = Tail(queue)
    /\ LET m == Head(queue)
       IN \/ /\ m.kind = "progress"
             /\ job' = IF job.running THEN [job EXCEPT !.done = m.worlds] ELSE job
             /\ UNCHANGED <<report, edgeVars>>
          \/ /\ m.kind = "done"
             /\ job' = [job EXCEPT !.running = FALSE]
             /\ report' = [worlds |-> m.worlds, cancelled |-> m.cancelled, asked |-> job.asked]
             /\ epoch' = epoch + 1 /\ edge' = DropExtraEdge /\ UNCHANGED painted
          \/ /\ m.kind = "error"
             /\ job' = [job EXCEPT !.running = FALSE]
             /\ UNCHANGED <<report, edgeVars>>
    /\ UNCHANGED <<stop, altThread, late, jobs, anVars, histVars>>

(***************************************************************************)
(* Selecting an edge: the id comes from the geometry painted last, which a *)
(* renumbering may have outdated.                                          *)
(***************************************************************************)
Paint == painted # epoch /\ painted' = epoch /\ UNCHANGED <<epoch, edge, anVars, altVars, histVars>>
SelectEdge ==
    /\ analysis = "ok"
    /\ \E x \in BOOLEAN : edge' = [extra |-> x, epoch |-> painted, fresh |-> painted = epoch]
    /\ UNCHANGED <<epoch, painted, anVars, altVars, histVars>>
SelectEvent == edge' = NoEdge /\ UNCHANGED <<epoch, painted, anVars, altVars, histVars>>

(***************************************************************************)
(* History of views.                                                       *)
(***************************************************************************)
Trimmed(h) == IF Len(h) > HistoryLimit THEN Tail(h) ELSE h
PushView(v) ==
    /\ pos > 0 => hist[pos] # v
    /\ hist' = Trimmed(Append(SubSeq(hist, 1, pos), v))
    /\ pos' = Len(hist')
    /\ UNCHANGED <<anVars, altVars, edgeVars>>
HistoryBack == pos > 1 /\ pos' = pos - 1 /\ UNCHANGED <<hist, anVars, altVars, edgeVars>>
HistoryForward == pos < Len(hist) /\ pos' = pos + 1 /\ UNCHANGED <<hist, anVars, altVars, edgeVars>>

Loop == OnAnalysisDone \/ DeliverSignal
Thread == AnalysisBuilt \/ EvaluateWorld \/ EvaluationFails
User == \/ StartAnalysis \/ EvaluateAlternatives \/ CancelAlternatives \/ Paint \/ SelectEdge \/ SelectEvent
        \/ (\E v \in 1 .. MaxViews : PushView(v)) \/ HistoryBack \/ HistoryForward
Next == Loop \/ Thread \/ User

\* The event loop delivers what the threads emit; threads run.
Fairness == WF_vars(Loop) /\ WF_vars(AnalysisBuilt) /\ WF_vars(EvaluateWorld \/ EvaluationFails)
Spec == Init /\ [][Next]_vars /\ Fairness

(***************************************************************************)
(* Properties.                                                             *)
(***************************************************************************)
\* A report is marked as stopped early only when the user stopped that
\* evaluation, one that is not marked has every planned world, a stop lets
\* no further world begin, and an edge chosen from a fresh picture is still
\* the same edge after worlds were added.
WorldsHonest == /\ report.cancelled => report.asked
                /\ ~report.cancelled => report.worlds = Worlds
                /\ late = 0
                /\ (edge.extra /\ edge.fresh => edge.epoch = epoch)

\* Busy: until an analysis is ready or failed, an evaluation reports, fails
\* or stops.
Working == anState = "running" \/ job.running
=============================================================================
