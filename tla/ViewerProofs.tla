--------------------------- MODULE ViewerProofs ----------------------------
(***************************************************************************)
(* Proofs about the viewer: what its background work reports, how its      *)
(* windows hand over and keep their views, and what loads leave behind.    *)
(***************************************************************************)
EXTENDS Viewer, SequenceTheorems, FiniteSetTheorems, TLAPS

(***************************************************************************)
(* Background work.                                                        *)
(***************************************************************************)
Message == [kind : {"progress", "done", "error"}, worlds : Int, cancelled : BOOLEAN]
IsJob(j) == j = [running |-> j.running, done |-> j.done, asked |-> j.asked]
WorkType == altThread \in Int /\ queue \in Seq(Message) /\ IsJob(job)

\* The flag is raised exactly while this evaluation has been stopped.
FlagIsAsked == (stop <=> job.asked) /\ late = 0
Ends(m) == m.kind # "progress"
\* An evaluation that runs is either in its thread, with no final message
\* yet, or has its one final message at the end of the queue.
OneEnd ==
    /\ altThread > 0 => job.running /\ \A i \in DOMAIN queue : ~Ends(queue[i])
    /\ \A i \in DOMAIN queue : job.running /\ (Ends(queue[i]) => i = Len(queue))
Honest(m) == m.kind = "done" => (m.cancelled /\ job.asked) \/ (~m.cancelled /\ m.worlds = Worlds)
HonestQueue == \A i \in DOMAIN queue : Honest(queue[i])
HonestReport == (report.cancelled /\ report.asked) \/ (~report.cancelled /\ report.worlds = Worlds)
SameEdge == edge.extra /\ edge.fresh => edge.epoch = epoch
WorkInv == WorkType /\ FlagIsAsked /\ OneEnd /\ HonestQueue /\ HonestReport /\ SameEdge

\* Queues.
LEMMA Appended ==
    ASSUME NEW S, NEW q \in Seq(S), NEW m \in S
    PROVE  /\ Append(q, m) \in Seq(S) /\ Len(q) \in Nat
           /\ Len(Append(q, m)) = Len(q) + 1
           /\ \A i \in DOMAIN Append(q, m) : (i \in DOMAIN q /\ Append(q, m)[i] = q[i]) \/ (i = Len(q) + 1 /\ Append(q, m)[i] = m)
  OBVIOUS

LEMMA Popped ==
    ASSUME NEW S, NEW q \in Seq(S), q # <<>>
    PROVE  /\ Tail(q) \in Seq(S) /\ Len(q) \in Nat \ {0} /\ Head(q) = q[1] /\ 1 \in DOMAIN q /\ Head(q) \in S
           /\ Len(Tail(q)) = Len(q) - 1 /\ DOMAIN Tail(q) = 1 .. Len(q) - 1
           /\ \A i \in DOMAIN Tail(q) : i + 1 \in DOMAIN q /\ i \in Nat /\ Tail(q)[i] = q[i + 1]
  OBVIOUS

\* It holds before anything was asked for.
LEMMA WorkInit == O!Init => WorkInv
  BY ViewerAssumption
  DEF O!Init, O!NoReport, O!NoEdge, WorkInv, WorkType, IsJob, FlagIsAsked, OneEnd, HonestQueue, HonestReport, SameEdge

\* A message that its thread puts behind the others.
LEMMA Queued ==
    ASSUME NEW m \in Message, WorkInv, altThread > 0, queue' = Append(queue, m), altThread' \in Int,
           Ends(m) => altThread' = -1, ~Ends(m) => altThread' > 0, Honest(m), late' = 0,
           UNCHANGED <<job, stop, report, epoch, edge>>
    PROVE  WorkInv'
  <1>1. queue' \in Seq(Message) /\ Len(queue) \in Nat /\ Len(queue') = Len(queue) + 1
    BY Appended DEF WorkInv, WorkType
  <1>2. \A i \in DOMAIN queue' : (i \in DOMAIN queue /\ queue'[i] = queue[i]) \/ (i = Len(queue') /\ queue'[i] = m)
    BY <1>1, Appended DEF WorkInv, WorkType
  <1>3. WorkType' /\ FlagIsAsked' /\ HonestReport' /\ SameEdge'
    BY <1>1 DEF WorkInv, WorkType, FlagIsAsked, HonestReport, SameEdge
  <1>4. OneEnd'
    BY <1>1, <1>2 DEF WorkInv, OneEnd
  <1>5. HonestQueue'
    BY <1>2 DEF WorkInv, HonestQueue, Honest
  <1> QED
    BY <1>3, <1>4, <1>5 DEF WorkInv

\* The evaluation's thread: a world, the end, or a stop seen before the next world.
LEMMA WorldStep == WorkInv /\ O!EvaluateWorld => WorkInv'
  <1> SUFFICES ASSUME WorkInv, O!EvaluateWorld PROVE WorkInv'
    OBVIOUS
  <1> USE ViewerAssumption
  <1>0. altThread \in Int /\ altThread > 0 /\ UNCHANGED <<job, stop, report, epoch, edge>> /\ late = 0
    BY DEF WorkInv, WorkType, FlagIsAsked, O!EvaluateWorld, O!edgeVars
  <1>1. CASE altThread = 1
    <2> DEFINE m == O!Done(Worlds, FALSE)
    <2>1. queue' = Append(queue, m) /\ altThread' = -1 /\ late' = late
      BY <1>1 DEF O!EvaluateWorld
    <2>2. m = [kind |-> "done", worlds |-> Worlds, cancelled |-> FALSE]
      BY DEF O!Done
    <2> HIDE DEF m
    <2>3. m \in Message /\ Ends(m) /\ Honest(m)
      BY <2>2 DEF Message, Ends, Honest
    <2> QED
      BY <1>0, <2>1, <2>3, Queued
  <1>2. CASE altThread # 1 /\ stop
    <2> DEFINE m == O!Done(Worlds + 1 - altThread, TRUE)
    <2>1. queue' = Append(queue, m) /\ altThread' = -1 /\ late' = late
      BY <1>2 DEF O!EvaluateWorld, O!CancelSeen
    <2>2. m = [kind |-> "done", worlds |-> Worlds + 1 - altThread, cancelled |-> TRUE]
      BY DEF O!Done
    <2> HIDE DEF m
    <2>3. m \in Message /\ Ends(m)
      BY <1>0, <2>2 DEF Message, Ends
    <2>4. Honest(m)
      BY <1>2, <2>2 DEF Honest, WorkInv, FlagIsAsked
    <2> QED
      BY <1>0, <2>1, <2>3, <2>4, Queued
  <1>3. CASE altThread # 1 /\ ~stop
    <2> DEFINE m == [kind |-> "progress", worlds |-> Worlds + 2 - altThread, cancelled |-> FALSE]
    <2>1. queue' = Append(queue, m) /\ altThread' = altThread - 1
      BY <1>3 DEF O!EvaluateWorld, O!CancelSeen
    <2>2. ~job.asked
      BY <1>3 DEF WorkInv, FlagIsAsked
    <2>3. late' = late
      BY <1>3, <2>2 DEF O!EvaluateWorld, O!CancelSeen
    <2>4. m \in Message /\ ~Ends(m) /\ Honest(m)
      BY <1>0 DEF Message, Ends, Honest
    <2> HIDE DEF m
    <2> QED
      BY <1>0, <1>3, <2>1, <2>3, <2>4, Queued
  <1> QED
    BY <1>1, <1>2, <1>3

\* The thread fails.
LEMMA FailStep == WorkInv /\ O!EvaluationFails => WorkInv'
  <1> SUFFICES ASSUME WorkInv, O!EvaluationFails PROVE WorkInv'
    OBVIOUS
  <1> DEFINE m == [kind |-> "error", worlds |-> 0, cancelled |-> FALSE]
  <1>1. queue' = Append(queue, m) /\ altThread' = -1 /\ altThread > 0 /\ UNCHANGED <<job, stop, report, late, epoch, edge>>
    BY DEF O!EvaluationFails, O!edgeVars
  <1>2. m \in Message /\ Ends(m) /\ Honest(m) /\ late = 0
    BY DEF Message, Ends, Honest, WorkInv, FlagIsAsked
  <1> HIDE DEF m
  <1> QED
    BY <1>1, <1>2, Queued

\* The event loop takes the next message.
LEMMA DeliverStep == WorkInv /\ O!DeliverSignal => WorkInv'
  <1> SUFFICES ASSUME WorkInv, O!DeliverSignal PROVE WorkInv'
    OBVIOUS
  <1> DEFINE m == Head(queue)
  <1>1. queue # <<>> /\ queue' = Tail(queue) /\ UNCHANGED <<stop, altThread, late>>
    BY DEF O!DeliverSignal
  <1>2. /\ queue \in Seq(Message) /\ IsJob(job) /\ altThread \in Int
        /\ FlagIsAsked /\ OneEnd /\ HonestQueue /\ HonestReport /\ SameEdge
    BY DEF WorkInv, WorkType
  <1>3. /\ queue' \in Seq(Message) /\ Len(queue) \in Nat \ {0} /\ m = queue[1] /\ 1 \in DOMAIN queue
        /\ Len(queue') = Len(queue) - 1 /\ DOMAIN queue' = 1 .. Len(queue) - 1
        /\ \A i \in DOMAIN queue' : i + 1 \in DOMAIN queue /\ i \in Nat /\ queue'[i] = queue[i + 1]
    BY <1>1, <1>2, Popped
  <1>4. Honest(m) /\ job.running /\ (Ends(m) => 1 = Len(queue)) /\ (altThread > 0 => ~Ends(m))
    BY <1>2, <1>3 DEF HonestQueue, OneEnd
  <1>a. \A v : IsJob([job EXCEPT !.running = v]) /\ [job EXCEPT !.running = v].asked = job.asked
    BY <1>2 DEF IsJob
  <1>b. \A v : /\ IsJob([job EXCEPT !.done = v]) /\ [job EXCEPT !.done = v].asked = job.asked
              /\ [job EXCEPT !.done = v].running = job.running
    BY <1>2 DEF IsJob
  <1>5. \/ m.kind = "progress" /\ job'.running /\ job'.asked = job.asked /\ IsJob(job') /\ UNCHANGED <<report, epoch, edge>>
        \/ /\ m.kind = "done" /\ job'.asked = job.asked /\ IsJob(job')
           /\ report' = [worlds |-> m.worlds, cancelled |-> m.cancelled, asked |-> job.asked]
           /\ edge' = O!DropExtraEdge
        \/ m.kind = "error" /\ job'.asked = job.asked /\ IsJob(job') /\ UNCHANGED <<report, epoch, edge>>
    <2>1. CASE m.kind = "progress" /\ job' = [job EXCEPT !.done = m.worlds] /\ UNCHANGED <<report, epoch, edge>>
      BY <1>b, <1>4, <2>1
    <2>2. CASE m.kind = "done" /\ job' = [job EXCEPT !.running = FALSE]
               /\ report' = [worlds |-> m.worlds, cancelled |-> m.cancelled, asked |-> job.asked] /\ edge' = O!DropExtraEdge
      BY <1>a, <2>2
    <2>3. CASE m.kind = "error" /\ job' = [job EXCEPT !.running = FALSE] /\ UNCHANGED <<report, epoch, edge>>
      BY <1>a, <2>3
    <2> QED
      BY <1>4, <2>1, <2>2, <2>3 DEF O!DeliverSignal, O!edgeVars
  <1> HIDE DEF m
  <1>6. WorkType' /\ FlagIsAsked'
    BY <1>1, <1>2, <1>3, <1>5 DEF WorkType, FlagIsAsked
  <1>7. Ends(m) => \A i \in DOMAIN queue' : FALSE
    BY <1>3, <1>4 DEF Ends
  <1>8. OneEnd'
    BY <1>1, <1>2, <1>3, <1>4, <1>5, <1>7 DEF OneEnd, Ends
  <1>9. HonestQueue'
    BY <1>2, <1>3, <1>5 DEF HonestQueue, Honest
  <1>10. HonestReport'
    BY <1>2, <1>4, <1>5 DEF HonestReport, Honest
  <1>11. SameEdge'
    BY <1>2, <1>5 DEF SameEdge, O!DropExtraEdge, O!NoEdge
  <1> QED
    BY <1>6, <1>8, <1>9, <1>10, <1>11 DEF WorkInv

\* The user starts, stops, repaints and selects.
LEMMA UserStep ==
    ASSUME WorkInv, O!EvaluateAlternatives \/ O!CancelAlternatives \/ O!Paint \/ O!SelectEdge \/ O!SelectEvent
    PROVE  WorkInv'
  <1> USE ViewerAssumption
  <1>0. WorkType /\ FlagIsAsked /\ OneEnd /\ HonestQueue /\ HonestReport /\ SameEdge
    BY DEF WorkInv
  <1>1. CASE O!EvaluateAlternatives
    <2>1. /\ job' = [running |-> TRUE, done |-> 0, asked |-> FALSE] /\ ~job.running /\ altThread' = Worlds + 1
          /\ ~stop' /\ late' = 0 /\ UNCHANGED <<queue, report, epoch, edge>>
      BY <1>1 DEF O!EvaluateAlternatives, O!ResetCancel, O!edgeVars
    <2>2. DOMAIN queue = {} /\ DOMAIN queue' = {}
      BY <1>0, <2>1 DEF OneEnd
    <2>3. IsJob(job') /\ job'.running /\ ~job'.asked
      BY <2>1 DEF IsJob
    <2> QED
      BY <1>0, <2>1, <2>2, <2>3 DEF WorkInv, WorkType, FlagIsAsked, OneEnd, HonestQueue, HonestReport, SameEdge
  <1>2. CASE O!CancelAlternatives
    <2>1. /\ job' = [job EXCEPT !.asked = TRUE] /\ stop' /\ UNCHANGED <<altThread, queue, report, late, epoch, edge>>
      BY <1>2 DEF O!CancelAlternatives, O!edgeVars
    <2>2. IsJob(job') /\ (job'.running <=> job.running) /\ job'.asked
      BY <1>0, <2>1 DEF WorkType, IsJob
    <2> QED
      BY <1>0, <2>1, <2>2 DEF WorkInv, WorkType, FlagIsAsked, OneEnd, HonestQueue, Honest, HonestReport, SameEdge
  <1>3. CASE O!Paint \/ O!SelectEdge \/ O!SelectEvent
    <2>1. UNCHANGED <<job, stop, altThread, queue, report, late, epoch>>
      BY <1>3 DEF O!Paint, O!SelectEdge, O!SelectEvent, O!altVars
    <2>2. UNCHANGED edge \/ edge' = O!NoEdge => SameEdge'
      BY <1>0, <2>1 DEF O!NoEdge, SameEdge
    <2>3. O!SelectEdge => SameEdge'
      <3> SUFFICES ASSUME O!SelectEdge PROVE SameEdge'
        OBVIOUS
      <3>1. PICK x \in BOOLEAN : edge' = [extra |-> x, epoch |-> painted, fresh |-> painted = epoch]
        BY DEF O!SelectEdge
      <3>2. edge'.epoch = painted /\ edge'.fresh = (painted = epoch)
        BY <3>1
      <3> QED
        BY <2>1, <3>2 DEF SameEdge
    <2>4. SameEdge'
      BY <1>3, <2>2, <2>3 DEF O!Paint, O!SelectEvent
    <2> QED
      BY <1>0, <2>1, <2>4 DEF WorkInv, WorkType, FlagIsAsked, OneEnd, HonestQueue, Honest, HonestReport
  <1> QED
    BY <1>1, <1>2, <1>3

\* All steps of the background work.
LEMMA WorkStep == WorkInv /\ (O!Next \/ UNCHANGED workVars) => WorkInv'
  <1> SUFFICES ASSUME WorkInv, O!Next \/ UNCHANGED workVars PROVE WorkInv'
    OBVIOUS
  <1>1. CASE UNCHANGED <<job, stop, altThread, queue, report, late, epoch, edge>>
    BY <1>1 DEF WorkInv, WorkType, FlagIsAsked, OneEnd, HonestQueue, Honest, HonestReport, SameEdge
  <1> QED
    BY <1>1, WorldStep, FailStep, DeliverStep, UserStep
    DEF O!Next, O!Loop, O!Thread, O!User, O!StartAnalysis, O!AnalysisBuilt, O!OnAnalysisDone, O!PushView, O!HistoryBack,
        O!HistoryForward, O!altVars, O!edgeVars, workVars

(***************************************************************************)
(* Windows.                                                                *)
(***************************************************************************)
IsWin(r) ==
    r = [state |-> r.state, path |-> r.path, view |-> r.view, timer |-> r.timer, watch |-> r.watch, tier |-> r.tier,
         announced |-> r.announced]
WinType ==
    /\ win = [w \in W!Wins |-> win[w]]
    /\ \A w \in W!Wins : IsWin(win[w]) /\ (win[w].state # "none" => win[w].path \in Profiles)

\* What steps do to windows, seen one window at a time.
Keeps(v) == /\ win'[v].state = win[v].state /\ win'[v].path = win[v].path
            /\ win'[v].view = win[v].view /\ win'[v].timer = win[v].timer
Others(w) == w \in W!Wins /\ \A v \in W!Wins \ {w} : Keeps(v)
Stored == UNCHANGED <<saved, last, schema, overtaken>>
Forgets(p) == last' = [last EXCEPT ![p] = "unknown"]

DoQuiet == (\A v \in W!Wins : Keeps(v)) /\ Stored
DoNew(n) == Others(n) /\ Stored /\ win[n].state = "none" /\ win'[n].state = "starting" /\ win'[n].path \in Profiles
DoRead(w) ==
    /\ Others(w) /\ Stored /\ schema
    /\ win[w].state = "starting" /\ win'[w].state = "loading" /\ win'[w].path = win[w].path
    /\ win'[w].view = W!LoadProfileState(win[w].path)
DoCheck(w) ==
    /\ Others(w) /\ ~schema /\ schema' /\ saved' = <<>> /\ UNCHANGED <<last, overtaken>>
    /\ win[w].state = "starting" /\ win'[w].state = "loading" /\ win'[w].path = win[w].path /\ win'[w].view = "default"
DoShow(w) ==
    /\ Others(w) /\ UNCHANGED <<saved, schema, overtaken>>
    /\ win[w].state = "loading" /\ win'[w].state = "up" /\ win'[w].path = win[w].path /\ win'[w].view = win[w].view
    /\ (W!Rivals(w) = {} /\ w \notin overtaken /\ last' = last) \/ Forgets(win[w].path)
DoFail(w) ==
    /\ Others(w) /\ UNCHANGED <<saved, schema, overtaken>>
    /\ win'[w].state = "failed" /\ win'[w].path = win[w].path
    /\ \/ win[w].state = "starting" /\ last' = last
       \/ win[w].state = "loading" /\ win[w].path \in DOMAIN saved /\ last' = last
       \/ win[w].state = "loading" /\ Forgets(win[w].path)
DoChange(w) ==
    /\ Others(w) /\ UNCHANGED <<saved, schema, overtaken>>
    /\ win[w].state = "up" /\ win'[w].state = "up" /\ win'[w].path = win[w].path /\ win'[w].timer
    /\ \/ last[win[w].path] # "unknown" /\ last' = [last EXCEPT ![win[w].path] = win'[w].view]
       \/ Forgets(win[w].path)
DoSave(w) ==
    /\ Others(w) /\ win[w].state = "up" /\ win'[w].state \in {"up", "exited"}
    /\ win'[w].path = win[w].path /\ win'[w].view = win[w].view
    /\ W!SaveProfileState(w) /\ UNCHANGED schema
DoCrash(w) ==
    /\ Others(w) /\ UNCHANGED <<saved, schema, overtaken>>
    /\ win[w].state = "up" /\ win'[w].state = "failed" /\ win'[w].path = win[w].path
    /\ (~win[w].timer /\ win[w].path \in DOMAIN saved /\ last' = last) \/ Forgets(win[w].path)
DoForget(w) ==
    /\ \A v \in W!Wins : Keeps(v)
    /\ win[w].state = "up" /\ Forgets(win[w].path) /\ UNCHANGED <<schema, overtaken>>
    /\ \E gone \in SUBSET {win[w].path} : saved' = W!Drop(saved, gone)
DoForgetAll(w) ==
    /\ \A v \in W!Wins : Keeps(v)
    /\ win[w].state = "up" /\ last' = [p \in Profiles |-> "unknown"] /\ UNCHANGED <<schema, overtaken>>
WinEffect ==
    \/ DoQuiet
    \/ \E w \in W!Wins : \/ DoNew(w) \/ DoRead(w) \/ DoCheck(w) \/ DoShow(w) \/ DoFail(w) \/ DoChange(w)
                         \/ DoSave(w) \/ DoCrash(w) \/ DoForget(w) \/ DoForgetAll(w)

\* A new process takes an unused number.
LEMMA NewWindow ==
    ASSUME W!Free # {}
    PROVE  W!Next1 \in W!Wins /\ win[W!Next1].state = "none"
  BY DEF W!Next1, W!Free

\* It is starting and has not announced itself.
LEMMA MadeNew ==
    ASSUME NEW p, NEW t
    PROVE  IsWin(W!New(p, t)) /\ W!New(p, t).state = "starting" /\ W!New(p, t).path = p /\ ~W!New(p, t).announced
  <1> DEFINE a == [W!NoWin EXCEPT !.state = "starting"]
             b == [a EXCEPT !.path = p]
             c == [b EXCEPT !.tier = t]
  <1>1. W!New(p, t) = c
    BY DEF W!New
  <1>2. IsWin(W!NoWin) /\ ~W!NoWin.announced
    BY DEF W!NoWin, IsWin
  <1>3. IsWin(a) /\ a.state = "starting" /\ ~a.announced
    BY <1>2 DEF IsWin
  <1> HIDE DEF a
  <1>4. IsWin(b) /\ b.state = "starting" /\ b.path = p /\ ~b.announced
    BY <1>3 DEF IsWin
  <1> HIDE DEF b
  <1>5. IsWin(c) /\ c.state = "starting" /\ c.path = p /\ ~c.announced
    BY <1>4 DEF IsWin
  <1> QED
    BY <1>1, <1>5

\* The settings file, the windows and their marks after each step.
LEMMA WinSteps == WinType /\ W!Next => WinType' /\ WinEffect
  <1> SUFFICES ASSUME WinType, W!Next PROVE WinType' /\ WinEffect
    OBVIOUS
  <1> USE DEF WinType
  <1>1. ASSUME NEW p \in Profiles, W!Launch(p) PROVE WinType' /\ WinEffect
    <2>1. CASE UNCHANGED win
      BY <1>1, <2>1 DEF W!Launch, W!storeVars, WinEffect, DoQuiet, Keeps, Stored
    <2>2. CASE win' = [win EXCEPT ![W!Next1] = W!New(p, "gpu")]
      <3>1. W!Next1 \in W!Wins /\ win[W!Next1].state = "none" /\ Stored
        BY <1>1, NewWindow DEF W!Launch, W!storeVars, Stored
      <3>2. win'[W!Next1] = W!New(p, "gpu") /\ \A v \in W!Wins \ {W!Next1} : win'[v] = win[v]
        BY <2>2, <3>1
      <3>3. WinType'
        BY <2>2, <3>1, <3>2, MadeNew
      <3>4. DoNew(W!Next1)
        BY <3>1, <3>2, MadeNew DEF DoNew, Others, Keeps
      <3> QED
        BY <3>1, <3>3, <3>4 DEF WinEffect
    <2> QED
      BY <1>1, <2>1, <2>2 DEF W!Launch
  <1>2. ASSUME NEW w \in W!Wins, W!TierEnds(w) PROVE WinType' /\ WinEffect
    <2>1. CASE UNCHANGED win
      BY <1>2, <2>1 DEF W!TierEnds, W!storeVars, WinEffect, DoQuiet, Keeps, Stored
    <2>2. CASE W!Free # {} /\ win[w].state = "failed" /\ win' = [win EXCEPT ![W!Next1] = W!New(win[w].path, "software")]
      <3>1. W!Next1 \in W!Wins /\ win[W!Next1].state = "none" /\ Stored /\ win[w].path \in Profiles
        BY <1>2, <2>2, NewWindow DEF W!TierEnds, W!storeVars, Stored
      <3>2. win'[W!Next1] = W!New(win[w].path, "software") /\ \A v \in W!Wins \ {W!Next1} : win'[v] = win[v]
        BY <2>2, <3>1
      <3>3. WinType'
        BY <2>2, <3>1, <3>2, MadeNew
      <3>4. DoNew(W!Next1)
        BY <3>1, <3>2, MadeNew DEF DoNew, Others, Keeps
      <3> QED
        BY <3>1, <3>3, <3>4 DEF WinEffect
    <2> QED
      BY <1>2, <2>1, <2>2 DEF W!TierEnds
  <1>3. ASSUME NEW w \in W!Wins, NEW p \in Profiles \cup Bad, W!OpenProfile(w, p) PROVE WinType' /\ WinEffect
    <2>1. CASE UNCHANGED win
      BY <1>3, <2>1 DEF W!OpenProfile, W!storeVars, WinEffect, DoQuiet, Keeps, Stored
    <2>2. CASE W!Free # {} /\ p \in Profiles /\ win' = [win EXCEPT ![W!Next1] = W!New(p, "child"), ![w].watch = W!Next1]
      <3>1. W!Next1 \in W!Wins /\ win[W!Next1].state = "none" /\ Stored /\ W!Next1 # w
        BY <1>3, <2>2, NewWindow DEF W!OpenProfile, W!storeVars, Stored, W!Up
      <3>2. /\ win'[W!Next1] = W!New(p, "child") /\ \A v \in W!Wins \ {W!Next1, w} : win'[v] = win[v]
            /\ win'[w] = [win[w] EXCEPT !.watch = W!Next1]
            /\ win' = [v \in W!Wins |-> win'[v]]
        BY <2>2, <3>1
      <3>3. IsWin(win'[w]) /\ Keeps(w)
        BY <3>2 DEF IsWin, Keeps
      <3>4. WinType'
        BY <1>3, <2>2, <3>1, <3>2, <3>3, MadeNew DEF Keeps, W!OpenProfile
      <3>5. DoNew(W!Next1)
        BY <2>2, <3>1, <3>2, <3>3, MadeNew DEF DoNew, Others, Keeps
      <3> QED
        BY <3>1, <3>4, <3>5 DEF WinEffect
    <2> QED
      BY <1>3, <2>1, <2>2 DEF W!OpenProfile
  <1>o. ASSUME NEW w \in W!Wins, NEW u, win' = [win EXCEPT ![w] = W!Opened(w, u)]
        PROVE  /\ win'[w].state = "loading" /\ win'[w].path = win[w].path /\ win'[w].view = u
               /\ (\A v \in W!Wins \ {w} : win'[v] = win[v]) /\ (win[w].state = "starting" => WinType')
    <2> DEFINE a == [win[w] EXCEPT !.state = "loading"]
    <2>1. W!Opened(w, u) = [a EXCEPT !.view = u]
      BY DEF W!Opened
    <2>2. IsWin(a) /\ a.state = "loading" /\ a.path = win[w].path
      BY DEF IsWin
    <2> HIDE DEF a
    <2>3. IsWin(W!Opened(w, u)) /\ W!Opened(w, u).state = "loading" /\ W!Opened(w, u).path = win[w].path /\ W!Opened(w, u).view = u
      BY <2>1, <2>2 DEF IsWin
    <2>4. win'[w] = W!Opened(w, u) /\ (\A v \in W!Wins \ {w} : win'[v] = win[v]) /\ win' = [v \in W!Wins |-> win'[v]]
      BY <1>o
    <2> QED
      BY <2>3, <2>4
  <1>4. ASSUME NEW w \in W!Wins, W!ReadSettings(w) \/ W!CheckSchemaVersion(w) PROVE WinType' /\ WinEffect
    <2>1. CASE W!ReadSettings(w)
      <3>1. /\ win[w].state = "starting" /\ schema /\ Stored
            /\ win' = [win EXCEPT ![w] = W!Opened(w, W!LoadProfileState(win[w].path))]
        BY <2>1 DEF W!ReadSettings, W!Sync, Stored
      <3> QED
        BY <1>o, <3>1 DEF WinEffect, DoRead, Others, Keeps
    <2>2. CASE W!CheckSchemaVersion(w)
      <3>1. /\ win[w].state = "starting" /\ ~schema /\ schema' /\ saved' = <<>> /\ UNCHANGED <<last, overtaken>>
            /\ win' = [win EXCEPT ![w] = W!Opened(w, "default")]
        BY <2>2 DEF W!CheckSchemaVersion, W!Sync, W!Default
      <3> QED
        BY <1>o, <3>1 DEF WinEffect, DoCheck, Others, Keeps
    <2> QED
      BY <1>4, <2>1, <2>2
  <1>5. ASSUME NEW w \in W!Wins, W!ShowWindow(w) PROVE WinType' /\ WinEffect
    <2>1. /\ win' = [win EXCEPT ![w].state = "up"] /\ win[w].state = "loading" /\ UNCHANGED <<saved, schema, overtaken>>
          /\ (W!Rivals(w) = {} /\ w \notin overtaken /\ last' = last) \/ Forgets(win[w].path)
      BY <1>5 DEF W!ShowWindow, W!storeVars, W!Unknown, Forgets
    <2>2. /\ win'[w] = [win[w] EXCEPT !.state = "up"] /\ (\A v \in W!Wins \ {w} : win'[v] = win[v])
          /\ win' = [v \in W!Wins |-> win'[v]]
      BY <2>1
    <2>3. IsWin(win'[w]) /\ win'[w].state = "up" /\ win'[w].path = win[w].path /\ win'[w].view = win[w].view
      BY <2>2 DEF IsWin
    <2>4. WinType'
      BY <2>1, <2>2, <2>3
    <2> QED
      BY <2>1, <2>2, <2>3, <2>4 DEF WinEffect, DoShow, Others, Keeps
  <1>6. ASSUME NEW w \in W!Wins, W!LoadFails(w) PROVE WinType' /\ WinEffect
    <2>1. /\ win[w].state \in {"starting", "loading"} /\ win' = [win EXCEPT ![w].state = "failed"]
          /\ UNCHANGED <<saved, schema, overtaken>>
          /\ \/ win[w].state = "starting" /\ last' = last
             \/ win[w].state = "loading" /\ win[w].path \in DOMAIN saved /\ last' = last
             \/ win[w].state = "loading" /\ Forgets(win[w].path)
      BY <1>6 DEF W!LoadFails, W!Unread, W!Unknown, Forgets
    <2>2. /\ win'[w] = [win[w] EXCEPT !.state = "failed"] /\ (\A v \in W!Wins \ {w} : win'[v] = win[v])
          /\ win' = [v \in W!Wins |-> win'[v]]
      BY <2>1
    <2>3. IsWin(win'[w]) /\ win'[w].state = "failed" /\ win'[w].path = win[w].path
      BY <2>2 DEF IsWin
    <2>4. WinType'
      BY <2>1, <2>2, <2>3
    <2>5. DoFail(w)
      BY <2>1, <2>2, <2>3 DEF DoFail, Others, Keeps
    <2> QED
      BY <2>4, <2>5 DEF WinEffect
  <1>7. ASSUME NEW w \in W!Wins, W!TouchMarker(w) PROVE WinType' /\ WinEffect
    <2>1. Stored /\ win' = [win EXCEPT ![w].announced = TRUE]
      BY <1>7 DEF W!TouchMarker, W!storeVars, Stored
    <2>2. /\ win'[w] = [win[w] EXCEPT !.announced = TRUE] /\ (\A v \in W!Wins \ {w} : win'[v] = win[v])
          /\ win' = [v \in W!Wins |-> win'[v]]
      BY <2>1
    <2>3. IsWin(win'[w]) /\ Keeps(w)
      BY <2>2 DEF IsWin, Keeps
    <2>4. WinType'
      BY <2>2, <2>3 DEF Keeps
    <2> QED
      BY <2>1, <2>2, <2>3, <2>4 DEF WinEffect, DoQuiet, Keeps
  <1>8. ASSUME NEW w \in W!Wins, W!ChildExited(w) PROVE WinType' /\ WinEffect
    <2>1. Stored /\ win' = [win EXCEPT ![w].watch = 0]
      BY <1>8 DEF W!ChildExited, W!storeVars, Stored
    <2>2. /\ win'[w] = [win[w] EXCEPT !.watch = 0] /\ (\A v \in W!Wins \ {w} : win'[v] = win[v])
          /\ win' = [v \in W!Wins |-> win'[v]]
      BY <2>1
    <2>3. IsWin(win'[w]) /\ Keeps(w)
      BY <2>2 DEF IsWin, Keeps
    <2>4. WinType'
      BY <2>2, <2>3 DEF Keeps
    <2> QED
      BY <2>1, <2>2, <2>3, <2>4 DEF WinEffect, DoQuiet, Keeps
  <1>9. ASSUME NEW w \in W!Wins, W!DeadlinePassed(w) PROVE WinType' /\ WinEffect
    <2>1. Stored /\ win' = [win EXCEPT ![w].watch = 0]
      BY <1>9 DEF W!DeadlinePassed, W!storeVars, Stored
    <2>2. /\ win'[w] = [win[w] EXCEPT !.watch = 0] /\ (\A v \in W!Wins \ {w} : win'[v] = win[v])
          /\ win' = [v \in W!Wins |-> win'[v]]
      BY <2>1
    <2>3. IsWin(win'[w]) /\ Keeps(w)
      BY <2>2 DEF IsWin, Keeps
    <2>4. WinType'
      BY <2>2, <2>3 DEF Keeps
    <2> QED
      BY <2>1, <2>2, <2>3, <2>4 DEF WinEffect, DoQuiet, Keeps
  <1>10. ASSUME NEW w \in W!Wins, W!Ready(w) PROVE WinType' /\ WinEffect
    <2>1. /\ win' = [win EXCEPT ![w].watch = 0, ![w].state = "exited", ![w].timer = FALSE]
          /\ win[w].state = "up" /\ W!SaveProfileState(w) /\ UNCHANGED schema
      BY <1>10 DEF W!Ready, W!Leaves, W!Up
    <2> DEFINE a == [win[w] EXCEPT !.watch = 0]
               b == [a EXCEPT !.state = "exited"]
               c == [b EXCEPT !.timer = FALSE]
    <2>2. win'[w] = c /\ (\A v \in W!Wins \ {w} : win'[v] = win[v]) /\ win' = [v \in W!Wins |-> win'[v]]
      BY <2>1
    <2>3. IsWin(a) /\ a.path = win[w].path /\ a.view = win[w].view /\ a.state = win[w].state
      BY DEF IsWin
    <2> HIDE DEF a
    <2>4. IsWin(b) /\ b.state = "exited" /\ b.path = win[w].path /\ b.view = win[w].view
      BY <2>3 DEF IsWin
    <2> HIDE DEF b
    <2>5. IsWin(c) /\ c.state = "exited" /\ c.timer = FALSE /\ c.path = win[w].path /\ c.view = win[w].view
      <3>1. \A x : /\ IsWin([b EXCEPT !.timer = x])
                  /\ [b EXCEPT !.timer = x].state = "exited"
                  /\ [b EXCEPT !.timer = x].timer = x
                  /\ [b EXCEPT !.timer = x].path = win[w].path
                  /\ [b EXCEPT !.timer = x].view = win[w].view
        BY <2>4 DEF IsWin
      <3> QED
        BY <3>1
    <2> HIDE DEF c
    <2>6. WinType'
      BY <2>1, <2>2, <2>5
    <2>7. DoSave(w)
      BY <2>1, <2>2, <2>5 DEF DoSave, Others, Keeps
    <2> QED
      BY <2>6, <2>7 DEF WinEffect
  <1>11. ASSUME NEW w \in W!Wins, NEW u, W!Change(w, u) PROVE WinType' /\ WinEffect
    <2>1. /\ win' = [win EXCEPT ![w].view = u, ![w].timer = TRUE]
          /\ win[w].state = "up" /\ UNCHANGED <<saved, schema, overtaken>>
          /\ \/ last[win[w].path] # "unknown" /\ last' = [last EXCEPT ![win[w].path] = u]
             \/ Forgets(win[w].path)
      BY <1>11 DEF W!Change, W!Up, W!storeVars, W!Unknown, Forgets
    <2> DEFINE a == [win[w] EXCEPT !.view = u]
               b == [a EXCEPT !.timer = TRUE]
    <2>2. win'[w] = b /\ (\A v \in W!Wins \ {w} : win'[v] = win[v]) /\ win' = [v \in W!Wins |-> win'[v]]
      BY <2>1
    <2>3. IsWin(a) /\ a.view = u /\ a.path = win[w].path /\ a.state = win[w].state
      BY DEF IsWin
    <2> HIDE DEF a
    <2>4. IsWin(b) /\ b.view = u /\ b.timer = TRUE /\ b.path = win[w].path /\ b.state = win[w].state
      <3>1. \A x : /\ IsWin([a EXCEPT !.timer = x])
                  /\ [a EXCEPT !.timer = x].view = u
                  /\ [a EXCEPT !.timer = x].timer = x
                  /\ [a EXCEPT !.timer = x].path = win[w].path
                  /\ [a EXCEPT !.timer = x].state = win[w].state
        BY <2>3 DEF IsWin
      <3> QED
        BY <3>1
    <2> HIDE DEF b
    <2>5. WinType'
      BY <2>1, <2>2, <2>4
    <2>6. DoChange(w)
      BY <2>1, <2>2, <2>4 DEF DoChange, Others, Keeps
    <2> QED
      BY <2>5, <2>6 DEF WinEffect
  <1>12. ASSUME NEW w \in W!Wins, W!DebouncedSave(w) PROVE WinType' /\ WinEffect
    <2>1. /\ win' = [win EXCEPT ![w].timer = FALSE]
          /\ win[w].state = "up" /\ W!SaveProfileState(w) /\ UNCHANGED schema
      BY <1>12 DEF W!DebouncedSave, W!Up
    <2> DEFINE a == [win[w] EXCEPT !.timer = FALSE]
    <2>2. win'[w] = a /\ (\A v \in W!Wins \ {w} : win'[v] = win[v]) /\ win' = [v \in W!Wins |-> win'[v]]
      BY <2>1
    <2>3. IsWin(a) /\ a.timer = FALSE /\ a.path = win[w].path /\ a.view = win[w].view /\ a.state = win[w].state
      <3>1. \A x : /\ IsWin([win[w] EXCEPT !.timer = x])
                  /\ [win[w] EXCEPT !.timer = x].timer = x
                  /\ [win[w] EXCEPT !.timer = x].path = win[w].path
                  /\ [win[w] EXCEPT !.timer = x].view = win[w].view
                  /\ [win[w] EXCEPT !.timer = x].state = win[w].state
        BY DEF IsWin
      <3> QED
        BY <3>1
    <2> HIDE DEF a
    <2>4. WinType'
      BY <2>1, <2>2, <2>3
    <2>5. DoSave(w)
      BY <2>1, <2>2, <2>3 DEF DoSave, Others, Keeps
    <2> QED
      BY <2>4, <2>5 DEF WinEffect
  <1>13. ASSUME NEW w \in W!Wins, W!CloseWindow(w) PROVE WinType' /\ WinEffect
    <2>1. /\ win' = [win EXCEPT ![w].state = "exited", ![w].timer = FALSE, ![w].watch = 0]
          /\ win[w].state = "up" /\ W!SaveProfileState(w) /\ UNCHANGED schema
      BY <1>13 DEF W!CloseWindow, W!Leaves, W!Up
    <2> DEFINE a == [win[w] EXCEPT !.state = "exited"]
               b == [a EXCEPT !.timer = FALSE]
               c == [b EXCEPT !.watch = 0]
    <2>2. win'[w] = c /\ (\A v \in W!Wins \ {w} : win'[v] = win[v]) /\ win' = [v \in W!Wins |-> win'[v]]
      BY <2>1
    <2>3. IsWin(a) /\ a.state = "exited" /\ a.path = win[w].path /\ a.view = win[w].view
      BY DEF IsWin
    <2> HIDE DEF a
    <2>4. IsWin(b) /\ b.state = "exited" /\ b.timer = FALSE /\ b.path = win[w].path /\ b.view = win[w].view
      <3>1. \A x : /\ IsWin([a EXCEPT !.timer = x])
                  /\ [a EXCEPT !.timer = x].state = "exited"
                  /\ [a EXCEPT !.timer = x].timer = x
                  /\ [a EXCEPT !.timer = x].path = win[w].path
                  /\ [a EXCEPT !.timer = x].view = win[w].view
        BY <2>3 DEF IsWin
      <3> QED
        BY <3>1
    <2> HIDE DEF b
    <2>5. IsWin(c) /\ c.state = "exited" /\ c.timer = FALSE /\ c.path = win[w].path /\ c.view = win[w].view
      BY <2>4 DEF IsWin
    <2> HIDE DEF c
    <2>6. WinType'
      BY <2>1, <2>2, <2>5
    <2>7. DoSave(w)
      BY <2>1, <2>2, <2>5 DEF DoSave, Others, Keeps
    <2> QED
      BY <2>6, <2>7 DEF WinEffect
  <1>14. ASSUME NEW w \in W!Wins, W!Crash(w) PROVE WinType' /\ WinEffect
    <2>1. /\ win' = [win EXCEPT ![w].state = "failed", ![w].watch = 0]
          /\ win[w].state = "up" /\ UNCHANGED <<saved, schema, overtaken>>
          /\ \/ ~win[w].timer /\ win[w].path \in DOMAIN saved /\ last' = last
             \/ Forgets(win[w].path)
      BY <1>14 DEF W!Crash, W!Up, W!Unread, W!Unknown, Forgets
    <2> DEFINE a == [win[w] EXCEPT !.state = "failed"]
               b == [a EXCEPT !.watch = 0]
    <2>2. win'[w] = b /\ (\A v \in W!Wins \ {w} : win'[v] = win[v]) /\ win' = [v \in W!Wins |-> win'[v]]
      BY <2>1
    <2>3. IsWin(a) /\ a.state = "failed" /\ a.path = win[w].path /\ a.view = win[w].view
      BY DEF IsWin
    <2> HIDE DEF a
    <2>4. IsWin(b) /\ b.state = "failed" /\ b.path = win[w].path /\ b.view = win[w].view
      BY <2>3 DEF IsWin
    <2> HIDE DEF b
    <2>5. WinType'
      BY <2>1, <2>2, <2>4
    <2>6. DoCrash(w)
      BY <2>1, <2>2, <2>4 DEF DoCrash, Others, Keeps
    <2> QED
      BY <2>5, <2>6 DEF WinEffect
  <1>15. ASSUME NEW w \in W!Wins, W!ResetCurrentView(w) PROVE WinType' /\ WinEffect
    <2>1. /\ UNCHANGED <<win, schema, overtaken>> /\ win[w].state = "up" /\ Forgets(win[w].path)
          /\ saved' = W!Drop(saved, {win[w].path} \cap DOMAIN known[w])
      BY <1>15 DEF W!ResetCurrentView, W!Sync, W!Up, W!Unknown, Forgets
    <2>2. DoForget(w)
      BY <2>1 DEF DoForget, Keeps
    <2> QED
      BY <2>1, <2>2 DEF WinEffect
  <1>16. ASSUME NEW w \in W!Wins, W!ResetAll(w) PROVE WinType' /\ WinEffect
    BY <1>16 DEF W!ResetAll, W!Up, W!Unknown, WinEffect, DoForgetAll, Keeps
  <1>17. ASSUME NEW w \in W!Wins, W!SetPreference(w) PROVE WinType' /\ WinEffect
    BY <1>17 DEF W!SetPreference, W!Sync, WinEffect, DoQuiet, Keeps, Stored
  <1> QED
    BY <1>1, <1>2, <1>3, <1>4, <1>5, <1>6, <1>7, <1>8, <1>9, <1>10, <1>11, <1>12, <1>13, <1>14, <1>15, <1>16, <1>17
    DEF W!Next, W!Process, W!User, W!Poll

(***************************************************************************)
(* The settings file.                                                      *)
(***************************************************************************)
StoreType == last = [p \in Profiles |-> last[p]]

Known(p) == last[p] # "unknown"
UpAt(p) == {w \in W!Wins : win[w].state = "up" /\ win[w].path = p}

\* Nobody goes by another version's file.
FileTrusted ==
    ~schema => /\ \A w \in W!Wins : win[w].state \notin {"loading", "up"}
               /\ \A p \in Profiles : last[p] = "default"
\* The last view of a profile with two windows is not defined.
Alone == \A v, w \in W!Wins : v # w /\ win[v].state = "up" /\ win[w].state = "up" /\ win[v].path = win[w].path => ~Known(win[w].path)
\* Where it is defined, a window shows it, and it is saved unless the save
\* timer runs.
ShownAt(w) ==
    win[w].state = "up" /\ Known(win[w].path) =>
        /\ win[w].view = last[win[w].path]
        /\ ~win[w].timer /\ win[w].path \in DOMAIN saved => saved[win[w].path].view = last[win[w].path]
\* A process that loads the profile has read it, unless it was saved since;
\* another process may be about to save it.
HeldAt(w) ==
    LET p == win[w].path
    IN /\ win[w].state = "loading" /\ w \notin overtaken /\ Known(p)
       /\ W!Rivals(w) = {} \/ (p \in DOMAIN saved /\ \A v \in UpAt(p) : ~win[v].timer)
       => win[w].view = last[p]
\* The file has it when no window has; a profile that is not in the file is
\* shown as it is by default, unless a process still holds what was there.
ClosedAt(p) ==
    schema /\ Known(p) /\ UpAt(p) = {} /\ (p \in DOMAIN saved \/ W!Users(p) = {}) => W!LoadProfileState(p) = last[p]
ViewInv == /\ FileTrusted /\ Alone /\ (\A w \in W!Wins : ShownAt(w) /\ HeldAt(w))
           /\ (\A p \in Profiles : ClosedAt(p))

\* What a save does to the file.
LEMMA Saved ==
    ASSUME NEW w \in W!Wins, win[w].path \in Profiles, W!SaveProfileState(w)
    PROVE  LET p == win[w].path
           IN /\ StoreType' /\ p \in DOMAIN saved' /\ saved'[p].view = win[w].view
              /\ \A q \in DOMAIN saved' \ {p} : q \in DOMAIN saved /\ saved'[q] = saved[q]
              /\ \A q \in Profiles : q \in DOMAIN saved' \/ W!Users(q) # {} => last'[q] = last[q]
              /\ \A q \in Profiles : q \notin DOMAIN saved' /\ W!Users(q) = {} => last'[q] = "default"
              /\ overtaken \subseteq overtaken'
              /\ \A v \in W!Rivals(w) : win[v].state = "loading" => v \in overtaken'
  <1> DEFINE p == win[w].path
             kept == DOMAIN saved \ W!EvictOldProfiles(w, p)
             entry == [view |-> win[w].view, at |-> W!Now(w)]
  <1>1. /\ saved' = [q \in kept \cup {p} |-> IF q = p THEN entry ELSE saved[q]]
        /\ last' = [q \in Profiles |-> IF q \in kept \cup {p} \/ W!Users(q) # {} THEN last[q] ELSE "default"]
        /\ overtaken' = overtaken \cup {v \in W!Rivals(w) : win[v].state = "loading"}
    BY DEF W!SaveProfileState, W!Sync, W!Default
  <1>2. entry.view = win[w].view /\ kept \subseteq DOMAIN saved
    OBVIOUS
  <1> HIDE DEF kept, entry
  <1> QED
    BY <1>1, <1>2 DEF StoreType

\* Before any window.
LEMMA WinInit == W!Init => WinType /\ StoreType /\ ViewInv
  <1> SUFFICES ASSUME W!Init PROVE WinType /\ StoreType /\ ViewInv
    OBVIOUS
  <1>1. WinType /\ \A w \in W!Wins : win[w].state = "none"
    BY DEF W!Init, W!NoWin, WinType, IsWin
  <1>2. StoreType /\ \A p \in Profiles : last[p] = "default"
    BY DEF W!Init, StoreType, W!Default
  <1>3. schema => \A p \in Profiles : W!LoadProfileState(p) = "default"
    BY DEF W!Init, W!LoadProfileState, W!Default
  <1> QED
    BY <1>1, <1>2, <1>3 DEF ViewInv, FileTrusted, Alone, ShownAt, HeldAt, ClosedAt

\* Steps that neither show nor save nor read a view.
LEMMA QuietViews ==
    ASSUME WinType, StoreType, ViewInv, DoQuiet \/ \E w \in W!Wins : DoNew(w) \/ DoForgetAll(w)
    PROVE  StoreType' /\ ViewInv'
  <1> USE DEF ViewInv, FileTrusted, Alone, ShownAt, HeldAt, ClosedAt, Known, Keeps, UpAt, W!Users, W!Rivals
  <1>1. CASE DoQuiet
    BY <1>1 DEF DoQuiet, Stored, StoreType, W!LoadProfileState
  <1>2. ASSUME NEW w \in W!Wins, DoNew(w) PROVE StoreType' /\ ViewInv'
    <2>1. /\ Stored /\ StoreType' /\ win[w].state \notin {"loading", "up"} /\ win'[w].state \notin {"loading", "up"}
          /\ \A v \in W!Wins \ {w} : Keeps(v)
      BY <1>2 DEF DoNew, Others, Stored, StoreType
    <2> QED
      BY <2>1 DEF Stored, W!LoadProfileState
  <1>3. ASSUME NEW w \in W!Wins, DoForgetAll(w) PROVE StoreType' /\ ViewInv'
    <2>1. StoreType' /\ (\A p \in Profiles : last'[p] = "unknown") /\ schema'
      BY <1>3 DEF DoForgetAll, StoreType
    <2>2. \A v \in W!Wins : win'[v].state \in {"loading", "up"} => win'[v].path \in Profiles
      BY <1>3 DEF DoForgetAll, WinType
    <2> QED
      BY <2>1, <2>2
  <1> QED
    BY <1>1, <1>2, <1>3

\* Processes of a profile, before and after a step of one of them.
LEMMA OneMoves ==
    ASSUME NEW w \in W!Wins, \A v \in W!Wins \ {w} : Keeps(v), win'[w].path = win[w].path
    PROVE  /\ \A q : q # win[w].path => W!Users(q)' = W!Users(q) /\ UpAt(q)' = UpAt(q)
           /\ \A v \in W!Wins : v # w /\ win[v].path # win[w].path =>
                 W!Rivals(v)' = W!Rivals(v) /\ UpAt(win[v].path)' = UpAt(win[v].path)
           /\ \A q : W!Users(q)' \ {w} = W!Users(q) \ {w} /\ UpAt(q)' \ {w} = UpAt(q) \ {w}
  BY DEF Keeps, W!Users, W!Rivals, UpAt

\* A process reads its settings.
LEMMA ReadViews ==
    ASSUME WinType, StoreType, ViewInv, NEW w \in W!Wins, DoRead(w) \/ DoCheck(w)
    PROVE  StoreType' /\ ViewInv'
  <1> DEFINE p == win[w].path
  <1> USE DEF ViewInv
  <1>0. /\ p \in Profiles /\ win'[w].path = p /\ win[w].state = "starting" /\ win'[w].state = "loading"
        /\ last' = last /\ overtaken' = overtaken /\ schema' /\ \A v \in W!Wins \ {w} : Keeps(v)
    BY DEF DoRead, DoCheck, Others, Stored, WinType
  <1>1. CASE DoCheck(w)
    <2>1. /\ ~schema /\ saved' = <<>> /\ win'[w].view = "default"
      BY <1>1 DEF DoCheck
    <2>2. (\A v \in W!Wins : win[v].state \notin {"loading", "up"}) /\ \A q \in Profiles : last'[q] = "default"
      BY <1>0, <2>1 DEF FileTrusted
    <2>3. \A v \in W!Wins : win'[v].state # "up" /\ (win'[v].state = "loading" => v = w)
      BY <1>0, <2>2 DEF Keeps
    <2>4. \A q : W!LoadProfileState(q)' = "default"
      BY <2>1 DEF W!LoadProfileState, W!Default
    <2> QED
      BY <1>0, <2>1, <2>2, <2>3, <2>4 DEF FileTrusted, Alone, ShownAt, HeldAt, ClosedAt, StoreType
  <1>2. CASE DoRead(w)
    <2>1. saved' = saved /\ schema /\ win'[w].view = W!LoadProfileState(p)
      BY <1>2 DEF DoRead, Stored
    <2>2. \A q : UpAt(q)' = UpAt(q) /\ (\A v \in UpAt(q) : win'[v].timer = win[v].timer)
      BY <1>0 DEF UpAt, Keeps
    <2>3. \A q : W!Users(q) \subseteq W!Users(q)'
      BY <1>0 DEF W!Users, Keeps
    <2>4. \A v \in W!Wins \ {w} : W!Rivals(v) \subseteq W!Rivals(v)'
      BY <1>0, <2>3 DEF W!Rivals, Keeps
    <2>a. W!Rivals(w)' = {} => W!Users(p) = {} /\ UpAt(p) = {}
      BY <1>0, <2>3 DEF W!Rivals, W!Users, UpAt
    <2>5. HeldAt(w)'
      <3> SUFFICES ASSUME last'[p] # "unknown",
                          W!Rivals(w)' = {} \/ (p \in DOMAIN saved /\ \A v \in UpAt(p) : ~win[v].timer)
                   PROVE  W!LoadProfileState(p) = last'[p]
        BY <1>0, <2>1, <2>2 DEF HeldAt, Known
      <3>1. CASE UpAt(p) = {} /\ (p \in DOMAIN saved \/ W!Users(p) = {})
        BY <1>0, <2>1, <3>1 DEF ClosedAt, Known
      <3>2. CASE p \in DOMAIN saved /\ UpAt(p) # {}
        <4>1. PICK v \in UpAt(p) : ~win[v].timer
          BY <2>a, <3>2
        <4> QED
          BY <1>0, <3>2, <4>1 DEF ShownAt, UpAt, Known, W!LoadProfileState
      <3> QED
        BY <2>a, <3>1, <3>2
    <2>6. ASSUME NEW v \in W!Wins, v # w PROVE HeldAt(v)'
      BY <1>0, <2>1, <2>2, <2>4, <2>6 DEF HeldAt, Known, Keeps
    <2>7. ASSUME NEW v \in W!Wins PROVE ShownAt(v)'
      BY <1>0, <2>1 DEF ShownAt, Known, Keeps
    <2>8. Alone'
      BY <1>0 DEF Alone, Known, Keeps
    <2>9. ASSUME NEW q \in Profiles PROVE ClosedAt(q)'
      BY <1>0, <2>1, <2>2, <2>3 DEF ClosedAt, Known, W!LoadProfileState
    <2> QED
      BY <1>0, <2>5, <2>6, <2>7, <2>8, <2>9 DEF FileTrusted, StoreType
  <1> QED
    BY <1>1, <1>2

\* What is forgotten of one profile, in any step of a process of it.
LEMMA Forgotten ==
    ASSUME WinType, StoreType, ViewInv, NEW w \in W!Wins, schema, schema', overtaken' = overtaken, Forgets(win[w].path),
           \A v \in W!Wins \ {w} : Keeps(v), win'[w].path = win[w].path, win[w].path \in Profiles,
           \A q \in Profiles \ {win[w].path} : (q \in DOMAIN saved' <=> q \in DOMAIN saved) /\ (q \in DOMAIN saved => saved'[q] = saved[q])
    PROVE  StoreType' /\ ViewInv'
  <1> DEFINE p == win[w].path
  <1> USE DEF ViewInv
  <1>1. StoreType' /\ last'[p] = "unknown" /\ \A q \in Profiles \ {p} : last'[q] = last[q]
    BY DEF Forgets, StoreType
  <1>2. \A v \in W!Wins : win[v].state \in {"loading", "up"} => win[v].path \in Profiles
    BY DEF WinType
  <1>3. ASSUME NEW v \in W!Wins, v # w, win[v].path # p PROVE ShownAt(v)' /\ HeldAt(v)'
    <2>1. Keeps(v) /\ W!Rivals(v)' = W!Rivals(v) /\ UpAt(win[v].path)' = UpAt(win[v].path)
      BY <1>3, OneMoves
    <2>2. win[v].state \in {"loading", "up"} => last'[win[v].path] = last[win[v].path]
      BY <1>1, <1>2, <1>3
    <2>3. \A u \in UpAt(win[v].path) : win'[u].timer = win[u].timer
      BY <1>3 DEF UpAt, Keeps
    <2>4. win[v].state \in {"loading", "up"} => 
            /\ win[v].path \in DOMAIN saved' <=> win[v].path \in DOMAIN saved
            /\ win[v].path \in DOMAIN saved => saved'[win[v].path] = saved[win[v].path]
      BY <1>2, <1>3
    <2> QED
      BY <2>1, <2>2, <2>3, <2>4 DEF ShownAt, HeldAt, Known, Keeps
  <1>4. ASSUME NEW v \in W!Wins, win'[v].path = p PROVE ShownAt(v)' /\ HeldAt(v)'
    BY <1>1, <1>4 DEF ShownAt, HeldAt, Known
  <1>5. Alone'
    <2> SUFFICES ASSUME NEW v \in W!Wins, NEW u \in W!Wins, v # u, win'[v].state = "up", win'[u].state = "up",
                        win'[v].path = win'[u].path, win'[u].path # p
                 PROVE  last'[win'[u].path] = "unknown"
      BY <1>1 DEF Alone, Known
    <2>1. v # w /\ u # w
      OBVIOUS
    <2> QED
      BY <1>1, <1>2, <2>1 DEF Alone, Known, Keeps
  <1>6. ASSUME NEW q \in Profiles PROVE ClosedAt(q)'
    BY <1>1, OneMoves DEF ClosedAt, Known, W!LoadProfileState
  <1> QED
    BY <1>1, <1>3, <1>4, <1>5, <1>6 DEF FileTrusted, Keeps

\* A window is shown.
LEMMA ShowViews ==
    ASSUME WinType, StoreType, ViewInv, NEW w \in W!Wins, DoShow(w)
    PROVE  StoreType' /\ ViewInv'
  <1> DEFINE p == win[w].path
  <1> USE DEF ViewInv
  <1>0. /\ p \in Profiles /\ win'[w].path = p /\ win[w].state = "loading" /\ win'[w].state = "up" /\ win'[w].view = win[w].view
        /\ saved' = saved /\ schema' = schema /\ overtaken' = overtaken /\ \A v \in W!Wins \ {w} : Keeps(v)
    BY DEF DoShow, Others, WinType
  <1>1. schema /\ schema'
    BY <1>0 DEF FileTrusted
  <1>2. CASE Forgets(p)
    BY <1>0, <1>1, <1>2, Forgotten
  <1>3. CASE W!Rivals(w) = {} /\ w \notin overtaken /\ last' = last
    <2>1. \A v \in W!Wins \ {w} : win[v].state \in {"loading", "up"} => win[v].path # p
      BY <1>3 DEF W!Rivals, W!Users
    <2>2. UpAt(p) = {}
      BY <1>0, <2>1 DEF UpAt
    <2>3. Known(p) => win[w].view = last[p]
      BY <1>0, <1>3 DEF HeldAt
    <2>4. Known(p) /\ p \in DOMAIN saved => saved[p].view = last[p]
      BY <1>0, <1>1, <2>2 DEF ClosedAt, W!LoadProfileState
    <2>5. ShownAt(w)' /\ HeldAt(w)'
      BY <1>0, <1>3, <2>3, <2>4 DEF ShownAt, HeldAt, Known
    <2>6. ASSUME NEW v \in W!Wins, v # w PROVE ShownAt(v)' /\ HeldAt(v)'
      <3>1. CASE win[v].path # p
        <4>1. Keeps(v) /\ W!Rivals(v)' = W!Rivals(v) /\ UpAt(win[v].path)' = UpAt(win[v].path)
          BY <1>0, <2>6, <3>1, OneMoves
        <4>2. \A u \in UpAt(win[v].path) : win'[u].timer = win[u].timer
          BY <1>0, <3>1 DEF UpAt, Keeps
        <4> QED
          BY <1>0, <1>3, <4>1, <4>2 DEF ShownAt, HeldAt, Known, Keeps
      <3>2. CASE win[v].path = p
        BY <1>0, <2>1, <2>6, <3>2 DEF ShownAt, HeldAt, Keeps
      <3> QED
        BY <3>1, <3>2
    <2>7. Alone'
      BY <1>0, <1>3, <2>1 DEF Alone, Known, Keeps
    <2>8. ASSUME NEW q \in Profiles PROVE ClosedAt(q)'
      <3>1. w \in UpAt(p)'
        BY <1>0 DEF UpAt
      <3> QED
        BY <1>0, <1>1, <1>3, <3>1, OneMoves DEF ClosedAt, Known, W!LoadProfileState
    <2> QED
      BY <1>1, <1>3, <2>5, <2>6, <2>7, <2>8 DEF FileTrusted, StoreType
  <1> QED
    BY <1>2, <1>3 DEF DoShow

\* A process of a profile ends without a word; what it showed is in the file.
LEMMA EndViews ==
    ASSUME WinType, StoreType, ViewInv, NEW w \in W!Wins, schema, UNCHANGED <<saved, last, schema, overtaken>>,
           \A v \in W!Wins \ {w} : Keeps(v), win'[w].path = win[w].path, win'[w].state = "failed", win[w].path \in Profiles,
           win[w].path \in DOMAIN saved, win[w].state = "loading" \/ (win[w].state = "up" /\ ~win[w].timer)
    PROVE  StoreType' /\ ViewInv'
  <1> DEFINE p == win[w].path
  <1> USE DEF ViewInv
  <1>1. ASSUME NEW v \in W!Wins PROVE ShownAt(v)'
    BY DEF ShownAt, Known, Keeps
  <1>2. ASSUME NEW v \in W!Wins PROVE HeldAt(v)'
    <2> SUFFICES ASSUME v # w, win[v].state = "loading", v \notin overtaken, Known(win[v].path),
                        \/ W!Rivals(v)' = {}
                        \/ \A u \in W!Wins : win'[u].state = "up" /\ win'[u].path = win[v].path => ~win'[u].timer,
                        W!Rivals(v)' = {} \/ win[v].path \in DOMAIN saved
                 PROVE  win[v].view = last[win[v].path]
      BY DEF HeldAt, Known, Keeps, UpAt
    <2>1. CASE win[v].path # p
      <3>1. W!Rivals(v)' = W!Rivals(v) /\ UpAt(win[v].path)' = UpAt(win[v].path)
        BY <2>1, OneMoves
      <3>2. \A u \in UpAt(win[v].path) : win'[u].timer = win[u].timer /\ win'[u].state = "up" /\ win'[u].path = win[v].path
        BY <2>1 DEF UpAt, Keeps
      <3> QED
        BY <3>1, <3>2 DEF HeldAt, UpAt
    <2>2. CASE win[v].path = p
      <3>1. \A u \in UpAt(p) : u = w \/ (/\ win'[u].state = "up" /\ win'[u].path = p
                                      /\ u \in W!Rivals(v)' /\ win'[u].timer = win[u].timer)
        BY <2>2 DEF UpAt, W!Rivals, W!Users, Keeps
      <3>2. \A u \in UpAt(p) : ~win[u].timer
        BY <2>2, <3>1 DEF UpAt
      <3> QED
        BY <2>2, <3>2 DEF HeldAt
    <2> QED
      BY <2>1, <2>2
  <1>3. Alone'
    BY DEF Alone, Known, Keeps
  <1>4. ASSUME NEW q \in Profiles PROVE ClosedAt(q)'
    <2>1. CASE q # p
      BY <2>1, OneMoves DEF ClosedAt, Known, W!LoadProfileState
    <2>2. CASE q = p
      <3>1. CASE win[w].state = "up"
        BY <2>2, <3>1 DEF ClosedAt, ShownAt, Known, W!LoadProfileState
      <3>2. CASE win[w].state = "loading"
        <4>1. UpAt(p)' = UpAt(p)
          BY <3>2 DEF UpAt, Keeps
        <4> QED
          BY <2>2, <4>1 DEF ClosedAt, Known, W!LoadProfileState
      <3> QED
        BY <3>1, <3>2
    <2> QED
      BY <2>1, <2>2
  <1> QED
    BY <1>1, <1>2, <1>3, <1>4 DEF FileTrusted, StoreType

\* A process fails before its window is shown.
LEMMA FailViews ==
    ASSUME WinType, StoreType, ViewInv, NEW w \in W!Wins, DoFail(w)
    PROVE  StoreType' /\ ViewInv'
  <1> DEFINE p == win[w].path
  <1>0. /\ win'[w].state = "failed" /\ win'[w].path = p /\ UNCHANGED <<saved, schema, overtaken>>
        /\ \A v \in W!Wins \ {w} : Keeps(v)
    BY DEF DoFail, Others
  <1>a. win[w].state = "loading" => p \in Profiles /\ schema /\ schema'
    BY <1>0 DEF ViewInv, FileTrusted, WinType
  <1>1. CASE win[w].state = "starting" /\ last' = last
    BY <1>0, <1>1
    DEF ViewInv, FileTrusted, Alone, ShownAt, HeldAt, ClosedAt, Known, Keeps, UpAt, W!Users, W!Rivals, StoreType, W!LoadProfileState
  <1>2. CASE win[w].state = "loading" /\ p \in DOMAIN saved /\ last' = last
    BY <1>0, <1>a, <1>2, EndViews
  <1>3. CASE win[w].state = "loading" /\ Forgets(p)
    BY <1>0, <1>a, <1>3, Forgotten
  <1> QED
    BY <1>1, <1>2, <1>3 DEF DoFail

\* The user changes a view.
LEMMA ChangeViews ==
    ASSUME WinType, StoreType, ViewInv, NEW w \in W!Wins, DoChange(w)
    PROVE  StoreType' /\ ViewInv'
  <1> DEFINE p == win[w].path
  <1> USE DEF ViewInv
  <1>0. /\ p \in Profiles /\ win'[w].path = p /\ win[w].state = "up" /\ win'[w].state = "up" /\ win'[w].timer
        /\ saved' = saved /\ schema' = schema /\ overtaken' = overtaken /\ \A v \in W!Wins \ {w} : Keeps(v)
    BY DEF DoChange, Others, WinType
  <1>1. schema /\ schema'
    BY <1>0 DEF FileTrusted
  <1>2. CASE Forgets(p)
    BY <1>0, <1>1, <1>2, Forgotten
  <1>3. CASE Known(p) /\ last' = [last EXCEPT ![p] = win'[w].view]
    <2>1. StoreType' /\ last'[p] = win'[w].view /\ \A q \in Profiles \ {p} : last'[q] = last[q]
      BY <1>0, <1>3 DEF StoreType
    <2>2. \A v \in W!Wins \ {w} : win[v].state = "up" => win[v].path # p
      BY <1>0, <1>3 DEF Alone
    <2>3. \A v \in W!Wins : win[v].state \in {"loading", "up"} => win[v].path \in Profiles
      BY DEF WinType
    <2>4. ASSUME NEW v \in W!Wins PROVE ShownAt(v)'
      BY <1>0, <2>1, <2>2, <2>3 DEF ShownAt, Known, Keeps
    <2>5. ASSUME NEW v \in W!Wins PROVE HeldAt(v)'
      <3>1. CASE v = w
        BY <1>0, <3>1 DEF HeldAt
      <3>2. CASE v # w /\ win[v].path # p
        <4>1. Keeps(v) /\ W!Rivals(v)' = W!Rivals(v) /\ UpAt(win[v].path)' = UpAt(win[v].path)
          BY <1>0, <3>2, OneMoves
        <4>2. \A u \in UpAt(win[v].path) : win'[u].timer = win[u].timer
          BY <1>0, <3>2 DEF UpAt, Keeps
        <4> QED
          BY <1>0, <2>1, <2>3, <3>2, <4>1, <4>2 DEF HeldAt, Known, Keeps
      <3>3. CASE v # w /\ win[v].path = p
        <4>1. w \in UpAt(p)' /\ w \in W!Rivals(v)' /\ win'[v].path = p
          BY <1>0, <3>3 DEF UpAt, W!Rivals, W!Users, Keeps
        <4> QED
          BY <1>0, <4>1 DEF HeldAt
      <3> QED
        BY <3>1, <3>2, <3>3
    <2>6. Alone'
      BY <1>0, <2>1, <2>2, <2>3 DEF Alone, Known, Keeps
    <2>7. ASSUME NEW q \in Profiles PROVE ClosedAt(q)'
      <3>1. w \in UpAt(p)'
        BY <1>0 DEF UpAt
      <3> QED
        BY <1>0, <2>1, <3>1, OneMoves DEF ClosedAt, Known, W!LoadProfileState
    <2> QED
      BY <1>1, <2>1, <2>4, <2>5, <2>6, <2>7 DEF FileTrusted
  <1> QED
    BY <1>2, <1>3 DEF DoChange, Known

\* A window crashes.
LEMMA CrashViews ==
    ASSUME WinType, StoreType, ViewInv, NEW w \in W!Wins, DoCrash(w)
    PROVE  StoreType' /\ ViewInv'
  <1> DEFINE p == win[w].path
  <1>0. /\ p \in Profiles /\ win'[w].path = p /\ win[w].state = "up" /\ win'[w].state = "failed"
        /\ UNCHANGED <<saved, schema, overtaken>> /\ \A v \in W!Wins \ {w} : Keeps(v)
    BY DEF DoCrash, Others, WinType
  <1>1. schema /\ schema'
    BY <1>0 DEF ViewInv, FileTrusted
  <1> QED
    BY <1>0, <1>1, EndViews, Forgotten DEF DoCrash

\* The saved view of a window's profile is reset.
LEMMA ForgetViews ==
    ASSUME WinType, StoreType, ViewInv, NEW w \in W!Wins, DoForget(w)
    PROVE  StoreType' /\ ViewInv'
  <1> DEFINE p == win[w].path
  <1>0. /\ p \in Profiles /\ win'[w].path = p /\ win[w].state = "up" /\ Forgets(p)
        /\ schema' = schema /\ overtaken' = overtaken /\ \A v \in W!Wins : Keeps(v)
    BY DEF DoForget, WinType, Keeps
  <1>1. schema /\ schema'
    BY <1>0 DEF ViewInv, FileTrusted
  <1>2. PICK gone \in SUBSET {p} : saved' = [q \in DOMAIN saved \ gone |-> saved[q]]
    BY DEF DoForget, W!Drop
  <1>3. \A q \in Profiles \ {p} : q \in DOMAIN saved' <=> q \in DOMAIN saved
    BY <1>2
  <1>4. \A q \in DOMAIN saved' : saved'[q] = saved[q]
    BY <1>2
  <1> QED
    BY <1>0, <1>1, <1>3, <1>4, Forgotten

\* A view is saved, by the timer or when its window closes.
LEMMA SaveViews ==
    ASSUME WinType, StoreType, ViewInv, NEW w \in W!Wins, DoSave(w)
    PROVE  StoreType' /\ ViewInv'
  <1> USE DEF ViewInv
  <1> DEFINE p == win[w].path
  <1>1. /\ p \in Profiles /\ win'[w].path = p /\ win'[w].view = win[w].view /\ win[w].state = "up"
        /\ win'[w].state \in {"up", "exited"} /\ schema' = schema /\ \A v \in W!Wins \ {w} : Keeps(v)
    BY DEF DoSave, Others, WinType
  <1>2. \A v \in W!Wins : win[v].state \in {"loading", "up"} => win[v].path \in Profiles /\ W!Users(win[v].path) # {}
    BY DEF WinType, W!Users
  <1>3. /\ StoreType' /\ p \in DOMAIN saved' /\ saved'[p].view = win[w].view
        /\ \A q \in DOMAIN saved' \ {p} : q \in DOMAIN saved /\ saved'[q] = saved[q]
        /\ \A q \in Profiles : q \in DOMAIN saved' \/ W!Users(q) # {} => last'[q] = last[q]
        /\ \A q \in Profiles : q \notin DOMAIN saved' /\ W!Users(q) = {} => last'[q] = "default"
        /\ overtaken \subseteq overtaken'
        /\ \A v \in W!Rivals(w) : win[v].state = "loading" => v \in overtaken'
    BY <1>1, Saved DEF DoSave
  <1>4. schema /\ schema'
    BY <1>1 DEF FileTrusted
  <1>5. last'[p] = last[p] /\ (Known(p) => win[w].view = last[p])
    BY <1>1, <1>3 DEF ShownAt
  <1>6. ASSUME NEW v \in W!Wins, v # w, win[v].path # p PROVE ShownAt(v)' /\ HeldAt(v)'
    <2>1. Keeps(v) /\ W!Rivals(v)' = W!Rivals(v) /\ UpAt(win[v].path)' = UpAt(win[v].path)
      BY <1>1, <1>6, OneMoves
    <2>2. win[v].state \in {"loading", "up"} => last'[win[v].path] = last[win[v].path]
      BY <1>2, <1>3
    <2>3. \A u \in UpAt(win[v].path) : win'[u].timer = win[u].timer
      BY <1>1, <1>6 DEF UpAt, Keeps
    <2> QED
      BY <1>3, <1>6, <2>1, <2>2, <2>3 DEF ShownAt, HeldAt, Known, Keeps
  <1>7. ASSUME NEW v \in W!Wins, v # w, win[v].path = p PROVE ShownAt(v)' /\ HeldAt(v)'
    <2>1. Keeps(v)
      BY <1>1, <1>7
    <2>2. win[v].state = "up" => ~Known(p)
      BY <1>1, <1>7 DEF Alone
    <2>3. win[v].state = "loading" => v \in overtaken'
      BY <1>1, <1>3, <1>7 DEF W!Rivals, W!Users
    <2> QED
      BY <1>5, <1>7, <2>1, <2>2, <2>3 DEF ShownAt, HeldAt, Known, Keeps
  <1>8. ShownAt(w)' /\ HeldAt(w)'
    BY <1>1, <1>3, <1>5 DEF ShownAt, HeldAt, Known
  <1>9. Alone'
    <2> SUFFICES ASSUME NEW v \in W!Wins, NEW u \in W!Wins, v # u, win'[v].state = "up", win'[u].state = "up",
                        win'[v].path = win'[u].path
                 PROVE  last'[win'[u].path] = "unknown"
      BY DEF Alone, Known
    <2>1. /\ win[v].state = "up" /\ win[u].state = "up" /\ win[v].path = win'[v].path /\ win[u].path = win'[u].path
      BY <1>1 DEF Keeps
    <2>2. last'[win[u].path] = last[win[u].path]
      BY <1>2, <1>3, <2>1
    <2> QED
      BY <2>1, <2>2 DEF Alone, Known
  <1>10. ASSUME NEW q \in Profiles PROVE ClosedAt(q)'
    <2>1. CASE q = p
      BY <1>3, <1>5, <2>1 DEF ClosedAt, Known, W!LoadProfileState
    <2>2. CASE q # p
      <3>1. UpAt(q)' = UpAt(q) /\ W!Users(q)' = W!Users(q)
        BY <1>1, <2>2, OneMoves
      <3>2. CASE q \in DOMAIN saved'
        BY <1>3, <1>4, <2>2, <3>1, <3>2 DEF ClosedAt, Known, W!LoadProfileState
      <3>3. CASE q \notin DOMAIN saved'
        BY <1>3, <3>1, <3>3 DEF ClosedAt, Known, W!LoadProfileState, W!Default
      <3> QED
        BY <3>2, <3>3
    <2> QED
      BY <2>1, <2>2
  <1> QED
    BY <1>3, <1>4, <1>6, <1>7, <1>8, <1>9, <1>10 DEF FileTrusted

\* A window closed for a child, and children's markers: both are of windows
\* that came up.
HandInv ==
    /\ \A w \in W!Wins : win[w].announced => win[w].state # "none"
    /\ markers \subseteq {w \in W!Wins : win[w].announced}
    /\ \A g \in gaveWay : g[2] \in W!Wins /\ win[g[2]].announced
HandEffect ==
    /\ \A v \in W!Wins : win[v].announced /\ win[v].state # "none" => win'[v].announced /\ win'[v].state # "none"
    /\ \A v \in W!Wins : win'[v].announced => win[v].announced \/ win'[v].state # "none"
    /\ \A m \in markers' : m \in markers \/ (m \in W!Wins /\ win'[m].announced)
    /\ \A g \in gaveWay' : g \in gaveWay \/ g[2] \in markers

\* What the steps do to announcements, markers and windows that gave way.
LEMMA HandSteps == WinType /\ W!Next => HandEffect
  <1> SUFFICES ASSUME WinType, W!Next PROVE HandEffect
    OBVIOUS
  <1> USE DEF WinType
  <1>1. ASSUME UNCHANGED win, markers' \subseteq markers, UNCHANGED gaveWay PROVE HandEffect
    BY <1>1 DEF HandEffect
  <1>2. ASSUME NEW p, NEW t, W!Free # {}, win' = [win EXCEPT ![W!Next1] = W!New(p, t)], UNCHANGED <<markers, gaveWay>> PROVE HandEffect
    <2>1. W!Next1 \in W!Wins /\ win[W!Next1].state = "none"
      BY <1>2, NewWindow
    <2>2. win'[W!Next1] = W!New(p, t) /\ \A v \in W!Wins \ {W!Next1} : win'[v] = win[v]
      BY <1>2, <2>1
    <2> QED
      BY <1>2, <2>1, <2>2, MadeNew DEF HandEffect
  <1>3. ASSUME NEW w \in W!Wins, NEW p, W!OpenProfile(w, p) PROVE HandEffect
    <2>1. CASE UNCHANGED <<win, markers>>
      BY <1>1, <1>3, <2>1 DEF W!OpenProfile
    <2>2. CASE /\ W!Free # {} /\ win' = [win EXCEPT ![W!Next1] = W!New(p, "child"), ![w].watch = W!Next1]
               /\ markers' = markers \ {W!Next1}
      <3>1. W!Next1 \in W!Wins /\ win[W!Next1].state = "none" /\ win[w].state = "up" /\ W!Next1 # w /\ UNCHANGED gaveWay
        BY <1>3, <2>2, NewWindow DEF W!OpenProfile, W!Up
      <3>2. /\ win'[W!Next1] = W!New(p, "child") /\ \A v \in W!Wins \ {W!Next1, w} : win'[v] = win[v]
            /\ win'[w] = [win[w] EXCEPT !.watch = W!Next1]
        BY <2>2, <3>1
      <3>3. win'[w].announced = win[w].announced /\ win'[w].state = "up"
        BY <3>1, <3>2 DEF IsWin
      <3> QED
        BY <2>2, <3>1, <3>2, <3>3, MadeNew DEF HandEffect
    <2> QED
      BY <1>3, <2>1, <2>2 DEF W!OpenProfile, W!MarkerName
  <1>4. ASSUME NEW w \in W!Wins, W!TouchMarker(w) PROVE HandEffect
    <2>1. win' = [win EXCEPT ![w].announced = TRUE] /\ win[w].state = "up" /\ UNCHANGED gaveWay /\ markers' \subseteq markers \cup {w}
      BY <1>4 DEF W!TouchMarker, W!Up
    <2>2. win'[w] = [win[w] EXCEPT !.announced = TRUE] /\ \A v \in W!Wins \ {w} : win'[v] = win[v]
      BY <2>1
    <2>3. \A x : [win[w] EXCEPT !.announced = x].announced = x /\ [win[w] EXCEPT !.announced = x].state = win[w].state
      BY DEF IsWin
    <2>4. win'[w].announced = TRUE /\ win'[w].state = "up"
      BY <2>1, <2>2, <2>3
    <2> QED
      BY <2>1, <2>2, <2>4 DEF HandEffect
  <1>5. ASSUME NEW w \in W!Wins, W!Ready(w) PROVE HandEffect
    <2>1. /\ win' = [win EXCEPT ![w].watch = 0, ![w].state = "exited", ![w].timer = FALSE] /\ win[w].state # "none"
          /\ markers' \subseteq markers /\ \A g \in gaveWay' : g \in gaveWay \/ g[2] \in markers
      BY <1>5 DEF W!Ready, W!Up
    <2> DEFINE a == [win[w] EXCEPT !.watch = 0]
               b == [a EXCEPT !.state = "exited"]
               c == [b EXCEPT !.timer = FALSE]
    <2>2. win'[w] = c /\ \A v \in W!Wins \ {w} : win'[v] = win[v]
      BY <2>1
    <2>3. IsWin(a) /\ a.announced = win[w].announced /\ a.state # "none"
      BY <2>1 DEF IsWin
    <2> HIDE DEF a
    <2>4. IsWin(b) /\ b.announced = win[w].announced /\ b.state # "none"
      BY <2>1, <2>3 DEF IsWin
    <2> HIDE DEF b
    <2>5. IsWin(c) /\ c.announced = win[w].announced /\ c.state # "none"
      <3>1. \A x : IsWin([b EXCEPT !.timer = x]) /\ [b EXCEPT !.timer = x].announced = b.announced /\ [b EXCEPT !.timer = x].state = b.state
        BY <2>4 DEF IsWin
      <3> QED
        BY <2>1, <2>4, <3>1
    <2> HIDE DEF c
    <2> QED
      BY <2>1, <2>2, <2>5 DEF HandEffect
  <1>6. ASSUME NEW w \in W!Wins, W!ChildExited(w) PROVE HandEffect
    <2>1. /\ win' = [win EXCEPT ![w].watch = 0] /\ win[w].state # "none"
          /\ UNCHANGED <<markers, gaveWay>>
      BY <1>6 DEF W!ChildExited, W!Up
    <2> DEFINE a == [win[w] EXCEPT !.watch = 0]
    <2>2. win'[w] = a /\ \A v \in W!Wins \ {w} : win'[v] = win[v]
      BY <2>1
    <2>3. IsWin(a) /\ a.announced = win[w].announced /\ a.state # "none"
      BY <2>1 DEF IsWin
    <2> HIDE DEF a
    <2> QED
      BY <2>1, <2>2, <2>3 DEF HandEffect
  <1>7. ASSUME NEW w \in W!Wins, W!DeadlinePassed(w) PROVE HandEffect
    <2>1. /\ win' = [win EXCEPT ![w].watch = 0] /\ win[w].state # "none"
          /\ UNCHANGED <<markers, gaveWay>>
      BY <1>7 DEF W!DeadlinePassed, W!Up
    <2> DEFINE a == [win[w] EXCEPT !.watch = 0]
    <2>2. win'[w] = a /\ \A v \in W!Wins \ {w} : win'[v] = win[v]
      BY <2>1
    <2>3. IsWin(a) /\ a.announced = win[w].announced /\ a.state # "none"
      BY <2>1 DEF IsWin
    <2> HIDE DEF a
    <2> QED
      BY <2>1, <2>2, <2>3 DEF HandEffect
  <1>8. ASSUME NEW w \in W!Wins, NEW u, W!Change(w, u) PROVE HandEffect
    <2>1. /\ win' = [win EXCEPT ![w].view = u, ![w].timer = TRUE] /\ win[w].state # "none"
          /\ UNCHANGED <<markers, gaveWay>>
      BY <1>8 DEF W!Change, W!Up
    <2> DEFINE a == [win[w] EXCEPT !.view = u]
               b == [a EXCEPT !.timer = TRUE]
    <2>2. win'[w] = b /\ \A v \in W!Wins \ {w} : win'[v] = win[v]
      BY <2>1
    <2>3. IsWin(a) /\ a.announced = win[w].announced /\ a.state # "none"
      BY <2>1 DEF IsWin
    <2> HIDE DEF a
    <2>4. IsWin(b) /\ b.announced = win[w].announced /\ b.state # "none"
      <3>1. \A x : IsWin([a EXCEPT !.timer = x]) /\ [a EXCEPT !.timer = x].announced = a.announced /\ [a EXCEPT !.timer = x].state = a.state
        BY <2>3 DEF IsWin
      <3> QED
        BY <2>1, <2>3, <3>1
    <2> HIDE DEF b
    <2> QED
      BY <2>1, <2>2, <2>4 DEF HandEffect
  <1>9. ASSUME NEW w \in W!Wins, W!DebouncedSave(w) PROVE HandEffect
    <2>1. /\ win' = [win EXCEPT ![w].timer = FALSE] /\ win[w].state # "none"
          /\ UNCHANGED <<markers, gaveWay>>
      BY <1>9 DEF W!DebouncedSave, W!Up
    <2> DEFINE a == [win[w] EXCEPT !.timer = FALSE]
    <2>2. win'[w] = a /\ \A v \in W!Wins \ {w} : win'[v] = win[v]
      BY <2>1
    <2>3. IsWin(a) /\ a.announced = win[w].announced /\ a.state # "none"
      <3>1. \A x : IsWin([win[w] EXCEPT !.timer = x]) /\ [win[w] EXCEPT !.timer = x].announced = win[w].announced /\ [win[w] EXCEPT !.timer = x].state = win[w].state
        BY DEF IsWin
      <3> QED
        BY <2>1, <3>1
    <2> HIDE DEF a
    <2> QED
      BY <2>1, <2>2, <2>3 DEF HandEffect
  <1>10. ASSUME NEW w \in W!Wins, W!CloseWindow(w) PROVE HandEffect
    <2>1. /\ win' = [win EXCEPT ![w].state = "exited", ![w].timer = FALSE, ![w].watch = 0] /\ win[w].state # "none"
          /\ UNCHANGED <<markers, gaveWay>>
      BY <1>10 DEF W!CloseWindow, W!Up
    <2> DEFINE a == [win[w] EXCEPT !.state = "exited"]
               b == [a EXCEPT !.timer = FALSE]
               c == [b EXCEPT !.watch = 0]
    <2>2. win'[w] = c /\ \A v \in W!Wins \ {w} : win'[v] = win[v]
      BY <2>1
    <2>3. IsWin(a) /\ a.announced = win[w].announced /\ a.state # "none"
      BY <2>1 DEF IsWin
    <2> HIDE DEF a
    <2>4. IsWin(b) /\ b.announced = win[w].announced /\ b.state # "none"
      <3>1. \A x : IsWin([a EXCEPT !.timer = x]) /\ [a EXCEPT !.timer = x].announced = a.announced /\ [a EXCEPT !.timer = x].state = a.state
        BY <2>3 DEF IsWin
      <3> QED
        BY <2>1, <2>3, <3>1
    <2> HIDE DEF b
    <2>5. IsWin(c) /\ c.announced = win[w].announced /\ c.state # "none"
      BY <2>1, <2>4 DEF IsWin
    <2> HIDE DEF c
    <2> QED
      BY <2>1, <2>2, <2>5 DEF HandEffect
  <1>11. ASSUME NEW w \in W!Wins, W!Crash(w) PROVE HandEffect
    <2>1. /\ win' = [win EXCEPT ![w].state = "failed", ![w].watch = 0] /\ win[w].state # "none"
          /\ UNCHANGED <<markers, gaveWay>>
      BY <1>11 DEF W!Crash, W!Up
    <2> DEFINE a == [win[w] EXCEPT !.state = "failed"]
               b == [a EXCEPT !.watch = 0]
    <2>2. win'[w] = b /\ \A v \in W!Wins \ {w} : win'[v] = win[v]
      BY <2>1
    <2>3. IsWin(a) /\ a.announced = win[w].announced /\ a.state # "none"
      BY <2>1 DEF IsWin
    <2> HIDE DEF a
    <2>4. IsWin(b) /\ b.announced = win[w].announced /\ b.state # "none"
      BY <2>1, <2>3 DEF IsWin
    <2> HIDE DEF b
    <2> QED
      BY <2>1, <2>2, <2>4 DEF HandEffect
  <1>12. ASSUME NEW w \in W!Wins, W!LoadFails(w) PROVE HandEffect
    <2>1. /\ win' = [win EXCEPT ![w].state = "failed"] /\ win[w].state # "none"
          /\ UNCHANGED <<markers, gaveWay>>
      BY <1>12 DEF W!LoadFails, W!Up
    <2> DEFINE a == [win[w] EXCEPT !.state = "failed"]
    <2>2. win'[w] = a /\ \A v \in W!Wins \ {w} : win'[v] = win[v]
      BY <2>1
    <2>3. IsWin(a) /\ a.announced = win[w].announced /\ a.state # "none"
      BY <2>1 DEF IsWin
    <2> HIDE DEF a
    <2> QED
      BY <2>1, <2>2, <2>3 DEF HandEffect
  <1>13. ASSUME NEW w \in W!Wins, W!ShowWindow(w) PROVE HandEffect
    <2>1. win' = [win EXCEPT ![w].state = "up"] /\ win[w].state # "none" /\ UNCHANGED <<markers, gaveWay>>
      BY <1>13 DEF W!ShowWindow
    <2> DEFINE a == [win[w] EXCEPT !.state = "up"]
    <2>2. win'[w] = a /\ \A v \in W!Wins \ {w} : win'[v] = win[v]
      BY <2>1
    <2>3. IsWin(a) /\ a.state = "up" /\ a.announced = win[w].announced
      BY DEF IsWin
    <2> HIDE DEF a
    <2> QED
      BY <2>1, <2>2, <2>3 DEF HandEffect
  <1>14. ASSUME NEW p \in Profiles, W!Launch(p) PROVE HandEffect
    BY <1>1, <1>2, <1>14 DEF W!Launch
  <1>15. ASSUME NEW w \in W!Wins, W!TierEnds(w) PROVE HandEffect
    BY <1>1, <1>2, <1>15 DEF W!TierEnds
  <1>16. ASSUME NEW w \in W!Wins, NEW u, W!ReadSettings(w) \/ W!CheckSchemaVersion(w), win' = [win EXCEPT ![w] = W!Opened(w, u)]
         PROVE HandEffect
    <2>1. win[w].state # "none" /\ UNCHANGED <<markers, gaveWay>>
      BY <1>16 DEF W!ReadSettings, W!CheckSchemaVersion
    <2> DEFINE a == [win[w] EXCEPT !.state = "loading"]
    <2>2. W!Opened(w, u) = [a EXCEPT !.view = u]
      BY DEF W!Opened
    <2>3. IsWin(a) /\ a.state = "loading" /\ a.announced = win[w].announced
      BY DEF IsWin
    <2> HIDE DEF a
    <2>4. W!Opened(w, u).state = "loading" /\ W!Opened(w, u).announced = win[w].announced
      BY <2>2, <2>3 DEF IsWin
    <2>5. win'[w] = W!Opened(w, u) /\ \A v \in W!Wins \ {w} : win'[v] = win[v]
      BY <1>16
    <2> QED
      BY <2>1, <2>4, <2>5 DEF HandEffect
  <1>17. ASSUME NEW w \in W!Wins, W!ReadSettings(w) PROVE HandEffect
    BY <1>16, <1>17 DEF W!ReadSettings
  <1>18. ASSUME NEW w \in W!Wins, W!CheckSchemaVersion(w) PROVE HandEffect
    BY <1>16, <1>18 DEF W!CheckSchemaVersion
  <1>19. ASSUME NEW w \in W!Wins, W!ResetCurrentView(w) \/ W!ResetAll(w) \/ W!SetPreference(w) PROVE HandEffect
    BY <1>1, <1>19 DEF W!ResetCurrentView, W!ResetAll, W!SetPreference
  <1> QED
    BY <1>3, <1>4, <1>5, <1>6, <1>7, <1>8, <1>9, <1>10, <1>11, <1>12, <1>13, <1>14, <1>15, <1>17, <1>18, <1>19
    DEF W!Next, W!Process, W!User, W!Poll

\* Announced windows keep their number, so a marker never vouches for another one.
LEMMA HandStep == HandInv /\ HandEffect => HandInv'
  BY DEF HandInv, HandEffect

WinInv == WinType /\ StoreType /\ ViewInv /\ HandInv

\* All steps of the windows.
LEMMA WinStep == WinInv /\ (W!Next \/ UNCHANGED winVars) => WinInv'
  <1> SUFFICES ASSUME WinInv, W!Next \/ UNCHANGED winVars PROVE WinInv'
    OBVIOUS
  <1>1. CASE W!Next
    <2>1. WinType' /\ WinEffect /\ HandInv'
      BY <1>1, WinSteps, HandSteps, HandStep DEF WinInv
    <2>2. StoreType' /\ ViewInv'
      BY <2>1, QuietViews, ReadViews, ShowViews, FailViews, ChangeViews, CrashViews, ForgetViews, SaveViews DEF WinInv, WinEffect
    <2> QED
      BY <2>1, <2>2 DEF WinInv
  <1>2. CASE UNCHANGED winVars
    <2>1. DoQuiet /\ WinType' /\ HandInv'
      BY <1>2 DEF winVars, WinInv, WinType, HandInv, IsWin, DoQuiet, Stored, Keeps
    <2> QED
      BY <2>1, QuietViews DEF WinInv
  <1> QED
    BY <1>1, <1>2

(***************************************************************************)
(* Imports.                                                                *)
(***************************************************************************)
IsLoad(l) ==
    l = [pc |-> l.pc, path |-> l.path, pos |-> l.pos, st |-> l.st, at |-> l.at, clean |-> l.clean, temp |-> l.temp,
         trace |-> l.trace, out |-> l.out]
IsCache(c) == c = [evs |-> c.evs, issues |-> c.issues, stamp |-> c.stamp, clean |-> c.clean, there |-> c.there]

\* A cache without its stamp is the target of the load that is filling it,
\* unless a viewer was killed.
Filling == load.pc \in {"first", "line", "finalize", "stamp"} /\ ~load.temp
HalfInv ==
    /\ IsLoad(load) /\ IsCache(cache)
    /\ load.pc \in {"finalize", "stamp"} => ~load.temp
    /\ ~killed /\ cache.there /\ cache.stamp = <<>> => Filling

\* What the steps do, seen from the cache.
SameLoad == IsLoad(load') /\ load'.pc = load.pc /\ load'.temp = load.temp
SameCache == IsCache(cache') /\ cache'.there = cache.there /\ cache'.stamp = cache.stamp
GoesTo(S) == IsLoad(load') /\ load'.pc \in S /\ load'.temp = load.temp
Aside == {"open", "opened", "both", "computed", "emitted", "probe_cache", "create", "reading", "idle"}
FileEffect ==
    \/ SameLoad /\ SameCache /\ killed' = killed
    \/ load.pc \in Aside /\ IsLoad(load') /\ load'.pc \in Aside /\ SameCache /\ killed' = killed
    \/ load.pc \in Aside /\ IsLoad(load') /\ load'.pc = "first" /\ SameCache /\ killed' = killed
    \/ load.pc = "create" /\ IsLoad(load') /\ load'.pc = "first" /\ ~load'.temp /\ IsCache(cache') /\ killed' = killed
    \/ load.pc = "first" /\ GoesTo({"line"}) /\ SameCache /\ killed' = killed
    \/ load.pc \in {"first", "line"} /\ GoesTo({"emitted"}) /\ cache' = F!Removed /\ killed' = killed
    \/ load.pc = "line" /\ load.temp /\ GoesTo({"opened"}) /\ SameCache /\ killed' = killed
    \/ load.pc = "line" /\ ~load.temp /\ GoesTo({"finalize"}) /\ SameCache /\ killed' = killed
    \/ load.pc = "finalize" /\ GoesTo({"stamp"}) /\ SameCache /\ killed' = killed
    \/ load.pc = "stamp" /\ GoesTo({"opened"}) /\ IsCache(cache') /\ cache'.stamp # <<>> /\ killed' = killed
    \/ load' = F!Idle /\ killed' /\ SameCache

\* From the effects ...
LEMMA HalfStep == HalfInv /\ FileEffect => HalfInv'
  <1> SUFFICES ASSUME HalfInv, FileEffect PROVE HalfInv'
    OBVIOUS
  <1>1. IsLoad(F!Idle) /\ F!Idle.pc = "idle"
    BY DEF F!Idle, IsLoad
  <1>2. IsCache(F!NoCache) /\ ~F!NoCache.there
    BY DEF F!NoCache, IsCache
  <1>3. F!Removed = IF load.temp THEN cache ELSE F!NoCache
    BY DEF F!Removed
  <1> QED
    BY <1>1, <1>2, <1>3 DEF HalfInv, FileEffect, SameLoad, SameCache, GoesTo, Aside, Filling

\* ... which every step of a load and of a writer has.
LEMMA FileSteps == HalfInv /\ F!Next => FileEffect
  <1> SUFFICES ASSUME HalfInv, F!Next PROVE FileEffect
    OBVIOUS
  <1>0. IsLoad(load) /\ IsCache(cache)
    BY DEF HalfInv
  <1>a. UNCHANGED cache => SameCache
    BY <1>0 DEF SameCache
  <1>b. IsLoad(F!Idle) /\ F!Idle.pc = "idle"
    BY DEF F!Idle, IsLoad
  <1>c. ASSUME NEW x, load' = [load EXCEPT !.pc = x] PROVE IsLoad(load') /\ load'.pc = x /\ load'.temp = load.temp
    BY <1>0, <1>c DEF IsLoad
  <1>d. ASSUME NEW x, F!Ends(x) PROVE GoesTo({"emitted"})
    BY <1>0, <1>d DEF F!Ends, IsLoad, GoesTo
  <1>1. ASSUME F!Touched, UNCHANGED <<cache, killed>> PROVE FileEffect
    <2>1. \A x : IsLoad([load EXCEPT !.clean = x]) /\ [load EXCEPT !.clean = x].pc = load.pc /\ [load EXCEPT !.clean = x].temp = load.temp
      BY <1>0 DEF IsLoad
    <2>2. SameLoad
      BY <1>0, <1>1, <2>1 DEF F!Touched, SameLoad
    <2> QED
      BY <1>1, <1>a, <2>2 DEF FileEffect
  <1>2. CASE F!Writes
    <2>1. CASE F!NoteExport
      BY <1>0, <1>a, <2>1 DEF F!NoteExport, F!viewVars, FileEffect, SameLoad
    <2> QED
      BY <1>1, <1>2, <2>1 DEF F!Writes, F!StartExport, F!WriteLines, F!WriterKilled
  <1>3. ASSUME NEW p, F!Start(p) PROVE FileEffect
    <2> DEFINE a == [F!Idle EXCEPT !.pc = "reading"]
    <2>1. load' = [a EXCEPT !.path = p] /\ load.pc = "idle" /\ UNCHANGED <<cache, killed>>
      BY <1>3 DEF F!Start, F!fileVars
    <2>2. IsLoad(a) /\ a.pc = "reading"
      BY <1>b DEF IsLoad
    <2> HIDE DEF a
    <2>3. IsLoad(load') /\ load'.pc = "reading"
      BY <2>1, <2>2 DEF IsLoad
    <2> QED
      BY <1>a, <2>1, <2>3 DEF FileEffect, Aside
  <1>4. ASSUME NEW x \in Aside, NEW y \in Aside, F!Checked(x, y) PROVE FileEffect
    <2>1. load.pc = x /\ UNCHANGED <<cache, killed>> /\ (F!Ends("cancelled") \/ load' = [load EXCEPT !.pc = y])
      BY <1>4 DEF F!Checked, F!Goto, F!fileVars
    <2> QED
      BY <1>4, <1>a, <1>c, <1>d, <2>1 DEF FileEffect, GoesTo, Aside
  <1>5. CASE F!OpenStore
    <2> DEFINE a == [load EXCEPT !.pc = "opened"]
               tr == [evs |-> [i \in 1 .. Events[sib.run] |-> sib.run], issues |-> F!NoIssues]
               b == [a EXCEPT !.at = sib.run]
               c == [b EXCEPT !.trace = tr]
    <2>1. load.pc = "open" /\ UNCHANGED <<cache, killed>> /\ (F!Ends("failed") \/ load' = c)
      BY <1>5 DEF F!OpenStore, F!fileVars
    <2>2. IsLoad(a) /\ a.pc = "opened"
      BY <1>0 DEF IsLoad
    <2> HIDE DEF a, tr
    <2>3. IsLoad(b) /\ b.pc = "opened"
      BY <2>2 DEF IsLoad
    <2> HIDE DEF b
    <2>4. IsLoad(c) /\ c.pc = "opened"
      BY <2>3 DEF IsLoad
    <2> HIDE DEF c
    <2> QED
      BY <1>a, <1>d, <2>1, <2>4 DEF FileEffect, GoesTo, Aside
  <1>6. CASE F!ProbeSibling
    <2> DEFINE a == [load EXCEPT !.pc = "opened"]
               tr == [evs |-> [i \in 1 .. Events[sib.run] |-> sib.run], issues |-> F!NoIssues]
               b == [a EXCEPT !.at = json.run]
               c == [b EXCEPT !.trace = tr]
               small == Len(json.lines) <= InMemory
               d == [load EXCEPT !.pc = IF small THEN "first" ELSE "probe_cache"]
               e == [d EXCEPT !.at = json.run]
               f == [e EXCEPT !.temp = small]
    <2>1. load.pc = "open" /\ UNCHANGED <<cache, killed>> /\ (F!Ends("failed") \/ load' = c \/ load' = f)
      BY <1>6 DEF F!ProbeSibling, F!fileVars
    <2>2. IsLoad(a) /\ a.pc = "opened"
      BY <1>0 DEF IsLoad
    <2> HIDE DEF a, tr, small
    <2>3. IsLoad(b) /\ b.pc = "opened"
      BY <2>2 DEF IsLoad
    <2> HIDE DEF b
    <2>4. IsLoad(c) /\ c.pc = "opened"
      BY <2>3 DEF IsLoad
    <2> HIDE DEF c
    <2>5. IsLoad(d) /\ d.pc \in {"first", "probe_cache"}
      BY <1>0 DEF IsLoad
    <2> HIDE DEF d
    <2>6. IsLoad(e) /\ e.pc \in {"first", "probe_cache"}
      BY <2>5 DEF IsLoad
    <2> HIDE DEF e
    <2>7. IsLoad(f) /\ f.pc \in {"first", "probe_cache"}
      BY <2>6 DEF IsLoad
    <2> HIDE DEF f
    <2> QED
      BY <1>a, <1>d, <2>1, <2>4, <2>7 DEF FileEffect, GoesTo, Aside
  <1>7. CASE F!ProbeCache
    <2> DEFINE a == [load EXCEPT !.pc = "opened"]
               ok == load.clean /\ cache.clean
               b == [a EXCEPT !.clean = ok]
               c == [b EXCEPT !.trace = [evs |-> cache.evs, issues |-> cache.issues]]
    <2>1. load.pc = "probe_cache" /\ UNCHANGED <<cache, killed>> /\ (load' = c \/ load' = [load EXCEPT !.pc = "create"])
      BY <1>7 DEF F!ProbeCache, F!Goto, F!fileVars
    <2>2. IsLoad(a) /\ a.pc = "opened"
      BY <1>0 DEF IsLoad
    <2> HIDE DEF a, ok
    <2>3. IsLoad(b) /\ b.pc = "opened"
      BY <2>2 DEF IsLoad
    <2> HIDE DEF b
    <2>4. IsLoad(c) /\ c.pc = "opened"
      BY <2>3 DEF IsLoad
    <2> HIDE DEF c
    <2> QED
      BY <1>a, <1>c, <2>1, <2>4 DEF FileEffect, Aside
  <1>8. CASE F!CreateTarget
    <2> DEFINE a == [load EXCEPT !.pc = "first"]
               made == [F!NoCache EXCEPT !.there = TRUE]
    <2>1. load.pc = "create" /\ UNCHANGED killed
          /\ \/ cache' = made /\ load' = [a EXCEPT !.temp = FALSE]
             \/ UNCHANGED cache /\ load' = [a EXCEPT !.temp = TRUE]
      BY <1>8 DEF F!CreateTarget
    <2>2. IsLoad(a) /\ a.pc = "first"
      BY <1>0 DEF IsLoad
    <2> HIDE DEF a
    <2>3. \A x : IsLoad([a EXCEPT !.temp = x]) /\ [a EXCEPT !.temp = x].pc = "first" /\ [a EXCEPT !.temp = x].temp = x
      BY <2>2 DEF IsLoad
    <2>4. IsCache(F!NoCache)
      BY DEF F!NoCache, IsCache
    <2>5. \A x : IsCache([F!NoCache EXCEPT !.there = x])
      BY <2>4 DEF IsCache
    <2>6. IsCache(made)
      BY <2>5
    <2> HIDE DEF made
    <2>7. IsLoad(load') /\ load'.pc = "first"
      BY ZenonT(60), <2>1, <2>3
    <2>8. cache' = made => ~load'.temp \/ UNCHANGED cache
      BY <2>1, <2>3
    <2> QED
      BY <1>a, <2>1, <2>6, <2>7, <2>8 DEF FileEffect, Aside
  <1>9. CASE F!OpenFile
    <2>1. load.pc = "first" /\ UNCHANGED killed
          /\ \/ load' = [load EXCEPT !.pc = "line"] /\ UNCHANGED cache
             \/ F!Ends("failed") /\ cache' = F!Removed
      BY <1>9 DEF F!OpenFile, F!Goto
    <2> QED
      BY <1>a, <1>c, <1>d, <2>1 DEF FileEffect, GoesTo
  <1>10. CASE F!ReadLine
    <2> DEFINE st == F!StreamLine(load.st, json.lines[load.pos + 1], json.run)
               a == [load EXCEPT !.pos = load.pos + 1]
               b == [a EXCEPT !.st = st]
               c == [cache EXCEPT !.evs = st.evs]
    <2>1. /\ load.pc = "line" /\ UNCHANGED killed
          /\ \/ F!Ends("cancelled") /\ cache' = F!Removed
             \/ load' = b /\ (cache' = cache \/ cache' = c)
      <3> HIDE DEF st
      <3> QED
        BY <1>10 DEF F!ReadLine, st
    <2> HIDE DEF st
    <2>2. IsLoad(a) /\ a.pc = load.pc /\ a.temp = load.temp
      BY <1>0 DEF IsLoad
    <2> HIDE DEF a
    <2>3. IsLoad(b) /\ b.pc = load.pc /\ b.temp = load.temp
      BY <2>2 DEF IsLoad
    <2>4. IsCache(c) /\ c.there = cache.there /\ c.stamp = cache.stamp
      BY <1>0 DEF IsCache
    <2> HIDE DEF b, c
    <2> QED
      BY <1>a, <1>d, <2>1, <2>3, <2>4 DEF FileEffect, SameLoad, SameCache
  <1>11. CASE F!EndOfFile
    <2> DEFINE tr == [evs |-> load.st.evs, issues |-> F!Issues(load.st)]
               a == [load EXCEPT !.pc = IF load.temp THEN "opened" ELSE "finalize"]
               b == [a EXCEPT !.pos = 0]
               c == [b EXCEPT !.st = F!Reading]
               d == [c EXCEPT !.trace = tr]
    <2>1. load.pc = "line" /\ UNCHANGED <<cache, killed>> /\ load' = d
      BY <1>11 DEF F!EndOfFile, F!fileVars
    <2> DEFINE Goes(l) == /\ IsLoad(l) /\ l.temp = load.temp
                          /\ (load.temp /\ l.pc = "opened") \/ (~load.temp /\ l.pc = "finalize")
    <2>2. Goes(a)
      BY <1>0 DEF IsLoad
    <2> HIDE DEF a, tr
    <2>3. Goes(b)
      BY <2>2 DEF IsLoad
    <2> HIDE DEF b
    <2>4. Goes(c)
      BY <2>3 DEF IsLoad
    <2> HIDE DEF c
    <2>5. Goes(d)
      BY <2>4 DEF IsLoad
    <2> HIDE DEF d
    <2> QED
      BY <1>a, <2>1, <2>5 DEF FileEffect, GoesTo
  <1>12. CASE F!FinalizeCache
    <2> DEFINE c == [cache EXCEPT !.issues = load.trace.issues]
               d == [c EXCEPT !.clean = load.clean]
    <2>1. load.pc = "finalize" /\ UNCHANGED killed /\ load' = [load EXCEPT !.pc = "stamp"] /\ cache' = d
      BY <1>12 DEF F!FinalizeCache, F!Goto
    <2>2. IsCache(c) /\ c.there = cache.there /\ c.stamp = cache.stamp
      BY <1>0 DEF IsCache
    <2> HIDE DEF c
    <2>3. IsCache(d) /\ d.there = cache.there /\ d.stamp = cache.stamp
      BY <2>2 DEF IsCache
    <2> HIDE DEF d
    <2> QED
      BY <1>c, <2>1, <2>3 DEF FileEffect, GoesTo, SameCache
  <1>13. CASE F!StampCache
    <2> DEFINE c == [cache EXCEPT !.stamp = F!FileStamp(json)]
               d == [c EXCEPT !.clean = load.clean]
    <2>1. load.pc = "stamp" /\ UNCHANGED killed /\ load' = [load EXCEPT !.pc = "opened"] /\ cache' = d
      BY <1>13 DEF F!StampCache, F!Goto
    <2>2. F!FileStamp(json) # <<>>
      BY DEF F!FileStamp
    <2>3. IsCache(c) /\ c.stamp # <<>>
      BY <1>0, <2>2 DEF IsCache
    <2> HIDE DEF c
    <2>4. IsCache(d) /\ d.stamp # <<>>
      BY <2>3 DEF IsCache
    <2> HIDE DEF d
    <2> QED
      BY <1>c, <2>1, <2>4 DEF FileEffect, GoesTo
  <1>14. CASE F!OpenSecond
    <2>1. load.pc = "opened" /\ UNCHANGED <<cache, killed>>
          /\ (F!Ends("cancelled") \/ F!Ends("failed") \/ load' = [load EXCEPT !.pc = "both"])
      BY <1>14 DEF F!OpenSecond, F!Goto, F!fileVars
    <2> QED
      BY <1>a, <1>c, <1>d, <2>1 DEF FileEffect, GoesTo, Aside
  <1>15. CASE F!Finish
    <2>1. load.pc = "computed" /\ UNCHANGED <<cache, killed>> /\ (F!Ends("cancelled") \/ F!Ends("finished"))
      BY <1>15 DEF F!Finish, F!fileVars
    <2> QED
      BY <1>a, <1>d, <2>1 DEF FileEffect, GoesTo, Aside
  <1>16. CASE F!Deliver
    BY <1>16, <1>a, <1>b DEF F!Deliver, F!fileVars, FileEffect, Aside
  <1>17. CASE F!Cancel
    BY <1>0, <1>17, <1>a DEF F!Cancel, F!fileVars, FileEffect, SameLoad
  <1>18. CASE F!ViewerKilled
    BY <1>18, <1>a DEF F!ViewerKilled, F!fileVars, FileEffect
  <1>19. CASE F!Worker
    <2>1. {"reading", "open", "opened", "both", "computed"} \subseteq Aside
      BY DEF Aside
    <2> QED
      BY <1>4, <1>5, <1>6, <1>7, <1>8, <1>9, <1>10, <1>11, <1>12, <1>13, <1>14, <1>15, <1>19, <2>1 DEF F!Worker, F!Compute
  <1> QED
    BY <1>2, <1>3, <1>16, <1>17, <1>18, <1>19 DEF F!Next, F!Viewing

(***************************************************************************)
(* What a load shows.                                                      *)
(***************************************************************************)
\* Where the lines of a run's JSON are, and how many of its first q lines
\* are events.
LinesOf(g) == IF g \in WithDisasm THEN Events[g] + 6 ELSE Events[g] + 5
KindOf(g, i) ==
    IF i <= 3 THEN <<"head", "meta", "open">>[i]
    ELSE IF i <= Events[g] + 3 THEN "ev"
    ELSE IF i = Events[g] + 4 THEN "close"
    ELSE IF i = LinesOf(g) THEN "end" ELSE "disasm"
StreamLinesOf == {F!Line("head"), F!Line("meta"), F!Line("open"), F!Line("ev"), F!Line("close"), F!Line("disasm"), F!Line("end")}
EventsIn(g, q) == IF q <= 3 THEN 0 ELSE IF q <= Events[g] + 3 THEN q - 3 ELSE Events[g]

\* What is on disk is the beginning of one run's lines; the last one may be
\* cut so that it does not decode.
Written(lines, g) ==
    /\ g \in Runs /\ Len(lines) \in 0 .. LinesOf(g) /\ DOMAIN lines = 1 .. Len(lines)
    /\ \A i \in 1 .. Len(lines) :
         lines[i].k = KindOf(g, i) \/ (i = Len(lines) /\ lines[i].k = "bad" /\ KindOf(g, i) \notin {"close", "end"})
IsJson(j) == j = [run |-> j.run, lines |-> j.lines, mtime |-> j.mtime]
IsStore(s) == s = [run |-> s.run, stamp |-> s.stamp, clean |-> s.clean]
IsWriter(w) == w = [run |-> w.run, k |-> w.k]
Before(stamp) == stamp[2] \in Nat /\ stamp[2] <= json.mtime
JsonInv ==
    /\ IsJson(json) /\ json.mtime \in Nat /\ (json.mtime > 0 => Written(json.lines, json.run))
    /\ IsWriter(writer) /\ IsStore(sib) /\ left \subseteq Runs
    /\ writer.run # 0 => /\ writer.run \in Runs /\ json.run = writer.run /\ sib.run = writer.run /\ json.mtime > 0
                         /\ sib.stamp = <<>> /\ writer.k \in 0 .. LinesOf(writer.run)
                         /\ json.lines = SubSeq(F!WriteStream(writer.run), 1, writer.k)
    /\ sib.stamp # <<>> => /\ Before(sib.stamp)
                           /\ sib.stamp[2] = json.mtime =>
                                json.mtime > 0 /\ sib.run = json.run /\ Len(json.lines) = LinesOf(json.run) /\ json.lines[LinesOf(json.run)].k = "end"

\* What the reader has made of a file of which it could read q lines.
Readable(lines, p) == IF p > 0 /\ lines[p].k = "bad" THEN p - 1 ELSE p
IsReading(st) ==
    st = [in_events |-> st.in_events, closed |-> st.closed, ended |-> st.ended, evs |-> st.evs, bad |-> st.bad,
          meta |-> st.meta, disasm |-> st.disasm]
ReadSoFar(st, g, q) ==
    /\ IsReading(st) /\ st.evs = [i \in 1 .. EventsIn(g, q) |-> g]
    /\ st.in_events <=> q \in 3 .. Events[g] + 3
    /\ st.closed <=> q >= Events[g] + 4
    /\ st.ended <=> q = LinesOf(g)
Exact(tr) == tr.evs = [i \in 1 .. F!EventLines(json) |-> json.run] /\ tr.issues.truncated = ~F!Whole(json)
Shows(path, tr, g) == IF path = "store" THEN tr.evs = [i \in 1 .. Events[g] |-> g] ELSE g = json.run /\ Exact(tr)

CacheInv ==
    /\ Filling => cache.stamp = <<>>
    /\ cache.stamp # <<>> => Before(cache.stamp) /\ (cache.clean /\ cache.stamp[2] = json.mtime => Exact(cache))
FromJson == {"probe_cache", "create", "first", "line", "finalize", "stamp"}
LoadAt ==
    /\ load.pc \in {"reading", "open", "probe_cache", "create", "first"} => load.pos = 0 /\ load.st = F!Reading
    /\ load.pc \in FromJson => load.path = "json" /\ load.at = json.run /\ json.mtime > 0
    /\ load.pc = "first" /\ ~load.temp => cache.evs = <<>>
    /\ load.pc = "line" => /\ json.lines # <<>> /\ load.pos \in 0 .. Len(json.lines)
                           /\ ReadSoFar(load.st, json.run, Readable(json.lines, load.pos))
                           /\ ~load.temp => cache.evs = load.st.evs
    /\ load.pc \in {"finalize", "stamp"} => Exact(load.trace) /\ cache.evs = load.trace.evs
    /\ load.pc = "stamp" => cache.issues = load.trace.issues
    /\ load.pc \in {"opened", "both", "computed"} \/ (load.pc = "emitted" /\ load.out = "finished")
         => Shows(load.path, load.trace, load.at)
LoadInv == load.clean /\ load.pc # "idle" => LoadAt
ShownInv == shown.outcome = "finished" /\ shown.clean => Shows(shown.path, shown.trace, shown.run)
ImportInv == HalfInv /\ JsonInv /\ CacheInv /\ LoadInv /\ ShownInv

\* A sequence behind another.
LEMMA Joined ==
    ASSUME NEW S, NEW s \in Seq(S), NEW t \in Seq(S)
    PROVE  /\ s \o t \in Seq(S) /\ Len(s \o t) = Len(s) + Len(t) /\ DOMAIN (s \o t) = 1 .. Len(s) + Len(t)
           /\ Len(s) \in Nat /\ Len(t) \in Nat
           /\ \A i \in 1 .. Len(s) : (s \o t)[i] = s[i]
           /\ \A i \in Len(s) + 1 .. Len(s) + Len(t) : (s \o t)[i] = t[i - Len(s)]
  OBVIOUS

LEMMA OneLine ==
    ASSUME NEW S, NEW x \in S
    PROVE  <<x>> \in Seq(S) /\ Len(<<x>>) = 1 /\ <<x>>[1] = x
  OBVIOUS

LEMMA StreamLines ==
    ASSUME NEW g \in Runs
    PROVE  LET w == F!WriteStream(g)
           IN /\ LinesOf(g) \in Nat /\ LinesOf(g) >= 5 /\ Events[g] \in Nat /\ w \in Seq(StreamLinesOf)
              /\ Len(w) = LinesOf(g) /\ DOMAIN w = 1 .. LinesOf(g)
              /\ \A i \in 1 .. LinesOf(g) : w[i].k = KindOf(g, i)
  <1> DEFINE L == StreamLinesOf
             n == Events[g]
             a == <<F!Line("head"), F!Line("meta"), F!Line("open")>>
             e == [i \in 1 .. n |-> F!Line("ev")]
             b == a \o e
             c == b \o <<F!Line("close")>>
             x == IF g \in WithDisasm THEN <<F!Line("disasm")>> ELSE <<>>
             d == c \o x
             w == d \o <<F!Line("end")>>
  <1>0. n \in Nat
    BY ViewerAssumption
  <1>w. w = F!WriteStream(g)
    BY DEF F!WriteStream
  <1>l. /\ F!Line("head") \in L /\ F!Line("meta") \in L /\ F!Line("open") \in L /\ F!Line("ev") \in L
        /\ F!Line("close") \in L /\ F!Line("disasm") \in L /\ F!Line("end") \in L
    BY DEF StreamLinesOf
  <1>k. /\ F!Line("head").k = "head" /\ F!Line("meta").k = "meta" /\ F!Line("open").k = "open" /\ F!Line("ev").k = "ev"
        /\ F!Line("close").k = "close" /\ F!Line("disasm").k = "disasm" /\ F!Line("end").k = "end"
    BY DEF F!Line
  <1> HIDE DEF L
  <1>1. a \in Seq(L) /\ Len(a) = 3 /\ a[1].k = "head" /\ a[2].k = "meta" /\ a[3].k = "open"
    BY <1>l, <1>k
  <1>2. e \in Seq(L) /\ Len(e) = n /\ \A i \in 1 .. n : e[i].k = "ev"
    BY <1>0, <1>l, <1>k
  <1> HIDE DEF n, a, e
  <1>c. Len(a) + Len(e) = n + 3 /\ Len(a) + 1 = 4
    BY <1>0, <1>1, <1>2
  <1>3. /\ b \in Seq(L) /\ Len(b) = n + 3
        /\ (\A i \in 1 .. 3 : b[i] = a[i]) /\ \A i \in 4 .. n + 3 : b[i] = e[i - 3]
    <2>1. /\ b \in Seq(L) /\ Len(b) = Len(a) + Len(e) /\ \A i \in 1 .. Len(a) : b[i] = a[i]
          /\ \A i \in Len(a) + 1 .. Len(a) + Len(e) : b[i] = e[i - Len(a)]
      <3>1. a \in Seq(L) /\ e \in Seq(L)
        BY <1>1, <1>2
      <3> QED
        BY <3>1, Joined DEF b
    <2> HIDE DEF b
    <2> QED
      BY <1>0, <1>1, <1>2, <1>c, <2>1
  <1> HIDE DEF b
  <1>4. c \in Seq(L) /\ Len(c) = n + 4 /\ (\A i \in 1 .. n + 3 : c[i] = b[i]) /\ c[n + 4] = F!Line("close")
    BY <1>0, <1>3, <1>l, Joined, OneLine
  <1> HIDE DEF c
  <1>5. x \in Seq(L) /\ Len(x) = (IF g \in WithDisasm THEN 1 ELSE 0) /\ (g \in WithDisasm => x[1] = F!Line("disasm"))
    BY <1>l, OneLine
  <1> HIDE DEF x
  <1>s. LinesOf(g) = n + 5 + (IF g \in WithDisasm THEN 1 ELSE 0) /\ LinesOf(g) \in Nat
    BY <1>0 DEF LinesOf, n
  <1>6. d \in Seq(L) /\ Len(d) = LinesOf(g) - 1 /\ (\A i \in 1 .. n + 4 : d[i] = c[i])
        /\ (g \in WithDisasm => d[n + 5] = F!Line("disasm"))
    BY <1>0, <1>4, <1>5, <1>s, Joined
  <1> HIDE DEF d
  <1>7. w \in Seq(L) /\ Len(w) = LinesOf(g) /\ (\A i \in 1 .. LinesOf(g) - 1 : w[i] = d[i]) /\ w[LinesOf(g)] = F!Line("end")
    BY <1>6, <1>l, <1>s, Joined, OneLine
  <1> HIDE DEF w
  <1>8. ASSUME NEW i \in 1 .. LinesOf(g) PROVE w[i].k = KindOf(g, i)
    <2>1. CASE i \in 1 .. 3
      <3>1. w[i] = a[i]
        <4>1. i \in 1 .. LinesOf(g) - 1 /\ i \in 1 .. n + 4 /\ i \in 1 .. n + 3
          BY <1>0, <1>s, <2>1
        <4> QED
          BY <1>3, <1>4, <1>6, <1>7, <2>1, <4>1
      <3>2. i = 1 \/ i = 2 \/ i = 3
        BY <2>1
      <3>3. w[i].k = <<"head", "meta", "open">>[i]
        BY <1>1, <3>1, <3>2
      <3> QED
        BY <2>1, <3>3 DEF KindOf
    <2>2. CASE i \in 4 .. n + 3
      <3>1. w[i] = e[i - 3] /\ i - 3 \in 1 .. n
        <4>1. i \in 1 .. LinesOf(g) - 1 /\ i \in 1 .. n + 4 /\ i \in 1 .. n + 3 /\ i - 3 \in 1 .. n
          BY <1>0, <1>s, <2>2
        <4> QED
          BY <1>3, <1>4, <1>6, <1>7, <2>2, <4>1
      <3> QED
        BY <1>0, <1>2, <2>2, <3>1 DEF KindOf, n
    <2>3. CASE i = n + 4
      <3>1. w[i] = F!Line("close")
        BY <1>0, <1>4, <1>6, <1>7, <1>s, <2>3
      <3> QED
        BY <1>0, <1>k, <2>3, <3>1 DEF KindOf, n
    <2>4. CASE i = LinesOf(g)
      BY <1>0, <1>k, <1>7, <1>s, <2>4 DEF KindOf, n
    <2>5. CASE i = n + 5 /\ i # LinesOf(g)
      <3>1. g \in WithDisasm
        BY <1>0, <1>s, <2>5
      <3>2. w[i] = F!Line("disasm")
        BY <1>0, <1>6, <1>7, <1>s, <2>5, <3>1
      <3> QED
        BY <1>0, <1>k, <2>5, <3>2 DEF KindOf, n
    <2> QED
      BY <1>0, <1>s, <2>1, <2>2, <2>3, <2>4, <2>5
  <1>9. DOMAIN w = 1 .. LinesOf(g)
    BY <1>7, <1>s
  <1> QED
    BY <1>0, <1>s, <1>7, <1>8, <1>9, <1>w DEF L, n

\* Which kind a line is by its number.
LEMMA Kinds ==
    ASSUME NEW g \in Runs, NEW i \in 1 .. LinesOf(g)
    PROVE  /\ KindOf(g, i) # "bad"
           /\ KindOf(g, i) = "ev" <=> i \in 4 .. Events[g] + 3
           /\ KindOf(g, i) = "close" <=> i = Events[g] + 4
           /\ KindOf(g, i) = "end" <=> i = LinesOf(g)
           /\ KindOf(g, i) = "open" <=> i = 3
  <1>1. Events[g] \in Nat
    BY ViewerAssumption
  <1>2. LinesOf(g) >= Events[g] + 5 /\ LinesOf(g) \in Nat
    BY <1>1 DEF LinesOf
  <1>3. i \in Nat
    BY <1>2
  <1> QED
    BY <1>1, <1>2, <1>3 DEF KindOf

\* A flushed beginning, and one with a line cut by a kill.
LEMMA Flushed ==
    ASSUME NEW g \in Runs, NEW k \in 0 .. LinesOf(g)
    PROVE  /\ Written(SubSeq(F!WriteStream(g), 1, k), g) /\ Len(SubSeq(F!WriteStream(g), 1, k)) = k
           /\ \A i \in 1 .. k : SubSeq(F!WriteStream(g), 1, k)[i].k = KindOf(g, i)
  <1> DEFINE w == F!WriteStream(g)
             s == SubSeq(w, 1, k)
  <1>1. LinesOf(g) \in Nat /\ w \in Seq(StreamLinesOf) /\ Len(w) = LinesOf(g)
        /\ \A i \in 1 .. LinesOf(g) : w[i].k = KindOf(g, i)
    BY StreamLines
  <1> HIDE DEF w
  <1>2. Len(s) = k /\ DOMAIN s = 1 .. k /\ \A i \in 1 .. k : s[i] = w[i]
    BY <1>1
  <1> HIDE DEF s
  <1>3. \A i \in 1 .. k : s[i].k = KindOf(g, i)
    BY <1>1, <1>2
  <1>4. Written(s, g) /\ Len(s) = k
    BY <1>2, <1>3 DEF Written
  <1> QED
    BY <1>3, <1>4 DEF s, w

LEMMA TornLine ==
    ASSUME NEW g \in Runs, NEW k \in 0 .. LinesOf(g) - 1, NEW t \in F!Torn(F!WriteStream(g)[k + 1])
    PROVE  Written(SubSeq(F!WriteStream(g), 1, k) \o t, g)
  <1> DEFINE s == SubSeq(F!WriteStream(g), 1, k)
             l == F!WriteStream(g)[k + 1]
             u == s \o t
  <1>0. LinesOf(g) \in Nat /\ l.k = KindOf(g, k + 1) /\ F!WriteStream(g) \in Seq(StreamLinesOf)
    BY StreamLines
  <1>1. Written(s, g) /\ Len(s) = k /\ k \in 0 .. LinesOf(g)
    BY <1>0, Flushed
  <1>2. s \in Seq(StreamLinesOf)
    <2>1. k <= Len(F!WriteStream(g))
      BY <1>0, StreamLines
    <2> QED
      BY <1>0, <2>1, SubSeqProperties DEF s
  <1>3. \/ t = <<>>
        \/ t = <<[k |-> l.k, whole |-> FALSE]>>
        \/ t = <<[k |-> "bad", whole |-> FALSE]>> /\ l.k \notin {"close", "end"}
    BY DEF F!Torn
  <1> HIDE DEF s, l
  <1>4. CASE t = <<>>
    <2>1. u = s
      BY <1>2, <1>4
    <2> HIDE DEF u
    <2>2. Written(u, g)
      BY <1>1, <2>1
    <2> QED
      BY <2>2 DEF u, s
  <1>5. ASSUME NEW x, x.k = KindOf(g, k + 1) \/ (x.k = "bad" /\ KindOf(g, k + 1) \notin {"close", "end"}), t = <<x>>
        PROVE  Written(u, g)
    <2>1. Len(u) = k + 1 /\ DOMAIN u = 1 .. k + 1 /\ u[k + 1] = x /\ \A i \in 1 .. k : u[i] = s[i]
      BY <1>0, <1>1, <1>2, <1>5
    <2>2. \A i \in 1 .. k : s[i].k = KindOf(g, i)
      BY <1>1, Flushed DEF s
    <2>3. k + 1 \in 0 .. LinesOf(g)
      BY <1>0
    <2> HIDE DEF u
    <2>4. ASSUME NEW i \in 1 .. Len(u)
          PROVE  u[i].k = KindOf(g, i) \/ (i = Len(u) /\ u[i].k = "bad" /\ KindOf(g, i) \notin {"close", "end"})
      <3>1. i \in 1 .. k \/ i = k + 1
        BY <1>0, <2>1
      <3> QED
        BY <1>5, <2>1, <2>2, <3>1
    <2> QED
      BY <2>1, <2>3, <2>4 DEF Written
  <1> QED
    BY <1>0, <1>3, <1>4, <1>5 DEF u, s, l

\* What a file holds, from how many of its lines can be read.
LEMMA Counted ==
    ASSUME NEW g \in Runs, NEW f, Written(f.lines, g)
    PROVE  LET q == Readable(f.lines, Len(f.lines))
           IN /\ q \in 0 .. LinesOf(g) /\ F!EventLines(f) = EventsIn(g, q) /\ EventsIn(g, q) \in Nat
              /\ F!Whole(f) <=> q = LinesOf(g)
  <1> DEFINE L == f.lines
             m == Len(L)
             q == Readable(L, m)
             n == Events[g]
             e == EventsIn(g, q)
             S == {i \in DOMAIN L : L[i].k = "ev"}
  <1>0. n \in Nat /\ LinesOf(g) \in Nat /\ LinesOf(g) >= n + 5
    <2>1. n \in Nat
      BY ViewerAssumption
    <2> QED
      BY <2>1 DEF LinesOf
  <1>1. m \in 0 .. LinesOf(g) /\ DOMAIN L = 1 .. m
    BY DEF Written
  <1>2. \A i \in 1 .. m : L[i].k = KindOf(g, i) \/ (i = m /\ L[i].k = "bad" /\ KindOf(g, i) \notin {"close", "end"})
    BY DEF Written
  <1>3. \A i \in 1 .. m : i \in 1 .. LinesOf(g)
    BY <1>0, <1>1
  <1>4. q = IF m > 0 /\ L[m].k = "bad" THEN m - 1 ELSE m
    BY DEF Readable
  <1> HIDE DEF L, m, q, n
  <1>5. q \in 0 .. LinesOf(g)
    BY <1>0, <1>1, <1>4
  <1>6. e \in Nat /\ e <= n /\ \A i \in Nat : i \in 4 .. e + 3 <=> i \in 4 .. n + 3 /\ i <= q
    BY <1>0, <1>5 DEF EventsIn, n
  <1> HIDE DEF e
  <1>7. ASSUME NEW i \in 1 .. m PROVE L[i].k = "ev" <=> i \in 4 .. e + 3
    <2>1. i \in Nat /\ i \in 1 .. LinesOf(g)
      BY <1>0, <1>1
    <2>2. (KindOf(g, i) = "ev" <=> i \in 4 .. n + 3) /\ KindOf(g, i) # "bad"
      BY <2>1, Kinds DEF n
    <2>3. CASE L[i].k = "bad"
      <3>1. i = m /\ q = m - 1
        BY <1>1, <1>2, <1>4, <2>2, <2>3
      <3> QED
        BY <1>1, <1>6, <2>1, <2>3, <3>1
    <2>4. CASE L[i].k # "bad"
      <3>1. L[i].k = KindOf(g, i) /\ i <= q
        BY <1>1, <1>2, <1>4, <2>1, <2>4
      <3> QED
        BY <1>6, <2>1, <2>2, <3>1
    <2> QED
      BY <2>3, <2>4
  <1>8. \A i \in 4 .. e + 3 : i \in 1 .. m
    BY <1>0, <1>1, <1>4, <1>6
  <1>9. S = 4 .. e + 3
    BY <1>1, <1>6, <1>7, <1>8
  <1>10. Cardinality(4 .. e + 3) = e
    BY <1>6, FS_Interval
  <1>11. F!EventLines(f) = e
    <2>1. F!Cardinality(S) = Cardinality(S)
      BY DEF F!Cardinality, Cardinality
    <2>2. F!EventLines(f) = F!Cardinality(S)
      BY DEF F!EventLines, L
    <2> HIDE DEF S
    <2> QED
      BY <1>9, <1>10, <2>1, <2>2
  <1>12. F!Whole(f) <=> q = LinesOf(g)
    <2>1. F!Whole(f) <=> L # <<>> /\ L[m].k = "end"
      BY DEF F!Whole, F!Last, L, m
    <2>2. CASE m = 0
      BY <1>0, <1>4, <2>1, <2>2 DEF m
    <2>3. CASE m > 0
      <3>1. m \in 1 .. m /\ m \in 1 .. LinesOf(g) /\ L # <<>>
        BY <1>0, <1>1, <2>3 DEF m
      <3>2. L[m].k = KindOf(g, m) \/ (L[m].k = "bad" /\ KindOf(g, m) \notin {"close", "end"})
        BY <1>2, <3>1
      <3>3. KindOf(g, m) # "bad" /\ (KindOf(g, m) = "end" <=> m = LinesOf(g))
        BY <3>1, Kinds
      <3> QED
        BY <1>0, <1>1, <1>4, <2>1, <2>3, <3>1, <3>2, <3>3
    <2> QED
      BY <1>1, <2>2, <2>3
  <1> QED
    BY <1>5, <1>6, <1>11, <1>12 DEF e, q, m, L

\* One line further.
LEMMA ReadsOn ==
    ASSUME NEW g \in Runs, NEW lines, Written(lines, g), NEW p \in 0 .. Len(lines) - 1,
           NEW st, ReadSoFar(st, g, Readable(lines, p))
    PROVE  ReadSoFar(F!StreamLine(st, lines[p + 1], g), g, Readable(lines, p + 1))
  <1> DEFINE l == lines[p + 1]
             n == Events[g]
             s == IF l.whole THEN st ELSE [st EXCEPT !.ended = (l.k = "end")]
             t == F!StreamLine(st, l, g)
             q == Readable(lines, p + 1)
  <1>0. n \in Nat /\ LinesOf(g) \in Nat /\ LinesOf(g) >= n + 5
    <2>1. n \in Nat
      BY ViewerAssumption
    <2> QED
      BY <2>1 DEF LinesOf
  <1>1. /\ Len(lines) \in 0 .. LinesOf(g) /\ p \in Nat /\ p < LinesOf(g) /\ p + 1 \in 1 .. LinesOf(g)
        /\ (l.k = KindOf(g, p + 1) \/ (l.k = "bad" /\ KindOf(g, p + 1) \notin {"close", "end"}))
    <2>1. Len(lines) \in 0 .. LinesOf(g)
      BY DEF Written
    <2>2. p \in Nat /\ p < LinesOf(g) /\ p + 1 \in 1 .. LinesOf(g) /\ p + 1 \in 1 .. Len(lines)
      BY <1>0, <2>1
    <2> QED
      BY <2>1, <2>2 DEF Written
  <1>2. Readable(lines, p) = p
    <2>1. CASE p = 0
      BY <2>1 DEF Readable
    <2>2. CASE p > 0
      <3>1. p \in 1 .. Len(lines) /\ p # Len(lines) /\ p \in 1 .. LinesOf(g)
        BY <1>0, <1>1, <2>2
      <3>2. lines[p].k = KindOf(g, p) /\ KindOf(g, p) # "bad"
        BY <3>1, Kinds DEF Written
      <3> QED
        BY <3>2 DEF Readable
    <2> QED
      BY <1>1, <2>1, <2>2
  <1>3. /\ IsReading(st) /\ st.evs = [i \in 1 .. EventsIn(g, p) |-> g]
        /\ (st.in_events <=> p \in 3 .. n + 3) /\ (st.closed <=> p >= n + 4) /\ ~st.ended
    <2>1. ReadSoFar(st, g, p) /\ p # LinesOf(g)
      BY <1>0, <1>1, <1>2
    <2> QED
      BY <2>1 DEF ReadSoFar
  <1>4. q = IF l.k = "bad" THEN p ELSE p + 1
    BY <1>1 DEF Readable
  <1>5. /\ IsReading(s) /\ s.evs = st.evs /\ s.in_events = st.in_events /\ s.closed = st.closed
        /\ s.ended => l.k = "end"
    <2>1. CASE l.whole
      BY <1>3, <2>1
    <2>2. CASE ~l.whole
      <3>1. s = [st EXCEPT !.ended = (l.k = "end")]
        BY <2>2
      <3> HIDE DEF s, l
      <3> QED
        BY <1>3, <3>1 DEF IsReading
    <2> QED
      BY <2>1, <2>2
  <1>6. t = IF s.in_events
            THEN IF l.k = "close" THEN [s EXCEPT !.in_events = FALSE, !.closed = TRUE]
                 ELSE IF l.k = "ev" THEN [s EXCEPT !.evs = Append(@, g)]
                 ELSE [s EXCEPT !.bad = @ + 1]
            ELSE IF l.k = "open" THEN [s EXCEPT !.in_events = TRUE]
                 ELSE IF l.k = "meta" THEN [s EXCEPT !.meta = TRUE]
                 ELSE IF l.k = "disasm" THEN [s EXCEPT !.disasm = TRUE]
                 ELSE IF l.k = "end" THEN [s EXCEPT !.ended = TRUE]
                 ELSE s
    BY DEF F!StreamLine
  <1> HIDE DEF l, n, s, t, q
  <1>7. CASE l.k = "bad"
    <2>1. t = [s EXCEPT !.bad = @ + 1] \/ t = s
      BY <1>6, <1>7
    <2>2. IsReading(t) /\ t.evs = s.evs /\ t.in_events = s.in_events /\ t.closed = s.closed /\ ~t.ended
      BY <1>5, <1>7, <2>1 DEF IsReading
    <2>3. ReadSoFar(t, g, p)
      BY <1>0, <1>1, <1>3, <1>5, <2>2 DEF ReadSoFar, n
    <2> QED
      BY <1>4, <1>7, <2>3 DEF t, q, l
  <1>8. CASE l.k = KindOf(g, p + 1) /\ l.k # "bad"
    <2>k. /\ l.k = "ev" <=> p + 1 \in 4 .. n + 3
          /\ l.k = "close" <=> p + 1 = n + 4
          /\ l.k = "end" <=> p + 1 = LinesOf(g)
          /\ l.k = "open" <=> p + 1 = 3
      BY <1>1, <1>8, Kinds DEF n
    <2>1. CASE l.k = "ev"
      <3>1. s.in_events /\ t = [s EXCEPT !.evs = Append(@, g)]
        BY <1>0, <1>1, <1>3, <1>5, <1>6, <2>1, <2>k
      <3>2. IsReading(t) /\ t.evs = Append(s.evs, g) /\ t.in_events = s.in_events /\ t.closed = s.closed /\ ~t.ended
        BY <1>5, <2>1, <3>1 DEF IsReading
      <3>3. EventsIn(g, p + 1) = EventsIn(g, p) + 1 /\ EventsIn(g, p) \in Nat
        BY <1>0, <1>1, <2>1, <2>k DEF EventsIn, n
      <3>4. Append([i \in 1 .. EventsIn(g, p) |-> g], g) = [i \in 1 .. EventsIn(g, p) + 1 |-> g]
        BY <3>3
      <3>5. (t.in_events <=> p + 1 \in 3 .. n + 3) /\ (t.closed <=> p + 1 >= n + 4) /\ (t.ended <=> p + 1 = LinesOf(g))
        BY <1>0, <1>1, <1>3, <1>5, <2>1, <2>k, <3>2
      <3>6. ReadSoFar(t, g, p + 1)
        BY <1>3, <1>5, <3>2, <3>3, <3>4, <3>5 DEF ReadSoFar, n
      <3> QED
        BY <1>4, <1>8, <3>6 DEF t, q, l
    <2>2. CASE l.k # "ev"
      <3>1. EventsIn(g, p + 1) = EventsIn(g, p)
        BY <1>0, <1>1, <2>2, <2>k DEF EventsIn, n
      <3>2. CASE l.k = "close"
        <4>1. s.in_events /\ t = [s EXCEPT !.in_events = FALSE, !.closed = TRUE]
          BY <1>0, <1>1, <1>3, <1>5, <1>6, <2>k, <3>2
        <4>2. IsReading(t) /\ t.evs = s.evs /\ ~t.in_events /\ t.closed /\ ~t.ended
          BY <1>5, <3>2, <4>1 DEF IsReading
        <4>3. (t.in_events <=> p + 1 \in 3 .. n + 3) /\ (t.closed <=> p + 1 >= n + 4) /\ (t.ended <=> p + 1 = LinesOf(g))
          BY <1>0, <1>1, <2>k, <3>2, <4>2
        <4>4. ReadSoFar(t, g, p + 1)
          BY <1>3, <1>5, <3>1, <4>2, <4>3 DEF ReadSoFar, n
        <4> QED
          BY <1>4, <1>8, <4>4 DEF t, q, l
      <3>3. CASE l.k # "close"
        <4>1. ~s.in_events
          BY <1>0, <1>1, <1>3, <1>5, <2>2, <2>k, <3>3
        <4>2. /\ IsReading(t) /\ t.evs = s.evs /\ t.closed = s.closed
              /\ (t.in_events <=> l.k = "open") /\ (t.ended <=> l.k = "end")
          <5>1. CASE l.k = "open"
            <6>1. t = [s EXCEPT !.in_events = TRUE]
              BY <1>6, <4>1, <5>1
            <6> QED
              BY <1>5, <5>1, <6>1 DEF IsReading
          <5>2. CASE l.k = "end"
            <6>1. t = [s EXCEPT !.ended = TRUE]
              BY <1>6, <4>1, <5>2
            <6> QED
              BY <1>3, <1>5, <4>1, <5>2, <6>1 DEF IsReading
          <5>3. CASE l.k \notin {"open", "end"}
            <6>1. t = s \/ t = [s EXCEPT !.meta = TRUE] \/ t = [s EXCEPT !.disasm = TRUE]
              BY <1>6, <4>1, <5>3
            <6>2. IsReading(t) /\ t.evs = s.evs /\ t.closed = s.closed /\ t.in_events = s.in_events /\ t.ended = s.ended
              BY <1>5, <6>1 DEF IsReading
            <6> QED
              BY <1>3, <1>5, <4>1, <5>3, <6>2
          <5> QED
            BY <5>1, <5>2, <5>3
        <4>3. (t.in_events <=> p + 1 \in 3 .. n + 3) /\ (t.closed <=> p + 1 >= n + 4) /\ (t.ended <=> p + 1 = LinesOf(g))
          BY <1>0, <1>1, <1>3, <1>5, <2>2, <2>k, <3>3, <4>1, <4>2
        <4>4. ReadSoFar(t, g, p + 1)
          BY <1>3, <1>5, <3>1, <4>2, <4>3 DEF ReadSoFar, n
        <4> QED
          BY <1>4, <1>8, <4>4 DEF t, q, l
      <3> QED
        BY <3>2, <3>3
    <2> QED
      BY <2>1, <2>2
  <1> QED
    <2>1. KindOf(g, p + 1) # "bad"
      BY <1>1, Kinds
    <2> QED
      BY <1>1, <1>7, <1>8, <2>1

\* A writer's steps: the file is a beginning of one run's lines, newer than
\* what was noted of it, and loads that overlap a rewrite are marked.
Rewritten == json'.mtime = json.mtime + 1 /\ F!Touched /\ UNCHANGED cache
LEMMA JsonStep ==
    ASSUME JsonInv, F!Next
    PROVE  JsonInv' /\ (((F!Viewing \/ F!NoteExport) /\ UNCHANGED json) \/ Rewritten)
  <1>0. /\ IsJson(json) /\ json.mtime \in Nat /\ (json.mtime > 0 => Written(json.lines, json.run))
        /\ IsWriter(writer) /\ IsStore(sib) /\ left \subseteq Runs
        /\ sib.stamp # <<>> => Before(sib.stamp)
    BY DEF JsonInv
  <1>n. IsWriter(F!NoWriter) /\ F!NoWriter.run = 0
    BY DEF F!NoWriter, IsWriter
  <1>1. ASSUME NEW g \in Runs, F!StartExport(g) PROVE JsonInv' /\ Rewritten
    <2>1. /\ json' = [run |-> g, lines |-> <<>>, mtime |-> json.mtime + 1] /\ writer' = [run |-> g, k |-> 0]
          /\ sib' = [run |-> g, stamp |-> <<>>, clean |-> TRUE] /\ left' = left \ {g} /\ F!Touched /\ UNCHANGED cache
      BY <1>1 DEF F!StartExport, F!Fresh
    <2>2. /\ IsJson(json') /\ json'.run = g /\ json'.lines = <<>> /\ json'.mtime = json.mtime + 1
          /\ IsWriter(writer') /\ writer'.run = g /\ writer'.k = 0
          /\ IsStore(sib') /\ sib'.run = g /\ sib'.stamp = <<>>
      BY <2>1 DEF IsJson, IsWriter, IsStore
    <2>3. LinesOf(g) \in Nat /\ SubSeq(F!WriteStream(g), 1, 0) = <<>>
      BY StreamLines
    <2>4. Written(<<>>, g)
      BY <2>3 DEF Written
    <2> QED
      BY <1>0, <2>1, <2>2, <2>3, <2>4 DEF JsonInv, Rewritten
  <1>2. CASE F!WriteLines
    <2> DEFINE g == writer.run
    <2>1. /\ g \in Runs /\ json.run = g /\ sib.run = g /\ sib.stamp = <<>> /\ g # 0
      BY <1>2 DEF F!WriteLines, JsonInv
    <2>2. LinesOf(g) \in Nat /\ LinesOf(g) >= 5 /\ Len(F!WriteStream(g)) = LinesOf(g)
      BY <2>1, StreamLines
    <2>3. PICK n \in {4, Len(F!WriteStream(g))} :
              /\ writer' = [writer EXCEPT !.k = n]
              /\ json' = [json EXCEPT !.lines = SubSeq(F!WriteStream(g), 1, n), !.mtime = @ + 1]
      BY <1>2 DEF F!WriteLines
    <2>4. n \in 0 .. LinesOf(g)
      BY <2>2
    <2>5. F!Touched /\ UNCHANGED <<sib, cache, left>>
      BY <1>2 DEF F!WriteLines
    <2>6. IsWriter(writer') /\ writer'.run = g /\ writer'.k = n
      BY <1>0, <2>3 DEF IsWriter
    <2> DEFINE s == SubSeq(F!WriteStream(g), 1, n)
    <2>7. Written(s, g)
      BY <2>1, <2>4, Flushed
    <2> HIDE DEF s
    <2>8. IsJson(json') /\ json'.run = json.run /\ json'.mtime = json.mtime + 1 /\ json'.lines = s
      BY <1>0, <2>3 DEF IsJson, s
    <2>9. JsonInv'
      BY <1>0, <2>1, <2>4, <2>5, <2>6, <2>7, <2>8 DEF JsonInv, s
    <2> QED
      BY <2>5, <2>8, <2>9 DEF Rewritten
  <1>3. CASE F!NoteExport
    <2> DEFINE g == writer.run
    <2>1. /\ g \in Runs /\ json.run = g /\ sib.run = g /\ g # 0 /\ json.mtime > 0
          /\ json.lines = SubSeq(F!WriteStream(g), 1, writer.k)
          /\ writer.k = Len(F!WriteStream(g)) /\ writer' = F!NoWriter /\ sib' = [sib EXCEPT !.stamp = F!FileStamp(json)]
          /\ UNCHANGED <<json, left>>
      BY <1>3 DEF F!NoteExport, JsonInv
    <2>2. writer.k = LinesOf(g) /\ LinesOf(g) \in 0 .. LinesOf(g) /\ LinesOf(g) \in 1 .. LinesOf(g)
      BY <2>1, StreamLines
    <2>3. Len(json.lines) = LinesOf(g) /\ json.lines[LinesOf(g)].k = "end"
      BY <2>1, <2>2, Flushed, Kinds
    <2>4. IsStore(sib') /\ sib'.run = g /\ sib'.stamp = <<Len(json.lines), json.mtime>>
      BY <1>0, <2>1 DEF IsStore, F!FileStamp
    <2>5. sib'.stamp[2] = json.mtime
      BY <2>4
    <2>6. writer'.run = 0 /\ IsWriter(writer') /\ Before(sib.stamp)'
      BY <1>0, <1>n, <2>1, <2>5 DEF Before
    <2>7. JsonInv'
      BY <1>0, <2>1, <2>3, <2>4, <2>5, <2>6 DEF JsonInv
    <2> QED
      BY <1>3, <2>1, <2>7
  <1>4. CASE F!WriterKilled
    <2> DEFINE g == writer.run
    <2>1. /\ g \in Runs /\ json.run = g /\ sib.stamp = <<>> /\ writer.k \in 0 .. LinesOf(g)
          /\ writer' = F!NoWriter /\ F!Touched /\ UNCHANGED <<sib, cache, left>>
      BY <1>4 DEF F!WriterKilled, JsonInv
    <2>2. LinesOf(g) \in Nat /\ Len(F!WriteStream(g)) = LinesOf(g)
      BY <2>1, StreamLines
    <2>n. PICK n \in writer.k .. LinesOf(g) - 1 : \E t \in F!Torn(F!WriteStream(g)[n + 1]) :
              json' = [json EXCEPT !.lines = SubSeq(F!WriteStream(g), 1, n) \o t, !.mtime = @ + 1]
      BY <1>4, <2>2 DEF F!WriterKilled
    <2>3. PICK t \in F!Torn(F!WriteStream(g)[n + 1]) :
              json' = [json EXCEPT !.lines = SubSeq(F!WriteStream(g), 1, n) \o t, !.mtime = @ + 1]
      BY <2>n
    <2>4. n \in 0 .. LinesOf(g) - 1
      BY <2>1, <2>2
    <2> DEFINE s == SubSeq(F!WriteStream(g), 1, n) \o t
    <2>5. Written(s, g)
      BY <2>1, <2>3, <2>4, TornLine
    <2> HIDE DEF s
    <2>6. IsJson(json') /\ json'.run = json.run /\ json'.mtime = json.mtime + 1 /\ json'.lines = s
      BY <1>0, <2>3 DEF IsJson, s
    <2>7. writer'.run = 0 /\ IsWriter(writer')
      BY <1>n, <2>1
    <2>8. JsonInv'
      BY <1>0, <2>1, <2>5, <2>6, <2>7 DEF JsonInv
    <2> QED
      BY <2>1, <2>6, <2>8 DEF Rewritten
  <1>5. ASSUME UNCHANGED <<json, sib, writer, left>> PROVE JsonInv'
    BY <1>5 DEF JsonInv, Written, Before
  <1>6. CASE F!Viewing
    <2>1. UNCHANGED <<json, sib, writer, left>>
      BY <1>6 DEF F!Viewing, F!Start, F!Worker, F!Checked, F!OpenStore, F!ProbeSibling, F!ProbeCache, F!CreateTarget, F!OpenFile,
        F!ReadLine, F!EndOfFile, F!FinalizeCache, F!StampCache, F!OpenSecond, F!Compute, F!Finish, F!Deliver, F!Cancel,
        F!ViewerKilled, F!fileVars, F!writeVars
    <2> QED
      BY <1>5, <1>6, <2>1
  <1> QED
    BY <1>1, <1>2, <1>3, <1>4, <1>6 DEF F!Next, F!Writes

\* The store a finished run left beside its JSON has what the JSON has.
LEMMA StoreExact ==
    ASSUME JsonInv, sib.stamp # <<>>, sib.stamp[2] = json.mtime,
           NEW tr, tr.evs = [i \in 1 .. Events[sib.run] |-> sib.run], tr.issues = F!NoIssues
    PROVE  Exact(tr)
  <1> DEFINE g == json.run
  <1>1. /\ json.mtime > 0 /\ sib.run = g /\ Len(json.lines) = LinesOf(g) /\ json.lines[LinesOf(g)].k = "end"
        /\ Written(json.lines, g) /\ g \in Runs
    BY DEF JsonInv, Written
  <1>2. LinesOf(g) \in Nat /\ LinesOf(g) >= Events[g] + 5 /\ Events[g] \in Nat
    <2>1. Events[g] \in Nat
      BY <1>1, ViewerAssumption
    <2> QED
      BY <2>1 DEF LinesOf
  <1>3. Readable(json.lines, Len(json.lines)) = LinesOf(g)
    BY <1>1 DEF Readable
  <1>4. F!EventLines(json) = Events[g] /\ F!Whole(json)
    <2>1. EventsIn(g, LinesOf(g)) = Events[g]
      BY <1>2 DEF EventsIn
    <2> QED
      BY <1>1, <1>3, <2>1, Counted
  <1>5. tr.issues.truncated = FALSE
    BY DEF F!NoIssues
  <1>6. (~F!Whole(json)) = FALSE
    BY <1>4
  <1>7. tr.evs = [i \in 1 .. F!EventLines(json) |-> json.run]
    BY <1>1, <1>4
  <1> QED
    BY <1>5, <1>6, <1>7 DEF Exact

\* A file read to its end.
LEMMA ReadExact ==
    ASSUME JsonInv, json.mtime > 0, NEW st, ReadSoFar(st, json.run, Readable(json.lines, Len(json.lines))),
           NEW tr, tr.evs = st.evs, tr.issues = F!Issues(st)
    PROVE  Exact(tr)
  <1> DEFINE g == json.run
             q == Readable(json.lines, Len(json.lines))
  <1>1. Written(json.lines, g) /\ g \in Runs
    BY DEF JsonInv, Written
  <1>2. q \in 0 .. LinesOf(g) /\ F!EventLines(json) = EventsIn(g, q) /\ (F!Whole(json) <=> q = LinesOf(g))
    BY <1>1, Counted
  <1>3. LinesOf(g) >= Events[g] + 4 /\ LinesOf(g) \in Nat /\ Events[g] \in Nat
    <2>1. Events[g] \in Nat
      BY <1>1, ViewerAssumption
    <2> QED
      BY <2>1 DEF LinesOf
  <1>4. tr.issues.truncated = F!Cut(st)
    BY DEF F!Issues
  <1> HIDE DEF g, q
  <1>5. ReadSoFar(st, g, q)
    BY DEF g, q
  <1>6. F!Cut(st) <=> q # LinesOf(g)
    BY <1>2, <1>3, <1>5 DEF F!Cut, ReadSoFar
  <1>7. F!Cut(st) = ~F!Whole(json)
    BY <1>2, <1>6 DEF F!Cut, F!Whole
  <1> QED
    BY <1>2, <1>4, <1>5, <1>7 DEF Exact, ReadSoFar, g

\* What a step that leaves the file alone has to show.
LEMMA CacheKept ==
    ASSUME CacheInv, UNCHANGED <<json, cache>>, Filling' => cache.stamp = <<>>
    PROVE  CacheInv'
  BY DEF CacheInv, Before, Exact
LEMMA NoStamp ==
    ASSUME cache'.stamp = <<>>
    PROVE  CacheInv'
  BY DEF CacheInv
LEMMA ShownKept ==
    ASSUME ShownInv, UNCHANGED <<json, shown>>
    PROVE  ShownInv'
  BY DEF ShownInv, Shows, Exact
LEMMA LoadOver ==
    ASSUME IsLoad(load), NEW x \in {"cancelled", "failed"}, F!Ends(x)
    PROVE  LoadInv' /\ ~Filling'
  <1>1. load'.pc = "emitted" /\ load'.out = x
    BY DEF F!Ends, IsLoad
  <1> QED
    BY <1>1 DEF LoadInv, LoadAt, FromJson, Filling

\* Nothing of the load matters but where it is, from there on.
LEMMA LoadGoes ==
    ASSUME IsLoad(load), LoadInv, UNCHANGED json, NEW x, load' = [load EXCEPT !.pc = x], load.pc # "idle",
           \/ load.pc = "reading" /\ x = "open"
           \/ load.pc \in {"opened", "both", "computed"} /\ x \in {"opened", "both", "computed"}
           \/ load.pc = "computed" /\ x = "emitted"
    PROVE  LoadInv' /\ ~Filling'
  <1>1. /\ load'.pc = x /\ load'.path = load.path /\ load'.pos = load.pos /\ load'.st = load.st /\ load'.at = load.at
        /\ load'.clean = load.clean /\ load'.trace = load.trace
    BY DEF IsLoad
  <1>2. ~Filling'
    BY <1>1 DEF Filling
  <1>3. LoadInv'
    BY <1>1 DEF LoadInv, LoadAt, FromJson, Shows, Exact
  <1> QED
    BY <1>2, <1>3

LEMMA RewriteStep ==
    ASSUME HalfInv, JsonInv, CacheInv, Rewritten
    PROVE  CacheInv' /\ LoadInv' /\ ShownInv'
  <1>0. IsLoad(load) /\ json.mtime \in Nat
    BY DEF HalfInv, JsonInv
  <1>1. \/ load' = load /\ load.pc = "idle"
        \/ load.pc # "idle" /\ ~load'.clean /\ load'.pc = load.pc /\ load'.temp = load.temp
    BY <1>0 DEF Rewritten, F!Touched, IsLoad
  <1>2. LoadInv'
    BY <1>1 DEF LoadInv
  <1>3. Filling' <=> Filling
    BY <1>1 DEF Filling
  <1>4. cache' = cache /\ json'.mtime = json.mtime + 1
    BY DEF Rewritten
  <1>5. CacheInv'
    BY <1>0, <1>3, <1>4 DEF CacheInv, Before
  <1>6. shown'.outcome = "none"
    BY DEF Rewritten, F!Touched, F!NoneShown
  <1> QED
    BY <1>2, <1>5, <1>6 DEF ShownInv

\* The steps up to a decision where the trace comes from.
Opens == \/ \E p \in {"json", "store"} : F!Start(p)
         \/ F!Checked("reading", "open") \/ F!OpenStore \/ F!ProbeSibling \/ F!ProbeCache \/ F!Compute
LEMMA OpenStep ==
    ASSUME HalfInv, JsonInv, CacheInv, LoadInv, ShownInv, F!NoteExport \/ Opens, UNCHANGED json
    PROVE  CacheInv' /\ LoadInv' /\ ShownInv'
  <1>0. IsLoad(load) /\ IsCache(cache) /\ json.mtime \in Nat /\ (load.pc \in {"finalize", "stamp"} => ~load.temp)
    BY DEF HalfInv, JsonInv
  <1>1. CASE F!NoteExport
    <2>1. UNCHANGED <<load, cache, shown>>
      BY <1>1 DEF F!NoteExport, F!viewVars
    <2>2. Filling' <=> Filling
      BY <2>1 DEF Filling
    <2>3. LoadInv'
      BY <2>1 DEF LoadInv, LoadAt, Shows, Exact
    <2> QED
      BY <2>1, <2>2, <2>3, CacheKept, ShownKept DEF CacheInv
  <1>2. ASSUME NEW p, F!Start(p) PROVE CacheInv' /\ LoadInv' /\ ShownInv'
    <2> DEFINE a == [F!Idle EXCEPT !.pc = "reading"]
    <2>1. load' = [a EXCEPT !.path = p] /\ UNCHANGED cache /\ shown' = F!NoneShown
      BY <1>2 DEF F!Start, F!fileVars
    <2>i. IsLoad(F!Idle) /\ F!Idle.pos = 0 /\ F!Idle.st = F!Reading
      BY DEF F!Idle, IsLoad
    <2>2. IsLoad(a) /\ a.pc = "reading" /\ a.pos = 0 /\ a.st = F!Reading
      BY <2>i DEF IsLoad
    <2> HIDE DEF a
    <2>3. load'.pc = "reading" /\ load'.pos = 0 /\ load'.st = F!Reading
      BY <2>1, <2>2 DEF IsLoad
    <2>4. ~Filling' /\ LoadInv'
      BY <2>3 DEF Filling, LoadInv, LoadAt, FromJson
    <2>5. shown'.outcome # "finished"
      BY <2>1 DEF F!NoneShown
    <2> QED
      BY <2>1, <2>4, <2>5, CacheKept DEF ShownInv
  <1>3. ASSUME NEW x, NEW y, F!Checked(x, y), (x = "reading" /\ y = "open") \/ (x \in {"opened", "both"} /\ y = "computed")
        PROVE  CacheInv' /\ LoadInv' /\ ShownInv'
    <2>1. load.pc = x /\ UNCHANGED <<cache, shown>> /\ (F!Ends("cancelled") \/ load' = [load EXCEPT !.pc = y])
      BY <1>3 DEF F!Checked, F!Goto, F!fileVars
    <2>2. LoadInv' /\ ~Filling'
      BY <1>0, <1>3, <2>1, LoadOver, LoadGoes
    <2> QED
      BY <2>1, <2>2, CacheKept, ShownKept
  <1>4. CASE F!OpenStore
    <2> DEFINE a == [load EXCEPT !.pc = "opened"]
               tr == [evs |-> [i \in 1 .. Events[sib.run] |-> sib.run], issues |-> F!NoIssues]
               b == [a EXCEPT !.at = sib.run]
               c == [b EXCEPT !.trace = tr]
    <2>1. load.pc = "open" /\ load.path = "store" /\ UNCHANGED <<cache, shown>> /\ (F!Ends("failed") \/ load' = c)
      BY <1>4 DEF F!OpenStore, F!fileVars
    <2>2. CASE load' = c
      <3>0. tr.evs = [i \in 1 .. Events[sib.run] |-> sib.run]
        OBVIOUS
      <3>1. IsLoad(a) /\ a.pc = "opened" /\ a.path = "store"
        BY <1>0, <2>1 DEF IsLoad
      <3> HIDE DEF a, tr
      <3>2. IsLoad(b) /\ b.pc = "opened" /\ b.path = "store" /\ b.at = sib.run
        BY <3>1 DEF IsLoad
      <3> HIDE DEF b
      <3>3. load'.pc = "opened" /\ load'.path = "store" /\ load'.at = sib.run /\ load'.trace = tr
        BY <2>2, <3>2 DEF IsLoad
      <3>4. LoadInv' /\ ~Filling'
        BY <3>0, <3>3 DEF LoadInv, LoadAt, FromJson, Filling, Shows
      <3> QED
        BY <2>1, <3>4, CacheKept, ShownKept
    <2> QED
      BY <1>0, <2>1, <2>2, LoadOver, CacheKept, ShownKept
  <1>5. CASE F!ProbeSibling
    <2> DEFINE a == [load EXCEPT !.pc = "opened"]
               tr == [evs |-> [i \in 1 .. Events[sib.run] |-> sib.run], issues |-> F!NoIssues]
               b == [a EXCEPT !.at = json.run]
               c == [b EXCEPT !.trace = tr]
               small == Len(json.lines) <= InMemory
               d == [load EXCEPT !.pc = IF small THEN "first" ELSE "probe_cache"]
               e == [d EXCEPT !.at = json.run]
               f == [e EXCEPT !.temp = small]
    <2>1. /\ load.pc = "open" /\ load.path = "json" /\ UNCHANGED <<cache, shown>>
          /\ F!Ends("failed") \/ (json.mtime > 0 /\ F!MatchingStore(sib) /\ load' = c) \/ (json.mtime > 0 /\ load' = f)
      BY <1>0, <1>5 DEF F!ProbeSibling, F!fileVars
    <2>2. CASE json.mtime > 0 /\ F!MatchingStore(sib) /\ load' = c
      <3>0. tr.evs = [i \in 1 .. Events[sib.run] |-> sib.run] /\ tr.issues = F!NoIssues
        OBVIOUS
      <3>1. IsLoad(a) /\ a.pc = "opened" /\ a.path = "json"
        BY <1>0, <2>1 DEF IsLoad
      <3> HIDE DEF a, tr
      <3>2. IsLoad(b) /\ b.pc = "opened" /\ b.path = "json" /\ b.at = json.run
        BY <3>1 DEF IsLoad
      <3> HIDE DEF b
      <3>3. load'.pc = "opened" /\ load'.path = "json" /\ load'.at = json.run /\ load'.trace = tr
        BY <2>2, <3>2 DEF IsLoad
      <3>4. sib.stamp # <<>> /\ sib.stamp[2] = json.mtime
        BY <2>2 DEF F!MatchingStore, F!FileStamp
      <3>5. Exact(tr)
        BY <3>0, <3>4, StoreExact
      <3>6. LoadInv' /\ ~Filling'
        BY <3>3, <3>5 DEF LoadInv, LoadAt, FromJson, Filling, Shows, Exact
      <3> QED
        BY <2>1, <3>6, CacheKept, ShownKept
    <2>3. CASE json.mtime > 0 /\ load' = f
      <3>1. /\ IsLoad(d) /\ d.pc = (IF small THEN "first" ELSE "probe_cache") /\ d.path = load.path /\ d.pos = load.pos /\ d.st = load.st
            /\ d.clean = load.clean
        BY <1>0 DEF IsLoad
      <3> HIDE DEF d, small
      <3>2. IsLoad(e) /\ e.at = json.run /\ e.pc = d.pc /\ e.path = d.path /\ e.pos = d.pos /\ e.st = d.st /\ e.clean = d.clean
        BY <3>1 DEF IsLoad
      <3> HIDE DEF e
      <3>3. /\ load'.at = e.at /\ load'.pc = e.pc /\ load'.path = e.path /\ load'.pos = e.pos /\ load'.st = e.st
            /\ load'.clean = e.clean /\ load'.temp = small
        BY <2>3, <3>2 DEF IsLoad
      <3>4. ~Filling'
        BY <3>1, <3>2, <3>3 DEF Filling
      <3>5. load'.pc = "first" => load'.temp
        BY <3>1, <3>2, <3>3
      <3>6. load'.pc \in {"first", "probe_cache"}
        BY <3>1, <3>2, <3>3
      <3>7. load.clean => load.pos = 0 /\ load.st = F!Reading
        BY <2>1 DEF LoadInv, LoadAt
      <3>8. LoadInv'
        BY <2>1, <2>3, <3>1, <3>2, <3>3, <3>5, <3>6, <3>7 DEF LoadInv, LoadAt
      <3> QED
        BY <2>1, <3>4, <3>8, CacheKept, ShownKept
    <2> QED
      BY <1>0, <2>1, <2>2, <2>3, LoadOver, CacheKept, ShownKept
  <1>6. CASE F!ProbeCache
    <2> DEFINE a == [load EXCEPT !.pc = "opened"]
               tr == [evs |-> cache.evs, issues |-> cache.issues]
               b == [a EXCEPT !.clean = load.clean /\ cache.clean]
               c == [b EXCEPT !.trace = tr]
    <2>1. /\ load.pc = "probe_cache" /\ UNCHANGED <<cache, shown>>
          /\ (F!MatchingStore(cache) /\ load' = c) \/ load' = [load EXCEPT !.pc = "create"]
      BY <1>6 DEF F!ProbeCache, F!Goto, F!fileVars
    <2>2. CASE F!MatchingStore(cache) /\ load' = c
      <3>0. tr.evs = cache.evs /\ tr.issues = cache.issues
        OBVIOUS
      <3>1. IsLoad(a) /\ a.pc = "opened" /\ a.path = load.path /\ a.at = load.at
        BY <1>0 DEF IsLoad
      <3> HIDE DEF a, tr
      <3>2. IsLoad(b) /\ b.pc = "opened" /\ b.path = load.path /\ b.at = load.at /\ b.clean = (load.clean /\ cache.clean)
        BY <3>1 DEF IsLoad
      <3> HIDE DEF b
      <3>3. load'.pc = "opened" /\ load'.path = load.path /\ load'.at = load.at /\ load'.clean = b.clean /\ load'.trace = tr
        BY <2>2, <3>2 DEF IsLoad
      <3>4. cache.stamp # <<>> /\ cache.stamp[2] = json.mtime
        BY <2>2 DEF F!MatchingStore, F!FileStamp
      <3>5. cache.clean => Exact(tr)
        BY <3>0, <3>4 DEF CacheInv, Exact
      <3>6. load.clean => load.path = "json" /\ load.at = json.run
        BY <2>1 DEF LoadInv, LoadAt, FromJson
      <3>7. load'.clean => load.clean /\ cache.clean
        BY <3>2, <3>3
      <3>8. LoadInv' /\ ~Filling'
        BY <3>3, <3>5, <3>6, <3>7 DEF LoadInv, LoadAt, FromJson, Filling, Shows, Exact
      <3> QED
        BY <2>1, <3>8, CacheKept, ShownKept
    <2>3. CASE load' = [load EXCEPT !.pc = "create"]
      <3>1. /\ load'.pc = "create" /\ load'.path = load.path /\ load'.at = load.at /\ load'.clean = load.clean /\ load'.pos = load.pos
            /\ load'.st = load.st
        BY <1>0, <2>3 DEF IsLoad
      <3>2. LoadInv' /\ ~Filling'
        BY <2>1, <3>1 DEF LoadInv, LoadAt, FromJson, Filling
      <3> QED
        BY <2>1, <3>2, CacheKept, ShownKept
    <2> QED
      BY <2>1, <2>2, <2>3
  <1>7. CASE F!Checked("reading", "open")
    BY <1>3, <1>7
  <1>8. CASE F!Compute
    <2>1. F!Checked("opened", "computed") \/ F!Checked("both", "computed")
      BY <1>8 DEF F!Compute
    <2> QED
      BY <1>3, <2>1
  <1> QED
    BY <1>1, <1>2, <1>4, <1>5, <1>6, <1>7, <1>8 DEF Opens

\* The steps of an import: the target, the lines, the report, the stamp.
Imports == F!CreateTarget \/ F!OpenFile \/ F!ReadLine \/ F!EndOfFile \/ F!FinalizeCache \/ F!StampCache
LEMMA GivenUp ==
    ASSUME IsLoad(load), CacheInv, ShownInv, UNCHANGED <<json, shown>>, NEW x \in {"cancelled", "failed"}, F!Ends(x),
           cache' = F!Removed
    PROVE  CacheInv' /\ LoadInv' /\ ShownInv'
  <1>1. LoadInv' /\ ~Filling'
    BY LoadOver
  <1>2. cache' = cache \/ cache'.stamp = <<>>
    BY DEF F!Removed, F!NoCache
  <1> QED
    BY <1>1, <1>2, CacheKept, NoStamp, ShownKept

LEMMA ImportSteps ==
    ASSUME HalfInv, JsonInv, CacheInv, LoadInv, ShownInv, Imports, UNCHANGED json
    PROVE  CacheInv' /\ LoadInv' /\ ShownInv'
  <1>0. IsLoad(load) /\ IsCache(cache) /\ json.mtime \in Nat /\ (load.pc \in {"finalize", "stamp"} => ~load.temp)
    BY DEF HalfInv, JsonInv
  <1>s. ShownInv'
    <2>1. UNCHANGED shown
      BY DEF Imports, F!CreateTarget, F!OpenFile, F!ReadLine, F!EndOfFile, F!FinalizeCache, F!StampCache
    <2> QED
      BY <2>1, ShownKept
  <1>1. CASE F!CreateTarget
    <2> DEFINE a == [load EXCEPT !.pc = "first"]
               made == [F!NoCache EXCEPT !.there = TRUE]
    <2>1. PICK writable \in BOOLEAN : cache' = (IF writable THEN made ELSE cache) /\ load' = [a EXCEPT !.temp = ~writable]
      BY <1>1 DEF F!CreateTarget
    <2>2. load.pc = "create"
      BY <1>1 DEF F!CreateTarget
    <2>3. /\ IsLoad(a) /\ a.pc = "first" /\ a.path = load.path /\ a.pos = load.pos /\ a.st = load.st /\ a.at = load.at
          /\ a.clean = load.clean
      BY <1>0 DEF IsLoad
    <2>4. made.stamp = <<>> /\ made.evs = <<>>
      BY DEF F!NoCache
    <2> HIDE DEF a, made
    <2>5. /\ load'.pc = "first" /\ load'.path = load.path /\ load'.pos = load.pos /\ load'.st = load.st /\ load'.at = load.at
          /\ load'.clean = load.clean /\ (load'.temp <=> ~writable)
      BY <2>1, <2>3 DEF IsLoad
    <2>6. LoadInv'
      BY <2>1, <2>2, <2>4, <2>5 DEF LoadInv, LoadAt, FromJson
    <2>7. CASE writable
      BY <1>s, <2>1, <2>4, <2>6, <2>7, NoStamp
    <2>8. CASE ~writable
      <3>1. ~Filling' /\ UNCHANGED cache
        BY <2>1, <2>5, <2>8 DEF Filling
      <3> QED
        BY <1>s, <2>6, <3>1, CacheKept
    <2> QED
      BY <2>7, <2>8
  <1>2. CASE F!OpenFile
    <2>1. load.pc = "first" /\ UNCHANGED shown
      BY <1>2 DEF F!OpenFile
    <2>2. CASE F!Ends("failed") /\ cache' = F!Removed
      BY <1>0, <2>1, <2>2, GivenUp
    <2>3. CASE F!Streaming(json) /\ F!Goto("line") /\ UNCHANGED cache
      <3>1. /\ load'.pc = "line" /\ load'.path = load.path /\ load'.pos = load.pos /\ load'.st = load.st /\ load'.at = load.at
            /\ load'.clean = load.clean /\ load'.temp = load.temp
        BY <1>0, <2>3 DEF F!Goto, IsLoad
      <3>2. json.lines # <<>>
        BY <2>3 DEF F!Streaming
      <3>3. CacheInv'
        <4>1. Filling' => Filling
          BY <2>1, <3>1 DEF Filling
        <4> QED
          BY <2>3, <4>1, CacheKept DEF CacheInv
      <3>4. ASSUME load.clean PROVE LoadAt'
        <4>1. /\ load.pos = 0 /\ load.st = F!Reading /\ load.path = "json" /\ load.at = json.run /\ json.mtime > 0
              /\ ~load.temp => cache.evs = <<>>
          BY <2>1, <3>4 DEF LoadInv, LoadAt, FromJson
        <4>2. Written(json.lines, json.run) /\ json.run \in Runs
          BY <4>1 DEF JsonInv, Written
        <4>3. LinesOf(json.run) \in Nat /\ LinesOf(json.run) >= 5 /\ Events[json.run] \in Nat
          BY <4>2, StreamLines
        <4>4. Len(json.lines) \in Nat
          BY <4>2, <4>3 DEF Written
        <4>5. ReadSoFar(F!Reading, json.run, 0) /\ F!Reading.evs = <<>>
          BY <4>3 DEF ReadSoFar, F!Reading, EventsIn, IsReading
        <4>6. Readable(json.lines, 0) = 0
          BY DEF Readable
        <4>7. load'.pos = 0 /\ load'.st = F!Reading /\ 0 \in 0 .. Len(json.lines)
          BY <3>1, <4>1, <4>4
        <4>8. json' = json /\ cache' = cache
          BY <2>3
        <4> QED
          BY <3>1, <3>2, <4>1, <4>5, <4>6, <4>7, <4>8 DEF LoadAt, FromJson
      <3>5. LoadInv'
        BY <3>1, <3>4 DEF LoadInv
      <3> QED
        BY <1>s, <3>3, <3>5
    <2> QED
      BY <1>2, <2>2, <2>3 DEF F!OpenFile
  <1>3. CASE F!ReadLine
    <2> DEFINE l == json.lines[load.pos + 1]
               t == F!StreamLine(load.st, l, json.run)
               a == [load EXCEPT !.pos = load.pos + 1]
               filled == [cache EXCEPT !.evs = t.evs]
    <2>1. load.pc = "line" /\ load.pos < Len(json.lines) /\ UNCHANGED shown
      BY <1>3 DEF F!ReadLine
    <2>2. CASE F!Ends("cancelled") /\ cache' = F!Removed
      BY <1>0, <2>1, <2>2, GivenUp
    <2>3. CASE load' = [a EXCEPT !.st = t] /\ cache' = IF load.temp THEN cache ELSE filled
      <3>1. /\ IsLoad(a) /\ a.pc = "line" /\ a.path = load.path /\ a.pos = load.pos + 1 /\ a.at = load.at /\ a.clean = load.clean
            /\ a.temp = load.temp
        BY <1>0, <2>1 DEF IsLoad
      <3>2. filled.evs = t.evs /\ filled.stamp = cache.stamp
        BY <1>0 DEF IsCache
      <3> HIDE DEF a, filled, t
      <3>3. /\ load'.pc = "line" /\ load'.path = load.path /\ load'.pos = load.pos + 1 /\ load'.st = t /\ load'.at = load.at
            /\ load'.clean = load.clean /\ load'.temp = load.temp
        BY <2>3, <3>1 DEF IsLoad
      <3>4. CacheInv'
        <4>1. CASE load.temp
          <5>1. ~Filling' /\ UNCHANGED cache
            BY <2>3, <3>3, <4>1 DEF Filling
          <5> QED
            BY <5>1, CacheKept
        <4>2. CASE ~load.temp
          <5>1. cache'.stamp = <<>>
            BY <2>1, <2>3, <3>2, <4>2 DEF CacheInv, Filling
          <5> QED
            BY <5>1, NoStamp
        <4> QED
          BY <4>1, <4>2
      <3>5. ASSUME load.clean PROVE LoadAt'
        <4>1. /\ json.lines # <<>> /\ load.pos \in 0 .. Len(json.lines) /\ load.path = "json" /\ load.at = json.run /\ json.mtime > 0
              /\ ReadSoFar(load.st, json.run, Readable(json.lines, load.pos))
          BY <2>1, <3>5 DEF LoadInv, LoadAt, FromJson
        <4>2. Written(json.lines, json.run) /\ json.run \in Runs
          BY <4>1 DEF JsonInv, Written
        <4>3. LinesOf(json.run) \in Nat
          BY <4>2, StreamLines
        <4>4. Len(json.lines) \in Nat
          BY <4>2, <4>3 DEF Written
        <4>5. load.pos \in 0 .. Len(json.lines) - 1 /\ load.pos + 1 \in 0 .. Len(json.lines)
          BY <2>1, <4>1, <4>4
        <4>6. ReadSoFar(t, json.run, Readable(json.lines, load.pos + 1))
          BY <4>1, <4>2, <4>5, ReadsOn DEF t
        <4>7. ~load.temp => cache'.evs = t.evs
          BY <2>3, <3>2
        <4>8. json' = json
          OBVIOUS
        <4> QED
          BY <3>3, <4>1, <4>5, <4>6, <4>7, <4>8 DEF LoadAt, FromJson
      <3>6. LoadInv'
        BY <3>3, <3>5 DEF LoadInv
      <3> QED
        BY <1>s, <3>4, <3>6
    <2> QED
      BY <1>0, <1>3, <2>2, <2>3 DEF F!ReadLine
  <1>4. CASE F!EndOfFile
    <2> DEFINE tr == [evs |-> load.st.evs, issues |-> F!Issues(load.st)]
               a == [load EXCEPT !.pc = IF load.temp THEN "opened" ELSE "finalize"]
               b == [a EXCEPT !.pos = 0]
               c == [b EXCEPT !.st = F!Reading]
    <2>1. load.pc = "line" /\ load.pos >= Len(json.lines) /\ load' = [c EXCEPT !.trace = tr] /\ UNCHANGED cache
      BY <1>4 DEF F!EndOfFile, F!fileVars
    <2>t. tr.evs = load.st.evs /\ tr.issues = F!Issues(load.st)
      OBVIOUS
    <2>2. /\ IsLoad(a) /\ a.pc = (IF load.temp THEN "opened" ELSE "finalize") /\ a.path = load.path /\ a.at = load.at
          /\ a.clean = load.clean /\ a.temp = load.temp
      BY <1>0 DEF IsLoad
    <2> HIDE DEF a, tr
    <2>3. IsLoad(b) /\ b.pc = a.pc /\ b.path = a.path /\ b.at = a.at /\ b.clean = a.clean /\ b.temp = a.temp
      BY <2>2 DEF IsLoad
    <2> HIDE DEF b
    <2>4. IsLoad(c) /\ c.pc = b.pc /\ c.path = b.path /\ c.at = b.at /\ c.clean = b.clean /\ c.temp = b.temp
      BY <2>3 DEF IsLoad
    <2> HIDE DEF c
    <2>5. /\ load'.pc = c.pc /\ load'.path = c.path /\ load'.at = c.at /\ load'.clean = c.clean /\ load'.temp = c.temp
          /\ load'.trace = tr
      BY <2>1, <2>4 DEF IsLoad
    <2>6. /\ load'.pc = (IF load.temp THEN "opened" ELSE "finalize") /\ load'.path = load.path /\ load'.at = load.at
          /\ load'.clean = load.clean /\ load'.temp = load.temp
      BY <2>2, <2>3, <2>4, <2>5
    <2>7. CacheInv'
      <3>1. Filling' => Filling
        BY <2>1, <2>6 DEF Filling
      <3> QED
        BY <2>1, <3>1, CacheKept DEF CacheInv
    <2>8. ASSUME load.clean PROVE LoadAt'
      <3>1. /\ load.pos \in 0 .. Len(json.lines) /\ load.path = "json" /\ load.at = json.run /\ json.mtime > 0
            /\ ReadSoFar(load.st, json.run, Readable(json.lines, load.pos))
            /\ ~load.temp => cache.evs = load.st.evs
        BY <2>1, <2>8 DEF LoadInv, LoadAt, FromJson
      <3>2. Written(json.lines, json.run) /\ json.run \in Runs
        BY <3>1 DEF JsonInv, Written
      <3>3. LinesOf(json.run) \in Nat
        BY <3>2, StreamLines
      <3>4. load.pos = Len(json.lines)
        BY <2>1, <3>1, <3>2, <3>3 DEF Written
      <3>5. Exact(tr)
        BY <2>t, <3>1, <3>4, ReadExact
      <3>6. Exact(load.trace)' /\ cache'.evs = cache.evs
        BY <2>1, <2>5, <3>5 DEF Exact
      <3>7. ~load.temp => cache'.evs = load'.trace.evs
        BY <2>t, <2>5, <3>1, <3>6
      <3>8. json' = json
        OBVIOUS
      <3> QED
        BY <2>6, <3>1, <3>6, <3>7, <3>8 DEF LoadAt, FromJson, Shows
    <2>9. LoadInv'
      BY <2>1, <2>6, <2>8 DEF LoadInv
    <2> QED
      BY <1>s, <2>7, <2>9
  <1>5. CASE F!FinalizeCache
    <2> DEFINE a == [cache EXCEPT !.issues = load.trace.issues]
    <2>1. load.pc = "finalize" /\ cache' = [a EXCEPT !.clean = load.clean] /\ load' = [load EXCEPT !.pc = "stamp"]
      BY <1>5 DEF F!FinalizeCache, F!Goto
    <2>2. IsCache(a) /\ a.issues = load.trace.issues /\ a.evs = cache.evs /\ a.stamp = cache.stamp
      BY <1>0 DEF IsCache
    <2> HIDE DEF a
    <2>3. cache'.issues = load.trace.issues /\ cache'.evs = cache.evs /\ cache'.stamp = cache.stamp
      BY <2>1, <2>2 DEF IsCache
    <2>4. /\ load'.pc = "stamp" /\ load'.path = load.path /\ load'.at = load.at /\ load'.clean = load.clean
          /\ load'.trace = load.trace
      BY <1>0, <2>1 DEF IsLoad
    <2>5. cache.stamp = <<>>
      BY <1>0, <2>1 DEF CacheInv, Filling
    <2>6. LoadInv'
      BY <2>1, <2>3, <2>4 DEF LoadInv, LoadAt, FromJson, Exact
    <2> QED
      BY <1>s, <2>3, <2>5, <2>6, NoStamp
  <1>6. CASE F!StampCache
    <2> DEFINE a == [cache EXCEPT !.stamp = F!FileStamp(json)]
    <2>1. load.pc = "stamp" /\ cache' = [a EXCEPT !.clean = load.clean] /\ load' = [load EXCEPT !.pc = "opened"]
      BY <1>6 DEF F!StampCache, F!Goto
    <2>2. IsCache(a) /\ a.issues = cache.issues /\ a.evs = cache.evs /\ a.stamp = F!FileStamp(json)
      BY <1>0 DEF IsCache
    <2> HIDE DEF a
    <2>3. cache'.issues = cache.issues /\ cache'.evs = cache.evs /\ cache'.stamp = F!FileStamp(json) /\ cache'.clean = load.clean
      BY <2>1, <2>2 DEF IsCache
    <2>4. /\ load'.pc = "opened" /\ load'.path = load.path /\ load'.at = load.at /\ load'.clean = load.clean
          /\ load'.trace = load.trace
      BY <1>0, <2>1 DEF IsLoad
    <2>5. ~Filling'
      BY <2>4 DEF Filling
    <2>6. load.clean => /\ Exact(load.trace) /\ cache.evs = load.trace.evs /\ cache.issues = load.trace.issues
                        /\ load.path = "json" /\ load.at = json.run
      BY <2>1 DEF LoadInv, LoadAt, FromJson
    <2>7. cache'.stamp[2] = json.mtime /\ json' = json
      BY <2>3 DEF F!FileStamp
    <2>8. Before(cache.stamp)'
      BY <1>0, <2>7 DEF Before
    <2>9. cache'.clean => Exact(cache)'
      BY <2>3, <2>6, <2>7 DEF Exact
    <2>10. CacheInv'
      BY <2>5, <2>8, <2>9 DEF CacheInv
    <2>11. LoadInv'
      BY <2>4, <2>6, <2>7 DEF LoadInv, LoadAt, FromJson, Shows, Exact
    <2> QED
      BY <1>s, <2>10, <2>11
  <1> QED
    BY <1>1, <1>2, <1>3, <1>4, <1>5, <1>6 DEF Imports

\* A step of the viewer that does not rewrite the file.
LEMMA LoadStep ==
    ASSUME HalfInv, JsonInv, CacheInv, LoadInv, ShownInv, F!Viewing \/ F!NoteExport, UNCHANGED json
    PROVE  CacheInv' /\ LoadInv' /\ ShownInv'
  <1>0. IsLoad(load)
    BY DEF HalfInv
  <1>1. CASE F!NoteExport \/ Opens
    BY <1>1, OpenStep
  <1>2. CASE Imports
    BY <1>2, ImportSteps
  <1>3. ASSUME load' = F!Idle, UNCHANGED cache PROVE CacheInv' /\ LoadInv'
    <2>1. load'.pc = "idle"
      BY <1>3 DEF F!Idle
    <2>2. ~Filling' /\ LoadInv'
      BY <2>1 DEF Filling, LoadInv
    <2> QED
      BY <1>3, <2>2, CacheKept
  <1>4. CASE F!OpenSecond
    <2>1. load.pc = "opened" /\ UNCHANGED <<cache, shown>>
      BY <1>4 DEF F!OpenSecond, F!fileVars
    <2>2. \/ \E x \in {"cancelled", "failed"} : F!Ends(x)
          \/ load' = [load EXCEPT !.pc = "both"]
      BY <1>4 DEF F!OpenSecond, F!Goto
    <2>3. LoadInv' /\ ~Filling'
      BY <1>0, <2>1, <2>2, LoadOver, LoadGoes
    <2> QED
      BY <2>1, <2>3, CacheKept, ShownKept
  <1>5. CASE F!Finish
    <2>1. load.pc = "computed" /\ UNCHANGED <<cache, shown>> /\ (F!Ends("cancelled") \/ F!Ends("finished"))
      BY <1>5 DEF F!Finish, F!fileVars
    <2>2. CASE F!Ends("finished")
      <3> DEFINE a == [load EXCEPT !.pc = "emitted"]
      <3>1. load' = [a EXCEPT !.out = "finished"]
        BY <2>2 DEF F!Ends
      <3>2. IsLoad(a) /\ a.pc = "emitted" /\ a.path = load.path /\ a.at = load.at /\ a.clean = load.clean /\ a.trace = load.trace
        BY <1>0 DEF IsLoad
      <3> HIDE DEF a
      <3>3. load'.pc = "emitted" /\ load'.path = load.path /\ load'.at = load.at /\ load'.clean = load.clean /\ load'.trace = load.trace
        BY <3>1, <3>2 DEF IsLoad
      <3>4. ~Filling'
        BY <3>3 DEF Filling
      <3>5. LoadInv'
        BY <2>1, <3>3 DEF LoadInv, LoadAt, FromJson, Shows, Exact
      <3> QED
        BY <2>1, <3>4, <3>5, CacheKept, ShownKept
    <2>3. CASE F!Ends("cancelled")
      BY <1>0, <2>1, <2>3, LoadOver, CacheKept, ShownKept
    <2> QED
      BY <2>1, <2>2, <2>3
  <1>6. CASE F!Deliver
    <2>1. load.pc = "emitted" /\ load' = F!Idle /\ UNCHANGED cache
      BY <1>6 DEF F!Deliver, F!fileVars
    <2>2. /\ shown'.outcome = load.out /\ shown'.trace = load.trace /\ shown'.clean = load.clean /\ shown'.run = load.at
          /\ shown'.path = load.path
      BY <1>6 DEF F!Deliver
    <2>3. load.out = "finished" /\ load.clean => Shows(load.path, load.trace, load.at)
      BY <2>1 DEF LoadInv, LoadAt
    <2>4. ShownInv'
      BY <2>2, <2>3 DEF ShownInv, Shows, Exact
    <2> QED
      BY <1>3, <2>1, <2>4
  <1>7. CASE F!Cancel
    <2>1. UNCHANGED <<load, cache, shown>>
      BY <1>7 DEF F!Cancel, F!fileVars
    <2>2. Filling' <=> Filling
      BY <2>1 DEF Filling
    <2>3. LoadInv'
      BY <2>1 DEF LoadInv, LoadAt, Shows, Exact
    <2> QED
      BY <2>1, <2>2, <2>3, CacheKept, ShownKept DEF CacheInv
  <1>8. CASE F!ViewerKilled
    <2>1. load' = F!Idle /\ UNCHANGED <<cache, shown>>
      BY <1>8 DEF F!ViewerKilled, F!fileVars
    <2> QED
      BY <1>3, <2>1, ShownKept
  <1> QED
    BY <1>1, <1>2, <1>4, <1>5, <1>6, <1>7, <1>8 DEF Opens, Imports, F!Viewing, F!Worker

\* Every step of the viewer is a step of each part, or leaves it alone.
LEMMA PartSteps ==
    [Step]_viewer => /\ F!Next \/ UNCHANGED fileVars
                     /\ W!Next \/ UNCHANGED winVars
                     /\ O!Next \/ UNCHANGED workVars
  BY DEF Step, FilesStep, WindowsStep, OverlaysStep, viewer

\* Reports of alternative worlds are what they say (evaluate_alternatives,
\* apply_alternatives): stopped early only if the user stopped that
\* evaluation, complete otherwise, no world begun after a stop, and a
\* selected edge keeps its meaning when edges are renumbered.
THEOREM ReportsHonest == ViewerSpec => []WorldsHonest
  <1>1. Start => WorkInv
    BY WorkInit DEF Start
  <1>2. WorkInv /\ [Step]_viewer => WorkInv'
    BY WorkStep, PartSteps
  <1>3. WorkInv => WorldsHonest
    BY DEF WorkInv, FlagIsAsked, HonestReport, SameEdge, WorldsHonest, O!WorldsHonest
  <1> QED
    BY <1>1, <1>2, <1>3, PTL DEF ViewerSpec

\* A window closes for another one only after that one came up, and a
\* profile opened again shows the view it was left with (ProfileOpenWatcher,
\* AppSettings), for any number of windows, profiles and kept profiles.
THEOREM SessionsAlwaysKept == ViewerSpec => []SessionsKept
  <1>1. Start => WinInv
    <2>1. ~W!NoWin.announced
      BY DEF W!NoWin
    <2>2. W!Init => HandInv
      BY <2>1 DEF W!Init, HandInv
    <2> QED
      BY <2>2, WinInit DEF Start, WinInv
  <1>2. WinInv /\ [Step]_viewer => WinInv'
    BY WinStep, PartSteps
  <1>3. WinInv => SessionsKept
    BY DEF WinInv, ViewInv, ShownAt, Known, HandInv, SessionsKept, W!HandOver, W!ViewComesBack, W!Up, W!Unknown
  <1> QED
    BY <1>1, <1>2, <1>3, PTL DEF ViewerSpec

\* A load that was cancelled or failed leaves no import behind without its
\* stamp (_import_json removes its target, the stamp is written last).
THEOREM NoImportHalfDone == ViewerSpec => []F!NoHalfImport
  <1>1. Start => HalfInv
    <2>1. IsLoad(F!Idle) /\ F!Idle.pc = "idle"
      BY DEF F!Idle, IsLoad
    <2>2. IsCache(F!NoCache) /\ ~F!NoCache.there
      BY DEF F!NoCache, IsCache
    <2> QED
      BY <2>1, <2>2 DEF Start, F!Init, HalfInv
  <1>2. HalfInv /\ [Step]_viewer => HalfInv'
    <2> SUFFICES ASSUME HalfInv, [Step]_viewer PROVE HalfInv'
      OBVIOUS
    <2>1. CASE F!Next
      BY <2>1, FileSteps, HalfStep
    <2>2. CASE UNCHANGED fileVars
      BY <2>2 DEF fileVars, HalfInv, IsLoad, IsCache, Filling
    <2> QED
      BY <2>1, <2>2, PartSteps
  <1>3. HalfInv => F!NoHalfImport
    BY DEF HalfInv, Filling, F!NoHalfImport
  <1> QED
    BY <1>1, <1>2, <1>3, PTL DEF ViewerSpec

\* Every step of the files' part keeps what the loads rest on ...
LEMMA ImportStep == ImportInv /\ [Step]_viewer => ImportInv'
  <1> SUFFICES ASSUME ImportInv, [Step]_viewer PROVE ImportInv'
    OBVIOUS
  <1>1. CASE F!Next
    <2>1. HalfInv'
      BY <1>1, FileSteps, HalfStep DEF ImportInv
    <2>2. JsonInv' /\ (((F!Viewing \/ F!NoteExport) /\ UNCHANGED json) \/ Rewritten)
      BY <1>1, JsonStep DEF ImportInv
    <2>3. CacheInv' /\ LoadInv' /\ ShownInv'
      BY <2>2, LoadStep, RewriteStep DEF ImportInv
    <2> QED
      BY <2>1, <2>2, <2>3 DEF ImportInv
  <1>2. CASE UNCHANGED fileVars
    <2>1. UNCHANGED <<json, sib, cache, writer, left, load, shown, killed>>
      BY <1>2 DEF fileVars
    <2>2. HalfInv'
      BY <2>1 DEF ImportInv, HalfInv, IsLoad, IsCache, Filling
    <2>3. JsonInv'
      BY <2>1 DEF ImportInv, JsonInv, Written, Before
    <2>4. (Filling' <=> Filling) /\ LoadInv'
      BY <2>1 DEF ImportInv, LoadInv, LoadAt, Filling, Shows, Exact
    <2>5. CacheInv' /\ ShownInv'
      BY <2>1, <2>4, CacheKept, ShownKept DEF ImportInv, CacheInv
    <2> QED
      BY <2>2, <2>3, <2>4, <2>5 DEF ImportInv
  <1> QED
    BY <1>1, <1>2, PartSteps

LEMMA ImportInit == Start => ImportInv
  <1> SUFFICES ASSUME Start PROVE ImportInv
    OBVIOUS
  <1>1. IsLoad(load) /\ load.pc = "idle"
    BY DEF Start, F!Init, F!Idle, IsLoad
  <1>2. IsCache(cache) /\ ~cache.there /\ cache.stamp = <<>>
    BY DEF Start, F!Init, F!NoCache, IsCache
  <1>3. shown.outcome = "none"
    BY DEF Start, F!Init, F!NoneShown
  <1>4. /\ json.mtime = 0 /\ IsJson(json) /\ writer.run = 0 /\ IsWriter(writer) /\ sib.stamp = <<>> /\ IsStore(sib)
        /\ left = Runs
    BY DEF Start, F!Init, F!NoWriter, F!NoStore, IsJson, IsWriter, IsStore
  <1>5. HalfInv /\ JsonInv
    BY <1>1, <1>2, <1>4 DEF HalfInv, JsonInv
  <1>6. CacheInv /\ LoadInv /\ ShownInv
    BY <1>1, <1>2, <1>3 DEF CacheInv, LoadInv, ShownInv, Filling
  <1> QED
    BY <1>5, <1>6 DEF ImportInv

\* A load that finished while nobody rewrote the JSON shows the events that
\* are in the file, all of one run, and says so exactly when the file was
\* cut; a half import or the store of an earlier run never stands in for it
\* (_matching_store, _load_streaming, _import_json), whatever the runs, the
\* sizes of their exports and the kills.
THEOREM ImportsAlwaysHonest == ViewerSpec => []ImportsHonest
  <1>1. ImportInv => ImportsHonest
    <2> SUFFICES ASSUME ImportInv PROVE F!LoadHonest /\ F!NoHalfImport
      BY DEF ImportsHonest
    <2>1. F!NoHalfImport
      BY DEF ImportInv, HalfInv, Filling, F!NoHalfImport
    <2>2. F!LoadHonest
      BY DEF ImportInv, ShownInv, Shows, Exact, F!LoadHonest
    <2> QED
      BY <2>1, <2>2
  <1> QED
    BY <1>1, ImportInit, ImportStep, PTL DEF ViewerSpec
=============================================================================
