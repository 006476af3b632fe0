------------------------------- MODULE Viewer -------------------------------
(***************************************************************************)
(* Three parts of the viewer side by side: the trace's files and the load  *)
(* thread, the windows and their settings file, and the Timeline's         *)
(* background work.  A behaviour exercises one of them, the others stay as *)
(* they are.                                                               *)
(***************************************************************************)
EXTENDS Integers, Sequences

CONSTANTS Events, WithDisasm, Runs, MaxLoads, InMemory,
          Profiles, Bad, Views, MaxWins, MaxProfiles, MaxChanges,
          Worlds, MaxJobs, MaxViews, HistoryLimit

\* An evaluation plans some number of worlds; MAX_PROFILES is positive; runs
\* are numbered from 1 and each exports some number of events.
ASSUME ViewerAssumption ==
    /\ Worlds \in Nat /\ MaxWins \in Nat /\ MaxProfiles \in Nat \ {0}
    /\ Runs \subseteq Nat \ {0} /\ \A g \in Runs : Events[g] \in Nat

VARIABLES part,
          json, sib, cache, writer, left, load, cancel, shown, loads, killed,
          win, markers, saved, known, schema, cli, changes, last, overtaken, gaveWay,
          analysis, anState, anThread, job, stop, altThread, queue, report, late, jobs, epoch, painted, edge, hist, pos

F == INSTANCE TraceFiles
W == INSTANCE Windows
O == INSTANCE Overlays
fileVars == <<json, sib, cache, writer, left, load, cancel, shown, loads, killed>>
winVars == <<win, markers, saved, known, schema, cli, changes, last, overtaken, gaveWay>>
workVars == <<analysis, anState, anThread, job, stop, altThread, queue, report, late, jobs, epoch, painted, edge, hist, pos>>
viewer == <<part, fileVars, winVars, workVars>>

Start == F!Init /\ W!Init /\ O!Init
FilesStep == part = "files" /\ F!Next /\ UNCHANGED <<part, winVars, workVars>>
WindowsStep == part = "windows" /\ W!Next /\ UNCHANGED <<part, fileVars, workVars>>
OverlaysStep == part = "overlays" /\ O!Next /\ UNCHANGED <<part, fileVars, winVars>>
Step == FilesStep \/ WindowsStep \/ OverlaysStep
ViewerSpec == Start /\ [][Step]_viewer
Fairness == F!Fairness /\ W!Fairness /\ O!Fairness

\* A finished load shows what is in the file, and no half import stays
\* behind (TraceFiles.LoadHonest, TraceFiles.NoHalfImport).
ImportsHonest == F!LoadHonest /\ F!NoHalfImport
\* A window gives way only to a window, and a profile opened again shows the
\* view it was left with (Windows.HandOver, Windows.ViewComesBack).
SessionsKept == W!HandOver /\ W!ViewComesBack
\* Reports of alternative worlds are what they say (Overlays.WorldsHonest).
WorldsHonest == O!WorldsHonest
\* Whatever the viewer starts comes to an end and is answered: a load, a
\* request to open a profile, an analysis, an evaluation of worlds.
Busy == F!Loading \/ W!Waiting \/ O!Working
ViewerSettles == Busy ~> ~Busy
=============================================================================
