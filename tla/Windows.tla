------------------------------ MODULE Windows ------------------------------
(***************************************************************************)
(* The GUI's processes and what they share: the command line's tiers       *)
(* (src/gui/launch.py), a window that opens another profile in a new       *)
(* process and gives way to it (AppController and ProfileOpenWatcher in    *)
(* src/gui/controller.py, main in src/gui/app.py), and the settings file   *)
(* all of them read and write (src/gui/settings.py).  Each process works   *)
(* on the copy its QSettings read; a sync merges what the process changed  *)
(* into the file and refreshes the copy.                                   *)
(***************************************************************************)
EXTENDS Integers, FiniteSets, FiniteSetsExt

CONSTANTS Profiles,     \* trace paths
          Bad,          \* the ones that are not trace files
          Views,        \* presentation states a user can set up
          MaxWins,      \* bound on GUI processes
          MaxProfiles,  \* MAX_PROFILES of settings.py
          MaxChanges    \* bound on what users do

VARIABLES win,          \* [1 .. MaxWins -> a GUI process]
          markers,      \* processes whose ready marker exists
          saved,        \* the file's profiles/<key>: profile -> state and lastOpenedIso
          known,        \* a process's copy of them: profile -> lastOpenedIso
          schema,       \* meta/schemaVersion is this build's
          cli,          \* the launching command: "gpu", "software", "tui", "done"
          changes,
          last,         \* history: the last view of a profile, while that is defined
          overtaken,    \* history: processes whose copy lacks a view saved while they loaded
          gaveWay       \* history: <<window, child>> of windows closed for a child
vars == <<win, markers, saved, known, schema, cli, changes, last, overtaken, gaveWay>>
storeVars == <<saved, known, schema, overtaken>>

Wins == 1 .. MaxWins
Default == "default"
Unknown == "unknown"
\* state: "none", "starting" until the settings are read, "loading", "up",
\* "exited", "failed"; view: what the copy has while loading, then what is
\* shown; watch: the child a watcher looks at.
NoWin == [state |-> "none", path |-> "", view |-> Default, timer |-> FALSE, watch |-> 0, tier |-> "", announced |-> FALSE]
New(p, tier) == [NoWin EXCEPT !.state = "starting", !.path = p, !.tier = tier]

Init ==
    /\ win = [w \in Wins |-> NoWin]
    /\ markers = {} /\ cli = "start" /\ changes = 0
    /\ \/ schema = TRUE /\ saved = <<>>
       \/ schema = FALSE /\ \E v \in Views : saved = [p \in Profiles |-> [view |-> v, at |-> 1]]
    /\ known = [w \in Wins |-> <<>>]
    /\ last = [p \in Profiles |-> Default] /\ overtaken = {} /\ gaveWay = {}

Free == {w \in Wins : win[w].state = "none"}
Next1 == CHOOSE w \in Free : TRUE
Up(w) == win[w].state = "up"
Gone(w) == win[w].state \in {"exited", "failed"}

(***************************************************************************)
(* The settings file.                                                      *)
(***************************************************************************)
\* Processes of a profile that hold its settings.
Users(p) == {w \in Wins : win[w].state \in {"loading", "up"} /\ win[w].path = p}
Rivals(w) == Users(win[w].path) \ {w}
Drop(f, S) == [k \in DOMAIN f \ S |-> f[k]]
DatesIn(f) == [q \in DOMAIN f |-> f[q].at]

\* _now_iso: later than all the dates it is compared with.
Now(w) == 1 + Max({0} \cup {saved[q].at : q \in DOMAIN saved} \cup {known[w][q] : q \in DOMAIN known[w]})
\* _evict_old_profiles: of the copy with the profile just dated, the ones
\* with MAX_PROFILES newer ones.
EvictOldProfiles(w, p) ==
    LET newer(q) == {p} \cup {r \in DOMAIN known[w] : known[w][r] > known[w][q]}
    IN {q \in DOMAIN known[w] \ {p} : Cardinality(newer(q)) >= MaxProfiles}

\* sync: what this process put in and took out, over what the file has now.
\* A process that ends takes its copy with it.
Sync(w, file) ==
    /\ saved' = file
    /\ known' = [known EXCEPT ![w] = IF win'[w].state \in {"loading", "up"} THEN DatesIn(file) ELSE <<>>]
Unread(w) == known' = [known EXCEPT ![w] = <<>>] /\ UNCHANGED <<saved, schema, overtaken>>

SaveProfileState(w) ==
    LET p == win[w].path
        kept == DOMAIN saved \ EvictOldProfiles(w, p)
    IN /\ Sync(w, [q \in kept \cup {p} |-> IF q = p THEN [view |-> win[w].view, at |-> Now(w)] ELSE saved[q]])
       /\ overtaken' = overtaken \cup {v \in Rivals(w) : win[v].state = "loading"}
       /\ last' = [q \in Profiles |-> IF q \in kept \cup {p} \/ Users(q) # {} THEN last[q] ELSE Default]

LoadProfileState(p) == IF p \in DOMAIN saved THEN saved[p].view ELSE Default

(***************************************************************************)
(* Starting.                                                               *)
(***************************************************************************)
\* check_x11: a display whose socket answers, and whose handshake succeeds
\* where xdpyinfo is there to make it.
X11(e) == e.display /\ (e.unix \/ e.tcp) /\ (e.xdpyinfo => e.handshake)
Env == [display : BOOLEAN, unix : BOOLEAN, tcp : BOOLEAN, xdpyinfo : BOOLEAN, handshake : BOOLEAN]

Launch(p) ==
    /\ cli = "start" /\ Free # {}
    /\ \/ /\ \E e \in Env : X11(e)
          /\ cli' = "gpu"
          /\ win' = [win EXCEPT ![Next1] = New(p, "gpu")]
       \/ /\ \E e \in Env : ~X11(e)
          /\ cli' = "tui" /\ UNCHANGED win
    /\ UNCHANGED <<markers, storeVars, changes, last, gaveWay>>

\* _run_gui_tiers: a non-zero exit is tried again without the GPU, then
\* the caller falls back to the terminal.
TierEnds(w) ==
    /\ cli = win[w].tier /\ Gone(w)
    /\ \/ win[w].state = "exited" /\ cli' = "done" /\ UNCHANGED win
       \/ /\ win[w].state = "failed" /\ cli = "gpu" /\ Free # {}
          /\ cli' = "software" /\ win' = [win EXCEPT ![Next1] = New(win[w].path, "software")]
       \/ win[w].state = "failed" /\ cli = "software" /\ cli' = "tui" /\ UNCHANGED win
    /\ UNCHANGED <<markers, storeVars, changes, last, gaveWay>>

\* main: the settings are read, before the trace is loaded; another version's
\* file is not trusted (_check_schema_version).
Opened(w, view) == [win[w] EXCEPT !.state = "loading", !.view = view]
ReadSettings(w) ==
    /\ win[w].state = "starting" /\ schema
    /\ win' = [win EXCEPT ![w] = Opened(w, LoadProfileState(win[w].path))]
    /\ Sync(w, saved)
    /\ UNCHANGED <<markers, schema, cli, changes, last, overtaken, gaveWay>>
CheckSchemaVersion(w) ==
    /\ win[w].state = "starting" /\ ~schema
    /\ schema' = TRUE
    /\ win' = [win EXCEPT ![w] = Opened(w, Default)]
    /\ Sync(w, <<>>)
    /\ UNCHANGED <<markers, cli, changes, last, overtaken, gaveWay>>

\* The view is restored from the copy, without starting the save timer.  Two
\* windows of a profile make "its last view" ambiguous, and so does one that
\* shows what it read before the last save (history).
ShowWindow(w) ==
    /\ win[w].state = "loading"
    /\ win' = [win EXCEPT ![w].state = "up"]
    /\ last' = IF Rivals(w) = {} /\ w \notin overtaken THEN last ELSE [last EXCEPT ![win[w].path] = Unknown]
    /\ UNCHANGED <<markers, storeVars, cli, changes, gaveWay>>
\* The trace, or the display, is not to be had.
LoadFails(w) ==
    /\ win[w].state \in {"starting", "loading"}
    /\ win' = [win EXCEPT ![w].state = "failed"]
    /\ last' = IF win[w].path \in DOMAIN saved \/ win[w].state = "starting" THEN last
               ELSE [last EXCEPT ![win[w].path] = Unknown]
    /\ Unread(w) /\ UNCHANGED <<markers, cli, changes, gaveWay>>

\* After the window is up the marker is touched; that may fail silently.
TouchMarker(w) ==
    /\ Up(w) /\ ~win[w].announced
    /\ win' = [win EXCEPT ![w].announced = TRUE]
    /\ \/ win[w].tier = "child" /\ markers' = markers \cup {w}
       \/ UNCHANGED markers
    /\ UNCHANGED <<storeVars, cli, changes, last, gaveWay>>

(***************************************************************************)
(* Open Profile.                                                           *)
(***************************************************************************)
\* mkstemp makes the name, unlink takes it away again: its creation is the signal.
MarkerName(m, c) == m \ {c}

OpenProfile(w, p) ==
    /\ Up(w) /\ changes < MaxChanges
    /\ changes' = changes + 1
    /\ IF p \in Bad                      \* validate_profile_path
       THEN UNCHANGED <<win, markers>>
       ELSE /\ Free # {}
            /\ win' = [win EXCEPT ![Next1] = New(p, "child"), ![w].watch = Next1]
            /\ markers' = MarkerName(markers, Next1)
    /\ UNCHANGED <<storeVars, cli, last, gaveWay>>

\* aboutToQuit saves the view.
LeavesUnsaved(w) == UNCHANGED <<saved, known, last, overtaken>>
Leaves(w) == SaveProfileState(w)

\* _poll: the marker, then the child's exit, then the deadline.
Ready(w) ==
    LET c == win[w].watch
    IN /\ Up(w) /\ c # 0 /\ c \in markers
       /\ markers' = markers \ {c}
       /\ win' = [win EXCEPT ![w].watch = 0, ![w].state = "exited", ![w].timer = FALSE]
       /\ gaveWay' = gaveWay \cup {<<w, c>>}
       /\ Leaves(w)
       /\ UNCHANGED <<schema, cli, changes>>
ChildExited(w) ==
    LET c == win[w].watch
    IN /\ Up(w) /\ c # 0 /\ c \notin markers /\ Gone(c)
       /\ win' = [win EXCEPT ![w].watch = 0]
       /\ UNCHANGED <<markers, storeVars, cli, changes, last, gaveWay>>
NoDeadline(w) == FALSE /\ UNCHANGED vars
\* The child is not killed; a marker that comes later stays behind.
DeadlinePassed(w) ==
    LET c == win[w].watch
    IN /\ Up(w) /\ c # 0 /\ c \notin markers /\ ~Gone(c)
       /\ win' = [win EXCEPT ![w].watch = 0]
       /\ UNCHANGED <<markers, storeVars, cli, changes, last, gaveWay>>
Poll(w) == Ready(w) \/ ChildExited(w) \/ DeadlinePassed(w)

(***************************************************************************)
(* The user.                                                               *)
(***************************************************************************)
\* Any signal the persister listens to restarts its timer.
Change(w, v) ==
    /\ Up(w) /\ changes < MaxChanges /\ v # win[w].view
    /\ changes' = changes + 1
    /\ win' = [win EXCEPT ![w].view = v, ![w].timer = TRUE]
    /\ last' = [last EXCEPT ![win[w].path] = IF @ # Unknown THEN v ELSE Unknown]
    /\ UNCHANGED <<markers, storeVars, cli, gaveWay>>

DebouncedSave(w) ==
    /\ Up(w) /\ win[w].timer
    /\ win' = [win EXCEPT ![w].timer = FALSE]
    /\ SaveProfileState(w)
    /\ UNCHANGED <<markers, schema, cli, changes, gaveWay>>

CloseWindow(w) ==
    /\ Up(w)
    /\ win' = [win EXCEPT ![w].state = "exited", ![w].timer = FALSE, ![w].watch = 0]
    /\ Leaves(w)
    /\ UNCHANGED <<markers, schema, cli, changes, gaveWay>>

\* A crash saves nothing: what the timer had not saved yet is lost.
Crash(w) ==
    /\ Up(w) /\ changes < MaxChanges /\ changes' = changes + 1
    /\ win' = [win EXCEPT ![w].state = "failed", ![w].watch = 0]
    /\ last' = IF win[w].timer \/ win[w].path \notin DOMAIN saved THEN [last EXCEPT ![win[w].path] = Unknown] ELSE last
    /\ Unread(w) /\ UNCHANGED <<markers, cli, gaveWay>>

\* reset_current_view and reset_all remove what the copy has saved, not what
\* is shown.
ResetCurrentView(w) ==
    /\ Up(w) /\ changes < MaxChanges /\ changes' = changes + 1
    /\ UNCHANGED win /\ Sync(w, Drop(saved, {win[w].path} \cap DOMAIN known[w]))
    /\ last' = [last EXCEPT ![win[w].path] = Unknown]
    /\ UNCHANGED <<markers, schema, cli, overtaken, gaveWay>>
ResetAll(w) ==
    /\ Up(w) /\ changes < MaxChanges /\ changes' = changes + 1
    /\ UNCHANGED win /\ Sync(w, Drop(saved, DOMAIN known[w]))
    /\ last' = [p \in Profiles |-> Unknown]
    /\ UNCHANGED <<markers, schema, cli, overtaken, gaveWay>>

\* Another theme, a help panel closed: the copy is read again when it is written.
SetPreference(w) ==
    /\ Up(w) /\ changes < MaxChanges /\ changes' = changes + 1
    /\ UNCHANGED win /\ Sync(w, saved)
    /\ UNCHANGED <<markers, schema, cli, last, overtaken, gaveWay>>

Process(w) == \/ ReadSettings(w) \/ CheckSchemaVersion(w) \/ ShowWindow(w) \/ LoadFails(w) \/ TouchMarker(w)
              \/ Poll(w) \/ DebouncedSave(w)
User(w) == \/ \E p \in Profiles \cup Bad : OpenProfile(w, p)
           \/ \E v \in Views : Change(w, v)
           \/ CloseWindow(w) \/ Crash(w) \/ ResetCurrentView(w) \/ ResetAll(w) \/ SetPreference(w)
Next == (\E p \in Profiles : Launch(p)) \/ \E w \in Wins : TierEnds(w) \/ Process(w) \/ User(w)

\* The watcher's timer runs as long as its window's event loop does.
Fairness == \A w \in Wins : WF_vars(Poll(w))
Spec == Init /\ [][Next]_vars /\ Fairness

(***************************************************************************)
(* Properties.                                                             *)
(***************************************************************************)
\* A window closes itself for another one only after that one came up: a
\* child that fails, or is slow, never leaves the user without a window
\* (ProfileOpenWatcher).
HandOver == \A g \in gaveWay : win[g[2]].announced

\* Until Open Profile is answered: the window closes, an error is shown, or
\* a newer request takes the place of this one.
Waiting == \E w \in Wins : win[w].watch # 0

\* A profile opened again shows the view it was left with, whatever other
\* profiles were opened and however the window was closed.  What can change
\* that: a crash before the save timer fired, two windows of one profile at
\* once, a view saved while the window that is to show it was already
\* loading (its settings are read first), a reset, an eviction.
ViewComesBack == \A w \in Wins : Up(w) /\ last[win[w].path] # Unknown => win[w].view = last[win[w].path]
=============================================================================
