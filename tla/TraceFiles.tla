---------------------------- MODULE TraceFiles -----------------------------
(***************************************************************************)
(* A trace's files and the programs that write and open them: the JSON     *)
(* export (src/output/chrome_trace.py), the store beside it, the import    *)
(* cache (src/core/trace_io.py) and the GUI's load thread                  *)
(* (src/gui/loader.py, LoadController in src/gui/controller.py).  The JSON *)
(* is written in place, line by line; a writer or a viewer may be killed   *)
(* at any point.                                                           *)
(***************************************************************************)
EXTENDS Integers, Sequences, SequencesExt, FiniteSets, TLC

CONSTANTS Events,       \* Events[g]: number of events of run g
          WithDisasm,   \* the runs whose export has a disasm line
          Runs,         \* the runs that write the JSON
          MaxLoads,     \* bound on loads
          InMemory      \* sizes up to json_memory_limit() load into memory

VARIABLES json,         \* [run, lines, mtime]
          sib,          \* x.hpstore: [run, stamp, clean]
          cache,        \* x.json.hpstore: [evs, issues, stamp, clean]
          writer,       \* [run, k]: the exporter and the lines it has written
          left,         \* runs that have not written yet
          load,         \* the load thread, see Idle
          cancel,       \* ProfileLoadWorker._cancel_requested
          shown,        \* what the main thread got: outcome and trace
          loads,
          killed        \* history: some viewer was killed in a load
fileVars == <<json, sib, cache>>
writeVars == <<writer, left>>
viewVars == <<load, cancel, shown, loads, killed>>
vars == <<fileVars, writeVars, viewVars>>

(***************************************************************************)
(* Lines.  whole: ends with a newline.  A cut event is "ev" when only its  *)
(* newline is missing and "bad" when its text does not decode.             *)
(***************************************************************************)
None == [run |-> 0]
Line(k) == [k |-> k, whole |-> TRUE]
WriteStream(g) ==
    <<Line("head"), Line("meta"), Line("open")>> \o [i \in 1 .. Events[g] |-> Line("ev")] \o <<Line("close")>>
    \o (IF g \in WithDisasm THEN <<Line("disasm")>> ELSE <<>>) \o <<Line("end")>>

\* What a kill leaves of the line being written: nothing, some of it, or
\* all but its newline.
Torn(l) == {<<>>, <<[k |-> l.k, whole |-> FALSE]>>}
           \cup (IF l.k \in {"close", "end"} THEN {} ELSE {<<[k |-> "bad", whole |-> FALSE]>>})

FileStamp(f) == <<Len(f.lines), f.mtime>>
Fresh(g) == [run |-> g, lines |-> <<>>, mtime |-> json.mtime + 1]

(***************************************************************************)
(* _load_streaming: one line.                                              *)
(***************************************************************************)
Reading == [in_events |-> FALSE, closed |-> FALSE, ended |-> FALSE, evs |-> <<>>, bad |-> 0,
            meta |-> FALSE, disasm |-> FALSE]
StreamLine(st, l, g) ==
    LET s == IF l.whole THEN st ELSE [st EXCEPT !.ended = (l.k = "end")]
    IN IF s.in_events
       THEN CASE l.k = "close" -> [s EXCEPT !.in_events = FALSE, !.closed = TRUE]
              [] l.k = "ev" -> [s EXCEPT !.evs = Append(@, g)]
              [] OTHER -> [s EXCEPT !.bad = @ + 1]
       ELSE CASE l.k = "open" -> [s EXCEPT !.in_events = TRUE]
              [] l.k = "meta" -> [s EXCEPT !.meta = TRUE]
              [] l.k = "disasm" -> [s EXCEPT !.disasm = TRUE]
              [] l.k = "end" -> [s EXCEPT !.ended = TRUE]
              [] OTHER -> s

\* A file that ends early is reported; the cut line is not counted twice.
Cut(st) == ~st.closed \/ ~st.ended
Issues(st) ==
    LET bad == IF Cut(st) /\ st.bad > 0 THEN st.bad - 1 ELSE st.bad
    IN [truncated |-> Cut(st), metadata_missing |-> Cut(st) /\ ~st.meta, bad_lines |-> bad]
NoIssues == [truncated |-> FALSE, metadata_missing |-> FALSE, bad_lines |-> 0]

\* A first line that is not the layout line sends the file to json.load.
Streaming(f) == f.lines # <<>> /\ f.lines[1].k = "head"

(***************************************************************************)
(* The writer.                                                             *)
(***************************************************************************)
NoWriter == [run |-> 0, k |-> 0]
NoCache == [evs |-> <<>>, issues |-> NoIssues, stamp |-> <<>>, clean |-> TRUE, there |-> FALSE]
NoStore == [run |-> 0, stamp |-> <<>>, clean |-> TRUE]
NoTrace == [evs |-> <<>>, issues |-> NoIssues]
Idle == [pc |-> "idle", path |-> "json", pos |-> 0, st |-> Reading, at |-> 0, clean |-> TRUE, temp |-> FALSE,
         trace |-> NoTrace, out |-> ""]
NoneShown == [outcome |-> "none", trace |-> NoTrace, clean |-> TRUE, run |-> 0, path |-> "json"]

Init ==
    /\ json = [run |-> 0, lines |-> <<>>, mtime |-> 0] /\ sib = NoStore /\ cache = NoCache
    /\ writer = NoWriter /\ left = Runs
    /\ load = Idle /\ cancel = FALSE /\ loads = 0 /\ killed = FALSE
    /\ shown = NoneShown

\* A rewrite marks the load and the import that overlap it, and what was
\* shown before is no longer about this file (history only).
Touched == /\ load' = IF load.pc = "idle" THEN load ELSE [load EXCEPT !.clean = FALSE]
           /\ shown' = IF shown.outcome = "none" THEN shown ELSE NoneShown

\* A run's own store is complete before its JSON is opened with mode "w".
StartExport(g) ==
    /\ writer = NoWriter /\ g \in left /\ \A h \in left : g <= h
    /\ left' = left \ {g} /\ writer' = [run |-> g, k |-> 0]
    /\ json' = Fresh(g)
    /\ sib' = [run |-> g, stamp |-> <<>>, clean |-> TRUE]
    /\ Touched /\ UNCHANGED <<cache, cancel, loads, killed>>

\* The file's buffer is flushed once in the middle and at the end.
WriteLines ==
    /\ writer.run # 0
    /\ \E k \in {4, Len(WriteStream(writer.run))} :
         /\ writer.k < k
         /\ writer' = [writer EXCEPT !.k = k]
         /\ json' = [json EXCEPT !.lines = SubSeq(WriteStream(writer.run), 1, k), !.mtime = @ + 1]
    /\ Touched /\ UNCHANGED <<sib, cache, left, cancel, loads, killed>>

\* write_json_export: the store notes the file it wrote.
NoteExport ==
    /\ writer.run # 0 /\ writer.k = Len(WriteStream(writer.run))
    /\ writer' = NoWriter
    /\ sib' = [sib EXCEPT !.stamp = FileStamp(json)]
    /\ UNCHANGED <<json, cache, left, viewVars>>

\* Killed: any prefix of what it was writing has reached the file.
WriterKilled ==
    /\ writer.run # 0 /\ writer.k < Len(WriteStream(writer.run))
    /\ writer' = NoWriter
    /\ \E k \in writer.k .. Len(WriteStream(writer.run)) - 1 : \E t \in Torn(WriteStream(writer.run)[k + 1]) :
         json' = [json EXCEPT !.lines = SubSeq(WriteStream(writer.run), 1, k) \o t, !.mtime = @ + 1]
    /\ Touched /\ UNCHANGED <<sib, cache, left, cancel, loads, killed>>

(***************************************************************************)
(* The load thread: ProfileLoadWorker.run and open_trace.                  *)
(***************************************************************************)
Goto(pc) == load' = [load EXCEPT !.pc = pc]
Ends(out) == load' = [load EXCEPT !.pc = "emitted", !.out = out]

Start(path) ==
    /\ load.pc = "idle" /\ loads < MaxLoads
    /\ loads' = loads + 1
    /\ load' = [Idle EXCEPT !.pc = "reading", !.path = path]
    /\ shown' = NoneShown
    /\ UNCHANGED <<fileVars, writeVars, cancel, killed>>

\* Between two stages the flag is looked at.
Checked(pc, next) ==
    /\ load.pc = pc
    /\ IF cancel THEN Ends("cancelled") ELSE Goto(next)
    /\ UNCHANGED <<fileVars, writeVars, cancel, shown, loads, killed>>

\* A store opens directly; JSON first looks for the store it came from.
OpenStore ==
    /\ load.pc = "open" /\ load.path = "store"
    /\ IF sib.run = 0 THEN Ends("failed")
       ELSE load' = [load EXCEPT !.pc = "opened", !.at = sib.run,
                                 !.trace = [evs |-> [i \in 1 .. Events[sib.run] |-> sib.run], issues |-> NoIssues]]
    /\ UNCHANGED <<fileVars, writeVars, cancel, shown, loads, killed>>

MatchingStore(s) == s.stamp # <<>> /\ s.stamp = FileStamp(json)
ProbeSibling ==
    /\ load.pc = "open" /\ load.path = "json"
    /\ IF json.mtime = 0 THEN Ends("failed")
       ELSE IF MatchingStore(sib)
       THEN load' = [load EXCEPT !.pc = "opened", !.at = json.run,
                                 !.trace = [evs |-> [i \in 1 .. Events[sib.run] |-> sib.run], issues |-> NoIssues]]
       ELSE load' = [load EXCEPT !.pc = IF Len(json.lines) <= InMemory THEN "first" ELSE "probe_cache",
                                 !.at = json.run, !.temp = Len(json.lines) <= InMemory]
    /\ UNCHANGED <<fileVars, writeVars, cancel, shown, loads, killed>>

ProbeCache ==
    /\ load.pc = "probe_cache"
    /\ IF cache.there /\ MatchingStore(cache)
       THEN load' = [load EXCEPT !.pc = "opened", !.clean = load.clean /\ cache.clean,
                                 !.trace = [evs |-> cache.evs, issues |-> cache.issues]]
       ELSE Goto("create")
    /\ UNCHANGED <<fileVars, writeVars, cancel, shown, loads, killed>>

StampFirst ==
    /\ load.pc = "create"
    /\ cache' = [NoCache EXCEPT !.there = TRUE, !.stamp = FileStamp(json)]
    /\ load' = [load EXCEPT !.pc = "first", !.temp = FALSE]
    /\ UNCHANGED <<json, sib, writeVars, cancel, shown, loads, killed>>

\* The old cache is removed; without write permission the target is a
\* temporary directory of this process.
CreateTarget ==
    /\ load.pc = "create"
    /\ \E writable \in BOOLEAN :
         /\ cache' = IF writable THEN [NoCache EXCEPT !.there = TRUE] ELSE cache
         /\ load' = [load EXCEPT !.pc = "first", !.temp = ~writable]
    /\ UNCHANGED <<json, sib, writeVars, cancel, shown, loads, killed>>

\* A raised exception removes the half-written target.
Removed == IF load.temp THEN cache ELSE NoCache

OpenFile ==
    /\ load.pc = "first"
    /\ IF Streaming(json) THEN Goto("line") /\ UNCHANGED cache ELSE Ends("failed") /\ cache' = Removed
    /\ UNCHANGED <<json, sib, writeVars, cancel, shown, loads, killed>>

\* One line; the flag is looked at before the first event (and every 5000).
ReadLine ==
    /\ load.pc = "line" /\ load.pos < Len(json.lines)
    /\ LET l == json.lines[load.pos + 1]
       IN IF cancel /\ load.st.in_events /\ l.k # "close" /\ load.st.evs = <<>>
          THEN Ends("cancelled") /\ cache' = Removed
          ELSE /\ load' = [load EXCEPT !.pos = @ + 1, !.st = StreamLine(@, l, json.run)]
               /\ cache' = IF load.temp THEN cache ELSE [cache EXCEPT !.evs = StreamLine(load.st, l, json.run).evs]
    /\ UNCHANGED <<json, sib, writeVars, cancel, shown, loads, killed>>

EndOfFile ==
    /\ load.pc = "line" /\ load.pos >= Len(json.lines)
    /\ load' = [load EXCEPT !.pc = IF load.temp THEN "opened" ELSE "finalize",
                            !.pos = 0, !.st = Reading, !.trace = [evs |-> load.st.evs, issues |-> Issues(load.st)]]
    /\ UNCHANGED <<fileVars, writeVars, cancel, shown, loads, killed>>

\* Events and metadata, with the reader's report, reach the cache ...
FinalizeCache ==
    /\ load.pc = "finalize"
    /\ cache' = [cache EXCEPT !.issues = load.trace.issues, !.clean = load.clean]
    /\ Goto("stamp")
    /\ UNCHANGED <<json, sib, writeVars, cancel, shown, loads, killed>>

\* ... and the stamp last.
StampCache ==
    /\ load.pc = "stamp"
    /\ cache' = [cache EXCEPT !.stamp = FileStamp(json), !.clean = load.clean]
    /\ Goto("opened")
    /\ UNCHANGED <<json, sib, writeVars, cancel, shown, loads, killed>>

\* The rest of the worker's run.  The second trace of a comparison is opened
\* in the same way, if there is one; here it succeeds, fails or is cancelled.
OpenSecond ==
    /\ load.pc = "opened"
    /\ \/ Ends(IF cancel THEN "cancelled" ELSE "failed")
       \/ ~cancel /\ Goto("both")
    /\ UNCHANGED <<fileVars, writeVars, cancel, shown, loads, killed>>

\* Dashboard, call tree, flame graph and comparison, each after a look at
\* the flag; a last look, then finished.
Compute == Checked("opened", "computed") \/ Checked("both", "computed")
Finish ==
    /\ load.pc = "computed"
    /\ Ends(IF cancel THEN "cancelled" ELSE "finished")
    /\ UNCHANGED <<fileVars, writeVars, cancel, shown, loads, killed>>

Worker == Checked("reading", "open") \/ OpenStore \/ ProbeSibling \/ ProbeCache \/ CreateTarget \/ OpenFile
          \/ ReadLine \/ EndOfFile \/ FinalizeCache \/ StampCache \/ OpenSecond \/ Compute \/ Finish

(***************************************************************************)
(* The main thread.                                                        *)
(***************************************************************************)
\* The queued signal: the thread is joined, then the outcome is passed on.
Deliver ==
    /\ load.pc = "emitted"
    /\ shown' = [outcome |-> load.out, trace |-> load.trace, clean |-> load.clean, run |-> load.at,
                 path |-> load.path]
    /\ load' = Idle /\ cancel' = FALSE
    /\ UNCHANGED <<fileVars, writeVars, loads, killed>>

\* cancel() from a signal or aboutToQuit: a plain write of the flag.
Cancel ==
    /\ load.pc # "idle" /\ ~cancel /\ cancel' = TRUE
    /\ UNCHANGED <<fileVars, writeVars, load, shown, loads, killed>>

\* aboutToQuit joins the thread for at most ten seconds, after which the
\* process ends with the thread wherever it is; a kill leaves the same.
ViewerKilled ==
    /\ load.pc # "idle"
    /\ load' = Idle /\ cancel' = FALSE /\ killed' = TRUE
    /\ UNCHANGED <<fileVars, writeVars, shown, loads>>

Writes == (\E g \in Runs : StartExport(g)) \/ WriteLines \/ NoteExport \/ WriterKilled
Viewing == (\E p \in {"json", "store"} : Start(p)) \/ Worker \/ Deliver \/ Cancel \/ ViewerKilled
Next == Writes \/ Viewing
Fairness == WF_vars(Worker) /\ WF_vars(Deliver)
Spec == Init /\ [][Next]_vars /\ Fairness

(***************************************************************************)
(* Properties.                                                             *)
(***************************************************************************)
\* What a file of these lines holds.
EventLines(f) == Cardinality({i \in DOMAIN f.lines : f.lines[i].k = "ev"})
Whole(f) == f.lines # <<>> /\ Last(f.lines).k = "end"

\* A load that finishes while nobody rewrites the JSON shows the events
\* that are in the file, of one run, and says so when the file was cut:
\* a half-written import left by a kill, or the store of an earlier run,
\* never stands in for it (trace_io._matching_store).
LoadHonest ==
    (shown.outcome = "finished" /\ shown.clean /\ load.pc = "idle" /\ writer = NoWriter)
    => IF shown.path = "store" THEN shown.trace.evs = [i \in 1 .. Events[shown.run] |-> shown.run]
       ELSE /\ shown.trace.evs = [i \in 1 .. EventLines(json) |-> shown.run]
            /\ shown.trace.issues.truncated = ~Whole(json)

\* A load that was cancelled or failed leaves no import behind: unless a
\* viewer was killed, what lies in the cache is complete and stamped.
NoHalfImport == ~killed /\ load.pc = "idle" /\ cache.there => cache.stamp # <<>>

\* Until a load's outcome has reached the main thread.
Loading == load.pc # "idle"
=============================================================================
