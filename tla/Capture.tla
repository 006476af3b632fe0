------------------------------ MODULE Capture ------------------------------
(***************************************************************************)
(* One capture: Runner.run (src/core/runner.py) and what `hprofiler run'   *)
(* does with its result, beside the threads and processes it starts: the   *)
(* receiver's parser, the profiled program's hooks, perf, the GPU poller   *)
(* and the disassembly.  The collector may die at any point; the store is  *)
(* then reopened.  The transport below the parser is Receiver's subject:   *)
(* here a connection is a queue of lines.  What a line, perf's output and  *)
(* the disassembly's inputs say is HookRecords' part.                      *)
(*                                                                         *)
(* A line is [kind, segs, means]: its text, and the event the hook wrote   *)
(* it for (NoEvent where it wrote none).  Where only the event is given    *)
(* (segs = <<>>) the text is what Written makes of it.                     *)
(***************************************************************************)
EXTENDS HookRecords

CONSTANTS Jobs,         \* the captures to look at, each a record:
                        \*   collector   node-collector mode
                        \*   disasm      --disasm was given
                        \*   script      connection -> the lines its hook sends
                        \*   peer        connection -> <<pid, executable>> of its process
                        \*   perf        perf is installed and a CPU backend is active
                        \*   place       where the socket goes: "tmpdir"; "tmp" ($TMPDIR is
                        \*               too long); "abstract" (neither will do); a
                        \*               collector's "path", "stale" path or "too_long"
                        \*   sampled     the samples perf takes: a sequence of [ts, frames, odd]
                        \*   readings    what perf stat counts
          Recent,       \* RECENT_SPANS_PER_THREAD (8)
          BatchSize,    \* events buffered by the disk store
          MaxPolls      \* bound on the poller's rounds

\* perf's output is a finite text, so a finite sequence of samples is read
\* from it; events are buffered by the batch, and rings have a size.
SpansRead(j) == ParsePerfScript(PerfPrints(j.sampled), Weight)
ASSUME CaptureAssumption ==
    /\ BatchSize \in Nat \ {0} /\ Recent \in Nat
    /\ \A j \in Jobs : SpansRead(j) \in Seq(Range(SpansRead(j)))

VARIABLES job,          \* this capture, a member of Jobs
          stage,        \* where run() and the command line are
          prog,         \* the profiled program: "off", "up", "gone"
          conn,         \* [Conns -> "new", "open", "closed"]
          sent,         \* [Conns -> number of lines written]
          parsed,       \* [Conns -> number of lines handled by handle_line]
          events,       \* events of the trace, in arrival order
          exes,         \* pid -> executables, in connection order
          stack,        \* spans (position in events) that got their stack
          unplaced,     \* <<position, later spans of its thread>> of stacks that found no span
          recent,       \* (pid, tid) -> ring of positions
          noted,        \* records counted as malformed or unknown
          device,       \* metadata.device_activity: <<pid, tracer>> -> its state
          pcs,          \* PC samples
          perf,         \* [record, stat -> "off", "up", "done"]
          poller,       \* "off", "asking", "waiting", "done"
          polls,
          idle,         \* node collector: the last look found no connection open
          files,        \* temporary files that exist
          health,       \* metadata.capture_health in memory
          done_to,      \* post-processing finished: the correlated prefix of events
          disasm,       \* "off", "up", "done", "failed"
          read,         \* what the disassembly went by
          disk,         \* what the store's files hold
          json          \* what the JSON export holds
vars == <<stage, prog, conn, sent, parsed, exes, events, stack, unplaced, recent, noted, device, pcs, perf, poller, polls, idle,
          files, health, done_to, disasm, read, disk, json, job>>

procVars == <<job, prog, perf, poller, polls, idle>>
connVars == <<conn, sent, parsed, exes>>
parseVars == <<stack, unplaced, recent, noted, device, pcs>>
storeVars == <<events, disk>>
restVars == <<files, health, done_to, disasm, read, json>>

Script == job.script
Conns == DOMAIN Script
NothingRead == [binaries |-> [first |-> {}, rest |-> {}]] @@ DisasmInputs(<<>>)
NoFile == [health |-> "none", flushed |-> 0, disasm |-> FALSE, finalized |-> FALSE]
Empty == [n |-> -1, disasm |-> FALSE]

Init ==
    /\ job \in Jobs /\ stage = "open" /\ prog = "off"
    /\ conn = [c \in Conns |-> "new"] /\ sent = [c \in Conns |-> 0] /\ parsed = [c \in Conns |-> 0] /\ exes = <<>>
    /\ events = <<>> /\ stack = {} /\ unplaced = {} /\ recent = <<>> /\ noted = 0 /\ device = <<>> /\ pcs = 0
    /\ perf = [record |-> "off", stat |-> "off"] /\ poller = "off" /\ polls = 0 /\ idle = FALSE
    /\ files = (IF job.place = "stale" THEN {"socket"} ELSE {}) /\ health = "none" /\ done_to = 0 /\ disasm = "off" /\ read = NothingRead /\ disk = NoFile /\ json = Empty

(***************************************************************************)
(* The trace: events are buffered, and flushed in batches or by a query.   *)
(***************************************************************************)
Buffered(d, n) == IF n - d.flushed < BatchSize THEN d
                  ELSE [d EXCEPT !.flushed = n - ((n - @) % BatchSize), !.finalized = FALSE]
FlushedNot(d, n) == d
Flushed(d, n) == IF n > d.flushed THEN [d EXCEPT !.flushed = n, !.finalized = FALSE] ELSE d
AddAll(es) == /\ events' = events \o es
              /\ disk' = Buffered(disk, Len(events) + Len(es))
Add(e) == AddAll(<<e>>)

(***************************************************************************)
(* The stages of run().                                                    *)
(***************************************************************************)
\* _open_collector_socket: the spool directory, the socket and, where
\* $TMPDIR is too long, a private directory for it under /tmp.
SocketFiles(place) ==
    {"spool_dir"} \cup (IF place = "abstract" THEN {} ELSE {"socket"}) \cup (IF place = "tmp" THEN {"tmp_dir"} ELSE {})

\* The socket, and the metadata stored as running.
OpenSocket ==
    /\ stage = "open" /\ job.place # "too_long" /\ stage' = "start"
    /\ files' = SocketFiles(job.place)
    /\ health' = "running"
    /\ disk' = [disk EXCEPT !.health = "running"]
    /\ UNCHANGED <<procVars, connVars, parseVars, events, done_to, disasm, read, json>>
\* An address that does not fit is refused; the spool directory is made by then.
OpenFails ==
    /\ stage = "open" /\ job.place = "too_long" /\ stage' = "failed"
    /\ files' = {"spool_dir"}
    /\ UNCHANGED <<procVars, connVars, parseVars, storeVars, health, done_to, disasm, read, json>>

\* Popen, or the wait object of the node collector.
StartProgram ==
    /\ stage = "start" /\ stage' = "perf"
    /\ prog' = "up"
    /\ UNCHANGED <<job, connVars, parseVars, storeVars, restVars, perf, poller, polls, idle>>

\* The command cannot be executed: the exception leaves run().
StartFails ==
    /\ stage = "start" /\ ~job.collector /\ stage' = "failed"
    /\ UNCHANGED <<procVars, connVars, parseVars, storeVars, restVars>>

\* perf record and perf stat attach to the pid; a failing Popen removes its file.
AttachPerf ==
    /\ stage = "perf" /\ stage' = "poll"
    /\ \E ok \in [{"record", "stat"} -> IF job.perf /\ ~job.collector THEN BOOLEAN ELSE {FALSE}] :
         /\ perf' = [k \in {"record", "stat"} |-> IF ok[k] THEN "up" ELSE "off"]
         /\ files' = files \cup {k \in {"record", "stat"} : ok[k]}
    /\ UNCHANGED <<job, connVars, parseVars, storeVars, prog, poller, polls, idle, health, done_to, disasm, read, json>>

StartPoller ==
    /\ stage = "poll" /\ stage' = "wait"
    /\ poller' = "asking"
    /\ UNCHANGED <<job, connVars, parseVars, storeVars, restVars, prog, perf, polls, idle>>

\* proc.wait(): the program has gone; the stop event is set.
Wait ==
    /\ stage = "wait" /\ ~job.collector /\ prog = "gone" /\ stage' = "perf_wait"
    /\ UNCHANGED <<procVars, connVars, parseVars, storeVars, restVars>>

\* _CollectWait.wait: every 0.2 s; idle_since is set while a hook was seen
\* and none is connected, and cleared otherwise.
Connected == {c \in Conns : conn[c] = "open"}
Seen == \E c \in Conns : conn[c] # "new"
IdleNow == Seen /\ Connected = {}
CollectLook ==
    /\ stage = "wait" /\ job.collector
    /\ \/ IdleNow /\ idle /\ stage' = "perf_wait" /\ UNCHANGED idle
       \/ idle' = IdleNow /\ idle' # idle /\ UNCHANGED stage
    /\ UNCHANGED <<job, connVars, parseVars, storeVars, restVars, prog, perf, poller, polls>>
CollectSignal ==
    /\ stage = "wait" /\ job.collector /\ stage' = "perf_wait"
    /\ UNCHANGED <<procVars, connVars, parseVars, storeVars, restVars>>

\* perf ends by itself, or is killed after five seconds.
PerfWait ==
    /\ stage = "perf_wait" /\ stage' = "poll_join"
    /\ perf' = [k \in DOMAIN perf |-> IF perf[k] = "up" THEN "done" ELSE perf[k]]
    /\ UNCHANGED <<job, connVars, parseVars, storeVars, restVars, prog, poller, polls, idle>>

PollJoinForever ==
    /\ stage = "poll_join" /\ poller = "done" /\ stage' = "finish"
    /\ UNCHANGED <<procVars, connVars, parseVars, storeVars, restVars>>
\* gpu_thread.join(timeout=2): a poller still asking its tool is left behind.
PollJoin ==
    /\ stage = "poll_join" /\ stage' = "finish"
    /\ UNCHANGED <<procVars, connVars, parseVars, storeVars, restVars>>

\* receiver.finish() has parsed what was written; the capture is complete.
Drained == \A c \in Conns : parsed[c] = sent[c]
FinishReceiver ==
    /\ stage = "finish" /\ Drained /\ stage' = "assemble"
    /\ conn' = [c \in Conns |-> "closed"]
    /\ health' = "complete"
    /\ files' = files \ {"socket", "spool_dir"}
    /\ UNCHANGED <<procVars, parseVars, storeVars, sent, parsed, exes, done_to, disasm, read, json>>

\* gpu_activity.assemble and the MPI diagnostics read (and flush) the trace.
Assemble ==
    /\ stage = "assemble" /\ stage' = "script"
    /\ done_to' = Len(events)
    /\ disk' = Flushed(disk, Len(events))
    /\ UNCHANGED <<procVars, connVars, parseVars, events, files, health, disasm, read, json>>

\* The samples of perf record become spans; the file stays for perf annotate.
PerfScript ==
    /\ stage = "script" /\ stage' = "annotate"
    /\ IF "record" \in files THEN AddAll(SpansRead(job)) ELSE UNCHANGED storeVars
    /\ UNCHANGED <<procVars, connVars, parseVars, restVars>>

\* addr2line.annotate_trace goes through the spans if a symbolizer is installed.
Annotate ==
    /\ stage = "annotate" /\ stage' = "counters"
    /\ disk' \in {disk, Flushed(disk, Len(events))}
    /\ UNCHANGED <<procVars, connVars, parseVars, restVars, events>>

Microarch(metrics) == [i \in DOMAIN metrics |-> [kind |-> "micro", is |-> metrics[i]]]
MaxRss == <<[kind |-> "rss"]>>
\* Microarchitecture counters and max RSS; the perf stat file is removed.
Counters ==
    /\ stage = "counters" /\ stage' = "check"
    /\ AddAll(Microarch(IF "stat" \in files THEN ParsePerfStat(job.readings) ELSE <<>>) \o MaxRss)
    /\ files' = files \ {"stat"}
    /\ UNCHANGED <<procVars, connVars, parseVars, health, done_to, disasm, read, json>>

\* The zero-event check counts the spans, which flushes them; then the
\* disassembly starts and stack frames are resolved.
ZeroCheck ==
    /\ stage = "check" /\ stage' = "returned"
    /\ disk' = Flushed(disk, Len(events))
    /\ disasm' = IF job.disasm THEN "up" ELSE "off"
    /\ UNCHANGED <<procVars, connVars, parseVars, events, files, health, done_to, read, json>>

(***************************************************************************)
(* The command line after run().                                           *)
(***************************************************************************)
\* "Run complete -- N events captured" counts the spans again.
RunComplete ==
    /\ stage = "returned" /\ stage' = "save"
    /\ disk' = Flushed(disk, Len(events))
    /\ UNCHANGED <<procVars, connVars, parseVars, restVars, events>>

\* Trace.finalize: first the metadata, in a transaction of its own ...
SaveMeta ==
    /\ stage = "save" /\ stage' = "finalize"
    /\ disk' = [disk EXCEPT !.health = health, !.disasm = (disasm = "done")]
    /\ UNCHANGED <<procVars, connVars, parseVars, restVars, events>>

\* ... then the events still buffered, the indexes and derived tables.
FinalizeStore ==
    /\ stage = "finalize" /\ stage' = "export"
    /\ disk' = [Flushed(disk, Len(events)) EXCEPT !.finalized = TRUE]
    /\ UNCHANGED <<procVars, connVars, parseVars, restVars, events>>

Export ==
    /\ stage = "export" /\ stage' = "join"
    /\ json' = [n |-> Len(events), disasm |-> disasm = "done"]
    /\ disk' = Flushed(disk, Len(events))
    /\ UNCHANGED <<procVars, connVars, parseVars, events, files, health, done_to, disasm, read>>

\* The last join has no timeout; found disassembly is saved and exported.
JoinDisasm ==
    /\ stage = "join" /\ disasm # "up" /\ stage' = "done"
    /\ IF disasm = "done"
       THEN /\ disk' = [Flushed(disk, Len(events)) EXCEPT !.disasm = TRUE]
            /\ json' = [n |-> Len(events), disasm |-> TRUE]
       ELSE UNCHANGED <<disk, json>>
    /\ UNCHANGED <<procVars, connVars, parseVars, events, files, health, done_to, disasm, read>>

(***************************************************************************)
(* Beside it: the hooks, the parser, the poller, the disassembly.          *)
(***************************************************************************)
Connect(c) ==
    /\ prog = "up" /\ conn[c] = "new"
    /\ conn' = [conn EXCEPT ![c] = "open"]
    /\ exes' = OnConnect(exes, job.peer[c][1], job.peer[c][2])
    /\ UNCHANGED <<procVars, parseVars, storeVars, restVars, stage, sent, parsed>>

HookWrites(c) ==
    /\ prog = "up" /\ conn[c] = "open" /\ sent[c] < Len(Script[c])
    /\ sent' = [sent EXCEPT ![c] = @ + 1]
    /\ UNCHANGED <<procVars, parseVars, storeVars, restVars, stage, conn, parsed, exes>>

Disconnect(c) ==
    /\ conn[c] = "open" /\ conn' = [conn EXCEPT ![c] = "closed"]
    /\ UNCHANGED <<procVars, parseVars, storeVars, restVars, stage, sent, parsed, exes>>

\* The program ends or is killed, with lines left unsent.
ProgramEnds ==
    /\ prog = "up" /\ ~job.collector
    /\ prog' = "gone"
    /\ UNCHANGED <<job, connVars, parseVars, storeVars, restVars, stage, perf, poller, polls, idle>>

\* _remember_recent_span and _find_recent_span: a bounded ring per thread,
\* searched from its newest span for one with the stack's start time.
Ring(th) == IF th \in DOMAIN recent THEN recent[th] ELSE <<>>
Remember(th, pos) ==
    LET ring == Append(Ring(th), pos)
    IN [t \in DOMAIN recent \cup {th} |-> IF t # th THEN recent[t] ELSE IF Len(ring) > Recent THEN Tail(ring) ELSE ring]
FindOldestOnly(th, start) == {p \in {Ring(th)[1]} : Ring(th) # <<>> /\ events[p].start = start}
FindRecent(th, start) ==
    LET hits == {i \in DOMAIN Ring(th) : events[Ring(th)[i]].start = start}
    IN {Ring(th)[i] : i \in {j \in hits : \A k \in hits : k <= j}}

SpansOf(th) == {p \in DOMAIN events : events[p].kind = "span" /\ <<events[p].pid, events[p].tid>> = th}
Later(pos) == Cardinality({q \in SpansOf(<<events[pos].pid, events[pos].tid>>) : q > pos})
Position(th, start) == CHOOSE p \in SpansOf(th) : events[p].start = start

\* handle_line: one record of a connection, in order.
Known == {"span", "inst", "ctr"}
Segments(l) == IF l.segs = <<>> /\ l.means # NoEvent THEN Written(l.means) ELSE l.segs
IsStk(l) == l.kind = "stk" /\ Len(l.segs) = 4 /\ Numeric(l.segs, 1 .. 3)
IsPcSample(l) == l.kind = "pcsa" /\ Len(l.segs) = 6 /\ Numeric(l.segs, 4 .. 6)
Recorded(key, fields) == (key :> RecordStatus(IF key \in DOMAIN device THEN device[key] ELSE <<>>, fields)) @@ device
HandleKnown(ev) ==
    /\ ev # NoEvent
    /\ Add(ev)
    /\ recent' = IF ev.kind = "span" THEN Remember(<<ev.pid, ev.tid>>, Len(events) + 1) ELSE recent
    /\ UNCHANGED <<stack, unplaced, noted, device, pcs>>
HandleStk(l) ==
    /\ IsStk(l)
    /\ LET th == <<l.segs[1].v, l.segs[2].v>>
           start == l.segs[3].v
           hit == FindRecent(th, start)
           at == Position(th, start)
       IN IF hit # {} THEN stack' = stack \cup hit /\ UNCHANGED unplaced
          ELSE UNCHANGED stack /\ unplaced' = unplaced \cup {<<at, Later(at)>>}
    /\ UNCHANGED <<storeVars, recent, noted, device, pcs>>
HandleGpuact(l, segs) ==
    /\ l.kind = "gpuact" /\ IsStatus(segs)
    /\ device' = Recorded(<<segs[1].v, segs[2].v>>, FieldsOf(segs))
    /\ UNCHANGED <<storeVars, stack, unplaced, recent, noted, pcs>>
HandlePcsa(l) ==
    /\ IsPcSample(l)
    /\ pcs' = pcs + 1
    /\ UNCHANGED <<storeVars, stack, unplaced, recent, noted, device>>
NoteLine(l, segs, ev) ==
    /\ ev = NoEvent /\ ~IsStk(l) /\ ~IsPcSample(l) /\ ~(l.kind = "gpuact" /\ IsStatus(segs))
    /\ noted' = noted + 1
    /\ UNCHANGED <<storeVars, stack, unplaced, recent, device, pcs>>
ParseLine(c) ==
    /\ parsed[c] < sent[c] /\ stage # "failed"
    /\ parsed' = [parsed EXCEPT ![c] = @ + 1]
    /\ \E l \in {Script[c][parsed[c] + 1]} : \E segs \in {Segments(l)} :
       \E ev \in {IF l.kind \in Known THEN ParseRecord(l.kind, segs) ELSE NoEvent} :
          HandleKnown(ev) \/ HandleStk(l) \/ HandleGpuact(l, segs) \/ HandlePcsa(l) \/ NoteLine(l, segs, ev)
    /\ UNCHANGED <<procVars, restVars, stage, conn, sent, exes>>

\* The poller's tool answered (or timed out after three seconds); counters
\* are added whether or not the stop event has been set meanwhile.
Stop == stage \notin {"open", "start", "perf", "poll", "wait"}
PollAnswer ==
    /\ poller = "asking" /\ poller' = "waiting" /\ polls < MaxPolls
    /\ polls' = polls + 1
    /\ \/ Add([kind |-> "gpu"])
       \/ UNCHANGED storeVars
    /\ UNCHANGED <<job, connVars, parseVars, restVars, stage, prog, perf, idle>>
PollAgain ==
    /\ poller = "waiting"
    /\ poller' = IF Stop \/ polls = MaxPolls THEN "done" ELSE "asking"
    /\ UNCHANGED <<job, connVars, parseVars, storeVars, restVars, stage, prog, perf, polls, idle>>

\* _collect_disasm: perf's file is removed once the heat is read; an
\* exception before that leaves it.
KeepPerfFile == files
DropPerfFile == files \ {"record"}
Spans == SelectSeq(events, LAMBDA e : e.kind \in {"span", "sample"})
DisasmDone ==
    /\ disasm = "up" /\ disasm' = "done"
    /\ LET in == DisasmInputs(Spans)
       IN read' = [binaries |-> DisasmBinaries(exes, in.gpu_pids)] @@ in
    /\ files' = DropPerfFile
    /\ disk' = Flushed(disk, Len(events))
    /\ UNCHANGED <<procVars, connVars, parseVars, stage, events, health, done_to, json>>
DisasmFails ==
    /\ disasm = "up" /\ disasm' = "failed"
    /\ disk' = Flushed(disk, Len(events))
    /\ UNCHANGED <<procVars, connVars, parseVars, stage, events, files, health, done_to, read, json>>

\* What open_store_trace says of the store as it is on disk now, whenever
\* the collector was killed.
Reopened == IF disk.health = "running" THEN "interrupted" ELSE disk.health

RunStep == \/ OpenSocket \/ OpenFails \/ StartProgram \/ StartFails \/ AttachPerf \/ StartPoller \/ Wait \/ CollectLook
           \/ CollectSignal \/ PerfWait \/ PollJoin \/ FinishReceiver \/ Assemble \/ PerfScript \/ Annotate \/ Counters
           \/ ZeroCheck \/ RunComplete \/ SaveMeta \/ FinalizeStore \/ Export \/ JoinDisasm
Beside == \/ \E c \in Conns : Connect(c) \/ HookWrites(c) \/ Disconnect(c) \/ ParseLine(c)
          \/ ProgramEnds \/ PollAnswer \/ PollAgain \/ DisasmDone \/ DisasmFails
Finished == stage \in {"done", "failed"} /\ UNCHANGED vars
Next == RunStep \/ Beside \/ Finished

\* The interpreter schedules its own threads; every tool the poller and the
\* disassembly call has a timeout.  Nothing is assumed of the program.
Fairness == /\ WF_vars(RunStep) /\ WF_vars(\E c \in Conns : ParseLine(c))
            /\ WF_vars(DisasmDone \/ DisasmFails)
Spec == Init /\ [][Next]_vars /\ Fairness

(***************************************************************************)
(* Properties.                                                             *)
(***************************************************************************)
\* A store that a reader takes for a complete capture holds every record
\* the hooks had written when the program ended, correlated, whenever the
\* collector was killed: the metadata says complete only after the events
\* that precede it were flushed (runner.py capture_health, trace.finalize).
Handled == {p \in DOMAIN events : events[p].kind # "gpu"}
CompleteMeansStored ==
    Reopened = "complete" => Drained /\ Handled \subseteq 1 .. disk.flushed
                             /\ {p \in DOMAIN events : events[p].kind = "span"} \subseteq 1 .. done_to

\* A stack record is lost only when its span was pushed out of its thread's
\* ring by as many later spans as the ring holds; spans of other hooks'
\* connections that arrive in between do no harm.
StackPlaced == \A u \in unplaced : u[2] >= Recent

\* A finished run leaves no temporary file, but for perf's samples when
\* there was no disassembly to read and remove them, and the directory made
\* under /tmp for the socket when $TMPDIR was too long for it.
Leftovers ==
    stage = "done" => /\ files \subseteq {"record", "tmp_dir"}
                      /\ "record" \in files => disasm \in {"off", "failed"}
                      /\ "tmp_dir" \in files => job.place = "tmp"

\* The trace says what the hooks and perf said: every record parsed so far
\* is one event with the fields, name and tags it was written for, colons
\* in names included, and the others are counted as malformed; and every
\* sample whose header perf printed readably is one span of its own, named
\* for its innermost known frame, with no other sample's frames.  And where
\* a hook's device tracer never sent its last records, because the process
\* was killed before its final flush, the reader of a complete capture is
\* warned.
HookEvent(e) == e.kind \in Known
Lines == UNION {{<<c, i>> : i \in 1 .. parsed[c]} : c \in Conns}
Means(k) == Script[k[1]][k[2]].means
SampleOf(s) ==
    LET known == SelectSeq(s.frames, LAMBDA f : f # "")
    IN IF known = <<>> THEN Sample(s.ts, "[cpu]", Weight, <<>>) ELSE Sample(s.ts, known[1], Weight, Tail(known))
Promised(c) == \E i \in 1 .. parsed[c] : Script[c][i].kind = "gpuact" /\ Field(FieldsOf(Script[c][i].segs), "final_marker", 0) = 1
Warned(c) == \E k \in DOMAIN device : k[1] = job.peer[c][1] /\ DegradedWarnings(device[k]) # {}
Readable == SelectSeq(job.sampled, LAMBDA s : ~s.odd)
TraceAsWritten ==
    /\ \A e \in {Means(k) : k \in Lines} \cup {e \in Range(events) : HookEvent(e)} :
         e = NoEvent \/ Cardinality({p \in DOMAIN events : events[p] = e}) = Cardinality({k \in Lines : Means(k) = e})
    /\ noted = Cardinality({k \in Lines : Means(k) = NoEvent /\ Script[k[1]][k[2]].kind \notin {"stk", "gpuact", "pcsa"}})
    /\ LET samples == SelectSeq(events, LAMBDA e : e.kind = "sample")
       IN samples = <<>> \/ samples = [i \in DOMAIN Readable |-> SampleOf(Readable[i])]
    /\ Reopened = "complete" => \A c \in Conns : Promised(c) /\ sent[c] < Len(Script[c]) => Warned(c)

\* Disassembly found, however late, is in the store and in the JSON.  It
\* was made from the programs that did GPU work, not from a launcher that
\* connected beside them, unless nothing did; every launch the hooks
\* reported is counted once under its kernel and module.
GpuSpan(e) == e.kind = "span" /\ e.cat \in GpuCats
Launched(e) == GpuSpan(e) /\ TagOf(e, "side") = "gpu"
DisasmKept ==
    disasm = "done" =>
        /\ stage = "done" => disk.disasm /\ json.disasm
        /\ LET worked == {e.pid : e \in {Means(k) : k \in {l \in Lines : GpuSpan(Means(l))}}}
           IN read.binaries.first = {Last(exes[p]) : p \in IF worked # {} THEN worked ELSE DOMAIN exes}
        /\ \A k \in {l \in Lines : Launched(Means(l))} :
             read.launches[<<Means(k).name, TagOf(Means(k), "mod")>>]
               = Cardinality({l \in Lines : Launched(Means(l)) /\ Means(l).name = Means(k).name
                                             /\ TagOf(Means(l), "mod") = TagOf(Means(k), "mod")})

\* Once the program has gone, the run ends: no thread, tool or hook that
\* hangs, or keeps its connection open, can hold it.
RunEnds == (prog = "gone") ~> (stage \in {"done", "failed"})
=============================================================================
