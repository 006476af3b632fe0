# A TLA+ verification of hprofiler

hprofiler profiles a program by preloading hook libraries into it.  The hooks
send text records over a socket; a collector receives them, turns them into
spans and stores them; analyses read the store, and two user interfaces show
what they find.  This directory follows a record all that way:

    hook thread --ring--> drain thread --socket--> receiver --lines--> runner --> store --> files --> analyses, viewer
       ByteRing       HookTransport           Receiver          Capture    DiskStore  TraceFiles  Analysis   Viewer
                                                                           Stores

`PROJECT.json` maps the definitions to the source lines they stand for and lists
the runs, the mutated definition each property must reject, the hazards and the
theorems.  For a range of source lines the map names the definition that stands
for it; small helpers over the same lines are not listed again.  Paths below are
relative to the repository root.

## Inventory

### Components, their state and operations

| component | source | state it keeps | operations |
|---|---|---|---|
| byte ring | `hooks/common/ringbuffer.h` | array, `head`, `tail` | push, peek length, pop |
| hook transport | `hooks/common/hp_transport.h` | transport state, ring registry, three mutexes, socket and reconnect time, counters | emit, drain pass, deliver, status, shutdown, fork child, exec, thread exit |
| receiver | `src/core/receiver.py` | connections with their spools, health counters, transport statuses | accept, read, parse, finish, capture warnings |
| runner | `src/core/runner.py` | the run's collectors, recent spans per thread, temporary files | launch, line handler, perf, poller, teardown, disassembly |
| trace stores and facade | `src/core/store/`, `src/core/trace.py` | events, dictionary, derived tables, edges, caches | append, update, delete, flush, finalize, query |
| trace files | `src/core/trace_io.py`, `src/output/chrome_trace.py` | JSON export, store beside it, import cache and stamp | export, open, import, cancel |
| GPU activity | `src/core/gpu_activity.py` | host launches, device records | match, drop proxies, map clocks, warn |
| critical path | `src/analysis/criticalpath.py`, `cp_*.py`, `semantics/` | dependency edges, event graph, clocks, worlds | pair, group, build, walk, replay, compare worlds |
| other analyses | `src/analysis/` | projections, comparisons, call trees, efficiencies, merged nodes | project, align, attribute, merge |
| GUI | `src/gui/` | windows, settings file, rows, background jobs, history | load, cancel, open, hand over, filter, save, restore, evaluate |
| CUDA, MPI and OpenMP hooks | `hooks/cuda_hook`, `mpi_hook`, `ompt_tool`, `gomp_hook` | streams, requests, regions | wrappers; their records are the analyses' input |
| other hooks, module table, call stacks, OS tracer | `hooks/` | tables read from the process image | wrappers, scans |
| TUI, disassembly, backends, exporters, command line | `src/ui/`, `src/disasm/`, `src/backends/`, `src/output/`, `hprofiler` | little | external tools, formatting |

### How they interact

* Hook threads and the drain thread share rings (no lock) and the transport's
  registry, socket and state (three mutexes and atomics).  The program forks,
  execs and exits under them.
* Hooks and receiver share a stream socket; each side may close it, stop
  reading or die.  A hook reconnects once per batch.
* Inside the collector the accept thread, one reader per connection and the
  parser share the list of connections, the spool files and `done` flags;
  `finish()` is called by the runner.
* The parser calls the runner's line handler, which appends to the store.  The
  store is also used by the GPU poller, by annotation passes after the capture,
  by the disassembly thread and by the GUI's background analyses.
* The store is several SQLite files, each committing alone; the process may die
  between commits and a later one opens what is left.
* A JSON export is written in place while a viewer may be opening it; viewers
  share one settings file and, for one JSON, one import cache; a window opens
  another profile in a new process and closes itself when that one is up.
* The analyses have nothing but spans: pairs of messages, kernels of launches,
  order in streams and clock offsets are recovered from tags and times.

### What is hard

Lock-free hand-over in the ring; a shutdown that races with emitting threads;
bounded waits that race with what they wait for; fork with locks held; exec
that fails after the transport was shut down; connections that break in the
middle of a batch; a parser that reads a file another thread is writing;
multi-file commits; results computed without the lock and stored after it was
taken again; a capture declared complete while threads still append; a load
cancelled, or a viewer killed, in the middle of an import; a process that takes
a window's place and then fails; matching of messages, launches and phases that
must agree with runtimes nobody recorded; two implementations of every query.

### What makes each part correct

* byte ring: records come out whole, in order, once; the copies never overlap.
* transport: every record is sent or counted; a thread's records stay in order;
  shutdown leaves none behind and its final status covers them all; a forked
  child sends none of its parent's records and nothing on its connection.
* receiver: lines whole, once, in order; everything written before `finish()`
  is parsed; `finish()` ends; silence in `capture_warnings()` means no loss.
* runner: a capture that says complete has everything; a record becomes the
  event it was written for; stacks find their spans; the run ends and cleans up.
* stores: ids unique for ever, names resolve, derived data describes the events
  it is handed out for; the memory and the disk store have one answer to every
  query, and it is the exact one, whatever was asked and changed before.
* files and windows: a finished load shows what is in the file; no half import is
  left; a window gives way only to a window; a view comes back.
* analyses: pairs, kernels and clocks are the true ones; no effect precedes its
  cause; the path tiles the run; fast algorithms equal their definitions.

## Modules

| module | models |
|---|---|
| `RecordQueue` | what a ring promises: the abstract specification `ByteRing` implements and `HookTransport` is built on |
| `ByteRing` | `rb_bytes_t`, both copies cell by cell |
| `HookTransport` | `hp_transport.h`, one process image with its threads and drain threads |
| `Receiver` | `receiver.py` |
| `HookRecords` | what the runner makes of text: wire records, perf's output, inputs of the disassembly |
| `Capture` | `Runner.run` and the command line after it, beside hooks, parser, poller and disassembly |
| `DiskStore` | `store/disk.py` as commits of its files, `memo` of `store/base.py`, `load_or_build_graph` |
| `SpanAlgorithms` | `store/common.py`, `activity_buckets.py`: lanes, unions, activity index, exclusive time |
| `Stores` | `MemoryTraceStore` and the queries of `DiskTraceStore` side by side |
| `TraceFiles` | export, sibling store, import cache, load thread |
| `Windows` | viewer processes, the open-profile handshake, the settings file |
| `Timeline` | the Timeline's rows and their restore |
| `Overlays` | the Timeline's background analyses, alternative worlds, edge selection, history |
| `Viewer` | `TraceFiles`, `Windows` and `Overlays` side by side (`MCViewer` adds `Timeline`) |
| `SpanTags` | spans as the analyses read them |
| `MessageEdges`, `HostEdges`, `GpuEdges` | dependency edges between ranks, within a process, of devices |
| `Dependencies` | the dependency graph and the span-level longest path |
| `EventGraph` | the event-point graph and its clocks (`cp_model.py`, `cp_clock.py`) |
| `PathModel` | path composition, modeled longest path, criticality, blame, replay |
| `Worlds` | evidence, alternatives, worlds, calibration |
| `Projection` | `projection.py`: phases, nodes, edges between them |
| `NodeMerge` | `multinode.py`: per-node traces on one clock |
| `CausalCompare`, `CompareReport` | `causal_compare.py`, `compare.py` |
| `Efficiency`, `CallTree` | `pop_efficiency.py` and starvation; `call_tree.py` and `cct.py` |
| `Programs` | small MPI, CUDA and OpenMP programs, their runtimes and what the hooks record of them |
| `Analysis` | a program runs to its end and its trace is analysed |
| `ByteRingProofs`, `HookTransportProofs`, `HookCountProofs`, `ReceiverProofs`, `DiskStoreProofs`, `CaptureProofs`, `ViewerProofs` | the theorems |
| `Sums` | lemmas about sums over finite sets, for the proofs that count |
| `MC*` | instances for TLC |

### ByteRing

A cell stands for a byte, and either `memcpy` is one step per cell, so every
interleaving of the two unlocked copies is a behaviour.  `PushBegin` is the
free-space test on the loaded `head`, `PushCopy` the copy in, `PushPublish` the
release store of `tail`; `Peek`, `PopCopy`, `PopRelease` mirror them.  Positions
are unbounded naturals: they are 64-bit in the code and count bytes, so they do
not wrap in practice.  Nothing is assumed of `Cap` but that it is positive; the
mask of the code is `%`.

### HookTransport

`Thread` emits and calls shutdown; `Drain` are the drain threads `hp_tx_start` may
create (two where a restart can meet a detached one).  `use`, chosen once, says
which calls and faults a behaviour may contain.  Each process has a program
counter and takes the code's steps between two accesses to shared state:

* `EmitBegin` to `Check`: `hp_tx_emit` and `hp_tx_push`, with the lazy start,
  the ring's registration, the bounded wait, and publish-then-check;
* `Pass`, `LockAndDrain`, `Take`, `BatchFull`, `NextRing`, `PassDone`, `Sweep`: a
  pass under `drain_mu`, by the drain thread, a shutdown, or a thread that drains
  its own ring; the drain thread looks at `stop` before it waits for `drain_mu`
  and not after, as the code does.  The batch is allocated by the first pass; while
  it is not (`NoBatch`), each of the three may find no memory and drain nothing:
  `starved` remembers who that happened to, and in which of the roles;
* `LockSocket`, `Connect`, `Send`, `SendFailed`, `CountSent`, `CountLost`:
  `hp_tx_deliver` with its second attempt.  A record of a batch is one send;
* `StatusGlobal` to `StatusSent`: a status reads its counters one block after
  the other and is sent once;
* `Shutdown`, `Join`, `JoinTimeout`, `ShutdownDrain`, `ShutdownGivesUp`,
  `ExecFailed`, `ThreadExit`, `Fork`.

After `Fork` the model follows the child.  The collector is external: it may
close a connection, stop accepting, or stop reading.  Left out: the kick futex
(it shortens a timed sleep), formatting, the vfork test, and counters that no
property uses.  `wire`, `status`, `dropped`, `owed`, `gave_up`, `starved`,
`inherited` and `forked_at` are history.  `TransportAssumption` says that threads and drain threads are different
and finitely many, and `ReceiverAssumption` of the next module that `None` is
neither a connection nor a line.

### Receiver

`Script[c]` is what a hook writes on connection `c` unless it is killed: lines
of `Parts` pieces.  `got`, `spooled`, `rd`, `md` are positions in that stream:
received, in the spool, parsed from the spool, parsed from memory after a spool
error.  The accept thread, the readers and the parser are actions of their own;
`finish` is the position inside `finish()`.  Health counters are kept as the set
of those that are not zero, and `Warned` is `capture_warnings() != []`.  The 2 s join
of the accept thread is taken to succeed (see *Disagreements*); `timeout_s` and
the 5 s of the reader joins may pass at any moment.

### Capture and HookRecords

`stage` is where `run()` and the command line are; every stage is one action, and
the hooks, the parser (`ParseLine` is `handle_line`), the poller and the disassembly
thread take theirs in between.  A connection is a queue of lines, since what lies
below is `Receiver`'s part.  `disk` is what the store's files hold, so a kill of
the collector needs no action: `Reopened` is what a reader would make of the files
at any moment.  `HookRecords` parses: a record is its colon-separated segments, and
`SplitNameTags`, `ParsePerfScript` and the others do to them what the code does.
`CaptureAssumption` says that batches are positive and that what is read from
perf's text is a sequence.

### DiskStore and Stores

In `DiskStore` the disk (`rows` and `autoinc` per shard, `cat` for the catalog)
changes only by commits; the fields of the store object are separate variables
that a crash forgets.  An operation is the sequence of its commits, with
`self._lock` held across them where the code holds it.  A derived result is the set
of events it was computed from.  With `use.concurrent` FALSE an operation starts only
when no other thread is inside one.  An append leaves `_finalized` set until its
batch is written, and lanes, statistics, extents, exclusive time and the activity
index read the saved tables without writing it (`Persisted`); `late` are the
results found that way.

`Stores` asks both stores what the queries answer: windows, lanes, statistics,
exclusive time, activity index.  The memory store answers from its list, through
the indexes it built when it was asked before (`index`), the disk store from rows,
persisted tables, its write buffer and what it was told before (`told`).  Connections
to shards are not modelled: the answers are those of a store with fewer processes
than connections may be open (256).

### Viewer, TraceFiles, Windows, Overlays, Timeline

`TraceFiles` has a writer that puts a JSON on disk line by line, and a load with
the stages of `open_trace`: sibling store, import cache by stamp, streamed import,
cancel, failure, kill.  `Windows` has processes with a view each, the copy of the
settings file each of them made when it started (`known`; the view it restores is
taken from it), `MAX_PROFILES`, the eviction of the oldest of the copy, the debounced
save that merges into the file and refreshes the copy, markers of the open-profile
handshake and the tiers of the command line.  Dates are as late as the order of the
saves: a clock that is set back is not modelled.  `Overlays` has the analysis thread, the worlds
it evaluates, queued signals and stops.  `Timeline` has the lanes and what filters,
grouping, hiding, isolation and order do to them.  They share no state but the
trace, so `Viewer` lets a behaviour exercise one of them.

### Analysis and what it is built from

`Programs` runs scripts of MPI, CUDA and OpenMP calls against models of those
runtimes and records spans as the hooks' wrappers do; `match`, `born` and `who` are
what really happened.  When a program has ended, `Analyse` computes everything the
analyses say of its spans, and the properties compare that with the truth, with a
second algorithm of the repository, or with a definition.  Times are integers
and ratios are pairs, so nothing is rounded that the code does not round.  Real
programs are longer; what the small ones have is every kind of edge, clock skew,
device lag, reused correlation ids, lost records, and reruns to compare with.

The alternative worlds a trace allows are the combinations of the units' options
(`WorldChoices`).  The code looks at few of them: the recorded world, up to 16 with
one unit changed (its first option that touches the recorded path,
`FirstTouching`), and 8 samples with every unit's option at random.  So the truth need
not be among the worlds a report has looked at, and no property says so.
`WorldsAllowTruth` says what the report's claim needs: the options admit the truth
(`Allowed`), no two units' options contradict each other, none goes against time but
for the rooted collectives named below, and a path that differs from the recorded
one has a unit that a one-change world looks at (`FoundByOneChange`), which with more
than 16 of them it may leave out.  The
robust sets and the verdict derived from the sampled worlds, and the order of a
unit's options, are not modelled.  A loss together with clock skew can rule the
truth out, so a program of the run has the one or the other.

`NodeMerge` solves for the smallest correction factor on a grid of `1/LamSteps` and
compares exactly.  `multinode.py` bisects, adds 2 % to what it finds (line 354) and
tolerates half a nanosecond (line 312), so its corrections can be larger by that.

## Runs

| run | instance | checks |
|---|---|---|
| `ring` | ring of 8 cells, prefix 2, payloads 1 and 3, 5 pushes | `Intact`, `RaceFree`, `QueueSpec` (refinement) |
| `tx` | uses `Full`, `Faulty`, `Starving`, `Restarted`: 2 threads with full rings; every fault and a fork; no memory for a ring or a batch; 2 drain threads, 2 shutdowns, late emit | `Accounting`, `PerThreadOrder`, `ShutdownSettles`, `ChildClean` |
| `tx_live` | a thread that emits 3 records and one that shuts down; the collector may stall | `EventuallySettled` |
| `tx_hang` | 1 thread, a collector that may stall | refutes `ShutdownReturns` |
| `rx` | 2 connections, one possibly another user's; kills between and inside lines, spool faults | `ParsedAsWritten`, `CleanMeansComplete`, `FinishTerminates` |
| `ds` | 2 shards, 2 names: one thread at a time with reopening; three threads with a death | `Fresh`, `IdsHold` |
| `ds_stale` | one thread, a change, a death | refutes `DerivedFresh` |
| `stores` | 3 events of two processes in every overlap of a few times, one change; with fewer shapes, questions asked in between | `IterExact`, `StoresAgree`, `DerivedExact` |
| `capture` | two hooks and a launcher, a ring of two spans, batches of two | `CompleteMeansStored`, `TraceAsWritten`, `StackPlaced`, `Leftovers`, `DisasmKept`, `RunEnds` |
| `viewer` | two runs writing one JSON and two loads; three windows on two profiles; six lanes; two evaluations of two worlds | `ImportsHonest`, `SessionsKept`, `RowsKept`, `WorldsHonest`, `ViewerSettles` |
| `analysis` | every run of the programs of `MCAnalysis` | `PairsRight`, `KernelsRight`, `Causal`, `ClocksBracket`, `WalkTiles`, `CriticalExact`, `PipelinesAgree`, `WorldsAllowTruth`, `ProjectionConserves`, `EfficiencyExact`, `CallTreesAgree`, `MergeInOrder`, `ComparisonSound` |
| `mpi_test` | a receive completed by `MPI_Test` | refutes `PairsRight` |

Each property is stated above its definition; `PROJECT.json` says in a sentence
what each run shows.

### Bounds

*Ring.*  Frames of 3 and 5 cells in 8 start at every offset, so prefix and payload
wrap at every cell; two frames fill the ring exactly; the fifth push reuses
cells of the first two.

*Transport.*  A ring of one record makes the second emit wait; a batch of one
makes a pass with two records deliver in the middle, and batches of two let a
connection break between the records of one batch.  Two threads are enough for
every pair of roles (emit against drain, against shutdown, against a fork).  Three
records of one thread are the least with which one overtakes its ring: one fills
it, one is sent past it, one waits.  Two
shutdowns and two drain threads are the least with which a detached drain thread
meets its successor.

*Receiver.*  Lines of two pieces let `recv`, the spool and a kill cut a line.
Two connections are the least with which the parser's list changes under it.

*Stores.*  Two shards are needed for a flush that dies between shards and for a
merge of shards; two events and one change for a deletion followed by an append.
Three events and batches of two let a store be finalized, asked, appended to and
asked again with and without the batch written in between.

*Capture.*  A ring of two spans loses a stack after three; a batch of two leaves
an odd event in the buffer; one poll is enough for a poller that answers after
every stage.

*Viewer.*  Two runs make a stale cache, two loads meet it, three windows are the
least in which a window waits for one that fails while another is up, and one
remembered profile of two is evicted.

*Analysis.*  A program has two or three ranks or threads with a few calls each:
two messages on a channel, three levels of blame, two phases.

The theorems below remove the bounds for what they state.  Deadlock checking is
off where the program does stop (everything emitted, `finish()` returned, store
closed, window closed); `capture` and `analysis` have explicit final steps.

### Fairness

* `HookTransport`: every process keeps taking its own steps (`WF` of `Run`); no
  fairness for calls of the program or faults of the collector.  `WaitExpires` is
  strongly fair because it is a clock compared on every turn of the loop.
  Taking `drain_mu` is strongly fair because the drain thread sleeps without it
  after every pass that found nothing and the wait for it is retried, so a waiter
  finds it free again and again.  The reconnect rate limit ends.
* `Receiver`: the collector's own threads run; hooks promise nothing, they may
  stay connected and silent for ever.
* `Capture`: the interpreter schedules its own threads, and every tool the poller
  and the disassembly call has a timeout.  Nothing is assumed of the program.
* `Viewer`: event loops deliver what threads emit, threads run, timers fire.

## Proofs

All proofs are checked by TLAPS from the modules' named assumptions and for
every value of the constants.

| theorem | statement | property of a run |
|---|---|---|
| `ByteRingProofs!TypeCorrect` | `Spec => []TypeOK` | |
| `RecordsIntact`, `NoDataRace` | what is popped is what was pushed; the copies are disjoint | `Intact`, `RaceFree` |
| `ImplementsQueue` | `Spec => QueueSpec`, the refinement of `RecordQueue` | `QueueSpec` |
| `HookTransportProofs!ControlAlways` | types, locks, program counters, batches | |
| `OrderKept` | per-thread order on every connection, but for a thread that emits after its destructor or had no memory to drain its ring | `PerThreadOrder` |
| `ChildSendsItsOwn` | a forked child has none of its parent's records and uses none of its connections | `ChildClean` |
| `NoneVanishes` | every record emitted is somewhere | |
| `HookCountProofs!AllAccounted` | every record is sent, counted as dropped or on its way, exactly once | `Accounting` |
| `AllDropsCounted` | no record is dropped behind the counters | |
| `ShutdownDrains` | a shutdown that got `drain_mu` and memory for its batch leaves no record owed to it behind | |
| `ShutdownReports` | and its final status counts the drops among them, if the program shuts down once and its drain thread ends in time | `ShutdownSettles` |
| `ReceiverProofs!AllParsed` | lines whole, once and in order; nothing left unparsed at the end | `ParsedAsWritten` |
| `PlacesAlways`, `StreamAlways` | each connection in one place; parser <= spool <= recv() <= hook | |
| `OrderAlways`, `EndAlways` | where the parser is in the script; what `finish()` waited for | |
| `CleanIsComplete` | no warning means no record lost, if final statuses are last lines and keys have one connection | `CleanMeansComplete` |
| `DiskStoreProofs!WellFormed` | types, order of rows, buffers and counters | |
| `IdsAlwaysHold` | event ids unique for ever, names stay | `IdsHold` |
| `AlwaysFresh` | with one thread at a time and no death, derived data describes the stored events, or what the last finalize found where events appended since were in the buffers when it was asked for | `Fresh` |
| `CaptureProofs!CompleteIsStored` | complete means everything is stored and correlated | `CompleteMeansStored` |
| `LeftoversOnly` | what a finished run leaves behind | `Leftovers` |
| `DisasmStored` | disassembly found is in store and JSON | |
| `StacksFindSpans` | a stack misses only a span pushed out of a full ring, if it comes behind its span on its connection | `StackPlaced` |
| `ViewerProofs!ReportsHonest` | reports of alternative worlds are what they say | `WorldsHonest` |
| `SessionsAlwaysKept` | windows hand over; views come back, but for one saved while the window that is to show it was loading | `SessionsKept` |
| `NoImportHalfDone` | no half import stays in the cache | |
| `ImportsAlwaysHonest` | a load shows what the file holds, and says when it was cut | `ImportsHonest` |

Each is proved from an inductive invariant that TLC checked first on the run's
instance; each step of the specification has a step of its own in the proof.

**ByteRing.**  `Intact` is not inductive: it says nothing of what lies in the
array.  `IInv` adds that published frames lie one behind the other up
to `tail` (`FramesAdjacent`), that `head` is the start of the first unread one and
at most `Cap` behind `tail` (`HeadAtFrame`), that every cell of an unread frame
holds what was written (`UnreadStored`), that the frame being copied in has room
and is there up to `pk` (`PushStored`), and that the record being copied out is the
first unread one, intact so far (`PopIntact`).  The step that matters is
`PushCopy`: the cell written is none of an unread frame's, because both positions
lie in a window of `Cap` and two positions less than `Cap` apart never share a
cell (`SlotsDiffer`).  `RaceFree` follows from the same window.  For the refinement,
publishing appends one payload to the queue, releasing removes its head, and
every other step leaves `pushed` and `popped` alone.

**HookTransport.**  `Control` says, by program counter, which locks a process holds
(`LocksAt`), what it is doing the pass or the delivery for (`JobsAt`), what its batch
may hold (`BatchAt`), what is in its hand (`HandAt`) and that it pushes only to a
ring of its own (`OwnRingAt`).  `OrderInv` needs it: a thread has one ring
(`OneRing`), and its records are numbered in emission order everywhere they can
be, on the wire of the present connection before its batch, in the batch before
the ring, in the ring before the hand (`WireBeforeBatch`, `BatchBeforeRing`,
`WireBeforeRing`, `HandLast`), each of these sorted, with at most one batch holding
records of a thread (`OneBatch`).  Why a record cannot overtake: a batch that is
not empty belongs to the holder of `drain_mu` or is one record its own emitter
sends, and an emitter sends what is in its hand only while `drain_mu` is free or
its own and its ring is empty, or it was out of memory and is in `starved` for good.
A retry sends its batch from the beginning, but
on a connection whose number exceeds every one on the wire.  `RecordInv` adds that
what a batch has passed was sent (`Taken`), that nothing of the parent is anywhere
in a child (`ChildInv`), and `NothingVanishes` itself; `OwnConn` that a child's socket
and all it sent on have numbers above those of the fork (`forked_at`).

**HookTransport, counted.**  `Accounting` adds counters of rings, of threads and of
batches, so its proof is about sums over finite sets.  `Sums` has what it needs:
the sum does not depend on the order in which elements are taken, and changing
one summand changes the total by the difference.  The induction there is by a
smallest counterexample (strict inclusion is well founded on finite sets).
`RingsInv` says which rings the registry holds and that a ring outside it is empty
with its counters at zero, which is what folding a freed ring's counters into the
global ones must preserve; `Balance` is `Accounting` with the sums named, one
lemma per step.  `DropsCounted` relates the history of dropped records to the
same counters, so a fork, which clears both, keeps it.  For a shutdown, `OwedInv`
says that a record owed and not yet settled is in a ring the pass still has to
visit (`todo`) or in the passing thread's own batch, while the pass goes on, and
nowhere once the status begins.  With `NoneVanishes` it is then on the wire or
dropped.  The argument needs that only the holder of `drain_mu` has a batch of
several records (`BatchAt`) and that emitters add only what is in their own hand.
The counters are a second question, since a status reads them in two blocks
without `drain_mu`: `ReportInv` says that what a status has read and what it has
still to read (`Tally`) are never less than the drops among the owed records.  It
needs that nobody frees a ring in between, hence `Single` (one shutdown, no join that times out;
`Lone` is what that means step by step): without it the claim is false, see
*Disagreements*.

**Receiver.**  `ParsedAsWritten` rests on four invariants.  `Places`: a connection is in
`listen()`'s queue, in the accept thread's hand, registered or refused, and the
parser's lists name each of theirs once, so the `remove` of `_parse_loop` takes off
the one that ended.  `Stream`: the parser is behind the spool, the spool behind
`recv()`, `recv()` behind the hook, and a reader that is done has caught up with its
hook.  `Order`: what was processed is lines 1 to h and `tail` is what was read of line
h+1.  The step that matters is `_process` (`Processed`): the tail and a new chunk
together are the pieces from the beginning of line h+1 on, their newlines lie at
the multiples of the line length (`SubLines`), so the cut gives the next whole
lines and the rest (`CutAt`) wherever `recv()` or `SPOOL_CHUNK` broke the stream; the
arithmetic is in `Times` and `Quotient`.  `Parsing` and `Ending` carry the second half:
the parser looks at `done` before it reads the spool and the memory, so a
connection it takes off its list is `Settled`; `finish()` accepts what was queued before
it waits, and the parser returns only with an empty list.  For `CleanMeansComplete`,
`CleanInv` follows what goes wrong to the counter that notes it (`Noted`), what a
connection that is over owes to `health` (`OverAt`), and keys that were heard of to
their entry in `transport` (`Reported`); a connection without a noted failure that ended well
had its final status processed, so by `Order` all the lines before it.  `Plain`, the
hypothesis on the scripts, is what a program without a failed exec or a reconnect
writes; without it the claim is false (see *Disagreements*: `final_keys`, two
connections of one hook).

**DiskStore.**  `IdsHold` rests on `StoreInv`: types, `Ordered` (rows, buffers and
`autoinc` agree), and `IdsInv`: a row's id occurs once (`UniqueRows`), a deleted id
stays below its shard's counter and never returns (`DeletedGone`), the dictionary in
memory and in the catalog agree on what both know and every name a committed row
uses is in the catalog (`DictOK`), and sequence numbers in use lie below the next
one (`SeqsOK`).  `Fresh` rests on `FreshInv`: with one thread at a time only one
operation is under way (`Alone`); memory and catalog agree on the flags between
operations (`SameFlags`); a reader works on drained buffers (`Drained`); and a result in
the making, a derived table, the edges and each cache entry describe the rows they
are valid for (`ComputedFrom`, `TablesOK`, `EdgesOK`, `CacheOK`): for an entry in `late`
these are the rows of the last finalize.

**Capture.**  `CompleteMeansStored` speaks of the disk at any moment.  `StoreInv` adds
where the run is: once the receiver has finished nobody can write or parse
any more (`Quiet`); complete is said in memory only after that, and on disk only
after `SaveMeta` (`HealthInOrder`); from then on every hook's span lies in the
correlated prefix (`Correlated`), since perf's samples, counters and polls are no
spans of hooks; and after "Run complete" counted the events, everything but a late
poll is flushed (`Stored`).  `FilesInv` follows each temporary file from the stage
that makes it to the one that removes it.

`StackPlaced` speaks of every stack record that found no span.  `StackInv` adds that
what was parsed is in the trace (`Told`) and that a thread's ring has, in order, the
positions of its last spans: all of them, or as many as it holds (`Rings`, `IsRing`).
So a span of a stack that is parsed later is in the trace; when the ring has it not,
the ring is full of spans after it, which are `Recent` many (`PushedOut`).  The
hypothesis `StacksFollowSpans` is what `hooks/common/callstack.h` says of
`emit_callstack()`: it is called right after the span record, on the same thread, hence
on the same connection.  A script in which the span was lost and its stack was not
breaks it, and then the stack has no span to miss.  Where other connections' spans
come in between does not matter.

**Viewer.**  `WorkInv` relates the queue of signals to what the threads did: a stop
that was asked is flagged (`FlagIsAsked`), an evaluation ends once (`OneEnd`), what is
queued and what is reported carry every planned world or were stopped on request
(`HonestQueue`, `HonestReport`), and a fresh edge has the present epoch (`SameEdge`).
`WinInv` says that a window shows the last view of its profile and the file has it
unless a save is due (`ViewInv`: `ShownAt`), that a process still loading holds it in
its copy unless it was overtaken by a save (`HeldAt`), that the file has it when no
window has (`ClosedAt`), that nobody goes by another version's file (`FileTrusted`) and
two windows of a profile leave its last view undefined (`Alone`), and that a marker is only ever written by the window it announces
(`HandInv`).  `HalfInv` says that a cache without a stamp is the one the present load
is filling.

`ImportInv` adds what a load shows.  On disk lies the beginning of one run's lines,
the last of them perhaps cut (`Written`), and the store beside it is stamped with this
file only when the file is whole (`JsonInv`).  A reader that took `q` readable lines
holds the events among them and knows whether it is before, in or behind the list of
events (`ReadSoFar`, kept by `ReadsOn`); at the end that is what the file has, and
"cut" is what the file is (`Counted`, `ReadExact`).  A stamp is never of a later file
than the present one, and a cache stamped with it by an undisturbed import equals it
(`CacheInv`).  `LoadInv` follows a load that nobody's rewrite overlapped from the
first probe to the signal, `ShownInv` what it delivered.  The lemmas on lines
(`StreamLines`, `Flushed`, `TornLine`) say what the export's concatenation and its
torn prefixes are made of, for any number of events; `ViewerAssumption` says that
runs are numbered from 1 and each has a number of events.

### What is only model-checked, and why

* Liveness (`EventuallySettled`, `FinishTerminates`, `RunEnds`, `ViewerSettles`):
  fairness and ENABLED are outside the prover's reach.
* The counters of a final status that another pass may disturb, and
  `CleanMeansComplete` for other scripts than `Plain` ones: false in general, so the
  runs' instances and the theorems' hypotheses say where they hold.
* Sums over spans, which go through sequences and recursive functions:
  `StoresAgree`, `DerivedExact`, `EfficiencyExact`, `ProjectionConserves`.
* `SelectSeq` and sorting, which the provers do not know: `IterExact`, `RowsKept`,
  `TraceAsWritten`.
* What holds because of what the hooks write, not for every script: the warnings in
  `TraceAsWritten`.  `StackPlaced` is proved where stacks come behind their spans,
  which TLC finds of the run's scripts.
* The modules with recursive operators: `EventGraph`, `PathModel`, `Worlds`,
  `Projection`, `CallTree`, `CausalCompare`, `CompareReport`, `Analysis`, `Timeline`.
* That what is read from perf's text is a sequence (`CaptureAssumption`) is an
  assumption of the proofs and evaluated by TLC: proving it would take induction
  over the text.

## Disagreements with comments and docs

Kept as runs, with the quotation in `PROJECT.json`:

* `tx_hang`: `hp_tx_shutdown` bounds its join and its `drain_mu` lock, then sends
  the final status, which locks `sock_mu` without a bound while the detached
  drain thread sits in `send()` with it.
* `ds_stale`: `update_spans` and `delete_spans` commit the shard before the catalog
  is unmarked; a death in between leaves `finalized = 1` over tables that no
  longer describe the events.
* `mpi_test`: a receive that `MPI_Test` completed is left out of its channel's list,
  and the channel's later pairs are shifted.

Met while modelling, and bounded out of the passing runs by a named constant, a
chosen instance or the property's wording.

Transport and receiver:

* A batch whose send failed is sent again from its beginning
  (`hp_transport.h:226`), so records the first connection took arrive twice, where
  the comment at line 218 says that "a new connection carries the rest".
* The final status is read in two blocks without `drain_mu`: first the global
  counters (`hp_transport.h:252`), then the rings' (`:254`).  A pass of another
  thread in between, by a drain thread that outlived its join or by a second
  shutdown, may free the ring of a thread that has exited and fold its counters
  into the global ones (`:391`); the status then reports neither, and a loss the
  ring had counted stays unreported.  The comment above `:374` has it that "nobody
  else traverses while drain_mu is held".
* A shutdown that gives up on `drain_mu` "counts what is left" (`:647`) only by
  setting `dirty`: no counter includes it.
* The buffer of a batch is allocated by the first pass, and when that fails the
  pass drains nothing (`:378`, `:408`).  A thread that then sends synchronously lets
  its record overtake the ones in its ring, where line 10 says that "Per-thread
  order is preserved"; a shutdown leaves records in the rings that its final status
  counts nowhere, where line 15 says that the transport "never discards silently".
* A thread that emits after its ring's TLS destructor ran gets a second ring in
  front of the first in the registry, and a pass drains it first.
* `final_keys` of a connection is never cleared (`receiver.py:300`): a hook whose
  exec failed and that emitted again and was killed counts as drained.
* After a spool write error later bytes go to memory, and a parser that saw the
  spool's end before its last bytes takes memory first (`receiver.py:341`).
* The accept thread is joined for 2 s (`receiver.py:393`).  If registering a client
  takes longer, that client is not among those `finish()` shuts down, and the
  parser waits for it without a bound.
* A hook that lost a connection has two, and the parser may process the older
  one's last status after the newer one's final status (`receiver.py:303`); a
  record lost with the first then goes unreported.

Store, runner and files:

* A finalized store stays finalized while appended events wait in its buffers: an
  append empties `_derived` (`disk.py:445-448`), but the flag is cleared only when the
  batch is written (`:506-508`).  Lanes, statistics, extents, exclusive time and the activity index are
  read from the saved tables until then, with one thread as well (`:841-863`,
  `:880-890`, `:918-921`, `:953-960`, `:994-1006`), and what was read stays in `_derived`
  after the write, which does not empty it; `base.py:118` says "cleared with the
  other derived results whenever events change".  The memory store answers with
  the new events.  `Fresh` and `StoresAgree` say exactly when this happens.
* With more than one thread in the store: `finalize()` computes without the lock
  and then sets `finalized` without looking at the version (`disk.py:1170`); an
  append while `_derived` is empty does not replace it, so a result being computed
  is stored after the change (`:445`); `save_edges` tags edges with the version at
  saving time (`:1216`).  `Fresh` is therefore claimed for one thread at a time; the
  GUI's background analyses and a GPU poller that outlives its 2 s join
  (`runner.py:718`) are not covered.
* `_conn` closes the least recently used shard connection while a merge may still
  have a cursor on it (`disk.py:391`), at its limit of 256 shards.
* perf's samples stay when there is no disassembly; a directory made under `/tmp`
  because `$TMPDIR` was too long is never removed (`runner.py:325`, `:728`); a command
  that cannot be executed, and a collector address that does not fit, leave the
  socket's or the spool's directory.
* A perf header whose command name has a space loses its sample; a span name
  ending in `:x=...` without tags is read as tags (`runner.py:46`); a stack that finds
  no span is dropped silently; `_resolve_jit_sym` is never reached.
* Without GPU work the disassembly takes every executable, the launcher included.
* `open_trace` stamps the JSON after reading it; two viewers importing the same JSON
  share one cache directory; temporary import directories are never removed.
* A window reads its profile's view from the copy of the settings file its process
  made at the start (`app.py:107`, `:190`, `settings.py:156`), which may be long before a
  large trace is loaded: a view saved in between is not "restored now"
  (`app.py:185`), and the window's own save then overwrites it.  An eviction goes by
  the dates of that copy (`settings.py:169`), so it may take the newer of two
  profiles or leave more than `MAX_PROFILES` in the file, and `reset_all` leaves the
  profiles the copy does not know.
* The view reset by `resetCurrentView` comes back with the save at quit; a watcher
  that is dropped leaves its marker; table layouts are global, so a window
  restored before the old one's last save loses the last changes.
* The child's stderr pipe is never drained; a load cancelled with Ctrl+C exits
  with 130 and is retried by the software tier; `setRowOrder` keeps duplicates.

Analyses:

* `node_edges` packs ten kinds of edges into codes of eight (`projection.py:777`).
* A replay with tolerated edges against time is not exact (`cp_attribution.py:31`
  against `:72`); with a lost send the receive left unpaired is in no world.
* `cp_alternatives._last_arriver` takes the arrival edges of a broadcast's root
  (`criticalpath.py:1362`) for those of a rendezvous, whose source is the one that came
  last ("`>= 0: the builder took the latest start`", `cp_alternatives.py:253`).  When the
  root came first, it offers an edge from a later member to the root, where the
  module says that "An alternative whose source event lies after its destination is
  never generated".  The program `Rooted` has it; `NeverAfter` leaves such edges out.
* The comparison's attribution drops an origin's own opposite change, and is not
  symmetric when the runs are swapped; mutual origins overwrite what they received.
* The merge of three nodes may leave a violation of 1 ns by rounding.
* Correlation ids reused while the first operation is queued link the wrong pair;
  an OpenMP edge whose join is dropped stays with its fork alone.
* The stack algorithm of the call tree makes an overlapped device span a root
  although an outer one contains it; `on_all` is per segment, not per span.

## Not modelled

Unwinding and symbol lookup, the ROCm, OpenCL and NCCL hooks' own bookkeeping,
kernel tracing set-up, disassembly itself, exporters other than the JSON, command
construction, the TUI, widgets and rendering: they call external tools, repeat
another hook's structure or format text and keep no state another part depends
on.  `PROJECT.json` lists each with its reason.  Of `ringbuffer.h` the fixed-slot
ring, the arena and the intern table are used by tests only.

## What is left

The inputs of the disassembly (`DisasmKept`) and the trace's text
(`TraceAsWritten`) are the safety properties closest to a proof; each needs a
script's lines related to the events made of them.
