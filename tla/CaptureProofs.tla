--------------------------- MODULE CaptureProofs ---------------------------
(***************************************************************************)
(* Proofs about Capture: what a run leaves in the file system, what a      *)
(* store that says complete holds and which stacks miss their spans, for   *)
(* every capture (any number of connections and lines), any batch and ring *)
(* size and any number of polls.                                           *)
(***************************************************************************)
EXTENDS Capture, SequenceTheorems, FiniteSetTheorems, WellFoundedInduction, TLAPS

(***************************************************************************)
(* Temporary files.                                                        *)
(***************************************************************************)
Returned == {"returned", "save", "finalize", "export", "join", "done"}
Counted == {"check"} \cup Returned
Received == {"assemble", "script", "annotate", "counters"} \cup Counted

FilesInv ==
    /\ files \subseteq {"socket", "spool_dir", "tmp_dir", "record", "stat"}
    /\ "tmp_dir" \in files => job.place = "tmp"
    /\ stage \in Received => "socket" \notin files /\ "spool_dir" \notin files
    /\ stage \in Counted => "stat" \notin files
    /\ disasm \in {"off", "up", "done", "failed"}
    /\ disasm # "off" => stage \in Returned
    /\ disasm = "done" => "record" \notin files
    /\ stage = "done" => disasm # "up"

LEMMA FilesInit == Init => FilesInv
  BY DEF Init, FilesInv, Returned, Counted, Received

LEMMA FilesStep == FilesInv /\ [Next]_vars => FilesInv'
  <1> SUFFICES ASSUME FilesInv, [Next]_vars PROVE FilesInv'
    OBVIOUS
  <1> USE DEF Returned, Counted, Received
  <1>1. CASE UNCHANGED <<files, disasm, job, stage>>
    BY <1>1 DEF FilesInv
  <1>2. CASE OpenSocket
    BY <1>2 DEF FilesInv, OpenSocket, SocketFiles, procVars
  <1>3. CASE OpenFails \/ StartProgram \/ StartFails \/ StartPoller \/ Wait \/ CollectLook \/ CollectSignal \/ PerfWait \/ PollJoin
    BY <1>3 DEF FilesInv, OpenFails, StartProgram, StartFails, StartPoller, Wait, CollectLook, CollectSignal, PerfWait, PollJoin,
                procVars, restVars
  <1>4. CASE AttachPerf
    <2>1. /\ stage = "perf" /\ stage' = "poll" /\ UNCHANGED <<disasm, job>>
          /\ \E new \in SUBSET {"record", "stat"} : files' = files \cup new
      BY <1>4 DEF AttachPerf
    <2> QED
      BY <2>1 DEF FilesInv
  <1>5. CASE FinishReceiver
    BY <1>5 DEF FilesInv, FinishReceiver, procVars
  <1>6. CASE Assemble \/ PerfScript \/ Annotate \/ RunComplete \/ SaveMeta \/ FinalizeStore \/ Export
    BY <1>6 DEF FilesInv, Assemble, PerfScript, Annotate, RunComplete, SaveMeta, FinalizeStore, Export, procVars, restVars
  <1>7. CASE Counters \/ ZeroCheck \/ JoinDisasm
    BY <1>7 DEF FilesInv, Counters, ZeroCheck, JoinDisasm, procVars
  <1>8. CASE DisasmDone \/ DisasmFails
    BY <1>8 DEF FilesInv, DisasmDone, DisasmFails, DropPerfFile, procVars
  <1>9. CASE Beside
    BY <1>1, <1>8, <1>9 DEF Beside, Connect, HookWrites, Disconnect, ParseLine, ProgramEnds, PollAnswer, PollAgain, procVars, restVars
  <1> QED
    BY <1>1, <1>2, <1>3, <1>4, <1>5, <1>6, <1>7, <1>9 DEF Next, RunStep, Finished, vars

\* A finished run leaves no temporary file but perf's samples when no
\* disassembly read them and the directory made under /tmp (runner.py).
THEOREM LeftoversOnly == Spec => []Leftovers
  <1>1. FilesInv => Leftovers
    BY DEF FilesInv, Leftovers, Received, Counted, Returned
  <1> QED
    BY <1>1, FilesInit, FilesStep, PTL DEF Spec

(***************************************************************************)
(* The store.                                                              *)
(***************************************************************************)
IsSeq(s) == s \in Seq(Range(s))
IsDisk(d) == d = [health |-> d.health, flushed |-> d.flushed, disasm |-> d.disasm, finalized |-> d.finalized]
Assembled == Received \ {"assemble"}
Saved == Returned \ {"returned"}
Announced == Saved \ {"save"}

StoreType ==
    /\ job \in Jobs /\ IsSeq(events) /\ IsDisk(disk)
    /\ disk.flushed \in Nat /\ disk.flushed <= Len(events) /\ done_to \in Nat
    /\ conn = [c \in Conns |-> conn[c]] /\ parsed = [c \in Conns |-> parsed[c]]
    /\ sent = [c \in Conns |-> sent[c]] /\ \A c \in Conns : sent[c] \in Nat
\* The receiver is finished only when nobody can write any more.
Quiet == stage \in Received => Drained /\ \A c \in Conns : conn[c] = "closed"
\* Complete is said only after the receiver finished, and is on disk only
\* after the trace was flushed twice.
HealthInOrder ==
    /\ health = "complete" => stage \in Received
    /\ disk.health = "complete" => stage \in Announced
Correlated == stage \in Assembled => \A p \in DOMAIN events : events[p].kind = "span" => p <= done_to
Stored == stage \in Saved => \A p \in DOMAIN events : events[p].kind # "gpu" => p <= disk.flushed
\* Once the last join is over, disassembly found is in both outputs.
Disassembled == stage = "done" /\ disasm = "done" => disk.disasm /\ json.disasm
StoreInv == StoreType /\ Quiet /\ HealthInOrder /\ Correlated /\ Stored /\ Disassembled

LEMMA FlushKeeps ==
    ASSUME NEW d, IsDisk(d), d.flushed \in Nat, NEW n \in Nat, d.flushed <= n
    PROVE  LET e == Flushed(d, n) IN IsDisk(e) /\ e.flushed = n /\ e.health = d.health /\ e.disasm = d.disasm
  <1> DEFINE a == [d EXCEPT !.flushed = n]
             b == [a EXCEPT !.finalized = FALSE]
  <1>1. IsDisk(a) /\ a.flushed = n /\ a.health = d.health /\ a.disasm = d.disasm
    BY DEF IsDisk
  <1>2. Flushed(d, n) = IF n > d.flushed THEN b ELSE d
    BY DEF Flushed
  <1> HIDE DEF a
  <1>3. \A x : LET c == [a EXCEPT !.finalized = x] IN IsDisk(c) /\ c.flushed = n /\ c.health = d.health /\ c.disasm = d.disasm
    BY <1>1 DEF IsDisk
  <1>4. IsDisk(b) /\ b.flushed = n /\ b.health = d.health /\ b.disasm = d.disasm
    BY <1>3
  <1> HIDE DEF b
  <1> QED
    BY <1>2, <1>4

LEMMA BufferKeeps ==
    ASSUME NEW d, IsDisk(d), d.flushed \in Nat, NEW n \in Nat, d.flushed <= n
    PROVE  LET e == Buffered(d, n)
           IN /\ IsDisk(e) /\ e.flushed \in Nat /\ d.flushed <= e.flushed /\ e.flushed <= n
              /\ e.health = d.health /\ e.disasm = d.disasm
  <1> DEFINE m == n - ((n - d.flushed) % BatchSize)
             a == [d EXCEPT !.flushed = m]
             b == [a EXCEPT !.finalized = FALSE]
  <1>0. ~(n - d.flushed < BatchSize) => m \in Nat /\ d.flushed <= m /\ m <= n
    BY CaptureAssumption
  <1>1. IsDisk(a) /\ a.flushed = m /\ a.health = d.health /\ a.disasm = d.disasm
    BY DEF IsDisk
  <1>2. Buffered(d, n) = IF n - d.flushed < BatchSize THEN d ELSE b
    BY DEF Buffered
  <1> HIDE DEF a, m
  <1>3. \A x : LET c == [a EXCEPT !.finalized = x] IN IsDisk(c) /\ c.flushed = m /\ c.health = d.health /\ c.disasm = d.disasm
    BY <1>1 DEF IsDisk
  <1>4. IsDisk(b) /\ b.flushed = m /\ b.health = d.health /\ b.disasm = d.disasm
    BY <1>3
  <1> HIDE DEF b
  <1> QED
    BY <1>0, <1>2, <1>4

LEMMA Own == ASSUME NEW U, NEW j \in Seq(U) PROVE IsSeq(j)
  BY DEF IsSeq, Range

IsJoin(s, t, j) ==
    /\ IsSeq(j) /\ Len(s) \in Nat /\ Len(t) \in Nat /\ Len(j) = Len(s) + Len(t)
    /\ DOMAIN s = 1 .. Len(s)
    /\ \A p \in DOMAIN j : \/ p \in DOMAIN s /\ j[p] = s[p]
                           \/ \E i \in DOMAIN t : p = Len(s) + i /\ j[p] = t[i]
LEMMA Joined ==
    ASSUME NEW s, IsSeq(s), NEW t, IsSeq(t), NEW j, j = s \o t
    PROVE  IsJoin(s, t, j)
  <1> DEFINE U == Range(s) \cup Range(t)
  <1>1. s \in Seq(U) /\ t \in Seq(U)
    BY DEF IsSeq
  <1>2. /\ j \in Seq(U) /\ Len(s) \in Nat /\ Len(t) \in Nat /\ Len(j) = Len(s) + Len(t)
        /\ DOMAIN s = 1 .. Len(s) /\ DOMAIN t = 1 .. Len(t) /\ DOMAIN j = 1 .. Len(s) + Len(t)
        /\ \A p \in 1 .. Len(s) + Len(t) : j[p] = IF p <= Len(s) THEN s[p] ELSE t[p - Len(s)]
    <2> HIDE DEF U
    <2> QED
      BY <1>1, ConcatProperties
  <1> HIDE DEF U
  <1>3. IsSeq(j)
    BY <1>2, Own, Zenon
  <1>4. ASSUME NEW p \in DOMAIN j
        PROVE (p \in DOMAIN s /\ j[p] = s[p]) \/ \E i \in DOMAIN t : p = Len(s) + i /\ j[p] = t[i]
    <2>1. CASE p <= Len(s)
      BY <1>2, <2>1
    <2>2. CASE ~(p <= Len(s))
      <3>1. p - Len(s) \in DOMAIN t /\ p = Len(s) + (p - Len(s)) /\ j[p] = t[p - Len(s)]
        BY <1>2, <2>2
      <3> QED
        BY <3>1
    <2> QED
      BY <2>1, <2>2
  <1> QED
    BY <1>2, <1>3, <1>4 DEF IsJoin

\* Adding events: those before stay where they are.
LEMMA Added ==
    ASSUME StoreType, NEW es, IsSeq(es), AddAll(es)
    PROVE  /\ IsSeq(events') /\ IsDisk(disk') /\ disk'.flushed \in Nat /\ disk'.flushed <= Len(events')
           /\ disk.flushed <= disk'.flushed /\ disk'.health = disk.health /\ disk'.disasm = disk.disasm
           /\ DOMAIN events = 1 .. Len(events) /\ Len(events) \in Nat
           /\ \A p \in DOMAIN events' : \/ p \in DOMAIN events /\ events'[p] = events[p]
                                        \/ \E i \in DOMAIN es : p = Len(events) + i /\ events'[p] = es[i]
  <1>1. events' = events \o es /\ disk' = Buffered(disk, Len(events) + Len(es))
    BY DEF AddAll
  <1>2. IsJoin(events, es, events')
    <2>1. IsSeq(events)
      BY DEF StoreType
    <2> QED
      BY <1>1, <2>1, Joined
  <1>3. /\ IsDisk(disk') /\ disk'.flushed \in Nat /\ disk.flushed <= disk'.flushed /\ disk'.flushed <= Len(events')
        /\ disk'.health = disk.health /\ disk'.disasm = disk.disasm
    <2>1. /\ IsDisk(disk) /\ disk.flushed \in Nat /\ disk.flushed <= Len(events) + Len(es)
          /\ Len(events) + Len(es) \in Nat /\ Len(events') = Len(events) + Len(es)
      BY <1>2 DEF StoreType, IsJoin
    <2> QED
      BY <1>1, <2>1, BufferKeeps
  <1> QED
    BY <1>2, <1>3 DEF IsJoin

\* A query of the trace, and the flush before it.
LEMMA Queried ==
    ASSUME StoreType
    PROVE  LET e == Flushed(disk, Len(events))
           IN /\ IsDisk(e) /\ e.flushed = Len(events) /\ e.health = disk.health /\ e.disasm = disk.disasm
              /\ Len(events) \in Nat /\ DOMAIN events = 1 .. Len(events)
  <1>1. Len(events) \in Nat /\ DOMAIN events = 1 .. Len(events)
    BY DEF StoreType, IsSeq
  <1>2. IsDisk(disk) /\ disk.flushed \in Nat /\ disk.flushed <= Len(events)
    BY DEF StoreType
  <1> QED
    BY <1>1, <1>2, FlushKeeps

(***************************************************************************)
(* What the post-processing adds is never a hook's span.                   *)
(***************************************************************************)
Extra(es) == IsSeq(es) /\ \A i \in DOMAIN es : es[i].kind # "span"

LEMMA OneExtra == \A e : e.kind # "span" => Extra(<<e>>)
  <1> TAKE e
  <1> HAVE e.kind # "span"
  <1>1. <<e>> \in Seq({e}) /\ DOMAIN <<e>> = {1} /\ <<e>>[1] = e
    OBVIOUS
  <1> QED
    BY <1>1, Own DEF Extra

LEMMA SamplesExtra == job \in Jobs => Extra(SpansRead(job))
  <1> SUFFICES ASSUME job \in Jobs PROVE Extra(SpansRead(job))
    OBVIOUS
  <1>1. IsSeq(SpansRead(job))
    BY CaptureAssumption DEF IsSeq
  <1>2. \A head, stk, w : Flush(head, stk, w).kind # "span"
    BY DEF Flush, Sample
  <1>3. \A lines, w : \A i \in DOMAIN ParsePerfScript(lines, w) : ParsePerfScript(lines, w)[i].kind # "span"
    BY <1>2 DEF ParsePerfScript
  <1> QED
    BY <1>1, <1>3 DEF Extra, SpansRead

LEMMA CountersExtra == \A r : Extra(Microarch(ParsePerfStat(r)) \o MaxRss) /\ Extra(Microarch(<<>>) \o MaxRss)
  <1>1. \A m : IsSeq(Metric(m))
    <2> TAKE m
    <2>1. <<m>> \in Seq({m}) /\ <<>> \in Seq({m})
      OBVIOUS
    <2> QED
      BY <2>1, Own DEF Metric
  <1>2. \A r : IsSeq(ParsePerfStat(r))
    <2> TAKE r
    <2> DEFINE a == Metric(<<"ipc", Total(r, "instructions"), Total(r, "cycles")>>)
               b == Metric(<<"cache_miss_pct", Total(r, "cache-misses"), Total(r, "cache-references")>>)
               c == Metric(<<"branch_miss_pct", Total(r, "branch-misses"), Total(r, "branches")>>)
    <2>1. IsSeq(a) /\ IsSeq(b) /\ IsSeq(c)
      BY <1>1
    <2>2. ParsePerfStat(r) = (a \o b) \o c
      BY DEF ParsePerfStat
    <2> HIDE DEF a, b, c
    <2>3. IsSeq(a \o b)
      BY <2>1, Joined DEF IsJoin
    <2> QED
      BY <2>1, <2>2, <2>3, Joined DEF IsJoin
  <1>3. ASSUME NEW ms, IsSeq(ms) PROVE Extra(Microarch(ms) \o MaxRss)
    <2>1. Extra(Microarch(ms))
      <3> DEFINE v == Microarch(ms)
      <3>1. DOMAIN ms = 1 .. Len(ms) /\ Len(ms) \in Nat
        BY <1>3 DEF IsSeq
      <3>2. v = [i \in 1 .. Len(ms) |-> [kind |-> "micro", is |-> ms[i]]]
        BY <3>1 DEF Microarch
      <3>3. v \in Seq({[kind |-> "micro", is |-> ms[i]] : i \in DOMAIN ms})
        BY <3>1, <3>2
      <3>4. IsSeq(v)
        BY <3>3, Own
      <3> QED
        BY <3>2, <3>4 DEF Extra
    <2>2. Extra(MaxRss)
      BY OneExtra DEF MaxRss
    <2> DEFINE a == Microarch(ms)
               b == MaxRss
               j == a \o b
    <2>3. Extra(a) /\ Extra(b) /\ IsJoin(a, b, j)
      BY <2>1, <2>2, Joined DEF Extra
    <2> HIDE DEF a, b
    <2>4. Extra(j)
      <3> HIDE DEF j
      <3> QED
        BY <2>3 DEF Extra, IsJoin
    <2> QED
      BY <2>4 DEF a, b
  <1>4. IsSeq(<<>>)
    BY DEF IsSeq
  <1> QED
    BY <1>2, <1>3, <1>4

(***************************************************************************)
(* The inductive step, by what an action does to the store.                *)
(***************************************************************************)
Hooks == <<job, conn, sent, parsed>>

LEMMA StoreInit == Init => StoreInv
  <1> SUFFICES ASSUME Init PROVE StoreInv
    OBVIOUS
  <1>1. IsSeq(<<>>)
    BY DEF IsSeq
  <1>2. StoreType
    BY <1>1 DEF StoreType, Init, IsDisk, NoFile
  <1> QED
    BY <1>2 DEF StoreInv, Init, Quiet, HealthInOrder, Correlated, Stored, Disassembled, NoFile,
                Received, Counted, Returned, Assembled, Saved, Announced

\* Events are added after the hooks' own are in, and the stage only moves
\* on among the stages between the same two flushes.
Moved == \/ stage' = stage
         \/ stage = "script" /\ stage' = "annotate"
         \/ stage = "counters" /\ stage' = "check"
LEMMA AddStep ==
    ASSUME StoreInv, NEW es, Extra(es), AddAll(es), Moved, stage \in Saved => \A i \in DOMAIN es : es[i].kind = "gpu",
           UNCHANGED <<Hooks, health, done_to, disasm, json>>
    PROVE  StoreInv'
  <1> USE DEF Received, Counted, Returned, Assembled, Saved, Announced
  <1>0. StoreType
    BY DEF StoreInv
  <1>1. /\ IsSeq(events') /\ IsDisk(disk') /\ disk'.flushed \in Nat /\ disk'.flushed <= Len(events')
        /\ disk.flushed <= disk'.flushed /\ disk'.health = disk.health /\ disk'.disasm = disk.disasm
        /\ \A p \in DOMAIN events' : \/ p \in DOMAIN events /\ events'[p] = events[p]
                                     \/ \E i \in DOMAIN es : p = Len(events) + i /\ events'[p] = es[i]
    BY <1>0, Added DEF Extra
  <1>2. StoreType'
    BY <1>0, <1>1 DEF StoreType, Hooks, Conns, Script
  <1>3. Quiet' /\ HealthInOrder' /\ Disassembled'
    BY <1>1 DEF StoreInv, Quiet, HealthInOrder, Disassembled, Moved, Hooks, Conns, Script, Drained
  <1>4. Correlated'
    BY <1>1 DEF StoreInv, Correlated, Moved, Extra
  <1>5. Stored'
    <2> SUFFICES ASSUME stage' \in Saved, NEW p \in DOMAIN events', events'[p].kind # "gpu"
                 PROVE  p <= disk'.flushed
      BY DEF Stored
    <2>1. stage \in Saved
      BY DEF Moved
    <2>2. p \in DOMAIN events /\ events'[p] = events[p]
      BY <1>1, <2>1
    <2>3. p <= disk.flushed /\ p \in Int
      BY <2>1, <2>2, <1>0 DEF StoreInv, Stored, StoreType, IsSeq
    <2> QED
      BY <1>0, <1>1, <2>3 DEF StoreType
  <1> QED
    BY <1>2, <1>3, <1>4, <1>5 DEF StoreInv

\* The trace is left alone or flushed.
Asked == disk' = disk \/ (IsDisk(disk') /\ disk'.flushed = Len(events) /\ disk'.health = disk.health /\ disk'.disasm = disk.disasm)
LEMMA AskStep ==
    ASSUME StoreInv, Asked, UNCHANGED <<Hooks, events, health>>,
           \/ stage' = stage /\ done_to' = done_to /\ UNCHANGED json /\ (stage = "done" => disasm' = disasm)
           \/ stage = "assemble" /\ stage' = "script" /\ done_to' = Len(events)
           \/ /\ done_to' = done_to
              /\ \/ stage = "annotate" /\ stage' = "counters"
                 \/ stage = "check" /\ stage' = "returned"
                 \/ stage = "returned" /\ stage' = "save" /\ disk'.flushed = Len(events)
                 \/ stage = "finalize" /\ stage' = "export"
                 \/ stage = "export" /\ stage' = "join"
    PROVE  StoreInv'
  <1> USE DEF Received, Counted, Returned, Assembled, Saved, Announced
  <1>0. StoreType /\ Len(events) \in Nat /\ DOMAIN events = 1 .. Len(events)
    BY Queried DEF StoreInv
  <1>1. /\ IsDisk(disk') /\ disk'.flushed \in Nat /\ disk.flushed <= disk'.flushed /\ disk'.flushed <= Len(events)
        /\ disk'.health = disk.health /\ disk'.disasm = disk.disasm
    BY <1>0 DEF StoreType, Asked
  <1>2. StoreType'
    BY <1>0, <1>1 DEF StoreType, Hooks, Conns, Script
  <1>3. Quiet' /\ HealthInOrder' /\ Disassembled'
    BY <1>1 DEF StoreInv, Quiet, HealthInOrder, Disassembled, Hooks, Conns, Script, Drained
  <1>4. Correlated'
    BY <1>0 DEF StoreInv, Correlated
  <1>5. Stored'
    BY <1>0, <1>1 DEF StoreInv, Stored, StoreType
  <1> QED
    BY <1>2, <1>3, <1>4, <1>5 DEF StoreInv

\* Before the receiver has finished nothing is promised yet.
LEMMA EarlyStep ==
    ASSUME StoreInv, StoreType', stage' \notin Received, health' # "complete", disk'.health # "complete"
    PROVE  StoreInv'
  BY DEF StoreInv, Quiet, HealthInOrder, Correlated, Stored, Disassembled, Received, Counted, Returned, Assembled, Saved, Announced

LEMMA StoreStep == StoreInv /\ FilesInv /\ [Next]_vars => StoreInv'
  <1> SUFFICES ASSUME StoreInv, FilesInv, [Next]_vars PROVE StoreInv'
    OBVIOUS
  <1> USE DEF Received, Counted, Returned, Assembled, Saved, Announced
  <1>0. StoreType /\ job \in Jobs
    BY DEF StoreInv, StoreType
  <1>1. CASE UNCHANGED <<Hooks, events, disk, health, done_to, disasm, json, stage>>
    BY <1>1, AskStep DEF Asked, Hooks
  <1>2. CASE OpenSocket
    <2>1. IsDisk(disk') /\ disk'.health = "running" /\ disk'.flushed = disk.flushed
      BY <1>0, <1>2 DEF OpenSocket, StoreType, IsDisk
    <2> QED
      BY <1>0, <1>2, <2>1, EarlyStep DEF OpenSocket, StoreType, procVars, connVars, Conns, Script
  <1>3. CASE OpenFails \/ StartProgram \/ StartFails \/ AttachPerf \/ StartPoller \/ Wait \/ CollectLook \/ CollectSignal
             \/ PerfWait \/ PollJoin
    <2>1. /\ UNCHANGED <<Hooks, events, disk, health, done_to>> /\ stage' \notin Received /\ stage \notin Received
      BY <1>3 DEF OpenFails, StartProgram, StartFails, AttachPerf, StartPoller, Wait, CollectLook, CollectSignal, PerfWait, PollJoin,
                  procVars, connVars, storeVars, restVars, Hooks
    <2>2. StoreType'
      BY <1>0, <2>1 DEF StoreType, Hooks, Conns, Script
    <2> QED
      BY <2>1, <2>2, EarlyStep DEF StoreInv, HealthInOrder
  <1>4. CASE FinishReceiver
    <2>1. /\ stage = "finish" /\ stage' = "assemble" /\ UNCHANGED <<job, sent, parsed, events, disk, done_to>>
          /\ Drained /\ conn' = [c \in Conns |-> "closed"]
      BY <1>4 DEF FinishReceiver, procVars, storeVars
    <2>2. StoreType'
      BY <1>0, <2>1 DEF StoreType, Conns, Script
    <2> QED
      BY <2>1, <2>2 DEF StoreInv, Quiet, HealthInOrder, Correlated, Stored, Disassembled, Drained, Conns, Script
  <1>5. CASE Assemble \/ Annotate \/ ZeroCheck \/ RunComplete \/ Export
    <2>1. Asked /\ UNCHANGED <<Hooks, events, health>> /\ (stage = "returned" => disk'.flushed = Len(events))
      BY <1>0, <1>5, Queried DEF Asked, Assemble, Annotate, ZeroCheck, RunComplete, Export, procVars, connVars, restVars, Hooks
    <2>2. CASE Assemble
      BY <2>1, <2>2, AskStep DEF Assemble
    <2>3. CASE Annotate \/ ZeroCheck \/ RunComplete \/ Export
      BY <2>1, <2>3, AskStep DEF Annotate, ZeroCheck, RunComplete, Export, restVars
    <2> QED
      BY <1>5, <2>2, <2>3
  <1>6. CASE FinalizeStore
    <2> DEFINE f == Flushed(disk, Len(events))
    <2>1. IsDisk(f) /\ f.flushed = Len(events) /\ f.health = disk.health /\ f.disasm = disk.disasm
      BY <1>0, Queried
    <2>2. disk' = [f EXCEPT !.finalized = TRUE] /\ stage = "finalize" /\ stage' = "export" /\ UNCHANGED <<Hooks, events, health, done_to>>
      BY <1>6 DEF FinalizeStore, procVars, connVars, restVars, Hooks
    <2> HIDE DEF f
    <2>3. \A x : LET e == [f EXCEPT !.finalized = x]
                 IN IsDisk(e) /\ e.flushed = Len(events) /\ e.health = disk.health /\ e.disasm = disk.disasm
      BY <2>1 DEF IsDisk
    <2>4. Asked
      BY <2>2, <2>3 DEF Asked
    <2> QED
      BY <2>2, <2>4, AskStep
  <1>7. CASE SaveMeta
    <2>1. \A x, y : LET e == [[disk EXCEPT !.health = x] EXCEPT !.disasm = y] IN IsDisk(e) /\ e.health = x /\ e.flushed = disk.flushed
      <3> TAKE x, y
      <3> DEFINE a == [disk EXCEPT !.health = x]
      <3>1. IsDisk(a) /\ a.health = x /\ a.flushed = disk.flushed
        BY SMTT(30), <1>0 DEF StoreType, IsDisk
      <3> HIDE DEF a
      <3>2. LET e == [a EXCEPT !.disasm = y] IN IsDisk(e) /\ e.health = x /\ e.flushed = disk.flushed
        BY <3>1 DEF IsDisk
      <3> QED
        BY <3>2 DEF a
    <2>2. disk' = [[disk EXCEPT !.health = health] EXCEPT !.disasm = (disasm = "done")]
      BY <1>7 DEF SaveMeta
    <2>3. IsDisk(disk') /\ disk'.flushed = disk.flushed
      BY <2>1, <2>2
    <2>4. /\ stage = "save" /\ stage' = "finalize" /\ UNCHANGED <<Hooks, events, health, done_to, disasm, json>>
      BY <1>7 DEF SaveMeta, procVars, connVars, restVars, Hooks
    <2>5. StoreType'
      BY <1>0, <2>3, <2>4 DEF StoreType, Hooks, Conns, Script
    <2> QED
      BY <2>3, <2>4, <2>5 DEF StoreInv, Quiet, HealthInOrder, Correlated, Stored, Disassembled, Drained, Conns, Script, Hooks
  <1>8. CASE JoinDisasm
    <2> DEFINE f == Flushed(disk, Len(events))
    <2>1. /\ IsDisk(f) /\ f.flushed = Len(events) /\ f.health = disk.health /\ Len(events) \in Nat
          /\ DOMAIN events = 1 .. Len(events)
      BY <1>0, Queried
    <2>2. /\ stage = "join" /\ stage' = "done" /\ UNCHANGED <<Hooks, events, health, done_to, disasm>>
          /\ \/ disk' = [f EXCEPT !.disasm = TRUE] /\ json' = [n |-> Len(events), disasm |-> TRUE]
             \/ disasm # "done" /\ disk' = disk
      BY <1>8 DEF JoinDisasm, procVars, connVars, Hooks
    <2> HIDE DEF f
    <2>3. \A x : LET e == [f EXCEPT !.disasm = x]
                 IN IsDisk(e) /\ e.flushed = Len(events) /\ e.health = disk.health /\ (x => e.disasm)
      BY <2>1 DEF IsDisk
    <2>4. /\ IsDisk(disk') /\ disk'.flushed \in {Len(events), disk.flushed} /\ disk'.health = disk.health
          /\ disasm = "done" => disk'.disasm
      BY <1>0, <2>2, <2>3 DEF StoreType
    <2>5. disasm = "done" => json'.disasm
      BY <2>2
    <2>6. stage = "join" /\ stage' = "done" /\ UNCHANGED <<Hooks, events, health, done_to, disasm>>
      BY <2>2
    <2>7. Len(events) \in Nat /\ DOMAIN events = 1 .. Len(events)
      BY <2>1
    <2>8. StoreType'
      BY <1>0, <2>4, <2>6, <2>7 DEF StoreType, Hooks, Conns, Script
    <2>9. Disassembled'
      BY <2>2, <2>4, <2>5 DEF Disassembled
    <2>10. Quiet' /\ HealthInOrder' /\ Correlated'
      BY <2>4, <2>6 DEF StoreInv, Quiet, HealthInOrder, Correlated, Drained, Conns, Script, Hooks
    <2>11. Stored'
      BY <1>0, <2>4, <2>6, <2>7 DEF StoreInv, StoreType, Stored
    <2> QED
      BY <2>8, <2>9, <2>10, <2>11 DEF StoreInv
  <1>9. CASE PerfScript
    <2>1. UNCHANGED <<Hooks, health, done_to, disasm, json>> /\ stage = "script" /\ stage' = "annotate"
      BY <1>9 DEF PerfScript, procVars, connVars, restVars, Hooks
    <2>2. CASE AddAll(SpansRead(job))
      BY <1>0, <2>1, <2>2, SamplesExtra, AddStep DEF Moved
    <2>3. CASE UNCHANGED storeVars
      BY <1>0, <2>1, <2>3 DEF storeVars, StoreInv, StoreType, Quiet, HealthInOrder, Correlated, Stored, Disassembled, Drained,
                              Conns, Script, Hooks
    <2> QED
      BY <1>9, <2>2, <2>3 DEF PerfScript
  <1>10. CASE Counters
    <2>1. UNCHANGED <<Hooks, health, done_to, disasm, json>> /\ stage = "counters" /\ stage' = "check"
      BY <1>10 DEF Counters, procVars, connVars, Hooks
    <2>2. \E es : Extra(es) /\ AddAll(es)
      BY <1>10, CountersExtra DEF Counters
    <2> QED
      BY <2>1, <2>2, AddStep DEF Moved
  <1>11. CASE DisasmDone \/ DisasmFails
    <2>1. Asked /\ UNCHANGED <<Hooks, events, health, done_to, json, stage>> /\ stage # "done"
      BY <1>0, <1>11, Queried DEF Asked, DisasmDone, DisasmFails, procVars, connVars, Hooks, FilesInv
    <2> QED
      BY <2>1, AskStep
  <1>12. CASE PollAnswer
    <2>1. UNCHANGED <<Hooks, health, done_to, disasm, json, stage>>
      BY <1>12 DEF PollAnswer, procVars, connVars, restVars, Hooks
    <2>2. CASE Add([kind |-> "gpu"])
      <3> DEFINE e == [kind |-> "gpu"]
      <3>1. Extra(<<e>>) /\ \A i \in DOMAIN <<e>> : <<e>>[i].kind = "gpu"
        BY OneExtra
      <3> QED
        BY <2>1, <2>2, <3>1, AddStep DEF Moved, Add
    <2> QED
      BY <1>1, <1>12, <2>1, <2>2 DEF PollAnswer, storeVars
  <1>13. ASSUME NEW c \in Conns, Connect(c) \/ HookWrites(c) \/ Disconnect(c) PROVE StoreInv'
    <2>1. /\ UNCHANGED <<job, parsed, events, disk, health, done_to, disasm, json, stage>>
          /\ conn[c] # "closed" /\ conn' = [x \in Conns |-> conn'[x]]
          /\ sent' = [x \in Conns |-> sent'[x]] /\ \A x \in Conns : sent'[x] \in Nat
      BY SMTT(30), <1>0, <1>13 DEF StoreType, Connect, HookWrites, Disconnect, procVars, storeVars, restVars
    <2>2. stage \notin Received
      BY <2>1 DEF StoreInv, Quiet
    <2>3. StoreType'
      BY <1>0, <2>1 DEF StoreType, Conns, Script
    <2> QED
      BY <2>1, <2>2, <2>3, EarlyStep DEF StoreInv, HealthInOrder
  <1>14. ASSUME NEW c \in Conns, ParseLine(c) PROVE StoreInv'
    <2>1. /\ UNCHANGED <<job, conn, sent, health, done_to, disasm, json, stage>>
          /\ parsed' = [x \in Conns |-> parsed'[x]] /\ parsed[c] < sent[c]
          /\ (\E e : Add(e)) \/ UNCHANGED storeVars
      BY ZenonT(60), <1>0, <1>14 DEF StoreType, ParseLine, HandleKnown, HandleStk, HandleGpuact, HandlePcsa, NoteLine, procVars, restVars
    <2>2. stage \notin Received
      BY <1>0, <2>1 DEF StoreInv, Quiet, Drained, StoreType
    <2>3. CASE UNCHANGED storeVars
      <3>1. StoreType'
        BY <1>0, <2>1, <2>3 DEF StoreType, Conns, Script, storeVars
      <3> QED
        BY <2>1, <2>2, <2>3, <3>1, EarlyStep DEF StoreInv, HealthInOrder, storeVars
    <2>4. ASSUME NEW e, Add(e) PROVE StoreInv'
      <3>1. IsSeq(<<e>>)
        <4>1. <<e>> \in Seq({e})
          OBVIOUS
        <4> QED
          BY <4>1, Own
      <3>2. /\ IsSeq(events') /\ IsDisk(disk') /\ disk'.flushed \in Nat /\ disk'.flushed <= Len(events')
            /\ disk'.health = disk.health
        BY <1>0, <2>4, <3>1, Added DEF Add
      <3>3. StoreType'
        BY <1>0, <2>1, <3>2 DEF StoreType, Conns, Script
      <3> QED
        BY <2>1, <2>2, <3>2, <3>3, EarlyStep DEF StoreInv, HealthInOrder
    <2> QED
      BY <2>1, <2>3, <2>4
  <1>15. CASE Beside
    <2>1. CASE ProgramEnds \/ PollAgain
      BY <1>1, <2>1 DEF ProgramEnds, PollAgain, connVars, storeVars, restVars, procVars, Hooks
    <2> QED
      BY <1>11, <1>12, <1>13, <1>14, <1>15, <2>1 DEF Beside
  <1>16. CASE Finished \/ UNCHANGED vars
    BY <1>1, <1>16 DEF Finished, vars, Hooks
  <1> QED
    BY <1>2, <1>3, <1>4, <1>5, <1>6, <1>7, <1>8, <1>9, <1>10, <1>15, <1>16 DEF Next, RunStep

\* A store that says complete holds every record the hooks had written and
\* the spans in it are correlated, whenever the collector was killed
\* (runner.py capture_health, Trace.finalize).
THEOREM CompleteIsStored == Spec => []CompleteMeansStored
  <1>1. StoreInv => CompleteMeansStored
    <2> SUFFICES ASSUME StoreInv, Reopened = "complete" PROVE CompleteMeansStored
      BY DEF CompleteMeansStored
    <2>1. disk.health = "complete"
      BY DEF Reopened
    <2>2. stage \in Announced
      BY <2>1 DEF StoreInv, HealthInOrder
    <2>3. Drained
      BY <2>2 DEF StoreInv, Quiet, Received, Counted, Returned, Announced, Saved
    <2>4. DOMAIN events = 1 .. Len(events) /\ Len(events) \in Nat /\ disk.flushed \in Nat /\ done_to \in Nat
      BY Queried DEF StoreInv, StoreType
    <2>5. Handled \subseteq 1 .. disk.flushed
      BY <2>2, <2>4 DEF StoreInv, Stored, Announced, Handled
    <2>6. {p \in DOMAIN events : events[p].kind = "span"} \subseteq 1 .. done_to
      BY <2>2, <2>4 DEF StoreInv, Correlated, Assembled, Received, Counted, Returned, Announced, Saved
    <2> QED
      BY <2>3, <2>5, <2>6 DEF CompleteMeansStored
  <1> QED
    BY <1>1, FilesInit, FilesStep, StoreInit, StoreStep, PTL DEF Spec

\* Disassembly found, however late, is in the store and in the exported
\* JSON when the command ends (the last join and what follows it).
THEOREM DisasmStored == Spec => [](stage = "done" /\ disasm = "done" => disk.disasm /\ json.disasm)
  <1>1. StoreInv => (stage = "done" /\ disasm = "done" => disk.disasm /\ json.disasm)
    BY DEF StoreInv, Disassembled
  <1> QED
    BY <1>1, FilesInit, FilesStep, StoreInit, StoreStep, PTL DEF Spec


(***************************************************************************)
(* Stacks find their spans.                                                *)
(***************************************************************************)
\* emit_callstack() is called right after the span record it annotates, on
\* the same thread (src/hooks/common/callstack.h): where that record was not
\* lost, a connection has a stack's span before the stack.
EventOf(l) == IF l.kind \in Known THEN ParseRecord(l.kind, Segments(l)) ELSE NoEvent
SpanFor(l, stk) ==
    LET e == EventOf(l)
    IN e.kind = "span" /\ <<e.pid, e.tid>> = <<stk.segs[1].v, stk.segs[2].v>> /\ e.start = stk.segs[3].v
StacksFollowSpans ==
    \A c \in Conns : /\ Len(Script[c]) \in Nat
                     /\ \A i \in 1 .. Len(Script[c]) : IsStk(Script[c][i]) => \E k \in 1 .. i - 1 : SpanFor(Script[c][k], Script[c][i])

\* What was parsed is in the trace, and was sent.
Told ==
    \A c \in Conns : /\ parsed[c] \in Nat /\ parsed[c] <= sent[c] /\ (Len(Script[c]) \in Nat => sent[c] <= Len(Script[c]))
                     /\ \A i \in 1 .. parsed[c] : EventOf(Script[c][i]) # NoEvent => EventOf(Script[c][i]) \in Range(events)
\* A thread's ring has the positions of its last spans: all of them, or as
\* many as it holds.
IsRing(r, S) ==
    /\ r \in Seq(Nat) /\ Len(r) <= Recent
    /\ \A i \in 1 .. Len(r) : r[i] \in S /\ \A j \in 1 .. i - 1 : r[j] < r[i]
    /\ \A p \in S : (\E i \in 1 .. Len(r) : r[i] = p) \/ (Len(r) = Recent /\ \A i \in 1 .. Len(r) : p < r[i])
Rings == \A th : IsRing(Ring(th), SpansOf(th))
StackInv == Told /\ Rings /\ (StacksFollowSpans => StackPlaced)

\* A set of numbers has a least one, and a bounded one a greatest.
LEMMA Least ==
    ASSUME NEW T, T \subseteq Nat, T # {}
    PROVE  \E x \in T : \A y \in T : x <= y
  <1>1. PICK x \in T : \A y \in T : ~(<<y, x>> \in OpToRel(<, Nat))
    BY NatLessThanWellFounded, WFMin
  <1>2. \A y \in T : ~(y < x)
    BY <1>1 DEF OpToRel
  <1> QED
    BY <1>2

LEMMA Greatest ==
    ASSUME NEW n \in Nat, NEW T, T \subseteq 1 .. n, T # {}
    PROVE  \E x \in T : \A y \in T : y <= x
  <1> DEFINE S == {m \in Nat : n - m \in T}
  <1>1. S # {}
    <2>1. PICK x \in T : TRUE
      OBVIOUS
    <2>2. n - x \in Nat /\ n - (n - x) = x
      BY <2>1
    <2> QED
      BY <2>1, <2>2
  <1>2. PICK x \in S : \A y \in S : x <= y
    BY <1>1, Least
  <1>3. ASSUME NEW y \in T PROVE y <= n - x
    <2>1. n - y \in Nat /\ n - (n - y) = y
      OBVIOUS
    <2>2. n - y \in S
      BY <2>1
    <2> QED
      BY <1>2, <2>2
  <1> QED
    BY <1>2, <1>3

\* A span more in its thread's ring, the oldest out of a full one.
LEMMA Remembered ==
    ASSUME NEW n \in Nat, NEW S, S \subseteq 1 .. n, NEW r, IsRing(r, S)
    PROVE  LET s == Append(r, n + 1)
           IN IsRing(IF Len(s) > Recent THEN Tail(s) ELSE s, S \cup {n + 1})
  <1> DEFINE s == Append(r, n + 1)
             t == Tail(s)
             m == Len(r)
             T == S \cup {n + 1}
  <1>0. r \in Seq(Nat) /\ m \in Nat /\ m <= Recent /\ Recent \in Nat
    BY CaptureAssumption DEF IsRing
  <1>1. s \in Seq(Nat) /\ Len(s) = m + 1 /\ s[m + 1] = n + 1 /\ \A i \in 1 .. m : s[i] = r[i]
    BY <1>0
  <1>2. t \in Seq(Nat) /\ Len(t) = m /\ \A i \in 1 .. m : t[i] = s[i + 1]
    BY <1>1
  <1> HIDE DEF s, t
  <1>3. \A i \in 1 .. m + 1 : s[i] \in T /\ \A j \in 1 .. i - 1 : s[j] < s[i]
    <2> SUFFICES ASSUME NEW i \in 1 .. m + 1 PROVE s[i] \in T /\ \A j \in 1 .. i - 1 : s[j] < s[i]
      OBVIOUS
    <2>1. CASE i <= m
      <3>1. i \in 1 .. m /\ \A j \in 1 .. i - 1 : j \in 1 .. m
        BY <1>0, <2>1
      <3>2. r[i] \in S /\ \A j \in 1 .. i - 1 : r[j] < r[i]
        BY <3>1 DEF IsRing
      <3> QED
        BY <1>1, <3>1, <3>2
    <2>2. CASE i = m + 1
      <3>1. \A j \in 1 .. m : r[j] \in S
        BY DEF IsRing
      <3>2. \A j \in 1 .. m : s[j] < n + 1
        BY <1>1, <3>1
      <3>3. \A j \in 1 .. i - 1 : j \in 1 .. m
        BY <1>0, <2>2
      <3> QED
        BY <1>1, <2>2, <3>2, <3>3
    <2> QED
      BY <1>0, <2>1, <2>2
  <1>4. \A p \in T : (\E i \in 1 .. m + 1 : s[i] = p) \/ (m = Recent /\ \A i \in 1 .. m + 1 : p < s[i])
    <2> SUFFICES ASSUME NEW p \in S PROVE (\E i \in 1 .. m + 1 : s[i] = p) \/ (m = Recent /\ \A i \in 1 .. m + 1 : p < s[i])
      BY <1>0, <1>1
    <2>1. CASE \E i \in 1 .. m : r[i] = p
      <3>1. PICK i \in 1 .. m : r[i] = p
        BY <2>1
      <3>2. i \in 1 .. m + 1 /\ s[i] = p
        BY <1>0, <1>1, <3>1
      <3> QED
        BY <3>2
    <2>2. CASE m = Recent /\ \A i \in 1 .. m : p < r[i]
      BY <1>0, <1>1, <2>2
    <2> QED
      BY <2>1, <2>2 DEF IsRing
  <1>5. CASE ~(Len(s) > Recent)
    <2>1. m # Recent
      BY <1>0, <1>1, <1>5
    <2> QED
      BY <1>0, <1>1, <1>3, <1>4, <1>5, <2>1 DEF IsRing, s
  <1>6. CASE Len(s) > Recent
    <2>1. m = Recent
      BY <1>0, <1>1, <1>6
    <2>2. ASSUME NEW i \in 1 .. m PROVE t[i] \in T /\ \A j \in 1 .. i - 1 : t[j] < t[i]
      <3>1. i + 1 \in 1 .. m + 1 /\ \A j \in 1 .. i - 1 : j \in 1 .. m /\ j + 1 \in 1 .. (i + 1) - 1
        BY <1>0
      <3> QED
        BY <1>2, <1>3, <3>1
    <2>3. ASSUME NEW p \in T PROVE (\E i \in 1 .. m : t[i] = p) \/ \A i \in 1 .. m : p < t[i]
      <3>1. CASE \E i \in 1 .. m + 1 : s[i] = p
        <4>1. PICK i \in 1 .. m + 1 : s[i] = p
          BY <3>1
        <4>2. CASE i = 1
          <5>1. \A k \in 1 .. m : k + 1 \in 1 .. m + 1 /\ 1 \in 1 .. (k + 1) - 1
            BY <1>0
          <5> QED
            BY <1>2, <1>3, <4>1, <4>2, <5>1
        <4>3. CASE i # 1
          <5>1. i - 1 \in 1 .. m /\ (i - 1) + 1 = i
            BY <1>0, <4>3
          <5> QED
            BY <1>2, <4>1, <5>1
        <4> QED
          BY <4>2, <4>3
      <3>2. CASE \A i \in 1 .. m + 1 : p < s[i]
        <4>1. \A k \in 1 .. m : k + 1 \in 1 .. m + 1
          BY <1>0
        <4> QED
          BY <1>2, <3>2, <4>1
      <3> QED
        BY <1>4, <3>1, <3>2
    <2>4. IsRing(t, T)
      BY <1>0, <1>2, <2>1, <2>2, <2>3 DEF IsRing
    <2> QED
      BY <1>6, <2>4 DEF s, t
  <1> QED
    BY <1>5, <1>6

\* What is not in the ring any more has been followed by as many as the ring
\* holds.
LEMMA Missed ==
    ASSUME NEW n \in Nat, NEW S, S \subseteq 1 .. n, NEW r, IsRing(r, S),
           NEW p \in S, \A i \in 1 .. Len(r) : r[i] # p
    PROVE  Cardinality({q \in S : q > p}) >= Recent
  <1> DEFINE L == {q \in S : q > p}
             R == {r[i] : i \in 1 .. Recent}
  <1>1. r \in Seq(Nat) /\ Len(r) = Recent /\ Recent \in Nat /\ \A i \in 1 .. Recent : p < r[i]
    BY CaptureAssumption DEF IsRing
  <1>2. R \subseteq L
    BY <1>1 DEF IsRing
  <1>3. IsFiniteSet(L) /\ Cardinality(L) \in Nat
    <2>1. IsFiniteSet(1 .. n)
      BY 1 \in Int, n \in Int, FS_Interval
    <2>2. L \subseteq 1 .. n
      OBVIOUS
    <2>3. IsFiniteSet(L)
      BY <2>1, <2>2, FS_Subset
    <2> QED
      BY <2>3, FS_CardinalityType
  <1>4. Cardinality(R) = Recent /\ IsFiniteSet(R)
    <2> DEFINE f == [i \in 1 .. Recent |-> r[i]]
    <2>1. \A i, j \in 1 .. Recent : i < j => r[i] < r[j]
      BY <1>1 DEF IsRing
    <2>2. \A i, j \in 1 .. Recent : r[i] = r[j] => i = j
      BY <1>1, <2>1
    <2>3. f \in Bijection(1 .. Recent, R)
      BY <2>2 DEF Bijection, Injection, Surjection, IsInjective
    <2>4. IsFiniteSet(1 .. Recent) /\ Cardinality(1 .. Recent) = Recent
      <3>1. IsFiniteSet(1 .. Recent) /\ Cardinality(1 .. Recent) = IF 1 > Recent THEN 0 ELSE Recent - 1 + 1
        BY ONLY <1>1, 1 \in Int, Recent \in Int, FS_Interval
      <3> QED
        BY <1>1, <3>1
    <2>5. ExistsBijection(1 .. Recent, R)
      BY <2>3 DEF ExistsBijection
    <2> HIDE DEF R, f
    <2> QED
      BY <2>4, <2>5, FS_Bijection
  <1>5. Cardinality(R) <= Cardinality(L)
    BY <1>2, <1>3, FS_Subset
  <1> QED
    BY <1>1, <1>3, <1>4, <1>5

LEMMA StackInit == Init => StackInv
  <1> SUFFICES ASSUME Init PROVE StackInv
    OBVIOUS
  <1>1. events = <<>> /\ recent = <<>> /\ unplaced = {}
    BY DEF Init
  <1>2. Told
    BY DEF Init, Told
  <1>3. ASSUME NEW th PROVE IsRing(Ring(th), SpansOf(th))
    <2>1. Ring(th) = <<>> /\ SpansOf(th) = {}
      BY <1>1 DEF Ring, SpansOf
    <2> QED
      BY <2>1, CaptureAssumption DEF IsRing
  <1> QED
    BY <1>1, <1>2, <1>3 DEF StackInv, Rings, StackPlaced

\* What is added to the trace that is no hook's span moves no ring.
LEMMA Grown ==
    ASSUME StoreType, NEW es, IsSeq(es), AddAll(es)
    PROVE  /\ \A e \in Range(events) : e \in Range(events')
           /\ \A i \in DOMAIN es : es[i] \in Range(events')
           /\ Extra(es) => \A th : SpansOf(th)' = SpansOf(th)
  <1>1. events' = events \o es
    BY DEF AddAll
  <1>2. IsJoin(events, es, events')
    <2>1. IsSeq(events)
      BY DEF StoreType
    <2> QED
      BY <1>1, <2>1, Joined
  <1>3. /\ DOMAIN events = 1 .. Len(events) /\ Len(events) \in Nat
        /\ DOMAIN es = 1 .. Len(es) /\ Len(es) \in Nat
        /\ DOMAIN events' = 1 .. Len(events) + Len(es)
    BY <1>2 DEF StoreType, IsSeq, IsJoin
  <1>4. \A p \in DOMAIN events : p \in DOMAIN events' /\ events'[p] = events[p]
    <2> SUFFICES ASSUME NEW p \in DOMAIN events PROVE p \in DOMAIN events' /\ events'[p] = events[p]
      OBVIOUS
    <2>1. p \in DOMAIN events'
      BY <1>3
    <2>2. \A i \in DOMAIN es : p # Len(events) + i
      BY <1>3
    <2> QED
      BY <1>2, <2>1, <2>2 DEF IsJoin
  <1>5. \A i \in DOMAIN es : Len(events) + i \in DOMAIN events' /\ events'[Len(events) + i] = es[i]
    <2> SUFFICES ASSUME NEW i \in DOMAIN es PROVE Len(events) + i \in DOMAIN events' /\ events'[Len(events) + i] = es[i]
      OBVIOUS
    <2>1. Len(events) + i \in DOMAIN events' /\ Len(events) + i \notin DOMAIN events
      BY <1>3
    <2>2. PICK k \in DOMAIN es : Len(events) + i = Len(events) + k /\ events'[Len(events) + i] = es[k]
      BY <1>2, <2>1 DEF IsJoin
    <2>3. k = i
      BY <1>3, <2>2
    <2> QED
      BY <2>1, <2>2, <2>3
  <1>6. ASSUME Extra(es), NEW th PROVE SpansOf(th)' = SpansOf(th)
    BY <1>2, <1>4, <1>6 DEF SpansOf, Extra, IsJoin
  <1> QED
    BY <1>4, <1>5, <1>6 DEF Range

LEMMA StacksLeft ==
    ASSUME StackInv, UNCHANGED <<job, recent, unplaced, parsed, sent>>, \A e \in Range(events) : e \in Range(events'),
           \A th : SpansOf(th)' = SpansOf(th)
    PROVE  StackInv'
  <1>1. Told'
    BY DEF StackInv, Told, Conns, Script
  <1>2. Rings'
    BY DEF StackInv, Rings, Ring
  <1>3. (StacksFollowSpans => StackPlaced)'
    BY DEF StackInv, StacksFollowSpans, StackPlaced, Conns, Script
  <1> QED
    BY <1>1, <1>2, <1>3 DEF StackInv
LEMMA StacksCalm ==
    ASSUME StackInv, UNCHANGED <<job, recent, unplaced, parsed, sent, events>>
    PROVE  StackInv'
  <1>1. \A th : SpansOf(th)' = SpansOf(th)
    BY DEF SpansOf
  <1> QED
    BY <1>1, StacksLeft
LEMMA StacksAdd ==
    ASSUME StoreType, StackInv, UNCHANGED <<job, recent, unplaced, parsed, sent>>, NEW es, Extra(es), AddAll(es)
    PROVE  StackInv'
  BY Grown, StacksLeft DEF Extra

\* A line of a connection.
LEMMA Line ==
    ASSUME StoreType, StackInv, NEW c \in Conns, parsed[c] < sent[c], UNCHANGED <<job, sent>>,
           parsed' = [parsed EXCEPT ![c] = @ + 1], \A e \in Range(events) : e \in Range(events'),
           EventOf(Script[c][parsed[c] + 1]) # NoEvent => EventOf(Script[c][parsed[c] + 1]) \in Range(events')
    PROVE  Told'
  <1>1. \A x \in Conns : parsed'[x] = IF x = c THEN parsed[c] + 1 ELSE parsed[x]
    BY DEF StoreType
  <1>2. Conns' = Conns /\ Script' = Script /\ \A x \in Conns : sent[x] \in Nat /\ parsed[x] \in Nat
    BY DEF StoreType, StackInv, Told, Conns, Script
  <1>3. ASSUME NEW x \in Conns
        PROVE  /\ parsed'[x] \in Nat /\ parsed'[x] <= sent[x] /\ (Len(Script[x]) \in Nat => sent[x] <= Len(Script[x]))
               /\ \A i \in 1 .. parsed'[x] : EventOf(Script[x][i]) # NoEvent => EventOf(Script[x][i]) \in Range(events')
    <2>1. /\ parsed[x] <= sent[x] /\ (Len(Script[x]) \in Nat => sent[x] <= Len(Script[x]))
          /\ \A i \in 1 .. parsed[x] : EventOf(Script[x][i]) # NoEvent => EventOf(Script[x][i]) \in Range(events)
      BY DEF StackInv, Told
    <2>2. CASE x # c
      BY <1>1, <1>2, <2>1, <2>2
    <2>3. CASE x = c
      <3>1. parsed'[x] = parsed[c] + 1 /\ parsed[c] \in Nat /\ sent[c] \in Nat
        BY <1>1, <1>2, <2>3
      <3>2. \A i \in 1 .. parsed'[x] : i \in 1 .. parsed[c] \/ i = parsed[c] + 1
        BY <3>1
      <3> QED
        BY <2>1, <2>3, <3>1, <3>2
    <2> QED
      BY <2>2, <2>3
  <1>4. \A l : EventOf(l)' = EventOf(l)
    BY DEF EventOf
  <1> QED
    BY <1>2, <1>3 DEF Told

\* A stack finds its span in its thread's ring, or the span has left it.
LEMMA Positions ==
    ASSUME StoreType
    PROVE  /\ Len(events) \in Nat /\ DOMAIN events = 1 .. Len(events)
           /\ \A th : SpansOf(th) \subseteq 1 .. Len(events)
  BY DEF StoreType, IsSeq, SpansOf
LEMMA PushedOut ==
    ASSUME StoreType, StackInv, StacksFollowSpans, NEW c \in Conns, parsed[c] < sent[c],
           NEW l, l = Script[c][parsed[c] + 1], IsStk(l),
           NEW th, th = <<l.segs[1].v, l.segs[2].v>>, NEW start, start = l.segs[3].v,
           FindRecent(th, start) = {}
    PROVE  Later(Position(th, start)) >= Recent
  <1> DEFINE r == Ring(th)
             S == SpansOf(th)
             n == Len(events)
             hits == {i \in DOMAIN r : events[r[i]].start = start}
             at == Position(th, start)
  <1>0. IsRing(r, S) /\ S \subseteq 1 .. n /\ n \in Nat /\ DOMAIN events = 1 .. n
    BY Positions DEF StackInv, Rings
  <1>1. r \in Seq(Nat) /\ DOMAIN r = 1 .. Len(r) /\ Len(r) \in Nat
    <2>1. r \in Seq(Nat)
      BY <1>0 DEF IsRing
    <2> HIDE DEF r
    <2> QED
      BY <2>1
  <1>2. hits = {}
    <2>1. SUFFICES ASSUME hits # {} PROVE FALSE
      OBVIOUS
    <2>2. PICK x \in hits : \A y \in hits : y <= x
      <3>1. hits \subseteq 1 .. Len(r)
        BY <1>1
      <3> HIDE DEF hits, r
      <3> QED
        BY <1>1, <2>1, <3>1, Greatest
    <2>3. r[x] \in FindRecent(th, start)
      BY <2>2 DEF FindRecent
    <2> QED
      BY <2>3
  <1>3. \E p \in S : events[p].start = start
    <2>1. /\ Len(Script[c]) \in Nat /\ parsed[c] \in Nat /\ sent[c] \in Nat /\ sent[c] <= Len(Script[c])
      BY DEF StackInv, Told, StacksFollowSpans, StoreType
    <2>2. parsed[c] + 1 \in 1 .. Len(Script[c])
      BY <2>1
    <2>3. PICK k \in 1 .. (parsed[c] + 1) - 1 : SpanFor(Script[c][k], l)
      BY <2>2 DEF StacksFollowSpans
    <2> DEFINE e == EventOf(Script[c][k])
    <2>4. k \in 1 .. parsed[c]
      BY <2>1
    <2>5. e.kind = "span" /\ <<e.pid, e.tid>> = th /\ e.start = start
      BY <2>3 DEF SpanFor
    <2>6. e # NoEvent
      BY <2>5 DEF NoEvent
    <2>7. e \in Range(events)
      BY <2>4, <2>6 DEF StackInv, Told
    <2> HIDE DEF e
    <2>8. PICK p \in DOMAIN events : events[p] = e
      BY <2>7 DEF Range
    <2>9. p \in S
      BY <2>5, <2>8 DEF SpansOf
    <2> QED
      BY <2>5, <2>8, <2>9
  <1>4. at \in S /\ events[at].start = start
    BY <1>3 DEF Position
  <1>5. \A i \in 1 .. Len(r) : r[i] # at
    BY <1>1, <1>2, <1>4
  <1>6. <<events[at].pid, events[at].tid>> = th
    BY <1>4 DEF SpansOf
  <1>7. Later(at) = Cardinality({q \in S : q > at})
    BY <1>6 DEF Later
  <1> HIDE DEF at, r, S, n
  <1>8. Cardinality({q \in S : q > at}) >= Recent
    BY <1>0, <1>4, <1>5, Missed
  <1> QED
    BY <1>7, <1>8 DEF at

\* A span takes the next place in the trace and in its thread's ring.
LEMMA SpanLine ==
    ASSUME StoreType, StackInv, NEW e, e.kind = "span", Add(e), recent' = Remember(<<e.pid, e.tid>>, Len(events) + 1)
    PROVE  Rings'
  <1> DEFINE n == Len(events)
             lane == <<e.pid, e.tid>>
  <1>1. n \in Nat /\ DOMAIN events = 1 .. n /\ \A th : SpansOf(th) \subseteq 1 .. n
    BY Positions
  <1>2. DOMAIN events' = 1 .. n + 1 /\ events'[n + 1] = e /\ \A p \in 1 .. n : events'[p] = events[p]
    <2>1. events \in Seq(Range(events)) /\ events' = Append(events, e)
      <3>1. events \in Seq(Range(events)) /\ events' = events \o <<e>>
        BY DEF StoreType, IsSeq, Add, AddAll
      <3> QED
        BY <3>1
    <2> DEFINE U == Range(events) \cup {e}
    <2>2. events \in Seq(U) /\ e \in U
      BY <2>1
    <2> HIDE DEF U
    <2> QED
      BY <1>1, <2>1, <2>2
  <1>3. \A th : SpansOf(th)' = SpansOf(th) \cup (IF th = lane THEN {n + 1} ELSE {})
    BY <1>1, <1>2 DEF SpansOf
  <1>4. \A th : th # lane => Ring(th)' = Ring(th)
    BY DEF Remember, Ring
  <1>5. Ring(lane)' = LET s == Append(Ring(lane), n + 1) IN IF Len(s) > Recent THEN Tail(s) ELSE s
    BY DEF Remember, Ring
  <1> HIDE DEF n, lane
  <1>6. ASSUME NEW th PROVE IsRing(Ring(th)', SpansOf(th)')
    <2>1. IsRing(Ring(th), SpansOf(th))
      BY DEF StackInv, Rings
    <2>2. CASE th = lane
      BY <1>1, <1>3, <1>5, <2>1, <2>2, Remembered
    <2>3. CASE th # lane
      <3>1. SpansOf(th)' = SpansOf(th)
        BY <1>3, <2>3
      <3> QED
        BY <1>4, <2>1, <2>3, <3>1
    <2> QED
      BY <2>2, <2>3
  <1> QED
    BY <1>6 DEF Rings, IsRing

LEMMA ParseStep ==
    ASSUME StoreType, StackInv, NEW c \in Conns, ParseLine(c)
    PROVE  StackInv'
  <1> DEFINE l == Script[c][parsed[c] + 1]
             ev == EventOf(l)
             th == <<l.segs[1].v, l.segs[2].v>>
             start == l.segs[3].v
             at == Position(th, start)
  <1>1. parsed[c] < sent[c] /\ UNCHANGED <<job, sent>> /\ parsed' = [parsed EXCEPT ![c] = @ + 1]
    BY DEF ParseLine, procVars
  <1>2. \/ /\ ev # NoEvent /\ Add(ev) /\ UNCHANGED unplaced
           /\ recent' = IF ev.kind = "span" THEN Remember(<<ev.pid, ev.tid>>, Len(events) + 1) ELSE recent
        \/ /\ IsStk(l) /\ UNCHANGED <<events, recent>>
           /\ \/ UNCHANGED unplaced
              \/ FindRecent(th, start) = {} /\ unplaced' = unplaced \cup {<<at, Later(at)>>}
        \/ l.kind \in {"gpuact", "pcsa"} /\ UNCHANGED <<events, recent, unplaced>>
        \/ ev = NoEvent /\ UNCHANGED <<events, recent, unplaced>>
    <2>1. HandleKnown(ev) \/ HandleStk(l) \/ HandleGpuact(l, Segments(l)) \/ HandlePcsa(l) \/ NoteLine(l, Segments(l), ev)
      BY Zenon DEF ParseLine, EventOf
    <2> HIDE DEF l, ev
    <2>2. CASE HandleKnown(ev)
      BY <2>2 DEF HandleKnown
    <2>3. CASE HandleStk(l)
      BY <2>3 DEF HandleStk, storeVars
    <2>4. CASE HandleGpuact(l, Segments(l))
      BY <2>4 DEF HandleGpuact, storeVars
    <2>5. CASE HandlePcsa(l)
      BY <2>5 DEF HandlePcsa, storeVars, IsPcSample
    <2>6. CASE NoteLine(l, Segments(l), ev)
      BY <2>6 DEF NoteLine, storeVars
    <2> QED
      BY <2>1, <2>2, <2>3, <2>4, <2>5, <2>6
  <1> HIDE DEF l
  <1>3. \A x : StacksFollowSpans' <=> StacksFollowSpans
    BY <1>1 DEF StacksFollowSpans, Conns, Script
  <1>s. (StacksFollowSpans => StackPlaced) /\ Rings
    BY DEF StackInv
  <1>4. CASE ev # NoEvent /\ Add(ev) /\ UNCHANGED unplaced /\ recent' = IF ev.kind = "span" THEN Remember(<<ev.pid, ev.tid>>, Len(events) + 1) ELSE recent
    <2> HIDE DEF ev
    <2>1. IsSeq(<<ev>>) /\ AddAll(<<ev>>) /\ DOMAIN <<ev>> = {1} /\ <<ev>>[1] = ev
      <3>1. <<ev>> \in Seq({ev}) /\ DOMAIN <<ev>> = {1} /\ <<ev>>[1] = ev
        OBVIOUS
      <3> QED
        BY <1>4, <3>1, Own DEF Add
    <2>2. (\A e \in Range(events) : e \in Range(events')) /\ ev \in Range(events')
      BY <2>1, Grown
    <2>3. Told'
      BY <1>1, <2>2, Line DEF ev, l
    <2>4. CASE ev.kind = "span"
      BY <1>3, <1>4, <1>s, <2>3, <2>4, SpanLine DEF StackInv, StackPlaced
    <2>5. CASE ev.kind # "span"
      <3>1. \A x : SpansOf(x)' = SpansOf(x)
        BY <2>1, <2>5, Grown, OneExtra
      <3>2. Rings'
        BY <1>4, <1>s, <2>5, <3>1 DEF Rings, Ring
      <3> QED
        BY <1>3, <1>4, <1>s, <2>3, <3>2 DEF StackInv, StackPlaced
    <2> QED
      BY <2>4, <2>5
  <1>5. ASSUME ev = NoEvent, UNCHANGED <<events, recent>> PROVE Told' /\ Rings'
    <2>1. Told'
      BY <1>1, <1>5, Line DEF l
    <2>2. \A x : SpansOf(x)' = SpansOf(x) /\ Ring(x)' = Ring(x)
      BY <1>5 DEF SpansOf, Ring
    <2> QED
      BY <1>s, <2>1, <2>2 DEF Rings
  <1>6. l.kind \in {"gpuact", "pcsa", "stk"} => ev = NoEvent
    BY DEF EventOf, Known
  <1>7. CASE IsStk(l) /\ UNCHANGED <<events, recent>> /\ FindRecent(th, start) = {} /\ unplaced' = unplaced \cup {<<at, Later(at)>>}
    <2>1. ev = NoEvent
      BY <1>6, <1>7 DEF IsStk
    <2>2. StacksFollowSpans => Later(at) >= Recent
      BY <1>1, <1>7, PushedOut DEF l
    <2> HIDE DEF at, ev
    <2>3. (StacksFollowSpans => StackPlaced)'
      BY <1>3, <1>7, <1>s, <2>2 DEF StackPlaced
    <2> QED
      BY <1>5, <1>7, <2>1, <2>3 DEF StackInv
  <1>8. CASE ev = NoEvent /\ UNCHANGED <<events, recent, unplaced>>
    BY <1>3, <1>5, <1>8, <1>s DEF StackInv, StackPlaced
  <1>9. IsStk(l) => l.kind \in {"gpuact", "pcsa", "stk"}
    BY DEF IsStk
  <1> QED
    BY <1>2, <1>4, <1>6, <1>7, <1>8, <1>9

LEMMA StackStep == StoreInv /\ StackInv /\ [Next]_vars => StackInv'
  <1> SUFFICES ASSUME StoreInv, StackInv, [Next]_vars PROVE StackInv'
    OBVIOUS
  <1>0. StoreType /\ job \in Jobs
    BY DEF StoreInv, StoreType
  <1> DEFINE Same == UNCHANGED <<job, recent, unplaced, parsed, sent>>
  <1>1. CASE OpenSocket \/ OpenFails \/ StartProgram \/ StartFails \/ AttachPerf \/ StartPoller \/ Wait \/ CollectLook
             \/ CollectSignal \/ PerfWait \/ PollJoin \/ FinishReceiver \/ Assemble \/ Annotate \/ ZeroCheck \/ RunComplete
             \/ SaveMeta \/ FinalizeStore \/ Export \/ JoinDisasm
    <2>1. Same /\ UNCHANGED events
      BY <1>1 DEF OpenSocket, OpenFails, StartProgram, StartFails, AttachPerf, StartPoller, Wait, CollectLook, CollectSignal,
           PerfWait, PollJoin, FinishReceiver, Assemble, Annotate, ZeroCheck, RunComplete, SaveMeta, FinalizeStore, Export,
           JoinDisasm, procVars, connVars, parseVars, storeVars
    <2> QED
      BY <2>1, StacksCalm
  <1>2. CASE PerfScript
    <2>1. Same /\ (AddAll(SpansRead(job)) \/ UNCHANGED events)
      BY <1>2 DEF PerfScript, procVars, connVars, parseVars, storeVars
    <2> QED
      BY <1>0, <2>1, SamplesExtra, StacksAdd, StacksCalm
  <1>3. CASE Counters
    <2>1. Same
      BY <1>3 DEF Counters, procVars, connVars, parseVars
    <2>2. \E es : Extra(es) /\ AddAll(es)
      BY <1>3, CountersExtra DEF Counters
    <2> QED
      BY <1>0, <2>1, <2>2, StacksAdd
  <1>4. CASE ProgramEnds \/ PollAgain \/ DisasmDone \/ DisasmFails \/ Finished \/ UNCHANGED vars
    <2>1. Same /\ UNCHANGED events
      BY <1>4 DEF ProgramEnds, PollAgain, DisasmDone, DisasmFails, Finished, vars, procVars, connVars, parseVars, storeVars
    <2> QED
      BY <2>1, StacksCalm
  <1>5. CASE PollAnswer
    <2>1. Same /\ (AddAll(<<[kind |-> "gpu"]>>) \/ UNCHANGED events)
      BY <1>5 DEF PollAnswer, Add, connVars, parseVars, storeVars
    <2>2. Extra(<<[kind |-> "gpu"]>>)
      BY OneExtra
    <2> QED
      BY <1>0, <2>1, <2>2, StacksAdd, StacksCalm
  <1>6. ASSUME NEW c \in Conns, Connect(c) \/ Disconnect(c) PROVE StackInv'
    <2>1. Same /\ UNCHANGED events
      BY <1>6 DEF Connect, Disconnect, procVars, parseVars, storeVars
    <2> QED
      BY <2>1, StacksCalm
  <1>7. ASSUME NEW c \in Conns, HookWrites(c) PROVE StackInv'
    <2>1. /\ UNCHANGED <<job, recent, unplaced, parsed, events>>
          /\ sent[c] < Len(Script[c]) /\ sent' = [sent EXCEPT ![c] = @ + 1]
      BY <1>7 DEF HookWrites, procVars, parseVars, storeVars
    <2>2. \A x \in Conns : sent[x] \in Nat /\ sent'[x] = IF x = c THEN sent[c] + 1 ELSE sent[x]
      BY <1>0, <2>1 DEF StoreType
    <2>3. Conns' = Conns /\ Script' = Script
      BY <2>1 DEF Conns, Script
    <2>4. ASSUME NEW x \in Conns
          PROVE  parsed[x] \in Nat /\ parsed[x] <= sent'[x] /\ (Len(Script[x]) \in Nat => sent'[x] <= Len(Script[x]))
      <3>1. parsed[x] \in Nat /\ parsed[x] <= sent[x] /\ (Len(Script[x]) \in Nat => sent[x] <= Len(Script[x]))
        BY DEF StackInv, Told
      <3> QED
        BY <2>1, <2>2, <3>1
    <2>5. \A l : EventOf(l)' = EventOf(l)
      BY DEF EventOf
    <2>6. Told'
      BY <2>1, <2>3, <2>4, <2>5 DEF StackInv, Told
    <2>7. \A th : Ring(th)' = Ring(th) /\ SpansOf(th)' = SpansOf(th)
      BY <2>1 DEF Ring, SpansOf
    <2>8. Rings'
      BY <2>7 DEF StackInv, Rings
    <2>9. (StacksFollowSpans => StackPlaced)'
      BY <2>1, <2>3 DEF StackInv, StacksFollowSpans, StackPlaced
    <2> QED
      BY <2>6, <2>8, <2>9 DEF StackInv
  <1>8. CASE Beside
    BY <1>0, <1>4, <1>5, <1>6, <1>7, <1>8, ParseStep DEF Beside
  <1> QED
    BY <1>1, <1>2, <1>3, <1>4, <1>8 DEF Next, RunStep

\* A stack record misses its span only when that span was pushed out of its
\* thread's ring by as many later spans as the ring holds, whatever other
\* connections sent in between (_remember_recent_span, _find_recent_span);
\* where a stack comes behind its span on its connection, as the hooks
\* write them.
THEOREM StacksFindSpans == Spec => [](StacksFollowSpans => StackPlaced)
  <1>1. StackInv => (StacksFollowSpans => StackPlaced)
    BY DEF StackInv
  <1> QED
    BY <1>1, FilesInit, FilesStep, StoreInit, StoreStep, StackInit, StackStep, PTL DEF Spec

=============================================================================
