---------------------------- MODULE HookRecords ----------------------------
(***************************************************************************)
(* What the runner makes of text (src/core/runner.py): the hooks' wire     *)
(* records, perf script's samples, perf stat's counters and the inputs of  *)
(* the disassembly collected from a trace's spans.                         *)
(*                                                                         *)
(* A record is its kind and the sequence of its colon-separated segments;  *)
(* a segment is [t |-> "num" | "text" | "tags", v |-> value], "tags" being *)
(* text of the form key=val,key=val, with the tags as its value.  A name   *)
(* is the sequence of the pieces its own colons cut it into.  NoEvent      *)
(* stands for None.                                                        *)
(***************************************************************************)
EXTENDS Integers, Sequences, SequencesExt, FiniteSets, TLC

NoEvent == [kind |-> "none"]
Num(n) == [t |-> "num", v |-> n]
Text(s) == [t |-> "text", v |-> s]
Category == {"cpu", "cuda", "mpi", "jit"}
KnownCategory(c) == IF c.v \in Category THEN c.v ELSE "other"

\* The text after the LAST colon is the tags when it has their form.
Pieces(segs) == [i \in DOMAIN segs |-> segs[i].v]
SplitFirstColon(rest) ==
    IF Len(rest) > 1 /\ rest[2].t = "tags" THEN <<Pieces(<<rest[1]>>), rest[2].v>> ELSE <<Pieces(rest), <<>>>>
SplitNameTags(rest) ==
    IF Len(rest) > 1 /\ Last(rest).t = "tags" THEN <<Pieces(Front(rest)), Last(rest).v>> ELSE <<Pieces(rest), <<>>>>

Numeric(segs, S) == \A i \in S : segs[i].t = "num"
ParseSpan(segs) ==
    LET nt == SplitNameTags(SubSeq(segs, 6, Len(segs)))
    IN IF ~Numeric(segs, 2 .. 5) THEN NoEvent
       ELSE [kind |-> "span", cat |-> KnownCategory(segs[1]), pid |-> segs[2].v, tid |-> segs[3].v,
             start |-> segs[4].v, dur |-> segs[5].v, name |-> nt[1], tags |-> nt[2]]
ParseInstant(segs) ==
    LET nt == SplitNameTags(SubSeq(segs, 5, Len(segs)))
    IN IF ~Numeric(segs, 2 .. 4) THEN NoEvent
       ELSE [kind |-> "inst", cat |-> KnownCategory(segs[1]), pid |-> segs[2].v, tid |-> segs[3].v,
             ts |-> segs[4].v, name |-> nt[1], tags |-> nt[2]]
ParseCounter(segs) ==
    IF ~Numeric(segs, {2, 3, 5}) THEN NoEvent
    ELSE [kind |-> "ctr", cat |-> KnownCategory(segs[1]), pid |-> segs[2].v, ts |-> segs[3].v,
          name |-> <<segs[4].v>>, value |-> segs[5].v, unit |-> Pieces(SubSeq(segs, 6, Len(segs)))]

\* segs: the segments after the kind.
ParseRecord(kind, segs) ==
    CASE kind = "span" /\ Len(segs) >= 6 -> ParseSpan(segs)
      [] kind = "span" /\ Len(segs) = 5 -> ParseSpan(Append(segs, Text("")))
      [] kind = "inst" /\ Len(segs) >= 5 -> ParseInstant(segs)
      [] kind = "ctr" /\ Len(segs) >= 5 -> ParseCounter(segs)
      [] OTHER -> NoEvent

\* What a hook writes for an event: the fields, the name as it is, and the
\* tags where there are any.
Said(name) == [i \in DOMAIN name |-> Text(name[i])]
Written(e) ==
    LET tags == IF e.tags = <<>> THEN <<>> ELSE <<[t |-> "tags", v |-> e.tags]>>
    IN CASE e.kind = "span" -> <<Text(e.cat), Num(e.pid), Num(e.tid), Num(e.start), Num(e.dur)>> \o Said(e.name) \o tags
         [] e.kind = "inst" -> <<Text(e.cat), Num(e.pid), Num(e.tid), Num(e.ts)>> \o Said(e.name) \o tags
         [] e.kind = "ctr" -> <<Text(e.cat), Num(e.pid), Num(e.ts)>> \o Said(e.name) \o <<Num(e.value)>> \o Said(e.unit)

(***************************************************************************)
(* gpuact lines: the state of a process's device tracer.  Counters add up, *)
(* everything else is replaced.                                            *)
(***************************************************************************)
IsStatus(segs) == Len(segs) = 3 /\ segs[1].t = "num"
FieldsOf(segs) == IF segs[3].t = "tags" THEN segs[3].v ELSE <<>>
CounterFields == {"dropped", "notime", "bad_records", "buffer_alloc_failed"}
RecordStatus(entry, fields) ==
    [k \in {c \in DOMAIN fields : c \in CounterFields /\ c \in DOMAIN entry} |-> entry[k] + fields[k]] @@ fields @@ entry
Field(e, k, default) == IF k \in DOMAIN e THEN e[k] ELSE default
MissingFinalFlush(e) ==
    Field(e, "status", "") = "active" /\ Field(e, "final_marker", 0) = 1 /\ Field(e, "final_flush", 0) # 1
\* What a reader is told of it, one per kind of problem.
DegradedWarnings(e) ==
    {k \in CounterFields : Field(e, k, 0) # 0}
    \cup (IF Field(e, "status", "") \in {"unavailable", "error"} THEN {"unavailable"} ELSE {})
    \cup (IF Field(e, "status", "") = "active" /\ Field(e, "clock", "") = "unmapped" THEN {"unmapped"} ELSE {})
    \cup (IF MissingFinalFlush(e) THEN {"no final flush"} ELSE {})

(***************************************************************************)
(* perf script: lines are [k |-> "blank"], [k |-> "head", ts, sym],        *)
(* [k |-> "frame", sym] or [k |-> "other"] (a header whose command name    *)
(* has a space matches neither pattern); sym = "" is an unknown symbol.    *)
(***************************************************************************)
Sample(ts, name, dur, stack) ==
    [kind |-> "sample", cat |-> "cpu", pid |-> 1, tid |-> 1, start |-> ts, dur |-> dur, name |-> <<name>>, tags |-> <<>>, stack |-> stack]

\* A header starts a sample and ends the one before it; a blank line ends
\* one.  Frames between a blank line and a header that was not recognised
\* have no sample: the next header, if no blank line comes first, takes them.
Boundary(l) == l.k \in {"blank", "head"}
FramesOf(lines) == LET f == SelectSeq(lines, LAMBDA l : l.k = "frame" /\ l.sym # "") IN [i \in DOMAIN f |-> f[i].sym]
Before(lines, h) == LET cut == {j \in 1 .. h - 1 : Boundary(lines[j])} IN IF cut = {} THEN 0 ELSE Max(cut)
After(lines, h) == LET cut == {j \in h + 1 .. Len(lines) : Boundary(lines[j])} IN IF cut = {} THEN Len(lines) + 1 ELSE Min(cut)
StackAt(lines, h) ==
    LET b == Before(lines, h)
        open == b # 0 /\ lines[b].k = "head"
    IN FramesOf(SubSeq(lines, IF open THEN h ELSE b + 1, After(lines, h) - 1))
Flush(head, stack, weight) ==
    IF stack # <<>> THEN Sample(head.ts, stack[1], weight, Tail(stack))
    ELSE Sample(head.ts, IF head.sym = "" THEN "[cpu]" ELSE head.sym, weight, <<>>)

\* What perf script prints, with call graphs: a header, a line for every
\* frame and a blank line per sample.  odd: a command name with a space.
PerfPrints(samples) ==
    FlattenSeq([i \in DOMAIN samples |->
        <<IF samples[i].odd THEN [k |-> "other"] ELSE [k |-> "head", ts |-> samples[i].ts, sym |-> ""]>>
        \o [j \in DOMAIN samples[i].frames |-> [k |-> "frame", sym |-> samples[i].frames[j]]]
        \o <<[k |-> "blank"]>>])
Weight == 1         \* sample_weight_ns: one sampling interval

Heads(lines) == SelectSeq([i \in DOMAIN lines |-> i], LAMBDA i : lines[i].k = "head")
\* With no blank line at all the output is flat: a sample of no duration per header.
ParsePerfScript(lines, weight) ==
    LET heads == Heads(lines)
        stacks == \E i \in DOMAIN lines : lines[i].k = "blank"
    IN [n \in DOMAIN heads |-> IF stacks THEN Flush(lines[heads[n]], StackAt(lines, heads[n]), weight)
                               ELSE Flush(lines[heads[n]], <<>>, 0)]

\* perf stat: readings is a sequence of <<event, count>>; the same event of
\* several PMUs is summed.  A metric is <<name, numerator, denominator>>.
Total(readings, k) == MapThenSumSet(LAMBDA i : readings[i][2], {i \in DOMAIN readings : readings[i][1] = k})
Metric(m) == IF m[3] > 0 /\ (m[1] = "ipc" => m[2] > 0) THEN <<m>> ELSE <<>>
ParsePerfStat(readings) ==
    LET g(k) == Total(readings, k)
    IN Metric(<<"ipc", g("instructions"), g("cycles")>>)
       \o Metric(<<"cache_miss_pct", g("cache-misses"), g("cache-references")>>)
       \o Metric(<<"branch_miss_pct", g("branch-misses"), g("branches")>>)

(***************************************************************************)
(* Inputs of the disassembly, read off the spans in order.  Paths are      *)
(* those of saved modules; symbols and library offsets are one kind.       *)
(***************************************************************************)
TagOf(s, k) == IF k \in DOMAIN s.tags THEN s.tags[k] ELSE ""
GpuCats == {"cuda", "rocm"}
LaunchCats == GpuCats \cup {"opencl", "sycl"}
SymCats == {"openmp", "sync", "cpu", "mpi"}
IsModule(s) == s.cat = "jit" /\ TagOf(s, "mod") # "" /\ TagOf(s, "path") # ""
IsLaunch(s) == s.cat \in LaunchCats /\ (TagOf(s, "side") = "gpu" \/ TagOf(s, "type") = "jit_kernel")
IsJit(s) == s.cat = "jit" /\ TagOf(s, "type") \in {"jit_load", "jit_compile"} /\ TagOf(s, "path") # ""
HasSymbol(s) == s.cat \in SymCats /\ TagOf(s, "sym") # ""
LaunchKey(s) == <<s.name, TagOf(s, "mod")>>

Which(spans, Test(_)) == {i \in DOMAIN spans : Test(spans[i])}
GpuPids(spans) == {spans[i].pid : i \in Which(spans, LAMBDA s : s.cat \in GpuCats \/ TagOf(s, "rt") \in GpuCats)}
ModuleIds(spans) ==         \* saved path -> module, the last one loaded from it
    LET m == Which(spans, IsModule)
        at(p) == {i \in m : TagOf(spans[i], "path") = p}
    IN [p \in {TagOf(spans[i], "path") : i \in m} |-> TagOf(spans[Max(at(p))], "mod")]
Launches(spans) ==
    LET l == Which(spans, IsLaunch)
    IN [k \in {LaunchKey(spans[i]) : i \in l} |-> Cardinality({i \in l : LaunchKey(spans[i]) = k})]
JitSpans(spans) == {[name |-> spans[i].name, path |-> TagOf(spans[i], "path"), mod |-> TagOf(spans[i], "mod")] : i \in Which(spans, IsJit)}
Symbols(spans) ==           \* name -> the first call site resolved under it
    LET r == Which(spans, HasSymbol)
        at(n) == {i \in r : spans[i].name = n}
    IN [n \in {spans[i].name : i \in r} |-> TagOf(spans[Min(at(n))], "sym")]
CpuNames(spans) ==          \* sampled functions, unless a call site was resolved under the name before
    {spans[i].name : i \in {j \in DOMAIN spans :
        /\ spans[j].cat = "cpu" /\ ~HasSymbol(spans[j]) /\ spans[j].name # <<"[cpu]">>
        /\ ~\E k \in 1 .. j - 1 : HasSymbol(spans[k]) /\ spans[k].name = spans[j].name}}
DisasmInputs(spans) ==
    [jit |-> JitSpans(spans), syms |-> Symbols(spans), names |-> CpuNames(spans), modules |-> ModuleIds(spans),
     launches |-> Launches(spans), gpu_pids |-> GpuPids(spans)]

\* The executables to disassemble: exes[pid] in connection order; the sets
\* are sorted by name.
BinariesOfAll(exes, gpu_pids) == [first |-> {Last(exes[p]) : p \in DOMAIN exes}, rest |-> {}]     \* mutant: a launcher's too
DisasmBinaries(exes, gpu_pids) ==
    LET working == DOMAIN exes \cap gpu_pids
        pids == IF working # {} THEN working ELSE DOMAIN exes
        last == {Last(exes[p]) : p \in pids}
    IN [first |-> last, rest |-> UNION {Range(exes[p]) : p \in pids} \ last]
\* on_connect: an image seen again moves to the end of its process's list.
OnConnect(exes, pid, exe) ==
    LET seen == IF pid \in DOMAIN exes THEN exes[pid] ELSE <<>>
    IN (pid :> Append(SelectSeq(seen, LAMBDA e : e # exe), exe)) @@ exes
=============================================================================
