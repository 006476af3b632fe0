------------------------------ MODULE SpanTags ------------------------------
(***************************************************************************)
(* Spans as the analyses read them, and what their tags say                *)
(* (src/core/gpu_activity.py, src/analysis/span_links.py).                 *)
(*                                                                         *)
(* A span is [cat, name, pid, tid, start, dur, sid, psid, stack, tags]:    *)
(* tags is a function from the tags present to their values, psid the      *)
(* sequence of the ids its psid= lists, sid = None without an id, stack    *)
(* the frames it was called from, innermost first.  A trace is a sequence  *)
(* of spans; a span's position in it is its ordinal.                       *)
(***************************************************************************)
EXTENDS Integers, Sequences, SequencesExt, FiniteSetsExt, TLC

None == "<none>"
Tag(s, k) == IF k \in DOMAIN s.tags THEN s.tags[k] ELSE None
Has(s, k) == k \in DOMAIN s.tags
EndOf(s) == s.start + s.dur

\* The element of S with the largest key; the smallest ordinal on a tie, as
\* max() keeps the first.
LatestBy(S, Key(_)) == CHOOSE a \in S : \A b \in S : Key(b) < Key(a) \/ (Key(b) = Key(a) /\ a <= b)
LastBy(S, Key(_)) == CHOOSE a \in S : \A b \in S : Key(b) < Key(a) \/ (Key(b) = Key(a) /\ b <= a)
EarliestBy(S, Key(_)) == LatestBy(S, LAMBDA i : -Key(i))

Runtimes == {"cuda", "rocm"}
AnnotationTypes == {"nvtx_range", "nvtx_mark", "roctx_range", "roctx_mark"}
IsAnnotation(s) == s.cat = "nvtx" \/ Tag(s, "type") \in AnnotationTypes

IsNewFormat(s) == Tag(s, "rt") \in Runtimes
IsDeviceSpan(s) == Tag(s, "side") = "gpu" /\ IsNewFormat(s)
IsHostSubmission(s) == Tag(s, "side") = "cpu" /\ IsNewFormat(s) /\ (Has(s, "lid") \/ Has(s, "corr"))
DeviceWorkOps == {"kernel", "memcpy", "memset", "graph"}

\* op= where the hook gave it, else what type= stands for.
OpOf(s) ==
    CASE Has(s, "op") -> s.tags.op
      [] Tag(s, "type") = "graph_launch" -> "graph"
      [] Tag(s, "type") \in {"memcpy", "memcpy_async", "HtoD", "DtoH"} -> "memcpy"
      [] OTHER -> Tag(s, "type")

\* How a span's interval was obtained: host, device or a proxy.
ProxyTimings == {"proxy_event", "proxy_host", "proxy_flush"}
TimingSource(s) ==
    CASE Tag(s, "timing") = "cpu" -> "proxy_host"
      [] Tag(s, "timing") = "cpu_flush" -> "proxy_flush"
      [] Has(s, "timing") -> s.tags.timing
      [] Tag(s, "side") = "gpu" -> "device"
      [] Tag(s, "side") = "cpu" -> "host"
      [] s.cat \in Runtimes /\ Tag(s, "type") \in {"kernel", "graph_launch"} -> "proxy_event"
      [] Tag(s, "type") = "memcpy_async" -> "proxy_event"
      [] OTHER -> "host"

IsDeviceKernel(s) ==
    Tag(s, "type") = "kernel" /\ Tag(s, "side") # "cpu" /\ s.cat \in {"cuda", "rocm", "opencl"}

\* Kernel intervals from one timing source: measured ones, else proxies.
KernelActivity(spans) ==
    LET of(t) == {i \in DOMAIN spans : IsDeviceKernel(spans[i]) /\ TimingSource(spans[i]) = t}
    IN IF of("device") # {} THEN [used |-> of("device"), source |-> "device"]
       ELSE [used |-> of("proxy_event"), source |-> IF of("proxy_event") = {} THEN None ELSE "proxy"]

Before(spans, a, b) == spans[a].start < spans[b].start \/ (spans[a].start = spans[b].start /\ a < b)
\* Neighbours of S in the order Lt.
Consecutive(S, Lt(_, _)) == {p \in S \X S : Lt(p[1], p[2]) /\ ~\E c \in S : Lt(p[1], c) /\ Lt(c, p[2])}
\* The elements of a set of ordinals in the order Lt.
Ordered(S, Lt(_, _)) == IF S = {} THEN <<>> ELSE SortSeq(SelectSeq([i \in 1 .. Max(S) |-> i], LAMBDA i : i \in S), Lt)
Subset(spans, S) == [i \in S |-> spans[i]]

\* The xs= execution start, where the hook calibrated one.
EffectiveStart(s) == IF Has(s, "xs") THEN s.tags.xs ELSE s.start
Edge(dst, src, kind, conf) == [dst |-> dst, src |-> src, kind |-> kind, conf |-> conf]
Rank(conf) == CASE conf = "certain" -> 3 [] conf = "high" -> 2 [] conf = "medium" -> 1 [] OTHER -> 0
Weaker(a, b) == IF Rank(a) <= Rank(b) THEN a ELSE b
EffectiveEnd(s) == EffectiveStart(s) + s.dur

(***************************************************************************)
(* span_links.py: which span an id names.                                  *)
(***************************************************************************)
OmpNames == {"omp_barrier", "omp_reduction", "omp_taskwait", "omp_taskgroup", "omp_critical_wait",
             "omp_critical_hold"}       \* stand for the names that begin with omp_ or GOMP_
IdFamily(s) ==
    CASE s.cat = "mpi" -> "mpi"
      [] IsAnnotation(s) -> "annotation"
      [] s.cat = "openmp" \/ (s.cat = "sync" /\ s.name \in OmpNames) -> "openmp"
      [] s.cat \in {"cuda", "rocm", "opencl", "nccl", "memory", "sync"} -> "gpu"
      [] OTHER -> s.cat

\* SpanIdResolver.resolve among the spans carrying the id: {} or one span.
Resolve(spans, cands, start, family) ==
    LET own == {i \in cands : IdFamily(spans[i]) = family}
        pick == IF own # {} THEN own ELSE {i \in cands : IdFamily(spans[i]) = "annotation"}
        before == {i \in pick : spans[i].start <= start}
    IN IF Cardinality(cands) <= 1 THEN cands
       ELSE IF Cardinality(pick) = 1 THEN pick
       ELSE IF before = {} THEN {} ELSE {LatestBy(before, LAMBDA i : spans[i].start)}
=============================================================================
