------------------------------ MODULE GpuEdges ------------------------------
(***************************************************************************)
(* CUDA and ROCm activity: device records are linked to the host calls     *)
(* that submitted them and corrected (src/core/gpu_activity.py), and give  *)
(* dependency edges (criticalpath._add_gpu_edges, semantics/gpu.py).       *)
(***************************************************************************)
EXTENDS SpanTags

CONSTANTS ClockTolerance,    \* CLOCK_TOLERANCE_NS
          DriftDivisor       \* 1 / CLOCK_DRIFT_RATE

ASSUME DriftAssumption == DriftDivisor \in Nat \ {0} /\ ClockTolerance \in Nat

DeviceTimed(s) == TimingSource(s) = "device"
RuntimeKey(s) == <<s.pid, s.tags.rt>>

(***************************************************************************)
(* correlate: by launch id, else by correlation id; when an id is reused,  *)
(* the latest submission before the record, unless a later one is nearer.  *)
(***************************************************************************)
Ids(s) == {<<"corr", s.tags[k]>> : k \in {j \in {"corr", "corr2"} : Has(s, j) /\ s.tags[j] # "0"}}
HostKeys(s) == Ids(s) \cup (IF Has(s, "lid") THEN {<<"lid", s.tags.lid>>} ELSE {})
Submitters(spans, d, keys) ==
    {h \in DOMAIN spans : /\ IsHostSubmission(spans[h]) /\ RuntimeKey(spans[h]) = RuntimeKey(spans[d])
                          /\ HostKeys(spans[h]) \cap keys # {}}
Candidates(spans, d) ==
    LET s == spans[d]
        exact == IF Has(s, "lid") THEN Submitters(spans, d, {<<"lid", s.tags.lid>>}) ELSE {}
    IN IF exact # {} THEN exact ELSE Submitters(spans, d, Ids(s))
PickLatest(spans, d, cands) == LastBy(cands, LAMBDA h : spans[h].start)
PickAmong(spans, d, cands) ==
    LET t == spans[d].start
        before == {h \in cands : spans[h].start <= t}
        b == LastBy(before, LAMBDA h : spans[h].start)
        a == EarliestBy(cands \ before, LAMBDA h : spans[h].start)
    IN IF before = cands THEN b
       ELSE IF before = {} \/ spans[a].start - t < t - spans[b].start THEN a ELSE b
Pick(spans, d, cands) == IF Cardinality(cands) = 1 THEN CHOOSE h \in cands : TRUE ELSE PickAmong(spans, d, cands)
Correlate(spans) ==
    LET devices == {i \in DOMAIN spans : IsDeviceSpan(spans[i])}
        linked == {d \in devices : Candidates(spans, d) # {}}
        host == [d \in linked |-> Pick(spans, d, Candidates(spans, d))]
    IN [host |-> host,
        conf |-> [d \in linked |-> IF Cardinality(Candidates(spans, d)) = 1 THEN "certain" ELSE "high"],
        unmatched |-> {d \in devices \ linked : Has(spans[d], "lid") \/ Has(spans[d], "corr")},
        precedes |-> {d \in linked : spans[host[d]].start > spans[d].start + ClockTolerance}]
DevicesOf(corr, h) == {d \in DOMAIN corr.host : corr.host[d] = h}
SubmissionNs(spans, corr, i) == IF i \in DOMAIN corr.host THEN spans[corr.host[i]].start ELSE spans[i].start

(***************************************************************************)
(* Device clock drift: the smallest correction that puts no record before  *)
(* its submission and changes by at most 1/DriftDivisor per unit of time.  *)
(* A point is <<t, need>>.                                                 *)
(***************************************************************************)
ClockKey(s) == <<s.pid, s.tags.rt, IF Has(s, "dev") THEN s.tags.dev ELSE Tag(s, "ctx")>>
Evidence(s) == IF Has(s, "submitted") /\ s.tags.submitted <= s.start THEN s.tags.submitted ELSE s.start
IsTimedWork(s) == DeviceTimed(s) /\ OpOf(s) \in DeviceWorkOps
Need(spans, d, h) ==
    LET q == IF Has(spans[d], "queued") THEN spans[d].tags.queued ELSE 0
        bound == IF q # 0 /\ q \in spans[h].start .. EndOf(spans[h]) THEN q ELSE spans[h].start
    IN bound - Evidence(spans[d])
ClockPoints(spans, corr, drop, key) ==
    {<<Evidence(spans[d]), Need(spans, d, corr.host[d])>> :
       d \in {e \in DOMAIN corr.host \ drop : IsTimedWork(spans[e]) /\ ClockKey(spans[e]) = key /\ Need(spans, e, corr.host[e]) > 0}}
CorrectionAt(points, t) ==
    LET before == {p[2] * DriftDivisor + p[1] : p \in {q \in points : q[1] <= t}}
        after == {p[2] * DriftDivisor - p[1] : p \in {q \in points : q[1] > t}}
        c == Max({0} \cup {Max(before) - t : b \in before} \cup {Max(after) + t : a \in after})
    IN (2 * c + DriftDivisor) \div (2 * DriftDivisor)

(***************************************************************************)
(* assemble, once per capture: drop what was recorded twice, correct the   *)
(* clocks, name streams by the program's handles, add parent and latency.  *)
(***************************************************************************)
Duplicates(spans) ==
    LET same(i, j) == /\ RuntimeKey(spans[i]) = RuntimeKey(spans[j]) /\ OpOf(spans[i]) = OpOf(spans[j])
                      /\ \A k \in {"corr", "lid", "nstream", "queue"} : Tag(spans[i], k) = Tag(spans[j], k)
                      /\ spans[i].start = spans[j].start /\ spans[i].dur = spans[j].dur /\ spans[i].name = spans[j].name
        native == {i \in DOMAIN spans : IsDeviceSpan(spans[i]) /\ DeviceTimed(spans[i])}
    IN {i \in native : \E j \in native : j < i /\ same(i, j)}
\* A proxy of a launch the tracer also saw.
Proxies(spans, corr, dup) ==
    LET seen == {corr.host[d] : d \in {e \in DOMAIN corr.host \ dup : DeviceTimed(spans[e])}}
    IN {d \in DOMAIN corr.host : TimingSource(spans[d]) \in ProxyTimings /\ corr.host[d] \in seen}
Set(tags, k, v) == (k :> v) @@ tags
Corrected(spans, corr, drop) ==
    [i \in DOMAIN spans |->
       LET s == spans[i]
           c == IF i \notin drop /\ IsDeviceSpan(s) /\ IsTimedWork(s)
                THEN CorrectionAt(ClockPoints(spans, corr, drop, ClockKey(s)), Evidence(s)) ELSE 0
       IN IF c <= 0 THEN s
          ELSE [s EXCEPT !.start = @ + c,
                         !.tags = Set(IF Has(s, "submitted") THEN Set(@, "submitted", s.tags.submitted + c) ELSE @, "clock_corr_ns", c)]]
VendorKey(s) ==
    CASE Has(s, "nstream") -> <<s.pid, s.tags.rt, IF Has(s, "ctx") THEN s.tags.ctx ELSE Tag(s, "dev"), "s", s.tags.nstream>>
      [] ~Has(s, "nstream") /\ Has(s, "queue") -> <<s.pid, s.tags.rt, Tag(s, "dev"), "q", s.tags.queue>>
      [] OTHER -> <<>>
\* The only record of a launch shows which handle a vendor's stream id is.
Learned(spans, corr, drop, vk) ==
    {spans[corr.host[d]].tags.stream :
       d \in {e \in DOMAIN corr.host \ drop : /\ Has(spans[corr.host[e]], "stream") /\ VendorKey(spans[e]) = vk
                                              /\ OpOf(spans[e]) # "graph" /\ DevicesOf(corr, corr.host[e]) \ drop = {e}}}
StreamName(spans, corr, drop, i) ==
    LET s == spans[i]
        h == IF i \in DOMAIN corr.host THEN {corr.host[i]} ELSE {}
        told == {g \in h : Has(spans[g], "stream") /\ DevicesOf(corr, g) \ drop = {i}}
        known == IF VendorKey(s) = <<>> THEN {} ELSE Learned(spans, corr, drop, VendorKey(s))
    IN CASE told # {} -> {spans[g].tags.stream : g \in told}
         [] told = {} /\ Cardinality(known) = 1 -> known
         [] told = {} /\ Cardinality(known) # 1 /\ VendorKey(s) # <<>> -> {VendorKey(s)[5]}
         [] OTHER -> {}
Linked(spans, corr, i) ==
    LET s == spans[i]
        host == spans[corr.host[i]]
        mod == IF Has(host, "mod") /\ ~Has(s, "mod") /\ OpOf(s) = "kernel" THEN Set(s.tags, "mod", host.tags.mod) ELSE s.tags
        late == [api_ns |-> host.dur, launch_ns |-> s.start - host.start, queue_ns |-> Max({0, s.start - EndOf(host)})]
        sub == IF Has(s, "submitted") /\ s.start >= s.tags.submitted THEN [submit_ns |-> s.start - s.tags.submitted] ELSE <<>>
    IN [s EXCEPT !.tid = IF @ = 0 THEN host.tid ELSE @,
                 !.psid = IF host.sid # None /\ @ = <<>> THEN <<host.sid>> ELSE @,
                 !.tags = IF DeviceTimed(s) /\ OpOf(s) # "sync" THEN late @@ sub @@ mod ELSE mod]
StreamNamed(timed, corr, drop) ==
    [i \in DOMAIN timed |->
       IF i \in drop \/ ~IsDeviceSpan(timed[i]) \/ TimingSource(timed[i]) \in ProxyTimings THEN timed[i]
       ELSE [timed[i] EXCEPT !.tags = FoldSet(LAMBDA n, t : Set(t, "stream", n), @, StreamName(timed, corr, drop, i))]]
LinkedSpans(named, corr, drop) == [i \in DOMAIN named \ drop |-> IF i \in DOMAIN corr.host THEN Linked(named, corr, i) ELSE named[i]]
Assembled(spans, corr, drop) ==
    [spans |-> LinkedSpans(StreamNamed(Corrected(spans, corr, drop), corr, drop), corr, drop), drop |-> drop, corr |-> corr]
Superseded(spans, corr) == LET dup == Duplicates(spans) IN dup \cup Proxies(spans, corr, dup)
Correlated(spans, corr) == Assembled(spans, corr, Superseded(spans, corr))
Assemble(spans) == Correlated(spans, Correlate(spans))
\* The summary of a process's runtime; a is what Assemble made of the spans.
Summary(spans, a, key) ==
    LET mine == {i \in DOMAIN a.spans : IsNewFormat(spans[i]) /\ RuntimeKey(spans[i]) = key}
        dev == {i \in mine : IsDeviceSpan(spans[i])}
        calls == {i \in mine \ dev : IsHostSubmission(spans[i])}
        native == {i \in dev : DeviceTimed(spans[i])}
        proxy == {i \in dev : TimingSource(spans[i]) \in ProxyTimings}
        empty == {h \in calls : OpOf(spans[h]) \in DeviceWorkOps /\ DevicesOf(a.corr, h) \ a.drop = {} /\ ~Has(spans[h], "err")}
    IN [device_spans |-> Cardinality(native), proxy_spans |-> Cardinality(proxy), host_calls |-> Cardinality(calls),
        correlated |-> Cardinality(dev \cap DOMAIN a.corr.host),
        unmatched_device |-> Cardinality({i \in a.corr.unmatched : RuntimeKey(spans[i]) = key}),
        host_without_device |-> IF native = {} THEN 0 ELSE Cardinality(empty),
        timing |-> IF native # {} THEN (IF proxy = {} THEN "device" ELSE "device+proxy") ELSE IF proxy # {} THEN "proxy" ELSE None]

(***************************************************************************)
(* Edges.  A stream is <<pid, runtime, device, stream>>; the device is the *)
(* host's ordinal, or the vendor's where no launch shows the mapping.      *)
(***************************************************************************)
StreamOrderedOps == DeviceWorkOps \cup {"host_func"}
HostDev(s) == IF Has(s, "hdev") THEN <<"h", s.tags.hdev>> ELSE <<>>
NativeToHost(spans, corr, s) ==
    {spans[corr.host[d]].tags.hdev :
       d \in {e \in DOMAIN corr.host : /\ Has(spans[e], "dev") /\ spans[e].tags.dev = Tag(s, "dev") /\ RuntimeKey(spans[e]) = RuntimeKey(s)
                                       /\ Has(spans[corr.host[e]], "hdev")}}
DeviceOf(spans, corr, i) ==
    LET s == spans[i]
        own == IF HostDev(s) # <<>> THEN HostDev(s) ELSE IF i \in DOMAIN corr.host THEN HostDev(spans[corr.host[i]]) ELSE <<>>
        mapped == NativeToHost(spans, corr, s)
    IN IF own # <<>> \/ ~Has(s, "dev") THEN own
       ELSE IF Cardinality(mapped) = 1 THEN <<"h", CHOOSE m \in mapped : TRUE>> ELSE <<"n", s.tags.dev>>
\* A synchronous copy of an older hook names no stream: the default one.
LegacyCopy(spans, corr, i) ==
    /\ i \in DOMAIN corr.host /\ ~Has(spans[corr.host[i]], "stream") /\ Tag(spans[corr.host[i]], "type") = "memcpy"
    /\ OpOf(spans[corr.host[i]]) = "memcpy"
StreamKey(spans, corr, i) ==
    LET st == IF LegacyCopy(spans, corr, i) THEN "0" ELSE Tag(spans[i], "stream")
    IN IF st = None THEN <<>> ELSE <<spans[i].pid, spans[i].tags.rt, DeviceOf(spans, corr, i), st>>

\* v: the view the rules share, [spans, corr, key, sub]; key and sub are
\* functions on the work of the streams.
ViewOf(spans, corr) ==
    LET work == {i \in DOMAIN spans : IsDeviceSpan(spans[i]) /\ OpOf(spans[i]) \in StreamOrderedOps /\ StreamKey(spans, corr, i) # <<>>}
    IN [spans |-> spans, corr |-> corr, key |-> [i \in work |-> StreamKey(spans, corr, i)],
        sub |-> [i \in work |-> SubmissionNs(spans, corr, i)]]
View(spans) == ViewOf(spans, Correlate(spans))
Keys(v) == {v.key[i] : i \in DOMAIN v.key}
OnStream(v, k) == {i \in DOMAIN v.key : v.key[i] = k}
Earlier(v, a, b) ==
    \/ v.sub[a] < v.sub[b]
    \/ v.sub[a] = v.sub[b] /\ (EffectiveStart(v.spans[a]) < EffectiveStart(v.spans[b])
                               \/ (EffectiveStart(v.spans[a]) = EffectiveStart(v.spans[b]) /\ a < b))
LaunchEdges(v) == {Edge(d, v.corr.host[d], "launch", v.corr.conf[d]) : d \in DOMAIN v.corr.host}

\* One graph launch's kernels form one group of the stream.
GraphOf(v, i) == IF i \in DOMAIN v.corr.host /\ OpOf(v.spans[v.corr.host[i]]) = "graph" /\ OpOf(v.spans[i]) # "graph"
                 THEN {v.corr.host[i]} ELSE {}
SameGroup(v, S, i, j) ==
    \/ i = j
    \/ GraphOf(v, i) # {} /\ \A c \in S : (Earlier(v, i, c) /\ Earlier(v, c, j)) \/ c \in {i, j} => GraphOf(v, c) = GraphOf(v, i)
GroupAt(v, S, i) == {j \in S : SameGroup(v, S, i, j) \/ SameGroup(v, S, j, i)}
FifoEdges(v) ==
    UNION {LET S == OnStream(v, k)
               groups == {GroupAt(v, S, i) : i \in S}
               before(g, h) == \A a \in g, b \in h : Earlier(v, a, b)
           IN UNION {{Edge(b, LatestBy(p[1], LAMBDA j : EffectiveEnd(v.spans[j])), "sequential", "certain") : b \in p[2]}
                     : p \in Consecutive(groups, LAMBDA g, h : g # h /\ before(g, h))}
           : k \in Keys(v)}

\* The streams a host call can mean by a handle.
StreamKeys(v, s, dev, st) ==
    LET exact == <<s.pid, s.tags.rt, dev, st>>
        cands == {k \in Keys(v) : k[1] = s.pid /\ k[2] = s.tags.rt /\ k[4] = st}
    IN IF st = None THEN {}
       ELSE IF dev # <<>> /\ exact \in Keys(v) THEN {<<exact, "certain">>}
       ELSE {<<k, IF Cardinality(cands) = 1 THEN "certain" ELSE "medium">> : k \in cands}
LastAnyTime(v, k, cutoff, limit) == LET s == OnStream(v, k) IN IF s = {} THEN {} ELSE {LastBy(s, LAMBDA i : v.sub[i])}
\* The last work submitted before cutoff that had finished by limit; the
\* code gives up after 64 operations.
LastBefore(v, k, cutoff, limit) ==
    LET s == {i \in OnStream(v, k) : v.sub[i] < cutoff /\ EffectiveEnd(v.spans[i]) <= limit}
    IN {i \in s : \A j \in s \ {i} : Earlier(v, j, i)}
Forever == 1000000
RecordBefore(v, s, t) ==
    LET recs == {i \in DOMAIN v.spans : LET r == v.spans[i] IN /\ Tag(r, "side") = "cpu" /\ IsNewFormat(r) /\ OpOf(r) = "event_record"
                                           /\ Has(r, "event") /\ Has(s, "event") /\ r.tags.event = s.tags.event
                                           /\ RuntimeKey(r) = RuntimeKey(s) /\ r.start < t}
    IN IF recs = {} THEN {} ELSE {LastBy(recs, LAMBDA i : v.spans[i].start)}
SyncKind(s) == CASE Has(s, "sync") -> s.tags.sync
                 [] s.name \in {"cudaDeviceSynchronize", "cuCtxSynchronize"} -> "device"
                 [] s.name = "cudaStreamSynchronize" -> "stream"
                 [] s.name = "cudaEventSynchronize" -> "event"
                 [] OTHER -> None

\* A sync call's stream, or that of the synchronization record it caused.
SyncStream(v, i) ==
    IF Has(v.spans[i], "stream") THEN v.spans[i].tags.stream
    ELSE LET recs == {d \in DevicesOf(v.corr, i) : OpOf(v.spans[d]) = "sync" /\ Has(v.spans[d], "stream")}
         IN IF recs = {} THEN None ELSE v.spans[Min(recs)].tags.stream
StreamTargets(v, i, limit) ==
    UNION {{<<j, kc[2]>> : j \in LastBefore(v, kc[1], v.spans[i].start, limit)}
           : kc \in StreamKeys(v, v.spans[i], HostDev(v.spans[i]), SyncStream(v, i))}
EventTargets(v, i, limit, lossy) ==
    LET s == v.spans[i]
        rec == RecordBefore(v, s, s.start)
        all == {k \in Keys(v) : k[1] = s.pid /\ k[2] = s.tags.rt}
    IN IF rec = {} THEN UNION {{<<j, "medium">> : j \in LastBefore(v, k, s.start, limit)} : k \in all}
       ELSE UNION {UNION {{<<j, IF lossy THEN "low" ELSE kc[2]>> : j \in LastBefore(v, kc[1], v.spans[r].start, limit)}
                          : kc \in StreamKeys(v, s, HostDev(v.spans[r]), Tag(v.spans[r], "stream"))} : r \in rec}
DeviceTargets(v, i, limit) ==
    LET s == v.spans[i]
        all == {k \in Keys(v) : k[1] = s.pid /\ k[2] = s.tags.rt}
        one == Cardinality({k[3] : k \in all}) <= 1
        dev == HostDev(s)
        other(k) == ~one /\ dev # <<>> /\ k[3] # dev /\ k[3] # <<>> /\ k[3][1] = "h"
    IN UNION {{<<j, IF one \/ (dev # <<>> /\ k[3] = dev) THEN "certain" ELSE "medium">> : j \in LastBefore(v, k, s.start, limit)}
              : k \in {q \in all : ~other(q)}}
SyncEdges(v, lossy) ==
    UNION {LET s == v.spans[i]
               limit == EndOf(s) + ClockTolerance
               targets == CASE SyncKind(s) = "stream" -> StreamTargets(v, i, limit)
                            [] SyncKind(s) = "event" -> EventTargets(v, i, limit, s.pid \in lossy)
                            [] SyncKind(s) = "device" -> DeviceTargets(v, i, limit)
                            [] OTHER -> {}
           IN {Edge(i, t[1], "device_wait", t[2]) : t \in targets}
           : i \in {j \in DOMAIN v.spans : Tag(v.spans[j], "side") = "cpu" /\ IsNewFormat(v.spans[j]) /\ OpOf(v.spans[j]) = "sync"}}

\* A stream that waits for an event: the last work before its record, then
\* the first work submitted to the waiting stream afterwards.
WaitEdges(v, lossy) ==
    UNION {LET s == v.spans[i]
               rec == {r \in RecordBefore(v, s, s.start) : Has(s, "stream") /\ Has(v.spans[r], "stream")}
               pk == UNION {StreamKeys(v, s, HostDev(v.spans[r]), v.spans[r].tags.stream) : r \in rec}
               wk == IF rec = {} THEN {} ELSE StreamKeys(v, s, HostDev(s), s.tags.stream)
               producers == UNION {UNION {LastBefore(v, k[1], v.spans[r].start, Forever) : k \in pk} : r \in rec}
               later(k) == {j \in OnStream(v, k) : v.sub[j] >= s.start}
               consumers == UNION {{c \in later(k[1]) : \A j \in later(k[1]) \ {c} : Earlier(v, c, j)} : k \in wk}
               conf == IF s.pid \in lossy THEN "low"
                       ELSE Weaker((CHOOSE k \in pk : TRUE)[2], (CHOOSE k \in wk : TRUE)[2])
           IN IF Cardinality(pk) # 1 \/ Cardinality(wk) # 1 THEN {}
              ELSE {Edge(p[2], p[1], "sequential", conf) : p \in {q \in producers \X consumers : q[1] # q[2]}}
           : i \in {j \in DOMAIN v.spans : Tag(v.spans[j], "side") = "cpu" /\ IsNewFormat(v.spans[j]) /\ OpOf(v.spans[j]) = "stream_wait"}}

BlockingCopyEdges(v) ==
    {Edge(v.corr.host[d], d, "device_wait", "certain") :
       d \in {e \in DOMAIN v.corr.host : Tag(v.spans[v.corr.host[e]], "blocking") = "1" /\ OpOf(v.spans[e]) \in {"memcpy", "memset"}}}
HostFunctionEdges(v) ==
    LET fs == {i \in DOMAIN v.spans : Tag(v.spans[i], "side") = "gpu" /\ Tag(v.spans[i], "op") = "host_func"}
        th(i) == <<v.spans[i].pid, v.spans[i].tid>>
    IN UNION {{Edge(p[2], p[1], "sequential", "high") :
                 p \in {q \in Consecutive({i \in fs : th(i) = t}, LAMBDA a, b : Before(v.spans, a, b)) :
                          Tag(v.spans[q[1]], "stream") # Tag(v.spans[q[2]], "stream")}} : t \in {th(i) : i \in fs}}
\* The legacy default stream and the blocking streams of its device; only
\* the edges its own order does not imply.
Created(v, flag) == {<<v.spans[i].pid, Tag(v.spans[i], "rt"), v.spans[i].tags.stream>> :
                       i \in {j \in DOMAIN v.spans : /\ Tag(v.spans[j], "op") = "stream_create" /\ Tag(v.spans[j], "stream") \notin {None, "0"}
                                                     /\ (flag => Tag(v.spans[j], "nonblocking") = "1")}}
DefaultStreamEdges(v) ==
    UNION {LET others == {k \in Keys(v) : /\ k[1] = z[1] /\ k[2] = z[2] /\ k[3] = z[3] /\ k[4] # "0"
                                          /\ <<k[1], k[2], k[4]>> \notin Created(v, TRUE)}
               nextZ(x) == {y \in OnStream(v, z) : Earlier(v, x, y) /\ ~\E c \in OnStream(v, z) : Earlier(v, x, c) /\ Earlier(v, c, y)}
               prevZ(x) == {y \in OnStream(v, z) : x \in nextZ(y)}
               conf(k) == IF <<k[1], k[2], k[4]>> \in Created(v, FALSE) THEN "high" ELSE "medium"
               prev(k, x) == {j \in OnStream(v, k) : v.sub[j] < v.sub[x] /\ \A c \in OnStream(v, k) \ {j} :
                                 v.sub[c] < v.sub[x] => Earlier(v, c, j)}
               next(k, x) == {j \in OnStream(v, k) : v.sub[j] >= v.sub[x] /\ \A c \in OnStream(v, k) \ {j} :
                                 v.sub[c] >= v.sub[x] => Earlier(v, j, c)}
           IN UNION {UNION {{Edge(x, j, "sequential", conf(k)) : j \in {p \in prev(k, x) : \A y \in prevZ(x) : v.sub[y] < v.sub[p]}}
                            \cup {Edge(j, x, "sequential", conf(k)) : j \in {n \in next(k, x) : \A y \in nextZ(x) : v.sub[y] > v.sub[n]}}
                            : k \in others} : x \in OnStream(v, z)}
           : z \in {k \in Keys(v) : k[4] = "0"}}
EdgesIn(v, lossy) ==
    LaunchEdges(v) \cup FifoEdges(v) \cup SyncEdges(v, lossy) \cup WaitEdges(v, lossy) \cup BlockingCopyEdges(v)
    \cup HostFunctionEdges(v) \cup DefaultStreamEdges(v)
DeviceEdges(spans, lossy) == IF \E i \in DOMAIN spans : IsNewFormat(spans[i]) THEN EdgesIn(View(spans), lossy) ELSE {}
=============================================================================
