--------------------------- MODULE SpanAlgorithms ---------------------------
(***************************************************************************)
(* The algorithms every trace store shares (src/core/store/common.py) and  *)
(* the activity buckets (src/analysis/activity_buckets.py): display lanes, *)
(* filters, union of intervals, the multiresolution activity index and the *)
(* attribution of exclusive time.                                          *)
(*                                                                         *)
(* A span is a record with fields seq, pid, tid, cat, name, start, dur,    *)
(* side, stream, type, stack, rt, sid; "" and 0 stand for an absent tag.   *)
(* Times are integers.  Where the code divides, both sides are multiplied  *)
(* out, so no rounding is lost: a bin is as wide as the whole extent when  *)
(* time is counted in units of 1/NBins.                                    *)
(***************************************************************************)
EXTENDS Integers, Sequences, SequencesExt, TLC

CONSTANTS NBins,     \* bins of the finest activity level (65536)
          Levels,    \* bins of every level, finest first
          Batch      \* union intervals kept before they are binned (65536)

ASSUME BinAssumption == /\ NBins \in Nat \ {0} /\ Batch \in Nat \ {0}
                        /\ \A i \in DOMAIN Levels : NBins % Levels[i] = 0

None == -1
SumSeq(s) == FoldLeft(LAMBDA a, b : a + b, 0, s)
End(s) == s.start + s.dur
BySeq(a, b) == a.seq < b.seq
ByStart(a, b) == \/ a.start < b.start
                 \/ a.start = b.start /\ a.seq < b.seq
ByEnd(a, b) == \/ End(a) < End(b)
               \/ End(a) = End(b) /\ a.seq < b.seq
Lesser(a, b) == IF a < b THEN a ELSE b
Greater(a, b) == IF a < b THEN b ELSE a

(***************************************************************************)
(* Buckets.  One type stands for each of the code's sets of types.         *)
(***************************************************************************)
TypeBucket ==
    [nvtx_range |-> "Annotation", kernel |-> "Computation", send |-> "Communication",
     wait |-> "Synchronization", memcpy_async |-> "Memory transfer", launch |-> "Runtime overhead"]

CategoryBucket ==
    [cpu |-> "Computation", cuda |-> "Computation", rocm |-> "Computation", opencl |-> "Computation",
     openmp |-> "Computation", sycl |-> "Computation", mpi |-> "Communication", nccl |-> "Communication",
     sync |-> "Synchronization", memory |-> "Memory transfer", jit |-> "Runtime overhead",
     nvtx |-> "Annotation", sched |-> "Idle"]

BucketOf(cat, type) ==
    IF type \in DOMAIN TypeBucket THEN TypeBucket[type]
    ELSE IF cat \in DOMAIN CategoryBucket THEN CategoryBucket[cat] ELSE "Other"

BucketOfSpan(s) ==
    IF s.side = "cpu" /\ (s.type = "kernel" \/ s.cat \in {"opencl", "nccl"})
    THEN "Runtime overhead" ELSE BucketOf(s.cat, s.type)

NamedGpu(s) == s.name = "copy_gpu"      \* the name ends with _gpu

IsDeviceTimed(s) ==
    \/ s.side = "gpu"
    \/ s.side # "cpu" /\ (NamedGpu(s) \/ s.type = "memcpy_async"
                          \/ s.cat \in {"cuda", "rocm", "opencl", "nccl"})

HostWork(s) == s.dur > 0 /\ ~IsDeviceTimed(s) /\ BucketOfSpan(s) # "Annotation"
DeviceWork(s) == s.dur > 0 /\ IsDeviceTimed(s) /\ BucketOfSpan(s) # "Annotation"

(***************************************************************************)
(* Display lanes.                                                          *)
(***************************************************************************)
ThreadLane(s) == IF s.tid # 0 THEN <<s.cat, "thread", s.tid>> ELSE <<s.cat, "", 0>>

LaneBase(s) ==
    CASE s.side = "cpu" -> ThreadLane(s)
      [] s.side # "cpu" /\ s.stream # 0
            /\ (s.side = "gpu" \/ s.cat \in {"cuda", "rocm"} \/ s.type = "memcpy_async")
         -> <<s.cat, "stream", s.stream>>
      [] OTHER -> IF s.side = "gpu" \/ NamedGpu(s) THEN <<s.cat, "device", 0>> ELSE ThreadLane(s)

\* A lane name: its base and, when several processes share the base, the pid.
LaneName(base, pid, shared) == <<base, IF shared THEN pid ELSE None>>

\* groups: one record per (pid, base), in any order.
AssignLaneNames(groups) ==
    LET sharing(base) == {groups[i].pid : i \in {j \in DOMAIN groups : groups[j].base = base}}
        ordered == SortSeq(groups, LAMBDA a, b : a.first_seq < b.first_seq)
    IN [i \in DOMAIN ordered |->
          ordered[i] @@ [name |-> LaneName(ordered[i].base, ordered[i].pid,
                                           \E p, q \in sharing(ordered[i].base) : p # q)]]

(***************************************************************************)
(* Filters.                                                                *)
(***************************************************************************)
NoFilter == [min_dur |-> 0, cats |-> {}, buckets |-> {}, names |-> {}, range |-> <<>>]

Matches(f, s) ==
    /\ f.min_dur > 0 => s.dur >= f.min_dur
    /\ f.range # <<>> => End(s) > f.range[1] /\ s.start < f.range[2]
    /\ f.cats # {} => s.cat \in f.cats
    /\ f.buckets # {} => BucketOfSpan(s) \in f.buckets
    /\ f.names # {} => s.name \in f.names

(***************************************************************************)
(* Union of intervals given in start order.                                *)
(***************************************************************************)

UnionStep(u, iv) ==
    IF iv[2] <= iv[1] THEN u
    ELSE IF u = <<>> \/ iv[1] > Last(u)[2] THEN Append(u, iv)
    ELSE IF iv[2] > Last(u)[2] THEN [u EXCEPT ![Len(u)] = <<@[1], iv[2]>>] ELSE u

UnionIntervals(ivs) == FoldLeft(UnionStep, <<>>, ivs)
UnionLength(ivs) == LET u == UnionIntervals(ivs)
                    IN SumSeq([i \in DOMAIN u |-> u[i][2] - u[i][1]])

\* Covered time before e of disjoint sorted intervals.
CoverageAt(e, u) ==
    LET idx == Len(SelectSeq(u, LAMBDA iv : iv[1] <= e))
        full == SumSeq([i \in 1 .. (idx - 1) |-> u[i][2] - u[i][1]])
    IN IF idx = 0 THEN 0 ELSE full + Lesser(e - u[idx][1], u[idx][2] - u[idx][1])

Intervals(spans) == [i \in DOMAIN spans |-> <<spans[i].start, End(spans[i])>>]

(***************************************************************************)
(* Activity index.  busy[b] and cell widths are in units of 1/NBins.       *)
(***************************************************************************)
Bins == 0 .. (NBins - 1)

LastBinShort(hi, width) == Lesser(hi \div width, NBins)

LastBin(hi, width) == Lesser((hi + width - 1) \div width, NBins)
FlushUnion(busy, batch, width) ==
    LET b0 == batch[1][1] \div width
        b1 == LastBin(Last(batch)[2], width)
        hi == IF b1 <= b0 THEN Lesser(b0 + 1, NBins) ELSE b1
        lo == IF b1 <= b0 THEN hi - 1 ELSE b0
    IN [b \in Bins |-> IF b \in lo .. (hi - 1)
                       THEN busy[b] + CoverageAt((b + 1) * width, batch) - CoverageAt(b * width, batch)
                       ELSE busy[b]]

\* What ActivityBuilder makes of a lane's intervals on the grid [t0, t1].
BuildActivity(ivs, t0, t1) ==
    LET width == Greater(t1 - t0, 1)
        u == UnionIntervals([i \in DOMAIN ivs |-> <<(ivs[i][1] - t0) * NBins, (ivs[i][2] - t0) * NBins>>])
        batches == [k \in 1 .. ((Len(u) + Batch - 1) \div Batch) |->
                      SubSeq(u, (k - 1) * Batch + 1, Lesser(k * Batch, Len(u)))]
        bin(t) == Lesser(Greater(((t - t0) * NBins) \div width, 0), NBins - 1)
    IN [t0 |-> t0, width |-> width,
        busy |-> FoldLeft(LAMBDA b, c : FlushUnion(b, c, width), [b \in Bins |-> 0], batches),
        starts |-> [b \in Bins |-> Len(SelectSeq(ivs, LAMBDA iv : bin(iv[1]) = b))]]

\* A coarser level: groups of bins summed.
LevelOf(act, n) == [g \in 0 .. (n - 1) |->
    SumSeq([k \in 1 .. (NBins \div n) |-> act.busy[g * (NBins \div n) + k - 1]])]

\* resample_occupancy on the finest level: busy time of each of n output
\* bins of [start, end), in units of 1/(n * width * NBins).
Resample(act, start, end, n) ==
    LET d == n * act.width
        cum(i) == SumSeq([k \in 1 .. i |-> act.busy[k - 1]])
        c(k) == LET p == Greater(((start - act.t0) * n + k * (end - start)) * NBins, 0)
                    i == Lesser(p \div d, NBins - 1)
                IN IF p >= NBins * d THEN cum(NBins) * d ELSE cum(i) * d + (p - i * d) * act.busy[i]
        full == (end - start) * act.width * NBins
    IN [k \in 0 .. (n - 1) |-> Lesser(c(k + 1) - c(k), full)]

\* TraceStore.occupancy: <<>> when an output bin is finer than the finest level.
Occupancy(act, start, end, n) ==
    IF n > 0 /\ end > start /\ act.width * n <= (end - start) * NBins THEN Resample(act, start, end, n) ELSE <<>>

\* occupancy_from_spans, in units of 1/n.
OccupancyExact(spans, start, end, n) ==
    LET cut == SelectSeq(Intervals(spans), LAMBDA iv : iv[2] > start /\ iv[1] < end)
        u == UnionIntervals([i \in DOMAIN cut |-> <<(Greater(cut[i][1], start) - start) * n,
                                                   (Lesser(cut[i][2], end) - start) * n>>])
        w == end - start
    IN [k \in 0 .. (n - 1) |-> CoverageAt((k + 1) * w, u) - CoverageAt(k * w, u)]

\* estimate_starts: spans starting in [start, end), to one bin at each edge.
EstimateStarts(act, start, end) ==
    LET i0 == Greater(0, ((start - act.t0) * NBins) \div act.width)
        i1 == Lesser(NBins, ((end - act.t0) * NBins) \div act.width + 1)
    IN SumSeq([k \in 1 .. Greater(i1 - i0, 0) |-> act.starts[i0 + k - 1]])

(***************************************************************************)
(* Exclusive time of one thread, streaming.  `open' are the spans whose    *)
(* end is still pending; the lazy deletions from the heap are not visible. *)
(***************************************************************************)
AggKey(s, device) == <<s.pid, s.tid, s.cat, s.name, BucketOfSpan(s), device>>
AddRow(rows, key, ns) ==
    IF ns <= 0 THEN rows
    ELSE (key :> (ns + IF key \in DOMAIN rows THEN rows[key] ELSE 0)) @@ rows

\* The owner of an instant: latest start, then earliest end, then arrival.

Inner(a, b) == \/ a.start > b.start
               \/ a.start = b.start /\ ByEnd(a, b)
Innermost(S) == SortSeq(S, Inner)[1]

NoRows == [k \in {} |-> 0]
SweepInit(rows) == [open |-> <<>>, prev |-> None, rows |-> rows, max_end |-> None,
                    samples |-> <<>>, sample_t |-> None]

OwnerAdd(st, t) ==
    [st EXCEPT !.prev = t,
               !.rows = IF st.prev # None /\ t > st.prev /\ st.open # <<>>
                        THEN AddRow(@, AggKey(Innermost(st.open), FALSE), t - st.prev) ELSE @]

EndSpan(st, s) == [OwnerAdd(st, End(s)) EXCEPT !.open = Remove(@, s)]
DrainEnds(st, t) ==
    FoldLeft(EndSpan, st, SelectSeq(SortSeq(st.open, ByEnd), LAMBDA s : End(s) <= t))


Uncovered(st, smp) == st.max_end = None \/ st.max_end <= smp.start
SettleSamples(st) ==
    [st EXCEPT !.samples = <<>>,
               !.rows = FoldLeft(LAMBDA r, smp : IF Uncovered(st, smp)
                                                 THEN AddRow(r, AggKey(smp, FALSE), smp.dur) ELSE r,
                                 @, st.samples)]

SweepSample(st, s) ==
    LET q == IF st.sample_t # None /\ s.start # st.sample_t THEN SettleSamples(st) ELSE st
    IN [q EXCEPT !.samples = Append(@, s), !.sample_t = s.start]

SweepSpan(st, s) ==
    LET q == IF st.samples # <<>> /\ s.start > st.sample_t THEN SettleSamples(st) ELSE st
        o == OwnerAdd(DrainEnds(q, s.start), s.start)
    IN [o EXCEPT !.open = Append(@, s),
                 !.max_end = IF @ = None \/ End(s) > @ THEN End(s) ELSE @]

ExclusiveThreadSweep(spans, rows) ==
    LET st == FoldLeft(LAMBDA q, s : IF s.cat = "cpu" THEN SweepSample(q, s) ELSE SweepSpan(q, s),
                       SweepInit(rows), spans)
    IN SettleSamples(FoldLeft(EndSpan, st, SortSeq(st.open, ByEnd))).rows

(***************************************************************************)
(* activity_buckets.ExclusiveTime: the same attribution over a list, by    *)
(* sorted boundaries, with samples looked up in the merged coverage.       *)
(***************************************************************************)
Boundaries(idx, spans) ==
    LET all == FlattenSeq([k \in DOMAIN idx |-> <<<<spans[idx[k]].start, 1, idx[k]>>, <<End(spans[idx[k]]), 0, idx[k]>>>>])
    IN SortSeq(all, LAMBDA a, b : \/ a[1] < b[1]
                                  \/ a[1] = b[1] /\ a[2] < b[2]
                                  \/ a[1] = b[1] /\ a[2] = b[2] /\ a[3] < b[3])

ThreadOwned(idx, spans) ==
    LET inner(a, b) == \/ spans[a].start > spans[b].start
                       \/ spans[a].start = spans[b].start /\ End(spans[a]) < End(spans[b])
                       \/ spans[a].start = spans[b].start /\ End(spans[a]) = End(spans[b]) /\ a < b
        step(st, bd) ==
            LET owned == IF st.prev # None /\ bd[1] > st.prev /\ st.active # <<>>
                         THEN AddRow(st.owned, SortSeq(st.active, inner)[1], bd[1] - st.prev) ELSE st.owned
            IN [prev |-> bd[1], owned |-> owned,
                active |-> IF bd[2] = 1 THEN Append(st.active, bd[3]) ELSE Remove(st.active, bd[3])]
    IN FoldLeft(step, [prev |-> None, owned |-> NoRows, active |-> <<>>], Boundaries(idx, spans)).owned

\* Host time owned by each span (by position), and device time in full.
ExclusiveTime(spans) ==
    LET host(i) == HostWork(spans[i])
        key(i) == <<spans[i].pid, spans[i].tid>>
        of(th) == SelectSeq([i \in DOMAIN spans |-> i],
                            LAMBDA i : host(i) /\ key(i) = th /\ spans[i].cat # "cpu")
        merged(th) == UnionIntervals(Intervals(SortSeq([k \in DOMAIN of(th) |-> spans[of(th)[k]]], ByStart)))
        covered(i) == LET m == SelectSeq(merged(key(i)), LAMBDA iv : iv[1] <= spans[i].start)
                      IN m # <<>> /\ spans[i].start < Last(m)[2]
        threads == {key(i) : i \in {j \in DOMAIN spans : host(j)}}
        owned == [th \in threads |-> ThreadOwned(of(th), spans)]
    IN [i \in DOMAIN spans |->
          IF DeviceWork(spans[i]) THEN spans[i].dur
          ELSE IF ~host(i) THEN 0
          ELSE IF spans[i].cat = "cpu" THEN (IF covered(i) THEN 0 ELSE spans[i].dur)
          ELSE IF i \in DOMAIN owned[key(i)] THEN owned[key(i)][i] ELSE 0]

\* exclusive_totals grouped the way the stores group.
ExclusiveTotals(spans) ==
    LET own == ExclusiveTime(spans)
    IN FoldLeft(LAMBDA r, i : AddRow(r, AggKey(spans[i], IsDeviceTimed(spans[i])), own[i]),
                NoRows, [i \in DOMAIN spans |-> i])
=============================================================================
