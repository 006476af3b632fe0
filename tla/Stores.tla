------------------------------- MODULE Stores -------------------------------
(***************************************************************************)
(* The two trace stores side by side: MemoryTraceStore (one list in        *)
(* arrival order, src/core/store/memory.py with the generic algorithms of  *)
(* base.py) and DiskTraceStore (one shard of rows per process, a write     *)
(* buffer, SQL aggregates, persisted derived tables,                       *)
(* src/core/store/disk.py).  Every write goes to both, as in the parity    *)
(* tests.  Each store keeps what it has derived until an event changes;    *)
(* threads and crashes are DiskStore's subject.                            *)
(***************************************************************************)
EXTENDS SpanAlgorithms, FiniteSets

CONSTANTS Uses,       \* what a program appends and asks for: [shapes, asks]
          PointNames, \* names of counters and instants
          PointPids,  \* processes that send them
          BatchSize,  \* events the disk store buffers
          MaxEvents, MaxChanges, ChangedTimes

Results == {"lanes", "activity", "agg", "excl", "timed", "extent", "events"}
ASSUME UsesAssumption == BatchSize \in Nat \ {0} /\ \A u \in Uses : u.asks \subseteq Results

VARIABLES spans,      \* MemoryTraceStore._spans
          points,     \* _instants and _counters, in arrival order
          index,      \* the spans memory's _derived was built from, or <<>>
          shard,      \* disk: the shards in order of creation: pid, rows, points
          buffered,   \* disk: events of them still in the write buffer
          saved,      \* disk: the tables of finalize() while _finalized, or <<>>
          told,       \* disk: _derived, what has been asked for and when
          next_seq,   \* both stores number every event
          use, changes
disk == <<shard, buffered, saved, told>>
vars == <<spans, points, index, disk, next_seq, use, changes>>

(***************************************************************************)
(* Queries: the arguments of iter_spans; None, {} or <<>> where not given. *)
(***************************************************************************)
AnyQuery == [order |-> "seq", pid |-> None, tid |-> None, lane |-> <<>>, cats |-> {}, window |-> <<>>,
             has_stack |-> {}, gpu_model |-> {}, with_ids |-> {}, filt |-> NoFilter]

HasIds(s) == s.sid # 0
Overlaps(s, w) == s.start <= w[2] /\ End(s) > w[1]

\* The tests applied to every span, in the loop (memory) or in SQL (disk).
Selected(q, s) ==
    /\ q.pid # None => s.pid = q.pid
    /\ q.tid # None => s.tid = q.tid
    /\ q.cats # {} => s.cat \in q.cats
    /\ q.window # <<>> => Overlaps(s, q.window)
    /\ q.has_stack # {} => s.stack \in q.has_stack
    /\ q.gpu_model # {} => (s.rt \in {"cuda", "rocm"}) \in q.gpu_model
    /\ q.with_ids # {} => HasIds(s) \in q.with_ids
    /\ Matches(q.filt, s)

Before(order, a, b) == IF order = "seq" THEN BySeq(a, b) ELSE ByStart(a, b)
Ordered(list, order) == SortSeq(list, LAMBDA a, b : Before(order, a, b))

(***************************************************************************)
(* Lanes.                                                                  *)
(***************************************************************************)
NewGroup(s) == [pid |-> s.pid, base |-> LaneBase(s), count |-> 1, first_seq |-> s.seq,
                min_start |-> s.start, max_end |-> End(s), max_dur |-> s.dur]

GroupStep(groups, s) ==
    IF \E i \in DOMAIN groups : groups[i].pid = s.pid /\ groups[i].base = LaneBase(s)
    THEN [i \in DOMAIN groups |->
            IF groups[i].pid = s.pid /\ groups[i].base = LaneBase(s)
            THEN [groups[i] EXCEPT !.count = @ + 1, !.min_start = Lesser(@, s.start),
                                   !.max_end = Greater(@, End(s)), !.max_dur = Greater(@, s.dur)]
            ELSE groups[i]]
    ELSE Append(groups, NewGroup(s))

\* Memory derives everything from its list, when first asked for.
Indexed == IF index = <<>> THEN spans ELSE index[1]
MemoryLanes == AssignLaneNames(FoldLeft(GroupStep, <<>>, Indexed))

\* SELECT lane_key, COUNT(*), MIN(seq), ... GROUP BY lane_key, shard by shard.
Least(S) == CHOOSE x \in S : \A y \in S : x <= y
Most(S) == CHOOSE x \in S : \A y \in S : x >= y
Having(rows, P(_)) == {rows[i] : i \in {j \in DOMAIN rows : P(rows[j])}}

ShardGroups(sh) ==
    LET bases == {LaneBase(sh.rows[i]) : i \in DOMAIN sh.rows}
        group(b) == LET R == Having(sh.rows, LAMBDA s : LaneBase(s) = b)
                    IN [pid |-> sh.pid, base |-> b, count |-> Cardinality(R),
                        first_seq |-> Least({s.seq : s \in R}), min_start |-> Least({s.start : s \in R}),
                        max_end |-> Most({End(s) : s \in R}), max_dur |-> Most({s.dur : s \in R})]
    IN SetToSeq({group(b) : b \in bases})

ComputedLanes == AssignLaneNames(FlattenSeq([k \in DOMAIN shard |-> ShardGroups(shard[k])]))

LaneNamed(lanes, name) == SelectSeq(lanes, LAMBDA ln : ln.name = name)

(***************************************************************************)
(* MemoryTraceStore.iter_spans: lane index, thread index or the whole list *)
(***************************************************************************)
ThreadIndex(pid, tid) == SortSeq(SelectSeq(Indexed, LAMBDA s : s.pid = pid /\ s.tid = tid), ByStart)

LaneIndex(name) ==
    LET lane(s) == SelectSeq(MemoryLanes, LAMBDA ln : ln.pid = s.pid /\ ln.base = LaneBase(s))[1].name
    IN SortSeq(SelectSeq(Indexed, LAMBDA s : lane(s) = name), ByStart)

\* searchsorted over the lane's starts, widened by its longest span
Narrowed(list, w, max_dur) == SelectSeq(list, LAMBDA s : s.start >= w[1] - max_dur /\ s.start <= w[2])

MemoryIter(q) ==
    LET list == IF q.lane # <<>>
                THEN LET l == LaneIndex(q.lane)
                     IN IF q.window = <<>> \/ l = <<>> THEN l
                        ELSE Narrowed(l, q.window, LaneNamed(MemoryLanes, q.lane)[1].max_dur)
                ELSE IF q.pid # None /\ q.tid # None THEN ThreadIndex(q.pid, q.tid)
                ELSE spans
    IN SelectSeq(Ordered(list, q.order), LAMBDA s : Selected(q, s))

(***************************************************************************)
(* DiskTraceStore.iter_spans: a WHERE clause with a look-back for the      *)
(* start index, one ordered cursor per shard, merged on the fly.           *)
(***************************************************************************)
ShardOf(pid) == SelectSeq(shard, LAMBDA sh : sh.pid = pid)

MaxDur == Most({0} \cup UNION {{shard[k].rows[i].dur : i \in DOMAIN shard[k].rows} : k \in DOMAIN shard})

Lookback(lanes) == IF lanes # <<>> THEN lanes[1].max_dur ELSE MaxDur

SpanWhere(q, lanes, s) ==
    /\ lanes # <<>> => LaneBase(s) = lanes[1].base
    /\ q.window # <<>> => s.start >= q.window[1] - Lookback(lanes)
    /\ Selected(q, s)

\* heapq.merge: the least head of the cursors, again and again.
MergeStep(st, less(_, _)) ==
    LET live == {k \in DOMAIN st.rest : st.rest[k] # <<>>}
        k == CHOOSE k \in live : \A j \in live \ {k} :
               LET a == Head(st.rest[k])  b == Head(st.rest[j]) IN less(a, b) \/ (~less(b, a) /\ k < j)
    IN [out |-> Append(st.out, Head(st.rest[k])), rest |-> [st.rest EXCEPT ![k] = Tail(@)]]

KMerge(iters, less(_, _)) ==
    FoldLeft(LAMBDA st, i : MergeStep(st, less), [out |-> <<>>, rest |-> iters],
             [i \in 1 .. SumSeq([k \in DOMAIN iters |-> Len(iters[k])]) |-> i]).out

DiskIterOver(known, q) ==
    LET lanes == IF q.lane = <<>> THEN <<>> ELSE LaneNamed(known, q.lane)
        pid == IF lanes # <<>> THEN lanes[1].pid ELSE q.pid
        from == IF pid # None THEN ShardOf(pid) ELSE shard
        cursor(sh) == Ordered(SelectSeq(sh.rows, LAMBDA s : SpanWhere(q, lanes, s)), q.order)
    IN IF q.lane # <<>> /\ lanes = <<>> THEN <<>>
       ELSE KMerge([k \in DOMAIN from |-> cursor(from[k])], LAMBDA a, b : Before(q.order, a, b))

(***************************************************************************)
(* Derived results.                                                        *)
(***************************************************************************)
MemoryThreads == {<<s.pid, s.tid>> : s \in Range(Indexed)}
DiskThreads == UNION {{<<shard[k].pid, r.tid>> : r \in Range(shard[k].rows)} : k \in DOMAIN shard}
MemoryPids == {s.pid : s \in Range(Indexed)}
DiskPids == {shard[k].pid : k \in {j \in DOMAIN shard : shard[j].rows # <<>>}}

ExtentStep(e, lo, hi) == IF e = <<>> THEN <<lo, hi>> ELSE <<Lesser(e[1], lo), Greater(e[2], hi)>>
MemoryExtent(timed) ==
    FoldLeft(LAMBDA e, s : IF timed /\ s.dur <= 0 THEN e ELSE ExtentStep(e, s.start, End(s)), <<>>, Indexed)
MemoryEventExtent ==
    FoldLeft(LAMBDA e, p : ExtentStep(e, p.ts, p.ts), MemoryExtent(FALSE), points)

SqlExtent(timed) ==
    LET R == UNION {Having(shard[k].rows, LAMBDA s : timed => End(s) > s.start) : k \in DOMAIN shard}
    IN IF R = {} THEN <<>> ELSE <<Least({s.start : s \in R}), Most({End(s) : s \in R})>>
SqlEventExtent ==
    LET T == Range(SqlExtent(FALSE)) \cup UNION {{p.ts : p \in Range(shard[k].points)} : k \in DOMAIN shard}
    IN IF T = {} THEN <<>> ELSE <<Least(T), Most(T)>>

\* Rows in order of first appearance, then by total, ties as they were.
FinishAggregate(rows) ==
    SortSeq(rows, LAMBDA a, b : a.total > b.total \/ (a.total = b.total /\ a.first < b.first))

NewStats(s) == [cat |-> s.cat, name |-> s.name, count |-> 1, total |-> s.dur, min |-> s.dur, max |-> s.dur, first |-> s.seq]
StatsStep(rows, s) ==
    LET own(r) == r.cat = s.cat /\ r.name = s.name
    IN IF \E i \in DOMAIN rows : own(rows[i])
       THEN [i \in DOMAIN rows |->
               IF own(rows[i])
               THEN [rows[i] EXCEPT !.count = @ + 1, !.total = @ + s.dur,
                                    !.min = Lesser(@, s.dur), !.max = Greater(@, s.dur)]
               ELSE rows[i]]
       ELSE Append(rows, NewStats(s))
MemoryAggregate == FinishAggregate(FoldLeft(StatsStep, <<>>, Indexed))

\* _sql_agg: GROUP BY cat, name_id in every shard, then merged.
SqlMerge(rows, r) ==
    LET own(o) == o.cat = r.cat /\ o.name = r.name
    IN IF \E i \in DOMAIN rows : own(rows[i])
       THEN [i \in DOMAIN rows |->
               IF own(rows[i])
               THEN [rows[i] EXCEPT !.count = @ + r.count, !.total = @ + r.total, !.min = Lesser(@, r.min),
                                    !.max = Greater(@, r.max), !.first = Lesser(@, r.first)]
               ELSE rows[i]]
       ELSE Append(rows, r)
SqlAgg == FoldLeft(SqlMerge, <<>>,
                   FlattenSeq([k \in DOMAIN shard |-> FoldLeft(StatsStep, <<>>, shard[k].rows)]))

MemoryExclusive ==
    LET device == FoldLeft(LAMBDA r, s : IF DeviceWork(s) THEN AddRow(r, AggKey(s, TRUE), s.dur) ELSE r, NoRows, Indexed)
        threads == {<<s.pid, s.tid>> : s \in {x \in Range(Indexed) : HostWork(x)}}
    IN FoldLeft(LAMBDA r, th : ExclusiveThreadSweep(SelectSeq(ThreadIndex(th[1], th[2]), HostWork), r),
                device, SetToSeq(threads))

SqlExclusive ==
    LET deviceRows(sh) == SelectSeq(sh.rows, DeviceWork)
        device == FoldLeft(LAMBDA r, s : AddRow(r, AggKey(s, TRUE), s.dur), NoRows,
                           FlattenSeq([k \in DOMAIN shard |-> deviceRows(shard[k])]))
        sweep(r, th) == ExclusiveThreadSweep(
            SortSeq(SelectSeq(ShardOf(th[1])[1].rows, LAMBDA s : s.tid = th[2] /\ HostWork(s)), ByStart), r)
        threads == UNION {{<<shard[k].pid, s.tid>> : s \in Having(shard[k].rows, HostWork)} : k \in DOMAIN shard}
    IN FoldLeft(sweep, device, SetToSeq(threads))

ActivityGrid == LET timed == MemoryExtent(TRUE) IN IF timed # <<>> THEN timed ELSE MemoryExtent(FALSE)
MemoryActivity(lane) ==
    BuildActivity(Intervals(MemoryIter([AnyQuery EXCEPT !.order = "start", !.lane = lane])),
                  ActivityGrid[1], ActivityGrid[2])
SqlActivity(ln, grid) ==
    BuildActivity(Intervals(SortSeq(SelectSeq(ShardOf(ln.pid)[1].rows, LAMBDA s : LaneBase(s) = ln.base), ByStart)),
                  grid[1], grid[2])
ActivityOf(lanes, grid) == [n \in {lanes[i].name : i \in DOMAIN lanes} |-> SqlActivity(LaneNamed(lanes, n)[1], grid)]

(***************************************************************************)
(* Asking the disk store.  A state of it is [buffered, saved, told]; an    *)
(* answer is late when it was read from the persisted tables while events  *)
(* appended since finalize() were still in the buffer.  _finalized is      *)
(* cleared when they are written, not when they are appended.              *)
(***************************************************************************)
Now == [buffered |-> buffered, saved |-> saved, told |-> told]
\* _flush_locked, _bump_content_locked
Flushed(st) == IF st.buffered = {} THEN st ELSE [st EXCEPT !.buffered = {}, !.saved = <<>>]
Knows(st, k) == k \in DOMAIN st.told
Keep(st, k, v, late) == [st EXCEPT !.told = (k :> [is |-> v, late |-> late]) @@ @]
IsLate(st) == st.buffered # {}
\* A table that has rows answers; what it lacks is computed after a flush.
FromTable(st, k, v) == Keep(st, k, v, IsLate(st))
Computed(st, k, V(_)) == LET f == Flushed(st) IN Keep(f, k, V(f), FALSE)
Has(st, f) == st.saved # <<>> /\ st.saved[1][f] # <<>>
TellLanes(st) ==
    IF Has(st, "lanes") THEN FromTable(st, "lanes", st.saved[1].lanes)
    ELSE Computed(st, "lanes", LAMBDA f : ComputedLanes)
TellExtent(st, k) ==
    IF Has(st, k) THEN FromTable(st, k, st.saved[1][k])
    ELSE Computed(st, k, LAMBDA f : IF k = "events" THEN SqlEventExtent ELSE SqlExtent(k = "timed"))
TellAgg(st) ==
    IF st.saved # <<>> THEN FromTable(st, "agg", FinishAggregate(st.saved[1].agg))
    ELSE Computed(st, "agg", LAMBDA f : FinishAggregate(SqlAgg))
TellExcl(st) ==
    IF st.saved # <<>> THEN FromTable(st, "excl", st.saved[1].excl)
    ELSE Computed(st, "excl", LAMBDA f : SqlExclusive)
Once(st, k, Tell(_)) == IF Knows(st, k) THEN st ELSE Tell(st)
WithLanes(st) == Once(st, "lanes", TellLanes)
WithExtent(st, k) == Once(st, k, LAMBDA f : TellExtent(f, k))
Late(st, k) == st.told[k].late
\* _build_activity of every lane; the bins span the extent (activity_grid).
Drawn(st) ==
    LET t == WithExtent(st, "timed")
        g == IF t.told["timed"].is = <<>> THEN WithExtent(t, "extent") ELSE t
        on == IF t.told["timed"].is = <<>> THEN "extent" ELSE "timed"
    IN Keep(g, "activity", ActivityOf(g.told["lanes"].is, g.told[on].is), Late(g, "lanes") \/ Late(g, on))
TellActivity(st) ==
    LET l == WithLanes(st)
    IN IF l.told["lanes"].is = <<>> THEN Keep(l, "activity", NoRows, Late(l, "lanes"))
       ELSE IF Has(l, "activity") THEN FromTable(l, "activity", l.saved[1].activity)
       ELSE Drawn(l)
Tell(st, k) ==
    CASE k = "lanes" -> TellLanes(st)
      [] k = "activity" -> TellActivity(st)
      [] k = "agg" -> TellAgg(st)
      [] k = "excl" -> TellExcl(st)
      [] OTHER -> TellExtent(st, k)
\* What the next to ask is told.
Answered(k) == Once(Now, k, LAMBDA st : Tell(st, k)).told[k]
DiskLanes == Answered("lanes").is
\* iter_spans flushes, then looks the lane up.
DiskIter(q) == DiskIterOver(WithLanes(Flushed(Now)).told["lanes"].is, q)

\* Lookups.
MemoryBySpanId(sid) ==
    FoldLeft(LAMBDA found, s : IF s.sid = sid THEN <<s>> ELSE found, <<>>,
             MemoryIter([AnyQuery EXCEPT !.with_ids = {TRUE}]))
LatestIn(sh, sid) == LET m == SelectSeq(SortSeq(sh.rows, BySeq), LAMBDA s : s.sid = sid)
                     IN IF m = <<>> THEN <<>> ELSE <<Last(m)>>
DiskBySpanId(sid) ==
    FoldLeft(LAMBDA best, sh : LET r == LatestIn(sh, sid)
                               IN IF r # <<>> /\ (best = <<>> \/ r[1].seq > best[1].seq) THEN r ELSE best,
             <<>>, shard)
FirstWithTag(list) ==
    FoldLeft(LAMBDA out, s : IF s.rt # "" /\ s.name \notin DOMAIN out THEN (s.name :> s) @@ out ELSE out, NoRows, list)
DiskFirstWithTag ==
    FoldLeft(LAMBDA best, s : IF s.rt # "" /\ (s.name \notin DOMAIN best \/ s.seq < best[s.name].seq)
                              THEN (s.name :> s) @@ best ELSE best,
             NoRows, FlattenSeq([k \in DOMAIN shard |-> shard[k].rows]))

ByName(a, b) == \/ a.name < b.name
                \/ a.name = b.name /\ (a.ts < b.ts \/ (a.ts = b.ts /\ a.seq < b.seq))
MemoryCounters == SortSeq(points, ByName)
DiskCounters ==
    LET names == UNION {{p.name : p \in Range(shard[k].points)} : k \in DOMAIN shard}
        of(n, sh) == SortSeq(SelectSeq(sh.points, LAMBDA p : p.name = n), ByName)
        sorted == SortSeq(SetToSeq(names), LAMBDA a, b : a < b)
    IN FlattenSeq([i \in DOMAIN sorted |-> KMerge([k \in DOMAIN shard |-> of(sorted[i], shard[k])], ByName)])

(***************************************************************************)
(* Actions.                                                                *)
(***************************************************************************)
Init == /\ spans = <<>> /\ points = <<>> /\ index = <<>> /\ shard = <<>> /\ next_seq = 0
        /\ buffered = {} /\ saved = <<>> /\ told = NoRows /\ use \in Uses /\ changes = 0

AddRowTo(sh, s) == [sh EXCEPT !.rows = Append(@, s)]
AddPointTo(sh, p) == [sh EXCEPT !.points = Append(@, p)]
InShard(pid, Add(_)) ==
    IF ShardOf(pid) = <<>> THEN Append(shard, Add([pid |-> pid, rows |-> <<>>, points |-> <<>>]))
    ELSE [k \in DOMAIN shard |-> IF shard[k].pid = pid THEN Add(shard[k]) ELSE shard[k]]

\* A memory store forgets all it derived at every change.
KeepIndex == index
NoIndex == <<>>

Become(st) == buffered' = st.buffered /\ saved' = st.saved /\ told' = st.told
Forgotten(st) == [st EXCEPT !.told = NoRows]
\* append: the event is buffered and what was derived is forgotten; a full
\* buffer is written.
Buffer(seq) ==
    LET st == Forgotten([Now EXCEPT !.buffered = @ \cup {seq}])
    IN Become(IF Cardinality(st.buffered) >= BatchSize THEN Flushed(st) ELSE st)

AppendSpan(shape) ==
    /\ next_seq < MaxEvents
    /\ LET s == shape @@ [seq |-> next_seq]
       IN spans' = Append(spans, s) /\ shard' = InShard(s.pid, LAMBDA sh : AddRowTo(sh, s))
    /\ Buffer(next_seq)
    /\ next_seq' = next_seq + 1 /\ index' = NoIndex
    /\ UNCHANGED <<points, use, changes>>

AppendPoint(pid, name, ts) ==
    /\ next_seq < MaxEvents
    /\ LET p == [pid |-> pid, name |-> name, ts |-> ts, seq |-> next_seq]
       IN points' = Append(points, p) /\ shard' = InShard(pid, LAMBDA sh : AddPointTo(sh, p))
    /\ Buffer(next_seq)
    /\ next_seq' = next_seq + 1 /\ index' = NoIndex
    /\ UNCHANGED <<spans, use, changes>>

\* The rows of a stored span changed: the buffer was written before, and the
\* tables are dropped (_mark_dirty).
Soiled(st) == Forgotten(Flushed(st))
Dirty(st) == [Forgotten(Flushed(st)) EXCEPT !.saved = <<>>]

\* update_span(s): times and stack of a span are replaced, in the buffer
\* (_update_buffered) or in the shard.
Replace(list, s) == [i \in DOMAIN list |-> IF list[i].seq = s.seq THEN s ELSE list[i]]
UpdateSpan(i, start, dur) ==
    /\ changes < MaxChanges
    /\ LET s == [spans[i] EXCEPT !.start = start, !.dur = dur, !.stack = TRUE]
       IN /\ spans' = Replace(spans, s)
          /\ shard' = [k \in DOMAIN shard |-> [shard[k] EXCEPT !.rows = Replace(@, s)]]
    /\ Become(IF spans[i].seq \in buffered THEN Forgotten(Now) ELSE Dirty(Now))
    /\ changes' = changes + 1 /\ index' = NoIndex
    /\ UNCHANGED <<points, next_seq, use>>

DeleteSpan(i) ==
    /\ changes < MaxChanges
    /\ LET keep(s) == s.seq # spans[i].seq
       IN /\ spans' = SelectSeq(spans, keep)
          /\ shard' = [k \in DOMAIN shard |-> [shard[k] EXCEPT !.rows = SelectSeq(@, keep)]]
    /\ Become(Dirty(Now))
    /\ changes' = changes + 1 /\ index' = NoIndex
    /\ UNCHANGED <<points, next_seq, use>>

\* finalize: unless the flush leaves it finalized, everything is derived
\* anew and persisted.
Extents == "timed" :> SqlExtent(TRUE) @@ "extent" :> SqlExtent(FALSE) @@ "events" :> SqlEventExtent
Grid == IF Extents["timed"] # <<>> THEN Extents["timed"] ELSE Extents["extent"]
Tables == [lanes |-> ComputedLanes, agg |-> SqlAgg, excl |-> SqlExclusive, activity |-> ActivityOf(ComputedLanes, Grid)] @@ Extents
Finalize ==
    /\ Flushed(Now).saved = <<>>
    /\ buffered' = {} /\ saved' = <<Tables>>
    /\ told' = [k \in {"lanes", "excl"} \cup DOMAIN Extents |-> [is |-> Tables[k], late |-> FALSE]]
    /\ UNCHANGED <<spans, points, index, shard, next_seq, use, changes>>

\* Both stores are asked for k.
Ask(k) ==
    /\ ~Knows(Now, k) \/ index = <<>>
    /\ Become(Once(Now, k, LAMBDA st : Tell(st, k)))
    /\ index' = <<spans>>
    /\ UNCHANGED <<spans, points, shard, next_seq, use, changes>>

\* Every other query, and flush() itself, writes the buffer first.
Flush ==
    /\ buffered # {}
    /\ Become(Flushed(Now))
    /\ UNCHANGED <<spans, points, index, shard, next_seq, use, changes>>

Next == \/ \E shape \in use.shapes : AppendSpan(shape)
        \/ \E pid \in PointPids, n \in PointNames : AppendPoint(pid, n, 1)
        \/ \E i \in DOMAIN spans, t \in ChangedTimes : UpdateSpan(i, t[1], t[2])
        \/ \E i \in DOMAIN spans : DeleteSpan(i)
        \/ Finalize
        \/ \E k \in use.asks : Ask(k)
        \/ Flush
Spec == Init /\ [][Next]_vars

(***************************************************************************)
(* Properties.                                                             *)
(***************************************************************************)
LaneNames == {MemoryLanes[i].name : i \in DOMAIN MemoryLanes}
Queries ==
    {[AnyQuery EXCEPT !.order = o, !.window = w, !.lane = l] :
        o \in {"seq", "start"}, w \in {<<>>, <<1, 2>>, <<3, 9>>}, l \in LaneNames \cup {<<>>}}
    \cup {[AnyQuery EXCEPT !.pid = 1, !.tid = 1, !.order = "start", !.window = <<3, 9>>],
          [AnyQuery EXCEPT !.tid = 1, !.window = <<2, 2>>],
          [AnyQuery EXCEPT !.pid = 2, !.has_stack = {TRUE}], [AnyQuery EXCEPT !.gpu_model = {TRUE}],
          [AnyQuery EXCEPT !.filt.range = <<1, 3>>, !.filt.min_dur = 2],
          [AnyQuery EXCEPT !.filt.buckets = {"Communication"}, !.order = "start"]}

\* What a query asks for, whatever index answers it.
TrueLanes == AssignLaneNames(FoldLeft(GroupStep, <<>>, spans))
Answer(q) ==
    LET lane(s) == SelectSeq(TrueLanes, LAMBDA ln : ln.pid = s.pid /\ ln.base = LaneBase(s))[1].name
    IN SelectSeq(Ordered(spans, q.order), LAMBDA s : Selected(q, s) /\ (q.lane # <<>> => lane(s) = q.lane))

\* A query returns exactly the spans that satisfy it, in the order asked
\* for: the memory store's lane and thread indexes, built before or after
\* the last change, and the disk store's shards, look-back and merge lose,
\* repeat and reorder nothing; but a lane the disk store was asked for
\* while it answered from its tables and held unwritten events is looked up
\* in the lanes of the last finalize().
IterExact ==
    LET late == Knows(Now, "lanes") /\ Late(Now, "lanes")
    IN \A q \in Queries : MemoryIter(q) = Answer(q) /\ ((late /\ q.lane # <<>>) \/ DiskIter(q) = Answer(q))

\* Lanes, extents, statistics and exclusive time are the same in both
\* stores, computed in SQL or read from the tables finalize() persisted,
\* kept or new, after any sequence of appends, flushes, updates and
\* deletions; but while a finalized store holds events it has not written
\* yet it answers from the tables, and what it answered then it repeats
\* until an event changes.
FromMemory ==
    [lanes |-> MemoryLanes, agg |-> MemoryAggregate, excl |-> MemoryExclusive, timed |-> MemoryExtent(TRUE),
     extent |-> MemoryExtent(FALSE), events |-> MemoryEventExtent,
     activity |-> [n \in {MemoryLanes[i].name : i \in DOMAIN MemoryLanes} |-> MemoryActivity(n)]]
DerivedAgree ==
    /\ \A k \in Results : Answered(k).late \/ Answered(k).is = FromMemory[k]
    /\ DiskPids = MemoryPids /\ DiskThreads = MemoryThreads

\* Looking a span up by its span id or by a tag, and reading the counters
\* by name, gives the same events in both stores.
LookupsAgree ==
    /\ \A s \in Range(spans) : HasIds(s) => DiskBySpanId(s.sid) = MemoryBySpanId(s.sid)
    /\ DiskFirstWithTag = FirstWithTag(Indexed)
    /\ DiskCounters = MemoryCounters

\* The owner of the instant [t, t + 1) of a thread, and what that sums to.
OwnerAt(th, t) ==
    LET O == SelectSeq(spans, LAMBDA s : HostWork(s) /\ <<s.pid, s.tid>> = th /\ s.cat # "cpu"
                                          /\ s.start <= t /\ t < End(s))
    IN IF O = <<>> THEN <<>>
       ELSE <<CHOOSE s \in Range(O) : \A r \in Range(O) \ {s} :
                \/ s.start > r.start
                \/ s.start = r.start /\ End(s) < End(r)
                \/ s.start = r.start /\ End(s) = End(r) /\ s.seq < r.seq>>
Instants == UNION {s.start .. (End(s) - 1) : s \in Range(spans)}
OwnedTime(key) ==
    LET th == <<key[1], key[2]>>
        lone(s) == HostWork(s) /\ s.cat = "cpu" /\ AggKey(s, FALSE) = key /\ OwnerAt(<<s.pid, s.tid>>, s.start) = <<>>
    IN Cardinality({t \in Instants : OwnerAt(th, t) # <<>> /\ AggKey(OwnerAt(th, t)[1], FALSE) = key})
       + SumSeq([i \in DOMAIN SelectSeq(spans, lone) |-> SelectSeq(spans, lone)[i].dur])

\* Exclusive time, by the streaming sweep of the stores and by the boundary
\* sort of activity_buckets, is the time a span is the innermost of its
\* thread, and a sample counts only where no span covers it.
SweepExact ==
    LET host == {k \in DOMAIN MemoryExclusive : ~k[6]}
    IN /\ \A k \in host : MemoryExclusive[k] = OwnedTime(k)
       /\ \A s \in Range(spans) : HostWork(s) /\ AggKey(s, FALSE) \notin host => OwnedTime(AggKey(s, FALSE)) = 0
       /\ ExclusiveTotals(spans) = MemoryExclusive

\* The activity index of a lane holds the covered time of every bin and
\* every start once, at every level, and whenever it answers for bins
\* aligned with its own the answer is the one of the exact spans.
ActivityExact ==
    \A n \in LaneNames :
      LET act == MemoryActivity(n)
          lane == MemoryIter([AnyQuery EXCEPT !.order = "start", !.lane = n])
          exact == OccupancyExact(lane, act.t0, act.t0 + act.width, NBins)
          whole == Occupancy(act, act.t0, act.t0 + act.width, NBins)
      IN /\ act.busy = exact
         /\ \A b \in Bins : whole[b] = exact[b] * act.width * NBins
         /\ \A i \in DOMAIN Levels : SumSeq([g \in 1 .. Levels[i] |-> LevelOf(act, Levels[i])[g - 1]])
                                      = UnionLength(Intervals(lane)) * NBins
         /\ EstimateStarts(act, act.t0, act.t0 + act.width) = Len(lane)

\* The two stores agree on everything derived and on every lookup: lanes,
\* extents, statistics, exclusive times, activity, span ids, tags, counters.
StoresAgree == DerivedAgree /\ LookupsAgree

\* What the stores derive by sweeping and binning is what a definition over
\* single instants gives: exclusive time, and the activity of a lane.
DerivedExact == SweepExact /\ ActivityExact
=============================================================================
