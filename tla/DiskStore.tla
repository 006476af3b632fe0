----------------------------- MODULE DiskStore -----------------------------
(***************************************************************************)
(* The on-disk trace store (src/core/store/disk.py): one SQLite file per   *)
(* process (shard) for the events and one catalog for the string           *)
(* dictionary, the counters, the derived tables and the persisted          *)
(* dependency edges.  Every file commits on its own, so an operation that  *)
(* touches several of them is a sequence of commits; the process may die   *)
(* between any two.                                                        *)
(*                                                                         *)
(* Three threads use the store object: the writer (the receiver's parser,  *)
(* or an analysis that annotates spans), the finalizer, and an analyst     *)
(* that builds edges and memoizes derived results.  self._lock is held     *)
(* across the steps of an operation unless the code lets go of it.  What a *)
(* derived result says is abstracted to the events it was computed from.   *)
(***************************************************************************)
EXTENDS Integers, Sequences, SequencesExt, FiniteSetsExt

CONSTANTS
    Shard,       \* process shards
    Name,        \* event names
    None,
    Uses         \* the ways of using a store to look at, see Use

(* One way of using a store.                                               *)
Use == [
    batch : Nat \ {0},      \* batch_size
    concurrent : BOOLEAN,   \* an operation may start while another thread is in one
    asks : SUBSET {"extents", "excl", "memo"},  \* derived results asked for, see Derived
    appends : Nat,          \* bound: events appended
    changes : Nat,          \* bound: stored spans updated or deleted
    closes : Nat,           \* bound: times the store is closed and reopened
    crashes : Nat]          \* bound: times the process dies

Proc == {"writer", "finalizer", "analyst"}

ASSUME StoreAssumption == None \notin Name \cup Proc /\ \A u \in Uses : u \in Use

VARIABLES
    use,                       \* the use made of this store, chosen once
    rows, autoinc,             \* each shard's span table and its sqlite_sequence
    cat,                       \* the committed catalog
    open,                      \* the store object exists
    next_seq, version, finalized, names, buf, next_row,  \* its fields
    gen, cache,                \* identity of self._derived, the results memoized in it
    late,                      \* history: which of them were found while events waited to be written
    lock, pc, ret,             \* self._lock, step of each thread, where a flush returns to
    change,                    \* the update or deletion in progress
    asked,                     \* the derived result the analyst asks for
    seen, excl, mine,          \* what a thread computed, from which events; dictionary it holds
    deleted,                   \* history: rows deleted
    nappend, nchange, nclose, ncrash

disk     == <<rows, autoinc, cat>>
dict     == <<gen, cache, late>>
store    == <<next_seq, version, finalized, names, buf, next_row>>
control  == <<lock, pc, ret>>
scratch  == <<change, asked, seen, excl, mine>>
bounds   == <<nappend, nchange, nclose, ncrash>>
vars == <<disk, open, store, dict, control, scratch, deleted, bounds, use>>

(* A stored span: its row, its arrival number, its name id and (history)   *)
(* the name it was recorded with.                                          *)
Row(r, q, i, n) == [row |-> r, seq |-> q, name_id |-> i, name |-> n]

(* self._derived: the results finalize persists (extents, lanes and        *)
(* aggregates; exclusive times and activity) and another memoized result,  *)
(* each as the events it describes.                                        *)
Derived == {"extents", "excl", "memo"}
EmptyCache == [k \in Derived |-> None]

NewStore ==
    [next_seq |-> 0, version |-> 0, finalized |-> FALSE, names |-> <<>>, tables |-> None, edges |-> None]

Init ==
    /\ use \in Uses
    /\ rows = [s \in Shard |-> {}] /\ autoinc = [s \in Shard |-> 0] /\ cat = NewStore
    /\ open = TRUE /\ next_seq = 0 /\ version = 0 /\ finalized = FALSE /\ names = <<>>
    /\ buf = [s \in Shard |-> <<>>] /\ next_row = [s \in Shard |-> 0]
    /\ gen = 0 /\ cache = EmptyCache /\ late = {}
    /\ lock = None /\ pc = [p \in Proc |-> "idle"] /\ ret = [p \in Proc |-> "idle"]
    /\ change = None /\ asked = None /\ seen = [p \in Proc |-> None] /\ excl = None /\ mine = [p \in Proc |-> 0]
    /\ deleted = {} /\ nappend = 0 /\ nchange = 0 /\ nclose = 0 /\ ncrash = 0

Goto(p, l) == pc' = [pc EXCEPT ![p] = l]
MayStart(p) == /\ open /\ pc[p] = "idle"
               /\ use.concurrent \/ \A q \in Proc : pc[q] = "idle"

(* _name_code: the id of a name, which is appended if it is new.           *)
WithName(n) == IF n \in ToSet(names) THEN names ELSE Append(names, n)
IdOf(n) == CHOOSE i \in DOMAIN WithName(n) : WithName(n)[i] = n

(* self._derived = {}, at some places only if there is something in it     *)
Clear == gen' = gen + 1 /\ cache' = EmptyCache /\ late' = {}
ClearIfAny ==
    IF cache # EmptyCache THEN Clear ELSE UNCHANGED dict

(* A thread fetches self._derived, and later stores into what it fetched.  *)
FetchCache(p) == mine' = [mine EXCEPT ![p] = gen]
Memoize(p, k, events) ==
    IF mine[p] = gen
    THEN /\ cache' = [cache EXCEPT ![k] = events]
         /\ late' = IF \E s \in Shard : buf[s] # <<>> THEN late \cup {k} ELSE late \ {k}
    ELSE UNCHANGED <<cache, late>>

Buffered == MapThenSumSet(LAMBDA s : Len(buf[s]), Shard)
MustFlush == (\E s \in Shard : buf[s] # <<>>) \/ names # cat.names

-----------------------------------------------------------------------------
(* _flush_locked: names first, then a commit per shard, then the catalog's *)
(* counters and the content version in one commit.                         *)

(* The thread takes the lock and flushes; l is what it does next.          *)
LockAndFlush(p, l) ==
    /\ lock = None /\ lock' = p
    /\ IF MustFlush THEN Goto(p, "names") /\ ret' = [ret EXCEPT ![p] = l]
                    ELSE Goto(p, l) /\ UNCHANGED ret

flushframe == <<open, dict, scratch, deleted, bounds>>

CommitNames == cat' = [cat EXCEPT !.names = names]
FlushNames(p) ==
    /\ pc[p] = "names"
    /\ CommitNames
    /\ Goto(p, "shards")
    /\ UNCHANGED <<flushframe, rows, autoinc, store, lock, ret>>

FlushShard(p, s) ==
    /\ pc[p] = "shards" /\ buf[s] # <<>>
    /\ rows' = [rows EXCEPT ![s] = @ \cup ToSet(buf[s])]
    /\ autoinc' = [autoinc EXCEPT ![s] = Max({@} \cup {r.row : r \in ToSet(buf[s])})]
    /\ buf' = [buf EXCEPT ![s] = <<>>]
    /\ UNCHANGED <<flushframe, cat, next_seq, version, finalized, names, next_row, control>>

(* _bump_content_locked in the same transaction.                           *)
FlushCatalog(p) ==
    /\ pc[p] = "shards" /\ \A s \in Shard : buf[s] = <<>>
    /\ version' = version + 1 /\ finalized' = FALSE
    /\ cat' = [cat EXCEPT !.next_seq = next_seq, !.version = version + 1,
                          !.finalized = IF finalized THEN FALSE ELSE @]
    /\ Goto(p, ret[p])
    /\ lock' = IF ret[p] = "idle" THEN None ELSE lock
    /\ UNCHANGED <<flushframe, rows, autoinc, next_seq, names, buf, next_row, ret>>

Flush(p) == FlushNames(p) \/ (\E s \in Shard : FlushShard(p, s)) \/ FlushCatalog(p)

-----------------------------------------------------------------------------
(* append: the event gets its seq and its row now and is written with its  *)
(* batch.                                                                  *)

(* _row_for                                                                *)
RowForMax(s) == IF next_row[s] = 0 THEN Max({0} \cup {r.row : r \in rows[s]}) + 1 ELSE next_row[s]
RowFor(s) ==
    IF next_row[s] = 0 THEN Max({autoinc[s]} \cup {r.row : r \in rows[s]}) + 1 ELSE next_row[s]

Add(s, n) ==
    /\ MayStart("writer") /\ lock = None
    /\ nappend < use.appends /\ nappend' = nappend + 1
    /\ next_seq' = next_seq + 1
    /\ next_row' = [next_row EXCEPT ![s] = RowFor(s) + 1]
    /\ names' = WithName(n)
    /\ buf' = [buf EXCEPT ![s] = Append(@, Row(RowFor(s), next_seq, IdOf(n), n))]
    /\ ClearIfAny
    /\ IF Buffered + 1 >= use.batch
       THEN lock' = "writer" /\ Goto("writer", "names") /\ ret' = [ret EXCEPT !["writer"] = "idle"]
       ELSE UNCHANGED control
    /\ UNCHANGED <<disk, open, version, finalized, scratch, deleted, nchange, nclose, ncrash>>

(* update_spans: a span still in the buffer is replaced there.             *)
Renamed(r, n) == [r EXCEPT !.name_id = IdOf(n), !.name = n]

UpdateBuffered(s, i, n) ==
    /\ MayStart("writer") /\ lock = None
    /\ nchange < use.changes /\ nchange' = nchange + 1
    /\ i \in DOMAIN buf[s] /\ buf[s][i].name # n
    /\ buf' = [buf EXCEPT ![s][i] = Renamed(@, n)]
    /\ names' = WithName(n)
    /\ ClearIfAny
    /\ UNCHANGED <<disk, open, next_seq, version, finalized, next_row, control, scratch, deleted,
                   nappend, nclose, ncrash>>

(* A stored span is updated, or (to = None) deleted, after a flush.        *)
Change(s, r, to) ==
    /\ MayStart("writer")
    /\ nchange < use.changes /\ nchange' = nchange + 1
    /\ r \in rows[s] /\ r.name # to
    /\ change' = [shard |-> s, row |-> r, to |-> to]
    /\ LockAndFlush("writer", "change")
    /\ UNCHANGED <<disk, open, store, dict, asked, seen, excl, mine, deleted, nappend, nclose, ncrash>>

(* The span's new name gets an id, and the dictionary is committed.        *)
ChangeNames ==
    /\ pc["writer"] = "change"
    /\ names' = IF change.to = None THEN names ELSE WithName(change.to)
    /\ cat' = [cat EXCEPT !.names = names']
    /\ Goto("writer", "changerow")
    /\ UNCHANGED <<rows, autoinc, open, next_seq, version, finalized, buf, next_row, dict, lock, ret, scratch,
                   deleted, bounds>>

(* UPDATE or DELETE, committed in the shard.                               *)
ChangeRow ==
    /\ pc["writer"] = "changerow"
    /\ LET s == change.shard r == change.row IN
       /\ rows' = [rows EXCEPT ![s] =
                       (@ \ {r}) \cup IF change.to = None THEN {} ELSE {Renamed(r, change.to)}]
       /\ deleted' = IF change.to = None THEN deleted \cup {<<s, r.row>>} ELSE deleted
    /\ Goto("writer", "dirty")
    /\ UNCHANGED <<autoinc, cat, open, store, dict, lock, ret, scratch, bounds>>

(* _mark_dirty: two commits, the version and then finalized = 0.           *)
Bump == version' = version + 1 /\ cat' = [cat EXCEPT !.version = version + 1]
MarkDirty ==
    /\ pc["writer"] = "dirty"
    /\ Clear
    /\ Bump
    /\ IF finalized THEN Goto("writer", "unfinalize") /\ UNCHANGED <<lock, change>>
                    ELSE Goto("writer", "idle") /\ lock' = None /\ change' = None
    /\ UNCHANGED <<rows, autoinc, open, next_seq, finalized, names, buf, next_row, ret, asked, seen,
                   excl, mine, deleted, bounds>>

UnmarkMemory == finalized' = FALSE /\ UNCHANGED cat
Unmark == finalized' = FALSE /\ cat' = [cat EXCEPT !.finalized = FALSE]
Unfinalize ==
    /\ pc["writer"] = "unfinalize"
    /\ Unmark
    /\ Goto("writer", "idle") /\ lock' = None /\ change' = None
    /\ UNCHANGED <<rows, autoinc, open, next_seq, version, names, buf, next_row, dict, ret, asked, seen,
                   excl, mine, deleted, bounds>>

Writer ==
    \/ \E s \in Shard, n \in Name : Add(s, n)
    \/ \E s \in Shard, n \in Name : \E i \in 1..use.batch : UpdateBuffered(s, i, n)
    \/ \E s \in Shard : \E r \in rows[s], to \in Name \cup {None} : Change(s, r, to)
    \/ ChangeNames \/ ChangeRow \/ MarkDirty \/ Unfinalize

-----------------------------------------------------------------------------
(* finalize: under the lock the old tables are deleted and lanes,          *)
(* aggregates and extents computed; without it the exclusive times and the *)
(* activity index; under it again everything is written with finalized.    *)

Finalize ==
    /\ MayStart("finalizer")
    /\ LockAndFlush("finalizer", "fin")
    /\ UNCHANGED <<disk, open, store, dict, scratch, deleted, bounds>>

FinalizeLocked ==
    /\ pc["finalizer"] = "fin"
    /\ lock' = None
    /\ IF finalized
       THEN Goto("finalizer", "idle") /\ UNCHANGED <<cat, seen, dict>>
       ELSE /\ cat' = [cat EXCEPT !.tables = None]
            /\ seen' = [seen EXCEPT !["finalizer"] = rows]
            /\ gen' = gen + 1 /\ cache' = [EmptyCache EXCEPT !["extents"] = rows] /\ late' = {}
            /\ Goto("finalizer", "excl")
    /\ UNCHANGED <<rows, autoinc, open, store, ret, change, asked, excl, mine, deleted, bounds>>

(* exclusive_aggregate: another thread may have memoized it by now.        *)
ExclusiveKnown ==
    /\ pc["finalizer"] = "excl" /\ cache["excl"] # None
    /\ excl' = cache["excl"]
    /\ Goto("finalizer", "write")
    /\ UNCHANGED <<disk, open, store, dict, lock, ret, change, asked, seen, mine, deleted, bounds>>
Exclusive ==
    /\ pc["finalizer"] = "excl" /\ cache["excl"] = None
    /\ FetchCache("finalizer")
    /\ LockAndFlush("finalizer", "exclread")
    /\ UNCHANGED <<disk, open, store, dict, change, asked, seen, excl, deleted, bounds>>
ExclusiveRead ==
    /\ pc["finalizer"] = "exclread"
    /\ excl' = rows
    /\ Memoize("finalizer", "excl", rows)
    /\ lock' = None /\ Goto("finalizer", "write")
    /\ UNCHANGED <<disk, open, store, gen, ret, change, asked, seen, mine, deleted, bounds>>

FinalizeWrite ==
    /\ pc["finalizer"] = "write" /\ lock = None
    /\ cat' = [cat EXCEPT !.tables = <<seen["finalizer"], excl>>, !.finalized = TRUE]
    /\ finalized' = TRUE
    /\ cache' = [cache EXCEPT !["excl"] = excl] /\ late' = late \ {"excl"}
    /\ seen' = [seen EXCEPT !["finalizer"] = None] /\ excl' = None /\ mine' = [mine EXCEPT !["finalizer"] = 0]
    /\ Goto("finalizer", "idle")
    /\ UNCHANGED <<rows, autoinc, open, next_seq, version, names, buf, next_row, gen, lock, ret, change,
                   asked, deleted, bounds>>

Finalizer ==
    Finalize \/ FinalizeLocked \/ ExclusiveKnown \/ Exclusive \/ ExclusiveRead \/ FinalizeWrite

-----------------------------------------------------------------------------
(* load_or_build_graph: load_edges, and if there are none for this content *)
(* version build them from the spans and save_edges.                       *)

EdgesValid == cat.edges # None /\ cat.edges.tag = version

LoadEdges ==
    /\ MayStart("analyst")
    /\ LockAndFlush("analyst", "load")
    /\ UNCHANGED <<disk, open, store, dict, scratch, deleted, bounds>>
EdgesLoaded ==
    /\ pc["analyst"] = "load"
    /\ lock' = None
    /\ Goto("analyst", IF EdgesValid THEN "idle" ELSE "build")
    /\ UNCHANGED <<disk, open, store, dict, ret, scratch, deleted, bounds>>

BuildEdges ==
    /\ pc["analyst"] = "build"
    /\ LockAndFlush("analyst", "buildread")
    /\ UNCHANGED <<disk, open, store, dict, scratch, deleted, bounds>>
EdgesBuilt ==
    /\ pc["analyst"] = "buildread"
    /\ seen' = [seen EXCEPT !["analyst"] = rows]
    /\ lock' = None /\ Goto("analyst", "save")
    /\ UNCHANGED <<disk, open, store, dict, ret, change, asked, excl, mine, deleted, bounds>>

(* The version that tags the edges is read before the lock is taken.       *)
SaveEdges ==
    /\ pc["analyst"] = "save"
    /\ mine' = [mine EXCEPT !["analyst"] = version]
    /\ Goto("analyst", "savetx")
    /\ UNCHANGED <<disk, open, store, dict, lock, ret, change, asked, seen, excl, deleted, bounds>>
EdgesSaved ==
    /\ pc["analyst"] = "savetx" /\ lock = None
    /\ cat' = [cat EXCEPT !.edges = [tag |-> mine["analyst"], of |-> seen["analyst"]]]
    /\ seen' = [seen EXCEPT !["analyst"] = None] /\ mine' = [mine EXCEPT !["analyst"] = 0]
    /\ Goto("analyst", "idle")
    /\ UNCHANGED <<rows, autoinc, open, store, dict, lock, ret, change, asked, excl, deleted, bounds>>

(* memo and every cached query: the dictionary is fetched, the result      *)
(* found, and stored in the dictionary that was fetched.                   *)
Ask(k) ==
    /\ MayStart("analyst") /\ cache[k] = None
    /\ FetchCache("analyst") /\ asked' = k
    /\ Goto("analyst", "memo")
    /\ UNCHANGED <<disk, open, store, dict, lock, ret, change, seen, excl, deleted, bounds>>
AskAny == \E k \in use.asks : Ask(k)

(* A finalized store answers from the persisted tables, without the lock   *)
(* and without a flush: events still in the buffers are not in the answer. *)
Persisted(k) == IF k = "excl" THEN cat.tables[2] ELSE cat.tables[1]
ReadTables ==
    /\ pc["analyst"] = "memo" /\ asked # "memo" /\ finalized
    /\ seen' = [seen EXCEPT !["analyst"] = Persisted(asked)]
    /\ Goto("analyst", "memostore")
    /\ UNCHANGED <<disk, open, store, dict, lock, ret, change, asked, excl, mine, deleted, bounds>>

(* Otherwise it is computed after a flush; so are, in a finalized store,   *)
(* lanes and extents when the tables have none.                            *)
Computes(k) ==
    (k # "memo" /\ finalized) => (k = "extents" /\ \A s \in Shard : Persisted(k)[s] = {})
MemoCompute ==
    /\ pc["analyst"] = "memo" /\ Computes(asked)
    /\ LockAndFlush("analyst", "memoread")
    /\ UNCHANGED <<disk, open, store, dict, scratch, deleted, bounds>>
MemoComputed ==
    /\ pc["analyst"] = "memoread"
    /\ seen' = [seen EXCEPT !["analyst"] = rows]
    /\ lock' = None /\ Goto("analyst", "memostore")
    /\ UNCHANGED <<disk, open, store, dict, ret, change, asked, excl, mine, deleted, bounds>>
MemoStore ==
    /\ pc["analyst"] = "memostore"
    /\ Memoize("analyst", asked, seen["analyst"])
    /\ seen' = [seen EXCEPT !["analyst"] = None] /\ mine' = [mine EXCEPT !["analyst"] = 0] /\ asked' = None
    /\ Goto("analyst", "idle")
    /\ UNCHANGED <<disk, open, store, gen, lock, ret, change, excl, deleted, bounds>>

Analyst ==
    \/ LoadEdges \/ EdgesLoaded \/ BuildEdges \/ EdgesBuilt \/ SaveEdges \/ EdgesSaved
    \/ AskAny \/ ReadTables \/ MemoCompute \/ MemoComputed \/ MemoStore

-----------------------------------------------------------------------------
(* close, the death of the process, and opening an existing store.         *)

Gone ==
    /\ open' = FALSE
    /\ buf' = [s \in Shard |-> <<>>] /\ next_row' = [s \in Shard |-> 0]
    /\ cache' = EmptyCache /\ late' = {} /\ gen' = 0
    /\ lock' = None /\ pc' = [p \in Proc |-> "idle"] /\ ret' = [p \in Proc |-> "idle"]
    /\ change' = None /\ asked' = None /\ seen' = [p \in Proc |-> None] /\ excl' = None /\ mine' = [p \in Proc |-> 0]
    /\ UNCHANGED <<disk, next_seq, version, finalized, names, deleted, nappend, nchange>>

CloseBegin ==
    /\ open /\ \A p \in Proc : pc[p] = "idle"
    /\ nclose < use.closes
    /\ LockAndFlush("writer", "close")
    /\ UNCHANGED <<disk, open, store, dict, scratch, deleted, bounds>>
Close == pc["writer"] = "close" /\ Gone /\ nclose' = nclose + 1 /\ UNCHANGED ncrash
Crash == open /\ ncrash < use.crashes /\ Gone /\ ncrash' = ncrash + 1 /\ UNCHANGED nclose

FirstSeq == cat.next_seq
Open ==
    /\ ~open /\ open' = TRUE
    /\ next_seq' = FirstSeq /\ version' = cat.version
    /\ finalized' = cat.finalized /\ names' = cat.names
    /\ UNCHANGED <<disk, buf, next_row, dict, control, scratch, deleted, bounds>>

Next ==
    /\ \/ \E p \in Proc : Flush(p)
       \/ Writer \/ Finalizer \/ Analyst
       \/ CloseBegin \/ Close \/ Crash \/ Open
    /\ UNCHANGED use

Spec == Init /\ [][Next]_vars

-----------------------------------------------------------------------------
Quiet == lock = None /\ \A s \in Shard : buf[s] = <<>>

(* A store whose catalog says finalized has derived tables computed from   *)
(* exactly the events in its shards ("Any later change to the events marks *)
(* the store not finalized and invalidates persisted edges; reopening it   *)
(* then rebuilds the derived tables").                                     *)
DerivedFresh == (lock = None /\ cat.finalized) => cat.tables = <<rows, rows>>

(* Used by one thread at a time and not killed, the store hands out        *)
(* nothing derived from other events than it holds: the derived tables are *)
(* fresh, edges that load_edges would return were built from the stored    *)
(* events ("valid until the events change"), and a memoized result         *)
(* describes all events, the buffers being empty.  The exception is a      *)
(* result asked for while the store was finalized and events appended      *)
(* since were still in the buffers: it says what the last finalize found,  *)
(* and keeps saying it after they are written.                             *)
Fresh ==
    (~use.concurrent /\ use.crashes = 0) =>
        /\ DerivedFresh
        /\ (open /\ Quiet /\ EdgesValid) => cat.edges.of = rows
        /\ (open /\ lock = None) =>
               \A k \in Derived :
                   cache[k] # None => IF k \in late THEN cache[k] = Persisted(k) ELSE Quiet /\ cache[k] = rows

Stored == UNION {{<<s, r>> : r \in rows[s] \cup ToSet(buf[s])} : s \in Shard}

(* What names an event keeps naming it, at every point where the process   *)
(* may die and with three threads in the store.  An event id is never      *)
(* given to a second event, not after a deletion, a reopening or a crash   *)
(* ("They are stable for the life of the store").  A committed span's name *)
(* id means the name it was recorded with.  And unless the process died,   *)
(* rows and seqs agree, so that iter_spans(order="seq"), which reads each  *)
(* shard by row and merges by seq, gives the arrival order.                *)
IdsHold ==
    /\ \A x, y \in Stored : (x[1] = y[1] /\ x[2].row = y[2].row) => x = y
    /\ \A x \in Stored : <<x[1], x[2].row>> \notin deleted
    /\ \A s \in Shard : \A r \in rows[s] :
           r.name_id \in DOMAIN cat.names /\ cat.names[r.name_id] = r.name
    /\ use.crashes = 0 =>
           \A x, y \in Stored :
               /\ x[2].seq = y[2].seq => x = y
               /\ (x[1] = y[1] /\ x[2].row < y[2].row) => x[2].seq < y[2].seq
=============================================================================
