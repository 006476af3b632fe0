-------------------------- MODULE DiskStoreProofs -------------------------
(***************************************************************************)
(* TLAPS proofs about DiskStore, for any number of shards and names and    *)
(* every way of using the store: ids hold across deletions, reopenings,    *)
(* crashes and three interleaved threads (IdsHold), and a store used by    *)
(* one thread at a time hands out nothing stale but what it was asked with *)
(* unwritten events in a finalized store (Fresh).                          *)
(***************************************************************************)
EXTENDS DiskStore, TLAPS

-----------------------------------------------------------------------------
(* Types.                                                                  *)

RowRec == [row : Nat, seq : Nat, name_id : Nat, name : Name]

(* The steps at which a thread holds self._lock, and the others.           *)
Locked == {"names", "shards", "change", "changerow", "dirty", "unfinalize", "close",
           "fin", "exclread", "load", "buildread", "memoread"}
Unlocked == {"idle", "excl", "write", "build", "save", "savetx", "memo", "memostore"}

(* What a thread goes on with after a flush.                               *)
After == {"idle", "change", "close", "fin", "exclread", "load", "buildread", "memoread"}

CatOK ==
    /\ cat = [next_seq |-> cat.next_seq, version |-> cat.version, finalized |-> cat.finalized,
              names |-> cat.names, tables |-> cat.tables, edges |-> cat.edges]
    /\ cat.next_seq \in Nat /\ cat.version \in Nat /\ cat.finalized \in BOOLEAN
    /\ cat.names \in Seq(Name)

DataOK ==
    /\ rows \in [Shard -> SUBSET RowRec] /\ autoinc \in [Shard -> Nat]
    /\ next_seq \in Nat /\ version \in Nat /\ finalized \in BOOLEAN /\ names \in Seq(Name)
    /\ buf \in [Shard -> Seq(RowRec)] /\ next_row \in [Shard -> Nat]
    /\ cache = [k \in Derived |-> cache[k]]
    /\ deleted \in SUBSET (Shard \X Nat)

ControlOK ==
    /\ use \in Use /\ open \in BOOLEAN
    /\ lock \in Proc \cup {None} /\ pc \in [Proc -> Locked \cup Unlocked] /\ ret \in [Proc -> After]
    /\ seen = [p \in Proc |-> seen[p]] /\ mine = [p \in Proc |-> mine[p]]
    /\ ncrash \in Nat

(* A lock-protected step is taken by the thread that holds the lock, and a *)
(* store that is not open has no thread in it.                             *)
LockHeld == \A p \in Proc : pc[p] \in Locked => lock = p
ClosedIdle == ~open => \A p \in Proc : pc[p] = "idle"

(* The change the writer is about to commit names a stored row.            *)
Changing == \/ pc["writer"] \in {"change", "changerow"}
            \/ pc["writer"] \in {"names", "shards"} /\ ret["writer"] = "change"
ChangeOK ==
    Changing => /\ change.shard \in Shard /\ change.row \in rows[change.shard]
                /\ change.to \in Name \cup {None}

TypeInv == CatOK /\ DataOK /\ ControlOK /\ LockHeld /\ ClosedIdle /\ ChangeOK

(* Row numbers: those in a shard are at most its sqlite_sequence, those in *)
(* a buffer grow, above it and below the next row to be given.             *)
Ordered ==
    /\ \A s \in Shard : \A r \in rows[s] : r.row <= autoinc[s]
    /\ \A s \in Shard : \A i \in DOMAIN buf[s] : autoinc[s] < buf[s][i].row /\ buf[s][i].row < next_row[s]
    /\ \A s \in Shard : \A i, j \in DOMAIN buf[s] : i < j => buf[s][i].row < buf[s][j].row
    /\ \A s \in Shard : next_row[s] = 0 \/ autoinc[s] < next_row[s]

LEMMA TypeInit == Init => TypeInv
<1> SUFFICES ASSUME Init PROVE TypeInv
    OBVIOUS
<1>1. CatOK
    BY DEF Init, CatOK, NewStore
<1>2. DataOK
    <2>1. cache = [k \in Derived |-> cache[k]]
        BY DEF Init, EmptyCache, Derived
    <2>2. deleted \in SUBSET (Shard \X Nat)
        BY DEF Init
    <2>3. buf \in [Shard -> Seq(RowRec)]
        BY DEF Init
    <2>4. rows \in [Shard -> SUBSET RowRec]
        BY DEF Init
    <2>5. names \in Seq(Name) /\ autoinc \in [Shard -> Nat] /\ next_row \in [Shard -> Nat]
        BY DEF Init
    <2>6. next_seq \in Nat /\ version \in Nat
        BY DEF Init
    <2>7. finalized \in BOOLEAN
        BY DEF Init
    <2>8. QED
        BY <2>1, <2>2, <2>3, <2>4, <2>5, <2>6, <2>7 DEF DataOK
<1>3. ControlOK
    BY StoreAssumption DEF Init, ControlOK, Unlocked, After
<1>4. LockHeld /\ ClosedIdle /\ ChangeOK
    BY DEF Init, LockHeld, ClosedIdle, ChangeOK, Changing, Locked, Proc
<1>5. QED
    BY <1>1, <1>2, <1>3, <1>4 DEF TypeInv

LEMMA OrderedInit == Init => Ordered
BY DEF Init, Ordered

(* Both ways of taking the lock keep the control state well formed.        *)
LEMMA LockType ==
    ASSUME NEW p \in Proc, NEW l \in After \ {"idle"}, ControlOK, LockHeld, LockAndFlush(p, l)
    PROVE  /\ lock' \in Proc \cup {None} /\ pc' \in [Proc -> Locked \cup Unlocked] /\ ret' \in [Proc -> After]
           /\ LockHeld' /\ lock' = p
           /\ \A q \in Proc \ {p} : pc'[q] = pc[q] /\ ret'[q] = ret[q]
           /\ pc'[p] \in {"names", l} /\ (pc'[p] = "names" => ret'[p] = l)
BY StoreAssumption DEF ControlOK, LockHeld, LockAndFlush, Goto, Locked, Unlocked, After, Proc

LEMMA WithNameType ==
    ASSUME NEW n \in Name, names \in Seq(Name)
    PROVE  /\ WithName(n) \in Seq(Name)
           /\ IdOf(n) \in DOMAIN WithName(n) /\ WithName(n)[IdOf(n)] = n
           /\ IdOf(n) \in Nat
           /\ \A i \in DOMAIN names : i \in DOMAIN WithName(n) /\ WithName(n)[i] = names[i]
           /\ n \in ToSet(names) => WithName(n) = names
<1>1. WithName(n) \in Seq(Name) /\ DOMAIN WithName(n) \subseteq Nat
    BY DEF WithName
<1>2. \A i \in DOMAIN names : i \in DOMAIN WithName(n) /\ WithName(n)[i] = names[i]
    BY DEF WithName
<1>3. \E i \in DOMAIN WithName(n) : WithName(n)[i] = n
    <2>1. CASE n \in ToSet(names)
        BY <2>1 DEF WithName, ToSet
    <2>2. CASE n \notin ToSet(names)
        <3>1. Append(names, n)[Len(names) + 1] = n /\ Len(names) + 1 \in DOMAIN Append(names, n)
            OBVIOUS
        <3>2. QED
            BY <2>2, <3>1 DEF WithName
    <2>3. QED
        BY <2>1, <2>2
<1>4. QED
    BY <1>1, <1>2, <1>3 DEF IdOf, WithName

(* How a step may change the catalog: field by field.                      *)
LEMMA CatStep == ASSUME TypeInv, Next PROVE CatOK'
<1> USE DEF TypeInv, CatOK
<1>1. CASE \E p \in Proc : Flush(p)
    <2>1. PICK p \in Proc : Flush(p)
        BY <1>1
    <2>2. CASE FlushNames(p)
        BY <2>2 DEF FlushNames, CommitNames, DataOK
    <2>3. CASE \E s \in Shard : FlushShard(p, s)
        BY <2>3 DEF FlushShard
    <2>4. CASE FlushCatalog(p)
        <3>1. cat' = [cat EXCEPT !.next_seq = next_seq, !.version = version + 1,
                                 !.finalized = IF finalized THEN FALSE ELSE @]
            BY <2>4 DEF FlushCatalog
        <3>2. /\ cat'.next_seq = next_seq /\ cat'.version = version + 1
              /\ cat'.names = cat.names
            BY <3>1
        <3>3. cat'.finalized = IF finalized THEN FALSE ELSE cat.finalized
            BY <3>1
        <3>4. cat' = [next_seq |-> cat'.next_seq, version |-> cat'.version, finalized |-> cat'.finalized,
                      names |-> cat'.names, tables |-> cat'.tables, edges |-> cat'.edges]
            BY <3>1
        <3>5. cat'.finalized \in BOOLEAN
            BY <3>3
        <3>6. cat'.next_seq \in Nat /\ cat'.version \in Nat /\ cat'.names \in Seq(Name)
            BY <3>2 DEF DataOK
        <3>7. QED
            BY <3>4, <3>5, <3>6
    <2>5. QED
        BY <2>1, <2>2, <2>3, <2>4 DEF Flush
<1>2. CASE Writer
    <2>1. CASE ChangeNames
        <3>1. change.to # None => WithName(change.to) \in Seq(Name)
            BY <2>1, WithNameType DEF ChangeNames, DataOK, ChangeOK, Changing
        <3>2. QED
            BY <2>1, <3>1 DEF ChangeNames, DataOK
    <2>2. CASE MarkDirty
        <3>1. cat' = [cat EXCEPT !.version = version + 1] /\ version + 1 \in Nat
            BY <2>2 DEF MarkDirty, Bump, DataOK
        <3>2. QED
            BY <3>1
    <2>6. CASE Unfinalize
        <3>1. cat' = [cat EXCEPT !.finalized = FALSE]
            BY <2>6 DEF Unfinalize, Unmark
        <3>2. cat'.finalized \in BOOLEAN
            BY <3>1
        <3>3. /\ cat'.next_seq = cat.next_seq /\ cat'.version = cat.version /\ cat'.names = cat.names
              /\ cat' = [next_seq |-> cat'.next_seq, version |-> cat'.version, finalized |-> cat'.finalized,
                         names |-> cat'.names, tables |-> cat'.tables, edges |-> cat'.edges]
            BY <3>1
        <3>4. QED
            BY <3>2, <3>3
    <2>3. CASE ChangeRow \/ \E s \in Shard, n \in Name : Add(s, n) \/ \E i \in 1..use.batch : UpdateBuffered(s, i, n)
        BY <2>3 DEF ChangeRow, Add, UpdateBuffered, disk
    <2>4. CASE \E s \in Shard : \E r \in rows[s], to \in Name \cup {None} : Change(s, r, to)
        BY <2>4 DEF Change, disk
    <2>5. QED
        BY <1>2, <2>1, <2>2, <2>3, <2>4, <2>6 DEF Writer
<1>3. CASE Finalizer
    BY <1>3 DEF Finalizer, Finalize, FinalizeLocked, ExclusiveKnown, Exclusive, ExclusiveRead, FinalizeWrite, disk
<1>4. CASE Analyst
    BY <1>4 DEF Analyst, LoadEdges, EdgesLoaded, BuildEdges, EdgesBuilt, SaveEdges, EdgesSaved, AskAny, Ask, ReadTables,
                MemoCompute, MemoComputed, MemoStore, disk
<1>5. CASE CloseBegin \/ Close \/ Crash \/ Open
    BY <1>5 DEF CloseBegin, Close, Crash, Open, Gone, disk
<1>6. QED
    BY <1>1, <1>2, <1>3, <1>4, <1>5 DEF Next

LEMMA MaxIs ==
    ASSUME NEW S \in SUBSET Int, NEW m \in S, \A y \in S : m >= y
    PROVE  Max(S) = m
<1>1. Max(S) \in S /\ \A y \in S : Max(S) >= y
    BY DEF Max
<1>2. Max(S) \in Int /\ m \in Int /\ Max(S) >= m /\ m >= Max(S)
    BY <1>1
<1>3. QED
    BY <1>2

(* Buffered rows are records whose rows are numbers.                       *)
LEMMA BufType ==
    ASSUME DataOK, NEW s \in Shard
    PROVE  /\ buf[s] \in Seq(RowRec) /\ DOMAIN buf[s] = 1..Len(buf[s]) /\ Len(buf[s]) \in Nat
           /\ \A i \in DOMAIN buf[s] : buf[s][i] \in RowRec /\ buf[s][i].row \in Nat /\ buf[s][i].seq \in Nat
           /\ autoinc[s] \in Nat /\ next_row[s] \in Nat
           /\ \A r \in rows[s] : r \in RowRec /\ r.row \in Nat /\ r.seq \in Nat
<1>1. buf[s] \in Seq(RowRec) /\ autoinc[s] \in Nat /\ next_row[s] \in Nat /\ rows[s] \in SUBSET RowRec
    BY DEF DataOK
<1>2. \A r \in RowRec : r.row \in Nat /\ r.seq \in Nat
    BY DEF RowRec
<1>3. QED
    BY <1>1, <1>2

(* The next row of a shard, given that sqlite_sequence covers its rows.    *)
NextRow(s) == IF next_row[s] = 0 THEN autoinc[s] + 1 ELSE next_row[s]

LEMMA RowForIs ==
    ASSUME DataOK, Ordered, NEW s \in Shard
    PROVE  /\ RowFor(s) = NextRow(s) /\ NextRow(s) \in Nat \ {0} /\ autoinc[s] < NextRow(s)
           /\ \A i \in DOMAIN buf[s] : buf[s][i].row < NextRow(s)
<1> DEFINE R == {autoinc[s]} \cup {r.row : r \in rows[s]}
<1>1. autoinc[s] \in R /\ R \in SUBSET Int /\ (\A y \in R : autoinc[s] >= y)
    BY BufType DEF Ordered
<1>2. Max(R) = autoinc[s]
    BY <1>1, MaxIs
<1>3. RowFor(s) = NextRow(s)
    BY <1>2 DEF RowFor, NextRow
<1>4. QED
    BY <1>3, BufType DEF NextRow, Ordered

(* Writing a buffer moves sqlite_sequence to the row of its last event.    *)
LEMMA FlushMax ==
    ASSUME DataOK, Ordered, NEW s \in Shard, buf[s] # <<>>
    PROVE  LET m == Max({autoinc[s]} \cup {r.row : r \in ToSet(buf[s])})
           IN  /\ m \in Nat /\ autoinc[s] < m /\ m < next_row[s]
               /\ \A i \in DOMAIN buf[s] : buf[s][i].row <= m
<1> DEFINE b == buf[s]
           R == {autoinc[s]} \cup {r.row : r \in ToSet(b)}
           last == b[Len(b)].row
<1>1. b \in Seq(RowRec) /\ Len(b) \in DOMAIN b
    BY BufType
<1>2. \A i \in DOMAIN b : b[i].row <= last
    <2>1. SUFFICES ASSUME NEW i \in DOMAIN b PROVE b[i].row <= last
        OBVIOUS
    <2>2. CASE i = Len(b)
        BY <2>2, BufType
    <2>3. CASE i < Len(b)
        BY <2>3, <1>1, BufType DEF Ordered
    <2>4. QED
        BY <2>2, <2>3, BufType
<1>3. autoinc[s] < last /\ last < next_row[s]
    BY <1>1 DEF Ordered
<1>4. last \in R /\ R \in SUBSET Int /\ (\A y \in R : last >= y)
    BY <1>1, <1>2, <1>3, BufType DEF ToSet
<1>5. Max(R) = last
    BY <1>4, MaxIs
<1>6. QED
    BY <1>5, <1>1, <1>2, <1>3, BufType

-----------------------------------------------------------------------------
(* The steps that touch the events, and what they leave of the row numbers. *)

rowvars == <<rows, autoinc, buf, next_row, deleted>>

LEMMA RowSteps ==
    ASSUME Next
    PROVE  \/ \E p \in Proc, s \in Shard : FlushShard(p, s)
           \/ \E s \in Shard, n \in Name : Add(s, n)
           \/ \E s \in Shard, n \in Name : \E i \in 1..use.batch : UpdateBuffered(s, i, n)
           \/ ChangeRow \/ Close \/ Crash
           \/ UNCHANGED rowvars
<1> USE DEF rowvars, disk, store, flushframe
<1>1. CASE \E p \in Proc : Flush(p)
    BY <1>1 DEF Flush, FlushNames, FlushCatalog
<1>2. CASE Writer
    BY <1>2 DEF Writer, Change, ChangeNames, MarkDirty, Unfinalize
<1>3. CASE Finalizer
    BY <1>3 DEF Finalizer, Finalize, FinalizeLocked, ExclusiveKnown, Exclusive, ExclusiveRead, FinalizeWrite
<1>4. CASE Analyst
    BY <1>4 DEF Analyst, LoadEdges, EdgesLoaded, BuildEdges, EdgesBuilt, SaveEdges, EdgesSaved, AskAny, Ask, ReadTables,
                MemoCompute, MemoComputed, MemoStore
<1>5. CASE CloseBegin \/ Close \/ Crash \/ Open
    BY <1>5 DEF CloseBegin, Open
<1>6. QED
    BY <1>1, <1>2, <1>3, <1>4, <1>5 DEF Next

RowsOK ==
    /\ rows \in [Shard -> SUBSET RowRec] /\ autoinc \in [Shard -> Nat]
    /\ buf \in [Shard -> Seq(RowRec)] /\ next_row \in [Shard -> Nat]
    /\ deleted \in SUBSET (Shard \X Nat)

LEMMA FlushShardRows ==
    ASSUME TypeInv, Ordered, NEW p \in Proc, NEW s \in Shard, FlushShard(p, s)
    PROVE  RowsOK' /\ Ordered'
<1> DEFINE m == Max({autoinc[s]} \cup {r.row : r \in ToSet(buf[s])})
<1>1. /\ m \in Nat /\ autoinc[s] < m /\ m < next_row[s]
      /\ \A i \in DOMAIN buf[s] : buf[s][i].row <= m
    BY FlushMax DEF FlushShard, TypeInv
<1>2. /\ rows' = [rows EXCEPT ![s] = rows[s] \cup ToSet(buf[s])]
      /\ autoinc' = [autoinc EXCEPT ![s] = m] /\ buf' = [buf EXCEPT ![s] = <<>>]
      /\ next_row' = next_row /\ deleted' = deleted
    BY DEF FlushShard, flushframe
<1> HIDE DEF m
<1>3. ToSet(buf[s]) \in SUBSET RowRec /\ \A r \in ToSet(buf[s]) : r.row <= m
    BY <1>1, BufType DEF TypeInv, ToSet
<1>4. RowsOK'
    BY <1>1, <1>2, <1>3 DEF RowsOK, DataOK, TypeInv
<1>5. Ordered'
    <2>1. \A t \in Shard : \A r \in rows'[t] : r.row <= autoinc'[t]
        BY <1>1, <1>2, <1>3, BufType DEF Ordered, DataOK, TypeInv
    <2>2. \A t \in Shard : /\ t # s => buf'[t] = buf[t] /\ autoinc'[t] = autoinc[t]
                          /\ next_row'[t] = next_row[t]
        BY <1>2 DEF DataOK, TypeInv
    <2>3. buf'[s] = <<>> /\ autoinc'[s] = m
        BY <1>2 DEF DataOK, TypeInv
    <2>4. QED
        BY <1>1, <2>1, <2>2, <2>3 DEF Ordered
<1>6. QED
    BY <1>4, <1>5

LEMMA AddRows ==
    ASSUME TypeInv, Ordered, NEW s \in Shard, NEW n \in Name, Add(s, n)
    PROVE  RowsOK' /\ Ordered'
<1> DEFINE k == NextRow(s)
           new == Row(k, next_seq, IdOf(n), n)
<1>1. /\ RowFor(s) = k /\ k \in Nat \ {0} /\ autoinc[s] < k
      /\ \A i \in DOMAIN buf[s] : buf[s][i].row < k
    BY RowForIs DEF TypeInv
<1>2. /\ rows' = rows /\ autoinc' = autoinc /\ deleted' = deleted
      /\ buf' = [buf EXCEPT ![s] = Append(buf[s], new)] /\ next_row' = [next_row EXCEPT ![s] = k + 1]
    BY <1>1 DEF Add, disk
<1>3. new \in RowRec /\ new.row = k
    BY <1>1, WithNameType DEF Row, RowRec, TypeInv, DataOK
<1> HIDE DEF k, new
<1>4. RowsOK'
    BY <1>1, <1>2, <1>3 DEF RowsOK, DataOK, TypeInv
<1>5. Ordered'
    <2>1. \A t \in Shard : /\ t # s => buf'[t] = buf[t] /\ next_row'[t] = next_row[t]
                          /\ autoinc'[t] = autoinc[t] /\ rows'[t] = rows[t]
        BY <1>2 DEF DataOK, TypeInv
    <2>2. buf'[s] = Append(buf[s], new) /\ next_row'[s] = k + 1
        BY <1>2 DEF DataOK, TypeInv
    <2>3. \A i \in DOMAIN buf'[s] : \/ i \in DOMAIN buf[s] /\ buf'[s][i] = buf[s][i]
                                    \/ i = Len(buf[s]) + 1 /\ buf'[s][i] = new
        BY <2>2, <1>3, BufType DEF TypeInv
    <2>4. \A i \in DOMAIN buf'[s] : autoinc[s] < buf'[s][i].row /\ buf'[s][i].row < k + 1
        BY <2>3, <1>1, <1>3, BufType DEF Ordered, TypeInv
    <2>5. \A i, j \in DOMAIN buf'[s] : i < j => buf'[s][i].row < buf'[s][j].row
        <3>1. SUFFICES ASSUME NEW i \in DOMAIN buf'[s], NEW j \in DOMAIN buf'[s], i < j
                       PROVE  buf'[s][i].row < buf'[s][j].row
            OBVIOUS
        <3>2. i \in DOMAIN buf[s] /\ buf'[s][i] = buf[s][i]
            BY <2>3, <3>1, BufType DEF TypeInv
        <3>3. CASE j \in DOMAIN buf[s] /\ buf'[s][j] = buf[s][j]
            BY <3>1, <3>2, <3>3 DEF Ordered
        <3>4. CASE buf'[s][j] = new
            BY <3>2, <3>4, <1>1, <1>3
        <3>5. QED
            BY <2>3, <3>3, <3>4
    <2>6. \A t \in Shard : \A r \in rows'[t] : r.row <= autoinc'[t]
        BY <2>1 DEF Ordered
    <2>7. \A t \in Shard : next_row'[t] = 0 \/ autoinc'[t] < next_row'[t]
        BY <1>1, <2>1, <2>2, BufType DEF Ordered, TypeInv
    <2>8. \A t \in Shard : \A i \in DOMAIN buf'[t] : autoinc'[t] < buf'[t][i].row /\ buf'[t][i].row < next_row'[t]
        BY <2>1, <2>2, <2>4 DEF Ordered
    <2>9. \A t \in Shard : \A i, j \in DOMAIN buf'[t] : i < j => buf'[t][i].row < buf'[t][j].row
        BY <2>1, <2>5 DEF Ordered
    <2>10. QED
        BY <2>6, <2>7, <2>8, <2>9 DEF Ordered
<1>6. QED
    BY <1>4, <1>5

(* A renamed event keeps its row and its seq.                              *)
LEMMA RenamedIs ==
    ASSUME DataOK, NEW r \in RowRec, NEW n \in Name
    PROVE  /\ Renamed(r, n) \in RowRec /\ Renamed(r, n).row = r.row /\ Renamed(r, n).seq = r.seq
           /\ Renamed(r, n).name_id = IdOf(n) /\ Renamed(r, n).name = n
BY WithNameType DEF Renamed, RowRec, DataOK

LEMMA UpdateRows ==
    ASSUME TypeInv, Ordered, NEW s \in Shard, NEW n \in Name, NEW i \in 1..use.batch, UpdateBuffered(s, i, n)
    PROVE  /\ RowsOK' /\ Ordered'
           /\ \A t \in Shard : /\ t # s => buf'[t] = buf[t]
                               /\ DOMAIN buf'[t] = DOMAIN buf[t]
                               /\ \A j \in DOMAIN buf[t] : <<t, j>> # <<s, i>> => buf'[t][j] = buf[t][j]
           /\ i \in DOMAIN buf[s] /\ buf'[s][i] = Renamed(buf[s][i], n)
<1>1. /\ rows' = rows /\ autoinc' = autoinc /\ deleted' = deleted /\ next_row' = next_row
      /\ i \in DOMAIN buf[s] /\ buf' = [buf EXCEPT ![s] = [buf[s] EXCEPT ![i] = Renamed(buf[s][i], n)]]
    BY DEF UpdateBuffered, disk
<1>2. /\ Renamed(buf[s][i], n) \in RowRec /\ Renamed(buf[s][i], n).row = buf[s][i].row
    BY <1>1, BufType, RenamedIs DEF TypeInv
<1>3. \A t \in Shard : /\ t # s => buf'[t] = buf[t]
                       /\ DOMAIN buf'[t] = DOMAIN buf[t]
                       /\ \A j \in DOMAIN buf[t] : <<t, j>> # <<s, i>> => buf'[t][j] = buf[t][j]
    BY <1>1, BufType DEF TypeInv, DataOK
<1>4. buf'[s][i] = Renamed(buf[s][i], n)
    BY <1>1, BufType DEF TypeInv, DataOK
<1>5. RowsOK'
    BY <1>1, <1>2, BufType DEF RowsOK, DataOK, TypeInv
<1>6. \A t \in Shard : \A j \in DOMAIN buf[t] : buf'[t][j].row = buf[t][j].row
    BY <1>2, <1>3, <1>4
<1>7. Ordered'
    BY <1>1, <1>3, <1>6 DEF Ordered
<1>8. QED
    BY <1>1, <1>3, <1>4, <1>5, <1>7

(* ChangeRow replaces the row by nothing, or by the renamed row.           *)
Replacement == IF change.to = None THEN {} ELSE {Renamed(change.row, change.to)}

LEMMA ChangeRowRows ==
    ASSUME TypeInv, Ordered, ChangeRow
    PROVE  /\ RowsOK' /\ Ordered'
           /\ change.shard \in Shard /\ change.row \in rows[change.shard] /\ change.row \in RowRec
           /\ \A r \in Replacement : /\ r \in RowRec /\ r.row = change.row.row /\ r.seq = change.row.seq
                                     /\ change.to \in Name /\ r = Renamed(change.row, change.to)
           /\ rows'[change.shard] = (rows[change.shard] \ {change.row}) \cup Replacement
           /\ \A t \in Shard \ {change.shard} : rows'[t] = rows[t]
           /\ deleted' = IF change.to = None THEN deleted \cup {<<change.shard, change.row.row>>} ELSE deleted
           /\ autoinc' = autoinc /\ buf' = buf /\ next_row' = next_row
<1> DEFINE s == change.shard
           r == change.row
<1>1. s \in Shard /\ r \in rows[s] /\ change.to \in Name \cup {None}
    BY DEF ChangeRow, TypeInv, ChangeOK, Changing
<1>2. r \in RowRec
    BY <1>1, BufType DEF TypeInv
<1>3. /\ rows' = [rows EXCEPT ![s] = (rows[s] \ {r}) \cup Replacement]
      /\ deleted' = IF change.to = None THEN deleted \cup {<<s, r.row>>} ELSE deleted
      /\ autoinc' = autoinc /\ buf' = buf /\ next_row' = next_row
    BY DEF ChangeRow, Replacement, store
<1>4. \A q \in Replacement : /\ q \in RowRec /\ q.row = r.row /\ q.seq = r.seq
                             /\ change.to \in Name /\ q = Renamed(r, change.to)
    BY <1>1, <1>2, RenamedIs DEF Replacement, TypeInv
<1>5. /\ rows'[s] = (rows[s] \ {r}) \cup Replacement
      /\ \A t \in Shard \ {s} : rows'[t] = rows[t]
    BY <1>1, <1>3 DEF DataOK, TypeInv
<1>6. rows' \in [Shard -> SUBSET RowRec]
    BY <1>1, <1>3, <1>4 DEF DataOK, TypeInv
<1>7. deleted' \in SUBSET (Shard \X Nat)
    BY <1>1, <1>2, <1>3 DEF DataOK, TypeInv, RowRec
<1>8. RowsOK'
    BY <1>3, <1>6, <1>7 DEF RowsOK, DataOK, TypeInv
<1>9. \A t \in Shard : \A q \in rows'[t] : q.row <= autoinc[t]
    BY <1>1, <1>4, <1>5 DEF Ordered
<1>10. Ordered'
    BY <1>3, <1>9 DEF Ordered
<1>11. QED
    BY <1>1, <1>2, <1>3, <1>4, <1>5, <1>8, <1>10

LEMMA GoneRows ==
    ASSUME TypeInv, Ordered, Gone
    PROVE  RowsOK' /\ Ordered'
<1>1. /\ rows' = rows /\ autoinc' = autoinc /\ deleted' = deleted
      /\ buf' = [s \in Shard |-> <<>>] /\ next_row' = [s \in Shard |-> 0]
    BY DEF Gone, disk
<1>2. RowsOK'
    <2>1. buf' \in [Shard -> Seq(RowRec)]
        BY <1>1
    <2>2. QED
        BY <1>1, <2>1 DEF RowsOK, DataOK, TypeInv
<1>3. Ordered'
    BY <1>1 DEF Ordered
<1>4. QED
    BY <1>2, <1>3

LEMMA RowsStep ==
    ASSUME TypeInv, Ordered, Next
    PROVE  RowsOK' /\ Ordered'
<1>1. CASE UNCHANGED rowvars
    BY <1>1 DEF rowvars, RowsOK, Ordered, TypeInv, DataOK
<1>2. QED
    BY <1>1, RowSteps, FlushShardRows, AddRows, UpdateRows, ChangeRowRows, GoneRows DEF Close, Crash

(* The other fields of the store object.                                   *)
LEMMA CountersStep ==
    ASSUME TypeInv, Next
    PROVE  next_seq' \in Nat /\ version' \in Nat
<1> USE DEF TypeInv, DataOK, CatOK, store, flushframe
<1>1. CASE \E p \in Proc : Flush(p)
    <2>1. PICK p \in Proc : Flush(p)
        BY <1>1
    <2>2. CASE FlushCatalog(p)
        BY <2>2 DEF FlushCatalog
    <2>3. QED
        BY <2>1, <2>2 DEF Flush, FlushNames, FlushShard
<1>2. CASE Writer
    BY <1>2 DEF Writer, Add, UpdateBuffered, Change, ChangeNames, ChangeRow, MarkDirty, Unfinalize, Bump
<1>3. CASE Finalizer
    BY <1>3 DEF Finalizer, Finalize, FinalizeLocked, ExclusiveKnown, Exclusive, ExclusiveRead, FinalizeWrite
<1>4. CASE Analyst
    BY <1>4 DEF Analyst, LoadEdges, EdgesLoaded, BuildEdges, EdgesBuilt, SaveEdges, EdgesSaved, AskAny, Ask, ReadTables,
                MemoCompute, MemoComputed, MemoStore
<1>5. CASE CloseBegin \/ Close \/ Crash \/ Open
    BY <1>5 DEF CloseBegin, Close, Crash, Gone, Open, FirstSeq
<1>6. QED
    BY <1>1, <1>2, <1>3, <1>4, <1>5 DEF Next

LEMMA FinalizedStep ==
    ASSUME TypeInv, Next
    PROVE  finalized' \in BOOLEAN
<1> USE DEF TypeInv, DataOK, CatOK, store, flushframe
<1>1. CASE \E p \in Proc : Flush(p)
    BY <1>1 DEF Flush, FlushNames, FlushShard, FlushCatalog
<1>2. CASE Writer
    <2>1. CASE Unfinalize
        BY <2>1 DEF Unfinalize, Unmark
    <2>2. CASE MarkDirty \/ ChangeRow \/ ChangeNames
        BY <2>2 DEF MarkDirty, ChangeRow, ChangeNames
    <2>3. QED
        BY <1>2, <2>1, <2>2 DEF Writer, Add, UpdateBuffered, Change
<1>3. CASE Finalizer
    BY <1>3 DEF Finalizer, Finalize, FinalizeLocked, ExclusiveKnown, Exclusive, ExclusiveRead, FinalizeWrite
<1>4. CASE Analyst
    BY <1>4 DEF Analyst, LoadEdges, EdgesLoaded, BuildEdges, EdgesBuilt, SaveEdges, EdgesSaved, AskAny, Ask, ReadTables,
                MemoCompute, MemoComputed, MemoStore
<1>5. CASE CloseBegin \/ Close \/ Crash \/ Open
    BY <1>5 DEF CloseBegin, Close, Crash, Gone, Open
<1>6. QED
    BY <1>1, <1>2, <1>3, <1>4, <1>5 DEF Next

LEMMA NamesStep ==
    ASSUME TypeInv, Next
    PROVE  names' \in Seq(Name)
<1> USE DEF TypeInv, DataOK, CatOK, store, flushframe
<1>1. CASE \E p \in Proc : Flush(p)
    BY <1>1 DEF Flush, FlushNames, FlushShard, FlushCatalog
<1>2. CASE Writer
    <2>1. CASE ChangeNames
        BY <2>1, WithNameType DEF ChangeNames, ChangeOK, Changing
    <2>2. QED
        BY <1>2, <2>1, WithNameType DEF Writer, Add, UpdateBuffered, Change, ChangeRow, MarkDirty, Unfinalize
<1>3. CASE Finalizer
    BY <1>3 DEF Finalizer, Finalize, FinalizeLocked, ExclusiveKnown, Exclusive, ExclusiveRead, FinalizeWrite
<1>4. CASE Analyst
    BY <1>4 DEF Analyst, LoadEdges, EdgesLoaded, BuildEdges, EdgesBuilt, SaveEdges, EdgesSaved, AskAny, Ask, ReadTables,
                MemoCompute, MemoComputed, MemoStore
<1>5. CASE CloseBegin \/ Close \/ Crash \/ Open
    BY <1>5 DEF CloseBegin, Close, Crash, Gone, Open
<1>6. QED
    BY <1>1, <1>2, <1>3, <1>4, <1>5 DEF Next

LEMMA CacheStep ==
    ASSUME TypeInv, Next
    PROVE  cache' = [k \in Derived |-> cache'[k]]
<1> USE DEF TypeInv, DataOK, dict, flushframe
<1>1. EmptyCache = [k \in Derived |-> EmptyCache[k]]
    BY DEF EmptyCache, Derived
<1>2. CASE \E p \in Proc : Flush(p)
    BY <1>2 DEF Flush, FlushNames, FlushShard, FlushCatalog
<1>3. CASE Writer
    <2>1. ClearIfAny \/ Clear \/ cache' = cache
        BY <1>3 DEF Writer, Add, UpdateBuffered, Change, ChangeNames, ChangeRow, MarkDirty, Unfinalize
    <2>2. QED
        BY <2>1, <1>1 DEF ClearIfAny, Clear
<1>4. CASE Finalizer
    <2>1. \/ cache' = cache
          \/ \E x : cache' = [EmptyCache EXCEPT !["extents"] = x]
          \/ \E x : cache' = [cache EXCEPT !["excl"] = x]
        BY <1>4 DEF Finalizer, Finalize, FinalizeLocked, ExclusiveKnown, Exclusive, ExclusiveRead, FinalizeWrite, Memoize
    <2>2. QED
        BY <2>1, <1>1 DEF Derived
<1>5. CASE Analyst
    <2>1. cache' = cache \/ \E k, x : cache' = [cache EXCEPT ![k] = x]
        BY <1>5 DEF Analyst, LoadEdges, EdgesLoaded, BuildEdges, EdgesBuilt, SaveEdges, EdgesSaved, AskAny, Ask, ReadTables,
                    MemoCompute, MemoComputed, MemoStore, Memoize
    <2>2. QED
        BY <2>1
<1>6. CASE CloseBegin \/ Close \/ Crash \/ Open
    BY <1>6, <1>1 DEF CloseBegin, Close, Crash, Gone, Open
<1>7. QED
    BY <1>2, <1>3, <1>4, <1>5, <1>6 DEF Next

LEMMA DataStep ==
    ASSUME TypeInv, Ordered, Next
    PROVE  DataOK' /\ Ordered'
BY RowsStep, CountersStep, FinalizedStep, NamesStep, CacheStep DEF DataOK, RowsOK

-----------------------------------------------------------------------------
(* Control.                                                                *)

PcOK == lock \in Proc \cup {None} /\ pc \in [Proc -> Locked \cup Unlocked] /\ ret \in [Proc -> After]

LEMMA FlushControl ==
    ASSUME TypeInv, NEW p \in Proc, Flush(p)
    PROVE  PcOK' /\ LockHeld' /\ ClosedIdle'
<1> USE StoreAssumption DEF TypeInv, ControlOK, PcOK, LockHeld, ClosedIdle, Goto, Locked, Unlocked, After,
        flushframe, control
<1>1. CASE FlushNames(p)
    BY <1>1 DEF FlushNames
<1>2. CASE \E s \in Shard : FlushShard(p, s)
    BY <1>2 DEF FlushShard
<1>3. CASE FlushCatalog(p)
    BY <1>3 DEF FlushCatalog
<1>4. QED
    BY <1>1, <1>2, <1>3 DEF Flush

LEMMA WriterControl ==
    ASSUME TypeInv, Writer
    PROVE  PcOK' /\ LockHeld' /\ ClosedIdle'
<1> USE StoreAssumption DEF TypeInv, ControlOK, PcOK, LockHeld, ClosedIdle, Goto, Locked, Unlocked, After,
        control, Proc, MayStart
<1>1. CASE \E s \in Shard, n \in Name : Add(s, n)
    BY <1>1 DEF Add
<1>2. CASE \E s \in Shard, n \in Name : \E i \in 1..use.batch : UpdateBuffered(s, i, n)
    BY <1>2 DEF UpdateBuffered
<1>3. CASE \E s \in Shard : \E r \in rows[s], to \in Name \cup {None} : Change(s, r, to)
    BY <1>3, LockType DEF Change
<1>4. CASE ChangeNames \/ ChangeRow
    BY <1>4 DEF ChangeNames, ChangeRow
<1>5. CASE MarkDirty
    BY <1>5 DEF MarkDirty
<1>6. CASE Unfinalize
    BY <1>6 DEF Unfinalize
<1>7. QED
    BY <1>1, <1>2, <1>3, <1>4, <1>5, <1>6 DEF Writer

LEMMA FinalizerControl ==
    ASSUME TypeInv, Finalizer
    PROVE  PcOK' /\ LockHeld' /\ ClosedIdle'
<1> USE StoreAssumption DEF TypeInv, ControlOK, PcOK, LockHeld, ClosedIdle, Goto, Locked, Unlocked, After,
        Proc, MayStart
<1>1. CASE Finalize
    BY <1>1, LockType DEF Finalize
<1>2. CASE FinalizeLocked
    BY <1>2 DEF FinalizeLocked
<1>3. CASE ExclusiveKnown \/ Exclusive
    BY <1>3, LockType DEF ExclusiveKnown, Exclusive
<1>4. CASE ExclusiveRead
    BY <1>4 DEF ExclusiveRead
<1>5. CASE FinalizeWrite
    BY <1>5 DEF FinalizeWrite
<1>6. QED
    BY <1>1, <1>2, <1>3, <1>4, <1>5 DEF Finalizer

LEMMA AnalystControl ==
    ASSUME TypeInv, Analyst
    PROVE  PcOK' /\ LockHeld' /\ ClosedIdle'
<1> USE StoreAssumption DEF TypeInv, ControlOK, PcOK, LockHeld, ClosedIdle, Goto, Locked, Unlocked, After,
        Proc, MayStart
<1>1. CASE LoadEdges
    BY <1>1, LockType DEF LoadEdges
<1>2. CASE BuildEdges
    BY <1>2, LockType DEF BuildEdges
<1>3. CASE MemoCompute
    BY <1>3, LockType DEF MemoCompute
<1>4. CASE EdgesLoaded
    BY <1>4 DEF EdgesLoaded
<1>5. CASE EdgesBuilt
    BY <1>5 DEF EdgesBuilt
<1>6. CASE SaveEdges \/ EdgesSaved \/ AskAny \/ ReadTables
    BY <1>6 DEF SaveEdges, EdgesSaved, AskAny, Ask, ReadTables
<1>7. CASE MemoComputed \/ MemoStore
    BY <1>7 DEF MemoComputed, MemoStore
<1>8. QED
    BY <1>1, <1>2, <1>3, <1>4, <1>5, <1>6, <1>7 DEF Analyst

LEMMA LifeControl ==
    ASSUME TypeInv, CloseBegin \/ Close \/ Crash \/ Open
    PROVE  PcOK' /\ LockHeld' /\ ClosedIdle'
<1> USE StoreAssumption DEF TypeInv, ControlOK, PcOK, LockHeld, ClosedIdle, Locked, Unlocked, After, Proc
<1>1. CASE CloseBegin
    BY <1>1, LockType DEF CloseBegin
<1>2. CASE Close \/ Crash
    BY <1>2 DEF Close, Crash, Gone
<1>3. CASE Open
    BY <1>3 DEF Open, control
<1>4. QED
    BY <1>1, <1>2, <1>3

LEMMA ScratchStep ==
    ASSUME TypeInv, Next
    PROVE  /\ use' \in Use /\ open' \in BOOLEAN /\ ncrash' \in Nat
           /\ seen' = [p \in Proc |-> seen'[p]] /\ mine' = [p \in Proc |-> mine'[p]]
<1> USE DEF TypeInv, ControlOK, scratch, bounds, flushframe
<1>1. use' \in Use
    BY DEF Next
<1>2. CASE \E p \in Proc : Flush(p)
    BY <1>1, <1>2 DEF Flush, FlushNames, FlushShard, FlushCatalog
<1>3. CASE Writer
    BY <1>1, <1>3 DEF Writer, Add, UpdateBuffered, Change, ChangeNames, ChangeRow, MarkDirty, Unfinalize
<1>4. CASE Finalizer
    <2>1. /\ open' = open /\ ncrash' = ncrash
          /\ seen' = seen \/ \E x : seen' = [seen EXCEPT !["finalizer"] = x]
          /\ mine' = mine \/ \E x : mine' = [mine EXCEPT !["finalizer"] = x]
        BY <1>4 DEF Finalizer, Finalize, FinalizeLocked, ExclusiveKnown, Exclusive, ExclusiveRead, FinalizeWrite, FetchCache
    <2>2. QED
        BY <1>1, <2>1 DEF Proc
<1>5. CASE Analyst
    <2>1. /\ open' = open /\ ncrash' = ncrash
          /\ seen' = seen \/ \E x : seen' = [seen EXCEPT !["analyst"] = x]
          /\ mine' = mine \/ \E x : mine' = [mine EXCEPT !["analyst"] = x]
        BY <1>5 DEF Analyst, LoadEdges, EdgesLoaded, BuildEdges, EdgesBuilt, SaveEdges, EdgesSaved, AskAny, Ask, ReadTables,
                    MemoCompute, MemoComputed, MemoStore, FetchCache
    <2>2. QED
        BY <1>1, <2>1 DEF Proc
<1>6. CASE CloseBegin \/ Close \/ Crash \/ Open
    <2>1. CASE CloseBegin
        BY <1>1, <2>1 DEF CloseBegin
    <2>2. CASE Open
        BY <1>1, <2>2 DEF Open
    <2>3. CASE Close \/ Crash
        <3>1. Gone
            BY <2>3 DEF Close, Crash
        <3>2. open' = FALSE /\ seen' = [p \in Proc |-> None] /\ mine' = [p \in Proc |-> 0]
            BY <3>1 DEF Gone
        <3>3. open' \in BOOLEAN
            BY <3>2
        <3>4. seen' = [p \in Proc |-> seen'[p]] /\ mine' = [p \in Proc |-> mine'[p]]
            BY <3>2
        <3>5. ncrash' \in Nat
            BY <2>3 DEF Close, Crash
        <3>6. QED
            BY <1>1, <3>3, <3>4, <3>5
    <2>4. QED
        BY <1>6, <2>1, <2>2, <2>3
<1>7. QED
    BY <1>2, <1>3, <1>4, <1>5, <1>6 DEF Next

LEMMA ControlStep ==
    ASSUME TypeInv, Next
    PROVE  ControlOK' /\ LockHeld' /\ ClosedIdle'
<1>1. PcOK' /\ LockHeld' /\ ClosedIdle'
    BY FlushControl, WriterControl, FinalizerControl, AnalystControl, LifeControl DEF Next
<1>2. QED
    BY <1>1, ScratchStep DEF ControlOK, PcOK

(* Until the writer commits its change nobody removes the row it is for.   *)
LEMMA ChangeStep ==
    ASSUME TypeInv, Ordered, Next
    PROVE  ChangeOK'
<1> USE DEF TypeInv, ControlOK
<1> "writer" \in Proc
    BY DEF Proc
<1>1. CASE \E s \in Shard : \E r \in rows[s], to \in Name \cup {None} : Change(s, r, to)
    BY <1>1 DEF Change, ChangeOK, disk
<1>2. CASE ChangeRow \/ MarkDirty \/ Unfinalize \/ Close \/ Crash
    BY <1>2 DEF ChangeRow, MarkDirty, Unfinalize, Close, Crash, Gone, Goto, ChangeOK, Changing, Locked, Unlocked
<1>3. CASE ChangeNames
    BY <1>3 DEF ChangeNames, Goto, ChangeOK, Changing, scratch
<1>4. CASE \E s \in Shard, n \in Name : Add(s, n)
    BY <1>4 DEF Add, Goto, ChangeOK, Changing, scratch, disk, control, MayStart
<1>5. CASE \E s \in Shard, n \in Name : \E i \in 1..use.batch : UpdateBuffered(s, i, n)
    BY <1>5 DEF UpdateBuffered, ChangeOK, Changing, scratch, disk, control
<1>6. CASE CloseBegin
    BY <1>6, LockType DEF CloseBegin, ChangeOK, Changing, scratch, disk, After
<1>7. CASE Finalizer \/ Analyst \/ Open
    <2>1. rows' = rows /\ change' = change /\ pc'["writer"] = pc["writer"] /\ ret'["writer"] = ret["writer"]
        BY <1>7 DEF Finalizer, Finalize, FinalizeLocked, ExclusiveKnown, Exclusive, ExclusiveRead, FinalizeWrite,
                    Analyst, LoadEdges, EdgesLoaded, BuildEdges, EdgesBuilt, SaveEdges, EdgesSaved, AskAny, Ask, ReadTables,
                    MemoCompute, MemoComputed, MemoStore, Open, LockAndFlush, Goto, scratch, disk, control
    <2>2. QED
        BY <2>1 DEF ChangeOK, Changing
<1>8. CASE \E p \in Proc : Flush(p)
    <2>1. PICK p \in Proc : Flush(p)
        BY <1>8
    <2>2. change' = change /\ \A s \in Shard : rows[s] \subseteq rows'[s]
        <3>1. CASE \E t \in Shard : FlushShard(p, t)
            <4>1. PICK t \in Shard : rows' = [rows EXCEPT ![t] = @ \cup ToSet(buf[t])]
                BY <3>1 DEF FlushShard
            <4>2. \A s \in Shard : rows[s] \subseteq rows'[s]
                BY <4>1 DEF DataOK
            <4>3. QED
                BY <3>1, <4>2 DEF FlushShard, flushframe, scratch
        <3>2. QED
            BY <2>1, <3>1 DEF Flush, FlushNames, FlushCatalog, flushframe, scratch
    <2>3. ret' = ret /\ (pc'["writer"] = pc["writer"] \/ p = "writer")
        BY <2>1 DEF Flush, FlushNames, FlushShard, FlushCatalog, Goto, control
    <2>4. Changing' => Changing
        BY <2>1, <2>3 DEF Flush, FlushNames, FlushShard, FlushCatalog, Goto, control, Changing, After
    <2>5. QED
        BY <2>2, <2>4 DEF ChangeOK
<1>9. QED
    BY <1>1, <1>2, <1>3, <1>4, <1>5, <1>6, <1>7, <1>8 DEF Next, Writer

(* The store's state is well formed: its row numbers are in order and only *)
(* the thread that holds the lock is at a step that needs it.              *)
THEOREM WellFormed == Spec => [](TypeInv /\ Ordered)
<1>1. Init => TypeInv /\ Ordered
    BY TypeInit, OrderedInit
<1>2. TypeInv /\ Ordered /\ [Next]_vars => TypeInv' /\ Ordered'
    <2>1. ASSUME TypeInv, Ordered, Next PROVE TypeInv' /\ Ordered'
        BY <2>1, CatStep, DataStep, ControlStep, ChangeStep DEF TypeInv
    <2>2. ASSUME TypeInv, Ordered, UNCHANGED vars PROVE TypeInv' /\ Ordered'
        BY <2>2 DEF TypeInv, Ordered, CatOK, DataOK, ControlOK, LockHeld, ClosedIdle, ChangeOK, Changing,
                    vars, disk, store, dict, control, scratch, bounds
    <2>3. QED
        BY <2>1, <2>2
<1>3. QED
    BY <1>1, <1>2, PTL DEF Spec

-----------------------------------------------------------------------------
(* Event ids.                                                              *)

(* Within a shard a row number names one event; a deleted row is not above *)
(* sqlite_sequence, so it is never given again, and is gone.               *)
UniqueRows == \A s \in Shard : \A r, q \in rows[s] : r.row = q.row => r = q
DeletedGone ==
    \A s \in Shard, n \in Nat : <<s, n>> \in deleted => n <= autoinc[s] /\ \A r \in rows[s] : r.row # n

(* The dictionary d gives an event's name id the event's name.             *)
InDict(d, r) == r.name_id \in DOMAIN d /\ d[r.name_id] = r.name

(* What is committed resolves in the committed dictionary, what is         *)
(* buffered in the one in memory, which extends it; when a thread writes   *)
(* shards, and when the writer updates a row, the two are the same.        *)
DictOK ==
    /\ \A s \in Shard : \A r \in rows[s] : InDict(cat.names, r)
    /\ \A s \in Shard : \A i \in DOMAIN buf[s] : InDict(names, buf[s][i])
    /\ open => \A i \in DOMAIN cat.names : i \in DOMAIN names /\ names[i] = cat.names[i]
    /\ ~open => \A s \in Shard : buf[s] = <<>>
    /\ \A p \in Proc : pc[p] = "shards" => cat.names = names
    /\ pc["writer"] = "changerow" => cat.names = names /\ (change.to = None \/ change.to \in ToSet(names))

(* Arrival numbers of a store that is not killed: all below next_seq, one  *)
(* per event, growing with the row within a shard, and those committed     *)
(* below the committed next_seq unless a flush is at work.                 *)
Held(s) == rows[s] \cup ToSet(buf[s])
SeqsBelow == \A s \in Shard : \A r \in Held(s) : r.seq < next_seq
SeqsUnique == \A s, t \in Shard : \A r \in Held(s), q \in Held(t) : r.seq = q.seq => s = t /\ r = q
SeqsGrow == \A s \in Shard : \A r, q \in Held(s) : r.row < q.row => r.seq < q.seq
SeqsCommitted ==
    \/ \E p \in Proc : pc[p] = "shards"
    \/ \A s \in Shard : \A r \in rows[s] : r.seq < cat.next_seq
SeqsOK == use.crashes = 0 => SeqsBelow /\ SeqsUnique /\ SeqsGrow /\ SeqsCommitted

IdsInv == UniqueRows /\ DeletedGone /\ DictOK /\ SeqsOK

LEMMA IdsInit == Init => IdsInv
BY DEF Init, IdsInv, UniqueRows, DeletedGone, DictOK, SeqsOK, SeqsBelow, SeqsUnique, SeqsGrow, SeqsCommitted,
       Held, ToSet, Proc, NewStore

LEMMA UniqueStep ==
    ASSUME TypeInv, Ordered, UniqueRows, DeletedGone, Next
    PROVE  UniqueRows' /\ DeletedGone'
<1>1. CASE \E p \in Proc, s \in Shard : FlushShard(p, s)
    <2>1. PICK p \in Proc, s \in Shard : FlushShard(p, s)
        BY <1>1
    <2> DEFINE m == Max({autoinc[s]} \cup {r.row : r \in ToSet(buf[s])})
    <2>2. m \in Nat /\ autoinc[s] < m /\ \A i \in DOMAIN buf[s] : buf[s][i].row <= m
        BY <2>1, FlushMax DEF FlushShard, TypeInv
    <2>3. /\ rows'[s] = rows[s] \cup ToSet(buf[s]) /\ autoinc'[s] = m /\ deleted' = deleted
          /\ \A t \in Shard \ {s} : rows'[t] = rows[t] /\ autoinc'[t] = autoinc[t]
        BY <2>1 DEF FlushShard, flushframe, TypeInv, DataOK
    <2> HIDE DEF m
    <2>4. \A r \in ToSet(buf[s]) : r.row \in Nat /\ autoinc[s] < r.row /\ \A q \in rows[s] : q.row < r.row
        BY BufType DEF Ordered, TypeInv, ToSet
    <2>5. \A r, q \in ToSet(buf[s]) : r.row = q.row => r = q
        <3>1. SUFFICES ASSUME NEW i \in DOMAIN buf[s], NEW j \in DOMAIN buf[s], buf[s][i].row = buf[s][j].row
                       PROVE  i = j
            BY DEF ToSet
        <3>2. i \in Nat /\ j \in Nat /\ ~(i < j) /\ ~(j < i)
            BY <3>1, BufType DEF Ordered, TypeInv
        <3>3. QED
            BY <3>2
    <2>6. UniqueRows'
        <3>1. \A r, q \in rows'[s] : r.row = q.row => r = q
            BY <2>3, <2>4, <2>5, BufType DEF UniqueRows, TypeInv
        <3>2. QED
            BY <2>3, <3>1 DEF UniqueRows
    <2>7. DeletedGone'
        <3>1. \A n \in Nat : <<s, n>> \in deleted => n <= autoinc'[s] /\ \A r \in rows'[s] : r.row # n
            BY <2>2, <2>3, <2>4, BufType DEF DeletedGone, TypeInv
        <3>2. QED
            BY <2>3, <3>1 DEF DeletedGone
    <2>8. QED
        BY <2>6, <2>7
<1>2. CASE ChangeRow
    <2> DEFINE s == change.shard
    <2>1. s \in Shard /\ change.row \in rows[s]
        BY <1>2, ChangeRowRows
    <2>2. \A r \in Replacement : r.row = change.row.row /\ r = Renamed(change.row, change.to)
        BY <1>2, ChangeRowRows
    <2>3. /\ rows'[s] = (rows[s] \ {change.row}) \cup Replacement
          /\ \A t \in Shard \ {s} : rows'[t] = rows[t]
          /\ autoinc' = autoinc
        BY <1>2, ChangeRowRows
    <2>4. \A n \in Nat : \A t \in Shard : <<t, n>> \in deleted' =>
              <<t, n>> \in deleted \/ (t = s /\ n = change.row.row /\ Replacement = {})
        BY <1>2, ChangeRowRows DEF Replacement
    <2> HIDE DEF s
    <2>5. \A r, q \in Replacement : r = q
        BY <2>2
    <2>6. UniqueRows'
        <3>1. \A r, q \in rows'[s] : r.row = q.row => r = q
            BY <2>1, <2>2, <2>3, <2>5 DEF UniqueRows
        <3>2. QED
            BY <2>3, <3>1 DEF UniqueRows
    <2>7. DeletedGone'
        <3>1. SUFFICES ASSUME NEW t \in Shard, NEW n \in Nat, <<t, n>> \in deleted'
                       PROVE  n <= autoinc[t] /\ \A r \in rows'[t] : r.row # n
            BY <2>3 DEF DeletedGone
        <3>2. CASE <<t, n>> \in deleted
            BY <3>2, <2>1, <2>2, <2>3 DEF DeletedGone
        <3>3. CASE t = s /\ n = change.row.row /\ Replacement = {}
            BY <3>3, <2>1, <2>3 DEF UniqueRows, Ordered
        <3>4. QED
            BY <2>4, <3>1, <3>2, <3>3
    <2>8. QED
        BY <2>6, <2>7
<1>3. CASE rows' = rows /\ autoinc' = autoinc /\ deleted' = deleted
    BY <1>3 DEF UniqueRows, DeletedGone
<1>4. QED
    BY <1>1, <1>2, <1>3, RowSteps DEF Add, UpdateBuffered, Close, Crash, Gone, disk, rowvars

(* Which steps reach a commit of shards, and the writer's commit.          *)
LEMMA PcSteps ==
    ASSUME TypeInv, Next
    PROVE  /\ \A p \in Proc : pc'[p] = "shards" => pc[p] = "shards" \/ FlushNames(p)
           /\ pc'["writer"] = "changerow" =>
                  ChangeNames \/ (pc["writer"] = "changerow" /\ change' = change)
<1> USE DEF TypeInv, ControlOK, Proc, Goto, scratch, control
<1>1. CASE \E p \in Proc : Flush(p)
    BY <1>1 DEF Flush, FlushNames, FlushShard, FlushCatalog, flushframe, After
<1>2. CASE Writer
    <2>1. CASE \E s \in Shard, n \in Name : Add(s, n)
        BY <2>1 DEF Add, MayStart
    <2>2. CASE \E s \in Shard : \E r \in rows[s], to \in Name \cup {None} : Change(s, r, to)
        BY <2>2 DEF Change, LockAndFlush
    <2>3. CASE ChangeNames \/ ChangeRow \/ MarkDirty \/ Unfinalize
        BY <2>3 DEF ChangeNames, ChangeRow, MarkDirty, Unfinalize
    <2>4. QED
        BY <1>2, <2>1, <2>2, <2>3 DEF Writer, UpdateBuffered
<1>3. CASE Finalizer
    BY <1>3 DEF Finalizer, Finalize, FinalizeLocked, ExclusiveKnown, Exclusive, ExclusiveRead, FinalizeWrite, LockAndFlush
<1>4. CASE Analyst
    BY <1>4 DEF Analyst, LoadEdges, EdgesLoaded, BuildEdges, EdgesBuilt, SaveEdges, EdgesSaved, AskAny, Ask, ReadTables,
                MemoCompute, MemoComputed, MemoStore, LockAndFlush
<1>5. CASE CloseBegin \/ Close \/ Crash \/ Open
    BY <1>5 DEF CloseBegin, Close, Crash, Gone, Open, LockAndFlush
<1>6. QED
    BY <1>1, <1>2, <1>3, <1>4, <1>5 DEF Next

(* Which steps touch a dictionary, and whether the store is open.          *)
LEMMA DictSteps ==
    ASSUME TypeInv, Next
    PROVE  \/ \E p \in Proc : FlushNames(p)
           \/ \E p \in Proc, s \in Shard : FlushShard(p, s)
           \/ \E s \in Shard, n \in Name : Add(s, n)
           \/ \E s \in Shard, n \in Name : \E i \in 1..use.batch : UpdateBuffered(s, i, n)
           \/ ChangeNames \/ ChangeRow \/ Close \/ Crash \/ Open
           \/ UNCHANGED <<rows, buf, names, cat.names, open>>
<1> USE DEF TypeInv, CatOK, disk, store, flushframe
<1>1. CASE \E p \in Proc : Flush(p)
    BY <1>1 DEF Flush, FlushCatalog
<1>2. CASE Writer
    BY <1>2 DEF Writer, Change, MarkDirty, Unfinalize, Bump, Unmark
<1>3. CASE Finalizer
    BY <1>3 DEF Finalizer, Finalize, FinalizeLocked, ExclusiveKnown, Exclusive, ExclusiveRead, FinalizeWrite
<1>4. CASE Analyst
    BY <1>4 DEF Analyst, LoadEdges, EdgesLoaded, BuildEdges, EdgesBuilt, SaveEdges, EdgesSaved, AskAny, Ask, ReadTables,
                MemoCompute, MemoComputed, MemoStore
<1>5. CASE CloseBegin \/ Close \/ Crash \/ Open
    BY <1>5 DEF CloseBegin
<1>6. QED
    BY <1>1, <1>2, <1>3, <1>4, <1>5 DEF Next

(* A longer dictionary resolves what a shorter one did.                    *)
LEMMA InLonger ==
    ASSUME NEW d, NEW e, NEW r, InDict(d, r), \A i \in DOMAIN d : i \in DOMAIN e /\ e[i] = d[i]
    PROVE  InDict(e, r)
BY DEF InDict

LEMMA DictStep ==
    ASSUME TypeInv, Ordered, DictOK, Next
    PROVE  DictOK'
<1> "writer" \in Proc
    BY DEF Proc
<1>a. /\ \A p \in Proc : pc'[p] = "shards" => pc[p] = "shards" \/ FlushNames(p)
      /\ pc'["writer"] = "changerow" => ChangeNames \/ (pc["writer"] = "changerow" /\ change' = change)
    BY PcSteps
<1>b. \A p \in Proc : lock = None => pc[p] # "shards" /\ pc[p] # "changerow"
    BY StoreAssumption DEF TypeInv, LockHeld, Locked
<1>1. CASE \E p \in Proc : FlushNames(p)
    <2>1. PICK p \in Proc : FlushNames(p)
        BY <1>1
    <2>2. /\ cat'.names = names /\ names' = names /\ rows' = rows /\ buf' = buf /\ open' = open /\ change' = change
        BY <2>1 DEF FlushNames, CommitNames, flushframe, store, scratch, TypeInv, CatOK
    <2>3. open
        BY <2>1 DEF FlushNames, TypeInv, ClosedIdle
    <2>4. \A s \in Shard : \A r \in rows[s] : InDict(names, r)
        BY <2>3, InLonger DEF DictOK
    <2>5. ~ChangeNames
        BY <2>1 DEF FlushNames, ChangeNames, TypeInv, LockHeld, Locked
    <2>6. QED
        BY <2>2, <2>3, <2>4, <2>5, <1>a DEF DictOK
<1>2. CASE \E p \in Proc, s \in Shard : FlushShard(p, s)
    <2>1. PICK p \in Proc, s \in Shard : FlushShard(p, s)
        BY <1>2
    <2>2. /\ cat' = cat /\ names' = names /\ open' = open /\ change' = change /\ pc' = pc
          /\ rows'[s] = rows[s] \cup ToSet(buf[s]) /\ buf'[s] = <<>>
          /\ \A t \in Shard \ {s} : rows'[t] = rows[t] /\ buf'[t] = buf[t]
        BY <2>1 DEF FlushShard, flushframe, control, scratch, TypeInv, DataOK
    <2>3. cat.names = names
        BY <2>1 DEF FlushShard, DictOK
    <2>4. \A t \in Shard : \A r \in rows'[t] : InDict(cat'.names, r)
        BY <2>2, <2>3 DEF DictOK, ToSet
    <2>5. QED
        BY <2>2, <2>4 DEF DictOK
<1>3. CASE \E s \in Shard, n \in Name : Add(s, n)
    <2>1. PICK s \in Shard, n \in Name : Add(s, n)
        BY <1>3
    <2> DEFINE new == Row(RowFor(s), next_seq, IdOf(n), n)
    <2>2. /\ cat' = cat /\ names' = WithName(n) /\ rows' = rows /\ open' = open /\ open /\ lock = None
          /\ buf' = [buf EXCEPT ![s] = Append(@, new)]
        BY <2>1 DEF Add, disk, MayStart
    <2>3. /\ WithName(n) \in Seq(Name)
          /\ IdOf(n) \in DOMAIN WithName(n) /\ WithName(n)[IdOf(n)] = n
          /\ \A i \in DOMAIN names : i \in DOMAIN WithName(n) /\ WithName(n)[i] = names[i]
        BY WithNameType DEF TypeInv, DataOK
    <2>4. InDict(WithName(n), new)
        BY <2>3 DEF InDict, Row
    <2>5. /\ \A i \in DOMAIN buf'[s] : (i \in DOMAIN buf[s] /\ buf'[s][i] = buf[s][i]) \/ buf'[s][i] = new
          /\ \A t \in Shard \ {s} : buf'[t] = buf[t]
        <3>1. buf'[s] = Append(buf[s], new) /\ \A t \in Shard \ {s} : buf'[t] = buf[t]
            BY <2>2 DEF TypeInv, DataOK
        <3>2. new \in RowRec
            BY RowForIs, WithNameType DEF Row, RowRec, TypeInv, DataOK
        <3>3. QED
            BY <3>1, <3>2, BufType DEF TypeInv
    <2> HIDE DEF new
    <2>6. \A t \in Shard : \A i \in DOMAIN buf'[t] : InDict(names', buf'[t][i])
        BY <2>2, <2>3, <2>4, <2>5, InLonger DEF DictOK
    <2>7. pc'["writer"] # "changerow" /\ \A p \in Proc : pc'[p] # "shards"
        BY <2>1, <2>2, <1>b, <1>a DEF Add, FlushNames, ChangeNames, Goto, TypeInv, LockHeld, Locked, MayStart, ControlOK, control
    <2>8. QED
        BY <2>2, <2>3, <2>6, <2>7 DEF DictOK
<1>4. CASE \E s \in Shard, n \in Name : \E i \in 1..use.batch : UpdateBuffered(s, i, n)
    <2>1. PICK s \in Shard, n \in Name, i \in 1..use.batch : UpdateBuffered(s, i, n)
        BY <1>4
    <2>2. /\ cat' = cat /\ names' = WithName(n) /\ rows' = rows /\ open' = open /\ open /\ lock = None /\ pc' = pc
        BY <2>1 DEF UpdateBuffered, disk, MayStart, control
    <2>3. /\ IdOf(n) \in DOMAIN WithName(n) /\ WithName(n)[IdOf(n)] = n
          /\ \A j \in DOMAIN names : j \in DOMAIN WithName(n) /\ WithName(n)[j] = names[j]
        BY WithNameType DEF TypeInv, DataOK
    <2>4. /\ \A t \in Shard : /\ t # s => buf'[t] = buf[t]
                              /\ DOMAIN buf'[t] = DOMAIN buf[t]
                              /\ \A j \in DOMAIN buf[t] : <<t, j>> # <<s, i>> => buf'[t][j] = buf[t][j]
          /\ i \in DOMAIN buf[s] /\ buf'[s][i] = Renamed(buf[s][i], n)
        BY <2>1, UpdateRows
    <2>5. InDict(WithName(n), buf'[s][i])
        BY <2>3, <2>4, RenamedIs, BufType DEF InDict, TypeInv
    <2>6. \A t \in Shard : \A j \in DOMAIN buf'[t] : InDict(names', buf'[t][j])
        <3>1. SUFFICES ASSUME NEW t \in Shard, NEW j \in DOMAIN buf'[t] PROVE InDict(WithName(n), buf'[t][j])
            BY <2>2
        <3>2. CASE t = s /\ j = i
            BY <3>2, <2>5
        <3>3. CASE ~(t = s /\ j = i)
            BY <3>3, <2>3, <2>4, InLonger DEF DictOK
        <3>4. QED
            BY <3>2, <3>3
    <2>7. pc'["writer"] # "changerow" /\ \A p \in Proc : pc'[p] # "shards"
        BY <2>2, <1>b
    <2>8. QED
        BY <2>2, <2>3, <2>6, <2>7 DEF DictOK

<1>5. CASE ChangeNames
    <2>1. /\ cat'.names = names' /\ rows' = rows /\ buf' = buf /\ open' = open /\ change' = change
          /\ names' = IF change.to = None THEN names ELSE WithName(change.to)
        BY <1>5 DEF ChangeNames, scratch, TypeInv, CatOK
    <2>2. open /\ change.to \in Name \cup {None}
        BY <1>5 DEF ChangeNames, TypeInv, ClosedIdle, ChangeOK, Changing
    <2>3. \A i \in DOMAIN names : i \in DOMAIN names' /\ names'[i] = names[i]
        <3>1. CASE change.to = None
            BY <3>1, <2>1
        <3>2. CASE change.to # None
            <4>1. change.to \in Name /\ names' = WithName(change.to)
                BY <3>2, <2>1, <2>2
            <4>2. QED
                BY <4>1, WithNameType DEF TypeInv, DataOK
        <3>3. QED
            BY <3>1, <3>2
    <2>4. change.to = None \/ change.to \in ToSet(names')
        <3>1. SUFFICES ASSUME change.to # None PROVE \E i \in DOMAIN names' : names'[i] = change.to
            BY DEF ToSet
        <3>2. names' = WithName(change.to) /\ change.to \in Name
            BY <2>1, <2>2, <3>1
        <3>3. QED
            BY <3>2, WithNameType DEF TypeInv, DataOK
    <2>5. \A s \in Shard : \A r \in rows[s] : InDict(names', r)
        BY <2>2, <2>3, InLonger DEF DictOK
    <2>6. \A s \in Shard : \A i \in DOMAIN buf[s] : InDict(names', buf[s][i])
        BY <2>3, InLonger DEF DictOK
    <2>7. QED
        BY <2>1, <2>2, <2>4, <2>5, <2>6 DEF DictOK
<1>6. CASE ChangeRow
    <2>1. /\ cat' = cat /\ names' = names /\ open' = open /\ buf' = buf
          /\ pc'["writer"] # "changerow"
        BY <1>6 DEF ChangeRow, store, Goto, TypeInv, ControlOK
    <2>2. cat.names = names /\ (change.to = None \/ change.to \in ToSet(names))
        BY <1>6 DEF ChangeRow, DictOK
    <2>3. \A r \in Replacement : InDict(names, r)
        <3>1. SUFFICES ASSUME NEW r \in Replacement PROVE InDict(names, r)
            OBVIOUS
        <3>2. change.to \in Name /\ change.row \in RowRec /\ r = Renamed(change.row, change.to) /\ change.to # None
            BY <1>6, ChangeRowRows DEF Replacement
        <3>3. r.name_id = IdOf(change.to) /\ r.name = change.to
            BY <3>2, RenamedIs DEF TypeInv
        <3>4. QED
            BY <2>2, <3>2, <3>3, WithNameType DEF InDict, TypeInv, DataOK
    <2>4. \A t \in Shard : \A r \in rows'[t] : (r \in rows[t]) \/ r \in Replacement
        BY <1>6, ChangeRowRows
    <2>5. \A t \in Shard : \A r \in rows'[t] : InDict(cat.names, r)
        BY <2>2, <2>3, <2>4 DEF DictOK
    <2>6. \A p \in Proc : pc'[p] # "shards"
        BY <1>6, <1>a DEF ChangeRow, FlushNames, TypeInv, LockHeld, Locked
    <2>7. QED
        BY <2>1, <2>5, <2>6 DEF DictOK
<1>7. CASE Close \/ Crash
    <2>1. Gone
        BY <1>7 DEF Close, Crash
    <2>2. /\ rows' = rows /\ cat' = cat /\ names' = names /\ ~open'
          /\ \A s \in Shard : buf'[s] = <<>>
          /\ \A p \in Proc : pc'[p] = "idle"
        BY <2>1 DEF Gone, disk
    <2>3. QED
        BY <2>2 DEF DictOK
<1>8. CASE Open
    <2>1. /\ rows' = rows /\ cat' = cat /\ buf' = buf /\ names' = cat.names /\ open' /\ ~open /\ pc' = pc
        BY <1>8 DEF Open, disk, control
    <2>2. \A p \in Proc : pc[p] = "idle"
        BY <2>1 DEF TypeInv, ClosedIdle
    <2>3. \A s \in Shard : buf[s] = <<>>
        BY <2>1 DEF DictOK
    <2>4. QED
        BY <2>1, <2>2, <2>3 DEF DictOK
<1>9. CASE UNCHANGED <<rows, buf, names, cat.names, open>>
    <2>1. CASE ChangeNames \/ \E p \in Proc : FlushNames(p)
        BY <2>1, <1>1, <1>5
    <2>2. CASE ~ChangeNames /\ \A p \in Proc : ~FlushNames(p)
        BY <2>2, <1>9, <1>a DEF DictOK
    <2>3. QED
        BY <2>1, <2>2
<1>10. QED
    BY <1>1, <1>2, <1>3, <1>4, <1>5, <1>6, <1>7, <1>8, <1>9, DictSteps

-----------------------------------------------------------------------------
(* Arrival numbers.                                                        *)

(* Rows at most a, and buffered rows above a and growing, do not meet.     *)
LEMMA RowsApart ==
    ASSUME NEW R \in SUBSET RowRec, NEW b \in Seq(RowRec), NEW a \in Nat,
           \A r \in R : r.row <= a, \A i \in DOMAIN b : a < b[i].row,
           \A i, j \in DOMAIN b : i < j => b[i].row < b[j].row,
           \A r, q \in R : r.row = q.row => r = q,
           NEW r \in R \cup ToSet(b), NEW q \in R \cup ToSet(b), r.row = q.row
    PROVE  r = q
<1>1. \A x \in RowRec : x.row \in Nat
    BY DEF RowRec
<1>2. DOMAIN b = 1..Len(b) /\ \A i \in DOMAIN b : b[i] \in RowRec
    OBVIOUS
<1>3. CASE r \in R /\ q \in R
    BY <1>3
<1>4. CASE r \in ToSet(b) /\ q \in ToSet(b)
    <2>1. PICK i \in DOMAIN b, j \in DOMAIN b : r = b[i] /\ q = b[j]
        BY <1>4 DEF ToSet
    <2>2. ~(i < j) /\ ~(j < i)
        BY <2>1, <1>1, <1>2
    <2>3. QED
        BY <2>1, <2>2, <1>2
<1>5. CASE r \in R /\ q \in ToSet(b)
    BY <1>5, <1>1, <1>2 DEF ToSet
<1>6. CASE r \in ToSet(b) /\ q \in R
    BY <1>6, <1>1, <1>2 DEF ToSet
<1>7. QED
    BY <1>3, <1>4, <1>5, <1>6

LEMMA HeldUnique ==
    ASSUME DataOK, Ordered, UniqueRows, NEW s \in Shard, NEW r \in Held(s), NEW q \in Held(s), r.row = q.row
    PROVE  r = q
<1>1. rows[s] \in SUBSET RowRec /\ buf[s] \in Seq(RowRec) /\ autoinc[s] \in Nat
    BY DEF DataOK
<1>2. QED
    BY <1>1, RowsApart DEF Ordered, UniqueRows, Held

(* Every event held after the step has the row and seq of one held before. *)
Carried == \A s \in Shard : \A r \in Held(s)' : \E o \in Held(s) : o.row = r.row /\ o.seq = r.seq

LEMMA CarriedSeqs ==
    ASSUME DataOK', Ordered', UniqueRows', Carried, SeqsBelow, SeqsUnique, SeqsGrow, next_seq' = next_seq
    PROVE  SeqsBelow' /\ SeqsUnique' /\ SeqsGrow'
<1>1. SeqsBelow'
    BY DEF Carried, SeqsBelow
<1>2. SeqsGrow'
    BY DEF Carried, SeqsGrow
<1>3. SeqsUnique'
    <2>1. SUFFICES ASSUME NEW s \in Shard, NEW t \in Shard, NEW r \in Held(s)', NEW q \in Held(t)', r.seq = q.seq
                   PROVE  s = t /\ r = q
        BY DEF SeqsUnique
    <2>2. PICK o \in Held(s) : o.row = r.row /\ o.seq = r.seq
        BY DEF Carried
    <2>3. PICK x \in Held(t) : x.row = q.row /\ x.seq = q.seq
        BY DEF Carried
    <2>4. s = t /\ r.row = q.row
        BY <2>1, <2>2, <2>3 DEF SeqsUnique
    <2>5. rows'[s] \in SUBSET RowRec /\ buf'[s] \in Seq(RowRec) /\ autoinc'[s] \in Nat
        BY DEF DataOK
    <2>6. r = q
        BY <2>4, <2>5, RowsApart DEF Ordered, UniqueRows, Held
    <2>7. QED
        BY <2>4, <2>6
<1>4. QED
    BY <1>1, <1>2, <1>3

(* All steps but an append and an opening carry the events over.           *)
LEMMA CarriedStep ==
    ASSUME TypeInv, Ordered, Next
    PROVE  \/ Carried
           \/ \E s \in Shard, n \in Name : Add(s, n)
<1>1. CASE \E p \in Proc, s \in Shard : FlushShard(p, s)
    <2>1. PICK p \in Proc, s \in Shard : FlushShard(p, s)
        BY <1>1
    <2>2. \A t \in Shard : Held(t)' = Held(t)
        BY <2>1 DEF FlushShard, Held, ToSet, TypeInv, DataOK
    <2>3. QED
        BY <2>2 DEF Carried
<1>2. CASE \E s \in Shard, n \in Name : \E i \in 1..use.batch : UpdateBuffered(s, i, n)
    <2>1. PICK s \in Shard, n \in Name, i \in 1..use.batch : UpdateBuffered(s, i, n)
        BY <1>2
    <2>2. /\ \A t \in Shard : /\ DOMAIN buf'[t] = DOMAIN buf[t]
                              /\ \A j \in DOMAIN buf[t] : <<t, j>> # <<s, i>> => buf'[t][j] = buf[t][j]
          /\ i \in DOMAIN buf[s] /\ buf'[s][i] = Renamed(buf[s][i], n) /\ buf[s][i] \in RowRec
        BY <2>1, UpdateRows, BufType DEF TypeInv
    <2>3. buf'[s][i].row = buf[s][i].row /\ buf'[s][i].seq = buf[s][i].seq
        BY <2>2, RenamedIs DEF TypeInv
    <2>4. \A t \in Shard : \A j \in DOMAIN buf'[t] : /\ j \in DOMAIN buf[t] /\ buf'[t][j].row = buf[t][j].row
                                                     /\ buf'[t][j].seq = buf[t][j].seq
        BY <2>2, <2>3
    <2>5. rows' = rows
        BY <2>1 DEF UpdateBuffered, disk
    <2>6. QED
        BY <2>4, <2>5 DEF Carried, Held, ToSet
<1>3. CASE ChangeRow
    <2>1. \A t \in Shard : \A r \in rows'[t] : \E o \in rows[t] : o.row = r.row /\ o.seq = r.seq
        BY <1>3, ChangeRowRows
    <2>2. buf' = buf
        BY <1>3, ChangeRowRows
    <2>3. QED
        BY <2>1, <2>2 DEF Carried, Held
<1>4. CASE Close \/ Crash
    <2>1. rows' = rows /\ \A s \in Shard : buf'[s] = <<>>
        BY <1>4 DEF Close, Crash, Gone, disk
    <2>2. QED
        BY <2>1 DEF Carried, Held, ToSet
<1>5. CASE UNCHANGED rowvars
    BY <1>5 DEF rowvars, Carried, Held
<1>6. QED
    BY <1>1, <1>2, <1>3, <1>4, <1>5, RowSteps

LEMMA AddSeqs ==
    ASSUME TypeInv, Ordered, UniqueRows, SeqsBelow, SeqsUnique, SeqsGrow,
           NEW s \in Shard, NEW n \in Name, Add(s, n)
    PROVE  SeqsBelow' /\ SeqsUnique' /\ SeqsGrow'
<1> DEFINE new == Row(NextRow(s), next_seq, IdOf(n), n)
<1>1. next_seq' = next_seq + 1 /\ next_seq \in Nat
    BY DEF Add, TypeInv, DataOK
<1>2. rows' = rows /\ buf' = [buf EXCEPT ![s] = Append(buf[s], new)]
    BY RowForIs DEF Add, disk, TypeInv
<1>3. new \in RowRec /\ new.row = NextRow(s) /\ new.seq = next_seq
    BY RowForIs, WithNameType DEF Row, RowRec, TypeInv, DataOK
<1> HIDE DEF new
<1>4. buf'[s] = Append(buf[s], new) /\ \A t \in Shard \ {s} : buf'[t] = buf[t]
    BY <1>2 DEF TypeInv, DataOK
<1>5. \A i \in DOMAIN buf'[s] : (i \in DOMAIN buf[s] /\ buf'[s][i] = buf[s][i]) \/ buf'[s][i] = new
    BY <1>3, <1>4, BufType DEF TypeInv
<1>6. /\ \A t \in Shard : \A r \in Held(t)' : r \in Held(t) \/ (t = s /\ r = new)
    BY <1>2, <1>4, <1>5 DEF Held, ToSet
<1>7. \A t \in Shard : \A r \in Held(t) : r.row \in Nat /\ r.seq \in Nat /\ r.seq < next_seq
    BY BufType DEF Held, ToSet, SeqsBelow, TypeInv
<1>8. \A r \in Held(s) : r.row < new.row
    BY <1>3, RowForIs, BufType DEF Held, ToSet, Ordered, TypeInv
<1>9. SeqsBelow'
    BY <1>1, <1>3, <1>6, <1>7 DEF SeqsBelow
<1>10. SeqsUnique'
    BY <1>1, <1>3, <1>6, <1>7 DEF SeqsUnique
<1>11. SeqsGrow'
    BY <1>1, <1>3, <1>6, <1>7, <1>8, RowForIs DEF SeqsGrow, TypeInv
<1>12. QED
    BY <1>9, <1>10, <1>11

(* The steps that change what is committed, or end a flush.                *)
LEMMA CommitSteps ==
    ASSUME TypeInv, Next
    PROVE  \/ \E p \in Proc, s \in Shard : FlushShard(p, s)
           \/ \E p \in Proc : FlushCatalog(p)
           \/ ChangeRow \/ Close \/ Crash
           \/ /\ rows' = rows /\ cat'.next_seq = cat.next_seq
              /\ \A p \in Proc : pc[p] = "shards" => pc'[p] = "shards"
<1> USE DEF TypeInv, CatOK, ControlOK, disk, flushframe, Goto, control, Proc
<1>1. CASE \E p \in Proc : Flush(p)
    BY <1>1 DEF Flush, FlushNames, CommitNames
<1>2. CASE Writer
    <2>1. CASE \E s \in Shard, n \in Name : Add(s, n)
        BY <2>1 DEF Add, MayStart
    <2>2. CASE \E s \in Shard : \E r \in rows[s], to \in Name \cup {None} : Change(s, r, to)
        BY <2>2 DEF Change, LockAndFlush, MayStart
    <2>3. CASE ChangeNames \/ MarkDirty \/ Unfinalize
        BY <2>3 DEF ChangeNames, MarkDirty, Unfinalize, Bump, Unmark
    <2>4. QED
        BY <1>2, <2>1, <2>2, <2>3 DEF Writer, UpdateBuffered
<1>3. CASE Finalizer
    BY <1>3 DEF Finalizer, Finalize, FinalizeLocked, ExclusiveKnown, Exclusive, ExclusiveRead, FinalizeWrite, LockAndFlush, MayStart
<1>4. CASE Analyst
    BY <1>4 DEF Analyst, LoadEdges, EdgesLoaded, BuildEdges, EdgesBuilt, SaveEdges, EdgesSaved, AskAny, Ask, ReadTables,
                MemoCompute, MemoComputed, MemoStore, LockAndFlush, MayStart
<1>5. CASE CloseBegin \/ Close \/ Crash \/ Open
    BY <1>5 DEF CloseBegin, Open, LockAndFlush
<1>6. QED
    BY <1>1, <1>2, <1>3, <1>4, <1>5 DEF Next

LEMMA CommittedStep ==
    ASSUME TypeInv, Ordered, SeqsBelow, SeqsCommitted, use.crashes = 0, Next
    PROVE  SeqsCommitted'
<1> "writer" \in Proc
    BY DEF Proc
<1>1. CASE \E p \in Proc, s \in Shard : FlushShard(p, s)
    BY <1>1 DEF FlushShard, control, SeqsCommitted
<1>2. CASE \E p \in Proc : FlushCatalog(p)
    <2>1. cat'.next_seq = next_seq /\ rows' = rows
        BY <1>2 DEF FlushCatalog, TypeInv, CatOK
    <2>2. QED
        BY <2>1 DEF SeqsBelow, SeqsCommitted, Held
<1>3. CASE ChangeRow
    <2>1. \A p \in Proc : pc[p] # "shards"
        BY <1>3 DEF ChangeRow, TypeInv, LockHeld, Locked
    <2>2. \A t \in Shard : \A r \in rows'[t] : \E o \in rows[t] : o.seq = r.seq
        BY <1>3, ChangeRowRows
    <2>3. cat' = cat
        BY <1>3 DEF ChangeRow
    <2>4. QED
        BY <2>1, <2>2, <2>3 DEF SeqsCommitted
<1>4. CASE Close
    <2>1. \A p \in Proc : pc[p] # "shards"
        BY <1>4 DEF Close, TypeInv, LockHeld, Locked
    <2>2. rows' = rows /\ cat' = cat
        BY <1>4 DEF Close, Gone, disk
    <2>3. QED
        BY <2>1, <2>2 DEF SeqsCommitted
<1>5. CASE Crash
    BY <1>5 DEF Crash, TypeInv, ControlOK
<1>6. CASE /\ rows' = rows /\ cat'.next_seq = cat.next_seq
           /\ \A p \in Proc : pc[p] = "shards" => pc'[p] = "shards"
    BY <1>6 DEF SeqsCommitted
<1>7. QED
    BY <1>1, <1>2, <1>3, <1>4, <1>5, <1>6, CommitSteps

(* Only an append and an opening move next_seq.                            *)
LEMMA NextSeqSteps ==
    ASSUME Next
    PROVE  (\E s \in Shard, n \in Name : Add(s, n)) \/ Open \/ next_seq' = next_seq
BY DEF Next, Flush, FlushNames, FlushShard, FlushCatalog, Writer, UpdateBuffered, Change, ChangeNames, ChangeRow,
       MarkDirty, Unfinalize, Finalizer, Finalize, FinalizeLocked, ExclusiveKnown, Exclusive, ExclusiveRead, FinalizeWrite,
       Analyst, LoadEdges, EdgesLoaded, BuildEdges, EdgesBuilt, SaveEdges, EdgesSaved, AskAny, Ask, ReadTables, MemoCompute,
       MemoComputed, MemoStore, CloseBegin, Close, Crash, Gone, store

LEMMA SeqsStep ==
    ASSUME TypeInv, Ordered, IdsInv, Next, DataOK', Ordered', UniqueRows'
    PROVE  SeqsOK'
<1>1. use' = use
    BY DEF Next
<1>2. SUFFICES ASSUME use.crashes = 0 PROVE SeqsBelow' /\ SeqsUnique' /\ SeqsGrow' /\ SeqsCommitted'
    BY <1>1 DEF SeqsOK
<1>3. SeqsBelow /\ SeqsUnique /\ SeqsGrow /\ SeqsCommitted
    BY <1>2 DEF IdsInv, SeqsOK
<1>4. SeqsCommitted'
    BY <1>2, <1>3, CommittedStep
<1>5. CASE \E s \in Shard, n \in Name : Add(s, n)
    BY <1>3, <1>4, <1>5, AddSeqs DEF IdsInv
<1>6. CASE Open
    <2>1. rows' = rows /\ buf' = buf /\ next_seq' = cat.next_seq /\ ~open
        BY <1>6 DEF Open, disk, FirstSeq
    <2>2. (\A p \in Proc : pc[p] = "idle") /\ \A s \in Shard : buf[s] = <<>>
        BY <2>1 DEF TypeInv, ClosedIdle, IdsInv, DictOK
    <2>3. \A s \in Shard : \A r \in rows[s] : r.seq < cat.next_seq
        BY <2>2, <1>3 DEF SeqsCommitted
    <2>4. \A s \in Shard : Held(s)' = Held(s) /\ Held(s) = rows[s]
        BY <2>1, <2>2 DEF Held, ToSet
    <2>5. SeqsBelow'
        BY <2>1, <2>3, <2>4 DEF SeqsBelow
    <2>6. QED
        BY <1>3, <1>4, <2>4, <2>5 DEF SeqsUnique, SeqsGrow
<1>7. CASE next_seq' = next_seq /\ ~\E s \in Shard, n \in Name : Add(s, n)
    BY <1>3, <1>4, <1>7, CarriedStep, CarriedSeqs
<1>8. QED
    BY <1>5, <1>6, <1>7, NextSeqSteps

LEMMA IdsStep ==
    ASSUME TypeInv, Ordered, IdsInv, Next, DataOK', Ordered'
    PROVE  IdsInv'
<1>1. UniqueRows' /\ DeletedGone'
    BY UniqueStep DEF IdsInv
<1>2. DictOK'
    BY DictStep DEF IdsInv
<1>3. SeqsOK'
    BY <1>1, SeqsStep
<1>4. QED
    BY <1>1, <1>2, <1>3 DEF IdsInv

(* The invariant says what IdsHold says of the events held.                *)
LEMMA IdsInvImplies ==
    ASSUME TypeInv, Ordered, IdsInv
    PROVE  IdsHold
<1>1. \A x \in Stored : x[1] \in Shard /\ x[2] \in Held(x[1]) /\ x = <<x[1], x[2]>>
    BY DEF Stored, Held
<1>2. \A x, y \in Stored : (x[1] = y[1] /\ x[2].row = y[2].row) => x = y
    <2>1. SUFFICES ASSUME NEW x \in Stored, NEW y \in Stored, x[1] = y[1], x[2].row = y[2].row PROVE x = y
        OBVIOUS
    <2>2. x[2] = y[2]
        BY <1>1, <2>1, HeldUnique DEF IdsInv, TypeInv
    <2>3. QED
        BY <1>1, <2>1, <2>2
<1>3. \A x \in Stored : <<x[1], x[2].row>> \notin deleted
    <2>1. SUFFICES ASSUME NEW s \in Shard, NEW r \in Held(s), <<s, r.row>> \in deleted PROVE FALSE
        BY <1>1
    <2>2. r.row \in Nat
        BY BufType DEF Held, ToSet, TypeInv
    <2>3. r.row <= autoinc[s] /\ \A q \in rows[s] : q.row # r.row
        BY <2>1, <2>2 DEF IdsInv, DeletedGone
    <2>4. \A i \in DOMAIN buf[s] : buf[s][i].row # r.row
        BY <2>2, <2>3, BufType DEF Ordered, TypeInv
    <2>5. QED
        BY <2>3, <2>4 DEF Held, ToSet
<1>4. \A s \in Shard : \A r \in rows[s] : r.name_id \in DOMAIN cat.names /\ cat.names[r.name_id] = r.name
    BY DEF IdsInv, DictOK, InDict
<1>5. use.crashes = 0 =>
          \A x, y \in Stored :
              /\ x[2].seq = y[2].seq => x = y
              /\ (x[1] = y[1] /\ x[2].row < y[2].row) => x[2].seq < y[2].seq
    <2>1. SUFFICES ASSUME use.crashes = 0, NEW x \in Stored, NEW y \in Stored
                   PROVE  /\ x[2].seq = y[2].seq => x = y
                          /\ (x[1] = y[1] /\ x[2].row < y[2].row) => x[2].seq < y[2].seq
        OBVIOUS
    <2>2. SeqsUnique /\ SeqsGrow
        BY <2>1 DEF IdsInv, SeqsOK
    <2>3. x[2].seq = y[2].seq => x[1] = y[1] /\ x[2] = y[2]
        BY <1>1, <2>2 DEF SeqsUnique
    <2>4. (x[1] = y[1] /\ x[2].row < y[2].row) => x[2].seq < y[2].seq
        BY <1>1, <2>2 DEF SeqsGrow
    <2>5. QED
        BY <1>1, <2>3, <2>4
<1>6. QED
    BY <1>2, <1>3, <1>4, <1>5 DEF IdsHold

StoreInv == TypeInv /\ Ordered /\ IdsInv

(* Event ids, names and arrival numbers hold for any number of shards,     *)
(* names and events, any batch size, any interleaving of the three threads *)
(* and a death of the process between any two commits.                     *)
THEOREM IdsAlwaysHold == Spec => []IdsHold
<1>1. Init => StoreInv
    BY TypeInit, OrderedInit, IdsInit DEF StoreInv
<1>2. StoreInv /\ [Next]_vars => StoreInv'
    <2>1. ASSUME StoreInv, Next PROVE StoreInv'
        BY <2>1, CatStep, DataStep, ControlStep, ChangeStep, IdsStep DEF StoreInv, TypeInv
    <2>2. ASSUME StoreInv, UNCHANGED vars PROVE StoreInv'
        <3> USE <2>2 DEF StoreInv, vars, disk, store, dict, control, scratch, bounds
        <3>1. TypeInv' /\ Ordered'
            BY DEF TypeInv, Ordered, CatOK, DataOK, ControlOK, LockHeld, ClosedIdle, ChangeOK, Changing
        <3>2. UniqueRows' /\ DeletedGone' /\ DictOK'
            BY DEF IdsInv, UniqueRows, DeletedGone, DictOK, InDict
        <3>3. SeqsOK'
            BY DEF IdsInv, SeqsOK, SeqsBelow, SeqsUnique, SeqsGrow, SeqsCommitted, Held, ToSet
        <3>4. QED
            BY <3>1, <3>2, <3>3 DEF IdsInv
    <2>3. QED
        BY <2>1, <2>2
<1>3. StoreInv => IdsHold
    BY IdsInvImplies DEF StoreInv
<1>4. QED
    BY <1>1, <1>2, <1>3, PTL DEF Spec

-----------------------------------------------------------------------------
(* Freshness of what a store hands out that one thread uses at a time.     *)

Sequential1 == ~use.concurrent /\ use.crashes = 0

Empty == \A s \in Shard : buf[s] = <<>>
Flushing == \E p \in Proc : pc[p] = "shards"

(* At most one thread is inside an operation.                              *)
Alone == \A p, q \in Proc : p # q => pc[p] = "idle" \/ pc[q] = "idle"

(* The object's flags are the catalog's.                                   *)
SameFlags == (finalized <=> cat.finalized) /\ version = cat.version

(* A thread that has flushed and reads finds nothing buffered.             *)
Reading(p) == \/ pc[p] \in {"fin", "excl", "exclread", "write", "memoread"}
              \/ pc[p] \in {"names", "shards"} /\ ret[p] = "exclread"
Drained == \A p \in Proc : Reading(p) => Empty

(* What a thread computed is what the shards hold; what the analyst found  *)
(* in the tables is at least what the last finalize wrote there.           *)
Finalizing == \/ pc["finalizer"] \in {"excl", "exclread", "write"}
              \/ pc["finalizer"] \in {"names", "shards"} /\ ret["finalizer"] = "exclread"
ComputedFrom ==
    /\ Finalizing => seen["finalizer"] = rows /\ late = {}
    /\ pc["finalizer"] = "write" => excl = rows
    /\ pc["analyst"] \in {"save", "savetx"} => seen["analyst"] = rows
    /\ pc["analyst"] = "memostore" => seen["analyst"] = IF Empty THEN rows ELSE Persisted(asked)
    /\ pc["analyst"] = "savetx" => mine["analyst"] = version

(* Tables, edges and memoized results are of the rows in the shards, while *)
(* no commit of new rows waits for the commit that invalidates them.       *)
TablesOK ==
    cat.finalized => \/ cat.tables = <<rows, rows>> \/ Flushing
                     \/ pc["writer"] \in {"dirty", "unfinalize"}
EdgesOK ==
    cat.edges # None => /\ cat.edges.tag \in Nat /\ cat.edges.tag <= version
                        /\ cat.edges.tag = version => \/ cat.edges.of = rows \/ Flushing
                                                      \/ pc["writer"] = "dirty"
CacheOK ==
    \A k \in Derived : cache[k] # None =>
        IF k \in late THEN cache[k] = Persisted(k) ELSE Empty /\ (pc["writer"] = "dirty" \/ cache[k] = rows)

FreshOK == Alone /\ SameFlags /\ Drained /\ ComputedFrom /\ TablesOK /\ EdgesOK /\ CacheOK
FreshInv == Sequential1 => FreshOK

LEMMA FreshInit == Init => FreshInv
<1> SUFFICES ASSUME Init PROVE FreshOK
    BY DEF FreshInv
<1>1. Alone /\ Drained /\ ComputedFrom /\ CacheOK
    BY DEF Init, Alone, Drained, Reading, ComputedFrom, Finalizing, CacheOK, EmptyCache, Proc
<1>2. ~finalized /\ ~cat.finalized /\ version = cat.version /\ cat.edges = None
    BY DEF Init, NewStore
<1>3. SameFlags /\ TablesOK /\ EdgesOK
    BY <1>2 DEF SameFlags, TablesOK, EdgesOK
<1>4. QED
    BY <1>1, <1>3 DEF FreshOK

(* The threads a step is not of are idle before and after it.              *)
Moves(p) ==
    \/ Flush(p)
    \/ p = "writer" /\ (Writer \/ CloseBegin \/ Close)
    \/ p = "finalizer" /\ Finalizer
    \/ p = "analyst" /\ Analyst

LEMMA OthersIdle ==
    ASSUME TypeInv, ~use.concurrent, Alone, NEW p \in Proc, Moves(p)
    PROVE  \A q \in Proc \ {p} : pc[q] = "idle" /\ pc'[q] = "idle"
<1> USE DEF TypeInv, ControlOK, Alone, Proc, Goto, control
<1>1. CASE Flush(p)
    BY <1>1 DEF Flush, FlushNames, FlushShard, FlushCatalog
<1>2. CASE p = "writer" /\ Writer
    BY <1>2 DEF Writer, Add, UpdateBuffered, Change, ChangeNames, ChangeRow, MarkDirty, Unfinalize, MayStart,
                LockAndFlush
<1>3. CASE p = "writer" /\ (CloseBegin \/ Close)
    BY <1>3 DEF CloseBegin, Close, Gone, LockAndFlush
<1>4. CASE p = "finalizer" /\ Finalizer
    BY <1>4 DEF Finalizer, Finalize, FinalizeLocked, ExclusiveKnown, Exclusive, ExclusiveRead, FinalizeWrite, MayStart, LockAndFlush
<1>5. CASE p = "analyst" /\ Analyst
    BY <1>5 DEF Analyst, LoadEdges, EdgesLoaded, BuildEdges, EdgesBuilt, SaveEdges, EdgesSaved, AskAny, Ask, ReadTables,
                MemoCompute, MemoComputed, MemoStore, MayStart, LockAndFlush
<1>6. QED
    BY <1>1, <1>2, <1>3, <1>4, <1>5 DEF Moves

LEMMA MovesOf ==
    ASSUME TypeInv, use.crashes = 0, Next
    PROVE  Open \/ \E p \in Proc : Moves(p)
<1>1. ~Crash
    BY DEF Crash, TypeInv, ControlOK
<1>2. QED
    BY <1>1 DEF Next, Moves, Proc

LEMMA AloneStep ==
    ASSUME TypeInv, ~use.concurrent, use.crashes = 0, Alone, Next
    PROVE  Alone'
<1>1. CASE Open
    BY <1>1 DEF Open, control, Alone
<1>2. CASE \E p \in Proc : Moves(p)
    BY <1>2, OthersIdle DEF Alone
<1>3. QED
    BY <1>1, <1>2, MovesOf

(* The flags change in the object and in the catalog together.             *)
LEMMA FlagsStep ==
    ASSUME TypeInv, SameFlags, Next
    PROVE  SameFlags'
<1> USE DEF TypeInv, CatOK, DataOK, SameFlags, disk, store, flushframe
<1>1. CASE \E p \in Proc : Flush(p)
    <2>1. PICK p \in Proc : Flush(p)
        BY <1>1
    <2>2. CASE FlushCatalog(p)
        <3>1. /\ cat'.finalized = IF finalized THEN FALSE ELSE cat.finalized
              /\ cat'.version = version + 1
            BY <2>2 DEF FlushCatalog
        <3>2. version' = version + 1 /\ finalized' = FALSE
            BY <2>2 DEF FlushCatalog
        <3>3. QED
            BY <3>1, <3>2
    <2>3. QED
        BY <2>1, <2>2 DEF Flush, FlushNames, FlushShard, CommitNames
<1>2. CASE Writer
    <2>1. CASE MarkDirty
        BY <2>1 DEF MarkDirty, Bump
    <2>2. CASE Unfinalize
        BY <2>2 DEF Unfinalize, Unmark
    <2>3. QED
        BY <1>2, <2>1, <2>2 DEF Writer, Add, UpdateBuffered, Change, ChangeNames, ChangeRow
<1>3. CASE Finalizer
    <2>1. CASE FinalizeWrite
        BY <2>1 DEF FinalizeWrite
    <2>2. QED
        BY <1>3, <2>1 DEF Finalizer, Finalize, FinalizeLocked, ExclusiveKnown, Exclusive, ExclusiveRead
<1>4. CASE Analyst
    BY <1>4 DEF Analyst, LoadEdges, EdgesLoaded, BuildEdges, EdgesBuilt, SaveEdges, EdgesSaved, AskAny, Ask, ReadTables,
                MemoCompute, MemoComputed, MemoStore
<1>5. CASE CloseBegin \/ Close \/ Crash \/ Open
    BY <1>5 DEF CloseBegin, Close, Crash, Gone, Open
<1>6. QED
    BY <1>1, <1>2, <1>3, <1>4, <1>5 DEF Next

(* What a lock taken by thread p means for the threads that read.          *)
LEMMA LockDrained ==
    ASSUME TypeInv, NEW p \in Proc, NEW l \in After \ {"idle"}, LockAndFlush(p, l)
    PROVE  \/ pc'[p] = l /\ Empty
           \/ pc'[p] = "names" /\ ret'[p] = l
BY DEF LockAndFlush, MustFlush, Goto, Empty, TypeInv, ControlOK

FreshRest == Drained /\ ComputedFrom /\ TablesOK /\ EdgesOK /\ CacheOK

LEMMA FlushFresh ==
    ASSUME TypeInv, ~use.concurrent, FreshOK, NEW p \in Proc, Flush(p)
    PROVE  FreshRest'
<1>1. \A q \in Proc \ {p} : pc[q] = "idle" /\ pc'[q] = "idle"
    BY OthersIdle DEF Moves, FreshOK
<1>2. ret' = ret /\ cache' = cache /\ late' = late /\ asked' = asked /\ seen' = seen /\ excl' = excl /\ mine' = mine
    BY DEF Flush, FlushNames, FlushShard, FlushCatalog, flushframe, dict, scratch, control
<1>3. "writer" \in Proc /\ "finalizer" \in Proc /\ "analyst" \in Proc
    BY DEF Proc
<1>4. CASE FlushNames(p)
    <2>1. /\ pc[p] = "names" /\ pc'[p] = "shards" /\ rows' = rows /\ buf' = buf /\ version' = version
        BY <1>4 DEF FlushNames, Goto, store, TypeInv, ControlOK
    <2>2. cat'.finalized = cat.finalized /\ cat'.tables = cat.tables /\ cat'.edges = cat.edges
        BY <1>4 DEF FlushNames, CommitNames, TypeInv, CatOK
    <2>3. Flushing'
        BY <2>1 DEF Flushing
    <2>4. \A q \in Proc : Reading(q)' => Reading(q)
        BY <1>1, <1>2, <2>1 DEF Reading
    <2>5. Drained'
        BY <2>1, <2>4 DEF FreshOK, Drained, Empty
    <2>6. ComputedFrom'
        BY <1>1, <1>2, <1>3, <2>1 DEF FreshOK, ComputedFrom, Finalizing
    <2>7. CacheOK'
        BY <1>1, <1>2, <1>3, <2>1, <2>2 DEF FreshOK, CacheOK, Empty, Persisted
    <2>8. TablesOK' /\ EdgesOK'
        BY <2>1, <2>2, <2>3 DEF FreshOK, TablesOK, EdgesOK
    <2>9. QED
        BY <2>5, <2>6, <2>7, <2>8 DEF FreshRest
<1>5. CASE \E s \in Shard : FlushShard(p, s)
    <2>1. /\ pc' = pc /\ pc[p] = "shards" /\ version' = version /\ cat' = cat /\ ~Empty
        BY <1>5 DEF FlushShard, control, Empty
    <2>2. \A q \in Proc : ~Reading(q)
        BY <2>1 DEF FreshOK, Drained
    <2>3. \A q \in Proc : ~Reading(q)'
        BY <1>2, <2>1, <2>2 DEF Reading
    <2>4. Drained' /\ ComputedFrom'
        BY <1>1, <1>3, <2>1, <2>3 DEF Drained, ComputedFrom, Finalizing, Reading
    <2>5. CacheOK'
        BY <1>2, <2>1 DEF FreshOK, CacheOK, Persisted
    <2>6. TablesOK' /\ EdgesOK'
        BY <2>1 DEF FreshOK, TablesOK, EdgesOK, Flushing
    <2>7. QED
        BY <2>4, <2>5, <2>6 DEF FreshRest
<1>6. CASE FlushCatalog(p)
    <2>1. /\ pc[p] = "shards" /\ pc'[p] = ret[p] /\ rows' = rows /\ buf' = buf /\ Empty /\ Empty'
          /\ version' = version + 1 /\ version \in Nat
        BY <1>6 DEF FlushCatalog, Goto, Empty, TypeInv, ControlOK, DataOK
    <2>2. ~cat'.finalized
        <3>1. cat'.finalized = IF finalized THEN FALSE ELSE cat.finalized
            BY <1>6 DEF FlushCatalog, TypeInv, CatOK
        <3>2. QED
            BY <3>1 DEF FreshOK, SameFlags
    <2>3. cat'.edges = cat.edges /\ cat'.tables = cat.tables
        BY <1>6 DEF FlushCatalog, TypeInv, CatOK
    <2>4. Drained'
        BY <2>1 DEF Drained
    <2>5. ret[p] \in After
        BY DEF TypeInv, ControlOK
    <2>6. ComputedFrom'
        <3>1. Finalizing' => Finalizing
            BY <1>1, <1>2, <1>3, <2>1, <2>5 DEF Finalizing, After
        <3>2. pc'["finalizer"] # "write" /\ pc'["analyst"] \notin {"save", "savetx", "memostore"}
            BY <1>1, <1>3, <2>1, <2>5 DEF After
        <3>3. Finalizing' => seen'["finalizer"] = rows'
            BY <1>2, <2>1, <3>1 DEF FreshOK, ComputedFrom
        <3>5. Finalizing' => late' = {}
            BY <1>2, <3>1 DEF FreshOK, ComputedFrom
        <3>4. QED
            BY <3>2, <3>3, <3>5 DEF ComputedFrom
    <2>7. TablesOK' /\ EdgesOK'
        BY <2>1, <2>2, <2>3 DEF FreshOK, TablesOK, EdgesOK
    <2>8. CacheOK'
        BY <1>1, <1>2, <1>3, <2>1, <2>3 DEF FreshOK, CacheOK, Persisted
    <2>9. QED
        BY <2>4, <2>6, <2>7, <2>8 DEF FreshRest
<1>7. QED
    BY <1>4, <1>5, <1>6 DEF Flush

LEMMA WriterFresh ==
    ASSUME TypeInv, Ordered, ~use.concurrent, FreshOK, Writer
    PROVE  FreshRest'
<1>1. "writer" \in Proc /\ "finalizer" \in Proc /\ "analyst" \in Proc
    BY DEF Proc
<1>2. \A q \in Proc \ {"writer"} : pc[q] = "idle" /\ pc'[q] = "idle"
    BY <1>1, OthersIdle DEF Moves, FreshOK
<1>3. /\ pc["writer"] \notin {"names", "shards"}
      /\ \/ pc'["writer"] \in {"idle", "change", "changerow", "dirty", "unfinalize"}
         \/ pc'["writer"] = "names" /\ ret'["writer"] \in {"idle", "change"}
    <2> USE DEF TypeInv, ControlOK, Goto, MayStart
    <2>1. CASE \E s \in Shard, n \in Name : Add(s, n)
        BY <1>1, <2>1 DEF Add, control
    <2>2. CASE \E s \in Shard, n \in Name : \E i \in 1..use.batch : UpdateBuffered(s, i, n)
        BY <1>1, <2>2 DEF UpdateBuffered, control
    <2>3. CASE \E s \in Shard : \E r \in rows[s], to \in Name \cup {None} : Change(s, r, to)
        BY <1>1, <2>3 DEF Change, LockAndFlush
    <2>4. CASE ChangeNames \/ ChangeRow \/ MarkDirty \/ Unfinalize
        BY <1>1, <2>4 DEF ChangeNames, ChangeRow, MarkDirty, Unfinalize
    <2>5. QED
        BY <2>1, <2>2, <2>3, <2>4 DEF Writer
<1>4. ~Flushing
    BY <1>2, <1>3 DEF Flushing
<1>5. \A q \in Proc : ~Reading(q)'
    BY <1>2, <1>3 DEF Reading
<1>6. Drained' /\ ComputedFrom'
    BY <1>1, <1>2, <1>5 DEF Drained, ComputedFrom, Finalizing
<1>7. CASE (\E s \in Shard, n \in Name : Add(s, n) \/ \E i \in 1..use.batch : UpdateBuffered(s, i, n))
    <2>1. /\ rows' = rows /\ cat' = cat /\ version' = version /\ cache' = EmptyCache /\ pc["writer"] = "idle"
        BY <1>7 DEF Add, UpdateBuffered, disk, ClearIfAny, Clear, dict, MayStart
    <2>2. TablesOK' /\ EdgesOK' /\ CacheOK'
        BY <1>4, <2>1 DEF FreshOK, TablesOK, EdgesOK, CacheOK, EmptyCache
    <2>3. QED
        BY <1>6, <2>2 DEF FreshRest
<1>8. CASE ChangeNames \/ \E s \in Shard : \E r \in rows[s], to \in Name \cup {None} : Change(s, r, to)
    <2>1. /\ rows' = rows /\ version' = version /\ cache' = cache /\ late' = late
          /\ pc["writer"] \in {"idle", "change"} /\ buf' = buf
        BY <1>8 DEF Change, ChangeNames, disk, store, dict, MayStart
    <2>2. cat'.finalized = cat.finalized /\ cat'.tables = cat.tables /\ cat'.edges = cat.edges
        BY <1>8 DEF Change, ChangeNames, disk, TypeInv, CatOK
    <2>3. TablesOK' /\ EdgesOK' /\ CacheOK'
        BY <1>4, <2>1, <2>2 DEF FreshOK, TablesOK, EdgesOK, CacheOK, Empty, Persisted
    <2>4. QED
        BY <1>6, <2>3 DEF FreshRest
<1>9. CASE ChangeRow
    <2>1. pc'["writer"] = "dirty" /\ cat' = cat /\ version' = version /\ cache' = cache /\ late' = late /\ buf' = buf
        BY <1>1, <1>9 DEF ChangeRow, Goto, store, dict, TypeInv, ControlOK
    <2>2. TablesOK' /\ EdgesOK' /\ CacheOK'
        BY <2>1 DEF FreshOK, TablesOK, EdgesOK, CacheOK, Empty, Persisted
    <2>3. QED
        BY <1>6, <2>2 DEF FreshRest
<1>10. CASE MarkDirty
    <2>1. /\ cache' = EmptyCache /\ version' = version + 1 /\ version \in Nat
          /\ rows' = rows /\ (finalized => pc'["writer"] = "unfinalize")
        BY <1>1, <1>10 DEF MarkDirty, Clear, Bump, Goto, TypeInv, ControlOK, DataOK
    <2>2. cat'.finalized = cat.finalized /\ cat'.edges = cat.edges
        BY <1>10 DEF MarkDirty, Bump, TypeInv, CatOK
    <2>3. TablesOK'
        BY <2>1, <2>2 DEF FreshOK, SameFlags, TablesOK
    <2>4. EdgesOK'
        BY <2>1, <2>2 DEF FreshOK, EdgesOK
    <2>5. CacheOK'
        BY <2>1 DEF CacheOK, EmptyCache
    <2>6. QED
        BY <1>6, <2>3, <2>4, <2>5 DEF FreshRest
<1>11. CASE Unfinalize
    <2>1. /\ cache' = cache /\ late' = late /\ version' = version /\ rows' = rows /\ buf' = buf
          /\ pc["writer"] = "unfinalize"
        BY <1>11 DEF Unfinalize, dict
    <2>2. ~cat'.finalized /\ cat'.edges = cat.edges /\ cat'.tables = cat.tables
        BY <1>11 DEF Unfinalize, Unmark, TypeInv, CatOK
    <2>3. TablesOK' /\ EdgesOK' /\ CacheOK'
        BY <1>4, <2>1, <2>2 DEF FreshOK, TablesOK, EdgesOK, CacheOK, Empty, Persisted
    <2>4. QED
        BY <1>6, <2>3 DEF FreshRest
<1>12. QED
    BY <1>7, <1>8, <1>9, <1>10, <1>11 DEF Writer

LEMMA FinalizerFresh ==
    ASSUME TypeInv, ~use.concurrent, FreshOK, Finalizer
    PROVE  FreshRest'
<1>1. "writer" \in Proc /\ "finalizer" \in Proc /\ "analyst" \in Proc /\ "fin" \in After \ {"idle"}
      /\ "exclread" \in After \ {"idle"}
    BY DEF Proc, After
<1>2. \A q \in Proc \ {"finalizer"} : pc[q] = "idle" /\ pc'[q] = "idle"
    BY <1>1, OthersIdle DEF Moves, FreshOK
<1>3. rows' = rows /\ buf' = buf /\ version' = version /\ pc["finalizer"] # "shards"
    BY DEF Finalizer, Finalize, FinalizeLocked, ExclusiveKnown, Exclusive, ExclusiveRead, FinalizeWrite, MayStart, disk, store
<1>4. ~Flushing /\ pc["writer"] = "idle" /\ pc["analyst"] = "idle"
      /\ pc'["writer"] = "idle" /\ pc'["analyst"] = "idle"
    BY <1>1, <1>2, <1>3 DEF Flushing
<1>5. CASE Finalize
    <2>1. cat' = cat /\ cache' = cache /\ late' = late /\ seen' = seen
        BY <1>5 DEF Finalize, disk, dict, scratch
    <2>2. pc'["finalizer"] \in {"fin", "names"} /\ (pc'["finalizer"] = "names" => ret'["finalizer"] = "fin")
          /\ (pc'["finalizer"] = "fin" => Empty)
        BY <1>1, <1>5, LockDrained DEF Finalize
    <2>3. Drained'
        BY <1>2, <1>3, <2>2 DEF Drained, Reading, Empty
    <2>4. ComputedFrom'
        BY <1>4, <2>2 DEF ComputedFrom, Finalizing
    <2>5. TablesOK' /\ EdgesOK' /\ CacheOK'
        BY <1>3, <1>4, <2>1 DEF FreshOK, TablesOK, EdgesOK, CacheOK, Empty, Persisted
    <2>6. QED
        BY <2>3, <2>4, <2>5 DEF FreshRest
<1>6. CASE FinalizeLocked
    <2>1. Empty
        BY <1>1, <1>6 DEF FinalizeLocked, FreshOK, Drained, Reading
    <2>2. CASE finalized
        <3>1. pc'["finalizer"] = "idle" /\ cat' = cat /\ cache' = cache /\ late' = late
            BY <1>1, <1>6, <2>2 DEF FinalizeLocked, Goto, dict, TypeInv, ControlOK
        <3>2. Drained' /\ ComputedFrom'
            BY <1>2, <1>4, <3>1 DEF Drained, Reading, ComputedFrom, Finalizing
        <3>3. TablesOK' /\ EdgesOK' /\ CacheOK'
            BY <1>3, <1>4, <3>1 DEF FreshOK, TablesOK, EdgesOK, CacheOK, Empty, Persisted
        <3>4. QED
            BY <3>2, <3>3 DEF FreshRest
    <2>3. CASE ~finalized
        <3>1. /\ pc'["finalizer"] = "excl" /\ seen'["finalizer"] = rows
              /\ cache' = [EmptyCache EXCEPT !["extents"] = rows] /\ late' = {}
            BY <1>1, <1>6, <2>3 DEF FinalizeLocked, Goto, TypeInv, ControlOK
        <3>2. cat' = [cat EXCEPT !.tables = None]
            BY <1>6, <2>3 DEF FinalizeLocked
        <3>3. ~cat'.finalized /\ cat'.edges = cat.edges
            BY <2>3, <3>2 DEF FreshOK, SameFlags, TypeInv, CatOK
        <3>4. Drained'
            BY <1>3, <2>1 DEF Drained, Empty
        <3>5. ComputedFrom'
            BY <1>3, <1>4, <3>1 DEF ComputedFrom
        <3>6. CacheOK'
            BY <1>3, <2>1, <3>1 DEF CacheOK, Empty, EmptyCache, Derived
        <3>7. TablesOK' /\ EdgesOK'
            BY <1>3, <1>4, <3>3 DEF FreshOK, TablesOK, EdgesOK
        <3>8. QED
            BY <3>4, <3>5, <3>6, <3>7 DEF FreshRest
    <2>4. QED
        BY <2>2, <2>3
<1>7. CASE ExclusiveKnown \/ Exclusive
    <2>1. cat' = cat /\ cache' = cache /\ late' = late /\ seen' = seen /\ pc["finalizer"] = "excl"
        BY <1>7 DEF ExclusiveKnown, Exclusive, disk, dict
    <2>2. Empty /\ seen["finalizer"] = rows /\ late = {}
        BY <1>1, <2>1 DEF FreshOK, Drained, Reading, ComputedFrom, Finalizing
    <2>3. \/ pc'["finalizer"] \in {"exclread", "names"}
          \/ pc'["finalizer"] = "write" /\ excl' = rows
        <3>1. CASE ExclusiveKnown
            <4>1. cache["excl"] # None /\ excl' = cache["excl"] /\ pc'["finalizer"] = "write"
                BY <1>1, <3>1 DEF ExclusiveKnown, Goto, TypeInv, ControlOK
            <4>2. cache["excl"] = rows
                BY <1>4, <2>2, <4>1 DEF FreshOK, CacheOK, Derived
            <4> QED
                BY <4>1, <4>2
        <3>2. CASE Exclusive
            BY <1>1, <3>2, LockDrained DEF Exclusive
        <3> QED
            BY <1>7, <3>1, <3>2
    <2>4. Drained'
        BY <1>3, <2>2 DEF Drained, Empty
    <2>5. ComputedFrom'
        BY <1>3, <1>4, <2>1, <2>2, <2>3 DEF ComputedFrom
    <2>6. TablesOK' /\ EdgesOK' /\ CacheOK'
        BY <1>3, <1>4, <2>1 DEF FreshOK, TablesOK, EdgesOK, CacheOK, Empty, Persisted
    <2>7. QED
        BY <2>4, <2>5, <2>6 DEF FreshRest
<1>8. CASE ExclusiveRead
    <2>1. /\ cat' = cat /\ seen' = seen /\ pc["finalizer"] = "exclread" /\ excl' = rows /\ pc'["finalizer"] = "write"
          /\ cache' = cache \/ cache' = [cache EXCEPT !["excl"] = rows]
        BY <1>1, <1>8 DEF ExclusiveRead, Memoize, disk, Goto, TypeInv, ControlOK
    <2>2. Empty /\ seen["finalizer"] = rows /\ late = {}
        BY <1>1, <2>1 DEF FreshOK, Drained, Reading, ComputedFrom, Finalizing
    <2>9. late' = {}
        BY <1>8, <2>2 DEF ExclusiveRead, Memoize, Empty
    <2>3. Drained'
        BY <1>3, <2>2 DEF Drained, Empty
    <2>4. ComputedFrom'
        BY <1>3, <1>4, <2>1, <2>2, <2>9 DEF ComputedFrom
    <2>5. \A k \in Derived : cache[k] \in {None, rows}
        BY <1>4, <2>2 DEF FreshOK, CacheOK
    <2>6. CacheOK'
        BY <1>3, <2>1, <2>2, <2>5, <2>9 DEF CacheOK, Empty, TypeInv, DataOK
    <2>7. TablesOK' /\ EdgesOK'
        BY <1>3, <1>4, <2>1 DEF FreshOK, TablesOK, EdgesOK
    <2>8. QED
        BY <2>3, <2>4, <2>6, <2>7 DEF FreshRest
<1>9. CASE FinalizeWrite
    <2>1. /\ cat' = [cat EXCEPT !.tables = <<seen["finalizer"], excl>>, !.finalized = TRUE]
          /\ pc["finalizer"] = "write" /\ pc'["finalizer"] = "idle"
          /\ cache' = [cache EXCEPT !["excl"] = excl] /\ late' = late \ {"excl"}
        BY <1>1, <1>9 DEF FinalizeWrite, Goto, TypeInv, ControlOK
    <2>2. Empty /\ seen["finalizer"] = rows /\ excl = rows /\ late = {}
        BY <1>1, <2>1 DEF FreshOK, Drained, Reading, ComputedFrom, Finalizing
    <2>3. cat'.tables = <<rows, rows>> /\ cat'.edges = cat.edges
        BY <2>1, <2>2 DEF TypeInv, CatOK
    <2>4. Drained'
        BY <1>3, <2>2 DEF Drained, Empty
    <2>5. ComputedFrom'
        BY <1>4, <2>1 DEF ComputedFrom, Finalizing
    <2>6. \A k \in Derived : cache[k] \in {None, rows}
        BY <1>4, <2>2 DEF FreshOK, CacheOK
    <2>7. CacheOK'
        BY <1>3, <2>1, <2>2, <2>6 DEF CacheOK, Empty, TypeInv, DataOK
    <2>8. TablesOK' /\ EdgesOK'
        BY <1>3, <1>4, <2>3 DEF FreshOK, TablesOK, EdgesOK
    <2>9. QED
        BY <2>4, <2>5, <2>7, <2>8 DEF FreshRest
<1>10. QED
    BY <1>5, <1>6, <1>7, <1>8, <1>9 DEF Finalizer

LEMMA AnalystFresh ==
    ASSUME TypeInv, ~use.concurrent, FreshOK, Analyst
    PROVE  FreshRest'
<1>1. /\ "writer" \in Proc /\ "finalizer" \in Proc /\ "analyst" \in Proc
      /\ {"load", "buildread", "memoread"} \subseteq After \ {"idle"}
    BY DEF Proc, After
<1>2. \A q \in Proc \ {"analyst"} : pc[q] = "idle" /\ pc'[q] = "idle"
    BY <1>1, OthersIdle DEF Moves, FreshOK
<1>3. /\ rows' = rows /\ buf' = buf /\ version' = version
      /\ cat'.tables = cat.tables /\ cat'.finalized = cat.finalized
    BY DEF Analyst, LoadEdges, EdgesLoaded, BuildEdges, EdgesBuilt, SaveEdges, EdgesSaved, AskAny, Ask, ReadTables, MemoCompute,
           MemoComputed, MemoStore, disk, store, TypeInv, CatOK
<1>4. pc["analyst"] # "shards"
    BY DEF Analyst, LoadEdges, EdgesLoaded, BuildEdges, EdgesBuilt, SaveEdges, EdgesSaved, AskAny, Ask, ReadTables, MemoCompute,
           MemoComputed, MemoStore, MayStart
<1>5. ~Flushing /\ pc["writer"] = "idle" /\ pc["finalizer"] = "idle"
      /\ pc'["writer"] = "idle" /\ pc'["finalizer"] = "idle"
    BY <1>1, <1>2, <1>4 DEF Flushing
<1>6. TablesOK'
    BY <1>3, <1>5 DEF FreshOK, TablesOK
<1>7. CASE LoadEdges \/ BuildEdges \/ MemoCompute
    <2>1. cat' = cat /\ cache' = cache /\ late' = late
        BY <1>7 DEF LoadEdges, BuildEdges, MemoCompute, disk, dict
    <2>2. \/ pc'["analyst"] \in {"load", "buildread", "memoread"} /\ Empty
          \/ pc'["analyst"] = "names" /\ ret'["analyst"] \in {"load", "buildread", "memoread"}
        BY <1>1, <1>7, LockDrained DEF LoadEdges, BuildEdges, MemoCompute
    <2>3. Drained'
        BY <1>2, <1>3, <2>2 DEF Drained, Reading, Empty
    <2>4. ComputedFrom'
        BY <1>5, <2>2 DEF ComputedFrom, Finalizing
    <2>5. EdgesOK' /\ CacheOK'
        BY <1>3, <1>5, <2>1 DEF FreshOK, EdgesOK, CacheOK, Empty, Persisted
    <2>6. QED
        BY <1>6, <2>3, <2>4, <2>5 DEF FreshRest
<1>8. CASE EdgesLoaded \/ EdgesBuilt \/ SaveEdges \/ AskAny
    <2>1. cat' = cat /\ cache' = cache /\ late' = late
        BY <1>8 DEF EdgesLoaded, EdgesBuilt, SaveEdges, AskAny, Ask, disk, dict
    <2>2. pc'["analyst"] \in {"idle", "build", "save", "savetx", "memo"}
        BY <1>1, <1>8 DEF EdgesLoaded, EdgesBuilt, SaveEdges, AskAny, Ask, Goto, TypeInv, ControlOK
    <2>3. Drained'
        BY <1>2, <2>2 DEF Drained, Reading
    <2>4. ComputedFrom'
        <3>1. CASE EdgesBuilt
            <4>1. seen'["analyst"] = rows /\ pc'["analyst"] = "save"
                BY <1>1, <3>1 DEF EdgesBuilt, Goto, TypeInv, ControlOK
            <4>2. QED
                BY <1>3, <1>5, <4>1 DEF ComputedFrom, Finalizing
        <3>2. CASE SaveEdges
            <4>1. /\ seen' = seen /\ pc["analyst"] = "save" /\ mine'["analyst"] = version
                  /\ pc'["analyst"] = "savetx"
                BY <1>1, <3>2 DEF SaveEdges, Goto, TypeInv, ControlOK
            <4>2. QED
                BY <1>3, <1>5, <4>1 DEF FreshOK, ComputedFrom, Finalizing
        <3>3. CASE EdgesLoaded \/ AskAny
            <4>1. pc'["analyst"] \in {"idle", "build", "memo"}
                BY <1>1, <3>3 DEF EdgesLoaded, AskAny, Ask, Goto, TypeInv, ControlOK
            <4>2. QED
                BY <1>5, <4>1 DEF ComputedFrom, Finalizing
        <3>4. QED
            BY <1>8, <3>1, <3>2, <3>3
    <2>5. EdgesOK' /\ CacheOK'
        BY <1>3, <1>5, <2>1 DEF FreshOK, EdgesOK, CacheOK, Empty, Persisted
    <2>6. QED
        BY <1>6, <2>3, <2>4, <2>5 DEF FreshRest
<1>9. CASE EdgesSaved
    <2>1. /\ cat'.edges = [tag |-> mine["analyst"], of |-> seen["analyst"]]
          /\ pc["analyst"] = "savetx" /\ pc'["analyst"] = "idle" /\ cache' = cache /\ late' = late
        BY <1>1, <1>9 DEF EdgesSaved, Goto, dict, TypeInv, ControlOK, CatOK
    <2>2. mine["analyst"] = version /\ seen["analyst"] = rows /\ version \in Nat
        BY <2>1 DEF FreshOK, ComputedFrom, TypeInv, DataOK
    <2>3. EdgesOK'
        BY <1>3, <2>1, <2>2 DEF EdgesOK
    <2>4. Drained' /\ ComputedFrom'
        BY <1>2, <1>5, <2>1 DEF Drained, Reading, ComputedFrom, Finalizing
    <2>5. CacheOK'
        BY <1>3, <1>5, <2>1 DEF FreshOK, CacheOK, Empty, Persisted
    <2>6. QED
        BY <1>6, <2>3, <2>4, <2>5 DEF FreshRest
<1>10. CASE MemoComputed
    <2>1. /\ cat' = cat /\ cache' = cache /\ late' = late /\ seen'["analyst"] = rows
          /\ pc["analyst"] = "memoread" /\ pc'["analyst"] = "memostore"
        BY <1>1, <1>10 DEF MemoComputed, Goto, disk, dict, TypeInv, ControlOK
    <2>2. Empty
        BY <1>1, <2>1 DEF FreshOK, Drained, Reading
    <2>3. Drained'
        BY <1>3, <2>2 DEF Drained, Empty
    <2>4. ComputedFrom'
        BY <1>3, <1>5, <2>1, <2>2 DEF ComputedFrom, Finalizing, Empty
    <2>5. EdgesOK' /\ CacheOK'
        BY <1>3, <1>5, <2>1 DEF FreshOK, EdgesOK, CacheOK, Empty, Persisted
    <2>6. QED
        BY <1>6, <2>3, <2>4, <2>5 DEF FreshRest
<1>11. CASE ReadTables
    <2>1. /\ cat' = cat /\ cache' = cache /\ late' = late /\ asked' = asked /\ seen'["analyst"] = Persisted(asked)
          /\ pc["analyst"] = "memo" /\ pc'["analyst"] = "memostore" /\ finalized
        BY <1>1, <1>11 DEF ReadTables, Goto, disk, dict, TypeInv, ControlOK
    <2>2. cat.tables = <<rows, rows>>
        BY <1>5, <2>1 DEF FreshOK, SameFlags, TablesOK
    <2>3. Persisted(asked) = rows
        BY <2>2 DEF Persisted
    <2>4. Persisted(asked)' = rows
        BY <2>1, <2>3 DEF Persisted
    <2>5. Drained' /\ ComputedFrom'
        BY <1>2, <1>3, <1>5, <2>1, <2>3, <2>4 DEF Drained, Reading, ComputedFrom, Finalizing
    <2>6. EdgesOK' /\ CacheOK'
        BY <1>3, <1>5, <2>1 DEF FreshOK, EdgesOK, CacheOK, Empty, Persisted
    <2> QED
        BY <1>6, <2>5, <2>6 DEF FreshRest
<1>12. CASE MemoStore
    <2>1. cat' = cat /\ pc["analyst"] = "memostore" /\ pc'["analyst"] = "idle"
        BY <1>1, <1>12 DEF MemoStore, Goto, disk, TypeInv, ControlOK
    <2>2. seen["analyst"] = IF Empty THEN rows ELSE Persisted(asked)
        BY <2>1 DEF FreshOK, ComputedFrom
    <2>3. \/ cache' = cache /\ late' = late
          \/ /\ cache' = [cache EXCEPT ![asked] = seen["analyst"]]
             /\ late' = IF Empty THEN late \ {asked} ELSE late \cup {asked}
        BY <1>12 DEF MemoStore, Memoize, Empty
    <2>4. Drained' /\ ComputedFrom'
        BY <1>2, <1>5, <2>1 DEF Drained, Reading, ComputedFrom, Finalizing
    <2>5. ASSUME NEW k \in Derived, cache'[k] # None
          PROVE  IF k \in late' THEN cache'[k] = Persisted(k)' ELSE Empty' /\ cache'[k] = rows'
        <3>1. Empty' <=> Empty
            BY <1>3 DEF Empty
        <3>2. Persisted(k)' = Persisted(k)
            BY <2>1 DEF Persisted
        <3>3. CASE cache'[k] = cache[k] /\ (k \in late' <=> k \in late)
            BY <1>3, <1>5, <2>5, <3>1, <3>2, <3>3 DEF FreshOK, CacheOK
        <3>4. CASE ~(cache'[k] = cache[k] /\ (k \in late' <=> k \in late))
            <4>1. k = asked /\ cache'[k] = seen["analyst"] /\ (k \in late' <=> ~Empty)
                BY <2>3, <3>4 DEF TypeInv, DataOK
            <4> QED
                BY <1>3, <2>2, <3>1, <3>2, <4>1
        <3> QED
            BY <3>3, <3>4
    <2>6. CacheOK'
        BY <2>5 DEF CacheOK
    <2>7. EdgesOK'
        BY <1>3, <1>5, <2>1 DEF FreshOK, EdgesOK
    <2> QED
        BY <1>6, <2>4, <2>6, <2>7 DEF FreshRest
<1>13. QED
    BY <1>7, <1>8, <1>9, <1>10, <1>11, <1>12 DEF Analyst

LEMMA LifeFresh ==
    ASSUME TypeInv, ~use.concurrent, FreshOK, CloseBegin \/ Close \/ Open
    PROVE  FreshRest'
<1>1. "writer" \in Proc /\ "finalizer" \in Proc /\ "analyst" \in Proc /\ "close" \in After \ {"idle"}
    BY DEF Proc, After
<1>2. rows' = rows /\ cat' = cat
    BY DEF CloseBegin, Close, Gone, Open, disk
<1>3. version' = version
    BY DEF CloseBegin, Close, Gone, Open, store, FreshOK, SameFlags
<1>4. CASE CloseBegin
    <2>1. /\ \A q \in Proc : pc[q] = "idle"
          /\ cache' = cache /\ late' = late /\ buf' = buf
        BY <1>4 DEF CloseBegin, dict, store
    <2>2. \A q \in Proc \ {"writer"} : pc'[q] = "idle"
        BY <1>1, <1>4, OthersIdle DEF Moves, FreshOK
    <2>3. pc'["writer"] = "close" \/ (pc'["writer"] = "names" /\ ret'["writer"] = "close")
        BY <1>1, <1>4, LockDrained DEF CloseBegin
    <2>4. Drained' /\ ComputedFrom'
        BY <1>1, <2>2, <2>3 DEF Drained, Reading, ComputedFrom, Finalizing
    <2>5. TablesOK' /\ EdgesOK' /\ CacheOK'
        BY <1>1, <1>2, <1>3, <2>1 DEF FreshOK, TablesOK, EdgesOK, CacheOK, Flushing, Empty, Persisted
    <2>6. QED
        BY <2>4, <2>5 DEF FreshRest
<1>5. CASE Close
    <2>1. pc["writer"] = "close" /\ cache' = EmptyCache /\ \A q \in Proc : pc'[q] = "idle"
        BY <1>5 DEF Close, Gone
    <2>2. \A q \in Proc \ {"writer"} : pc[q] = "idle"
        BY <1>1, <1>5, OthersIdle DEF Moves, FreshOK
    <2>3. Drained' /\ ComputedFrom'
        BY <1>1, <2>1 DEF Drained, Reading, ComputedFrom, Finalizing
    <2>4. TablesOK' /\ EdgesOK' /\ CacheOK'
        BY <1>1, <1>2, <1>3, <2>1, <2>2 DEF FreshOK, TablesOK, EdgesOK, CacheOK, EmptyCache, Flushing
    <2>5. QED
        BY <2>3, <2>4 DEF FreshRest
<1>6. CASE Open
    <2>1. pc' = pc /\ ret' = ret /\ buf' = buf /\ cache' = cache /\ late' = late /\ asked' = asked
          /\ seen' = seen /\ excl' = excl /\ mine' = mine
        BY <1>6 DEF Open, control, dict, scratch
    <2>2. QED
        BY <1>2, <1>3, <2>1 DEF FreshOK, FreshRest, Drained, Reading, ComputedFrom, Finalizing, TablesOK, EdgesOK,
                               CacheOK, Flushing, Empty, Persisted
<1>7. QED
    BY <1>4, <1>5, <1>6

LEMMA FreshStep ==
    ASSUME TypeInv, Ordered, FreshInv, Next
    PROVE  FreshInv'
<1>1. SUFFICES ASSUME Sequential1 PROVE FreshOK'
    BY DEF FreshInv, Sequential1, Next
<1>2. FreshOK /\ ~use.concurrent /\ use.crashes = 0
    BY <1>1 DEF FreshInv, Sequential1
<1>3. Alone' /\ SameFlags'
    BY <1>2, AloneStep, FlagsStep DEF FreshOK
<1>4. FreshRest'
    BY <1>2, MovesOf, FlushFresh, WriterFresh, FinalizerFresh, AnalystFresh, LifeFresh DEF Moves
<1>5. QED
    BY <1>3, <1>4 DEF FreshOK, FreshRest

LEMMA FreshInvImplies ==
    ASSUME TypeInv, FreshInv
    PROVE  Fresh
<1>1. SUFFICES ASSUME ~use.concurrent, use.crashes = 0
               PROVE  /\ DerivedFresh
                      /\ (open /\ Quiet /\ EdgesValid) => cat.edges.of = rows
                      /\ (open /\ lock = None) =>
                             \A k \in Derived :
                                 cache[k] # None =>
                                     IF k \in late THEN cache[k] = Persisted(k) ELSE Quiet /\ cache[k] = rows
    BY DEF Fresh
<1>2. FreshOK
    BY <1>1 DEF FreshInv, Sequential1
<1>3. lock = None => ~Flushing /\ pc["writer"] \notin {"dirty", "unfinalize"}
    BY StoreAssumption DEF TypeInv, LockHeld, Locked, Flushing, Proc
<1>4. DerivedFresh
    BY <1>2, <1>3 DEF FreshOK, TablesOK, DerivedFresh
<1>5. (open /\ Quiet /\ EdgesValid) => cat.edges.of = rows
    BY <1>2, <1>3 DEF FreshOK, EdgesOK, EdgesValid, Quiet
<1>7. (open /\ lock = None) =>
          \A k \in Derived :
              cache[k] # None => IF k \in late THEN cache[k] = Persisted(k) ELSE Quiet /\ cache[k] = rows
    BY <1>2, <1>3 DEF FreshOK, CacheOK, Quiet, Empty
<1>8. QED
    BY <1>4, <1>5, <1>7

FreshStoreInv == TypeInv /\ Ordered /\ FreshInv

(* A store used by one thread at a time and not killed never hands out     *)
(* tables, edges or memoized results of other events than it holds, but    *)
(* for the results asked for between an append to a finalized store and    *)
(* the write of its batch, which are those of the last finalize; for any   *)
(* number of shards, names, events, changes, closings and reopenings.      *)
THEOREM AlwaysFresh == Spec => []Fresh
<1>1. Init => FreshStoreInv
    BY TypeInit, OrderedInit, FreshInit DEF FreshStoreInv
<1>2. FreshStoreInv /\ [Next]_vars => FreshStoreInv'
    <2>1. ASSUME FreshStoreInv, Next PROVE FreshStoreInv'
        BY <2>1, CatStep, DataStep, ControlStep, ChangeStep, FreshStep DEF FreshStoreInv, TypeInv
    <2>2. ASSUME FreshStoreInv, UNCHANGED vars PROVE FreshStoreInv'
        <3> USE <2>2 DEF FreshStoreInv, vars, disk, store, dict, control, scratch, bounds
        <3>1. TypeInv' /\ Ordered'
            BY DEF TypeInv, Ordered, CatOK, DataOK, ControlOK, LockHeld, ClosedIdle, ChangeOK, Changing
        <3>2. FreshInv'
            BY DEF FreshInv, Sequential1, FreshOK, Alone, SameFlags, Drained, Reading, ComputedFrom, Finalizing,
                   TablesOK, EdgesOK, CacheOK, Flushing, Empty, Persisted
        <3>3. QED
            BY <3>1, <3>2
    <2>3. QED
        BY <2>1, <2>2
<1>3. FreshStoreInv => Fresh
    BY FreshInvImplies DEF FreshStoreInv
<1>4. QED
    BY <1>1, <1>2, <1>3, PTL DEF Spec
=============================================================================
