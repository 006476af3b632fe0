------------------------------ MODULE ByteRing ------------------------------
(***************************************************************************)
(* The lock-free single-producer/single-consumer byte ring of              *)
(* hooks/common/ringbuffer.h (rb_bytes_t), which every hook thread owns    *)
(* one of.  Records travel as [length prefix][payload] frames in an array  *)
(* of Cap cells; head and tail are positions that only grow and wrap with  *)
(* the mask.                                                               *)
(*                                                                         *)
(* A cell stands for one byte.  The producer's memcpy and the consumer's   *)
(* are one step per cell, so the model has every interleaving of the two   *)
(* copies; the acquire/release pairs on head and tail are the order of the *)
(* steps (copy, then publish; copy out, then release).                     *)
(***************************************************************************)
EXTENDS Integers, Sequences

CONSTANTS
    Rec,      \* the records a hook thread may emit
    NoRec,    \* "no push in progress"
    LenOf,    \* payload length of a record, in cells
    Hdr,      \* cells of a length prefix (4 bytes in the code)
    Cap,      \* cells of the ring
    MaxPush   \* bound: records pushed in one behaviour

ASSUME RingAssumption ==
    /\ NoRec \notin Rec
    /\ LenOf \in [Rec -> Nat \ {0}]
    /\ Hdr \in Nat \ {0}
    /\ Cap \in Nat \ {0}
    /\ MaxPush \in Nat

VARIABLES
    buf,      \* r->buf
    head,     \* r->head: consumer position
    tail,     \* r->tail: producer position
    prec,     \* the record rb_bytes_push is copying in, or NoRec
    pk,       \* cells of its frame already copied
    clen,     \* length rb_bytes_peek_len returned, -1 when not in a pop
    ccell,    \* cells of the current record already copied out
    pushed,   \* history: records published, with the position they start at
    popped    \* history: payloads handed to the drain

vars == <<buf, head, tail, prec, pk, clen, ccell, pushed, popped>>
pvars == <<prec, pk, pushed>>
cvars == <<clen, ccell, popped>>

(* The cells of a frame: Hdr cells of the length prefix, then the payload. *)
LenCell(n, i) == [hdr |-> TRUE, of |-> n, i |-> i]
DataCell(r, i) == [hdr |-> FALSE, of |-> r, i |-> i]
Junk == [hdr |-> FALSE, of |-> NoRec, i |-> 0]

FrameLen(r) == Hdr + LenOf[r]
FrameCell(r, i) == IF i <= Hdr THEN LenCell(LenOf[r], i) ELSE DataCell(r, i - Hdr)
Payload(r) == [i \in 1..LenOf[r] |-> DataCell(r, i)]

Cell == [hdr : BOOLEAN, of : Nat \cup Rec \cup {NoRec}, i : Nat]

(* A published frame: its record and the position it starts at.            *)
Frame == [rec : Rec, at : Nat]

(* pos & r->mask                                                           *)
Slot(pos) == pos % Cap

(* rb_bytes_init: the buffer comes from malloc, its contents are junk.     *)
Init ==
    /\ buf = [i \in 0..(Cap - 1) |-> Junk]
    /\ head = 0 /\ tail = 0
    /\ prec = NoRec /\ pk = 0
    /\ clen = -1 /\ ccell = <<>>
    /\ pushed = <<>> /\ popped = <<>>

(* rb_bytes_push: the free-space test on the loaded head; a record that    *)
(* does not fit returns 0 and changes nothing.                             *)
FitsOffByOne(r) == Cap - (tail - head) >= FrameLen(r) - 1
Fits(r) == Cap - (tail - head) >= FrameLen(r)

PushBegin(r) ==
    /\ prec = NoRec
    /\ Len(pushed) < MaxPush
    /\ Fits(r)
    /\ prec' = r /\ pk' = 0
    /\ UNCHANGED <<buf, head, tail, pushed, cvars>>

(* _rb_bytes_in: the next cell of the frame, at its wrapped position.      *)
PushCopy ==
    /\ prec # NoRec
    /\ pk < FrameLen(prec)
    /\ buf' = [buf EXCEPT ![Slot(tail + pk)] = FrameCell(prec, pk + 1)]
    /\ pk' = pk + 1
    /\ UNCHANGED <<head, tail, prec, pushed, cvars>>

(* The release store of tail publishes the whole frame.                    *)
CopiedAlmost == pk = FrameLen(prec) - 1
Copied == pk = FrameLen(prec)
PushPublish ==
    /\ prec # NoRec
    /\ Copied
    /\ tail' = tail + FrameLen(prec)
    /\ pushed' = Append(pushed, [rec |-> prec, at |-> tail])
    /\ prec' = NoRec /\ pk' = 0
    /\ UNCHANGED <<buf, head, cvars>>

(* The length the prefix at head holds; bytes that are no prefix decode to *)
(* something, here 0.                                                      *)
PrefixIs(n) == \A i \in 1..Hdr : buf[Slot(head + i - 1)] = LenCell(n, i)
Lengths == {LenOf[r] : r \in Rec}
PrefixLen ==
    IF \E n \in Lengths : PrefixIs(n) THEN CHOOSE n \in Lengths : PrefixIs(n) ELSE 0

(* rb_bytes_peek_len: -1 when empty, else the length in the prefix.        *)
NotEmptyAnyway == head < tail \/ prec # NoRec
NotEmpty == head < tail
Peek ==
    /\ clen = -1
    /\ NotEmpty
    /\ clen' = PrefixLen
    /\ ccell' = <<>>
    /\ UNCHANGED <<buf, head, tail, popped, pvars>>

(* rb_bytes_pop, _rb_bytes_out: the next payload cell.                     *)
PopCopy ==
    /\ clen # -1
    /\ Len(ccell) < clen
    /\ ccell' = Append(ccell, buf[Slot(head + Hdr + Len(ccell))])
    /\ UNCHANGED <<buf, head, tail, clen, popped, pvars>>

(* rb_bytes_pop: the release store of head frees the space.                *)
NextHead == head + Hdr + clen
PopRelease ==
    /\ clen # -1
    /\ Len(ccell) = clen
    /\ head' = NextHead
    /\ popped' = Append(popped, ccell)
    /\ clen' = -1 /\ ccell' = <<>>
    /\ UNCHANGED <<buf, tail, pvars>>

Producer == (\E r \in Rec : PushBegin(r)) \/ PushCopy \/ PushPublish
Consumer == Peek \/ PopCopy \/ PopRelease
Next == Producer \/ Consumer

Spec == Init /\ [][Next]_vars

-----------------------------------------------------------------------------
(* The type of every variable.                                             *)
TypeOK ==
    /\ buf \in [0..(Cap - 1) -> Cell]
    /\ head \in Nat /\ tail \in Nat
    /\ prec \in Rec \cup {NoRec} /\ pk \in Nat
    /\ clen \in Nat \cup {-1} /\ ccell \in Seq(Cell)
    /\ pushed \in Seq(Frame)
    /\ popped \in Seq(Seq(Cell))

(* Every payload handed to the drain is, cell for cell, the record pushed  *)
(* in that place, wherever the frame wrapped and however the two copies    *)
(* interleaved (ringbuffer.h: "records of any size up to half the ring     *)
(* travel intact -- no fixed slot, no truncation").                        *)
Intact ==
    /\ Len(popped) <= Len(pushed)
    /\ \A i \in 1..Len(popped) : popped[i] = Payload(pushed[i].rec)

(* No cell the producer still has to write is one the consumer may read:   *)
(* the two copies, which share no lock, never touch the same byte.         *)
RaceFree ==
    prec # NoRec =>
        \A i \in pk..(FrameLen(prec) - 1), p \in head..(tail - 1) :
            Slot(tail + i) # Slot(p)

(* The ring implements the record queue: publishing a frame is Enqueue,    *)
(* releasing it is Dequeue, every other step of either copy is invisible.  *)
Payloads == {Payload(r) : r \in Rec}
PayloadsAfter(s, k) == [i \in 1..(Len(s) - k) |-> Payload(s[k + i].rec)]
Unread == PayloadsAfter(pushed, Len(popped))
Queue == INSTANCE RecordQueue WITH Item <- Payloads, q <- Unread, out <- popped
QueueSpec == Queue!Spec
=============================================================================
