-------------------------- MODULE ByteRingProofs --------------------------
(***************************************************************************)
(* TLAPS proofs about ByteRing: type correctness, the absence of data      *)
(* races, the integrity of every record, and the refinement of the record  *)
(* queue, for every ring size, prefix size and set of records.             *)
(***************************************************************************)
EXTENDS ByteRing, SequenceTheorems, TLAPS

-----------------------------------------------------------------------------
(* Arithmetic of wrapped positions.                                        *)

(* A wrapped position is an index of buf (pos & r->mask).                  *)
LEMMA SlotInRange ==
    ASSUME NEW p \in Nat
    PROVE  Slot(p) \in 0..(Cap - 1)
BY RingAssumption DEF Slot

(* A position is its lap around the ring and its cell in that lap.         *)
LEMMA QuotientRemainder ==
    ASSUME NEW p \in Nat
    PROVE  /\ p \div Cap \in Nat
           /\ p = Cap * (p \div Cap) + (p % Cap)
BY RingAssumption

(* Two positions less than Cap apart never share a cell: the reason the    *)
(* free-space test of rb_bytes_push is enough.                             *)
LEMMA SlotsDiffer ==
    ASSUME NEW p \in Nat, NEW q \in Nat, p < q, q < p + Cap
    PROVE  Slot(p) # Slot(q)
<1>1. SUFFICES ASSUME p % Cap = q % Cap PROVE FALSE
    BY DEF Slot
<1>2. q - p = Cap * ((q \div Cap) - (p \div Cap))
    BY <1>1, QuotientRemainder, RingAssumption, Z3
<1>3. PICK d \in Int : q - p = Cap * d
    BY <1>2, QuotientRemainder
<1>4. CASE d <= 0
    BY <1>3, <1>4, RingAssumption, Z3
<1>5. CASE d >= 1
    <2>1. Cap * d >= Cap
        BY <1>5, RingAssumption, Z3
    <2>2. QED
        BY <2>1, <1>3, RingAssumption
<1>6. QED
    BY <1>4, <1>5

(* A record has at least one cell of payload, and so has its frame.        *)
LEMMA FrameFacts ==
    ASSUME NEW r \in Rec
    PROVE  /\ LenOf[r] \in Nat \ {0}
           /\ FrameLen(r) \in Nat \ {0}
           /\ FrameLen(r) = Hdr + LenOf[r]
           /\ r # NoRec
BY RingAssumption DEF FrameLen

(* What the producer writes, prefix or payload, is a cell.                 *)
LEMMA FrameCellType ==
    ASSUME NEW r \in Rec, NEW i \in Nat \ {0}
    PROVE  FrameCell(r, i) \in Cell
<1>1. CASE i <= Hdr
    BY <1>1, FrameFacts DEF FrameCell, LenCell, Cell
<1>2. CASE ~(i <= Hdr)
    <2>1. i - Hdr \in Nat
        BY <1>2, RingAssumption
    <2>2. QED
        BY <1>2, <2>1 DEF FrameCell, DataCell, Cell
<1>3. QED
    BY <1>1, <1>2

-----------------------------------------------------------------------------
(* The inductive invariant, in named parts.                                *)

(* The position behind a frame.                                            *)
EndOf(f) == f.at + FrameLen(f.rec)

(* Frames lie one behind the other from 0 to tail.                         *)
FramesAdjacent ==
    /\ \A i \in 1..Len(pushed) :
          i < Len(pushed) => pushed[i + 1].at = EndOf(pushed[i])
    /\ \A i, j \in 1..Len(pushed) : i < j => EndOf(pushed[i]) <= pushed[j].at
    /\ \A i \in 1..Len(pushed) : EndOf(pushed[i]) <= tail
    /\ Len(pushed) > 0 => EndOf(pushed[Len(pushed)]) = tail

(* head is the start of the first unread frame.                            *)
HeadAtFrame ==
    /\ Len(popped) <= Len(pushed)
    /\ head = IF Len(popped) < Len(pushed) THEN pushed[Len(popped) + 1].at ELSE tail
    /\ head <= tail /\ tail <= head + Cap

(* Every cell of an unread frame holds what the producer wrote.            *)
UnreadStored ==
    \A i \in (Len(popped) + 1)..Len(pushed) :
        \A k \in 0..(FrameLen(pushed[i].rec) - 1) :
            buf[Slot(pushed[i].at + k)] = FrameCell(pushed[i].rec, k + 1)

(* The frame being copied in has room, and its first pk cells are there.   *)
PushStored ==
    prec # NoRec =>
        /\ pk <= FrameLen(prec)
        /\ tail + FrameLen(prec) <= head + Cap
        /\ \A k \in 0..(pk - 1) : buf[Slot(tail + k)] = FrameCell(prec, k + 1)

(* The record being copied out is the first unread one, so far intact.     *)
PopIntact ==
    clen # -1 =>
        /\ Len(popped) < Len(pushed)
        /\ clen = LenOf[pushed[Len(popped) + 1].rec]
        /\ Len(ccell) <= clen
        /\ \A k \in 1..Len(ccell) : ccell[k] = DataCell(pushed[Len(popped) + 1].rec, k)

IInv ==
    /\ TypeOK
    /\ FramesAdjacent
    /\ HeadAtFrame
    /\ UnreadStored
    /\ PushStored
    /\ PopIntact
    /\ Intact

-----------------------------------------------------------------------------
(* rb_bytes_init establishes the invariant.                                *)
LEMMA InitIInv == Init => IInv
<1>1. ASSUME Init PROVE TypeOK
    <2>1. Junk \in Cell
        BY DEF Junk, Cell
    <2>2. QED
        BY <1>1, <2>1, RingAssumption DEF Init, TypeOK
<1>2. ASSUME Init PROVE FramesAdjacent /\ HeadAtFrame /\ UnreadStored
    BY <1>2, RingAssumption DEF Init, FramesAdjacent, HeadAtFrame, UnreadStored, EndOf
<1>3. ASSUME Init PROVE PushStored /\ PopIntact /\ Intact
    BY <1>3 DEF Init, PushStored, PopIntact, Intact
<1>4. QED
    BY <1>1, <1>2, <1>3 DEF IInv

(* PushBegin: the free-space test becomes the room of PushStored.          *)
LEMMA PushBeginIInv ==
    ASSUME IInv, NEW r \in Rec, PushBegin(r)
    PROVE  IInv'
<1>1. TypeOK'
    BY DEF IInv, TypeOK, PushBegin, cvars
<1>2. PushStored'
    <2>1. tail + FrameLen(r) <= head + Cap
        BY FrameFacts, RingAssumption DEF PushBegin, Fits, IInv, TypeOK
    <2>2. QED
        BY <2>1, FrameFacts DEF PushBegin, PushStored, FrameLen
<1>3. (FramesAdjacent /\ HeadAtFrame /\ UnreadStored /\ PopIntact /\ Intact)'
    BY DEF IInv, PushBegin, cvars, FramesAdjacent, HeadAtFrame, UnreadStored, PopIntact, Intact, EndOf, FrameLen, FrameCell
<1>4. QED
    BY <1>1, <1>2, <1>3 DEF IInv

(* A published frame starts at a position and holds a record.              *)
LEMMA PushedType ==
    ASSUME TypeOK, NEW i \in 1..Len(pushed)
    PROVE  pushed[i].rec \in Rec /\ pushed[i].at \in Nat
<1>1. pushed[i] \in Frame
    BY ElementOfSeq DEF TypeOK
<1>2. QED
    BY <1>1 DEF Frame

(* A position of an unread frame lies between head and tail.               *)
LEMMA UnreadPosition ==
    ASSUME IInv, NEW i \in (Len(popped) + 1)..Len(pushed),
           NEW k \in 0..(FrameLen(pushed[i].rec) - 1)
    PROVE  /\ i \in 1..Len(pushed)
           /\ pushed[i].rec \in Rec /\ pushed[i].at \in Nat
           /\ head <= pushed[i].at + k
           /\ pushed[i].at + k < tail
<1>1. /\ Len(popped) \in Nat /\ Len(pushed) \in Nat
      /\ head \in Nat /\ tail \in Nat
    BY DEF IInv, TypeOK
<1>2. i \in 1..Len(pushed)
    BY <1>1
<1>3. pushed[i].rec \in Rec /\ pushed[i].at \in Nat
    BY <1>2, PushedType DEF IInv
<1>4. pushed[i].at + k < tail
    BY <1>1, <1>2, <1>3, FrameFacts DEF IInv, FramesAdjacent, EndOf
<1>5. head <= pushed[i].at
    <2> DEFINE n == Len(popped) + 1
    <2>1. n \in 1..Len(pushed) /\ head = pushed[n].at
        BY <1>1 DEF IInv, HeadAtFrame
    <2>2. CASE i = n
        BY <2>1, <2>2, <1>1
    <2>3. CASE i # n
        <3>1. EndOf(pushed[n]) <= pushed[i].at
            BY <2>1, <2>3, <1>1, <1>2 DEF IInv, FramesAdjacent
        <3>2. pushed[n].rec \in Rec /\ pushed[n].at \in Nat
            BY <2>1, PushedType DEF IInv
        <3>3. QED
            BY <2>1, <3>1, <3>2, <1>3, FrameFacts DEF EndOf
    <2>4. QED
        BY <2>2, <2>3
<1>6. QED
    BY <1>1, <1>2, <1>3, <1>4, <1>5, FrameFacts

(* PushCopy: the cell written is none of the unread ones, nor one already  *)
(* copied.                                                                 *)
LEMMA PushCopyIInv ==
    ASSUME IInv, PushCopy
    PROVE  IInv'
<1> DEFINE w == tail + pk
<1>1. /\ head \in Nat /\ tail \in Nat /\ pk \in Nat /\ w \in Nat
      /\ prec \in Rec /\ FrameLen(prec) \in Nat
      /\ w < head + Cap /\ Cap \in Nat /\ head <= tail
    <2>1. /\ head \in Nat /\ tail \in Nat /\ pk \in Nat /\ prec \in Rec
          /\ head <= tail /\ pk < FrameLen(prec)
        BY DEF IInv, TypeOK, PushCopy, HeadAtFrame
    <2>2. tail + FrameLen(prec) <= head + Cap
        BY <2>1, FrameFacts DEF IInv, PushStored
    <2>3. QED
        BY <2>1, <2>2, FrameFacts, RingAssumption
<1>2. Slot(w) \in 0..(Cap - 1) /\ FrameCell(prec, pk + 1) \in Cell
    BY <1>1, SlotInRange, FrameCellType
<1>3. TypeOK'
    BY <1>1, <1>2 DEF IInv, TypeOK, PushCopy, cvars
<1>4. ASSUME NEW p \in Nat, head <= p, p < w
      PROVE  Slot(p) # Slot(w) /\ Slot(p) \in 0..(Cap - 1)
    BY <1>1, <1>4, SlotsDiffer, SlotInRange, RingAssumption
<1>5. ASSUME NEW p \in Nat, head <= p, p < w
      PROVE  buf'[Slot(p)] = buf[Slot(p)]
    BY <1>4, <1>5 DEF PushCopy, IInv, TypeOK
<1>6. UnreadStored'
    <2>1. SUFFICES ASSUME NEW i \in (Len(popped) + 1)..Len(pushed),
                          NEW k \in 0..(FrameLen(pushed[i].rec) - 1)
                   PROVE  buf'[Slot(pushed[i].at + k)] = FrameCell(pushed[i].rec, k + 1)
        BY DEF UnreadStored, PushCopy, cvars, FrameLen, FrameCell, Slot
    <2>2. /\ pushed[i].at + k \in Nat
          /\ head <= pushed[i].at + k /\ pushed[i].at + k < w
        BY <1>1, UnreadPosition, FrameFacts
    <2>3. buf[Slot(pushed[i].at + k)] = FrameCell(pushed[i].rec, k + 1)
        BY DEF IInv, UnreadStored
    <2>4. QED
        BY <1>5, <2>2, <2>3
<1>7. PushStored'
    <2>1. SUFFICES ASSUME NEW k \in 0..pk
                   PROVE  buf'[Slot(tail + k)] = FrameCell(prec, k + 1)
        BY <1>1 DEF PushStored, PushCopy, IInv, FrameLen, FrameCell, Slot
    <2>2. CASE k = pk
        BY <2>2, <1>2 DEF PushCopy, IInv, TypeOK
    <2>3. CASE k < pk
        <3>1. buf[Slot(tail + k)] = FrameCell(prec, k + 1)
            BY <2>3, <1>1 DEF IInv, PushStored, PushCopy
        <3>2. tail + k \in Nat /\ head <= tail + k /\ tail + k < w
            BY <2>3, <1>1
        <3>3. QED
            BY <3>1, <3>2, <1>5
    <2>4. QED
        BY <2>2, <2>3, <1>1
<1>8. (FramesAdjacent /\ HeadAtFrame /\ PopIntact /\ Intact)'
    BY DEF IInv, PushCopy, cvars, FramesAdjacent, HeadAtFrame, PopIntact, Intact, EndOf
<1>9. QED
    BY <1>3, <1>6, <1>7, <1>8 DEF IInv

(* PushPublish: the copied frame becomes the last unread one.              *)
LEMMA PushPublishIInv ==
    ASSUME IInv, PushPublish
    PROVE  IInv'
<1> DEFINE f == [rec |-> prec, at |-> tail]
           n == Len(pushed)
<1>1. /\ prec \in Rec /\ prec # NoRec /\ tail \in Nat /\ head \in Nat /\ n \in Nat
      /\ Len(popped) \in Nat /\ Len(popped) <= n
      /\ FrameLen(prec) \in Nat \ {0} /\ Cap \in Nat
    <2>1. /\ prec \in Rec /\ prec # NoRec /\ tail \in Nat /\ head \in Nat /\ n \in Nat
          /\ Len(popped) \in Nat /\ Len(popped) <= n
        BY DEF IInv, TypeOK, PushPublish, Copied, HeadAtFrame
    <2>2. QED
        BY <2>1, FrameFacts, RingAssumption
<1>2. f \in Frame
    BY <1>1 DEF Frame
<1>3. /\ pushed' \in Seq(Frame)
      /\ Len(pushed') = n + 1
      /\ pushed'[n + 1] = f
      /\ \A i \in 1..n : pushed'[i] = pushed[i]
    BY <1>2, AppendProperties DEF PushPublish, Copied, IInv, TypeOK
<1>4. tail' = tail + FrameLen(prec) /\ tail' \in Nat
    BY <1>1 DEF PushPublish, Copied
<1>5. TypeOK'
    BY <1>1, <1>3, <1>4 DEF IInv, TypeOK, PushPublish, Copied, cvars
<1>6. \A i \in 1..n : pushed[i].rec \in Rec /\ pushed[i].at \in Nat /\ EndOf(pushed[i]) \in Nat
    BY PushedType, FrameFacts DEF IInv, EndOf
<1>7. /\ \A i \in 1..n : EndOf(pushed'[i]) = EndOf(pushed[i])
      /\ EndOf(pushed'[n + 1]) = tail'
    <2>1. \A i \in 1..n : EndOf(pushed'[i]) = EndOf(pushed[i])
        BY <1>3 DEF EndOf, FrameLen
    <2>2. pushed'[n + 1].rec = prec /\ pushed'[n + 1].at = tail
        BY <1>3
    <2>3. EndOf(pushed'[n + 1]) = tail + FrameLen(prec)
        BY <2>2 DEF EndOf, FrameLen
    <2>4. QED
        BY <2>1, <2>3, <1>4
<1>8. FramesAdjacent'
    <2>1. \A i \in 1..(n + 1) : EndOf(pushed'[i]) <= tail'
        <3>1. \A i \in 1..n : EndOf(pushed[i]) <= tail
            BY DEF IInv, FramesAdjacent
        <3>2. \A i \in 1..n : EndOf(pushed'[i]) <= tail'
            BY <3>1, <1>1, <1>4, <1>6, <1>7
        <3>3. EndOf(pushed'[n + 1]) <= tail'
            BY <1>4, <1>7
        <3>4. \A i \in 1..(n + 1) : i \in 1..n \/ i = n + 1
            BY <1>1
        <3>5. QED
            BY <3>2, <3>3, <3>4
    <2>2. \A i, j \in 1..(n + 1) : i < j => EndOf(pushed'[i]) <= pushed'[j].at
        <3>1. SUFFICES ASSUME NEW i \in 1..(n + 1), NEW j \in 1..(n + 1), i < j
                       PROVE  EndOf(pushed'[i]) <= pushed'[j].at
            OBVIOUS
        <3>2. i \in 1..n
            BY <3>1, <1>1
        <3>3. CASE j = n + 1
            <4>1. EndOf(pushed[i]) <= tail
                BY <3>2 DEF IInv, FramesAdjacent
            <4>2. QED
                BY <3>2, <3>3, <4>1, <1>3, <1>7
        <3>4. CASE j # n + 1
            <4>1. j \in 1..n
                BY <3>4, <1>1
            <4>2. EndOf(pushed[i]) <= pushed[j].at
                BY <3>1, <3>2, <4>1 DEF IInv, FramesAdjacent
            <4>3. QED
                BY <3>2, <4>1, <4>2, <1>3, <1>7
        <3>5. QED
            BY <3>3, <3>4
    <2>3. \A i \in 1..(n + 1) : i < n + 1 => pushed'[i + 1].at = EndOf(pushed'[i])
        <3>1. SUFFICES ASSUME NEW i \in 1..n PROVE pushed'[i + 1].at = EndOf(pushed'[i])
            BY <1>1
        <3>2. CASE i = n
            <4>1. EndOf(pushed[n]) = tail
                BY <3>1, <1>1 DEF IInv, FramesAdjacent
            <4>2. QED
                BY <3>1, <3>2, <4>1, <1>1, <1>3, <1>7
        <3>3. CASE i # n
            <4>1. i + 1 \in 1..n /\ i < n
                BY <3>1, <3>3, <1>1
            <4>2. pushed[i + 1].at = EndOf(pushed[i])
                BY <3>1, <4>1 DEF IInv, FramesAdjacent
            <4>3. QED
                BY <3>1, <4>1, <4>2, <1>3, <1>7
        <3>4. QED
            BY <3>2, <3>3
    <2>4. QED
        BY <1>3, <1>7, <2>1, <2>2, <2>3 DEF FramesAdjacent, EndOf, FrameLen
<1>9. HeadAtFrame'
    <2>1. head' = head /\ popped' = popped
        BY DEF PushPublish, Copied, cvars
    <2>2. tail' <= head + Cap /\ head <= tail
        BY <1>1, <1>4 DEF IInv, PushStored, HeadAtFrame
    <2>3. head = pushed'[Len(popped) + 1].at
        BY <1>1, <1>3 DEF IInv, HeadAtFrame
    <2>4. QED
        BY <1>1, <1>3, <1>4, <2>1, <2>2, <2>3 DEF HeadAtFrame
<1>10. UnreadStored'
    <2>1. SUFFICES ASSUME NEW i \in (Len(popped) + 1)..(n + 1),
                          NEW k \in 0..(FrameLen(pushed'[i].rec) - 1)
                   PROVE  buf[Slot(pushed'[i].at + k)] = FrameCell(pushed'[i].rec, k + 1)
        BY <1>3 DEF UnreadStored, PushPublish, Copied, cvars, FrameLen, FrameCell, Slot
    <2>2. CASE i = n + 1
        BY <2>2, <1>1, <1>3 DEF IInv, PushStored, PushPublish, Copied
    <2>3. CASE i # n + 1
        <3>1. i \in (Len(popped) + 1)..n /\ i \in 1..n
            BY <2>3, <1>1
        <3>2. QED
            BY <3>1, <1>3 DEF IInv, UnreadStored
    <2>4. QED
        BY <2>2, <2>3
<1>11. PushStored'
    BY DEF PushPublish, Copied, PushStored
<1>12. PopIntact'
    <2>1. SUFFICES ASSUME clen # -1 PROVE PopIntact'
        BY DEF PopIntact, PushPublish, Copied, cvars
    <2>2. Len(popped) + 1 \in 1..n
        BY <2>1, <1>1 DEF IInv, PopIntact
    <2>3. pushed'[Len(popped) + 1] = pushed[Len(popped) + 1]
        BY <2>2, <1>3
    <2>4. QED
        BY <2>1, <2>2, <2>3, <1>1, <1>3 DEF IInv, PopIntact, PushPublish, Copied, cvars
<1>13. Intact'
    <2>1. \A i \in 1..Len(popped) : pushed'[i] = pushed[i]
        BY <1>1, <1>3
    <2>2. popped' = popped /\ Len(popped) <= Len(pushed')
        BY <1>1, <1>3 DEF PushPublish, Copied, cvars
    <2>3. \A i \in 1..Len(popped) : popped[i] = Payload(pushed'[i].rec)
        BY <2>1 DEF IInv, Intact
    <2>4. QED
        BY <2>2, <2>3 DEF Intact, Payload
<1>14. QED
    BY <1>5, <1>8, <1>9, <1>10, <1>11, <1>12, <1>13 DEF IInv

(* The first unread frame, which a consumer with head < tail is reading.   *)
LEMMA FirstUnread ==
    ASSUME IInv, head < tail
    PROVE  /\ Len(popped) + 1 \in 1..Len(pushed)
           /\ Len(popped) + 1 \in (Len(popped) + 1)..Len(pushed)
           /\ pushed[Len(popped) + 1].rec \in Rec
           /\ pushed[Len(popped) + 1].at = head
<1>1. /\ Len(popped) \in Nat /\ Len(pushed) \in Nat
      /\ head \in Nat /\ tail \in Nat
    BY DEF IInv, TypeOK
<1>2. Len(popped) < Len(pushed)
    BY <1>1 DEF IInv, HeadAtFrame
<1>3. QED
    BY <1>1, <1>2, PushedType DEF IInv, HeadAtFrame

(* Peek: the prefix at head decodes to the length of the first unread      *)
(* record and to nothing else.                                             *)
LEMMA PeekIInv ==
    ASSUME IInv, Peek
    PROVE  IInv'
<1> DEFINE r == pushed[Len(popped) + 1].rec
<1>1. /\ r \in Rec /\ pushed[Len(popped) + 1].at = head
      /\ Len(popped) + 1 \in (Len(popped) + 1)..Len(pushed)
      /\ Len(popped) < Len(pushed)
      /\ head \in Nat
    BY FirstUnread DEF Peek, NotEmpty, IInv, TypeOK
<1>2. LenOf[r] \in Nat \ {0} /\ Hdr \in Nat \ {0} /\ FrameLen(r) = Hdr + LenOf[r]
    BY <1>1, FrameFacts, RingAssumption
<1>3. \A k \in 0..(FrameLen(r) - 1) : buf[Slot(head + k)] = FrameCell(r, k + 1)
    BY <1>1 DEF IInv, UnreadStored
<1>4. PrefixIs(LenOf[r])
    <2>1. SUFFICES ASSUME NEW i \in 1..Hdr
                   PROVE  buf[Slot(head + i - 1)] = LenCell(LenOf[r], i)
        BY DEF PrefixIs
    <2>2. i - 1 \in 0..(FrameLen(r) - 1) /\ head + (i - 1) = head + i - 1 /\ (i - 1) + 1 = i
        BY <1>1, <1>2
    <2>3. buf[Slot(head + i - 1)] = FrameCell(r, i)
        BY <2>2, <1>3
    <2>4. QED
        BY <2>3, <1>2 DEF FrameCell
<1>5. \A n \in Lengths : PrefixIs(n) => n = LenOf[r]
    <2>1. SUFFICES ASSUME NEW n \in Lengths, PrefixIs(n) PROVE n = LenOf[r]
        OBVIOUS
    <2>2. 1 \in 1..Hdr
        BY <1>2
    <2>3. LenCell(n, 1) = LenCell(LenOf[r], 1)
        BY <2>1, <2>2, <1>4 DEF PrefixIs
    <2>4. LenCell(n, 1).of = n /\ LenCell(LenOf[r], 1).of = LenOf[r]
        BY DEF LenCell
    <2>5. QED
        BY <2>3, <2>4
<1>6. PrefixLen = LenOf[r]
    BY <1>1, <1>4, <1>5 DEF PrefixLen, Lengths
<1>7. TypeOK'
    BY <1>2, <1>6 DEF IInv, TypeOK, Peek, NotEmpty, pvars
<1>8. PopIntact'
    BY <1>1, <1>2, <1>6 DEF PopIntact, Peek, NotEmpty, pvars
<1>9. (FramesAdjacent /\ HeadAtFrame /\ UnreadStored /\ PushStored /\ Intact)'
    BY DEF IInv, Peek, NotEmpty, pvars, FramesAdjacent, HeadAtFrame, UnreadStored, PushStored, Intact, EndOf
<1>10. QED
    BY <1>7, <1>8, <1>9 DEF IInv

(* A record being popped: what PopCopy and PopRelease both need.           *)
LEMMA Popping ==
    ASSUME IInv, clen # -1
    PROVE  /\ Len(popped) \in Nat /\ Len(pushed) \in Nat /\ Len(popped) < Len(pushed)
           /\ head \in Nat /\ clen \in Nat /\ Len(ccell) \in Nat
           /\ pushed[Len(popped) + 1].rec \in Rec
           /\ pushed[Len(popped) + 1].at = head
           /\ clen = LenOf[pushed[Len(popped) + 1].rec]
           /\ Hdr \in Nat
           /\ \A k \in 0..(Hdr + clen - 1) :
                 buf[Slot(head + k)] = FrameCell(pushed[Len(popped) + 1].rec, k + 1)
<1>1. /\ Len(popped) \in Nat /\ Len(pushed) \in Nat /\ Len(popped) < Len(pushed)
      /\ head \in Nat /\ clen \in Nat /\ Len(ccell) \in Nat
    BY DEF IInv, TypeOK, PopIntact
<1>2. Len(popped) + 1 \in 1..Len(pushed) /\ Len(popped) + 1 \in (Len(popped) + 1)..Len(pushed)
    BY <1>1
<1>3. pushed[Len(popped) + 1].rec \in Rec
    BY <1>2, PushedType DEF IInv
<1>4. pushed[Len(popped) + 1].at = head
    BY <1>1 DEF IInv, HeadAtFrame
<1>5. clen = LenOf[pushed[Len(popped) + 1].rec]
    BY DEF IInv, PopIntact
<1>6. \A k \in 0..(Hdr + clen - 1) :
          buf[Slot(head + k)] = FrameCell(pushed[Len(popped) + 1].rec, k + 1)
    <2>1. FrameLen(pushed[Len(popped) + 1].rec) = Hdr + clen
        BY <1>3, <1>5, FrameFacts
    <2>2. \A k \in 0..(FrameLen(pushed[Len(popped) + 1].rec) - 1) :
              buf[Slot(pushed[Len(popped) + 1].at + k)]
                  = FrameCell(pushed[Len(popped) + 1].rec, k + 1)
        BY <1>2 DEF IInv, UnreadStored
    <2>3. TAKE k \in 0..(Hdr + clen - 1)
    <2>4. k \in 0..(FrameLen(pushed[Len(popped) + 1].rec) - 1)
        BY <1>1, <2>1, RingAssumption
    <2>5. buf[Slot(pushed[Len(popped) + 1].at + k)] = FrameCell(pushed[Len(popped) + 1].rec, k + 1)
        BY <2>2, <2>4
    <2>6. QED
        BY <1>4, <2>5
<1>7. QED
    BY <1>1, <1>3, <1>4, <1>5, <1>6, RingAssumption

(* Copying out one more cell keeps the record in hand intact.              *)
LEMMA PopCopyIInv ==
    ASSUME IInv, PopCopy
    PROVE  IInv'
<1> DEFINE r == pushed[Len(popped) + 1].rec
           c == buf[Slot(head + Hdr + Len(ccell))]
           m == Len(ccell)
<1>1. clen # -1 /\ m < clen /\ m \in Nat /\ clen \in Nat /\ Hdr \in Nat /\ head \in Nat
    BY Popping DEF PopCopy
<1>2. c = DataCell(r, m + 1)
    <2>1. Hdr + m \in 0..(Hdr + clen - 1) /\ head + (Hdr + m) = head + Hdr + m
        BY <1>1
    <2>2. c = FrameCell(r, Hdr + m + 1)
        BY <2>1, <1>1, Popping
    <2>3. ~(Hdr + m + 1 <= Hdr) /\ (Hdr + m + 1) - Hdr = m + 1
        BY <1>1
    <2>4. QED
        BY <2>2, <2>3 DEF FrameCell
<1>3. c \in Cell
    <2>1. head + Hdr + m \in Nat
        BY <1>1
    <2>2. QED
        BY <2>1, SlotInRange DEF IInv, TypeOK
<1>4. /\ ccell' \in Seq(Cell) /\ Len(ccell') = m + 1
      /\ ccell'[m + 1] = c
      /\ \A k \in 1..m : ccell'[k] = ccell[k]
    BY <1>3, AppendProperties DEF PopCopy, IInv, TypeOK
<1>5. TypeOK'
    BY <1>4 DEF IInv, TypeOK, PopCopy, pvars
<1>6. PopIntact'
    <2>1. \A k \in 1..(m + 1) : ccell'[k] = DataCell(r, k)
        <3>1. \A k \in 1..m : ccell[k] = DataCell(r, k)
            BY <1>1 DEF IInv, PopIntact
        <3>2. \A k \in 1..(m + 1) : k \in 1..m \/ k = m + 1
            BY <1>1
        <3>3. QED
            BY <3>1, <3>2, <1>2, <1>4
    <2>2. clen' = clen /\ pushed' = pushed /\ popped' = popped
        BY DEF PopCopy, pvars
    <2>3. Len(popped) < Len(pushed) /\ clen = LenOf[r]
        BY <1>1, Popping
    <2>4. QED
        BY <1>1, <1>4, <2>1, <2>2, <2>3 DEF PopIntact, DataCell
<1>7. (FramesAdjacent /\ HeadAtFrame /\ UnreadStored /\ PushStored /\ Intact)'
    BY DEF IInv, PopCopy, pvars, FramesAdjacent, HeadAtFrame, UnreadStored, PushStored, Intact, EndOf
<1>8. QED
    BY <1>5, <1>6, <1>7 DEF IInv

(* The copied cells are the payload of the record at the head of the ring. *)
LEMMA PoppedPayload ==
    ASSUME IInv, PopRelease
    PROVE  ccell = Payload(pushed[Len(popped) + 1].rec)
<1> DEFINE r == pushed[Len(popped) + 1].rec
<1>1. /\ Len(ccell) = LenOf[r]
      /\ \A k \in 1..Len(ccell) : ccell[k] = DataCell(r, k)
    BY DEF IInv, PopIntact, PopRelease, NextHead
<1>2. ccell \in [1..Len(ccell) -> Cell]
    BY LenProperties DEF IInv, TypeOK
<1>3. QED
    BY <1>1, <1>2 DEF Payload

(* Releasing the head frame moves head to the next unread one; nothing the *)
(* invariant says of the frames behind it changes.                         *)
LEMMA PopReleaseIInv ==
    ASSUME IInv, PopRelease
    PROVE  IInv'
<1> DEFINE n == Len(popped)
           r == pushed[n + 1].rec
<1>1. /\ clen # -1 /\ n \in Nat /\ Len(pushed) \in Nat /\ n < Len(pushed)
      /\ head \in Nat /\ tail \in Nat /\ clen \in Nat /\ Hdr \in Nat
      /\ r \in Rec /\ pushed[n + 1].at = head /\ clen = LenOf[r]
      /\ Cap \in Nat
    BY Popping, RingAssumption DEF PopRelease, NextHead, IInv, TypeOK
<1>2. head' = EndOf(pushed[n + 1]) /\ head' \in Nat /\ head <= head'
    BY <1>1 DEF PopRelease, NextHead, EndOf, FrameLen
<1>3. /\ popped' \in Seq(Seq(Cell)) /\ Len(popped') = n + 1
      /\ popped'[n + 1] = ccell
      /\ \A k \in 1..n : popped'[k] = popped[k]
    BY AppendProperties DEF PopRelease, NextHead, IInv, TypeOK
<1>4. pushed' = pushed /\ tail' = tail /\ buf' = buf /\ prec' = prec /\ pk' = pk
    BY DEF PopRelease, NextHead, pvars
<1>5. TypeOK'
    BY <1>2, <1>3, <1>4 DEF IInv, TypeOK, PopRelease, NextHead
<1>6. FramesAdjacent'
    BY <1>4 DEF IInv, FramesAdjacent, EndOf
<1>7. HeadAtFrame'
    <2>1. n + 1 \in 1..Len(pushed)
        BY <1>1
    <2>2. head' <= tail /\ tail <= head' + Cap
        BY <1>1, <1>2, <2>1 DEF IInv, FramesAdjacent, HeadAtFrame
    <2>3. CASE n + 1 < Len(pushed)
        <3>1. pushed[n + 1 + 1].at = EndOf(pushed[n + 1])
            BY <2>1, <2>3 DEF IInv, FramesAdjacent
        <3>2. QED
            BY <1>2, <1>3, <1>4, <2>2, <2>3, <3>1, <1>1 DEF HeadAtFrame
    <2>4. CASE n + 1 = Len(pushed)
        <3>1. EndOf(pushed[n + 1]) = tail
            BY <2>4, <1>1 DEF IInv, FramesAdjacent
        <3>2. QED
            BY <1>2, <1>3, <1>4, <2>2, <2>4, <3>1, <1>1 DEF HeadAtFrame
    <2>5. QED
        BY <2>1, <2>3, <2>4, <1>1
<1>8. UnreadStored'
    <2>1. \A i \in (n + 2)..Len(pushed) : i \in (n + 1)..Len(pushed)
        BY <1>1
    <2>2. Len(popped') + 1 = n + 2
        BY <1>1, <1>3
    <2>3. QED
        BY <1>4, <2>1, <2>2 DEF IInv, UnreadStored
<1>9. PushStored'
    <2>1. SUFFICES ASSUME prec # NoRec
                   PROVE  tail + FrameLen(prec) <= head' + Cap
        BY <1>4 DEF IInv, PushStored
    <2>2. prec \in Rec /\ tail + FrameLen(prec) <= head + Cap
        BY <2>1 DEF IInv, TypeOK, PushStored
    <2>3. QED
        BY <1>1, <1>2, <2>2, FrameFacts
<1>10. PopIntact'
    BY DEF PopIntact, PopRelease, NextHead
<1>11. Intact'
    <2>1. \A i \in 1..(n + 1) : popped'[i] = Payload(pushed[i].rec)
        <3>1. \A i \in 1..n : popped[i] = Payload(pushed[i].rec)
            BY DEF IInv, Intact
        <3>2. \A i \in 1..(n + 1) : i \in 1..n \/ i = n + 1
            BY <1>1
        <3>3. QED
            BY <3>1, <3>2, <1>3, PoppedPayload
    <2>2. n + 1 <= Len(pushed)
        BY <1>1
    <2>3. QED
        BY <1>3, <1>4, <2>1, <2>2 DEF Intact, Payload
<1>12. QED
    BY <1>5, <1>6, <1>7, <1>8, <1>9, <1>10, <1>11 DEF IInv

-----------------------------------------------------------------------------
(* Every step of producer and consumer preserves the invariant.            *)
LEMMA StepIInv == IInv /\ [Next]_vars => IInv'
<1>1. SUFFICES ASSUME IInv, [Next]_vars PROVE IInv'
    OBVIOUS
<1>2. ASSUME NEW r \in Rec, PushBegin(r) PROVE IInv'
    BY <1>1, <1>2, PushBeginIInv
<1>3. CASE PushCopy
    BY <1>1, <1>3, PushCopyIInv
<1>4. CASE PushPublish
    BY <1>1, <1>4, PushPublishIInv
<1>5. CASE Peek
    BY <1>1, <1>5, PeekIInv
<1>6. CASE PopCopy
    BY <1>1, <1>6, PopCopyIInv
<1>7. CASE PopRelease
    BY <1>1, <1>7, PopReleaseIInv
<1>8. CASE UNCHANGED vars
    BY <1>1, <1>8 DEF vars, IInv, TypeOK, FramesAdjacent, HeadAtFrame, UnreadStored, PushStored, PopIntact, Intact, EndOf
<1>9. QED
    BY <1>1, <1>2, <1>3, <1>4, <1>5, <1>6, <1>7, <1>8 DEF Next, Producer, Consumer

(* The invariant holds in every state of every behaviour.                  *)
LEMMA SpecIInv == Spec => []IInv
BY InitIInv, StepIInv, PTL DEF Spec

(* Every variable of the ring keeps its type (rb_bytes_push, rb_bytes_pop  *)
(* and rb_bytes_peek_len together).                                        *)
THEOREM TypeCorrect == Spec => []TypeOK
<1>1. IInv => TypeOK
    BY DEF IInv
<1>2. QED
    BY <1>1, SpecIInv, PTL

(* Whatever the ring size and the records, what rb_bytes_pop returns is    *)
(* the record rb_bytes_push was given in that place.                       *)
THEOREM RecordsIntact == Spec => []Intact
<1>1. IInv => Intact
    BY DEF IInv
<1>2. QED
    BY <1>1, SpecIInv, PTL

(* The lock-free copies of rb_bytes_push and rb_bytes_pop never touch the  *)
(* same byte of the ring.                                                  *)
THEOREM NoDataRace == Spec => []RaceFree
<1>1. IInv => RaceFree
    <2>1. SUFFICES ASSUME IInv, prec # NoRec,
                          NEW i \in pk..(FrameLen(prec) - 1),
                          NEW p \in head..(tail - 1)
                   PROVE  Slot(tail + i) # Slot(p)
        BY DEF RaceFree
    <2>2. /\ prec \in Rec /\ pk \in Nat /\ head \in Nat /\ tail \in Nat /\ Cap \in Nat
          /\ tail + FrameLen(prec) <= head + Cap
        BY <2>1, RingAssumption DEF IInv, TypeOK, PushStored
    <2>3. /\ p \in Nat /\ tail + i \in Nat
          /\ p < tail + i /\ tail + i < p + Cap
        BY <2>2, FrameFacts
    <2>4. QED
        BY <2>3, SlotsDiffer
<1>2. QED
    BY <1>1, SpecIInv, PTL

-----------------------------------------------------------------------------
(* Refinement: what each step does to the abstract queue.                  *)

(* The payloads of the frames from the (k+1)st on, as a sequence.          *)
LEMMA SuffixType ==
    ASSUME NEW s \in Seq(Frame), NEW k \in Nat, k <= Len(s)
    PROVE  /\ PayloadsAfter(s, k) \in Seq(Payloads)
           /\ Len(PayloadsAfter(s, k)) = Len(s) - k
           /\ \A i \in 1..(Len(s) - k) : PayloadsAfter(s, k)[i] = Payload(s[k + i].rec)
<1> DEFINE m == Len(s) - k
<1>1. m \in Nat /\ \A i \in 1..m : k + i \in 1..Len(s)
    OBVIOUS
<1>2. \A i \in 1..m : Payload(s[k + i].rec) \in Payloads
    <2>1. \A j \in 1..Len(s) : s[j] \in Frame
        BY ElementOfSeq
    <2>2. \A j \in 1..Len(s) : s[j].rec \in Rec
        BY <2>1 DEF Frame
    <2>3. QED
        BY <1>1, <2>2 DEF Payloads
<1>3. QED
    BY <1>1, <1>2 DEF PayloadsAfter

(* The abstract queue has one item per frame not yet popped.               *)
LEMMA UnreadType ==
    ASSUME TypeOK, Len(popped) <= Len(pushed)
    PROVE  /\ Unread \in Seq(Payloads)
           /\ Len(Unread) = Len(pushed) - Len(popped)
           /\ Len(pushed) - Len(popped) \in Nat
BY SuffixType DEF TypeOK, Unread

(* Publishing a frame is Enqueue of its payload.                           *)
LEMMA PublishEnqueues ==
    ASSUME IInv, IInv', PushPublish
    PROVE  \E x \in Payloads : Queue!Enqueue(x)
<1> DEFINE m == Len(pushed) - Len(popped)
           x == Payload(prec)
<1>1. prec \in Rec /\ x \in Payloads /\ tail \in Nat
    BY DEF IInv, TypeOK, PushPublish, Copied, Payloads
<1>2. /\ Len(pushed') = Len(pushed) + 1
      /\ pushed'[Len(pushed) + 1] = [rec |-> prec, at |-> tail]
      /\ \A i \in 1..Len(pushed) : pushed'[i] = pushed[i]
    <2>1. [rec |-> prec, at |-> tail] \in Frame
        BY <1>1 DEF Frame
    <2>2. QED
        BY <2>1, AppendProperties DEF PushPublish, Copied, IInv, TypeOK
<1>3. popped' = popped /\ Len(popped) \in Nat /\ Len(pushed) \in Nat /\ m \in Nat
    BY UnreadType DEF PushPublish, Copied, cvars, IInv, TypeOK, HeadAtFrame
<1>4. /\ Unread' \in Seq(Payloads) /\ Len(Unread') = m + 1
      /\ Unread \in Seq(Payloads) /\ Len(Unread) = m
    <2>1. pushed' \in Seq(Frame) /\ Len(popped) <= Len(pushed')
        BY <1>2, <1>3 DEF IInv, TypeOK, HeadAtFrame
    <2>2. Unread' = PayloadsAfter(pushed', Len(popped))
        BY <1>3 DEF Unread
    <2>3. QED
        BY <1>2, <1>3, <2>1, <2>2, SuffixType, UnreadType DEF IInv, HeadAtFrame
<1>5. /\ Append(Unread, x) \in Seq(Payloads) /\ Len(Append(Unread, x)) = m + 1
      /\ Append(Unread, x)[m + 1] = x
      /\ \A i \in 1..m : Append(Unread, x)[i] = Unread[i]
    BY <1>1, <1>4, AppendProperties
<1>6. \A i \in 1..(m + 1) : Unread'[i] = Append(Unread, x)[i]
    <2>1. \A i \in 1..(m + 1) : Unread'[i] = Payload(pushed'[Len(popped) + i].rec)
        BY <1>2, <1>3 DEF Unread, PayloadsAfter, Payload
    <2>2. \A i \in 1..m : Unread[i] = Payload(pushed[Len(popped) + i].rec)
        BY DEF Unread, PayloadsAfter
    <2>3. \A i \in 1..m : Len(popped) + i \in 1..Len(pushed)
        BY <1>3
    <2>4. \A i \in 1..m : Unread'[i] = Unread[i]
        <3>1. \A i \in 1..m : i \in 1..(m + 1)
            BY <1>3
        <3>2. QED
            BY <3>1, <2>1, <2>2, <2>3, <1>2
    <2>5. Unread'[m + 1] = x
        <3>1. m + 1 \in 1..(m + 1) /\ Len(popped) + (m + 1) = Len(pushed) + 1
            BY <1>3
        <3>2. QED
            BY <3>1, <2>1, <1>2
    <2>6. \A i \in 1..(m + 1) : i \in 1..m \/ i = m + 1
        BY <1>3
    <2>7. QED
        BY <2>4, <2>5, <2>6, <1>5
<1>7. Unread' = Append(Unread, x)
    BY <1>4, <1>5, <1>6, SeqEqual
<1>8. QED
    BY <1>1, <1>3, <1>7 DEF Queue!Enqueue

(* Releasing a frame is Dequeue.                                           *)
LEMMA ReleaseDequeues ==
    ASSUME IInv, IInv', PopRelease
    PROVE  Queue!Dequeue
<1> DEFINE m == Len(pushed) - Len(popped)
<1>1. /\ pushed' = pushed /\ Len(popped) \in Nat /\ Len(pushed) \in Nat
      /\ Len(popped) < Len(pushed) /\ popped' = Append(popped, ccell)
    BY Popping DEF PopRelease, NextHead, pvars
<1>2. Len(popped') = Len(popped) + 1
    BY AppendProperties DEF PopRelease, NextHead, IInv, TypeOK
<1>3. m \in Nat \ {0}
    BY <1>1
<1>4. /\ Unread \in Seq(Payloads) /\ Len(Unread) = m
      /\ Unread' \in Seq(Payloads) /\ Len(Unread') = m - 1
    <2>1. pushed \in Seq(Frame) /\ Len(popped') <= Len(pushed) /\ Len(popped') \in Nat
        BY <1>1, <1>2 DEF IInv, TypeOK
    <2>2. Unread' = PayloadsAfter(pushed, Len(popped'))
        BY <1>1 DEF Unread
    <2>3. Unread' \in Seq(Payloads) /\ Len(Unread') = Len(pushed) - Len(popped')
        BY <2>1, <2>2, SuffixType
    <2>4. Unread \in Seq(Payloads) /\ Len(Unread) = m
        BY UnreadType DEF IInv, HeadAtFrame
    <2>5. Len(pushed) - Len(popped') = m - 1
        BY <1>1, <1>2
    <2>6. QED
        BY <2>3, <2>4, <2>5
<1>5. Unread # <<>>
    BY <1>3, <1>4, EmptySeq
<1>6. Head(Unread) = ccell
    <2>1. Head(Unread) = Unread[1]
        BY <1>4, <1>5
    <2>2. Unread[1] = Payload(pushed[Len(popped) + 1].rec)
        BY <1>3 DEF Unread, PayloadsAfter
    <2>3. QED
        BY <2>1, <2>2, PoppedPayload
<1>7. /\ Tail(Unread) \in Seq(Payloads) /\ Len(Tail(Unread)) = m - 1
      /\ \A i \in 1..(m - 1) : Tail(Unread)[i] = Unread[i + 1]
    BY <1>4, <1>5, HeadTailProperties
<1>8. \A i \in 1..(m - 1) : Unread'[i] = Tail(Unread)[i]
    <2>1. SUFFICES ASSUME NEW i \in 1..(m - 1) PROVE Unread'[i] = Unread[i + 1]
        BY <1>7
    <2>2. i + 1 \in 1..m /\ Len(popped') + i = Len(popped) + (i + 1)
          /\ Len(pushed') - Len(popped') = m - 1
        BY <1>1, <1>2, <1>3
    <2>3. Unread'[i] = Payload(pushed[Len(popped') + i].rec)
        BY <2>2, <1>1 DEF Unread, PayloadsAfter, Payload
    <2>4. Unread[i + 1] = Payload(pushed[Len(popped) + (i + 1)].rec)
        BY <2>2 DEF Unread, PayloadsAfter
    <2>5. QED
        BY <2>2, <2>3, <2>4
<1>9. Unread' = Tail(Unread)
    BY <1>3, <1>4, <1>7, <1>8, SeqEqual
<1>10. QED
    BY <1>1, <1>5, <1>6, <1>9 DEF Queue!Dequeue

(* The byte ring implements the first-in first-out queue of whole records  *)
(* the transport relies on ("each ring is FIFO and drained in order").     *)
THEOREM ImplementsQueue == Spec => QueueSpec
<1>1. Init => Queue!Init
    BY DEF Init, Queue!Init, Unread, PayloadsAfter
<1>2. IInv /\ IInv' /\ [Next]_vars => [Queue!Next]_<<Unread, popped>>
    <2>1. SUFFICES ASSUME IInv, IInv', [Next]_vars
                   PROVE  Queue!Next \/ UNCHANGED <<Unread, popped>>
        OBVIOUS
    <2>2. ASSUME NEW r \in Rec, PushBegin(r) PROVE UNCHANGED <<Unread, popped>>
        BY <2>2 DEF PushBegin, cvars, Unread
    <2>3. CASE PushCopy
        BY <2>3 DEF PushCopy, cvars, Unread
    <2>4. CASE PushPublish
        BY <2>1, <2>4, PublishEnqueues DEF Queue!Next
    <2>5. CASE Peek
        BY <2>5 DEF Peek, NotEmpty, pvars, Unread
    <2>6. CASE PopCopy
        BY <2>6 DEF PopCopy, pvars, Unread
    <2>7. CASE PopRelease
        BY <2>1, <2>7, ReleaseDequeues DEF Queue!Next
    <2>8. CASE UNCHANGED vars
        BY <2>8 DEF vars, Unread
    <2>9. QED
        BY <2>1, <2>2, <2>3, <2>4, <2>5, <2>6, <2>7, <2>8 DEF Next, Producer, Consumer
<1>3. QED
    BY <1>1, <1>2, SpecIInv, PTL DEF Spec, QueueSpec, Queue!Spec

=============================================================================
