---------------------------- MODULE RecordQueue ----------------------------
(***************************************************************************)
(* What a hook thread's ring promises to the transport: a first-in         *)
(* first-out queue of whole records.  hooks/common/hp_transport.h relies   *)
(* on nothing else ("each ring is FIFO and drained in order").             *)
(***************************************************************************)
EXTENDS Sequences

CONSTANT Item   \* the records, as the bytes the drain hands to the socket

VARIABLES
    q,          \* records published and not yet taken
    out         \* records taken, in the order they were taken

Init == q = <<>> /\ out = <<>>

(* A successful rb_bytes_push.                                             *)
Enqueue(x) == q' = Append(q, x) /\ UNCHANGED out

(* An rb_bytes_peek_len that finds a record, and its rb_bytes_pop.         *)
Dequeue ==
    /\ q # <<>>
    /\ out' = Append(out, Head(q))
    /\ q' = Tail(q)

Next == (\E x \in Item : Enqueue(x)) \/ Dequeue

Spec == Init /\ [][Next]_<<q, out>>
=============================================================================
