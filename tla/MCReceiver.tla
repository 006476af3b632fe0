----------------------------- MODULE MCReceiver -----------------------------
(* Connections c1 and c2 and the lines their hooks write.                  *)
EXTENDS Receiver, TLC

CONSTANTS c1, c2, k1, k2
MCConn == {c1, c2}
MCKey == {k1, k2}

Data(k) == [key |-> k, kind |-> "data", sent |-> 0]
Bad(k) == [key |-> k, kind |-> "bad", sent |-> 0]
Status(k, n) == [key |-> k, kind |-> "status", sent |-> n]
Final(k, n) == [key |-> k, kind |-> "final", sent |-> n]

(* Two hooks, each with a connection of its own; c2 may be another user's. *)
TwoHooks == [
    script |-> (c1 :> <<Data(k1), Final(k1, 1)>>) @@ (c2 :> <<Bad(k2)>>),
    foreign |-> {c2}, parts |-> 1, spoolfail |-> FALSE, fail |-> FALSE]

(* A hook that may be killed between any two lines, while every operation  *)
(* on its spool may fail; and one that may be killed in the middle of one. *)
Killed == [
    script |-> c1 :> <<Data(k1), Status(k1, 1), Data(k1), Final(k1, 2)>>,
    foreign |-> {}, parts |-> 1, spoolfail |-> TRUE, fail |-> TRUE]
Torn == [Killed EXCEPT !.script = c1 :> <<Data(k1), Final(k1, 1)>>, !.parts = 2]

SoundCaptures == {TwoHooks, Killed, Torn}
=============================================================================
