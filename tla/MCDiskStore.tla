----------------------------- MODULE MCDiskStore ----------------------------
(* Two shards and two names, and the uses of the store looked at.          *)
EXTENDS DiskStore, TLC

CONSTANTS s1, s2, n1, n2
MCShard == {s1, s2}
MCName == {n1, n2}
Symmetry == Permutations(MCShard) \cup Permutations(MCName)

(* One thread at a time, batches of two events, closed and opened again.   *)
Sequential == [batch |-> 2, concurrent |-> FALSE, asks |-> Derived,
               appends |-> 2, changes |-> 1, closes |-> 1, crashes |-> 0]

(* All three threads at once, and a death of the process at any point.     *)
Crowded == [Sequential EXCEPT !.batch = 1, !.concurrent = TRUE, !.asks = {"excl"}, !.closes = 0, !.crashes = 1]

(* One thread at a time, and a death of the process.                       *)
Dying == [Crowded EXCEPT !.concurrent = FALSE]

SoundUses == {Sequential, Crowded}
StaleUses == {Dying}
=============================================================================
