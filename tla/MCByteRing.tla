----------------------------- MODULE MCByteRing -----------------------------
(* A ring of 8 cells and records of 1 and 3 cells behind a prefix of 2:    *)
(* frames of 3 and 5 cells wrap at every offset, and two frames fill the   *)
(* ring exactly.                                                           *)
EXTENDS ByteRing, TLC

CONSTANTS a, b
MCRec == {a, b}
MCLenOf == (a :> 1) @@ (b :> 3)
=============================================================================
