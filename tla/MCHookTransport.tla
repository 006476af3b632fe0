-------------------------- MODULE MCHookTransport --------------------------
(* The uses of the transport that are looked at.  Rings hold one record,   *)
(* so that a second one waits.                                             *)
EXTENDS HookTransport, TLC

CONSTANTS t1, t2, d1, d2
MCThread == {t1, t2}
MCDrain == {d1, d2}
Symmetry == Permutations(MCThread)

Each(n) == [t \in MCThread |-> n]

(* Two threads that fill their rings, and a shutdown by either of them.    *)
Full == [threads |-> MCThread, drains |-> {d1}, batch |-> 1, wait |-> TRUE, late |-> FALSE, emits |-> Each(2),
         reject |-> FALSE, fail |-> FALSE, timeout |-> FALSE, shutdowns |-> 1, breaks |-> 0,
         stall |-> FALSE, fork |-> FALSE, down |-> FALSE]

(* Everything that can fail, and a fork, for two threads of one record.    *)
Faulty == [Full EXCEPT !.batch = 2, !.wait = FALSE, !.emits = Each(1), !.reject = TRUE, !.fail = TRUE,
                       !.breaks = 1, !.fork = TRUE, !.down = TRUE]

(* One emitting thread without memory for its ring's batch, and another    *)
(* that shuts down.                                                        *)
Starving == [Full EXCEPT !.emits = [t \in MCThread |-> IF t = t1 THEN 3 ELSE 0], !.fail = TRUE]

(* One thread that shuts down, fails to exec and starts again beside a     *)
(* drain thread that outlived its join, and emits after its TLS destructor.*)
Restarted == [Full EXCEPT !.threads = {t1}, !.drains = MCDrain, !.late = TRUE, !.timeout = TRUE, !.shutdowns = 2]

(* One emitting thread, another that shuts down, and a collector that may  *)
(* stop reading.                                                           *)
Stalling == [Full EXCEPT !.emits = [t \in MCThread |-> IF t = t1 THEN 3 ELSE 0], !.stall = TRUE]

(* The same with a bounded join, for one thread of one record.             *)
Hanging == [Stalling EXCEPT !.threads = {t1}, !.emits = Each(1), !.timeout = TRUE]

SafetyUses == {Full, Faulty, Starving, Restarted}
LiveUses == {Stalling}
HangUses == {Hanging}
=============================================================================
