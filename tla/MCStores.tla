------------------------------ MODULE MCStores ------------------------------
(***************************************************************************)
(* Instances of Stores: spans of two processes on threads, streams and     *)
(* devices, with samples, in every overlap of a few times.                 *)
(***************************************************************************)
EXTENDS Stores

Host == [pid |-> 1, tid |-> 1, cat |-> "mpi", name |-> "recv", side |-> "", stream |-> 0, type |-> "send",
         stack |-> FALSE, rt |-> "", sid |-> 7]
Lock == [Host EXCEPT !.cat = "sync", !.name = "lock", !.type = "", !.sid = 0]
Sample == [Host EXCEPT !.cat = "cpu", !.name = "sample", !.type = "", !.stack = TRUE, !.sid = 0]
Other == [Host EXCEPT !.pid = 2, !.rt = "cuda"]
Kernel == [Host EXCEPT !.cat = "cuda", !.name = "copy_gpu", !.side = "gpu", !.stream = 3, !.type = "kernel",
                       !.rt = "cuda"]
At(kind, start, dur) == kind @@ [start |-> start, dur |-> dur]
MCShapes == {At(Host, 0, 4), At(Host, 1, 2), At(Host, 2, 0), At(Lock, 1, 3), At(Lock, 1, 2),
             At(Sample, 0, 1), At(Sample, 1, 2), At(Other, 1, 3), At(Kernel, 1, 2), At(Kernel, 0, 4)}
\* Every overlap; and fewer spans with a program that draws lanes, one that
\* lists totals, one that needs times.
Few == {At(Host, 0, 4), At(Host, 2, 0), At(Lock, 1, 2), At(Other, 1, 3)}
Asking(S) == [shapes |-> Few, asks |-> S]
MCUses == {[shapes |-> MCShapes, asks |-> {}], Asking({"lanes", "activity"}), Asking({"agg", "excl"}), Asking({"timed", "events"})}
MCChanged == {<<2, 3>>}
MCLevels == <<4, 2, 1>>
=============================================================================
