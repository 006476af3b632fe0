----------------------------- MODULE MCCapture -----------------------------
(***************************************************************************)
(* Two hooks of one process: both send spans of the same thread, one sends *)
(* a call stack for its own; a kernel's name holds colons; perf takes      *)
(* three samples, one of a command whose name has a space.  The same under *)
(* the node collector.  And a program behind a launcher.                   *)
(***************************************************************************)
EXTENDS Capture

Rec(e) == [kind |-> e.kind, segs |-> <<>>, means |-> e]
Stk(start) == [kind |-> "stk", segs |-> <<Num(1), Num(1), Num(start), Text("frames")>>, means |-> NoEvent]
Call == [kind |-> "span", cat |-> "mpi", pid |-> 1, tid |-> 1, start |-> 1, dur |-> 2, name |-> <<"MPI_Send">>, tags |-> [peer |-> 1]]
Kernel(start) == [kind |-> "span", cat |-> "cuda", pid |-> 1, tid |-> 1, start |-> start, dur |-> 1,
                  name |-> <<"ns", "", "kernel">>, tags |-> [side |-> "gpu", mod |-> "m"]]
Module == [kind |-> "span", cat |-> "jit", pid |-> 1, tid |-> 1, start |-> 5, dur |-> 1, name |-> <<"m">>,
           tags |-> [type |-> "jit_load", path |-> "saved", mod |-> "m"]]
Used == [kind |-> "ctr", cat |-> "cuda", pid |-> 1, ts |-> 9, name |-> <<"mem">>, value |-> 4, unit |-> <<"bytes">>]
Mark == [kind |-> "inst", segs |-> <<Text("unheard"), Num(1), Num(1), Num(9), Text("mark")>>,
         means |-> [kind |-> "inst", cat |-> "other", pid |-> 1, tid |-> 1, ts |-> 9, name |-> <<"mark">>, tags |-> <<>>]]
Bad == [kind |-> "span", segs |-> <<Text("cuda"), Text("?"), Num(1), Num(1), Num(1)>>, means |-> NoEvent]
Status(fields) == [kind |-> "gpuact", segs |-> <<Num(1), Text("cupti"), [t |-> "tags", v |-> fields]>>, means |-> NoEvent]
Active == Status([status |-> "active", final_marker |-> 1])
Pc == [kind |-> "pcsa", segs |-> <<Num(1), Num(1), Text("f"), Num(1), Num(1), Num(1)>>, means |-> NoEvent]
Samples == <<[ts |-> 5, frames |-> <<"leaf", "main">>, odd |-> FALSE], [ts |-> 6, frames |-> <<"other">>, odd |-> TRUE],
             [ts |-> 7, frames |-> <<>>, odd |-> FALSE]>>
Counted == <<<<"cycles", 2>>, <<"instructions", 1>>, <<"cycles", 2>>, <<"branches", 0>>>>

TwoHooks == [collector |-> FALSE, disasm |-> TRUE, place |-> "tmp", perf |-> TRUE, sampled |-> Samples, readings |-> Counted,
             script |-> [mpi |-> <<Rec(Call), Stk(1)>>, cuda |-> <<Rec(Kernel(7)), Rec(Kernel(8))>>],
             peer |-> [mpi |-> <<1, "app">>, cuda |-> <<1, "app">>]]
Launcher == [collector |-> FALSE, disasm |-> TRUE, place |-> "abstract", perf |-> FALSE, sampled |-> <<>>, readings |-> <<>>,
             script |-> [sh |-> <<>>, cuda |-> <<Active, Rec(Module), Rec(Used), Mark, Bad, Pc, Status([dropped |-> 1]),
                                                 Rec(Kernel(7)), Status([dropped |-> 1, final_flush |-> 1])>>],
             peer |-> [sh |-> <<2, "sh">>, cuda |-> <<1, "app">>]]
Collector == [TwoHooks EXCEPT !.collector = TRUE, !.disasm = FALSE, !.place = "stale",
                              !.script.cuda = <<Active, Rec(Kernel(7)), Status([final_flush |-> 1])>>]
Refused == [Collector EXCEPT !.place = "too_long"]
MCJobs == {TwoHooks, Launcher, Collector, Refused}
=============================================================================
