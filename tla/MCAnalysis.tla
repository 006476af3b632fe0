----------------------------- MODULE MCAnalysis -----------------------------
(***************************************************************************)
(* The critical-path analysis on the traces of small programs: in the end  *)
(* of every run of every program, what the analysis says is compared with  *)
(* what happened.                                                          *)
(***************************************************************************)
EXTENDS Analysis

(***************************************************************************)
(* The programs.                                                           *)
(***************************************************************************)
T(p) == <<p, 1>>
Send(p) == [op |-> "send", peer |-> p, tag |-> "5"]
Recv(p) == [op |-> "recv", peer |-> p, tag |-> "5"]
Isend(p, r) == [op |-> "isend", peer |-> p, tag |-> "5", req |-> r]
Irecv(p, r) == [op |-> "irecv", peer |-> p, tag |-> "5", req |-> r]
Test(rs) == [op |-> "test", req |-> rs]
Wait(rs) == [op |-> "wait", req |-> rs]
Barrier == [op |-> "barrier"]
Bcast(p) == [op |-> "bcast", root |-> p]
Launch(s) == [op |-> "launch", stream |-> s]
Kernel(s, name) == [op |-> "launch", stream |-> s, kernel |-> name]
Copy(s) == [op |-> "copy", stream |-> s]
RecordEv(s) == [op |-> "record", stream |-> s, event |-> "1"]
WaitEv(s) == [op |-> "streamwait", stream |-> s, event |-> "1"]
Sync == [op |-> "sync"]
SyncStr(s) == [op |-> "syncstream", stream |-> s]
Pause == [op |-> "pause"]
Lock == [op |-> "lock"]
Unlock == [op |-> "unlock"]
PushRange == [op |-> "push"]
PopRange == [op |-> "pop"]
Fork == [op |-> "fork"]
Task == [op |-> "task"]
Join == [op |-> "join"]
Two(a, b) == T(1) :> a @@ T(2) :> b
Prog(script, skew, lag, corrs, proxy, lost) ==
    [script |-> script, skew |-> [p \in 1 .. 3 |-> IF p = 2 THEN skew ELSE 0], lag |-> lag, corrs |-> corrs, proxy |-> proxy, lost |-> lost]
Plain(script) == Prog(script, 0, 0, 9, FALSE, {})

Overtaking == Plain(Two(<<Isend(2, "a"), Send(2)>>, <<Irecv(1, "a"), Recv(1), Wait({"a"})>>))
Wildcards == Plain(T(1) :> <<Send(3)>> @@ T(2) :> <<Send(3)>> @@ T(3) :> <<Irecv(0, "a"), Irecv(0, "b"), Wait({"a", "b"})>>)
LostSend(skew) == Prog(Two(<<Send(2), Send(2)>>, <<Recv(1), Recv(1)>>), skew, 0, 9, FALSE, {<<T(1), 1>>})
\* The same, while a third process is busy longer.
LostAside == Prog(Two(<<Send(2), Send(2)>>, <<Recv(1), Recv(1)>>) @@ T(3) :> <<Sync>>, 0, 0, 9, FALSE, {<<T(1), 1>>})
LostReceive == Prog(Two(<<Send(2), Send(2)>>, <<Recv(1), Recv(1)>>), 0, 0, 9, FALSE, {<<T(2), 1>>})
Skewed(d) == Prog(Two(<<Barrier, Send(2)>>, <<Barrier, Recv(1)>>), d, 0, 9, FALSE, {})
Rooted == Plain(Two(<<Bcast(1), Barrier>>, <<Bcast(1), Barrier>>))
Events(lag) == Prog(T(1) :> <<Launch("7"), RecordEv("7"), WaitEv("8"), Launch("8"), Sync>>, 0, lag, 9, FALSE, {})
Ahead == Prog(T(1) :> <<Launch("7"), Sync, Launch("7"), Sync>>, 0, -2, 9, FALSE, {})
Defaults == Prog(T(1) :> <<Launch("7"), Launch("0"), Launch("7"), SyncStr("7")>>, 0, 0, 9, FALSE, {})
Reused(lag) == Prog(T(1) :> <<Copy("0"), Launch("7"), Sync, Pause, Launch("7"), Sync>>, 0, lag, 2, TRUE, {})
\* Two streams at the same time, and two processes of unequal work.
Streamwise == Plain(T(1) :> <<Launch("7"), Launch("8"), Sync>>)
Uneven == Plain(Two(<<Launch("7")>>, <<Launch("7")>>))
\* Two iterations, in annotation ranges.
Iterations == Plain(T(1) :> <<PushRange, PushRange, Launch("7"), Sync, PopRange, PushRange, Launch("7"), Sync, PopRange, PopRange>>)
Locked == Plain(<<1, 1>> :> <<Lock, Unlock>> @@ <<1, 2>> :> <<Lock, Unlock, Lock, Unlock>>)
\* A parallel region: its implicit tasks name it from other threads.
ForkJoin == Plain(<<1, 1>> :> <<Fork, Task, Join>> @@ <<1, 2>> :> <<Task>> @@ <<1, 3>> :> <<Task>>)
\* Calls with their stack frames, one of them of a function that is called
\* elsewhere too.
FromFrames(op, frames) == op @@ [at |-> frames]
Framed == Plain(T(1) :> <<FromFrames(Launch("7"), <<"step", "main">>), FromFrames(Sync, <<"main">>), FromFrames(Launch("7"), <<"launch", "step", "main">>), FromFrames(Sync, <<"step", "main">>)>>)
\* A receive completed by polling, between two others.
Polled == Plain(Two(<<Send(2), Send(2)>>, <<Irecv(1, "a"), Test({"a"}), Recv(1)>>))
\* Two builds of one program: the kernel's name is of its compilation.
BuildOf(name) == Plain(T(1) :> <<Kernel("7", name), Sync>>)
Fewer == Plain(T(1) :> <<PushRange, Launch("7"), Sync, PopRange>>)
Ring == Plain(Two(<<Send(2), Recv(2)>>, <<Recv(1), Send(1)>>))
\* The last two have nothing in common.
Alone == Plain(T(1) :> <<Lock, Unlock>>)
MCReruns == {<<BuildOf("jit_1"), BuildOf("jit_2")>>, <<Ring, Ring>>, <<Fewer, Fewer>>, <<Fewer, Alone>>}
MCShown(name) == IF name \in {"jit_1", "jit_2"} THEN "jit" ELSE name
MCPolled == {Polled}
MCPrograms ==
    {Overtaking, Wildcards, LostSend(0), LostAside, LostReceive, Skewed(1), Skewed(-2), Rooted, Events(0), Events(2), Ahead, Defaults, Reused(0), Reused(2), Iterations, Locked, ForkJoin, Framed, Streamwise, Uneven,
     BuildOf("jit_1"), Ring, Fewer}
=============================================================================
