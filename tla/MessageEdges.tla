---------------------------- MODULE MessageEdges ----------------------------
(***************************************************************************)
(* Dependency edges between ranks (src/analysis/criticalpath.py and        *)
(* semantics/nccl.py): MPI point-to-point pairing, the grouping of         *)
(* collectives and barriers into rendezvous, NCCL.  Edges are a set of     *)
(* [dst, src, kind, conf].  Tag values that hold lists (rmatches=, cpsid=) *)
(* are the parsed value: a function from request ids, a set of them.       *)
(***************************************************************************)
EXTENDS SpanTags

SendTypes == {"send", "isend", "ssend", "bsend", "rsend", "issend", "ibsend", "irsend"}
WaitNames == {"MPI_Wait", "MPI_Waitall", "MPI_Waitany", "MPI_Waitsome"}
PersistentTypes == {"send_init", "bsend_init", "ssend_init", "rsend_init", "recv_init"}
CollectiveTypes == {"allreduce", "bcast", "reduce", "alltoall", "allgather", "scatter", "gather", "barrier", "scan"}
NcclCollectiveTypes == {"allreduce", "broadcast", "reduce", "allgather", "reduce_scatter", "alltoall"}
NonblockingTypes == {"ibarrier", "ibcast", "iallreduce", "ireduce"}
FromRoot == {"bcast", "scatter", "ibcast"}
ToRoot == {"reduce", "gather", "ireduce"}

(***************************************************************************)
(* Loss.  health is [bad, transport]: bad says that the receiver saw       *)
(* records it cannot tie to a process; transport is a set of               *)
(* [pid, hook, lost, ended_without_final, final, sent, received].                               *)
(***************************************************************************)
AllProcesses == {-1}         \* a value of its own: no process has this id
LostSome(t) == t.lost \/ t.ended_without_final \/ (t.final /\ t.received < t.sent)
EventLossPids(health, hooks, pids) ==
    LET lossy == {t.pid : t \in {u \in health.transport : u.hook \in hooks /\ LostSome(u)}}
    IN IF health.bad \/ ~(lossy \subseteq pids) THEN AllProcesses ELSE lossy
Lossy(lossy, pids) == lossy = AllProcesses \/ (lossy # AllProcesses /\ lossy \cap pids # {})

(***************************************************************************)
(* _P2PMatcher: posts and completions as add() collects them.              *)
(***************************************************************************)
IsMpi(s) == s.cat = "mpi"
\* A persistent request that is started is a post like Isend or Irecv.
PostType(s) == IF Tag(s, "type") # "start" THEN Tag(s, "type")
               ELSE CASE Tag(s, "ptype") = "send" -> "isend" [] Tag(s, "ptype") = "recv" -> "irecv" [] OTHER -> None
NotNull(s) == IsMpi(s) /\ Tag(s, "null") # "1"
Sends(spans) == {i \in DOMAIN spans : NotNull(spans[i]) /\ PostType(spans[i]) \in SendTypes /\ Has(spans[i], "peer")}
Blocking(spans) == {i \in DOMAIN spans : NotNull(spans[i]) /\ PostType(spans[i]) = "recv" /\ Has(spans[i], "peer")}
Irecvs(spans) == {i \in DOMAIN spans : NotNull(spans[i]) /\ PostType(spans[i]) = "irecv" /\ spans[i].sid # None}
Waits(spans) == {i \in DOMAIN spans : IsMpi(spans[i]) /\ spans[i].name \in WaitNames /\ spans[i].psid # <<>>}

\* Requests are named (pid, id): ids are unique within a process only.
Request(s) == <<s.pid, s.sid>>
Names(spans, w) == {<<spans[w].pid, r>> : r \in Range(spans[w].psid)}
CancelledBy(s) == IF Has(s, "cpsid") THEN s.tags.cpsid
                  ELSE IF Tag(s, "cancelled") = "1" /\ Len(s.psid) = 1 THEN Range(s.psid) ELSE {}
Cancelled(spans) == UNION {{<<spans[w].pid, r>> : r \in CancelledBy(spans[w])} : w \in Waits(spans)}

\* What MPI_Status said of the message: of each request of a multiple
\* completion (rmatches=), or of the only one.
Resolved(s, req) == (Has(s, "rmatches") /\ req \in DOMAIN s.tags.rmatches) \/ (Len(s.psid) = 1 /\ Has(s, "rpeer"))
Status(s, req) ==
    IF Has(s, "rmatches") /\ req \in DOMAIN s.tags.rmatches
    THEN [peer |-> s.tags.rmatches[req][1], tag |-> s.tags.rmatches[req][2], wpeer |-> s.tags.rmatches[req][3]]
    ELSE IF Resolved(s, req) THEN [peer |-> s.tags.rpeer, tag |-> Tag(s, "rtag"), wpeer |-> Tag(s, "rwpeer")]
    ELSE [peer |-> None, tag |-> None, wpeer |-> None]
\* The completion of a request: the last resolved one, else the first.
Completer(spans, req) ==
    LET all == {w \in Waits(spans) : req \in Names(spans, w)}
        told == {w \in all : Resolved(spans[w], req[2])}
    IN IF told # {} THEN {Max(told)} ELSE IF all # {} THEN {Min(all)} ELSE {}

(***************************************************************************)
(* Channels: (source, destination, tag, communicator) in world ranks; the  *)
(* traces of older hooks, without wpeer=, are keyed by what they have.     *)
(***************************************************************************)
WorldInfo(spans) == \E i \in DOMAIN spans : IsMpi(spans[i]) /\ DOMAIN spans[i].tags \cap {"wpeer", "rwpeer", "rwmatches"} # {}
WorldOf(w, local, commid) == IF w # None THEN w ELSE IF commid = "0" THEN local ELSE None

SendKey(spans, i) ==
    LET s == spans[i]
    IN IF WorldInfo(spans) THEN <<Tag(s, "rank"), WorldOf(Tag(s, "wpeer"), Tag(s, "peer"), Tag(s, "commid")),
                                  Tag(s, "tag"), Tag(s, "commid")>>
       ELSE <<Tag(s, "rank"), Tag(s, "peer"), Tag(s, "tag")>>
RecvKey(spans, s, from) ==
    IF WorldInfo(spans) THEN <<WorldOf(from.wpeer, from.peer, Tag(s, "commid")), Tag(s, "rank"), from.tag, Tag(s, "commid")>>
    ELSE <<from.peer, Tag(s, "rank"), from.tag>>
Keyed(spans, key) == ~WorldInfo(spans) \/ (key[1] # None /\ key[2] # None)

KeptSends(spans) == {i \in Sends(spans) : spans[i].sid = None \/ Request(spans[i]) \notin Cancelled(spans)}
KeyedSends(spans) == {i \in KeptSends(spans) : Keyed(spans, SendKey(spans, i))}

\* A receive: the post whose order counts, and the span that completed it.
Posted(s) == [peer |-> Tag(s, "peer"), tag |-> Tag(s, "tag"), wpeer |-> Tag(s, "wpeer")]
Wildcard(s) == Tag(s, "wildcard") = "1"
Receive(spans, i, target, from, conf) ==
    [post |-> i, target |-> target, key |-> RecvKey(spans, spans[i], from), conf |-> conf, commid |-> Tag(spans[i], "commid")]
BlockingReceives(spans) ==
    {Receive(spans, i, i, Posted(spans[i]), IF Wildcard(spans[i]) THEN "high" ELSE "medium") : i \in Blocking(spans)}
IrecvReceives(spans) ==
    UNION {LET s == spans[i]
           IN {Receive(spans, i, w, IF Wildcard(s) THEN Status(spans[w], s.sid) ELSE Posted(s),
                       IF Wildcard(s) THEN "high" ELSE "medium") :
                 w \in {v \in Completer(spans, Request(s)) :
                          IF Wildcard(s) THEN Status(spans[v], s.sid).peer # None ELSE Has(s, "peer")}} :
           i \in {j \in Irecvs(spans) : Request(spans[j]) \notin Cancelled(spans)}}
Receives(spans) == BlockingReceives(spans) \cup IrecvReceives(spans)
KeyedReceives(spans) == {r \in Receives(spans) : ~WorldInfo(spans) \/ r.key[1] # None}

\* Position within a channel: by time, blocking receives first on a tie.
PostedBefore(spans, a, b) ==
    \/ spans[a].start < spans[b].start
    \/ spans[a].start = spans[b].start
       /\ (IF (a \in Irecvs(spans)) = (b \in Irecvs(spans)) THEN a < b ELSE b \in Irecvs(spans))
RecvPosition(spans, r) == Cardinality({q \in KeyedReceives(spans) : q.key = r.key /\ PostedBefore(spans, q.post, r.post)})
SendPosition(spans, i) ==
    Cardinality({j \in KeyedSends(spans) : SendKey(spans, j) = SendKey(spans, i) /\ PostedBefore(spans, j, i)})
PairedByArrival(spans, r) ==
    {i \in KeyedSends(spans) : SendKey(spans, i) = r.key /\ \A j \in KeyedSends(spans) :
        SendKey(spans, j) = r.key /\ spans[j].start <= EndOf(spans[r.target]) => j = i \/ PostedBefore(spans, j, i)}
\* MPI's non-overtaking rule: the k-th send of a channel with its k-th receive.
Paired(spans, r) == {i \in KeyedSends(spans) : SendKey(spans, i) = r.key /\ SendPosition(spans, i) = RecvPosition(spans, r)}

\* The opt-in rule: an exact match is "high" where the channel's capture is
\* complete.  exact is [on, complete, tainted].
Tainted(spans, exact) ==
    exact.tainted \cup {<<spans[i].pid, Tag(spans[i], "commid")>> : i \in {j \in DOMAIN spans : Tag(spans[j], "type") \in PersistentTypes}}
ChannelComplete(spans, r, exact) ==
    /\ exact.on /\ WorldInfo(spans) /\ r.commid # "-1"
    /\ Cardinality({i \in KeyedSends(spans) : SendKey(spans, i) = r.key}) = Cardinality({q \in KeyedReceives(spans) : q.key = r.key})
    /\ \A i \in Sends(spans) : spans[i].sid # None /\ Request(spans[i]) \in Cancelled(spans) => Tag(spans[i], "commid") # r.commid
PairConf(spans, r, src, lossy, exact) ==
    LET pids == {spans[src].pid, spans[r.target].pid}
    IN IF Lossy(lossy, pids) THEN "low"
       ELSE IF /\ r.conf = "medium" /\ ChannelComplete(spans, r, exact) /\ pids \subseteq exact.complete
               /\ (pids \X {r.commid, None}) \cap Tainted(spans, exact) = {} THEN "high"
       ELSE r.conf
P2PEdges(spans, lossy, exact) ==
    UNION {{Edge(r.target, i, "p2p", PairConf(spans, r, i, lossy, exact)) : i \in Paired(spans, r)} : r \in KeyedReceives(spans)}

\* mpi_dependency_diagnostics; tests is the set of requests that MPI_Test*
\* completed.  A send without a key counts among the receives.
Diagnostics(spans, tests) ==
    LET posted == {Request(spans[i]) : i \in {j \in DOMAIN spans : IsMpi(spans[j]) /\ spans[j].sid # None}}
        waited == UNION {Names(spans, w) : w \in Waits(spans)}
        idle == {i \in DOMAIN spans : IsMpi(spans[i]) /\ spans[i].name \in WaitNames /\ spans[i].psid = <<>>
                                      /\ Tag(spans[i], "completed_index") # "none"}
        unkeyed == KeptSends(spans) \ KeyedSends(spans)
        told(s) == {w \in Completer(spans, Request(s)) : Wildcard(s) => Status(spans[w], s.sid).peer # None}
    IN [receives |-> Cardinality(Receives(spans)) + Cardinality(unkeyed),
        matched |-> Cardinality({r \in KeyedReceives(spans) : Paired(spans, r) # {}}),
        unmatched |-> {r.commid : r \in {q \in Receives(spans) : q \notin KeyedReceives(spans) \/ Paired(spans, q) = {}}}
                      \cup {Tag(spans[i], "commid") : i \in unkeyed},
        legacy_key |-> ~WorldInfo(spans),
        unfinished |-> {i \in Irecvs(spans) : Request(spans[i]) \notin Cancelled(spans) /\ told(spans[i]) = {}},
        test_only |-> tests \ waited,
        orphans |-> Cardinality(idle) + Cardinality(waited \ posted)]

(***************************************************************************)
(* Rendezvous.  An item is [start, end, i, lane, type, key]: lane is the   *)
(* member (OpenMP: the thread), key how its calls are grouped.             *)
(***************************************************************************)
Item(spans, i, lane, type, key) ==
    [start |-> spans[i].start, end |-> EndOf(spans[i]), i |-> i, lane |-> lane, type |-> type, key |-> key]

\* An unregistered communicator (-1) may mix several: unknown.
CommOf(s) == IF Tag(s, "commid") = "-1" THEN None ELSE Tag(s, "commid")
MemberOf(s) == IF Has(s, "rank") THEN <<"rank", s.tags.rank>> ELSE <<"pid", s.pid>>
IsMpiCall(s) == IsMpi(s) /\ ((Tag(s, "type") \in NonblockingTypes /\ s.sid # None) \/ (Tag(s, "type") \in CollectiveTypes /\ s.dur > 0))
MpiItems(spans) ==
    {Item(spans, i, MemberOf(spans[i]), Tag(spans[i], "type"),
          IF CommOf(spans[i]) # None THEN <<"order", CommOf(spans[i])>> ELSE <<"overlap", Tag(spans[i], "type")>>)
       : i \in {j \in DOMAIN spans : IsMpiCall(spans[j])}}

\* Only barriers are rendezvous; an omp_reduction without sk= is one that
\* an older hook named late.
IsBarrier(s) == s.cat = "sync" /\ s.dur > 0 /\ (s.name = "omp_barrier" \/ (s.name = "omp_reduction" /\ ~Has(s, "sk")))
TeamOf(s) == IF Has(s, "team") THEN s.tags.team ELSE IF s.psid # <<>> THEN s.psid[1] ELSE None
OmpItems(spans) ==
    {Item(spans, i, spans[i].tid, spans[i].name,
          IF TeamOf(spans[i]) # None THEN <<"order", spans[i].pid, spans[i].name, TeamOf(spans[i])>>
          ELSE <<"overlap", spans[i].pid, spans[i].name>>)
       : i \in {j \in DOMAIN spans : IsBarrier(spans[j])}}

\* _cluster_rendezvous: connected chains of overlapping intervals.
Chained(items, a, b) ==
    \A x \in items : (a.start < x.start /\ x.start <= b.start) => \E y \in items : y.start < x.start /\ x.start <= y.end
ClusterOf(items, a) == {b \in items : IF a.start <= b.start THEN Chained(items, a, b) ELSE Chained(items, b, a)}
OverlapGroups(items) == {g \in {{b.i : b \in ClusterOf(items, a)} : a \in items} : Cardinality(g) > 1}

\* _order_groups: the k-th call of every lane, provided every lane made the
\* same calls.
Lanes(items) == {it.lane : it \in items}
Nth(items, it) == Cardinality({o \in items : o.lane = it.lane /\ (o.start < it.start \/ (o.start = it.start /\ o.i < it.i))})
Column(items, k) == {it \in items : Nth(items, it) = k}
SameCalls(items) ==
    \A k \in 0 .. Cardinality(items) :
        Column(items, k) # {} => Lanes(Column(items, k)) = Lanes(items) /\ Cardinality({it.type : it \in Column(items, k)}) = 1
OrderGroups(items) == {{it.i : it \in Column(items, k)} : k \in {Nth(items, it) : it \in items}}

Graded(groups, conf) == {<<g, conf>> : g \in groups}
GroupsOf(kind, key, items) ==
    CASE key[1] = "seq" -> Graded({{it.i : it \in items}}, "high")
      [] key[1] = "order" /\ Cardinality(Lanes(items)) < 2 -> {}
      [] key[1] = "order" /\ Cardinality(Lanes(items)) >= 2 /\ SameCalls(items) -> Graded(OrderGroups(items), "high")
      [] key[1] = "order" /\ Cardinality(Lanes(items)) >= 2 /\ ~SameCalls(items) /\ kind = "mpi" ->
           UNION {Graded(OverlapGroups({it \in items : it.type = t}), "medium") : t \in {it.type : it \in items}}
      [] OTHER -> Graded(OverlapGroups(items), "medium")
RendezvousGroups(kind, items) ==
    UNION {GroupsOf(kind, key, {it \in items : it.key = key}) : key \in {it.key : it \in items}}

\* Every member is gated by the last to arrive.
GroupArrivalEdges(spans, groups) ==
    UNION {LET last == LatestBy(g[1], LAMBDA i : spans[i].start)
           IN {Edge(i, last, "arrival", g[2]) : i \in g[1] \ {last}} : g \in {h \in groups : Cardinality(h[1]) >= 2}}

\* A non-blocking collective completes in the wait that names its request.
CompletionOf(spans, i) ==
    IF Tag(spans[i], "type") \notin NonblockingTypes THEN {i}
    ELSE LET ws == {w \in Waits(spans) : Request(spans[i]) \in Names(spans, w)} IN IF ws = {} THEN {} ELSE {Min(ws)}
RootsOf(spans, g) == {Tag(spans[i], "wroot") : i \in g}
TypesOf(spans, g) == {Tag(spans[i], "type") : i \in g}
RootOf(spans, g) ==
    LET roots == {i \in g : Tag(spans[i], "rank") \in RootsOf(spans, g)}
    IN IF /\ Cardinality(RootsOf(spans, g)) = 1 /\ None \notin RootsOf(spans, g) /\ Cardinality(roots) = 1
          /\ (TypesOf(spans, g) \subseteq FromRoot \/ TypesOf(spans, g) \subseteq ToRoot) THEN roots ELSE {}
\* <<source, member>>: whom each member of a collective waits for.
Links(spans, g) ==
    LET last == LatestBy(g, LAMBDA i : spans[i].start)
        root == RootOf(spans, g)
    IN IF root = {} THEN {<<last, i>> : i \in g \ {last}}
       ELSE IF TypesOf(spans, g) \subseteq FromRoot THEN {<<r, i>> : r \in root, i \in g \ root}
       ELSE {<<last, r>> : r \in root \ {last}}
MpiCollectiveEdges(spans, groups) ==
    UNION {LET linked == {l \in Links(spans, g[1]) : CompletionOf(spans, l[2]) # {}}
               alone == g[1] \ {l[2] : l \in linked}
           IN UNION {{Edge(d, l[1], "arrival", g[2]) : d \in CompletionOf(spans, l[2])} : l \in linked}
              \cup UNION {{Edge(d, i, "arrival", g[2]) : d \in CompletionOf(spans, i) \ {i}} : i \in alone}
           : g \in {h \in groups : Cardinality(h[1]) >= 2}}
MpiRendezvousEdges(spans) == MpiCollectiveEdges(spans, RendezvousGroups("mpi", MpiItems(spans)))
OmpBarrierEdges(spans) == GroupArrivalEdges(spans, RendezvousGroups("omp", OmpItems(spans)))

(***************************************************************************)
(* NCCL: the span that times an operation's work, point-to-point by pseq=, *)
(* collectives by (commid, seq).                                           *)
(***************************************************************************)
IsNccl(s) == s.cat = "nccl"
DeviceCopy(spans, s) == {d \in DOMAIN spans : IsNccl(spans[d]) /\ Tag(spans[d], "side") = "gpu" /\ s.sid # None
                                               /\ spans[d].pid = s.pid /\ spans[d].psid = <<s.sid>>}
GroupWork(spans, s) ==
    LET execs == {i \in DOMAIN spans : /\ IsNccl(spans[i]) /\ Tag(spans[i], "type") = "group_exec" /\ spans[i].pid = s.pid
                                       /\ Tag(spans[i], "group") = Tag(s, "group") /\ Tag(spans[i], "stream") = Tag(s, "stream")}
        gpu == {i \in execs : Tag(spans[i], "side") = "gpu"} \cup UNION {DeviceCopy(spans, spans[i]) : i \in execs}
    IN IF gpu # {} THEN {Max(gpu)} ELSE IF execs # {} THEN {Min(execs)} ELSE {}
Effective(spans, i) ==
    LET s == spans[i]
        work == IF Tag(s, "timing") = "deferred" THEN GroupWork(spans, s)
                ELSE IF Tag(s, "side") = "cpu" /\ DeviceCopy(spans, s) # {} THEN {Max(DeviceCopy(spans, s))} ELSE {}
    IN IF work = {} THEN i ELSE CHOOSE j \in work : TRUE
Operations(spans) ==
    {i \in DOMAIN spans : IsNccl(spans[i]) /\ Tag(spans[i], "side") # "gpu" /\ Tag(spans[i], "type") \notin {"group", "group_exec"}}

NcclKey(s) == IF Tag(s, "type") = "send" THEN <<Tag(s, "commid"), Tag(s, "rank"), Tag(s, "peer"), Tag(s, "pseq")>>
              ELSE <<Tag(s, "commid"), Tag(s, "peer"), Tag(s, "rank"), Tag(s, "pseq")>>
NcclP2PEdges(spans, lossy) ==
    LET ops(t) == {i \in Operations(spans) : Tag(spans[i], "type") = t /\ Has(spans[i], "pseq") /\ Has(spans[i], "commid")}
        matched == {<<a, b>> \in ops("send") \X ops("recv") :
                      /\ NcclKey(spans[a]) = NcclKey(spans[b])
                      /\ \A c \in ops("send") : NcclKey(spans[c]) = NcclKey(spans[b]) => c <= a}
    IN {Edge(Effective(spans, m[2]), Effective(spans, m[1]), "p2p",
             IF Lossy(lossy, {spans[m[1]].pid, spans[m[2]].pid}) THEN "low" ELSE "certain") :
          m \in {n \in matched : Effective(spans, n[1]) # Effective(spans, n[2])}}
NcclItems(spans) ==
    {LET s == spans[i]
     IN Item(spans, Effective(spans, i), <<"pid", s.pid>>, Tag(s, "type"),
             IF Has(s, "commid") /\ Has(s, "seq") THEN <<"seq", Tag(s, "type"), s.tags.commid, s.tags.seq>>
             ELSE <<"overlap", Tag(s, "type"), Tag(s, "commid")>>)
       : i \in {j \in Operations(spans) : Tag(spans[j], "type") \in NcclCollectiveTypes /\ spans[Effective(spans, j)].dur > 0}}
NcclEdges(spans, lossy) ==
    NcclP2PEdges(spans, lossy) \cup GroupArrivalEdges(spans, RendezvousGroups("nccl", NcclItems(spans)))
=============================================================================
