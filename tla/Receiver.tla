------------------------------ MODULE Receiver ------------------------------
(***************************************************************************)
(* The collector side of the hook protocol (src/core/receiver.py): an      *)
(* accept thread, one reader thread per connection that appends raw bytes  *)
(* to a spool file, one parser thread that turns the spools into lines and *)
(* health counters, and finish(), which ends the capture.                  *)
(*                                                                         *)
(* Script[c] is what the hook at the other end of c would write if nobody  *)
(* killed it: the records in its rings and its status records, as lines of *)
(* Parts pieces of which the last carries the newline.  Pieces are         *)
(* numbered through the connection, so the bytes a reader has are the      *)
(* piece numbers 1..got[c], the first spooled[c] of them in the spool file *)
(* and the rest in the reader's hand or, after a write error, in conn.mem. *)
(* Health counters are kept as the set of those that are not zero.         *)
(***************************************************************************)
EXTENDS Integers, Sequences, SequencesExt, FiniteSetsExt

CONSTANTS
    Conn,          \* connections the hooks may make
    Key,           \* (pid, hook, image)
    None,          \* no connection, no status
    Captures       \* the captures to look at, see IsScene

(* sent: the records a status accounts for, as sent or as lost.            *)
Line == [key : Key, kind : {"data", "bad", "status", "final"}, sent : Nat]

(* The surroundings of one capture: script has the connections that are    *)
(* made and their lines; those in foreign may come from another user       *)
(* (require_uid); a line has parts pieces; spoolfail: a write to a spool   *)
(* may fail (disk full); fail: creating or reading a spool may fail.       *)
IsScene(s) ==
    /\ DOMAIN s.script \subseteq Conn /\ s.script \in [DOMAIN s.script -> Seq(Line)]
    /\ s.foreign \subseteq Conn
    /\ s.parts \in Nat \ {0}
    /\ {s.spoolfail, s.fail} \subseteq BOOLEAN

ASSUME ReceiverAssumption == None \notin Conn \cup Line /\ \A s \in Captures : IsScene(s)

VARIABLES
    scene,                     \* the surroundings of this capture, chosen once
    peer, written,             \* the hook's end: none/open/closed, pieces written
    backlog,                   \* connections waiting in listen()
    accept, hand,              \* accept thread, and the client it is registering
    conns,                     \* self._conns: registered and not finished
    registered, refused,       \* clients with a reader thread; clients closed at once
    got, spooled,              \* pieces received, pieces in the spool file
    spool_failed, done,        \* conn.spool_failed, conn.done
    shut,                      \* sockets finish() shut down
    parser, active, was_done,  \* parser thread, its list of connections, its `done`
    rd, md, tail,              \* pieces parsed from the spool and from mem, conn.tail
    handled,                   \* numbers of the lines processed (0: a garbled one)
    transport, received, ended_without_final, health,
    finish, stop_accept, parser_stop,
    early, unread              \* history: connections made before finish() began, or not
                               \* read to the end because the spool could not be read

netvars    == <<peer, written, early>>
acceptvars == <<accept, hand>>
connvars   == <<conns, registered, refused>>
readvars   == <<got, spooled, spool_failed, done>>
parsevars  == <<parser, active, was_done, rd, md, tail, handled, transport, received,
                ended_without_final, unread>>
endvars    == <<finish, stop_accept, parser_stop, shut>>
running == <<netvars, backlog, acceptvars, connvars, readvars, parsevars, endvars, health>>
vars == <<running, scene>>

Script == scene.script
Foreign == scene.foreign
Parts == scene.parts

Init ==
    /\ scene \in Captures
    /\ peer = [c \in Conn |-> "none"] /\ written = [c \in Conn |-> 0] /\ early = {} /\ unread = {}
    /\ backlog = <<>> /\ accept = "loop" /\ hand = None
    /\ conns = <<>> /\ registered = {} /\ refused = {}
    /\ got = [c \in Conn |-> 0] /\ spooled = [c \in Conn |-> 0]
    /\ spool_failed = [c \in Conn |-> FALSE] /\ done = [c \in Conn |-> FALSE]
    /\ parser = "pass" /\ active = <<>> /\ was_done = FALSE
    /\ rd = [c \in Conn |-> 0] /\ md = [c \in Conn |-> 0]
    /\ tail = [c \in Conn |-> <<>>] /\ handled = [c \in Conn |-> <<>>]
    /\ transport = [k \in Key |-> None] /\ received = [k \in Key |-> 0]
    /\ ended_without_final = {} /\ health = {}
    /\ finish = "run" /\ stop_accept = FALSE /\ parser_stop = FALSE /\ shut = {}

-----------------------------------------------------------------------------
(* The hooks: connect, write, close or be killed in the middle of a line.  *)

Connect(c) ==
    /\ c \in DOMAIN Script /\ peer[c] = "none"
    /\ finish # "returned"
    /\ peer' = [peer EXCEPT ![c] = "open"]
    /\ backlog' = Append(backlog, c)
    /\ early' = IF finish = "run" THEN early \cup {c} ELSE early
    /\ UNCHANGED <<written, acceptvars, connvars, readvars, parsevars, endvars, health>>

Write(c) ==
    /\ peer[c] = "open" /\ c \notin shut \cup refused
    /\ written[c] < Parts * Len(Script[c])
    /\ written' = [written EXCEPT ![c] = @ + 1]
    /\ UNCHANGED <<peer, early, backlog, acceptvars, connvars, readvars, parsevars, endvars, health>>

Close(c) ==
    /\ peer[c] = "open"
    /\ peer' = [peer EXCEPT ![c] = "closed"]
    /\ UNCHANGED <<written, early, backlog, acceptvars, connvars, readvars, parsevars, endvars, health>>

-----------------------------------------------------------------------------
(* _register: other users' clients are closed; without a spool file the    *)
(* client is closed and an error noted; else its reader starts.            *)
Register(c) ==
    \/ /\ c \in Foreign
       /\ refused' = refused \cup {c}
       /\ UNCHANGED <<conns, registered, health>>
    \/ /\ scene.fail
       /\ refused' = refused \cup {c}
       /\ health' = health \cup {"errors"}
       /\ UNCHANGED <<conns, registered>>
    \/ /\ conns' = Append(conns, c)
       /\ registered' = registered \cup {c}
       /\ UNCHANGED <<refused, health>>

(* _accept_loop: the thread is inside accept() when stop_accept is set, so *)
(* it may still take one client.                                           *)
Accept ==
    /\ accept = "loop" /\ backlog # <<>>
    /\ accept' = "register" /\ hand' = Head(backlog)
    /\ backlog' = Tail(backlog)
    /\ UNCHANGED <<netvars, connvars, readvars, parsevars, endvars, health>>

AcceptRegister ==
    /\ accept = "register"
    /\ Register(hand)
    /\ accept' = (IF stop_accept THEN "gone" ELSE "loop") /\ hand' = None
    /\ UNCHANGED <<netvars, backlog, readvars, parsevars, endvars>>

AcceptEnds ==
    /\ accept = "loop" /\ stop_accept
    /\ accept' = "gone"
    /\ UNCHANGED <<netvars, backlog, hand, connvars, readvars, parsevars, endvars, health>>

AcceptThread == Accept \/ AcceptRegister \/ AcceptEnds

-----------------------------------------------------------------------------
(* _read_loop, one thread per connection.                                  *)

ReaderAt(c) == c \in registered /\ ~done[c]
InHand(c) == IF spool_failed[c] THEN 0 ELSE got[c] - spooled[c]

(* recv() returns what is queued; after a failed write it goes to mem.     *)
Recv(c) ==
    /\ ReaderAt(c) /\ InHand(c) = 0
    /\ got[c] < written[c]
    /\ got' = [got EXCEPT ![c] = written[c]]
    /\ UNCHANGED <<netvars, backlog, acceptvars, connvars, spooled, spool_failed, done, parsevars, endvars,
                   health>>

(* os.write may take less than it is given.                                *)
WriteSpool(c) ==
    /\ ReaderAt(c)
    /\ \E n \in 1..InHand(c) : spooled' = [spooled EXCEPT ![c] = @ + n]
    /\ UNCHANGED <<netvars, backlog, acceptvars, connvars, got, spool_failed, done, parsevars, endvars, health>>

SpoolFails(c) ==
    /\ scene.spoolfail /\ ReaderAt(c) /\ InHand(c) > 0
    /\ spool_failed' = [spool_failed EXCEPT ![c] = TRUE]
    /\ health' = health \cup {"spool_errors", "errors"}
    /\ UNCHANGED <<netvars, backlog, acceptvars, connvars, got, spooled, done, parsevars, endvars>>

ReaderEnds(c) ==
    /\ ReaderAt(c) /\ InHand(c) = 0
    /\ got[c] = written[c]
    /\ peer[c] = "closed" \/ c \in shut
    /\ done' = [done EXCEPT ![c] = TRUE]
    /\ UNCHANGED <<netvars, backlog, acceptvars, connvars, got, spooled, spool_failed, parsevars, endvars,
                   health>>

Reader(c) == Recv(c) \/ WriteSpool(c) \/ SpoolFails(c) \/ ReaderEnds(c)

-----------------------------------------------------------------------------
(* Lines.  Piece p ends a line when it is the last of its Parts.           *)

EndsLine(p) == p % Parts = 0
Pieces(i, j) == [n \in 1..(j - i) |-> i + n]                   \* i+1 .. j
Whole(n) == Pieces(Parts * (n - 1), Parts * n)                 \* line n in one piece
LineNo(c, raw) == IF \E n \in DOMAIN Script[c] : raw = Whole(n)
                  THEN CHOOSE n \in DOMAIN Script[c] : raw = Whole(n) ELSE 0

(* _process: complete lines, and the rest for the next chunk.              *)
Newlines(data) == {i \in DOMAIN data : EndsLine(data[i])}
LineEnds(nl) ==                                                \* in order
    [n \in 1..Cardinality(nl) |-> CHOOSE i \in nl : Cardinality({j \in nl : j <= i}) = n]
Upto(ends, n) == IF n = 0 THEN 0 ELSE ends[n]
CutLine(data, ends, n) == SubSeq(data, Upto(ends, n - 1) + 1, ends[n])
CutRest(data, ends) == SubSeq(data, Upto(ends, Len(ends)) + 1, Len(data))

LinesOf(c, ns) == {Script[c][n] : n \in ToSet(ns) \ {0}}
IsStatus(l) == l.kind \in {"status", "final"}
IsDataNo(c, n) == n = 0 \/ ~IsStatus(Script[c][n])
DataNos(c, ns) == {i \in DOMAIN ns : IsDataNo(c, ns[i])}

Keys(c) == {l.key : l \in {x \in LinesOf(c, handled[c]) : IsStatus(x)}}          \* conn.keys
FinalKeys(c) == {l.key : l \in {x \in LinesOf(c, handled[c]) : x.kind = "final"}} \* conn.final_keys

(* _xport: the latest status of a key wins.                                *)
StatusNos(c, ns, k) == {i \in DOMAIN ns : ~IsDataNo(c, ns[i]) /\ Script[c][ns[i]].key = k}
Latest(c, ns, k) ==
    IF StatusNos(c, ns, k) = {} THEN transport[k] ELSE Script[c][ns[Max(StatusNos(c, ns, k))]]

Process(c, chunk) ==
    \E data \in {tail[c] \o chunk} : \E ends \in {LineEnds(Newlines(data))} :
    \E ns \in {[i \in 1..Len(ends) |-> LineNo(c, CutLine(data, ends, i))]} :
        /\ tail' = [tail EXCEPT ![c] = CutRest(data, ends)]
        /\ handled' = [handled EXCEPT ![c] = @ \o ns]
        /\ transport' = [k \in Key |-> Latest(c, ns, k)]
        /\ health' = IF \E l \in LinesOf(c, ns) : l.kind = "bad" THEN health \cup {"errors"} ELSE health

-----------------------------------------------------------------------------
(* _parse_loop and _drain_conn.                                            *)

Current == Head(active)
parseframe == <<netvars, backlog, acceptvars, registered, refused, readvars, endvars>>

StartPass ==
    /\ parser = "pass"
    /\ active' = conns
    /\ parser' = "next"
    /\ UNCHANGED <<parseframe, conns, was_done, rd, md, tail, handled, transport, received,
                   ended_without_final, unread, health>>

(* done is read before the spool is drained.                               *)
NextConn ==
    /\ parser = "next" /\ active # <<>>
    /\ was_done' = done[Current]
    /\ parser' = "spool"
    /\ UNCHANGED <<parseframe, conns, active, rd, md, tail, handled, transport, received,
                   ended_without_final, unread, health>>

SpoolEnd == spooled[Current]
ReadSpool ==
    /\ parser = "spool" /\ rd[Current] < SpoolEnd
    /\ Process(Current, Pieces(rd[Current], SpoolEnd))
    /\ rd' = [rd EXCEPT ![Current] = SpoolEnd]
    /\ UNCHANGED <<parseframe, conns, parser, active, was_done, md, received, ended_without_final, unread>>

SpoolRead ==
    /\ parser = "spool"
    /\ \/ rd[Current] = spooled[Current] /\ UNCHANGED <<health, unread>>
       \/ scene.fail /\ health' = health \cup {"errors"} /\ unread' = unread \cup {Current}
    /\ parser' = "mem"
    /\ UNCHANGED <<parseframe, conns, active, was_done, rd, md, tail, handled, transport, received,
                   ended_without_final>>

InMem(c) == IF spool_failed[c] THEN got[c] - spooled[c] ELSE 0

PopMem ==
    /\ parser = "mem" /\ md[Current] < InMem(Current)
    /\ Process(Current, Pieces(spooled[Current] + md[Current], got[Current]))
    /\ md' = [md EXCEPT ![Current] = InMem(Current)]
    /\ UNCHANGED <<parseframe, conns, parser, active, was_done, rd, received, ended_without_final, unread>>

(* _finish_conn: what the end of a connection adds to the health.          *)
EndOf(c) ==
    (IF tail[c] # <<>> THEN {"partial_tails", "malformed"} ELSE {})
    \cup (IF Keys(c) = {} /\ DataNos(c, handled[c]) # {} THEN {"connections_without_status"} ELSE {})

UndrainedNone(c) == {}
Undrained(c) == Keys(c) \ FinalKeys(c)
FinishConn(c) ==
    /\ health' = health \cup EndOf(c)
    /\ tail' = [tail EXCEPT ![c] = <<>>]
    /\ received' = [k \in Key |-> received[k] + IF k \in Keys(c) THEN Cardinality(DataNos(c, handled[c])) ELSE 0]
    /\ ended_without_final' = (ended_without_final \ FinalKeys(c)) \cup Undrained(c)

(* list.remove: the first occurrence goes. *)
Removed(s, c) ==
    LET at == CHOOSE i \in DOMAIN s : s[i] = c /\ \A j \in DOMAIN s : s[j] = c => i <= j
    IN  [i \in 1..(Len(s) - 1) |-> s[IF i < at THEN i ELSE i + 1]]

EndedMeanwhile == done[Current]
Ended == was_done
ConnDrained ==
    /\ parser = "mem" /\ md[Current] = InMem(Current)
    /\ IF Ended
       THEN FinishConn(Current) /\ conns' = Removed(conns, Current)
       ELSE UNCHANGED <<health, tail, received, ended_without_final, conns>>
    /\ active' = Tail(active) /\ parser' = "next"
    /\ UNCHANGED <<parseframe, was_done, rd, md, handled, transport, unread>>

EndPass ==
    /\ parser = "next" /\ active = <<>>
    /\ parser' = IF parser_stop /\ conns = <<>> THEN "returned" ELSE "pass"
    /\ UNCHANGED <<parseframe, conns, active, was_done, rd, md, tail, handled, transport, received,
                   ended_without_final, unread, health>>

Parser == StartPass \/ NextConn \/ ReadSpool \/ SpoolRead \/ PopMem \/ ConnDrained \/ EndPass

-----------------------------------------------------------------------------
(* finish()                                                                *)

endframe == <<netvars, readvars, parsevars>>

Finish ==
    /\ finish = "run"
    /\ finish' = "join" /\ stop_accept' = TRUE
    /\ UNCHANGED <<endframe, backlog, acceptvars, connvars, parser_stop, shut, health>>

(* join(timeout=2.0): the thread is in accept() for at most 0.5 s, and is  *)
(* taken to register a client it has in hand in less than the rest.        *)
JoinAccept ==
    /\ finish = "join" /\ accept = "gone"
    /\ finish' = "pending"
    /\ UNCHANGED <<endframe, backlog, acceptvars, connvars, stop_accept, parser_stop, shut, health>>

(* _accept_pending, also called while finish() waits for the readers.      *)
ReadersAlive == \E c \in registered : ~done[c]
AcceptPending ==
    /\ backlog # <<>>
    /\ finish = "pending" \/ (finish = "wait" /\ ReadersAlive)
    /\ Register(Head(backlog))
    /\ backlog' = Tail(backlog)
    /\ UNCHANGED <<endframe, acceptvars, endvars>>
PendingDone ==
    /\ finish = "pending" /\ backlog = <<>>
    /\ finish' = "wait"
    /\ UNCHANGED <<endframe, backlog, acceptvars, connvars, stop_accept, parser_stop, shut, health>>

(* Every reader ended, or timeout_s passed: what is still open is counted  *)
(* and shut down.                                                          *)
StillOpen == {c \in ToSet(conns) : ~done[c]}
ShutNone == UNCHANGED shut
ShutOpen == shut' = shut \cup StillOpen
WaitOver ==
    /\ finish = "wait"
    /\ health' = IF StillOpen # {} THEN health \cup {"open_at_deadline"} ELSE health
    /\ ShutOpen
    /\ finish' = "join_readers"
    /\ UNCHANGED <<endframe, backlog, acceptvars, connvars, stop_accept, parser_stop>>

(* Each reader is joined for at most 5 s, so this may end before them.     *)
JoinReaders ==
    /\ finish = "join_readers"
    /\ finish' = "join_parser" /\ parser_stop' = TRUE
    /\ UNCHANGED <<endframe, backlog, acceptvars, connvars, stop_accept, shut, health>>

FinishReturns ==
    /\ finish = "join_parser" /\ parser = "returned"
    /\ finish' = "returned"
    /\ UNCHANGED <<endframe, backlog, acceptvars, connvars, stop_accept, parser_stop, shut, health>>

Finishing == JoinAccept \/ AcceptPending \/ PendingDone \/ WaitOver \/ JoinReaders \/ FinishReturns

Hooks == \E c \in Conn : Connect(c) \/ Write(c) \/ Close(c)
Next ==
    /\ Hooks \/ AcceptThread \/ (\E c \in Conn : Reader(c)) \/ Parser \/ Finish \/ Finishing
    /\ UNCHANGED scene

Spec == Init /\ [][Next]_vars

(* The collector's own threads keep running; the hooks promise nothing.    *)
Fairness ==
    /\ WF_running(AcceptThread) /\ WF_running(Parser) /\ WF_running(Finishing)
    /\ \A c \in Conn : WF_running(Reader(c))
FairSpec == Spec /\ Fairness

-----------------------------------------------------------------------------
(* What was written is parsed as it was written.  However recv(), the      *)
(* spool and the parser cut the stream, the lines of a connection are      *)
(* processed whole, once each and in the order the hook wrote them         *)
(* ("Per-connection order is preserved"; after a write error the spilled   *)
(* bytes may overtake the last spooled ones).  When finish() returns,      *)
(* everything written on a connection made before it was called has been   *)
(* parsed, a cut line included, unless the client was refused or its spool *)
(* could not be read ("nothing is cut off by a fixed join timeout").       *)
ParsedAsWritten ==
    /\ \A c \in Conn : ~spool_failed[c] => \A i \in DOMAIN handled[c] : handled[c][i] = i
    /\ finish = "returned" =>
        \A c \in early \ (refused \cup unread) :
            /\ rd[c] = spooled[c] /\ rd[c] + md[c] = written[c]
            /\ tail[c] = <<>>

(* capture_warnings: is there anything to tell the user?                   *)
Warned ==
    \/ health # {}
    \/ \E k \in Key : /\ transport[k] # None
                      /\ \/ k \in ended_without_final
                         \/ transport[k].kind = "final" /\ received[k] < transport[k].sent

(* An empty list of capture warnings means that nothing was lost: every    *)
(* record of a hook that got a first byte through is in the trace, also    *)
(* when the hook was killed, when its spool failed or when the capture     *)
(* ended before it ("An empty list means nothing was lost or degraded").   *)
CleanMeansComplete ==
    (finish = "returned" /\ ~Warned) =>
        \A c \in early \ Foreign :
            got[c] > 0 => \A n \in DOMAIN Script[c] : IsDataNo(c, n) => n \in ToSet(handled[c])

(* finish() returns although hooks keep their connections open.            *)
FinishTerminates == finish = "join" ~> finish = "returned"
=============================================================================
