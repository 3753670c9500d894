----------------------------- MODULE BridgeLink -----------------------------
(***************************************************************************)
(* The persistent daemon link of AppleBridge: the single-threaded host     *)
(* server (host/host_server.py), the guest daemon that dials it            *)
(* (mac/src/main.c) and the TCP connections between them.                  *)
(*                                                                         *)
(* The host has at most one connection and at most one exchange on it.     *)
(* The wire is FIFO in both directions.  A request is one token, and the   *)
(* body of a file one more behind it.  A reply is one frame, sent whole or *)
(* as a first piece and a last piece, and a piece carries the request it   *)
(* answers: on the wire is only the header of the frame, which is why a    *)
(* reply can be taken for another's.  Time is abstract: a read may time    *)
(* out whenever it is not complete, and a drain may find any prefix of the *)
(* bytes in flight arrived.                                                *)
(***************************************************************************)
EXTENDS Naturals, Sequences

CONSTANTS
    Conn,           \* identities of TCP connections, reused once both ends are closed
    Id,             \* identities of exchanges, reused once no trace of one is left
    NoConn, NoReq,  \* null values
    ClientKinds,    \* the kinds of exchange control clients ask for
    MaxMiss,        \* HEARTBEAT_MAX_MISS
    Backlog,        \* connections the kernel holds for accept()
    LossyFin        \* may a close go unnoticed by the peer (the MACNAT path)?

(* How each reader of the host ends: a command, raw verb, Apple event or   *)
(* clipboard access is framed; PUT, GET, LOG and SHOT1 are put_file,       *)
(* get_file, request_log and the legacy screenshot; SHOT2 is IMAGE2.       *)
FramedKinds    == {"CMD", "BEAT", "PRIME", "HELLO", "HELLO2"}
UnmarkedKinds  == {"PUT", "GET", "LOG", "SHOT1"}
ShortReadKinds == {"GET", "LOG", "SHOT1"}
PickyKinds     == {"GET", "SHOT1", "SHOT2"}   \* look for the header of their kind of frame
Kinds          == FramedKinds \union UnmarkedKinds \union {"SHOT2"}

\* What a request is to the guest and its reply to a reader: a kind with a frame
\* of its own, a file to write, the body of one, or any verb answered by STATUS.
Verbs   == PickyKinds \union {"PUT", "BODY", "STATUS"}
Verb(k) == IF k \in PickyKinds \union {"PUT"} THEN k ELSE "STATUS"

Req       == [id : Id, verb : Verbs]
BodyOf(r) == [r EXCEPT !.verb = "BODY"]

\* put_file sends the body right behind the header.
Sent(r) == IF r.verb = "PUT" THEN <<r, BodyOf(r)>> ELSE <<r>>

ASSUME LinkAssumption ==
    /\ NoConn \notin Conn
    /\ NoReq \notin Req
    /\ ClientKinds \subseteq {"CMD", "SHOT2"} \union UnmarkedKinds
    /\ MaxMiss \in Nat \ {0}
    /\ Backlog \in Nat \ {0}
    /\ LossyFin \in BOOLEAN

VARIABLES
    link,     \* per connection: both channels, both ends, and which FINs arrive
    queue,    \* connections dialled and not yet accepted, oldest first
    host,     \* the server's client_socket, desynced flag, missed beats and step
    op,       \* the exchange in progress: its kind, request and first piece read
    guest,    \* the daemon: running, its connection, the request it serves
    slip,     \* history: how an answer came to be due that nothing waits for
    answer    \* history: whose reply the last client exchange returned

vars == <<link, queue, host, op, guest, slip, answer>>

-----------------------------------------------------------------------------
(* State *)

Piece == [req : Req, last : BOOLEAN]

LinkState == [toGuest  : Seq(Req),      toHost   : Seq(Piece),
              hostEnd  : {"closed", "queued", "open"},
              guestEnd : {"closed", "open"},
              hostFin  : BOOLEAN,       guestFin : BOOLEAN]

HostState == [conn : Conn \union {NoConn}, desynced : BOOLEAN, missed : 0..(MaxMiss - 1),
              pc : {"loop", "prime", "hello", "hello2", "resync", "reading"}]

Exchange == [kind : Kinds \union {"none"}, req : Req \union {NoReq}, head : Req \union {NoReq}]

GuestState == [up : BOOLEAN, conn : Conn \union {NoConn}, busy : Req \union {NoReq},
               sent : BOOLEAN]

Unused == [toGuest |-> <<>>, toHost |-> <<>>, hostEnd |-> "closed",
           guestEnd |-> "closed", hostFin |-> FALSE, guestFin |-> FALSE]

NoOp == [kind |-> "none", req |-> NoReq, head |-> NoReq]

\* On this link an answer may still come that no exchange waits for, because a
\* drain took 0.4 s of silence for the end of it, a reader gave up without
\* recording it, a reader stopped short of the end of the frame, or the guest
\* answered a file whose body it had not read.
Slips == {"none", "early", "unmarked", "short", "body"}

TypeOK ==
    /\ link \in [Conn -> LinkState]
    /\ queue \in Seq(Conn)
    /\ host \in HostState
    /\ op \in Exchange
    /\ guest \in GuestState
    /\ slip \in Slips
    /\ answer \in {"none", "own", "other"}

Init ==
    /\ link = [c \in Conn |-> Unused]
    /\ queue = <<>>
    /\ host = [conn |-> NoConn, desynced |-> FALSE, missed |-> 0, pc |-> "loop"]
    /\ op = NoOp
    /\ guest = [up |-> TRUE, conn |-> NoConn, busy |-> NoReq, sent |-> FALSE]
    /\ slip = "none"
    /\ answer = "none"

-----------------------------------------------------------------------------
(* The wire *)

Fins == IF LossyFin THEN BOOLEAN ELSE {TRUE}

HostCloses(l, fin) ==
    IF l.guestEnd = "closed" THEN Unused
    ELSE [l EXCEPT !.hostEnd = "closed", !.hostFin = fin, !.toHost = <<>>]

GuestCloses(l, fin) ==
    IF l.hostEnd = "closed" THEN Unused
    ELSE [l EXCEPT !.guestEnd = "closed", !.guestFin = fin, !.toGuest = <<>>]

\* The peer's FIN is on its way; recv() returns no bytes once all before it is read.
PeerClosed(c)   == link[c].guestEnd = "closed" /\ link[c].guestFin
HostSeesEof(c)  == PeerClosed(c) /\ link[c].toHost = <<>>
GuestSeesEof(c) == link[c].hostEnd = "closed" /\ link[c].hostFin /\ link[c].toGuest = <<>>

\* A prefix of what is in flight to the host has arrived: k pieces of it.
Arrived(c) == 0..Len(link[c].toHost)
SweepOf(l, k) == [l EXCEPT !.toHost = SubSeq(@, k + 1, Len(@))]

\* sendall(): bytes for a peer that is gone vanish.
SendTo(l, r) == IF l.guestEnd = "open" THEN [l EXCEPT !.toGuest = @ \o Sent(r)] ELSE l

ReqsTo(s) == {s[i] : i \in 1..Len(s)}
ReqsFrom(s) == {s[i].req : i \in 1..Len(s)}
InUse(lk) == {op.req, op.head, guest.busy}
                \union UNION {ReqsTo(lk[c].toGuest) \union ReqsFrom(lk[c].toHost) : c \in Conn}
Fresh(lk) == Id \ {r.id : r \in InUse(lk) \ {NoReq}}

Serving(c) == guest.conn = c /\ guest.busy # NoReq

\* Something on c still belongs to an exchange: unread, being served, or on its way.
Outstanding(c) ==
    \/ link[c].toGuest # <<>>
    \/ link[c].toHost # <<>>
    \/ Serving(c)

SlipsIf(happens, how) == slip' = IF slip = "none" /\ happens THEN how ELSE slip

-----------------------------------------------------------------------------
(* The host *)

Connected == host.conn # NoConn

\* Mutant: the count of missed beats is never capped by a disconnect.
MissedAfterDrop_Uncapped(k) == IF k = "BEAT" THEN host.missed + 1 ELSE 0

\* _mark_disconnected during an exchange of kind k; the loop starts over.
MissedAfterDrop(k) == IF k = "BEAT" /\ host.missed + 1 < MaxMiss THEN host.missed + 1 ELSE 0

Drop(l) ==
    /\ \E fin \in Fins : link' = [link EXCEPT ![host.conn] = HostCloses(l, fin)]
    /\ host' = [host EXCEPT !.conn = NoConn, !.pc = "loop", !.missed = MissedAfterDrop(op.kind)]
    /\ op' = NoOp

\* accept_mac: a fresh stream is aligned by definition.
HostAccept ==
    /\ host.pc = "loop"
    /\ ~Connected
    /\ queue # <<>>
    /\ queue' = Tail(queue)
    /\ link' = [link EXCEPT ![Head(queue)].hostEnd = "open"]
    /\ host' = [conn |-> Head(queue), desynced |-> FALSE, missed |-> host.missed, pc |-> "prime"]
    /\ slip' = "none"
    /\ answer' = "none"
    /\ UNCHANGED <<op, guest>>

\* What the loop may begin: the priming PING and the HELLO right after accept,
\* then client exchanges as they come and heartbeats when none does.
MayBegin(k) ==
    CASE host.pc = "prime"  -> k = "PRIME"
      [] host.pc = "hello"  -> k = "HELLO"
      [] host.pc = "hello2" -> k = "HELLO2"
      [] host.pc = "loop"   -> k = "BEAT" \/ k \in ClientKinds
      [] OTHER              -> FALSE

\* sendall() of the request of an exchange of kind k.  The retried HELLO is the
\* same question as the first one; any other takes an identity nothing has.
Send(k, lk) ==
    \E r \in IF k = "HELLO2" THEN {op.req} ELSE [id : Fresh(lk), verb : {Verb(k)}] :
       /\ link' = [lk EXCEPT ![host.conn] = SendTo(@, r)]
       /\ op' = [kind |-> k, req |-> r, head |-> NoReq]

\* _drain() on a link thought aligned: a sweep of what has already arrived.
HostBegin(k) ==
    /\ Connected /\ ~host.desynced
    /\ ~HostSeesEof(host.conn)
    /\ \E n \in Arrived(host.conn) : Send(k, [link EXCEPT ![host.conn] = SweepOf(@, n)])
    /\ host' = [host EXCEPT !.pc = "reading"]
    /\ answer' = "none"
    /\ UNCHANGED <<queue, guest, slip>>

\* Mutant: the drain sweeps what has arrived and never waits for late bytes.
HostBeginResync_SweepOnly(k) ==
    /\ Connected /\ host.desynced
    /\ \E n \in Arrived(host.conn) : Send(k, [link EXCEPT ![host.conn] = SweepOf(@, n)])
    /\ host' = [host EXCEPT !.pc = "reading", !.desynced = FALSE]
    /\ answer' = "none"
    /\ UNCHANGED <<queue, guest, slip>>

\* _drain() on a link with an abandoned read: first wait for its late bytes.
HostBeginResync(k) ==
    /\ Connected /\ host.desynced
    /\ op' = [op EXCEPT !.kind = k]
    /\ host' = [host EXCEPT !.pc = "resync"]
    /\ answer' = "none"
    /\ UNCHANGED <<link, queue, guest, slip>>

\* The drain finds the peer gone before anything is sent.
HostBeginEof(k) ==
    /\ Connected /\ ~host.desynced
    /\ PeerClosed(host.conn)
    /\ \E fin \in Fins : link' = [link EXCEPT ![host.conn] = HostCloses(@, fin)]
    /\ host' = [host EXCEPT !.conn = NoConn, !.pc = "loop", !.missed = MissedAfterDrop(k)]
    /\ op' = NoOp
    /\ answer' = "none"
    /\ UNCHANGED <<queue, guest, slip>>

Begin(k) ==
    /\ MayBegin(k)
    /\ HostBegin(k) \/ HostBeginEof(k) \/ HostBeginResync(k)

HostStart == \E k \in Kinds : Begin(k)

ResyncSweep ==
    /\ host.pc = "resync"
    /\ \E n \in Arrived(host.conn) \ {0} :
          link' = [link EXCEPT ![host.conn] = SweepOf(@, n)]
    /\ UNCHANGED <<queue, host, op, guest, slip, answer>>

\* RESYNC_QUIET of silence: "realigned", whatever is still due.
ResyncQuiet ==
    /\ host.pc = "resync"
    /\ ~HostSeesEof(host.conn)
    /\ Send(op.kind, link)
    /\ SlipsIf(Outstanding(host.conn), "early")
    /\ host' = [host EXCEPT !.pc = "reading", !.desynced = FALSE]
    /\ UNCHANGED <<queue, guest, answer>>

\* Still streaming when RESYNC_BUDGET is spent, or the peer turns out gone.
ResyncDrop ==
    /\ host.pc = "resync"
    /\ link[host.conn].toHost # <<>> \/ PeerClosed(host.conn)
    /\ Drop(link[host.conn])
    /\ UNCHANGED <<queue, guest, slip, answer>>

-----------------------------------------------------------------------------
(* The host reads a reply *)

IsClient(k) == k \in ClientKinds

\* What the caller makes of a frame that answers by.  get_file and the screenshots
\* look at its header only: the frame of an earlier exchange of their own kind
\* passes, unless that one failed and was answered by STATUS.
Verdicts(by) ==
    CASE ~IsClient(op.kind) \/ by = NoReq -> {"none"}
      [] by = op.req                      -> {"own"}
      [] OTHER                            -> IF op.kind \notin PickyKinds THEN {"other"}
                                             ELSE IF by.verb = op.kind THEN {"none", "other"}
                                             ELSE {"none"}

\* What it makes of a frame that was not read to its end.
PartVerdicts == IF op.head = op.req \/ op.kind \in PickyKinds THEN {"none"} ELSE Verdicts(op.head)

\* Mutant: missed heartbeats are not counted.
Settle_ForgetsMisses(pc, desynced, missed) ==
    /\ host' = [host EXCEPT !.pc = pc, !.desynced = desynced, !.missed = 0]
    /\ op' = IF pc = "hello2" THEN [NoOp EXCEPT !.req = op.req] ELSE NoOp

\* Where the loop goes when the exchange is over and the link kept.
Settle(pc, desynced, missed) ==
    /\ host' = [host EXCEPT !.pc = pc, !.desynced = desynced, !.missed = missed]
    /\ op' = IF pc = "hello2" THEN [NoOp EXCEPT !.req = op.req] ELSE NoOp

NextStep == IF op.kind = "PRIME" THEN "hello" ELSE "loop"

\* A frame was read to its end.  classify_hello_reply: somebody else's reply is
\* STALE, which the first HELLO retries and the second one drops the link for.
Complete(by, l) ==
    LET stale == op.kind \in {"HELLO", "HELLO2"} /\ by # op.req IN
    /\ answer' \in Verdicts(by)
    /\ IF stale /\ op.kind = "HELLO2"
       THEN Drop(l)
       ELSE /\ link' = [link EXCEPT ![host.conn] = l]
            /\ Settle(IF stale THEN "hello2" ELSE NextStep, host.desynced, 0)

\* The rest of the last recv() is thrown away with the reader's buffer.
ReadLast ==
    /\ host.pc = "reading"
    /\ link[host.conn].toHost # <<>>
    /\ LET l == link[host.conn] IN
       /\ Head(l.toHost).last
       /\ \E n \in Arrived(host.conn) \ {0} : Complete(Head(l.toHost).req, SweepOf(l, n))
    /\ UNCHANGED <<queue, guest, slip>>

ReadFirst ==
    /\ host.pc = "reading"
    /\ link[host.conn].toHost # <<>>
    /\ ~Head(link[host.conn].toHost).last
    /\ op' = [op EXCEPT !.head = Head(link[host.conn].toHost).req]
    /\ link' = [link EXCEPT ![host.conn] = SweepOf(@, 1)]
    /\ UNCHANGED <<queue, host, guest, slip, answer>>

\* request_log stops after the STDOUT body, get_file and the legacy screenshot
\* after a header that is not theirs: the rest of the frame stays on the wire.
ReadShort ==
    /\ host.pc = "reading"
    /\ op.kind \in ShortReadKinds
    /\ op.head # NoReq
    /\ SlipsIf(TRUE, "short")
    /\ link' = link
    /\ answer' \in IF op.kind = "LOG" THEN Verdicts(op.head) ELSE {"none"}
    /\ Settle("loop", host.desynced, 0)
    /\ UNCHANGED <<queue, guest>>

\* The reader gives up.  Only _read_framed_response records that the link is out
\* of step; the IMAGE2 reader drops it; the others keep it as it is.
ReadTimeout ==
    /\ host.pc = "reading"
    /\ op.kind # "SHOT2"
    /\ ~HostSeesEof(host.conn)
    /\ SlipsIf(op.kind \in UnmarkedKinds /\ Outstanding(host.conn), "unmarked")
    /\ answer' \in PartVerdicts
    /\ LET desynced == host.desynced \/ op.kind \in FramedKinds
           partial  == op.head # NoReq
           missed   == IF op.kind = "BEAT" /\ ~partial THEN host.missed + 1 ELSE 0
           keep(pc) == link' = link /\ Settle(pc, desynced, missed)
       IN \/ missed = MaxMiss /\ Drop(link[host.conn])
          \/ missed < MaxMiss /\ op.kind \notin {"HELLO", "HELLO2"} /\ keep(NextStep)
          \/ op.kind = "HELLO" /\ keep("hello2")
          \/ op.kind = "HELLO" /\ op.head = op.req /\ keep("loop")
          \/ op.kind = "HELLO2" /\ op.head \in {NoReq, op.req} /\ keep("loop")
          \/ op.kind = "HELLO2" /\ partial /\ Drop(link[host.conn])
    /\ UNCHANGED <<queue, guest>>

\* Mutant: the IMAGE2 reader keeps the link when it times out.
ReadDrop_KeepsLink ==
    /\ host.pc = "reading"
    /\ op.kind = "SHOT2" \/ HostSeesEof(host.conn)
    /\ answer' = "none"
    /\ link' = link
    /\ Settle("loop", host.desynced, 0)
    /\ UNCHANGED <<queue, guest, slip>>

ReadDrop ==
    /\ host.pc = "reading"
    /\ op.kind = "SHOT2" \/ HostSeesEof(host.conn)
    /\ answer' \in PartVerdicts
    /\ Drop(link[host.conn])
    /\ UNCHANGED <<queue, guest, slip>>

\* Mutant: a read has no deadline.
HostRead_NoDeadline == ReadFirst \/ ReadLast \/ ReadShort \/ ReadDrop

HostRead == ReadFirst \/ ReadLast \/ ReadShort \/ ReadTimeout \/ ReadDrop
Resync   == ResyncSweep \/ ResyncQuiet \/ ResyncDrop

-----------------------------------------------------------------------------
(* The guest daemon *)

Idle == guest.up /\ guest.conn # NoConn /\ guest.busy = NoReq

GuestDial ==
    /\ guest.up /\ guest.conn = NoConn
    /\ Len(queue) < Backlog
    /\ \E c \in Conn :
          /\ link[c] = Unused
          /\ link' = [link EXCEPT ![c].hostEnd = "queued", ![c].guestEnd = "open"]
          /\ queue' = Append(queue, c)
          /\ guest' = [guest EXCEPT !.conn = c]
    /\ UNCHANGED <<host, op, slip, answer>>

\* One ABRecv is taken for one request: whatever arrived behind the first is lost.
GuestRecv ==
    /\ Idle
    /\ link[guest.conn].toGuest # <<>>
    /\ \E n \in 1..Len(link[guest.conn].toGuest) :
          link' = [link EXCEPT ![guest.conn].toGuest = SubSeq(@, n + 1, Len(@))]
    /\ guest' = [guest EXCEPT !.busy = Head(link[guest.conn].toGuest), !.sent = FALSE]
    /\ UNCHANGED <<queue, host, op, slip, answer>>

\* The body of the file that is being written has not been read yet.
BodyLeft ==
    /\ guest.busy # NoReq /\ guest.busy.verb = "PUT"
    /\ link[guest.conn].toGuest # <<>>
    /\ Head(link[guest.conn].toGuest) = BodyOf(guest.busy)

\* StreamReadFull, StreamToFork, or the loop that drops the body.
GuestReadsBody ==
    /\ BodyLeft /\ ~guest.sent
    /\ link' = [link EXCEPT ![guest.conn].toGuest = Tail(@)]
    /\ UNCHANGED <<queue, host, op, guest, slip, answer>>

\* ABSend of a piece; a peer that is gone does not get it.
Sends(last) ==
    link' = [link EXCEPT ![guest.conn].toHost =
                IF link[guest.conn].hostEnd = "closed" THEN @
                ELSE Append(@, [req |-> guest.busy, last |-> last])]

\* WriteFileVerb answers a header it refuses, or a fork it cannot open, at once:
\* the body stays on the wire, and is taken for a request.
LeavesBody == SlipsIf(BodyLeft /\ guest.conn = host.conn, "body")

GuestSendFirst ==
    /\ guest.up /\ guest.busy # NoReq /\ ~guest.sent
    /\ Sends(FALSE)
    /\ LeavesBody
    /\ guest' = [guest EXCEPT !.sent = TRUE]
    /\ UNCHANGED <<queue, host, op, answer>>

GuestSendLast ==
    /\ guest.up /\ guest.busy # NoReq
    /\ Sends(TRUE)
    /\ LeavesBody
    /\ guest' = [guest EXCEPT !.busy = NoReq, !.sent = FALSE]
    /\ UNCHANGED <<queue, host, op, answer>>

\* Mutant: the request being served is not forgotten with its link.
GuestLeaves_StillBusy(up) ==
    /\ \E fin \in Fins : link' = [link EXCEPT ![guest.conn] = GuestCloses(@, fin)]
    /\ guest' = [guest EXCEPT !.up = up, !.conn = NoConn]
    /\ UNCHANGED <<queue, host, op, slip, answer>>

GuestLeaves(up) ==
    /\ \E fin \in Fins : link' = [link EXCEPT ![guest.conn] = GuestCloses(@, fin)]
    /\ guest' = [up |-> up, conn |-> NoConn, busy |-> NoReq, sent |-> FALSE]
    /\ UNCHANGED <<queue, host, op, slip, answer>>

\* ABRecv fails or returns nothing, or a streamed reply could not be sent.
GuestLosesLink ==
    /\ guest.up /\ guest.conn # NoConn
    /\ \/ guest.busy = NoReq /\ GuestSeesEof(guest.conn)
       \/ guest.busy # NoReq /\ link[guest.conn].hostEnd = "closed"
    /\ GuestLeaves(TRUE)

\* The rest of the body does not come for FILE_STALL_TICKS.
GuestStalls ==
    /\ BodyLeft /\ ~guest.sent
    /\ GuestLeaves(TRUE)

\* Nothing heard and nothing sent for HEARTBEAT_WATCHDOG_TICKS.
WatchdogOnDeadLink ==
    /\ Idle
    /\ link[guest.conn].toGuest = <<>>
    /\ link[guest.conn].hostEnd = "closed"
    /\ GuestLeaves(TRUE)

\* The same while the host is busy elsewhere, or has not accepted yet.
WatchdogOnQuietLink ==
    /\ Idle
    /\ link[guest.conn].toGuest = <<>>
    /\ link[guest.conn].hostEnd # "closed"
    /\ GuestLeaves(TRUE)

\* The daemon quits or the machine stops; the guest's watchdog relaunches it.
GuestCrash ==
    /\ guest.up
    /\ IF guest.conn = NoConn
       THEN /\ guest' = [guest EXCEPT !.up = FALSE]
            /\ UNCHANGED <<link, queue, host, op, slip, answer>>
       ELSE GuestLeaves(FALSE)

GuestRelaunch ==
    /\ ~guest.up
    /\ guest' = [guest EXCEPT !.up = TRUE]
    /\ UNCHANGED <<link, queue, host, op, slip, answer>>

GuestServe == GuestRecv \/ GuestReadsBody \/ GuestSendFirst \/ GuestSendLast
GuestNet   == GuestDial \/ GuestLosesLink \/ WatchdogOnDeadLink

Next ==
    \/ HostAccept \/ HostStart \/ Resync \/ HostRead
    \/ GuestServe \/ GuestNet
    \/ GuestStalls \/ WatchdogOnQuietLink \/ GuestCrash \/ GuestRelaunch

Spec == Init /\ [][Next]_vars

\* Both programs are loops that go on taking steps: the host accepts, starts
\* what it owes (the handshake, else a heartbeat) and ends every read by its
\* timeout; the daemon dials, serves, notices a dead link, and is relaunched.
\* Bytes in flight arrive before infinitely many reads have given up on them.
Fairness ==
    /\ SF_vars(ReadFirst \/ ReadLast)
    /\ WF_vars(HostAccept) /\ WF_vars(HostStart) /\ WF_vars(Resync) /\ WF_vars(HostRead)
    /\ WF_vars(GuestServe) /\ WF_vars(GuestNet) /\ WF_vars(GuestRelaunch)

FairSpec == Spec /\ Fairness

-----------------------------------------------------------------------------
(* Properties *)

\* "Responses can't shift by one frame": a client exchange returns somebody
\* else's reply, be it of its own kind, only on a link that has slipped: a drain
\* ended early, a reader gave up unmarked or stopped short, a body was left unread.
ShiftOnlyAfterSlip == answer = "other" => slip # "none"

\* Not so of the code (README): a reader that gives up leaves the link marked out of step.
NoShiftByUnmarkedTimeout == answer = "other" => slip # "unmarked"

\* Not so of the code (README): a reader that succeeds has read its frame to the end.
NoShiftByShortRead == answer = "other" => slip # "short"

\* Between exchanges nothing is due on a link that is not known to be out of
\* step: no request unread or being served, no reply on its way.
QuietBetweenExchanges ==
    Connected /\ host.pc \in {"loop", "hello"} /\ ~host.desynced /\ slip = "none"
        => ~Outstanding(host.conn)

\* Who holds an end is open on it, the queue holds just what waits for accept(),
\* and what waits there has carried nothing yet.
WireAgrees ==
    /\ \A c \in Conn :
          /\ link[c].hostEnd = "open" <=> host.conn = c
          /\ link[c].guestEnd = "open" <=> guest.conn = c
          /\ link[c].hostEnd = "queued" <=> \E i \in 1..Len(queue) : queue[i] = c
          /\ link[c].guestEnd = "closed" => link[c].toGuest = <<>>
          /\ link[c].hostEnd = "queued" => ~Outstanding(c)
    /\ \A i, j \in 1..Len(queue) : queue[i] = queue[j] => i = j

\* A program in the middle of something has what it is in the middle of.
StepsAgree ==
    /\ guest.busy # NoReq => guest.up /\ guest.conn # NoConn
    /\ host.pc # "loop" => Connected
    /\ host.pc \in {"reading", "resync"} => op.kind # "none"
    /\ host.pc \in {"reading", "hello2"} \/ op.kind = "HELLO2" => op.req \in Req

\* How far the one exchange of a link that has not slipped may have come: its
\* request waits, or is served, or has been answered or lost.
FirstPiece == [req |-> op.req, last |-> FALSE]
LastPiece  == [req |-> op.req, last |-> TRUE]

Waiting(c) ==
    /\ link[c].toGuest = Sent(op.req) /\ ~Serving(c)
    /\ link[c].toHost = <<>> /\ op.head = NoReq

Served(c) ==
    /\ Serving(c) /\ guest.busy = op.req
    /\ \/ link[c].toGuest = <<>>
       \/ link[c].toGuest = <<BodyOf(op.req)>> /\ op.req.verb = "PUT" /\ ~guest.sent
    /\ \/ ~guest.sent /\ link[c].toHost = <<>> /\ op.head = NoReq
       \/ guest.sent /\ link[c].toHost = <<FirstPiece>> /\ op.head = NoReq
       \/ guest.sent /\ link[c].toHost = <<>> /\ op.head = op.req

Answered(c) ==
    /\ link[c].toGuest = <<>> /\ ~Serving(c)
    /\ \/ link[c].toHost = <<>> /\ op.head \in {NoReq, op.req}
       \/ link[c].toHost \in {<<FirstPiece>>, <<FirstPiece, LastPiece>>} /\ op.head = NoReq
       \/ link[c].toHost = <<LastPiece>> /\ op.head \in {NoReq, op.req}

InFlight(c) == op.req \in Req /\ (Waiting(c) \/ Served(c) \/ Answered(c))

\* The strengthening under which ShiftOnlyAfterSlip and QuietBetweenExchanges
\* are preserved by every step.
OneExchange ==
    Connected /\ slip = "none" =>
       /\ host.pc = "resync" => host.desynced
       /\ host.pc = "reading" => ~host.desynced /\ InFlight(host.conn)
       /\ host.pc \notin {"reading", "resync"} /\ ~host.desynced => ~Outstanding(host.conn)

LinkInv == TypeOK /\ WireAgrees /\ StepsAgree /\ OneExchange /\ ShiftOnlyAfterSlip

\* The loop never wedges: whatever the daemon does, an exchange and the
\* handshake come to an end and the control port is served again.
LoopComesRound == (host.pc # "loop") ~> (host.pc = "loop")

\* The two programs talk over the same connection.
Joined == Connected /\ guest.conn = host.conn

\* Once the daemon neither crashes nor gives up a link the host still owes it,
\* and no client asks any more, the two find each other again and again, however
\* the old link died.
ClientAsks == \E k \in ClientKinds : Begin(k)
Steady  == <>[][~GuestCrash /\ ~WatchdogOnQuietLink /\ ~ClientAsks]_vars
Rejoins == Steady => []<>Joined

\* Not so of the code (README): with a client that goes on asking, too.
RejoinsWhilePolled == <>[][~GuestCrash /\ ~WatchdogOnQuietLink]_vars => []<>Joined

=============================================================================
