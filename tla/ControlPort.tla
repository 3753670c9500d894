---------------------------- MODULE ControlPort ----------------------------
(***************************************************************************)
(* The control port of the host server (host/host_server.py) and its       *)
(* clients: the MCP layer (mcp/mac_connection.py), which gives up after a   *)
(* time and says so in a DEADLINE line, and send_command.py, which waits    *)
(* for ever.                                                               *)
(*                                                                         *)
(* One loop serves one request at a time; the others wait in the kernel's  *)
(* backlog, where the server cannot see them.  A request arrives in two    *)
(* pieces, the AUTH and DEADLINE lines in the first one.  What a verb does *)
(* is whether it acts, what is replied and whether it costs the daemon's   *)
(* link, whose own protocol is BridgeLink.                                 *)
(***************************************************************************)
EXTENDS Naturals, Sequences

CONSTANTS
    Client, NoClient,
    Requests,      \* what clients may ask: records of RequestType
    Backlog,       \* listen(5)
    CtrlToken,     \* is APPLEBRIDGE_CTRL_TOKEN set
    RemoteGuest,   \* APPLEBRIDGE_REMOTE_GUEST: the guest is on another machine
    MaxNow         \* bound of the clock

HostVerbs   == {"HOSTKEY", "HOSTSHOT", "HOSTCLICK", "HOSTMENU", "HOSTHOLDSHOT"}
ArgVerbs    == {"CLIPSET", "AESEND", "WRITEFILE"}     \* arguments are decoded first
ReadVerbs   == {"screenshot", "READFILE", "LOG"}      \* a missing answer is framed
DaemonVerbs == {"send_raw", "send_command"}           \* a missing answer is not
Verbs == HostVerbs \union ArgVerbs \union ReadVerbs \union DaemonVerbs
            \union {"MACSTATUS", "DOCTOR", "PROBE"}

\* wait is the client's timeout, 0 for one that sets none; blank says that a
\* blank line within the command falls into the first piece.
RequestType == [verb : Verbs, wait : Nat, blank : BOOLEAN, token : BOOLEAN]

Pieces == 2

ASSUME PortAssumption ==
    /\ NoClient \notin Client
    /\ Requests \subseteq RequestType
    /\ Backlog \in Nat \ {0}
    /\ CtrlToken \in BOOLEAN
    /\ RemoteGuest \in BOOLEAN
    /\ MaxNow \in Nat

VARIABLES
    now,       \* the clock both ends read
    linked,    \* server.connected
    backlog,   \* clients connected and not yet accepted, oldest first
    server,    \* the loop's step, the client it serves, the pieces read, the reply
    client,    \* each client's request, how far it is and what it was told
    ran        \* history: did the request act, and was all of it read

vars == <<now, linked, backlog, server, client, ran>>

-----------------------------------------------------------------------------
(* State *)

Replies == {"ok", "fail", "refused", "bare", "none"}

ServerState == [pc  : {"poll", "accept", "read", "gate", "serve", "reply"},
                cur : Client \union {NoClient}, got : 0..Pieces, out : Replies]

\* gone is where the request was when its client stopped waiting.
ClientState == [at : {"away", "queued", "read", "served", "done"},
                req : Requests, deadline : Nat, sent : 0..Pieces,
                gone : {"no", "queued", "read", "served"},
                told : {"nothing", "ok", "failed", "refused"}, whole : BOOLEAN]

TypeOK ==
    /\ now \in Nat
    /\ linked \in BOOLEAN
    /\ backlog \in Seq(Client)
    /\ server \in ServerState
    /\ client \in [Client -> ClientState]
    /\ ran \in [Client -> {"no", "cut", "whole"}]

Init ==
    /\ now = 0
    /\ linked = FALSE
    /\ backlog = <<>>
    /\ server = [pc |-> "poll", cur |-> NoClient, got |-> 0, out |-> "none"]
    /\ client \in [Client -> {[at |-> "away", req |-> r, deadline |-> 0, sent |-> 0,
                               gone |-> "no", told |-> "nothing", whole |-> TRUE] : r \in Requests}]
    /\ ran = [c \in Client |-> "no"]

NoDeadline == 0
Cur == client[server.cur]

-----------------------------------------------------------------------------
(* Clients *)

\* The deadline is fixed once connected; is_connected() only connects and closes.
Connect(c) ==
    /\ client[c].at = "away" /\ Len(backlog) < Backlog
    /\ LET r == client[c].req IN
       client' = [client EXCEPT ![c].at = "queued",
                                ![c].deadline = IF r.wait = 0 THEN NoDeadline ELSE now + r.wait,
                                ![c].gone = IF r.verb = "PROBE" THEN "queued" ELSE "no"]
    /\ backlog' = Append(backlog, c)
    /\ UNCHANGED <<now, linked, server, ran>>

Waiting(c) == client[c].at \in {"queued", "read", "served"} /\ client[c].gone = "no"

SendPiece(c) ==
    /\ Waiting(c) /\ client[c].sent < Pieces
    /\ client' = [client EXCEPT ![c].sent = @ + 1]
    /\ UNCHANGED <<now, linked, backlog, server, ran>>

\* recv() has waited for `timeout` seconds, counted from after the deadline line.
GiveUp(c) ==
    /\ Waiting(c)
    /\ client[c].deadline # NoDeadline /\ now > client[c].deadline
    /\ client' = [client EXCEPT ![c].gone = client[c].at]
    /\ UNCHANGED <<now, linked, backlog, server, ran>>

\* A client without a deadline is killed.
Interrupt(c) ==
    /\ Waiting(c) /\ client[c].deadline = NoDeadline
    /\ client' = [client EXCEPT ![c].gone = client[c].at]
    /\ UNCHANGED <<now, linked, backlog, server, ran>>

Tick == now < MaxNow /\ now' = now + 1 /\ UNCHANGED <<linked, backlog, server, client, ran>>

-----------------------------------------------------------------------------
(* The loop *)

\* accept_mac(timeout=MAC_ACCEPT_POLL): the daemon may have dialled or not.
PollLink ==
    /\ server.pc = "poll"
    /\ linked' \in IF linked THEN {TRUE} ELSE BOOLEAN
    /\ server' = [server EXCEPT !.pc = "accept"]
    /\ UNCHANGED <<now, backlog, client, ran>>

\* One second without a client; a heartbeat may find the link dead.
IdleTick ==
    /\ server.pc = "accept" /\ backlog = <<>>
    /\ linked' \in IF linked THEN BOOLEAN ELSE {FALSE}
    /\ server' = [server EXCEPT !.pc = "poll"]
    /\ UNCHANGED <<now, backlog, client, ran>>

Accept ==
    /\ server.pc = "accept" /\ backlog # <<>>
    /\ server' = [pc |-> "read", cur |-> Head(backlog), got |-> 0, out |-> "none"]
    /\ client' = [client EXCEPT ![Head(backlog)].at = "read"]
    /\ backlog' = Tail(backlog)
    /\ UNCHANGED <<now, linked, ran>>

\* Mutant: the read goes on behind the end of the request.
ReadPiece_PastEnd ==
    /\ server.pc = "read"
    /\ server' = [server EXCEPT !.got = @ + 1]
    /\ UNCHANGED <<now, linked, backlog, client, ran>>

\* Any blank line in what has been read ends the request.
ReadPiece ==
    /\ server.pc = "read" /\ server.got < Cur.sent
    /\ server' = [server EXCEPT !.got = @ + 1,
                    !.pc = IF server.got + 1 = Pieces \/ Cur.req.blank THEN "gate" ELSE "read"]
    /\ UNCHANGED <<now, linked, backlog, client, ran>>

\* Mutant: the read has no timeout.
ReadEnds_OnEofOnly ==
    /\ server.pc = "read" /\ server.got = Cur.sent /\ Cur.gone # "no"
    /\ server' = [server EXCEPT !.pc = "gate"]
    /\ UNCHANGED <<now, linked, backlog, client, ran>>

\* Six seconds of silence or the client's EOF: what was read is the request.
ReadEnds ==
    /\ server.pc = "read" /\ server.got = Cur.sent
    /\ server' = [server EXCEPT !.pc = "gate"]
    /\ UNCHANGED <<now, linked, backlog, client, ran>>

Expired    == Cur.deadline # NoDeadline /\ now > Cur.deadline
Authorized == CtrlToken => Cur.req.token

\* Mutant: nothing is refused for being late.
Refused_ButNotLate ==
    \/ ~Authorized
    \/ RemoteGuest /\ Cur.req.verb \in HostVerbs
    \/ ~linked /\ Cur.req.verb \notin {"MACSTATUS", "DOCTOR", "HOSTSHOT", "HOSTKEY"}

Refused ==
    \/ Expired
    \/ ~Authorized
    \/ RemoteGuest /\ Cur.req.verb \in HostVerbs
    \/ ~linked /\ Cur.req.verb \notin {"MACSTATUS", "DOCTOR", "HOSTSHOT", "HOSTKEY"}

\* The connection is closed, whatever came of the request.
Finish(told, whole) ==
    /\ client' = [client EXCEPT ![server.cur].at = "done",
                    ![server.cur].told = IF Cur.gone = "no" THEN told ELSE @,
                    ![server.cur].whole = whole]
    /\ server' = [server EXCEPT !.pc = "poll", !.cur = NoClient]

Dispatch ==
    /\ server.pc = "gate" /\ server.got > 0 /\ ~Refused
    /\ server' = [server EXCEPT !.pc = "serve"]
    /\ client' = [client EXCEPT ![server.cur].at = "served"]
    /\ UNCHANGED <<now, linked, backlog, ran>>

Refuse ==
    /\ server.pc = "gate" /\ server.got > 0 /\ Refused
    /\ server' = [server EXCEPT !.pc = "reply", !.out = "refused"]
    /\ UNCHANGED <<now, linked, backlog, client, ran>>

\* An empty request is closed without a reply.
CloseEmpty ==
    /\ server.pc = "gate" /\ server.got = 0
    /\ Finish("failed", TRUE)
    /\ UNCHANGED <<now, linked, backlog, ran>>

-----------------------------------------------------------------------------
(* What the verbs do: [acted, out, the link afterwards] *)

Outcome(acted, out, link) == [acted |-> acted, out |-> out, link |-> link]

\* An exception before, during or after the act is a framed failure.
Guarded(link) == {Outcome(TRUE, "ok", link), Outcome(TRUE, "fail", link), Outcome(FALSE, "fail", link)}

HostKey       == Guarded(linked)
HostShot      == Guarded(linked)
HostClick     == Guarded(linked)
HostHoldShot  == Guarded(linked)

\* The guest's front application, asked of the daemon: as expected or not, which
\* includes no answer.
FrontApp == [expected : BOOLEAN, link : BOOLEAN]

HostMenu == UNION {IF f.expected THEN Guarded(f.link) ELSE {Outcome(FALSE, "fail", f.link)} : f \in FrontApp}

\* Both are answered whatever the daemon does; STAT may cost the link.
MacStatus == {Outcome(TRUE, "ok", link) : link \in IF linked THEN BOOLEAN ELSE {FALSE}}
Doctor    == Guarded(linked)

\* An exchange is answered, refused by the daemon, or lost with or without its
\* effect; missing is what the caller gets when nothing came back.
Exchange(missing) ==
    {o \in [acted : BOOLEAN, out : {"ok", "fail", missing}, link : BOOLEAN] : o.out = "ok" => o.acted}

Screenshot == Exchange("fail")
ReadFile   == Exchange("fail")
Log        == Exchange("fail")
WithArgs   == Exchange("bare")
ToDaemon   == Exchange("bare")

Outcomes(v) ==
    CASE v = "HOSTKEY"      -> HostKey
      [] v = "HOSTSHOT"     -> HostShot
      [] v = "HOSTCLICK"    -> HostClick
      [] v = "HOSTMENU"     -> HostMenu
      [] v = "HOSTHOLDSHOT" -> HostHoldShot
      [] v = "MACSTATUS"    -> MacStatus
      [] v = "DOCTOR"       -> Doctor
      [] v = "screenshot"   -> Screenshot
      [] v = "READFILE"     -> ReadFile
      [] v = "LOG"          -> Log
      [] v \in ArgVerbs     -> WithArgs
      [] OTHER              -> ToDaemon

Serve ==
    /\ server.pc = "serve"
    /\ \E o \in Outcomes(Cur.req.verb) :
          /\ linked' = o.link
          /\ ran' = [ran EXCEPT ![server.cur] =
                        IF ~o.acted THEN @ ELSE IF server.got = Pieces THEN "whole" ELSE "cut"]
          /\ server' = [server EXCEPT !.pc = "reply", !.out = o.out]
    /\ UNCHANGED <<now, backlog, client>>

\* Mutant: a reply without a STATUS line counts as a success.
Told_DefaultsToZero(out) == IF out = "fail" THEN "failed" ELSE IF out = "refused" THEN out ELSE "ok"

\* _parse_response: only a STATUS:0 frame is a success.
Told(out) == IF out \in {"ok", "refused"} THEN out ELSE "failed"

\* sendall() has six seconds; a reply cut short is followed by a plain close.
Reply ==
    /\ server.pc = "reply"
    /\ \E whole \in IF server.out = "ok" THEN BOOLEAN ELSE {TRUE} : Finish(Told(server.out), whole)
    /\ UNCHANGED <<now, linked, backlog, ran>>

-----------------------------------------------------------------------------

Loop == PollLink \/ IdleTick \/ Accept \/ ReadPiece \/ ReadEnds
            \/ Dispatch \/ Refuse \/ CloseEmpty \/ Serve \/ Reply

Next ==
    \/ Loop
    \/ Tick
    \/ \E c \in Client : Connect(c) \/ SendPiece(c) \/ GiveUp(c) \/ Interrupt(c)

Spec == Init /\ [][Next]_vars

\* The loop goes on: accepts and reads have timeouts, and an exchange with the
\* daemon ends (LoopComesRound of BridgeLink).
FairSpec == Spec /\ WF_vars(Loop)

-----------------------------------------------------------------------------
(* Properties *)

\* A caller that stops listening before its request is taken up, in the backlog
\* or while it is read, does not have it executed behind its back, provided it
\* sent a deadline (split_ctrl_deadline's account of the measured defect).
NotRunAfterGiveUp ==
    \A c \in Client :
        client[c].gone \in {"queued", "read"} /\ client[c].deadline # NoDeadline => ran[c] = "no"

\* What the caller is told is so: a success was executed, and a request that was
\* refused, for its deadline, token, guest or link, never was.
ToldTrue ==
    \A c \in Client :
        /\ client[c].told = "ok" => ran[c] # "no"
        /\ client[c].told = "refused" => ran[c] = "no"

\* Not so of the code (README): "so a truncated response is never seen as a clean success"
\* (send_command).
TruncatedIsNoSuccess ==
    \A c \in Client : client[c].told = "ok" => client[c].whole

\* Nor this: a request runs as it was sent or not at all (_recv_control_command reads "one
\* command", until its terminator or the client's EOF).
RunsWhole == \A c \in Client : ran[c] # "cut"

\* Whoever has connected is served and closed, with the daemon there or not and
\* whatever the clients before it do (the port "stays answerable").
EveryoneServed == \A c \in Client : client[c].at = "queued" ~> client[c].at = "done"

\* Everyone is where the loop has them: it serves a client from the accept to the reply, the
\* backlog holds each client once, and nothing is run or told before its time.
Busy == {"read", "gate", "serve", "reply"}

AtTheLoop ==
    /\ server.pc \in Busy <=> server.cur # NoClient
    /\ server.pc \in {"read", "gate"} => Cur.at = "read" /\ server.got <= Cur.sent
    /\ server.pc = "serve" => Cur.at = "served"
    /\ server.pc = "reply" => Cur.at \in {"read", "served"}

InTheBacklog ==
    /\ \A i \in DOMAIN backlog : client[backlog[i]].at = "queued"
    /\ \A i, j \in DOMAIN backlog : backlog[i] = backlog[j] => i = j

Untouched ==
    \A c \in Client : /\ client[c].at = "away" => client[c].sent = 0
                      /\ client[c].at # "done" => client[c].told = "nothing"
                      /\ ran[c] # "no" => client[c].at \in {"served", "done"}

Seated == AtTheLoop /\ InTheBacklog /\ Untouched

\* The reply that waits to be sent is so.
ReplyTrue ==
    server.pc = "reply" => /\ server.out = "ok" => ran[server.cur] # "no"
                           /\ server.out = "refused" => ran[server.cur] = "no"

\* Who gave up before being served did so after the deadline, or has sent nothing; and is not
\* served after that.
GaveUpEarly(c) == client[c].gone \in {"queued", "read"} /\ client[c].deadline # NoDeadline

GaveUpInTime ==
    \A c \in Client : GaveUpEarly(c) =>
        /\ now > client[c].deadline \/ client[c].sent = 0
        /\ client[c].at # "served" /\ ran[c] = "no"

\* The invariant of the port: the state is typed, everyone is in their place, nobody is told of a
\* success or a refusal that was none, and who gives up has given up in time.
PortInv == TypeOK /\ Seated /\ ReplyTrue /\ ToldTrue /\ GaveUpInTime

=============================================================================
