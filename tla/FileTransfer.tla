---------------------------- MODULE FileTransfer ----------------------------
(***************************************************************************)
(* File transfer over the daemon link: the verbs WRITEFILE and READFILE of *)
(* mac/src/fileio.c and their callers put_file and get_file in             *)
(* host/host_server.py, for one path on the Macintosh.                     *)
(*                                                                         *)
(* A put is a header, a path and the units of two forks, sent as one byte  *)
(* stream through a window that may be smaller than the file.  The daemon  *)
(* takes whatever one receive returns for a request, so any unit of a body *)
(* that WriteFileVerb did not read is the next request.  A status frame is *)
(* one unit; a file comes back as a header and the units of its forks.     *)
(***************************************************************************)
EXTENDS Naturals, Sequences

CONSTANTS
    Puts, Gets,         \* the transfers that may be asked for
    DataLen, RsrcLen,   \* units in the two forks of each put
    NoOp,               \* null value
    Window,             \* units the connection holds before sendall() blocks
    MaxStale,           \* bound of the model: units a drain may miss
    Failures            \* the ways WriteFileVerb may fail

Op == Puts \union Gets
EarlyFailures == {"memory", "header", "size"}    \* before the path is read

ASSUME TransferAssumption ==
    /\ Puts \intersect Gets = {} /\ NoOp \notin Op
    /\ DataLen \in [Puts -> Nat] /\ RsrcLen \in [Puts -> Nat]
    /\ Window \in Nat \ {0} /\ MaxStale \in Nat
    /\ Failures \subseteq EarlyFailures \union {"create", "openData", "openRsrc"}

VARIABLES
    toGuest, toHost,    \* the two directions of the connection
    hostUp, guestUp,    \* which ends of it are open
    host,               \* put_file or get_file in progress
    guest,              \* WriteFileVerb or ReadFileVerb in progress
    disk,               \* the file at the path
    told,               \* history: what the last transfer returned
    slip                \* history: how the two ends came to disagree on this link

vars == <<toGuest, toHost, hostUp, guestUp, host, guest, disk, told, slip>>

-----------------------------------------------------------------------------
(* State *)

Unit  == [op : Op, part : {"head", "path", "data", "rsrc", "get"}]
Frame == [op : Op, part : {"written", "failed", "file", "bytes"}, len : Nat]

HostState  == [pc : {"idle", "sending", "waiting", "reading"}, op : Op \union {NoOp},
               left : Seq(Unit), need : Nat, own : BOOLEAN, junk : BOOLEAN]
GuestState == [pc : {"ready", "path", "drain", "data", "rsrc", "sending"},
               op : Op \union {NoOp}, pre : Seq(Unit), left : Nat]

\* Who wrote the file, the lengths its forks were given, the units written to
\* them, and whether all of them came from that put.
File == [of : Puts \union {NoOp}, dataEnd : Nat, data : Nat, rsrcEnd : Nat, rsrc : Nat,
         pure : BOOLEAN]

NoFile    == [of |-> NoOp, dataEnd |-> 0, data |-> 0, rsrcEnd |-> 0, rsrc |-> 0, pure |-> TRUE]
HostIdle  == [pc |-> "idle", op |-> NoOp, left |-> <<>>, need |-> 0, own |-> TRUE, junk |-> FALSE]
GuestIdle == [pc |-> "ready", op |-> NoOp, pre |-> <<>>, left |-> 0]
Nothing   == [op |-> NoOp, what |-> "none", own |-> TRUE]

Empty(p) == [NoFile EXCEPT !.of = p]
Whole(p) == [of |-> p, dataEnd |-> DataLen[p], data |-> DataLen[p],
             rsrcEnd |-> RsrcLen[p], rsrc |-> RsrcLen[p], pure |-> TRUE]

TypeOK ==
    /\ toGuest \in Seq(Unit) /\ toHost \in Seq(Frame)
    /\ hostUp \in BOOLEAN /\ guestUp \in BOOLEAN
    /\ host \in HostState /\ guest \in GuestState
    /\ disk \in File
    /\ told \in [op : Op \union {NoOp}, what : {"none", "written", "failed", "file", "garbled"},
                 own : BOOLEAN]
    /\ slip \in {"none", "stray", "gaveup"}

Init ==
    /\ toGuest = <<>> /\ toHost = <<>>
    /\ hostUp = FALSE /\ guestUp = FALSE
    /\ host = HostIdle /\ guest = GuestIdle
    /\ disk = NoFile /\ told = Nothing /\ slip = "none"

Prefixes(s) == 1..Len(s)
After(s, n) == SubSeq(s, n + 1, Len(s))

-----------------------------------------------------------------------------
(* The host: put_file and get_file *)

Times(n, u) == [i \in 1..n |-> u]

Request(p) ==
    IF p \in Gets THEN <<[op |-> p, part |-> "get"]>>
    ELSE <<[op |-> p, part |-> "head"], [op |-> p, part |-> "path"]>>
            \o Times(DataLen[p], [op |-> p, part |-> "data"])
            \o Times(RsrcLen[p], [op |-> p, part |-> "rsrc"])

HostEnd == /\ hostUp' = FALSE
           /\ toHost' = <<>>
           /\ host' = HostIdle
           /\ told' = [Nothing EXCEPT !.op = host.op]
           /\ UNCHANGED <<toGuest, guestUp, guest, disk, slip>>

Traces == {toGuest[i].op : i \in 1..Len(toGuest)}
             \union {toHost[i].op : i \in 1..Len(toHost)} \union {guest.op}

\* The drain before a transfer sweeps what has arrived.  A transfer is asked for
\* again once nothing on the link is left of its last time.
HostBegin(p) ==
    /\ host.pc = "idle" /\ hostUp /\ p \notin Traces
    /\ guestUp \/ toHost # <<>>
    /\ \E n \in 0..Len(toHost) :
          /\ Len(toHost) - n <= MaxStale
          /\ toHost' = After(toHost, n)
    /\ host' = [HostIdle EXCEPT !.pc = "sending", !.op = p, !.left = Request(p)]
    /\ told' = Nothing
    /\ UNCHANGED <<toGuest, hostUp, guestUp, guest, disk, slip>>

\* sendall() blocks while the window is full.
HostSends ==
    /\ host.pc = "sending" /\ guestUp
    /\ Len(toGuest) < Window
    /\ toGuest' = Append(toGuest, Head(host.left))
    /\ host' = [host EXCEPT !.left = Tail(@),
                            !.pc = IF Len(host.left) = 1 THEN "waiting" ELSE "sending"]
    /\ UNCHANGED <<toHost, hostUp, guestUp, guest, disk, told, slip>>

\* The drain, sendall() or recv() finds the daemon gone.
HostLosesLink ==
    /\ hostUp /\ ~guestUp
    /\ host.pc \in {"waiting", "reading"} => toHost = <<>>
    /\ HostEnd

\* A reader returns and the rest of its last recv() goes with its buffer.
Returns(what, own) ==
    /\ \E n \in Prefixes(toHost) : toHost' = After(toHost, n)
    /\ told' = [op |-> host.op, what |-> what, own |-> own]
    /\ host' = HostIdle

FirstIsOwn == host.own /\ Head(toHost).op = host.op

\* put_file takes everything up to a blank line for the reply.
PutReads ==
    /\ host.pc = "waiting" /\ host.op \in Puts /\ toHost # <<>>
    /\ LET f == Head(toHost) IN
       IF f.part \in {"written", "failed"}
       THEN Returns(IF host.junk THEN "garbled" ELSE f.part, FirstIsOwn)
       ELSE /\ toHost' = Tail(toHost)
            /\ host' = [host EXCEPT !.own = FirstIsOwn, !.junk = TRUE]
            /\ UNCHANGED told
    /\ UNCHANGED <<toGuest, hostUp, guestUp, guest, disk, slip>>

\* get_file takes the lengths of the forks from the first line, or gives up on it.
GetReadsHeader ==
    /\ host.pc = "waiting" /\ host.op \in Gets /\ toHost # <<>>
    /\ LET f == Head(toHost) IN
       CASE f.part # "file"                -> Returns("failed", FirstIsOwn)
         [] f.part = "file" /\ f.len = 0   -> Returns("file", FirstIsOwn)
         [] OTHER -> /\ toHost' = Tail(toHost)
                     /\ host' = [host EXCEPT !.pc = "reading", !.need = f.len,
                                             !.own = FirstIsOwn]
                     /\ UNCHANGED told
    /\ UNCHANGED <<toGuest, hostUp, guestUp, guest, disk, slip>>

GetReadsFork ==
    /\ host.pc = "reading" /\ toHost # <<>>
    /\ IF host.need = 1
       THEN Returns("file", FirstIsOwn)
       ELSE /\ toHost' = Tail(toHost)
            /\ host' = [host EXCEPT !.need = @ - 1, !.own = FirstIsOwn]
            /\ UNCHANGED told
    /\ UNCHANGED <<toGuest, hostUp, guestUp, guest, disk, slip>>

\* Mutant: get_file reads without a timeout.
HostGivesUp_PutOnly ==
    /\ host.pc = "waiting" /\ host.op \in Puts /\ toHost = <<>> /\ guestUp
    /\ host' = HostIdle
    /\ told' = [Nothing EXCEPT !.op = host.op]
    /\ slip' = IF slip = "none" /\ (toGuest # <<>> \/ guest.pc # "ready") THEN "gaveup" ELSE slip
    /\ UNCHANGED <<toGuest, toHost, hostUp, guestUp, guest, disk>>

\* Nothing for LONG_TIMEOUT.  The link is kept as it is.
HostGivesUp ==
    /\ host.pc \in {"waiting", "reading"} /\ toHost = <<>> /\ guestUp
    /\ host' = HostIdle
    /\ told' = [Nothing EXCEPT !.op = host.op]
    /\ slip' = IF slip = "none" /\ (toGuest # <<>> \/ guest.pc # "ready") THEN "gaveup" ELSE slip
    /\ UNCHANGED <<toGuest, toHost, hostUp, guestUp, guest, disk>>

\* The host server is stopped and started again.
HostRestarts == hostUp /\ HostEnd

HostReads == PutReads \/ GetReadsHeader \/ GetReadsFork

-----------------------------------------------------------------------------
(* The guest: the main loop, WriteFileVerb and ReadFileVerb *)

GuestDials ==
    /\ ~hostUp /\ ~guestUp
    /\ hostUp' = TRUE /\ guestUp' = TRUE
    /\ slip' = "none" /\ told' = Nothing
    /\ UNCHANGED <<toGuest, toHost, host, guest, disk>>

\* Mutant: the link is given up and the verb in hand goes on.
GuestCloses_KeepsVerb ==
    /\ guestUp' = FALSE
    /\ toGuest' = <<>>
    /\ guest' = guest
    /\ UNCHANGED <<toHost, hostUp, host, told, slip>>

\* ABClose: the link is given up, whatever was in hand.
GuestCloses ==
    /\ guestUp' = FALSE
    /\ toGuest' = <<>>
    /\ guest' = GuestIdle
    /\ UNCHANGED <<toHost, hostUp, host, told, slip>>

\* ReplyStatus: the verb is over, whether ABSend worked or not.
Replies(p, status) ==
    /\ toHost' = IF hostUp THEN Append(toHost, [op |-> p, part |-> status, len |-> 0]) ELSE toHost
    /\ guest' = GuestIdle

\* The verb is over with units of its request still to come.
Strays(some) == slip' = IF slip = "none" /\ some THEN "stray" ELSE slip
RestOf(p, s) == \E i \in 1..Len(s) : s[i].op = p
BodyIsDue(p, wire) == RestOf(p, wire) \/ RestOf(p, host.left)

\* StreamRead: bytes of the request buffer first, then the wire, never more than
\* what is wanted.
Readable == guest.pre \o toGuest
Reads ==
    /\ Readable # <<>>
    /\ IF guest.pre # <<>> THEN UNCHANGED toGuest ELSE toGuest' = Tail(toGuest)

\* Mutant: the place in the request buffer does not move on.
PreAfter_Stuck == guest.pre

PreAfter == IF guest.pre # <<>> THEN Tail(guest.pre) ELSE <<>>

\* One receive is one request.
GuestTakesRequest ==
    /\ guestUp /\ guest.pc = "ready" /\ toGuest # <<>>
    /\ \E n \in Prefixes(toGuest) :
          /\ toGuest' = After(toGuest, n)
          /\ LET u   == Head(toGuest)
                 pre == SubSeq(toGuest, 2, n)
             IN CASE u.part = "head" ->
                       \/ /\ guest' = [pc |-> "path", op |-> u.op, pre |-> pre, left |-> 0]
                          /\ UNCHANGED <<toHost, slip>>
                       \/ /\ Failures \intersect EarlyFailures # {}
                          /\ Replies(u.op, "failed")
                          /\ Strays(BodyIsDue(u.op, After(toGuest, n)))
                  [] u.part = "get" ->
                       /\ IF disk.of = NoOp
                          THEN Replies(u.op, "failed")
                          ELSE LET len == disk.dataEnd + disk.rsrcEnd IN
                               /\ toHost' = IF hostUp
                                            THEN Append(toHost, [op |-> u.op, part |-> "file", len |-> len])
                                            ELSE toHost
                               /\ guest' = IF len = 0 THEN GuestIdle
                                           ELSE [pc |-> "sending", op |-> u.op, pre |-> <<>>, left |-> len]
                       /\ UNCHANGED slip
                  [] OTHER -> Replies(u.op, "failed") /\ UNCHANGED slip
    /\ UNCHANGED <<hostUp, guestUp, host, disk, told>>

\* Mutant: a put that cannot create the file replies at once.
Creation_NoDrain(p, pre) ==
    /\ "create" \in Failures
    /\ disk' = NoFile
    /\ Replies(p, "failed")
    /\ UNCHANGED slip

\* The old file is deleted and the new one created: that may fail, and then the
\* declared body is drained before the reply.
CreationFails(p, pre) ==
    /\ "create" \in Failures
    /\ disk' = NoFile
    /\ IF DataLen[p] + RsrcLen[p] = 0
       THEN Replies(p, "failed")
       ELSE /\ guest' = [pc |-> "drain", op |-> p, pre |-> pre, left |-> DataLen[p] + RsrcLen[p]]
            /\ UNCHANGED toHost
    /\ UNCHANGED slip

\* Opening a fork may fail too, and then what is left of the body is not drained.
OpenFails(p, pre, due) ==
    /\ Replies(p, "failed")
    /\ Strays(due > Len(pre))

\* The resource fork, or the end of the put when there is none.
AfterData(p, pre, file) ==
    IF RsrcLen[p] = 0
    THEN disk' = file /\ Replies(p, "written") /\ UNCHANGED slip
    ELSE \/ /\ disk' = [file EXCEPT !.rsrcEnd = RsrcLen[p]]
            /\ guest' = [pc |-> "rsrc", op |-> p, pre |-> pre, left |-> RsrcLen[p]]
            /\ UNCHANGED <<toHost, slip>>
         \/ /\ "openRsrc" \in Failures
            /\ disk' = file
            /\ OpenFails(p, pre, RsrcLen[p])

GuestReadsPath ==
    /\ guest.pc = "path" /\ Reads
    /\ LET p == guest.op  sized == [Empty(p) EXCEPT !.dataEnd = DataLen[p]] IN
       \/ CreationFails(p, PreAfter)
       \/ /\ "openData" \in Failures
          /\ disk' = Empty(p)
          /\ OpenFails(p, PreAfter, DataLen[p] + RsrcLen[p])
       \/ /\ DataLen[p] = 0
          /\ AfterData(p, PreAfter, sized)
       \/ /\ DataLen[p] > 0
          /\ disk' = sized
          /\ guest' = [pc |-> "data", op |-> p, pre |-> PreAfter, left |-> DataLen[p]]
          /\ UNCHANGED <<toHost, slip>>
    /\ UNCHANGED <<hostUp, guestUp, host, told>>

Read(fork) == [op |-> guest.op, part |-> fork]

GuestReadsData ==
    /\ guest.pc = "data" /\ Reads
    /\ LET file == [disk EXCEPT !.data = @ + 1, !.pure = @ /\ Head(Readable) = Read("data")] IN
       IF guest.left = 1
       THEN AfterData(guest.op, PreAfter, file)
       ELSE /\ disk' = file
            /\ guest' = [guest EXCEPT !.pre = PreAfter, !.left = @ - 1]
            /\ UNCHANGED <<toHost, slip>>
    /\ UNCHANGED <<hostUp, guestUp, host, told>>

GuestReadsRsrc ==
    /\ guest.pc = "rsrc" /\ Reads
    /\ disk' = [disk EXCEPT !.rsrc = @ + 1, !.pure = @ /\ Head(Readable) = Read("rsrc")]
    /\ IF guest.left = 1
       THEN Replies(guest.op, "written")
       ELSE guest' = [guest EXCEPT !.pre = PreAfter, !.left = @ - 1] /\ UNCHANGED toHost
    /\ UNCHANGED <<hostUp, guestUp, host, told, slip>>

GuestDrains ==
    /\ guest.pc = "drain" /\ Reads
    /\ IF guest.left = 1
       THEN Replies(guest.op, "failed")
       ELSE guest' = [guest EXCEPT !.pre = PreAfter, !.left = @ - 1] /\ UNCHANGED toHost
    /\ UNCHANGED <<hostUp, guestUp, host, disk, told, slip>>

\* Nothing to drain, or a receive that failed: the loop comes round again.
GuestDrainsNothing ==
    /\ guest.pc = "drain" /\ Readable = <<>>
    /\ UNCHANGED vars

\* Mutant: the count of bytes to send is not tested for zero.
GuestSendsFork_NoEnd ==
    /\ guest.pc = "sending" /\ hostUp
    /\ toHost' = Append(toHost, [op |-> guest.op, part |-> "bytes", len |-> 0])
    /\ guest' = [guest EXCEPT !.left = @ - 1]
    /\ UNCHANGED <<toGuest, hostUp, guestUp, host, disk, told, slip>>

Sending(left) == IF left = 0 THEN GuestIdle ELSE [guest EXCEPT !.left = left]

\* SendFork: a unit is sent, or FSRead has none and the fork goes out short.
GuestSendsFork ==
    /\ guest.pc = "sending" /\ hostUp
    /\ \/ /\ toHost' = Append(toHost, [op |-> guest.op, part |-> "bytes", len |-> 0])
          /\ guest' = Sending(guest.left - 1)
       \/ /\ \E n \in 1..guest.left : guest' = Sending(guest.left - n)
          /\ UNCHANGED toHost
    /\ UNCHANGED <<toGuest, hostUp, guestUp, host, disk, told, slip>>

\* The host is gone.  The drain loop takes a lost link for "nothing yet".
GuestLosesLink ==
    /\ guestUp /\ ~hostUp
    /\ guest.pc # "drain"
    /\ guest.pc = "sending" \/ Readable = <<>>
    /\ GuestCloses
    /\ UNCHANGED disk

\* Mutant: a stalled or failed transfer is answered and the link kept.
GuestGivesUp_Replies ==
    /\ guest.pc \in {"path", "data", "rsrc", "sending"}
    /\ Replies(guest.op, "failed")
    /\ UNCHANGED <<toGuest, hostUp, guestUp, host, disk, told, slip>>

\* A read that makes no progress, a write or read of the disk that fails.
GuestGivesUp ==
    /\ guest.pc \in {"path", "data", "rsrc", "sending"}
    /\ GuestCloses
    /\ UNCHANGED disk

GuestReads == GuestReadsPath \/ GuestReadsData \/ GuestReadsRsrc \/ GuestDrains

Next ==
    \/ \E p \in Op : HostBegin(p)
    \/ HostSends \/ HostReads \/ HostGivesUp \/ HostLosesLink \/ HostRestarts
    \/ GuestDials \/ GuestTakesRequest \/ GuestReads \/ GuestSendsFork
    \/ GuestDrainsNothing \/ GuestLosesLink \/ GuestGivesUp

Spec == Init /\ [][Next]_vars

\* Both programs keep running: sendall() goes on while there is room, a read ends
\* by what arrives or by its timeout, and the daemon reads, sends and redials.
Fairness ==
    /\ WF_vars(HostSends) /\ WF_vars(HostReads \/ HostGivesUp) /\ WF_vars(HostLosesLink)
    /\ WF_vars(GuestDials) /\ WF_vars(GuestTakesRequest) /\ WF_vars(GuestSendsFork)
    /\ WF_vars(GuestReads \/ GuestGivesUp) /\ WF_vars(GuestLosesLink)

FairSpec == Spec /\ Fairness

-----------------------------------------------------------------------------
(* Properties *)

\* What a transfer returns answers that transfer, on a link where no request was
\* left half read and no transfer given up.
OwnAnswers == slip = "none" /\ told.what # "none" => told.own

\* put_file returns "Written" only when both forks are on the disk to the last
\* unit, on such a link.
WrittenMeansWhole == slip = "none" /\ told.what = "written" => disk = Whole(told.op)

\* No file ever holds bytes of another put or bytes of the wrong fork, whatever
\* was left on the wire: a body is only ever read behind its own header.
NeverMixed == disk.pure

\* Not so of the code (README): "still drain the declared body so the wire stays in sync", a put that failed
\* cannot make a later one return "Written" for a file that is not there.
NoFalseWritten == slip # "gaveup" /\ told.what = "written" => disk = Whole(told.op)

\* Nor this: "a stall deadline bounds a half-sent transfer so it can't freeze the Mac, and
\* any mid-stream failure drops the link": the daemon always gets back to its loop.
GuestComesRound == (guest.pc # "ready") ~> (guest.pc = "ready")

\* Everywhere but in that one loop it does.
GuestGetsOn == (guest.pc \notin {"ready", "drain"}) ~> (guest.pc \in {"ready", "drain"})

\* The host is not stuck in a transfer for ever.
HostComesRound == (host.pc # "idle") ~> (host.pc = "idle")

\* What holds whatever is left on the wire and whoever gives up: the state is typed, and no
\* file ever mixes two bodies (WriteFileVerb).
TransferInv == TypeOK /\ NeverMixed

\* A transfer comes to an end: the host leaves it in any case, and the daemon every stage of it
\* but the drain after a failed create.
TransfersEnd == GuestGetsOn /\ HostComesRound

=============================================================================
