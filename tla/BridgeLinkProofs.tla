-------------------------- MODULE BridgeLinkProofs --------------------------
(***************************************************************************)
(* What holds of BridgeLink for every number of connections, exchanges,    *)
(* tolerated misses and backlog places.                                    *)
(***************************************************************************)
EXTENDS BridgeLink, SequenceTheorems, TLAPS

-----------------------------------------------------------------------------
(* The helpers of the wire keep a connection well typed. *)

\* An unused connection is a connection.
LEMMA UnusedType == Unused \in LinkState
  BY DEF Unused, LinkState

\* _drain removes a prefix of what arrives: the rest is still a channel.
LEMMA SweepType ==
  ASSUME NEW l \in LinkState, NEW n \in 0..Len(l.toHost)
  PROVE  SweepOf(l, n) \in LinkState
<1>1. SubSeq(l.toHost, n + 1, Len(l.toHost)) \in Seq(Piece)
  BY SubSeqProperties DEF LinkState
<1> QED
  BY <1>1 DEF SweepOf, LinkState

\* Either end may close, with or without its FIN arriving.
LEMMA CloseType ==
  ASSUME NEW l \in LinkState, NEW fin \in BOOLEAN
  PROVE  HostCloses(l, fin) \in LinkState /\ GuestCloses(l, fin) \in LinkState
<1>1. [l EXCEPT !.hostEnd = "closed", !.hostFin = fin, !.toHost = <<>>] \in LinkState
  <2>1. <<>> \in Seq(Piece)
    OBVIOUS
  <2> QED
    BY <2>1 DEF LinkState
<1>2. [l EXCEPT !.guestEnd = "closed", !.guestFin = fin, !.toGuest = <<>>] \in LinkState
  <2>1. <<>> \in Seq(Req)
    OBVIOUS
  <2> QED
    BY <2>1 DEF LinkState
<1>3. HostCloses(l, fin) \in LinkState
  BY <1>1, UnusedType DEF HostCloses
<1>4. GuestCloses(l, fin) \in LinkState
  BY <1>2, UnusedType DEF GuestCloses
<1> QED
  BY <1>3, <1>4

\* The body of a file is a token of its own, other than the request for it.
LEMMA BodyType ==
  ASSUME NEW r \in Req
  PROVE  BodyOf(r) \in Req /\ BodyOf(r).verb = "BODY" /\ (r.verb = "PUT" => BodyOf(r) # r)
<1>1. BodyOf(r) = [id |-> r.id, verb |-> "BODY"]
  BY DEF BodyOf, Req
<1>2. "BODY" \in Verbs /\ r.id \in Id
  BY DEF Verbs, Req
<1> QED
  BY <1>1, <1>2 DEF Req

\* A request goes out alone, or with its body behind it.
LEMMA SentIs ==
  ASSUME NEW r \in Req
  PROVE  /\ Sent(r) \in Seq(Req) /\ Sent(r) # <<>>
         /\ Sent(r) = <<r>> \/ (r.verb = "PUT" /\ Sent(r) = <<r, BodyOf(r)>>)
<1>1. BodyOf(r) \in Req
  BY BodyType
<1>2. <<r>> \in Seq(Req) /\ <<r>> # <<>>
  OBVIOUS
<1>3. <<r, BodyOf(r)>> \in Seq(Req) /\ <<r, BodyOf(r)>> # <<>>
  <2> DEFINE b == BodyOf(r)
  <2>1. b \in Req
    BY <1>1
  <2> HIDE DEF b
  <2>2. <<r, b>> \in Seq(Req) /\ <<r, b>> # <<>>
    BY <2>1
  <2> QED
    BY <2>2 DEF b
<1> QED
  BY <1>2, <1>3 DEF Sent

\* sendall puts a request on the wire or into the void.
LEMMA SendType ==
  ASSUME NEW l \in LinkState, NEW r \in Req
  PROVE  SendTo(l, r) \in LinkState
<1> DEFINE s == Sent(r)
<1>1. s \in Seq(Req)
  BY SentIs
<1> HIDE DEF s
<1>2. l.toGuest \o s \in Seq(Req)
  BY <1>1 DEF LinkState
<1> QED
  BY <1>2 DEF SendTo, LinkState, s

\* FIN outcomes are Booleans.
LEMMA FinsType == \A fin \in Fins : fin \in BOOLEAN
  BY DEF Fins

-----------------------------------------------------------------------------
(* Type correctness. *)

\* A drop of the link is well typed, whatever became of the connection.
LEMMA DropType ==
  ASSUME TypeOK, LinkAssumption, Connected, NEW l \in LinkState, Drop(l)
  PROVE  link' \in [Conn -> LinkState] /\ host' \in HostState /\ op' \in Exchange
<1>1. PICK fin \in Fins : link' = [link EXCEPT ![host.conn] = HostCloses(l, fin)]
  BY DEF Drop
<1>2. HostCloses(l, fin) \in LinkState
  BY FinsType, CloseType
<1>3. MissedAfterDrop(op.kind) \in 0..(MaxMiss - 1)
  BY DEF MissedAfterDrop, TypeOK, HostState, LinkAssumption
<1>4. link' \in [Conn -> LinkState]
  BY <1>1, <1>2 DEF TypeOK
<1>5. host' \in HostState
  BY <1>3 DEF Drop, TypeOK, HostState
<1> QED
  BY <1>4, <1>5 DEF Drop, NoOp, Exchange

\* Nor can keeping it spoil the types.
LEMMA SettleType ==
  ASSUME TypeOK, NEW pc \in {"loop", "hello", "hello2"}, NEW d \in BOOLEAN,
         NEW m \in 0..(MaxMiss - 1), Settle(pc, d, m)
  PROVE  host' \in HostState /\ op' \in Exchange
<1>1. host' \in HostState
  BY DEF Settle, TypeOK, HostState
<1>2. op' \in Exchange
  BY DEF Settle, TypeOK, NoOp, Exchange
<1> QED
  BY <1>1, <1>2

\* What is sent is a request.
LEMMA SendIs ==
  ASSUME NEW k \in Kinds, NEW lk, Send(k, lk), k = "HELLO2" => op.req \in Req
  PROVE  \E r \in Req : /\ link' = [lk EXCEPT ![host.conn] = SendTo(@, r)]
                        /\ op' = [kind |-> k, req |-> r, head |-> NoReq]
<1>1. [id : Fresh(lk), verb : {Verb(k)}] \subseteq Req
  BY DEF Fresh, Verb, Verbs, Req
<1> QED
  BY <1>1 DEF Send

\* Sending a request keeps the types.
LEMMA SendStepType ==
  ASSUME TypeOK, Connected, LinkAssumption, NEW k \in Kinds, NEW lk \in [Conn -> LinkState], Send(k, lk),
         k = "HELLO2" => op.req \in Req
  PROVE  link' \in [Conn -> LinkState] /\ op' \in Exchange
<1>1. PICK r \in Req : /\ link' = [lk EXCEPT ![host.conn] = SendTo(@, r)]
                       /\ op' = [kind |-> k, req |-> r, head |-> NoReq]
  BY SendIs
<1>2. lk[host.conn] \in LinkState
  BY DEF TypeOK, HostState, Connected
<1>3. SendTo(lk[host.conn], r) \in LinkState
  BY <1>2, SendType
<1> QED
  BY <1>1, <1>3 DEF Exchange

\* Whoever a frame answers, the verdict on it is one of the three.
LEMMA VerdictType ==
  /\ \A by : Verdicts(by) \subseteq {"none", "own", "other"}
  /\ PartVerdicts \subseteq {"none", "own", "other"}
  BY DEF Verdicts, PartVerdicts

\* The connection the host holds is a connection.
LEMMA HostConnType ==
  ASSUME TypeOK, StepsAgree, Connected \/ host.pc # "loop"
  PROVE  Connected /\ host.conn \in Conn /\ link[host.conn] \in LinkState
  BY DEF TypeOK, HostState, StepsAgree, Connected

\* The host's steps keep the types.
LEMMA HostTypeStep ==
  ASSUME LinkAssumption, TypeOK, StepsAgree, HostAccept \/ HostStart \/ Resync \/ HostRead
  PROVE  TypeOK'
<1> USE LinkAssumption
<1>1. ASSUME HostAccept PROVE TypeOK'
  <2>1. Head(queue) \in Conn /\ Tail(queue) \in Seq(Conn)
    BY <1>1, HeadTailProperties DEF HostAccept, TypeOK
  <2>2. [link[Head(queue)] EXCEPT !.hostEnd = "open"] \in LinkState
    BY <2>1 DEF TypeOK, LinkState
  <2> QED
    BY <1>1, <2>1, <2>2 DEF HostAccept, TypeOK, HostState, Slips
<1>2. ASSUME NEW k \in Kinds, MayBegin(k), HostBegin(k) PROVE TypeOK'
  <2>1. PICK n \in Arrived(host.conn) : Send(k, [link EXCEPT ![host.conn] = SweepOf(@, n)])
    BY <1>2 DEF HostBegin
  <2>2. link[host.conn] \in LinkState /\ Connected
    BY <1>2, HostConnType DEF HostBegin
  <2>3. [link EXCEPT ![host.conn] = SweepOf(@, n)] \in [Conn -> LinkState]
    BY <2>2, SweepType DEF TypeOK, Arrived
  <2>4. k = "HELLO2" => op.req \in Req
    <3>1. k = "HELLO2" => host.pc = "hello2"
      BY <1>2 DEF MayBegin, LinkAssumption, UnmarkedKinds
    <3> QED
      BY <3>1 DEF StepsAgree
  <2>5. link' \in [Conn -> LinkState] /\ op' \in Exchange
    BY <2>1, <2>2, <2>3, <2>4, SendStepType
  <2> QED
    BY <1>2, <2>5 DEF HostBegin, TypeOK, HostState
<1>3. ASSUME NEW k \in Kinds, HostBeginEof(k) PROVE TypeOK'
  <2>1. PICK fin \in Fins : link' = [link EXCEPT ![host.conn] = HostCloses(@, fin)]
    BY <1>3 DEF HostBeginEof
  <2>2. link[host.conn] \in LinkState
    BY <1>3, HostConnType DEF HostBeginEof
  <2>3. HostCloses(link[host.conn], fin) \in LinkState
    BY <2>2, FinsType, CloseType
  <2>4. MissedAfterDrop(k) \in 0..(MaxMiss - 1)
    BY DEF MissedAfterDrop, TypeOK, HostState, LinkAssumption
  <2> QED
    BY <1>3, <2>1, <2>3, <2>4 DEF HostBeginEof, TypeOK, HostState, NoOp, Exchange
<1>4. ASSUME NEW k \in Kinds, HostBeginResync(k) PROVE TypeOK'
  BY <1>4 DEF HostBeginResync, TypeOK, HostState, Exchange
<1>5. ASSUME ResyncSweep PROVE TypeOK'
  <2>1. PICK n \in Arrived(host.conn) \ {0} : link' = [link EXCEPT ![host.conn] = SweepOf(@, n)]
    BY <1>5 DEF ResyncSweep
  <2>2. link[host.conn] \in LinkState
    BY <1>5, HostConnType DEF ResyncSweep
  <2>3. SweepOf(link[host.conn], n) \in LinkState
    BY <2>2, SweepType DEF Arrived
  <2> QED
    BY <1>5, <2>1, <2>3 DEF ResyncSweep, TypeOK
<1>6. ASSUME ResyncQuiet PROVE TypeOK'
  <2>1. op.kind \in Kinds /\ (op.kind = "HELLO2" => op.req \in Req) /\ Connected
    BY <1>6 DEF ResyncQuiet, StepsAgree, TypeOK, Exchange
  <2>2. link' \in [Conn -> LinkState] /\ op' \in Exchange
    BY <1>6, <2>1, SendStepType DEF ResyncQuiet, TypeOK
  <2>3. slip' \in Slips
    BY <1>6 DEF ResyncQuiet, SlipsIf, TypeOK, Slips
  <2> QED
    BY <1>6, <2>2, <2>3 DEF ResyncQuiet, TypeOK, HostState
<1>7. ASSUME ResyncDrop PROVE TypeOK'
  <2>1. Connected /\ link[host.conn] \in LinkState
    BY <1>7, HostConnType DEF ResyncDrop
  <2> QED
    BY <1>7, <2>1, DropType DEF ResyncDrop, TypeOK
<1>8. ASSUME ReadFirst PROVE TypeOK'
  <2>1. Connected /\ link[host.conn] \in LinkState
    BY <1>8, HostConnType DEF ReadFirst
  <2>2. SweepOf(link[host.conn], 1) \in LinkState
    <3>1. 1 \in 0..Len(link[host.conn].toHost)
      BY <1>8, <2>1, EmptySeq DEF ReadFirst, LinkState
    <3> QED
      BY <2>1, <3>1, SweepType
  <2>3. Head(link[host.conn].toHost).req \in Req
    <3>1. link[host.conn].toHost \in Seq(Piece) /\ link[host.conn].toHost # <<>>
      BY <1>8, <2>1 DEF ReadFirst, LinkState
    <3>2. Head(link[host.conn].toHost) \in Piece
      BY <3>1, HeadTailProperties
    <3> QED
      BY <3>2 DEF Piece
  <2> QED
    BY <1>8, <2>1, <2>2, <2>3 DEF ReadFirst, TypeOK, Exchange
<1>9. ASSUME ReadLast PROVE TypeOK'
  <2>1. Connected /\ link[host.conn] \in LinkState
    BY <1>9, HostConnType DEF ReadLast
  <2>2. PICK n \in Arrived(host.conn) \ {0} :
           Complete(Head(link[host.conn].toHost).req, SweepOf(link[host.conn], n))
    BY <1>9 DEF ReadLast
  <2>3. SweepOf(link[host.conn], n) \in LinkState
    BY <2>1, SweepType DEF Arrived
  <2> DEFINE by == Head(link[host.conn].toHost).req
             stale == op.kind \in {"HELLO", "HELLO2"} /\ by # op.req
  <2>4. answer' \in {"none", "own", "other"}
    <3>1. answer' \in Verdicts(by)
      BY <2>2 DEF Complete
    <3> QED
      BY <3>1, VerdictType
  <2>5. CASE stale /\ op.kind = "HELLO2"
    <3>1. Drop(SweepOf(link[host.conn], n))
      BY <2>2, <2>5 DEF Complete
    <3> QED
      BY <1>9, <2>1, <2>3, <2>4, <3>1, DropType DEF ReadLast, TypeOK
  <2>6. CASE ~(stale /\ op.kind = "HELLO2")
    <3>1. /\ link' = [link EXCEPT ![host.conn] = SweepOf(link[host.conn], n)]
          /\ Settle(IF stale THEN "hello2" ELSE NextStep, host.desynced, 0)
      BY <2>2, <2>6 DEF Complete
    <3>2. 0 \in 0..(MaxMiss - 1) /\ host.desynced \in BOOLEAN
      BY DEF TypeOK, HostState, LinkAssumption
    <3>3. (IF stale THEN "hello2" ELSE NextStep) \in {"loop", "hello", "hello2"}
      BY DEF NextStep
    <3>4. host' \in HostState /\ op' \in Exchange
      <4> HIDE DEF stale
      <4> QED
        BY <3>1, <3>2, <3>3, SettleType
    <3> QED
      BY <1>9, <2>3, <2>4, <3>1, <3>4 DEF ReadLast, TypeOK
  <2> QED
    BY <2>5, <2>6
<1>10. ASSUME ReadShort PROVE TypeOK'
  <2>1. 0 \in 0..(MaxMiss - 1) /\ host.desynced \in BOOLEAN
    BY DEF TypeOK, HostState, LinkAssumption
  <2>2. Settle("loop", host.desynced, 0)
    BY <1>10 DEF ReadShort
  <2>3. slip' \in Slips /\ answer' \in {"none", "own", "other"}
    <3>1. answer' \in Verdicts(op.head) \/ answer' = "none"
      BY <1>10 DEF ReadShort
    <3> QED
      BY <1>10, <3>1, VerdictType DEF ReadShort, SlipsIf, TypeOK, Slips
  <2>4. host' \in HostState /\ op' \in Exchange
    BY <2>1, <2>2, SettleType
  <2> QED
    BY <1>10, <2>3, <2>4 DEF ReadShort, TypeOK
<1>11. ASSUME ReadTimeout PROVE TypeOK'
  <2> DEFINE desynced == host.desynced \/ op.kind \in FramedKinds
             missed   == IF op.kind = "BEAT" /\ op.head = NoReq THEN host.missed + 1 ELSE 0
  <2>1. Connected /\ link[host.conn] \in LinkState
    BY <1>11, HostConnType DEF ReadTimeout
  <2>2. slip' \in Slips /\ answer' \in {"none", "own", "other"}
    BY <1>11, VerdictType DEF ReadTimeout, SlipsIf, TypeOK, Slips
  <2>3. \/ Drop(link[host.conn])
        \/ /\ missed < MaxMiss
           /\ link' = link
           /\ \E pc \in {"loop", "hello", "hello2"} : Settle(pc, desynced, missed)
    <3>1. NextStep \in {"loop", "hello", "hello2"}
      BY DEF NextStep
    <3>2. op.kind \in {"HELLO", "HELLO2"} => missed < MaxMiss
      BY DEF LinkAssumption
    <3> QED
      BY <1>11, <3>1, <3>2 DEF ReadTimeout
  <2>4. CASE Drop(link[host.conn])
    BY <1>11, <2>1, <2>2, <2>4, DropType DEF ReadTimeout, TypeOK
  <2>5. ASSUME NEW pc \in {"loop", "hello", "hello2"}, missed < MaxMiss, link' = link,
               Settle(pc, desynced, missed)
        PROVE  TypeOK'
    <3>1. missed \in 0..(MaxMiss - 1)
      BY <2>5 DEF TypeOK, HostState, LinkAssumption
    <3>2. desynced \in BOOLEAN
      BY DEF TypeOK, HostState
    <3>3. host' \in HostState /\ op' \in Exchange
      <4> HIDE DEF missed, desynced
      <4> QED
        BY <2>5, <3>1, <3>2, SettleType
    <3> QED
      BY <1>11, <2>2, <2>5, <3>3 DEF ReadTimeout, TypeOK
  <2> QED
    BY <2>3, <2>4, <2>5
<1>12. ASSUME ReadDrop PROVE TypeOK'
  <2>1. Connected /\ link[host.conn] \in LinkState
    BY <1>12, HostConnType DEF ReadDrop
  <2>2. answer' \in {"none", "own", "other"}
    BY <1>12, VerdictType DEF ReadDrop
  <2> QED
    BY <1>12, <2>1, <2>2, DropType DEF ReadDrop, TypeOK
<1> QED
  BY <1>1, <1>2, <1>3, <1>4, <1>5, <1>6, <1>7, <1>8, <1>9, <1>10, <1>11, <1>12
     DEF HostStart, Begin, Resync, HostRead

\* A slip is recorded as one of the known ones.
LEMMA SlipType ==
  ASSUME TypeOK, NEW b, NEW how \in Slips, SlipsIf(b, how)
  PROVE  slip' \in Slips
  BY DEF SlipsIf, TypeOK

\* The connection the daemon holds is a connection.
LEMMA GuestConnType ==
  ASSUME TypeOK, StepsAgree, guest.conn # NoConn \/ guest.busy # NoReq
  PROVE  guest.conn \in Conn /\ link[guest.conn] \in LinkState
  BY DEF TypeOK, GuestState, StepsAgree

\* A daemon that leaves its link is well typed.
LEMMA LeaveType ==
  ASSUME TypeOK, StepsAgree, guest.conn # NoConn, NEW up \in BOOLEAN, GuestLeaves(up)
  PROVE  TypeOK'
<1>1. PICK fin \in Fins : link' = [link EXCEPT ![guest.conn] = GuestCloses(@, fin)]
  BY DEF GuestLeaves
<1>2. GuestCloses(link[guest.conn], fin) \in LinkState
  BY GuestConnType, FinsType, CloseType
<1> QED
  BY <1>1, <1>2 DEF GuestLeaves, TypeOK, GuestState

\* The daemon's steps keep the types.
LEMMA GuestTypeStep ==
  ASSUME LinkAssumption, TypeOK, StepsAgree,
         GuestServe \/ GuestNet \/ GuestStalls \/ WatchdogOnQuietLink \/ GuestCrash \/ GuestRelaunch
  PROVE  TypeOK'
<1>1. ASSUME GuestDial PROVE TypeOK'
  <2>1. PICK c \in Conn :
          /\ link[c] = Unused
          /\ link' = [link EXCEPT ![c].hostEnd = "queued", ![c].guestEnd = "open"]
          /\ queue' = Append(queue, c)
          /\ guest' = [guest EXCEPT !.conn = c]
    BY <1>1 DEF GuestDial
  <2>2. link' \in [Conn -> LinkState]
    BY <2>1, UnusedType DEF TypeOK, LinkState
  <2>3. queue' \in Seq(Conn)
    BY <2>1, AppendProperties DEF TypeOK
  <2>4. guest' \in GuestState
    BY <2>1 DEF TypeOK, GuestState
  <2> QED
    BY <1>1, <2>2, <2>3, <2>4 DEF GuestDial, TypeOK
<1>2. ASSUME GuestRecv PROVE TypeOK'
  <2>1. guest.conn \in Conn /\ link[guest.conn] \in LinkState
    BY <1>2, GuestConnType DEF GuestRecv, Idle
  <2> DEFINE s == link[guest.conn].toGuest
  <2>2. PICK n \in 1..Len(s) :
          link' = [link EXCEPT ![guest.conn].toGuest = SubSeq(@, n + 1, Len(@))]
    BY <1>2 DEF GuestRecv
  <2>3. s \in Seq(Req) /\ s # <<>>
    BY <1>2, <2>1 DEF GuestRecv, LinkState
  <2>4. SubSeq(s, n + 1, Len(s)) \in Seq(Req) /\ Head(s) \in Req
    BY <2>3, HeadTailProperties, SubSeqProperties
  <2> HIDE DEF s
  <2>5. link' = [link EXCEPT ![guest.conn] =
                   [link[guest.conn] EXCEPT !.toGuest = SubSeq(s, n + 1, Len(s))]]
    BY <2>1, <2>2 DEF s, TypeOK
  <2>6. [link[guest.conn] EXCEPT !.toGuest = SubSeq(s, n + 1, Len(s))] \in LinkState
    BY <2>1, <2>4 DEF LinkState
  <2>7. guest' \in GuestState
    BY <1>2, <2>4 DEF GuestRecv, TypeOK, GuestState, s
  <2> QED
    BY <1>2, <2>5, <2>6, <2>7 DEF GuestRecv, TypeOK
<1>3. ASSUME NEW last \in BOOLEAN, guest.busy # NoReq, Sends(last)
      PROVE  link' \in [Conn -> LinkState]
  <2>1. guest.conn \in Conn /\ link[guest.conn] \in LinkState
    BY <1>3, GuestConnType
  <2>2. [req |-> guest.busy, last |-> last] \in Piece
    BY <1>3 DEF TypeOK, GuestState, Piece
  <2> DEFINE s == IF link[guest.conn].hostEnd = "closed" THEN link[guest.conn].toHost
                  ELSE Append(link[guest.conn].toHost, [req |-> guest.busy, last |-> last])
  <2>3. s \in Seq(Piece)
    BY <2>1, <2>2 DEF LinkState
  <2>4. link' = [link EXCEPT ![guest.conn] = [link[guest.conn] EXCEPT !.toHost = s]]
    BY <1>3, <2>1 DEF Sends, TypeOK
  <2> HIDE DEF s
  <2> QED
    BY <2>1, <2>3, <2>4 DEF TypeOK, LinkState
<1>4. ASSUME GuestSendFirst PROVE TypeOK'
  <2>1. slip' \in Slips
    BY <1>4, SlipType DEF GuestSendFirst, LeavesBody, Slips
  <2> QED
    BY <1>3, <1>4, <2>1 DEF GuestSendFirst, TypeOK, GuestState
<1>5. ASSUME GuestSendLast PROVE TypeOK'
  <2>1. slip' \in Slips
    BY <1>5, SlipType DEF GuestSendLast, LeavesBody, Slips
  <2> QED
    BY <1>3, <1>5, <2>1 DEF GuestSendLast, TypeOK, GuestState
<1>6. ASSUME GuestLosesLink \/ WatchdogOnDeadLink \/ GuestStalls \/ WatchdogOnQuietLink PROVE TypeOK'
  BY <1>6, LeaveType DEF GuestLosesLink, WatchdogOnDeadLink, GuestStalls, BodyLeft, StepsAgree, WatchdogOnQuietLink, Idle
<1>7. ASSUME GuestCrash PROVE TypeOK'
  BY <1>7, LeaveType DEF GuestCrash, TypeOK, GuestState
<1>8. ASSUME GuestRelaunch PROVE TypeOK'
  BY <1>8 DEF GuestRelaunch, TypeOK, GuestState
<1>9. ASSUME GuestReadsBody PROVE TypeOK'
  <2>1. guest.conn \in Conn /\ link[guest.conn] \in LinkState
    BY <1>9, GuestConnType DEF GuestReadsBody, BodyLeft
  <2> DEFINE s == link[guest.conn].toGuest
  <2>2. Tail(s) \in Seq(Req)
    BY <1>9, <2>1, HeadTailProperties DEF GuestReadsBody, BodyLeft, LinkState
  <2> HIDE DEF s
  <2>3. link' = [link EXCEPT ![guest.conn] = [link[guest.conn] EXCEPT !.toGuest = Tail(s)]]
    BY <1>9, <2>1 DEF GuestReadsBody, s, TypeOK
  <2>4. [link[guest.conn] EXCEPT !.toGuest = Tail(s)] \in LinkState
    BY <2>1, <2>2 DEF LinkState
  <2> QED
    BY <1>9, <2>3, <2>4 DEF GuestReadsBody, TypeOK
<1> QED
  BY <1>1, <1>2, <1>4, <1>5, <1>6, <1>7, <1>8, <1>9 DEF GuestServe, GuestNet

-----------------------------------------------------------------------------
(* Ends, queue and steps agree. *)

\* Removing bytes bound for the host leaves both ends and the other channel alone.
LEMMA SweepFrame ==
  ASSUME NEW l \in LinkState, NEW n \in 0..Len(l.toHost)
  PROVE  /\ SweepOf(l, n).hostEnd = l.hostEnd
         /\ SweepOf(l, n).guestEnd = l.guestEnd
         /\ SweepOf(l, n).toGuest = l.toGuest
         /\ SweepOf(l, n).toHost = SubSeq(l.toHost, n + 1, Len(l.toHost))
  BY DEF SweepOf, LinkState

\* So does sending, but for the request it adds, and only to a daemon there.
LEMMA SendFrame ==
  ASSUME NEW l \in LinkState, NEW r \in Req
  PROVE  /\ SendTo(l, r).hostEnd = l.hostEnd
         /\ SendTo(l, r).guestEnd = l.guestEnd
         /\ SendTo(l, r).toHost = l.toHost
         /\ SendTo(l, r).toGuest = IF l.guestEnd = "open" THEN l.toGuest \o Sent(r) ELSE l.toGuest
  BY DEF SendTo, LinkState

\* A step of the host on the connection it keeps.
LEMMA HostKeepsWire ==
  ASSUME TypeOK, WireAgrees, host.conn \in Conn, NEW l \in LinkState,
         l.hostEnd = "open", l.guestEnd = link[host.conn].guestEnd,
         l.guestEnd = "closed" => l.toGuest = <<>>,
         link' = [link EXCEPT ![host.conn] = l],
         host'.conn = host.conn, UNCHANGED <<queue, guest>>
  PROVE  WireAgrees'
  BY DEF TypeOK, WireAgrees, Outstanding, Serving

\* A step of the host that closes its connection.
LEMMA HostDropsWire ==
  ASSUME LinkAssumption, TypeOK, WireAgrees, host.conn \in Conn, NEW l \in LinkState, NEW fin,
         l.guestEnd = link[host.conn].guestEnd, l.toGuest = link[host.conn].toGuest,
         link' = [link EXCEPT ![host.conn] = HostCloses(l, fin)],
         host'.conn = NoConn, UNCHANGED <<queue, guest>>
  PROVE  WireAgrees'
<1> DEFINE d == HostCloses(l, fin)
<1>1. d.hostEnd = "closed" /\ d.guestEnd = l.guestEnd /\ (d.guestEnd = "closed" => d.toGuest = <<>>)
  BY DEF HostCloses, Unused, LinkState
<1> HIDE DEF d
<1>2. link' = [link EXCEPT ![host.conn] = d]
  BY DEF d
<1> QED
  BY <1>1, <1>2 DEF TypeOK, WireAgrees, Outstanding, Serving, LinkAssumption

\* A step of the daemon on the connection it keeps.
LEMMA GuestKeepsWire ==
  ASSUME TypeOK, WireAgrees, guest.conn \in Conn, NEW l,
         l.guestEnd = "open", l.hostEnd = link[guest.conn].hostEnd, l.hostEnd # "queued",
         link' = [link EXCEPT ![guest.conn] = l],
         guest'.conn = guest.conn, UNCHANGED <<queue, host>>
  PROVE  WireAgrees'
  BY DEF TypeOK, WireAgrees, Outstanding, Serving

\* A step of the daemon that closes its connection.
LEMMA GuestLeavesWire ==
  ASSUME LinkAssumption, TypeOK, WireAgrees, guest.conn \in Conn, NEW up, GuestLeaves(up)
  PROVE  WireAgrees'
<1>1. PICK fin \in Fins : link' = [link EXCEPT ![guest.conn] = GuestCloses(@, fin)]
  BY DEF GuestLeaves
<1> DEFINE old == link[guest.conn]
           d   == GuestCloses(old, fin)
<1>2. old \in LinkState
  BY DEF TypeOK
<1>3. /\ d.hostEnd = old.hostEnd /\ d.guestEnd = "closed" /\ d.toGuest = <<>>
      /\ d.hostEnd = "queued" => d.toHost = old.toHost
  BY <1>2 DEF GuestCloses, Unused, LinkState
<1> HIDE DEF d
<1>4. link' = [link EXCEPT ![guest.conn] = d]
  BY <1>1 DEF d
<1> QED
  BY <1>3, <1>4 DEF GuestLeaves, TypeOK, WireAgrees, Outstanding, Serving, LinkAssumption

\* What every end of an exchange leaves alone.
LEMMA DropWire ==
  ASSUME LinkAssumption, TypeOK, WireAgrees, host.conn \in Conn, NEW l \in LinkState, Drop(l),
         l.guestEnd = link[host.conn].guestEnd, l.toGuest = link[host.conn].toGuest,
         UNCHANGED <<queue, guest>>
  PROVE  WireAgrees'
<1>1. host'.conn = NoConn
  BY DEF Drop, TypeOK, HostState
<1> QED
  BY <1>1, HostDropsWire DEF Drop

\* Every step keeps ends and queue in agreement.
LEMMA WireStep ==
  ASSUME LinkAssumption, TypeOK, WireAgrees, StepsAgree, Next
  PROVE  WireAgrees'
<1> USE LinkAssumption
<1> DEFINE hl == link[host.conn]
<1>h. Connected \/ host.pc # "loop" =>
        /\ Connected /\ host.conn \in Conn /\ hl \in LinkState /\ hl.hostEnd = "open"
        /\ hl.guestEnd = "closed" => hl.toGuest = <<>>
  BY HostConnType DEF WireAgrees
<1>g. guest.conn # NoConn \/ guest.busy # NoReq =>
        /\ guest.conn \in Conn /\ link[guest.conn] \in LinkState
        /\ link[guest.conn].guestEnd = "open"
  BY GuestConnType DEF WireAgrees
<1>s. ASSUME Connected, NEW n \in 0..Len(hl.toHost), UNCHANGED <<queue, guest>>,
             link' = [link EXCEPT ![host.conn] = SweepOf(hl, n)], host'.conn = host.conn
      PROVE  WireAgrees'
  <2> DEFINE l == SweepOf(hl, n)
  <2>1. l \in LinkState
    BY <1>h, <1>s, SweepType
  <2>2. l.hostEnd = "open" /\ l.guestEnd = hl.guestEnd /\ l.toGuest = hl.toGuest
    BY <1>h, <1>s, SweepFrame
  <2>3. l.guestEnd = "closed" => l.toGuest = <<>>
    BY <1>h, <1>s, <2>2
  <2> HIDE DEF l
  <2> QED
    BY <1>h, <1>s, <2>1, <2>2, <2>3, HostKeepsWire DEF l
<1>1. ASSUME HostAccept PROVE WireAgrees'
  <2> DEFINE c == Head(queue)
  <2>1. /\ c = queue[1] /\ c \in Conn /\ Tail(queue) \in Seq(Conn)
        /\ Len(Tail(queue)) = Len(queue) - 1 /\ Len(queue) \in Nat /\ Len(queue) > 0
        /\ \A i \in 1..Len(Tail(queue)) : Tail(queue)[i] = queue[i + 1]
    BY <1>1, HeadTailProperties, EmptySeq DEF HostAccept, TypeOK
  <2>2. queue' = Tail(queue) /\ host'.conn = c /\ guest' = guest
    BY <1>1 DEF HostAccept
  <2>3. \A d \in Conn \ {c} : link'[d] = link[d]
    BY <1>1 DEF HostAccept, TypeOK
  <2>4. link'[c].hostEnd = "open" /\ link'[c].guestEnd = link[c].guestEnd
          /\ link'[c].toGuest = link[c].toGuest
    BY <1>1, <2>1 DEF HostAccept, TypeOK, LinkState
  <2>5. \A d \in Conn : link[d].hostEnd # "open"
    BY <1>1 DEF HostAccept, Connected, WireAgrees
  <2>6. \A i \in 1..Len(queue') : queue'[i] # c
    BY <2>1, <2>2 DEF WireAgrees
  <2>7. \A d \in Conn \ {c} : (\E i \in 1..Len(queue') : queue'[i] = d)
                               <=> (\E i \in 1..Len(queue) : queue[i] = d)
    <3>1. ASSUME NEW d \in Conn \ {c}, NEW i \in 1..Len(queue), queue[i] = d
          PROVE  \E j \in 1..Len(queue') : queue'[j] = d
      <4>1. i # 1 /\ i - 1 \in 1..Len(queue') /\ queue'[i - 1] = queue[i - 1 + 1]
        BY <2>1, <2>2, <3>1
      <4> QED
        BY <3>1, <4>1
    <3> QED
      BY <2>1, <2>2, <3>1
  <2>8. \A i, j \in 1..Len(queue') : queue'[i] = queue'[j] => i = j
    <3>1. ASSUME NEW i \in 1..Len(queue'), NEW j \in 1..Len(queue'), queue'[i] = queue'[j]
          PROVE  i = j
      <4>1. i + 1 \in 1..Len(queue) /\ j + 1 \in 1..Len(queue) /\ queue[i + 1] = queue[j + 1]
        BY <2>1, <2>2, <3>1
      <4>2. i + 1 = j + 1
        BY <4>1 DEF WireAgrees
      <4> QED
        BY <4>2
    <3> QED
      BY <3>1
  <2> HIDE DEF c
  <2>9. \A d \in Conn :
          /\ link'[d].hostEnd = "open" <=> host'.conn = d
          /\ link'[d].guestEnd = "open" <=> guest'.conn = d
          /\ link'[d].hostEnd = "queued" <=> \E i \in 1..Len(queue') : queue'[i] = d
          /\ link'[d].guestEnd = "closed" => link'[d].toGuest = <<>>
    BY <2>2, <2>3, <2>4, <2>5, <2>6, <2>7 DEF WireAgrees
  <2>10. \A d \in Conn : link'[d].hostEnd = "queued" => ~Outstanding(d)'
    BY <2>2, <2>3, <2>4 DEF WireAgrees, Outstanding, Serving
  <2> QED
    BY <2>8, <2>9, <2>10 DEF WireAgrees
<1>2. ASSUME NEW k \in Kinds, NEW l \in LinkState, Connected, Send(k, [link EXCEPT ![host.conn] = l]),
             l.hostEnd = hl.hostEnd, l.guestEnd = hl.guestEnd, l.toGuest = hl.toGuest,
             k = "HELLO2" => op.req \in Req, host'.conn = host.conn, UNCHANGED <<queue, guest>>
      PROVE  WireAgrees'
  <2>1. PICK r \in Req : link' = [link EXCEPT ![host.conn] = SendTo(l, r)]
    <3> DEFINE lk == [link EXCEPT ![host.conn] = l]
    <3>1. Send(k, lk)
      BY <1>2
    <3>3. /\ lk[host.conn] = l /\ DOMAIN lk = Conn
          /\ \A x \in Conn : x # host.conn => lk[x] = link[x]
      BY <1>2, <1>h DEF TypeOK
    <3> HIDE DEF lk
    <3>2. PICK r \in Req : link' = [lk EXCEPT ![host.conn] = SendTo(@, r)]
      BY <1>2, <3>1, SendIs
    <3>4. link' = [lk EXCEPT ![host.conn] = SendTo(l, r)]
      BY <3>2, <3>3
    <3>5. link' = [x \in Conn |-> IF x = host.conn THEN SendTo(l, r) ELSE link[x]]
      BY <3>3, <3>4
    <3> QED
      BY <3>5 DEF TypeOK
  <2>2. SendTo(l, r) \in LinkState
    BY <1>2, SendType
  <2>3. /\ SendTo(l, r).hostEnd = "open" /\ SendTo(l, r).guestEnd = hl.guestEnd
        /\ SendTo(l, r).guestEnd = "closed" => SendTo(l, r).toGuest = <<>>
    BY <1>2, <1>h, SendFrame
  <2> QED
    BY <1>2, <1>h, <2>1, <2>2, <2>3, HostKeepsWire
<1>3. ASSUME NEW k \in Kinds, MayBegin(k), HostBegin(k) PROVE WireAgrees'
  <2>1. PICK n \in Arrived(host.conn) : Send(k, [link EXCEPT ![host.conn] = SweepOf(hl, n)])
    BY <1>3 DEF HostBegin
  <2>2. k = "HELLO2" => op.req \in Req
    <3>1. k = "HELLO2" => host.pc = "hello2"
      BY <1>3 DEF MayBegin, LinkAssumption, UnmarkedKinds
    <3> QED
      BY <3>1 DEF StepsAgree
  <2>3. host'.conn = host.conn /\ UNCHANGED <<queue, guest>> /\ Connected
    BY <1>3 DEF HostBegin, TypeOK, HostState
  <2> QED
    BY <1>2, <1>h, <2>1, <2>2, <2>3, SweepType, SweepFrame DEF Arrived
<1>4. ASSUME NEW k \in Kinds, HostBeginEof(k) PROVE WireAgrees'
  <2>1. host'.conn = NoConn /\ UNCHANGED <<queue, guest>> /\ Connected
    BY <1>4 DEF HostBeginEof, TypeOK, HostState
  <2> QED
    BY <1>4, <1>h, <2>1, HostDropsWire DEF HostBeginEof
<1>5. ASSUME NEW k \in Kinds, HostBeginResync(k) PROVE WireAgrees'
  BY <1>5 DEF HostBeginResync, TypeOK, HostState, WireAgrees, Outstanding, Serving
<1>6. ASSUME ResyncSweep PROVE WireAgrees'
  <2>1. PICK n \in Arrived(host.conn) \ {0} : link' = [link EXCEPT ![host.conn] = SweepOf(hl, n)]
    BY <1>6 DEF ResyncSweep
  <2>2. host.pc # "loop" /\ n \in 0..Len(hl.toHost)
    BY <1>6 DEF ResyncSweep, Arrived
  <2> QED
    BY <1>6, <1>h, <1>s, <2>1, <2>2 DEF ResyncSweep
<1>7. ASSUME ResyncQuiet PROVE WireAgrees'
  <2>1. op.kind \in Kinds /\ (op.kind = "HELLO2" => op.req \in Req) /\ Connected /\ host.pc # "loop"
    BY <1>7 DEF ResyncQuiet, StepsAgree, TypeOK, Exchange
  <2>2. link = [link EXCEPT ![host.conn] = hl]
    BY <1>h, <2>1 DEF TypeOK
  <2>3. host'.conn = host.conn
    BY <1>7 DEF ResyncQuiet, TypeOK, HostState
  <2> QED
    BY <1>2, <1>7, <1>h, <2>1, <2>2, <2>3 DEF ResyncQuiet
<1>8. ASSUME ResyncDrop PROVE WireAgrees'
  BY <1>8, <1>h, DropWire DEF ResyncDrop
<1>9. ASSUME ReadFirst PROVE WireAgrees'
  <2>1. Connected /\ hl \in LinkState /\ hl.toHost # <<>> /\ host.conn \in Conn
    BY <1>9, <1>h DEF ReadFirst
  <2>2. 1 \in 0..Len(hl.toHost)
    BY <2>1, EmptySeq DEF LinkState
  <2> QED
    BY <1>9, <1>s, <2>1, <2>2 DEF ReadFirst
<1>10. ASSUME NEW pc, NEW d, NEW m, Connected, link' = link, Settle(pc, d, m), UNCHANGED <<queue, guest>>
       PROVE  WireAgrees'
  BY <1>10 DEF Settle, TypeOK, HostState, WireAgrees, Outstanding, Serving
<1>11. ASSUME ReadLast PROVE WireAgrees'
  <2>1. Connected /\ hl \in LinkState /\ host.conn \in Conn /\ UNCHANGED <<queue, guest>>
    BY <1>11, <1>h DEF ReadLast
  <2>2. PICK n \in Arrived(host.conn) \ {0} : Complete(Head(hl.toHost).req, SweepOf(hl, n))
    BY <1>11 DEF ReadLast
  <2>3. n \in 0..Len(hl.toHost)
    BY <2>2 DEF Arrived
  <2>4. \/ Drop(SweepOf(hl, n))
        \/ /\ link' = [link EXCEPT ![host.conn] = SweepOf(hl, n)]
           /\ host'.conn = host.conn
    BY <2>2 DEF Complete, Settle, TypeOK, HostState
  <2>5. CASE Drop(SweepOf(hl, n))
    BY <2>1, <2>3, <2>5, SweepType, SweepFrame, DropWire
  <2>6. CASE link' = [link EXCEPT ![host.conn] = SweepOf(hl, n)] /\ host'.conn = host.conn
    BY <1>s, <2>1, <2>3, <2>6
  <2> QED
    BY <2>4, <2>5, <2>6
<1>12. ASSUME ReadShort PROVE WireAgrees'
  BY <1>10, <1>12, <1>h DEF ReadShort
<1>13. ASSUME ReadTimeout PROVE WireAgrees'
  <2>1. Connected /\ hl \in LinkState /\ host.conn \in Conn /\ UNCHANGED <<queue, guest>>
    BY <1>13, <1>h DEF ReadTimeout
  <2>2. Drop(hl) \/ (link' = link /\ \E pc : \E d, m : Settle(pc, d, m))
    BY <1>13 DEF ReadTimeout
  <2> QED
    BY <1>10, <2>1, <2>2, DropWire
<1>14. ASSUME ReadDrop PROVE WireAgrees'
  BY <1>14, <1>h, DropWire DEF ReadDrop
<1>15. ASSUME GuestDial PROVE WireAgrees'
  <2>1. PICK c \in Conn :
          /\ link[c] = Unused
          /\ link' = [link EXCEPT ![c].hostEnd = "queued", ![c].guestEnd = "open"]
          /\ queue' = Append(queue, c)
          /\ guest' = [guest EXCEPT !.conn = c]
    BY <1>15 DEF GuestDial
  <2>2. /\ \A d \in Conn \ {c} : link'[d] = link[d]
        /\ link'[c].hostEnd = "queued" /\ link'[c].guestEnd = "open"
        /\ link'[c].toGuest = <<>> /\ link'[c].toHost = <<>>
    BY <2>1 DEF TypeOK, Unused
  <2>3. /\ guest'.conn = c /\ guest'.busy = guest.busy /\ host' = host
        /\ guest.conn = NoConn /\ guest.busy = NoReq
    BY <1>15, <2>1 DEF GuestDial, TypeOK, GuestState, StepsAgree
  <2>4. /\ Len(queue') = Len(queue) + 1 /\ Len(queue) \in Nat /\ queue'[Len(queue) + 1] = c
        /\ \A i \in 1..Len(queue) : queue'[i] = queue[i]
    BY <2>1, AppendProperties DEF TypeOK
  <2>5. \A i \in 1..Len(queue) : queue[i] # c
    BY <2>1 DEF WireAgrees, Unused
  <2>6. \A i, j \in 1..Len(queue') : queue'[i] = queue'[j] => i = j
    BY <2>4, <2>5 DEF WireAgrees
  <2>7. \A d \in Conn : link'[d].hostEnd = "queued" <=> \E i \in 1..Len(queue') : queue'[i] = d
    BY <2>2, <2>4, <2>5 DEF WireAgrees
  <2>8. \A d \in Conn :
          /\ link'[d].hostEnd = "open" <=> host'.conn = d
          /\ link'[d].guestEnd = "open" <=> guest'.conn = d
          /\ link'[d].guestEnd = "closed" => link'[d].toGuest = <<>>
    <3>1. host.conn # c
      BY <2>1 DEF WireAgrees, Unused
    <3>2. \A d \in Conn : link[d].guestEnd # "open"
      BY <2>3 DEF WireAgrees, LinkAssumption
    <3> QED
      BY <2>2, <2>3, <3>1, <3>2 DEF WireAgrees
  <2>9. \A d \in Conn : link'[d].hostEnd = "queued" => ~Outstanding(d)'
    BY <2>2, <2>3 DEF WireAgrees, Outstanding, Serving
  <2> QED
    BY <2>6, <2>7, <2>8, <2>9 DEF WireAgrees
<1>16. ASSUME GuestRecv PROVE WireAgrees'
  <2>1. guest.conn \in Conn /\ link[guest.conn].guestEnd = "open"
          /\ link[guest.conn].hostEnd # "queued" /\ link[guest.conn] \in LinkState
    BY <1>16, <1>g DEF GuestRecv, Idle, WireAgrees, Outstanding
  <2>2. PICK n : link' = [link EXCEPT ![guest.conn] = [link[guest.conn] EXCEPT !.toGuest = n]]
    BY <1>16 DEF GuestRecv
  <2>3. guest'.conn = guest.conn /\ UNCHANGED <<queue, host>>
    BY <1>16 DEF GuestRecv, TypeOK, GuestState
  <2> DEFINE l == [link[guest.conn] EXCEPT !.toGuest = n]
  <2>4. l.guestEnd = "open" /\ l.hostEnd = link[guest.conn].hostEnd
    BY <2>1 DEF LinkState
  <2> HIDE DEF l
  <2> QED
    BY <2>1, <2>2, <2>3, <2>4, GuestKeepsWire DEF l
<1>17. ASSUME NEW last, Sends(last), guest.busy # NoReq, guest'.conn = guest.conn, UNCHANGED <<queue, host>>
       PROVE  WireAgrees'
  <2>1. guest.conn \in Conn /\ link[guest.conn].guestEnd = "open"
          /\ link[guest.conn].hostEnd # "queued" /\ link[guest.conn] \in LinkState
    BY <1>17, <1>g DEF WireAgrees, Outstanding, Serving
  <2>2. PICK s : link' = [link EXCEPT ![guest.conn] = [link[guest.conn] EXCEPT !.toHost = s]]
    BY <1>17 DEF Sends
  <2> DEFINE l == [link[guest.conn] EXCEPT !.toHost = s]
  <2>3. l.guestEnd = "open" /\ l.hostEnd = link[guest.conn].hostEnd
    BY <2>1 DEF LinkState
  <2> HIDE DEF l
  <2> QED
    BY <1>17, <2>1, <2>2, <2>3, GuestKeepsWire DEF l
<1>18. ASSUME GuestSendFirst \/ GuestSendLast PROVE WireAgrees'
  BY <1>17, <1>18 DEF GuestSendFirst, GuestSendLast, TypeOK, GuestState
<1>19. ASSUME GuestLosesLink \/ WatchdogOnDeadLink \/ GuestStalls \/ WatchdogOnQuietLink PROVE WireAgrees'
  BY <1>19, <1>g, GuestLeavesWire DEF GuestLosesLink, WatchdogOnDeadLink, GuestStalls, BodyLeft, StepsAgree, WatchdogOnQuietLink, Idle
<1>20. ASSUME GuestCrash PROVE WireAgrees'
  <2>1. CASE guest.conn = NoConn
    BY <1>20, <2>1 DEF GuestCrash, TypeOK, GuestState, WireAgrees, Outstanding, Serving
  <2>2. CASE guest.conn # NoConn
    BY <1>20, <1>g, <2>2, GuestLeavesWire DEF GuestCrash
  <2> QED
    BY <2>1, <2>2
<1>21. ASSUME GuestRelaunch PROVE WireAgrees'
  BY <1>21 DEF GuestRelaunch, TypeOK, GuestState, WireAgrees, Outstanding, Serving
<1>22. ASSUME GuestReadsBody PROVE WireAgrees'
  <2>1. guest.conn \in Conn /\ link[guest.conn].guestEnd = "open"
          /\ link[guest.conn].hostEnd # "queued" /\ link[guest.conn] \in LinkState
    BY <1>22, <1>g DEF GuestReadsBody, BodyLeft, WireAgrees, Outstanding
  <2>2. PICK n : link' = [link EXCEPT ![guest.conn] = [link[guest.conn] EXCEPT !.toGuest = n]]
    BY <1>22 DEF GuestReadsBody
  <2>3. guest'.conn = guest.conn /\ UNCHANGED <<queue, host>>
    BY <1>22 DEF GuestReadsBody
  <2> DEFINE l == [link[guest.conn] EXCEPT !.toGuest = n]
  <2>4. l.guestEnd = "open" /\ l.hostEnd = link[guest.conn].hostEnd
    BY <2>1 DEF LinkState
  <2> HIDE DEF l
  <2> QED
    BY <2>1, <2>2, <2>3, <2>4, GuestKeepsWire DEF l
<1> QED
  BY <1>1, <1>3, <1>4, <1>5, <1>6, <1>7, <1>8, <1>9, <1>11, <1>12, <1>13, <1>14, <1>15, <1>16,
     <1>18, <1>19, <1>20, <1>21, <1>22
     DEF Next, HostStart, Begin, Resync, HostRead, GuestServe, GuestNet

\* Every step leaves a program in the middle of something with what it needs.
LEMMA StepsStep ==
  ASSUME LinkAssumption, TypeOK, StepsAgree, Next
  PROVE  StepsAgree'
<1> USE LinkAssumption
<1>1. ASSUME HostAccept PROVE StepsAgree'
  <2>1. Head(queue) \in Conn
    BY <1>1, HeadTailProperties DEF HostAccept, TypeOK
  <2> QED
    BY <1>1, <2>1 DEF HostAccept, StepsAgree, Connected
<1>2. ASSUME NEW k \in Kinds, NEW lk, Send(k, lk), Connected, k = "HELLO2" => op.req \in Req,
             host'.pc = "reading", host'.conn = host.conn, guest' = guest
      PROVE  StepsAgree'
  <2>1. PICK r \in Req : op' = [kind |-> k, req |-> r, head |-> NoReq]
    BY <1>2, SendIs
  <2>2. k # "none"
    BY DEF Kinds, FramedKinds, UnmarkedKinds
  <2> QED
    BY <1>2, <2>1, <2>2 DEF StepsAgree, Connected
<1>3. ASSUME NEW k \in Kinds, MayBegin(k), HostBegin(k) \/ HostBeginResync(k) \/ HostBeginEof(k)
      PROVE  StepsAgree'
  <2>1. k = "HELLO2" => op.req \in Req
    <3>1. k = "HELLO2" => host.pc = "hello2"
      BY <1>3 DEF MayBegin, LinkAssumption, UnmarkedKinds
    <3> QED
      BY <3>1 DEF StepsAgree
  <2>2. k # "none"
    BY DEF Kinds, FramedKinds, UnmarkedKinds
  <2>3. CASE HostBegin(k)
    BY <1>2, <2>1, <2>3 DEF HostBegin, TypeOK, HostState
  <2>4. CASE HostBeginResync(k)
    BY <2>1, <2>2, <2>4 DEF HostBeginResync, TypeOK, HostState, Exchange, StepsAgree, Connected
  <2>5. CASE HostBeginEof(k)
    BY <2>5 DEF HostBeginEof, TypeOK, HostState, StepsAgree, NoOp
  <2> QED
    BY <1>3, <2>3, <2>4, <2>5
<1>4. ASSUME ResyncSweep PROVE StepsAgree'
  BY <1>4 DEF ResyncSweep, StepsAgree, Connected
<1>5. ASSUME ResyncQuiet PROVE StepsAgree'
  <2>1. op.kind \in Kinds /\ (op.kind = "HELLO2" => op.req \in Req) /\ Connected
    BY <1>5 DEF ResyncQuiet, StepsAgree, TypeOK, Exchange
  <2> QED
    BY <1>2, <1>5, <2>1 DEF ResyncQuiet, TypeOK, HostState
<1>6. ASSUME NEW l, Drop(l), guest' = guest PROVE StepsAgree'
  BY <1>6 DEF Drop, NoOp, TypeOK, HostState, StepsAgree
<1>7. ASSUME NEW pc \in {"loop", "hello", "hello2"}, NEW d, NEW m, Settle(pc, d, m),
             host.pc = "reading", guest' = guest
      PROVE  StepsAgree'
  <2>1. host'.pc = pc /\ host'.conn = host.conn
    BY <1>7 DEF Settle, TypeOK, HostState
  <2>2. op'.kind = "none" /\ (pc = "hello2" => op'.req = op.req)
    BY <1>7 DEF Settle, NoOp
  <2> QED
    BY <1>7, <2>1, <2>2 DEF StepsAgree, Connected
<1>8. NextStep \in {"loop", "hello", "hello2"}
  BY DEF NextStep
<1>9. ASSUME ReadFirst PROVE StepsAgree'
  BY <1>9 DEF ReadFirst, StepsAgree, Connected, TypeOK, Exchange
<1>10. ASSUME ReadLast PROVE StepsAgree'
  <2>1. PICK by, l : Complete(by, l)
    BY <1>10 DEF ReadLast
  <2>2. \/ Drop(l)
        \/ \E pc \in {"loop", "hello", "hello2"} : \E d, m : Settle(pc, d, m)
    BY <1>8, <2>1 DEF Complete
  <2> QED
    BY <1>6, <1>7, <1>10, <2>2 DEF ReadLast
<1>11. ASSUME ReadShort PROVE StepsAgree'
  BY <1>7, <1>11 DEF ReadShort
<1>12. ASSUME ReadTimeout PROVE StepsAgree'
  <2>1. \/ Drop(link[host.conn])
        \/ \E pc \in {"loop", "hello", "hello2"} : \E d, m : Settle(pc, d, m)
    BY <1>8, <1>12 DEF ReadTimeout
  <2> QED
    BY <1>6, <1>7, <1>12, <2>1 DEF ReadTimeout
<1>13. ASSUME ResyncDrop \/ ReadDrop PROVE StepsAgree'
  BY <1>6, <1>13 DEF ResyncDrop, ReadDrop
<1>14. ASSUME UNCHANGED <<host, op>>, guest'.busy # NoReq => guest'.up /\ guest'.conn # NoConn
       PROVE  StepsAgree'
  BY <1>14 DEF StepsAgree, Connected
<1>15. ASSUME GuestServe \/ GuestNet \/ GuestStalls \/ WatchdogOnQuietLink \/ GuestCrash \/ GuestRelaunch
       PROVE  StepsAgree'
  <2>1. UNCHANGED <<host, op>>
    BY <1>15 DEF GuestServe, GuestNet, GuestReadsBody, GuestStalls, WatchdogOnQuietLink, GuestCrash, GuestRelaunch, GuestDial,
          GuestRecv, GuestSendFirst, GuestSendLast, GuestLosesLink, WatchdogOnDeadLink, GuestLeaves
  <2>2. guest'.busy # NoReq => guest'.up /\ guest'.conn # NoConn
    <3>1. CASE GuestServe
      <4>1. guest'.up = guest.up /\ guest'.conn = guest.conn
        BY <3>1 DEF GuestServe, GuestRecv, GuestReadsBody, GuestSendFirst, GuestSendLast, TypeOK, GuestState
      <4>2. guest.up /\ guest.conn # NoConn
        BY <3>1 DEF GuestServe, GuestRecv, Idle, GuestReadsBody, BodyLeft, GuestSendFirst, GuestSendLast, StepsAgree
      <4> QED
        BY <4>1, <4>2
    <3>2. CASE GuestNet \/ GuestStalls \/ WatchdogOnQuietLink \/ GuestCrash \/ GuestRelaunch
      <4>1. ASSUME NEW up, GuestLeaves(up) PROVE guest'.busy = NoReq
        BY <4>1 DEF GuestLeaves
      <4>2. ASSUME GuestDial PROVE guest'.busy = NoReq
        BY <4>2 DEF GuestDial, StepsAgree, TypeOK, GuestState
      <4>3. ASSUME GuestRelaunch PROVE guest'.busy = NoReq
        BY <4>3 DEF GuestRelaunch, StepsAgree, TypeOK, GuestState
      <4>4. ASSUME GuestCrash PROVE guest'.busy = NoReq
        BY <4>1, <4>4 DEF GuestCrash, StepsAgree, TypeOK, GuestState
      <4> QED
        BY <3>2, <4>1, <4>2, <4>3, <4>4
           DEF GuestNet, GuestStalls, WatchdogOnQuietLink, GuestLosesLink, WatchdogOnDeadLink
    <3> QED
      BY <1>15, <3>1, <3>2
  <2> QED
    BY <1>14, <2>1, <2>2
<1> QED
  BY <1>1, <1>3, <1>4, <1>5, <1>9, <1>10, <1>11, <1>12, <1>13, <1>15
     DEF Next, HostStart, Begin, Resync, HostRead

-----------------------------------------------------------------------------
(* One exchange at a time. *)

\* A channel that holds one piece.
LEMMA OneSeq ==
  ASSUME NEW S, NEW x \in S
  PROVE  /\ <<x>> \in Seq(S) /\ <<x>> # <<>> /\ Len(<<x>>) = 1 /\ Head(<<x>>) = x
         /\ SubSeq(<<x>>, 2, 1) = <<>> /\ Append(<<>>, x) = <<x>>
<1>1. <<x>> \in Seq(S) /\ <<x>> # <<>> /\ Len(<<x>>) = 1 /\ Head(<<x>>) = x
  OBVIOUS
<1>2. SubSeq(<<x>>, 2, 1) = <<>>
  BY <1>1, SubSeqProperties
<1>3. Append(<<>>, x) = <<x>>
  OBVIOUS
<1> QED
  BY <1>1, <1>2, <1>3

\* A channel that holds two pieces.
LEMMA TwoSeq ==
  ASSUME NEW S, NEW x \in S, NEW y \in S
  PROVE  /\ Len(<<x, y>>) = 2 /\ Head(<<x, y>>) = x
         /\ SubSeq(<<x, y>>, 2, 2) = <<y>> /\ Append(<<x>>, y) = <<x, y>>
<1>1. <<x, y>> \in Seq(S) /\ Len(<<x, y>>) = 2 /\ Head(<<x, y>>) = x
  OBVIOUS
<1> DEFINE s == SubSeq(<<x, y>>, 2, 2)
           a == Append(<<x>>, y)
<1>2. s = <<y>>
  <2>1. s \in Seq(S) /\ Len(s) = 1 /\ s[1] = y
    BY <1>1, SubSeqProperties
  <2>2. <<y>> \in Seq(S) /\ Len(<<y>>) = 1 /\ <<y>>[1] = y
    OBVIOUS
  <2> HIDE DEF s
  <2> QED
    BY <2>1, <2>2, SeqEqual
<1>3. a = <<x, y>>
  <2>1. <<x>> \in Seq(S) /\ Len(<<x>>) = 1 /\ <<x>>[1] = x
    OBVIOUS
  <2>2. a \in Seq(S) /\ Len(a) = 2 /\ a[1] = x /\ a[2] = y
    BY <2>1, AppendProperties
  <2>3. <<x, y>>[1] = x /\ <<x, y>>[2] = y
    OBVIOUS
  <2> HIDE DEF a
  <2> QED
    BY <1>1, <2>2, <2>3, SeqEqual
<1> QED
  BY <1>1, <1>2, <1>3

\* A request sent on a link with nothing outstanding is the only thing on it.
LEMMA SendInFlight ==
  ASSUME LinkAssumption, TypeOK, host.conn \in Conn, NEW k \in Kinds, NEW l \in LinkState,
         k = "HELLO2" => op.req \in Req,
         l.toGuest = <<>>, l.toHost = <<>>, ~Serving(host.conn),
         Send(k, [link EXCEPT ![host.conn] = l]), host'.conn = host.conn, guest' = guest
  PROVE  InFlight(host.conn)'
<1>1. PICK r \in Req : /\ link' = [link EXCEPT ![host.conn] = SendTo(l, r)]
                       /\ op' = [kind |-> k, req |-> r, head |-> NoReq]
  <2>1. PICK r \in Req : /\ link' = [[link EXCEPT ![host.conn] = l] EXCEPT ![host.conn] = SendTo(@, r)]
                         /\ op' = [kind |-> k, req |-> r, head |-> NoReq]
    BY SendIs
  <2> QED
    BY <2>1 DEF TypeOK
<1>2. SendTo(l, r).toHost = <<>> /\ SendTo(l, r).toGuest \in {<<>>, Sent(r)}
  <2>1. <<>> \o Sent(r) = Sent(r)
    <3> DEFINE s == Sent(r)
    <3>1. s \in Seq(Req)
      BY SentIs
    <3> HIDE DEF s
    <3>2. <<>> \o s = s
      BY <3>1, ConcatEmptySeq
    <3> QED
      BY <3>2 DEF s
  <2>2. /\ SendTo(l, r).toHost = l.toHost
        /\ SendTo(l, r).toGuest = IF l.guestEnd = "open" THEN l.toGuest \o Sent(r) ELSE l.toGuest
    BY SendFrame
  <2> QED
    BY <2>1, <2>2
<1>3. link'[host.conn] = SendTo(l, r)
  BY <1>1 DEF TypeOK
<1> QED
  BY <1>1, <1>2, <1>3 DEF InFlight, Waiting, Answered, Serving

\* What has been read of the frame of the one exchange is its first piece, and
\* what a reader meets next is its own.
LEMMA OwnFrame ==
  ASSUME LinkAssumption, InFlight(host.conn)
  PROVE  /\ op.head \in {NoReq, op.req}
         /\ link[host.conn].toHost # <<>> => Head(link[host.conn].toHost).req = op.req
<1>1. FirstPiece \in Piece /\ LastPiece \in Piece /\ FirstPiece.req = op.req /\ LastPiece.req = op.req
  BY DEF FirstPiece, LastPiece, Piece, InFlight
<1>2. /\ Head(<<FirstPiece>>) = FirstPiece /\ Head(<<LastPiece>>) = LastPiece
      /\ Head(<<FirstPiece, LastPiece>>) = FirstPiece
  BY <1>1, OneSeq, TwoSeq
<1> HIDE DEF FirstPiece, LastPiece
<1> QED
  BY <1>1, <1>2 DEF InFlight, Waiting, Served, Answered

\* The host's steps keep the exchange the only one.
LEMMA HostExchangeStep ==
  ASSUME LinkAssumption, TypeOK, WireAgrees, StepsAgree, OneExchange,
         HostAccept \/ HostStart \/ Resync \/ HostRead
  PROVE  OneExchange'
<1> USE LinkAssumption
<1> DEFINE c  == host.conn
           hl == link[host.conn]
<1>h. Connected \/ host.pc # "loop" => Connected /\ c \in Conn /\ hl \in LinkState
  BY HostConnType
<1>1. ASSUME HostAccept PROVE OneExchange'
  <2> DEFINE q == Head(queue)
  <2>1. q = queue[1] /\ q \in Conn /\ Len(queue) \in Nat /\ Len(queue) > 0
    BY <1>1, HeadTailProperties, EmptySeq DEF HostAccept, TypeOK
  <2>2. ~Outstanding(q)
    BY <2>1 DEF WireAgrees
  <2>3. link'[q].toGuest = link[q].toGuest /\ link'[q].toHost = link[q].toHost
    BY <1>1, <2>1 DEF HostAccept, TypeOK, LinkState
  <2>4. host'.conn = q /\ ~host'.desynced /\ host'.pc = "prime" /\ guest' = guest
    BY <1>1 DEF HostAccept
  <2> QED
    BY <2>2, <2>3, <2>4 DEF OneExchange, Outstanding, Serving
<1>2. ASSUME NEW k \in Kinds, MayBegin(k), HostBegin(k) PROVE OneExchange'
  <2>1. SUFFICES ASSUME slip = "none" PROVE OneExchange'
    BY <1>2 DEF HostBegin, OneExchange
  <2>2. host.pc \notin {"reading", "resync"} /\ ~host.desynced /\ Connected
    BY <1>2 DEF HostBegin, MayBegin
  <2>3. hl.toHost = <<>> /\ hl.toGuest = <<>> /\ ~Serving(c)
    BY <2>1, <2>2 DEF OneExchange, Outstanding
  <2>4. PICK n \in Arrived(c) : Send(k, [link EXCEPT ![c] = SweepOf(hl, n)])
    BY <1>2 DEF HostBegin
  <2>5. n \in 0..Len(hl.toHost) /\ SubSeq(hl.toHost, n + 1, Len(hl.toHost)) = <<>>
    BY <2>3, <2>4, EmptySeq, SubSeqEmpty DEF Arrived
  <2>6. SweepOf(hl, n) \in LinkState /\ SweepOf(hl, n).toHost = <<>> /\ SweepOf(hl, n).toGuest = <<>>
    BY <1>h, <2>2, <2>3, <2>5, SweepType, SweepFrame
  <2>7. k = "HELLO2" => op.req \in Req
    <3>1. k = "HELLO2" => host.pc = "hello2"
      BY <1>2 DEF MayBegin, LinkAssumption, UnmarkedKinds
    <3> QED
      BY <3>1 DEF StepsAgree
  <2>8. host'.conn = c /\ guest' = guest /\ host'.pc = "reading" /\ ~host'.desynced
    BY <1>2 DEF HostBegin, TypeOK, HostState
  <2>9. InFlight(host.conn)'
    BY <1>h, <2>2, <2>3, <2>4, <2>6, <2>7, <2>8, SendInFlight
  <2> QED
    BY <2>8, <2>9 DEF OneExchange
<1>3. ASSUME NEW k \in Kinds, HostBeginResync(k) PROVE OneExchange'
  <2>1. host'.pc = "resync" /\ host'.desynced
    BY <1>3 DEF HostBeginResync, TypeOK, HostState
  <2> QED
    BY <2>1 DEF OneExchange
<1>4. ASSUME host'.conn = NoConn PROVE OneExchange'
  BY <1>4 DEF OneExchange, Connected
<1>5. ASSUME NEW l, Drop(l) PROVE OneExchange'
  BY <1>4, <1>5 DEF Drop, TypeOK, HostState
<1>6. ASSUME NEW k \in Kinds, HostBeginEof(k) PROVE OneExchange'
  BY <1>4, <1>6 DEF HostBeginEof, TypeOK, HostState
<1>7. ASSUME ResyncSweep PROVE OneExchange'
  BY <1>7 DEF ResyncSweep, OneExchange, Connected
<1>8. ASSUME ResyncQuiet PROVE OneExchange'
  <2>1. SUFFICES ASSUME slip' = "none" PROVE OneExchange'
    BY DEF OneExchange
  <2>2. ~Outstanding(c)
    BY <1>8, <2>1 DEF ResyncQuiet, SlipsIf
  <2>3. op.kind \in Kinds /\ (op.kind = "HELLO2" => op.req \in Req) /\ host.pc # "loop"
    BY <1>8 DEF ResyncQuiet, StepsAgree, TypeOK, Exchange
  <2>4. link = [link EXCEPT ![c] = hl]
    BY DEF TypeOK
  <2>5. host'.conn = c /\ guest' = guest /\ host'.pc = "reading" /\ ~host'.desynced
    BY <1>8 DEF ResyncQuiet, TypeOK, HostState
  <2>6. InFlight(host.conn)'
    BY <1>8, <1>h, <2>2, <2>3, <2>4, <2>5, SendInFlight DEF ResyncQuiet, Outstanding
  <2> QED
    BY <2>5, <2>6 DEF OneExchange
<1>9. ASSUME host.pc = "reading", slip = "none"
      PROVE  ~host.desynced /\ InFlight(c) /\ Connected /\ c \in Conn /\ hl \in LinkState
  BY <1>9, <1>h DEF OneExchange
<1>10. ASSUME NEW pc \in {"loop", "hello", "hello2"}, NEW d, NEW m, Settle(pc, d, m),
              slip' = "none" => d \/ ~Outstanding(c)', guest' = guest
       PROVE  OneExchange'
  <2>1. host'.conn = c /\ host'.pc = pc /\ host'.desynced = d
    BY <1>10 DEF Settle, TypeOK, HostState
  <2> QED
    BY <1>10, <2>1 DEF OneExchange, Outstanding, Serving
<1>11. ASSUME ReadFirst PROVE OneExchange'
  <2>1. SUFFICES ASSUME slip = "none" PROVE OneExchange'
    BY <1>11 DEF ReadFirst, OneExchange
  <2>2. ~host.desynced /\ InFlight(c) /\ c \in Conn /\ hl \in LinkState
    BY <1>9, <1>11, <2>1 DEF ReadFirst
  <2>3. FirstPiece \in Piece /\ LastPiece \in Piece /\ LastPiece.last /\ FirstPiece.req = op.req
    BY <2>2 DEF FirstPiece, LastPiece, Piece, InFlight
  <2>4. hl.toHost \in {<<FirstPiece>>, <<FirstPiece, LastPiece>>} /\ op.head = NoReq
    <3>1. Head(<<LastPiece>>) = LastPiece
      BY <2>3, OneSeq
    <3> HIDE DEF LastPiece, FirstPiece
    <3> QED
      BY <1>11, <2>2, <2>3, <3>1 DEF ReadFirst, InFlight, Waiting, Served, Answered
  <2>5. 1 \in 0..Len(hl.toHost) /\ Head(hl.toHost) = FirstPiece
        /\ SubSeq(hl.toHost, 2, Len(hl.toHost)) = (IF hl.toHost = <<FirstPiece>> THEN <<>> ELSE <<LastPiece>>)
    <3>1. /\ Len(<<FirstPiece>>) = 1 /\ Head(<<FirstPiece>>) = FirstPiece
          /\ SubSeq(<<FirstPiece>>, 2, 1) = <<>>
      BY <2>3, OneSeq
    <3>2. /\ Len(<<FirstPiece, LastPiece>>) = 2 /\ Head(<<FirstPiece, LastPiece>>) = FirstPiece
          /\ SubSeq(<<FirstPiece, LastPiece>>, 2, 2) = <<LastPiece>>
      BY <2>3, TwoSeq
    <3>3. <<FirstPiece, LastPiece>> # <<FirstPiece>>
      BY <3>1, <3>2
    <3>4. CASE hl.toHost = <<FirstPiece>>
      BY <3>1, <3>4
    <3>5. CASE hl.toHost = <<FirstPiece, LastPiece>>
      <4> HIDE DEF LastPiece, FirstPiece
      <4> QED
        BY <3>2, <3>3, <3>5
    <3> QED
      BY <2>4, <3>4, <3>5
  <2>6. /\ link'[c].toHost = SubSeq(hl.toHost, 2, Len(hl.toHost)) /\ link'[c].toGuest = hl.toGuest
    <3>1. link'[c] = SweepOf(hl, 1)
      BY <1>11, <2>2 DEF ReadFirst, TypeOK
    <3>2. /\ SweepOf(hl, 1).toGuest = hl.toGuest
          /\ SweepOf(hl, 1).toHost = SubSeq(hl.toHost, 1 + 1, Len(hl.toHost))
      BY <2>2, <2>5, SweepFrame
    <3> QED
      BY <3>1, <3>2
  <2>7. /\ op'.head = op.req /\ op'.req = op.req /\ guest' = guest /\ host' = host
    BY <1>11, <2>3, <2>5 DEF ReadFirst, TypeOK, Exchange
  <2>8. LastPiece' = LastPiece
    BY <2>7 DEF LastPiece
  <2>9. InFlight(host.conn)'
    <3>1. hl.toGuest = <<>> /\ op.req \in Req
      BY <2>2, <2>4, OneSeq, TwoSeq, <2>3 DEF InFlight, Waiting, Served, Answered
    <3>2. CASE Serving(c)
      <4>1. guest.sent /\ guest.busy = op.req /\ hl.toHost = <<FirstPiece>>
        <5> HIDE DEF LastPiece, FirstPiece
        <5> QED
          BY <2>2, <2>3, <2>4, <3>2, OneSeq, TwoSeq DEF InFlight, Waiting, Served, Answered
      <4>2. link'[c].toHost = <<>>
        BY <2>5, <2>6, <4>1
      <4> QED
        BY <2>6, <2>7, <3>1, <3>2, <4>1, <4>2 DEF InFlight, Served, Serving
    <3>3. CASE ~Serving(c)
      <4>1. link'[c].toHost \in {<<>>, <<LastPiece>>}
        BY <2>5, <2>6
      <4> HIDE DEF LastPiece, FirstPiece
      <4> QED
        BY <2>6, <2>7, <2>8, <3>1, <3>3, <4>1 DEF InFlight, Answered, Serving
    <3> QED
      BY <3>2, <3>3
  <2> QED
    BY <1>11, <2>2, <2>7, <2>9 DEF OneExchange, ReadFirst
<1>12. ASSUME ReadLast PROVE OneExchange'
  <2>1. PICK n \in Arrived(c) \ {0} : Complete(Head(hl.toHost).req, SweepOf(hl, n))
    BY <1>12 DEF ReadLast
  <2>2. CASE Drop(SweepOf(hl, n))
    BY <1>5, <2>2
  <2>3. ASSUME NEW pc \in {"loop", "hello", "hello2"}, Settle(pc, host.desynced, 0),
               link' = [link EXCEPT ![c] = SweepOf(hl, n)]
        PROVE  OneExchange'
    <3>1. SUFFICES ASSUME slip = "none" PROVE ~Outstanding(c)'
      BY <1>10, <1>12, <2>3 DEF ReadLast
    <3>2. InFlight(c) /\ c \in Conn /\ hl \in LinkState
      BY <1>9, <1>12, <3>1 DEF ReadLast
    <3>3. FirstPiece \in Piece /\ LastPiece \in Piece /\ ~FirstPiece.last
      BY <3>2 DEF FirstPiece, LastPiece, Piece, InFlight
    <3>4. hl.toHost = <<LastPiece>> /\ hl.toGuest = <<>> /\ ~Serving(c)
      <4>1. Head(<<FirstPiece>>) = FirstPiece /\ Head(<<FirstPiece, LastPiece>>) = FirstPiece
        BY <3>3, OneSeq, TwoSeq
      <4> HIDE DEF LastPiece, FirstPiece
      <4> QED
        BY <1>12, <3>2, <3>3, <4>1 DEF ReadLast, InFlight, Waiting, Served, Answered
    <3>5. n \in 0..Len(hl.toHost) /\ n = 1 /\ SubSeq(hl.toHost, n + 1, Len(hl.toHost)) = <<>>
      <4>1. Len(<<LastPiece>>) = 1 /\ SubSeq(<<LastPiece>>, 2, 1) = <<>>
        BY <3>3, OneSeq
      <4>2. n \in 0..Len(hl.toHost) /\ n # 0
        BY <2>1 DEF Arrived
      <4> HIDE DEF LastPiece
      <4>3. Len(hl.toHost) = 1 /\ n = 1
        BY <3>4, <4>1, <4>2
      <4> QED
        BY <3>4, <4>1, <4>2, <4>3
    <3>6. link'[c].toHost = <<>> /\ link'[c].toGuest = <<>>
      <4>1. link'[c] = SweepOf(hl, n)
        BY <2>3, <3>2 DEF TypeOK
      <4>2. /\ SweepOf(hl, n).toGuest = hl.toGuest
            /\ SweepOf(hl, n).toHost = SubSeq(hl.toHost, n + 1, Len(hl.toHost))
        BY <3>2, <3>5, SweepFrame
      <4> QED
        BY <3>4, <3>5, <4>1, <4>2
    <3>7. host'.conn = c /\ guest' = guest
      BY <1>12, <2>3 DEF ReadLast, Settle, TypeOK, HostState
    <3> QED
      BY <3>4, <3>6, <3>7 DEF Outstanding, Serving
  <2>4. NextStep \in {"loop", "hello", "hello2"}
    BY DEF NextStep
  <2> QED
    BY <2>1, <2>2, <2>3, <2>4 DEF Complete
<1>13. ASSUME ReadShort PROVE OneExchange'
  BY <1>13 DEF ReadShort, SlipsIf, OneExchange
<1>14. ASSUME ReadTimeout PROVE OneExchange'
  <2>1. CASE Drop(hl)
    BY <1>5, <2>1
  <2>2. ASSUME NEW pc \in {"loop", "hello", "hello2"}, NEW m, link' = link,
               Settle(pc, host.desynced \/ op.kind \in FramedKinds, m)
        PROVE  OneExchange'
    <3>1. SUFFICES ASSUME slip' = "none", op.kind \notin FramedKinds PROVE ~Outstanding(c)'
      BY <1>10, <1>14, <2>2 DEF ReadTimeout
    <3>2. op.kind \in UnmarkedKinds
      BY <1>14, <3>1 DEF ReadTimeout, StepsAgree, TypeOK, Exchange, Kinds
    <3>3. ~Outstanding(c)
      BY <1>14, <3>1, <3>2 DEF ReadTimeout, SlipsIf
    <3>4. host'.conn = c /\ guest' = guest
      BY <1>14, <2>2 DEF ReadTimeout, Settle, TypeOK, HostState
    <3> QED
      BY <2>2, <3>3, <3>4 DEF Outstanding, Serving
  <2>3. NextStep \in {"loop", "hello", "hello2"}
    BY DEF NextStep
  <2> QED
    BY <1>14, <2>1, <2>2, <2>3 DEF ReadTimeout
<1>15. ASSUME ResyncDrop \/ ReadDrop PROVE OneExchange'
  BY <1>5, <1>15 DEF ResyncDrop, ReadDrop
<1> QED
  BY <1>1, <1>2, <1>3, <1>6, <1>7, <1>8, <1>11, <1>12, <1>13, <1>14, <1>15
     DEF HostStart, Begin, Resync, HostRead

\* The daemon's steps keep the exchange the only one.
LEMMA GuestExchangeStep ==
  ASSUME LinkAssumption, TypeOK, WireAgrees, StepsAgree, OneExchange,
         GuestServe \/ GuestNet \/ GuestStalls \/ WatchdogOnQuietLink \/ GuestCrash \/ GuestRelaunch
  PROVE  OneExchange'
<1> USE LinkAssumption
<1> DEFINE c  == host.conn
           hl == link[host.conn]
<1>1. UNCHANGED <<host, op>> /\ (slip' = "none" => slip = "none")
  BY DEF LeavesBody, SlipsIf, GuestServe, GuestNet, GuestReadsBody, GuestStalls, WatchdogOnQuietLink, GuestCrash, GuestRelaunch, GuestDial,
         GuestRecv, GuestSendFirst, GuestSendLast, GuestLosesLink, WatchdogOnDeadLink, GuestLeaves
<1>2. SUFFICES ASSUME Connected, slip' = "none"
               PROVE  /\ InFlight(c) => InFlight(host.conn)'
                      /\ ~Outstanding(c) => ~Outstanding(host.conn)'
  BY <1>1 DEF OneExchange, Connected
<1>3. c \in Conn /\ hl \in LinkState /\ hl.hostEnd = "open"
  BY <1>2, HostConnType DEF WireAgrees
<1> DEFINE Kept == /\ InFlight(c) => InFlight(host.conn)'
                   /\ ~Outstanding(c) => ~Outstanding(host.conn)'
<1>4. ASSUME link'[c] = hl, ~Serving(c), ~Serving(c)' PROVE Kept
  BY <1>1, <1>4 DEF InFlight, Waiting, Served, Answered, FirstPiece, LastPiece, Outstanding, Serving
<1>5. ASSUME GuestDial PROVE Kept
  <2>1. PICK d \in Conn :
          /\ link[d] = Unused
          /\ link' = [link EXCEPT ![d].hostEnd = "queued", ![d].guestEnd = "open"]
          /\ guest' = [guest EXCEPT !.conn = d]
    BY <1>5 DEF GuestDial
  <2>2. d # c
    BY <1>3, <2>1 DEF Unused
  <2>3. guest'.conn = d /\ guest.conn # c
    BY <1>3, <1>5, <2>1 DEF GuestDial, TypeOK, GuestState
  <2>4. link'[c] = hl
    BY <1>3, <2>1, <2>2 DEF TypeOK
  <2> QED
    BY <1>1, <1>4, <2>2, <2>3, <2>4 DEF Serving
<1>6. ASSUME guest.conn # c, guest'.conn = guest.conn, NEW l,
             link' = [link EXCEPT ![guest.conn] = l]
      PROVE  Kept
  <2>1. link'[c] = hl
    BY <1>3, <1>6 DEF TypeOK
  <2> QED
    BY <1>1, <1>4, <1>6, <2>1 DEF Serving
<1>7. ASSUME GuestRecv PROVE Kept
  <2>1. PICK n \in 1..Len(link[guest.conn].toGuest) : link' = [link EXCEPT ![guest.conn] =
           [link[guest.conn] EXCEPT !.toGuest = SubSeq(link[guest.conn].toGuest, n + 1, Len(link[guest.conn].toGuest))]]
    BY <1>7 DEF GuestRecv
  <2>2. guest'.conn = guest.conn
    BY <1>7 DEF GuestRecv, TypeOK, GuestState
  <2>3. CASE guest.conn # c
    BY <1>6, <2>1, <2>2, <2>3
  <2>4. CASE guest.conn = c
    <3>1. hl.toGuest # <<>>
      BY <1>7, <2>4 DEF GuestRecv
    <3>2. Outstanding(c)
      BY <3>1 DEF Outstanding
    <3>3. SUFFICES ASSUME InFlight(c) PROVE InFlight(host.conn)'
      BY <3>2
    <3> DEFINE b == BodyOf(op.req)
    <3>4. hl.toGuest = Sent(op.req) /\ hl.toHost = <<>> /\ op.head = NoReq /\ op.req \in Req
      BY <1>7, <2>4, <3>1, <3>3 DEF GuestRecv, Idle, InFlight, Waiting, Served, Answered, Serving
    <3>5. /\ Len(<<op.req>>) = 1 /\ Head(<<op.req>>) = op.req /\ SubSeq(<<op.req>>, 2, 1) = <<>>
          /\ Len(<<op.req, b>>) = 2 /\ Head(<<op.req, b>>) = op.req
          /\ SubSeq(<<op.req, b>>, 2, 2) = <<b>> /\ SubSeq(<<op.req, b>>, 3, 2) = <<>>
      <4>1. op.req \in Req /\ b \in Req
        BY <3>4, BodyType
      <4> HIDE DEF b
      <4>2. SubSeq(<<op.req, b>>, 3, 2) = <<>>
        BY <4>1, SubSeqEmpty
      <4>3. /\ Len(<<op.req>>) = 1 /\ Head(<<op.req>>) = op.req
            /\ SubSeq(<<op.req>>, 2, 1) = <<>>
        BY <4>1, OneSeq
      <4>4. /\ Len(<<op.req, b>>) = 2 /\ Head(<<op.req, b>>) = op.req
            /\ SubSeq(<<op.req, b>>, 2, 2) = <<b>>
        BY <4>1, TwoSeq
      <4> QED
        BY <4>2, <4>3, <4>4
    <3>6. /\ link'[c].toGuest = <<>> \/ (op.req.verb = "PUT" /\ link'[c].toGuest = <<b>>)
          /\ link'[c].toHost = <<>>
      <4>1. \/ hl.toGuest = <<op.req>>
            \/ op.req.verb = "PUT" /\ hl.toGuest = <<op.req, b>>
        BY <3>4, SentIs
      <4>2. \/ SubSeq(hl.toGuest, n + 1, Len(hl.toGuest)) = <<>>
            \/ op.req.verb = "PUT" /\ SubSeq(hl.toGuest, n + 1, Len(hl.toGuest)) = <<b>>
        <5> HIDE DEF b
        <5>1. n \in 1..Len(hl.toGuest)
          BY <2>4
        <5>2. CASE hl.toGuest = <<op.req>>
          <6>1. n = 1
            BY <3>5, <5>1, <5>2
          <6> QED
            BY <3>5, <5>2, <6>1
        <5>3. CASE op.req.verb = "PUT" /\ hl.toGuest = <<op.req, b>>
          <6>1. n = 1 \/ n = 2
            BY <3>5, <5>1, <5>3
          <6> QED
            BY <3>5, <5>3, <6>1
        <5> QED
          BY <4>1, <5>2, <5>3
      <4>3. link'[c] = [hl EXCEPT !.toGuest = SubSeq(hl.toGuest, n + 1, Len(hl.toGuest))]
        BY <1>3, <2>1, <2>4 DEF TypeOK
      <4>4. /\ link'[c].toGuest = SubSeq(hl.toGuest, n + 1, Len(hl.toGuest))
            /\ link'[c].toHost = hl.toHost
        BY <1>3, <4>3 DEF LinkState
      <4> QED
        BY <3>4, <4>2, <4>4
    <3>7. guest'.busy = op.req /\ ~guest'.sent /\ guest'.conn = c
      <4>1. Head(hl.toGuest) = op.req
        BY <3>4, <3>5, SentIs
      <4> QED
        BY <1>7, <2>2, <2>4, <4>1 DEF GuestRecv, TypeOK, GuestState
    <3>8. op' = op /\ host' = host
      BY <1>1
    <3>9. op.req # NoReq
      BY <3>4
    <3> QED
      BY <3>4, <3>6, <3>7, <3>8, <3>9 DEF InFlight, Served, Serving
  <2> QED
    BY <2>3, <2>4
<1>8. ASSUME NEW last \in BOOLEAN, Sends(last), guest.busy # NoReq, guest.conn = c
      PROVE  /\ link'[c].toHost = Append(hl.toHost, [req |-> guest.busy, last |-> last])
             /\ link'[c].toGuest = hl.toGuest
             /\ Outstanding(c) /\ Serving(c)
  <2>1. link' = [link EXCEPT ![c] = [hl EXCEPT !.toHost = Append(hl.toHost, [req |-> guest.busy, last |-> last])]]
    BY <1>3, <1>8 DEF Sends
  <2> QED
    BY <1>3, <1>8, <2>1 DEF TypeOK, LinkState, Outstanding, Serving
<1>9. ASSUME InFlight(c), Serving(c)
      PROVE  /\ guest.busy = op.req /\ op.req \in Req
             /\ \/ hl.toGuest = <<>>
                \/ hl.toGuest = <<BodyOf(op.req)>> /\ op.req.verb = "PUT" /\ ~guest.sent
             /\ FirstPiece \in Piece /\ LastPiece \in Piece
             /\ Append(<<>>, FirstPiece) = <<FirstPiece>> /\ Append(<<>>, LastPiece) = <<LastPiece>>
             /\ Append(<<FirstPiece>>, LastPiece) = <<FirstPiece, LastPiece>>
             /\ \/ ~guest.sent /\ hl.toHost = <<>> /\ op.head = NoReq
                \/ guest.sent /\ hl.toHost = <<FirstPiece>> /\ op.head = NoReq
                \/ guest.sent /\ hl.toHost = <<>> /\ op.head = op.req
  <2>1. op.req \in Req
    BY <1>9 DEF InFlight
  <2>2. FirstPiece \in Piece /\ LastPiece \in Piece
    BY <2>1 DEF FirstPiece, LastPiece, Piece
  <2>3. Append(<<>>, FirstPiece) = <<FirstPiece>> /\ Append(<<>>, LastPiece) = <<LastPiece>>
    BY <2>2, OneSeq
  <2>4. Append(<<FirstPiece>>, LastPiece) = <<FirstPiece, LastPiece>>
    BY <2>2, TwoSeq
  <2> HIDE DEF FirstPiece, LastPiece
  <2> QED
    BY <1>9, <2>1, <2>2, <2>3, <2>4 DEF InFlight, Waiting, Served, Answered
<1>9b. ASSUME LeavesBody, guest.conn = c, InFlight(c), Serving(c) PROVE hl.toGuest = <<>>
  <2>1. ~BodyLeft
    BY <1>2, <1>9b DEF LeavesBody, SlipsIf
  <2>2. ASSUME hl.toGuest = <<BodyOf(op.req)>>, op.req.verb = "PUT", guest.busy = op.req, op.req \in Req
        PROVE  BodyLeft
    <3> DEFINE b == BodyOf(op.req)
    <3>1. b \in Req
      BY <2>2, BodyType
    <3> HIDE DEF b
    <3>2. <<b>> # <<>> /\ Head(<<b>>) = b
      BY <3>1, OneSeq
    <3> QED
      BY <1>9b, <2>2, <3>2 DEF BodyLeft, b
  <2> QED
    BY <1>9, <1>9b, <2>1, <2>2
<1>10. op' = op => FirstPiece' = FirstPiece /\ LastPiece' = LastPiece
  BY DEF FirstPiece, LastPiece
<1>11. ASSUME GuestSendFirst PROVE Kept
  <2>1. guest.busy # NoReq /\ ~guest.sent /\ Sends(FALSE)
    BY <1>11 DEF GuestSendFirst
  <2>2. guest'.conn = guest.conn /\ guest'.busy = guest.busy /\ guest'.sent
    BY <1>11 DEF GuestSendFirst, TypeOK, GuestState
  <2>3. CASE guest.conn # c
    BY <1>6, <2>1, <2>2, <2>3 DEF Sends
  <2>4. CASE guest.conn = c
    <3>1. SUFFICES ASSUME InFlight(c) PROVE InFlight(host.conn)'
      BY <1>8, <2>1, <2>4
    <3>2. hl.toGuest = <<>> /\ guest.busy = op.req /\ op.req \in Req /\ hl.toHost = <<>> /\ op.head = NoReq
          /\ Append(<<>>, FirstPiece) = <<FirstPiece>>
      BY <1>8, <1>9, <1>9b, <1>11, <2>1, <2>4, <3>1 DEF GuestSendFirst
    <3>3. link'[c].toHost = <<FirstPiece>> /\ link'[c].toGuest = <<>>
      BY <1>8, <2>1, <2>4, <3>2 DEF FirstPiece
    <3> HIDE DEF FirstPiece
    <3> QED
      BY <1>1, <1>10, <2>2, <2>4, <3>2, <3>3 DEF InFlight, Served, Serving
  <2> QED
    BY <2>3, <2>4
<1>12. ASSUME GuestSendLast PROVE Kept
  <2>1. guest.busy # NoReq /\ Sends(TRUE)
    BY <1>12 DEF GuestSendLast
  <2>2. guest'.conn = guest.conn /\ guest'.busy = NoReq
    BY <1>12 DEF GuestSendLast, TypeOK, GuestState
  <2>3. CASE guest.conn # c
    BY <1>6, <2>1, <2>2, <2>3 DEF Sends
  <2>4. CASE guest.conn = c
    <3>1. SUFFICES ASSUME InFlight(c) PROVE InFlight(host.conn)'
      BY <1>8, <2>1, <2>4
    <3>2. Serving(c) /\ link'[c].toGuest = hl.toGuest
          /\ link'[c].toHost = Append(hl.toHost, [req |-> guest.busy, last |-> TRUE])
      BY <1>8, <2>1, <2>4
    <3>3. link'[c].toHost = Append(hl.toHost, LastPiece)
      BY <1>9, <3>1, <3>2 DEF LastPiece
    <3>4. \/ link'[c].toHost = <<LastPiece>> /\ op.head \in {NoReq, op.req}
          \/ link'[c].toHost = <<FirstPiece, LastPiece>> /\ op.head = NoReq
      BY <1>9, <3>1, <3>2, <3>3
    <3>5. link'[c].toGuest = <<>> /\ op.req \in Req /\ ~Serving(c)'
      BY <1>1, <1>9, <1>9b, <1>12, <2>2, <2>4, <3>1, <3>2 DEF GuestSendLast, Serving
    <3> HIDE DEF FirstPiece, LastPiece
    <3> QED
      BY <1>1, <1>10, <3>4, <3>5 DEF InFlight, Answered
  <2> QED
    BY <2>3, <2>4
<1>13. ASSUME NEW up, guest.conn # NoConn, GuestLeaves(up) PROVE Kept
  <2>1. PICK fin \in Fins : link' = [link EXCEPT ![guest.conn] = GuestCloses(link[guest.conn], fin)]
    BY <1>13 DEF GuestLeaves
  <2>2. guest'.conn = NoConn /\ NoConn # c
    BY <1>3, <1>13 DEF GuestLeaves
  <2>3. CASE guest.conn # c
    <3>1. link'[c] = hl
      BY <1>3, <2>1, <2>3 DEF TypeOK
    <3> QED
      BY <1>1, <1>4, <2>2, <2>3, <3>1 DEF Serving
  <2>4. CASE guest.conn = c
    <3>1. link'[c] = GuestCloses(hl, fin)
      BY <1>3, <2>1, <2>4 DEF TypeOK
    <3>2. link'[c].toGuest = <<>> /\ link'[c].toHost = hl.toHost
      BY <1>3, <3>1 DEF GuestCloses, LinkState
    <3>3. ~Serving(c)'
      BY <1>1, <2>2 DEF Serving
    <3> HIDE DEF FirstPiece, LastPiece
    <3> QED
      BY <1>1, <1>10, <3>2, <3>3 DEF InFlight, Waiting, Served, Answered, Outstanding
  <2> QED
    BY <2>3, <2>4
<1>14. ASSUME GuestLosesLink \/ WatchdogOnDeadLink \/ GuestStalls \/ WatchdogOnQuietLink PROVE Kept
  BY <1>13, <1>14 DEF GuestLosesLink, WatchdogOnDeadLink, GuestStalls, BodyLeft, StepsAgree, WatchdogOnQuietLink, Idle
<1>15. ASSUME link' = link, guest'.conn = guest.conn, guest'.busy = guest.busy, guest'.sent = guest.sent
       PROVE  Kept
  BY <1>1, <1>15 DEF InFlight, Waiting, Served, Answered, FirstPiece, LastPiece, Outstanding, Serving
<1>16. ASSUME GuestCrash PROVE Kept
  <2>1. CASE guest.conn = NoConn
    BY <1>15, <1>16, <2>1 DEF GuestCrash, TypeOK, GuestState
  <2>2. CASE guest.conn # NoConn
    BY <1>13, <1>16, <2>2 DEF GuestCrash
  <2> QED
    BY <2>1, <2>2
<1>17. ASSUME GuestRelaunch PROVE Kept
  BY <1>15, <1>17 DEF GuestRelaunch, TypeOK, GuestState
<1>18. ASSUME GuestReadsBody PROVE Kept
  <2>1. link' = [link EXCEPT ![guest.conn] = [link[guest.conn] EXCEPT !.toGuest = Tail(link[guest.conn].toGuest)]]
    BY <1>18 DEF GuestReadsBody
  <2>2. guest' = guest /\ guest.busy # NoReq /\ ~guest.sent
    BY <1>18 DEF GuestReadsBody, BodyLeft
  <2>3. CASE guest.conn # c
    BY <1>6, <2>1, <2>2, <2>3
  <2>4. CASE guest.conn = c
    <3>1. Outstanding(c) /\ Serving(c)
      BY <2>2, <2>4 DEF Outstanding, Serving
    <3>2. SUFFICES ASSUME InFlight(c) PROVE InFlight(host.conn)'
      BY <3>1
    <3>3. /\ hl.toGuest = <<BodyOf(op.req)>> /\ op.req \in Req /\ guest.busy = op.req
          /\ hl.toHost = <<>> /\ op.head = NoReq
      BY <1>9, <1>18, <2>2, <2>4, <3>1, <3>2 DEF GuestReadsBody, BodyLeft
    <3>4. Tail(hl.toGuest) = <<>>
      <4> DEFINE b == BodyOf(op.req)
      <4>1. b \in Req
        BY <3>3, BodyType
      <4> HIDE DEF b
      <4>2. Tail(<<b>>) = <<>>
        BY <4>1
      <4> QED
        BY <3>3, <4>2 DEF b
    <3>5. link'[c].toGuest = <<>> /\ link'[c].toHost = <<>>
      <4>1. link'[c] = [hl EXCEPT !.toGuest = <<>>]
        BY <1>3, <2>1, <2>4, <3>4 DEF TypeOK
      <4> QED
        BY <1>3, <3>3, <4>1 DEF LinkState
    <3> QED
      BY <1>1, <2>2, <2>4, <3>1, <3>3, <3>5 DEF InFlight, Served, Serving
  <2> QED
    BY <2>3, <2>4
<1> HIDE DEF Kept
<1> QED
  <2>1. Kept
    BY <1>5, <1>7, <1>11, <1>12, <1>14, <1>16, <1>17, <1>18 DEF GuestServe, GuestNet
  <2> QED
    BY <2>1 DEF Kept

\* A foreign reply is only ever returned on a link that has slipped.
LEMMA ShiftStep ==
  ASSUME LinkAssumption, TypeOK, StepsAgree, OneExchange, ShiftOnlyAfterSlip, Next
  PROVE  ShiftOnlyAfterSlip'
<1> USE LinkAssumption
<1>1. slip # "none" /\ ~HostAccept => slip' # "none"
  BY DEF Next, HostStart, Begin, HostBegin, HostBeginResync, HostBeginEof, Resync, ResyncSweep,
         ResyncQuiet, ResyncDrop, HostRead, ReadFirst, ReadLast, ReadShort, ReadTimeout, ReadDrop,
         SlipsIf, LeavesBody, GuestServe, GuestNet, GuestReadsBody, GuestStalls, WatchdogOnQuietLink, GuestCrash, GuestRelaunch, GuestDial,
         GuestRecv, GuestSendFirst, GuestSendLast, GuestLosesLink, WatchdogOnDeadLink, GuestLeaves
<1>2. CASE HostRead
  <2>1. SUFFICES ASSUME slip = "none" PROVE answer' # "other" \/ slip' # "none"
    BY <1>1, <1>2 DEF ShiftOnlyAfterSlip, HostRead, ReadFirst, ReadLast, ReadShort, ReadTimeout,
       ReadDrop, HostAccept
  <2>2. InFlight(host.conn)
    BY <1>2, <2>1 DEF HostRead, ReadFirst, ReadLast, ReadShort, ReadTimeout, ReadDrop, StepsAgree,
       OneExchange
  <2>3. \A by : by \in {NoReq, op.req} => "other" \notin Verdicts(by)
    BY DEF Verdicts
  <2>4. "other" \notin PartVerdicts
    BY <2>2, <2>3, OwnFrame DEF PartVerdicts
  <2>5. CASE ReadFirst
    BY <2>1, <2>5 DEF ReadFirst, ShiftOnlyAfterSlip
  <2>6. CASE ReadLast
    <3>1. "other" \notin Verdicts(Head(link[host.conn].toHost).req)
      BY <2>2, <2>3, <2>6, OwnFrame DEF ReadLast
    <3> QED
      BY <2>6, <3>1 DEF ReadLast, Complete
  <2>7. CASE ReadShort
    BY <2>7 DEF ReadShort, SlipsIf
  <2>8. CASE ReadTimeout
    BY <2>4, <2>8 DEF ReadTimeout
  <2>9. CASE ReadDrop
    BY <2>4, <2>9 DEF ReadDrop
  <2> QED
    BY <1>2, <2>5, <2>6, <2>7, <2>8, <2>9 DEF HostRead
<1>3. CASE HostAccept \/ HostStart
  BY <1>3 DEF HostAccept, HostStart, Begin, HostBegin, HostBeginResync, HostBeginEof, ShiftOnlyAfterSlip
<1>4. CASE Resync \/ GuestServe \/ GuestNet \/ GuestStalls \/ WatchdogOnQuietLink \/ GuestCrash \/ GuestRelaunch
  <2>1. answer' = answer
    BY <1>4 DEF Resync, ResyncSweep, ResyncQuiet, ResyncDrop, GuestServe, GuestNet,
       GuestReadsBody, GuestStalls, WatchdogOnQuietLink, GuestCrash, GuestRelaunch, GuestDial, GuestRecv, GuestSendFirst,
       GuestSendLast, GuestLosesLink, WatchdogOnDeadLink, GuestLeaves
  <2>2. CASE HostAccept
    BY <1>3, <2>2
  <2> QED
    BY <1>1, <2>1, <2>2 DEF ShiftOnlyAfterSlip
<1> QED
  BY <1>2, <1>3, <1>4 DEF Next

-----------------------------------------------------------------------------
(* The theorems. *)

\* The inductive invariant holds at the start.
LEMMA LinkInit == LinkAssumption /\ Init => LinkInv
<1> SUFFICES ASSUME LinkAssumption, Init PROVE LinkInv
  OBVIOUS
<1>1. TypeOK
  <2>1. link \in [Conn -> LinkState]
    BY UnusedType DEF Init
  <2>2. queue \in Seq(Conn)
    BY DEF Init
  <2> QED
    BY <2>1, <2>2 DEF Init, TypeOK, HostState, Exchange, GuestState, NoOp, Slips, LinkAssumption
<1>2. WireAgrees
  BY DEF Init, WireAgrees, Unused, LinkAssumption, Outstanding, Serving
<1>3. StepsAgree
  BY DEF Init, StepsAgree, NoOp
<1>4. OneExchange /\ ShiftOnlyAfterSlip
  BY DEF Init, OneExchange, Connected, ShiftOnlyAfterSlip
<1> QED
  BY <1>1, <1>2, <1>3, <1>4 DEF LinkInv

\* Every step, or none, preserves it.
LEMMA LinkStep == LinkAssumption /\ LinkInv /\ [Next]_vars => LinkInv'
<1> SUFFICES ASSUME LinkAssumption, LinkInv, [Next]_vars PROVE LinkInv'
  OBVIOUS
<1>1. CASE Next
  <2>1. TypeOK' /\ OneExchange'
    BY <1>1, HostTypeStep, GuestTypeStep, HostExchangeStep, GuestExchangeStep DEF LinkInv, Next
  <2>2. WireAgrees' /\ StepsAgree' /\ ShiftOnlyAfterSlip'
    BY <1>1, WireStep, StepsStep, ShiftStep DEF LinkInv
  <2> QED
    BY <2>1, <2>2 DEF LinkInv
<1>2. CASE UNCHANGED vars
  BY <1>2 DEF vars, LinkInv, TypeOK, WireAgrees, StepsAgree, OneExchange, ShiftOnlyAfterSlip,
     Connected, Outstanding, Serving, InFlight, Waiting, Served, Answered, FirstPiece, LastPiece
<1> QED
  BY <1>1, <1>2

\* The invariant of the persistent link: types, agreement of the two ends with
\* the connections, and one exchange at a time on a link that has not slipped.
THEOREM LinkInvariant == Spec => []LinkInv
<1> USE LinkAssumption
<1>1. Init => LinkInv
  BY LinkInit
<1>2. LinkInv /\ [Next]_vars => LinkInv'
  BY LinkStep
<1> QED
  BY <1>1, <1>2, PTL DEF Spec

\* Every variable of the link keeps its type.
THEOREM LinkTypeCorrect == Spec => []TypeOK
<1>1. LinkInv => TypeOK
  BY DEF LinkInv
<1> QED
  BY <1>1, LinkInvariant, PTL

\* A client is given somebody else's reply only after one of the four known
\* ways for the link to slip (a drain ended early, a reader that gave up unmarked or
\* stopped short, a file body left unread): reads that are marked, complete or end the link
\* cannot cause it, in any interleaving with the daemon.
THEOREM NoShiftWithoutSlip == Spec => []ShiftOnlyAfterSlip
<1>1. LinkInv => ShiftOnlyAfterSlip
  BY DEF LinkInv
<1> QED
  BY <1>1, LinkInvariant, PTL

\* Between exchanges the wire of a link in step is empty in both directions.
THEOREM QuietLink == Spec => []QuietBetweenExchanges
<1>1. LinkInv => QuietBetweenExchanges
  BY DEF LinkInv, OneExchange, QuietBetweenExchanges
<1> QED
  BY <1>1, LinkInvariant, PTL

=============================================================================
