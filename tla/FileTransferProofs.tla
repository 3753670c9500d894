------------------------- MODULE FileTransferProofs -------------------------
(***************************************************************************)
(* The inductive invariant of FileTransfer: what is on the wire for whom.  *)
(***************************************************************************)
EXTENDS FileTransfer, SequenceTheorems, TLAPS

-----------------------------------------------------------------------------
(* The inductive invariant *)

\* A put is this many units, and these.
Size(p) == 2 + DataLen[p] + RsrcLen[p]

UnitOf(p, j) == [op |-> p, part |-> IF j = 1 THEN "head" ELSE IF j = 2 THEN "path"
                                    ELSE IF j <= 2 + DataLen[p] THEN "data" ELSE "rsrc"]

\* What the daemon has yet to read, the units the host has not sent included.
Ahead == guest.pre \o toGuest \o host.left

\* How much of it there is: in the request buffer, on the wire, with the host.
InHand == Len(guest.pre)
OnWire == Len(toGuest)
Unsent == Len(host.left)

Receiving == {"path", "data", "rsrc", "drain"}

\* The units of its put that the daemon has yet to read.
Due == CASE guest.pc = "path" -> 1 + DataLen[guest.op] + RsrcLen[guest.op]
         [] guest.pc = "data" -> guest.left + RsrcLen[guest.op]
         [] guest.pc \in {"rsrc", "drain"} -> guest.left
         [] OTHER -> 0

\* From place i on these are the last n units of put p, in their order, as far as the host sent
\* them; and it will send them all as long as it has the link.
Continues(i, p, n) ==
    /\ \A k \in 1..n : i + k - 1 <= Len(Ahead) => Ahead[i + k - 1] = UnitOf(p, Size(p) - n + k)
    /\ hostUp => i + n - 1 <= Len(Ahead)

\* Behind a header comes the put it belongs to, and what the daemon is at goes on.
HeadsFollow ==
    \A i \in 1..Len(Ahead) : Ahead[i].part = "head" =>
        Ahead[i].op \in Puts /\ Continues(i, Ahead[i].op, Size(Ahead[i].op))

BodyFollows == guest.pc \in Receiving => Continues(1, guest.op, Due)

\* A file of put p, with these lengths of its forks and these units in them.
Holds(f, p, d, e, r, q) ==
    f.of = p /\ f.dataEnd = d /\ f.data = e /\ f.rsrcEnd = r /\ f.rsrc = q /\ f.pure

\* The file is what the daemon has read of the put in hand.
FileGrows ==
    /\ disk.pure
    /\ guest.pc = "data" =>
          Holds(disk, guest.op, DataLen[guest.op], DataLen[guest.op] - guest.left, 0, 0)
    /\ guest.pc = "rsrc" =>
          Holds(disk, guest.op, DataLen[guest.op], DataLen[guest.op], RsrcLen[guest.op],
                RsrcLen[guest.op] - guest.left)

\* Each program has what its stage needs, and no more.
HostAgrees ==
    /\ host.pc = "idle" => host = HostIdle
    /\ host.pc # "idle" => hostUp /\ host.op \in Op
    /\ host.pc = "sending" <=> host.left # <<>>
    /\ host.pc = "reading" => host.need > 0 /\ host.op \in Gets
    /\ ~hostUp => toHost = <<>>
    /\ told.what # "none" => hostUp /\ host.pc = "idle"

GuestAgrees ==
    /\ ~guestUp => guest = GuestIdle /\ toGuest = <<>>
    /\ guest.pc = "ready" => guest = GuestIdle
    /\ guest.pc \in Receiving => guest.op \in Puts
    /\ guest.pc = "data" => guest.left \in 1..DataLen[guest.op]
    /\ guest.pc = "rsrc" => guest.left \in 1..RsrcLen[guest.op]
    /\ guest.pc = "drain" => guest.left \in 1..(DataLen[guest.op] + RsrcLen[guest.op])
    /\ guest.pc = "sending" => guest.left > 0 /\ guest.pre = <<>> /\ guest.op \in Op

\* The reply to a put is alone on the link, and true.
PutAnswered ==
    /\ guest.pc # "sending"
    /\ toHost # <<>> =>
          /\ Len(Ahead) = 0 /\ guest.pc = "ready" /\ Len(toHost) = 1
          /\ toHost[1].part \in {"written", "failed"}
          /\ toHost[1].part = "written" => disk = Whole(host.op)

\* The reply to a get brings no more than it says.
GetAnswered ==
    /\ guest.pc \in {"ready", "sending"}
    /\ host.pc = "sending" => guest.pc = "ready" /\ toHost = <<>>
    /\ toHost # <<>> \/ guest.pc = "sending" => Len(Ahead) = 0
    /\ host.pc = "waiting" =>
          \/ toHost = <<>> /\ guest.pc = "ready"
          \/ toHost # <<>> /\ toHost[1].part = "failed" /\ Len(toHost) = 1 /\ guest.pc = "ready"
          \/ toHost # <<>> /\ toHost[1].part = "file"
                /\ Len(toHost) + guest.left <= toHost[1].len + 1
    /\ host.pc = "reading" => Len(Ahead) = 0 /\ Len(toHost) + guest.left <= host.need

\* All of the request is still ahead.
Asked ==
    /\ toHost = <<>>
    /\ IF host.op \in Puts THEN Len(Ahead) = Size(host.op) /\ Ahead[1].part = "head"
       ELSE Len(Ahead) = 1 /\ Ahead[1].part = "get"

\* Nothing is on the link.
Quiet == Len(Ahead) = 0 /\ toHost = <<>> /\ guest.pc = "ready"

\* What is on it belongs to the transfer of the host.
Alone ==
    /\ host.own
    /\ \A i \in 1..Len(Ahead) : Ahead[i].op = host.op
    /\ \A i \in 1..Len(toHost) : toHost[i].op = host.op
    /\ guest.op \in {host.op, NoOp}
    /\ guest.pc \in Receiving => Len(Ahead) = Due
    /\ guestUp /\ guest.pc = "ready" /\ Len(Ahead) > 0 => Asked
    /\ IF host.op \in Puts THEN PutAnswered ELSE GetAnswered

\* On a link where nobody slipped there is one transfer, and nothing between two.
OneTransfer == slip = "none" /\ hostUp => IF host.pc = "idle" THEN Quiet ELSE Alone

IInv ==
    /\ TypeOK /\ HeadsFollow /\ BodyFollows /\ FileGrows /\ HostAgrees /\ GuestAgrees
    /\ OneTransfer /\ OwnAnswers /\ WrittenMeansWhole

-----------------------------------------------------------------------------
(* Sequences *)

\* Three sequences in a row.
LEMMA RowIs ==
    ASSUME NEW S, NEW a \in Seq(S), NEW b \in Seq(S), NEW c \in Seq(S)
    PROVE  /\ a \o b \o c \in Seq(S)
           /\ Len(a \o b \o c) = Len(a) + Len(b) + Len(c)
           /\ Len(a) \in Nat /\ Len(b) \in Nat /\ Len(c) \in Nat
           /\ \A i \in 1..(Len(a) + Len(b) + Len(c)) :
                 (a \o b \o c)[i] = IF i <= Len(a) THEN a[i]
                                    ELSE IF i <= Len(a) + Len(b) THEN b[i - Len(a)]
                                    ELSE c[i - Len(a) - Len(b)]
  <1>1. /\ a \o b \in Seq(S) /\ Len(a \o b) = Len(a) + Len(b)
        /\ \A i \in 1..(Len(a) + Len(b)) :
              (a \o b)[i] = IF i <= Len(a) THEN a[i] ELSE b[i - Len(a)]
    BY ConcatProperties
  <1>2. /\ (a \o b) \o c \in Seq(S) /\ Len((a \o b) \o c) = Len(a \o b) + Len(c)
        /\ \A i \in 1..(Len(a \o b) + Len(c)) :
              ((a \o b) \o c)[i] = IF i <= Len(a \o b) THEN (a \o b)[i] ELSE c[i - Len(a \o b)]
    BY <1>1, ConcatProperties
  <1>3. Len(a) \in Nat /\ Len(b) \in Nat /\ Len(c) \in Nat
    BY LenProperties
  <1> QED
    BY <1>1, <1>2, <1>3

\* A sequence without its first n.
LEMMA AfterIs ==
    ASSUME NEW S, NEW s \in Seq(S), NEW n \in 0..Len(s)
    PROVE  /\ After(s, n) \in Seq(S) /\ Len(After(s, n)) = Len(s) - n
           /\ Len(s) \in Nat
           /\ \A i \in 1..(Len(s) - n) : After(s, n)[i] = s[i + n]
  <1>1. Len(s) \in Nat /\ \A i \in 1..Len(s) : s[i] \in S
    BY LenProperties, ElementOfSeq
  <1>2. n + 1 \in Int /\ Len(s) \in Int /\ \A i \in (n + 1)..Len(s) : s[i] \in S
    BY <1>1
  <1>3. /\ SubSeq(s, n + 1, Len(s)) \in Seq(S)
        /\ Len(SubSeq(s, n + 1, Len(s))) = IF n + 1 <= Len(s) THEN Len(s) - (n + 1) + 1 ELSE 0
        /\ \A i \in 1..(Len(s) - (n + 1) + 1) : SubSeq(s, n + 1, Len(s))[i] = s[(n + 1) + i - 1]
    BY <1>2, SubSeqProperties
  <1>4. Len(After(s, n)) = Len(s) - n
    BY <1>1, <1>3 DEF After
  <1>5. \A i \in 1..(Len(s) - n) : After(s, n)[i] = s[i + n]
    BY <1>1, <1>3 DEF After
  <1> QED
    BY <1>1, <1>3, <1>4, <1>5 DEF After

\* The first n of a sequence without the very first.
LEMMA InnerIs ==
    ASSUME NEW S, NEW s \in Seq(S), NEW n \in 1..Len(s)
    PROVE  /\ SubSeq(s, 2, n) \in Seq(S) /\ Len(SubSeq(s, 2, n)) = n - 1
           /\ \A i \in 1..(n - 1) : SubSeq(s, 2, n)[i] = s[i + 1]
  <1>1. Len(s) \in Nat /\ \A i \in 1..Len(s) : s[i] \in S
    BY LenProperties, ElementOfSeq
  <1>2. 2 \in Int /\ n \in Int /\ \A i \in 2..n : s[i] \in S
    BY <1>1
  <1>3. /\ SubSeq(s, 2, n) \in Seq(S)
        /\ Len(SubSeq(s, 2, n)) = IF 2 <= n THEN n - 2 + 1 ELSE 0
        /\ \A i \in 1..(n - 2 + 1) : SubSeq(s, 2, n)[i] = s[2 + i - 1]
    BY <1>2, SubSeqProperties
  <1> QED
    BY <1>1, <1>3

\* A sequence without its first.
LEMMA TailIs ==
    ASSUME NEW S, NEW s \in Seq(S), s # <<>>
    PROVE  /\ Tail(s) \in Seq(S) /\ Len(Tail(s)) = Len(s) - 1 /\ Len(s) \in Nat \ {0}
           /\ Head(s) = s[1] /\ s[1] \in S
           /\ \A i \in 1..(Len(s) - 1) : Tail(s)[i] = s[i + 1]
  BY HeadTailProperties, EmptySeq, ElementOfSeq, LenProperties

\* The sizes of what a put sends are numbers.
LEMMA SizesAre ==
    ASSUME NEW p \in Puts
    PROVE  /\ DataLen[p] \in Nat /\ RsrcLen[p] \in Nat /\ Size(p) \in Nat /\ Size(p) >= 2
           /\ p \in Op /\ \A j \in 1..Size(p) : UnitOf(p, j) \in Unit
  <1>1. DataLen[p] \in Nat /\ RsrcLen[p] \in Nat /\ p \in Op
    BY TransferAssumption DEF Op
  <1>2. \A j \in 1..Size(p) : UnitOf(p, j) \in Unit
    BY <1>1 DEF UnitOf, Unit
  <1> QED
    BY <1>1, <1>2 DEF Size

\* Only the first unit of a put is a header.
LEMMA UnitsAre ==
    ASSUME NEW p, NEW j \in Nat
    PROVE  UnitOf(p, j).op = p /\ (UnitOf(p, j).part = "head" <=> j = 1)
  BY DEF UnitOf

\* A fork is so many equal units.
LEMMA TimesIs ==
    ASSUME NEW S, NEW n \in Nat, NEW u \in S
    PROVE  Times(n, u) \in Seq(S) /\ Len(Times(n, u)) = n /\ \A i \in 1..n : Times(n, u)[i] = u
  <1>1. Times(n, u) \in [1..n -> S]
    BY DEF Times
  <1>2. Times(n, u) \in Seq(S)
    BY <1>1, SeqDef
  <1>3. DOMAIN Times(n, u) = 1..n /\ DOMAIN Times(n, u) = 1..Len(Times(n, u))
        /\ Len(Times(n, u)) \in Nat
    BY <1>1, <1>2, LenProperties
  <1>4. Len(Times(n, u)) = n
    BY <1>3
  <1> QED
    BY <1>2, <1>4 DEF Times

\* The units of a request.
LEMMA RequestIs ==
    ASSUME NEW p \in Op
    PROVE  /\ Request(p) \in Seq(Unit)
           /\ p \in Puts => /\ Len(Request(p)) = Size(p)
                            /\ \A j \in 1..Size(p) : Request(p)[j] = UnitOf(p, j)
           /\ p \notin Puts => Request(p) = <<[op |-> p, part |-> "get"]>>
  <1>1. CASE p \in Gets
    <2>1. Request(p) = <<[op |-> p, part |-> "get"]>> /\ p \notin Puts
      BY <1>1, TransferAssumption DEF Request
    <2>2. [op |-> p, part |-> "get"] \in Unit
      BY DEF Unit
    <2> QED
      BY <2>1, <2>2
  <1>2. CASE p \in Puts
    <2> DEFINE a == <<[op |-> p, part |-> "head"], [op |-> p, part |-> "path"]>>
    <2> DEFINE d == [op |-> p, part |-> "data"]
    <2> DEFINE r == [op |-> p, part |-> "rsrc"]
    <2> DEFINE b == Times(DataLen[p], d)
    <2> DEFINE c == Times(RsrcLen[p], r)
    <2>1. DataLen[p] \in Nat /\ RsrcLen[p] \in Nat
      BY <1>2, SizesAre
    <2>2. /\ [op |-> p, part |-> "head"] \in Unit /\ [op |-> p, part |-> "path"] \in Unit
          /\ [op |-> p, part |-> "data"] \in Unit /\ [op |-> p, part |-> "rsrc"] \in Unit
      BY DEF Unit
    <2>3. a \in Seq(Unit) /\ Len(a) = 2
      BY <2>2
    <2>4. b \in Seq(Unit) /\ Len(b) = DataLen[p] /\ \A i \in 1..DataLen[p] : b[i] = d
      <3> HIDE DEF d
      <3>1. d \in Unit
        BY <2>2 DEF d
      <3> QED
        BY <2>1, <3>1, TimesIs
    <2>5. c \in Seq(Unit) /\ Len(c) = RsrcLen[p] /\ \A i \in 1..RsrcLen[p] : c[i] = r
      <3> HIDE DEF r
      <3>1. r \in Unit
        BY <2>2 DEF r
      <3> QED
        BY <2>1, <3>1, TimesIs
    <2>6. Request(p) = a \o b \o c
      <3>1. p \notin Gets
        BY <1>2, TransferAssumption
      <3> QED
        BY <3>1, Zenon DEF Request
    <2>7. a[1] = [op |-> p, part |-> "head"] /\ a[2] = [op |-> p, part |-> "path"]
      <3>1. \A x, y : <<x, y>>[1] = x /\ <<x, y>>[2] = y
        OBVIOUS
      <3> QED
        BY <3>1, Zenon
    <2> HIDE DEF a, b, c
    <2> DEFINE row == a \o b \o c
    <2>8. /\ row \in Seq(Unit) /\ Len(row) = Len(a) + Len(b) + Len(c)
          /\ \A i \in 1..(Len(a) + Len(b) + Len(c)) :
                row[i] = IF i <= Len(a) THEN a[i]
                         ELSE IF i <= Len(a) + Len(b) THEN b[i - Len(a)]
                         ELSE c[i - Len(a) - Len(b)]
      <3>1. a \in Seq(Unit) /\ b \in Seq(Unit) /\ c \in Seq(Unit)
        BY <2>3, <2>4, <2>5
      <3> QED
        BY <3>1, RowIs
    <2> HIDE DEF row
    <2>9. /\ row \in Seq(Unit) /\ Len(row) = Size(p)
          /\ \A i \in 1..Size(p) : row[i] = IF i <= 2 THEN a[i]
                                            ELSE IF i <= 2 + DataLen[p] THEN b[i - 2]
                                            ELSE c[i - 2 - DataLen[p]]
      BY <2>1, <2>3, <2>4, <2>5, <2>8 DEF Size
    <2>10. \A j \in 1..Size(p) : row[j] = UnitOf(p, j)
      <3> TAKE j \in 1..Size(p)
      <3>1. CASE j <= 2
        BY <2>1, <2>7, <2>9, <3>1 DEF Size, UnitOf
      <3>2. CASE j > 2 /\ j <= 2 + DataLen[p]
        <4>1. row[j] = b[j - 2] /\ j - 2 \in 1..DataLen[p]
          BY <2>1, <2>9, <3>2 DEF Size
        <4> QED
          BY <2>1, <2>4, <3>2, <4>1 DEF UnitOf
      <3>3. CASE j > 2 + DataLen[p]
        <4>1. row[j] = c[j - 2 - DataLen[p]] /\ j - 2 - DataLen[p] \in 1..RsrcLen[p]
          BY <2>1, <2>9, <3>3 DEF Size
        <4> QED
          BY <2>1, <2>5, <3>3, <4>1 DEF UnitOf
      <3> QED
        BY <2>1, <3>1, <3>2, <3>3 DEF Size
    <2>11. Request(p) = row
      BY <2>6 DEF row
    <2> QED
      BY <1>2, <2>9, <2>10, <2>11
  <1> QED
    BY <1>1, <1>2 DEF Op

-----------------------------------------------------------------------------
(* Files *)

\* A file is deleted, created, given the length of its data fork, or complete.
LEMMA FilesAre ==
    ASSUME NEW p \in Puts
    PROVE  /\ NoFile \in File /\ NoFile.pure
           /\ Empty(p) \in File /\ Holds(Empty(p), p, 0, 0, 0, 0)
           /\ [Empty(p) EXCEPT !.dataEnd = DataLen[p]] \in File
           /\ Holds([Empty(p) EXCEPT !.dataEnd = DataLen[p]], p, DataLen[p], 0, 0, 0)
           /\ \A f \in File : Holds(f, p, DataLen[p], DataLen[p], RsrcLen[p], RsrcLen[p]) =>
                 f = Whole(p)
  <1>0. DataLen[p] \in Nat /\ RsrcLen[p] \in Nat
    BY SizesAre
  <1>1. NoFile \in File /\ Holds(NoFile, NoOp, 0, 0, 0, 0)
    BY DEF NoFile, File, Holds
  <1>2. Empty(p) \in File /\ Holds(Empty(p), p, 0, 0, 0, 0)
    BY <1>1 DEF Empty, File, Holds
  <1>3. [Empty(p) EXCEPT !.dataEnd = DataLen[p]] \in File
    BY <1>0, <1>2 DEF File
  <1>4. Holds([Empty(p) EXCEPT !.dataEnd = DataLen[p]], p, DataLen[p], 0, 0, 0)
    BY <1>0, <1>2 DEF File, Holds
  <1>5. ASSUME NEW f \in File, Holds(f, p, DataLen[p], DataLen[p], RsrcLen[p], RsrcLen[p])
        PROVE  f = Whole(p)
    BY <1>5 DEF File, Holds, Whole
  <1> QED
    BY <1>1, <1>2, <1>3, <1>4, <1>5 DEF Holds

\* A file that gets a unit, or the length of its resource fork.
LEMMA FileChanges ==
    ASSUME NEW f \in File, NEW p, NEW d, NEW e, NEW r, NEW q, Holds(f, p, d, e, r, q),
           NEW k \in Nat
    PROVE  /\ [f EXCEPT !.rsrcEnd = k] \in File
           /\ Holds([f EXCEPT !.rsrcEnd = k], p, d, e, k, q)
           /\ \A b \in BOOLEAN : /\ [f EXCEPT !.data = k, !.pure = b] \in File
                                 /\ [f EXCEPT !.rsrc = k, !.pure = b] \in File
                                 /\ b => /\ Holds([f EXCEPT !.data = k, !.pure = b], p, d, k, r, q)
                                         /\ Holds([f EXCEPT !.rsrc = k, !.pure = b], p, d, e, r, k)
  <1>1. [f EXCEPT !.rsrcEnd = k] \in File
    BY DEF File
  <1>2. Holds([f EXCEPT !.rsrcEnd = k], p, d, e, k, q)
    BY DEF File, Holds
  <1>3. ASSUME NEW b \in BOOLEAN
        PROVE  /\ [f EXCEPT !.data = k, !.pure = b] \in File
               /\ [f EXCEPT !.rsrc = k, !.pure = b] \in File
    BY DEF File
  <1>4. ASSUME NEW b \in BOOLEAN, b
        PROVE  Holds([f EXCEPT !.data = k, !.pure = b], p, d, k, r, q)
    BY <1>4 DEF File, Holds
  <1>5. ASSUME NEW b \in BOOLEAN, b
        PROVE  Holds([f EXCEPT !.rsrc = k, !.pure = b], p, d, e, r, k)
    BY <1>5 DEF File, Holds
  <1> QED
    BY <1>1, <1>2, <1>3, <1>4, <1>5

-----------------------------------------------------------------------------
(* What is ahead *)

\* It is a row of units: those in the daemon's buffer, those on the wire, those to be sent.
LEMMA AheadIs ==
    ASSUME TypeOK
    PROVE  /\ Ahead \in Seq(Unit)
           /\ Len(Ahead) = InHand + OnWire + Unsent
           /\ InHand \in Nat /\ OnWire \in Nat /\ Unsent \in Nat
           /\ \A i \in 1..Len(Ahead) :
                 Ahead[i] = IF i <= InHand THEN guest.pre[i]
                            ELSE IF i <= InHand + OnWire THEN toGuest[i - InHand]
                            ELSE host.left[i - InHand - OnWire]
  <1>1. guest.pre \in Seq(Unit) /\ toGuest \in Seq(Unit) /\ host.left \in Seq(Unit)
    BY DEF TypeOK, GuestState, HostState
  <1> DEFINE a == guest.pre
  <1> DEFINE c == host.left
  <1> HIDE DEF a, c
  <1>2. a \in Seq(Unit) /\ c \in Seq(Unit)
    BY <1>1 DEF a, c
  <1> DEFINE row == a \o toGuest \o c
  <1>3. /\ row \in Seq(Unit) /\ Len(row) = Len(a) + Len(toGuest) + Len(c)
        /\ Len(a) \in Nat /\ Len(toGuest) \in Nat /\ Len(c) \in Nat
        /\ \A i \in 1..(Len(a) + Len(toGuest) + Len(c)) :
              row[i] = IF i <= Len(a) THEN a[i]
                       ELSE IF i <= Len(a) + Len(toGuest) THEN toGuest[i - Len(a)]
                       ELSE c[i - Len(a) - Len(toGuest)]
    BY <1>1, <1>2, RowIs
  <1> HIDE DEF row
  <1>4. Ahead = row
    BY DEF Ahead, row, a, c
  <1> QED
    BY <1>3, <1>4 DEF a, c, InHand, OnWire, Unsent

\* The same of the next state.
LEMMA AheadWillBe ==
    ASSUME TypeOK'
    PROVE  /\ Ahead' \in Seq(Unit)
           /\ Len(Ahead') = InHand' + OnWire' + Unsent'
           /\ InHand' \in Nat /\ OnWire' \in Nat /\ Unsent' \in Nat
           /\ \A i \in 1..Len(Ahead') :
                 Ahead'[i] = IF i <= InHand' THEN guest'.pre[i]
                             ELSE IF i <= InHand' + OnWire' THEN toGuest'[i - InHand']
                             ELSE host'.left[i - InHand' - OnWire']
  <1>1. guest'.pre \in Seq(Unit) /\ toGuest' \in Seq(Unit) /\ host'.left \in Seq(Unit)
    BY DEF TypeOK, GuestState, HostState
  <1> DEFINE a == guest'.pre
  <1> DEFINE b == toGuest'
  <1> DEFINE c == host'.left
  <1> HIDE DEF a, b, c
  <1>2. a \in Seq(Unit) /\ b \in Seq(Unit) /\ c \in Seq(Unit)
    BY <1>1 DEF a, b, c
  <1> DEFINE row == a \o b \o c
  <1>3. /\ row \in Seq(Unit) /\ Len(row) = Len(a) + Len(b) + Len(c)
        /\ Len(a) \in Nat /\ Len(b) \in Nat /\ Len(c) \in Nat
        /\ \A i \in 1..(Len(a) + Len(b) + Len(c)) :
              row[i] = IF i <= Len(a) THEN a[i]
                       ELSE IF i <= Len(a) + Len(b) THEN b[i - Len(a)]
                       ELSE c[i - Len(a) - Len(b)]
    BY <1>2, RowIs
  <1> HIDE DEF row
  <1>4. Ahead' = row
    BY DEF Ahead, row, a, b, c
  <1> QED
    BY <1>3, <1>4 DEF a, b, c, InHand, OnWire, Unsent

\* The lengths are numbers.
LEMMA LensAre ==
    ASSUME TypeOK
    PROVE  /\ Len(Ahead) = InHand + OnWire + Unsent
           /\ InHand \in Nat /\ OnWire \in Nat /\ Unsent \in Nat
           /\ Len(Ahead) \in Nat
  <1>1. /\ Len(Ahead) = InHand + OnWire + Unsent
        /\ InHand \in Nat /\ OnWire \in Nat /\ Unsent \in Nat
    BY AheadIs, Zenon
  <1>2. Len(Ahead) \in Nat
    BY AheadIs, LenProperties, Zenon
  <1> QED
    BY <1>1, <1>2

\* And so they are in the next state.
LEMMA LensWillBe ==
    ASSUME TypeOK'
    PROVE  /\ Len(Ahead') = InHand' + OnWire' + Unsent'
           /\ InHand' \in Nat /\ OnWire' \in Nat /\ Unsent' \in Nat
           /\ Len(Ahead') \in Nat
  <1>1. /\ Len(Ahead') = InHand' + OnWire' + Unsent'
        /\ InHand' \in Nat /\ OnWire' \in Nat /\ Unsent' \in Nat
    BY AheadWillBe, Zenon
  <1>2. Len(Ahead') \in Nat
    BY AheadWillBe, LenProperties, Zenon
  <1> QED
    BY <1>1, <1>2

\* The unit the daemon reads is the first ahead, and in a put it is the one that is due.
LEMMA ReadsRight ==
    ASSUME TypeOK, Reads
    PROVE  /\ Len(Ahead) > 0 /\ Head(Readable) = Ahead[1]
           /\ BodyFollows /\ guest.pc \in Receiving /\ Due \in Nat \ {0} =>
                 Ahead[1] = UnitOf(guest.op, Size(guest.op) - Due + 1)
  <1>1. guest.pre \in Seq(Unit) /\ toGuest \in Seq(Unit) /\ Readable # <<>>
    BY DEF TypeOK, GuestState, Reads
  <1> DEFINE a == guest.pre
  <1> HIDE DEF a
  <1>2. a \in Seq(Unit)
    BY <1>1 DEF a
  <1> DEFINE row == a \o toGuest
  <1>3. /\ row \in Seq(Unit) /\ Len(row) = Len(a) + Len(toGuest)
        /\ Len(a) \in Nat /\ Len(toGuest) \in Nat
        /\ \A i \in 1..(Len(a) + Len(toGuest)) :
              row[i] = IF i <= Len(a) THEN a[i] ELSE toGuest[i - Len(a)]
    BY <1>1, <1>2, ConcatProperties, LenProperties
  <1>4. Readable = row
    BY DEF Readable, row, a
  <1> HIDE DEF row
  <1>5. row # <<>> /\ Head(row) = row[1] /\ Len(row) > 0
    BY <1>1, <1>3, <1>4, TailIs
  <1>6. Head(Readable) = IF 1 <= InHand THEN guest.pre[1] ELSE toGuest[1 - InHand]
    BY <1>3, <1>4, <1>5 DEF a, InHand
  <1>7. InHand + OnWire > 0
    BY <1>3, <1>5 DEF a, InHand, OnWire
  <1>8. Len(Ahead) > 0 /\ Head(Readable) = Ahead[1]
    <2>1. Len(Ahead) \in Nat /\ Len(Ahead) > 0
      BY <1>7, LensAre
    <2>2. 1 \in 1..Len(Ahead)
      BY <2>1
    <2>3. Ahead[1] = IF 1 <= InHand THEN guest.pre[1]
                     ELSE IF 1 <= InHand + OnWire THEN toGuest[1 - InHand]
                     ELSE host.left[1 - InHand - OnWire]
      BY <2>2, AheadIs
    <2> QED
      BY <1>6, <1>7, <2>1, <2>3, LensAre
  <1>9. ASSUME BodyFollows, guest.pc \in Receiving, Due \in Nat \ {0}
        PROVE  Ahead[1] = UnitOf(guest.op, Size(guest.op) - Due + 1)
    <2>1. Continues(1, guest.op, Due)
      BY <1>9 DEF BodyFollows
    <2>2. Len(Ahead) \in Nat /\ 1 \in 1..Due
      BY <1>9, LensAre
    <2>3. \A k \in 1..Due : 1 + k - 1 <= Len(Ahead) =>
             Ahead[1 + k - 1] = UnitOf(guest.op, Size(guest.op) - Due + k)
      BY <2>1 DEF Continues
    <2>4. 1 + 1 - 1 <= Len(Ahead) => Ahead[1 + 1 - 1] = UnitOf(guest.op, Size(guest.op) - Due + 1)
      BY <2>2, <2>3, Zenon
    <2> QED
      BY <1>8, <2>2, <2>4
  <1> QED
    BY <1>8, <1>9

-----------------------------------------------------------------------------
(* What the daemon's reads do *)

\* The daemon goes on with its put, one unit further.
Stays ==
    /\ guest' \in GuestState /\ guest'.pc \in Receiving
    /\ guest'.op = guest.op /\ guest'.pre = PreAfter
    /\ guest'.pc = "data" => guest'.left \in 1..DataLen[guest.op]
    /\ guest'.pc = "rsrc" => guest'.left \in 1..RsrcLen[guest.op]
    /\ guest'.pc = "drain" => guest'.left \in 1..(DataLen[guest.op] + RsrcLen[guest.op])
    /\ Due' = Due - 1
    /\ UNCHANGED <<toHost, slip>>

\* Or it answers: having read the last unit, or knowing what it leaves unread.
Ends ==
    \E status \in {"written", "failed"} :
        /\ Replies(guest.op, status)
        /\ status = "written" => disk' = Whole(guest.op)
        /\ \/ Due = 1 /\ slip' = slip
           \/ status = "failed" /\ Strays(Due - 1 > Len(PreAfter))

\* A program at rest has its type.
LEMMA RestFits ==
    /\ HostIdle \in HostState /\ GuestIdle \in GuestState
    /\ HostIdle.pc = "idle" /\ HostIdle.left = <<>> /\ HostIdle.op = NoOp /\ HostIdle.own
    /\ GuestIdle.pc = "ready" /\ GuestIdle.pre = <<>> /\ GuestIdle.op = NoOp /\ GuestIdle.left = 0
  <1>1. <<>> \in Seq(Unit)
    BY EmptySeq
  <1>2. HostIdle \in HostState
    BY <1>1 DEF HostIdle, HostState
  <1>3. GuestIdle \in GuestState
    BY <1>1 DEF GuestIdle, GuestState
  <1> QED
    BY <1>2, <1>3 DEF HostIdle, GuestIdle

\* What has been read of the request buffer is a sequence of units.
LEMMA PreAfterIs ==
    ASSUME TypeOK
    PROVE  PreAfter \in Seq(Unit) /\ guest.pre \in Seq(Unit) /\ guest.left \in Nat
           /\ guest.op \in Op \union {NoOp}
  <1>1. guest.pre \in Seq(Unit) /\ guest.left \in Nat /\ guest.op \in Op \union {NoOp}
    BY DEF TypeOK, GuestState
  <1>2. PreAfter \in Seq(Unit)
    BY <1>1, TailIs, EmptySeq DEF PreAfter
  <1> QED
    BY <1>1, <1>2

\* What is due at each stage.
LEMMA DueIs ==
    /\ guest.pc = "path" => Due = 1 + DataLen[guest.op] + RsrcLen[guest.op]
    /\ guest.pc = "data" => Due = guest.left + RsrcLen[guest.op]
    /\ guest.pc \in {"rsrc", "drain"} => Due = guest.left
    /\ guest.pc \notin Receiving => Due = 0
  BY DEF Due, Receiving

\* A file in which nothing is being written need only be pure.
LEMMA RestGrows ==
    ASSUME guest' = GuestIdle \/ guest'.pc \in {"path", "drain", "sending"}, disk'.pure
    PROVE  FileGrows'
  BY RestFits DEF FileGrows

\* After the data fork comes the resource fork, or the reply.
LEMMA AfterDataIs ==
    ASSUME TypeOK, guest.pc \in Receiving, guest.op \in Puts, NEW file \in File,
           Holds(file, guest.op, DataLen[guest.op], DataLen[guest.op], 0, 0),
           AfterData(guest.op, PreAfter, file), Due = 1 + RsrcLen[guest.op]
    PROVE  (Stays \/ Ends) /\ disk' \in File /\ FileGrows'
  <1>0. /\ RsrcLen[guest.op] \in Nat /\ guest.op \in Op /\ PreAfter \in Seq(Unit)
        /\ file.pure
    BY SizesAre, PreAfterIs DEF Holds
  <1>1. CASE RsrcLen[guest.op] = 0
    <2>1. disk' = file /\ Replies(guest.op, "written") /\ slip' = slip
      BY <1>1 DEF AfterData
    <2>2. Holds(file, guest.op, DataLen[guest.op], DataLen[guest.op], RsrcLen[guest.op],
                RsrcLen[guest.op])
      BY <1>1
    <2>3. disk' = Whole(guest.op)
      BY <2>1, <2>2, FilesAre
    <2>4. Ends
      BY <1>0, <1>1, <2>1, <2>3 DEF Ends
    <2>5. FileGrows'
      BY <1>0, <2>1, RestGrows DEF Replies
    <2> QED
      BY <2>1, <2>4, <2>5
  <1>2. CASE RsrcLen[guest.op] > 0
    <2>1. CASE /\ disk' = [file EXCEPT !.rsrcEnd = RsrcLen[guest.op]]
               /\ guest' = [pc |-> "rsrc", op |-> guest.op, pre |-> PreAfter,
                            left |-> RsrcLen[guest.op]]
               /\ UNCHANGED <<toHost, slip>>
      <3>1. guest' \in GuestState
        BY <1>0, <2>1 DEF GuestState
      <3>2. /\ guest'.pc = "rsrc" /\ guest'.op = guest.op /\ guest'.pre = PreAfter
            /\ guest'.left = RsrcLen[guest.op]
        BY <2>1
      <3>3. Due' = RsrcLen[guest.op]
        BY <3>2 DEF Due
      <3>4. Stays
        BY <1>0, <1>2, <2>1, <3>1, <3>2, <3>3 DEF Stays, Receiving
      <3>5. /\ disk' \in File
            /\ Holds(disk', guest.op, DataLen[guest.op], DataLen[guest.op], RsrcLen[guest.op], 0)
        BY <1>0, <2>1, FileChanges
      <3>6. disk'.pure /\ RsrcLen[guest.op] - RsrcLen[guest.op] = 0
        BY <1>0, <3>5 DEF Holds
      <3>7. FileGrows'
        BY <3>2, <3>5, <3>6 DEF FileGrows
      <3> QED
        BY <3>4, <3>5, <3>7
    <2>2. CASE disk' = file /\ OpenFails(guest.op, PreAfter, RsrcLen[guest.op])
      <3>1. Due - 1 = RsrcLen[guest.op]
        BY <1>0
      <3>2. Ends
        BY <2>2, <3>1 DEF OpenFails, Ends
      <3>3. FileGrows'
        BY <1>0, <2>2, RestGrows DEF OpenFails, Replies
      <3> QED
        BY <2>2, <3>2, <3>3
    <2> QED
      BY <1>2, <2>1, <2>2 DEF AfterData
  <1> QED
    BY <1>0, <1>1, <1>2

\* Whatever the stage, a unit is read and the daemon goes on or answers.
LEMMA ReadIs ==
    ASSUME TypeOK, GuestAgrees, FileGrows, BodyFollows, GuestReads
    PROVE  /\ Reads /\ guest.pc \in Receiving /\ guest.op \in Puts
           /\ Due \in Nat \ {0}
           /\ Stays \/ Ends
           /\ disk' \in File /\ FileGrows'
           /\ UNCHANGED <<hostUp, guestUp, host, told>>
  <1> DEFINE p == guest.op
  <1>0. /\ Reads /\ guest.pc \in Receiving /\ p \in Puts
        /\ UNCHANGED <<hostUp, guestUp, host, told>>
    BY DEF GuestReads, GuestReadsPath, GuestReadsData, GuestReadsRsrc, GuestDrains, Receiving,
           GuestAgrees
  <1>1. /\ DataLen[p] \in Nat /\ RsrcLen[p] \in Nat /\ p \in Op
        /\ PreAfter \in Seq(Unit) /\ guest \in GuestState /\ guest.left \in Nat
        /\ disk \in File /\ disk.pure
    BY <1>0, SizesAre, PreAfterIs DEF TypeOK, FileGrows
  <1>a. Due \in Nat \ {0}
    BY <1>0, <1>1, DueIs DEF Receiving, GuestAgrees
  <1>b. Head(Readable) = UnitOf(p, Size(p) - Due + 1)
    BY <1>0, <1>a, ReadsRight
  <1>2. ASSUME GuestReadsPath
        PROVE  (Stays \/ Ends) /\ disk' \in File /\ FileGrows'
    <2> DEFINE sized == [Empty(p) EXCEPT !.dataEnd = DataLen[p]]
    <2>0. /\ NoFile \in File /\ NoFile.pure /\ Empty(p) \in File /\ Empty(p).pure
          /\ sized \in File /\ Holds(sized, p, DataLen[p], 0, 0, 0)
      BY <1>0, FilesAre DEF Holds
    <2> HIDE DEF sized
    <2>1. Due = 1 + DataLen[p] + RsrcLen[p]
      BY <1>2, DueIs DEF GuestReadsPath
    <2>2. CASE CreationFails(p, PreAfter)
      <3>0. disk' = NoFile
        BY <2>2 DEF CreationFails
      <3>1. CASE DataLen[p] + RsrcLen[p] = 0
        <4>1. Replies(p, "failed") /\ slip' = slip
          BY <2>2, <3>1 DEF CreationFails
        <4>2. Ends
          BY <1>1, <2>1, <3>1, <4>1 DEF Ends
        <4>3. FileGrows'
          BY <2>0, <3>0, <4>1, RestGrows DEF Replies
        <4> QED
          BY <2>0, <3>0, <4>2, <4>3
      <3>2. CASE DataLen[p] + RsrcLen[p] # 0
        <4>1. /\ guest' = [pc |-> "drain", op |-> p, pre |-> PreAfter,
                           left |-> DataLen[p] + RsrcLen[p]]
              /\ UNCHANGED <<toHost, slip>>
          BY <2>2, <3>2 DEF CreationFails
        <4>2. guest' \in GuestState
          BY <1>1, <4>1 DEF GuestState
        <4>3. /\ guest'.pc = "drain" /\ guest'.op = p /\ guest'.pre = PreAfter
              /\ guest'.left = DataLen[p] + RsrcLen[p]
          BY <4>1
        <4>4. Due' = DataLen[p] + RsrcLen[p]
          BY <4>3 DEF Due
        <4>5. Stays
          BY <1>1, <2>1, <3>2, <4>1, <4>2, <4>3, <4>4, SMTT(30) DEF Stays, Receiving
        <4>6. FileGrows'
          BY <2>0, <3>0, <4>3, RestGrows
        <4> QED
          BY <2>0, <3>0, <4>5, <4>6
      <3> QED
        BY <3>1, <3>2
    <2>3. CASE disk' = Empty(p) /\ OpenFails(p, PreAfter, DataLen[p] + RsrcLen[p])
      <3>1. Due - 1 = DataLen[p] + RsrcLen[p]
        BY <1>1, <2>1
      <3>2. Ends
        BY <2>3, <3>1 DEF OpenFails, Ends
      <3>3. FileGrows'
        BY <2>0, <2>3, RestGrows DEF OpenFails, Replies
      <3> QED
        BY <2>0, <2>3, <3>2, <3>3
    <2>4. CASE DataLen[p] = 0 /\ AfterData(p, PreAfter, sized)
      <3>1. Due = 1 + RsrcLen[p] /\ Holds(sized, p, DataLen[p], DataLen[p], 0, 0)
        BY <1>1, <2>0, <2>1, <2>4
      <3> QED
        BY <1>0, <2>0, <2>4, <3>1, AfterDataIs
    <2>5. CASE /\ DataLen[p] > 0
               /\ disk' = sized
               /\ guest' = [pc |-> "data", op |-> p, pre |-> PreAfter, left |-> DataLen[p]]
               /\ UNCHANGED <<toHost, slip>>
      <3>1. guest' \in GuestState
        BY <1>1, <2>5 DEF GuestState
      <3>2. /\ guest'.pc = "data" /\ guest'.op = p /\ guest'.pre = PreAfter
            /\ guest'.left = DataLen[p]
        BY <2>5
      <3>3. Due' = DataLen[p] + RsrcLen[p]
        BY <3>2 DEF Due
      <3>4. Stays
        BY <1>1, <2>1, <2>5, <3>1, <3>2, <3>3, SMTT(30) DEF Stays, Receiving
      <3>5. disk'.pure /\ DataLen[p] - DataLen[p] = 0 /\ Holds(disk', p, DataLen[p], 0, 0, 0)
        BY <1>1, <2>0, <2>5 DEF Holds
      <3>6. FileGrows'
        BY <3>2, <3>5 DEF FileGrows
      <3> QED
        BY <2>0, <2>5, <3>4, <3>6
    <2>6. \/ CreationFails(p, PreAfter)
          \/ disk' = Empty(p) /\ OpenFails(p, PreAfter, DataLen[p] + RsrcLen[p])
          \/ DataLen[p] = 0 /\ AfterData(p, PreAfter, sized)
          \/ /\ DataLen[p] > 0
             /\ disk' = sized
             /\ guest' = [pc |-> "data", op |-> p, pre |-> PreAfter, left |-> DataLen[p]]
             /\ UNCHANGED <<toHost, slip>>
      BY <1>2 DEF GuestReadsPath, sized
    <2> QED
      BY <2>2, <2>3, <2>4, <2>5, <2>6
  <1>3. ASSUME guest.pc \in {"data", "rsrc", "drain"}, guest.left # 1,
               guest' = [guest EXCEPT !.pre = PreAfter, !.left = @ - 1],
               UNCHANGED <<toHost, slip>>
        PROVE  Stays /\ guest'.pc = guest.pc /\ guest'.op = p /\ guest'.left = guest.left - 1
    <2>0. guest.left > 1
      BY <1>1, <1>3 DEF GuestAgrees
    <2>1. /\ guest'.pc = guest.pc /\ guest'.op = guest.op /\ guest'.pre = PreAfter
          /\ guest'.left = guest.left - 1 /\ guest' \in GuestState
      <3>1. guest.left - 1 \in Nat
        BY <1>1, <2>0
      <3> DEFINE k == guest.left - 1
      <3> HIDE DEF k
      <3>2. guest' = [guest EXCEPT !.pre = PreAfter, !.left = k]
        BY <1>3 DEF k
      <3>3. /\ guest'.pc = guest.pc /\ guest'.op = guest.op /\ guest'.pre = PreAfter
            /\ guest'.left = k
        BY <1>1, <3>2 DEF GuestState
      <3>4. k \in Nat
        BY <3>1 DEF k
      <3>5. guest' \in GuestState
        BY <1>1, <3>2, <3>4 DEF GuestState
      <3> QED
        BY <3>3, <3>5 DEF k
    <2>2. Due' = Due - 1
      BY <1>1, <1>3, <2>0, <2>1 DEF Due
    <2>3. Stays
      BY <1>0, <1>1, <1>3, <2>0, <2>1, <2>2, SMTT(30) DEF Stays, GuestAgrees
    <2> QED
      BY <2>1, <2>3
  <1>4. ASSUME GuestReadsData
        PROVE  (Stays \/ Ends) /\ disk' \in File /\ FileGrows'
    <2>1. Due = guest.left + RsrcLen[p] /\ guest.left \in 1..DataLen[p] /\ guest.pc = "data"
      BY <1>1, <1>4, DueIs DEF GuestReadsData, GuestAgrees
    <2>2. Head(Readable) = Read("data")
      <3>1. /\ Size(p) - Due + 1 = 3 + DataLen[p] - guest.left
            /\ 3 + DataLen[p] - guest.left > 2 /\ 3 + DataLen[p] - guest.left <= 2 + DataLen[p]
        BY <1>1, <2>1, SMTT(30) DEF Size
      <3> DEFINE j == 3 + DataLen[p] - guest.left
      <3>2. j \in Int /\ j > 2 /\ j <= 2 + DataLen[p] /\ Head(Readable) = UnitOf(p, j)
        BY <1>1, <1>b, <3>1
      <3> HIDE DEF j
      <3> QED
        BY <3>2 DEF UnitOf, Read
    <2> DEFINE k == DataLen[p] - guest.left + 1
    <2> DEFINE b == (disk.pure /\ Head(Readable) = Read("data"))
    <2> DEFINE file == [disk EXCEPT !.data = k, !.pure = b]
    <2>3. b \in BOOLEAN /\ b /\ k \in Nat
      BY <1>1, <2>1, <2>2
    <2>4. Holds(disk, p, DataLen[p], DataLen[p] - guest.left, 0, 0)
      BY <2>1 DEF FileGrows
    <2>5. [disk EXCEPT !.data = @ + 1, !.pure = @ /\ Head(Readable) = Read("data")] = file
      <3>1. disk.data + 1 = k
        BY <2>4 DEF Holds
      <3>2. [disk EXCEPT !.data = @ + 1, !.pure = @ /\ Head(Readable) = Read("data")]
               = [disk EXCEPT !.data = disk.data + 1,
                              !.pure = (disk.pure /\ Head(Readable) = Read("data"))]
        BY Zenon
      <3> QED
        BY <3>1, <3>2, Zenon
    <2> HIDE DEF k, b
    <2>6. file \in File /\ Holds(file, p, DataLen[p], k, 0, 0)
      BY <1>1, <2>3, <2>4, FileChanges
    <2> HIDE DEF file
    <2>7. IF guest.left = 1 THEN AfterData(p, PreAfter, file)
          ELSE /\ disk' = file
               /\ guest' = [guest EXCEPT !.pre = PreAfter, !.left = @ - 1]
               /\ UNCHANGED <<toHost, slip>>
      BY <1>4, <2>5 DEF GuestReadsData
    <2>8. CASE guest.left = 1
      <3>1. Due = 1 + RsrcLen[p] /\ k = DataLen[p]
        BY <1>1, <2>1, <2>8 DEF k
      <3> QED
        BY <1>0, <2>6, <2>7, <2>8, <3>1, AfterDataIs
    <2>9. CASE guest.left # 1
      <3>1. Stays /\ guest'.pc = "data" /\ guest'.op = p /\ guest'.left = guest.left - 1
        BY <1>3, <2>1, <2>7, <2>9
      <3>2. disk' = file /\ disk'.pure /\ k = DataLen[p] - guest'.left
        BY <1>1, <2>1, <2>6, <2>7, <2>9, <3>1 DEF k, Holds
      <3>3. FileGrows'
        BY <2>6, <3>1, <3>2 DEF FileGrows
      <3> QED
        BY <2>6, <3>1, <3>2, <3>3
    <2> QED
      BY <2>8, <2>9
  <1>5. ASSUME GuestReadsRsrc
        PROVE  (Stays \/ Ends) /\ disk' \in File /\ FileGrows'
    <2>1. Due = guest.left /\ guest.left \in 1..RsrcLen[p] /\ guest.pc = "rsrc"
      BY <1>1, <1>5, DueIs DEF GuestReadsRsrc, GuestAgrees
    <2>2. Head(Readable) = Read("rsrc")
      <3>1. /\ Size(p) - Due + 1 = 3 + DataLen[p] + RsrcLen[p] - guest.left
            /\ 3 + DataLen[p] + RsrcLen[p] - guest.left > 2 + DataLen[p]
        <4> DEFINE d == DataLen[p]
        <4> DEFINE r == RsrcLen[p]
        <4> DEFINE g == guest.left
        <4>1. d \in Nat /\ r \in Nat /\ g \in Nat /\ g <= r /\ Due = g /\ Size(p) = 2 + d + r
          BY <1>1, <2>1 DEF Size
        <4> HIDE DEF d, r, g
        <4>2. Size(p) - Due + 1 = 3 + d + r - g /\ 3 + d + r - g > 2 + d
          BY <4>1
        <4> QED
          BY <4>2 DEF d, r, g
      <3> DEFINE j == 3 + DataLen[p] + RsrcLen[p] - guest.left
      <3>2. j \in Int /\ j > 2 + DataLen[p] /\ Head(Readable) = UnitOf(p, j)
        BY <1>1, <1>b, <3>1
      <3> HIDE DEF j
      <3> QED
        BY <1>1, <3>2 DEF UnitOf, Read
    <2> DEFINE k == RsrcLen[p] - guest.left + 1
    <2> DEFINE b == (disk.pure /\ Head(Readable) = Read("rsrc"))
    <2> DEFINE file == [disk EXCEPT !.rsrc = k, !.pure = b]
    <2>3. b \in BOOLEAN /\ b /\ k \in Nat
      BY <1>1, <2>1, <2>2
    <2>4. Holds(disk, p, DataLen[p], DataLen[p], RsrcLen[p], RsrcLen[p] - guest.left)
      BY <2>1 DEF FileGrows
    <2>5. [disk EXCEPT !.rsrc = @ + 1, !.pure = @ /\ Head(Readable) = Read("rsrc")] = file
      <3>1. disk.rsrc + 1 = k
        BY <2>4 DEF Holds
      <3>2. [disk EXCEPT !.rsrc = @ + 1, !.pure = @ /\ Head(Readable) = Read("rsrc")]
               = [disk EXCEPT !.rsrc = disk.rsrc + 1,
                              !.pure = (disk.pure /\ Head(Readable) = Read("rsrc"))]
        BY Zenon
      <3> QED
        BY <3>1, <3>2, Zenon
    <2> HIDE DEF k, b
    <2>6. file \in File /\ Holds(file, p, DataLen[p], DataLen[p], RsrcLen[p], k)
      BY <1>1, <2>3, <2>4, FileChanges
    <2> HIDE DEF file
    <2>7. /\ disk' = file /\ slip' = slip
          /\ IF guest.left = 1 THEN Replies(p, "written")
             ELSE guest' = [guest EXCEPT !.pre = PreAfter, !.left = @ - 1] /\ UNCHANGED toHost
      BY <1>5, <2>5 DEF GuestReadsRsrc
    <2>8. CASE guest.left = 1
      <3>1. Due = 1 /\ k = RsrcLen[p] /\ Replies(p, "written")
        BY <1>1, <2>1, <2>7, <2>8 DEF k
      <3>2. disk' = Whole(p)
        BY <1>0, <2>6, <2>7, <3>1, FilesAre
      <3>3. Ends
        BY <2>7, <3>1, <3>2 DEF Ends
      <3>4. FileGrows'
        BY <2>6, <2>7, <3>1, RestGrows DEF Replies, Holds
      <3> QED
        BY <2>6, <2>7, <3>3, <3>4
    <2>9. CASE guest.left # 1
      <3>1. Stays /\ guest'.pc = "rsrc" /\ guest'.op = p /\ guest'.left = guest.left - 1
        BY <1>3, <2>1, <2>7, <2>9
      <3>2. disk' = file /\ disk'.pure /\ k = RsrcLen[p] - guest'.left
        BY <1>1, <2>1, <2>6, <2>7, <2>9, <3>1 DEF k, Holds
      <3>3. FileGrows'
        BY <2>6, <3>1, <3>2 DEF FileGrows
      <3> QED
        BY <2>6, <3>1, <3>2, <3>3
    <2> QED
      BY <2>8, <2>9
  <1>6. ASSUME GuestDrains
        PROVE  (Stays \/ Ends) /\ disk' \in File /\ FileGrows'
    <2>1. Due = guest.left /\ guest.left > 0 /\ guest.pc = "drain" /\ disk' = disk
      BY <1>1, <1>6, DueIs DEF GuestDrains, GuestAgrees
    <2>2. CASE guest.left = 1
      <3>1. Replies(p, "failed") /\ slip' = slip
        BY <1>6, <2>2 DEF GuestDrains
      <3>2. Ends
        BY <2>1, <2>2, <3>1 DEF Ends
      <3>3. FileGrows'
        BY <1>1, <2>1, <3>1, RestGrows DEF Replies
      <3> QED
        BY <1>1, <2>1, <3>2, <3>3
    <2>3. CASE guest.left # 1
      <3>1. guest' = [guest EXCEPT !.pre = PreAfter, !.left = @ - 1] /\ UNCHANGED <<toHost, slip>>
        BY <1>6, <2>3 DEF GuestDrains
      <3>2. Stays /\ guest'.pc = "drain"
        BY <1>3, <2>1, <2>3, <3>1
      <3>3. FileGrows'
        BY <1>1, <2>1, <3>2, RestGrows
      <3> QED
        BY <1>1, <2>1, <3>2, <3>3
    <2> QED
      BY <2>2, <2>3
  <1>7. (Stays \/ Ends) /\ disk' \in File /\ FileGrows'
    BY <1>2, <1>4, <1>5, <1>6 DEF GuestReads
  <1> QED
    BY <1>0, <1>a, <1>7

\* A chunk is taken for a request: the header of a put, with what else came in it.
TakesPut(n) ==
    /\ toGuest[1].part = "head"
    /\ guest' = [pc |-> "path", op |-> toGuest[1].op, pre |-> SubSeq(toGuest, 2, n), left |-> 0]
    /\ UNCHANGED <<toHost, slip>>

\* Or one that is refused, and the rest of the chunk goes with it.
Refuses(n) ==
    /\ Replies(toGuest[1].op, "failed")
    /\ \/ toGuest[1].part = "head" /\ Strays(BodyIsDue(toGuest[1].op, After(toGuest, n)))
       \/ toGuest[1].part # "head" /\ slip' = slip

\* Or a get of a file that is there.
TakesGet ==
    LET len == disk.dataEnd + disk.rsrcEnd IN
    /\ toGuest[1].part = "get"
    /\ toHost' = IF hostUp THEN Append(toHost, [op |-> toGuest[1].op, part |-> "file", len |-> len])
                 ELSE toHost
    /\ guest' = IF len = 0 THEN GuestIdle
                ELSE [pc |-> "sending", op |-> toGuest[1].op, pre |-> <<>>, left |-> len]
    /\ slip' = slip

\* There is no other request.
LEMMA TakesIs ==
    ASSUME TypeOK, GuestAgrees, GuestTakesRequest
    PROVE  /\ guest = GuestIdle /\ guestUp /\ toGuest # <<>> /\ toGuest[1] \in Unit
           /\ UNCHANGED <<hostUp, guestUp, host, disk, told>>
           /\ \E n \in 1..Len(toGuest) :
                 toGuest' = After(toGuest, n) /\ (TakesPut(n) \/ Refuses(n) \/ TakesGet)
  <1>1. /\ guest = GuestIdle /\ guestUp /\ toGuest # <<>>
        /\ UNCHANGED <<hostUp, guestUp, host, disk, told>>
    BY DEF GuestTakesRequest, GuestAgrees
  <1>2. Head(toGuest) = toGuest[1] /\ toGuest[1] \in Unit
    BY <1>1, TailIs DEF TypeOK
  <1>3. PICK n \in Prefixes(toGuest) :
          /\ toGuest' = After(toGuest, n)
          /\ LET u   == toGuest[1]
                 pre == SubSeq(toGuest, 2, n)
             IN CASE u.part = "head" ->
                       \/ /\ guest' = [pc |-> "path", op |-> u.op, pre |-> pre, left |-> 0]
                          /\ UNCHANGED <<toHost, slip>>
                       \/ /\ Failures \intersect EarlyFailures # {}
                          /\ Replies(u.op, "failed")
                          /\ Strays(BodyIsDue(u.op, After(toGuest, n)))
                  [] u.part = "get" ->
                       /\ IF disk.of = NoOp
                          THEN Replies(u.op, "failed")
                          ELSE LET len == disk.dataEnd + disk.rsrcEnd IN
                               /\ toHost' = IF hostUp
                                            THEN Append(toHost, [op |-> u.op, part |-> "file", len |-> len])
                                            ELSE toHost
                               /\ guest' = IF len = 0 THEN GuestIdle
                                           ELSE [pc |-> "sending", op |-> u.op, pre |-> <<>>, left |-> len]
                       /\ UNCHANGED slip
                  [] OTHER -> Replies(u.op, "failed") /\ UNCHANGED slip
    BY <1>2 DEF GuestTakesRequest
  <1>4. TakesPut(n) \/ Refuses(n) \/ TakesGet
    <2>1. CASE toGuest[1].part = "head"
      BY <1>3, <2>1 DEF TakesPut, Refuses
    <2>2. CASE toGuest[1].part = "get"
      BY <1>3, <2>2 DEF Refuses, TakesGet
    <2>3. CASE toGuest[1].part \notin {"head", "get"}
      BY <1>3, <2>3 DEF Refuses
    <2> QED
      BY <2>1, <2>2, <2>3
  <1> QED
    BY <1>1, <1>2, <1>3, <1>4 DEF Prefixes

-----------------------------------------------------------------------------
(* What the host's reads do *)

\* The host takes one frame and waits for the next.
HostKeeps ==
    /\ toHost' = Tail(toHost) /\ told' = told
    /\ host' \in HostState /\ host'.op = host.op /\ host'.left = host.left
    /\ host'.own = FirstIsOwn
    /\ \/ /\ host.op \in Puts /\ host.pc = "waiting" /\ host'.pc = "waiting"
          /\ toHost[1].part \notin {"written", "failed"}
       \/ /\ host.op \in Gets /\ host.pc = "waiting" /\ host'.pc = "reading"
          /\ toHost[1].part = "file" /\ toHost[1].len # 0 /\ host'.need = toHost[1].len
       \/ /\ host.op \in Gets /\ host.pc = "reading" /\ host'.pc = "reading"
          /\ host.need > 1 /\ host'.need = host.need - 1

\* Or the transfer is over.
HostReturns ==
    /\ \E n \in 1..Len(toHost) : toHost' = After(toHost, n)
    /\ host' = HostIdle
    /\ told'.op = host.op /\ told'.own = FirstIsOwn
    /\ told'.what \in {"written", "failed", "file", "garbled"}
    /\ told' \in [op : Op \union {NoOp}, what : {"none", "written", "failed", "file", "garbled"},
                  own : BOOLEAN]
    /\ \/ /\ host.op \in Puts /\ host.pc = "waiting"
          /\ told'.what = "written" => toHost[1].part = "written"
       \/ /\ host.op \in Gets /\ told'.what # "written"
          /\ \/ host.pc = "waiting" /\ (toHost[1].part # "file" \/ toHost[1].len = 0)
             \/ host.pc = "reading" /\ host.need = 1

\* A transfer that returns says so.
LEMMA ReturnsIs ==
    ASSUME TypeOK, toHost # <<>>, host.op \in Op,
           NEW what \in {"written", "failed", "file", "garbled"}, Returns(what, FirstIsOwn)
    PROVE  /\ \E n \in 1..Len(toHost) : toHost' = After(toHost, n)
           /\ host' = HostIdle
           /\ told'.op = host.op /\ told'.own = FirstIsOwn /\ told'.what = what
           /\ told' \in [op : Op \union {NoOp},
                         what : {"none", "written", "failed", "file", "garbled"}, own : BOOLEAN]
  <1>1. FirstIsOwn \in BOOLEAN
    BY DEF FirstIsOwn, TypeOK, HostState
  <1> DEFINE b == FirstIsOwn
  <1>2. /\ \E n \in 1..Len(toHost) : toHost' = After(toHost, n)
        /\ host' = HostIdle /\ told' = [op |-> host.op, what |-> what, own |-> b]
    BY DEF Returns, Prefixes
  <1>3. b \in BOOLEAN
    BY <1>1
  <1> HIDE DEF b
  <1>4. told'.op = host.op /\ told'.own = b /\ told'.what = what
    BY <1>2
  <1>5. told' \in [op : Op \union {NoOp},
                   what : {"none", "written", "failed", "file", "garbled"}, own : BOOLEAN]
    BY <1>2, <1>3
  <1> QED
    BY <1>2, <1>4, <1>5 DEF b

\* The frame the host reads is the first on the wire.
LEMMA FirstFrame ==
    ASSUME TypeOK, toHost # <<>>
    PROVE  /\ Head(toHost) = toHost[1] /\ toHost[1] \in Frame /\ Tail(toHost) \in Seq(Frame)
           /\ Len(toHost) \in Nat \ {0} /\ Len(Tail(toHost)) = Len(toHost) - 1
           /\ \A i \in 1..(Len(toHost) - 1) : Tail(toHost)[i] = toHost[i + 1]
           /\ FirstIsOwn = (host.own /\ toHost[1].op = host.op)
  <1>1. toHost \in Seq(Frame)
    BY DEF TypeOK
  <1> QED
    BY <1>1, TailIs DEF FirstIsOwn

\* Whatever it waits for, it goes on or is done.
LEMMA HostReadsIs ==
    ASSUME TypeOK, HostAgrees, HostReads
    PROVE  /\ toHost # <<>> /\ host.pc \in {"waiting", "reading"} /\ host.left = <<>>
           /\ hostUp /\ host.op \in Op
           /\ HostKeeps \/ HostReturns
           /\ UNCHANGED <<toGuest, hostUp, guestUp, guest, disk, slip>>
  <1>1. /\ toHost # <<>> /\ host.pc \in {"waiting", "reading"}
        /\ UNCHANGED <<toGuest, hostUp, guestUp, guest, disk, slip>>
    BY DEF HostReads, PutReads, GetReadsHeader, GetReadsFork
  <1>2. host.left = <<>> /\ hostUp /\ host.op \in Op
    BY <1>1 DEF HostAgrees
  <1>3. /\ host \in HostState /\ Head(toHost) = toHost[1] /\ toHost[1] \in Frame
        /\ toHost[1].len \in Nat /\ FirstIsOwn \in BOOLEAN /\ host.need \in Nat
    BY <1>1, FirstFrame DEF TypeOK, HostState, Frame
  <1> DEFINE b == FirstIsOwn
  <1>b. b \in BOOLEAN
    BY <1>3
  <1> HIDE DEF b
  <1>4. ASSUME PutReads
        PROVE  HostKeeps \/ HostReturns
    <2>0. host.op \in Puts /\ host.pc = "waiting"
      BY <1>4 DEF PutReads
    <2>1. CASE toHost[1].part \in {"written", "failed"}
      <3> DEFINE what == IF host.junk THEN "garbled" ELSE toHost[1].part
      <3>1. /\ what \in {"written", "failed", "file", "garbled"}
            /\ what = "written" => toHost[1].part = "written"
        BY <2>1
      <3>2. Returns(what, FirstIsOwn)
        BY <1>3, <1>4, <2>1 DEF PutReads
      <3> HIDE DEF what
      <3> QED
        BY <1>1, <1>2, <2>0, <3>1, <3>2, ReturnsIs DEF HostReturns
    <2>2. CASE toHost[1].part \notin {"written", "failed"}
      <3>1. /\ toHost' = Tail(toHost) /\ told' = told
            /\ host' = [host EXCEPT !.own = b, !.junk = TRUE]
        BY <1>3, <1>4, <2>2 DEF PutReads, b
      <3>2. host' \in HostState
        BY <1>3, <1>b, <3>1 DEF HostState
      <3>3. host'.op = host.op /\ host'.left = host.left /\ host'.own = b /\ host'.pc = host.pc
        BY <1>3, <1>b, <3>1 DEF HostState
      <3> QED
        BY <2>0, <2>2, <3>1, <3>2, <3>3 DEF HostKeeps, b
    <2> QED
      BY <2>1, <2>2
  <1>5. ASSUME GetReadsHeader
        PROVE  HostKeeps \/ HostReturns
    <2>0. host.op \in Gets /\ host.pc = "waiting"
      BY <1>5 DEF GetReadsHeader
    <2>1. CASE toHost[1].part # "file"
      <3>1. Returns("failed", FirstIsOwn)
        BY <1>3, <1>5, <2>1 DEF GetReadsHeader
      <3>2. "failed" \in {"written", "failed", "file", "garbled"} /\ "failed" # "written"
        OBVIOUS
      <3> QED
        BY <1>1, <1>2, <2>0, <2>1, <3>1, <3>2, ReturnsIs DEF HostReturns
    <2>2. CASE toHost[1].part = "file" /\ toHost[1].len = 0
      <3>1. Returns("file", FirstIsOwn)
        BY <1>3, <1>5, <2>2 DEF GetReadsHeader
      <3>2. "file" \in {"written", "failed", "file", "garbled"} /\ "file" # "written"
        OBVIOUS
      <3> QED
        BY <1>1, <1>2, <2>0, <2>2, <3>1, <3>2, ReturnsIs DEF HostReturns
    <2>3. CASE toHost[1].part = "file" /\ toHost[1].len # 0
      <3>1. /\ toHost' = Tail(toHost) /\ told' = told
            /\ host' = [host EXCEPT !.pc = "reading", !.need = toHost[1].len, !.own = b]
        BY <1>3, <1>5, <2>3 DEF GetReadsHeader, b
      <3> DEFINE k == toHost[1].len
      <3>2. k \in Nat
        BY <1>3
      <3> HIDE DEF k
      <3>3. host' = [host EXCEPT !.pc = "reading", !.need = k, !.own = b]
        BY <3>1 DEF k
      <3>4. host' \in HostState
        BY <1>3, <1>b, <3>2, <3>3 DEF HostState
      <3>5. /\ host'.op = host.op /\ host'.left = host.left /\ host'.own = b
            /\ host'.pc = "reading" /\ host'.need = k
        BY <1>3, <1>b, <3>3 DEF HostState
      <3> QED
        BY <2>0, <2>3, <3>1, <3>4, <3>5 DEF HostKeeps, b, k
    <2> QED
      BY <2>1, <2>2, <2>3
  <1>6. ASSUME GetReadsFork
        PROVE  HostKeeps \/ HostReturns
    <2>0. host.pc = "reading" /\ host.op \in Gets /\ host.need > 0
      BY <1>6 DEF GetReadsFork, HostAgrees
    <2>1. CASE host.need = 1
      <3>1. Returns("file", FirstIsOwn)
        BY <1>6, <2>1 DEF GetReadsFork
      <3>2. "file" \in {"written", "failed", "file", "garbled"} /\ "file" # "written"
        OBVIOUS
      <3> QED
        BY <1>1, <1>2, <2>0, <2>1, <3>1, <3>2, ReturnsIs DEF HostReturns
    <2>2. CASE host.need # 1
      <3> DEFINE k == host.need - 1
      <3>1. k \in Nat /\ host.need > 1
        BY <1>3, <2>0, <2>2
      <3>2. /\ toHost' = Tail(toHost) /\ told' = told
            /\ host' = [host EXCEPT !.need = k, !.own = b]
        BY <1>6, <2>2 DEF GetReadsFork, b
      <3>3. host.need - 1 = k
        OBVIOUS
      <3> HIDE DEF k
      <3>4. host' \in HostState
        BY <1>3, <1>b, <3>1, <3>2 DEF HostState
      <3>5. /\ host'.op = host.op /\ host'.left = host.left /\ host'.own = b
            /\ host'.pc = host.pc /\ host'.need = k
        BY <1>3, <1>b, <3>2 DEF HostState
      <3> QED
        BY <2>0, <3>1, <3>2, <3>3, <3>4, <3>5 DEF HostKeeps, b
    <2> QED
      BY <2>1, <2>2
  <1> QED
    BY <1>1, <1>2, <1>4, <1>5, <1>6 DEF HostReads

-----------------------------------------------------------------------------
(* The type *)

\* A reply is a frame, and the daemon is done.
LEMMA RepliesFit ==
    ASSUME TypeOK, NEW p \in Op, NEW status \in {"written", "failed"}, Replies(p, status)
    PROVE  toHost' \in Seq(Frame) /\ guest' = GuestIdle /\ guest' \in GuestState
  <1>1. [op |-> p, part |-> status, len |-> 0] \in Frame
    BY DEF Frame
  <1>2. toHost' \in Seq(Frame)
    BY <1>1, AppendProperties DEF Replies, TypeOK
  <1>3. guest' = GuestIdle /\ guest' \in GuestState
    BY RestFits DEF Replies
  <1> QED
    BY <1>2, <1>3

\* What is left of a row is one.
LEMMA PartsFit ==
    ASSUME TypeOK
    PROVE  /\ \A n \in 0..Len(toHost) : After(toHost, n) \in Seq(Frame)
           /\ \A n \in 0..Len(toGuest) : After(toGuest, n) \in Seq(Unit)
           /\ \A n \in 1..Len(toHost) : n \in 0..Len(toHost)
           /\ \A n \in 1..Len(toGuest) : n \in 0..Len(toGuest)
  BY AfterIs DEF TypeOK

\* A transfer that is given up is told so.
LEMMA ToldFits ==
    ASSUME TypeOK
    PROVE  LET T == [op : Op \union {NoOp}, what : {"none", "written", "failed", "file", "garbled"},
                     own : BOOLEAN]
           IN  /\ Nothing \in T /\ Nothing.what = "none"
               /\ [Nothing EXCEPT !.op = host.op] \in T
               /\ [Nothing EXCEPT !.op = host.op].what = "none"
  <1>1. host.op \in Op \union {NoOp}
    BY DEF TypeOK, HostState
  <1>2. Nothing \in [op : Op \union {NoOp},
                     what : {"none", "written", "failed", "file", "garbled"}, own : BOOLEAN]
    BY DEF Nothing
  <1>3. [Nothing EXCEPT !.op = host.op] \in
           [op : Op \union {NoOp}, what : {"none", "written", "failed", "file", "garbled"},
            own : BOOLEAN]
    BY <1>1, <1>2
  <1>4. Nothing.what = "none"
    BY DEF Nothing
  <1>5. [Nothing EXCEPT !.op = host.op].what = "none"
    BY <1>1, <1>2, <1>4
  <1> QED
    BY <1>2, <1>3, <1>4, <1>5

\* The host asks for a transfer.
LEMMA BeginIs ==
    ASSUME TypeOK, NEW p \in Op, HostBegin(p)
    PROVE  /\ host' \in HostState /\ host'.pc = "sending" /\ host'.op = p
           /\ host'.left = Request(p) /\ host'.own
  <1> DEFINE r == Request(p)
  <1>1. r \in Seq(Unit)
    BY RequestIs
  <1> HIDE DEF r
  <1>2. host' = [HostIdle EXCEPT !.pc = "sending", !.op = p, !.left = r]
    BY DEF HostBegin, r
  <1>3. host' \in HostState
    BY <1>1, <1>2, RestFits DEF HostState
  <1>4. host'.pc = "sending" /\ host'.op = p /\ host'.left = r /\ host'.own
    BY <1>2, RestFits DEF HostState
  <1> QED
    BY <1>3, <1>4 DEF r

\* The host sends a unit of its request.
LEMMA SendIs ==
    ASSUME TypeOK, HostAgrees, HostSends
    PROVE  /\ host.left # <<>> /\ host.left[1] \in Unit
           /\ toGuest' = Append(toGuest, host.left[1]) /\ toGuest' \in Seq(Unit)
           /\ host' \in HostState /\ host'.left = Tail(host.left)
           /\ host'.op = host.op /\ host'.own = host.own
           /\ IF Len(host.left) = 1 THEN host'.pc = "waiting" /\ host'.left = <<>>
              ELSE host'.pc = "sending" /\ host'.left # <<>>
  <1>1. host.left # <<>> /\ host.left \in Seq(Unit) /\ host \in HostState
    BY DEF HostSends, HostAgrees, TypeOK, HostState
  <1>2. /\ Tail(host.left) \in Seq(Unit) /\ Head(host.left) = host.left[1]
        /\ host.left[1] \in Unit /\ Len(Tail(host.left)) = Len(host.left) - 1
        /\ Len(host.left) \in Nat \ {0}
    BY <1>1, TailIs
  <1> DEFINE t == Tail(host.left)
  <1> DEFINE pc == IF Len(host.left) = 1 THEN "waiting" ELSE "sending"
  <1>3. t \in Seq(Unit) /\ pc \in {"waiting", "sending"}
    BY <1>2
  <1>4. host' = [host EXCEPT !.left = t, !.pc = pc] /\ toGuest' = Append(toGuest, host.left[1])
    BY <1>2 DEF HostSends
  <1>5. IF Len(host.left) = 1 THEN pc = "waiting" /\ t = <<>> ELSE pc = "sending" /\ t # <<>>
    <2>1. CASE Len(host.left) = 1
      <3>1. Len(t) = 0 /\ t \in Seq(Unit)
        BY <1>2, <1>3, <2>1
      <3> QED
        BY <2>1, <3>1, EmptySeq
    <2>2. CASE Len(host.left) # 1
      <3>1. Len(t) # 0 /\ t \in Seq(Unit)
        BY <1>2, <1>3, <2>2
      <3> QED
        BY <2>2, <3>1, EmptySeq
    <2> QED
      BY <2>1, <2>2
  <1>6. toGuest' \in Seq(Unit)
    BY <1>2, <1>4, AppendProperties DEF TypeOK
  <1>7. t = Tail(host.left)
    OBVIOUS
  <1> HIDE DEF t, pc
  <1>8. host' \in HostState
    BY <1>1, <1>3, <1>4 DEF HostState
  <1>9. host'.left = t /\ host'.pc = pc /\ host'.op = host.op /\ host'.own = host.own
    BY <1>1, <1>4 DEF HostState
  <1> QED
    BY <1>1, <1>2, <1>4, <1>5, <1>6, <1>7, <1>8, <1>9

\* The daemon sends a unit of a fork, or what there is of it.
LEMMA ForkIs ==
    ASSUME TypeOK, GuestAgrees, GuestSendsFork
    PROVE  /\ guest.pc = "sending" /\ hostUp /\ guest.op \in Op /\ guest.left > 0
           /\ guest' \in GuestState /\ guest'.left \in Nat
           /\ \/ guest' = GuestIdle
              \/ guest'.pc = "sending" /\ guest'.op = guest.op /\ guest'.pre = guest.pre
                 /\ guest'.left > 0
           /\ \/ /\ toHost' = Append(toHost, [op |-> guest.op, part |-> "bytes", len |-> 0])
                 /\ guest'.left = guest.left - 1
              \/ toHost' = toHost /\ guest'.left < guest.left
           /\ toHost' \in Seq(Frame)
           /\ UNCHANGED <<toGuest, hostUp, guestUp, host, disk, told, slip>>
  <1>1. /\ guest.pc = "sending" /\ hostUp /\ guest.op \in Op /\ guest \in GuestState
        /\ guest.left \in Nat /\ guest.left > 0
        /\ UNCHANGED <<toGuest, hostUp, guestUp, host, disk, told, slip>>
    BY DEF GuestSendsFork, GuestAgrees, TypeOK, GuestState
  <1>2. ASSUME NEW k \in Nat, guest' = Sending(k)
        PROVE  /\ guest' \in GuestState /\ guest'.left = k
               /\ \/ guest' = GuestIdle
                  \/ guest'.pc = "sending" /\ guest'.op = guest.op /\ guest'.pre = guest.pre
                     /\ guest'.left > 0
    <2>1. CASE k = 0
      BY <1>2, <2>1, RestFits DEF Sending
    <2>2. CASE k # 0
      <3>1. guest' = [guest EXCEPT !.left = k]
        BY <1>2, <2>2 DEF Sending
      <3> QED
        BY <1>1, <2>2, <3>1 DEF GuestState
    <2> QED
      BY <2>1, <2>2
  <1>3. PICK n \in 1..guest.left :
           /\ guest' = Sending(guest.left - n)
           /\ \/ toHost' = toHost
              \/ n = 1 /\ toHost' = Append(toHost, [op |-> guest.op, part |-> "bytes", len |-> 0])
    <2>1. 1 \in 1..guest.left
      BY <1>1
    <2> QED
      BY <2>1 DEF GuestSendsFork
  <1>4. guest.left - n \in Nat /\ guest.left - n < guest.left /\ (n = 1 => guest.left - n = guest.left - 1)
    BY <1>1
  <1>5. [op |-> guest.op, part |-> "bytes", len |-> 0] \in Frame
    BY <1>1 DEF Frame
  <1>6. toHost' \in Seq(Frame)
    BY <1>3, <1>5, AppendProperties, SMTT(30) DEF TypeOK
  <1>7. /\ guest' \in GuestState /\ guest'.left = guest.left - n
        /\ \/ guest' = GuestIdle
           \/ guest'.pc = "sending" /\ guest'.op = guest.op /\ guest'.pre = guest.pre
              /\ guest'.left > 0
    BY <1>2, <1>3, <1>4
  <1> QED
    BY <1>1, <1>3, <1>4, <1>6, <1>7

-----------------------------------------------------------------------------
(* Type and stages, action by action *)

Sound == TypeOK /\ HostAgrees /\ GuestAgrees /\ FileGrows

\* The daemon's half of it holds when the daemon does nothing.
LEMMA GuestRests ==
    ASSUME GuestAgrees, FileGrows, UNCHANGED <<guest, guestUp, disk>>,
           guestUp \/ toGuest' = toGuest
    PROVE  GuestAgrees' /\ FileGrows'
  <1>1. GuestAgrees'
    BY DEF GuestAgrees
  <1>2. FileGrows'
    BY DEF FileGrows
  <1> QED
    BY <1>1, <1>2

\* And the host's half when the host does nothing.
LEMMA HostRests ==
    ASSUME HostAgrees, UNCHANGED <<host, hostUp, told>>, hostUp \/ toHost' = toHost
    PROVE  HostAgrees'
  BY DEF HostAgrees

\* The host asks.
LEMMA BeginKeeps ==
    ASSUME Sound, NEW p \in Op, HostBegin(p)
    PROVE  Sound'
  <1>1. /\ host' \in HostState /\ host'.pc = "sending" /\ host'.op = p
        /\ host'.left = Request(p)
    BY BeginIs DEF Sound
  <1>2. hostUp /\ told' = Nothing /\ UNCHANGED <<toGuest, hostUp, guestUp, guest, disk, slip>>
    BY DEF HostBegin
  <1>3. toHost' \in Seq(Frame)
    BY PartsFit DEF HostBegin, Sound
  <1>4. host'.left # <<>>
    <2>1. Request(p) \in Seq(Unit)
      BY RequestIs
    <2>2. Len(Request(p)) > 0
      <3>1. CASE p \in Puts
        <4>1. Len(Request(p)) = Size(p)
          BY <3>1, RequestIs
        <4>2. Size(p) \in Nat /\ Size(p) >= 2
          BY <3>1, SizesAre
        <4> QED
          BY <4>1, <4>2
      <3>2. CASE p \notin Puts
        <4> DEFINE r == [op |-> p, part |-> "get"]
        <4>1. Request(p) = <<r>>
          BY <3>2, RequestIs
        <4> HIDE DEF r
        <4> QED
          BY <4>1
      <3> QED
        BY <3>1, <3>2
    <2> QED
      BY <1>1, <2>1, <2>2, EmptySeq
  <1>5. TypeOK'
    BY <1>1, <1>2, <1>3, ToldFits DEF Sound, TypeOK
  <1>6. HostAgrees'
    BY <1>1, <1>2, <1>4, ToldFits DEF HostAgrees, Sound
  <1> QED
    BY <1>2, <1>5, <1>6, GuestRests DEF Sound

\* The host sends.
LEMMA SendKeeps ==
    ASSUME Sound, HostSends
    PROVE  Sound'
  <1>1. /\ toGuest' \in Seq(Unit) /\ host' \in HostState /\ host'.op = host.op
        /\ IF Len(host.left) = 1 THEN host'.pc = "waiting" /\ host'.left = <<>>
           ELSE host'.pc = "sending" /\ host'.left # <<>>
    BY SendIs DEF Sound
  <1>2. host.pc = "sending" /\ guestUp /\ UNCHANGED <<toHost, hostUp, guestUp, guest, disk, told, slip>>
    BY DEF HostSends
  <1>3. TypeOK'
    BY <1>1, <1>2 DEF Sound, TypeOK
  <1>4. HostAgrees'
    BY <1>1, <1>2 DEF HostAgrees, Sound
  <1> QED
    BY <1>2, <1>3, <1>4, GuestRests DEF Sound

\* The host reads.
LEMMA HostReadKeeps ==
    ASSUME Sound, HostReads
    PROVE  Sound'
  <1>1. /\ toHost # <<>> /\ host.pc \in {"waiting", "reading"} /\ host.left = <<>>
        /\ hostUp /\ host.op \in Op
        /\ HostKeeps \/ HostReturns
        /\ UNCHANGED <<toGuest, hostUp, guestUp, guest, disk, slip>>
    BY HostReadsIs DEF Sound
  <1>2. CASE HostKeeps
    <2>1. toHost' \in Seq(Frame)
      BY <1>1, <1>2, FirstFrame DEF HostKeeps, Sound
    <2>2. TypeOK'
      BY <1>1, <1>2, <2>1 DEF Sound, TypeOK, HostKeeps
    <2>3. host'.pc = "reading" => host'.need > 0 /\ host'.op \in Gets
      <3>1. toHost[1].len \in Nat
        BY <1>1, FirstFrame DEF Sound, Frame
      <3>2. host.need \in Nat
        BY DEF Sound, TypeOK, HostState
      <3> QED
        BY <1>2, <3>1, <3>2 DEF HostKeeps
    <2>4. /\ host'.pc \in {"waiting", "reading"} /\ host'.op = host.op /\ host'.left = <<>>
          /\ told' = told
      BY <1>1, <1>2 DEF HostKeeps
    <2>5. HostAgrees'
      BY <1>1, <2>3, <2>4 DEF HostAgrees, Sound
    <2> QED
      BY <1>1, <2>2, <2>5, GuestRests DEF Sound
  <1>3. CASE HostReturns
    <2>1. toHost' \in Seq(Frame)
      BY <1>3, PartsFit DEF HostReturns, Sound
    <2>2. TypeOK'
      BY <1>1, <1>3, <2>1, RestFits DEF Sound, TypeOK, HostReturns
    <2>3. HostAgrees'
      BY <1>1, <1>3, RestFits DEF HostAgrees, HostReturns
    <2> QED
      BY <1>1, <2>2, <2>3, GuestRests DEF Sound
  <1> QED
    BY <1>1, <1>2, <1>3

\* The host gives up.
LEMMA GiveUpKeeps ==
    ASSUME Sound, HostGivesUp
    PROVE  Sound'
  <1>1. /\ host' = HostIdle /\ told' = [Nothing EXCEPT !.op = host.op]
        /\ slip' \in {"none", "stray", "gaveup"}
        /\ UNCHANGED <<toGuest, toHost, hostUp, guestUp, guest, disk>>
    BY DEF HostGivesUp, Sound, TypeOK
  <1>2. TypeOK'
    BY <1>1, RestFits, ToldFits DEF Sound, TypeOK
  <1>3. HostAgrees'
    BY <1>1, RestFits, ToldFits DEF Sound, HostAgrees
  <1> QED
    BY <1>1, <1>2, <1>3, GuestRests DEF Sound

\* The host loses the link, or is stopped.
LEMMA EndKeeps ==
    ASSUME Sound, HostEnd
    PROVE  Sound'
  <1>1. /\ host' = HostIdle /\ told' = [Nothing EXCEPT !.op = host.op] /\ toHost' = <<>>
        /\ ~hostUp' /\ hostUp' \in BOOLEAN
        /\ UNCHANGED <<toGuest, guestUp, guest, disk, slip>>
    BY DEF HostEnd
  <1>2. TypeOK'
    BY <1>1, RestFits, ToldFits, EmptySeq DEF Sound, TypeOK
  <1>3. HostAgrees'
    <2>1. told'.what = "none"
      BY <1>1, ToldFits DEF Sound
    <2>2. host'.pc = "idle" /\ host'.left = <<>>
      BY <1>1, RestFits
    <2> QED
      BY <1>1, <2>1, <2>2 DEF HostAgrees
  <1> QED
    BY <1>1, <1>2, <1>3, GuestRests DEF Sound

\* The daemon dials.
LEMMA DialKeeps ==
    ASSUME Sound, GuestDials
    PROVE  Sound' /\ guest' = GuestIdle /\ toGuest' = <<>> /\ host' = HostIdle /\ toHost' = <<>>
           /\ told' = Nothing
  <1>1. /\ ~hostUp /\ ~guestUp /\ hostUp' = TRUE /\ guestUp' = TRUE
        /\ slip' = "none" /\ told' = Nothing
        /\ UNCHANGED <<toGuest, toHost, host, guest, disk>>
    BY DEF GuestDials
  <1>2. guest = GuestIdle /\ toGuest = <<>> /\ toHost = <<>> /\ host = HostIdle
    BY <1>1 DEF Sound, HostAgrees, GuestAgrees
  <1>3. TypeOK'
    BY <1>1, ToldFits DEF Sound, TypeOK
  <1>4. HostAgrees'
    BY <1>1, <1>2, ToldFits, RestFits DEF HostAgrees
  <1>5. GuestAgrees'
    BY <1>1, <1>2, RestFits DEF GuestAgrees, Receiving
  <1>6. FileGrows'
    BY <1>1 DEF FileGrows, Sound
  <1> QED
    BY <1>1, <1>2, <1>3, <1>4, <1>5, <1>6 DEF Sound

\* The daemon closes.
LEMMA CloseKeeps ==
    ASSUME Sound, GuestCloses, disk' = disk
    PROVE  Sound'
  <1>1. /\ guest' = GuestIdle /\ toGuest' = <<>> /\ ~guestUp' /\ guestUp' \in BOOLEAN
        /\ UNCHANGED <<toHost, hostUp, host, told, slip>>
    BY DEF GuestCloses
  <1>2. TypeOK'
    BY <1>1, RestFits, EmptySeq DEF Sound, TypeOK
  <1>3. HostAgrees'
    BY <1>1, HostRests DEF Sound
  <1>4. GuestAgrees'
    BY <1>1, RestFits DEF GuestAgrees, Receiving
  <1>5. FileGrows'
    BY <1>1, RestGrows DEF Sound, FileGrows
  <1> QED
    BY <1>2, <1>3, <1>4, <1>5 DEF Sound

\* The daemon sends.
LEMMA ForkKeeps ==
    ASSUME Sound, GuestSendsFork
    PROVE  Sound'
  <1>1. /\ guest.pc = "sending" /\ hostUp /\ guest.op \in Op /\ guest.left > 0
        /\ guest' \in GuestState
        /\ \/ guest' = GuestIdle
           \/ guest'.pc = "sending" /\ guest'.op = guest.op /\ guest'.pre = guest.pre
              /\ guest'.left > 0
        /\ toHost' \in Seq(Frame)
        /\ UNCHANGED <<toGuest, hostUp, guestUp, host, disk, told, slip>>
    BY ForkIs DEF Sound
  <1>2. TypeOK'
    BY <1>1 DEF Sound, TypeOK
  <1>3. HostAgrees'
    BY <1>1, HostRests DEF Sound
  <1>4. guest.pre = <<>> /\ guestUp
    BY <1>1, RestFits DEF Sound, GuestAgrees
  <1>5. GuestAgrees'
    BY <1>1, <1>4, RestFits DEF GuestAgrees, Receiving
  <1>6. FileGrows'
    BY <1>1, RestGrows DEF Sound, FileGrows
  <1> QED
    BY <1>2, <1>3, <1>5, <1>6 DEF Sound

\* The daemon reads.
LEMMA ReadKeeps ==
    ASSUME Sound, BodyFollows, GuestReads
    PROVE  Sound'
  <1>1. /\ Reads /\ guest.pc \in Receiving /\ guest.op \in Puts
        /\ Stays \/ Ends
        /\ disk' \in File /\ FileGrows'
        /\ UNCHANGED <<hostUp, guestUp, host, told>>
    BY ReadIs DEF Sound
  <1>2. guestUp /\ guest.op \in Op
    BY <1>1, RestFits, SizesAre DEF Sound, GuestAgrees, Receiving
  <1>3. toGuest' \in Seq(Unit)
    <2>1. CASE guest.pre # <<>>
      BY <1>1, <2>1 DEF Reads, Sound, TypeOK
    <2>2. CASE guest.pre = <<>>
      <3>1. toGuest' = Tail(toGuest)
        BY <1>1, <2>2 DEF Reads
      <3>2. toGuest \in Seq(Unit) /\ toGuest # <<>>
        <4>1. toGuest \in Seq(Unit)
          BY DEF Sound, TypeOK
        <4>2. <<>> \o <<>> = <<>>
          OBVIOUS
        <4> QED
          BY <1>1, <2>2, <4>1, <4>2 DEF Reads, Readable
      <3> QED
        BY <3>1, <3>2, TailIs
    <2> QED
      BY <2>1, <2>2
  <1>4. CASE Stays
    <2>1. TypeOK'
      BY <1>1, <1>3, <1>4 DEF Sound, TypeOK, Stays
    <2>2. HostAgrees'
      BY <1>1, <1>4, HostRests DEF Sound, Stays
    <2>3. GuestAgrees'
      BY <1>1, <1>2, <1>4 DEF GuestAgrees, Stays, Receiving
    <2> QED
      BY <1>1, <2>1, <2>2, <2>3 DEF Sound
  <1>5. CASE Ends
    <2>1. PICK status \in {"written", "failed"} : Replies(guest.op, status)
      BY <1>5 DEF Ends
    <2>2. toHost' \in Seq(Frame) /\ guest' = GuestIdle /\ guest' \in GuestState
      BY <1>2, <2>1, RepliesFit DEF Sound
    <2>3. slip' \in {"none", "stray", "gaveup"}
      BY <1>5 DEF Ends, Strays, Sound, TypeOK
    <2>4. TypeOK'
      BY <1>1, <1>3, <2>2, <2>3 DEF Sound, TypeOK
    <2>5. HostAgrees'
      BY <1>1, <2>1, HostRests DEF Sound, Replies
    <2>6. GuestAgrees'
      BY <1>1, <1>2, <2>2, RestFits DEF GuestAgrees, Receiving
    <2> QED
      BY <1>1, <2>4, <2>5, <2>6 DEF Sound
  <1> QED
    BY <1>1, <1>4, <1>5

\* What the daemon takes is what is ahead.
LEMMA TakenIsAhead ==
    ASSUME TypeOK, GuestAgrees, guest = GuestIdle, toGuest # <<>>
    PROVE  /\ InHand = 0 /\ OnWire > 0 /\ Len(Ahead) > 0 /\ Ahead[1] = toGuest[1]
  <1>1. guest.pre = <<>> /\ InHand = 0
    BY RestFits DEF InHand
  <1>2. OnWire > 0
    BY TailIs DEF TypeOK, OnWire
  <1>3. Len(Ahead) > 0 /\ Len(Ahead) \in Nat
    BY <1>1, <1>2, LensAre
  <1>4. 1 \in 1..Len(Ahead)
    BY <1>3
  <1>5. Ahead[1] = IF 1 <= InHand THEN guest.pre[1]
                   ELSE IF 1 <= InHand + OnWire THEN toGuest[1 - InHand]
                   ELSE host.left[1 - InHand - OnWire]
    BY <1>4, AheadIs
  <1> QED
    BY <1>1, <1>2, <1>3, <1>5, LensAre

\* The daemon takes a request.
LEMMA TakeKeeps ==
    ASSUME Sound, HeadsFollow, GuestTakesRequest
    PROVE  Sound'
  <1>1. /\ guest = GuestIdle /\ guestUp /\ toGuest # <<>> /\ toGuest[1] \in Unit
        /\ UNCHANGED <<hostUp, guestUp, host, disk, told>>
    BY TakesIs DEF Sound
  <1>2. PICK n \in 1..Len(toGuest) :
           toGuest' = After(toGuest, n) /\ (TakesPut(n) \/ Refuses(n) \/ TakesGet)
    BY TakesIs DEF Sound
  <1>3. toGuest' \in Seq(Unit)
    BY <1>2, PartsFit DEF Sound
  <1>4. toGuest[1].op \in Op
    BY <1>1 DEF Unit
  <1>5. HostAgrees'
    BY <1>1, <1>2, HostRests DEF Sound, TakesPut, Refuses, Replies, TakesGet, HostAgrees
  <1>6. CASE TakesPut(n)
    <2>1. toGuest[1].op \in Puts
      <3>1. 1 \in 1..Len(Ahead) /\ Ahead[1] = toGuest[1]
        BY <1>1, TakenIsAhead, LensAre DEF Sound
      <3> QED
        BY <1>6, <3>1 DEF HeadsFollow, TakesPut
    <2> DEFINE s == SubSeq(toGuest, 2, n)
    <2>2. s \in Seq(Unit)
      BY <1>2, InnerIs DEF Sound, TypeOK
    <2> HIDE DEF s
    <2>3. guest' = [pc |-> "path", op |-> toGuest[1].op, pre |-> s, left |-> 0]
      BY <1>6 DEF TakesPut, s
    <2>4. guest' \in GuestState /\ guest'.pc = "path" /\ guest'.op = toGuest[1].op
      BY <1>4, <2>2, <2>3 DEF GuestState
    <2>5. TypeOK'
      BY <1>1, <1>3, <1>6, <2>4 DEF Sound, TypeOK, TakesPut
    <2>6. GuestAgrees'
      BY <1>1, <2>1, <2>4 DEF GuestAgrees, Receiving
    <2>7. FileGrows'
      BY <1>1, <2>4, RestGrows DEF Sound, FileGrows
    <2> QED
      BY <1>5, <2>5, <2>6, <2>7 DEF Sound
  <1>7. CASE Refuses(n)
    <2>1. toHost' \in Seq(Frame) /\ guest' = GuestIdle /\ guest' \in GuestState
      BY <1>4, <1>7, RepliesFit DEF Sound, Refuses
    <2>2. slip' \in {"none", "stray", "gaveup"}
      BY <1>7 DEF Refuses, Strays, Sound, TypeOK
    <2>3. TypeOK'
      BY <1>1, <1>3, <2>1, <2>2 DEF Sound, TypeOK
    <2>4. GuestAgrees'
      BY <1>1, <2>1, RestFits DEF GuestAgrees, Receiving
    <2>5. FileGrows'
      BY <1>1, <2>1, RestGrows DEF Sound, FileGrows
    <2> QED
      BY <1>5, <2>3, <2>4, <2>5 DEF Sound
  <1>8. CASE TakesGet
    <2> DEFINE len == disk.dataEnd + disk.rsrcEnd
    <2> DEFINE f == [op |-> toGuest[1].op, part |-> "file", len |-> len]
    <2>1. len \in Nat
      BY DEF Sound, TypeOK, File
    <2> HIDE DEF len
    <2>2. f \in Frame
      BY <1>4, <2>1 DEF Frame
    <2>3. /\ toHost' = IF hostUp THEN Append(toHost, f) ELSE toHost
          /\ guest' = IF len = 0 THEN GuestIdle
                      ELSE [pc |-> "sending", op |-> toGuest[1].op, pre |-> <<>>, left |-> len]
          /\ slip' = slip
      BY <1>8 DEF TakesGet, len
    <2> HIDE DEF f
    <2>4. toHost' \in Seq(Frame)
      BY <2>2, <2>3, AppendProperties DEF Sound, TypeOK
    <2>5. /\ guest' \in GuestState
          /\ \/ guest' = GuestIdle
             \/ /\ guest'.pc = "sending" /\ guest'.op \in Op /\ guest'.pre = <<>>
                /\ guest'.left > 0
      <3>1. CASE len = 0
        BY <2>3, <3>1, RestFits
      <3>2. CASE len # 0
        BY <1>4, <2>1, <2>3, <3>2, EmptySeq DEF GuestState
      <3> QED
        BY <3>1, <3>2
    <2>6. TypeOK'
      BY <1>1, <1>3, <2>3, <2>4, <2>5 DEF Sound, TypeOK
    <2>7. GuestAgrees'
      BY <1>1, <2>5, RestFits DEF GuestAgrees, Receiving
    <2>8. FileGrows'
      BY <1>1, <2>5, RestGrows DEF Sound, FileGrows
    <2> QED
      BY <1>5, <2>6, <2>7, <2>8 DEF Sound
  <1> QED
    BY <1>2, <1>6, <1>7, <1>8

\* Every step.
LEMMA SoundStep ==
    ASSUME Sound, HeadsFollow, BodyFollows, [Next]_vars
    PROVE  Sound'
  <1>1. ASSUME HostLosesLink \/ HostRestarts
        PROVE  Sound'
    BY <1>1, EndKeeps DEF HostLosesLink, HostRestarts
  <1>2. ASSUME GuestLosesLink \/ GuestGivesUp
        PROVE  Sound'
    BY <1>2, CloseKeeps DEF GuestLosesLink, GuestGivesUp
  <1>3. ASSUME GuestDrainsNothing \/ UNCHANGED vars
        PROVE  Sound'
    <2>1. UNCHANGED vars
      BY <1>3 DEF GuestDrainsNothing
    <2>2. TypeOK' /\ HostAgrees' /\ GuestAgrees' /\ FileGrows'
      BY <2>1 DEF vars, Sound, TypeOK, HostAgrees, GuestAgrees, FileGrows
    <2> QED
      BY <2>2 DEF Sound
  <1> QED
    BY <1>1, <1>2, <1>3, BeginKeeps, SendKeeps, HostReadKeeps, GiveUpKeeps, DialKeeps, ForkKeeps,
       ReadKeeps, TakeKeeps DEF Next

-----------------------------------------------------------------------------
(* What the steps leave of what is ahead *)

\* It loses its first k units, and its end when the host lets go of the link.
Trimmed(k) ==
    /\ k \in 0..Len(Ahead) /\ Len(Ahead') <= Len(Ahead) - k
    /\ \A i \in 1..Len(Ahead') : Ahead'[i] = Ahead[i + k]
    /\ hostUp' => hostUp /\ Len(Ahead') = Len(Ahead) - k

\* Three rows of x, y and z units in one.
Joins(row, a, x, b, y, c, z) ==
    \A i \in 1..(x + y + z) :
        row[i] = IF i <= x THEN a[i] ELSE IF i <= x + y THEN b[i - x] ELSE c[i - x - y]

\* The one has the units of the three.
LEMMA JoinedAre ==
    ASSUME NEW row, NEW a, NEW b, NEW c, NEW x \in Nat, NEW y \in Nat, NEW z \in Nat,
           Joins(row, a, x, b, y, c, z)
    PROVE  /\ \A i \in 1..x : a[i] = row[i]
           /\ \A i \in 1..y : b[i] = row[x + i]
           /\ \A i \in 1..z : c[i] = row[x + y + i]
  <1>1. ASSUME NEW i \in 1..x
        PROVE  a[i] = row[i]
    <2>1. i \in 1..(x + y + z) /\ i <= x
      OBVIOUS
    <2> QED
      BY <2>1 DEF Joins
  <1>2. ASSUME NEW i \in 1..y
        PROVE  b[i] = row[x + i]
    <2> DEFINE j == x + i
    <2>1. j \in 1..(x + y + z) /\ ~(j <= x) /\ j <= x + y /\ j - x = i
      OBVIOUS
    <2> HIDE DEF j
    <2>2. row[j] = b[j - x]
      BY <2>1 DEF Joins
    <2> QED
      BY <2>1, <2>2 DEF j
  <1>3. ASSUME NEW i \in 1..z
        PROVE  c[i] = row[x + y + i]
    <2> DEFINE j == x + y + i
    <2>1. j \in 1..(x + y + z) /\ ~(j <= x) /\ ~(j <= x + y) /\ j - x - y = i
      OBVIOUS
    <2> HIDE DEF j
    <2>2. row[j] = c[j - x - y]
      BY <2>1 DEF Joins
    <2> QED
      BY <2>1, <2>2 DEF j
  <1> QED
    BY <1>1, <1>2, <1>3

\* A row that has the units of another from place k on.
LEMMA JoinedShift ==
    ASSUME NEW row, NEW old, NEW a, NEW b, NEW c, NEW x \in Nat, NEW y \in Nat, NEW z \in Nat,
           NEW k \in Nat, Joins(row, a, x, b, y, c, z),
           \A i \in 1..x : a[i] = old[i + k],
           \A i \in 1..y : b[i] = old[x + i + k],
           \A i \in 1..z : c[i] = old[x + y + i + k]
    PROVE  \A j \in 1..(x + y + z) : row[j] = old[j + k]
  <1> SUFFICES ASSUME NEW j \in 1..(x + y + z)
               PROVE  row[j] = old[j + k]
    OBVIOUS
  <1>0. row[j] = IF j <= x THEN a[j] ELSE IF j <= x + y THEN b[j - x] ELSE c[j - x - y]
    BY DEF Joins
  <1>1. CASE j <= x
    BY <1>0, <1>1
  <1>2. CASE j > x /\ j <= x + y
    <2> DEFINE i == j - x
    <2>1. i \in 1..y /\ x + i + k = j + k
      BY <1>2
    <2>2. row[j] = b[i]
      BY <1>0, <1>2
    <2> HIDE DEF i
    <2>3. b[i] = old[x + i + k]
      BY <2>1
    <2> QED
      BY <2>1, <2>2, <2>3
  <1>3. CASE j > x + y
    <2> DEFINE i == j - x - y
    <2>1. i \in 1..z /\ x + y + i + k = j + k
      BY <1>3
    <2>2. row[j] = c[i]
      BY <1>0, <1>3
    <2> HIDE DEF i
    <2>3. c[i] = old[x + y + i + k]
      BY <2>1
    <2> QED
      BY <2>1, <2>2, <2>3
  <1> QED
    BY <1>1, <1>2, <1>3

\* What is ahead has the units of its parts.
LEMMA PartsAre ==
    ASSUME TypeOK
    PROVE  /\ \A i \in 1..InHand : guest.pre[i] = Ahead[i]
           /\ \A i \in 1..OnWire : toGuest[i] = Ahead[InHand + i]
           /\ \A i \in 1..Unsent : host.left[i] = Ahead[InHand + OnWire + i]
  <1>1. /\ Len(Ahead) = InHand + OnWire + Unsent
        /\ InHand \in Nat /\ OnWire \in Nat /\ Unsent \in Nat
    BY LensAre
  <1> DEFINE row == Ahead
  <1> DEFINE a == guest.pre
  <1> DEFINE c == host.left
  <1> DEFINE x == InHand
  <1> DEFINE y == OnWire
  <1> DEFINE z == Unsent
  <1>2. Joins(row, a, x, toGuest, y, c, z) /\ x \in Nat /\ y \in Nat /\ z \in Nat
    BY <1>1, AheadIs DEF Joins
  <1> HIDE DEF row, a, c, x, y, z
  <1>3. /\ \A i \in 1..x : a[i] = row[i]
        /\ \A i \in 1..y : toGuest[i] = row[x + i]
        /\ \A i \in 1..z : c[i] = row[x + y + i]
    BY <1>2, JoinedAre DEF Joins
  <1> QED
    BY <1>3 DEF row, a, c, x, y, z

\* And in the next state, with its parts, those that the step leaves.
LEMMA TrimmedIs ==
    ASSUME TypeOK, TypeOK', NEW k \in Nat,
           \/ InHand' + OnWire' + Unsent' + k = InHand + OnWire + Unsent /\ (hostUp' => hostUp)
           \/ InHand' + OnWire' + Unsent' + k <= InHand + OnWire + Unsent /\ ~hostUp',
           \A i \in 1..InHand' : guest'.pre[i] = Ahead[i + k],
           \A i \in 1..OnWire' : toGuest'[i] = Ahead[InHand' + i + k],
           \A i \in 1..Unsent' : host'.left[i] = Ahead[InHand' + OnWire' + i + k]
    PROVE  Trimmed(k)
  <1>1. /\ Len(Ahead) = InHand + OnWire + Unsent /\ Len(Ahead) \in Nat
        /\ Len(Ahead') = InHand' + OnWire' + Unsent' /\ Len(Ahead') \in Nat
        /\ InHand' \in Nat /\ OnWire' \in Nat /\ Unsent' \in Nat
    BY LensAre, LensWillBe
  <1>2. Joins(Ahead', guest'.pre, InHand', toGuest', OnWire', host'.left, Unsent')
    BY <1>1, AheadWillBe DEF Joins
  <1>3. \A j \in 1..(InHand' + OnWire' + Unsent') : Ahead'[j] = Ahead[j + k]
    <2> DEFINE row == Ahead'
    <2> DEFINE old == Ahead
    <2> DEFINE a == guest'.pre
    <2> DEFINE b == toGuest'
    <2> DEFINE c == host'.left
    <2> DEFINE x == InHand'
    <2> DEFINE y == OnWire'
    <2> DEFINE z == Unsent'
    <2>1. /\ Joins(row, a, x, b, y, c, z) /\ x \in Nat /\ y \in Nat /\ z \in Nat
          /\ \A i \in 1..x : a[i] = old[i + k]
          /\ \A i \in 1..y : b[i] = old[x + i + k]
          /\ \A i \in 1..z : c[i] = old[x + y + i + k]
      BY <1>1, <1>2
    <2> HIDE DEF row, old, a, b, c, x, y, z
    <2>2. \A j \in 1..(x + y + z) : row[j] = old[j + k]
      BY <2>1, JoinedShift DEF Joins
    <2> QED
      BY <2>2 DEF row, old, x, y, z
  <1>4. \A j \in 1..Len(Ahead') : Ahead'[j] = Ahead[j + k]
    BY <1>1, <1>3, Zenon
  <1> DEFINE n == Len(Ahead)
  <1> DEFINE m == Len(Ahead')
  <1>5. /\ n \in Nat /\ m \in Nat
        /\ (m + k = n /\ (hostUp' => hostUp)) \/ (m + k <= n /\ ~hostUp')
    BY <1>1, Zenon
  <1> HIDE DEF n, m
  <1>6. k \in 0..n /\ m <= n - k /\ (hostUp' => hostUp /\ m = n - k)
    BY <1>5
  <1> QED
    BY <1>4, <1>6 DEF Trimmed, n, m

\* A step that leaves the parts alone trims nothing.
LEMMA NothingGone ==
    ASSUME TypeOK, TypeOK', guest'.pre = guest.pre, toGuest' = toGuest,
           \/ host'.left = host.left /\ (hostUp' => hostUp)
           \/ host'.left = <<>> /\ ~hostUp'
    PROVE  Trimmed(0)
  <1>1. InHand \in Nat /\ OnWire \in Nat /\ Unsent \in Nat
    BY LensAre
  <1>2. InHand' = InHand /\ OnWire' = OnWire
    BY DEF InHand, OnWire
  <1>3. /\ \A i \in 1..InHand : guest.pre[i] = Ahead[i]
        /\ \A i \in 1..OnWire : toGuest[i] = Ahead[InHand + i]
        /\ \A i \in 1..Unsent : host.left[i] = Ahead[InHand + OnWire + i]
    BY PartsAre
  <1>4. /\ \A i \in 1..InHand' : guest'.pre[i] = Ahead[i + 0]
        /\ \A i \in 1..OnWire' : toGuest'[i] = Ahead[InHand' + i + 0]
    BY <1>1, <1>2, <1>3
  <1>5. CASE host'.left = host.left /\ (hostUp' => hostUp)
    <2>1. Unsent' = Unsent
      BY <1>5 DEF Unsent
    <2>2. \A i \in 1..Unsent' : host'.left[i] = Ahead[InHand' + OnWire' + i + 0]
      BY <1>1, <1>2, <1>3, <1>5, <2>1
    <2>3. InHand' + OnWire' + Unsent' + 0 = InHand + OnWire + Unsent
      BY <1>1, <1>2, <2>1
    <2> QED
      BY <1>1, <1>2, <1>4, <1>5, <2>1, <2>2, <2>3, TrimmedIs
  <1>6. CASE host'.left = <<>> /\ ~hostUp'
    <2>1. Unsent' = 0
      BY <1>6 DEF Unsent
    <2>2. \A i \in 1..Unsent' : host'.left[i] = Ahead[InHand' + OnWire' + i + 0]
      BY <2>1
    <2>3. InHand' + OnWire' + Unsent' + 0 <= InHand + OnWire + Unsent
      BY <1>1, <1>2, <2>1
    <2> QED
      BY <1>4, <1>6, <2>2, <2>3, TrimmedIs
  <1> QED
    BY <1>5, <1>6

\* Nor does the host when it sends.
LEMMA NothingGoneBySending ==
    ASSUME TypeOK, TypeOK', HostAgrees, HostSends
    PROVE  Trimmed(0)
  <1>1. /\ host.left # <<>> /\ toGuest' = Append(toGuest, host.left[1])
        /\ host'.left = Tail(host.left)
        /\ guest' = guest /\ hostUp' = hostUp
    BY SendIs DEF HostSends
  <1>2. InHand \in Nat /\ OnWire \in Nat /\ Unsent \in Nat
    BY LensAre
  <1>3. /\ toGuest \in Seq(Unit) /\ host.left \in Seq(Unit)
    BY DEF TypeOK, HostState
  <1>4. /\ Unsent > 0 /\ Unsent' = Unsent - 1
        /\ \A i \in 1..(Unsent - 1) : host'.left[i] = host.left[i + 1]
    BY <1>1, <1>3, TailIs DEF Unsent
  <1>5. host.left[1] \in Unit
    BY <1>1, <1>3, TailIs
  <1>6. /\ OnWire' = OnWire + 1 /\ toGuest'[OnWire + 1] = host.left[1]
        /\ \A i \in 1..OnWire : toGuest'[i] = toGuest[i]
    BY <1>1, <1>3, <1>5, AppendProperties DEF OnWire
  <1>7. InHand' = InHand
    BY <1>1 DEF InHand
  <1>8. /\ \A i \in 1..InHand : guest.pre[i] = Ahead[i]
        /\ \A i \in 1..OnWire : toGuest[i] = Ahead[InHand + i]
        /\ \A i \in 1..Unsent : host.left[i] = Ahead[InHand + OnWire + i]
    BY PartsAre
  <1>9. \A i \in 1..InHand' : guest'.pre[i] = Ahead[i + 0]
    BY <1>1, <1>2, <1>7, <1>8
  <1>10. \A i \in 1..OnWire' : toGuest'[i] = Ahead[InHand' + i + 0]
    <2> SUFFICES ASSUME NEW i \in 1..(OnWire + 1)
                 PROVE  toGuest'[i] = Ahead[InHand + i]
      BY <1>2, <1>6, <1>7
    <2>1. CASE i <= OnWire
      BY <1>2, <1>6, <1>8, <2>1
    <2>2. CASE i = OnWire + 1
      <3>1. 1 \in 1..Unsent /\ InHand + OnWire + 1 = InHand + i
        BY <1>2, <1>4, <2>2
      <3>2. host.left[1] = Ahead[InHand + OnWire + 1]
        BY <1>8, <3>1
      <3> QED
        BY <1>6, <2>2, <3>1, <3>2
    <2> QED
      BY <1>2, <2>1, <2>2
  <1>11. \A i \in 1..Unsent' : host'.left[i] = Ahead[InHand' + OnWire' + i + 0]
    <2> SUFFICES ASSUME NEW i \in 1..(Unsent - 1)
                 PROVE  host'.left[i] = Ahead[InHand + (OnWire + 1) + i]
      BY <1>2, <1>4, <1>6, <1>7
    <2>1. i + 1 \in 1..Unsent /\ InHand + OnWire + (i + 1) = InHand + (OnWire + 1) + i
      BY <1>2
    <2>2. host.left[i + 1] = Ahead[InHand + OnWire + (i + 1)]
      BY <1>8, <2>1
    <2> QED
      BY <1>4, <2>1, <2>2
  <1>12. InHand' + OnWire' + Unsent' + 0 = InHand + OnWire + Unsent
    BY <1>2, <1>4, <1>6, <1>7
  <1>13. 0 \in Nat
    OBVIOUS
  <1> QED
    BY <1>1, <1>9, <1>10, <1>11, <1>12, <1>13, TrimmedIs

\* A read takes one unit, and an answer what is left in the buffer besides.
LEMMA GoneByReading ==
    ASSUME TypeOK, TypeOK', Reads, hostUp' = hostUp, host' = host
    PROVE  /\ guest'.pre = PreAfter => Trimmed(1)
           /\ guest'.pre = <<>> => Trimmed(IF InHand > 0 THEN InHand ELSE 1)
  <1>1. /\ InHand \in Nat /\ OnWire \in Nat /\ Unsent \in Nat
        /\ InHand' \in Nat /\ OnWire' \in Nat /\ Unsent' \in Nat
    BY LensAre, LensWillBe
  <1>2. /\ \A i \in 1..InHand : guest.pre[i] = Ahead[i]
        /\ \A i \in 1..OnWire : toGuest[i] = Ahead[InHand + i]
        /\ \A i \in 1..Unsent : host.left[i] = Ahead[InHand + OnWire + i]
    BY PartsAre
  <1>3. Unsent' = Unsent /\ host'.left = host.left
    BY DEF Unsent
  <1>4. guest.pre \in Seq(Unit) /\ toGuest \in Seq(Unit)
    BY DEF TypeOK, GuestState
  <1>5. CASE guest.pre # <<>>
    <2>1. /\ InHand > 0 /\ Len(Tail(guest.pre)) = InHand - 1
          /\ \A i \in 1..(InHand - 1) : Tail(guest.pre)[i] = guest.pre[i + 1]
      BY <1>4, <1>5, TailIs DEF InHand
    <2>2. toGuest' = toGuest /\ OnWire' = OnWire
      BY <1>5 DEF Reads, OnWire
    <2>3. ASSUME guest'.pre = PreAfter
          PROVE  Trimmed(1)
      <3>1. guest'.pre = Tail(guest.pre) /\ InHand' = InHand - 1
        BY <1>5, <2>1, <2>3 DEF PreAfter, InHand
      <3>2. \A i \in 1..InHand' : guest'.pre[i] = Ahead[i + 1]
        <4> SUFFICES ASSUME NEW i \in 1..(InHand - 1)
                     PROVE  guest'.pre[i] = Ahead[i + 1]
          BY <3>1
        <4>1. i + 1 \in 1..InHand
          BY <1>1
        <4> QED
          BY <1>2, <2>1, <3>1, <4>1
      <3>3. \A i \in 1..OnWire' : toGuest'[i] = Ahead[InHand' + i + 1]
        <4> SUFFICES ASSUME NEW i \in 1..OnWire
                     PROVE  toGuest[i] = Ahead[(InHand - 1) + i + 1]
          BY <2>2, <3>1
        <4>1. (InHand - 1) + i + 1 = InHand + i
          BY <1>1
        <4> QED
          BY <1>2, <4>1
      <3>4. \A i \in 1..Unsent' : host'.left[i] = Ahead[InHand' + OnWire' + i + 1]
        <4> SUFFICES ASSUME NEW i \in 1..Unsent
                     PROVE  host.left[i] = Ahead[(InHand - 1) + OnWire + i + 1]
          BY <1>3, <2>2, <3>1
        <4>1. (InHand - 1) + OnWire + i + 1 = InHand + OnWire + i
          BY <1>1
        <4> QED
          BY <1>2, <4>1
      <3>5. InHand' + OnWire' + Unsent' + 1 = InHand + OnWire + Unsent
        BY <1>1, <1>3, <2>2, <3>1
      <3>6. 1 \in Nat
        OBVIOUS
      <3> QED
        BY <3>2, <3>3, <3>4, <3>5, <3>6, TrimmedIs
    <2>4. ASSUME guest'.pre = <<>>
          PROVE  Trimmed(InHand)
      <3>1. InHand' = 0
        BY <2>4 DEF InHand
      <3>2. \A i \in 1..InHand' : guest'.pre[i] = Ahead[i + InHand]
        BY <3>1
      <3>3. \A i \in 1..OnWire' : toGuest'[i] = Ahead[InHand' + i + InHand]
        <4> SUFFICES ASSUME NEW i \in 1..OnWire
                     PROVE  toGuest[i] = Ahead[0 + i + InHand]
          BY <2>2, <3>1
        <4>1. 0 + i + InHand = InHand + i
          BY <1>1
        <4> QED
          BY <1>2, <4>1
      <3>4. \A i \in 1..Unsent' : host'.left[i] = Ahead[InHand' + OnWire' + i + InHand]
        <4> SUFFICES ASSUME NEW i \in 1..Unsent
                     PROVE  host.left[i] = Ahead[0 + OnWire + i + InHand]
          BY <1>3, <2>2, <3>1
        <4>1. 0 + OnWire + i + InHand = InHand + OnWire + i
          BY <1>1
        <4> QED
          BY <1>2, <4>1
      <3>5. InHand' + OnWire' + Unsent' + InHand = InHand + OnWire + Unsent
        BY <1>1, <1>3, <2>2, <3>1
      <3> QED
        BY <1>1, <3>2, <3>3, <3>4, <3>5, TrimmedIs
    <2> QED
      BY <2>1, <2>3, <2>4
  <1>6. CASE guest.pre = <<>>
    <2>1. toGuest' = Tail(toGuest) /\ toGuest # <<>> /\ InHand = 0
      <3>1. <<>> \o <<>> = <<>>
        OBVIOUS
      <3> QED
        BY <1>6, <3>1 DEF Reads, Readable, InHand
    <2>2. /\ OnWire > 0 /\ OnWire' = OnWire - 1
          /\ \A i \in 1..(OnWire - 1) : toGuest'[i] = toGuest[i + 1]
      BY <1>4, <2>1, TailIs DEF OnWire
    <2>3. ASSUME guest'.pre = <<>>
          PROVE  Trimmed(1)
      <3>1. InHand' = 0
        BY <2>3 DEF InHand
      <3>2. \A i \in 1..InHand' : guest'.pre[i] = Ahead[i + 1]
        BY <3>1
      <3>3. \A i \in 1..OnWire' : toGuest'[i] = Ahead[InHand' + i + 1]
        <4> SUFFICES ASSUME NEW i \in 1..(OnWire - 1)
                     PROVE  toGuest'[i] = Ahead[0 + i + 1]
          BY <2>2, <3>1
        <4>1. 0 + i + 1 = InHand + (i + 1) /\ i + 1 \in 1..OnWire
          BY <1>1, <2>1
        <4> QED
          BY <1>2, <2>2, <4>1
      <3>4. \A i \in 1..Unsent' : host'.left[i] = Ahead[InHand' + OnWire' + i + 1]
        <4> SUFFICES ASSUME NEW i \in 1..Unsent
                     PROVE  host.left[i] = Ahead[0 + (OnWire - 1) + i + 1]
          BY <1>3, <2>2, <3>1
        <4>1. 0 + (OnWire - 1) + i + 1 = InHand + OnWire + i
          BY <1>1, <2>1
        <4> QED
          BY <1>2, <4>1
      <3>5. InHand' + OnWire' + Unsent' + 1 = InHand + OnWire + Unsent
        BY <1>1, <1>3, <2>1, <2>2, <3>1
      <3>6. 1 \in Nat
        OBVIOUS
      <3> QED
        BY <3>2, <3>3, <3>4, <3>5, <3>6, TrimmedIs
    <2>4. PreAfter = <<>> /\ ~(InHand > 0)
      BY <1>6, <2>1 DEF PreAfter
    <2> QED
      BY <2>3, <2>4
  <1> QED
    BY <1>5, <1>6

\* A request takes its chunk, of which a put keeps all but the header.
LEMMA GoneByTaking ==
    ASSUME TypeOK, TypeOK', guest = GuestIdle, toGuest # <<>>, NEW n \in 1..Len(toGuest),
           toGuest' = After(toGuest, n), hostUp' = hostUp, host' = host
    PROVE  /\ guest'.pre = SubSeq(toGuest, 2, n) => Trimmed(1)
           /\ guest'.pre = <<>> => Trimmed(n)
  <1>1. /\ InHand \in Nat /\ OnWire \in Nat /\ Unsent \in Nat
        /\ InHand' \in Nat /\ OnWire' \in Nat /\ Unsent' \in Nat
    BY LensAre, LensWillBe
  <1>2. /\ \A i \in 1..OnWire : toGuest[i] = Ahead[InHand + i]
        /\ \A i \in 1..Unsent : host.left[i] = Ahead[InHand + OnWire + i]
    BY PartsAre
  <1>3. Unsent' = Unsent /\ host'.left = host.left
    BY DEF Unsent
  <1>4. toGuest \in Seq(Unit) /\ n \in 1..OnWire /\ n \in 0..Len(toGuest)
    BY DEF TypeOK, OnWire
  <1>5. InHand = 0
    BY RestFits DEF InHand
  <1>6. OnWire' = OnWire - n /\ \A i \in 1..(OnWire - n) : toGuest'[i] = toGuest[i + n]
    BY <1>4, AfterIs DEF OnWire
  <1>7. ASSUME guest'.pre = SubSeq(toGuest, 2, n)
        PROVE  Trimmed(1)
    <2>1. InHand' = n - 1 /\ \A i \in 1..(n - 1) : guest'.pre[i] = toGuest[i + 1]
      BY <1>4, <1>7, InnerIs DEF InHand
    <2>2. \A i \in 1..InHand' : guest'.pre[i] = Ahead[i + 1]
      <3> SUFFICES ASSUME NEW i \in 1..(n - 1)
                   PROVE  guest'.pre[i] = Ahead[i + 1]
        BY <2>1
      <3>1. i + 1 \in 1..OnWire /\ InHand + (i + 1) = i + 1
        BY <1>1, <1>4, <1>5
      <3> QED
        BY <1>2, <2>1, <3>1
    <2>3. \A i \in 1..OnWire' : toGuest'[i] = Ahead[InHand' + i + 1]
      <3> SUFFICES ASSUME NEW i \in 1..(OnWire - n)
                   PROVE  toGuest'[i] = Ahead[(n - 1) + i + 1]
        BY <1>6, <2>1
      <3>1. i + n \in 1..OnWire /\ InHand + (i + n) = (n - 1) + i + 1
        BY <1>1, <1>4, <1>5
      <3>2. toGuest[i + n] = Ahead[InHand + (i + n)]
        BY <1>2, <3>1
      <3> QED
        BY <1>6, <3>1, <3>2
    <2>4. \A i \in 1..Unsent' : host'.left[i] = Ahead[InHand' + OnWire' + i + 1]
      <3> SUFFICES ASSUME NEW i \in 1..Unsent
                   PROVE  host.left[i] = Ahead[(n - 1) + (OnWire - n) + i + 1]
        BY <1>3, <1>6, <2>1
      <3>1. (n - 1) + (OnWire - n) + i + 1 = InHand + OnWire + i
        BY <1>1, <1>4, <1>5
      <3> QED
        BY <1>2, <3>1
    <2>5. InHand' + OnWire' + Unsent' + 1 = InHand + OnWire + Unsent
      BY <1>1, <1>3, <1>4, <1>5, <1>6, <2>1
    <2>6. 1 \in Nat
      OBVIOUS
    <2> QED
      BY <2>2, <2>3, <2>4, <2>5, <2>6, TrimmedIs
  <1>8. ASSUME guest'.pre = <<>>
        PROVE  Trimmed(n)
    <2>1. InHand' = 0
      BY <1>8 DEF InHand
    <2>2. \A i \in 1..InHand' : guest'.pre[i] = Ahead[i + n]
      BY <2>1
    <2>3. \A i \in 1..OnWire' : toGuest'[i] = Ahead[InHand' + i + n]
      <3> SUFFICES ASSUME NEW i \in 1..(OnWire - n)
                   PROVE  toGuest'[i] = Ahead[0 + i + n]
        BY <1>6, <2>1
      <3>1. i + n \in 1..OnWire /\ InHand + (i + n) = 0 + i + n
        BY <1>1, <1>4, <1>5
      <3>2. toGuest[i + n] = Ahead[InHand + (i + n)]
        BY <1>2, <3>1
      <3> QED
        BY <1>6, <3>1, <3>2
    <2>4. \A i \in 1..Unsent' : host'.left[i] = Ahead[InHand' + OnWire' + i + n]
      <3> SUFFICES ASSUME NEW i \in 1..Unsent
                   PROVE  host.left[i] = Ahead[0 + (OnWire - n) + i + n]
        BY <1>3, <1>6, <2>1
      <3>1. 0 + (OnWire - n) + i + n = InHand + OnWire + i
        BY <1>1, <1>4, <1>5
      <3> QED
        BY <1>2, <3>1
    <2>5. InHand' + OnWire' + Unsent' + n = InHand + OnWire + Unsent
      BY <1>1, <1>3, <1>4, <1>5, <1>6, <2>1
    <2>6. n \in Nat
      BY <1>1, <1>4
    <2> QED
      BY <2>2, <2>3, <2>4, <2>5, <2>6, TrimmedIs
  <1> QED
    BY <1>7, <1>8

\* A daemon that closes leaves what the host has not sent.
LEMMA GoneByClosing ==
    ASSUME TypeOK, TypeOK', GuestCloses
    PROVE  Trimmed(InHand + OnWire)
  <1>1. /\ InHand \in Nat /\ OnWire \in Nat /\ Unsent \in Nat
        /\ InHand' \in Nat /\ OnWire' \in Nat /\ Unsent' \in Nat
    BY LensAre, LensWillBe
  <1>2. \A i \in 1..Unsent : host.left[i] = Ahead[InHand + OnWire + i]
    BY PartsAre
  <1>3. /\ InHand' = 0 /\ OnWire' = 0 /\ Unsent' = Unsent /\ host'.left = host.left
        /\ hostUp' = hostUp
    BY RestFits DEF GuestCloses, InHand, OnWire, Unsent
  <1> DEFINE k == InHand + OnWire
  <1>4. k \in Nat /\ InHand' + OnWire' + Unsent' + k = InHand + OnWire + Unsent
    BY <1>1, <1>3
  <1>6. /\ \A i \in 1..InHand' : guest'.pre[i] = Ahead[i + k]
        /\ \A i \in 1..OnWire' : toGuest'[i] = Ahead[InHand' + i + k]
    BY <1>3
  <1>7. \A i \in 1..Unsent' : host'.left[i] = Ahead[InHand' + OnWire' + i + k]
    <2> SUFFICES ASSUME NEW i \in 1..Unsent
                 PROVE  host.left[i] = Ahead[0 + 0 + i + k]
      BY <1>3
    <2>1. 0 + 0 + i + k = InHand + OnWire + i
      BY <1>1
    <2> QED
      BY <1>2, <2>1
  <1> HIDE DEF k
  <1>8. Trimmed(k)
    BY <1>3, <1>4, <1>6, <1>7, TrimmedIs
  <1> QED
    BY <1>8 DEF k

-----------------------------------------------------------------------------
(* A body behind its header *)

\* What goes on at place i + k goes on at place i when k units are gone.
LEMMA ContinuesOn ==
    ASSUME TypeOK, TypeOK', NEW k \in Nat, Trimmed(k), NEW i \in Nat \ {0}, NEW p \in Puts,
           NEW n \in Nat, Continues(i + k, p, n)
    PROVE  /\ \A j \in 1..n : i + j - 1 <= Len(Ahead') =>
                 Ahead'[i + j - 1] = UnitOf(p, Size(p) - n + j)
           /\ hostUp' => i + n - 1 <= Len(Ahead')
  <1> DEFINE x == Len(Ahead)
  <1> DEFINE y == Len(Ahead')
  <1>1. x \in Nat /\ y \in Nat
    BY LensAre, LensWillBe
  <1>2. /\ y <= x - k /\ (hostUp' => hostUp /\ y = x - k)
        /\ \A j \in 1..y : Ahead'[j] = Ahead[j + k]
    BY DEF Trimmed
  <1>3. /\ \A j \in 1..n : (i + k) + j - 1 <= x => Ahead[(i + k) + j - 1] = UnitOf(p, Size(p) - n + j)
        /\ hostUp => (i + k) + n - 1 <= x
    BY DEF Continues
  <1> HIDE DEF x, y
  <1>4. ASSUME NEW j \in 1..n, i + j - 1 <= y
        PROVE  Ahead'[i + j - 1] = UnitOf(p, Size(p) - n + j)
    <2> DEFINE m == i + j - 1
    <2>1. m \in 1..y /\ (i + k) + j - 1 = m + k /\ m + k <= x
      BY <1>1, <1>2, <1>4
    <2> HIDE DEF m
    <2>2. Ahead'[m] = Ahead[m + k] /\ Ahead[m + k] = UnitOf(p, Size(p) - n + j)
      BY <1>2, <1>3, <2>1
    <2> QED
      BY <2>2 DEF m
  <1>5. ASSUME hostUp'
        PROVE  i + n - 1 <= y
    BY <1>1, <1>2, <1>3, <1>5
  <1> QED
    BY <1>4, <1>5 DEF y

\* When the first unit is read, the rest of the put is behind it.
LEMMA ContinuesBehind ==
    ASSUME TypeOK, NEW p \in Puts, NEW n \in Nat \ {0}, Continues(1, p, n)
    PROVE  Continues(1 + 1, p, n - 1)
  <1>1. Size(p) \in Nat /\ Len(Ahead) \in Nat
    BY SizesAre, LensAre
  <1>2. /\ \A j \in 1..n : 1 + j - 1 <= Len(Ahead) => Ahead[1 + j - 1] = UnitOf(p, Size(p) - n + j)
        /\ hostUp => 1 + n - 1 <= Len(Ahead)
    BY DEF Continues
  <1>3. ASSUME NEW j \in 1..(n - 1), (1 + 1) + j - 1 <= Len(Ahead)
        PROVE  Ahead[(1 + 1) + j - 1] = UnitOf(p, Size(p) - (n - 1) + j)
    <2>1. /\ j + 1 \in 1..n /\ 1 + (j + 1) - 1 = (1 + 1) + j - 1
          /\ Size(p) - n + (j + 1) = Size(p) - (n - 1) + j
      BY <1>1
    <2> QED
      BY <1>2, <1>3, <2>1
  <1>4. hostUp => (1 + 1) + (n - 1) - 1 <= Len(Ahead)
    BY <1>1, <1>2
  <1> QED
    BY <1>3, <1>4 DEF Continues

\* Headers and bodies stay together when units at the front go.
LEMMA HeadsTrimmed ==
    ASSUME TypeOK, TypeOK', HeadsFollow, NEW k \in Nat, Trimmed(k)
    PROVE  HeadsFollow'
  <1>1. Len(Ahead) \in Nat /\ Len(Ahead') \in Nat
    BY LensAre, LensWillBe
  <1> SUFFICES ASSUME NEW i \in 1..Len(Ahead'), Ahead'[i].part = "head"
               PROVE  Ahead'[i].op \in Puts /\ Continues(i, Ahead[i].op, Size(Ahead[i].op))'
    BY DEF HeadsFollow
  <1>2. i \in Nat \ {0} /\ i + k \in 1..Len(Ahead) /\ Ahead'[i] = Ahead[i + k]
    BY <1>1 DEF Trimmed
  <1> DEFINE p == Ahead[i + k].op
  <1>3. p \in Puts /\ Continues(i + k, p, Size(p))
    BY <1>2 DEF HeadsFollow
  <1>4. Ahead'[i].op = p
    BY <1>2
  <1> HIDE DEF p
  <1>5. Size(p) \in Nat
    BY <1>3, SizesAre
  <1>6. /\ \A j \in 1..Size(p) : i + j - 1 <= Len(Ahead') =>
              Ahead'[i + j - 1] = UnitOf(p, Size(p) - Size(p) + j)
        /\ hostUp' => i + Size(p) - 1 <= Len(Ahead')
    <2> DEFINE n == Size(p)
    <2>1. n \in Nat /\ Continues(i + k, p, n)
      BY <1>3, <1>5
    <2> HIDE DEF n
    <2>2. /\ \A j \in 1..n : i + j - 1 <= Len(Ahead') =>
                Ahead'[i + j - 1] = UnitOf(p, Size(p) - n + j)
          /\ hostUp' => i + n - 1 <= Len(Ahead')
      BY <1>2, <1>3, <2>1, ContinuesOn
    <2> QED
      BY <2>2 DEF n
  <1> QED
    BY <1>3, <1>4, <1>6 DEF Continues

\* So does the body the daemon is at, when nothing goes.
LEMMA BodyTrimmed ==
    ASSUME TypeOK, TypeOK', GuestAgrees, BodyFollows, Trimmed(0), guest' = guest
    PROVE  BodyFollows'
  <1> SUFFICES ASSUME guest'.pc \in Receiving
               PROVE  Continues(1, guest.op, Due)'
    BY DEF BodyFollows
  <1> DEFINE p == guest.op
  <1> DEFINE n == Due
  <1>1. p \in Puts /\ n \in Nat /\ Continues(1 + 0, p, n)
    <2>1. p \in Puts /\ Continues(1, p, n)
      BY DEF GuestAgrees, BodyFollows
    <2>2. n \in Nat
      BY <2>1, DueIs, SizesAre, PreAfterIs DEF Receiving
    <2> QED
      BY <2>1, <2>2
  <1>2. guest'.op = p /\ Due' = n
    BY DEF Due
  <1> HIDE DEF p, n
  <1>3. /\ \A j \in 1..n : 1 + j - 1 <= Len(Ahead') => Ahead'[1 + j - 1] = UnitOf(p, Size(p) - n + j)
        /\ hostUp' => 1 + n - 1 <= Len(Ahead')
    <2>1. ASSUME NEW q \in Puts, NEW m \in Nat, Continues(1 + 0, q, m)
          PROVE  /\ \A j \in 1..m : 1 + j - 1 <= Len(Ahead') =>
                       Ahead'[1 + j - 1] = UnitOf(q, Size(q) - m + j)
                 /\ hostUp' => 1 + m - 1 <= Len(Ahead')
      <3> DEFINE i == 1
      <3> DEFINE k == 0
      <3>1. i \in Nat \ {0} /\ k \in Nat /\ Trimmed(k) /\ Continues(i + k, q, m)
        BY <2>1
      <3> HIDE DEF i, k
      <3>2. /\ \A j \in 1..m : i + j - 1 <= Len(Ahead') =>
                  Ahead'[i + j - 1] = UnitOf(q, Size(q) - m + j)
            /\ hostUp' => i + m - 1 <= Len(Ahead')
        BY <2>1, <3>1, ContinuesOn
      <3> QED
        BY <3>2 DEF i
    <2> QED
      BY <1>1, <2>1 DEF Continues, UnitOf, Size
  <1> QED
    BY <1>2, <1>3 DEF Continues

\* And when its first unit is read.
LEMMA BodyRead ==
    ASSUME TypeOK, TypeOK', NEW p \in Puts, NEW n \in Nat \ {0}, Continues(1, p, n), Trimmed(1),
           guest'.op = p, Due' = n - 1
    PROVE  BodyFollows'
  <1>1. Continues(1 + 1, p, n - 1) /\ n - 1 \in Nat
    BY ContinuesBehind
  <1> DEFINE m == n - 1
  <1> HIDE DEF m
  <1>2. Continues(1 + 1, p, m) /\ m \in Nat /\ Due' = m
    BY <1>1 DEF m
  <1>3. /\ \A j \in 1..m : 1 + j - 1 <= Len(Ahead') => Ahead'[1 + j - 1] = UnitOf(p, Size(p) - m + j)
        /\ hostUp' => 1 + m - 1 <= Len(Ahead')
    BY <1>2, ContinuesOn
  <1> QED
    BY <1>2, <1>3 DEF BodyFollows, Continues

\* A request is added behind what is ahead.
LEMMA BeginAdds ==
    ASSUME Sound, TypeOK', NEW p \in Op, HostBegin(p)
    PROVE  /\ Len(Ahead') = Len(Ahead) + Len(Request(p)) /\ hostUp /\ hostUp' /\ guest' = guest
           /\ \A i \in 1..Len(Ahead) : Ahead'[i] = Ahead[i]
           /\ \A j \in 1..Len(Request(p)) : Ahead'[Len(Ahead) + j] = Request(p)[j]
  <1>1. host'.left = Request(p) /\ hostUp /\ hostUp' = hostUp /\ guest' = guest /\ toGuest' = toGuest
    BY BeginIs DEF Sound, HostBegin
  <1>2. host.left = <<>>
    BY RestFits DEF Sound, HostAgrees, HostBegin
  <1> DEFINE x == InHand
  <1> DEFINE y == OnWire
  <1> DEFINE n == Len(Request(p))
  <1>3. /\ x \in Nat /\ y \in Nat /\ n \in Nat
        /\ InHand' = x /\ OnWire' = y /\ Unsent' = n /\ Unsent = 0
    <2>1. InHand' = x /\ OnWire' = y /\ Unsent' = n /\ Unsent = 0
      BY <1>1, <1>2 DEF InHand, OnWire, Unsent
    <2> QED
      BY <2>1, LensAre, LensWillBe DEF Sound
  <1>4. Len(Ahead) = x + y /\ Len(Ahead') = x + y + n
    BY <1>3, LensAre, LensWillBe DEF Sound
  <1>5. \A i \in 1..(x + y) : Ahead[i] = IF i <= x THEN guest.pre[i] ELSE toGuest[i - x]
    <2>1. \A i \in 1..Len(Ahead) : Ahead[i] = IF i <= x THEN guest.pre[i]
                                              ELSE IF i <= x + y THEN toGuest[i - x]
                                              ELSE host.left[i - x - y]
      BY AheadIs DEF Sound
    <2> HIDE DEF x, y, n
    <2>2. ASSUME NEW i \in 1..(x + y)
          PROVE  i \in 1..Len(Ahead) /\ i <= x + y
      BY <1>3, <1>4
    <2> QED
      BY <2>1, <2>2
  <1>6. \A i \in 1..(x + y + n) : Ahead'[i] = IF i <= x THEN guest.pre[i]
                                              ELSE IF i <= x + y THEN toGuest[i - x]
                                              ELSE Request(p)[i - x - y]
    BY <1>1, <1>3, <1>4, AheadWillBe
  <1> HIDE DEF x, y, n
  <1>7. \A i \in 1..(x + y) : Ahead'[i] = Ahead[i]
    BY <1>3, <1>5, <1>6
  <1>8. ASSUME NEW j \in 1..n
        PROVE  Ahead'[(x + y) + j] = Request(p)[j]
    <2> DEFINE i == (x + y) + j
    <2>1. i \in 1..(x + y + n) /\ ~(i <= x) /\ ~(i <= x + y) /\ i - x - y = j
      BY <1>3
    <2> HIDE DEF i
    <2>2. Ahead'[i] = Request(p)[i - x - y]
      BY <1>6, <2>1
    <2> QED
      BY <2>1, <2>2 DEF i
  <1>9. Len(Ahead') = Len(Ahead) + n
    BY <1>3, <1>4
  <1> QED
    BY <1>1, <1>4, <1>7, <1>8, <1>9 DEF n

\* What goes on within what was ahead still does when a request is added.
LEMMA BeginFollows ==
    ASSUME Sound, TypeOK', HeadsFollow, BodyFollows, NEW p \in Op, HostBegin(p)
    PROVE  HeadsFollow' /\ BodyFollows'
  <1> DEFINE x == Len(Ahead)
  <1> DEFINE r == Request(p)
  <1> DEFINE n == Len(r)
  <1>1. /\ Len(Ahead') = x + n /\ hostUp /\ hostUp' /\ guest' = guest
        /\ \A i \in 1..x : Ahead'[i] = Ahead[i]
        /\ \A j \in 1..n : Ahead'[x + j] = r[j]
    BY BeginAdds
  <1>2. x \in Nat /\ n \in Nat
    BY LensAre, RequestIs, LenProperties DEF Sound
  <1>x. x = Len(Ahead)
    OBVIOUS
  <1> HIDE DEF x
  <1>3. ASSUME NEW i \in Nat \ {0}, NEW q \in Puts, NEW m \in Nat, Continues(i, q, m)
        PROVE  /\ \A k \in 1..m : i + k - 1 <= Len(Ahead') =>
                     Ahead'[i + k - 1] = UnitOf(q, Size(q) - m + k)
               /\ i + m - 1 <= Len(Ahead')
    <2>1. /\ \A k \in 1..m : i + k - 1 <= x => Ahead[i + k - 1] = UnitOf(q, Size(q) - m + k)
          /\ i + m - 1 <= x
      BY <1>1, <1>3, <1>x DEF Continues
    <2>2. ASSUME NEW k \in 1..m
          PROVE  Ahead'[i + k - 1] = UnitOf(q, Size(q) - m + k)
      <3> DEFINE j == i + k - 1
      <3>1. j \in 1..x
        BY <1>2, <2>1
      <3>2. Ahead[j] = UnitOf(q, Size(q) - m + k)
        BY <1>2, <2>1, <3>1
      <3> HIDE DEF j
      <3>3. Ahead'[j] = UnitOf(q, Size(q) - m + k)
        BY <1>1, <3>1, <3>2
      <3> QED
        BY <3>3 DEF j
    <2>3. i + m - 1 <= x + n
      BY <1>2, <2>1
    <2> QED
      BY <1>1, <2>2, <2>3
  <1>4. HeadsFollow'
    <2> SUFFICES ASSUME NEW i \in 1..(x + n), Ahead'[i].part = "head"
                 PROVE  Ahead'[i].op \in Puts /\ Continues(i, Ahead[i].op, Size(Ahead[i].op))'
      BY <1>1 DEF HeadsFollow
    <2>1. CASE i \in 1..x
      <3> DEFINE q == Ahead[i].op
      <3>1. Ahead'[i] = Ahead[i]
        BY <1>1, <2>1
      <3>2. q \in Puts /\ Continues(i, q, Size(q)) /\ i \in Nat \ {0} /\ Ahead'[i].op = q
        BY <1>2, <1>x, <2>1, <3>1 DEF HeadsFollow
      <3> HIDE DEF q
      <3> DEFINE m == Size(q)
      <3>3. m \in Nat /\ Continues(i, q, m)
        BY <3>2, SizesAre
      <3> HIDE DEF m
      <3>4. /\ \A k \in 1..m : i + k - 1 <= Len(Ahead') =>
                  Ahead'[i + k - 1] = UnitOf(q, Size(q) - m + k)
            /\ i + m - 1 <= Len(Ahead')
        BY <1>3, <3>2, <3>3 DEF Continues, UnitOf, Size
      <3> QED
        BY <3>2, <3>4 DEF Continues, m
    <2>2. CASE i \in (x + 1)..(x + n)
      <3> DEFINE j == i - x
      <3>1. j \in 1..n /\ x + j = i /\ i \in Nat
        BY <1>2, <2>2
      <3> HIDE DEF j
      <3>2. Ahead'[i] = r[j]
        BY <1>1, <3>1
      <3>3. p \in Puts
        <4>1. CASE p \notin Puts
          <5> DEFINE g == [op |-> p, part |-> "get"]
          <5>1. r = <<g>>
            BY <4>1, RequestIs
          <5>2. g.part = "get"
            OBVIOUS
          <5> HIDE DEF g, r
          <5>3. n = 1 /\ r[1] = g
            BY <5>1
          <5>4. j = 1
            BY <3>1, <5>3
          <5> QED
            BY <3>2, <5>2, <5>3, <5>4
        <4> QED
          BY <4>1
      <3>4. n = Size(p) /\ \A k \in 1..n : r[k] = UnitOf(p, k)
        BY <3>3, RequestIs
      <3> HIDE DEF r, n
      <3>a. j \in Nat /\ Ahead'[i] = UnitOf(p, j)
        BY <3>1, <3>2, <3>4
      <3>b. UnitOf(p, j).op = p /\ (UnitOf(p, j).part = "head" <=> j = 1)
        BY <3>a, UnitsAre
      <3>5. j = 1
        BY <3>a, <3>b
      <3>6. Ahead'[i].op = p
        BY <3>a, <3>b
      <3>7. ASSUME NEW k \in 1..n
            PROVE  Ahead'[i + k - 1] = UnitOf(p, n - n + k)
        <4>1. i + k - 1 = x + k /\ n - n + k = k
          BY <1>2, <3>1, <3>5
        <4> QED
          BY <1>1, <3>4, <4>1
      <3>8. i + n - 1 <= x + n
        BY <1>2, <3>1, <3>5
      <3> QED
        BY <1>1, <3>3, <3>4, <3>6, <3>7, <3>8 DEF Continues
    <2> QED
      BY <1>2, <2>1, <2>2
  <1>5. BodyFollows'
    <2> SUFFICES ASSUME guest.pc \in Receiving
                 PROVE  Continues(1, guest.op, Due)'
      BY <1>1 DEF BodyFollows
    <2> DEFINE q == guest.op
    <2> DEFINE m == Due
    <2>1. q \in Puts /\ Continues(1, q, m)
      BY DEF GuestAgrees, BodyFollows, Sound
    <2>2. m \in Nat
      BY <2>1, DueIs, SizesAre, PreAfterIs, SMTT(30) DEF Receiving, Sound
    <2>3. guest'.op = q /\ Due' = m
      BY <1>1 DEF Due
    <2> HIDE DEF q, m
    <2>4. /\ \A k \in 1..m : 1 + k - 1 <= Len(Ahead') =>
                Ahead'[1 + k - 1] = UnitOf(q, Size(q) - m + k)
          /\ 1 + m - 1 <= Len(Ahead')
      <3> DEFINE i == 1
      <3>1. i \in Nat \ {0} /\ Continues(i, q, m)
        BY <2>1
      <3> HIDE DEF i
      <3>2. /\ \A k \in 1..m : i + k - 1 <= Len(Ahead') =>
                  Ahead'[i + k - 1] = UnitOf(q, Size(q) - m + k)
            /\ i + m - 1 <= Len(Ahead')
        BY <1>3, <2>1, <2>2, <3>1 DEF Continues, UnitOf, Size
      <3> QED
        BY <3>2 DEF i
    <2> QED
      BY <2>3, <2>4 DEF Continues
  <1> QED
    BY <1>4, <1>5

Follow == HeadsFollow /\ BodyFollows

\* Steps that leave the daemon and what is ahead alone.
LEMMA QuietFollows ==
    ASSUME Sound, TypeOK', Follow, guest' = guest, toGuest' = toGuest,
           \/ host'.left = host.left /\ (hostUp' => hostUp)
           \/ host'.left = <<>> /\ ~hostUp'
    PROVE  Follow'
  <1>1. Trimmed(0)
    BY NothingGone DEF Sound
  <1>2. 0 \in Nat
    OBVIOUS
  <1>3. HeadsFollow'
    BY <1>1, <1>2, HeadsTrimmed DEF Sound, Follow
  <1>4. BodyFollows'
    BY <1>1, BodyTrimmed DEF Sound, Follow
  <1> QED
    BY <1>3, <1>4 DEF Follow

\* Steps after which the daemon receives no put need only keep the headers.
LEMMA NoBodyFollows ==
    ASSUME guest' = GuestIdle \/ guest'.pc = "sending"
    PROVE  BodyFollows'
  BY RestFits DEF BodyFollows, Receiving

\* The daemon takes a request.
LEMMA TakeFollows ==
    ASSUME Sound, TypeOK', Follow, GuestTakesRequest
    PROVE  Follow'
  <1>1. /\ guest = GuestIdle /\ toGuest # <<>> /\ hostUp' = hostUp /\ host' = host
    BY TakesIs DEF Sound
  <1>2. PICK n \in 1..Len(toGuest) :
           toGuest' = After(toGuest, n) /\ (TakesPut(n) \/ Refuses(n) \/ TakesGet)
    BY TakesIs DEF Sound
  <1>3. n \in Nat /\ 1 \in Nat
    BY <1>2, LenProperties DEF Sound, TypeOK
  <1>4. CASE TakesPut(n)
    <2>1. /\ guest'.pre = SubSeq(toGuest, 2, n) /\ guest'.pc = "path"
          /\ guest'.op = toGuest[1].op /\ toGuest[1].part = "head"
      <3> DEFINE s == SubSeq(toGuest, 2, n)
      <3> HIDE DEF s
      <3>1. guest' = [pc |-> "path", op |-> toGuest[1].op, pre |-> s, left |-> 0]
        BY <1>4 DEF TakesPut, s
      <3> QED
        BY <1>4, <3>1 DEF TakesPut, s
    <2>2. Trimmed(1)
      BY <1>1, <1>2, <2>1, GoneByTaking DEF Sound
    <2>3. HeadsFollow'
      BY <1>3, <2>2, HeadsTrimmed DEF Sound, Follow
    <2> DEFINE p == toGuest[1].op
    <2> DEFINE m == Size(p)
    <2>4. p \in Puts /\ Continues(1, p, m)
      <3>1. 1 \in 1..Len(Ahead) /\ Ahead[1] = toGuest[1]
        BY <1>1, TakenIsAhead, LensAre DEF Sound
      <3>2. Ahead[1].op \in Puts /\ Continues(1, Ahead[1].op, Size(Ahead[1].op))
        BY <2>1, <3>1 DEF HeadsFollow, Follow
      <3> QED
        BY <3>1, <3>2 DEF Continues, UnitOf, Size
    <2>5. m \in Nat \ {0} /\ Due' = m - 1 /\ guest'.op = p
      <3>1. DataLen[p] \in Nat /\ RsrcLen[p] \in Nat
        BY <2>4, SizesAre
      <3>2. Due' = 1 + DataLen[p] + RsrcLen[p] /\ guest'.op = p
        BY <2>1 DEF Due
      <3> DEFINE d == DataLen[p]
      <3> DEFINE r == RsrcLen[p]
      <3>3. d \in Nat /\ r \in Nat /\ Due' = 1 + d + r /\ m = 2 + d + r
        BY <3>1, <3>2 DEF Size
      <3> HIDE DEF d, r, p, m
      <3> QED
        BY <3>2, <3>3
    <2> HIDE DEF p, m
    <2>6. BodyFollows'
      <3>1. ASSUME NEW q \in Puts, NEW k \in Nat \ {0}, Continues(1, q, k), guest'.op = q, Due' = k - 1
            PROVE  BodyFollows'
        BY <2>2, <3>1, BodyRead DEF Sound
      <3> QED
        BY <2>4, <2>5, <3>1 DEF Continues, UnitOf, Size
    <2> QED
      BY <2>3, <2>6 DEF Follow
  <1>5. CASE Refuses(n) \/ TakesGet
    <2>1. (guest' = GuestIdle \/ guest'.pc = "sending") /\ guest'.pre = <<>>
      <3>1. CASE Refuses(n)
        BY <3>1, RestFits DEF Refuses, Replies
      <3>2. CASE TakesGet
        <4> DEFINE len == disk.dataEnd + disk.rsrcEnd
        <4> HIDE DEF len
        <4>1. guest' = IF len = 0 THEN GuestIdle
                       ELSE [pc |-> "sending", op |-> toGuest[1].op, pre |-> <<>>, left |-> len]
          BY <3>2 DEF TakesGet, len
        <4> QED
          BY <4>1, RestFits
      <3> QED
        BY <1>5, <3>1, <3>2
    <2>2. guest'.pre = <<>>
      BY <2>1
    <2>3. Trimmed(n)
      BY <1>1, <1>2, <2>2, GoneByTaking DEF Sound
    <2>4. HeadsFollow'
      BY <1>3, <2>3, HeadsTrimmed DEF Sound, Follow
    <2> QED
      BY <2>1, <2>4, NoBodyFollows DEF Follow
  <1> QED
    BY <1>2, <1>4, <1>5

\* The daemon reads.
LEMMA ReadFollows ==
    ASSUME Sound, TypeOK', Follow, GuestReads
    PROVE  Follow'
  <1>1. /\ Reads /\ guest.pc \in Receiving /\ guest.op \in Puts
        /\ Due \in Nat \ {0} /\ (Stays \/ Ends) /\ hostUp' = hostUp /\ host' = host
    BY ReadIs DEF Sound, Follow
  <1>2. 1 \in Nat /\ InHand \in Nat
    BY LensAre DEF Sound
  <1>3. CASE Stays
    <2>1. guest'.op = guest.op /\ guest'.pre = PreAfter /\ Due' = Due - 1
      BY <1>3 DEF Stays
    <2>2. Trimmed(1)
      BY <1>1, <2>1, GoneByReading DEF Sound
    <2>3. HeadsFollow'
      BY <1>2, <2>2, HeadsTrimmed DEF Sound, Follow
    <2>4. Continues(1, guest.op, Due)
      BY <1>1 DEF Follow, BodyFollows
    <2> DEFINE p == guest.op
    <2> DEFINE m == Due
    <2>5. p \in Puts /\ m \in Nat \ {0} /\ Continues(1, p, m) /\ guest'.op = p /\ Due' = m - 1
      BY <1>1, <2>1, <2>4
    <2> HIDE DEF p, m
    <2>6. BodyFollows'
      <3>1. ASSUME NEW q \in Puts, NEW k \in Nat \ {0}, Continues(1, q, k), guest'.op = q, Due' = k - 1
            PROVE  BodyFollows'
        BY <2>2, <3>1, BodyRead DEF Sound
      <3> QED
        BY <2>5, <3>1 DEF Continues, UnitOf, Size
    <2> QED
      BY <2>3, <2>6 DEF Follow
  <1>4. CASE Ends
    <2>1. guest' = GuestIdle /\ guest'.pre = <<>>
      BY <1>4, RestFits DEF Ends, Replies
    <2> DEFINE k == IF InHand > 0 THEN InHand ELSE 1
    <2>2. k \in Nat /\ Trimmed(k)
      BY <1>1, <1>2, <2>1, GoneByReading DEF Sound
    <2> HIDE DEF k
    <2>3. HeadsFollow'
      BY <2>2, HeadsTrimmed DEF Sound, Follow
    <2> QED
      BY <2>1, <2>3, NoBodyFollows DEF Follow
  <1> QED
    BY <1>1, <1>3, <1>4

\* The daemon closes.
LEMMA CloseFollows ==
    ASSUME Sound, TypeOK', Follow, GuestCloses
    PROVE  Follow'
  <1>1. guest' = GuestIdle
    BY DEF GuestCloses
  <1> DEFINE k == InHand + OnWire
  <1>2. k \in Nat
    BY LensAre DEF Sound
  <1>3. Trimmed(k)
    BY GoneByClosing DEF Sound
  <1> HIDE DEF k
  <1>4. HeadsFollow'
    BY <1>2, <1>3, HeadsTrimmed DEF Sound, Follow
  <1> QED
    BY <1>1, <1>4, NoBodyFollows DEF Follow

\* Nothing is ahead on a new link.
LEMMA DialFollows ==
    ASSUME Sound, TypeOK', GuestDials
    PROVE  Follow'
  <1>1. guest' = GuestIdle /\ toGuest' = <<>> /\ host' = HostIdle
    BY DialKeeps
  <1>2. InHand' = 0 /\ OnWire' = 0 /\ Unsent' = 0
    BY <1>1, RestFits DEF InHand, OnWire, Unsent
  <1>3. Len(Ahead') = 0
    BY <1>2, LensWillBe
  <1>4. HeadsFollow'
    BY <1>3 DEF HeadsFollow
  <1> QED
    BY <1>1, <1>4, NoBodyFollows DEF Follow

\* Every step.
LEMMA FollowStep ==
    ASSUME Sound, Sound', Follow, [Next]_vars
    PROVE  Follow'
  <1>0. TypeOK'
    BY DEF Sound
  <1>1. ASSUME NEW p \in Op, HostBegin(p)
        PROVE  Follow'
    BY <1>0, <1>1, BeginFollows DEF Follow
  <1>2. ASSUME HostSends
        PROVE  Follow'
    <2>1. Trimmed(0) /\ guest' = guest /\ 0 \in Nat
      BY <1>0, <1>2, NothingGoneBySending DEF Sound, HostSends
    <2> QED
      BY <1>0, <2>1, HeadsTrimmed, BodyTrimmed DEF Sound, Follow
  <1>3. ASSUME HostReads
        PROVE  Follow'
    <2>1. /\ host.left = <<>> /\ (HostKeeps \/ HostReturns)
          /\ guest' = guest /\ toGuest' = toGuest /\ hostUp' = hostUp
      BY <1>3, HostReadsIs DEF Sound
    <2>2. host'.left = host.left
      BY <2>1, RestFits DEF HostKeeps, HostReturns
    <2> QED
      BY <1>0, <2>1, <2>2, QuietFollows
  <1>4. ASSUME HostGivesUp
        PROVE  Follow'
    <2>1. /\ host.left = <<>> /\ host' = HostIdle
          /\ guest' = guest /\ toGuest' = toGuest /\ hostUp' = hostUp
      BY <1>4 DEF HostGivesUp, Sound, HostAgrees
    <2> QED
      BY <1>0, <2>1, RestFits, QuietFollows
  <1>5. ASSUME HostEnd
        PROVE  Follow'
    <2>1. host' = HostIdle /\ guest' = guest /\ toGuest' = toGuest /\ ~hostUp'
      BY <1>5 DEF HostEnd
    <2> QED
      BY <1>0, <2>1, RestFits, QuietFollows
  <1>6. ASSUME GuestSendsFork
        PROVE  Follow'
    <2>1. /\ guest.pc = "sending" /\ hostUp' = hostUp /\ toGuest' = toGuest /\ host' = host
          /\ guest' = GuestIdle \/ (guest'.pc = "sending" /\ guest'.pre = guest.pre)
      BY <1>6, ForkIs DEF Sound
    <2>2. guest'.pre = guest.pre
      BY <2>1, RestFits DEF Sound, GuestAgrees
    <2>3. Trimmed(0) /\ 0 \in Nat
      BY <1>0, <2>1, <2>2, NothingGone DEF Sound
    <2> QED
      BY <1>0, <2>1, <2>3, HeadsTrimmed, NoBodyFollows DEF Sound, Follow
  <1>7. ASSUME UNCHANGED vars
        PROVE  Follow'
    BY <1>0, <1>7, QuietFollows DEF vars
  <1> QED
    BY <1>0, <1>1, <1>2, <1>3, <1>4, <1>5, <1>6, <1>7, TakeFollows, ReadFollows, CloseFollows,
       DialFollows
    DEF Next, HostLosesLink, HostRestarts, GuestLosesLink, GuestGivesUp, GuestDrainsNothing

-----------------------------------------------------------------------------
(* No file mixes two bodies *)

\* At the start there is nothing anywhere.
LEMMA StartIs ==
    ASSUME Init
    PROVE  Sound /\ Follow /\ ~hostUp /\ told.what = "none"
  <1>1. /\ toGuest = <<>> /\ toHost = <<>> /\ hostUp = FALSE /\ guestUp = FALSE
        /\ host = HostIdle /\ guest = GuestIdle /\ disk = NoFile /\ told = Nothing /\ slip = "none"
    BY DEF Init
  <1>2. NoFile \in File /\ NoFile.pure
    BY DEF NoFile, File
  <1>3. /\ Nothing \in [op : Op \union {NoOp},
                        what : {"none", "written", "failed", "file", "garbled"}, own : BOOLEAN]
        /\ Nothing.what = "none"
    BY DEF Nothing
  <1>4. TypeOK
    BY <1>1, <1>2, <1>3, RestFits, EmptySeq DEF TypeOK
  <1>5. HostAgrees
    BY <1>1, <1>3, RestFits DEF HostAgrees
  <1>6. GuestAgrees
    BY <1>1, RestFits DEF GuestAgrees, Receiving
  <1>7. FileGrows
    BY <1>1, <1>2, RestFits DEF FileGrows
  <1>8. BodyFollows
    BY <1>1, RestFits DEF BodyFollows, Receiving
  <1>9. HeadsFollow
    <2>1. InHand = 0 /\ OnWire = 0 /\ Unsent = 0
      BY <1>1, RestFits DEF InHand, OnWire, Unsent
    <2>2. Len(Ahead) = 0
      BY <1>4, <2>1, LensAre
    <2> QED
      BY <2>2 DEF HeadsFollow
  <1> QED
    BY <1>1, <1>3, <1>4, <1>5, <1>6, <1>7, <1>8, <1>9 DEF Sound, Follow

\* Whatever was left on the wire and whoever gave up, a file holds bytes of one put only,
\* each in its own fork: WriteFileVerb reads a body only behind the header that announced it.
THEOREM TransferHolds == Spec => []TransferInv
  <1>1. Init => Sound /\ Follow
    BY StartIs
  <1>2. (Sound /\ Follow) /\ [Next]_vars => (Sound /\ Follow)'
    <2> SUFFICES ASSUME Sound, Follow, [Next]_vars
                 PROVE  Sound' /\ Follow'
      OBVIOUS
    <2>1. Sound'
      BY SoundStep DEF Follow
    <2> QED
      BY <2>1, FollowStep
  <1>3. Sound /\ Follow => TransferInv
    BY DEF Sound, FileGrows, TransferInv, NeverMixed
  <1> QED
    BY <1>1, <1>2, <1>3, PTL DEF Spec

-----------------------------------------------------------------------------
(* One transfer at a time *)

One == Sound /\ Follow /\ OneTransfer

\* A link without a slip had none before, and only a new link starts without one.
LEMMA NoSlipBefore ==
    ASSUME Sound, Follow, [Next]_vars, slip' = "none", hostUp', ~GuestDials
    PROVE  slip = "none" /\ hostUp
  <1>1. ASSUME GuestReads
        PROVE  (slip' = "none" => slip = "none") /\ hostUp' = hostUp
    <2>1. (Stays \/ Ends) /\ hostUp' = hostUp
      BY <1>1, ReadIs DEF Sound, Follow
    <2> QED
      BY <2>1 DEF Stays, Ends, Strays
  <1>2. ASSUME GuestTakesRequest
        PROVE  (slip' = "none" => slip = "none") /\ hostUp' = hostUp
    <2>1. hostUp' = hostUp
      BY <1>2, TakesIs DEF Sound
    <2>2. \E n \in 1..Len(toGuest) : TakesPut(n) \/ Refuses(n) \/ TakesGet
      BY <1>2, TakesIs DEF Sound
    <2> QED
      BY <2>1, <2>2 DEF TakesPut, Refuses, TakesGet, Strays
  <1>3. ASSUME HostReads
        PROVE  UNCHANGED <<slip, hostUp>>
    BY <1>3, HostReadsIs DEF Sound
  <1>4. ASSUME NEW p \in Op, HostBegin(p)
        PROVE  UNCHANGED <<slip, hostUp>>
    BY <1>4 DEF HostBegin
  <1> QED
    BY <1>1, <1>2, <1>3, <1>4
    DEF Next, vars, HostSends, HostGivesUp, HostLosesLink, HostRestarts, HostEnd, GuestSendsFork,
        GuestDrainsNothing, GuestLosesLink, GuestGivesUp, GuestCloses

\* Rows are empty when their length is zero.
LEMMA EmptyIs ==
    ASSUME TypeOK
    PROVE  /\ Len(toHost) \in Nat /\ (toHost = <<>> <=> Len(toHost) = 0)
           /\ toGuest = <<>> <=> OnWire = 0
           /\ guest.pre = <<>> <=> InHand = 0
           /\ host.left = <<>> <=> Unsent = 0
  <1>1. /\ toHost \in Seq(Frame) /\ toGuest \in Seq(Unit) /\ guest.pre \in Seq(Unit)
        /\ host.left \in Seq(Unit)
    BY DEF TypeOK, GuestState, HostState
  <1> QED
    BY <1>1, EmptySeq, LenProperties DEF InHand, OnWire, Unsent

\* A frame on an empty link is alone there.
LEMMA FirstReply ==
    ASSUME TypeOK, toHost = <<>>, NEW f \in Frame, toHost' = Append(toHost, f)
    PROVE  Len(toHost') = 1 /\ toHost'[1] = f /\ toHost' # <<>>
  BY AppendProperties, EmptySeq

\* A step that trims nothing leaves what is ahead as it is.
LEMMA AheadStays ==
    ASSUME Trimmed(0), hostUp', TypeOK
    PROVE  /\ Len(Ahead') = Len(Ahead) /\ Len(Ahead) \in Nat
           /\ \A i \in 1..Len(Ahead) : Ahead'[i] = Ahead[i]
  <1>1. Len(Ahead) \in Nat /\ \A i \in 1..Len(Ahead) : Ahead[i] \in Unit
    BY AheadIs, LenProperties, ElementOfSeq
  <1>2. /\ Len(Ahead') = Len(Ahead) - 0
        /\ \A i \in 1..Len(Ahead') : Ahead'[i] = Ahead[i + 0]
    BY DEF Trimmed
  <1> QED
    BY <1>1, <1>2

\* A step that trims leaves units of the same transfer.
LEMMA OwnTrimmed ==
    ASSUME TypeOK, TypeOK', NEW k \in Nat, Trimmed(k), NEW p, \A i \in 1..Len(Ahead) : Ahead[i].op = p
    PROVE  \A i \in 1..Len(Ahead') : Ahead'[i].op = p
  <1> SUFFICES ASSUME NEW i \in 1..Len(Ahead')
               PROVE  Ahead'[i].op = p
    OBVIOUS
  <1>1. Len(Ahead) \in Nat /\ Len(Ahead') \in Nat /\ Len(Ahead') <= Len(Ahead) - k
        /\ Ahead'[i] = Ahead[i + k]
    BY LensAre, LensWillBe DEF Trimmed
  <1>2. i + k \in 1..Len(Ahead)
    BY <1>1
  <1> QED
    BY <1>1, <1>2

\* Between two transfers the link is empty, and the first thing on it is the next request.
LEMMA BeginAlone ==
    ASSUME One, Sound', NEW p \in Op, HostBegin(p), slip = "none", hostUp
    PROVE  Alone' /\ host'.pc # "idle"
  <1>0. host'.pc = "sending" /\ host'.op = p /\ host'.own
    BY BeginIs DEF One, Sound
  <1>1. /\ host'.pc = "sending" /\ host'.op = p /\ host'.own
        /\ UNCHANGED <<toGuest, hostUp, guestUp, guest, disk, slip>> /\ host.pc = "idle"
        /\ guestUp \/ toHost # <<>>
    BY <1>0 DEF HostBegin
  <1>2. Len(Ahead) = 0 /\ toHost = <<>> /\ guest.pc = "ready" /\ guestUp
    BY <1>1 DEF One, OneTransfer, Quiet
  <1>3. toHost' = <<>>
    <2>1. PICK n \in 0..Len(toHost) : toHost' = After(toHost, n)
      BY DEF HostBegin
    <2>2. Len(toHost) = 0 /\ toHost \in Seq(Frame)
      BY <1>2, EmptyIs DEF One, Sound, TypeOK
    <2>3. Len(After(toHost, n)) = Len(toHost) - n /\ After(toHost, n) \in Seq(Frame)
      BY <2>2, AfterIs
    <2>4. n = 0
      BY <2>2
    <2>5. Len(toHost') = 0 /\ toHost' \in Seq(Frame)
      BY <2>1, <2>2, <2>3, <2>4
    <2> QED
      BY <2>5, EmptySeq
  <1> DEFINE r == Request(p)
  <1>4. Len(Ahead') = Len(r) /\ \A j \in 1..Len(r) : Ahead'[j] = r[j]
    <2>1. /\ Len(Ahead') = Len(Ahead) + Len(r)
          /\ \A j \in 1..Len(r) : Ahead'[Len(Ahead) + j] = r[j]
      BY BeginAdds DEF One, Sound
    <2>2. Len(r) \in Nat
      BY RequestIs, LenProperties
    <2> QED
      BY <1>2, <2>1, <2>2
  <1>5. guest = GuestIdle /\ guest.op = NoOp
    BY <1>2, RestFits DEF One, Sound, GuestAgrees
  <1>6. CASE p \in Puts
    <2>1. Len(r) = Size(p) /\ Size(p) \in Nat /\ Size(p) >= 2 /\ \A j \in 1..Size(p) : r[j] = UnitOf(p, j)
      BY <1>6, RequestIs, SizesAre
    <2>2. \A j \in 1..Size(p) : UnitOf(p, j).op = p
      BY <2>1 DEF UnitOf
    <2>3. UnitOf(p, 1).part = "head"
      BY DEF UnitOf
    <2> HIDE DEF r
    <2>4. \A i \in 1..Len(Ahead') : Ahead'[i].op = p
      BY <1>4, <2>1, <2>2
    <2>5. Ahead'[1].part = "head" /\ Len(Ahead') = Size(p)
      <3>1. 1 \in 1..Size(p)
        BY <2>1
      <3> QED
        BY <1>4, <2>1, <2>3, <3>1
    <2>6. Size(host.op)' = Size(p)
      BY <1>1 DEF Size
    <2>7. Asked'
      BY <1>1, <1>3, <1>6, <2>5, <2>6 DEF Asked
    <2> QED
      BY <1>1, <1>2, <1>3, <1>5, <1>6, <2>4, <2>7, EmptySeq DEF Alone, PutAnswered, Receiving
  <1>7. CASE p \notin Puts
    <2> DEFINE u == [op |-> p, part |-> "get"]
    <2>1. r = <<u>> /\ u.op = p /\ u.part = "get"
      BY <1>7, RequestIs
    <2> HIDE DEF u
    <2>2. Len(r) = 1 /\ r[1] = u
      BY <2>1
    <2>3. Len(Ahead') = 1 /\ Ahead'[1] = u
      BY <1>4, <2>2
    <2>4. Asked'
      BY <1>1, <1>3, <1>7, <2>1, <2>3 DEF Asked
    <2> QED
      BY <1>1, <1>2, <1>3, <1>5, <1>7, <2>1, <2>3, <2>4 DEF Alone, GetAnswered, Receiving
  <1> QED
    BY <1>1, <1>6, <1>7

\* The host sends: what it sends stays ahead.
LEMMA SendAlone ==
    ASSUME One, Sound', HostSends, slip = "none", hostUp
    PROVE  Alone' /\ host'.pc # "idle"
  <1>1. /\ host.pc = "sending" /\ UNCHANGED <<toHost, hostUp, guestUp, guest, disk>>
        /\ TypeOK /\ TypeOK'
    BY DEF HostSends, One, Sound
  <1>2. /\ host'.op = host.op /\ host'.own = host.own /\ host'.pc \in {"waiting", "sending"}
    BY SendIs DEF One, Sound
  <1>3. /\ Len(Ahead') = Len(Ahead) /\ Len(Ahead) \in Nat
        /\ \A i \in 1..Len(Ahead) : Ahead'[i] = Ahead[i]
    <2>1. Trimmed(0)
      BY NothingGoneBySending DEF One, Sound
    <2> QED
      BY <1>1, <2>1, AheadStays
  <1>4. Alone
    BY <1>1 DEF One, OneTransfer
  <1>5. Due' = Due
    BY <1>1 DEF Due
  <1>6. Asked => Asked'
    <2>1. Len(Ahead) > 0 => Ahead'[1] = Ahead[1]
      BY <1>3
    <2>2. host.op \in Puts => Size(host.op) \in Nat /\ Size(host.op) >= 2
      BY SizesAre
    <2>3. Asked => Len(Ahead) > 0
      BY <2>2 DEF Asked
    <2>4. Size(host.op)' = Size(host.op)
      BY <1>2 DEF Size
    <2> QED
      BY <1>1, <1>2, <1>3, <2>1, <2>3, <2>4 DEF Asked
  <1>7. PutAnswered => PutAnswered'
    <2>1. Whole(host.op)' = Whole(host.op)
      BY <1>2 DEF Whole
    <2> QED
      BY <1>1, <1>2, <1>3, <2>1 DEF PutAnswered
  <1>8. GetAnswered => GetAnswered'
    BY <1>1, <1>2, <1>3 DEF GetAnswered
  <1> QED
    BY <1>1, <1>2, <1>3, <1>4, <1>5, <1>6, <1>7, <1>8 DEF Alone

\* The host lets go: then there is nothing left of the transfer.
LEMMA GiveUpAlone ==
    ASSUME One, Sound', HostGivesUp, slip' = "none", slip = "none"
    PROVE  Quiet' /\ host'.pc = "idle" /\ told'.what = "none"
  <1>1. /\ host.pc \in {"waiting", "reading"} /\ toHost = <<>> /\ host' = HostIdle
        /\ toGuest = <<>> /\ guest.pc = "ready" /\ told' = [Nothing EXCEPT !.op = host.op]
        /\ UNCHANGED <<toGuest, toHost, hostUp, guestUp, guest, disk>>
    BY DEF HostGivesUp
  <1>2. guest = GuestIdle
    BY <1>1 DEF One, Sound, GuestAgrees
  <1>3. InHand' = 0 /\ OnWire' = 0 /\ Unsent' = 0
    BY <1>1, <1>2, RestFits DEF InHand, OnWire, Unsent
  <1>4. Len(Ahead') = 0
    BY <1>3, LensWillBe DEF Sound
  <1> QED
    BY <1>1, <1>4, RestFits, ToldFits DEF Quiet, One, Sound

\* The host reads what was meant for it, and all of it.
LEMMA HostReadAlone ==
    ASSUME One, Sound', HostReads, slip = "none", hostUp
    PROVE  IF host'.pc = "idle"
           THEN /\ Quiet' /\ told'.own
                /\ told'.what = "written" => disk' = Whole(told'.op)
           ELSE Alone'
  <1>1. /\ toHost # <<>> /\ host.pc \in {"waiting", "reading"} /\ host.left = <<>>
        /\ hostUp /\ host.op \in Op /\ (HostKeeps \/ HostReturns)
        /\ UNCHANGED <<toGuest, hostUp, guestUp, guest, disk, slip>>
        /\ TypeOK /\ TypeOK'
    BY HostReadsIs DEF One, Sound
  <1>2. Alone
    BY <1>1 DEF One, OneTransfer
  <1>3. /\ Len(toHost) \in Nat \ {0} /\ Len(Tail(toHost)) = Len(toHost) - 1
        /\ \A i \in 1..(Len(toHost) - 1) : Tail(toHost)[i] = toHost[i + 1]
        /\ FirstIsOwn = (host.own /\ toHost[1].op = host.op)
    BY <1>1, FirstFrame
  <1>4. 1 \in 1..Len(toHost)
    BY <1>3
  <1>5. FirstIsOwn
    BY <1>2, <1>3, <1>4 DEF Alone
  <1>6. Len(Ahead) = 0
    BY <1>1, <1>2 DEF Alone, PutAnswered, GetAnswered
  <1>7. Puts \intersect Gets = {}
    BY TransferAssumption
  <1>8. guest.left \in Nat /\ (guest.pc = "sending" => guest.left > 0)
    BY DEF One, Sound, TypeOK, GuestState, GuestAgrees
  <1>9. CASE HostKeeps
    <2>1. /\ toHost' = Tail(toHost) /\ host'.op = host.op /\ host'.left = <<>> /\ host'.own
          /\ host'.pc \in {"waiting", "reading"}
      BY <1>1, <1>5, <1>9 DEF HostKeeps
    <2>2. host.op \notin Puts /\ GetAnswered
      BY <1>1, <1>2, <1>7, <1>9 DEF Alone, PutAnswered, HostKeeps
    <2>3. Len(Ahead') = 0
      <3>1. InHand' = InHand /\ OnWire' = OnWire /\ Unsent' = Unsent
        BY <1>1, <2>1 DEF InHand, OnWire, Unsent
      <3> QED
        BY <1>1, <1>6, <3>1, LensAre, LensWillBe
    <2>4. \A i \in 1..Len(toHost') : toHost'[i].op = host.op
      <3> SUFFICES ASSUME NEW i \in 1..(Len(toHost) - 1)
                   PROVE  toHost[i + 1].op = host.op
        BY <1>3, <2>1
      <3>1. i + 1 \in 1..Len(toHost)
        BY <1>3
      <3> QED
        BY <1>2, <3>1 DEF Alone
    <2>5. host'.pc = "reading" /\ Len(toHost') + guest.left <= host'.need
      <3>1. Len(toHost') = Len(toHost) - 1
        BY <1>3, <2>1
      <3>2. CASE host.pc = "waiting"
        <4>1. toHost[1].part = "file" /\ host'.need = toHost[1].len /\ host'.pc = "reading"
          BY <1>9, <2>2, <3>2 DEF HostKeeps
        <4>2. Len(toHost) + guest.left <= toHost[1].len + 1
          BY <1>1, <2>2, <3>2, <4>1 DEF GetAnswered
        <4>3. toHost[1].len \in Nat
          BY <1>1, FirstFrame DEF Frame
        <4> QED
          BY <1>3, <1>8, <3>1, <4>1, <4>2, <4>3
      <3>3. CASE host.pc = "reading"
        <4>1. host'.need = host.need - 1 /\ host'.pc = "reading"
          BY <1>9, <2>2, <3>3 DEF HostKeeps
        <4>2. Len(toHost) + guest.left <= host.need /\ host.need \in Nat
          BY <2>2, <3>3 DEF GetAnswered, One, Sound, TypeOK, HostState
        <4> QED
          BY <1>3, <1>8, <3>1, <4>1, <4>2
      <3> QED
        BY <1>1, <3>2, <3>3
    <2>6. GetAnswered'
      BY <1>1, <2>2, <2>3, <2>5 DEF GetAnswered
    <2>7. Due' = 0 /\ guest.pc \notin Receiving
      BY <1>1, <2>2 DEF Due, GetAnswered, Receiving
    <2> QED
      BY <1>1, <1>2, <2>1, <2>2, <2>3, <2>4, <2>6, <2>7 DEF Alone
  <1>10. CASE HostReturns
    <2>1. /\ host' = HostIdle /\ told'.op = host.op /\ told'.own
          /\ host.op \in Puts => host.pc = "waiting" /\ (told'.what = "written" => toHost[1].part = "written")
          /\ host.op \notin Puts => told'.what # "written"
      BY <1>5, <1>7, <1>10 DEF HostReturns
    <2>2. Len(toHost) = 1 /\ guest.pc = "ready"
      <3>1. CASE host.op \in Puts
        BY <1>1, <1>2, <3>1 DEF Alone, PutAnswered
      <3>2. CASE host.op \notin Puts
        <4>1. GetAnswered
          BY <1>2, <3>2 DEF Alone
        <4>2. CASE host.pc = "waiting"
          <5>1. toHost[1].part # "file" \/ toHost[1].len = 0
            BY <1>10, <3>2, <4>2 DEF HostReturns
          <5>2. \/ toHost[1].part = "failed" /\ Len(toHost) = 1 /\ guest.pc = "ready"
                \/ toHost[1].part = "file" /\ Len(toHost) + guest.left <= toHost[1].len + 1
            BY <1>1, <4>1, <4>2 DEF GetAnswered
          <5>3. ASSUME toHost[1].len = 0, Len(toHost) + guest.left <= toHost[1].len + 1
                PROVE  Len(toHost) = 1 /\ guest.left = 0
            BY <1>3, <1>8, <5>3
          <5> QED
            BY <1>8, <4>1, <5>1, <5>2, <5>3 DEF GetAnswered
        <4>3. CASE host.pc = "reading"
          <5>1. host.need = 1 /\ Len(toHost) + guest.left <= host.need
            BY <1>10, <3>2, <4>1, <4>3 DEF HostReturns, GetAnswered
          <5>2. Len(toHost) = 1 /\ guest.left = 0
            BY <1>3, <1>8, <5>1
          <5> QED
            BY <1>8, <4>1, <5>2 DEF GetAnswered
        <4> QED
          BY <1>1, <4>2, <4>3
      <3> QED
        BY <3>1, <3>2
    <2>3. toHost' = <<>>
      <3>1. PICK n \in 1..Len(toHost) : toHost' = After(toHost, n)
        BY <1>10 DEF HostReturns
      <3>2. n = 1 /\ n \in 0..Len(toHost) /\ toHost \in Seq(Frame)
        BY <1>1, <2>2 DEF TypeOK
      <3>3. Len(After(toHost, n)) = Len(toHost) - n /\ After(toHost, n) \in Seq(Frame)
        BY <3>2, AfterIs
      <3>4. Len(toHost') = 0 /\ toHost' \in Seq(Frame)
        BY <2>2, <3>1, <3>2, <3>3
      <3> QED
        BY <3>4, EmptySeq
    <2>4. Len(Ahead') = 0
      <3>1. InHand' = InHand /\ OnWire' = OnWire /\ Unsent' = 0 /\ Unsent = 0
        BY <1>1, <2>1, RestFits DEF InHand, OnWire, Unsent
      <3> QED
        BY <1>1, <1>6, <3>1, LensAre, LensWillBe
    <2>5. ASSUME told'.what = "written"
          PROVE  disk' = Whole(told'.op)
      <3>1. host.op \in Puts /\ toHost[1].part = "written"
        BY <2>1, <2>5
      <3> QED
        BY <1>1, <1>2, <2>1, <3>1 DEF Alone, PutAnswered
    <2> QED
      BY <1>1, <2>1, <2>2, <2>3, <2>4, <2>5, RestFits DEF Quiet
  <1> QED
    BY <1>1, <1>9, <1>10

\* The reply of a daemon that has read all there was is alone on the link.
LEMMA ReplyAlone ==
    ASSUME TypeOK, TypeOK', Alone, toHost = <<>>, hostUp, host.pc # "idle", host.op \in Op,
           UNCHANGED <<hostUp, guestUp, host>>,
           NEW status \in {"written", "failed"}, Replies(host.op, status), Len(Ahead') = 0,
           host.op \in Puts => (status = "written" => disk' = Whole(host.op)),
           host.op \notin Puts => status = "failed" /\ host.pc = "waiting"
    PROVE  Alone'
  <1> DEFINE f == [op |-> host.op, part |-> status, len |-> 0]
  <1>1. f \in Frame
    BY DEF Frame
  <1>2. f.op = host.op /\ f.part = status /\ guest' = GuestIdle /\ toHost' = Append(toHost, f)
    BY DEF Replies
  <1> HIDE DEF f
  <1>3. Len(toHost') = 1 /\ toHost'[1] = f /\ toHost' # <<>>
    BY <1>1, <1>2, FirstReply
  <1>4. guest'.pc = "ready" /\ guest'.op = NoOp /\ guest'.pc \notin Receiving
    BY <1>2, RestFits DEF Receiving
  <1>5. Due' = 0
    BY <1>4 DEF Due
  <1>6. ASSUME host.op \in Puts
        PROVE  PutAnswered'
    <2>1. Whole(host.op)' = Whole(host.op)
      BY DEF Whole
    <2> QED
      BY <1>2, <1>3, <1>4, <1>6, <2>1 DEF PutAnswered
  <1>7. ASSUME host.op \notin Puts
        PROVE  GetAnswered'
    BY <1>2, <1>3, <1>4, <1>7 DEF GetAnswered
  <1>8. \A i \in 1..Len(toHost') : toHost'[i].op = host.op
    BY <1>2, <1>3
  <1> QED
    BY <1>3, <1>4, <1>5, <1>6, <1>7, <1>8 DEF Alone

\* The daemon reads on in the put of the host, and there is nothing behind it.
LEMMA ReadAlone ==
    ASSUME One, Sound', GuestReads, slip' = "none", slip = "none", hostUp
    PROVE  Alone' /\ host.pc # "idle"
  <1>1. /\ Reads /\ guest.pc \in Receiving /\ guest.op \in Puts
        /\ Due \in Nat \ {0} /\ (Stays \/ Ends)
        /\ UNCHANGED <<hostUp, guestUp, host, told>> /\ TypeOK /\ TypeOK'
    BY ReadIs DEF One, Sound, Follow
  <1>2. host.pc # "idle" /\ Alone
    BY <1>1 DEF One, OneTransfer, Quiet, Receiving
  <1>3. guest.op = host.op /\ host.op \in Puts /\ host.op \in Op /\ PutAnswered
    BY <1>1, <1>2, SizesAre, TransferAssumption DEF Alone, Op
  <1>4. toHost = <<>> /\ Len(Ahead) = Due
    BY <1>1, <1>2, <1>3 DEF Alone, PutAnswered, Receiving
  <1>5. InHand \in Nat /\ Len(Ahead) \in Nat /\ Len(Ahead') \in Nat
    BY <1>1, LensAre, LensWillBe
  <1>6. CASE Stays
    <2>1. guest'.op = guest.op /\ guest'.pre = PreAfter /\ Due' = Due - 1 /\ toHost' = toHost
          /\ guest'.pc \in Receiving
      BY <1>6 DEF Stays
    <2>2. Trimmed(1)
      BY <1>1, <2>1, GoneByReading
    <2>3. Len(Ahead') = Len(Ahead) - 1
      BY <1>1, <2>2 DEF Trimmed
    <2>4. \A i \in 1..Len(Ahead') : Ahead'[i].op = host.op
      <3>1. 1 \in Nat
        OBVIOUS
      <3> QED
        BY <1>1, <1>2, <2>2, <3>1, OwnTrimmed DEF Alone
    <2>5. PutAnswered'
      BY <1>4, <2>1 DEF PutAnswered, Receiving
    <2> QED
      BY <1>1, <1>2, <1>3, <1>4, <2>1, <2>3, <2>4, <2>5 DEF Alone, Receiving
  <1>7. CASE Ends
    <2>1. PICK status \in {"written", "failed"} :
             /\ Replies(guest.op, status)
             /\ status = "written" => disk' = Whole(guest.op)
             /\ \/ Due = 1 /\ slip' = slip
                \/ status = "failed" /\ Strays(Due - 1 > Len(PreAfter))
      BY <1>7 DEF Ends
    <2>2. guest'.pre = <<>>
      BY <2>1, RestFits DEF Replies
    <2> DEFINE k == IF InHand > 0 THEN InHand ELSE 1
    <2>3. Trimmed(k)
      BY <1>1, <2>2, GoneByReading
    <2>4. Due <= k
      <3>1. CASE Due = 1
        BY <1>5, <3>1
      <3>2. CASE Strays(Due - 1 > Len(PreAfter))
        <4>1. ~(Due - 1 > Len(PreAfter))
          BY <3>2 DEF Strays
        <4>2. Len(PreAfter) = IF InHand > 0 THEN InHand - 1 ELSE 0
          <5>1. guest.pre \in Seq(Unit)
            BY <1>1, PreAfterIs
          <5>2. CASE guest.pre = <<>>
            BY <1>1, <5>2, EmptyIs, EmptySeq DEF PreAfter
          <5>3. CASE guest.pre # <<>>
            BY <5>1, <5>3, TailIs DEF PreAfter, InHand
          <5> QED
            BY <5>2, <5>3
        <4> QED
          BY <1>1, <1>5, <4>1, <4>2
      <3> QED
        BY <2>1, <3>1, <3>2
    <2> HIDE DEF k
    <2>5. Len(Ahead') = Len(Ahead) - k /\ k \in 0..Len(Ahead)
      BY <1>1, <2>3 DEF Trimmed
    <2>6. Len(Ahead') = 0
      BY <1>1, <1>4, <1>5, <2>4, <2>5
    <2> QED
      BY <1>1, <1>2, <1>3, <1>4, <2>1, <2>6, ReplyAlone
  <1> QED
    BY <1>1, <1>2, <1>6, <1>7

\* The daemon takes the request of the host, the first thing on the link.
LEMMA TakeAlone ==
    ASSUME One, Sound', GuestTakesRequest, slip' = "none", slip = "none", hostUp
    PROVE  Alone' /\ host.pc # "idle"
  <1>1. /\ guest = GuestIdle /\ guestUp /\ toGuest # <<>> /\ toGuest[1] \in Unit
        /\ UNCHANGED <<hostUp, guestUp, host, disk, told>> /\ TypeOK /\ TypeOK'
    BY TakesIs DEF One, Sound
  <1>2. PICK n \in 1..Len(toGuest) :
           toGuest' = After(toGuest, n) /\ (TakesPut(n) \/ Refuses(n) \/ TakesGet)
    BY TakesIs DEF One, Sound
  <1>3. /\ InHand = 0 /\ OnWire > 0 /\ Len(Ahead) > 0 /\ Ahead[1] = toGuest[1]
        /\ guest.pc = "ready"
    BY <1>1, TakenIsAhead, RestFits DEF One, Sound
  <1>4. host.pc # "idle" /\ Alone /\ host.op \in Op
    BY <1>1, <1>3 DEF One, OneTransfer, Quiet, Sound, HostAgrees
  <1>5. Asked /\ toHost = <<>>
    BY <1>1, <1>3, <1>4 DEF Alone, Asked
  <1>6. /\ Len(Ahead) = InHand + OnWire + Unsent /\ Len(Ahead) \in Nat
        /\ InHand \in Nat /\ OnWire \in Nat /\ Unsent \in Nat
        /\ Len(Ahead') = InHand' + OnWire' + Unsent' /\ Len(Ahead') \in Nat
    BY <1>1, LensAre, LensWillBe
  <1>7. toGuest[1].op = host.op
    <2>1. 1 \in 1..Len(Ahead)
      BY <1>3, <1>6
    <2> QED
      BY <1>3, <1>4, <2>1 DEF Alone
  <1>8. n \in Nat /\ n >= 1 /\ n <= OnWire
    BY <1>6 DEF OnWire
  <1>9. ASSUME host.op \notin Puts
        PROVE  toGuest[1].part = "get" /\ host.pc = "waiting" /\ Len(Ahead) = 1
    <2>1. Len(Ahead) = 1 /\ Ahead[1].part = "get"
      BY <1>5, <1>9 DEF Asked
    <2>2. host.left = <<>>
      <3> DEFINE x == InHand
      <3> DEFINE y == OnWire
      <3> DEFINE z == Unsent
      <3>1. x = 0 /\ y > 0 /\ x + y + z = 1 /\ y \in Nat /\ z \in Nat
        BY <1>3, <1>6, <2>1
      <3> HIDE DEF x, y, z
      <3>2. z = 0
        BY <3>1
      <3>3. Unsent = 0
        BY <3>2 DEF z
      <3> QED
        BY <1>1, <3>3, EmptyIs
    <2>3. host.pc # "sending" /\ host.pc # "reading"
      BY <1>3, <1>4, <1>9, <2>2 DEF Alone, GetAnswered, One, Sound, HostAgrees
    <2> QED
      BY <1>1, <1>3, <1>4, <2>1, <2>3 DEF TypeOK, HostState
  <1>10. CASE TakesPut(n)
    <2>1. /\ guest'.pre = SubSeq(toGuest, 2, n) /\ guest'.pc = "path"
          /\ guest'.op = host.op /\ toGuest[1].part = "head" /\ toHost' = toHost
      <3> DEFINE s == SubSeq(toGuest, 2, n)
      <3> HIDE DEF s
      <3>1. guest' = [pc |-> "path", op |-> toGuest[1].op, pre |-> s, left |-> 0]
        BY <1>10 DEF TakesPut, s
      <3> QED
        BY <1>7, <1>10, <3>1 DEF TakesPut, s
    <2>2. host.op \in Puts /\ Len(Ahead) = Size(host.op)
      BY <1>5, <1>9, <2>1 DEF Asked
    <2>3. Trimmed(1)
      BY <1>1, <1>2, <2>1, GoneByTaking
    <2>4. Len(Ahead') = Due'
      <3>1. Len(Ahead') = Len(Ahead) - 1
        BY <1>1, <2>3 DEF Trimmed
      <3>2. DataLen[host.op] \in Nat /\ RsrcLen[host.op] \in Nat
        BY <2>2, SizesAre
      <3>3. Due' = 1 + DataLen[host.op] + RsrcLen[host.op]
        BY <2>1 DEF Due
      <3> DEFINE d == DataLen[host.op]
      <3> DEFINE r == RsrcLen[host.op]
      <3>4. d \in Nat /\ r \in Nat /\ Due' = 1 + d + r /\ Len(Ahead) = 2 + d + r
        BY <2>2, <3>2, <3>3 DEF Size
      <3> HIDE DEF d, r
      <3> QED
        BY <3>1, <3>4
    <2>5. \A i \in 1..Len(Ahead') : Ahead'[i].op = host.op
      <3>1. 1 \in Nat
        OBVIOUS
      <3> QED
        BY <1>1, <1>4, <2>3, <3>1, OwnTrimmed DEF Alone
    <2>6. PutAnswered'
      BY <1>5, <2>1 DEF PutAnswered
    <2> QED
      BY <1>1, <1>4, <1>5, <2>1, <2>2, <2>4, <2>5, <2>6 DEF Alone
  <1>11. CASE Refuses(n)
    <2>1. Replies(host.op, "failed") /\ guest'.pre = <<>>
      BY <1>7, <1>11, RestFits DEF Refuses, Replies
    <2>2. Trimmed(n)
      BY <1>1, <1>2, <2>1, GoneByTaking
    <2>3. Len(Ahead') = Len(Ahead) - n /\ n <= Len(Ahead)
      BY <1>1, <2>2 DEF Trimmed
    <2>4. Len(Ahead') = 0
      <3>1. CASE host.op \notin Puts
        BY <1>6, <1>8, <1>9, <2>3, <3>1
      <3>2. CASE host.op \in Puts
        <4>1. toGuest[1].part = "head"
          BY <1>3, <1>5, <3>2 DEF Asked
        <4>2. ~BodyIsDue(host.op, toGuest')
          BY <1>2, <1>7, <1>11, <4>1 DEF Refuses, Strays
        <4>3. /\ ~(\E i \in 1..Len(toGuest') : toGuest'[i].op = host.op)
              /\ ~(\E i \in 1..Len(host.left) : host.left[i].op = host.op)
          BY <4>2 DEF BodyIsDue, RestOf
        <4>4. \A i \in 1..Len(Ahead') : Ahead'[i].op = host.op
          BY <1>1, <1>4, <1>8, <2>2, OwnTrimmed DEF Alone
        <4>5. SUFFICES ASSUME Len(Ahead') > 0
                       PROVE  FALSE
          BY <1>6
        <4>6. 1 \in 1..Len(Ahead')
          BY <1>6, <4>5
        <4>7. /\ Ahead'[1] = IF 1 <= InHand' THEN guest'.pre[1]
                             ELSE IF 1 <= InHand' + OnWire' THEN toGuest'[1 - InHand']
                             ELSE host'.left[1 - InHand' - OnWire']
              /\ InHand' \in Nat /\ OnWire' \in Nat /\ Unsent' \in Nat
          BY <1>1, <4>6, AheadWillBe
        <4>8. InHand' = 0 /\ host'.left = host.left /\ OnWire' = Len(toGuest') /\ Unsent' = Len(host.left)
          BY <1>1, <2>1 DEF InHand, OnWire, Unsent
        <4>9. Ahead'[1].op = host.op
          BY <4>4, <4>6
        <4>10. CASE OnWire' >= 1
          BY <4>3, <4>7, <4>8, <4>9, <4>10
        <4>11. CASE OnWire' = 0
          BY <1>6, <4>3, <4>5, <4>7, <4>8, <4>9, <4>11
        <4> QED
          BY <4>7, <4>10, <4>11
      <3> QED
        BY <3>1, <3>2
    <2>5. "failed" \in {"written", "failed"} /\ "failed" # "written"
      OBVIOUS
    <2> QED
      BY <1>1, <1>4, <1>5, <1>9, <2>1, <2>4, <2>5, ReplyAlone
  <1>12. CASE TakesGet
    <2>1. host.op \notin Puts /\ toGuest[1].part = "get"
      BY <1>3, <1>5, <1>12 DEF TakesGet, Asked
    <2> DEFINE len == disk.dataEnd + disk.rsrcEnd
    <2> DEFINE f == [op |-> toGuest[1].op, part |-> "file", len |-> len]
    <2>2. len \in Nat
      BY <1>1 DEF TypeOK, File
    <2> HIDE DEF len
    <2>3. f \in Frame /\ f.op = host.op /\ f.part = "file" /\ f.len = len
      BY <1>4, <1>7, <2>2 DEF Frame
    <2>4. /\ toHost' = Append(toHost, f)
          /\ guest' = IF len = 0 THEN GuestIdle
                      ELSE [pc |-> "sending", op |-> toGuest[1].op, pre |-> <<>>, left |-> len]
      BY <1>12 DEF TakesGet, len
    <2> HIDE DEF f
    <2>5. Len(toHost') = 1 /\ toHost'[1] = f /\ toHost' # <<>>
      BY <1>1, <1>5, <2>3, <2>4, FirstReply
    <2>6. /\ guest'.pc \in {"ready", "sending"} /\ guest'.pre = <<>> /\ guest'.op \in {host.op, NoOp}
          /\ guest'.left = len
      <3>1. CASE len = 0
        BY <2>4, <3>1, RestFits
      <3>2. CASE len # 0
        BY <1>7, <2>4, <3>2
      <3> QED
        BY <3>1, <3>2
    <2>7. Trimmed(n)
      BY <1>1, <1>2, <2>6, GoneByTaking
    <2>8. Len(Ahead') = 0
      <3>1. Len(Ahead') = Len(Ahead) - n
        BY <1>1, <2>7 DEF Trimmed
      <3> QED
        BY <1>6, <1>8, <1>9, <2>1, <3>1
    <2>9. GetAnswered'
      <3>1. Len(toHost') + guest'.left <= toHost'[1].len + 1
        BY <2>2, <2>3, <2>5, <2>6
      <3> QED
        BY <1>1, <1>9, <2>1, <2>3, <2>5, <2>6, <2>8, <3>1 DEF GetAnswered
    <2>10. \A i \in 1..Len(toHost') : toHost'[i].op = host.op
      BY <2>3, <2>5
    <2> QED
      BY <1>1, <1>4, <2>1, <2>6, <2>8, <2>9, <2>10 DEF Alone, Receiving
  <1> QED
    BY <1>2, <1>4, <1>10, <1>11, <1>12

\* The daemon sends a fork, never more than the host is to read.
LEMMA ForkAlone ==
    ASSUME One, Sound', GuestSendsFork, slip = "none", hostUp
    PROVE  Alone' /\ host.pc # "idle"
  <1>1. /\ guest.pc = "sending" /\ guest.op \in Op /\ guest.left \in Nat
        /\ guest'.left \in Nat /\ TypeOK /\ TypeOK'
        /\ \/ guest' = GuestIdle
           \/ guest'.pc = "sending" /\ guest'.op = guest.op /\ guest'.pre = guest.pre
        /\ UNCHANGED <<toGuest, hostUp, guestUp, host, disk, told, slip>>
    BY ForkIs DEF One, Sound, TypeOK, GuestState
  <1>2. host.pc # "idle" /\ Alone
    BY <1>1 DEF One, OneTransfer, Quiet
  <1>3. host.op \notin Puts /\ GetAnswered /\ guest.op = host.op /\ Len(Ahead) = 0
    BY <1>1, <1>2, TransferAssumption DEF Alone, PutAnswered, GetAnswered
  <1>4. Len(Ahead') = 0
    <2>1. guest'.pre = guest.pre /\ guest.pre = <<>>
      BY <1>1, RestFits DEF One, Sound, GuestAgrees
    <2>2. InHand' = InHand /\ OnWire' = OnWire /\ Unsent' = Unsent
      BY <1>1, <2>1 DEF InHand, OnWire, Unsent
    <2> QED
      BY <1>1, <1>3, <2>2, LensAre, LensWillBe
  <1>5. /\ guest'.pc \in {"ready", "sending"} /\ guest'.op \in {host.op, NoOp}
        /\ guest'.pc \notin Receiving
    BY <1>1, <1>3, RestFits DEF Receiving
  <1>6. toHost \in Seq(Frame) /\ Len(toHost) \in Nat /\ (toHost = <<>> <=> Len(toHost) = 0)
    BY <1>1, EmptyIs DEF TypeOK
  <1>7. /\ Len(toHost') \in Nat /\ Len(toHost') + guest'.left <= Len(toHost) + guest.left
        /\ toHost # <<>> => toHost' # <<>> /\ toHost'[1] = toHost[1]
        /\ \A i \in 1..Len(toHost') : toHost'[i].op = host.op
    <2> DEFINE f == [op |-> guest.op, part |-> "bytes", len |-> 0]
    <2>1. \/ toHost' = Append(toHost, f) /\ guest'.left = guest.left - 1
          \/ toHost' = toHost /\ guest'.left < guest.left
      BY ForkIs DEF One, Sound
    <2>2. f \in Frame /\ f.op = host.op
      BY <1>1, <1>3 DEF Frame
    <2> HIDE DEF f
    <2>3. CASE toHost' = Append(toHost, f) /\ guest'.left = guest.left - 1
      <3>1. /\ Len(toHost') = Len(toHost) + 1 /\ toHost' # <<>>
            /\ \A i \in 1..Len(toHost) : toHost'[i] = toHost[i]
            /\ toHost'[Len(toHost) + 1] = f
        BY <1>6, <2>2, <2>3, AppendProperties
      <3>2. toHost # <<>> => 1 \in 1..Len(toHost)
        BY <1>6
      <3>3. \A i \in 1..Len(toHost') : toHost'[i].op = host.op
        <4> SUFFICES ASSUME NEW i \in 1..Len(toHost')
                     PROVE  toHost'[i].op = host.op
          OBVIOUS
        <4>1. i \in 1..Len(toHost) \/ i = Len(toHost) + 1
          BY <1>6, <3>1
        <4> QED
          BY <1>2, <2>2, <3>1, <4>1 DEF Alone
      <3> QED
        BY <1>1, <1>6, <2>3, <3>1, <3>2, <3>3
    <2>4. CASE toHost' = toHost /\ guest'.left < guest.left
      BY <1>1, <1>2, <1>6, <2>4 DEF Alone
    <2> QED
      BY <2>1, <2>3, <2>4
  <1>8. GetAnswered'
    <2>1. host.pc # "sending"
      BY <1>1, <1>3 DEF GetAnswered
    <2>2. ASSUME host.pc = "waiting"
          PROVE  /\ toHost # <<>> /\ toHost' # <<>> /\ toHost'[1].part = "file"
                 /\ Len(toHost') + guest'.left <= toHost'[1].len + 1
      <3>1. /\ toHost # <<>> /\ toHost[1].part = "file"
            /\ Len(toHost) + guest.left <= toHost[1].len + 1
        BY <1>1, <1>3, <2>2 DEF GetAnswered
      <3>2. toHost[1].len \in Nat
        BY <1>1, <3>1, FirstFrame DEF Frame
      <3>3. toHost'[1] = toHost[1] /\ toHost' # <<>>
        BY <1>7, <3>1
      <3> DEFINE l == toHost[1].len
      <3>4. l \in Nat /\ toHost'[1].len = l /\ Len(toHost) + guest.left <= l + 1
        BY <3>1, <3>2, <3>3
      <3> HIDE DEF l
      <3>5. Len(toHost') + guest'.left <= l + 1
        BY <1>1, <1>6, <1>7, <3>4
      <3> QED
        BY <3>1, <3>3, <3>4, <3>5
    <2>3. ASSUME host.pc = "reading"
          PROVE  Len(toHost') + guest'.left <= host.need
      <3>1. Len(toHost) + guest.left <= host.need /\ host.need \in Nat
        BY <1>1, <1>3, <2>3 DEF GetAnswered, TypeOK, HostState
      <3> QED
        BY <1>1, <1>6, <1>7, <3>1
    <2> QED
      BY <1>1, <1>4, <1>5, <2>1, <2>2, <2>3 DEF GetAnswered
  <1> QED
    BY <1>1, <1>2, <1>3, <1>4, <1>5, <1>7, <1>8 DEF Alone

\* The daemon gives the link up in the middle of the transfer.
LEMMA CloseAlone ==
    ASSUME One, Sound', GuestGivesUp, slip = "none", hostUp
    PROVE  Alone' /\ host.pc # "idle"
  <1>1. /\ guest.pc \in {"path", "data", "rsrc", "sending"} /\ ~guestUp' /\ guest' = GuestIdle
        /\ UNCHANGED <<toHost, hostUp, host, disk, told, slip>>
        /\ TypeOK /\ TypeOK' /\ GuestCloses
    BY DEF GuestGivesUp, GuestCloses, One, Sound
  <1>2. host.pc # "idle" /\ Alone
    BY <1>1 DEF One, OneTransfer, Quiet
  <1>3. /\ guest'.pc = "ready" /\ guest'.op = NoOp /\ guest'.left = 0 /\ guest'.pc \notin Receiving
    BY <1>1, RestFits DEF Receiving
  <1> DEFINE k == InHand + OnWire
  <1>4. k \in Nat
    BY <1>1, LensAre
  <1>5. Trimmed(k)
    BY <1>1, GoneByClosing
  <1> HIDE DEF k
  <1>6. \A i \in 1..Len(Ahead') : Ahead'[i].op = host.op
    BY <1>1, <1>2, <1>4, <1>5, OwnTrimmed DEF Alone
  <1>7. Len(Ahead) \in Nat /\ Len(Ahead') \in Nat /\ Len(Ahead') <= Len(Ahead)
    BY <1>1, <1>4, <1>5, LensAre, LensWillBe DEF Trimmed
  <1>8. CASE host.op \in Puts
    <2>1. toHost = <<>>
      BY <1>1, <1>2, <1>8 DEF Alone, PutAnswered
    <2>2. PutAnswered'
      BY <1>1, <1>3, <2>1 DEF PutAnswered
    <2> QED
      BY <1>1, <1>2, <1>3, <1>6, <1>8, <2>2 DEF Alone
  <1>9. CASE host.op \notin Puts
    <2>1. GetAnswered /\ guest.pc = "sending" /\ Len(Ahead) = 0 /\ host.pc # "sending"
      BY <1>1, <1>2, <1>9 DEF Alone, GetAnswered
    <2>2. Len(Ahead') = 0
      BY <1>7, <2>1
    <2>3. Len(toHost) \in Nat /\ guest.left \in Nat
      BY <1>1, EmptyIs DEF TypeOK, GuestState
    <2>4. ASSUME host.pc = "waiting", toHost # <<>>, toHost[1].part = "file"
          PROVE  Len(toHost) + guest'.left <= toHost[1].len + 1
      <3>1. Len(toHost) + guest.left <= toHost[1].len + 1
        BY <2>1, <2>4 DEF GetAnswered
      <3>2. toHost[1].len \in Nat
        BY <1>1, <2>4, FirstFrame DEF Frame
      <3> QED
        BY <1>3, <2>3, <3>1, <3>2
    <2>5. ASSUME host.pc = "reading"
          PROVE  Len(toHost) + guest'.left <= host.need
      <3>1. Len(toHost) + guest.left <= host.need /\ host.need \in Nat
        BY <1>1, <2>1, <2>5 DEF GetAnswered, TypeOK, HostState
      <3> QED
        BY <1>3, <2>3, <3>1
    <2>6. GetAnswered'
      BY <1>1, <1>3, <2>1, <2>2, <2>4, <2>5 DEF GetAnswered
    <2> QED
      BY <1>1, <1>2, <1>3, <1>6, <1>9, <2>6 DEF Alone
  <1> QED
    BY <1>2, <1>8, <1>9

\* A new link is quiet.
LEMMA DialAlone ==
    ASSUME One, Sound', GuestDials
    PROVE  Quiet' /\ host'.pc = "idle" /\ told'.what = "none"
  <1>1. /\ guest' = GuestIdle /\ toGuest' = <<>> /\ host' = HostIdle /\ toHost' = <<>>
        /\ told' = Nothing
    BY DialKeeps DEF One
  <1>2. InHand' = 0 /\ OnWire' = 0 /\ Unsent' = 0
    BY <1>1, RestFits DEF InHand, OnWire, Unsent
  <1>3. Len(Ahead') = 0
    BY <1>2, LensWillBe DEF Sound
  <1> QED
    BY <1>1, <1>3, RestFits, ToldFits DEF Quiet, One, Sound

\* What a transfer returned is its own, and a put that was written is on the disk.
TellsTrue == OwnAnswers /\ WrittenMeansWhole

\* Every step.
LEMMA OneStep ==
    ASSUME One, Sound', [Next]_vars
    PROVE  OneTransfer'
  <1> SUFFICES ASSUME slip' = "none", hostUp'
               PROVE  IF host'.pc = "idle" THEN Quiet' ELSE Alone'
    BY DEF OneTransfer
  <1>1. CASE GuestDials
    BY <1>1, DialAlone
  <1>2. CASE ~GuestDials
    <2>1. slip = "none" /\ hostUp
      BY <1>2, NoSlipBefore DEF One
    <2>2. ASSUME NEW p \in Op, HostBegin(p)
          PROVE  Alone' /\ host'.pc # "idle"
      BY <2>1, <2>2, BeginAlone
    <2>3. ASSUME GuestTakesRequest \/ GuestReads \/ GuestSendsFork \/ GuestGivesUp
          PROVE  Alone' /\ host'.pc # "idle"
      <3>1. host' = host
        BY <2>3, TakesIs, ReadIs, ForkIs DEF GuestGivesUp, GuestCloses, One, Sound, Follow
      <3> QED
        BY <2>1, <2>3, <3>1, TakeAlone, ReadAlone, ForkAlone, CloseAlone
    <2>4. ASSUME HostLosesLink \/ HostRestarts \/ GuestLosesLink
          PROVE  FALSE
      BY <2>1, <2>4 DEF HostLosesLink, HostRestarts, HostEnd, GuestLosesLink
    <2>5. ASSUME UNCHANGED vars
          PROVE  IF host'.pc = "idle" THEN Quiet' ELSE Alone'
      <3>1. IF host.pc = "idle" THEN Quiet ELSE Alone
        BY <2>1 DEF One, OneTransfer
      <3>2. Ahead' = Ahead /\ Due' = Due
        BY <2>5 DEF vars, Ahead, Due
      <3>3. Quiet => Quiet'
        BY <2>5, <3>2 DEF vars, Quiet
      <3>4. Alone => Alone'
        <4>1. (PutAnswered => PutAnswered') /\ (GetAnswered => GetAnswered') /\ (Asked => Asked')
          BY <2>5, <3>2 DEF vars, PutAnswered, GetAnswered, Asked, Whole, Size
        <4> QED
          BY <2>5, <3>2, <4>1 DEF vars, Alone
      <3> QED
        BY <2>5, <3>1, <3>3, <3>4 DEF vars
    <2> QED
      BY <1>2, <2>1, <2>2, <2>3, <2>4, <2>5, SendAlone, HostReadAlone, GiveUpAlone
      DEF Next, GuestDrainsNothing
  <1> QED
    BY <1>1, <1>2

\* What a transfer returned stays true: it was so when it returned, and afterwards nothing
\* touches the disk until the next one begins.
LEMMA TellsStep ==
    ASSUME One, Sound', TellsTrue, [Next]_vars
    PROVE  TellsTrue'
  <1> SUFFICES ASSUME slip' = "none", told'.what # "none"
               PROVE  told'.own /\ (told'.what = "written" => disk' = Whole(told'.op))
    BY DEF TellsTrue, OwnAnswers, WrittenMeansWhole, Whole
  <1>1. hostUp' /\ host'.pc = "idle"
    BY DEF Sound, HostAgrees
  <1>2. ~GuestDials
    BY DialAlone
  <1>3. slip = "none" /\ hostUp
    BY <1>1, <1>2, NoSlipBefore DEF One
  <1>4. ASSUME told' = told, disk' = disk
        PROVE  told'.own /\ (told'.what = "written" => disk' = Whole(told'.op))
    BY <1>3, <1>4 DEF TellsTrue, OwnAnswers, WrittenMeansWhole
  <1>5. ASSUME HostReads
        PROVE  told'.own /\ (told'.what = "written" => disk' = Whole(told'.op))
    BY <1>1, <1>3, <1>5, HostReadAlone
  <1>6. ASSUME NEW p \in Op, HostBegin(p)
        PROVE  FALSE
    BY <1>6, ToldFits DEF HostBegin, One, Sound
  <1>7. ASSUME HostGivesUp \/ HostLosesLink \/ HostRestarts
        PROVE  FALSE
    BY <1>1, <1>3, <1>7, GiveUpAlone DEF HostLosesLink, HostRestarts, HostEnd
  <1>8. ASSUME GuestReads
        PROVE  FALSE
    <2>1. told' = told /\ host' = host
      BY <1>8, ReadIs DEF One, Sound, Follow
    <2> QED
      BY <1>1, <1>3, <1>8, <2>1, ReadAlone
  <1>9. ASSUME HostSends \/ GuestTakesRequest \/ GuestSendsFork \/ GuestDrainsNothing
               \/ GuestLosesLink \/ GuestGivesUp \/ UNCHANGED vars
        PROVE  told' = told /\ disk' = disk
    BY <1>9, TakesIs, ForkIs
    DEF HostSends, GuestDrainsNothing, GuestLosesLink, GuestGivesUp, GuestCloses, One, Sound, vars
  <1> QED
    BY <1>2, <1>4, <1>5, <1>6, <1>7, <1>8, <1>9 DEF Next

\* The inductive invariant holds.
THEOREM InvHolds == Spec => []IInv
  <1> DEFINE I == Sound /\ Follow /\ OneTransfer /\ TellsTrue
  <1>1. Init => I
    BY StartIs DEF OneTransfer, TellsTrue, OwnAnswers, WrittenMeansWhole
  <1>2. I /\ [Next]_vars => I'
    <2> SUFFICES ASSUME I, [Next]_vars
                 PROVE  I'
      OBVIOUS
    <2>1. Sound'
      BY SoundStep DEF Follow
    <2>2. Follow'
      BY <2>1, FollowStep
    <2>3. One
      BY DEF One
    <2> QED
      BY <2>1, <2>2, <2>3, OneStep, TellsStep
  <1>3. I => IInv
    BY DEF Sound, Follow, TellsTrue, IInv
  <1> HIDE DEF I
  <1> QED
    BY <1>1, <1>2, <1>3, PTL DEF Spec

\* A transfer answers itself: put_file and get_file never return the reply of another transfer,
\* as long as no request was left half read on the link and no transfer given up with a reply
\* still to come.
THEOREM OwnAnswersHold == Spec => []OwnAnswers
  <1>1. IInv => OwnAnswers
    BY DEF IInv
  <1> QED
    BY <1>1, InvHolds, PTL

\* On such a link "Written" means that both forks are on the disk, to the last unit of that put.
THEOREM WrittenHolds == Spec => []WrittenMeansWhole
  <1>1. IInv => WrittenMeansWhole
    BY DEF IInv
  <1> QED
    BY <1>1, InvHolds, PTL

=============================================================================
