------------------------ MODULE SessionChannelProofs ------------------------
(***************************************************************************)
(* The inductive invariant of SessionChannel: whose stamp a note bears,    *)
(* which answers are where, and what a session has been told of.           *)
(***************************************************************************)
EXTENDS SessionChannel, SequenceTheorems, WellFoundedInduction, TLAPS

-----------------------------------------------------------------------------
(* Sets of lines, and the greatest of a set of stamps *)

\* What an appended line adds to the lines.
LEMMA AppendAdds ==
    ASSUME NEW S, NEW lines \in Seq(S), NEW n \in S
    PROVE  ToSet(Append(lines, n)) = ToSet(lines) \union {n}
  <1>1. /\ Len(Append(lines, n)) = Len(lines) + 1 /\ Len(lines) \in Nat
        /\ DOMAIN lines = 1..Len(lines)
        /\ Append(lines, n) \in Seq(S)
        /\ \A i \in 1..Len(lines) : Append(lines, n)[i] = lines[i]
        /\ Append(lines, n)[Len(lines) + 1] = n
    BY AppendProperties, LenProperties
  <1>2. DOMAIN Append(lines, n) = 1..(Len(lines) + 1)
    BY <1>1, LenProperties
  <1> QED
    BY <1>1, <1>2 DEF ToSet

\* The lines of a file are notes.
LEMMA LinesAre ==
    ASSUME NEW S, NEW lines \in Seq(S)
    PROVE  /\ ToSet(lines) \subseteq S
           /\ DOMAIN lines = 1..Len(lines) /\ Len(lines) \in Nat
           /\ \A n : n \in ToSet(lines) <=> \E i \in 1..Len(lines) : n = lines[i]
  BY LenProperties, ElementOfSeq DEF ToSet

\* A set of numbers with a bound has a greatest member.
LEMMA MaxIs ==
    ASSUME NEW N \in Nat, NEW S \in SUBSET (0..N), S # {}
    PROVE  Max(S) \in S /\ \A y \in S : y <= Max(S)
  <1> DEFINE T == {N - y : y \in S}
  <1>1. T \subseteq Nat /\ T # {}
    <2>1. \A y \in S : N - y \in Nat
      OBVIOUS
    <2>2. PICK y \in S : TRUE
      OBVIOUS
    <2>3. N - y \in T
      BY <2>2
    <2> QED
      BY <2>1, <2>3
  <1>2. PICK t \in T : \A u \in T : ~(<<u, t>> \in OpToRel(<, Nat))
    BY <1>1, NatLessThanWellFounded, WFMin
  <1>3. \A u \in T : ~(u < t)
    BY <1>1, <1>2 DEF OpToRel
  <1>4. PICK x \in S : t = N - x
    OBVIOUS
  <1>5. \A y \in S : x >= y
    BY <1>3, <1>4
  <1> HIDE DEF T
  <1>6. \A y \in S : Max(S) >= y
    BY <1>5 DEF Max
  <1>7. Max(S) \in S
    BY <1>5 DEF Max
  <1> QED
    BY <1>6, <1>7

\* Stamps are small numbers.
LEMMA StampsAre ==
    /\ MaxStamp \in Nat /\ NoStamp \in 0..MaxStamp
    /\ \A n \in Note : n.ts \in 1..MaxStamp /\ n.re \in 0..MaxStamp
  BY ChannelAssumption DEF Note, Stamps, NoStamp

\* A clock shows a number, whoever reads it.
LEMMA ClocksAre ==
    ASSUME TypeOK
    PROVE  /\ taken \subseteq 1..MaxStamp /\ MaxStamp \in Nat
           /\ \A s \in Session : HostOf[s] \in Host /\ clock[HostOf[s]] \in Nat
           /\ \A n \in Note : HostOf[n.from] \in Host /\ clock[HostOf[n.from]] \in Nat
  <1>1. taken \subseteq 1..MaxStamp /\ MaxStamp \in Nat
    BY StampsAre DEF TypeOK, Stamps
  <1>2. \A s \in Session : HostOf[s] \in Host /\ clock[HostOf[s]] \in Nat
    BY <1>1, ChannelAssumption DEF TypeOK
  <1> QED
    BY <1>1, <1>2 DEF Note

\* The last stamp of a session is that of one of its lines, and none is later.
LEMMA LastByIs ==
    ASSUME NEW lines \in Seq(Note), NEW s \in Session
    PROVE  /\ LastBy(lines, s) \in 0..MaxStamp
           /\ \A n \in ToSet(lines) : n.from = s => n.ts <= LastBy(lines, s)
           /\ LastBy(lines, s) # NoStamp =>
                 \E n \in ToSet(lines) : n.from = s /\ n.ts = LastBy(lines, s)
  <1> DEFINE S == AskedBy(lines, s) \union {NoStamp}
  <1>1. S \in SUBSET (0..MaxStamp) /\ S # {} /\ MaxStamp \in Nat
    <2>1. ToSet(lines) \subseteq Note
      BY LinesAre
    <2> QED
      BY <2>1, StampsAre DEF AskedBy
  <1>2. Max(S) \in S /\ \A y \in S : y <= Max(S)
    <2> HIDE DEF S
    <2> QED
      BY <1>1, MaxIs
  <1>3. LastBy(lines, s) = Max(S)
    BY DEF LastBy
  <1> HIDE DEF Max
  <1> QED
    BY <1>1, <1>2, <1>3 DEF AskedBy

\* The baseline of a watcher is a stamp, and no earlier than what it has noted.
LEMMA BaselineIs ==
    ASSUME NEW lines \in Seq(Note), NEW s \in Session, NEW seen \in 0..MaxStamp
    PROVE  BaselineFor(lines, s, seen) \in seen..MaxStamp
  <1> DEFINE T == {n.ts : n \in ToSet(lines)} \union {NoStamp}
  <1>1. T \in SUBSET (0..MaxStamp) /\ T # {} /\ MaxStamp \in Nat
    <2>1. ToSet(lines) \subseteq Note
      BY LinesAre
    <2> QED
      BY <2>1, StampsAre
  <1>2. LatestTs(lines) \in 0..MaxStamp
    <2> HIDE DEF T
    <2>1. Max(T) \in T
      BY <1>1, MaxIs
    <2>2. LatestTs(lines) = Max(T)
      BY DEF LatestTs, T
    <2> QED
      BY <1>1, <2>1, <2>2
  <1> DEFINE S == {seen, IF LastBy(lines, s) # NoStamp THEN LastBy(lines, s) ELSE LatestTs(lines)}
  <1>3. S \in SUBSET (0..MaxStamp) /\ S # {} /\ seen \in S
    BY <1>2, LastByIs
  <1>4. BaselineFor(lines, s, seen) = Max(S)
    BY DEF BaselineFor
  <1> HIDE DEF S
  <1>5. Max(S) \in S /\ \A y \in S : y <= Max(S)
    BY <1>1, <1>3, MaxIs
  <1>6. Max(S) \in 0..MaxStamp /\ seen <= Max(S)
    BY <1>3, <1>5
  <1> QED
    BY <1>1, <1>4, <1>6

-----------------------------------------------------------------------------
(* The inductive invariant *)

\* A session that has taken a stamp and not written it.
Holds(s) == sess[s].pc \in {"append", "rename", "mark"}

\* No two lines bear one stamp, and no line one that a session still holds.
FreshStamps ==
    /\ \A n \in Kept : n.ts \in taken /\ n.ts <= clock[HostOf[n.from]]
    /\ \A m, n \in Kept : m.ts = n.ts => m = n
    /\ \A o \in Session : watch[o].woken \subseteq taken
    /\ \A s \in Session : Holds(s) =>
          /\ sess[s].ts \in taken /\ sess[s].ts <= clock[HostOf[s]]
          /\ \A o \in Session : sess[s].ts \notin watch[o].woken
          /\ \A n \in Kept : n.ts # sess[s].ts /\ n.re # sess[s].ts
          /\ \A o \in Session : Holds(o) /\ sess[o].ts = sess[s].ts => o = s

\* What names a line is an answer to the session that wrote that line.
Names(re, kind, to) ==
    re # NoStamp =>
        /\ kind = "answer" /\ re \in taken
        /\ \A q \in Kept : q.ts = re => q.from = to

Answering == {"check", "stamp", "append"}

\* So it is with the answers in the files, and with those still to be written.
AnswersAreMeant ==
    /\ \A a \in Kept : Names(a.re, a.kind, a.to)
    /\ \A s \in Session : sess[s].pc \in Answering =>
          /\ Names(sess[s].re, sess[s].kind, sess[s].to)
          /\ \A o \in Session : Holds(o) => sess[o].ts # sess[s].re

\* A question in these lines has its answer among them, or crossed something.
AnsweredIn(lines) ==
    \A q \in ToSet(lines) :
        q.kind = "question" => q.ts \in crossing \/ \E a \in ToSet(lines) : a.re = q.ts

\* So it is in every archive, and in the channel while a rotation is under way.
FilesAreAnswered ==
    /\ \A second \in 0..MaxStamp : AnsweredIn(archive[second])
    /\ (\E s \in Session : sess[s].pc = "rename") => AnsweredIn(live)

\* What one clock has stamped and is out of order crossed something, and whoever holds an
\* earlier stamp of it knows.
InOrder ==
    /\ \A i, j \in 1..Len(live) : i < j /\ live[i].ts > live[j].ts =>
          live[i].ts \in crossing \/ ~SameClock(live[i], live[j])
    /\ \A s \in Session : Holds(s) => \A n \in ToSet(live) :
          n.ts > sess[s].ts /\ HostOf[n.from] = HostOf[s] => sess[s].crossed /\ n.ts \in crossing

\* A session that is about to write has found what came for it.
FoundWaiting ==
    \A s \in Session \ Remote :
        /\ sess[s].pc \in {"stamp", "append"} => \A n \in InboxFor(live, s) :
              Before(s, n) => n.ts \in sess[s].waiting \union heard[s] \union crossing \/ Behind(s, n)
        /\ sess[s].pc = "mark" => \A n \in ToSet(live) : n.ts \in crossing

\* A line with this stamp stands above one that a clock further behind has stamped.
Ahead(ts) == \A i \in 1..Len(live) : live[i].ts = ts => \E j \in 1..Len(live) : Skewed(i, j)

\* What a watcher woke for beyond the last line it noted had crossed something, or stands
\* above a line of another clock.
WokenInOrder ==
    \A s \in Session :
        /\ watch[s].on => watch[s].seen <= watch[s].base
        /\ \A ts \in watch[s].woken : ts > watch[s].seen => ts \in crossing \/ Ahead(ts)

IInv ==
    /\ TypeOK /\ FreshStamps /\ AnswersAreMeant /\ FilesAreAnswered
    /\ InOrder /\ FoundWaiting /\ WokenInOrder /\ CrossingNotice

-----------------------------------------------------------------------------
(* What a step does to the files *)

\* The lines that are kept are notes, those of the channel among them.
LEMMA KeptAre ==
    ASSUME TypeOK
    PROVE  /\ Kept \subseteq Note /\ ToSet(live) \subseteq Kept
           /\ DOMAIN archive = 0..MaxStamp
           /\ \A second \in 0..MaxStamp : ToSet(archive[second]) \subseteq Kept
  <1>1. DOMAIN archive = 0..MaxStamp /\ \A second \in 0..MaxStamp : archive[second] \in Seq(Note)
    BY DEF TypeOK
  <1>2. /\ ToSet(live) \subseteq Note
        /\ \A second \in 0..MaxStamp : ToSet(archive[second]) \subseteq Note
    BY <1>1, LinesAre DEF TypeOK
  <1> QED
    BY <1>1, <1>2 DEF Kept

\* A line that lands is added to them.
LEMMA KeptGrows ==
    ASSUME TypeOK, NEW n \in Note, live' = Append(live, n), archive' = archive
    PROVE  /\ Kept' = Kept \union {n} /\ ToSet(live)' = ToSet(live) \union {n}
           /\ Len(live') = Len(live) + 1 /\ Len(live) \in Nat
           /\ \A i \in 1..Len(live) : live'[i] = live[i]
           /\ live'[Len(live) + 1] = n
           /\ live' \in Seq(Note)
  <1>1. live \in Seq(Note)
    BY DEF TypeOK
  <1>2. ToSet(live') = ToSet(live) \union {n}
    BY <1>1, AppendAdds
  <1> QED
    BY <1>1, <1>2, AppendProperties, LenProperties DEF Kept

\* A rename moves lines, and may replace some.
LEMMA KeptShrinks ==
    ASSUME TypeOK, NEW second \in 0..MaxStamp,
           archive' = [archive EXCEPT ![second] = live], live' = <<>>
    PROVE  Kept' \subseteq Kept /\ ToSet(live)' = {} /\ Len(live') = 0
  <1>1. ToSet(<<>>) = {}
    BY DEF ToSet
  <1>2. /\ DOMAIN archive = 0..MaxStamp /\ DOMAIN archive' = 0..MaxStamp
        /\ \A t \in 0..MaxStamp : archive'[t] = IF t = second THEN live ELSE archive[t]
    BY DEF TypeOK
  <1>3. \A t \in 0..MaxStamp : ToSet(archive'[t]) \subseteq Kept
    BY <1>2 DEF Kept
  <1>4. ToSet(live') = {} /\ Len(live') = 0
    BY <1>1
  <1>5. Kept' = UNION {ToSet(archive'[t]) : t \in 0..MaxStamp}
    BY <1>2, <1>4 DEF Kept
  <1> QED
    BY <1>3, <1>4, <1>5

\* Nothing happens to them as long as neither file changes.
LEMMA KeptStays ==
    ASSUME live' = live, archive' = archive
    PROVE  Kept' = Kept /\ ToSet(live)' = ToSet(live)
  BY DEF Kept

\* An archive's name is one of those there are.
LEMMA ArchiveNameIs ==
    ASSUME NEW ts \in 0..MaxStamp
    PROVE  ArchiveName(ts) \in 0..MaxStamp
  <1>1. PerSecond \in Nat /\ PerSecond > 0 /\ ts \in Nat /\ MaxStamp \in Nat
    BY ChannelAssumption
  <1>2. ts \div PerSecond \in Int /\ ts \div PerSecond >= 0 /\ ts \div PerSecond <= ts
    BY <1>1
  <1> QED
    BY <1>1, <1>2 DEF ArchiveName

-----------------------------------------------------------------------------
(* The type *)

\* The session that takes a step keeps its type if its new state has it.
LEMMA SessFits ==
    ASSUME sess \in [Session -> SessionState], NEW s \in Session, NEW r \in SessionState,
           \/ sess' = [sess EXCEPT ![s] = r]
           \/ sess' = Others(s, r)
    PROVE  sess' \in [Session -> SessionState]
  <1>1. \A o \in Session : [sess[o] EXCEPT !.crossed = TRUE] \in SessionState
    BY DEF SessionState
  <1> QED
    BY <1>1 DEF Others

\* A session at rest is in a state of one.
LEMMA AtRestFits ==
    AtRest \in SessionState
  BY StampsAre DEF AtRest, SessionState, Stamps, NoStamp

\* What a session reads are lines: those of the channel or, over ssh, perhaps none.
LEMMA ViewsAre ==
    ASSUME TypeOK, NEW s \in Session, NEW lines \in View(s)
    PROVE  lines \in Seq(Note) /\ (s \notin Remote => lines = live) /\ (lines = live \/ lines = <<>>)
  <1>1. <<>> \in Seq(Note) /\ live \in Seq(Note)
    BY EmptySeq DEF TypeOK
  <1> QED
    BY <1>1 DEF View

\* Over ssh a line may land unreported or not at all; on this machine it does, and is reported.
LEMMA LandingsAre ==
    ASSUME NEW s \in Session, NEW l \in Landings(s)
    PROVE  /\ l[1] \in BOOLEAN /\ l[2] \in BOOLEAN /\ (l[2] => l[1])
           /\ s \notin Remote => l[1] /\ l[2]
  <1>1. CASE s \in Remote
    <2>1. Landings(s) = {<<TRUE, TRUE>>} \union {<<TRUE, FALSE>>, <<FALSE, FALSE>>}
      BY <1>1 DEF Landings
    <2>2. l = <<TRUE, TRUE>> \/ l = <<TRUE, FALSE>> \/ l = <<FALSE, FALSE>>
      BY <2>1
    <2>3. CASE l = <<TRUE, TRUE>>
      BY <1>1, <2>3
    <2>4. CASE l = <<TRUE, FALSE>>
      BY <1>1, <2>4
    <2>5. CASE l = <<FALSE, FALSE>>
      BY <1>1, <2>5
    <2> QED
      BY <2>2, <2>3, <2>4, <2>5
  <1>2. CASE s \notin Remote
    <2>1. l = <<TRUE, TRUE>>
      BY <1>2 DEF Landings
    <2> QED
      BY <1>2, <2>1
  <1> QED
    BY <1>1, <1>2

\* What a session finds waiting are stamps.
LEMMA WaitingFits ==
    ASSUME TypeOK, NEW s \in Session, NEW waiting \in CrossedNow(s)
    PROVE  waiting \in SUBSET Stamps
  <1>1. PICK lines \in View(s) : waiting = {n.ts : n \in Crossed(lines, s)}
    BY DEF CrossedNow
  <1>2. lines \in Seq(Note)
    BY <1>1, ViewsAre
  <1>3. Crossed(lines, s) \subseteq Note
    BY <1>2, LinesAre DEF Crossed, InboxFor
  <1>4. \A n \in Crossed(lines, s) : n.ts \in Stamps
    BY <1>3 DEF Note
  <1> QED
    BY <1>1, <1>4

\* What a session writes is a note, and at its place in the file no other has its stamp.
LEMMA LandsFits ==
    ASSUME TypeOK, FreshStamps, NEW s \in Session, Holds(s), NEW note \in Note,
           note.ts = sess[s].ts, NEW landed \in BOOLEAN, NEW reported \in BOOLEAN,
           Lands(s, note, landed, reported), UNCHANGED archive
    PROVE  /\ live' \in Seq(Note)
           /\ \A i, j \in 1..Len(live') : live'[i].ts = live'[j].ts => i = j
           /\ sess' \in [Session -> SessionState]
           /\ told' \subseteq Note /\ crossing' \subseteq Stamps
  <1>1. sess' \in [Session -> SessionState]
    BY SessFits, AtRestFits DEF Lands, TypeOK
  <1>2. told' \subseteq Note /\ crossing' \subseteq Stamps
    BY DEF Lands, TypeOK, Note
  <1>3. CASE landed
    <2>1. live' = Append(live, note)
      BY <1>3 DEF Lands
    <2>2. /\ Len(live') = Len(live) + 1 /\ Len(live) \in Nat
          /\ \A i \in 1..Len(live) : live'[i] = live[i]
          /\ live'[Len(live) + 1] = note
          /\ live' \in Seq(Note)
      BY <2>1, KeptGrows
    <2>3. \A i \in 1..Len(live) : live[i].ts # note.ts
      BY KeptAre, LinesAre DEF FreshStamps, TypeOK
    <2>4. ASSUME NEW i \in 1..Len(live'), NEW j \in 1..Len(live'), live'[i].ts = live'[j].ts
          PROVE  i = j
      <3>1. CASE i = Len(live) + 1 /\ j # Len(live) + 1
        BY <2>2, <2>3, <2>4, <3>1
      <3>2. CASE j = Len(live) + 1 /\ i # Len(live) + 1
        BY <2>2, <2>3, <2>4, <3>2
      <3>3. CASE i \in 1..Len(live) /\ j \in 1..Len(live)
        BY <2>2, <2>4, <3>3 DEF TypeOK
      <3> QED
        BY <2>2, <3>1, <3>2, <3>3
    <2> QED
      BY <1>1, <1>2, <2>2, <2>4
  <1>4. CASE ~landed
    BY <1>1, <1>2, <1>4 DEF Lands, TypeOK
  <1> QED
    BY <1>3, <1>4

\* The note a session is about to write, and the line that a rotation leaves.
NoteOf(s) == [ts |-> sess[s].ts, from |-> s, to |-> sess[s].to,
              kind |-> sess[s].kind, re |-> sess[s].re]
MarkOf(s) == [ts |-> sess[s].ts, from |-> s, to |-> All, kind |-> "note", re |-> NoStamp]

\* Both are notes.
LEMMA NotesAre ==
    ASSUME TypeOK, FreshStamps, NEW s \in Session, Holds(s)
    PROVE  NoteOf(s) \in Note /\ MarkOf(s) \in Note
  <1>1. sess[s].ts \in Stamps /\ sess[s] \in SessionState
    BY DEF FreshStamps, TypeOK
  <1> QED
    BY <1>1, StampsAre DEF NoteOf, MarkOf, Note, SessionState

\* A landing is that of a note or of the mark of a rotation.
LEMMA LandingIs ==
    ASSUME NEW s \in Session, AppendNote(s) \/ Mark(s)
    PROVE  \E l \in Landings(s) :
              \/ /\ sess[s].pc = "append" /\ Lands(s, NoteOf(s), l[1], l[2])
                 /\ heard' = IF l[2] THEN [heard EXCEPT ![s] = @ \union sess[s].waiting] ELSE heard
                 /\ UNCHANGED <<clock, taken, archive, watch>>
              \/ /\ sess[s].pc = "mark" /\ Lands(s, MarkOf(s), l[1], l[2])
                 /\ UNCHANGED <<clock, taken, archive, watch, heard>>
  BY DEF AppendNote, Mark, NoteOf, MarkOf

\* The stamps one host has given before.
FirstStamps(h) == {n.ts : n \in {n \in ToSet(Earlier) : HostOf[n.from] = h}} \union {NoStamp}

\* A clock begins with the last of them.
LEMMA FirstClock ==
    ASSUME NEW h \in Host
    PROVE  /\ Max(FirstStamps(h)) \in 0..MaxStamp
           /\ \A n \in ToSet(Earlier) : HostOf[n.from] = h => n.ts <= Max(FirstStamps(h))
           /\ Max({n.ts : n \in {n \in ToSet(Earlier) : HostOf[n.from] = h}} \union {NoStamp})
                 = Max(FirstStamps(h))
  <1>1. ToSet(Earlier) \subseteq Note
    BY ChannelAssumption, LinesAre
  <1>2. /\ FirstStamps(h) \in SUBSET (0..MaxStamp) /\ FirstStamps(h) # {} /\ MaxStamp \in Nat
        /\ \A n \in ToSet(Earlier) : HostOf[n.from] = h => n.ts \in FirstStamps(h)
    BY <1>1, StampsAre DEF FirstStamps
  <1>3. Max(FirstStamps(h)) \in FirstStamps(h) /\ \A y \in FirstStamps(h) : y <= Max(FirstStamps(h))
    BY <1>2, MaxIs
  <1> HIDE DEF Max
  <1>4. Max({n.ts : n \in {n \in ToSet(Earlier) : HostOf[n.from] = h}} \union {NoStamp})
           = Max(FirstStamps(h))
    BY DEF FirstStamps
  <1> QED
    BY <1>2, <1>3, <1>4

\* The channel begins with a state of its type.
LEMMA TypeInit ==
    Init => TypeOK
  <1> SUFFICES ASSUME Init PROVE TypeOK
    OBVIOUS
  <1>1. ToSet(Earlier) \subseteq Note /\ live \in Seq(Note) /\ taken \subseteq Stamps
    <2>1. Earlier \in Seq(Note) /\ ToSet(Earlier) \subseteq Note
      BY ChannelAssumption, LinesAre
    <2> QED
      BY <2>1 DEF Init, Note
  <1>c. clock \in [Host -> 0..MaxStamp]
    <2>1. ASSUME NEW h \in Host
          PROVE  clock[h] \in 0..MaxStamp
      BY <2>1, <1>1, FirstClock DEF Init
    <2>2. DOMAIN clock = Host /\ clock = [h \in Host |-> clock[h]]
      BY DEF Init
    <2> QED
      BY <2>1, <2>2
  <1>2. archive \in [0..MaxStamp -> Seq(Note)]
    BY EmptySeq DEF Init
  <1>3. sess \in [Session -> SessionState]
    BY AtRestFits DEF Init
  <1>4. watch \in [Session -> [on : BOOLEAN, base : 0..MaxStamp, seen : 0..MaxStamp,
                               woken : SUBSET Stamps]]
    BY StampsAre DEF Init
  <1>5. told \subseteq Note
    BY ChannelAssumption, LinesAre DEF Init
  <1>6. heard \in [Session -> SUBSET Stamps]
    <2>1. \A s \in Session : InboxFor(Earlier, s) \subseteq Note
      BY ChannelAssumption, LinesAre DEF InboxFor
    <2> QED
      BY <2>1 DEF Init, Note
  <1>7. \A i, j \in 1..Len(live) : live[i].ts = live[j].ts => i = j
    <2>1. /\ live = Earlier /\ Len(Earlier) \in Nat
          /\ \A i, j \in 1..Len(Earlier) : i < j => Earlier[i].ts # Earlier[j].ts
      BY ChannelAssumption, LenProperties DEF Init
    <2>2. \A i, j \in 1..Len(Earlier) : i < j \/ j < i \/ i = j
      BY <2>1
    <2> QED
      BY <2>1, <2>2
  <1> QED
    BY <1>1, <1>c, <1>2, <1>3, <1>4, <1>5, <1>6, <1>7 DEF TypeOK, Init

\* A step of a session that only reads the files, or takes a stamp.
LEMMA ReadsFit ==
    ASSUME TypeOK, NEW s \in Session,
           Begin(s) \/ BeginAnswer(s) \/ Check(s) \/ TakeStamp(s) \/ RotateRead(s) \/ RenameFails(s)
    PROVE  sess' \in [Session -> SessionState]
  <1>0. sess[s] \in SessionState /\ sess \in [Session -> SessionState]
    BY DEF TypeOK
  <1>1. CASE Begin(s)
    <2>0. PICK kind \in {"question", "note"}, waiting \in CrossedNow(s) :
            \E to \in IF kind = "question" THEN {All} ELSE Addressees \ {s} :
               sess' = [sess EXCEPT ![s] = [AtRest EXCEPT !.pc = "stamp", !.kind = kind, !.to = to,
                                                          !.waiting = waiting]]
      BY <1>1 DEF Begin
    <2>1. PICK to \in IF kind = "question" THEN {All} ELSE Addressees \ {s} :
            sess' = [sess EXCEPT ![s] = [AtRest EXCEPT !.pc = "stamp", !.kind = kind, !.to = to,
                                                       !.waiting = waiting]]
      BY <2>0
    <2>2. waiting \in SUBSET Stamps /\ to \in Session \union {All}
      BY <2>1, WaitingFits, ChannelAssumption
    <2>3. [AtRest EXCEPT !.pc = "stamp", !.kind = kind, !.to = to, !.waiting = waiting] \in SessionState
      BY <2>2, AtRestFits DEF SessionState
    <2> QED
      BY <1>0, <2>1, <2>3, SessFits
  <1>2. CASE BeginAnswer(s)
    <2>0. PICK lines \in View(s) : \E q \in {n \in ToSet(lines) : n.kind = "question"} :
            sess' = [sess EXCEPT ![s] = [AtRest EXCEPT !.pc = "check", !.kind = "answer",
                                                       !.to = q.from, !.re = q.ts]]
      BY <1>2 DEF BeginAnswer
    <2>1. PICK q \in {n \in ToSet(lines) : n.kind = "question"} :
            sess' = [sess EXCEPT ![s] = [AtRest EXCEPT !.pc = "check", !.kind = "answer",
                                                       !.to = q.from, !.re = q.ts]]
      BY <2>0
    <2>2. q \in Note
      BY <2>1, LinesAre, ViewsAre
    <2>3. q.from \in Session \union {All} /\ q.ts \in Stamps \union {NoStamp}
      BY <2>2 DEF Note
    <2>4. [AtRest EXCEPT !.pc = "check", !.kind = "answer", !.to = q.from, !.re = q.ts] \in SessionState
      BY <2>3, AtRestFits DEF SessionState
    <2> QED
      BY <1>0, <2>1, <2>4, SessFits
  <1>3. CASE Check(s)
    <2>1. PICK waiting \in CrossedNow(s) :
            sess' = [sess EXCEPT ![s].pc = "stamp", ![s].waiting = waiting, ![s].crossed = FALSE]
      BY <1>3 DEF Check
    <2>2. waiting \in SUBSET Stamps
      BY <2>1, WaitingFits
    <2>3. [sess[s] EXCEPT !.pc = "stamp", !.waiting = waiting, !.crossed = FALSE] \in SessionState
      BY <1>0, <2>2 DEF SessionState
    <2> QED
      BY <1>0, <2>1, <2>3, SessFits
  <1>4. CASE TakeStamp(s)
    <2>1. PICK t \in Now(s) : Stamped(s, t, [sess[s] EXCEPT !.pc = "append"])
      BY <1>4 DEF TakeStamp
    <2>2. [[sess[s] EXCEPT !.pc = "append"] EXCEPT !.ts = t] \in SessionState
      BY <1>0, <2>1 DEF SessionState, Now
    <2> QED
      BY <1>0, <2>1, <2>2, SessFits DEF Stamped
  <1>5. CASE RotateRead(s)
    <2>1. PICK t \in Now(s) : Stamped(s, t, [AtRest EXCEPT !.pc = "rename"])
      BY <1>5 DEF RotateRead
    <2>2. [[AtRest EXCEPT !.pc = "rename"] EXCEPT !.ts = t] \in SessionState
      BY <2>1, AtRestFits DEF SessionState, Now
    <2> QED
      BY <1>0, <2>1, <2>2, SessFits DEF Stamped
  <1>6. CASE RenameFails(s)
    BY <1>0, <1>6, AtRestFits, SessFits DEF RenameFails
  <1> QED
    BY <1>1, <1>2, <1>3, <1>4, <1>5, <1>6

\* The hits are places in the file.
LEMMA HitsAre ==
    ASSUME TypeOK, NEW s \in Session
    PROVE  /\ Hits(s) \in SUBSET (0..Len(live)) /\ Len(live) \in Nat
           /\ Hits(s) # {} => Max(Hits(s)) \in Hits(s) /\ \A i \in Hits(s) : i <= Max(Hits(s))
           /\ \A i \in Hits(s) : /\ i \in 1..Len(live) /\ live[i] \in Note
                                 /\ live[i].ts > watch[s].base
           /\ HitStamps(s) \subseteq Stamps
  <1>1. live \in Seq(Note) /\ DOMAIN live = 1..Len(live) /\ Len(live) \in Nat
    BY LenProperties DEF TypeOK
  <1>2. \A i \in 1..Len(live) : live[i] \in Note
    BY <1>1, ElementOfSeq
  <1>3. \A i \in Hits(s) : i \in 1..Len(live) /\ live[i].ts > watch[s].base
    BY <1>1 DEF Hits, Relevant
  <1>4. Hits(s) \in SUBSET (0..Len(live))
    BY <1>1, <1>3
  <1>5. Hits(s) # {} => Max(Hits(s)) \in Hits(s) /\ \A i \in Hits(s) : i <= Max(Hits(s))
    BY <1>1, <1>4, MaxIs
  <1>6. HitStamps(s) \subseteq Stamps
    BY <1>2, <1>3 DEF HitStamps, Note
  <1> QED
    BY <1>1, <1>2, <1>3, <1>4, <1>5, <1>6

\* Every step keeps the type.
LEMMA TypeStep ==
    ASSUME TypeOK, FreshStamps, [Next]_vars
    PROVE  TypeOK'
  <1>1. CASE UNCHANGED vars
    BY <1>1 DEF vars, TypeOK
  <1>2. ASSUME NEW s \in Session, Begin(s) \/ BeginAnswer(s) \/ Check(s) \/ RenameFails(s)
        PROVE  TypeOK'
    <2>1. sess' \in [Session -> SessionState]
      BY <1>2, ReadsFit
    <2>2. UNCHANGED <<clock, taken, live, archive, watch, told, heard, crossing>>
      BY <1>2 DEF Begin, BeginAnswer, Check, RenameFails
    <2> QED
      BY <2>1, <2>2 DEF TypeOK
  <1>3. ASSUME NEW s \in Session, TakeStamp(s) \/ RotateRead(s)
        PROVE  TypeOK'
    <2>1. sess' \in [Session -> SessionState]
      BY <1>3, ReadsFit
    <2>2. UNCHANGED <<live, archive, watch, told, heard, crossing>>
      BY <1>3 DEF TakeStamp, RotateRead
    <2>3. PICK t \in Now(s) : /\ clock' = [clock EXCEPT ![HostOf[s]] = t]
                              /\ taken' = taken \union {t}
      BY <1>3 DEF TakeStamp, RotateRead, Stamped
    <2>4. t \in Stamps /\ t \in 0..MaxStamp
      BY StampsAre DEF Now, Stamps
    <2>5. clock \in [Host -> 0..MaxStamp] /\ taken \subseteq Stamps
      BY DEF TypeOK
    <2>6. clock' \in [Host -> 0..MaxStamp]
      BY <2>3, <2>4, <2>5
    <2>7. taken' \subseteq Stamps
      BY <2>3, <2>4, <2>5
    <2> QED
      BY <2>1, <2>2, <2>6, <2>7 DEF TypeOK
  <1>4. ASSUME NEW s \in Session, AppendNote(s) \/ Mark(s)
        PROVE  TypeOK'
    <2>0. Holds(s)
      BY <1>4 DEF AppendNote, Mark, Holds
    <2>1. PICK l \in Landings(s) :
              \/ /\ sess[s].pc = "append" /\ Lands(s, NoteOf(s), l[1], l[2])
                 /\ heard' = IF l[2] THEN [heard EXCEPT ![s] = @ \union sess[s].waiting] ELSE heard
                 /\ UNCHANGED <<clock, taken, archive, watch>>
              \/ /\ sess[s].pc = "mark" /\ Lands(s, MarkOf(s), l[1], l[2])
                 /\ UNCHANGED <<clock, taken, archive, watch, heard>>
      BY <1>4, LandingIs
    <2>2. l[1] \in BOOLEAN /\ l[2] \in BOOLEAN
      BY LandingsAre
    <2>3. NoteOf(s) \in Note /\ NoteOf(s).ts = sess[s].ts /\ MarkOf(s) \in Note /\ MarkOf(s).ts = sess[s].ts
      BY <2>0, NotesAre DEF NoteOf, MarkOf
    <2>4. /\ live' \in Seq(Note)
          /\ \A i, j \in 1..Len(live') : live'[i].ts = live'[j].ts => i = j
          /\ sess' \in [Session -> SessionState]
          /\ told' \subseteq Note /\ crossing' \subseteq Stamps
      BY <2>0, <2>1, <2>2, <2>3, LandsFits
    <2>5. heard' \in [Session -> SUBSET Stamps]
      <3>1. sess[s].waiting \in SUBSET Stamps /\ heard \in [Session -> SUBSET Stamps]
        BY DEF TypeOK, SessionState
      <3>2. heard' = heard \/ heard' = [heard EXCEPT ![s] = @ \union sess[s].waiting]
        BY <2>1
      <3> QED
        BY <3>1, <3>2
    <2> QED
      BY <2>1, <2>4, <2>5 DEF TypeOK
  <1>5. ASSUME NEW s \in Session, Rename(s)
        PROVE  TypeOK'
    <2>1. sess[s] \in SessionState /\ sess[s].ts \in 0..MaxStamp
      BY StampsAre DEF TypeOK, SessionState, Stamps, NoStamp
    <2>2. [sess[s] EXCEPT !.pc = "mark"] \in SessionState
      BY <2>1 DEF SessionState
    <2>3. sess' \in [Session -> SessionState]
      BY <1>5, <2>2, SessFits DEF Rename, TypeOK
    <2>4. archive' \in [0..MaxStamp -> Seq(Note)]
      BY <1>5, <2>1, ArchiveNameIs DEF Rename, TypeOK
    <2>5. live' \in Seq(Note) /\ Len(live') = 0
      BY <1>5 DEF Rename
    <2>6. \A i, j \in 1..Len(live') : live'[i].ts = live'[j].ts => i = j
      BY <2>5
    <2>7. UNCHANGED <<clock, taken, watch, told, heard, crossing>>
      BY <1>5 DEF Rename
    <2> QED
      BY <2>3, <2>4, <2>5, <2>6, <2>7 DEF TypeOK
  <1>6. ASSUME NEW s \in Session, Watch(s)
        PROVE  TypeOK'
    <2> DEFINE W == [on : BOOLEAN, base : 0..MaxStamp, seen : 0..MaxStamp, woken : SUBSET Stamps]
    <2>0. watch \in [Session -> W] /\ watch[s] \in W /\ MaxStamp \in Nat
      BY StampsAre DEF TypeOK
    <2>1. CASE WatchStart(s)
      <3>1. PICK lines \in View(s) :
              watch' = [watch EXCEPT ![s].on = TRUE, ![s].base = BaselineFor(lines, s, watch[s].seen)]
        BY <2>1 DEF WatchStart
      <3>2. lines \in Seq(Note) /\ watch[s].seen \in 0..MaxStamp
        BY <2>0, <3>1, ViewsAre
      <3>3. BaselineFor(lines, s, watch[s].seen) \in 0..MaxStamp
        BY <2>0, <3>2, BaselineIs
      <3>4. [watch[s] EXCEPT !.on = TRUE, !.base = BaselineFor(lines, s, watch[s].seen)] \in W
        BY <2>0, <3>3
      <3>5. watch' \in [Session -> W]
        BY <2>0, <3>1, <3>4
      <3> QED
        BY <2>1, <3>5 DEF WatchStart, TypeOK
    <2>2. CASE Wake(s)
      <3>1. HitStamps(s) \subseteq Stamps /\ live[Max(Hits(s))].ts \in 0..MaxStamp
        BY <2>2, HitsAre, StampsAre DEF Wake
      <3>2. [watch[s] EXCEPT !.on = FALSE, !.seen = live[Max(Hits(s))].ts,
                             !.woken = @ \union HitStamps(s)] \in W
        BY <2>0, <3>1
      <3>3. watch' \in [Session -> W]
        BY <2>0, <2>2, <3>2 DEF Wake
      <3>4. heard' \in [Session -> SUBSET Stamps]
        BY <2>2, <3>1 DEF Wake, TypeOK
      <3> QED
        BY <2>2, <3>3, <3>4 DEF Wake, TypeOK
    <2>3. CASE WatchEnd(s)
      <3>1. [watch[s] EXCEPT !.on = FALSE] \in W
        BY <2>0
      <3>2. watch' \in [Session -> W]
        BY <2>0, <2>3, <3>1 DEF WatchEnd
      <3> QED
        BY <2>3, <3>2 DEF WatchEnd, TypeOK
    <2> QED
      BY <1>6, <2>1, <2>2, <2>3 DEF Watch
  <1> QED
    BY <1>1, <1>2, <1>3, <1>4, <1>5, <1>6 DEF Next, Post, Rotate

-----------------------------------------------------------------------------
(* What the steps do to the sessions *)

\* What others see of session o is left alone; it may learn that a line crossed its own.
Left(o) ==
    /\ sess'[o].pc = sess[o].pc /\ sess'[o].ts = sess[o].ts /\ sess'[o].kind = sess[o].kind
    /\ sess'[o].to = sess[o].to /\ sess'[o].re = sess[o].re /\ sess'[o].waiting = sess[o].waiting
    /\ sess[o].crossed => sess'[o].crossed

\* Session s goes to state r; the others that hold a stamp, or are about to, learn of it.
LEMMA OthersAre ==
    ASSUME sess \in [Session -> SessionState], NEW s \in Session, NEW r, sess' = Others(s, r)
    PROVE  /\ sess'[s] = r
           /\ \A o \in Session \ {s} : Left(o) /\ (o \in Busy(s) => sess'[o].crossed)
  <1>1. sess'[s] = r
    BY DEF Others
  <1>2. ASSUME NEW o \in Session \ {s}
        PROVE  Left(o) /\ (o \in Busy(s) => sess'[o].crossed)
    <2>1. sess[o] \in SessionState
      OBVIOUS
    <2>2. CASE o \in Busy(s)
      <3>1. sess'[o] = [sess[o] EXCEPT !.crossed = TRUE]
        BY <2>2 DEF Others
      <3> QED
        BY <2>1, <3>1 DEF Left, SessionState
    <2>3. CASE o \notin Busy(s)
      <3>1. sess'[o] = sess[o]
        BY <2>3 DEF Others
      <3> QED
        BY <2>3, <3>1 DEF Left
    <2> QED
      BY <2>2, <2>3
  <1> QED
    BY <1>1, <1>2

\* Session s goes to state r and nobody learns of it.
LEMMA OneGoes ==
    ASSUME sess \in [Session -> SessionState], NEW s \in Session, NEW r,
           sess' = [sess EXCEPT ![s] = r]
    PROVE  sess'[s] = r /\ \A o \in Session \ {s} : sess'[o] = sess[o] /\ Left(o)
  BY DEF Left

\* Line n of session s lands, or does not.
Landing(s, n, landed) ==
    /\ n \in Note /\ n.ts = sess[s].ts /\ n.from = s
    /\ \/ sess[s].pc = "append" /\ n = NoteOf(s)
       \/ sess[s].pc = "mark" /\ n = MarkOf(s)
    /\ sess'[s] = AtRest
    /\ \A o \in Session \ {s} : Left(o) /\ (landed /\ o \in Busy(s) => sess'[o].crossed)
    /\ live' = IF landed THEN Append(live, n) ELSE live
    /\ crossing \subseteq crossing' /\ crossing' \subseteq crossing \union {n.ts}
    /\ landed /\ (sess[s].crossed \/ Busy(s) # {}) => n.ts \in crossing'
    /\ \A o \in Session : heard[o] \subseteq heard'[o]
    /\ told' = told \/ (landed /\ told' = told \union {n})
    /\ UNCHANGED <<clock, taken, archive, watch>>
    /\ s \notin Remote => landed /\ (sess[s].pc = "append" => sess[s].waiting \subseteq heard'[s])

\* Writing a note and leaving a mark are landings.
LEMMA LandingDoes ==
    ASSUME TypeOK, FreshStamps, NEW s \in Session, AppendNote(s) \/ Mark(s)
    PROVE  \E n \in Note, landed \in BOOLEAN : Landing(s, n, landed)
  <1>0. Holds(s)
    BY DEF AppendNote, Mark, Holds
  <1>1. PICK l \in Landings(s) :
              \/ /\ sess[s].pc = "append" /\ Lands(s, NoteOf(s), l[1], l[2])
                 /\ heard' = IF l[2] THEN [heard EXCEPT ![s] = @ \union sess[s].waiting] ELSE heard
                 /\ UNCHANGED <<clock, taken, archive, watch>>
              \/ /\ sess[s].pc = "mark" /\ Lands(s, MarkOf(s), l[1], l[2])
                 /\ UNCHANGED <<clock, taken, archive, watch, heard>>
    BY LandingIs
  <1>2. /\ l[1] \in BOOLEAN /\ l[2] \in BOOLEAN /\ (l[2] => l[1])
        /\ s \notin Remote => l[1] /\ l[2]
    BY LandingsAre
  <1> DEFINE n == IF sess[s].pc = "append" THEN NoteOf(s) ELSE MarkOf(s)
  <1>3. /\ n \in Note /\ n.ts = sess[s].ts /\ n.from = s
        /\ \/ sess[s].pc = "append" /\ n = NoteOf(s)
           \/ sess[s].pc = "mark" /\ n = MarkOf(s)
    BY <1>0, <1>1, NotesAre DEF NoteOf, MarkOf
  <1>4. Lands(s, n, l[1], l[2])
    BY <1>1
  <1> HIDE DEF n
  <1>5. /\ live' = IF l[1] THEN Append(live, n) ELSE live
        /\ crossing \subseteq crossing' /\ crossing' \subseteq crossing \union {n.ts}
        /\ l[1] /\ (sess[s].crossed \/ Busy(s) # {}) => n.ts \in crossing'
        /\ told' = told \/ (l[1] /\ told' = told \union {n})
    BY <1>2, <1>4 DEF Lands
  <1>6. sess \in [Session -> SessionState] /\ heard \in [Session -> SUBSET Stamps]
    BY DEF TypeOK
  <1>7. /\ sess'[s] = AtRest
        /\ \A o \in Session \ {s} : Left(o) /\ (l[1] /\ o \in Busy(s) => sess'[o].crossed)
    <2>1. CASE l[1]
      BY <1>4, <1>6, <2>1, OthersAre DEF Lands
    <2>2. CASE ~l[1]
      BY <1>4, <1>6, <2>2, OneGoes DEF Lands
    <2> QED
      BY <2>1, <2>2
  <1>8. /\ \A o \in Session : heard[o] \subseteq heard'[o]
        /\ s \notin Remote /\ sess[s].pc = "append" => sess[s].waiting \subseteq heard'[s]
    BY <1>1, <1>2, <1>6
  <1>9. UNCHANGED <<clock, taken, archive, watch>>
    BY <1>1
  <1>10. Landing(s, n, l[1])
    BY <1>2, <1>3, <1>5, <1>7, <1>8, <1>9 DEF Landing
  <1> QED
    BY <1>2, <1>3, <1>10

\* A session that gives up, or begins a command, holds no stamp, and the files stay.
Begins(s) == Begin(s) \/ BeginAnswer(s) \/ Check(s) \/ RenameFails(s)

\* The answer session s is about to write is one to a question in the channel; a
\* statement or a question names no line.
Chooses(s) ==
    \/ sess'[s].pc = "idle"
    \/ /\ sess'[s].pc = "check" /\ sess'[s].kind = "answer"
       /\ \E q \in ToSet(live) : sess'[s].re = q.ts /\ sess'[s].to = q.from
    \/ /\ sess'[s].pc = "stamp"
       /\ \/ sess'[s].re = NoStamp
          \/ /\ sess[s].pc = "check" /\ sess'[s].re = sess[s].re
             /\ sess'[s].to = sess[s].to /\ sess'[s].kind = sess[s].kind

\* What session s read waits for it, if it reads at all.
Finds(s) ==
    s \notin Remote /\ sess'[s].pc = "stamp" => sess'[s].waiting = {n.ts : n \in Crossed(live, s)}

\* A session that begins or ends a command changes nothing else.
LEMMA BeginsDoes ==
    ASSUME TypeOK, NEW s \in Session, Begins(s)
    PROVE  /\ Chooses(s) /\ Finds(s)
           /\ \A o \in Session \ {s} : sess'[o] = sess[o] /\ Left(o)
           /\ UNCHANGED <<clock, taken, live, archive, watch, told, heard, crossing>>
  <1>0. sess \in [Session -> SessionState] /\ sess[s] \in SessionState /\ AtRest \in SessionState
    BY AtRestFits DEF TypeOK
  <1>1. UNCHANGED <<clock, taken, live, archive, watch, told, heard, crossing>>
    BY DEF Begins, Begin, BeginAnswer, Check, RenameFails
  <1>w. ASSUME NEW waiting \in CrossedNow(s), s \notin Remote
        PROVE  waiting = {n.ts : n \in Crossed(live, s)}
    BY <1>w DEF CrossedNow, View
  <1>2. CASE Begin(s)
    <2>0. PICK kind \in {"question", "note"}, waiting \in CrossedNow(s) :
            \E to \in IF kind = "question" THEN {All} ELSE Addressees \ {s} :
               sess' = [sess EXCEPT ![s] = [AtRest EXCEPT !.pc = "stamp", !.kind = kind, !.to = to,
                                                          !.waiting = waiting]]
      BY <1>2 DEF Begin
    <2>1. PICK to \in IF kind = "question" THEN {All} ELSE Addressees \ {s} :
            sess' = [sess EXCEPT ![s] = [AtRest EXCEPT !.pc = "stamp", !.kind = kind, !.to = to,
                                                       !.waiting = waiting]]
      BY <2>0
    <2> DEFINE r == [AtRest EXCEPT !.pc = "stamp", !.kind = kind, !.to = to, !.waiting = waiting]
    <2>2. r.pc = "stamp" /\ r.re = NoStamp /\ r.waiting = waiting
      BY <1>0 DEF AtRest
    <2> HIDE DEF r
    <2>3. sess'[s] = r /\ \A o \in Session \ {s} : sess'[o] = sess[o] /\ Left(o)
      BY <1>0, <2>1, OneGoes DEF r
    <2>4. Chooses(s)
      BY <2>2, <2>3 DEF Chooses
    <2>5. Finds(s)
      BY <1>w, <2>2, <2>3 DEF Finds
    <2> QED
      BY <1>1, <2>3, <2>4, <2>5
  <1>3. CASE BeginAnswer(s)
    <2>0. PICK lines \in View(s) : \E q \in {n \in ToSet(lines) : n.kind = "question"} :
            sess' = [sess EXCEPT ![s] = [AtRest EXCEPT !.pc = "check", !.kind = "answer",
                                                       !.to = q.from, !.re = q.ts]]
      BY <1>3 DEF BeginAnswer
    <2>1. PICK q \in {n \in ToSet(lines) : n.kind = "question"} :
            sess' = [sess EXCEPT ![s] = [AtRest EXCEPT !.pc = "check", !.kind = "answer",
                                                       !.to = q.from, !.re = q.ts]]
      BY <2>0
    <2> DEFINE r == [AtRest EXCEPT !.pc = "check", !.kind = "answer", !.to = q.from, !.re = q.ts]
    <2>2. r.pc = "check" /\ r.kind = "answer" /\ r.to = q.from /\ r.re = q.ts
      BY <1>0 DEF AtRest
    <2> HIDE DEF r
    <2>3. sess'[s] = r /\ \A o \in Session \ {s} : sess'[o] = sess[o] /\ Left(o)
      BY <1>0, <2>1, OneGoes DEF r
    <2>4. q \in ToSet(live)
      <3>1. ToSet(<<>>) = {}
        BY DEF ToSet
      <3> QED
        BY <2>1, <3>1, ViewsAre
    <2>5. Chooses(s) /\ Finds(s)
      BY <2>2, <2>3, <2>4 DEF Chooses, Finds
    <2> QED
      BY <1>1, <2>3, <2>5
  <1>4. CASE Check(s)
    <2>1. PICK waiting \in CrossedNow(s) :
            sess' = [sess EXCEPT ![s] = [sess[s] EXCEPT !.pc = "stamp", !.waiting = waiting,
                                                        !.crossed = FALSE]]
      BY <1>0, <1>4 DEF Check
    <2> DEFINE r == [sess[s] EXCEPT !.pc = "stamp", !.waiting = waiting, !.crossed = FALSE]
    <2>2. /\ r.pc = "stamp" /\ r.waiting = waiting
          /\ r.re = sess[s].re /\ r.to = sess[s].to /\ r.kind = sess[s].kind
      BY <1>0 DEF SessionState
    <2> HIDE DEF r
    <2>3. sess'[s] = r /\ \A o \in Session \ {s} : sess'[o] = sess[o] /\ Left(o)
      BY <1>0, <2>1, OneGoes DEF r
    <2>4. Chooses(s)
      BY <1>4, <2>2, <2>3 DEF Chooses, Check
    <2>5. Finds(s)
      BY <1>w, <2>2, <2>3 DEF Finds
    <2> QED
      BY <1>1, <2>3, <2>4, <2>5
  <1>5. CASE RenameFails(s)
    <2>1. sess' = [sess EXCEPT ![s] = AtRest]
      BY <1>5 DEF RenameFails
    <2>2. sess'[s] = AtRest /\ \A o \in Session \ {s} : sess'[o] = sess[o] /\ Left(o)
      BY <1>0, <2>1, OneGoes
    <2> QED
      BY <1>1, <2>2 DEF AtRest, Chooses, Finds
  <1> QED
    BY <1>2, <1>3, <1>4, <1>5 DEF Begins

\* A session takes a stamp, for its note or its rotation.
Stamping(s) == TakeStamp(s) \/ RotateRead(s)

\* Stamp t is new, and the latest of its clock.
Dated(s, t) ==
    /\ t \in 1..MaxStamp /\ t \notin taken /\ t > clock[HostOf[s]] /\ sess'[s].ts = t
    /\ taken' = taken \union {t}
    /\ \A h \in Host : clock'[h] = IF h = HostOf[s] THEN t ELSE clock[h]

\* A session that takes one does nothing else; a rotation goes ahead when no question is open.
LEMMA StampingDoes ==
    ASSUME TypeOK, NEW s \in Session, Stamping(s)
    PROVE  /\ \E t \in 1..MaxStamp : Dated(s, t)
           /\ \/ /\ sess'[s].pc = "append" /\ sess[s].pc = "stamp"
                 /\ sess'[s].kind = sess[s].kind /\ sess'[s].to = sess[s].to
                 /\ sess'[s].re = sess[s].re /\ sess'[s].waiting = sess[s].waiting
              \/ sess'[s].pc = "rename" /\ OpenNotes(live) = {}
           /\ \A o \in Session \ {s} : sess'[o] = sess[o] /\ Left(o)
           /\ UNCHANGED <<live, archive, watch, told, heard, crossing>>
  <1>0. sess \in [Session -> SessionState] /\ sess[s] \in SessionState
    BY DEF TypeOK
  <1>d. ASSUME NEW t \in Now(s), NEW state \in SessionState, Stamped(s, t, state)
        PROVE  /\ \E u \in 1..MaxStamp : Dated(s, u)
               /\ sess'[s] = [state EXCEPT !.ts = t]
               /\ \A o \in Session \ {s} : sess'[o] = sess[o] /\ Left(o)
    <2>1. /\ sess'[s] = [state EXCEPT !.ts = t]
          /\ \A o \in Session \ {s} : sess'[o] = sess[o] /\ Left(o)
      BY <1>0, <1>d, OneGoes DEF Stamped
    <2>2. sess'[s].ts = t
      BY <1>d, <2>1 DEF SessionState
    <2>3. t \in 1..MaxStamp /\ t \notin taken /\ t > clock[HostOf[s]]
      BY DEF Now, Stamps
    <2>4. \A h \in Host : clock'[h] = IF h = HostOf[s] THEN t ELSE clock[h]
      BY <1>d DEF Stamped, TypeOK
    <2>5. Dated(s, t)
      BY <1>d, <2>2, <2>3, <2>4 DEF Dated, Stamped
    <2> QED
      BY <2>1, <2>3, <2>5
  <1>1. CASE TakeStamp(s)
    <2>1. PICK t \in Now(s) : Stamped(s, t, [sess[s] EXCEPT !.pc = "append"])
      BY <1>1 DEF TakeStamp
    <2>2. [sess[s] EXCEPT !.pc = "append"] \in SessionState
      BY <1>0 DEF SessionState
    <2>3. /\ \E u \in 1..MaxStamp : Dated(s, u)
          /\ sess'[s] = [[sess[s] EXCEPT !.pc = "append"] EXCEPT !.ts = t]
          /\ \A o \in Session \ {s} : sess'[o] = sess[o] /\ Left(o)
      BY <1>d, <2>1, <2>2
    <2>4. /\ sess'[s].pc = "append"
          /\ sess'[s].kind = sess[s].kind /\ sess'[s].to = sess[s].to
          /\ sess'[s].re = sess[s].re /\ sess'[s].waiting = sess[s].waiting
      BY <1>0, <2>3 DEF SessionState
    <2> QED
      BY <1>1, <2>3, <2>4 DEF TakeStamp
  <1>2. CASE RotateRead(s)
    <2>1. PICK t \in Now(s) : Stamped(s, t, [AtRest EXCEPT !.pc = "rename"])
      BY <1>2 DEF RotateRead
    <2>2. [AtRest EXCEPT !.pc = "rename"] \in SessionState
      BY AtRestFits DEF SessionState
    <2>3. /\ \E u \in 1..MaxStamp : Dated(s, u)
          /\ sess'[s] = [[AtRest EXCEPT !.pc = "rename"] EXCEPT !.ts = t]
          /\ \A o \in Session \ {s} : sess'[o] = sess[o] /\ Left(o)
      BY <1>d, <2>1, <2>2
    <2>4. sess'[s].pc = "rename"
      BY <2>3 DEF AtRest
    <2>5. OpenNotes(live) = {}
      BY <1>2, ViewsAre DEF RotateRead
    <2> QED
      BY <1>2, <2>3, <2>4, <2>5 DEF RotateRead
  <1> QED
    BY <1>1, <1>2 DEF Stamping

\* A rotation moves the channel's lines to an archive.
LEMMA RenameDoes ==
    ASSUME TypeOK, NEW s \in Session, Rename(s)
    PROVE  /\ sess[s].pc = "rename" /\ sess'[s].pc = "mark" /\ sess'[s].ts = sess[s].ts
           /\ \A o \in Session \ {s} : Left(o) /\ (o \in Busy(s) => sess'[o].crossed)
           /\ archive' = [archive EXCEPT ![ArchiveName(sess[s].ts)] = live] /\ live' = <<>>
           /\ ArchiveName(sess[s].ts) \in 0..MaxStamp
           /\ UNCHANGED <<clock, taken, watch, told, heard, crossing>>
  <1>0. sess \in [Session -> SessionState] /\ sess[s] \in SessionState /\ sess[s].ts \in 0..MaxStamp
    BY StampsAre DEF TypeOK, SessionState, Stamps, NoStamp
  <1>1. /\ sess'[s] = [sess[s] EXCEPT !.pc = "mark"]
        /\ \A o \in Session \ {s} : Left(o) /\ (o \in Busy(s) => sess'[o].crossed)
    BY <1>0, OthersAre DEF Rename
  <1>2. sess'[s].pc = "mark" /\ sess'[s].ts = sess[s].ts
    BY <1>0, <1>1 DEF SessionState
  <1> QED
    BY <1>0, <1>1, <1>2, ArchiveNameIs DEF Rename

\* A watcher leaves the sessions and the files alone.
LEMMA WatchDoes ==
    ASSUME TypeOK, NEW s \in Session, Watch(s)
    PROVE  /\ UNCHANGED <<clock, taken, live, archive, sess, told, crossing>>
           /\ \A o \in Session : /\ heard[o] \subseteq heard'[o]
                                 /\ watch'[o].woken \subseteq watch[o].woken \union {n.ts : n \in ToSet(live)}
  <1>1. CASE Wake(s)
    <2>1. HitStamps(s) \subseteq {n.ts : n \in ToSet(live)}
      BY HitsAre, LinesAre DEF HitStamps, TypeOK
    <2>2. \A o \in Session : watch'[o].woken \subseteq watch[o].woken \union HitStamps(s)
      BY <1>1 DEF Wake, TypeOK
    <2> QED
      BY <1>1, <2>1, <2>2 DEF Wake, TypeOK
  <1>2. CASE WatchStart(s) \/ WatchEnd(s)
    <2>1. \A o \in Session : watch'[o].woken = watch[o].woken
      <3>1. CASE WatchStart(s)
        BY <3>1 DEF WatchStart, TypeOK
      <3>2. CASE WatchEnd(s)
        BY <3>2 DEF WatchEnd, TypeOK
      <3> QED
        BY <1>2, <3>1, <3>2
    <2>2. UNCHANGED <<clock, taken, live, archive, sess, told, heard, crossing>>
      BY <1>2 DEF WatchStart, WatchEnd
    <2>3. \A o \in Session : heard[o] \subseteq heard'[o]
      BY <2>2
    <2> QED
      BY <2>1, <2>2, <2>3
  <1> QED
    BY <1>1, <1>2 DEF Watch

\* A step is one of these.
LEMMA StepIs ==
    ASSUME [Next]_vars
    PROVE  \/ UNCHANGED vars
           \/ \E s \in Session : Begins(s) \/ Stamping(s) \/ AppendNote(s) \/ Mark(s)
                                 \/ Rename(s) \/ Watch(s)
  BY DEF Next, Post, Rotate, Begins, Stamping

-----------------------------------------------------------------------------
(* One conjunct at a time *)

\* Stamps taken stay distinct, and behind the clocks they were taken from.
LEMMA FreshStep ==
    ASSUME TypeOK, FreshStamps, AnswersAreMeant, [Next]_vars
    PROVE  FreshStamps'
  <1>0. /\ taken \subseteq 1..MaxStamp /\ MaxStamp \in Nat /\ Kept \subseteq Note
        /\ \A s \in Session : HostOf[s] \in Host /\ clock[HostOf[s]] \in Nat
        /\ \A n \in Kept : n.ts \in Nat /\ n.re \in Nat /\ n.from \in Session
        /\ \A n \in Kept : n.re = NoStamp \/ n.re \in taken
        /\ ToSet(live) \subseteq Kept
        /\ \A ts \in taken : ts \in Nat
    <2>1. Kept \subseteq Note /\ ToSet(live) \subseteq Kept
      BY KeptAre
    <2>2. \A n \in Kept : n.ts \in Nat /\ n.re \in Nat /\ n.from \in Session
      BY <2>1, StampsAre DEF Note
    <2>3. \A ts \in taken : ts \in Nat
      BY ClocksAre
    <2> QED
      BY <2>1, <2>2, <2>3, ClocksAre DEF AnswersAreMeant, Names
  <1>1. CASE UNCHANGED vars
    BY <1>1 DEF vars, FreshStamps, Holds, Kept
  <1>2. ASSUME NEW s \in Session, Begins(s)
        PROVE  FreshStamps'
    <2>1. /\ sess'[s].pc \in {"idle", "check", "stamp"} /\ UNCHANGED <<clock, taken, watch>>
          /\ \A o \in Session \ {s} : sess'[o] = sess[o]
      BY <1>2, BeginsDoes DEF Chooses
    <2>2. Kept' = Kept
      BY <1>2, BeginsDoes, KeptStays
    <2>3. \A o \in Session : Holds(o)' => Holds(o) /\ sess'[o].ts = sess[o].ts
      BY <2>1 DEF Holds
    <2> QED
      BY <2>1, <2>2, <2>3 DEF FreshStamps
  <1>3. ASSUME NEW s \in Session, Stamping(s)
        PROVE  FreshStamps'
    <2>0. PICK t \in 1..MaxStamp : Dated(s, t)
      BY <1>3, StampingDoes
    <2>1. /\ sess'[s].ts = t /\ t \notin taken /\ taken' = taken \union {t}
          /\ \A o \in Session : clock[HostOf[o]] <= clock'[HostOf[o]]
          /\ clock'[HostOf[s]] = t
      BY <1>0, <2>0 DEF Dated
    <2>2. watch' = watch /\ Kept' = Kept /\ \A o \in Session \ {s} : sess'[o] = sess[o]
      BY <1>3, StampingDoes, KeptStays
    <2>3. ASSUME NEW n \in Kept'
          PROVE  n.ts \in taken' /\ n.ts <= clock'[HostOf[n.from]]
      <3>1. n \in Kept /\ n.from \in Session /\ n.ts \in Nat
        BY <1>0, <2>2
      <3>2. n.ts \in taken /\ n.ts <= clock[HostOf[n.from]]
        BY <3>1 DEF FreshStamps
      <3>3. clock[HostOf[n.from]] \in Nat /\ clock'[HostOf[n.from]] \in Nat
        BY <1>0, <2>0, <3>1 DEF Dated
      <3> QED
        BY <2>1, <3>1, <3>2, <3>3
    <2>4. ASSUME NEW o \in Session, Holds(o)'
          PROVE  /\ sess'[o].ts \in taken' /\ sess'[o].ts <= clock'[HostOf[o]]
                 /\ \A p \in Session : sess'[o].ts \notin watch'[p].woken
                 /\ \A n \in Kept' : n.ts # sess'[o].ts /\ n.re # sess'[o].ts
                 /\ \A p \in Session : Holds(p)' /\ sess'[p].ts = sess'[o].ts => p = o
      <3>0. \A p \in Session \ {s} : Holds(p)' => Holds(p) /\ sess'[p].ts = sess[p].ts /\ sess[p].ts \in taken
        BY <2>2 DEF FreshStamps, Holds
      <3>1. CASE o = s
        <4>1. \A n \in Kept : n.ts # t /\ n.re # t
          BY <1>0, <2>1 DEF FreshStamps, NoStamp
        <4>2. \A p \in Session : t \notin watch[p].woken
          BY <2>1 DEF FreshStamps
        <4>3. \A p \in Session : Holds(p)' /\ sess'[p].ts = t => p = s
          BY <2>1, <3>0
        <4>4. sess'[s].ts <= clock'[HostOf[s]]
          BY <2>0, <2>1
        <4> QED
          BY <2>1, <2>2, <3>1, <4>1, <4>2, <4>3, <4>4
      <3>2. CASE o # s
        <4>1. Holds(o) /\ sess'[o].ts = sess[o].ts /\ sess[o].ts \in taken
          BY <2>4, <3>0, <3>2
        <4>2. sess'[o].ts <= clock'[HostOf[o]]
          <5>1. sess[o].ts <= clock[HostOf[o]]
            BY <4>1 DEF FreshStamps
          <5>3. sess[o].ts \in Nat
            BY <1>0, <4>1
          <5>2. clock[HostOf[o]] \in Nat /\ clock'[HostOf[o]] \in Nat
            BY <1>0, <2>0 DEF Dated
          <5> QED
            BY <2>1, <4>1, <5>1, <5>2, <5>3
        <4>3. \A p \in Session : Holds(p)' /\ sess'[p].ts = sess'[o].ts => p = o
          BY <2>1, <3>0, <3>2, <4>1 DEF FreshStamps
        <4> QED
          BY <2>1, <2>2, <4>1, <4>2, <4>3 DEF FreshStamps
      <3> QED
        BY <3>1, <3>2
    <2>5. \A o \in Session : watch'[o].woken \subseteq taken'
      BY <2>1, <2>2 DEF FreshStamps
    <2>6. \A m, n \in Kept' : m.ts = n.ts => m = n
      BY <2>2 DEF FreshStamps
    <2> QED
      BY <2>3, <2>4, <2>5, <2>6 DEF FreshStamps
  <1>4. ASSUME NEW s \in Session, AppendNote(s) \/ Mark(s)
        PROVE  FreshStamps'
    <2>1. PICK n \in Note, landed \in BOOLEAN : Landing(s, n, landed)
      BY <1>4, LandingDoes
    <2>2. /\ sess'[s] = AtRest /\ UNCHANGED <<clock, taken, archive, watch>>
          /\ \A o \in Session \ {s} : sess'[o].pc = sess[o].pc /\ sess'[o].ts = sess[o].ts
          /\ Holds(s) /\ n.ts = sess[s].ts /\ n.from = s /\ ~Holds(s)'
      BY <2>1 DEF Landing, Left, Holds, AtRest
    <2>3. Kept' = Kept \/ Kept' = Kept \union {n}
      BY <2>1, KeptGrows, KeptStays DEF Landing
    <2>4. \A o \in Session \ {s} : Holds(o) => n.re # sess[o].ts
      <3>1. CASE sess[s].pc = "append" /\ n = NoteOf(s)
        BY <3>1 DEF NoteOf, AnswersAreMeant, Answering
      <3>2. CASE n = MarkOf(s)
        BY <1>0, <3>2 DEF MarkOf, FreshStamps, NoStamp
      <3> QED
        BY <2>1, <3>1, <3>2 DEF Landing
    <2>5. \A m \in Kept' : m.ts \in taken' /\ m.ts <= clock'[HostOf[m.from]]
      BY <2>2, <2>3 DEF FreshStamps
    <2>6. \A m, k \in Kept' : m.ts = k.ts => m = k
      BY <2>2, <2>3 DEF FreshStamps
    <2>7. ASSUME NEW o \in Session, Holds(o)'
          PROVE  /\ sess'[o].ts \in taken' /\ sess'[o].ts <= clock'[HostOf[o]]
                 /\ \A p \in Session : sess'[o].ts \notin watch'[p].woken
                 /\ \A m \in Kept' : m.ts # sess'[o].ts /\ m.re # sess'[o].ts
                 /\ \A p \in Session : Holds(p)' /\ sess'[p].ts = sess'[o].ts => p = o
      <3>1. o # s /\ Holds(o) /\ sess'[o].ts = sess[o].ts
        BY <2>2, <2>7 DEF Holds
      <3>2. /\ sess'[o].ts \in taken' /\ sess'[o].ts <= clock'[HostOf[o]]
            /\ \A p \in Session : sess'[o].ts \notin watch'[p].woken
        BY <2>2, <3>1 DEF FreshStamps
      <3>3. \A m \in Kept' : m.ts # sess'[o].ts /\ m.re # sess'[o].ts
        BY <2>2, <2>3, <2>4, <3>1 DEF FreshStamps
      <3>4. \A p \in Session : Holds(p)' /\ sess'[p].ts = sess'[o].ts => p = o
        <4>1. \A p \in Session : Holds(p)' => p # s /\ Holds(p) /\ sess'[p].ts = sess[p].ts
          BY <2>2 DEF Holds
        <4> QED
          BY <3>1, <4>1 DEF FreshStamps
      <3> QED
        BY <3>2, <3>3, <3>4
    <2>8. \A o \in Session : watch'[o].woken \subseteq taken'
      BY <2>2 DEF FreshStamps
    <2> QED
      BY <2>5, <2>6, <2>7, <2>8 DEF FreshStamps
  <1>5. ASSUME NEW s \in Session, Rename(s)
        PROVE  FreshStamps'
    <2>1. /\ Holds(s) /\ UNCHANGED <<clock, taken, watch>>
          /\ \A o \in Session : (Holds(o)' <=> Holds(o)) /\ sess'[o].ts = sess[o].ts
      BY <1>5, RenameDoes DEF Holds, Left
    <2>2. Kept' \subseteq Kept
      BY <1>5, RenameDoes, KeptShrinks
    <2> QED
      BY <2>1, <2>2 DEF FreshStamps
  <1>6. ASSUME NEW s \in Session, Watch(s)
        PROVE  FreshStamps'
    <2>1. UNCHANGED <<clock, taken, live, archive, sess>>
      BY <1>6, WatchDoes
    <2>2. Kept' = Kept /\ \A o \in Session : Holds(o)' <=> Holds(o)
      BY <2>1, KeptStays DEF Holds
    <2>3. ASSUME NEW o \in Session, NEW ts \in watch'[o].woken
          PROVE  ts \in taken /\ \A p \in Session : Holds(p) => ts # sess[p].ts
      <3>1. ts \in watch[o].woken \/ \E n \in ToSet(live) : ts = n.ts
        BY <1>6, WatchDoes
      <3> QED
        BY <1>0, <3>1 DEF FreshStamps
    <2> QED
      BY <2>1, <2>2, <2>3 DEF FreshStamps
  <1> QED
    BY StepIs, <1>1, <1>2, <1>3, <1>4, <1>5, <1>6

\* Answers stay answers to who asked: a line that lands is one nobody names yet.
LEMMA AnswersStep ==
    ASSUME TypeOK, FreshStamps, AnswersAreMeant, [Next]_vars
    PROVE  AnswersAreMeant'
  <1>0. /\ taken \subseteq 1..MaxStamp /\ NoStamp \notin taken
        /\ Kept \subseteq Note /\ ToSet(live) \subseteq Kept
        /\ \A n \in Kept : n.ts \in taken
        /\ \A s \in Session : Holds(s) => sess[s].ts \in taken
    <2>1. taken \subseteq 1..MaxStamp /\ MaxStamp \in Nat
      BY ClocksAre
    <2> QED
      BY <2>1, KeptAre DEF FreshStamps, NoStamp
  <1>1. CASE UNCHANGED vars
    BY <1>1 DEF vars, AnswersAreMeant, Names, Holds, Kept
  <1>2. ASSUME NEW s \in Session, Begins(s)
        PROVE  AnswersAreMeant'
    <2>1. /\ Chooses(s) /\ taken' = taken
          /\ \A o \in Session \ {s} : sess'[o] = sess[o]
      BY <1>2, BeginsDoes
    <2>2. Kept' = Kept
      BY <1>2, BeginsDoes, KeptStays
    <2>3. ~Holds(s)'
      BY <2>1 DEF Chooses, Holds
    <2>4. \A o \in Session : Holds(o)' => Holds(o) /\ sess'[o].ts = sess[o].ts
      BY <2>1, <2>3 DEF Holds
    <2>5. \A a \in Kept' : Names(a.re, a.kind, a.to)'
      BY <2>1, <2>2 DEF AnswersAreMeant, Names
    <2>6. ASSUME NEW o \in Session, sess'[o].pc \in Answering
          PROVE  /\ Names(sess[o].re, sess[o].kind, sess[o].to)'
                 /\ \A p \in Session : Holds(p)' => sess'[p].ts # sess'[o].re
      <3>1. CASE o # s
        BY <2>1, <2>2, <2>4, <2>6, <3>1 DEF AnswersAreMeant, Names
      <3>2. CASE o = s /\ sess'[s].re = NoStamp
        BY <1>0, <2>4, <3>2 DEF Names, NoStamp
      <3>3. CASE o = s /\ sess'[s].pc = "check"
        <4>1. PICK q \in ToSet(live) : sess'[s].re = q.ts /\ sess'[s].to = q.from
          BY <2>1, <3>3 DEF Chooses
        <4>2. q \in Kept /\ sess'[s].kind = "answer"
          BY <1>0, <2>1, <3>3 DEF Chooses
        <4>3. \A p \in Kept' : p.ts = sess'[s].re => p.from = sess'[s].to
          BY <2>2, <4>1, <4>2 DEF FreshStamps
        <4>4. \A p \in Session : Holds(p)' => sess'[p].ts # sess'[s].re
          BY <2>4, <4>1, <4>2 DEF FreshStamps
        <4>5. sess'[s].re \in taken'
          BY <1>0, <2>1, <4>1, <4>2
        <4> QED
          BY <3>3, <4>2, <4>3, <4>4, <4>5 DEF Names
      <3>4. CASE /\ o = s /\ sess[s].pc = "check" /\ sess'[s].re = sess[s].re
                 /\ sess'[s].to = sess[s].to /\ sess'[s].kind = sess[s].kind
        BY <2>1, <2>2, <2>4, <3>4 DEF AnswersAreMeant, Names, Answering
      <3> QED
        BY <2>1, <2>6, <3>1, <3>2, <3>3, <3>4 DEF Chooses, Answering
    <2> QED
      BY <2>5, <2>6 DEF AnswersAreMeant
  <1>3. ASSUME NEW s \in Session, Stamping(s)
        PROVE  AnswersAreMeant'
    <2>0. PICK t \in 1..MaxStamp : Dated(s, t)
      BY <1>3, StampingDoes
    <2>1. /\ sess'[s].ts = t /\ t \notin taken /\ taken' = taken \union {t} /\ t # NoStamp
          /\ \/ /\ sess'[s].pc = "append" /\ sess[s].pc = "stamp"
                /\ sess'[s].kind = sess[s].kind /\ sess'[s].to = sess[s].to
                /\ sess'[s].re = sess[s].re
             \/ sess'[s].pc = "rename"
          /\ \A o \in Session \ {s} : sess'[o] = sess[o]
      BY <1>3, <2>0, StampingDoes DEF Dated, NoStamp
    <2>2. Kept' = Kept
      BY <1>3, StampingDoes, KeptStays
    <2>3. \A re, kind, to : Names(re, kind, to) => Names(re, kind, to)' /\ re # t
      BY <2>1, <2>2 DEF Names
    <2>4. \A a \in Kept' : Names(a.re, a.kind, a.to)'
      BY <2>2, <2>3 DEF AnswersAreMeant
    <2>5. ASSUME NEW o \in Session, sess'[o].pc \in Answering
          PROVE  /\ Names(sess[o].re, sess[o].kind, sess[o].to)'
                 /\ \A p \in Session : Holds(p)' => sess'[p].ts # sess'[o].re
      <3>1. /\ sess[o].pc \in Answering /\ sess'[o].kind = sess[o].kind
            /\ sess'[o].to = sess[o].to /\ sess'[o].re = sess[o].re
        BY <2>1, <2>5 DEF Answering
      <3>2. /\ Names(sess[o].re, sess[o].kind, sess[o].to)
            /\ \A p \in Session : Holds(p) => sess[p].ts # sess[o].re
        BY <3>1 DEF AnswersAreMeant
      <3>3. Names(sess[o].re, sess[o].kind, sess[o].to)' /\ sess'[o].re # t
        BY <2>3, <3>1, <3>2
      <3>4. \A p \in Session : Holds(p)' => p = s \/ (Holds(p) /\ sess'[p].ts = sess[p].ts)
        BY <2>1 DEF Holds
      <3> QED
        BY <2>1, <3>1, <3>2, <3>3, <3>4
    <2> QED
      BY <2>4, <2>5 DEF AnswersAreMeant
  <1>4. ASSUME NEW s \in Session, AppendNote(s) \/ Mark(s)
        PROVE  AnswersAreMeant'
    <2>1. PICK n \in Note, landed \in BOOLEAN : Landing(s, n, landed)
      BY <1>4, LandingDoes
    <2>2. /\ sess'[s] = AtRest /\ taken' = taken
          /\ \A o \in Session \ {s} : Left(o)
          /\ Holds(s) /\ n.ts = sess[s].ts /\ ~Holds(s)' /\ sess'[s].pc = "idle"
      BY <2>1 DEF Landing, Holds, AtRest
    <2>3. Kept' = Kept \/ Kept' = Kept \union {n}
      BY <2>1, KeptGrows, KeptStays DEF Landing
    <2>4. \A re, kind, to : Names(re, kind, to) /\ re # sess[s].ts => Names(re, kind, to)'
      BY <2>2, <2>3 DEF Names
    <2>5. Names(n.re, n.kind, n.to) /\ n.re # sess[s].ts
      <3>1. CASE sess[s].pc = "append" /\ n = NoteOf(s)
        BY <2>2, <3>1 DEF NoteOf, AnswersAreMeant, Answering
      <3>2. CASE n = MarkOf(s)
        BY <1>0, <2>2, <3>2 DEF MarkOf, Names, NoStamp
      <3> QED
        BY <2>1, <3>1, <3>2 DEF Landing
    <2>6. \A a \in Kept' : Names(a.re, a.kind, a.to)'
      <3>1. \A a \in Kept : Names(a.re, a.kind, a.to) /\ a.re # sess[s].ts
        BY <2>2 DEF AnswersAreMeant, FreshStamps
      <3>2. \A a \in Kept \union {n} : Names(a.re, a.kind, a.to)'
        BY <2>4, <2>5, <3>1
      <3> QED
        BY <2>3, <3>2
    <2>7. ASSUME NEW o \in Session, sess'[o].pc \in Answering
          PROVE  /\ Names(sess[o].re, sess[o].kind, sess[o].to)'
                 /\ \A p \in Session : Holds(p)' => sess'[p].ts # sess'[o].re
      <3>1. /\ o # s /\ sess[o].pc \in Answering /\ sess'[o].kind = sess[o].kind
            /\ sess'[o].to = sess[o].to /\ sess'[o].re = sess[o].re
        BY <2>2, <2>7 DEF Answering, Left
      <3>2. /\ Names(sess[o].re, sess[o].kind, sess[o].to)
            /\ \A p \in Session : Holds(p) => sess[p].ts # sess[o].re
        BY <3>1 DEF AnswersAreMeant
      <3>3. Names(sess[o].re, sess[o].kind, sess[o].to)'
        BY <2>2, <2>4, <3>1, <3>2
      <3>4. \A p \in Session : Holds(p)' => Holds(p) /\ sess'[p].ts = sess[p].ts
        BY <2>2 DEF Holds, Left
      <3> QED
        BY <3>1, <3>2, <3>3, <3>4
    <2> QED
      BY <2>6, <2>7 DEF AnswersAreMeant
  <1>5. ASSUME NEW s \in Session, Rename(s)
        PROVE  AnswersAreMeant'
    <2>1. /\ taken' = taken /\ sess'[s].pc = "mark" /\ sess[s].pc = "rename"
          /\ sess'[s].ts = sess[s].ts
          /\ \A o \in Session \ {s} : Left(o)
      BY <1>5, RenameDoes
    <2>2. Kept' \subseteq Kept
      BY <1>5, RenameDoes, KeptShrinks
    <2>3. \A re, kind, to : Names(re, kind, to) => Names(re, kind, to)'
      BY <2>1, <2>2 DEF Names
    <2>4. \A o \in Session : Holds(o)' => Holds(o) /\ sess'[o].ts = sess[o].ts
      BY <2>1 DEF Holds, Left
    <2>5. \A o \in Session : sess'[o].pc \in Answering =>
             /\ sess[o].pc \in Answering /\ sess'[o].kind = sess[o].kind
             /\ sess'[o].to = sess[o].to /\ sess'[o].re = sess[o].re
      BY <2>1 DEF Answering, Left
    <2>6. \A a \in Kept' : Names(a.re, a.kind, a.to)'
      BY <2>2, <2>3 DEF AnswersAreMeant
    <2>7. \A o \in Session : sess'[o].pc \in Answering =>
             /\ Names(sess[o].re, sess[o].kind, sess[o].to)'
             /\ \A p \in Session : Holds(p)' => sess'[p].ts # sess'[o].re
      BY <2>3, <2>4, <2>5 DEF AnswersAreMeant
    <2> QED
      BY <2>6, <2>7 DEF AnswersAreMeant
  <1>6. ASSUME NEW s \in Session, Watch(s)
        PROVE  AnswersAreMeant'
    <2>1. UNCHANGED <<clock, taken, live, archive, sess>>
      BY <1>6, WatchDoes
    <2> QED
      BY <2>1 DEF AnswersAreMeant, Names, Holds, Kept
  <1> QED
    BY StepIs, <1>1, <1>2, <1>3, <1>4, <1>5, <1>6

\* The channel's questions are answered while a rotation is under way, and what it moves.
LEMMA FilesStep ==
    ASSUME TypeOK, FreshStamps, FilesAreAnswered, [Next]_vars
    PROVE  FilesAreAnswered'
  <1>1. CASE UNCHANGED vars
    BY <1>1 DEF vars, FilesAreAnswered, AnsweredIn
  <1>2. ASSUME NEW s \in Session, Begins(s)
        PROVE  FilesAreAnswered'
    <2>1. /\ UNCHANGED <<live, archive, crossing>> /\ sess'[s].pc # "rename"
          /\ \A o \in Session \ {s} : sess'[o] = sess[o]
      BY <1>2, BeginsDoes DEF Chooses
    <2> QED
      BY <2>1 DEF FilesAreAnswered, AnsweredIn
  <1>3. ASSUME NEW s \in Session, Stamping(s)
        PROVE  FilesAreAnswered'
    <2>1. /\ UNCHANGED <<live, archive, crossing>>
          /\ sess'[s].pc = "rename" => OpenNotes(live) = {}
          /\ \A o \in Session \ {s} : sess'[o] = sess[o]
      BY <1>3, StampingDoes
    <2>2. sess'[s].pc = "rename" => AnsweredIn(live)
      BY <2>1 DEF OpenNotes, AnsweredIn
    <2> QED
      BY <2>1, <2>2 DEF FilesAreAnswered, AnsweredIn
  <1>4. ASSUME NEW s \in Session, AppendNote(s) \/ Mark(s)
        PROVE  FilesAreAnswered'
    <2>1. PICK n \in Note, landed \in BOOLEAN : Landing(s, n, landed)
      BY <1>4, LandingDoes
    <2>2. archive' = archive /\ crossing \subseteq crossing' /\ sess'[s].pc = "idle"
      BY <2>1 DEF Landing, AtRest
    <2>3. \A second \in 0..MaxStamp : AnsweredIn(archive[second])'
      BY <2>2 DEF FilesAreAnswered, AnsweredIn
    <2>4. ASSUME NEW o \in Session, sess'[o].pc = "rename"
          PROVE  AnsweredIn(live)'
      <3>1. o # s /\ sess[o].pc = "rename"
        BY <2>1, <2>2, <2>4 DEF Landing, Left
      <3>2. AnsweredIn(live) /\ Busy(s) # {}
        BY <3>1 DEF FilesAreAnswered, Busy
      <3>3. CASE landed
        <4>1. ToSet(live)' = ToSet(live) \union {n} /\ n.ts \in crossing'
          BY <2>1, <3>2, <3>3, KeptGrows DEF Landing
        <4> QED
          BY <2>2, <3>2, <4>1 DEF AnsweredIn
      <3>4. CASE ~landed
        BY <2>1, <2>2, <3>2, <3>4 DEF AnsweredIn, Landing
      <3> QED
        BY <3>3, <3>4
    <2> QED
      BY <2>3, <2>4 DEF FilesAreAnswered
  <1>5. ASSUME NEW s \in Session, Rename(s)
        PROVE  FilesAreAnswered'
    <2>1. /\ sess[s].pc = "rename" /\ crossing' = crossing
          /\ archive' = [archive EXCEPT ![ArchiveName(sess[s].ts)] = live] /\ live' = <<>>
          /\ ArchiveName(sess[s].ts) \in 0..MaxStamp
      BY <1>5, RenameDoes
    <2>2. \A second \in 0..MaxStamp : archive'[second] = live \/ archive'[second] = archive[second]
      BY <2>1 DEF TypeOK
    <2>3. AnsweredIn(live) /\ \A second \in 0..MaxStamp : AnsweredIn(archive[second])
      BY <2>1 DEF FilesAreAnswered
    <2>4. ToSet(live') = {}
      BY <2>1, KeptShrinks
    <2>5. \A second \in 0..MaxStamp : AnsweredIn(archive[second])'
      <3> TAKE second \in 0..MaxStamp
      <3>1. CASE archive'[second] = live
        BY <2>1, <2>3, <3>1 DEF AnsweredIn
      <3>2. CASE archive'[second] = archive[second]
        BY <2>1, <2>3, <3>2 DEF AnsweredIn
      <3> QED
        BY <2>2, <3>1, <3>2
    <2>6. AnsweredIn(live)'
      BY <2>4 DEF AnsweredIn
    <2> QED
      BY <2>5, <2>6 DEF FilesAreAnswered
  <1>6. ASSUME NEW s \in Session, Watch(s)
        PROVE  FilesAreAnswered'
    <2>1. UNCHANGED <<live, archive, sess, crossing>>
      BY <1>6, WatchDoes
    <2> QED
      BY <2>1 DEF FilesAreAnswered, AnsweredIn
  <1> QED
    BY StepIs, <1>1, <1>2, <1>3, <1>4, <1>5, <1>6

\* What lands out of order crosses whoever holds an earlier stamp.
LEMMA OrderStep ==
    ASSUME TypeOK, FreshStamps, InOrder, [Next]_vars
    PROVE  InOrder'
  <1>0. /\ \A n \in ToSet(live) : n.from \in Session /\ n.ts \in Nat /\ n.ts <= clock[HostOf[n.from]]
        /\ \A n : n \in ToSet(live) <=> \E i \in 1..Len(live) : n = live[i]
        /\ Len(live) \in Nat
        /\ \A s \in Session : HostOf[s] \in Host /\ clock[HostOf[s]] \in Nat
    <2>1. ToSet(live) \subseteq Kept /\ Kept \subseteq Note
      BY KeptAre
    <2>2. \A n \in ToSet(live) : n.from \in Session /\ n.ts \in Nat /\ n.ts <= clock[HostOf[n.from]]
      BY <2>1, StampsAre DEF FreshStamps, Note
    <2>3. Len(live) \in Nat /\ \A n : n \in ToSet(live) <=> \E i \in 1..Len(live) : n = live[i]
      BY LinesAre DEF TypeOK
    <2> QED
      BY <2>2, <2>3, ClocksAre
  <1>1. CASE UNCHANGED vars
    BY <1>1 DEF vars, InOrder, Holds, SameClock
  <1>2. ASSUME NEW s \in Session, Begins(s)
        PROVE  InOrder'
    <2>1. /\ UNCHANGED <<live, crossing>> /\ ~Holds(s)'
          /\ \A o \in Session \ {s} : sess'[o] = sess[o]
      BY <1>2, BeginsDoes DEF Chooses, Holds
    <2> QED
      BY <2>1 DEF InOrder, Holds, SameClock
  <1>3. ASSUME NEW s \in Session, Stamping(s)
        PROVE  InOrder'
    <2>0. PICK t \in 1..MaxStamp : Dated(s, t)
      BY <1>3, StampingDoes
    <2>1. /\ UNCHANGED <<live, crossing>>
          /\ \A o \in Session \ {s} : sess'[o] = sess[o]
      BY <1>3, StampingDoes
    <2>2. \A n \in ToSet(live) : HostOf[n.from] = HostOf[s] => ~(n.ts > sess'[s].ts)
      <3>1. t > clock[HostOf[s]] /\ sess'[s].ts = t /\ t \in Nat
        BY <2>0 DEF Dated
      <3> QED
        BY <1>0, <3>1
    <2>3. ASSUME NEW o \in Session, Holds(o)', NEW n \in ToSet(live),
                 n.ts > sess'[o].ts, HostOf[n.from] = HostOf[o]
          PROVE  sess'[o].crossed /\ n.ts \in crossing
      <3>1. o # s /\ sess'[o] = sess[o] /\ Holds(o)
        BY <2>1, <2>2, <2>3 DEF Holds
      <3> QED
        BY <2>3, <3>1 DEF InOrder
    <2> QED
      BY <2>1, <2>3 DEF InOrder, SameClock
  <1>4. ASSUME NEW s \in Session, AppendNote(s) \/ Mark(s)
        PROVE  InOrder'
    <2>1. PICK n \in Note, landed \in BOOLEAN : Landing(s, n, landed)
      BY <1>4, LandingDoes
    <2>2. /\ crossing \subseteq crossing' /\ ~Holds(s)' /\ Holds(s) /\ n.ts = sess[s].ts /\ n.from = s
          /\ \A o \in Session \ {s} : Left(o) /\ (landed /\ o \in Busy(s) => sess'[o].crossed)
          /\ live' = IF landed THEN Append(live, n) ELSE live
      BY <2>1 DEF Landing, AtRest, Holds
    <2>3. ASSUME NEW o \in Session, Holds(o)'
          PROVE  /\ o # s /\ Holds(o) /\ sess'[o].ts = sess[o].ts
                 /\ sess[o].crossed => sess'[o].crossed
                 /\ landed => sess'[o].crossed
      BY <2>2, <2>3 DEF Holds, Left, Busy
    <2>4. CASE ~landed
      BY <2>2, <2>3, <2>4 DEF InOrder, SameClock
    <2>5. CASE landed
      <3>1. /\ ToSet(live)' = ToSet(live) \union {n} /\ Len(live') = Len(live) + 1
            /\ \A i \in 1..Len(live) : live'[i] = live[i]
            /\ live'[Len(live) + 1] = n
        BY <2>1, <2>2, <2>5, KeptGrows DEF Landing
      <3>2. ASSUME NEW i \in 1..Len(live'), NEW j \in 1..Len(live'), i < j, live'[i].ts > live'[j].ts
            PROVE  live'[i].ts \in crossing' \/ ~SameClock(live'[i], live'[j])
        <4>1. i \in 1..Len(live) /\ live'[i] = live[i] /\ live[i] \in ToSet(live)
          BY <1>0, <3>1, <3>2
        <4>2. CASE j \in 1..Len(live)
          BY <2>2, <3>1, <3>2, <4>1, <4>2 DEF InOrder
        <4>3. CASE j = Len(live) + 1
          BY <2>2, <3>1, <3>2, <4>1, <4>3 DEF InOrder, SameClock
        <4> QED
          BY <1>0, <3>1, <4>2, <4>3
      <3>3. ASSUME NEW o \in Session, Holds(o)', NEW m \in ToSet(live'), m.ts > sess'[o].ts,
                   HostOf[m.from] = HostOf[o]
            PROVE  sess'[o].crossed /\ m.ts \in crossing'
        <4>1. sess'[o].crossed /\ o # s /\ Holds(o) /\ sess'[o].ts = sess[o].ts
          BY <2>3, <2>5, <3>3
        <4>2. CASE m \in ToSet(live)
          BY <2>2, <3>3, <4>1, <4>2 DEF InOrder
        <4>3. CASE m = n
          <5>1. o \in Busy(s)
            BY <4>1 DEF Busy, Holds
          <5> QED
            BY <2>1, <2>5, <4>1, <4>3, <5>1 DEF Landing
        <4> QED
          BY <3>1, <4>2, <4>3
      <3> QED
        BY <3>2, <3>3 DEF InOrder, SameClock
    <2> QED
      BY <2>4, <2>5
  <1>5. ASSUME NEW s \in Session, Rename(s)
        PROVE  InOrder'
    <2>1. ToSet(live)' = {} /\ Len(live') = 0
      BY <1>5, RenameDoes, KeptShrinks
    <2> QED
      BY <2>1 DEF InOrder
  <1>6. ASSUME NEW s \in Session, Watch(s)
        PROVE  InOrder'
    <2>1. UNCHANGED <<live, sess, crossing>>
      BY <1>6, WatchDoes
    <2> QED
      BY <2>1 DEF InOrder, Holds, SameClock
  <1> QED
    BY StepIs, <1>1, <1>2, <1>3, <1>4, <1>5, <1>6

\* A line that lands comes to an inbox by itself only: no earlier line names it.
LEMMA InboxGrows ==
    ASSUME TypeOK, FreshStamps, NEW w \in Session, Holds(w), NEW n \in Note, n.ts = sess[w].ts,
           n.from = w, live' = Append(live, n), archive' = archive, NEW s \in Session
    PROVE  /\ InboxFor(live', s) \subseteq InboxFor(live, s) \union {n}
           /\ \A m \in InboxFor(live, s) : Before(s, m)' => Before(s, m)
           /\ s # w => LastBy(live', s) = LastBy(live, s)
           /\ s = w => n \notin InboxFor(live', s)
  <1>1. /\ ToSet(live)' = ToSet(live) \union {n} /\ Len(live') = Len(live) + 1 /\ Len(live) \in Nat
        /\ \A i \in 1..Len(live) : live'[i] = live[i]
        /\ live'[Len(live) + 1] = n
    BY KeptGrows
  <1>2. \A m \in ToSet(live) : m \in Note /\ m.ts # n.ts /\ m.re # n.ts
    BY KeptAre DEF FreshStamps
  <1>3. AskedBy(live', s) \subseteq AskedBy(live, s) \union {n.ts}
    BY <1>1 DEF AskedBy
  <1>4. s # w => AskedBy(live', s) = AskedBy(live, s)
    BY <1>1 DEF AskedBy
  <1>5. \A m \in InboxFor(live', s) : m \in InboxFor(live, s) \union {n}
    BY <1>1, <1>2, <1>3 DEF InboxFor
  <1>6. ASSUME NEW m \in InboxFor(live, s), Before(s, m)'
        PROVE  Before(s, m)
    <2>1. m \in ToSet(live)
      BY DEF InboxFor
    <2>2. m # n
      BY <1>2, <2>1
    <2>3. PICK i \in 1..Len(live'), j \in 1..Len(live') : i < j /\ live'[i].from = s /\ live'[j] = m
      BY <1>6 DEF Before
    <2>4. j \in 1..Len(live) /\ i \in 1..Len(live)
      BY <1>1, <2>2, <2>3
    <2> QED
      BY <1>1, <2>3, <2>4 DEF Before
  <1>7. s # w => LastBy(live', s) = LastBy(live, s)
    BY <1>4 DEF LastBy
  <1>8. s = w => n \notin InboxFor(live', s)
    BY DEF InboxFor
  <1> QED
    BY <1>5, <1>6, <1>7, <1>8

\* What came for a session that has written is later than its last line, or was before it.
LEMMA CameLater ==
    ASSUME TypeOK, FreshStamps, NEW s \in Session, NEW n \in InboxFor(live, s), Before(s, n)
    PROVE  n.ts < LastBy(live, s) \/ n \in Crossed(live, s)
  <1>1. /\ live \in Seq(Note) /\ ToSet(live) \subseteq Kept /\ Kept \subseteq Note
        /\ \A i \in 1..Len(live) : live[i] \in ToSet(live)
    BY KeptAre, LinesAre DEF TypeOK
  <1>2. n \in ToSet(live) /\ n.from # s
    BY DEF InboxFor
  <1>3. PICK i \in 1..Len(live) : live[i].from = s
    BY DEF Before
  <1>4. live[i].ts \in 1..MaxStamp /\ n.ts \in 1..MaxStamp /\ MaxStamp \in Nat
    BY <1>1, <1>2, StampsAre
  <1>5. /\ LastBy(live, s) \in 0..MaxStamp /\ live[i].ts <= LastBy(live, s)
        /\ LastBy(live, s) # NoStamp =>
                 \E m \in ToSet(live) : m.from = s /\ m.ts = LastBy(live, s)
    BY <1>1, <1>3, LastByIs
  <1>6. LastBy(live, s) # NoStamp
    BY <1>4, <1>5 DEF NoStamp
  <1>7. n.ts # LastBy(live, s)
    BY <1>1, <1>2, <1>5, <1>6 DEF FreshStamps
  <1>8. n.ts < LastBy(live, s) \/ n.ts > LastBy(live, s)
    BY <1>4, <1>5, <1>7
  <1> QED
    BY <1>6, <1>8 DEF Crossed

\* An empty file has nothing for anybody.
LEMMA NothingInEmpty ==
    ASSUME ToSet(live) = {}, NEW s \in Session
    PROVE  InboxFor(live, s) = {}
  BY DEF InboxFor

\* What stands out of order stays so as the file grows.
LEMMA BehindGrows ==
    ASSUME TypeOK, NEW n \in Note, live' = Append(live, n), archive' = archive
    PROVE  /\ \A i, j \in 1..Len(live) : Skewed(i, j) => Skewed(i, j)' /\ i \in 1..Len(live') /\ j \in 1..Len(live')
           /\ \A s, m : Behind(s, m) => Behind(s, m)'
  <1>1. /\ Len(live') = Len(live) + 1 /\ Len(live) \in Nat
        /\ \A i \in 1..Len(live) : live'[i] = live[i]
    BY KeptGrows
  <1>2. \A i, j \in 1..Len(live) : Skewed(i, j) => Skewed(i, j)' /\ i \in 1..Len(live') /\ j \in 1..Len(live')
    BY <1>1 DEF Skewed, SameClock
  <1>3. ASSUME NEW s, NEW m, Behind(s, m)
        PROVE  Behind(s, m)'
    <2>1. PICK i \in 1..Len(live), j \in 1..Len(live) :
            live[i].from = s /\ live[j] = m /\ Skewed(i, j)
      BY <1>3 DEF Behind
    <2> QED
      BY <1>1, <1>2, <2>1 DEF Behind
  <1> QED
    BY <1>2, <1>3

\* A line whose clock is behind that of an earlier one stands behind it.
LEMMA LandsBehind ==
    ASSUME TypeOK, NEW n \in Note, live' = Append(live, n), archive' = archive,
           NEW k \in ToSet(live), k.ts > n.ts, HostOf[k.from] # HostOf[n.from]
    PROVE  Behind(k.from, n)'
  <1>0. PICK j \in Nat : j = Len(live) + 1
    BY LinesAre DEF TypeOK
  <1>1. /\ Len(live') = j /\ Len(live) \in Nat
        /\ \A i \in 1..Len(live) : live'[i] = live[i]
        /\ live'[j] = n
    BY <1>0, KeptGrows
  <1>2. PICK i \in 1..Len(live) : k = live[i]
    BY LinesAre DEF TypeOK
  <1>3. i < j /\ live'[i] = k /\ i \in 1..Len(live') /\ j \in 1..Len(live')
    BY <1>0, <1>1, <1>2
  <1>4. Skewed(i, j)'
    BY <1>1, <1>3 DEF Skewed, SameClock
  <1> QED
    BY <1>1, <1>3, <1>4 DEF Behind

\* As long as the channel stays, so does all that is read from it.
LEMMA ReadingStays ==
    ASSUME live' = live
    PROVE  /\ \A s \in Session : InboxFor(live, s)' = InboxFor(live, s) /\ LastBy(live, s)' = LastBy(live, s)
           /\ \A s, n : (Before(s, n)' <=> Before(s, n)) /\ (Behind(s, n)' <=> Behind(s, n))
  <1>1. \A s \in Session : InboxFor(live, s)' = InboxFor(live, s) /\ LastBy(live, s)' = LastBy(live, s)
    BY DEF InboxFor, LastBy, AskedBy
  <1> QED
    BY <1>1 DEF Before, Behind, Skewed

\* A session that is about to write has found what came for it.
LEMMA WaitingStep ==
    ASSUME TypeOK, FreshStamps, FoundWaiting, CrossingNotice, [Next]_vars
    PROVE  FoundWaiting'
  <1>1. CASE UNCHANGED vars
    BY <1>1, ReadingStays DEF vars, FoundWaiting
  <1>2. ASSUME NEW w \in Session, Begins(w)
        PROVE  FoundWaiting'
    <2>1. /\ UNCHANGED <<live, heard, crossing>> /\ Chooses(w) /\ Finds(w)
          /\ \A o \in Session \ {w} : sess'[o] = sess[o]
      BY <1>2, BeginsDoes
    <2>2. ASSUME NEW s \in Session \ Remote, sess'[s].pc \in {"stamp", "append"},
                 NEW n \in InboxFor(live, s), Before(s, n)
          PROVE  n.ts \in sess'[s].waiting \union heard[s] \union crossing \/ Behind(s, n)
      <3>1. CASE s # w
        BY <2>1, <2>2, <3>1 DEF FoundWaiting
      <3>2. CASE s = w
        <4>1. sess'[s].waiting = {m.ts : m \in Crossed(live, s)}
          BY <2>1, <2>2, <3>2 DEF Finds, Chooses
        <4>2. CASE n \in Crossed(live, s)
          BY <4>1, <4>2
        <4>3. CASE n.ts < LastBy(live, s)
          BY <2>2, <4>3 DEF CrossingNotice
        <4> QED
          BY <2>2, <4>2, <4>3, CameLater
      <3> QED
        BY <3>1, <3>2
    <2>3. \A s \in Session \ Remote : sess'[s].pc = "mark" => \A n \in ToSet(live) : n.ts \in crossing
      BY <2>1 DEF FoundWaiting, Chooses
    <2> QED
      BY <2>1, <2>2, <2>3, ReadingStays DEF FoundWaiting
  <1>3. ASSUME NEW w \in Session, Stamping(w)
        PROVE  FoundWaiting'
    <2>1. /\ UNCHANGED <<live, heard, crossing>>
          /\ \/ /\ sess'[w].pc = "append" /\ sess[w].pc = "stamp"
                /\ sess'[w].waiting = sess[w].waiting
             \/ sess'[w].pc = "rename"
          /\ \A o \in Session \ {w} : sess'[o] = sess[o]
      BY <1>3, StampingDoes
    <2> QED
      BY <2>1, ReadingStays DEF FoundWaiting
  <1>4. ASSUME NEW w \in Session, AppendNote(w) \/ Mark(w)
        PROVE  FoundWaiting'
    <2>1. PICK n \in Note, landed \in BOOLEAN : Landing(w, n, landed)
      BY <1>4, LandingDoes
    <2>2. /\ Holds(w) /\ n.ts = sess[w].ts /\ n.from = w /\ archive' = archive
          /\ crossing \subseteq crossing' /\ sess'[w].pc = "idle"
          /\ \A o \in Session : heard[o] \subseteq heard'[o]
          /\ \A o \in Session \ {w} : sess'[o].pc = sess[o].pc /\ sess'[o].waiting = sess[o].waiting
      BY <2>1 DEF Landing, AtRest, Holds, Left
    <2>3. CASE ~landed
      <3>1. live' = live
        BY <2>1, <2>3 DEF Landing
      <3> QED
        BY <2>2, <3>1, ReadingStays DEF FoundWaiting
    <2>4. CASE landed
      <3>1. live' = Append(live, n)
        BY <2>1, <2>4 DEF Landing
      <3>2. \A s \in Session \ {w} : sess'[s].pc \in {"stamp", "append", "mark"} => n.ts \in crossing'
        BY <2>1, <2>2, <2>4 DEF Landing, Busy
      <3>3. ASSUME NEW s \in Session \ Remote, sess'[s].pc \in {"stamp", "append"},
                   NEW m \in InboxFor(live', s), Before(s, m)'
            PROVE  m.ts \in sess'[s].waiting \union heard'[s] \union crossing' \/ Behind(s, m)'
        <4>1. s # w
          BY <2>2, <3>3
        <4>2. CASE m = n
          BY <3>2, <3>3, <4>1, <4>2
        <4>3. CASE m \in InboxFor(live, s)
          <5>1. Before(s, m)
            BY <2>2, <3>1, <3>3, <4>3, InboxGrows
          <5>2. Behind(s, m) => Behind(s, m)'
            BY <2>2, <3>1, BehindGrows
          <5> QED
            BY <2>2, <3>3, <4>1, <4>3, <5>1, <5>2 DEF FoundWaiting
        <4> QED
          BY <2>2, <3>1, <3>3, <4>2, <4>3, InboxGrows
      <3>4. ASSUME NEW s \in Session \ Remote, sess'[s].pc = "mark", NEW m \in ToSet(live')
            PROVE  m.ts \in crossing'
        <4>1. s # w
          BY <2>2, <3>4
        <4>2. m \in ToSet(live) \/ m = n
          BY <2>2, <3>1, <3>4, KeptGrows
        <4> QED
          BY <2>2, <3>2, <3>4, <4>1, <4>2 DEF FoundWaiting
      <3> QED
        BY <3>3, <3>4 DEF FoundWaiting
    <2> QED
      BY <2>3, <2>4
  <1>5. ASSUME NEW w \in Session, Rename(w)
        PROVE  FoundWaiting'
    <2>1. ToSet(live)' = {}
      BY <1>5, RenameDoes, KeptShrinks
    <2> QED
      BY <2>1 DEF FoundWaiting, InboxFor
  <1>6. ASSUME NEW w \in Session, Watch(w)
        PROVE  FoundWaiting'
    <2>1. UNCHANGED <<live, sess, crossing>> /\ \A o \in Session : heard[o] \subseteq heard'[o]
      BY <1>6, WatchDoes
    <2> QED
      BY <2>1, ReadingStays DEF FoundWaiting
  <1> QED
    BY StepIs, <1>1, <1>2, <1>3, <1>4, <1>5, <1>6

\* Whoever writes has been told of what came for it, or it crossed something.
LEMMA NoticeStep ==
    ASSUME TypeOK, FreshStamps, InOrder, FoundWaiting, CrossingNotice, [Next]_vars
    PROVE  CrossingNotice'
  <1>1. CASE UNCHANGED <<live, heard, crossing>>
    BY <1>1, ReadingStays DEF CrossingNotice
  <1>2. ASSUME NEW w \in Session, Begins(w)
        PROVE  CrossingNotice'
    BY <1>1, <1>2, BeginsDoes
  <1>3. ASSUME NEW w \in Session, Stamping(w)
        PROVE  CrossingNotice'
    BY <1>1, <1>3, StampingDoes
  <1>4. ASSUME NEW w \in Session, AppendNote(w) \/ Mark(w)
        PROVE  CrossingNotice'
    <2>1. PICK n \in Note, landed \in BOOLEAN : Landing(w, n, landed)
      BY <1>4, LandingDoes
    <2>2. /\ Holds(w) /\ n.ts = sess[w].ts /\ n.from = w /\ archive' = archive
          /\ crossing \subseteq crossing'
          /\ \A o \in Session : heard[o] \subseteq heard'[o]
      BY <2>1 DEF Landing, Holds
    <2>3. CASE ~landed
      <3>1. live' = live
        BY <2>1, <2>3 DEF Landing
      <3> QED
        BY <2>2, <3>1, ReadingStays DEF CrossingNotice
    <2>4. CASE landed
      <3>1. live' = Append(live, n)
        BY <2>1, <2>4 DEF Landing
      <3>2. ASSUME NEW s \in Session \ Remote, NEW m \in InboxFor(live', s), Before(s, m)',
                   m.ts < LastBy(live', s)
            PROVE  m.ts \in heard'[s] \union crossing' \/ Behind(s, m)'
        <4>1. CASE s # w /\ m \in InboxFor(live, s)
          <5>1. Before(s, m) /\ LastBy(live', s) = LastBy(live, s)
            BY <2>2, <3>1, <3>2, <4>1, InboxGrows
          <5>2. Behind(s, m) => Behind(s, m)'
            BY <2>2, <3>1, BehindGrows
          <5> QED
            BY <2>2, <3>2, <4>1, <5>1, <5>2 DEF CrossingNotice
        <4>2. CASE s # w /\ m = n
          <5>1. LastBy(live, s) > sess[w].ts
            BY <2>2, <3>1, <3>2, <4>2, InboxGrows
          <5>2. live \in Seq(Note) /\ n.ts \in 1..MaxStamp /\ MaxStamp \in Nat
            BY StampsAre DEF TypeOK
          <5>3. LastBy(live, s) \in 0..MaxStamp /\ LastBy(live, s) # NoStamp
            BY <2>2, <5>1, <5>2, LastByIs DEF NoStamp
          <5>4. PICK k \in ToSet(live) : k.from = s /\ k.ts = LastBy(live, s)
            BY <5>2, <5>3, LastByIs
          <5>5. CASE HostOf[s] = HostOf[w]
            <6>1. sess[w].crossed
              BY <2>2, <5>1, <5>4, <5>5 DEF InOrder
            <6> QED
              BY <2>1, <2>4, <4>2, <6>1 DEF Landing
          <5>6. CASE HostOf[s] # HostOf[w]
            BY <2>2, <3>1, <4>2, <5>1, <5>4, <5>6, LandsBehind
          <5> QED
            BY <5>5, <5>6
        <4>3. CASE s = w
          <5>1. m \in InboxFor(live, s) /\ Before(s, m)
            BY <2>2, <3>1, <3>2, <4>3, InboxGrows
          <5>2. CASE sess[w].pc = "append"
            <6>1. m.ts \in sess[s].waiting \union heard[s] \union crossing \/ Behind(s, m)
              BY <4>3, <5>1, <5>2 DEF FoundWaiting
            <6>2. sess[s].waiting \subseteq heard'[s]
              BY <2>1, <3>2, <4>3, <5>2 DEF Landing
            <6>3. Behind(s, m) => Behind(s, m)'
              BY <2>2, <3>1, BehindGrows
            <6> QED
              BY <2>2, <3>2, <6>1, <6>2, <6>3
          <5>3. CASE sess[w].pc = "mark"
            BY <2>2, <4>3, <5>1, <5>3 DEF FoundWaiting, InboxFor
          <5> QED
            BY <2>1, <5>2, <5>3 DEF Landing
        <4> QED
          BY <2>2, <3>1, <3>2, <4>1, <4>2, <4>3, InboxGrows
      <3> QED
        BY <3>2 DEF CrossingNotice
    <2> QED
      BY <2>3, <2>4
  <1>5. ASSUME NEW w \in Session, Rename(w)
        PROVE  CrossingNotice'
    <2>1. ToSet(live)' = {}
      BY <1>5, RenameDoes, KeptShrinks
    <2> QED
      BY <2>1 DEF CrossingNotice, InboxFor
  <1>6. ASSUME NEW w \in Session, Watch(w)
        PROVE  CrossingNotice'
    <2>1. UNCHANGED <<live, crossing>> /\ \A o \in Session : heard[o] \subseteq heard'[o]
      BY <1>6, WatchDoes
    <2> QED
      BY <2>1, ReadingStays DEF CrossingNotice
  <1>7. UNCHANGED vars => UNCHANGED <<live, heard, crossing>>
    BY DEF vars
  <1> QED
    BY StepIs, <1>1, <1>2, <1>3, <1>4, <1>5, <1>6, <1>7

\* A watcher wakes for something later than what it noted, and the line it notes is the
\* last in the file: a later stamp before it is out of order, or of another clock.
LEMMA WakeDoes ==
    ASSUME TypeOK, InOrder, WokenInOrder, NEW s \in Session, Wake(s)
    PROVE  LET last == live[Max(Hits(s))].ts
           IN  /\ last \in HitStamps(s) /\ last > watch[s].seen
               /\ \A ts \in HitStamps(s) : ts > last => ts \in crossing \/ Ahead(ts)
               /\ watch'[s].seen = last /\ ~watch'[s].on
               /\ watch'[s].woken = watch[s].woken \union HitStamps(s)
               /\ \A o \in Session \ {s} : watch'[o] = watch[o]
               /\ crossing' = crossing /\ live' = live
  <1> DEFINE k == Max(Hits(s))
  <1> DEFINE last == live[k].ts
  <1>1. /\ Hits(s) # {} /\ watch[s].on
        /\ watch' = [watch EXCEPT ![s].on = FALSE, ![s].seen = last,
                                  ![s].woken = @ \union HitStamps(s)]
        /\ crossing' = crossing /\ live' = live
    BY DEF Wake
  <1>2. k \in Hits(s) /\ \A i \in Hits(s) : i <= k
    BY <1>1, HitsAre
  <1>3. /\ \A i \in Hits(s) : i \in 1..Len(live) /\ live[i] \in Note /\ live[i].ts > watch[s].base
        /\ Len(live) \in Nat
    BY HitsAre
  <1> HIDE DEF k
  <1>4. last \in HitStamps(s)
    BY <1>2 DEF HitStamps
  <1>5. /\ watch[s] \in [on : BOOLEAN, base : 0..MaxStamp, seen : 0..MaxStamp, woken : SUBSET Stamps]
        /\ last \in 0..MaxStamp /\ MaxStamp \in Nat
    BY <1>2, <1>3, StampsAre DEF TypeOK
  <1>6. last > watch[s].seen
    BY <1>1, <1>2, <1>3, <1>5 DEF WokenInOrder
  <1>7. ASSUME NEW ts \in HitStamps(s), ts > last
        PROVE  ts \in crossing \/ Ahead(ts)
    <2>1. PICK i \in Hits(s) : ts = live[i].ts
      BY DEF HitStamps
    <2>2. i # k /\ i <= k /\ i \in 1..Len(live) /\ k \in 1..Len(live)
      BY <1>2, <1>3, <1>5, <1>7, <2>1
    <2>3. live[k].ts < live[i].ts /\ i < k
      BY <1>3, <1>5, <1>7, <2>1, <2>2
    <2>4. CASE SameClock(live[i], live[k])
      BY <2>1, <2>2, <2>3, <2>4 DEF InOrder
    <2>5. CASE ~SameClock(live[i], live[k])
      <3>1. Skewed(i, k)
        BY <2>3, <2>5 DEF Skewed
      <3>2. \A m \in 1..Len(live) : live[m].ts = ts => m = i
        BY <2>1, <2>2 DEF TypeOK
      <3> QED
        BY <2>2, <3>1, <3>2 DEF Ahead
    <2> QED
      BY <2>4, <2>5
  <1>8. /\ watch'[s].seen = last /\ ~watch'[s].on
        /\ watch'[s].woken = watch[s].woken \union HitStamps(s)
        /\ \A o \in Session \ {s} : watch'[o] = watch[o]
    BY <1>1, <1>5 DEF TypeOK
  <1> QED
    BY <1>1, <1>4, <1>6, <1>7, <1>8 DEF k

\* So what it has woken for beyond that crossed something, or stands above another clock's line.
LEMMA WokenStep ==
    ASSUME TypeOK, FreshStamps, InOrder, WokenInOrder, [Next]_vars
    PROVE  WokenInOrder'
  <1>0. \A s \in Session : /\ watch[s].seen \in Nat /\ watch[s].base \in Nat
                           /\ watch[s].woken \subseteq Nat
    BY StampsAre DEF TypeOK, Stamps
  <1>1. CASE /\ watch' = watch /\ crossing \subseteq crossing'
             /\ \A s \in Session : \A ts \in watch[s].woken : Ahead(ts) => Ahead(ts)'
    BY <1>1 DEF WokenInOrder
  <1>a. ASSUME live' = live, NEW ts
        PROVE  Ahead(ts)' <=> Ahead(ts)
    BY <1>a DEF Ahead, Skewed
  <1>2. ASSUME NEW s \in Session, Begins(s) \/ Stamping(s)
        PROVE  WokenInOrder'
    <2>1. watch' = watch /\ crossing' = crossing /\ live' = live
      BY <1>2, BeginsDoes, StampingDoes
    <2> QED
      BY <1>1, <1>a, <2>1
  <1>7. ASSUME NEW s \in Session, AppendNote(s) \/ Mark(s)
        PROVE  WokenInOrder'
    <2>1. PICK n \in Note, landed \in BOOLEAN : Landing(s, n, landed)
      BY <1>7, LandingDoes
    <2>2. /\ Holds(s) /\ n.ts = sess[s].ts /\ watch' = watch /\ archive' = archive
          /\ crossing \subseteq crossing' /\ live' = IF landed THEN Append(live, n) ELSE live
      BY <2>1 DEF Landing, Holds
    <2>3. CASE ~landed
      BY <1>1, <1>a, <2>2, <2>3
    <2>4. CASE landed
      <3>1. /\ live' = Append(live, n) /\ Len(live') = Len(live) + 1 /\ Len(live) \in Nat
            /\ \A i \in 1..Len(live) : live'[i] = live[i]
            /\ live'[Len(live) + 1] = n
        BY <2>2, <2>4, KeptGrows
      <3>2. ASSUME NEW o \in Session, NEW ts \in watch[o].woken, Ahead(ts),
                   NEW i \in 1..Len(live'), live'[i].ts = ts
            PROVE  \E j \in 1..Len(live') : Skewed(i, j)'
        <4>1. ts # n.ts
          BY <2>2 DEF FreshStamps
        <4>2. i \in 1..Len(live) /\ live[i].ts = ts
          BY <3>1, <3>2, <4>1
        <4>3. PICK j \in 1..Len(live) : Skewed(i, j)
          BY <3>2, <4>2 DEF Ahead
        <4>4. Skewed(i, j)' /\ j \in 1..Len(live')
          BY <2>2, <3>1, <4>2, <4>3, BehindGrows
        <4> QED
          BY <4>4
      <3>3. \A o \in Session : \A ts \in watch[o].woken : Ahead(ts) => Ahead(ts)'
        BY <3>2 DEF Ahead
      <3> QED
        BY <1>1, <2>2, <3>3
    <2> QED
      BY <2>3, <2>4
  <1>8. ASSUME NEW s \in Session, Rename(s)
        PROVE  WokenInOrder'
    <2>1. Len(live') = 0 /\ watch' = watch /\ crossing' = crossing
      BY <1>8, RenameDoes, KeptShrinks
    <2>2. \A ts : Ahead(ts)'
      BY <2>1 DEF Ahead
    <2> QED
      BY <1>1, <2>1, <2>2
  <1>3. ASSUME NEW s \in Session, Wake(s)
        PROVE  WokenInOrder'
    <2> DEFINE last == live[Max(Hits(s))].ts
    <2>1. /\ last > watch[s].seen
          /\ \A ts \in HitStamps(s) : ts > last => ts \in crossing \/ Ahead(ts)
          /\ watch'[s].seen = last /\ ~watch'[s].on
          /\ watch'[s].woken = watch[s].woken \union HitStamps(s)
          /\ \A o \in Session \ {s} : watch'[o] = watch[o]
          /\ crossing' = crossing /\ live' = live
      BY <1>3, WakeDoes
    <2>2. last \in Nat
      BY <1>3, HitsAre, StampsAre DEF Wake
    <2> HIDE DEF last
    <2>3. \A ts \in watch[s].woken : ts > last => ts \in crossing \/ Ahead(ts)
      BY <1>0, <2>1, <2>2 DEF WokenInOrder
    <2>4. \A ts \in watch'[s].woken : ts > watch'[s].seen => ts \in crossing' \/ Ahead(ts)'
      BY <1>a, <2>1, <2>3
    <2>5. ASSUME NEW o \in Session \ {s}, NEW ts \in watch'[o].woken, ts > watch'[o].seen
          PROVE  ts \in crossing' \/ Ahead(ts)'
      BY <1>a, <2>1, <2>5 DEF WokenInOrder
    <2>6. \A o \in Session : watch'[o].on => watch'[o].seen <= watch'[o].base
      BY <2>1 DEF WokenInOrder
    <2> QED
      BY <2>4, <2>5, <2>6 DEF WokenInOrder
  <1>4. ASSUME NEW s \in Session, WatchStart(s)
        PROVE  WokenInOrder'
    <2>1. PICK lines \in View(s) :
            watch' = [watch EXCEPT ![s].on = TRUE, ![s].base = BaselineFor(lines, s, watch[s].seen)]
      BY <1>4 DEF WatchStart
    <2>2. lines \in Seq(Note) /\ watch[s].seen \in 0..MaxStamp
      BY <2>1, ViewsAre DEF TypeOK
    <2> DEFINE b == BaselineFor(lines, s, watch[s].seen)
    <2>3. b \in watch[s].seen..MaxStamp
      BY <2>2, BaselineIs
    <2> HIDE DEF b
    <2>4. /\ watch'[s].base = b /\ watch'[s].seen = watch[s].seen
          /\ watch'[s].woken = watch[s].woken
          /\ \A o \in Session \ {s} : watch'[o] = watch[o]
      BY <2>1 DEF b, TypeOK
    <2>5. crossing' = crossing /\ \A ts : Ahead(ts)' <=> Ahead(ts)
      BY <1>4, <1>a DEF WatchStart
    <2>6. watch'[s].seen <= watch'[s].base
      BY <1>0, <2>3, <2>4
    <2> QED
      BY <2>4, <2>5, <2>6 DEF WokenInOrder
  <1>5. ASSUME NEW s \in Session, WatchEnd(s)
        PROVE  WokenInOrder'
    <2>1. /\ ~watch'[s].on /\ watch'[s].seen = watch[s].seen /\ watch'[s].woken = watch[s].woken
          /\ \A o \in Session \ {s} : watch'[o] = watch[o]
          /\ crossing' = crossing /\ \A ts : Ahead(ts)' <=> Ahead(ts)
      BY <1>5, <1>a DEF WatchEnd, TypeOK
    <2> QED
      BY <2>1 DEF WokenInOrder
  <1>6. CASE UNCHANGED vars
    BY <1>1, <1>6, <1>a DEF vars
  <1> QED
    BY StepIs, <1>2, <1>3, <1>4, <1>5, <1>6, <1>7, <1>8 DEF Watch

-----------------------------------------------------------------------------
(* The theorems *)

\* The channel begins in order.
LEMMA InvInit ==
    Init => IInv
  <1> SUFFICES ASSUME Init PROVE IInv
    OBVIOUS
  <1>1. TypeOK
    BY TypeInit
  <1>2. /\ live = Earlier /\ Len(Earlier) \in Nat
        /\ Earlier \in Seq(Note) /\ ToSet(Earlier) \subseteq Note
        /\ \A n : n \in ToSet(Earlier) <=> \E i \in 1..Len(Earlier) : n = Earlier[i]
        /\ \A s \in Session : sess[s].pc = "idle"
    BY ChannelAssumption, LinesAre DEF Init, AtRest
  <1>3. \A second \in 0..MaxStamp : ToSet(archive[second]) = {}
    BY DEF Init, ToSet
  <1>4. Kept = ToSet(Earlier)
    BY <1>1, <1>2, <1>3, KeptAre DEF Kept
  <1>5. \A s \in Session : ~Holds(s) /\ sess[s].pc \notin Answering
    BY <1>2 DEF Holds, Answering
  <1>6. FreshStamps
    <2>1. ASSUME NEW n \in Kept
          PROVE  n.ts \in taken /\ n.ts <= clock[HostOf[n.from]]
      <3>1. n \in ToSet(Earlier) /\ HostOf[n.from] \in Host
        BY <1>2, <1>4, ChannelAssumption DEF Note
      <3>2. clock[HostOf[n.from]] = Max(FirstStamps(HostOf[n.from]))
        BY <3>1, FirstClock DEF Init
      <3>3. n.ts \in taken
        BY <3>1 DEF Init
      <3> QED
        BY <3>1, <3>2, <3>3, FirstClock
    <2>2. ASSUME NEW m \in Kept, NEW n \in Kept, m.ts = n.ts
          PROVE  m = n
      <3>1. PICK i \in 1..Len(Earlier), j \in 1..Len(Earlier) : m = Earlier[i] /\ n = Earlier[j]
        BY <1>2, <1>4
      <3>2. i < j \/ j < i \/ i = j
        BY <1>2
      <3> QED
        BY <2>2, <3>1, <3>2, ChannelAssumption
    <2>3. \A o \in Session : watch[o].woken = {}
      BY DEF Init
    <2> QED
      BY <1>5, <2>1, <2>2, <2>3 DEF FreshStamps
  <1>7. AnswersAreMeant
    <2>1. ASSUME NEW a \in Kept
          PROVE  Names(a.re, a.kind, a.to)
      <3>1. CASE a.re # NoStamp
        <4>1. PICK q \in ToSet(Earlier) : q.ts = a.re /\ q.from = a.to
          BY <1>4, <3>1, ChannelAssumption
        <4>2. a.kind = "answer" /\ a.re \in taken
          BY <1>4, <3>1, <4>1, ChannelAssumption DEF Init
        <4>3. \A p \in Kept : p.ts = a.re => p = q
          BY <1>4, <1>6, <4>1 DEF FreshStamps
        <4> QED
          BY <4>1, <4>2, <4>3 DEF Names
      <3>2. CASE a.re = NoStamp
        BY <3>2 DEF Names
      <3> QED
        BY <3>1, <3>2
    <2> QED
      BY <1>5, <2>1 DEF AnswersAreMeant
  <1>8. FilesAreAnswered
    BY <1>2, <1>3 DEF FilesAreAnswered, AnsweredIn
  <1>9. InOrder
    <2>1. ASSUME NEW i \in 1..Len(live), NEW j \in 1..Len(live), i < j, live[i].ts > live[j].ts
          PROVE  ~SameClock(live[i], live[j])
      <3>1. live[i] \in Note /\ live[j] \in Note
        BY <1>2
      <3>2. live[i].ts \in Nat /\ live[j].ts \in Nat
        BY <3>1, StampsAre
      <3>3. SameClock(live[i], live[j]) => live[i].ts < live[j].ts
        BY <1>2, <2>1, ChannelAssumption
      <3> QED
        BY <2>1, <3>2, <3>3
    <2> QED
      BY <1>5, <2>1 DEF InOrder
  <1>10. FoundWaiting
    BY <1>2 DEF FoundWaiting
  <1>11. WokenInOrder
    BY DEF WokenInOrder, Init
  <1>12. CrossingNotice
    BY DEF CrossingNotice, Init
  <1> QED
    BY <1>1, <1>6, <1>7, <1>8, <1>9, <1>10, <1>11, <1>12 DEF IInv

\* The inductive invariant holds of every run, for any sessions and any earlier lines.
THEOREM InvHolds ==
    Spec => []IInv
  <1>1. IInv /\ [Next]_vars => IInv'
    BY TypeStep, FreshStep, AnswersStep, FilesStep, OrderStep, WaitingStep, WokenStep, NoticeStep
       DEF IInv
  <1> QED
    BY InvInit, <1>1, PTL DEF Spec

\* Questions and answers find each other, whatever is rotated meanwhile.
THEOREM ChannelHolds ==
    Spec => []ChannelInv
  <1>1. ASSUME IInv PROVE ChannelInv
    <2>1. TypeOK /\ FreshStamps /\ AnswersAreMeant /\ FilesAreAnswered
      BY <1>1 DEF IInv
    <2>2. /\ Kept \subseteq Note /\ ToSet(live) \subseteq Kept /\ DOMAIN archive = 0..MaxStamp
          /\ \A second \in 0..MaxStamp : ToSet(archive[second]) \subseteq Kept
      BY <2>1, KeptAre
    <2>3. AnswersFindAsker
      <3>1. ASSUME NEW q \in Kept, NEW a \in ToSet(live),
                   q.kind = "question", a.re = q.ts, a.from # q.from
            PROVE  a \in InboxFor(live, q.from)
        <4>1. a.re # NoStamp
          BY <2>2, <3>1, StampsAre DEF NoStamp
        <4>2. a.kind = "answer" /\ a.to = q.from
          BY <2>1, <2>2, <3>1, <4>1 DEF AnswersAreMeant, Names
        <4> QED
          BY <3>1, <4>2 DEF InboxFor
      <3> QED
        BY <3>1 DEF AnswersFindAsker
    <2>4. ArchivedAreAnswered
      <3>1. ASSUME NEW q \in Kept \ ToSet(live), q.kind = "question", \A a \in Kept : a.re # q.ts
            PROVE  q.ts \in crossing
        <4>1. PICK second \in 0..MaxStamp : q \in ToSet(archive[second])
          BY <2>2 DEF Kept
        <4> QED
          BY <2>1, <2>2, <3>1, <4>1 DEF FilesAreAnswered, AnsweredIn
      <3> QED
        BY <3>1 DEF ArchivedAreAnswered
    <2> QED
      BY <2>1, <2>3, <2>4 DEF ChannelInv
  <1> QED
    BY InvHolds, <1>1, PTL

\* Whoever writes has been told of what came for it since it last wrote, unless it crossed
\* or came from a host whose clock is behind.
THEOREM NoticeHolds ==
    Spec => []CrossingNotice
  <1>1. IInv => CrossingNotice
    BY DEF IInv
  <1> QED
    BY InvHolds, <1>1, PTL

\* A watcher never wakes its session for nothing new, but for something that crossed or
\* stands above a line that a clock further behind has stamped.
THEOREM NoNagHolds ==
    Spec => NoNag
  <1>1. ASSUME IInv, NEW s \in Session, Wake(s)
        PROVE  \E i \in Hits(s) : \/ live[i].ts \notin watch[s].woken
                                  \/ live[i].ts \in crossing
                                  \/ \E j \in 1..Len(live) : Skewed(i, j)
    <2> DEFINE k == Max(Hits(s))
    <2>1. k \in Hits(s) /\ k \in 1..Len(live)
      BY <1>1, HitsAre DEF Wake, IInv
    <2>2. live[k].ts > watch[s].seen
      BY <1>1, WakeDoes DEF IInv
    <2> HIDE DEF k
    <2>3. live[k].ts \in watch[s].woken => live[k].ts \in crossing \/ Ahead(live[k].ts)
      BY <1>1, <2>2 DEF IInv, WokenInOrder
    <2>4. Ahead(live[k].ts) => \E j \in 1..Len(live) : Skewed(k, j)
      BY <2>1 DEF Ahead
    <2> QED
      BY <2>1, <2>3, <2>4
  <1>2. IInv => [\A s \in Session : Wake(s) =>
            \E i \in Hits(s) : \/ live[i].ts \notin watch[s].woken
                               \/ live[i].ts \in crossing
                               \/ \E j \in 1..Len(live) : Skewed(i, j)]_vars
    BY <1>1
  <1> QED
    BY InvHolds, <1>2, PTL DEF NoNag

\* What one step does: a note reported as written is kept, and only a rename drops any.
LEMMA KeptStep ==
    ASSUME TypeOK, FreshStamps, [Next]_vars
    PROVE  /\ told' \ told \subseteq Kept'
           /\ \A n \in Kept \ Kept' : \E s \in Session : Replaces(s, n)
  <1>1. CASE UNCHANGED <<live, archive, told>>
    BY <1>1, KeptStays
  <1>2. ASSUME NEW s \in Session, Begins(s) \/ Stamping(s) \/ Watch(s)
        PROVE  UNCHANGED <<live, archive, told>>
    BY <1>2, BeginsDoes, StampingDoes, WatchDoes
  <1>3. ASSUME NEW s \in Session, AppendNote(s) \/ Mark(s)
        PROVE  told' \ told \subseteq Kept' /\ Kept \subseteq Kept'
    <2>1. PICK n \in Note, landed \in BOOLEAN : Landing(s, n, landed)
      BY <1>3, LandingDoes
    <2>2. /\ archive' = archive
          /\ told' = told \/ (landed /\ told' = told \union {n})
          /\ live' = IF landed THEN Append(live, n) ELSE live
      BY <2>1 DEF Landing
    <2>3. CASE landed
      <3>1. Kept' = Kept \union {n}
        BY <2>2, <2>3, KeptGrows
      <3> QED
        BY <2>2, <3>1
    <2>4. CASE ~landed
      <3>1. Kept' = Kept
        BY <2>2, <2>4, KeptStays
      <3> QED
        BY <2>2, <2>4, <3>1
    <2> QED
      BY <2>3, <2>4
  <1>4. ASSUME NEW s \in Session, Rename(s)
        PROVE  told' = told /\ \A n \in Kept \ Kept' : Replaces(s, n)
    <2> DEFINE name == ArchiveName(sess[s].ts)
    <2>1. /\ archive' = [archive EXCEPT ![name] = live] /\ live' = <<>> /\ told' = told
          /\ name \in 0..MaxStamp /\ DOMAIN archive = 0..MaxStamp
      BY <1>4, RenameDoes DEF TypeOK
    <2>2. /\ DOMAIN archive' = 0..MaxStamp /\ archive'[name] = live
          /\ \A second \in 0..MaxStamp : second # name => archive'[second] = archive[second]
      BY <2>1
    <2>3. ToSet(live) \subseteq Kept'
      BY <2>1, <2>2 DEF Kept
    <2>4. \A second \in 0..MaxStamp : second # name => ToSet(archive[second]) \subseteq Kept'
      BY <2>2 DEF Kept
    <2>5. ASSUME NEW n \in Kept \ Kept'
          PROVE  n \in ToSet(archive[name])
      BY <2>1, <2>3, <2>4, <2>5 DEF Kept
    <2> QED
      BY <1>4, <2>1, <2>5 DEF Replaces
  <1>5. CASE UNCHANGED vars
    BY <1>1, <1>5 DEF vars
  <1> QED
    BY StepIs, <1>1, <1>2, <1>3, <1>4, <1>5

\* What its writer was told is written stays in the channel or in an archive, until a
\* rotation replaces that archive by one of the same second.
THEOREM LostOnlyByReplacing ==
    Spec => OnlyReplacedAreLost
  <1>1. IInv /\ [Next]_vars =>
          [/\ told' \ told \subseteq Kept'
           /\ \A n \in (told \intersect Kept) \ Kept' : \E s \in Session : Replaces(s, n)]_vars
    BY KeptStep DEF IInv
  <1> QED
    BY InvHolds, <1>1, PTL DEF Spec, OnlyReplacedAreLost

=============================================================================
