--------------------------- MODULE SessionChannel ---------------------------
(***************************************************************************)
(* The channel between agent sessions: one append-only file that           *)
(* host/tools/notes.py reads, appends to and rotates, and that a watcher   *)
(* (host/tools/notes_watch.py) polls to wake its session.  There is no     *)
(* lock: a post reads the file, takes its stamp and appends in three       *)
(* steps, a rotation reads, renames and appends a marker.                  *)
(*                                                                         *)
(* Lines are notes; texts, and lines somebody built by hand, are left out. *)
(* A stamp is the note's identity and stamps are distinct; PerSecond of    *)
(* them fall into a second, which is what names an archive.  A session     *)
(* stamps with the clock of its own host.  A clock does not go back, but   *)
(* nothing keeps the clocks of two hosts together.                         *)
(***************************************************************************)
EXTENDS Naturals, Sequences, FiniteSetsExt, SequencesExt

CONSTANTS
    Session, All,   \* who writes, and the recipient that is everybody
    Host, HostOf,   \* the machines the sessions run on, and each session's
    Remote,         \* the sessions that reach the file over ssh
    Watched,        \* the sessions that run a watcher
    Addressees,     \* whom statements may be addressed to
    Earlier,        \* the lines the channel has when the model begins
    PerSecond,      \* stamps in a second
    MaxStamp        \* bound on the stamps taken

VARIABLES
    clock,      \* per host: the last stamp its clock has given
    taken,      \* the stamps that have been given
    live,       \* the lines of the channel; empty when there is no file
    archive,    \* per second: the lines rotated under that name
    sess,       \* per session: the command it runs
    watch,      \* per session: its watcher, the last stamp it noted, all it woke for
    told,       \* history: the notes their writers were told are written
    heard,      \* history, per session: the stamps it has been told of
    crossing    \* history: the stamps of notes written while another command ran

vars == <<clock, taken, live, archive, sess, watch, told, heard, crossing>>

-----------------------------------------------------------------------------
(* Reading the channel *)

Stamps == 1..MaxStamp
NoStamp == 0

Note == [ts : Stamps, from : Session, to : Session \union {All},
         kind : {"question", "note", "answer"}, re : Stamps \union {NoStamp}]

SameClock(m, n) == HostOf[m.from] = HostOf[n.from]

\* The sessions without ssh run where the file is.  The lines from before are as this
\* program writes them: only answers name a question, and go to who asked it.
ASSUME ChannelAssumption ==
    /\ All \notin Session
    /\ Remote \subseteq Session /\ Watched \subseteq Session
    /\ HostOf \in [Session -> Host]
    /\ \A s, o \in Session \ Remote : HostOf[s] = HostOf[o]
    /\ Addressees \subseteq Session \union {All}
    /\ PerSecond \in Nat \ {0}
    /\ MaxStamp \in Nat
    /\ Earlier \in Seq(Note)
    /\ \A i, j \in 1..Len(Earlier) : i < j =>
          /\ Earlier[i].ts # Earlier[j].ts
          /\ SameClock(Earlier[i], Earlier[j]) => Earlier[i].ts < Earlier[j].ts
    /\ \A a \in ToSet(Earlier) : a.re # NoStamp =>
          /\ a.kind = "answer"
          /\ \E q \in ToSet(Earlier) : q.ts = a.re /\ q.from = a.to

\* A question no answer names.
OpenNotes(lines) ==
    {q \in ToSet(lines) : q.kind = "question" /\ \A a \in ToSet(lines) : a.re # q.ts}

AskedBy(lines, s) == {n.ts : n \in {n \in ToSet(lines) : n.from = s}}

\* Answers to s or to what s asked, and statements to s or to everybody.
InboxFor(lines, s) ==
    {n \in ToSet(lines) :
        /\ n.from # s
        /\ \/ n.kind = "answer" /\ (n.to = s \/ n.re \in AskedBy(lines, s))
           \/ n.kind = "note" /\ n.to \in {s, All}}

LastBy(lines, s) == Max(AskedBy(lines, s) \union {NoStamp})
LatestTs(lines)  == Max({n.ts : n \in ToSet(lines)} \union {NoStamp})

\* What came for s since s last wrote; nothing for one that never wrote.
Crossed(lines, s) ==
    {n \in InboxFor(lines, s) : LastBy(lines, s) # NoStamp /\ n.ts > LastBy(lines, s)}

\* Mutant: the watcher does not remember what it has woken for.
BaselineFor_Forgets(lines, s, seen) ==
    IF LastBy(lines, s) # NoStamp THEN LastBy(lines, s) ELSE LatestTs(lines)

BaselineFor(lines, s, seen) ==
    Max({seen, IF LastBy(lines, s) # NoStamp THEN LastBy(lines, s) ELSE LatestTs(lines)})

\* Where in the file the lines are that concern s, later than since.
Relevant(lines, s, since) ==
    {i \in DOMAIN lines : /\ lines[i].ts > since /\ lines[i].from # s
                          /\ lines[i] \in InboxFor(lines, s) \union OpenNotes(lines)}

\* read(): over ssh a failure looks like an empty channel.
View(s) == IF s \in Remote THEN {live, <<>>} ELSE {live}

-----------------------------------------------------------------------------
(* State *)

SessionState == [pc : {"idle", "check", "stamp", "append", "rename", "mark"},
                 kind : {"question", "note", "answer"}, to : Session \union {All},
                 re : Stamps \union {NoStamp}, ts : Stamps \union {NoStamp},
                 waiting : SUBSET Stamps, crossed : BOOLEAN]

TypeOK ==
    /\ clock \in [Host -> 0..MaxStamp]
    /\ taken \subseteq Stamps
    /\ live \in Seq(Note)
    /\ \A i, j \in 1..Len(live) : live[i].ts = live[j].ts => i = j
    /\ archive \in [0..MaxStamp -> Seq(Note)]
    /\ sess \in [Session -> SessionState]
    /\ watch \in [Session -> [on : BOOLEAN, base : 0..MaxStamp, seen : 0..MaxStamp,
                           woken : SUBSET Stamps]]
    /\ told \subseteq Note
    /\ heard \in [Session -> SUBSET Stamps]
    /\ crossing \subseteq Stamps

AtRest == [pc |-> "idle", kind |-> "note", to |-> All, re |-> NoStamp, ts |-> NoStamp,
           waiting |-> {}, crossed |-> FALSE]

Init ==
    /\ clock = [h \in Host |-> Max({n.ts : n \in {n \in ToSet(Earlier) : HostOf[n.from] = h}}
                                     \union {NoStamp})]
    /\ taken = {n.ts : n \in ToSet(Earlier)}
    /\ live = Earlier
    /\ archive = [second \in 0..MaxStamp |-> <<>>]
    /\ sess = [s \in Session |-> AtRest]
    /\ watch = [s \in Session |-> [on |-> FALSE, base |-> 0, seen |-> 0, woken |-> {}]]
    /\ told = ToSet(Earlier)
    /\ heard = [s \in Session |-> {n.ts : n \in {n \in InboxFor(Earlier, s) :
                                                    n.ts < LastBy(Earlier, s)}}]
    /\ crossing = {}

-----------------------------------------------------------------------------
(* Posting: ask, note, answer *)

Idle(s) == sess[s].pc = "idle"

\* Bound: no note is begun that there is no stamp left for.
Room == Cardinality({o \in Session : sess[o].pc \in {"check", "stamp"}}) < Cardinality(Stamps \ taken)

\* Mutant: nobody looks for what has arrived meanwhile.
CrossedNow_Skipped(s) == {{}}

\* What a session about to write finds waiting.
CrossedNow(s) == {{n.ts : n \in Crossed(lines, s)} : lines \in View(s)}

\* ask and note name their recipient; nobody reads a question's.
Begin(s) ==
    /\ Idle(s) /\ Room
    /\ \E kind \in {"question", "note"}, waiting \in CrossedNow(s) :
       \E to \in IF kind = "question" THEN {All} ELSE Addressees \ {s} :
          sess' = [sess EXCEPT ![s] = [AtRest EXCEPT !.pc = "stamp", !.kind = kind, !.to = to,
                                                     !.waiting = waiting]]
    /\ UNCHANGED <<clock, taken, live, archive, watch, told, heard, crossing>>

\* Mutant: an answer goes to everybody, as the default of --to would have it.
BeginAnswer_ToAll(s) ==
    /\ Idle(s) /\ Room
    /\ \E lines \in View(s) : \E q \in {n \in ToSet(lines) : n.kind = "question"} :
          sess' = [sess EXCEPT ![s] = [AtRest EXCEPT !.pc = "check", !.kind = "answer",
                                                     !.to = All, !.re = q.ts]]
    /\ UNCHANGED <<clock, taken, live, archive, watch, told, heard, crossing>>

\* An answer names a question that is in the file, and goes to who asked it.
BeginAnswer(s) ==
    /\ Idle(s) /\ Room
    /\ \E lines \in View(s) : \E q \in {n \in ToSet(lines) : n.kind = "question"} :
          sess' = [sess EXCEPT ![s] = [AtRest EXCEPT !.pc = "check", !.kind = "answer",
                                                     !.to = q.from, !.re = q.ts]]
    /\ UNCHANGED <<clock, taken, live, archive, watch, told, heard, crossing>>

\* crossed(read(), who), before the stamp is taken.
Check(s) ==
    /\ sess[s].pc = "check"
    /\ \E waiting \in CrossedNow(s) :
          sess' = [sess EXCEPT ![s].pc = "stamp", ![s].waiting = waiting, ![s].crossed = FALSE]
    /\ UNCHANGED <<clock, taken, live, archive, watch, told, heard, crossing>>

\* _now(): what the clock of its host may show next.
Now(s) == {t \in Stamps \ taken : t > clock[HostOf[s]]}

Stamped(s, t, state) ==
    /\ clock' = [clock EXCEPT ![HostOf[s]] = t]
    /\ taken' = taken \union {t}
    /\ sess' = [sess EXCEPT ![s] = [state EXCEPT !.ts = t]]

TakeStamp(s) ==
    /\ sess[s].pc = "stamp"
    /\ \E t \in Now(s) : Stamped(s, t, [sess[s] EXCEPT !.pc = "append"])
    /\ UNCHANGED <<live, archive, watch, told, heard, crossing>>

\* The others that are between their read of the file and their write to it.
Busy(s) == {o \in Session \ {s} : sess[o].pc \in {"stamp", "append", "rename", "mark"}}

Others(s, f) == [o \in Session |-> IF o = s THEN f ELSE IF o \in Busy(s)
                                   THEN [sess[o] EXCEPT !.crossed = TRUE] ELSE sess[o]]

\* append(): over ssh it may fail, and a line may have landed although its writer
\* hears otherwise.  A local file that cannot be written is left out.
Landings(s) == {<<TRUE, TRUE>>} \union IF s \in Remote THEN {<<TRUE, FALSE>>, <<FALSE, FALSE>>} ELSE {}

Lands(s, note, landed, reported) ==
    /\ live' = IF landed THEN Append(live, note) ELSE live
    /\ sess' = IF landed THEN Others(s, AtRest) ELSE [sess EXCEPT ![s] = AtRest]
    /\ told' = IF reported THEN told \union {note} ELSE told
    /\ crossing' = IF landed /\ (sess[s].crossed \/ Busy(s) # {})
                   THEN crossing \union {note.ts} ELSE crossing

\* What was waiting is mentioned only once the note is written.
AppendNote(s) ==
    /\ sess[s].pc = "append"
    /\ \E l \in Landings(s) :
          /\ Lands(s, [ts |-> sess[s].ts, from |-> s, to |-> sess[s].to,
                       kind |-> sess[s].kind, re |-> sess[s].re], l[1], l[2])
          /\ heard' = IF l[2] THEN [heard EXCEPT ![s] = @ \union sess[s].waiting] ELSE heard
    /\ UNCHANGED <<clock, taken, archive, watch>>

-----------------------------------------------------------------------------
(* Rotating *)

\* Mutant: open questions do not stop a rotation.
RotateRead_Always(s) ==
    /\ Idle(s)
    /\ \E lines \in View(s) : lines # <<>>
    /\ \E t \in Now(s) : Stamped(s, t, [AtRest EXCEPT !.pc = "rename"])
    /\ UNCHANGED <<live, archive, watch, told, heard, crossing>>

\* Refused while a question is open, or when there is nothing.
RotateRead(s) ==
    /\ Idle(s)
    /\ \E lines \in View(s) : lines # <<>> /\ OpenNotes(lines) = {}
    /\ \E t \in Now(s) : Stamped(s, t, [AtRest EXCEPT !.pc = "rename"])
    /\ UNCHANGED <<live, archive, watch, told, heard, crossing>>

ArchiveName(ts) == ts \div PerSecond

\* Mutant: there is one archive name.
Rename_OneName(s) ==
    /\ sess[s].pc = "rename" /\ live # <<>>
    /\ archive' = [archive EXCEPT ![0] = live]
    /\ live' = <<>>
    /\ sess' = Others(s, [sess[s] EXCEPT !.pc = "mark"])
    /\ UNCHANGED <<clock, taken, watch, told, heard, crossing>>

\* os.rename() replaces a file of the same name.
Rename(s) ==
    /\ sess[s].pc = "rename" /\ live # <<>>
    /\ archive' = [archive EXCEPT ![ArchiveName(sess[s].ts)] = live]
    /\ live' = <<>>
    /\ sess' = Others(s, [sess[s] EXCEPT !.pc = "mark"])
    /\ UNCHANGED <<clock, taken, watch, told, heard, crossing>>

\* The file is gone, or may not be moved.
RenameFails(s) ==
    /\ sess[s].pc = "rename"
    /\ sess' = [sess EXCEPT ![s] = AtRest]
    /\ UNCHANGED <<clock, taken, live, archive, watch, told, heard, crossing>>

Mark(s) ==
    /\ sess[s].pc = "mark"
    /\ \E l \in Landings(s) :
          Lands(s, [ts |-> sess[s].ts, from |-> s, to |-> All, kind |-> "note", re |-> NoStamp], l[1], l[2])
    /\ UNCHANGED <<clock, taken, archive, watch, heard>>

-----------------------------------------------------------------------------
(* The watcher, one per session by its lock file, started as a turn ends *)

WatchStart(s) ==
    /\ s \in Watched /\ Idle(s) /\ ~watch[s].on
    /\ \E lines \in View(s) :
          watch' = [watch EXCEPT ![s].on = TRUE, ![s].base = BaselineFor(lines, s, watch[s].seen)]
    /\ UNCHANGED <<clock, taken, live, archive, sess, told, heard, crossing>>

Hits(s) == Relevant(live, s, watch[s].base)
HitStamps(s) == {live[i].ts : i \in Hits(s)}

\* It reports all hits and remembers the last in the order of the file.
Wake(s) ==
    /\ watch[s].on /\ Hits(s) # {}
    /\ watch' = [watch EXCEPT ![s].on = FALSE, ![s].seen = live[Max(Hits(s))].ts,
                             ![s].woken = @ \union HitStamps(s)]
    /\ heard' = [heard EXCEPT ![s] = @ \union HitStamps(s)]
    /\ UNCHANGED <<clock, taken, live, archive, sess, told, crossing>>

\* MAX_LIFETIME is over, or the session ends.
WatchEnd(s) ==
    /\ watch[s].on
    /\ watch' = [watch EXCEPT ![s].on = FALSE]
    /\ UNCHANGED <<clock, taken, live, archive, sess, told, heard, crossing>>

Post(s)   == Begin(s) \/ BeginAnswer(s) \/ Check(s) \/ TakeStamp(s) \/ AppendNote(s)
Rotate(s) == RotateRead(s) \/ Rename(s) \/ RenameFails(s) \/ Mark(s)
Watch(s)  == WatchStart(s) \/ Wake(s) \/ WatchEnd(s)

Next == \E s \in Session : Post(s) \/ Rotate(s) \/ Watch(s)

Spec == Init /\ [][Next]_vars

-----------------------------------------------------------------------------
(* Properties *)

Kept == ToSet(live) \union UNION {ToSet(archive[second]) : second \in DOMAIN archive}

\* The archive of this second is there already, and the rename replaces it.
Replaces(s, n) == Rename(s) /\ n \in ToSet(archive[ArchiveName(sess[s].ts)])

\* A note whose writer was told it is written is in the channel or in an archive
\* from then on ("nothing is lost", rotate), but for one thing the code does not
\* look for: a later rotation in the second of the one that archived it.
OnlyReplacedAreLost ==
    [][/\ told' \ told \subseteq Kept'
       /\ \A n \in (told \intersect Kept) \ Kept' : \E s \in Session : Replaces(s, n)]_vars

\* An answer is in the inbox of whoever asked, also when the question itself has
\* been archived between the answer's check and its line (main, answer).
AnswersFindAsker ==
    \A q \in Kept, a \in ToSet(live) :
        q.kind = "question" /\ a.re = q.ts /\ a.from # q.from => a \in InboxFor(live, q.from)

\* No unanswered question is archived, where nobody could answer it (rotate's
\* refusal), unless it was written while the rotation ran.
ArchivedAreAnswered ==
    \A q \in Kept \ ToSet(live) :
        q.kind = "question" /\ (\A a \in Kept : a.re # q.ts) => q.ts \in crossing

Before(s, n) == \E i, j \in 1..Len(live) : i < j /\ live[i].from = s /\ live[j] = n

\* The later of two lines bears the earlier stamp, from another host's clock.
Skewed(i, j) == i < j /\ live[j].ts < live[i].ts /\ ~SameClock(live[i], live[j])

\* It came with an earlier stamp than a line of s has.
Behind(s, n) == \E i, j \in 1..Len(live) : live[i].from = s /\ live[j] = n /\ Skewed(i, j)

\* Whoever writes is told of what came for it since it last wrote (crossed).  What
\* has dropped out of its list unmentioned was written while another wrote, or
\* came from a host whose clock is behind: crossed() compares nothing but stamps.
CrossingNotice ==
    \A s \in Session \ Remote : \A n \in InboxFor(live, s) :
        Before(s, n) /\ n.ts < LastBy(live, s)
            => n.ts \in heard[s] \union crossing \/ Behind(s, n)

\* A watcher does not become a nag (baseline_for): it wakes for something it has
\* not woken its session for before, for something that crossed, or for a line
\* below which stands one that a clock further behind has stamped.
NoNag ==
    [][\A s \in Session : Wake(s) =>
            \E i \in Hits(s) : \/ live[i].ts \notin watch[s].woken
                               \/ live[i].ts \in crossing
                               \/ \E j \in 1..Len(live) : Skewed(i, j)]_vars

\* After a rotation too, whoever had written before is told of what came since
\* ("rotation avoids all three", the third being that crossed goes quiet).
RotationKeepsNotice ==
    \A s \in Session \ Remote : \A n \in InboxFor(live, s) :
        n.ts < LastBy(live, s) /\ (\E m \in Kept : m.from = s /\ m.ts < n.ts)
            => n.ts \in heard[s] \union crossing

\* Questions and answers find each other, whatever is rotated meanwhile.
ChannelInv == TypeOK /\ AnswersFindAsker /\ ArchivedAreAnswered

=============================================================================
