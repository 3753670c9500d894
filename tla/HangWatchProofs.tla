-------------------------- MODULE HangWatchProofs ---------------------------
(***************************************************************************)
(* The inductive invariant of HangWatch: that an emulator is stopped only  *)
(* after the silence that warrants it, that a restart leaves one emulator, *)
(* and that keys meet the dialog they are for.                             *)
(***************************************************************************)
EXTENDS HangWatch, TLAPS

-----------------------------------------------------------------------------
(* The types of the sessions *)

Counted == {"gestures", "events", "faults", "looks", "boots", "watches", "starts", "draws", "bundle"}

\* What is taken from the bounds leaves bounds.
LEMMA TakesFits ==
    ASSUME left \in Bounded, NEW what \in Counted, May(what), Takes(what)
    PROVE  left' \in Bounded
  <1>1. left[what] \in Nat /\ left[what] > 0 /\ left[what] - 1 \in Nat
    BY DEF Bounded, Counted, May
  <1> QED
    BY <1>1 DEF Bounded, Takes, Counted

\* A step that fails takes from the bounds, one that does not leaves them.
LEMMA FailsFits ==
    ASSUME left \in Bounded, NEW bad \in BOOLEAN, Fails(bad)
    PROVE  left' \in Bounded
  <1>1. CASE bad
    BY <1>1, TakesFits DEF Fails, Counted
  <1>2. CASE ~bad
    BY <1>2 DEF Fails
  <1> QED
    BY <1>1, <1>2

Pcs == {"idle", "activate", "settle", "gesture", "capture", "release", "exit"}

\* The sessions keep their type where one takes a step, and where all are disturbed.
LEMMA PcFits ==
    ASSUME NEW f \in [Session -> SessionState], NEW s \in Session, NEW pc \in Pcs
    PROVE  [f EXCEPT ![s].pc = pc] \in [Session -> SessionState]
  <1>1. [f[s] EXCEPT !.pc = pc] \in SessionState
    BY DEF SessionState, Pcs
  <1> QED
    BY <1>1

\* Sessions that are disturbed keep their type.
LEMMA DisturbedFits ==
    ASSUME session \in [Session -> SessionState], NEW E
    PROVE  Disturbed(E) \in [Session -> SessionState]
  <1>1. \A s \in Session : [session[s] EXCEPT !.disturbed = TRUE] \in SessionState
    BY DEF SessionState
  <1> QED
    BY <1>1 DEF Disturbed

\* What a step may make of the sessions, if session s goes to pc.
Moved(s, pc) ==
    \/ session' = Goes(s, pc)
    \/ \E E \in SUBSET Session : session' = [Disturbed(E) EXCEPT ![s].pc = pc]

\* So do the sessions one of which goes on, disturbing others or not.
LEMMA MovedFits ==
    ASSUME session \in [Session -> SessionState], NEW s \in Session, NEW pc \in Pcs, Moved(s, pc)
    PROVE  session' \in [Session -> SessionState]
  <1>1. CASE session' = Goes(s, pc)
    BY <1>1, PcFits DEF Goes
  <1>2. CASE \E E \in SUBSET Session : session' = [Disturbed(E) EXCEPT ![s].pc = pc]
    <2>1. PICK E \in SUBSET Session : session' = [Disturbed(E) EXCEPT ![s].pc = pc]
      BY <1>2
    <2>2. Disturbed(E) \in [Session -> SessionState]
      BY DisturbedFits
    <2> HIDE DEF Disturbed
    <2> QED
      BY <2>1, <2>2, PcFits
  <1> QED
    BY <1>1, <1>2 DEF Moved

\* A gesture changes the host, its session and the bounds, and nothing else.
LEMMA GestureFits ==
    ASSUME InputTypeOK, NEW s \in Session, Gesture(s)
    PROVE  InputTypeOK' /\ guest' = guest
  <1>0. /\ host \in HostState /\ session \in [Session -> SessionState] /\ left \in Bounded
        /\ session[s] \in SessionState
    BY DEF InputTypeOK
  <1>1. CASE \E kind \in {"click", "menushot"}, keep, activate \in BOOLEAN :
                Enter(s, kind, keep, activate)
    <2>1. PICK kind \in {"click", "menushot"}, keep \in BOOLEAN, activate \in BOOLEAN :
                Enter(s, kind, keep, activate)
      BY <1>1
    <2>2. left' \in Bounded /\ UNCHANGED <<host, guest>>
      BY <1>0, <2>1, TakesFits DEF Enter, Counted
    <2> DEFINE r == [pc |-> IF host.front = Emulator THEN "gesture" ELSE "activate",
                     kind |-> kind, keep |-> keep, disturbed |-> FALSE,
                     previous |-> IF host.front = Emulator THEN Nobody ELSE host.front]
    <2>3. r \in SessionState
      BY <1>0 DEF SessionState, HostState
    <2>4. session' = session \/ session' = [session EXCEPT ![s] = r]
      BY <1>0, <2>1 DEF Enter
    <2> HIDE DEF r
    <2>5. session' \in [Session -> SessionState]
      BY <1>0, <2>3, <2>4
    <2> QED
      BY <1>0, <2>2, <2>5 DEF InputTypeOK
  <1>2. CASE Activate(s)
    <2>1. left' \in Bounded /\ guest' = guest
      BY <1>0, <1>2, FailsFits DEF Activate
    <2>2. host' = host \/ host' = [host EXCEPT !.front = Emulator]
      BY <1>2 DEF Activate
    <2>3. Moved(s, "idle") \/ Moved(s, "settle")
      BY <1>2 DEF Activate, Moved
    <2>4. session' \in [Session -> SessionState]
      BY <1>0, <2>3, MovedFits DEF Pcs
    <2>5. [host EXCEPT !.front = Emulator] \in HostState
      <3>1. Emulator \in App
        BY InputAssumption
      <3> QED
        BY <1>0, <3>1 DEF HostState
    <2> QED
      BY <1>0, <2>1, <2>2, <2>4, <2>5 DEF InputTypeOK
  <1>3. CASE Settle(s)
    <2>1. PICK bad \in BOOLEAN : /\ Fails(bad)
                               /\ session' = Goes(s, IF bad THEN "idle" ELSE "gesture")
                               /\ host' = [host EXCEPT !.failed = @ \/ bad]
      BY <1>3 DEF Settle
    <2>2. left' \in Bounded /\ guest' = guest
      BY <1>0, <1>3, <2>1, FailsFits DEF Settle
    <2>3. Moved(s, "idle") \/ Moved(s, "gesture")
      BY <2>1 DEF Moved
    <2>4. session' \in [Session -> SessionState]
      BY <1>0, <2>3, MovedFits DEF Pcs
    <2>5. host' \in HostState
      BY <1>0, <2>1 DEF HostState
    <2> QED
      BY <2>2, <2>4, <2>5 DEF InputTypeOK
  <1>4. CASE Click(s) \/ Press(s)
    <2>1. left' \in Bounded /\ guest' = guest
      BY <1>0, <1>4, FailsFits DEF Click, Press
    <2>2. Moved(s, "exit") \/ Moved(s, "capture")
      BY <1>4 DEF Click, Press, Moved
    <2>3. session' \in [Session -> SessionState]
      BY <1>0, <2>2, MovedFits DEF Pcs
    <2>4. \A button \in {"up", "down"}, ok \in BOOLEAN : Lands(s, button, ok) \in HostState
      BY <1>0 DEF HostState, SessionState, Lands
    <2>5. host.button \in {"up", "down"}
      BY <1>0 DEF HostState
    <2>6. host' = host \/ \E button \in {"up", "down"}, ok \in BOOLEAN : host' = Lands(s, button, ok)
      <3>1. CASE Click(s)
        BY <3>1 DEF Click
      <3>2. CASE Press(s)
        <4>1. PICK bad \in BOOLEAN, button \in {host.button, "down"} : host' = Lands(s, button, ~bad)
          BY <3>2 DEF Press
        <4> QED
          BY <2>5, <4>1
      <3> QED
        BY <1>4, <3>1, <3>2
    <2> QED
      BY <1>0, <2>1, <2>3, <2>4, <2>6 DEF InputTypeOK
  <1>5. CASE Capture(s) \/ Release(s)
    <2>1. left' \in Bounded /\ guest' = guest
      BY <1>0, <1>5, FailsFits DEF Capture, Release
    <2>2. Moved(s, "release") \/ Moved(s, "exit")
      BY <1>5 DEF Capture, Release, Moved
    <2>3. session' \in [Session -> SessionState]
      BY <1>0, <2>2, MovedFits DEF Pcs
    <2>4. \/ host' = host \/ host' = [host EXCEPT !.failed = TRUE]
          \/ host' = [host EXCEPT !.button = "up"]
      BY <1>5 DEF Capture, Release
    <2>5. host' \in HostState
      BY <1>0, <2>4 DEF HostState
    <2> QED
      BY <2>1, <2>3, <2>5 DEF InputTypeOK
  <1>6. CASE Exit(s)
    <2> DEFINE back == session[s].previous
               give == back # Nobody /\ ~session[s].keep
    <2>1. left' \in Bounded /\ guest' = guest
      BY <1>0, <1>6, FailsFits DEF Exit
    <2>2. Moved(s, "idle")
      BY <1>6 DEF Exit, Moved, Goes
    <2>3. session' \in [Session -> SessionState]
      BY <1>0, <2>2, MovedFits DEF Pcs
    <2>4. PICK bad \in BOOLEAN :
            host' = [host EXCEPT !.front = IF give /\ ~bad THEN back ELSE @,
                                 !.failed = @ \/ bad,
                                 !.kept = @ \/ (session[s].keep /\ back # Nobody)]
      BY <1>6 DEF Exit
    <2>5. give => back \in App
      BY <1>0 DEF SessionState
    <2>6. host' \in HostState
      BY <1>0, <2>4, <2>5 DEF HostState
    <2> QED
      BY <2>1, <2>3, <2>6 DEF InputTypeOK
  <1> QED
    BY <1>1, <1>2, <1>3, <1>4, <1>5, <1>6 DEF Gesture

\* The sessions and the person at the machine keep the types, and the guest is not theirs.
LEMMA InputFits == InputTypeOK /\ InputNext => InputTypeOK' /\ guest' = guest
  <1> SUFFICES ASSUME InputTypeOK, InputNext PROVE InputTypeOK' /\ guest' = guest
    OBVIOUS
  <1>1. CASE \E s \in Session : Gesture(s)
    BY <1>1, GestureFits
  <1>2. CASE \E app \in App : Choose(app)
    <2>1. PICK app \in App : Choose(app)
      BY <1>2
    <2>2. left' \in Bounded /\ guest' = guest
      BY <2>1, TakesFits DEF Choose, InputTypeOK, Counted
    <2>3. host' \in HostState
      BY <2>1 DEF Choose, InputTypeOK, HostState
    <2>4. session' \in [Session -> SessionState]
      BY <2>1, DisturbedFits DEF Choose, InputTypeOK
    <2> QED
      BY <2>2, <2>3, <2>4 DEF InputTypeOK
  <1> QED
    BY <1>1, <1>2 DEF InputNext

-----------------------------------------------------------------------------
(* The two programs that answer dialogs *)

Shared == InputTypeOK /\ DialogTypeOK /\ guest \in GuestState /\ KeysAreMeant /\ KeysFitTheDialog

\* One program goes on, the guest stays, and the front stays or becomes the emulator.
LEMMA OnePresser ==
    ASSUME Shared, NEW p \in Presser, NEW k \in PresserState,
           presser' = [presser EXCEPT ![p] = k],
           guest' = guest, host'.front = host.front \/ host'.front = Emulator,
           Meant(k, guest', host')
    PROVE  presser' \in [Presser -> PresserState] /\ KeysAreMeant'
  <1>1. presser \in [Presser -> PresserState]
    BY DEF Shared, DialogTypeOK
  <1>2. presser' \in [Presser -> PresserState]
    BY <1>1
  <1>3. presser'[p] = k /\ \A q \in Presser : q # p => presser'[q] = presser[q]
    BY <1>1
  <1>4. \A q \in Presser : Meant(presser'[q], guest', host') \/ q = p
    BY <1>1, <1>3 DEF Shared, KeysAreMeant, Meant
  <1>5. Meant(presser'[p], guest', host')
    BY <1>3
  <1> QED
    BY <1>2, <1>4, <1>5 DEF KeysAreMeant

\* To lose sight changes nothing else.
LEMMA BlindFits ==
    ASSUME NEW k \in PresserState, NEW b \in BOOLEAN
    PROVE  [k EXCEPT !.blind = b] \in PresserState /\ [k EXCEPT !.blind = b].blind = b
  BY DEF PresserState

\* Who has lost sight of what it saw is not held to it.
LEMMA AllBlind ==
    ASSUME Shared, presser' = Blinded({})
    PROVE  presser' \in [Presser -> PresserState] /\ KeysAreMeant'
  <1>1. \A q \in Presser : [presser[q] EXCEPT !.blind = TRUE] \in PresserState
    BY BlindFits DEF Shared, DialogTypeOK
  <1>2. presser' = [q \in Presser |-> [presser[q] EXCEPT !.blind = TRUE]]
    BY DEF Blinded
  <1>3. \A q \in Presser : presser'[q].blind = TRUE
    BY <1>2 DEF Shared, DialogTypeOK, PresserState
  <1> QED
    BY <1>1, <1>2, <1>3 DEF KeysAreMeant, Meant

\* Programs that stay where they are keep sight of a dialog that stays.
LEMMA PressersStay ==
    ASSUME Shared, presser' = presser, host'.front = host.front \/ host'.front = Emulator,
           guest'.dialog = guest.dialog, guest'.pid = guest.pid
    PROVE  presser' \in [Presser -> PresserState] /\ KeysAreMeant'
  BY DEF Shared, DialogTypeOK, KeysAreMeant, Meant

\* dialog_watch picks the key for the dialog it sees.
LEMMA WatchLooksFits ==
    ASSUME Shared, WatchLooks
    PROVE  Shared' /\ guest' = guest
  <1>1. /\ presser["watch"] \in PresserState /\ presser \in [Presser -> PresserState]
        /\ "watch" \in Presser /\ guest \in GuestState
    BY DEF Shared, DialogTypeOK, Presser
  <1>2. left' \in Bounded /\ UNCHANGED <<host, guest, session, boot>>
    BY TakesFits DEF WatchLooks, Shared, InputTypeOK, Counted
  <1>3. PICK d \in {guest.dialog, "none"} :
          IF d \in {"interrupted", "trash"}
          THEN /\ presser' = Types("watch", d, IF d = "trash" THEN "escape" ELSE "return")
               /\ UNCHANGED alert
          ELSE IF d \in {"login", "conflict"}
          THEN alert' = [alert EXCEPT !.of = d] /\ UNCHANGED presser
          ELSE presser' = [Saw("watch", d) EXCEPT !["watch"].pc = "ask"] /\ UNCHANGED alert
    BY DEF WatchLooks
  <1>4. d \in Dialog
    BY <1>1 DEF GuestState, Dialog
  <1>5. alert' \in [silent : 0..3, of : {"nothing", "login", "conflict", "unknown"}]
    BY <1>3 DEF Shared, DialogTypeOK
  <1>6. CASE d \in {"interrupted", "trash"}
    <2> DEFINE key == IF d = "trash" THEN "escape" ELSE "return"
               k == [presser["watch"] EXCEPT !.seen = d, !.blind = FALSE, !.key = key, !.pc = "focus"]
    <2>1. presser' = [presser EXCEPT !["watch"] = k]
      BY <1>1, <1>3, <1>6 DEF Types
    <2>2. <<d, key>> \in KeyFor /\ key \in Key /\ d = guest.dialog
      BY <1>6 DEF KeyFor, Key
    <2> HIDE DEF key
    <2>3. k \in PresserState /\ k.seen = d /\ k.key = key /\ k.pc = "focus"
      BY <1>1, <1>4, <2>2 DEF PresserState
    <2> HIDE DEF k
    <2>4. Meant(k, guest', host')
      BY <1>2, <2>2, <2>3 DEF Meant
    <2> QED
      BY <1>1, <1>2, <1>5, <2>1, <2>3, <2>4, OnePresser
      DEF Shared, InputTypeOK, DialogTypeOK, KeysFitTheDialog
  <1>7. CASE d \in {"login", "conflict"}
    <2>1. presser' = presser
      BY <1>3, <1>7
    <2> QED
      BY <1>2, <1>5, <2>1, PressersStay DEF Shared, InputTypeOK, DialogTypeOK, KeysFitTheDialog
  <1>8. CASE d \notin {"interrupted", "trash", "login", "conflict"}
    <2> DEFINE k == [presser["watch"] EXCEPT !.seen = d, !.blind = FALSE, !.pc = "ask"]
    <2>1. presser' = [presser EXCEPT !["watch"] = k]
      BY <1>1, <1>3, <1>8 DEF Saw
    <2>2. k \in PresserState /\ k.pc = "ask"
      BY <1>1, <1>4 DEF PresserState
    <2> HIDE DEF k
    <2>3. Meant(k, guest', host')
      BY <2>2 DEF Meant
    <2> QED
      BY <1>1, <1>2, <1>5, <2>1, <2>2, <2>3, OnePresser
      DEF Shared, InputTypeOK, DialogTypeOK, KeysFitTheDialog
  <1> QED
    BY <1>6, <1>7, <1>8

\* A program goes to a place at which it does not type.
LEMMA PresserGoes ==
    ASSUME Shared, NEW p \in Presser, NEW pc \in {"idle", "look", "ask"},
           presser' = [presser EXCEPT ![p].pc = pc],
           guest' = guest, host'.front = host.front \/ host'.front = Emulator
    PROVE  presser' \in [Presser -> PresserState] /\ KeysAreMeant'
  <1> DEFINE k == [presser[p] EXCEPT !.pc = pc]
  <1>1. presser[p] \in PresserState
    BY DEF Shared, DialogTypeOK
  <1>2. k \in PresserState /\ k.pc = pc
    BY <1>1 DEF PresserState
  <1>3. presser' = [presser EXCEPT ![p] = k]
    OBVIOUS
  <1> HIDE DEF k
  <1>4. Meant(k, guest', host')
    BY <1>2 DEF Meant
  <1> QED
    BY <1>2, <1>3, <1>4, OnePresser

\* dialog_watch asks the bridge and types nothing.
LEMMA WatchAsksFits ==
    ASSUME Shared, WatchAsks
    PROVE  Shared' /\ guest' = guest
  <1>1. "watch" \in Presser
    BY DEF Presser
  <1>2. /\ UNCHANGED <<host, guest, session, left, boot>>
        /\ presser' = [presser EXCEPT !["watch"].pc = "look"]
    BY DEF WatchAsks
  <1>3. alert' \in [silent : 0..3, of : {"nothing", "login", "conflict", "unknown"}]
    BY DEF WatchAsks, Shared, DialogTypeOK
  <1> QED
    BY <1>1, <1>2, <1>3, PresserGoes DEF Shared, InputTypeOK, DialogTypeOK, KeysFitTheDialog

BootState ==
    [typed : 0..2, polls : 0..MaxPolls, result : {"none", "ready", "person", "timeout"},
     harm : SUBSET {"trash", "password", "unread"}]

\* guest_boot begins with a full count, and what was harmed before stays so.
LEMMA BegunFits ==
    ASSUME boot \in BootState
    PROVE  Begun \in BootState /\ Begun.harm = boot.harm
  <1>1. MaxPolls \in 0..MaxPolls /\ 0 \in 0..2
    BY PollAssumption
  <1> QED
    BY <1>1 DEF Begun, BootState

\* guest_boot begins at a look.
LEMMA BootBeginsFits ==
    ASSUME Shared, BootBegins
    PROVE  Shared' /\ guest' = guest
  <1>1. "boot" \in Presser /\ boot' \in BootState /\ boot'.harm = boot.harm
    <2>1. boot \in BootState
      BY DEF Shared, DialogTypeOK, BootState
    <2> QED
      BY <2>1, BegunFits DEF Presser, BootBegins
  <1>2. left' \in Bounded
    BY TakesFits DEF BootBegins, Shared, InputTypeOK, Counted
  <1>3. /\ UNCHANGED <<host, guest, session, alert>>
        /\ presser' = [presser EXCEPT !["boot"].pc = "look"]
    BY DEF BootBegins
  <1> QED
    BY <1>1, <1>2, <1>3, PresserGoes DEF Shared, InputTypeOK, DialogTypeOK, KeysFitTheDialog, BootState

\* guest_boot ends, at an unchanged guest.
LEMMA BootEndsFits ==
    ASSUME Shared, NEW result \in {"ready", "person", "timeout"}, BootEnds(result),
           UNCHANGED <<host, guest, session, left, alert>>
    PROVE  Shared'
  <1>1. "boot" \in Presser
    BY DEF Presser
  <1>2. boot' \in BootState /\ boot'.harm = boot.harm
    BY DEF BootEnds, Shared, DialogTypeOK, BootState
  <1>3. presser' = [presser EXCEPT !["boot"].pc = "idle"]
    BY DEF BootEnds
  <1> QED
    BY <1>1, <1>2, <1>3, PresserGoes DEF Shared, InputTypeOK, DialogTypeOK, KeysFitTheDialog, BootState

\* guest_boot picks the key for the dialog it sees.
LEMMA BootLooksFits ==
    ASSUME Shared, BootLooks
    PROVE  Shared' /\ guest' = guest
  <1> DEFINE d == guest.dialog
  <1>1. /\ presser["boot"] \in PresserState /\ presser \in [Presser -> PresserState]
        /\ "boot" \in Presser /\ d \in Dialog /\ boot \in BootState
    BY DEF Shared, DialogTypeOK, Presser, GuestState, BootState
  <1>2. UNCHANGED <<host, guest, session, left, alert>>
    BY DEF BootLooks
  <1>3. PICK frame \in BOOLEAN, secret \in BOOLEAN :
        /\ secret \/ d = "login"
        /\ IF boot.polls = 0 THEN BootEnds("timeout")
           ELSE IF ~frame
           THEN boot' = [boot EXCEPT !.polls = @ - 1] /\ UNCHANGED presser
           ELSE IF d = "conflict" \/ (d = "login" /\ (~secret \/ boot.typed = 2))
           THEN BootEnds("person")
           ELSE IF d \in {"login", "interrupted"}
           THEN /\ presser' = Types("boot", d, IF d = "login" THEN "password" ELSE "return")
                /\ boot' = [boot EXCEPT !.polls = @ - 1, !.typed = IF d = "login" THEN @ + 1 ELSE @]
           ELSE /\ presser' = [Saw("boot", d) EXCEPT !["boot"].pc = "ask"]
                /\ boot' = [boot EXCEPT !.polls = @ - 1]
    BY DEF BootLooks
  <1>4. boot.polls # 0 => boot.polls - 1 \in 0..MaxPolls
    BY <1>1, PollAssumption DEF BootState
  <1>5. CASE BootEnds("timeout") \/ BootEnds("person")
    BY <1>2, <1>5, BootEndsFits
  <1>6. CASE boot.polls # 0 /\ boot' = [boot EXCEPT !.polls = @ - 1] /\ UNCHANGED presser
    <2>1. boot' \in BootState /\ boot'.harm = boot.harm
      BY <1>1, <1>4, <1>6 DEF BootState
    <2> QED
      BY <1>2, <1>6, <2>1, PressersStay
      DEF Shared, InputTypeOK, DialogTypeOK, KeysFitTheDialog, BootState
  <1>7. CASE /\ boot.polls # 0 /\ d \in {"login", "interrupted"} /\ (d = "login" => boot.typed # 2)
             /\ presser' = Types("boot", d, IF d = "login" THEN "password" ELSE "return")
             /\ boot' = [boot EXCEPT !.polls = @ - 1, !.typed = IF d = "login" THEN @ + 1 ELSE @]
    <2> DEFINE key == IF d = "login" THEN "password" ELSE "return"
               k == [presser["boot"] EXCEPT !.seen = d, !.blind = FALSE, !.key = key, !.pc = "focus"]
    <2>1. presser' = [presser EXCEPT !["boot"] = k]
      BY <1>1, <1>7 DEF Types
    <2>2. <<d, key>> \in KeyFor /\ key \in Key
      BY <1>7 DEF KeyFor, Key
    <2>3. d = "login" => boot.typed + 1 \in 0..2
      BY <1>1, <1>7 DEF BootState
    <2>4. boot' \in BootState /\ boot'.harm = boot.harm
      BY <1>1, <1>4, <1>7, <2>3 DEF BootState
    <2> HIDE DEF key
    <2>5. k \in PresserState /\ k.seen = d /\ k.key = key /\ k.pc = "focus"
      BY <1>1, <2>2 DEF PresserState
    <2> HIDE DEF k
    <2>6. Meant(k, guest', host')
      BY <1>2, <2>2, <2>5 DEF Meant
    <2> QED
      BY <1>1, <1>2, <2>1, <2>4, <2>5, <2>6, OnePresser
      DEF Shared, InputTypeOK, DialogTypeOK, KeysFitTheDialog, BootState
  <1>8. CASE /\ boot.polls # 0
             /\ presser' = [Saw("boot", d) EXCEPT !["boot"].pc = "ask"]
             /\ boot' = [boot EXCEPT !.polls = @ - 1]
    <2> DEFINE k == [presser["boot"] EXCEPT !.seen = d, !.blind = FALSE, !.pc = "ask"]
    <2>1. presser' = [presser EXCEPT !["boot"] = k]
      BY <1>1, <1>8 DEF Saw
    <2>2. boot' \in BootState /\ boot'.harm = boot.harm
      BY <1>1, <1>4, <1>8 DEF BootState
    <2>3. k \in PresserState /\ k.pc = "ask"
      BY <1>1 DEF PresserState
    <2> HIDE DEF k
    <2>4. Meant(k, guest', host')
      BY <2>3 DEF Meant
    <2> QED
      BY <1>1, <1>2, <2>1, <2>2, <2>3, <2>4, OnePresser
      DEF Shared, InputTypeOK, DialogTypeOK, KeysFitTheDialog, BootState
  <1> HIDE DEF d
  <1> QED
    BY <1>2, <1>3, <1>5, <1>6, <1>7, <1>8

\* guest_boot ends or looks again, and types nothing.
LEMMA BootAsksFits ==
    ASSUME Shared, BootAsks
    PROVE  Shared' /\ guest' = guest
  <1>1. UNCHANGED <<host, guest, session, left, alert>>
    BY DEF BootAsks
  <1>2. CASE BootEnds("ready") \/ BootEnds("person")
    BY <1>1, <1>2, BootEndsFits
  <1>3. CASE presser' = [presser EXCEPT !["boot"].pc = "look"] /\ UNCHANGED boot
    <2>1. "boot" \in Presser
      BY DEF Presser
    <2> QED
      BY <1>1, <1>3, <2>1, PresserGoes DEF Shared, InputTypeOK, DialogTypeOK, KeysFitTheDialog
  <1> QED
    BY <1>1, <1>2, <1>3 DEF BootAsks

\* Who brings the emulator to the front to type has it in front, and there.
LEMMA FocusFits ==
    ASSUME Shared, NEW p \in Presser, Focus(p)
    PROVE  Shared' /\ guest' = guest
  <1>1. /\ presser[p] \in PresserState /\ presser[p].pc = "focus"
        /\ UNCHANGED <<guest, left, alert, boot>>
    BY DEF Focus, Shared, DialogTypeOK
  <1>2. CASE guest.pid = Off
    <2>1. presser' = [presser EXCEPT ![p].pc = "look"] /\ UNCHANGED <<host, session>>
      BY <1>2 DEF Focus
    <2> QED
      BY <1>1, <2>1, PresserGoes DEF Shared, InputTypeOK, DialogTypeOK, KeysFitTheDialog
  <1>3. CASE guest.pid # Off
    <2> DEFINE k == [presser[p] EXCEPT !.pc = "press"]
    <2>1. /\ host' = [host EXCEPT !.front = Emulator, !.kept = TRUE]
          /\ session' = session \/ session' = Disturbed({})
          /\ presser' = [presser EXCEPT ![p] = k]
      BY <1>3 DEF Focus
    <2>2. Emulator \in App
      BY InputAssumption
    <2>3. host' \in HostState /\ host'.front = Emulator
      BY <2>1, <2>2 DEF Shared, InputTypeOK, HostState
    <2>4. session' \in [Session -> SessionState]
      BY <2>1, DisturbedFits DEF Shared, InputTypeOK
    <2>5. /\ k \in PresserState /\ k.pc = "press" /\ k.seen = presser[p].seen
          /\ k.key = presser[p].key /\ k.blind = presser[p].blind
      BY <1>1 DEF PresserState
    <2> HIDE DEF k
    <2>6. Meant(presser[p], guest, host)
      BY DEF Shared, KeysAreMeant
    <2>7. Meant(k, guest', host')
      BY <1>1, <1>3, <2>3, <2>5, <2>6 DEF Meant
    <2> QED
      BY <1>1, <2>1, <2>3, <2>4, <2>5, <2>7, OnePresser
      DEF Shared, InputTypeOK, DialogTypeOK, KeysFitTheDialog
  <1> QED
    BY <1>2, <1>3

\* What a key may do, and that a key that is for the dialog does no harm.
LEMMA StruckFits ==
    ASSUME NEW d \in Dialog, NEW key \in Key
    PROVE  /\ Struck(d, key).to \subseteq Dialog
           /\ Struck(d, key).harm \subseteq {"trash", "password", "unread"}
           /\ <<d, key>> \in KeyFor => Struck(d, key).harm = {}
  BY DEF Dialog, Key, Struck, KeyFor

\* A key of a program that still sees its dialog is for that dialog, and does no harm.
LEMMA PressKeyFits ==
    ASSUME Shared, NEW p \in Presser, PressKey(p)
    PROVE  Shared' /\ guest'.pid = guest.pid
  <1> DEFINE key == presser[p].key
             hit == Struck(guest.dialog, key)
             there == host.front = Emulator /\ guest.pid # Off
             harm == IF there THEN hit.harm ELSE IF key = "password" THEN {"password"} ELSE {}
  <1>1. /\ presser \in [Presser -> PresserState] /\ presser[p] \in PresserState
        /\ key \in Key /\ presser[p].pc = "press" /\ guest \in GuestState
        /\ guest.dialog \in Dialog /\ boot \in BootState
    BY DEF PressKey, Shared, DialogTypeOK, PresserState, GuestState, BootState
  <1>2. hit.to \subseteq Dialog /\ hit.harm \subseteq {"trash", "password", "unread"}
        /\ (<<guest.dialog, key>> \in KeyFor => hit.harm = {})
    BY <1>1, StruckFits
  <1>3. PICK d \in hit.to :
           guest' = IF ~there THEN guest
                    ELSE [guest EXCEPT !.dialog = d,
                                       !.mounted = @ \/ (guest.dialog = "login" /\ d = "none"
                                                         /\ key = "password")]
    BY DEF PressKey
  <1>4. /\ boot' = [boot EXCEPT !.harm = IF presser[p].blind THEN @ ELSE @ \union harm]
        /\ presser' = [(IF guest' = guest THEN presser ELSE Blinded({p})) EXCEPT ![p].pc = "look"]
        /\ UNCHANGED <<host, session, left, alert>>
    BY DEF PressKey
  <1>5. Meant(presser[p], guest, host)
    BY DEF Shared, KeysAreMeant
  <1>6. ~presser[p].blind => harm = {}
    BY <1>1, <1>2, <1>5 DEF Meant
  <1>7. harm \subseteq {"trash", "password", "unread"}
    BY <1>2
  <1> HIDE DEF harm
  <1>8. boot' \in BootState /\ boot'.harm = boot.harm
    <2>1. CASE presser[p].blind
      BY <1>1, <1>4, <2>1 DEF BootState
    <2>2. CASE ~presser[p].blind
      BY <1>1, <1>4, <1>6, <2>2 DEF BootState
    <2> QED
      BY <2>1, <2>2
  <1>9. guest' \in GuestState /\ guest'.pid = guest.pid
    <2>1. d \in Dialog
      BY <1>2, <1>3
    <2> QED
      BY <1>1, <1>3, <2>1 DEF GuestState
  <1>10. presser' \in [Presser -> PresserState] /\ KeysAreMeant'
    <2>1. CASE guest' = guest
      BY <1>4, <2>1, PresserGoes
    <2>2. CASE guest' # guest
      <3> DEFINE blind == [q \in Presser |-> IF q = p THEN presser[q]
                                              ELSE [presser[q] EXCEPT !.blind = TRUE]]
      <3>1. \A q \in Presser : [presser[q] EXCEPT !.blind = TRUE] \in PresserState
        BY <1>1 DEF PresserState
      <3>2. presser' = [blind EXCEPT ![p].pc = "look"]
        BY <1>4, <2>2 DEF Blinded
      <3>3. blind[p] = presser[p] /\ blind \in [Presser -> PresserState]
        BY <1>1, <3>1
      <3>4. \A q \in Presser : q # p => blind[q].blind = TRUE
        BY <1>1 DEF PresserState
      <3> HIDE DEF blind
      <3>5. [blind[p] EXCEPT !.pc = "look"] \in PresserState /\ [blind[p] EXCEPT !.pc = "look"].pc = "look"
        BY <1>1, <3>3 DEF PresserState
      <3>6. presser' \in [Presser -> PresserState]
        BY <3>2, <3>3, <3>5
      <3>7. presser'[p].pc = "look" /\ \A q \in Presser : q # p => presser'[q].blind = TRUE
        BY <3>2, <3>3, <3>4, <3>5
      <3> QED
        BY <3>6, <3>7 DEF KeysAreMeant, Meant
    <2> QED
      BY <2>1, <2>2
  <1> QED
    BY <1>4, <1>8, <1>9, <1>10 DEF Shared, InputTypeOK, DialogTypeOK, KeysFitTheDialog, BootState

\* All steps of the two programs, and of the dialogs themselves.
LEMMA DialogFits ==
    ASSUME Shared, DialogNext
    PROVE  Shared' /\ guest'.pid = guest.pid
  <1>1. CASE \E p \in Presser : Focus(p) \/ PressKey(p)
    BY <1>1, FocusFits, PressKeyFits
  <1>2. CASE \E d \in Dialog : Turns(d)
    <2>1. PICK d \in Dialog : Turns(d)
      BY <1>2
    <2>2. left' \in Bounded
      BY <2>1, TakesFits DEF Turns, Shared, InputTypeOK, Counted
    <2>3. /\ guest' = [guest EXCEPT !.dialog = d] /\ presser' = Blinded({})
          /\ UNCHANGED <<host, session, alert, boot>>
      BY <2>1 DEF Turns
    <2>4. guest' \in GuestState /\ guest'.pid = guest.pid
      BY <2>3 DEF Shared, GuestState
    <2> QED
      BY <2>2, <2>3, <2>4, AllBlind DEF Shared, InputTypeOK, DialogTypeOK, KeysFitTheDialog
  <1>3. CASE WatchLooks \/ WatchAsks \/ BootBegins \/ BootLooks \/ BootAsks
    BY <1>3, WatchLooksFits, WatchAsksFits, BootBeginsFits, BootLooksFits, BootAsksFits
  <1> QED
    BY <1>1, <1>2, <1>3 DEF DialogNext

-----------------------------------------------------------------------------
(* The watch *)

Watched ==
    /\ judge \in JudgeState /\ watch \in WatchState /\ bridge \in BOOLEAN /\ past \in PastState
    /\ JudgeIsTrue /\ KillIsWarranted /\ OnlyOne /\ OneEmulator

\* Others act on the guest as it is, or it goes.
LEMMA WatchStays ==
    ASSUME Watched, UNCHANGED hangVars, guest'.pid \in {guest.pid, Off}
    PROVE  Watched'
  BY DEF Watched, hangVars, JudgeIsTrue, KillIsWarranted, OnlyOne, OneEmulator

\* Time goes on alike for the window and for the silence.
LEMMA LaterFits ==
    ASSUME NEW age \in Age, NEW ticks \in 1..SilentTicks
    PROVE  Later(age, ticks) \in Age /\ \A less \in Age : less <= age => Later(less, ticks) <= Later(age, ticks)
  BY HangAssumption DEF Age, Later

\* While the watch sleeps the window grows no faster than the time since it was first found silent.
LEMMA WakeKeeps ==
    ASSUME Shared, Watched, NEW ticks \in 1..SilentTicks, Wake(ticks)
    PROVE  Shared' /\ Watched'
  <1>1. /\ UNCHANGED <<host, guest, session, presser, alert, boot, bridge, left>>
        /\ watch.pc = "sleep" /\ watch' = [watch EXCEPT !.pc = "pid"]
        /\ judge' = [judge EXCEPT !.since = IF @ = Never THEN @ ELSE Later(@, ticks)]
        /\ past' = [past EXCEPT !.lifeless = IF @ = Never THEN @ ELSE Later(@, ticks)]
    BY DEF Wake, Elsewhere, Steps
  <1>2. Shared'
    BY <1>1, PressersStay DEF Shared, InputTypeOK, DialogTypeOK, KeysFitTheDialog
  <1>3. judge \in JudgeState /\ past \in PastState /\ watch \in WatchState /\ bridge \in BOOLEAN
    BY DEF Watched
  <1>4. /\ judge.since \in Age \union {Never} /\ past.lifeless \in Age \union {Never}
        /\ judge.since # Never => judge.armed /\ past.lifeless # Never /\ judge.since <= past.lifeless
    BY <1>3 DEF JudgeState, PastState, Watched, JudgeIsTrue
  <1>5. /\ past.lifeless # Never => Later(past.lifeless, ticks) \in Age
        /\ judge.since # Never => /\ Later(judge.since, ticks) \in Age
                                  /\ Later(judge.since, ticks) <= Later(past.lifeless, ticks)
    BY <1>4, LaterFits
  <1>6. judge' \in JudgeState /\ past' \in PastState /\ watch' \in WatchState
    BY <1>1, <1>3, <1>5 DEF JudgeState, PastState, WatchState
  <1>7. /\ judge'.pid = judge.pid /\ judge'.armed = judge.armed /\ judge'.frame = judge.frame
        /\ judge'.since = IF judge.since = Never THEN Never ELSE Later(judge.since, ticks)
        /\ past'.heard = past.heard /\ past'.shown = past.shown /\ past'.twins = past.twins
        /\ past'.lifeless = IF past.lifeless = Never THEN Never ELSE Later(past.lifeless, ticks)
        /\ watch'.pc = "pid"
    BY <1>1, <1>3 DEF JudgeState, PastState, WatchState
  <1>10. past.lifeless # Never => past'.lifeless # Never
    BY <1>5, <1>7 DEF Age, Never
  <1>8. JudgeIsTrue'
    BY <1>4, <1>5, <1>7, <1>10 DEF Watched, JudgeIsTrue
  <1>9. KillIsWarranted' /\ OnlyOne' /\ OneEmulator'
    BY <1>7 DEF Watched, KillIsWarranted, OnlyOne, OneEmulator
  <1> QED
    BY <1>1, <1>2, <1>3, <1>6, <1>8, <1>9 DEF Watched

\* A look, up to the verdict.
LEMMA LooksKeep ==
    ASSUME Shared, Watched, ReadPid \/ AskBridge
    PROVE  Shared' /\ Watched'
  <1>1. /\ UNCHANGED <<host, guest, session, presser, alert, boot, bridge, judge, past>>
        /\ left' \in Bounded
    BY FailsFits DEF ReadPid, AskBridge, Elsewhere, Shared, InputTypeOK
  <1>2. Shared'
    BY <1>1, PressersStay DEF Shared, InputTypeOK, DialogTypeOK, KeysFitTheDialog
  <1>3. watch \in WatchState /\ guest.pid \in Nat /\ Off \in Nat
    BY DEF Watched, Shared, GuestState, Off
  <1>4. /\ watch' \in WatchState /\ watch'.pc \in {"ask", "judge"}
        /\ watch'.pc = "ask" => watch'.pid # Off
        /\ watch'.answered # "refused" => watch'.pid # Off
    <2>1. CASE ReadPid
      <3>1. PICK bad \in BOOLEAN :
              LET pid == IF bad THEN Off ELSE guest.pid IN
              watch' = [pc |-> IF pid = Off THEN "judge" ELSE "ask", pid |-> pid, answered |-> "refused"]
        BY <2>1 DEF ReadPid
      <3> QED
        BY <1>3, <3>1 DEF WatchState
    <2>2. CASE AskBridge
      <3>1. watch.pc = "ask" /\ watch.pid # Off
        BY <2>2 DEF AskBridge, Watched, JudgeIsTrue
      <3>2. Asked \in {"yes", "no", "refused"}
        BY DEF Asked
      <3>3. \E answered \in {"yes", "no", "refused"} :
               watch' = [watch EXCEPT !.pc = "judge", !.answered = answered]
        BY <2>2, <3>2 DEF AskBridge
      <3> QED
        BY <1>3, <3>1, <3>3 DEF WatchState
    <2> QED
      BY <2>1, <2>2
  <1>5. JudgeIsTrue' /\ KillIsWarranted' /\ OnlyOne' /\ OneEmulator'
    BY <1>1, <1>4 DEF Watched, JudgeIsTrue, KillIsWarranted, OnlyOne, OneEmulator
  <1> QED
    BY <1>1, <1>2, <1>4, <1>5 DEF Watched

Unarmed(pid) == [pid |-> pid, armed |-> FALSE, since |-> Never, frame |-> NoFrame]

\* What the judge says of a look, case by case.
Says(j, pid, answered, busy, frame, o) ==
    LET moved == frame # NoFrame /\ j.frame # NoFrame /\ frame # j.frame
        since == IF j.since = Never THEN 0 ELSE j.since
        picture == IF frame = NoFrame THEN j.frame ELSE frame
    IN  /\ pid # j.pid /\ (pid = Off \/ answered # "yes") =>
              o.judge = Unarmed(pid) /\ o.verdict # "kill"
        /\ pid # Off /\ answered = "yes" =>
              /\ o.judge = [pid |-> pid, armed |-> TRUE, since |-> Never, frame |-> NoFrame]
              /\ o.verdict # "kill"
        /\ pid = j.pid /\ (pid = Off \/ (answered # "yes" /\ (~j.armed \/ answered = "refused"))) =>
              o.judge = j /\ o.verdict # "kill"
        /\ pid = j.pid /\ pid # Off /\ answered = "no" /\ j.armed =>
              /\ ~busy => o.judge = [j EXCEPT !.since = Never] /\ o.verdict # "kill"
              /\ busy /\ moved =>
                    o.judge = [j EXCEPT !.since = Never, !.frame = frame] /\ o.verdict # "kill"
              /\ busy /\ ~moved =>
                    IF since >= SilentTicks
                    THEN /\ o.judge = [j EXCEPT !.frame = picture, !.armed = FALSE, !.since = Never]
                         /\ o.verdict = "kill"
                    ELSE /\ o.judge = [j EXCEPT !.frame = picture, !.since = since]
                         /\ o.verdict = "silent"

\* The judge says so.
LEMMA Observed ==
    ASSUME NEW j \in JudgeState, NEW pid \in Nat, NEW answered \in {"yes", "no", "refused"},
           NEW busy \in BOOLEAN, NEW frame \in Seen
    PROVE  Says(j, pid, answered, busy, frame, Observe(j, pid, answered, busy, frame))
  <1> DEFINE o == Observe(j, pid, answered, busy, frame)
             moved == frame # NoFrame /\ j.frame # NoFrame /\ frame # j.frame
             since == IF j.since = Never THEN 0 ELSE j.since
             picture == IF frame = NoFrame THEN j.frame ELSE frame
             k == [j EXCEPT !.frame = picture, !.since = since]
  <1>1. ASSUME pid # j.pid, pid = Off \/ answered # "yes"
        PROVE  o.judge = Unarmed(pid) /\ o.verdict # "kill"
    BY <1>1 DEF Observe, Verdict, Unarmed
  <1>2. ASSUME pid # Off, answered = "yes"
        PROVE  /\ o.judge = [pid |-> pid, armed |-> TRUE, since |-> Never, frame |-> NoFrame]
               /\ o.verdict # "kill"
    BY <1>2 DEF Observe, Verdict, JudgeState
  <1>3. ASSUME pid = j.pid, pid = Off \/ (answered # "yes" /\ (~j.armed \/ answered = "refused"))
        PROVE  o.judge = j /\ o.verdict # "kill"
    BY <1>3 DEF Observe, Verdict
  <1>4. ASSUME pid = j.pid, pid # Off, answered = "no", j.armed, ~busy
        PROVE  o.judge = [j EXCEPT !.since = Never] /\ o.verdict # "kill"
    BY <1>4 DEF Observe, Verdict
  <1>5. ASSUME pid = j.pid, pid # Off, answered = "no", j.armed, busy, moved
        PROVE  o.judge = [j EXCEPT !.since = Never, !.frame = frame] /\ o.verdict # "kill"
    BY <1>5 DEF Observe, Verdict
  <1>6. ASSUME pid = j.pid, pid # Off, answered = "no", j.armed, busy, ~moved
        PROVE  o = IF k.since >= SilentTicks
                   THEN [verdict |-> "kill", judge |-> [k EXCEPT !.armed = FALSE, !.since = Never]]
                   ELSE [verdict |-> "silent", judge |-> k]
    BY <1>6 DEF Observe, Verdict
  <1>7. k.since = since /\ [k EXCEPT !.armed = FALSE, !.since = Never]
                            = [j EXCEPT !.frame = picture, !.armed = FALSE, !.since = Never]
    BY DEF JudgeState
  <1> HIDE DEF o, moved, since, picture, k
  <1>8. ASSUME pid = j.pid, pid # Off, answered = "no", j.armed, busy, ~moved
        PROVE  IF since >= SilentTicks
               THEN /\ o.judge = [j EXCEPT !.frame = picture, !.armed = FALSE, !.since = Never]
                    /\ o.verdict = "kill"
               ELSE o.judge = k /\ o.verdict = "silent"
    <2>1. CASE since >= SilentTicks
      <3>1. o = [verdict |-> "kill", judge |-> [j EXCEPT !.frame = picture, !.armed = FALSE, !.since = Never]]
        BY <1>6, <1>7, <1>8, <2>1
      <3> QED
        BY <2>1, <3>1
    <2>2. CASE ~(since >= SilentTicks)
      <3>1. o = [verdict |-> "silent", judge |-> k]
        BY <1>6, <1>7, <1>8, <2>2
      <3> QED
        BY <2>2, <3>1
    <2> QED
      BY <2>1, <2>2
  <1>9. /\ pid # j.pid /\ (pid = Off \/ answered # "yes") =>
              o.judge = Unarmed(pid) /\ o.verdict # "kill"
        /\ pid # Off /\ answered = "yes" =>
              /\ o.judge = [pid |-> pid, armed |-> TRUE, since |-> Never, frame |-> NoFrame]
              /\ o.verdict # "kill"
        /\ pid = j.pid /\ (pid = Off \/ (answered # "yes" /\ (~j.armed \/ answered = "refused"))) =>
              o.judge = j /\ o.verdict # "kill"
    BY <1>1, <1>2, <1>3
  <1> QED
    BY <1>4, <1>5, <1>8, <1>9 DEF o, moved, since, picture, k, Says

\* A verdict to kill is one on a process that has answered, and that has been silent, busy and
\* still for all of the time: the judge's window is no longer than the silence.
LEMMA JudgeKeeps ==
    ASSUME Shared, Watched, Judge
    PROVE  Shared' /\ Watched'
  <1>1. /\ judge \in JudgeState /\ past \in PastState /\ watch \in WatchState /\ bridge \in BOOLEAN
        /\ watch.pid \in Nat /\ watch.answered \in {"yes", "no", "refused"} /\ guest.screen \in Seen
    BY DEF Watched, Shared, GuestState, WatchState, Seen
  <1>2. PICK bad \in BOOLEAN, frame \in {guest.screen, NoFrame} :
        /\ Fails(bad)
        /\ watch.answered # "no" => frame = NoFrame
        /\ LET answered == watch.answered
               busy == ~bad /\ Busy /\ guest.pid = watch.pid
               o == Observe(judge, watch.pid, answered, busy, frame)
               other == watch.pid # judge.pid
               alive == \/ other \/ watch.pid = Off \/ answered = "yes"
                        \/ answered = "no" /\ ~busy
               moved == frame # NoFrame /\ past.shown # NoFrame /\ frame # past.shown
           IN  /\ judge' = o.judge
               /\ Steps(IF o.verdict = "kill" THEN "say" ELSE "sleep")
               /\ past' = [past EXCEPT
                     !.lifeless = IF alive \/ moved THEN Never
                                  ELSE IF @ = Never /\ answered = "no" THEN 0 ELSE @,
                     !.shown = IF alive THEN NoFrame
                               ELSE IF frame = NoFrame \/ ~judge.armed THEN @ ELSE frame,
                     !.heard = answered = "yes" \/ (@ /\ ~other),
                     !.misled = FALSE]
    BY Zenon DEF Judge
  <1> DEFINE answered == watch.answered
             busy == ~bad /\ Busy /\ guest.pid = watch.pid
             o == Observe(judge, watch.pid, answered, busy, frame)
             other == watch.pid # judge.pid
             alive == \/ other \/ watch.pid = Off \/ answered = "yes"
                      \/ answered = "no" /\ ~busy
             moved == frame # NoFrame /\ past.shown # NoFrame /\ frame # past.shown
             seen == frame # NoFrame /\ judge.frame # NoFrame /\ frame # judge.frame
             since == IF judge.since = Never THEN 0 ELSE judge.since
             picture == IF frame = NoFrame THEN judge.frame ELSE frame
  <1>3. UNCHANGED <<host, guest, session, presser, alert, boot, bridge>> /\ left' \in Bounded
    BY <1>2, FailsFits DEF Judge, Elsewhere, Shared, InputTypeOK
  <1>4. Shared'
    BY <1>3, PressersStay DEF Shared, InputTypeOK, DialogTypeOK, KeysFitTheDialog
  <1>5. frame \in Seen /\ NoFrame \in Seen /\ busy \in BOOLEAN
    BY <1>1 DEF Seen, Busy
  <1>6. /\ judge' = o.judge
        /\ watch' = [watch EXCEPT !.pc = IF o.verdict = "kill" THEN "say" ELSE "sleep"]
    BY <1>2 DEF Steps
  <1>7. /\ past'.lifeless = IF alive \/ moved THEN Never
                            ELSE IF past.lifeless = Never /\ answered = "no" THEN 0 ELSE past.lifeless
        /\ past'.shown = IF alive THEN NoFrame
                         ELSE IF frame = NoFrame \/ ~judge.armed THEN past.shown ELSE frame
        /\ past'.heard <=> (answered = "yes" \/ (past.heard /\ ~other))
        /\ past'.twins = past.twins
    BY <1>1, <1>2 DEF PastState
  <1>8. past' \in PastState
    <2>1. past'.lifeless \in Age \union {Never}
      <3>1. 0 \in Age /\ past.lifeless \in Age \union {Never}
        BY <1>1, HangAssumption DEF Age, PastState
      <3> HIDE DEF alive, moved
      <3> QED
        BY <1>7, <3>1
    <2>2. past'.shown \in Seen
      <3>1. past.shown \in Seen
        BY <1>1 DEF PastState
      <3> HIDE DEF alive
      <3> QED
        BY <1>5, <1>7, <3>1
    <2>3. past' = [past EXCEPT !.lifeless = past'.lifeless, !.shown = past'.shown,
                               !.heard = past'.heard, !.misled = FALSE]
      BY <1>1, <1>2 DEF PastState
    <2>4. past'.heard \in BOOLEAN
      BY <1>1, <1>2 DEF PastState
    <2> QED
      BY <1>1, <2>1, <2>2, <2>3, <2>4 DEF PastState
  <1>9. /\ watch.pid # judge.pid /\ (watch.pid = Off \/ answered # "yes") =>
              o.judge = Unarmed(watch.pid) /\ o.verdict # "kill"
        /\ watch.pid # Off /\ answered = "yes" =>
              /\ o.judge = [pid |-> watch.pid, armed |-> TRUE, since |-> Never, frame |-> NoFrame]
              /\ o.verdict # "kill"
        /\ watch.pid = judge.pid /\ (watch.pid = Off \/ (answered # "yes" /\ (~judge.armed \/ answered = "refused"))) =>
              o.judge = judge /\ o.verdict # "kill"
        /\ watch.pid = judge.pid /\ watch.pid # Off /\ answered = "no" /\ judge.armed =>
              /\ ~busy => o.judge = [judge EXCEPT !.since = Never] /\ o.verdict # "kill"
              /\ busy /\ seen =>
                    o.judge = [judge EXCEPT !.since = Never, !.frame = frame] /\ o.verdict # "kill"
              /\ busy /\ ~seen =>
                    IF since >= SilentTicks
                    THEN /\ o.judge = [judge EXCEPT !.frame = picture, !.armed = FALSE, !.since = Never]
                         /\ o.verdict = "kill"
                    ELSE /\ o.judge = [judge EXCEPT !.frame = picture, !.since = since]
                         /\ o.verdict = "silent"
    <2>1. judge \in JudgeState /\ watch.pid \in Nat /\ answered \in {"yes", "no", "refused"}
      BY <1>1
    <2> HIDE DEF answered, busy
    <2>2. Says(judge, watch.pid, answered, busy, frame, o)
      BY <1>5, <2>1, Observed
    <2> HIDE DEF o
    <2> QED
      BY <2>2 DEF Says
  <1>10. /\ judge.armed => past.heard /\ judge.pid # Off
         /\ judge.since # Never => judge.armed /\ past.lifeless # Never /\ judge.since <= past.lifeless
         /\ past.shown \in {NoFrame, judge.frame}
         /\ answered # "refused" => watch.pid # Off
    BY DEF Watched, JudgeIsTrue, Judge
  <1>11. /\ answered \in {"yes", "no", "refused"} /\ (answered # "no" => frame = NoFrame)
         /\ judge.since \in Age \union {Never} /\ past.lifeless \in Age \union {Never}
         /\ picture \in Seen /\ (busy => guest.pid = watch.pid)
    <2>1. /\ judge.since \in Age \union {Never} /\ judge.frame \in Seen
          /\ past.lifeless \in Age \union {Never}
      BY <1>1 DEF JudgeState, PastState
    <2> QED
      BY <1>1, <1>2, <1>5, <2>1
  <1>20. SilentTicks \in Nat /\ 0 \in Age /\ since \in Age
    BY <1>11, HangAssumption DEF Age, Never
  <1>12. watch' \in WatchState /\ watch'.pc = (IF o.verdict = "kill" THEN "say" ELSE "sleep")
         /\ watch'.pid = watch.pid /\ watch'.answered = answered
    BY <1>1, <1>6 DEF WatchState
  <1> DEFINE True == /\ judge'.armed => past'.heard /\ judge'.pid # Off
                     /\ judge'.since # Never => /\ judge'.armed /\ past'.lifeless # Never
                                               /\ judge'.since <= past'.lifeless
                     /\ past'.shown \in {NoFrame, judge'.frame}
             Just == o.verdict = "kill" =>
                           /\ ~judge'.armed /\ past'.heard /\ answered = "no"
                           /\ past'.lifeless = SilentTicks
                           /\ watch.pid = judge'.pid /\ watch.pid # Off /\ guest.pid = watch.pid
             Good == judge' \in JudgeState /\ True /\ Just
  <1> HIDE DEF answered, busy, o
  <1>13. ASSUME other, watch.pid = Off \/ answered # "yes"
         PROVE  Good
    <2>1. judge' = Unarmed(watch.pid) /\ o.verdict # "kill"
      BY <1>6, <1>9, <1>13
    <2>2. past'.shown = NoFrame
      BY <1>7, <1>13
    <2>3. judge' \in JudgeState
      BY <1>1, <1>5, <2>1 DEF Unarmed, JudgeState
    <2> QED
      BY <2>1, <2>2, <2>3 DEF Unarmed
  <1>14. ASSUME watch.pid # Off, answered = "yes"
         PROVE  Good
    <2>1. /\ judge' = [pid |-> watch.pid, armed |-> TRUE, since |-> Never, frame |-> NoFrame]
          /\ o.verdict # "kill"
      BY <1>6, <1>9, <1>14
    <2>2. past'.shown = NoFrame /\ past'.heard
      BY <1>7, <1>14
    <2>3. judge' \in JudgeState
      BY <1>1, <1>5, <2>1 DEF JudgeState
    <2> QED
      BY <1>14, <2>1, <2>2, <2>3
  <1>15. ASSUME ~other,
                watch.pid = Off \/ (answered # "yes" /\ (~judge.armed \/ answered = "refused"))
         PROVE  Good
    <2>1. judge' = judge /\ o.verdict # "kill"
      BY <1>6, <1>9, <1>15
    <2>2. frame = NoFrame \/ ~judge.armed
      BY <1>10, <1>11, <1>15
    <2>3. past'.shown \in {NoFrame, judge.frame}
      BY <1>7, <1>10, <2>2
    <2>4. judge.armed => past'.heard
      BY <1>7, <1>10, <1>15
    <2>5. judge.since # Never => past'.lifeless = past.lifeless
      BY <1>7, <1>10, <1>11, <1>15
    <2> HIDE DEF other
    <2>6. True
      BY <1>10, <2>1, <2>3, <2>4, <2>5
    <2> QED
      BY <1>1, <2>1, <2>6
  <1>16. ASSUME ~other, watch.pid # Off, answered = "no", judge.armed
         PROVE  Good
    <2>1. past.heard /\ past'.heard /\ judge.pid # Off /\ judge.pid = watch.pid
      BY <1>7, <1>10, <1>16
    <2>2. CASE ~busy
      <3>1. judge' = [judge EXCEPT !.since = Never] /\ o.verdict # "kill"
        BY <1>6, <1>9, <1>16, <2>2
      <3>2. past'.shown = NoFrame
        BY <1>7, <1>16, <2>2
      <3>3. judge' \in JudgeState /\ judge'.pid = judge.pid /\ judge'.since = Never
        BY <1>1, <3>1 DEF JudgeState
      <3> QED
        BY <2>1, <3>1, <3>2, <3>3
    <2>3. CASE busy /\ seen
      <3>1. judge' = [judge EXCEPT !.since = Never, !.frame = frame] /\ o.verdict # "kill"
        BY <1>6, <1>9, <1>16, <2>3
      <3>2. past'.shown = frame
        BY <1>7, <1>16, <2>3
      <3>3. /\ judge' \in JudgeState /\ judge'.pid = judge.pid
            /\ judge'.since = Never /\ judge'.frame = frame
        BY <1>1, <1>5, <3>1 DEF JudgeState
      <3> QED
        BY <2>1, <3>1, <3>2, <3>3
    <2>4. CASE busy /\ ~seen
      <3>1. past'.lifeless = IF past.lifeless = Never THEN 0 ELSE past.lifeless
        BY <1>7, <1>10, <1>16, <2>4
      <3>2. past'.shown \in {NoFrame, picture}
        BY <1>7, <1>10, <1>16, <2>4
      <3>3. since <= past'.lifeless /\ past'.lifeless \in Age /\ past'.lifeless # Never
        BY <1>10, <1>11, <1>20, <3>1 DEF Age, Never
      <3> HIDE DEF picture, since
      <3>4. CASE since >= SilentTicks
        <4>1. judge' = [judge EXCEPT !.frame = picture, !.armed = FALSE, !.since = Never]
          BY <1>6, <1>9, <1>16, <2>4, <3>4
        <4>2. past'.lifeless = SilentTicks
          BY <1>11, <1>20, <3>3, <3>4 DEF Age
        <4>3. /\ judge' \in JudgeState /\ judge'.pid = judge.pid /\ ~judge'.armed
              /\ judge'.since = Never /\ judge'.frame = picture
          BY <1>1, <1>11, <4>1 DEF JudgeState
        <4>4. True
          BY <3>2, <4>3
        <4>5. Just
          BY <1>11, <1>16, <2>1, <2>4, <3>1, <4>2, <4>3
        <4> QED
          BY <4>3, <4>4, <4>5
      <3>5. CASE ~(since >= SilentTicks)
        <4>1. judge' = [judge EXCEPT !.frame = picture, !.since = since] /\ o.verdict # "kill"
          BY <1>6, <1>9, <1>16, <2>4, <3>5
        <4>2. /\ judge' \in JudgeState /\ judge'.pid = judge.pid /\ judge'.armed
              /\ judge'.since = since /\ judge'.frame = picture
          BY <1>1, <1>11, <1>16, <1>20, <4>1 DEF JudgeState
        <4>3. True
          BY <2>1, <3>1, <3>2, <3>3, <4>2
        <4> QED
          BY <4>1, <4>2, <4>3
      <3> QED
        BY <3>4, <3>5
    <2> QED
      BY <1>5, <2>2, <2>3, <2>4
  <1>17. Good
    <2> HIDE DEF Good, other
    <2> QED
      BY <1>11, <1>13, <1>14, <1>15, <1>16
  <1>18. JudgeIsTrue' /\ KillIsWarranted' /\ OnlyOne' /\ OneEmulator'
    BY <1>3, <1>7, <1>12, <1>17 DEF Watched, JudgeIsTrue, KillIsWarranted, OnlyOne, OneEmulator
  <1> QED
    BY <1>1, <1>3, <1>4, <1>8, <1>12, <1>17, <1>18 DEF Watched


\* What restart() does to the guest: it goes, or it stays.
LEMMA GoneFits ==
    ASSUME Shared, NEW app \in Other, Gone(app), UNCHANGED <<alert, boot>>, left' \in Bounded
    PROVE  Shared' /\ guest'.pid = Off
  <1>1. Off \in Nat /\ "none" \in Dialog /\ app \in App
    BY DEF Off, Dialog, Other
  <1>2. guest' \in GuestState /\ guest'.pid = Off
    BY <1>1 DEF Gone, Shared, GuestState
  <1>3. host' \in HostState
    BY <1>1 DEF Gone, Shared, InputTypeOK, HostState
  <1>4. session' \in [Session -> SessionState]
    BY DisturbedFits DEF Gone, Shared, InputTypeOK
  <1>5. presser' = Blinded({})
    BY DEF Gone
  <1> QED
    BY <1>2, <1>3, <1>4, <1>5, AllBlind DEF Shared, InputTypeOK, DialogTypeOK, KeysFitTheDialog

\* After a verdict the emulator of the verdict is there, or none.
LEMMA KillKeeps ==
    ASSUME Shared, Watched, Kill
    PROVE  Shared' /\ Watched'
  <1>1. PICK bad \in BOOLEAN :
        /\ Fails(bad)
        /\ IF bad THEN Steps("sleep") /\ Stays /\ UNCHANGED past
           ELSE /\ Steps("wait")
                /\ past' = [past EXCEPT !.heard = FALSE]
                /\ \/ Stays
                   \/ guest.pid = watch.pid /\ \E app \in Other : Gone(app)
    BY DEF Kill
  <1>2. /\ watch.pc = "say" /\ UNCHANGED <<alert, boot, judge, bridge>> /\ left' \in Bounded
        /\ judge \in JudgeState /\ past \in PastState /\ watch \in WatchState /\ bridge \in BOOLEAN
    BY <1>1, FailsFits DEF Kill, Shared, InputTypeOK, Watched
  <1>3. Shared' /\ guest'.pid \in {guest.pid, Off}
    <2>1. CASE Stays
      BY <1>2, <2>1, PressersStay DEF Stays, Shared, InputTypeOK, DialogTypeOK, KeysFitTheDialog
    <2>2. CASE \E app \in Other : Gone(app)
      BY <1>2, <2>2, GoneFits
    <2> QED
      BY <1>1, <2>1, <2>2
  <1>4. /\ watch' \in WatchState /\ watch'.pc \in {"sleep", "wait"} /\ watch'.pid = watch.pid
        /\ past' \in PastState /\ past'.lifeless = past.lifeless /\ past'.shown = past.shown
        /\ past'.twins = past.twins /\ past'.misled = past.misled
    <2>1. /\ watch' = [watch EXCEPT !.pc = watch'.pc] /\ watch'.pc \in {"sleep", "wait"}
          /\ past' = past \/ (past' = [past EXCEPT !.heard = past'.heard] /\ past'.heard \in BOOLEAN)
      <3>1. CASE bad
        BY <1>1, <1>2, <3>1 DEF Steps, WatchState, PastState
      <3>2. CASE ~bad
        BY <1>1, <1>2, <3>2 DEF Steps, WatchState, PastState
      <3> QED
        BY <3>1, <3>2
    <2>2. watch' \in WatchState /\ watch'.pid = watch.pid
      BY <1>2, <2>1 DEF WatchState
    <2> QED
      BY <1>2, <2>1, <2>2 DEF PastState
  <1> QED
    BY <1>2, <1>3, <1>4 DEF Watched, JudgeIsTrue, KillIsWarranted, OnlyOne, OneEmulator

\* After the wait no emulator is there, or a look at it has failed.
LEMMA WaitKeeps ==
    ASSUME Shared, Watched, Wait
    PROVE  Shared' /\ Watched'
  <1>1. /\ watch.pc = "wait" /\ watch' = [watch EXCEPT !.pc = "open"]
        /\ UNCHANGED <<alert, boot, judge, bridge>>
        /\ judge \in JudgeState /\ past \in PastState /\ watch \in WatchState /\ bridge \in BOOLEAN
    BY DEF Wait, Steps, Watched
  <1>2. \/ guest.pid # watch.pid /\ Stays /\ UNCHANGED <<left, past>>
        \/ Fails(TRUE) /\ Stays /\ past' = [past EXCEPT !.misled = TRUE]
        \/ guest.pid = watch.pid /\ (\E app \in Other : Gone(app)) /\ UNCHANGED <<left, past>>
    BY DEF Wait
  <1>3. left' \in Bounded
    BY <1>2, FailsFits DEF Shared, InputTypeOK
  <1>4. Shared'
    <2>1. CASE Stays
      BY <1>1, <1>3, <2>1, PressersStay DEF Stays, Shared, InputTypeOK, DialogTypeOK, KeysFitTheDialog
    <2>2. CASE \E app \in Other : Gone(app)
      BY <1>1, <1>3, <2>2, GoneFits
    <2> QED
      BY <1>2, <2>1, <2>2
  <1>5. guest'.pid = Off \/ past'.misled
    <2>1. CASE guest.pid # watch.pid /\ Stays /\ UNCHANGED <<left, past>>
      BY <1>1, <2>1 DEF Stays, Watched, OnlyOne
    <2>2. CASE Fails(TRUE) /\ Stays /\ past' = [past EXCEPT !.misled = TRUE]
      BY <1>1, <2>2 DEF PastState
    <2>3. CASE \E app \in Other : Gone(app)
      BY <1>1, <1>3, <2>3, GoneFits
    <2> QED
      BY <1>2, <2>1, <2>2, <2>3
  <1>6. /\ watch' \in WatchState /\ watch'.pc = "open" /\ watch'.pid = watch.pid
        /\ past' \in PastState /\ past'.lifeless = past.lifeless /\ past'.shown = past.shown
        /\ past'.twins = past.twins /\ past'.heard = past.heard
    BY <1>1, <1>2 DEF WatchState, PastState
  <1> QED
    BY <1>1, <1>4, <1>5, <1>6 DEF Watched, JudgeIsTrue, KillIsWarranted, OnlyOne, OneEmulator

\* An emulator comes to the front, and the others are disturbed.
LEMMA FrontFits ==
    ASSUME Shared, host' = [host EXCEPT !.front = Emulator, !.kept = TRUE], session' = Disturbed({})
    PROVE  host' \in HostState /\ host'.front = Emulator /\ session' \in [Session -> SessionState]
  <1>1. Emulator \in App
    BY InputAssumption
  <1> QED
    BY <1>1, DisturbedFits DEF Shared, InputTypeOK, HostState

\* A new emulator is a guest.
LEMMA BornFits ==
    ASSUME Shared, left.starts > 0,
           guest' = [guest EXCEPT !.pid = Fresh, !.mode = "boot", !.dialog = "none", !.mounted = FALSE]
    PROVE  guest' \in GuestState
  <1>1. Fresh \in Nat /\ "none" \in Dialog
    BY DEF Shared, InputTypeOK, Bounded, Fresh, Dialog
  <1> QED
    BY <1>1 DEF Shared, GuestState

\* An emulator that a person starts is not the fault of the watch.
LEMMA StartsKeeps ==
    ASSUME Shared, Watched, Starts
    PROVE  Shared' /\ Watched'
  <1>1. /\ left' \in Bounded /\ guest' \in GuestState /\ left.starts > 0
        /\ host' \in HostState /\ session' \in [Session -> SessionState]
    <2>1. left.starts > 0 /\ left' \in Bounded
      BY TakesFits DEF Starts, Shared, InputTypeOK, Counted, May
    <2> QED
      BY <2>1, BornFits, FrontFits DEF Starts, Came
  <1>2. presser' \in [Presser -> PresserState] /\ KeysAreMeant'
    BY AllBlind DEF Starts, Came
  <1>3. Shared'
    BY <1>1, <1>2 DEF Starts, Shared, InputTypeOK, DialogTypeOK, KeysFitTheDialog
  <1>4. /\ past' \in PastState /\ past'.lifeless = past.lifeless /\ past'.shown = past.shown
        /\ past'.twins = past.twins /\ past'.heard = past.heard /\ past'.misled
        /\ UNCHANGED <<judge, watch, bridge>>
    BY DEF Starts, Watched, PastState
  <1> QED
    BY <1>3, <1>4 DEF Watched, JudgeIsTrue, KillIsWarranted, OnlyOne, OneEmulator

\* An emulator that is opened in the place of another is one that was gone, or that the watch
\* had a reason to think gone.
LEMMA OpenKeeps ==
    ASSUME Shared, Watched, Open
    PROVE  Shared' /\ Watched'
  <1>1. PICK bad \in BOOLEAN :
        IF ~bad /\ guest.pid # Off
           THEN /\ host' = [host EXCEPT !.front = Emulator, !.kept = TRUE]
                /\ session' = Disturbed({}) /\ presser' = [presser EXCEPT !["boot"].pc = "look"]
                /\ UNCHANGED <<guest, left, past>>
           ELSE /\ bad => May("faults")
                /\ left' = [left EXCEPT !.starts = @ - 1, !.faults = IF bad THEN @ - 1 ELSE @]
                /\ guest' = [guest EXCEPT !.pid = Fresh, !.mode = "boot",
                                          !.dialog = "none", !.mounted = FALSE]
                /\ host' = [host EXCEPT !.front = Emulator, !.kept = TRUE]
                /\ session' = Disturbed({})
                /\ presser' = [Blinded({}) EXCEPT !["boot"].pc = "look"]
                /\ past' = [past EXCEPT !.twins = @ \/ (guest.pid # Off /\ ~past.misled)]
    BY Zenon DEF Open
  <1>2. /\ watch.pc = "open" /\ watch' = [watch EXCEPT !.pc = "boot"] /\ left.starts > 0
        /\ boot' = Begun /\ UNCHANGED <<alert, judge, bridge>>
        /\ judge \in JudgeState /\ past \in PastState /\ watch \in WatchState /\ bridge \in BOOLEAN
    BY DEF Open, Steps, May, Watched
  <1>3. "boot" \in Presser /\ boot \in BootState /\ left \in Bounded
    BY DEF Presser, Shared, DialogTypeOK, BootState, InputTypeOK
  <1>4. boot' \in BootState /\ boot'.harm = {}
    BY <1>2, <1>3, BegunFits DEF Shared, KeysFitTheDialog
  <1>5. host' \in HostState /\ host'.front = Emulator /\ session' \in [Session -> SessionState]
    BY <1>1, FrontFits
  <1>6. guest' \in GuestState /\ left' \in Bounded /\ past' \in PastState
    <2>1. CASE ~bad /\ guest.pid # Off
      BY <1>1, <1>2, <1>3, <2>1 DEF Shared
    <2>2. CASE ~(~bad /\ guest.pid # Off)
      <3>1. guest' \in GuestState
        BY <1>1, <1>2, <2>2, BornFits
      <3>2. left' \in Bounded
        <4>1. left' = [left EXCEPT !.starts = @ - 1, !.faults = IF bad THEN @ - 1 ELSE @]
          BY <1>1, <2>2
        <4>2. left.starts - 1 \in Nat /\ left.faults \in Nat /\ (bad => left.faults - 1 \in Nat)
          BY <1>1, <1>2, <1>3, <2>2 DEF Bounded, May
        <4>3. (IF bad THEN left.faults - 1 ELSE left.faults) \in Nat
          BY <4>2
        <4> QED
          BY <1>3, <4>1, <4>2, <4>3 DEF Bounded
      <3>3. past' \in PastState
        BY <1>1, <1>2, <2>2 DEF PastState
      <3> QED
        BY <3>1, <3>2, <3>3
    <2> QED
      BY <2>1, <2>2
  <1>7. presser' \in [Presser -> PresserState] /\ KeysAreMeant'
    <2>1. CASE ~bad /\ guest.pid # Off
      BY <1>1, <1>3, <1>5, <2>1, PresserGoes
    <2>2. CASE ~(~bad /\ guest.pid # Off)
      <3> DEFINE blind == [q \in Presser |-> [presser[q] EXCEPT !.blind = TRUE]]
      <3>1. \A q \in Presser : /\ [presser[q] EXCEPT !.blind = TRUE] \in PresserState
                               /\ [presser[q] EXCEPT !.blind = TRUE].blind = TRUE
        BY BlindFits DEF Shared, DialogTypeOK
      <3>2. presser' = [blind EXCEPT !["boot"].pc = "look"]
        BY <1>1, <2>2 DEF Blinded
      <3>3. blind \in [Presser -> PresserState]
        BY <3>1
      <3>4. \A q \in Presser : blind[q].blind = TRUE
        BY <3>1
      <3> HIDE DEF blind
      <3>5. blind["boot"] \in PresserState /\ blind["boot"].blind = TRUE
        BY <1>3, <3>3, <3>4
      <3>6. /\ [blind["boot"] EXCEPT !.pc = "look"] \in PresserState
            /\ [blind["boot"] EXCEPT !.pc = "look"].blind = TRUE
        BY <3>5 DEF PresserState
      <3>7. presser' \in [Presser -> PresserState] /\ \A q \in Presser : presser'[q].blind = TRUE
        BY <1>3, <3>2, <3>3, <3>4, <3>6
      <3> QED
        BY <3>7 DEF KeysAreMeant, Meant
    <2> QED
      BY <2>1, <2>2
  <1>8. Shared'
    BY <1>2, <1>4, <1>5, <1>6, <1>7 DEF Shared, InputTypeOK, DialogTypeOK, KeysFitTheDialog, BootState
  <1>9. /\ past'.lifeless = past.lifeless /\ past'.shown = past.shown /\ past'.heard = past.heard
        /\ ~past'.twins
    <2>1. guest.pid = Off \/ past.misled
      BY <1>2 DEF Watched, OnlyOne
    <2>2. ~past.twins
      BY DEF Watched, OneEmulator
    <2> QED
      BY <1>1, <1>2, <2>1, <2>2 DEF PastState
  <1>10. watch' \in WatchState /\ watch'.pc = "boot"
    BY <1>2 DEF WatchState
  <1> QED
    BY <1>2, <1>6, <1>8, <1>9, <1>10 DEF Watched, JudgeIsTrue, KillIsWarranted, OnlyOne, OneEmulator

\* The ends of a round, which change nothing but where the watch is.
LEMMA EndsKeep ==
    ASSUME Shared, Watched, NotOpened \/ BootOver \/ Back
    PROVE  Shared' /\ Watched'
  <1>1. /\ UNCHANGED <<host, guest, session, presser, alert, boot, bridge, left, judge, past>>
        /\ watch' = [watch EXCEPT !.pc = "back"] \/ watch' = [watch EXCEPT !.pc = "sleep"]
    BY DEF NotOpened, BootOver, Back, Elsewhere, Steps
  <1>2. Shared'
    BY <1>1, PressersStay DEF Shared, InputTypeOK, DialogTypeOK, KeysFitTheDialog
  <1>3. watch' \in WatchState /\ watch'.pc \in {"back", "sleep"}
    BY <1>1 DEF Watched, WatchState
  <1> QED
    BY <1>1, <1>2, <1>3 DEF Watched, JudgeIsTrue, KillIsWarranted, OnlyOne, OneEmulator

-----------------------------------------------------------------------------
(* The invariant *)

\* All steps of the watch.
LEMMA WatchStepKeeps ==
    ASSUME Shared, Watched, WatchStep
    PROVE  Shared' /\ Watched'
  BY WakeKeeps, LooksKeep, JudgeKeeps, KillKeeps, WaitKeeps, OpenKeeps, EndsKeep DEF WatchStep

\* What happens to the guest while nobody of the three programs moves.
LEMMA LifeKeeps ==
    ASSUME Shared, Watched,
           \/ \E mode \in {"well", "work", "hung"} : Lives(mode)
           \/ Draws \/ Serves \/ \E app \in Other : Quits(app)
    PROVE  Shared' /\ Watched'
  <1>1. CASE (\E mode \in {"well", "work", "hung"} : Lives(mode)) \/ Draws
    <2>1. left' \in Bounded /\ UNCHANGED <<host, session, presser, alert, boot, hangVars>>
      BY <1>1, TakesFits DEF Lives, Draws, Shared, InputTypeOK, Counted, dialogVars
    <2>2. guest' \in GuestState /\ guest'.pid = guest.pid /\ guest'.dialog = guest.dialog
      <3>1. CASE \E mode \in {"well", "work", "hung"} : Lives(mode)
        <4>1. PICK mode \in {"well", "work", "hung"}, mounted \in BOOLEAN :
                guest' = [guest EXCEPT !.mode = mode, !.mounted = mounted]
          BY <3>1 DEF Lives, Shared, GuestState
        <4> QED
          BY <4>1 DEF Shared, GuestState
      <3>2. CASE Draws
        BY <3>2 DEF Draws, Shared, GuestState
      <3> QED
        BY <1>1, <3>1, <3>2
    <2> QED
      BY <2>1, <2>2, PressersStay, WatchStays
      DEF Shared, InputTypeOK, DialogTypeOK, KeysFitTheDialog
  <1>2. CASE Serves
    <2>1. left' \in Bounded
      BY <1>2, TakesFits DEF Serves, Shared, InputTypeOK, Counted
    <2>2. UNCHANGED <<host, guest, session, presser, alert, boot, judge, watch, past>> /\ bridge' \in BOOLEAN
      BY <1>2 DEF Serves, dialogVars
    <2>3. Shared'
      BY <2>1, <2>2, PressersStay DEF Shared, InputTypeOK, DialogTypeOK, KeysFitTheDialog
    <2> QED
      BY <2>2, <2>3 DEF Watched, JudgeIsTrue, KillIsWarranted, OnlyOne, OneEmulator
  <1>3. CASE \E app \in Other : Quits(app)
    <2>1. left' \in Bounded
      BY <1>3, TakesFits DEF Quits, Shared, InputTypeOK, Counted
    <2>2. PICK app \in Other : Gone(app) /\ UNCHANGED <<alert, boot, hangVars>>
      BY <1>3 DEF Quits
    <2> QED
      BY <2>1, <2>2, GoneFits, WatchStays
  <1> QED
    BY <1>1, <1>2, <1>3

\* The sessions and the person at the machine take the front from the programs that type.
LEMMA InputKeeps ==
    ASSUME Shared, Watched, InputStep
    PROVE  Shared' /\ Watched'
  <1>1. /\ InputTypeOK' /\ guest' = guest /\ UNCHANGED <<alert, boot, hangVars>>
        /\ presser' = IF host'.front = host.front THEN presser ELSE Blinded({})
    BY InputFits DEF InputStep, Shared
  <1>2. presser' \in [Presser -> PresserState] /\ KeysAreMeant'
    BY <1>1, PressersStay, AllBlind
  <1> QED
    BY <1>1, <1>2, WatchStays DEF Shared, DialogTypeOK, KeysFitTheDialog

\* The invariant holds at first.
LEMMA WatchInit == Init => WatchInv
  <1> SUFFICES ASSUME Init PROVE WatchInv
    OBVIOUS
  <1>1. InputTypeOK
    <2>1. left \in Bounded /\ host \in HostState
      BY InputAssumption DEF Init, InputInit, HostState
    <2>2. session \in [Session -> SessionState]
      BY DEF Init, InputInit, SessionState
    <2> QED
      BY <2>1, <2>2 DEF InputTypeOK
  <1>2. DialogTypeOK /\ KeysFitTheDialog
    <2>1. "none" \in Dialog /\ "return" \in Key
      BY DEF Dialog, Key
    <2>2. presser \in [Presser -> PresserState]
      BY <2>1 DEF Init, DialogInit, PresserState
    <2>3. alert \in [silent : 0..3, of : {"nothing", "login", "conflict", "unknown"}]
      BY DEF Init, DialogInit
    <2>4. boot \in BootState /\ boot.harm = {}
      BY PollAssumption DEF Init, DialogInit, BootState
    <2> QED
      BY <2>2, <2>3, <2>4 DEF DialogTypeOK, KeysFitTheDialog, BootState
  <1>3. KeysAreMeant
    BY DEF Init, DialogInit, KeysAreMeant, Meant, Presser
  <1>4. guest \in GuestState
    <2>1. PICK mode \in {"boot", "well"} :
            guest = [pid |-> 1 + left.starts, mode |-> mode, dialog |-> "none",
                     mounted |-> mode = "well", screen |-> CHOOSE f \in Frame : TRUE]
      BY DEF Init
    <2>2. 1 + left.starts \in Nat
      BY <1>1 DEF InputTypeOK, Bounded
    <2>3. (CHOOSE f \in Frame : TRUE) \in Frame
      BY HangAssumption
    <2>4. (mode = "well") \in BOOLEAN /\ "none" \in Dialog
      BY DEF Dialog
    <2> QED
      BY <2>1, <2>2, <2>3, <2>4 DEF GuestState
  <1>5. judge \in JudgeState /\ watch \in WatchState /\ bridge \in BOOLEAN
    <2>1. Off \in Nat /\ NoFrame \in Seen /\ Never \in Age \union {Never}
      BY DEF Off, Seen
    <2>2. judge \in JudgeState
      BY <2>1 DEF Init, JudgeState
    <2>3. watch \in WatchState
      BY <2>1 DEF Init, WatchState
    <2> QED
      BY <2>2, <2>3 DEF Init
  <1>6. past \in PastState
    <2>1. 0 \in Age
      BY HangAssumption DEF Age
    <2> QED
      BY <2>1 DEF Init, PastState, Seen
  <1>7. JudgeIsTrue /\ KillIsWarranted /\ OnlyOne /\ OneEmulator
    BY DEF Init, JudgeIsTrue, KillIsWarranted, OnlyOne, OneEmulator
  <1> QED
    BY <1>1, <1>2, <1>3, <1>4, <1>5, <1>6, <1>7 DEF WatchInv, TypeOK

\* Every step keeps the invariant.
LEMMA WatchNext == WatchInv /\ [Next]_vars => WatchInv'
  <1> SUFFICES ASSUME Shared, Watched, [Next]_vars PROVE Shared' /\ Watched'
    BY DEF WatchInv, TypeOK, Shared, Watched
  <1>1. CASE WatchStep
    BY <1>1, WatchStepKeeps
  <1>2. CASE InputStep
    BY <1>2, InputKeeps
  <1>3. CASE DialogNext /\ UNCHANGED hangVars
    BY <1>3, DialogFits, WatchStays
  <1>4. CASE Starts
    BY <1>4, StartsKeeps
  <1>5. CASE \/ \E mode \in {"well", "work", "hung"} : Lives(mode)
             \/ Draws \/ Serves \/ \E app \in Other : Quits(app)
    BY <1>5, LifeKeeps
  <1>6. CASE UNCHANGED vars
    <2>1. UNCHANGED <<host, guest, session, left, presser, alert, boot, hangVars>>
      BY <1>6 DEF vars, inputVars, dialogVars
    <2> QED
      BY <2>1, PressersStay, WatchStays DEF Shared, InputTypeOK, DialogTypeOK, KeysFitTheDialog
  <1> QED
    BY <1>1, <1>2, <1>3, <1>4, <1>5, <1>6 DEF Next

\* The invariant of the watch and the dialogs, for every number of sessions, pictures, polls and
\* ticks: types, one emulator on a disk, keys that are for the dialog that was seen.
THEOREM WatchInvariant == Spec => []WatchInv
  <1>1. Init => WatchInv
    BY WatchInit
  <1>2. WatchInv /\ [Next]_vars => WatchInv'
    BY WatchNext
  <1> QED
    BY <1>1, <1>2, PTL DEF Spec

\* Whatever happens between the looks and at them: an emulator is stopped only if its process had
\* answered, if this look found it silent and one SILENT_S earlier found it silent at full load,
\* and if no look between them found it answering, resting or with another picture.
THEOREM KillsAreWarranted == Spec => []KillIsWarranted
  <1>1. WatchInv => KillIsWarranted
    BY DEF WatchInv
  <1> QED
    BY <1>1, WatchInvariant, PTL

-----------------------------------------------------------------------------
(* What is given back *)

\* A session that has brought the emulator to the front and will give the front back.
Owes(s) ==
    /\ session[s].pc \in {"settle", "gesture", "capture", "release", "exit"}
    /\ session[s].previous # Nobody

FrontIsOwed ==
    host.front = Emulator =>
        host.chosen = Emulator \/ host.kept \/ host.failed \/ \E s \in Session : Owes(s)

ButtonIsOwed ==
    host.button = "down" => host.failed \/ \E s \in Session : session[s].pc \in {"capture", "release"}

\* Who is about to make a gesture, undisturbed, has the emulator before it.
AimIsTrue ==
    \A s \in Session :
        session[s].pc \in {"settle", "gesture"} /\ ~session[s].disturbed => host.front = Emulator

\* What is given back is not the emulator, and who activates it has something to give back.
PreviousIsOther ==
    \A s \in Session :
        session[s].previous # Emulator /\ (session[s].pc = "activate" => session[s].previous # Nobody)

GivenInv ==
    /\ InputTypeOK
    /\ FrontIsOwed /\ ButtonIsOwed /\ AimIsTrue /\ PreviousIsOther /\ GesturesMeetTheGuest

\* A step of somebody who is no session: it may change what is in front, and then it disturbs
\* every session; and it puts the emulator there only on purpose.
Outside ==
    /\ host'.button = host.button /\ host'.failed = host.failed /\ host'.strayed = host.strayed
    /\ \/ session' = session /\ (host.front = Emulator => host'.front = Emulator)
       \/ session' = Disturbed({})
    /\ host'.front = Emulator =>
          \/ host'.kept \/ host'.chosen = Emulator
          \/ host.front = Emulator /\ host'.chosen = host.chosen /\ host'.kept = host.kept

\* One session took a step to pc, the others were disturbed or not.
StepOf(s, pc) ==
    /\ session'[s].pc = pc /\ session'[s].previous = session[s].previous
    /\ session'[s].disturbed = session[s].disturbed
    /\ \A t \in Session \ {s} : session'[t].pc = session[t].pc
                                /\ session'[t].previous = session[t].previous

Alike == \A t \in Session : session'[t].disturbed = session[t].disturbed
OthersDisturbed(s) == \A t \in Session \ {s} : session'[t].disturbed

\* What a step does to the sessions, in these terms.
LEMMA StepIs ==
    ASSUME session \in [Session -> SessionState], NEW s \in Session, NEW pc
    PROVE  /\ session' = Goes(s, pc) => StepOf(s, pc) /\ Alike
           /\ session' = [Disturbed({s}) EXCEPT ![s].pc = pc] => StepOf(s, pc) /\ OthersDisturbed(s)
  <1>1. \A t \in Session : session[t] \in SessionState
    OBVIOUS
  <1>2. ASSUME session' = Goes(s, pc)
        PROVE  StepOf(s, pc) /\ Alike
    <2>1. /\ session'[s] = [session[s] EXCEPT !.pc = pc]
          /\ \A t \in Session \ {s} : session'[t] = session[t]
      BY <1>2 DEF Goes
    <2>2. /\ session'[s].pc = pc /\ session'[s].previous = session[s].previous
          /\ session'[s].disturbed = session[s].disturbed
      BY <1>1, <2>1 DEF SessionState
    <2> QED
      BY <2>1, <2>2 DEF StepOf, Alike
  <1>3. ASSUME session' = [Disturbed({s}) EXCEPT ![s].pc = pc]
        PROVE  StepOf(s, pc) /\ OthersDisturbed(s)
    <2>1. /\ session'[s] = [session[s] EXCEPT !.pc = pc]
          /\ \A t \in Session \ {s} : session'[t] = [session[t] EXCEPT !.disturbed = TRUE]
      BY <1>3 DEF Disturbed
    <2>2. /\ session'[s].pc = pc /\ session'[s].previous = session[s].previous
          /\ session'[s].disturbed = session[s].disturbed
      BY <1>1, <2>1 DEF SessionState
    <2>3. ASSUME NEW t \in Session \ {s}
          PROVE  session'[t].disturbed /\ session'[t].pc = session[t].pc
                 /\ session'[t].previous = session[t].previous
      <3>1. session'[t] = [session[t] EXCEPT !.disturbed = TRUE] /\ session[t] \in SessionState
        BY <1>1, <2>1
      <3> QED
        BY <3>1 DEF SessionState
    <2> QED
      BY <2>2, <2>3 DEF StepOf, OthersDisturbed
  <1> QED
    BY <1>2, <1>3

\* All are disturbed.
LEMMA AllDisturbed ==
    ASSUME session \in [Session -> SessionState], session' = Disturbed({})
    PROVE  \A t \in Session : /\ session'[t].disturbed /\ session'[t].pc = session[t].pc
                              /\ session'[t].previous = session[t].previous
  <1> SUFFICES ASSUME NEW t \in Session
               PROVE  /\ session'[t].disturbed /\ session'[t].pc = session[t].pc
                      /\ session'[t].previous = session[t].previous
    OBVIOUS
  <1>1. session'[t] = [session[t] EXCEPT !.disturbed = TRUE] /\ session[t] \in SessionState
    BY DEF Disturbed
  <1> QED
    BY <1>1 DEF SessionState

\* What others do takes nothing from what is owed.
LEMMA OutsideKeeps ==
    ASSUME GivenInv, InputTypeOK', Outside
    PROVE  GivenInv'
  <1>1. session \in [Session -> SessionState]
    BY DEF GivenInv, InputTypeOK
  <1>2. \A t \in Session : /\ session'[t].pc = session[t].pc /\ session'[t].previous = session[t].previous
                           /\ session' = session \/ session'[t].disturbed
    BY <1>1, AllDisturbed DEF Outside
  <1>3. \A s \in Session : Owes(s)' <=> Owes(s)
    BY <1>2 DEF Owes
  <1>4. FrontIsOwed'
    BY <1>3 DEF Outside, GivenInv, FrontIsOwed
  <1>5. ButtonIsOwed'
    BY <1>2 DEF Outside, GivenInv, ButtonIsOwed
  <1>6. AimIsTrue'
    <2>1. CASE session' = session /\ (host.front = Emulator => host'.front = Emulator)
      BY <2>1 DEF GivenInv, AimIsTrue
    <2>2. CASE session' = Disturbed({})
      <3>1. \A t \in Session : session'[t].disturbed
        BY <1>1, <2>2, AllDisturbed
      <3> QED
        BY <3>1 DEF AimIsTrue
    <2> QED
      BY <2>1, <2>2 DEF Outside
  <1>7. PreviousIsOther'
    BY <1>2 DEF GivenInv, PreviousIsOther
  <1>8. GesturesMeetTheGuest'
    BY DEF Outside, GivenInv, GesturesMeetTheGuest
  <1> QED
    BY <1>4, <1>5, <1>6, <1>7, <1>8 DEF GivenInv

\* A step of session s, to pc, answers for the front: the emulator is there on purpose, or owed, or
\* as before.
FrontAnswered(s) ==
    host'.front = Emulator =>
        \/ host'.failed \/ host'.kept \/ Owes(s)'
        \/ /\ host.front = Emulator /\ ~Owes(s) /\ host'.chosen = host.chosen
           /\ host'.kept = host.kept /\ host'.failed = host.failed

\* So it does for the button.
ButtonAnswered(s, pc) ==
    host'.button = "down" =>
        \/ host'.failed \/ pc \in {"capture", "release"}
        \/ /\ host.button = "down" /\ session[s].pc \notin {"capture", "release"}
           /\ host'.failed = host.failed

\* Who is not disturbed by it still has before it what it had.
FrontSeen(s, pc) ==
    /\ \/ Alike /\ host'.front = host.front
       \/ OthersDisturbed(s)
    /\ pc \in {"settle", "gesture"} /\ ~session[s].disturbed => host'.front = Emulator

\* A session goes on: what it answers for is what is owed.
LEMMA StepKeeps ==
    ASSUME GivenInv, InputTypeOK', NEW s \in Session, NEW pc, StepOf(s, pc), pc # "activate",
           FrontSeen(s, pc), FrontAnswered(s), ButtonAnswered(s, pc), ~host'.strayed
    PROVE  GivenInv'
  <1>1. \A t \in Session \ {s} : Owes(t)' <=> Owes(t)
    BY DEF StepOf, Owes
  <1>2. FrontIsOwed'
    BY <1>1 DEF GivenInv, FrontIsOwed, FrontAnswered
  <1>3. ButtonIsOwed'
    BY DEF GivenInv, ButtonIsOwed, StepOf, ButtonAnswered
  <1>4. AimIsTrue'
    BY DEF GivenInv, AimIsTrue, StepOf, FrontSeen, Alike, OthersDisturbed
  <1>5. PreviousIsOther'
    BY DEF GivenInv, PreviousIsOther, StepOf
  <1> QED
    BY <1>2, <1>3, <1>4, <1>5 DEF GivenInv, GesturesMeetTheGuest

\* A session begins.
LEMMA EnterKeeps ==
    ASSUME GivenInv, InputTypeOK', NEW s \in Session, NEW kind, NEW keep, NEW activate,
           Enter(s, kind, keep, activate)
    PROVE  GivenInv'
  <1>1. host' = host /\ session \in [Session -> SessionState] /\ session[s].pc = "idle"
        /\ host.front \in App
    BY DEF Enter, GivenInv, InputTypeOK, HostState
  <1> DEFINE r == [pc |-> IF host.front = Emulator THEN "gesture" ELSE "activate",
                   kind |-> kind, keep |-> keep, disturbed |-> FALSE,
                   previous |-> IF host.front = Emulator THEN Nobody ELSE host.front]
  <1>2. session' = session \/ session' = [session EXCEPT ![s] = r]
    BY <1>1 DEF Enter
  <1>3. /\ r.pc = "gesture" => host.front = Emulator
        /\ r.pc \in {"gesture", "activate"}
        /\ r.previous # Emulator /\ (r.pc = "activate" => r.previous # Nobody)
    BY <1>1, InputAssumption
  <1> HIDE DEF r
  <1>4. CASE session' = session
    BY <1>1, <1>4 DEF GivenInv, FrontIsOwed, Owes, ButtonIsOwed, AimIsTrue, PreviousIsOther,
                      GesturesMeetTheGuest
  <1>5. CASE session' = [session EXCEPT ![s] = r]
    <2>1. session'[s] = r /\ \A t \in Session \ {s} : session'[t] = session[t]
      BY <1>1, <1>5
    <2>2. \A t \in Session : Owes(t) => t # s
      BY <1>1 DEF Owes
    <2>3. \A t \in Session : Owes(t) => Owes(t)'
      BY <2>1, <2>2 DEF Owes
    <2>4. FrontIsOwed'
      BY <1>1, <2>3 DEF GivenInv, FrontIsOwed
    <2>5. ButtonIsOwed'
      BY <1>1, <2>1 DEF GivenInv, ButtonIsOwed
    <2>6. AimIsTrue'
      BY <1>1, <1>3, <2>1 DEF GivenInv, AimIsTrue
    <2>7. PreviousIsOther'
      BY <1>3, <2>1 DEF GivenInv, PreviousIsOther
    <2> QED
      BY <1>1, <2>4, <2>5, <2>6, <2>7 DEF GivenInv, GesturesMeetTheGuest
  <1> QED
    BY <1>2, <1>4, <1>5

\* The history of the host after a gesture.
LEMMA LandsIs ==
    ASSUME GivenInv, NEW s \in Session, NEW button \in {"up", "down"}, NEW ok \in BOOLEAN,
           host' = Lands(s, button, ok), session[s].pc = "gesture"
    PROVE  /\ host'.front = host.front /\ host'.chosen = host.chosen /\ host'.kept = host.kept
           /\ host'.button = button /\ (~ok => host'.failed) /\ (ok => host'.failed = host.failed)
           /\ ~host'.strayed
  <1>1. host \in HostState /\ ~host.strayed /\ (session[s].disturbed \/ host.front = Emulator)
    BY DEF GivenInv, InputTypeOK, GesturesMeetTheGuest, AimIsTrue
  <1> DEFINE failed == host.failed \/ ~ok
             strayed == host.strayed \/ (host.front # Emulator /\ ~session[s].disturbed)
  <1>2. host' = [host EXCEPT !.button = button, !.failed = failed, !.strayed = strayed]
    BY DEF Lands
  <1>3. ~strayed /\ (~ok => failed)
    BY <1>1
  <1>4. ok => failed = host.failed
    BY <1>1 DEF HostState
  <1> HIDE DEF failed, strayed
  <1>5. /\ host'.front = host.front /\ host'.chosen = host.chosen /\ host'.kept = host.kept
        /\ host'.button = button
    BY <1>1, <1>2 DEF HostState
  <1>6. host'.failed = failed /\ host'.strayed = strayed
    BY <1>1, <1>2 DEF HostState
  <1>7. ~host'.strayed /\ (~ok => host'.failed)
    BY <1>3, <1>6
  <1>8. ok => host'.failed = host.failed
    BY <1>4, <1>6
  <1> QED
    BY <1>5, <1>7, <1>8

\* It brings the emulator forward, or gives up before.
LEMMA ActivateKeeps ==
    ASSUME GivenInv, InputTypeOK', NEW s \in Session, Activate(s)
    PROVE  GivenInv'
  <1>1. /\ session[s].pc = "activate" /\ session \in [Session -> SessionState] /\ host \in HostState
        /\ session[s].previous # Nobody
    BY DEF Activate, GivenInv, InputTypeOK, PreviousIsOther
  <1>2. ~Owes(s) /\ ~host.strayed
    BY <1>1 DEF Owes, GivenInv, GesturesMeetTheGuest
  <1>3. CASE session' = Goes(s, "idle") /\ host' = host
    <2>1. StepOf(s, "idle") /\ Alike
      BY <1>1, <1>3, StepIs
    <2>2. FrontSeen(s, "idle") /\ FrontAnswered(s) /\ ButtonAnswered(s, "idle")
      BY <1>1, <1>2, <1>3, <2>1 DEF FrontSeen, FrontAnswered, ButtonAnswered
    <2> QED
      BY <1>2, <1>3, <2>1, <2>2, StepKeeps
  <1>4. CASE /\ host' = [host EXCEPT !.front = Emulator]
             /\ session' = [Disturbed({s}) EXCEPT ![s].pc = "settle"]
    <2>1. StepOf(s, "settle") /\ OthersDisturbed(s)
      BY <1>1, <1>4, StepIs
    <2>2. /\ host'.front = Emulator /\ host'.button = host.button /\ host'.failed = host.failed
          /\ host'.strayed = host.strayed
      BY <1>1, <1>4 DEF HostState
    <2>3. Owes(s)'
      BY <1>1, <2>1 DEF StepOf, Owes
    <2>4. FrontSeen(s, "settle") /\ FrontAnswered(s)
      BY <2>1, <2>2, <2>3 DEF FrontSeen, FrontAnswered
    <2>5. ButtonAnswered(s, "settle")
      BY <1>1, <2>2 DEF ButtonAnswered
    <2>6. ~host'.strayed
      BY <1>2, <2>2
    <2> QED
      BY <2>1, <2>4, <2>5, <2>6, StepKeeps
  <1> QED
    BY <1>3, <1>4 DEF Activate

\* It waits for the window.
LEMMA SettleKeeps ==
    ASSUME GivenInv, InputTypeOK', NEW s \in Session, Settle(s)
    PROVE  GivenInv'
  <1>1. /\ session[s].pc = "settle" /\ session \in [Session -> SessionState] /\ host \in HostState
        /\ ~host.strayed
    BY DEF Settle, GivenInv, InputTypeOK, GesturesMeetTheGuest
  <1>2. PICK bad \in BOOLEAN : /\ session' = Goes(s, IF bad THEN "idle" ELSE "gesture")
                               /\ host' = [host EXCEPT !.failed = host.failed \/ bad]
    BY DEF Settle
  <1> DEFINE failed == host.failed \/ bad
  <1>3. (bad => failed) /\ (~bad => failed = host.failed)
    BY <1>1 DEF HostState
  <1>4. host' = [host EXCEPT !.failed = failed]
    BY <1>2
  <1> HIDE DEF failed
  <1>5. /\ host'.front = host.front /\ host'.button = host.button /\ host'.chosen = host.chosen
        /\ host'.kept = host.kept /\ host'.strayed = host.strayed /\ host'.failed = failed
    BY <1>1, <1>4 DEF HostState
  <1>6. ~host'.strayed
    BY <1>1, <1>5
  <1>7. CASE bad
    <2>1. StepOf(s, "idle") /\ Alike
      BY <1>1, <1>2, <1>7, StepIs
    <2>2. host'.failed
      BY <1>3, <1>5, <1>7
    <2>3. FrontSeen(s, "idle") /\ FrontAnswered(s) /\ ButtonAnswered(s, "idle")
      BY <1>5, <2>1, <2>2 DEF FrontSeen, FrontAnswered, ButtonAnswered
    <2> QED
      BY <1>6, <2>1, <2>3, StepKeeps
  <1>8. CASE ~bad
    <2>1. StepOf(s, "gesture") /\ Alike
      BY <1>1, <1>2, <1>8, StepIs
    <2>2. Owes(s) <=> Owes(s)'
      BY <1>1, <2>1 DEF Owes, StepOf
    <2>3. ~session[s].disturbed => host'.front = Emulator
      BY <1>1, <1>5 DEF GivenInv, AimIsTrue
    <2>4. host'.failed = host.failed
      BY <1>3, <1>5, <1>8
    <2>5. FrontSeen(s, "gesture")
      BY <1>5, <2>1, <2>3 DEF FrontSeen
    <2>6. FrontAnswered(s)
      BY <1>5, <2>2, <2>4 DEF FrontAnswered
    <2>7. ButtonAnswered(s, "gesture")
      BY <1>1, <1>5, <2>4 DEF ButtonAnswered
    <2> QED
      BY <1>6, <2>1, <2>5, <2>6, <2>7, StepKeeps
  <1> QED
    BY <1>7, <1>8

\* It clicks, or is refused.
LEMMA ClickKeeps ==
    ASSUME GivenInv, InputTypeOK', NEW s \in Session, Click(s)
    PROVE  GivenInv'
  <1>1. /\ session[s].pc = "gesture" /\ session \in [Session -> SessionState] /\ host \in HostState
        /\ ~host.strayed /\ session' = Goes(s, "exit")
    BY DEF Click, GivenInv, InputTypeOK, GesturesMeetTheGuest
  <1>2. StepOf(s, "exit") /\ Alike
    BY <1>1, StepIs
  <1>3. Owes(s) <=> Owes(s)'
    BY <1>1, <1>2 DEF Owes, StepOf
  <1>4. \/ host' = host
        \/ host' = Lands(s, "up", TRUE)
    BY DEF Click
  <1>5. /\ host'.front = host.front /\ host'.chosen = host.chosen /\ host'.kept = host.kept
        /\ host'.failed = host.failed /\ ~host'.strayed /\ host'.button \in {"up", host.button}
    <2>1. CASE host' = host
      BY <1>1, <2>1
    <2>2. CASE host' = Lands(s, "up", TRUE)
      <3>1. PICK ok \in BOOLEAN : ok /\ host' = Lands(s, "up", ok)
        BY <2>2
      <3> QED
        BY <1>1, <3>1, LandsIs
    <2> QED
      BY <1>4, <2>1, <2>2
  <1>6. FrontSeen(s, "exit") /\ FrontAnswered(s)
    BY <1>2, <1>3, <1>5 DEF FrontSeen, FrontAnswered
  <1>7. ButtonAnswered(s, "exit")
    BY <1>1, <1>5 DEF ButtonAnswered
  <1> QED
    BY <1>2, <1>5, <1>6, <1>7, StepKeeps

\* It holds the button down; a press that fails says so.
LEMMA PressKeeps ==
    ASSUME GivenInv, InputTypeOK', NEW s \in Session, Press(s)
    PROVE  GivenInv'
  <1>1. /\ session[s].pc = "gesture" /\ session \in [Session -> SessionState] /\ host \in HostState
    BY DEF Press, GivenInv, InputTypeOK
  <1>2. PICK bad \in BOOLEAN, button \in {host.button, "down"} :
            /\ host' = Lands(s, button, ~bad)
            /\ session' = Goes(s, IF bad THEN "exit" ELSE "capture")
    BY DEF Press
  <1>3. button \in {"up", "down"}
    BY <1>1 DEF HostState
  <1>4. /\ host'.front = host.front /\ host'.chosen = host.chosen /\ host'.kept = host.kept
        /\ (bad => host'.failed) /\ (~bad => host'.failed = host.failed) /\ ~host'.strayed
    <2>1. PICK ok \in BOOLEAN : ok = ~bad
      OBVIOUS
    <2> QED
      BY <1>1, <1>2, <1>3, <2>1, LandsIs
  <1>5. CASE bad
    <2>1. StepOf(s, "exit") /\ Alike
      BY <1>1, <1>2, <1>5, StepIs
    <2>2. FrontSeen(s, "exit") /\ FrontAnswered(s) /\ ButtonAnswered(s, "exit")
      BY <1>4, <1>5, <2>1 DEF FrontSeen, FrontAnswered, ButtonAnswered
    <2> QED
      BY <1>4, <2>1, <2>2, StepKeeps
  <1>6. CASE ~bad
    <2>1. StepOf(s, "capture") /\ Alike
      BY <1>1, <1>2, <1>6, StepIs
    <2>2. Owes(s) <=> Owes(s)'
      BY <1>1, <2>1 DEF Owes, StepOf
    <2>3. FrontSeen(s, "capture") /\ ButtonAnswered(s, "capture")
      BY <1>4, <2>1 DEF FrontSeen, ButtonAnswered
    <2>4. FrontAnswered(s)
      BY <1>4, <1>6, <2>2 DEF FrontAnswered
    <2> QED
      BY <1>4, <2>1, <2>3, <2>4, StepKeeps
  <1> QED
    BY <1>5, <1>6

\* It takes its picture, or does not.
LEMMA CaptureKeeps ==
    ASSUME GivenInv, InputTypeOK', NEW s \in Session, Capture(s)
    PROVE  GivenInv'
  <1>1. /\ session[s].pc = "capture" /\ session \in [Session -> SessionState] /\ ~host.strayed
        /\ session' = Goes(s, "release") /\ host' = host
    BY DEF Capture, GivenInv, InputTypeOK, GesturesMeetTheGuest
  <1>2. StepOf(s, "release") /\ Alike
    BY <1>1, StepIs
  <1>3. Owes(s) <=> Owes(s)'
    BY <1>1, <1>2 DEF Owes, StepOf
  <1>4. FrontSeen(s, "release") /\ FrontAnswered(s) /\ ButtonAnswered(s, "release")
    BY <1>1, <1>2, <1>3 DEF FrontSeen, FrontAnswered, ButtonAnswered
  <1> QED
    BY <1>1, <1>2, <1>4, StepKeeps

\* It lets the button go; a release that fails says so.
LEMMA ReleaseKeeps ==
    ASSUME GivenInv, InputTypeOK', NEW s \in Session, Release(s)
    PROVE  GivenInv'
  <1>1. /\ session[s].pc = "release" /\ session \in [Session -> SessionState] /\ host \in HostState
        /\ ~host.strayed /\ session' = Goes(s, "exit")
    BY DEF Release, GivenInv, InputTypeOK, GesturesMeetTheGuest
  <1>2. StepOf(s, "exit") /\ Alike
    BY <1>1, StepIs
  <1>3. Owes(s) <=> Owes(s)'
    BY <1>1, <1>2 DEF Owes, StepOf
  <1>4. \/ host' = [host EXCEPT !.failed = TRUE]
        \/ host' = [host EXCEPT !.button = "up"]
    BY DEF Release
  <1>5. /\ host'.front = host.front /\ host'.chosen = host.chosen /\ host'.kept = host.kept
        /\ ~host'.strayed
        /\ \/ host'.failed
           \/ host'.button = "up" /\ host'.failed = host.failed
    <2>1. CASE host' = [host EXCEPT !.failed = TRUE]
      <3>1. PICK failed \in BOOLEAN : failed /\ host' = [host EXCEPT !.failed = failed]
        BY <2>1
      <3> QED
        BY <1>1, <3>1 DEF HostState
    <2>2. CASE host' = [host EXCEPT !.button = "up"]
      BY <1>1, <2>2 DEF HostState
    <2> QED
      BY <1>4, <2>1, <2>2
  <1>6. FrontSeen(s, "exit")
    BY <1>2, <1>5 DEF FrontSeen
  <1>7. FrontAnswered(s)
    BY <1>3, <1>5 DEF FrontAnswered
  <1>8. ButtonAnswered(s, "exit")
    BY <1>5 DEF ButtonAnswered
  <1> QED
    BY <1>2, <1>5, <1>6, <1>7, <1>8, StepKeeps

\* It gives the front back, or was told to keep it, or fails and says so.
LEMMA ExitKeeps ==
    ASSUME GivenInv, InputTypeOK', NEW s \in Session, Exit(s)
    PROVE  GivenInv'
  <1> DEFINE back == session[s].previous
             give == back # Nobody /\ ~session[s].keep
  <1>1. /\ session[s].pc = "exit" /\ session \in [Session -> SessionState] /\ host \in HostState
        /\ ~host.strayed /\ back # Emulator
    BY DEF Exit, GivenInv, InputTypeOK, GesturesMeetTheGuest, PreviousIsOther
  <1>2. PICK bad \in BOOLEAN :
            /\ bad => give
            /\ host' = [host EXCEPT !.front = IF give /\ ~bad THEN back ELSE host.front,
                                    !.failed = host.failed \/ bad,
                                    !.kept = host.kept \/ (session[s].keep /\ back # Nobody)]
            /\ session' = [IF give THEN Disturbed({s}) ELSE session EXCEPT ![s].pc = "idle"]
    BY Zenon DEF Exit
  <1> DEFINE front == IF give /\ ~bad THEN back ELSE host.front
             failed == host.failed \/ bad
             kept == host.kept \/ (session[s].keep /\ back # Nobody)
  <1>3. (bad => failed) /\ (~bad => failed = host.failed)
    BY <1>1 DEF HostState
  <1>4. /\ session[s].keep /\ back # Nobody => kept
        /\ back = Nobody => kept = host.kept
    BY <1>1 DEF HostState
  <1>5. (give /\ ~bad => front # Emulator) /\ (~give => front = host.front)
    BY <1>1
  <1>6. host' = [host EXCEPT !.front = front, !.failed = failed, !.kept = kept]
    BY <1>2
  <1> HIDE DEF front, failed, kept
  <1>7. /\ host'.front = front /\ host'.button = host.button /\ host'.chosen = host.chosen
        /\ host'.strayed = host.strayed
    BY <1>1, <1>6 DEF HostState
  <1>8. host'.failed = failed /\ host'.kept = kept
    BY <1>1, <1>6 DEF HostState
  <1>9. StepOf(s, "idle") /\ FrontSeen(s, "idle")
    <2>1. CASE give
      BY <1>1, <1>2, <2>1, StepIs DEF FrontSeen
    <2>2. CASE ~give
      <3>1. StepOf(s, "idle") /\ Alike
        BY <1>1, <1>2, <2>2, StepIs DEF Goes
      <3> QED
        BY <1>5, <1>7, <2>2, <3>1 DEF FrontSeen
    <2> QED
      BY <2>1, <2>2
  <1>10. FrontAnswered(s)
    <2>1. CASE bad
      BY <1>3, <1>8, <2>1 DEF FrontAnswered
    <2>2. CASE ~bad /\ give
      BY <1>5, <1>7, <2>2 DEF FrontAnswered
    <2>3. CASE ~bad /\ back # Nobody /\ session[s].keep
      BY <1>4, <1>8, <2>3 DEF FrontAnswered
    <2>4. CASE ~bad /\ back = Nobody
      BY <1>3, <1>4, <1>5, <1>7, <1>8, <2>4 DEF FrontAnswered, Owes
    <2> QED
      BY <2>1, <2>2, <2>3, <2>4
  <1>11. ButtonAnswered(s, "idle")
    BY <1>1, <1>3, <1>7, <1>8 DEF ButtonAnswered
  <1>12. ~host'.strayed
    BY <1>1, <1>7
  <1> QED
    BY <1>9, <1>10, <1>11, <1>12, StepKeeps

\* No step of a session takes something that it does not answer for.
LEMMA GestureKeeps ==
    ASSUME GivenInv, InputTypeOK', NEW s \in Session, Gesture(s)
    PROVE  GivenInv'
  BY EnterKeeps, ActivateKeeps, SettleKeeps, ClickKeeps, PressKeeps, CaptureKeeps, ReleaseKeeps,
     ExitKeeps DEF Gesture

\* A step that leaves the front, the button and the sessions alone.
LEMMA AloneIsOutside ==
    ASSUME host' = host, session' = session
    PROVE  Outside
  BY DEF Outside

\* The emulator comes to the front on purpose.
LEMMA ForwardIsOutside ==
    ASSUME host \in HostState, host' = [host EXCEPT !.front = Emulator, !.kept = TRUE],
           session' = Disturbed({}) \/ session' = session
    PROVE  Outside
  <1>1. PICK kept \in BOOLEAN : kept /\ host' = [host EXCEPT !.front = Emulator, !.kept = kept]
    BY Zenon
  <1>2. /\ host'.front = Emulator /\ host'.button = host.button /\ host'.failed = host.failed
        /\ host'.strayed = host.strayed /\ host'.kept
    BY <1>1 DEF HostState
  <1> QED
    BY <1>2 DEF Outside

\* The emulator goes, and something else is in front.
LEMMA GoneIsOutside ==
    ASSUME host \in HostState, NEW app \in Other, Gone(app)
    PROVE  Outside
  <1>1. CASE host.front = Emulator
    <2>1. host' = [host EXCEPT !.front = app] /\ session' = Disturbed({})
      BY <1>1 DEF Gone
    <2>2. /\ host'.front # Emulator /\ host'.button = host.button /\ host'.failed = host.failed
          /\ host'.strayed = host.strayed
      BY <2>1 DEF HostState, Other
    <2> QED
      BY <2>1, <2>2 DEF Outside
  <1>2. CASE host.front # Emulator
    BY <1>2, AloneIsOutside DEF Gone
  <1> QED
    BY <1>1, <1>2

\* The person chooses.
LEMMA ChooseIsOutside ==
    ASSUME host \in HostState, NEW app \in App, Choose(app)
    PROVE  Outside
  <1>1. host' = [host EXCEPT !.front = app, !.chosen = app] /\ session' = Disturbed({})
    BY DEF Choose
  <1>2. /\ host'.front = app /\ host'.chosen = app /\ host'.button = host.button
        /\ host'.failed = host.failed /\ host'.strayed = host.strayed
    BY <1>1 DEF HostState
  <1> QED
    BY <1>1, <1>2 DEF Outside

\* The programs that answer dialogs take the front and do not give it back.
LEMMA DialogIsOutside ==
    ASSUME host \in HostState, DialogNext
    PROVE  Outside
  <1>1. CASE \E p \in Presser : Focus(p)
    <2>1. PICK p \in Presser : Focus(p)
      BY <1>1
    <2>2. \/ UNCHANGED <<host, session>>
          \/ /\ host' = [host EXCEPT !.front = Emulator, !.kept = TRUE]
             /\ session' = IF host.front = Emulator THEN session ELSE Disturbed({})
      BY <2>1 DEF Focus
    <2> QED
      BY <2>2, AloneIsOutside, ForwardIsOutside
  <1>2. CASE \E p \in Presser : PressKey(p)
    BY <1>2, AloneIsOutside DEF PressKey
  <1>3. CASE \E d \in Dialog : Turns(d)
    BY <1>3, AloneIsOutside DEF Turns
  <1>4. CASE WatchLooks \/ WatchAsks \/ BootBegins
    BY <1>4, AloneIsOutside DEF WatchLooks, WatchAsks, BootBegins
  <1>5. CASE BootLooks
    BY <1>5, AloneIsOutside DEF BootLooks
  <1>6. CASE BootAsks
    BY <1>6, AloneIsOutside DEF BootAsks
  <1> QED
    BY <1>1, <1>2, <1>3, <1>4, <1>5, <1>6 DEF DialogNext

\* The watch replaces an emulator: what was in front goes, and the new one comes to the front.
LEMMA WatchIsOutside ==
    ASSUME host \in HostState, WatchStep
    PROVE  Outside
  <1>1. CASE (\E ticks \in 1..SilentTicks : Wake(ticks)) \/ ReadPid \/ AskBridge \/ Judge
    <2>1. CASE \E ticks \in 1..SilentTicks : Wake(ticks)
      BY <2>1, AloneIsOutside DEF Wake, Elsewhere
    <2>2. ASSUME ReadPid \/ AskBridge PROVE UNCHANGED Elsewhere
      BY <2>2, Zenon DEF ReadPid, AskBridge
    <2>3. ASSUME Judge PROVE UNCHANGED Elsewhere
      BY <2>3, Zenon DEF Judge
    <2> QED
      BY <1>1, <2>1, <2>2, <2>3, AloneIsOutside DEF Elsewhere
  <1>2. CASE NotOpened \/ BootOver \/ Back
    BY <1>2, AloneIsOutside DEF NotOpened, BootOver, Back, Elsewhere
  <1>3. CASE Kill
    <2>1. Stays \/ \E app \in Other : Gone(app)
      BY <1>3 DEF Kill
    <2> QED
      BY <2>1, AloneIsOutside, GoneIsOutside DEF Stays
  <1>4. CASE Wait
    <2>1. Stays \/ \E app \in Other : Gone(app)
      BY <1>4 DEF Wait
    <2> QED
      BY <2>1, AloneIsOutside, GoneIsOutside DEF Stays
  <1>5. CASE Open
    <2>1. host' = [host EXCEPT !.front = Emulator, !.kept = TRUE] /\ session' = Disturbed({})
      BY <1>5 DEF Open
    <2> QED
      BY <2>1, ForwardIsOutside
  <1> QED
    BY <1>1, <1>2, <1>3, <1>4, <1>5 DEF WatchStep

\* At the start no session owes anything.
LEMMA GivenInit == Init => GivenInv
  <1> SUFFICES ASSUME Init PROVE GivenInv
    OBVIOUS
  <1>1. InputTypeOK
    BY WatchInit DEF WatchInv, TypeOK
  <1>2. \A s \in Session : session[s] = [pc |-> "idle", kind |-> "click", keep |-> FALSE,
                                         previous |-> Nobody, disturbed |-> FALSE]
    BY DEF Init, InputInit
  <1>3. \A s \in Session : session[s].pc = "idle" /\ session[s].previous = Nobody
    BY <1>2
  <1>4. /\ host.front = host.chosen /\ host.button = "up" /\ ~host.strayed
    BY DEF Init, InputInit
  <1>5. PreviousIsOther
    BY <1>3, InputAssumption DEF PreviousIsOther
  <1> QED
    BY <1>1, <1>3, <1>4, <1>5 DEF GivenInv, FrontIsOwed, ButtonIsOwed, AimIsTrue, GesturesMeetTheGuest

\* Every step keeps what is owed.
LEMMA GivenNext ==
    ASSUME GivenInv, InputTypeOK', [Next]_vars
    PROVE  GivenInv'
  <1>1. host \in HostState
    BY DEF GivenInv, InputTypeOK
  <1>2. CASE \E s \in Session : Gesture(s)
    BY <1>2, GestureKeeps
  <1>3. ASSUME Outside PROVE GivenInv'
    BY <1>3, OutsideKeeps
  <1>4. CASE \E app \in App : Choose(app)
    BY <1>1, <1>3, <1>4, ChooseIsOutside
  <1>5. CASE WatchStep
    BY <1>1, <1>3, <1>5, WatchIsOutside
  <1>6. CASE DialogNext
    BY <1>1, <1>3, <1>6, DialogIsOutside
  <1>7. CASE Starts
    <2>1. host' = [host EXCEPT !.front = Emulator, !.kept = TRUE] /\ session' = Disturbed({})
      BY <1>7 DEF Starts, Came
    <2> QED
      BY <1>1, <1>3, <2>1, ForwardIsOutside
  <1>8. CASE \E app \in Other : Quits(app)
    <2>1. \E app \in Other : Gone(app)
      BY <1>8 DEF Quits
    <2> QED
      BY <1>1, <1>3, <2>1, GoneIsOutside
  <1>9. CASE (\E mode \in {"well", "work", "hung"} : Lives(mode)) \/ Draws \/ Serves
    BY <1>3, <1>9, AloneIsOutside DEF Lives, Draws, Serves
  <1>10. CASE UNCHANGED vars
    BY <1>3, <1>10, AloneIsOutside DEF vars, inputVars
  <1> QED
    BY <1>2, <1>4, <1>5, <1>6, <1>7, <1>8, <1>9, <1>10 DEF Next, InputStep, InputNext

\* However many sessions overlap, with one another, the person at the machine, the programs that
\* answer dialogs and a restart: the front and the mouse button are given back, unless on purpose
\* or after a step that failed, and no gesture meets another application undisturbed.
THEOREM HostGivenBack == Spec => []HostIsGivenBack
  <1> DEFINE Both == WatchInv /\ GivenInv
  <1>1. Init => Both
    BY WatchInit, GivenInit
  <1>2. Both /\ [Next]_vars => Both'
    <2> SUFFICES ASSUME WatchInv, GivenInv, [Next]_vars PROVE WatchInv' /\ GivenInv'
      OBVIOUS
    <2>1. WatchInv'
      BY WatchNext
    <2>2. InputTypeOK'
      BY <2>1 DEF WatchInv, TypeOK
    <2> QED
      BY <2>1, <2>2, GivenNext
  <1>3. Both => HostIsGivenBack
    <2> SUFFICES ASSUME GivenInv PROVE HostIsGivenBack
      OBVIOUS
    <2>1. AtRest => \A s \in Session : ~Owes(s) /\ session[s].pc \notin {"capture", "release"}
      BY DEF AtRest, Owes
    <2>2. FrontIsGivenBack
      BY <2>1 DEF GivenInv, FrontIsOwed, FrontIsGivenBack
    <2>3. ButtonIsReleased
      BY <2>1 DEF GivenInv, ButtonIsOwed, ButtonIsReleased
    <2> QED
      BY <2>2, <2>3 DEF GivenInv, HostIsGivenBack
  <1> QED
    BY <1>1, <1>2, <1>3, PTL DEF Spec

=============================================================================
