----------------------------- MODULE GuestInput -----------------------------
(***************************************************************************)
(* host/guest_input.py: gestures with the real mouse of the machine the    *)
(* emulator runs on.  A session looks which application is in front,       *)
(* brings the emulator forward, makes its gesture and gives the front      *)
(* back; sessions run side by side (agents, command lines) and with the    *)
(* person at the machine.                                                  *)
(***************************************************************************)
EXTENDS Integers, FiniteSetsExt

CONSTANTS
    Session,        \* processes that make gestures
    App,            \* applications of the host
    Emulator,       \* one of them, in whose window the guest is
    Supply          \* bounds on what happens, of which the model takes one

\* Gestures; what persons do; steps that fail; looks of dialog_watch, runs of guest_boot
\* and whether hang_watch runs; launches of the emulator; changes of its picture.  The last
\* is not used up: whether hang_watch is told which bundle to launch.
Bounded ==
    [{"gestures", "events", "faults", "looks", "boots", "watches", "starts", "draws", "bundle"} -> Nat]

Nobody == "nobody"      \* no application

ASSUME InputAssumption ==
    /\ Emulator \in App /\ Nobody \notin App
    /\ \E app \in App : app # Emulator
    /\ Supply \subseteq Bounded /\ Supply # {}

VARIABLES
    host,       \* the front application and the mouse button
    guest,      \* the emulator, as far as the host's tools see it
    session,
    left        \* what is left of the bounds

inputVars == <<host, guest, session, left>>

Off == 0                \* no emulator process

Dialog == {"none", "login", "interrupted", "conflict", "trash", "unknown"}

HostState ==
    [front : App, button : {"up", "down"},
     chosen : App,          \* history: what the person put in front last
     kept : BOOLEAN,        \* history: the emulator was left in front on purpose
     failed : BOOLEAN,      \* history: a step failed that gives front or button back
     strayed : BOOLEAN]     \* history: a gesture met another application

SessionState ==
    [pc : {"idle", "activate", "settle", "gesture", "capture", "release", "exit"},
     kind : {"click", "menushot"}, keep : BOOLEAN, previous : App \union {Nobody},
     disturbed : BOOLEAN]   \* history: somebody else changed the front meanwhile

InputTypeOK ==
    /\ host \in HostState
    /\ session \in [Session -> SessionState]
    /\ left \in Bounded

InputInit ==
    /\ \E app \in App :
        host = [front |-> app, button |-> "up", chosen |-> app,
                kept |-> FALSE, failed |-> FALSE, strayed |-> FALSE]
    /\ session = [s \in Session |-> [pc |-> "idle", kind |-> "click", keep |-> FALSE,
                                     previous |-> Nobody, disturbed |-> FALSE]]
    /\ left \in Supply

-----------------------------------------------------------------------------

May(what) == left[what] > 0
Takes(what) == left' = [left EXCEPT ![what] = @ - 1]

\* A step fails or not.
Fails(bad) == IF bad THEN May("faults") /\ Takes("faults") ELSE UNCHANGED left

\* Somebody who is not in Except changed what is in front.
Disturbed(Except) ==
    [s \in Session |-> IF s \in Except THEN session[s] ELSE [session[s] EXCEPT !.disturbed = TRUE]]

Goes(s, pc) == [session EXCEPT ![s].pc = pc]

\* Session.__init__() and __enter__(): without an emulator there is no session, and one
\* that may not activate refuses when another application is in front.
Enter(s, kind, keep, activate) ==
    /\ session[s].pc = "idle" /\ May("gestures") /\ Takes("gestures")
    /\ session' = [session EXCEPT ![s] =
          IF guest.pid = Off \/ (host.front # Emulator /\ ~activate) THEN @
          ELSE [pc |-> IF host.front = Emulator THEN "gesture" ELSE "activate",
                kind |-> kind, keep |-> keep, disturbed |-> FALSE,
                previous |-> IF host.front = Emulator THEN Nobody ELSE host.front]]
    /\ UNCHANGED <<host, guest>>

\* Mutant: the emulator is not brought forward.
Activate_Skipped(s) ==
    /\ session[s].pc = "activate"
    /\ session' = Goes(s, "settle")
    /\ UNCHANGED <<host, guest, left>>

\* What fails in here is not followed by __exit__().
Activate(s) ==
    /\ session[s].pc = "activate"
    /\ \E bad \in BOOLEAN :
        /\ Fails(bad)
        /\ IF bad \/ guest.pid = Off
           THEN session' = Goes(s, "idle") /\ UNCHANGED host
           ELSE /\ host' = [host EXCEPT !.front = Emulator]
                /\ session' = [Disturbed({s}) EXCEPT ![s].pc = "settle"]
    /\ UNCHANGED guest

Settle(s) ==
    /\ session[s].pc = "settle"
    /\ \E bad \in BOOLEAN :
        /\ Fails(bad)
        /\ session' = Goes(s, IF bad THEN "idle" ELSE "gesture")
        /\ host' = [host EXCEPT !.failed = @ \/ bad]
    /\ UNCHANGED guest

Lands(s, button, ok) ==
    [host EXCEPT !.button = button, !.failed = @ \/ ~ok,
                 !.strayed = @ \/ (host.front # Emulator /\ ~session[s].disturbed)]

\* A click or a menu gesture is pressed and released in one call.  A point outside
\* the guest's screen is refused, and the front given back.
Click(s) ==
    /\ session[s].pc = "gesture" /\ session[s].kind = "click"
    /\ \E inside, bad \in BOOLEAN :
        /\ Fails(bad)
        /\ host' = IF ~inside \/ bad THEN host ELSE Lands(s, "up", TRUE)
    /\ session' = Goes(s, "exit")
    /\ UNCHANGED guest

\* hold_and_capture(): a press that fails, before or after the button went down, is
\* not followed by the release.
Press(s) ==
    /\ session[s].pc = "gesture" /\ session[s].kind = "menushot"
    /\ \E bad \in BOOLEAN, button \in {host.button, "down"} :
        /\ Fails(bad)
        /\ bad \/ button = "down"
        /\ host' = Lands(s, button, ~bad)
        /\ session' = Goes(s, IF bad THEN "exit" ELSE "capture")
    /\ UNCHANGED guest

\* Mutant: the release follows a capture that succeeded.
Capture_NoFinally(s) ==
    /\ session[s].pc = "capture"
    /\ \E bad \in BOOLEAN :
        /\ Fails(bad)
        /\ session' = Goes(s, IF bad THEN "exit" ELSE "release")
    /\ UNCHANGED <<host, guest>>

Capture(s) ==
    /\ session[s].pc = "capture"
    /\ \E bad \in BOOLEAN : Fails(bad)
    /\ session' = Goes(s, "release")
    /\ UNCHANGED <<host, guest>>

Release(s) ==
    /\ session[s].pc = "release"
    /\ \E bad \in BOOLEAN :
        /\ Fails(bad)
        /\ host' = IF bad THEN [host EXCEPT !.failed = TRUE] ELSE [host EXCEPT !.button = "up"]
    /\ session' = Goes(s, "exit")
    /\ UNCHANGED guest

\* Mutant: what was in front is remembered and given back although it was the emulator.
Exit_ToEmulator(s) ==
    /\ session[s].pc = "exit"
    /\ LET back == IF session[s].previous = Nobody THEN Emulator ELSE session[s].previous IN
       /\ host' = [host EXCEPT !.front = IF session[s].keep THEN @ ELSE back]
       /\ session' = [Disturbed({s}) EXCEPT ![s].pc = "idle"]
    /\ UNCHANGED <<guest, left>>

Exit(s) ==
    /\ session[s].pc = "exit"
    /\ LET back == session[s].previous
           give == back # Nobody /\ ~session[s].keep
       IN  \E bad \in BOOLEAN :
           /\ Fails(bad) /\ (bad => give)
           /\ host' = [host EXCEPT !.front = IF give /\ ~bad THEN back ELSE @,
                                   !.failed = @ \/ bad,
                                   !.kept = @ \/ (session[s].keep /\ back # Nobody)]
           /\ session' = [IF give THEN Disturbed({s}) ELSE session EXCEPT ![s].pc = "idle"]
    /\ UNCHANGED guest

\* The person at the machine chooses an application (the front command does so too).
Choose(app) ==
    /\ May("events") /\ Takes("events") /\ app # host.front
    /\ app = Emulator => guest.pid # Off
    /\ host' = [host EXCEPT !.front = app, !.chosen = app]
    /\ session' = Disturbed({})
    /\ UNCHANGED guest

Gesture(s) ==
    \/ \E kind \in {"click", "menushot"}, keep, activate \in BOOLEAN : Enter(s, kind, keep, activate)
    \/ Activate(s) \/ Settle(s) \/ Click(s) \/ Press(s) \/ Capture(s) \/ Release(s) \/ Exit(s)

InputNext ==
    \/ \E s \in Session : Gesture(s)
    \/ \E app \in App : Choose(app)

-----------------------------------------------------------------------------
(* Properties *)

AtRest == \A s \in Session : session[s].pc = "idle"

\* However sessions overlap, and whatever they find in front, once they are over the
\* emulator is in front only where the person put it, unless a session was told to keep
\* it there or a step failed that would have given it back.
FrontIsGivenBack ==
    AtRest /\ host.front = Emulator => host.chosen = Emulator \/ host.kept \/ host.failed

\* The mouse button is up when the sessions are over: a menu that was held open for a
\* picture is let go although the picture failed.  Only a press or a release that
\* itself fails leaves it down.
ButtonIsReleased == AtRest /\ host.button = "down" => host.failed

\* A gesture meets another application only if somebody else changed the front during
\* the session.
GesturesMeetTheGuest == ~host.strayed

=============================================================================
