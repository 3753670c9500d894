---------------------------- MODULE GuestDialogs ----------------------------
(***************************************************************************)
(* The two programs that answer the guest's dialogs from the host:         *)
(* host/dialog_watch.py, which runs for ever, and host/guest_boot.py,      *)
(* which takes a guest from its launch to the desktop.  Each looks at the  *)
(* framebuffer, then brings the emulator to the front and types, with      *)
(* 0.6 s in between; they share the guest, and the front of the host with  *)
(* the sessions of GuestInput.                                             *)
(***************************************************************************)
EXTENDS GuestInput

CONSTANTS
    MaxPolls        \* bound on the rounds of guest_boot within its timeout

ASSUME PollAssumption == MaxPolls \in Nat \ {0}

VARIABLES
    presser,    \* the two programs
    alert,      \* what dialog_watch remembers from look to look
    boot        \* what guest_boot counts, and its result

dialogVars == <<presser, alert, boot>>

Presser == {"watch", "boot"}

Key == {"return", "escape", "password"}

PresserState ==
    [pc : {"idle", "look", "focus", "press", "ask"}, key : Key, seen : Dialog,
     blind : BOOLEAN]       \* history: the front or the dialog changed since it looked

DialogTypeOK ==
    /\ presser \in [Presser -> PresserState]
    /\ alert \in [silent : 0..3, of : {"nothing", "login", "conflict", "unknown"}]
    /\ boot \in [typed : 0..2, polls : 0..MaxPolls, result : {"none", "ready", "person", "timeout"},
                 harm : SUBSET {"trash", "password", "unread"}]     \* history: of keys not blind

DialogInit ==
    /\ presser = [p \in Presser |-> [pc |-> IF p = "watch" THEN "look" ELSE "idle",
                                     key |-> "return", seen |-> "none", blind |-> FALSE]]
    /\ alert = [silent |-> 0, of |-> "nothing"]
    /\ boot = [typed |-> 0, polls |-> 0, result |-> "none", harm |-> {}]

-----------------------------------------------------------------------------

\* A dialog stops the daemon and leaves the emulator at rest.
Answers == guest.pid # Off /\ guest.mode = "well" /\ guest.dialog = "none"

Busy == guest.pid # Off /\ guest.mode # "well" /\ guest.dialog = "none"

\* The volumes that are expected are mounted once the AppleShare login is through.
ReadyNow == Answers /\ guest.mounted

\* All but Except have lost sight of what they saw.
Blinded(Except) ==
    [p \in Presser |-> IF p \in Except THEN presser[p] ELSE [presser[p] EXCEPT !.blind = TRUE]]

\* The frame, and the dialog in it; no frame is like none.
Saw(p, d) == [presser EXCEPT ![p].seen = d, ![p].blind = FALSE]
Types(p, d, key) == [presser EXCEPT ![p].seen = d, ![p].blind = FALSE, ![p].key = key, ![p].pc = "focus"]

\* Mutant: the first button is right for every alert.
WatchLooks_Return ==
    /\ presser["watch"].pc = "look" /\ May("looks") /\ Takes("looks")
    /\ LET d == guest.dialog IN
       IF d \in {"interrupted", "trash"}
       THEN presser' = Types("watch", d, "return") /\ UNCHANGED alert
       ELSE IF d \in {"login", "conflict"}
       THEN alert' = [alert EXCEPT !.of = d] /\ UNCHANGED presser
       ELSE presser' = [Saw("watch", d) EXCEPT !["watch"].pc = "ask"] /\ UNCHANGED alert
    /\ UNCHANGED <<host, guest, session, boot>>

\* dialog_watch: two alerts it answers, two it announces, once.
WatchLooks ==
    /\ presser["watch"].pc = "look" /\ May("looks") /\ Takes("looks")
    /\ \E d \in {guest.dialog, "none"} :
       IF d \in {"interrupted", "trash"}
       THEN /\ presser' = Types("watch", d, IF d = "trash" THEN "escape" ELSE "return")
            /\ UNCHANGED alert
       ELSE IF d \in {"login", "conflict"}
       THEN alert' = [alert EXCEPT !.of = d] /\ UNCHANGED presser
       ELSE presser' = [Saw("watch", d) EXCEPT !["watch"].pc = "ask"] /\ UNCHANGED alert
    /\ UNCHANGED <<host, guest, session, boot>>

\* It announces a dialog it does not know when the bridge was silent three times and
\* the emulator is at rest.
WatchAsks ==
    /\ presser["watch"].pc = "ask"
    /\ \E frame \in BOOLEAN :
       LET silent == IF alert.silent = 3 THEN 3 ELSE alert.silent + 1 IN
       alert' = IF Answers THEN [silent |-> 0, of |-> "nothing"]
                ELSE [silent |-> silent,
                      of |-> IF silent = 3 /\ frame /\ guest.pid # Off /\ ~Busy
                             THEN "unknown" ELSE alert.of]
    /\ presser' = [presser EXCEPT !["watch"].pc = "look"]
    /\ UNCHANGED <<host, guest, session, left, boot>>

BootEnds(result) ==
    /\ presser' = [presser EXCEPT !["boot"].pc = "idle"]
    /\ boot' = [boot EXCEPT !.result = result]

Begun == [boot EXCEPT !.polls = MaxPolls, !.typed = 0, !.result = "none"]

\* A person runs it; hang_watch does so after a restart.
BootBegins ==
    /\ presser["boot"].pc = "idle" /\ May("boots") /\ Takes("boots")
    /\ presser' = [presser EXCEPT !["boot"].pc = "look"]
    /\ boot' = Begun
    /\ UNCHANGED <<host, guest, session, alert>>

\* Mutant: the password is typed as long as the login is there.
BootLooks_Again ==
    /\ presser["boot"].pc = "look"
    /\ \E frame, secret \in BOOLEAN :
        LET d == guest.dialog IN
        /\ secret \/ d = "login"
        /\ IF boot.polls = 0 THEN BootEnds("timeout")
           ELSE IF ~frame
           THEN boot' = [boot EXCEPT !.polls = @ - 1] /\ UNCHANGED presser
           ELSE IF d = "conflict" \/ (d = "login" /\ ~secret)
           THEN BootEnds("person")
           ELSE IF d \in {"login", "interrupted"}
           THEN /\ presser' = Types("boot", d, IF d = "login" THEN "password" ELSE "return")
                /\ boot' = [boot EXCEPT !.polls = @ - 1, !.typed = IF d = "login" THEN @ + 1 ELSE @]
           ELSE /\ presser' = [Saw("boot", d) EXCEPT !["boot"].pc = "ask"]
                /\ boot' = [boot EXCEPT !.polls = @ - 1]
    /\ UNCHANGED <<host, guest, session, left, alert>>

\* A round of guest_boot: a dialog it answers, one it leaves to a person, or none that
\* it knows; then it asks the bridge.  A round without a frame is over.
BootLooks ==
    /\ presser["boot"].pc = "look"
    /\ \E frame, secret \in BOOLEAN :
        LET d == guest.dialog IN
        /\ secret \/ d = "login"
        /\ IF boot.polls = 0 THEN BootEnds("timeout")
           ELSE IF ~frame
           THEN boot' = [boot EXCEPT !.polls = @ - 1] /\ UNCHANGED presser
           ELSE IF d = "conflict" \/ (d = "login" /\ (~secret \/ boot.typed = 2))
           THEN BootEnds("person")
           ELSE IF d \in {"login", "interrupted"}
           THEN /\ presser' = Types("boot", d, IF d = "login" THEN "password" ELSE "return")
                /\ boot' = [boot EXCEPT !.polls = @ - 1, !.typed = IF d = "login" THEN @ + 1 ELSE @]
           ELSE /\ presser' = [Saw("boot", d) EXCEPT !["boot"].pc = "ask"]
                /\ boot' = [boot EXCEPT !.polls = @ - 1]
    /\ UNCHANGED <<host, guest, session, left, alert>>

\* The bridge and the volumes; volumes that stay away are a person's business.
BootAsks ==
    /\ presser["boot"].pc = "ask"
    /\ \/ ReadyNow /\ BootEnds("ready")
       \/ Answers /\ ~guest.mounted /\ BootEnds("person")
       \/ /\ ~ReadyNow
          /\ presser' = [presser EXCEPT !["boot"].pc = "look"]
          /\ UNCHANGED boot
    /\ UNCHANGED <<host, guest, session, left, alert>>

\* Mutant: the keys go to whatever is in front.
Focus_Skipped(p) ==
    /\ presser[p].pc = "focus"
    /\ presser' = [presser EXCEPT ![p].pc = "press"]
    /\ UNCHANGED <<host, guest, session, left, alert, boot>>

\* keys(): without an emulator the script ends here.  Nobody gives the front back.
Focus(p) ==
    /\ presser[p].pc = "focus"
    /\ IF guest.pid = Off
       THEN presser' = [presser EXCEPT ![p].pc = "look"] /\ UNCHANGED <<host, session>>
       ELSE /\ host' = [host EXCEPT !.front = Emulator, !.kept = TRUE]
            /\ session' = IF host.front = Emulator THEN session ELSE Disturbed({})
            /\ presser' = [presser EXCEPT ![p].pc = "press"]
    /\ UNCHANGED <<guest, left, alert, boot>>

\* What the key does to dialog d: the dialog after it, and the harm.
Struck(d, key) ==
    CASE d = "login" -> IF key = "password" THEN [to |-> {"none", d}, harm |-> {}]
                        ELSE [to |-> {"none"}, harm |-> {"unread"}]
      [] d = "trash" -> IF key = "escape" THEN [to |-> {"none"}, harm |-> {}]
                        ELSE [to |-> {"none"}, harm |-> {"trash"}]
      [] d = "conflict" -> [to |-> {"none"}, harm |-> {"unread"}]
      [] OTHER -> [to |-> IF key = "escape" THEN {d} ELSE {"none"},
                   harm |-> IF key = "password" THEN {"password"} ELSE {}]

PressKey(p) ==
    /\ presser[p].pc = "press"
    /\ LET key == presser[p].key
           hit == Struck(guest.dialog, key)
           there == host.front = Emulator /\ guest.pid # Off
           harm == IF there THEN hit.harm ELSE IF key = "password" THEN {"password"} ELSE {}
       IN  /\ \E d \in hit.to :
              guest' = IF ~there THEN guest
                       ELSE [guest EXCEPT !.dialog = d,
                                          !.mounted = @ \/ (guest.dialog = "login" /\ d = "none"
                                                            /\ key = "password")]
           /\ boot' = [boot EXCEPT !.harm = IF presser[p].blind THEN @ ELSE @ \union harm]
    /\ presser' = [(IF guest' = guest THEN presser ELSE Blinded({p})) EXCEPT ![p].pc = "look"]
    /\ UNCHANGED <<host, session, left, alert>>

\* A person closes the dialog, or something in the guest opens one.
Turns(d) ==
    /\ May("events") /\ Takes("events")
    /\ guest.pid # Off /\ guest.mode \in {"boot", "well"} /\ d # guest.dialog
    /\ d = "none" \/ guest.dialog = "none"
    /\ guest' = [guest EXCEPT !.dialog = d]
    /\ presser' = Blinded({})
    /\ UNCHANGED <<host, session, alert, boot>>

DialogNext ==
    \/ WatchLooks \/ WatchAsks \/ BootBegins \/ BootLooks \/ BootAsks
    \/ \E p \in Presser : Focus(p) \/ PressKey(p)
    \/ \E d \in Dialog : Turns(d)

-----------------------------------------------------------------------------
(* Properties *)

\* A key answers the dialog that was seen: Empty Trash is never confirmed, the password
\* is typed only to the login, and nothing that a person must read is dismissed, unless
\* the dialog or the front of the host changed after the look.
KeysFitTheDialog == boot.harm = {}

=============================================================================
