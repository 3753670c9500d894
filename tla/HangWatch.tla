----------------------------- MODULE HangWatch ------------------------------
(***************************************************************************)
(* host/hang_watch.py: stops and restarts a guest that hangs.  A look asks *)
(* for the process, the bridge, the load and the screen, one after the     *)
(* other; HangJudge decides on looks alone.  The watch shares the guest    *)
(* with the sessions of GuestInput and the programs of GuestDialogs, the   *)
(* second of which it runs after a restart.                                *)
(***************************************************************************)
EXTENDS GuestDialogs

CONSTANTS
    Frame,          \* pictures of the guest's screen
    SilentTicks     \* SILENT_S; a tick is the shortest time between two looks

ASSUME HangAssumption == SilentTicks \in Nat \ {0} /\ Frame # {}

VARIABLES
    judge,      \* the HangJudge
    watch,      \* where the watch is, and what it has seen in this look
    bridge,     \* whether there is a host server
    past        \* history

hangVars == <<judge, watch, bridge, past>>
vars == <<inputVars, dialogVars, hangVars>>

NoFrame == "unreadable"
Never   == -1       \* no window is open

Pid == Nat \ {Off}
Age == 0..SilentTicks               \* the rest is as long as SilentTicks
Seen == Frame \union {NoFrame}

GuestState ==
    [pid : Nat, mode : {"boot", "well", "work", "hung"},
     dialog : Dialog, mounted : BOOLEAN, screen : Frame]

JudgeState == [pid : Nat, armed : BOOLEAN, since : Age \union {Never}, frame : Seen]

WatchState ==
    [pc : {"sleep", "pid", "ask", "judge", "say", "wait", "open", "boot", "back"},
     pid : Nat, answered : {"yes", "no", "refused"}]

\* How long ago a look first found the process of the last look silent at full load, with no
\* look since that found it answering, resting or drawing; whether it had answered since the
\* last kill, its picture in this time; and for OneEmulator: whether a second emulator was
\* started although the watch had no reason to think that it may.
PastState ==
    [lifeless : Age \union {Never}, heard : BOOLEAN, shown : Seen, twins : BOOLEAN, misled : BOOLEAN]

TypeOK ==
    /\ InputTypeOK /\ DialogTypeOK
    /\ guest \in GuestState
    /\ judge \in JudgeState
    /\ watch \in WatchState
    /\ bridge \in BOOLEAN
    /\ past \in PastState

Init ==
    /\ InputInit /\ DialogInit
    /\ \E mode \in {"boot", "well"} :
        guest = [pid |-> 1 + left.starts, mode |-> mode, dialog |-> "none", mounted |-> mode = "well",
                 screen |-> CHOOSE f \in Frame : TRUE]
    /\ judge = [pid |-> Off, armed |-> FALSE, since |-> Never, frame |-> NoFrame]
    /\ watch = [pc |-> "sleep", pid |-> Off, answered |-> "no"]
    /\ bridge = TRUE
    /\ past = [lifeless |-> Never, heard |-> FALSE, shown |-> NoFrame, twins |-> FALSE, misled |-> FALSE]

-----------------------------------------------------------------------------
(* HangJudge *)

Later(age, ticks) == IF age + ticks > SilentTicks THEN SilentTicks ELSE age + ticks

Verdict(v, j) == [verdict |-> v, judge |-> j]

\* Mutant: a look at an idle emulator leaves the window open.
Observe_IdleForgotten(j0, pid, answered, busy, frame) ==
    LET j == IF pid = j0.pid THEN j0
             ELSE [pid |-> pid, armed |-> FALSE, since |-> Never, frame |-> NoFrame]
        moved == frame # NoFrame /\ j.frame # NoFrame /\ frame # j.frame
        k == [j EXCEPT !.frame = IF frame = NoFrame THEN @ ELSE frame,
                       !.since = IF @ = Never THEN 0 ELSE @]
    IN  IF pid = Off THEN Verdict("quiet", j)
        ELSE IF answered = "yes"
        THEN Verdict("ok", [j EXCEPT !.armed = TRUE, !.since = Never, !.frame = NoFrame])
        ELSE IF ~j.armed THEN Verdict("booting", j)
        ELSE IF answered = "refused" THEN Verdict("quiet", j)
        ELSE IF ~busy THEN Verdict("quiet", j)
        ELSE IF moved THEN Verdict("quiet", [j EXCEPT !.since = Never, !.frame = frame])
        ELSE IF k.since >= SilentTicks
        THEN Verdict("kill", [k EXCEPT !.armed = FALSE, !.since = Never])
        ELSE Verdict("silent", k)

\* Mutant: every silent look opens the window anew.
Observe_Reopened(j0, pid, answered, busy, frame) ==
    LET j == IF pid = j0.pid THEN j0
             ELSE [pid |-> pid, armed |-> FALSE, since |-> Never, frame |-> NoFrame]
        moved == frame # NoFrame /\ j.frame # NoFrame /\ frame # j.frame
        k == [j EXCEPT !.frame = IF frame = NoFrame THEN @ ELSE frame,
                       !.since = 0]
    IN  IF pid = Off THEN Verdict("quiet", j)
        ELSE IF answered = "yes"
        THEN Verdict("ok", [j EXCEPT !.armed = TRUE, !.since = Never, !.frame = NoFrame])
        ELSE IF ~j.armed THEN Verdict("booting", j)
        ELSE IF answered = "refused" THEN Verdict("quiet", j)
        ELSE IF ~busy THEN Verdict("quiet", [j EXCEPT !.since = Never])
        ELSE IF moved THEN Verdict("quiet", [j EXCEPT !.since = Never, !.frame = frame])
        ELSE IF k.since >= SilentTicks
        THEN Verdict("kill", [k EXCEPT !.armed = FALSE, !.since = Never])
        ELSE Verdict("silent", k)

\* HangJudge.observe(): what it says of one look, and the judge after it.
Observe(j0, pid, answered, busy, frame) ==
    LET j == IF pid = j0.pid THEN j0
             ELSE [pid |-> pid, armed |-> FALSE, since |-> Never, frame |-> NoFrame]
        moved == frame # NoFrame /\ j.frame # NoFrame /\ frame # j.frame
        k == [j EXCEPT !.frame = IF frame = NoFrame THEN @ ELSE frame,
                       !.since = IF @ = Never THEN 0 ELSE @]
    IN  IF pid = Off THEN Verdict("quiet", j)
        ELSE IF answered = "yes"
        THEN Verdict("ok", [j EXCEPT !.armed = TRUE, !.since = Never, !.frame = NoFrame])
        ELSE IF ~j.armed THEN Verdict("booting", j)
        ELSE IF answered = "refused" THEN Verdict("quiet", j)
        ELSE IF ~busy THEN Verdict("quiet", [j EXCEPT !.since = Never])
        ELSE IF moved THEN Verdict("quiet", [j EXCEPT !.since = Never, !.frame = frame])
        ELSE IF k.since >= SilentTicks
        THEN Verdict("kill", [k EXCEPT !.armed = FALSE, !.since = Never])
        ELSE Verdict("silent", k)

-----------------------------------------------------------------------------
(* A look *)

Steps(pc) == watch' = [watch EXCEPT !.pc = pc]

Elsewhere == <<host, guest, session, presser, alert, boot, bridge>>

\* time.sleep(INTERVAL), and however long the last look took.
Wake(ticks) ==
    /\ watch.pc = "sleep" /\ May("watches") /\ Steps("pid")
    /\ judge' = [judge EXCEPT !.since = IF @ = Never THEN @ ELSE Later(@, ticks)]
    /\ past' = [past EXCEPT !.lifeless = IF @ = Never THEN @ ELSE Later(@, ticks)]
    /\ UNCHANGED Elsewhere /\ UNCHANGED left

\* emulator_pid(): what fails says that there is none.
ReadPid ==
    /\ watch.pc = "pid"
    /\ \E bad \in BOOLEAN :
        /\ Fails(bad)
        /\ LET pid == IF bad THEN Off ELSE guest.pid IN
           watch' = [pc |-> IF pid = Off THEN "judge" ELSE "ask", pid |-> pid, answered |-> "refused"]
    /\ UNCHANGED Elsewhere /\ UNCHANGED <<judge, past>>

\* bridge_answers(): a host server that is not there refuses; a guest that is slow, or
\* a request that is lost, is silent.
Asked == IF ~bridge THEN "refused" ELSE IF Answers THEN "yes" ELSE "no"

AskBridge ==
    /\ watch.pc = "ask"
    /\ \E bad \in BOOLEAN :
        /\ Fails(bad)
        /\ watch' = [watch EXCEPT !.pc = "judge",
                                  !.answered = IF bad /\ Asked = "yes" THEN "no" ELSE Asked]
    /\ UNCHANGED Elsewhere /\ UNCHANGED <<judge, past>>

\* The load and the screen, and the verdict on them.
Judge ==
    /\ watch.pc = "judge"
    /\ \E bad \in BOOLEAN, frame \in {guest.screen, NoFrame} :
        /\ Fails(bad)
        /\ watch.answered # "no" => frame = NoFrame
        /\ LET answered == watch.answered
               busy == ~bad /\ Busy /\ guest.pid = watch.pid
               o == Observe(judge, watch.pid, answered, busy, frame)
               other == watch.pid # judge.pid
               alive == \/ other \/ watch.pid = Off \/ answered = "yes"
                        \/ answered = "no" /\ ~busy
               moved == frame # NoFrame /\ past.shown # NoFrame /\ frame # past.shown
           IN  /\ judge' = o.judge
               /\ Steps(IF o.verdict = "kill" THEN "say" ELSE "sleep")
               /\ past' = [past EXCEPT
                     !.lifeless = IF alive \/ moved THEN Never
                                  ELSE IF @ = Never /\ answered = "no" THEN 0 ELSE @,
                     !.shown = IF alive THEN NoFrame
                               ELSE IF frame = NoFrame \/ ~judge.armed THEN @ ELSE frame,
                     !.heard = answered = "yes" \/ (@ /\ ~other),
                     !.misled = FALSE]
    /\ UNCHANGED Elsewhere

-----------------------------------------------------------------------------
(* restart() *)

\* The emulator goes, with what is on its screen, and something else comes to the front.
Gone(app) ==
    /\ guest' = [guest EXCEPT !.pid = Off, !.dialog = "none"]
    /\ host' = IF host.front = Emulator THEN [host EXCEPT !.front = app] ELSE host
    /\ session' = IF host.front = Emulator THEN Disturbed({}) ELSE session
    /\ presser' = Blinded({})

\* A process id that was not used before: they are counted down.
Fresh == left.starts

Came(pid) ==
    /\ guest' = [guest EXCEPT !.pid = pid, !.mode = "boot", !.dialog = "none", !.mounted = FALSE]
    /\ host' = [host EXCEPT !.front = Emulator, !.kept = TRUE]
    /\ session' = Disturbed({})
    /\ presser' = Blinded({})

Other == App \ {Emulator}
Stays == UNCHANGED <<host, guest, session, presser>>

\* kill: it may take a while to work, or raise, which ends the restart.
Kill ==
    /\ watch.pc = "say"
    /\ \E bad \in BOOLEAN :
        /\ Fails(bad)
        /\ IF bad THEN Steps("sleep") /\ Stays /\ UNCHANGED past
           ELSE /\ Steps("wait")
                /\ past' = [past EXCEPT !.heard = FALSE]
                /\ \/ Stays
                   \/ guest.pid = watch.pid /\ \E app \in Other : Gone(app)
    /\ UNCHANGED <<alert, boot, judge, bridge>>

\* Mutant: it waits for the end of the process, and does not enforce it.
Wait_TermOnly ==
    /\ watch.pc = "wait" /\ Steps("open")
    /\ Stays
    /\ UNCHANGED <<left, alert, boot, judge, bridge, past>>

\* Ten looks at the process; then it is killed.  A look that fails sees it gone.
Wait ==
    /\ watch.pc = "wait" /\ Steps("open")
    /\ \/ guest.pid # watch.pid /\ Stays /\ UNCHANGED <<left, past>>
       \/ Fails(TRUE) /\ Stays /\ past' = [past EXCEPT !.misled = TRUE]
       \/ guest.pid = watch.pid /\ (\E app \in Other : Gone(app)) /\ UNCHANGED <<left, past>>
    /\ UNCHANGED <<alert, boot, judge, bridge>>

\* Without a bundle the emulator stays down, and the watch goes on.
NotOpened ==
    /\ watch.pc = "open" /\ ~May("bundle") /\ Steps("sleep")
    /\ UNCHANGED Elsewhere /\ UNCHANGED <<left, judge, past>>

\* open launches the bundle, or shows the emulator that runs; what is started in its
\* stead does not look.
Open ==
    /\ watch.pc = "open" /\ May("bundle") /\ Steps("boot")
    /\ May("starts")
    /\ \E bad \in BOOLEAN :
        /\ IF ~bad /\ guest.pid # Off
           THEN /\ host' = [host EXCEPT !.front = Emulator, !.kept = TRUE]
                /\ session' = Disturbed({}) /\ presser' = [presser EXCEPT !["boot"].pc = "look"]
                /\ UNCHANGED <<guest, left, past>>
           ELSE /\ bad => May("faults")
                /\ left' = [left EXCEPT !.starts = @ - 1, !.faults = IF bad THEN @ - 1 ELSE @]
                /\ guest' = [guest EXCEPT !.pid = Fresh, !.mode = "boot",
                                          !.dialog = "none", !.mounted = FALSE]
                /\ host' = [host EXCEPT !.front = Emulator, !.kept = TRUE]
                /\ session' = Disturbed({})
                /\ presser' = [Blinded({}) EXCEPT !["boot"].pc = "look"]
                /\ past' = [past EXCEPT !.twins = @ \/ (guest.pid # Off /\ ~past.misled)]
    /\ boot' = Begun
    /\ UNCHANGED <<alert, judge, bridge>>

\* guest_boot is over.
BootOver ==
    /\ watch.pc = "boot" /\ presser["boot"].pc = "idle"
    /\ Steps("back")
    /\ UNCHANGED Elsewhere /\ UNCHANGED <<left, judge, past>>

\* The answer decides what is said, and whether a hang flag is cleared.
Back ==
    /\ watch.pc = "back" /\ Steps("sleep")
    /\ UNCHANGED Elsewhere /\ UNCHANGED <<left, judge, past>>

-----------------------------------------------------------------------------
(* What happens to the guest *)

\* It comes up, works without a pause, hangs, or is done; it draws where it is alive.
Lives(mode) ==
    /\ May("events") /\ Takes("events")
    /\ guest.pid # Off /\ guest.dialog = "none" /\ mode # guest.mode /\ mode # "boot"
    /\ guest.mode = "boot" => mode = "well"
    /\ \E mounted \in {guest.mounted, guest.mode = "boot"} :
       guest' = [guest EXCEPT !.mode = mode, !.mounted = mounted]
    /\ UNCHANGED <<host, session, dialogVars, hangVars>>

Draws ==
    /\ May("draws") /\ Takes("draws")
    /\ guest.pid # Off /\ guest.mode # "hung"
    /\ \E f \in Frame : f # guest.screen /\ guest' = [guest EXCEPT !.screen = f]
    /\ UNCHANGED <<host, session, dialogVars, hangVars>>

\* A person quits the emulator or starts it.
Quits(app) ==
    /\ May("events") /\ Takes("events") /\ guest.pid # Off
    /\ Gone(app)
    /\ UNCHANGED <<alert, boot, hangVars>>

Starts ==
    /\ guest.pid = Off /\ May("starts") /\ Takes("starts")
    /\ Came(Fresh)
    /\ past' = [past EXCEPT !.misled = TRUE]
    /\ UNCHANGED <<alert, boot, judge, watch, bridge>>

Serves ==
    /\ May("faults") /\ Takes("faults")
    /\ bridge' = ~bridge
    /\ UNCHANGED <<host, guest, session, dialogVars, judge, watch, past>>

-----------------------------------------------------------------------------

WatchStep ==
    \/ \E ticks \in 1..SilentTicks : Wake(ticks)
    \/ ReadPid \/ AskBridge \/ Judge
    \/ Kill \/ Wait \/ NotOpened \/ Open \/ BootOver \/ Back

BootStep ==
    /\ BootLooks \/ BootAsks \/ Focus("boot") \/ PressKey("boot")
    /\ UNCHANGED hangVars

\* A front that changes is a front the programs that type have lost.
InputStep ==
    /\ InputNext
    /\ presser' = IF host'.front = host.front THEN presser ELSE Blinded({})
    /\ UNCHANGED <<alert, boot, hangVars>>

Next ==
    \/ WatchStep \/ InputStep
    \/ DialogNext /\ UNCHANGED hangVars
    \/ \E mode \in {"well", "work", "hung"} : Lives(mode)
    \/ Draws \/ Starts \/ Serves
    \/ \E app \in Other : Quits(app)

\* The two programs go on; nothing is asked of the guest, the persons and the sessions.
Spec == Init /\ [][Next]_vars /\ WF_vars(WatchStep) /\ WF_vars(BootStep)

-----------------------------------------------------------------------------
(* Properties *)

\* An emulator is stopped only if its process had answered since it started and since
\* the last kill, if the bridge asked and got no answer in the look that decides, and if a
\* look at least SILENT_S before this one found it silent at full load while no look
\* between the two found it answering, resting or with another picture: a guest that boots,
\* waits in a dialog, works at its screen or is slow in one look is left alone, whatever
\* happens between the looks.  Looks that the host server refuses are no sign of life and
\* their time counts, unlike what the head of the program says of them.
KillIsWarranted ==
    watch.pc = "say" => /\ past.heard /\ watch.answered = "no" /\ past.lifeless = SilentTicks
                        /\ watch.pid = judge.pid /\ watch.pid # Off

\* A restart never leaves two emulators on one disk, unless a look that failed made the
\* watch think that the first was gone, or a person started one meanwhile.
OneEmulator == ~past.twins

\* A guest that hangs after the judge has heard of it is stopped in the end, if it does
\* not recover, the host server is there and no step of the watch fails.
HungIsStopped ==
    \A n \in 0..Max({l.faults : l \in Supply}) :
        watch.pc = "sleep" /\ guest.pid = judge.pid /\ judge.armed /\ guest.mode = "hung"
            /\ bridge /\ left.faults = n /\ May("watches")
            ~> guest.mode # "hung" \/ guest.pid = Off \/ left.faults # n \/ ~bridge

\* What the judge remembers agrees with what the looks have shown: it is armed for a process
\* that has answered, and its window is open no longer than the silence lasts.
JudgeIsTrue ==
    /\ judge.armed => past.heard /\ judge.pid # Off
    /\ judge.since # Never => judge.armed /\ past.lifeless # Never /\ judge.since <= past.lifeless
    /\ past.shown \in {NoFrame, judge.frame}
    /\ watch.pc = "say" => ~judge.armed
    /\ watch.pc = "ask" => watch.pid # Off
    /\ watch.pc = "judge" /\ watch.answered # "refused" => watch.pid # Off

\* While the watch replaces an emulator, no other has come that it does not know of.
OnlyOne ==
    /\ watch.pc \in {"say", "wait"} => guest.pid \in {Off, watch.pid} \/ past.misled
    /\ watch.pc = "open" => guest.pid = Off \/ past.misled

\* A program that types has a dialog before it that it has seen and that its key is for.
KeyFor == {<<"interrupted", "return">>, <<"trash", "escape">>, <<"login", "password">>}

Meant(k, g, h) ==
    ~k.blind => /\ k.pc \in {"focus", "press"} => k.seen = g.dialog /\ <<k.seen, k.key>> \in KeyFor
                /\ k.pc = "press" => h.front = Emulator /\ g.pid # Off

KeysAreMeant == \A p \in Presser : Meant(presser[p], guest, host)

\* The invariant of the watch and the dialogs.  Neither a restart nor a key makes things worse:
\* there is one emulator on a disk, and keys are for the dialog that was seen.
WatchInv ==
    /\ TypeOK
    /\ JudgeIsTrue /\ KillIsWarranted
    /\ OnlyOne /\ OneEmulator
    /\ KeysAreMeant /\ KeysFitTheDialog

\* The host is given back as it was: its front and its mouse button; and while they are taken,
\* they are used on the guest.
HostIsGivenBack == FrontIsGivenBack /\ ButtonIsReleased /\ GesturesMeetTheGuest

=============================================================================
