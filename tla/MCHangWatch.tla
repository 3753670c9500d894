---------------------------- MODULE MCHangWatch -----------------------------
(***************************************************************************)
(* One guest, one other application, two sessions.  The bounds are taken   *)
(* from one of the supplies: four are for the watch (the third with a host *)
(* server that comes and goes, the fourth without a bundle to launch),     *)
(* three for the dialogs, three for the gestures.                          *)
(***************************************************************************)
EXTENDS HangWatch

CONSTANTS s1, s2, emulator, browser, f1, f2

MCSession == {s1, s2}
MCApp     == {emulator, browser}
MCFrame   == {f1, f2}
None == [what \in {"gestures", "events", "faults", "looks", "boots", "watches", "starts", "draws",
                   "bundle"} |-> 0]

MCSupply ==
    {[None EXCEPT !.watches = 1, !.bundle = 1, !.starts = 1, !.events = 3, !.draws = 1],
     [None EXCEPT !.watches = 1, !.bundle = 1, !.starts = 1, !.events = 2, !.faults = 1, !.draws = 1],
     [None EXCEPT !.watches = 1, !.bundle = 1, !.starts = 1, !.events = 1, !.faults = 2],
     [None EXCEPT !.watches = 1, !.starts = 1, !.events = 2],
     [None EXCEPT !.looks = 2, !.boots = 1, !.events = 1],
     [None EXCEPT !.looks = 1, !.events = 1, !.gestures = 1],
     [None EXCEPT !.boots = 1, !.events = 1, !.gestures = 1],
     [None EXCEPT !.gestures = 2, !.events = 1],
     [None EXCEPT !.gestures = 2, !.faults = 1],
     [None EXCEPT !.gestures = 1, !.events = 1, !.faults = 1]}

=============================================================================
