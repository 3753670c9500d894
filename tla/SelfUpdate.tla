----------------------------- MODULE SelfUpdate -----------------------------
(***************************************************************************)
(* How the daemon is replaced on the guest: WRITEFILE puts a binary beside *)
(* it, SwapSelf of mac/src/fileio.c renames the running daemon aside and   *)
(* the binary into its place, and mac/watchdog/watchdog.c launches what    *)
(* bears the daemon's name whenever no daemon runs.  A folder is a record; *)
(* its steps are operators, which GuestTools takes at a guest that agents  *)
(* share.                                                                  *)
(***************************************************************************)
EXTENDS Integers

\* What is in a file: nothing, for there is none; what a transfer that broke has left; a
\* daemon from before the model begins, or one staged since.
Binary == {"none", "part", "before", "since"}
Whole  == {"before", "since"}

Folder ==
    [live : Binary, next : Binary, last : Binary,   \* "<name>", "<name> new", "<name> old"
     up : {"live", "last", "gone"},     \* which of them the daemon that runs is
     mishap : BOOLEAN]  \* history: a swap was broken off, or its binary was spoiled before it

Folders0 ==
    {[live |-> "before", next |-> next, last |-> last, up |-> "live", mishap |-> FALSE] :
        next \in {"none", "before"}, last \in {"none", "before"}}

-----------------------------------------------------------------------------

\* The daemon looks for what is named like itself: one that was renamed finds nothing.
Staged(f) == f.up = "live" /\ f.next # "none"

\* The first rename, after the backup of an earlier swap was deleted.
Aside(f) == [f EXCEPT !.last = f.live, !.live = "none", !.up = "last"]

\* The second.
Swapped(f) == [Aside(f) EXCEPT !.live = f.next, !.next = "none"]

\* Mutant: a second rename that fails is reported, and not rolled back.
SwapSelf_NoRollback(f, bad) ==
    IF ~Staged(f) THEN {f}
    ELSE CASE bad = 0 -> {Swapped(f)}
           [] bad = 1 -> {f, Aside(f)}
           [] OTHER   -> {[Aside(f) EXCEPT !.mishap = TRUE]}

\* SwapSelf(): the folders it may leave if bad of its steps fail.  A backup that cannot be
\* deleted is in the way of the first rename; a second rename that fails is rolled back.
SwapSelf(f, bad) ==
    IF ~Staged(f) THEN {f}
    ELSE CASE bad = 0 -> {Swapped(f)}
           [] bad = 1 -> {f, [f EXCEPT !.last = "none"]}
           [] OTHER   -> {[Aside(f) EXCEPT !.mishap = TRUE]}

\* The machine stops somewhere in it, and runs no daemon.
CutShort(f) ==
    {[g EXCEPT !.up = "gone"] :
        g \in {f} \union IF Staged(f)
                         THEN {[f EXCEPT !.last = "none"], [Aside(f) EXCEPT !.mishap = TRUE], Swapped(f)}
                         ELSE {}}

\* WRITEFILE deletes what was there, and leaves what it has written when it breaks off.
Broken(f) == {f, [f EXCEPT !.next = "none"], [f EXCEPT !.next = "part"]}

Exits(f) == [f EXCEPT !.up = "gone"]

\* The watchdog, every three seconds; what is not a daemon does not start.
Launches(f) == IF f.up = "gone" /\ f.live \in Whole THEN [f EXCEPT !.up = "live"] ELSE f

-----------------------------------------------------------------------------
(* Properties *)

\* Whatever fails, and wherever the machine stops, a whole daemon is left in the folder, under
\* its name or as the backup; and under its name, where the watchdog finds it, unless a swap
\* was broken off between its renames, its rollback failed, or another agent's broken transfer
\* spoiled the binary between staging and swap.
DaemonStays(f) ==
    /\ f.live \in Whole \/ f.last \in Whole
    /\ f.live \in Whole \/ f.mishap

=============================================================================
