---------------------------- MODULE MCGuestTools ----------------------------
(***************************************************************************)
(* Two agents with one guest; one of them also knows a guest elsewhere.    *)
(***************************************************************************)
EXTENDS GuestTools

CONSTANTS c1, c2

MCClient == {c1, c2}
MCRemote == {c2}
MCItems  == {1, 2}

Plan(tools, calls, mishaps) == [tools |-> tools, calls |-> calls, faults |-> mishaps]

\* What shares state meets, and a restart meets what it interrupts; updates and restarts may
\* follow one another.
MCPlans ==
    {Plan({"type", "verb"}, 1, 2), Plan({"menu", "reboot"}, 1, 1), Plan({"https", "reboot"}, 1, 1),
     Plan({"event", "list"}, 1, 2), Plan({"update", "reboot"}, 2, 2)}

=============================================================================
