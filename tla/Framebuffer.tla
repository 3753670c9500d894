---------------------------- MODULE Framebuffer ----------------------------
(***************************************************************************)
(* What request_screenshot promises its caller: one picture, if any, of    *)
(* what the region asked for showed at one moment between the request and  *)
(* the answer.                                                             *)
(***************************************************************************)
EXTENDS Display

CONSTANTS NoRegion, NoPicture    \* null values

VARIABLES
    screen,     \* what the Macintosh shows
    asked,      \* the region asked for
    snap,       \* what it showed when it was looked at
    shot        \* the last answer

vars == <<screen, asked, snap, shot>>

Init ==
    /\ screen \in Screen
    /\ asked = NoRegion /\ snap = NoPicture /\ shot = NoPicture

Draw ==
    /\ screen' \in Screen
    /\ UNCHANGED <<asked, snap, shot>>

Ask ==
    /\ asked = NoRegion
    /\ asked' \in Region
    /\ shot' = NoPicture
    /\ UNCHANGED <<screen, snap>>

Look ==
    /\ asked # NoRegion /\ snap = NoPicture
    /\ OnScreen(screen.mode, asked)
    /\ snap' = Crop(screen, asked)
    /\ UNCHANGED <<screen, asked, shot>>

Answer ==
    /\ asked # NoRegion
    /\ asked' = NoRegion /\ snap' = NoPicture
    /\ shot' \in {snap, NoPicture}
    /\ UNCHANGED screen

Next == Draw \/ Ask \/ Look \/ Answer

Spec == Init /\ [][Next]_vars

=============================================================================
