---------------------------- MODULE MCScreenDelta ----------------------------
(* Small instances of ScreenDelta. *)
EXTENDS ScreenDelta, TLC

CONSTANTS tall, short, padded    \* model values

\* Two geometries whose rows are packed and one whose rows are padded.
MCModes    == {tall, short, padded}
MCTwoModes == {tall, short}
MCOneMode  == {padded}
MCRows     == tall :> 2 @@ short :> 1 @@ padded :> 1
MCTwoRows  == tall :> 2 @@ short :> 1
MCOneRow   == padded :> 1
MCSlack    == {padded}
MCNoSlack  == {}

=============================================================================
