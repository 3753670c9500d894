---------------------------- MODULE MCGuestBuild ----------------------------
(* Two agents on one project of one source, of whose versions 1 and 3       *)
(* compile.  One compiles and builds, the other writes, runs command lines  *)
(* and restarts ToolServer in between.                                      *)
EXTENDS GuestBuild

CONSTANTS a1, a2, s1, k1, k2, o1, o2

MCAgent   == {a1, a2}
MCSource  == {s1}
MCGood    == {1, 3}
MCBuilds  == (a1 :> 2) @@ (a2 :> 0)
MCKey     == {k1, k2}
MCOutcome == {o1, o2}

=============================================================================
