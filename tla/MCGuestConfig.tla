---------------------------- MODULE MCGuestConfig ----------------------------
(* Small instances of GuestConfig. *)
EXTENDS GuestConfig

CONSTANTS home, tool    \* model values

MCAddr == {home}
MCApp  == {tool}

\* A machine with both network stacks and one with neither.
MCMachines == {[ot |-> TRUE, mactcp |-> TRUE], [ot |-> FALSE, mactcp |-> FALSE]}

=============================================================================
