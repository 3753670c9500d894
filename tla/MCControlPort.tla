--------------------------- MODULE MCControlPort ---------------------------
(* Small instances of ControlPort. *)
EXTENDS ControlPort

CONSTANTS c1, c2    \* model values

Ask(verb, wait, blank, token) == [verb |-> verb, wait |-> wait, blank |-> blank, token |-> token]

MCClients == {c1, c2}

\* Each way to fail, to give up and to be refused; a verb per kind of outcome.
MCRequests ==
    {Ask("HOSTMENU", 1, FALSE, TRUE), Ask("send_raw", 1, FALSE, TRUE),
     Ask("send_command", 0, TRUE, TRUE), Ask("MACSTATUS", 0, FALSE, FALSE),
     Ask("PROBE", 0, FALSE, FALSE)}

=============================================================================
