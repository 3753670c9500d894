---------------------------- MODULE MCBridgeLink ----------------------------
(* Model values and symmetry for TLC. *)
EXTENDS BridgeLink, TLC

CONSTANTS c1, c2, i1, i2

MCConn2 == {c1, c2}
MCId2   == {i1, i2}

MCSym22 == Permutations(MCConn2) \union Permutations(MCId2)

MCCommand  == {"CMD"}
MCLog      == {"LOG"}
MCTransfer == {"PUT"}
MCFile     == {"GET"}
MCAllKinds == {"CMD", "PUT", "GET", "LOG", "SHOT1", "SHOT2"}

=============================================================================
