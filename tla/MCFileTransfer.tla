--------------------------- MODULE MCFileTransfer ---------------------------
(* Small instances of FileTransfer. *)
EXTENDS FileTransfer, TLC

CONSTANTS p1, p2, g1    \* model values

MCPuts  == {p1, p2}
MCGets  == {g1}
MCNone  == {}

\* p1 has both forks, p2 only a data fork.
MCData == p1 :> 2 @@ p2 :> 1
MCRsrc == p1 :> 1 @@ p2 :> 0

MCAllFailures == {"memory", "header", "size", "create", "openData", "openRsrc"}
MCOpenFailure == {"openRsrc"}
MCCreateFailure == {"create"}

=============================================================================
