-------------------------- MODULE MCSessionChannel --------------------------
(* Small instances of SessionChannel. *)
EXTENDS SessionChannel

CONSTANTS s1, s2, s3, here, there   \* model values

\* One of three sessions reaches the file over ssh, and has a clock of its own.
MCSessions == {s1, s2, s3}
MCRemote   == {s2}
MCHosts    == {here, there}
MCHostOf   == [s \in MCSessions |-> IF s \in MCRemote THEN there ELSE here]
MCWatched  == {s1, s2}
MCAddressees == {All, s1}

\* A question and its answer: the channel may be rotated, and the question answered again.
MCEarlier == << [ts |-> 1, from |-> s1, to |-> All, kind |-> "question", re |-> 0],
                [ts |-> 2, from |-> s3, to |-> s1, kind |-> "answer", re |-> 1] >>

=============================================================================
