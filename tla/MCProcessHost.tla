--------------------------- MODULE MCProcessHost ---------------------------
(***************************************************************************)
(* Instances of ProcessHost: one program that is read and one that tells,  *)
(* of two plugins, or two that are read beside one that tells.             *)
(***************************************************************************)
EXTENDS ProcessHost

CONSTANTS read1, read2, tell, plugin1, plugin2, output, error

\* Both write to both their streams; what is read in a row may join one chunk.
WritesOfEach ==
    [p \in Programs |-> IF p = tell THEN <<output, error>> ELSE <<output, output, error, output>>]
\* One unit each is enough to fill the mailbox.
OneEach == [p \in Programs |-> <<output>>]

OwnerOfEach == [p \in {read1, read2, tell} |-> IF p = tell THEN plugin2 ELSE plugin1]
=============================================================================
