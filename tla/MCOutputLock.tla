---------------------------- MODULE MCOutputLock ----------------------------
(* Two processes on two machines that build the same folder. *)
EXTENDS OutputLock

CONSTANTS p1, p2, here, there

MCProcesses == {p1, p2}
MCHost == [p \in MCProcesses |-> IF p = p2 THEN there ELSE here]

=============================================================================
