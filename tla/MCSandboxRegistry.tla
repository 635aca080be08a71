------------------------- MODULE MCSandboxRegistry -------------------------
(* Instances of SandboxRegistry for TLC. *)
EXTENDS SandboxRegistry, TLC

OneHome == [e \in Executions |-> 1]
TwoHomes == [e \in Executions |-> IF e = 2 THEN 2 ELSE 1]

=============================================================================
