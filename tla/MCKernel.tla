------------------------------ MODULE MCKernel ------------------------------
(* A process of high and two of low priority; one of them never blocks. *)
EXTENDS KernelEntry

MCPriority == [p \in Proc |-> IF p < 2 THEN 2 ELSE 1]
=============================================================================
