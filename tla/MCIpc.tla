------------------------------- MODULE MCIpc -------------------------------
(* Four processes, one of them the task that is informed of interrupts. *)
EXTENDS IpcClients, TLC

CONSTANTS a, b, c, hd

MCProc == {a, b, c, hd}
MCSymmetry == Permutations({a, b, c})
=============================================================================
