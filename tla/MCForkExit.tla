----------------------------- MODULE MCForkExit -----------------------------
(* INIT_PROC forks and waits; the first child makes every call, the second   *)
(* forks and exits, a third one only exits.                                  *)
EXTENDS ForkExit

MCCalls ==
  [p \in User |-> CASE p = INIT_PROC      -> {"FORK", "WAIT"}
                    [] p = Min(Slots)     -> {"FORK", "WAIT", "EXIT"}
                    [] p = Min(Slots) + 1 -> {"FORK", "EXIT"}
                    [] OTHER              -> {"EXIT"}]
=============================================================================
