----------------------------- MODULE MCServers ------------------------------
(* One client reads lines and the time, the other asks task_sys for the rest *)
(* and reads too.                                                            *)
EXTENDS Servers

MCCalls ==
  [p \in Client |-> IF \A q \in Client : p <= q
                    THEN {"READ", "GETTIME"}
                    ELSE {"READ", "GET_PID", "GET_TICKS"}]
=============================================================================
