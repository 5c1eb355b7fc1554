----------------------------- MODULE IpcClients -----------------------------
(***************************************************************************)
(* The message kernel under every client: processes that call send_recv    *)
(* with SEND, RECEIVE or BOTH at any time they are runnable, and a disk    *)
(* that interrupts at any time.                                            *)
(*                                                                         *)
(* One rule of the code restricts the clients: TASK_HD, the only task that *)
(* is informed of interrupts, receives from ANY (task_hd) or from INTERRUPT*)
(* (interrupt_wait) and never uses BOTH.  A receive from one named process *)
(* with an interrupt pending would fail the last assert of msg_recevie.    *)
(***************************************************************************)
EXTENDS Ipc

CONSTANT TASK_HD    \* the one task that hd_handler informs of interrupts

ASSUME ClientAssumption == TASK_HD \in Proc

VARIABLE owed    \* whom the second half of a send_recv(BOTH) receives from

vars == <<ipcVars, owed>>

Init == IpcInit([p \in Proc |-> {}]) /\ owed = [p \in Proc |-> NO_TASK]

\* p is running in user mode and may make a system call.
mayCall(p) == fault = "none" /\ p_flags[p] = {}

\* send_recv(SEND, d, ..): asserts src_dest # caller.
Send(p, d, t) ==
  /\ mayCall(p) /\ owed[p] = NO_TASK
  /\ msg_send(p, d, t)
  /\ UNCHANGED owed

\* send_recv(BOTH, d, ..), first half.
SendBoth(p, d, t) ==
  /\ mayCall(p) /\ owed[p] = NO_TASK /\ p # TASK_HD
  /\ msg_send(p, d, t)
  /\ owed' = [owed EXCEPT ![p] = d]

\* send_recv(BOTH, d, ..), second half: once the send has been accepted.
RecvBoth(p) ==
  /\ mayCall(p) /\ owed[p] # NO_TASK
  /\ msg_recevie(p, owed[p])
  /\ owed' = [owed EXCEPT ![p] = NO_TASK]

\* send_recv(RECEIVE, s, ..)
Receive(p, s) ==
  /\ mayCall(p) /\ owed[p] = NO_TASK
  /\ p = TASK_HD => s \in {ANY, INTERRUPT}
  /\ msg_recevie(p, s)
  /\ UNCHANGED owed

\* The interrupt line of the disk: hd_handler calls inform_int(TASK_HD).
Interrupt ==
  /\ fault = "none"
  /\ inform_int(TASK_HD)
  /\ UNCHANGED owed

Next ==
  \/ \E p \in Proc : \E d \in Proc \ {p}, t \in MsgType :
        Send(p, d, t) \/ SendBoth(p, d, t)
  \/ \E p \in Proc : RecvBoth(p)
  \/ \E p \in Proc : \E s \in (Proc \ {p}) \cup {ANY, INTERRUPT} : Receive(p, s)
  \/ Interrupt

Spec == Init /\ [][Next]_vars

----------------------------------------------------------------------------

\* Every field of the process table holds a value of its type.
TypeOK ==
  KernelTypeOK /\ msg \in [Proc -> Message] /\ owed \in [Proc -> Proc \cup {NO_TASK}]

\* A receive takes one sender out of the list and a send adds one at the end:
\* whoever stands before a waiting sender after a step stood before it already.
NoOvertaking ==
  \A d \in Proc :
    \A k, l \in 1 .. Len(q_sending'[d]), j \in 1 .. Len(q_sending[d]) :
      k < l /\ q_sending'[d][l] = q_sending[d][j] =>
        \E i \in 1 .. j - 1 : q_sending[d][i] = q_sending'[d][k]

\* First come, first served: no waiting sender is ever overtaken.
QueueOrderKept == [][NoOvertaking]_vars

----------------------------------------------------------------------------
(* The kernel implements rendezvous. *)

wantOf(p) ==
  IF Sending(p) THEN [op |-> "offer", to |-> p_sendto[p]]
  ELSE IF Receiving(p) THEN [op |-> "accept", from |-> p_recvfrom[p]]
  ELSE [op |-> "idle"]

R == INSTANCE Rendezvous WITH
       want <- [p \in Proc |-> wantOf(p)],
       buf <- msg,
       raised <- {p \in Proc : has_int_msg[p] = 1},
       halted <- fault # "none"

\* Every behaviour of the flag words and lists is one of synchronous message
\* passing: nothing is lost, duplicated, made up or delivered to a process
\* that did not ask for it, and the kernel panics only on a real circle.
ImplementsRendezvous == R!Spec
=============================================================================
