-------------------------------- MODULE Ipc --------------------------------
(***************************************************************************)
(* The message-passing kernel of src/kernel/sched.c: msg_send,             *)
(* msg_recevie, inform_int and the deadlock detector, on the fields of the *)
(* process table (include/process.h) that they read and write.             *)
(*                                                                         *)
(* A system call runs with the interrupt flag clear (all IDT entries are   *)
(* interrupt gates and sys_call has its `sti' commented out), so one       *)
(* sendrec is one step.  Which READY process makes the next call is left   *)
(* open here: the scheduler is module Sched.                               *)
(***************************************************************************)
EXTENDS Integers, Sequences, FiniteSets

CONSTANTS
  Proc,        \* the slots of proc_table that are in use
  MsgType,     \* what processes send: the type with the rest of the message
  HARD_INT,    \* the type of an interrupt message
  UNSET,       \* the type in a buffer that was never used
  ANY, INTERRUPT, NO_TASK

ASSUME IpcAssumption ==
  /\ ANY \notin Proc /\ INTERRUPT \notin Proc /\ NO_TASK \notin Proc
  /\ ANY # INTERRUPT /\ ANY # NO_TASK /\ INTERRUPT # NO_TASK

VARIABLES
  p_flags,      \* set of the bits set in p_flags; {} is READY
  p_msg,        \* 0, or 1 when it points at the caller's MESSAGE
  p_recvfrom,   \* whom a RECEIVING process wants to hear from
  p_sendto,     \* whom a SENDING process is blocked on
  has_int_msg,  \* 1 when an interrupt came while nobody waited for it
  q_sending,    \* the list q_sending / next_sending, first sender first
  msg,          \* the MESSAGE the process passed to its last sendrec
  fault         \* "none", or why the kernel stopped: "panic" or "assert"

ipcVars == <<p_flags, p_msg, p_recvfrom, p_sendto, has_int_msg, q_sending,
             msg, fault>>

Message == [source : Proc \cup {INTERRUPT},
            type : MsgType \cup {HARD_INT, UNSET}]

\* The process table after init_sched: no list and no message; flags are {} for
\* a native process, FREE_SLOT for the rest.
IpcInit(flags) ==
  /\ p_flags = flags
  /\ p_msg = [p \in Proc |-> 0]
  /\ p_recvfrom = [p \in Proc |-> NO_TASK]
  /\ p_sendto = [p \in Proc |-> NO_TASK]
  /\ has_int_msg = [p \in Proc |-> 0]
  /\ q_sending = [p \in Proc |-> <<>>]
  /\ msg = [p \in Proc |-> [source |-> p, type |-> UNSET]]
  /\ fault = "none"

----------------------------------------------------------------------------
(* The deadlock detector. *)

\* S is closed under "is blocked sending to".
SendClosed(S) ==
  \A p \in S : "SENDING" \in p_flags[p] => p_sendto[p] \in S

deadlock_off(src, dest) == FALSE

\* The walk from dest along p_sendto, through SENDING processes, meets src:
\* src is in every closed set that contains dest.
deadlock(src, dest) ==
  \A S \in SUBSET Proc : dest \in S /\ SendClosed(S) => src \in S

----------------------------------------------------------------------------
(* msg_send *)

awaits_any_only(d, p) ==
  "RECEIVING" \in p_flags[d] /\ p_recvfrom[d] = ANY

\* d is blocked in a receive that a message of p satisfies.
awaits(d, p) ==
  "RECEIVING" \in p_flags[d] /\ p_recvfrom[d] \in {p, ANY}

\* What the assert() calls on a process not blocked in IPC say.
quiet(p) ==
  p_msg[p] = 0 /\ p_recvfrom[p] = NO_TASK /\ p_sendto[p] = NO_TASK

\* panic(">>DEADLOCK<<"): the kernel prints and halts, the table stays as it is.
send_panic(p, d, m) ==
  /\ deadlock(p, d)
  /\ msg' = [msg EXCEPT ![p] = m]
  /\ fault' = "panic"
  /\ UNCHANGED <<p_flags, p_msg, p_recvfrom, p_sendto, has_int_msg, q_sending>>

\* dest is waiting for the message: copy it and let dest go on.
send_deliver(p, d, m) ==
  /\ ~deadlock(p, d) /\ awaits(d, p)
  /\ msg' = [msg EXCEPT ![p] = m, ![d] = m]
  /\ p_msg' = [p_msg EXCEPT ![d] = 0]
  /\ p_flags' = [p_flags EXCEPT ![d] = @ \ {"RECEIVING"}]
  /\ p_recvfrom' = [p_recvfrom EXCEPT ![d] = NO_TASK]
  /\ fault' = IF /\ p_msg[d] # 0 /\ p_flags[d] = {"RECEIVING"}
                 /\ p_sendto[d] = NO_TASK
                 /\ p_flags[p] = {} /\ quiet(p)
              THEN fault ELSE "assert"
  /\ UNCHANGED <<p_sendto, has_int_msg, q_sending>>

push_front(q, p) == <<p>> \o q

\* The sender is linked behind the last entry of dest's list.
enqueue(q, p) == Append(q, p)

\* dest is not waiting: the sender blocks at the end of its list.
send_block(p, d, m) ==
  /\ ~deadlock(p, d) /\ ~awaits(d, p)
  /\ msg' = [msg EXCEPT ![p] = m]
  /\ p_flags' = [p_flags EXCEPT ![p] = @ \cup {"SENDING"}]
  /\ p_sendto' = [p_sendto EXCEPT ![p] = d]
  /\ p_msg' = [p_msg EXCEPT ![p] = 1]
  /\ q_sending' = [q_sending EXCEPT ![d] = enqueue(@, p)]
  /\ fault' = IF p_flags[p] = {} /\ p_recvfrom[p] = NO_TASK
              THEN fault ELSE "assert"
  /\ UNCHANGED <<p_recvfrom, has_int_msg>>

\* sys_sendrec(SEND): the kernel stamps the caller into the message first.
msg_send(p, d, t) ==
  LET m == [source |-> p, type |-> t]
  IN send_panic(p, d, m) \/ send_deliver(p, d, m) \/ send_block(p, d, m)

----------------------------------------------------------------------------
(* msg_recevie *)

int_ignored(p, s) == FALSE

\* A recorded interrupt satisfies this receive; it goes before any sender.
int_pending(p, s) == has_int_msg[p] # 0 /\ s \in {ANY, INTERRUPT}

recv_interrupt(p, s) ==
  /\ int_pending(p, s)
  /\ msg' = [msg EXCEPT ![p] = [source |-> INTERRUPT, type |-> HARD_INT]]
  /\ has_int_msg' = [has_int_msg EXCEPT ![p] = 0]
  /\ fault' = IF p_flags[p] = {} /\ p_msg[p] = 0 /\ p_sendto[p] = NO_TASK
              THEN fault ELSE "assert"
  /\ UNCHANGED <<p_flags, p_msg, p_recvfrom, p_sendto, q_sending>>

sender_busy(p, s) ==
  \/ s = ANY /\ q_sending[p] # <<>>
  \/ s \in Proc /\ "SENDING" \in p_flags[s]

\* Some sender in p's list satisfies a receive from s.
sender_ready(p, s) ==
  \/ s = ANY /\ q_sending[p] # <<>>
  \/ s \in Proc /\ "SENDING" \in p_flags[s] /\ p_sendto[s] = p

drop_first(q, f) == Tail(q)

\* Take f off a list: the walk stops at the first entry that is f, and
\* prev->next_sending = p_from->next_sending.  Without one, nothing changes.
unlink(q, f) ==
  IF \E i \in 1 .. Len(q) : q[i] = f
  THEN LET k == CHOOSE i \in 1 .. Len(q) :
                  q[i] = f /\ \A j \in 1 .. i - 1 : q[j] # f
       IN [j \in 1 .. Len(q) - 1 |-> IF j < k THEN q[j] ELSE q[j + 1]]
  ELSE q

\* Take the sender off the list, copy its message and let it go on.
recv_copy(p, s) ==
  LET f == IF s = ANY THEN Head(q_sending[p]) ELSE s IN
  /\ ~int_pending(p, s) /\ sender_ready(p, s)
  /\ q_sending' = [q_sending EXCEPT ![p] = unlink(@, f)]
  /\ msg' = [msg EXCEPT ![p] = msg[f]]
  /\ p_msg' = [p_msg EXCEPT ![f] = 0]
  /\ p_sendto' = [p_sendto EXCEPT ![f] = NO_TASK]
  /\ p_flags' = [p_flags EXCEPT ![f] = @ \ {"SENDING"}]
  /\ fault' = IF /\ p_flags[p] = {} /\ quiet(p) /\ q_sending[p] # <<>>
                 /\ s # ANY => p_flags[f] = {"SENDING"}
                 /\ p_msg[f] # 0 /\ p_recvfrom[f] = NO_TASK /\ p_sendto[f] = p
              THEN fault ELSE "assert"
  /\ UNCHANGED <<p_recvfrom, has_int_msg>>

\* Nobody has a message for p: it blocks, its buffer stamped with its own pid.
recv_block(p, s) ==
  /\ ~int_pending(p, s) /\ ~sender_ready(p, s)
  /\ msg' = [msg EXCEPT ![p].source = p]
  /\ p_flags' = [p_flags EXCEPT ![p] = @ \cup {"RECEIVING"}]
  /\ p_msg' = [p_msg EXCEPT ![p] = 1]
  /\ p_recvfrom' = [p_recvfrom EXCEPT ![p] = s]
  /\ fault' = IF /\ p_flags[p] = {} /\ p_sendto[p] = NO_TASK
                 /\ has_int_msg[p] = 0
              THEN fault ELSE "assert"
  /\ UNCHANGED <<p_sendto, has_int_msg, q_sending>>

msg_recevie(p, s) ==
  recv_interrupt(p, s) \/ recv_copy(p, s) \/ recv_block(p, s)

----------------------------------------------------------------------------
(* inform_int, called from hd_handler at interrupt level *)

\* The task is waiting for the interrupt.
int_awaited(t) ==
  "RECEIVING" \in p_flags[t] /\ p_recvfrom[t] \in {INTERRUPT, ANY}

\* Nobody waits for it: has_int_msg remembers that there was an interrupt, not
\* how many.
int_recorded(t) == [has_int_msg EXCEPT ![t] = 1]

inform_int(t) ==
  \/ /\ int_awaited(t)
     /\ msg' = [msg EXCEPT ![t] = [source |-> INTERRUPT, type |-> HARD_INT]]
     /\ p_msg' = [p_msg EXCEPT ![t] = 0]
     /\ has_int_msg' = [has_int_msg EXCEPT ![t] = 0]
     /\ p_flags' = [p_flags EXCEPT ![t] = @ \ {"RECEIVING"}]
     /\ p_recvfrom' = [p_recvfrom EXCEPT ![t] = NO_TASK]
     /\ fault' = IF p_flags[t] = {"RECEIVING"} /\ p_sendto[t] = NO_TASK
                 THEN fault ELSE "assert"
     /\ UNCHANGED <<p_sendto, q_sending>>
  \/ /\ ~int_awaited(t)
     /\ has_int_msg' = int_recorded(t)
     /\ UNCHANGED <<p_flags, p_msg, p_recvfrom, p_sendto, q_sending, msg, fault>>

----------------------------------------------------------------------------
(* What the calls keep true, whoever makes them *)

\* Every process has one message buffer, whatever is in it.
Buffers == msg = [p \in Proc |-> msg[p]]

KernelTypeOK ==
  /\ p_flags \in [Proc -> SUBSET {"SENDING", "RECEIVING"}]
  /\ p_msg \in [Proc -> {0, 1}]
  /\ p_recvfrom \in [Proc -> Proc \cup {ANY, INTERRUPT, NO_TASK}]
  /\ p_sendto \in [Proc -> Proc \cup {NO_TASK}]
  /\ has_int_msg \in [Proc -> {0, 1}]
  /\ q_sending \in [Proc -> Seq(Proc)]
  /\ Buffers
  /\ fault \in {"none", "panic", "assert"}

Sending(p) == "SENDING" \in p_flags[p]
Receiving(p) == "RECEIVING" \in p_flags[p]

\* None of the assert() calls of msg_send, msg_recevie and inform_int can fail,
\* whoever calls them and whenever the disk interrupts.
NoAssertFails == fault # "assert"

\* f is an entry of the list q; q has no entry twice.
Listed(q, f) == \E i \in 1 .. Len(q) : q[i] = f
NoRepeat(q) == \A i, j \in 1 .. Len(q) : q[i] = q[j] => i = j

\* The list headed by q_sending holds exactly the processes blocked sending to
\* its owner, each once: every blocked sender can still be reached and no
\* sender is served twice.
QueueExact ==
  \A d \in Proc :
    /\ NoRepeat(q_sending[d])
    /\ \A p \in Proc :
         Listed(q_sending[d], p) <=> (Sending(p) /\ p_sendto[p] = d)

\* d is blocked in a receive that a message of p satisfies.
WaitsFor(d, p) == Receiving(d) /\ p_recvfrom[d] \in {p, ANY}

\* No missed rendezvous: nobody is blocked sending to a process that is
\* blocked receiving from it; one of the two calls must have found the other.
NoMissedRendezvous ==
  \A p, d \in Proc : ~(Sending(p) /\ p_sendto[p] = d /\ WaitsFor(d, p))

\* An interrupt that was recorded is never slept through: the task does not
\* wait for a message it has already been sent.
NoSleepThroughInterrupt ==
  \A t \in Proc : has_int_msg[t] = 1 => ~int_awaited(t)

\* The senders that are blocked never wait in a circle: every set of processes
\* has one that is not blocked sending inside the set.  It is the reason the
\* walk in deadlock() ends.
NoSendCycle ==
  \A S \in SUBSET Proc :
    S # {} => \E p \in S : ~(Sending(p) /\ p_sendto[p] \in S)

\* The fields of a table entry tell one story: a process is runnable, or
\* blocked sending to somebody, or blocked receiving from somebody, and the
\* message pointer is set exactly while it is blocked.
FieldsAgree ==
  \A p \in Proc :
    /\ p_flags[p] \in {{}, {"SENDING"}, {"RECEIVING"}}
    /\ Sending(p) <=> p_sendto[p] # NO_TASK
    /\ Receiving(p) <=> p_recvfrom[p] # NO_TASK
    /\ p_msg[p] = 0 <=> p_flags[p] = {}
=============================================================================
