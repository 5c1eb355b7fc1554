------------------------------ MODULE Servers ------------------------------
(***************************************************************************)
(* The servers and their clients over the message kernel: task_hd and      *)
(* task_fs (HdDriver), task_sys (src/kernel/systask.c), the clock it       *)
(* reads, and processes that call read(), time(), getpid() and             *)
(* get_ticks2().  unix_time counts from the start of the system.           *)
(***************************************************************************)
EXTENDS HdDriver

CONSTANTS
  TASK_SYS,
  Client,         \* processes that make calls
  Calls,          \* the calls each of them makes
  HZ,             \* ticks of a second
  MaxTicks        \* bound: ticks that are counted

ASSUME ServersAssumption ==
  /\ Proc = {TASK_HD, TASK_FS, TASK_SYS} \cup Client
  /\ Client \cap {TASK_HD, TASK_FS, TASK_SYS} = {} /\ TASK_SYS \notin {TASK_HD, TASK_FS}
  /\ Calls \in [Client -> SUBSET {"READ", "GETTIME", "GET_PID", "GET_TICKS"}]
  /\ HZ \in Nat \ {0} /\ MaxTicks \in Nat

VARIABLES
  sys,        \* where task_sys is
  client,     \* the call a process is in, how far it has come, and since when
  ticks,      \* the ticks since the start
  unix_time   \* the seconds

vars == <<hdVars, sys, client, ticks, unix_time>>

Idle == [call |-> "none", at |-> "user", since |-> 0]

Init ==
  /\ IpcInit([p \in Proc |-> {}])
  /\ HdInit
  /\ sys = "receive"
  /\ client = [c \in Client |-> Idle]
  /\ ticks = 0 /\ unix_time = 0

\* clock_handler: a second is over every HZ ticks.
tick ==
  /\ fault = "none" /\ ticks < MaxTicks
  /\ ticks' = ticks + 1
  /\ unix_time' = IF ticks' % HZ = 0 THEN unix_time + 1 ELSE unix_time
  /\ UNCHANGED <<hdVars, sys, client>>

----------------------------------------------------------------------------
(* task_sys *)

sysAt(a) == runs(TASK_SYS) /\ sys = a
sysMsg == msg[TASK_SYS]

sys_receive ==
  /\ sysAt("receive")
  /\ msg_recevie(TASK_SYS, ANY)
  /\ sys' = "got"
  /\ UNCHANGED <<disk, irq, hd, fs, misuse, client, ticks, unix_time>>

answer_previous(m) ==
  CASE m.type.type = "GET_TICKS" -> Body("GET_TICKS", ticks)
    [] m.type.type = "GET_PID"   -> Body("SYSCALL_RET", TASK_SYS)
    [] m.type.type = "GETTIME"   -> Body("SYSCALL_RET", unix_time)

\* What goes back to the sender; GET_TICKS leaves the type as it was.
answer(m) ==
  CASE m.type.type = "GET_TICKS" -> Body("GET_TICKS", ticks)
    [] m.type.type = "GET_PID"   -> Body("SYSCALL_RET", m.source)
    [] m.type.type = "GETTIME"   -> Body("SYSCALL_RET", unix_time)

\* The value is read, then sent: the clock may go on in between.
sys_answer ==
  /\ sysAt("got")
  /\ msg' = [msg EXCEPT ![TASK_SYS].type = answer(sysMsg)]
  /\ sys' = "reply"
  /\ UNCHANGED <<p_flags, p_msg, p_recvfrom, p_sendto, has_int_msg, q_sending, fault,
                 disk, irq, hd, fs, misuse, client, ticks, unix_time>>

sys_reply ==
  /\ sysAt("reply")
  /\ msg_send(TASK_SYS, sysMsg.source, sysMsg.type)
  /\ sys' = "receive"
  /\ UNCHANGED <<disk, irq, hd, fs, misuse, client, ticks, unix_time>>

----------------------------------------------------------------------------
(* The library: send_recv(BOTH) to a server, and what the call returns *)

server(c) == IF c = "READ" THEN TASK_FS ELSE TASK_SYS

call(p, c) ==
  /\ runs(p) /\ client[p].at = "user"
  /\ msg_send(p, server(c), Body(c, 0))
  /\ client' = [client EXCEPT ![p] = [call |-> c, at |-> "sent", since |-> ticks]]
  /\ UNCHANGED <<disk, irq, hd, fs, misuse, sys, ticks, unix_time>>

await(p) ==
  /\ runs(p) /\ client[p].at = "sent"
  /\ msg_recevie(p, server(client[p].call))
  /\ client' = [client EXCEPT ![p].at = "received"]
  /\ UNCHANGED <<disk, irq, hd, fs, misuse, sys, ticks, unix_time>>

\* read() and getpid() assert the type of the answer.  The MESSAGE was a local
\* variable of the call.
accepted(c, m) == c \in {"READ", "GET_PID"} => m.type = "SYSCALL_RET"

return(p) ==
  /\ runs(p) /\ client[p].at = "received"
  /\ client' = [client EXCEPT ![p] =
                  IF accepted(client[p].call, msg[p].type) THEN Idle ELSE [@ EXCEPT !.at = "spin"]]
  /\ msg' = [msg EXCEPT ![p] = [source |-> p, type |-> UNSET]]
  /\ UNCHANGED <<p_flags, p_msg, p_recvfrom, p_sendto, has_int_msg, q_sending, fault,
                 disk, irq, hd, fs, misuse, sys, ticks, unix_time>>

----------------------------------------------------------------------------

SysStep == sys_receive \/ sys_answer \/ sys_reply

Next ==
  \/ /\ fetch \/ settle \/ hd_handler \/ HdStep \/ hd_timeout \/ FsStep
     /\ UNCHANGED <<sys, client, ticks, unix_time>>
  \/ tick
  \/ SysStep
  \/ \E p \in Client :
       \/ \E c \in Calls[p] : call(p, c)
       \/ await(p) \/ return(p)

\* The scheduler runs every READY process again; a process need not make a call.
Spec ==
  /\ Init /\ [][Next]_vars /\ HdFairness
  /\ WF_vars(SysStep) /\ \A p \in Client : WF_vars(await(p) \/ return(p))

----------------------------------------------------------------------------

BodySet ==
  [type : {"DEV_OPEN", "READ", "GETTIME", "GET_PID", "GET_TICKS", "SYSCALL_RET"}, val : Nat]

HardInt == Body("HARD_INT", 0)
Unset == Body("UNSET", 0)

\* The call of p has come back with its answer.
answered(p, c) ==
  fault = "none" /\ p_flags[p] = {} /\ client[p].call = c /\ client[p].at = "received"

\* Every call comes back to its caller with a value for its caller that was true
\* at some moment of the call, however requests, answers and ticks interleave.
AnswersFresh ==
  \A p \in Client :
    /\ answered(p, "GET_TICKS") => msg[p].type.val \in client[p].since .. ticks
    /\ answered(p, "GETTIME") => msg[p].type.val \in (client[p].since \div HZ) .. unix_time
    /\ answered(p, "GET_PID") => msg[p].type.val = p

\* Every call returns, and read() also when it is made before the disk is open:
\* DEV_OPEN gets its answer and task_fs reaches its loop.
CallsReturn ==
  \A p \in Client : (client[p].at = "sent") ~> (client[p].at = "user" \/ fault # "none")
=============================================================================
