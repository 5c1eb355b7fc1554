------------------------------ MODULE ForkExit ------------------------------
(***************************************************************************)
(* Process creation and termination: task_mm with do_fork, do_exit,        *)
(* cleanup and do_wait (src/mm), and the processes that call fork(),       *)
(* exit() and wait() (src/lib) over the message kernel.                    *)
(*                                                                         *)
(* task_mm runs in ring 1 with interrupts on, so any process may run       *)
(* between two of its instructions.  It alone writes p_parent and the bits *)
(* WAITING, HANGING and FREE_SLOT, so runs of such accesses are one step;  *)
(* a step ends at every system call, and inside `p_flags |= bit' on a      *)
(* process that may be running: the load and the store are two             *)
(* instructions, and the kernel changes the same word for that process.    *)
(***************************************************************************)
EXTENDS Ipc, FiniteSetsExt

CONSTANTS
  TASK_MM, INIT_PROC,
  Slots,         \* the entries of proc_table that fork() may use
  Calls          \* the library calls in the program of each process

User == {INIT_PROC} \cup Slots

ASSUME ForkAssumption ==
  /\ Proc = {TASK_MM} \cup User
  /\ Proc \subseteq Nat /\ TASK_MM \notin User /\ INIT_PROC \notin Slots
  /\ Calls \in [User -> SUBSET {"FORK", "WAIT", "EXIT"}]
  /\ "EXIT" \notin Calls[INIT_PROC]      \* it has no parent to report to

VARIABLES
  p_parent,
  lib,    \* the library call a process is in and how far it has come
  mm,     \* task_mm: where it is, for whom, and its local variables
  torn    \* history: a store to a p_flags has undone what the kernel did to it

feVars == <<ipcVars, p_parent, lib, mm, torn>>

Free(i) == p_flags[i] = {"FREE_SLOT"}
Hanging(i) == "HANGING" \in p_flags[i]
Waiting(i) == "WAITING" \in p_flags[i]

\* task_mm at the top of its loop.
mmFrame == [at |-> "receive", src |-> NO_TASK, who |-> NO_TASK,
            load |-> {}, bit |-> "none", then |-> "none"]

\* task_mm goes on at a; a handler that is done leaves no locals behind.
goOn(a) == IF a = "receive" THEN mmFrame ELSE [mm EXCEPT !.at = a]

\* Before its first use the p_parent of a slot is that of no caller of wait().
Init ==
  /\ IpcInit([p \in Proc |-> IF p \in Slots THEN {"FREE_SLOT"} ELSE {}])
  /\ p_parent = [p \in User |-> NO_TASK]
  /\ lib = [p \in User |-> [call |-> "none", at |-> "received"]]
  /\ mm = mmFrame
  /\ torn = FALSE

----------------------------------------------------------------------------
(* The library: fork(), wait() and exit() are a send_recv(BOTH) to task_mm *)

\* The PID that a message also carries is looked at by nobody here.
Body(t, retval) == [type |-> t, RETVAL |-> retval]
SyscallRet == Body("SYSCALL_RET", 0)

\* The asserts of fork() and exit(): a process that fails one spins for ever.
answered(c, m) ==
  /\ c \in {"FORK", "EXIT"} => m.type = "SYSCALL_RET"
  /\ c = "FORK" => m.RETVAL = 0

\* p runs in user mode, its last call behind it.
returned(p) == p_flags[p] = {} /\ lib[p].at = "received"

Call(p, c) ==
  /\ fault = "none" /\ returned(p) /\ answered(lib[p].call, msg[p].type)
  /\ msg_send(p, TASK_MM, Body(c, 0))
  /\ lib' = [lib EXCEPT ![p] = [call |-> c, at |-> "sent"]]
  /\ UNCHANGED <<p_parent, mm, torn>>

\* The second half of BOTH.
Await(p) ==
  /\ fault = "none" /\ p_flags[p] = {} /\ lib[p].at = "sent"
  /\ msg_recevie(p, TASK_MM)
  /\ lib' = [lib EXCEPT ![p].at = "received"]
  /\ UNCHANGED <<p_parent, mm, torn>>

----------------------------------------------------------------------------
(* task_mm *)

mmAt(a) == fault = "none" /\ p_flags[TASK_MM] = {} /\ mm.at = a

\* The process that asks: mm_msg.source.
caller == msg[TASK_MM].source

\* A message of type t has been received.
mmGot(t) == mmAt("got") /\ msg[TASK_MM].type.type = t

receive ==
  /\ mmAt("receive")
  /\ msg_recevie(TASK_MM, ANY)
  /\ mm' = [mm EXCEPT !.at = "got"]
  /\ UNCHANGED <<p_parent, lib, torn>>

only_bit(flags, b) == {b}

with_bit(flags, b) == flags \cup {b}

\* p_flags of p |= b, then go on at a: the load and the store.
or_flags(p, b, a) ==
  mm' = [mm EXCEPT !.at = "store", !.src = p, !.load = p_flags[p], !.bit = b, !.then = a]

or_store ==
  /\ mmAt("store")
  /\ p_flags' = [p_flags EXCEPT ![mm.src] = with_bit(mm.load, mm.bit)]
  /\ torn' = (torn \/ p_flags[mm.src] # mm.load)
  /\ mm' = [goOn(mm.then) EXCEPT !.load = {}, !.bit = "none", !.then = "none"]
  /\ UNCHANGED <<p_msg, p_recvfrom, p_sendto, has_int_msg, q_sending, msg, fault,
                 p_parent, lib>>

\* send_recv(SEND, d, ..) as the last thing before a.
mmSend(d, body, a) ==
  /\ msg_send(TASK_MM, d, body)
  /\ mm' = goOn(a)
  /\ UNCHANGED <<p_parent, lib, torn>>

----------------------------------------------------------------------------
(* do_fork *)

\* No free slot: -1 for the caller.
fork_full ==
  /\ mmGot("FORK") /\ \A i \in Slots : ~Free(i)
  /\ mm' = [mm EXCEPT !.at = "reply", !.src = caller, !.who = NO_TASK]
  /\ UNCHANGED <<ipcVars, p_parent, lib, torn>>

\* while(!(parent_p->p_flags & RECEIVING)): the copy must be of a parent that
\* waits for the answer.
parent_waits(p) == "RECEIVING" \in p_flags[p]

\* The first free slot becomes a copy of the parent: its table entry, and its
\* memory with the message in it and the call it is in.  DOING_FORK keeps the
\* child from running meanwhile.
fork_copy ==
  LET p == caller
      c == Min({i \in Slots : Free(i)})
  IN /\ mmGot("FORK") /\ \E i \in Slots : Free(i)
     /\ parent_waits(p)
     /\ p_flags' = [p_flags EXCEPT ![c] = p_flags[p]]
     /\ p_msg' = [p_msg EXCEPT ![c] = p_msg[p]]
     /\ p_recvfrom' = [p_recvfrom EXCEPT ![c] = p_recvfrom[p]]
     /\ p_sendto' = [p_sendto EXCEPT ![c] = p_sendto[p]]
     /\ has_int_msg' = [has_int_msg EXCEPT ![c] = has_int_msg[p]]
     /\ q_sending' = [q_sending EXCEPT ![c] = q_sending[p]]
     /\ msg' = [msg EXCEPT ![c] = msg[p]]
     /\ p_parent' = [p_parent EXCEPT ![c] = p]
     /\ lib' = [lib EXCEPT ![c] = lib[p]]
     /\ mm' = [mm EXCEPT !.at = "birth", !.src = p, !.who = c]
     /\ UNCHANGED <<fault, torn>>

birth_forgotten ==
  /\ mmAt("birth")
  /\ mm' = goOn("reply")
  /\ UNCHANGED <<ipcVars, p_parent, lib, torn>>

\* The child is answered with 0, then the main loop answers the parent.
fork_birth == mmAt("birth") /\ mmSend(mm.who, SyscallRet, "reply")

fork_reply ==
  /\ mmAt("reply")
  /\ mmSend(mm.src, Body("SYSCALL_RET", IF mm.who = NO_TASK THEN 0 - 1 ELSE 0),
            "receive")

----------------------------------------------------------------------------
(* cleanup: tell the parent of mm.who, then free the slot *)

informed_self(i) == i

\* msg2parent goes to the parent of the process that is cleaned up.
informed(i) == p_parent[i]

cleanup_send ==
  /\ mmAt("cleanup")
  /\ mmSend(informed(mm.who), SyscallRet, "free")

cleanup_free ==
  /\ mmAt("free")
  /\ p_flags' = [p_flags EXCEPT ![mm.who] = {"FREE_SLOT"}]
  /\ mm' = [goOn(mm.then) EXCEPT !.who = NO_TASK, !.then = "none"]
  /\ UNCHANGED <<p_msg, p_recvfrom, p_sendto, has_int_msg, q_sending, msg, fault,
                 p_parent, lib, torn>>

----------------------------------------------------------------------------
(* do_exit *)

unmark_nobody(flags, p) == flags

\* p_flags of p &= ~WAITING; p is blocked, so nothing interferes.
unmark(flags, p) == [flags EXCEPT ![p] = @ \ {"WAITING"}]

exit_waited ==
  LET p == caller
  IN /\ mmGot("EXIT") /\ Waiting(p_parent[p])
     /\ p_flags' = unmark(p_flags, p_parent[p])
     /\ mm' = [mm EXCEPT !.at = "cleanup", !.src = p, !.who = p, !.then = "orphans"]
     /\ UNCHANGED <<p_msg, p_recvfrom, p_sendto, has_int_msg, q_sending, msg,
                    fault, p_parent, lib, torn>>

exit_unwaited ==
  LET p == caller
  IN /\ mmGot("EXIT") /\ ~Waiting(p_parent[p])
     /\ or_flags(p, "HANGING", "orphans")
     /\ UNCHANGED <<ipcVars, p_parent, lib, torn>>

Children(p) == {i \in User : p_parent[i] = p}

\* The children of the process that exits, given to INIT_PROC in the table's order.
adopt_none(P) == p_parent

adopt(P) == [i \in User |-> IF i \in P THEN INIT_PROC ELSE p_parent[i]]

orphans_done ==
  LET C == Children(mm.src)
  IN /\ mmAt("orphans") /\ ~(Waiting(INIT_PROC) /\ \E i \in C : Hanging(i))
     /\ p_parent' = adopt(C)
     /\ mm' = goOn("receive")
     /\ UNCHANGED <<ipcVars, lib, torn>>

\* INIT_PROC is WAITING and the child i is HANGING: clean it up, then assert(0).
orphan_hanging ==
  LET C == Children(mm.src)
      i == Min({k \in C : Hanging(k)})
  IN /\ mmAt("orphans") /\ Waiting(INIT_PROC) /\ \E k \in C : Hanging(k)
     /\ p_parent' = adopt({k \in C : k <= i})
     /\ p_flags' = unmark(p_flags, INIT_PROC)
     /\ mm' = [mm EXCEPT !.at = "cleanup", !.who = i, !.then = "assert"]
     /\ UNCHANGED <<p_msg, p_recvfrom, p_sendto, has_int_msg, q_sending, msg,
                    fault, lib, torn>>

orphan_assert ==
  /\ mmAt("assert")
  /\ fault' = "mm_assert"
  /\ UNCHANGED <<p_flags, p_msg, p_recvfrom, p_sendto, has_int_msg, q_sending, msg,
                 p_parent, lib, mm, torn>>

----------------------------------------------------------------------------
(* do_wait *)

reapable_none(p) == {}

\* The children that have exited.
reapable(p) == {i \in Children(p) : Hanging(i)}

wait_reap ==
  LET p == caller
  IN /\ mmGot("WAIT") /\ reapable(p) # {}
     /\ mm' = [mm EXCEPT !.at = "cleanup", !.src = p, !.who = Min(reapable(p)),
                         !.then = "receive"]
     /\ UNCHANGED <<ipcVars, p_parent, lib, torn>>

\* children++ for every entry with that p_parent, a free one too.
wait_mark ==
  LET p == caller
  IN /\ mmGot("WAIT") /\ reapable(p) = {} /\ Children(p) # {}
     /\ or_flags(p, "WAITING", "receive")
     /\ UNCHANGED <<ipcVars, p_parent, lib, torn>>

wait_childless ==
  LET p == caller
  IN /\ mmGot("WAIT") /\ reapable(p) = {} /\ Children(p) = {}
     /\ mmSend(p, SyscallRet, "receive")

----------------------------------------------------------------------------

MMStep ==
  \/ receive \/ or_store
  \/ fork_full \/ fork_copy \/ fork_birth \/ fork_reply
  \/ cleanup_send \/ cleanup_free
  \/ exit_waited \/ exit_unwaited
  \/ orphans_done \/ orphan_hanging \/ orphan_assert
  \/ wait_reap \/ wait_mark \/ wait_childless

Next ==
  \/ \E p \in User : \E c \in Calls[p] : Call(p, c)
  \/ \E p \in User : Await(p)
  \/ MMStep

\* The scheduler runs every READY process again; a process need not make a call.
Fairness ==
  /\ WF_feVars(MMStep)
  /\ \A p \in User : WF_feVars(Await(p))

Spec == Init /\ [][Next]_feVars /\ Fairness

----------------------------------------------------------------------------

BodySet == [type : {"FORK", "WAIT", "EXIT", "SYSCALL_RET"},
            RETVAL : {0 - 1, 0}]

\* task_mm is between two requests.
mmIdle == fault = "none" /\ mm.at \in {"receive", "got"}

InUse(i) == i = INIT_PROC \/ ~Free(i)

\* The parent of a process in use is in use and has not exited: nobody is ever
\* the child of a slot that fork() may give to a stranger.
ParentsLive ==
  mmIdle => \A i \in Slots :
              ~Free(i) => p_parent[i] \in User /\ InUse(p_parent[i]) /\ ~Hanging(p_parent[i])

\* No exit goes unnoticed: a parent does not wait while a child of it hangs.
NoMissedExit ==
  mmIdle => \A i \in Slots : Hanging(i) => ~Waiting(p_parent[i])

\* As long as no store has undone what the kernel did to a p_flags, a call comes
\* back only with an answer of task_mm in its buffer.
CallsAnswered ==
  ~torn => \A p \in User :
    fault = "none" /\ returned(p) /\ lib[p].call # "none" => msg[p].source = TASK_MM

\* A process that has called exit() never runs again, whatever is undone.
ExitIsFinal ==
  \A p \in User :
    fault = "none" /\ lib[p].call = "EXIT" => ~returned(p)

\* The kernel neither panics nor fails an assert: the calls and the answers of
\* task_mm never wait for each other in a circle, and nobody is sent an answer
\* it does not wait for.
KernelQuiet == ~torn => fault \notin {"panic", "assert"}

\* p has come back from fork(), as the parent or as the child, and passes the
\* asserts of the library.
forked(p) ==
  returned(p) /\ lib[p].call = "FORK" /\ answered("FORK", msg[p].type)

\* Every slot is taken, and task_mm answers p with -1.
refused(p) ==
  /\ \A i \in Slots : ~Free(i)
  /\ \/ mm.at = "reply" /\ mm.src = p /\ mm.who = NO_TASK
     \/ p_sendto[TASK_MM] = p /\ msg[TASK_MM].type = Body("SYSCALL_RET", 0 - 1)

\* fork() comes back with success in the process that calls it, unless the table
\* is full, and in the child, which starts inside the call of its parent and must
\* be answered itself.  (Who is refused gets -1, fails the assert of the library
\* and spins for ever.)
ForkReturns ==
  \A p \in User : (lib[p].call = "FORK" /\ ~returned(p))
                    ~> (forked(p) \/ refused(p) \/ fault # "none" \/ torn)

\* The documentation of do_wait and do_exit: WAITING means that there is a
\* child to wait for.
WaitingHasChild ==
  \A p \in User : ~torn /\ Waiting(p) => \E i \in Children(p) : ~Free(i)
=============================================================================
