---------------------------- MODULE KernelEntry ----------------------------
(***************************************************************************)
(* Entering and leaving the kernel: save, restart and sys_call of          *)
(* kernel.asm, hwint_master and hwint_slave of trapsa.asm, the interrupt   *)
(* gates of traps.c, and the scheduler that runs inside.                   *)
(*                                                                         *)
(* stack holds one record for every entry that has not been left yet, the  *)
(* first one on top of the kernel stack or the process table.  A record    *)
(* says who entered, how far it has got, where its ret leads, and whose    *)
(* register frame esi points at.  frame says what the register frame of a  *)
(* process in proc_table holds:                                            *)
(*   "saved"    what the process needs to go on                            *)
(*   "calling"  the same, but eax is not the result of its call yet        *)
(*   "stale"    what it needed the last time; it is running                *)
(*   "lost"     something else                                             *)
(***************************************************************************)
EXTENDS Sched, SequencesExt

CONSTANTS
  IRQ,        \* the interrupt lines in use; "CLOCK" is one of them
  Window      \* may an interrupt fall between the instructions of restart?

ASSUME EntryAssumption ==
  /\ "CLOCK" \in IRQ /\ "sys" \notin IRQ /\ "main" \notin IRQ
  /\ Window \in BOOLEAN

VARIABLES
  stack,      \* the entries that are under way, the latest last
  k_reenter,  \* the counter of kernel.asm
  iflag,      \* the interrupt flag of the processor
  masked,     \* the lines masked in the 8259A's
  tss,        \* the process whose frame the TSS names as the ring 0 stack
  frame       \* what the register frame of a process holds

entry_vars == <<stack, k_reenter, iflag, masked, tss, frame>>
kvars == <<vars, entry_vars>>

Elsewhere == -1

user_mode == stack = <<>>
top == Last(stack)
running(b, a) == ~user_mode /\ top.by = b /\ top.at = a
goto(a) == stack' = [stack EXCEPT ![Len(stack)].at = a]

\* main() calls restart for process 0, with interrupts off and every line but
\* the clock's still masked by init_8259A.
KernelInit ==
  /\ Init
  /\ stack = <<[by |-> "main", at |-> "exit", to |-> "restart", esi |-> Elsewhere]>>
  /\ k_reenter = 0
  /\ iflag = FALSE
  /\ masked = IRQ \ {"CLOCK"}
  /\ tss = p_proc_ready
  /\ frame = [p \in Proc |-> "saved"]

----------------------------------------------------------------------------
(* Entry *)

\* save: from user mode the gate has switched to the frame the TSS names, and
\* the frame is complete; inside the kernel it goes on the stack in use, which
\* in restart is the frame that is being popped.
saved_in == IF user_mode THEN tss ELSE Elsewhere

frame_after(b) ==
  IF user_mode
  THEN [frame EXCEPT ![tss] = IF b = "sys" THEN "calling" ELSE "saved"]
  ELSE IF top.at = "popping"
  THEN [frame EXCEPT ![tss] = "lost"]
  ELSE frame

save(b) ==
  LET entry(r) == [by |-> b, at |-> "body", esi |-> saved_in, to |-> r]
  IN /\ k_reenter' = k_reenter + 1
     /\ stack' = IF k_reenter' = 0
                 THEN <<entry("restart")>>
                 ELSE Append(stack, entry("restart_reenter"))
     /\ frame' = frame_after(b)
     /\ UNCHANGED tss

\* An interrupt is taken with interrupts on and its line not masked; Window
\* says whether it may come while restart has its stack in the process table.
in_restart == ~user_mode /\ top.at \in {"loaded", "popping"}
interruptible == iflag /\ (in_restart => Window)

hwint_unmasked(i) ==
  /\ interruptible /\ i \notin masked
  /\ i = "CLOCK" /\ ~user_mode => ticks[p_proc_ready] > 0 - MaxDebt
  /\ save(i)
  /\ iflag' = TRUE
  /\ UNCHANGED <<vars, masked>>

\* The first half of hwint_master and hwint_slave, up to sti.  (MaxDebt bounds
\* the ticks that only nested clock interrupts count.)
hwint(i) ==
  /\ interruptible /\ i \notin masked
  /\ i = "CLOCK" /\ ~user_mode => ticks[p_proc_ready] > 0 - MaxDebt
  /\ save(i)
  /\ masked' = masked \union {i}
  /\ iflag' = TRUE
  /\ UNCHANGED vars

\* int 0x90 of the process that runs; the gate turns interrupts off.
sys_call ==
  /\ user_mode
  /\ save("sys")
  /\ iflag' = FALSE
  /\ UNCHANGED <<vars, masked>>

----------------------------------------------------------------------------
(* The handlers *)

\* irq_table[CLOCK_IRQ] looks at k_reenter to see whom it interrupted.
clock_irq ==
  /\ running("CLOCK", "body")
  /\ \/ k_reenter = 0 /\ clock_handler
     \/ k_reenter # 0 /\ clock_handler_nested
  /\ goto("leave")
  /\ UNCHANGED <<k_reenter, iflag, masked, tss, frame>>

\* Any other handler may make a process runnable (inform_int) or not.
other_irq(i) ==
  /\ i # "CLOCK" /\ running(i, "body")
  /\ UNCHANGED vars \/ \E q \in Proc : unblock(q)
  /\ goto("leave")
  /\ UNCHANGED <<k_reenter, iflag, masked, tss, frame>>

\* The second half of hwint_master and hwint_slave.
hwint_leave(i) ==
  /\ running(i, "leave")
  /\ iflag' = FALSE
  /\ masked' = masked \ {i}
  /\ goto("exit")
  /\ UNCHANGED <<vars, k_reenter, tss, frame>>

\* The functions of sys_call_table: sleep, message passing that blocks or
\* unblocks, reading the time; and printing on the console that is shown, where
\* set_cursor leaves interrupts on behind it.
sys_body ==
  /\ running("sys", "body")
  /\ \/ /\ UNCHANGED vars \/ block
           \/ (\E n \in 0 .. MaxSleep : sys_sleep(n)) \/ (\E q \in Proc : unblock(q))
        /\ UNCHANGED iflag
     \/ UNCHANGED vars /\ iflag' = TRUE
  /\ goto("leave")
  /\ UNCHANGED <<k_reenter, masked, tss, frame>>

answered(f) == IF f = "calling" THEN "saved" ELSE "lost"

sys_leave_current ==
  /\ running("sys", "leave")
  /\ frame' = [frame EXCEPT ![p_proc_ready] = answered(@)]
  /\ goto("exit")
  /\ UNCHANGED <<vars, k_reenter, iflag, masked, tss>>

\* The result goes into the frame of the caller, whoever runs next.  The cli
\* that would follow is commented out.
sys_leave ==
  /\ running("sys", "leave")
  /\ frame' = [frame EXCEPT ![top.esi] = answered(@)]
  /\ goto("exit")
  /\ UNCHANGED <<vars, k_reenter, iflag, masked, tss>>

----------------------------------------------------------------------------
(* Exit *)

leaving(r, a) == ~user_mode /\ top.to = r /\ top.at = a

load_esp_only ==
  /\ leaving("restart", "exit")
  /\ goto("loaded")
  /\ UNCHANGED <<vars, k_reenter, iflag, masked, tss, frame>>

\* restart: the stack pointer and the TSS take the process the scheduler chose.
restart_load ==
  /\ leaving("restart", "exit")
  /\ tss' = p_proc_ready
  /\ goto("loaded")
  /\ UNCHANGED <<vars, k_reenter, iflag, masked, frame>>

restart_pop ==
  /\ leaving("restart", "loaded")
  /\ k_reenter' = k_reenter - 1
  /\ goto("popping")
  /\ UNCHANGED <<vars, iflag, masked, tss, frame>>

\* iretd into the process; its eflags have interrupts on.
restart_iretd ==
  /\ leaving("restart", "popping")
  /\ stack' = <<>>
  /\ iflag' = TRUE
  /\ frame' = [frame EXCEPT ![tss] = IF @ = "saved" THEN "stale" ELSE "lost"]
  /\ UNCHANGED <<vars, k_reenter, masked, tss>>

\* Back into the kernel, where interrupts were on.
restart_reenter ==
  /\ leaving("restart_reenter", "exit")
  /\ k_reenter' = k_reenter - 1
  /\ stack' = Front(stack)
  /\ iflag' = TRUE
  /\ UNCHANGED <<vars, masked, tss, frame>>

\* A driver task opens its line, once it is ready for it.
enable_irq(i) ==
  /\ user_mode /\ i \in masked
  /\ masked' = masked \ {i}
  /\ UNCHANGED <<vars, stack, k_reenter, iflag, tss, frame>>

\* One step of the entry that b made, which must be the latest.
progress(b) ==
  /\ ~user_mode /\ top.by = b
  /\ \/ clock_irq \/ sys_body \/ sys_leave
     \/ \E i \in IRQ : other_irq(i) \/ hwint_leave(i)
     \/ restart_load \/ restart_pop \/ restart_iretd \/ restart_reenter

Entrant == IRQ \union {"sys", "main"}

KernelNext ==
  \/ \E i \in IRQ : hwint(i) \/ enable_irq(i)
  \/ sys_call
  \/ \E b \in Entrant : progress(b)

\* The processor gets on with every entry, however many interrupts break in,
\* and the timer's ticks do not all fall into the kernel.
KernelSpec ==
  /\ KernelInit /\ [][KernelNext]_kvars
  /\ \A b \in Entrant : SF_kvars(progress(b))
  /\ SF_kvars(user_mode /\ hwint("CLOCK"))

----------------------------------------------------------------------------

\* Whoever enters and however the entries nest, every process that does not run
\* has all it needs in its frame, and the result of its call if it made one.
FramesWhole ==
  \A p \in Proc : frame[p] # "saved" =>
    \/ frame[p] = "stale" /\ user_mode /\ p = tss
    \/ /\ frame[p] = "calling" /\ ~user_mode
       /\ stack[1].by = "sys" /\ stack[1].esi = p /\ stack[1].at \in {"body", "leave"}

\* The process that runs is the one the scheduler last chose, it is runnable,
\* and the next interrupt will be saved in its own frame.
RunsChosen == user_mode => tss = p_proc_ready /\ flags[p_proc_ready] = "READY"

\* The kernel stack stays shallow: no line interrupts its own handler, only the
\* first entry is a system call, and k_reenter counts the entries exactly.
NestingExact ==
  /\ \A m, n \in DOMAIN stack : m # n => stack[m].by # stack[n].by
  /\ \A n \in DOMAIN stack : n > 1 => stack[n].by \in IRQ
  /\ k_reenter = Len(stack) - 1 - (IF ~user_mode /\ top.at = "popping" THEN 1 ELSE 0)

\* save says of esi: the start of a process's regs in the process table, at the
\* entry for which k_reenter becomes 0.
SavedInTable ==
  ~user_mode /\ stack[1].by # "main" => stack[1].esi \in Proc

\* Every runnable process whose frame is complete is resumed in user mode,
\* whatever handlers, nested entries and other processes do: the scheduler's
\* choice always reaches the processor.
ReadyRuns ==
  \A p \in Proc : (flags[p] = "READY" /\ frame[p] = "saved") ~> (user_mode /\ tss = p)
=============================================================================
