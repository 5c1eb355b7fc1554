------------------------------- MODULE Sched -------------------------------
(***************************************************************************)
(* The scheduler: schedule() of src/kernel/sched.c, the clock interrupt,   *)
(* sys_sleep, and the blocking and unblocking that message passing does.   *)
(*                                                                         *)
(* Of p_flags it matters here whether the word is 0 (READY), holds         *)
(* PROC_SLEEP, or holds any other bit (BLOCKED: SENDING, RECEIVING,        *)
(* WAITING, HANGING, FREE_SLOT).  wake_up_ticks is kept as the time that   *)
(* is left, wake_up_ticks - ticks: below 0 the sleeper is overdue.  The    *)
(* global counters ticks, kernel_ticks and unix_time are read by no        *)
(* decision but that one and are left out.                                 *)
(***************************************************************************)
EXTENDS Integers

CONSTANTS
  Proc,       \* the slots of proc_table, by number: the table's order counts
  priority,   \* the ticks a process gets when everybody has used theirs up
  Busy,       \* processes that never block: the loop of task_tty, Init's while(1)
  MaxSleep,   \* bound: the longest sleep, in ticks
  MaxDebt     \* bound: how far below 0 nested clock interrupts take a counter

ASSUME SchedAssumption ==
  /\ Proc \subseteq Nat
  /\ priority \in [Proc -> Nat \ {0}]
  /\ Busy \subseteq Proc /\ Busy # {}
  /\ MaxSleep \in Nat /\ MaxDebt \in Nat

VARIABLES
  flags,          \* what p_flags says of a process
  ticks,          \* the ticks it may still use
  left,           \* wake_up_ticks - ticks for a sleeping process, else 0
  p_proc_ready,   \* the process that runs, or runs next
  hung            \* schedule() loops for ever: nobody is READY

vars == <<flags, ticks, left, p_proc_ready, hung>>

\* init_sched and main(): everybody READY with a full counter, process 0 runs.
Init ==
  /\ flags = [p \in Proc |-> "READY"]
  /\ ticks = priority
  /\ left = [p \in Proc |-> 0]
  /\ p_proc_ready \in {p \in Proc : \A q \in Proc : p <= q}
  /\ hung = FALSE

----------------------------------------------------------------------------
(* schedule(), as a function of the flags, counters and times it finds *)

wake_late(f, l) ==
  [p \in Proc |-> IF f[p] = "PROC_SLEEP" /\ l[p] < 0 THEN "READY" ELSE f[p]]

\* The first loop takes the sleepers whose time has come out of their sleep.
wake(f, l) ==
  [p \in Proc |-> IF f[p] = "PROC_SLEEP" /\ l[p] <= 0 THEN "READY" ELSE f[p]]

refill_always(R, t) ==
  [p \in Proc |-> IF p \in R THEN priority[p] ELSE t[p]]

\* wake_up_ticks of those that have been woken is cleared.
times(w, l) == [p \in Proc |-> IF w[p] = "PROC_SLEEP" THEN l[p] ELSE 0]

\* When no READY process has ticks left, every READY process gets its priority.
refill(R, t) ==
  IF \E p \in R : t[p] > 0
  THEN t
  ELSE [p \in Proc |-> IF p \in R THEN priority[p] ELSE t[p]]

\* p->ticks > MaxTicks keeps the first of the READY processes with most ticks.
chosen(p, R, t) ==
  /\ p \in R /\ t[p] > 0
  /\ \A q \in R : t[q] < t[p] \/ (t[q] = t[p] /\ p <= q)

\* The processes schedule() looks at: p_flags == 0.
runnable(f) == {p \in Proc : f[p] = "READY"}

schedule(f, t, l) ==
  LET w == wake(f, l)
      R == runnable(w)
      u == refill(R, t)
  IN IF R = {}
     THEN /\ hung' = TRUE
          /\ flags' = w /\ ticks' = t /\ left' = times(w, l)
          /\ UNCHANGED p_proc_ready
     ELSE /\ \E p \in R : chosen(p, R, u) /\ p_proc_ready' = p
          /\ flags' = w /\ ticks' = u /\ left' = times(w, l)
          /\ UNCHANGED hung

----------------------------------------------------------------------------
(* The clock *)

\* ticks++ brings every sleeper closer to its time, or takes it further past it.
elapse(l) == [p \in Proc |-> IF flags[p] = "PROC_SLEEP" THEN l[p] - 1 ELSE l[p]]

\* The running process pays for the tick.
charge(t) == [t EXCEPT ![p_proc_ready] = @ - 1]

\* The counter of the running process is used up.
used_up(t) == t[p_proc_ready] <= 0

\* The clock interrupts a process: k_reenter is 0.
clock_handler ==
  /\ ~hung
  /\ LET t == charge(ticks)
         l == elapse(left)
     IN \/ /\ ~used_up(t)
           /\ ticks' = t /\ left' = l
           /\ UNCHANGED <<flags, p_proc_ready, hung>>
        \/ /\ used_up(t)
           /\ schedule(flags, t, l)

\* The clock interrupts the kernel (another handler, or a system call that
\* prints): k_reenter is not 0 and the handler only counts.
clock_handler_nested ==
  /\ ~hung /\ ticks[p_proc_ready] > 0 - MaxDebt
  /\ ticks' = charge(ticks) /\ left' = elapse(left)
  /\ UNCHANGED <<flags, p_proc_ready, hung>>

----------------------------------------------------------------------------
(* System calls of the running process *)

may_block_any(p) == TRUE

\* The processes whose code has no blocking call in it.
may_block(p) == p \notin Busy

\* sys_sleep for n ticks (ms * HZ / 1000, so 0 for a sleep below 10 ms).
sys_sleep(n) ==
  /\ ~hung /\ may_block(p_proc_ready)
  /\ schedule([flags EXCEPT ![p_proc_ready] = "PROC_SLEEP"], ticks,
              [left EXCEPT ![p_proc_ready] = n])

\* block(): called by msg_send and msg_recevie with a flag set.
block ==
  /\ ~hung /\ may_block(p_proc_ready)
  /\ schedule([flags EXCEPT ![p_proc_ready] = "BLOCKED"], ticks, left)

\* The other party of a message, or an interrupt, clears the last flag of q.
\* Nobody calls schedule(): the running process goes on.
unblock(q) ==
  /\ ~hung /\ flags[q] = "BLOCKED"
  /\ flags' = [flags EXCEPT ![q] = "READY"]
  /\ UNCHANGED <<ticks, left, p_proc_ready, hung>>

Next ==
  \/ clock_handler
  \/ clock_handler_nested
  \/ \E n \in 0 .. MaxSleep : sys_sleep(n)
  \/ block
  \/ \E q \in Proc : unblock(q)

\* The timer chip never stops, and a tick that finds the kernel busy does not
\* find it busy for ever.
Spec == Init /\ [][Next]_vars /\ WF_vars(clock_handler)

----------------------------------------------------------------------------

TypeOK ==
  /\ flags \in [Proc -> {"READY", "BLOCKED", "PROC_SLEEP"}]
  /\ ticks \in [Proc -> Int]
  /\ left \in [Proc -> Int]
  /\ p_proc_ready \in Proc
  /\ hung \in BOOLEAN

\* schedule() always finds a process: its loop runs with interrupts off in a
\* system call, so the machine would stop dead if everybody were blocked.
NeverHung == ~hung

\* restart() loads a process that is runnable: nobody that waits for a message
\* or for its time is ever resumed by the scheduler.
CurrentIsReady == flags[p_proc_ready] = "READY"

\* Nobody collects more ticks than its priority, however often it blocks,
\* sleeps and comes back.
NoHoarding == \A p \in Proc : ticks[p] <= priority[p]

\* Nobody sleeps past its time for longer than the running process has had the
\* processor since schedule() chose it, although nothing but schedule() wakes
\* sleepers and many calls and nested ticks never get there.
WakeLatency ==
  \A p \in Proc : flags[p] = "PROC_SLEEP" =>
    left[p] > ticks[p_proc_ready] - priority[p_proc_ready]
============================================================================
