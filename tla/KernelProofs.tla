--------------------------- MODULE KernelProofs ----------------------------
(***************************************************************************)
(* The safety of the scheduler, for any table, priorities and bounds.      *)
(* The scheduler inside the kernel: entering, nesting and leaving never    *)
(* touches its state except through its own operations, so what is proved  *)
(* of the scheduler alone holds of the whole.  And the entries themselves: *)
(* unless an interrupt falls between the instructions of restart, they     *)
(* nest by lines, k_reenter counts them and no frame is lost.              *)
(***************************************************************************)
EXTENDS KernelEntry, TLAPS

----------------------------------------------------------------------------
(* The scheduler alone *)

\* Somebody is always READY, because a process of Busy never leaves that state.
BusyReady == \A p \in Busy : flags[p] = "READY"

IInv ==
  TypeOK /\ NeverHung /\ CurrentIsReady /\ NoHoarding /\ BusyReady /\ WakeLatency

\* schedule() called with counters in range and every busy process READY picks
\* a READY process and keeps all that.
LEMMA ScheduleInv ==
  ASSUME NEW f \in [Proc -> {"READY", "BLOCKED", "PROC_SLEEP"}],
         NEW t \in [Proc -> Int], NEW l \in [Proc -> Int],
         \A p \in Busy : f[p] = "READY",
         \A p \in Proc : t[p] <= priority[p],
         hung = FALSE, schedule(f, t, l)
  PROVE  IInv'
<1> DEFINE w == wake(f, l)
           R == {p \in Proc : w[p] = "READY"}
           u == refill(R, t)
<1> USE SchedAssumption
<1>1. w \in [Proc -> {"READY", "BLOCKED", "PROC_SLEEP"}] /\ \A p \in Busy : w[p] = "READY"
  BY DEF wake
<1>2. Busy \subseteq R /\ R # {}
  BY <1>1
<1>3. u \in [Proc -> Int] /\ \A p \in Proc : u[p] <= priority[p]
  BY DEF refill
<1>4. /\ \E p \in R : p_proc_ready' = p
      /\ flags' = w /\ ticks' = u /\ left' = times(w, l) /\ hung' = FALSE
  <2> HIDE DEF w, u
  <2>1. schedule(f, t, l) <=>
          IF R = {} THEN /\ hung' = TRUE
                         /\ flags' = w /\ ticks' = t /\ left' = times(w, l)
                         /\ UNCHANGED p_proc_ready
                    ELSE /\ \E p \in R : chosen(p, R, u) /\ p_proc_ready' = p
                         /\ flags' = w /\ ticks' = u /\ left' = times(w, l)
                         /\ UNCHANGED hung
    BY DEF schedule, w, u, runnable
  <2> QED
    BY <1>2, <2>1
<1>5. times(w, l) \in [Proc -> Int]
      /\ \A p \in Proc : w[p] = "PROC_SLEEP" => times(w, l)[p] > 0
  <2>1. ASSUME NEW p \in Proc, w[p] = "PROC_SLEEP" PROVE l[p] > 0
    BY <2>1 DEF wake
  <2> QED
    BY <2>1 DEF times
<1> HIDE DEF w, u
<1>6. ASSUME NEW p \in Proc, (flags[p] = "PROC_SLEEP")'
      PROVE  (left[p] > ticks[p_proc_ready] - priority[p_proc_ready])'
  <2>1. PICK r \in Proc : p_proc_ready' = r
    BY <1>4
  <2>2. left'[p] > 0 /\ left'[p] \in Int
    BY <1>4, <1>5, <1>6
  <2>3. u[r] \in Int /\ u[r] <= priority[r] /\ priority[r] \in Int
    BY <1>3
  <2>4. left'[p] > u[r] - priority[r]
    BY <2>2, <2>3
  <2> QED
    BY <1>4, <2>1, <2>4
<1>7. WakeLatency'
  BY <1>6 DEF WakeLatency
<1> QED
  BY <1>1, <1>3, <1>4, <1>5, <1>7 DEF IInv, TypeOK, NeverHung, CurrentIsReady, NoHoarding, BusyReady

\* Charging the running process for a tick only lowers a counter.
LEMMA ChargeFacts ==
  ASSUME IInv
  PROVE  /\ charge(ticks) \in [Proc -> Int]
         /\ \A p \in Proc : charge(ticks)[p] <= priority[p]
         /\ elapse(left) \in [Proc -> Int]
BY SchedAssumption DEF IInv, TypeOK, NoHoarding, charge, elapse

\* A tick brings a sleeper one closer to its time and costs the running process
\* one: a sleeper is never overdue by more than has been paid.
LEMMA TickLatency ==
  ASSUME IInv, flags' = flags, p_proc_ready' = p_proc_ready,
         ticks' = charge(ticks), left' = elapse(left)
  PROVE  WakeLatency'
<1> SUFFICES ASSUME NEW p \in Proc, flags[p] = "PROC_SLEEP"
             PROVE  left'[p] > ticks'[p_proc_ready] - priority[p_proc_ready]
  BY DEF WakeLatency
<1>1. left[p] > ticks[p_proc_ready] - priority[p_proc_ready]
  BY DEF IInv, WakeLatency
<1>2. /\ left[p] \in Int /\ p_proc_ready \in Proc /\ ticks[p_proc_ready] \in Int
      /\ priority[p_proc_ready] \in Int
  BY SchedAssumption DEF IInv, TypeOK
<1>3. left'[p] = left[p] - 1 /\ ticks'[p_proc_ready] = ticks[p_proc_ready] - 1
  <2>1. left'[p] = left[p] - 1
    BY DEF elapse
  <2>2. ticks'[p_proc_ready] = ticks[p_proc_ready] - 1
    BY <1>2 DEF charge, IInv, TypeOK
  <2> QED
    BY <2>1, <2>2
<1> QED
  BY <1>1, <1>2, <1>3

\* No tick, system call or unblocking breaks the invariant.
LEMMA NextInv == IInv /\ [Next]_vars => IInv'
<1> SUFFICES ASSUME IInv, [Next]_vars PROVE IInv'
  OBVIOUS
<1> USE SchedAssumption
<1>0. /\ flags \in [Proc -> {"READY", "BLOCKED", "PROC_SLEEP"}]
      /\ ticks \in [Proc -> Int] /\ left \in [Proc -> Int]
      /\ \A p \in Busy : flags[p] = "READY"
      /\ \A p \in Proc : ticks[p] <= priority[p]
      /\ hung = FALSE /\ p_proc_ready \in Proc
  BY DEF IInv, TypeOK, NeverHung, NoHoarding, BusyReady
<1>1. ASSUME clock_handler PROVE IInv'
  <2>1. CASE used_up(charge(ticks))
    BY <1>0, <1>1, <2>1, ChargeFacts, ScheduleInv DEF clock_handler
  <2>2. CASE ~used_up(charge(ticks))
    <3>1. WakeLatency'
      BY <1>1, <2>2, TickLatency DEF clock_handler
    <3> QED
      BY <1>1, <2>2, <3>1, ChargeFacts DEF clock_handler, IInv, TypeOK, NeverHung,
         CurrentIsReady, NoHoarding, BusyReady
  <2> QED
    BY <2>1, <2>2
<1>2. ASSUME clock_handler_nested PROVE IInv'
  <2>1. WakeLatency'
    BY <1>2, TickLatency DEF clock_handler_nested
  <2> QED
    BY <1>2, <2>1, ChargeFacts DEF clock_handler_nested, IInv, TypeOK, NeverHung,
       CurrentIsReady, NoHoarding, BusyReady
<1>3. ASSUME NEW n \in 0 .. MaxSleep, sys_sleep(n) PROVE IInv'
  <2> DEFINE f == [flags EXCEPT ![p_proc_ready] = "PROC_SLEEP"]
             l == [left EXCEPT ![p_proc_ready] = n]
  <2>1. /\ f \in [Proc -> {"READY", "BLOCKED", "PROC_SLEEP"}]
        /\ l \in [Proc -> Int] /\ \A p \in Busy : f[p] = "READY"
    BY <1>0, <1>3 DEF sys_sleep, may_block
  <2>2. schedule(f, ticks, l)
    BY <1>3 DEF sys_sleep
  <2> HIDE DEF f, l
  <2> QED
    BY <1>0, <2>1, <2>2, ScheduleInv
<1>4. ASSUME block PROVE IInv'
  <2> DEFINE f == [flags EXCEPT ![p_proc_ready] = "BLOCKED"]
  <2>1. /\ f \in [Proc -> {"READY", "BLOCKED", "PROC_SLEEP"}]
        /\ \A p \in Busy : f[p] = "READY"
    BY <1>0, <1>4 DEF block, may_block
  <2>2. schedule(f, ticks, left)
    BY <1>4 DEF block
  <2> HIDE DEF f
  <2> QED
    BY <1>0, <2>1, <2>2, ScheduleInv
<1>5. ASSUME NEW q \in Proc, unblock(q) PROVE IInv'
  <2>1. \A p \in Proc : flags'[p] = "PROC_SLEEP" => flags[p] = "PROC_SLEEP"
    BY <1>0, <1>5 DEF unblock
  <2>2. WakeLatency'
    BY <1>5, <2>1 DEF unblock, IInv, WakeLatency
  <2> QED
    BY <1>5, <2>2 DEF unblock, IInv, TypeOK, NeverHung, CurrentIsReady, NoHoarding, BusyReady
<1>6. ASSUME UNCHANGED vars PROVE IInv'
  BY <1>6 DEF vars, IInv, TypeOK, NeverHung, CurrentIsReady, NoHoarding, BusyReady, WakeLatency
<1> QED
  BY <1>1, <1>2, <1>3, <1>4, <1>5, <1>6 DEF Next

\* The scheduler starts with everybody READY and a full counter.
LEMMA InitInv == Init => IInv
<1> SUFFICES ASSUME Init PROVE IInv
  OBVIOUS
<1>0. priority \in [Proc -> Int] /\ \A p \in Proc : priority[p] <= priority[p]
  BY SchedAssumption
<1>1. /\ flags \in [Proc -> {"READY", "BLOCKED", "PROC_SLEEP"}]
      /\ ticks \in [Proc -> Int]
      /\ p_proc_ready \in Proc /\ hung \in BOOLEAN /\ ~hung
  BY <1>0 DEF Init
<1>2. NoHoarding
  BY <1>0 DEF Init, NoHoarding
<1>3. CurrentIsReady /\ BusyReady
  BY <1>1, SchedAssumption DEF Init, CurrentIsReady, BusyReady
<1>4. left \in [Proc -> Int]
  BY DEF Init
<1>5. WakeLatency
  BY DEF Init, WakeLatency
<1> QED
  BY <1>1, <1>2, <1>3, <1>4, <1>5 DEF IInv, TypeOK, NeverHung

\* The scheduler never loops for ever and never resumes a process that is not
\* runnable; no process collects more ticks than its priority, and nobody stays
\* asleep past its time for longer than the running process has run.
THEOREM SchedulerSafe ==
  Spec => [](NeverHung /\ CurrentIsReady /\ NoHoarding /\ WakeLatency)
<1>1. IInv => NeverHung /\ CurrentIsReady /\ NoHoarding /\ WakeLatency
  BY DEF IInv
<1> QED
  BY <1>1, InitInv, NextInv, PTL DEF Spec

----------------------------------------------------------------------------
(* The scheduler inside the kernel *)

\* An entry, a handler or an exit is a step of the scheduler or leaves it alone.
LEMMA SchedStep == [KernelNext]_kvars => [Next]_vars
<1> SUFFICES ASSUME [KernelNext]_kvars PROVE [Next]_vars
  OBVIOUS
<1>1. CASE UNCHANGED kvars
  BY <1>1 DEF kvars
<1>2. ASSUME NEW i \in IRQ, hwint(i) \/ enable_irq(i) PROVE UNCHANGED vars
  BY <1>2 DEF hwint, enable_irq
<1>3. ASSUME sys_call PROVE UNCHANGED vars
  BY <1>3 DEF sys_call
<1>4. ASSUME NEW b \in Entrant, progress(b) PROVE [Next]_vars
  <2>1. ASSUME clock_irq PROVE Next
    BY <2>1 DEF clock_irq, Next
  <2>2. ASSUME sys_body PROVE [Next]_vars
    BY <2>2 DEF sys_body, Next
  <2>3. ASSUME NEW i \in IRQ, other_irq(i) PROVE [Next]_vars
    BY <2>3 DEF other_irq, Next
  <2>4. ASSUME NEW i \in IRQ, hwint_leave(i) PROVE UNCHANGED vars
    BY <2>4 DEF hwint_leave
  <2>5. ASSUME sys_leave \/ restart_load \/ restart_pop \/ restart_iretd \/ restart_reenter
        PROVE  UNCHANGED vars
    BY <2>5 DEF sys_leave, restart_load, restart_pop, restart_iretd, restart_reenter
  <2> QED
    BY <1>4, <2>1, <2>2, <2>3, <2>4, <2>5 DEF progress
<1> QED
  BY <1>1, <1>2, <1>3, <1>4 DEF KernelNext

\* With interrupts nesting at every point the code leaves open: schedule() always
\* finds a process, it is a runnable one, nobody hoards ticks, and nobody sleeps
\* on for longer than the running process has run.
THEOREM KernelSafe ==
  KernelSpec => [](NeverHung /\ CurrentIsReady /\ NoHoarding /\ WakeLatency)
<1>1. KernelInit => IInv
  BY InitInv DEF KernelInit
<1>2. IInv /\ [KernelNext]_kvars => IInv'
  BY SchedStep, NextInv
<1>3. IInv => NeverHung /\ CurrentIsReady /\ NoHoarding /\ WakeLatency
  BY DEF IInv
<1> QED
  BY <1>1, <1>2, <1>3, PTL DEF KernelSpec

----------------------------------------------------------------------------
(* The entries: no interrupt falls between the instructions of restart. *)

At == {"body", "leave", "exit", "loaded", "popping"}
Entry == [by : Entrant, at : At, to : {"restart", "restart_reenter"},
          esi : Proc \cup {Elsewhere}]

\* Every variable of the entry code holds a value of its type.
EntryTypes ==
  /\ stack \in Seq(Entry)
  /\ k_reenter \in Int /\ iflag \in BOOLEAN
  /\ masked \subseteq IRQ /\ tss \in Proc
  /\ frame \in [Proc -> {"saved", "calling", "stale", "lost"}]

\* Only the first entry returns to a process, and only it has saved one.
FirstReturns ==
  \A n \in 1 .. Len(stack) :
    /\ stack[n].to = "restart" <=> n = 1
    /\ stack[n].at \in {"loaded", "popping"} => n = 1
    /\ n = 1 /\ stack[n].by # "main" => stack[n].esi \in Proc
    /\ stack[n].by = "main" => stack[n].at \notin {"body", "leave"}

\* An entry that has been interrupted was still in its handler or, if it is a
\* system call, on its way to restart.
Interrupted ==
  \A n \in 1 .. Len(stack) - 1 :
    stack[n].at \in {"body", "leave"} \/ (stack[n].by = "sys" /\ stack[n].at = "exit")

\* The line of a handler is masked until its end.
LinesMasked ==
  \A n \in 1 .. Len(stack) :
    stack[n].by \in IRQ /\ stack[n].at \in {"body", "leave"} => stack[n].by \in masked

\* Behind its handler an interrupt keeps interrupts off.
OffAtExit ==
  stack # <<>> /\ stack[Len(stack)].by # "sys"
    /\ stack[Len(stack)].at \notin {"body", "leave"} => ~iflag

\* From restart on the TSS names the process the scheduler chose.
TssChosen ==
  stack = <<>> \/ stack[Len(stack)].at \in {"loaded", "popping"} => tss = p_proc_ready

\* A system call under way has its caller's frame waiting for the result.
CallerWaits ==
  stack # <<>> /\ stack[1].by = "sys" /\ stack[1].at \in {"body", "leave"} =>
    frame[stack[1].esi] = "calling"

EntryInv ==
  /\ EntryTypes /\ FirstReturns /\ Interrupted /\ LinesMasked /\ OffAtExit
  /\ TssChosen /\ CallerWaits /\ NestingExact /\ FramesWhole

\* An entry that goes on changes nothing but how far it has come.
LEMMA GotoFacts ==
  ASSUME EntryTypes, ~user_mode, NEW a \in At, goto(a)
  PROVE  /\ stack' \in Seq(Entry) /\ Len(stack') = Len(stack)
         /\ \A n \in 1 .. Len(stack) :
              /\ stack'[n].by = stack[n].by /\ stack'[n].to = stack[n].to
              /\ stack'[n].esi = stack[n].esi
              /\ stack'[n].at = IF n = Len(stack) THEN a ELSE stack[n].at
<1>1. stack \in Seq(Entry) /\ Len(stack) \in Nat /\ Len(stack) \in 1 .. Len(stack)
  BY DEF EntryTypes, user_mode
<1> DEFINE L == Len(stack)
           e == [stack[L] EXCEPT !.at = a]
<1>2. stack' = [stack EXCEPT ![L] = e]
  BY DEF goto
<1>3. e \in Entry /\ e.by = stack[L].by /\ e.to = stack[L].to /\ e.esi = stack[L].esi /\ e.at = a
  <2>1. stack[L] \in Entry
    BY <1>1
  <2> QED
    BY <2>1 DEF Entry
<1> HIDE DEF e
<1>4. stack' \in Seq(Entry) /\ Len(stack') = L
  BY <1>1, <1>2, <1>3
<1>5. \A n \in 1 .. L : stack'[n] = IF n = L THEN e ELSE stack[n]
  BY <1>1, <1>2
<1> QED
  BY <1>3, <1>4, <1>5

\* How an entry from user mode, an interrupt inside the kernel and the return
\* from one change the stack.
LEMMA SaveFacts ==
  ASSUME EntryInv, NEW b \in Entrant, save(b), ~in_restart
  PROVE  \/ /\ stack = <<>> /\ k_reenter' = 0 /\ Len(stack') = 1 /\ stack' \in Seq(Entry)
            /\ stack'[1] = [by |-> b, at |-> "body", esi |-> tss, to |-> "restart"]
            /\ frame' = [frame EXCEPT ![tss] = IF b = "sys" THEN "calling" ELSE "saved"]
         \/ /\ stack # <<>> /\ k_reenter' = k_reenter + 1
            /\ Len(stack') = Len(stack) + 1 /\ stack' \in Seq(Entry)
            /\ \A n \in 1 .. Len(stack) : stack'[n] = stack[n]
            /\ stack'[Len(stack) + 1] =
                 [by |-> b, at |-> "body", esi |-> Elsewhere, to |-> "restart_reenter"]
            /\ frame' = frame
<1>1. stack \in Seq(Entry) /\ Len(stack) \in Nat /\ tss \in Proc
  BY DEF EntryInv, EntryTypes
<1>2. CASE stack = <<>>
  <2>1. k_reenter' = 0
    BY <1>2 DEF EntryInv, NestingExact, user_mode, save
  <2>2. stack' = <<[by |-> b, at |-> "body", esi |-> tss, to |-> "restart"]>>
    BY <1>2, <2>1 DEF save, saved_in, user_mode
  <2>3. [by |-> b, at |-> "body", esi |-> tss, to |-> "restart"] \in Entry
    BY <1>1 DEF Entry, At
  <2>4. frame' = [frame EXCEPT ![tss] = IF b = "sys" THEN "calling" ELSE "saved"]
    BY <1>2 DEF save, frame_after, user_mode
  <2> QED
    BY <1>2, <2>1, <2>2, <2>3, <2>4
<1>3. CASE stack # <<>>
  <2>1. k_reenter = Len(stack) - 1 /\ Len(stack) > 0
    BY <1>1, <1>3 DEF EntryInv, NestingExact, user_mode, in_restart
  <2>2. stack' = Append(stack, [by |-> b, at |-> "body", esi |-> Elsewhere,
                                to |-> "restart_reenter"])
    BY <1>1, <1>3, <2>1 DEF save, saved_in, user_mode
  <2>3. [by |-> b, at |-> "body", esi |-> Elsewhere, to |-> "restart_reenter"] \in Entry
    BY <1>1 DEF Entry, At
  <2>4. frame' = frame
    BY <1>3 DEF save, frame_after, user_mode, in_restart
  <2>5. k_reenter' = k_reenter + 1
    BY DEF save
  <2> QED
    BY <1>1, <1>3, <2>2, <2>3, <2>4, <2>5
<1> QED
  BY <1>2, <1>3

\* Whoever enters from user mode makes the first entry and saves the process
\* that runs in its own frame.
LEMMA EnterInv ==
  ASSUME EntryInv, NEW b \in IRQ \cup {"sys"}, save(b), stack = <<>>,
         masked' \subseteq IRQ, b \in IRQ => b \in masked', iflag' \in BOOLEAN
  PROVE  EntryInv'
<1> USE EntryAssumption
<1>0. /\ tss \in Proc /\ tss' = tss /\ b \in Entrant /\ b # "main"
      /\ frame \in [Proc -> {"saved", "calling", "stale", "lost"}]
  BY DEF EntryInv, EntryTypes, save, Entrant
<1>1. /\ k_reenter' = 0 /\ Len(stack') = 1 /\ stack' \in Seq(Entry)
      /\ stack'[1] = [by |-> b, at |-> "body", esi |-> tss, to |-> "restart"]
      /\ frame' = [frame EXCEPT ![tss] = IF b = "sys" THEN "calling" ELSE "saved"]
  BY <1>0, SaveFacts DEF in_restart, user_mode
<1>2. /\ stack' # <<>> /\ DOMAIN stack' = 1 .. 1 /\ \A n \in 1 .. 1 : n = 1
      /\ \A n \in 1 .. 1 - 1 : FALSE
  BY <1>1
<1>3. /\ stack'[1].by = b /\ stack'[1].at = "body" /\ stack'[1].esi = tss
      /\ stack'[1].to = "restart"
  BY <1>1
<1>4. EntryTypes'
  BY <1>0, <1>1 DEF EntryTypes
<1>5. FirstReturns' /\ Interrupted' /\ LinesMasked'
  BY <1>0, <1>1, <1>2, <1>3 DEF FirstReturns, Interrupted, LinesMasked
<1>6. OffAtExit' /\ TssChosen' /\ CallerWaits'
  BY <1>0, <1>1, <1>2, <1>3 DEF OffAtExit, TssChosen, CallerWaits
<1>7. NestingExact'
  <2>1. top'.at = "body"
    BY <1>1, <1>3 DEF top, Last
  <2> QED
    BY <1>1, <1>2, <2>1 DEF NestingExact, user_mode
<1>8. FramesWhole'
  <2>1. \A p \in Proc \ {tss} : frame'[p] = "saved"
    BY <1>0, <1>1 DEF FramesWhole, EntryInv, user_mode
  <2>2. frame'[tss] = IF b = "sys" THEN "calling" ELSE "saved"
    BY <1>0, <1>1
  <2> QED
    BY <1>0, <1>2, <1>3, <2>1, <2>2 DEF FramesWhole, user_mode
<1> QED
  BY <1>4, <1>5, <1>6, <1>7, <1>8 DEF EntryInv

\* An interrupt finds a line that no handler under way holds, and breaks into
\* no restart.
LEMMA HwintInv ==
  ASSUME ~Window, EntryInv, NEW i \in IRQ, hwint(i)
  PROVE  EntryInv'
<1> USE EntryAssumption
<1>0. /\ stack \in Seq(Entry) /\ Len(stack) \in Nat /\ tss \in Proc /\ masked \subseteq IRQ
      /\ frame \in [Proc -> {"saved", "calling", "stale", "lost"}]
      /\ i \in Entrant /\ ~in_restart /\ i \notin masked /\ iflag
      /\ masked' = masked \cup {i} /\ iflag' = TRUE /\ tss' = tss /\ p_proc_ready' = p_proc_ready
      /\ save(i)
  BY DEF EntryInv, EntryTypes, hwint, interruptible, Entrant, save, vars
<1>1. CASE stack = <<>>
  BY <1>0, <1>1, EnterInv
<1>2. CASE stack # <<>>
  <2> DEFINE L == Len(stack)
  <2>1. /\ k_reenter' = k_reenter + 1 /\ Len(stack') = L + 1 /\ stack' \in Seq(Entry)
        /\ \A n \in 1 .. L : stack'[n] = stack[n]
        /\ stack'[L + 1] = [by |-> i, at |-> "body", esi |-> Elsewhere, to |-> "restart_reenter"]
        /\ frame' = frame
    BY <1>0, <1>2, SaveFacts
  <2>2. /\ stack' # <<>> /\ DOMAIN stack' = 1 .. L + 1 /\ L > 0 /\ DOMAIN stack = 1 .. L
        /\ stack[L] \in Entry /\ L \in Nat
    BY <1>0, <1>2, <2>1
  <2>3. /\ stack'[L + 1].by = i /\ stack'[L + 1].at = "body"
        /\ stack'[L + 1].to = "restart_reenter"
    BY <2>1
  <2> HIDE DEF L
  <2>4. stack[L].at \in {"body", "leave"} \/ (stack[L].by = "sys" /\ stack[L].at = "exit")
    <3>1. stack[L].at \in At /\ stack[L].at \notin {"loaded", "popping"}
      BY <1>0, <1>2, <2>2 DEF in_restart, user_mode, top, Last, Entry, L
    <3> QED
      BY <1>0, <1>2, <3>1 DEF EntryInv, OffAtExit, At, L
  <2>5. \A n \in 1 .. L : stack[n].at \in {"body", "leave"}
                          \/ (stack[n].by = "sys" /\ stack[n].at = "exit")
    BY <2>2, <2>4 DEF EntryInv, Interrupted, L
  <2>6. \A n \in 1 .. L : stack[n].by # i
    BY <1>0, <2>5 DEF EntryInv, LinesMasked, L
  <2>7. EntryTypes'
    BY <1>0, <2>1, <2>2 DEF EntryInv, EntryTypes
  <2>8. FirstReturns'
    BY <1>0, <2>1, <2>2, <2>3 DEF EntryInv, FirstReturns, L
  <2>9. Interrupted' /\ LinesMasked'
    <3>1. \A n \in 1 .. L + 1 - 1 : n \in 1 .. L
      BY <2>2
    <3>2. Interrupted'
      BY <2>1, <2>2, <2>5, <3>1 DEF Interrupted
    <3>3. ASSUME NEW n \in 1 .. L + 1 PROVE n \in 1 .. L \/ n = L + 1
      BY <2>2
    <3>4. LinesMasked'
      BY <1>0, <2>1, <2>3, <3>3 DEF EntryInv, LinesMasked, L
    <3> QED
      BY <3>2, <3>4
  <2>10. OffAtExit' /\ TssChosen' /\ CallerWaits'
    BY <1>0, <1>2, <2>1, <2>2, <2>3 DEF EntryInv, OffAtExit, TssChosen, CallerWaits
  <2>11. NestingExact'
    <3>1. k_reenter = L - 1
      <4>1. top.at # "popping"
        BY <2>4 DEF top, Last, L
      <4>2. k_reenter = L - 1 - 0
        BY <4>1 DEF EntryInv, NestingExact, L
      <4> QED
        BY <2>2, <4>2
    <3>2. top'.at = "body" /\ ~user_mode'
      BY <2>1, <2>2, <2>3 DEF top, Last, user_mode
    <3>3. k_reenter' = Len(stack') - 1
      BY <2>1, <2>2, <3>1
    <3>4. \A m, n \in 1 .. L + 1 : m # n => stack'[m].by # stack'[n].by
      BY <2>1, <2>2, <2>3, <2>6 DEF EntryInv, NestingExact
    <3>5. \A n \in 1 .. L + 1 : n > 1 => stack'[n].by \in IRQ
      BY <2>1, <2>2, <2>3 DEF EntryInv, NestingExact
    <3> QED
      BY <2>1, <2>2, <3>2, <3>3, <3>4, <3>5 DEF NestingExact
  <2>12. FramesWhole'
    BY <1>0, <1>2, <2>1, <2>2 DEF FramesWhole, EntryInv, user_mode
  <2> QED
    BY <2>7, <2>8, <2>9, <2>10, <2>11, <2>12 DEF EntryInv
<1> QED
  BY <1>1, <1>2

\* A system call comes from user mode, so it is the first entry.
LEMMA SysCallInv ==
  ASSUME EntryInv, sys_call
  PROVE  EntryInv'
<1>1. masked' \subseteq IRQ /\ iflag' \in BOOLEAN /\ stack = <<>> /\ save("sys")
  BY DEF sys_call, user_mode, EntryInv, EntryTypes
<1> QED
  BY <1>1, EnterInv, EntryAssumption

\* An entry that goes on keeps its place: what the stack looks like does not
\* change.
LEMMA GotoShape ==
  ASSUME EntryInv, ~user_mode, NEW a \in At, goto(a), top.at # "popping",
         a \in {"loaded", "popping"} => top.to = "restart",
         top.by = "main" => a \notin {"body", "leave"},
         k_reenter' = k_reenter - (IF a = "popping" THEN 1 ELSE 0)
  PROVE  /\ stack' # <<>> /\ Len(stack') = Len(stack) /\ stack' \in Seq(Entry)
         /\ FirstReturns' /\ Interrupted' /\ NestingExact'
<1>0. EntryTypes
  BY DEF EntryInv
<1> DEFINE L == Len(stack)
<1>1. /\ stack' \in Seq(Entry) /\ Len(stack') = L
      /\ \A n \in 1 .. L :
              /\ stack'[n].by = stack[n].by /\ stack'[n].to = stack[n].to
              /\ stack'[n].esi = stack[n].esi
              /\ stack'[n].at = IF n = L THEN a ELSE stack[n].at
  BY <1>0, GotoFacts
<1>2. L \in Nat /\ L > 0 /\ DOMAIN stack = 1 .. L /\ DOMAIN stack' = 1 .. L /\ stack' # <<>>
  BY <1>0, <1>1 DEF EntryTypes, user_mode
<1>3. top = stack[L] /\ top' = stack'[L]
  BY <1>1 DEF top, Last
<1> HIDE DEF L
<1>4. FirstReturns'
  <2>1. /\ a \in {"loaded", "popping"} => stack[L].to = "restart"
        /\ stack[L].by = "main" => a \notin {"body", "leave"}
    BY <1>3
  <2>2. ASSUME NEW n \in 1 .. L
        PROVE  /\ stack'[n].to = "restart" <=> n = 1
               /\ stack'[n].at \in {"loaded", "popping"} => n = 1
               /\ n = 1 /\ stack'[n].by # "main" => stack'[n].esi \in Proc
               /\ stack'[n].by = "main" => stack'[n].at \notin {"body", "leave"}
    <3>1. /\ stack[n].to = "restart" <=> n = 1
          /\ stack[n].at \in {"loaded", "popping"} => n = 1
          /\ n = 1 /\ stack[n].by # "main" => stack[n].esi \in Proc
          /\ stack[n].by = "main" => stack[n].at \notin {"body", "leave"}
      BY DEF EntryInv, FirstReturns, L
    <3> QED
      BY ONLY <1>1, <2>1, <3>1, n \in 1 .. L
  <2> QED
    BY ONLY <1>1, <2>2 DEF FirstReturns
<1>5. Interrupted'
  <2>1. \A n \in 1 .. L - 1 : n \in 1 .. L /\ n # L
    BY <1>2
  <2> QED
    BY <1>1, <2>1 DEF EntryInv, Interrupted, L
<1>6. NestingExact'
  <2>1. k_reenter = L - 1
    <3>1. k_reenter = L - 1 - 0
      BY DEF EntryInv, NestingExact, L
    <3> QED
      BY <1>2, <3>1
  <2>2. top'.at = a /\ ~user_mode'
    BY <1>1, <1>2, <1>3 DEF user_mode
  <2>3. k_reenter' = L - 1 - (IF a = "popping" THEN 1 ELSE 0)
    BY <2>1
  <2>4. \A m, n \in 1 .. L : m # n => stack'[m].by # stack'[n].by
    BY <1>1, <1>2 DEF EntryInv, NestingExact
  <2>5. \A n \in 1 .. L : n > 1 => stack'[n].by \in IRQ
    BY <1>1, <1>2 DEF EntryInv, NestingExact
  <2> QED
    BY <1>1, <1>2, <2>2, <2>3, <2>4, <2>5 DEF NestingExact
<1> QED
  BY <1>1, <1>2, <1>4, <1>5, <1>6 DEF L

\* The handler of an interrupt and the function of a system call: from their
\* beginning to their end the frames wait where they are.
LEMMA BodyInv ==
  ASSUME EntryInv, ~user_mode, top.at = "body", goto("leave"),
         UNCHANGED <<k_reenter, masked, tss, frame>>, iflag' \in BOOLEAN
  PROVE  EntryInv'
<1>0. EntryTypes
  BY DEF EntryInv
<1> DEFINE L == Len(stack)
<1>1. /\ stack' \in Seq(Entry) /\ Len(stack') = L
      /\ \A n \in 1 .. L :
              /\ stack'[n].by = stack[n].by /\ stack'[n].esi = stack[n].esi
              /\ stack'[n].at = IF n = L THEN "leave" ELSE stack[n].at
  BY <1>0, GotoFacts DEF At
<1>2. L \in Nat /\ L > 0 /\ top = stack[L]
  BY <1>0 DEF EntryTypes, user_mode, top, Last
<1>3. k_reenter' = k_reenter - 0 /\ top.by # "main"
  BY <1>0, <1>2 DEF EntryTypes, EntryInv, FirstReturns
<1>4. stack' # <<>> /\ FirstReturns' /\ Interrupted' /\ NestingExact'
  BY <1>3, GotoShape DEF At
<1> HIDE DEF L
<1>5. EntryTypes'
  BY <1>0, <1>1 DEF EntryTypes
<1>6. LinesMasked'
  BY <1>1, <1>2 DEF EntryInv, LinesMasked, L
<1>7. OffAtExit' /\ TssChosen' /\ CallerWaits'
  BY <1>1, <1>2, <1>4 DEF EntryInv, OffAtExit, TssChosen, CallerWaits, L, user_mode
<1>8. FramesWhole'
  <2>1. 1 \in 1 .. L
    BY <1>2
  <2>2. stack'[1].by = stack[1].by /\ stack'[1].esi = stack[1].esi
        /\ (stack[1].at \in {"body", "leave"} => stack'[1].at \in {"body", "leave"})
    BY <1>1, <2>1
  <2> QED
    BY <1>4, <2>2 DEF EntryInv, FramesWhole, user_mode
<1> QED
  BY <1>4, <1>5, <1>6, <1>7, <1>8 DEF EntryInv

\* The second half of an interrupt opens its line with interrupts off.
LEMMA HwintLeaveInv ==
  ASSUME EntryInv, NEW i \in IRQ, hwint_leave(i)
  PROVE  EntryInv'
<1> USE EntryAssumption
<1>0. /\ EntryTypes /\ ~user_mode /\ top.by = i /\ top.at = "leave" /\ goto("exit")
      /\ iflag' = FALSE /\ masked' = masked \ {i} /\ UNCHANGED <<vars, k_reenter, tss, frame>>
  BY DEF EntryInv, hwint_leave, running
<1> DEFINE L == Len(stack)
<1>1. /\ stack' \in Seq(Entry) /\ Len(stack') = L
      /\ \A n \in 1 .. L :
              /\ stack'[n].by = stack[n].by /\ stack'[n].esi = stack[n].esi
              /\ stack'[n].at = IF n = L THEN "exit" ELSE stack[n].at
  BY <1>0, GotoFacts DEF At
<1>2. L \in Nat /\ L > 0 /\ L \in 1 .. L /\ 1 \in 1 .. L /\ top = stack[L] /\ DOMAIN stack = 1 .. L
  BY <1>0 DEF EntryTypes, user_mode, top, Last
<1>3. k_reenter' = k_reenter - 0
  BY <1>0 DEF EntryTypes
<1>4. stack' # <<>> /\ FirstReturns' /\ Interrupted' /\ NestingExact'
  BY <1>0, <1>3, GotoShape DEF At
<1> HIDE DEF L
<1>5. EntryTypes'
  BY <1>0, <1>1 DEF EntryTypes
<1>6. LinesMasked'
  <2>1. \A n \in 1 .. L : n # L => stack[n].by # i
    BY <1>0, <1>2 DEF EntryInv, NestingExact
  <2> QED
    BY <1>0, <1>1, <2>1 DEF EntryInv, LinesMasked, L
<1>7. OffAtExit'
  BY <1>0 DEF OffAtExit
<1>8. TssChosen' /\ CallerWaits'
  BY <1>0, <1>1, <1>2, <1>4 DEF EntryInv, TssChosen, CallerWaits, user_mode
<1>9. FramesWhole'
  <2>1. stack'[1].by = stack[1].by /\ stack'[1].esi = stack[1].esi
    BY <1>1, <1>2
  <2>2. stack[1].by = "sys" => stack'[1].at = stack[1].at
    BY <1>0, <1>1, <1>2
  <2> QED
    BY <1>0, <1>4, <2>1, <2>2 DEF EntryInv, FramesWhole, user_mode
<1> QED
  BY <1>4, <1>5, <1>6, <1>7, <1>8, <1>9 DEF EntryInv

\* A system call is the first entry, and its result goes into the frame its
\* caller was saved in.
LEMMA SysLeaveInv ==
  ASSUME EntryInv, sys_leave
  PROVE  EntryInv'
<1> USE EntryAssumption
<1>0. /\ EntryTypes /\ ~user_mode /\ top.by = "sys" /\ top.at = "leave" /\ goto("exit")
      /\ frame' = [frame EXCEPT ![top.esi] = answered(@)]
      /\ UNCHANGED <<vars, k_reenter, iflag, masked, tss>>
  BY DEF EntryInv, sys_leave, running
<1>1. Len(stack) = 1 /\ top = stack[1]
  <2>1. Len(stack) \in Nat /\ Len(stack) > 0 /\ DOMAIN stack = 1 .. Len(stack)
        /\ top = stack[Len(stack)]
    BY <1>0 DEF EntryTypes, user_mode, top, Last
  <2>2. ~(Len(stack) > 1)
    BY <1>0, <2>1 DEF EntryInv, NestingExact
  <2> QED
    BY <2>1, <2>2
<1>2. /\ stack' \in Seq(Entry) /\ Len(stack') = 1
      /\ stack'[1].by = "sys" /\ stack'[1].esi = stack[1].esi /\ stack'[1].at = "exit"
  <2>1. 1 \in 1 .. Len(stack)
    BY <1>1
  <2> QED
    BY <1>0, <1>1, <2>1, GotoFacts DEF At
<1>3. k_reenter' = k_reenter - 0
  BY <1>0 DEF EntryTypes
<1>4. stack' # <<>> /\ FirstReturns' /\ Interrupted' /\ NestingExact'
  BY <1>0, <1>3, GotoShape DEF At
<1>5. /\ stack[1].esi \in Proc /\ frame[stack[1].esi] = "calling"
      /\ frame' = [frame EXCEPT ![stack[1].esi] = "saved"]
  <2>1. stack[1].esi \in Proc
    BY <1>0, <1>1 DEF EntryInv, FirstReturns
  <2>2. frame[stack[1].esi] = "calling"
    BY <1>0, <1>1 DEF EntryInv, CallerWaits, user_mode
  <2> QED
    BY <1>0, <1>1, <2>1, <2>2 DEF answered
<1>6. EntryTypes'
  BY <1>0, <1>2, <1>5 DEF EntryTypes
<1>7. \A n \in 1 .. Len(stack') : n = 1
  BY <1>2
<1>8. LinesMasked' /\ OffAtExit'
  BY <1>2, <1>7 DEF LinesMasked, OffAtExit
<1>9. TssChosen' /\ CallerWaits'
  BY <1>2, <1>4 DEF TssChosen, CallerWaits
<1>10. FramesWhole'
  <2>1. \A p \in Proc : frame'[p] = "saved"
    BY <1>0, <1>5 DEF EntryInv, FramesWhole, EntryTypes
  <2> QED
    BY <2>1 DEF FramesWhole
<1> QED
  BY <1>4, <1>6, <1>8, <1>9, <1>10 DEF EntryInv

\* In restart every process has all it needs in its frame.
LEMMA RestartFacts ==
  ASSUME EntryInv, NEW a \in {"exit", "loaded", "popping"}, leaving("restart", a)
  PROVE  /\ EntryTypes /\ ~user_mode /\ Len(stack) = 1 /\ top = stack[1]
         /\ top.at = a /\ top.to = "restart"
         /\ \A p \in Proc : frame[p] = "saved"
<1>1. /\ EntryTypes /\ ~user_mode /\ top.at = a /\ top.to = "restart"
      /\ Len(stack) \in Nat /\ Len(stack) > 0 /\ top = stack[Len(stack)]
  BY DEF EntryInv, EntryTypes, leaving, user_mode, top, Last
<1>2. Len(stack) = 1
  BY <1>1 DEF EntryInv, FirstReturns
<1> QED
  BY <1>1, <1>2 DEF EntryInv, FramesWhole

\* restart takes the process the scheduler chose, and pops its frame.
LEMMA RestartInv ==
  ASSUME EntryInv, p_proc_ready \in Proc, restart_load \/ restart_pop
  PROVE  EntryInv'
<1> USE EntryAssumption
<1> DEFINE a == IF restart_load THEN "exit" ELSE "loaded"
           b == IF restart_load THEN "loaded" ELSE "popping"
<1>0. /\ leaving("restart", a) /\ goto(b) /\ UNCHANGED <<vars, iflag, masked, frame>>
      /\ k_reenter' = k_reenter - (IF b = "popping" THEN 1 ELSE 0)
      /\ tss' = p_proc_ready
  <2>1. CASE restart_load
    BY <2>1 DEF restart_load, EntryInv, EntryTypes
  <2>2. CASE ~restart_load
    <3>1. restart_pop /\ Len(stack) = 1 /\ top = stack[1] /\ top.at = "loaded" /\ tss' = tss
      BY <2>2, RestartFacts DEF restart_pop
    <3>2. tss = p_proc_ready
      BY <3>1 DEF EntryInv, TssChosen
    <3> QED
      BY <2>2, <3>1, <3>2 DEF restart_pop
  <2> QED
    BY <2>1, <2>2
<1>1. a \in {"exit", "loaded", "popping"} /\ b \in {"loaded", "popping"} /\ a # "popping"
  OBVIOUS
<1> HIDE DEF a, b
<1>2. /\ EntryTypes /\ ~user_mode /\ Len(stack) = 1 /\ top = stack[1]
      /\ top.at = a /\ top.to = "restart"
      /\ \A p \in Proc : frame[p] = "saved"
  BY <1>0, <1>1, RestartFacts
<1>3. /\ stack' \in Seq(Entry) /\ Len(stack') = 1
      /\ stack'[1].by = stack[1].by /\ stack'[1].at = b
  <2>1. 1 \in 1 .. Len(stack) /\ b \in At
    BY <1>1, <1>2 DEF At
  <2> QED
    BY <1>0, <1>2, <2>1, GotoFacts
<1>4. stack' # <<>> /\ FirstReturns' /\ Interrupted' /\ NestingExact'
  BY <1>0, <1>1, <1>2, GotoShape DEF At
<1>5. p_proc_ready' = p_proc_ready
  BY <1>0 DEF vars
<1>6. /\ stack[1].by # "sys" => ~iflag
      /\ stack'[1].at \notin {"body", "leave"}
  BY <1>0, <1>1, <1>2, <1>3 DEF EntryInv, OffAtExit, user_mode
<1>7. \A n \in 1 .. Len(stack') : n = 1
  BY <1>3
<1>8. LinesMasked' /\ OffAtExit'
  BY <1>0, <1>3, <1>6, <1>7 DEF LinesMasked, OffAtExit
<1>9. TssChosen' /\ CallerWaits'
  BY <1>0, <1>5, <1>6 DEF TssChosen, CallerWaits
<1>10. FramesWhole'
  BY <1>0, <1>2 DEF FramesWhole
<1> QED
  BY <1>0, <1>2, <1>3, <1>4, <1>8, <1>9, <1>10 DEF EntryInv, EntryTypes

\* iretd: the process goes on from a whole frame.
LEMMA IretdInv ==
  ASSUME EntryInv, restart_iretd
  PROVE  EntryInv'
<1>0. /\ leaving("restart", "popping") /\ stack' = <<>> /\ iflag' = TRUE
      /\ frame' = [frame EXCEPT ![tss] = IF @ = "saved" THEN "stale" ELSE "lost"]
      /\ UNCHANGED <<vars, k_reenter, masked, tss>>
  BY DEF restart_iretd
<1>1. /\ EntryTypes /\ Len(stack) = 1 /\ top = stack[1] /\ top.at = "popping" /\ ~user_mode
      /\ \A p \in Proc : frame[p] = "saved"
  BY <1>0, RestartFacts
<1>2. Len(stack') = 0 /\ stack' \in Seq(Entry) /\ DOMAIN stack' = {} /\ user_mode'
      /\ (\A n \in 1 .. 0 : FALSE) /\ (\A n \in 1 .. 0 - 1 : FALSE)
  BY <1>0 DEF user_mode
<1>3. /\ frame' = [frame EXCEPT ![tss] = "stale"] /\ tss' = tss
      /\ tss = p_proc_ready /\ p_proc_ready' = p_proc_ready
  BY <1>0, <1>1 DEF EntryInv, EntryTypes, TssChosen, vars
<1>4. EntryTypes'
  BY <1>0, <1>1, <1>2, <1>3 DEF EntryTypes
<1>5. FirstReturns' /\ Interrupted' /\ LinesMasked' /\ OffAtExit'
  <2>1. FirstReturns' /\ LinesMasked'
    BY <1>2 DEF FirstReturns, LinesMasked
  <2>2. Interrupted'
    BY <1>2 DEF Interrupted
  <2>3. OffAtExit'
    BY <1>0 DEF OffAtExit
  <2> QED
    BY <2>1, <2>2, <2>3
<1>6. TssChosen' /\ CallerWaits'
  BY <1>0, <1>3 DEF TssChosen, CallerWaits
<1>7. NestingExact'
  <2>1. k_reenter = 1 - 1 - 1
    BY <1>1 DEF EntryInv, NestingExact
  <2>2. k_reenter' = 0 - 1 - 0
    BY <1>0, <2>1
  <2> QED
    BY <1>2, <2>2 DEF NestingExact
<1>8. FramesWhole'
  BY <1>1, <1>2, <1>3 DEF FramesWhole, EntryTypes
<1> QED
  BY <1>4, <1>5, <1>6, <1>7, <1>8 DEF EntryInv

\* Back in the entry that was interrupted: it was not in restart.
LEMMA ReenterInv ==
  ASSUME EntryInv, restart_reenter
  PROVE  EntryInv'
<1> USE EntryAssumption
<1> DEFINE L == Len(stack)
<1>0. /\ EntryTypes /\ ~user_mode /\ top.to = "restart_reenter" /\ top.at = "exit"
      /\ k_reenter' = k_reenter - 1 /\ stack' = Front(stack) /\ iflag' = TRUE
      /\ UNCHANGED <<vars, masked, tss, frame>>
      /\ stack \in Seq(Entry) /\ L \in Nat /\ L > 0 /\ top = stack[L]
  BY DEF restart_reenter, leaving, EntryInv, EntryTypes, user_mode, top, Last
<1>1. L > 1
  BY <1>0 DEF EntryInv, FirstReturns
<1>2. /\ stack' \in Seq(Entry) /\ Len(stack') = L - 1 /\ stack' # <<>>
      /\ \A n \in 1 .. L - 1 : stack'[n] = stack[n]
      /\ DOMAIN stack = 1 .. L /\ DOMAIN stack' = 1 .. L - 1
  <2>1. /\ SubSeq(stack, 1, L - 1) \in Seq(Entry) /\ Len(SubSeq(stack, 1, L - 1)) = L - 1
        /\ \A n \in 1 .. L - 1 : SubSeq(stack, 1, L - 1)[n] = stack[n]
    BY <1>0, <1>1
  <2>2. stack' = SubSeq(stack, 1, L - 1)
    BY <1>0 DEF Front
  <2>3. stack' \in Seq(Entry) /\ Len(stack') = L - 1 /\ L - 1 > 0 /\ stack \in Seq(Entry)
    BY <1>0, <1>1, <2>1, <2>2
  <2>4. stack' # <<>> /\ DOMAIN stack' = 1 .. L - 1 /\ DOMAIN stack = 1 .. L
    BY <2>3
  <2> QED
    BY <2>1, <2>2, <2>3, <2>4
<1> HIDE DEF L
<1>3. /\ 1 \in 1 .. L - 1 /\ L - 1 \in 1 .. L - 1 /\ \A n \in 1 .. L - 1 : n \in 1 .. L
      /\ \A n \in 1 .. L - 1 - 1 : n \in 1 .. L - 1
  BY <1>0, <1>1
<1>4. \A n \in 1 .. L - 1 : stack'[n].at \in {"body", "leave"}
                            \/ (stack'[n].by = "sys" /\ stack'[n].at = "exit")
  BY <1>2 DEF EntryInv, Interrupted, L
<1>5. EntryTypes'
  BY <1>0, <1>2 DEF EntryTypes
<1>6. FirstReturns'
  BY <1>2, <1>3 DEF EntryInv, FirstReturns, L
<1>7. Interrupted' /\ OffAtExit'
  BY <1>2, <1>3, <1>4 DEF Interrupted, OffAtExit
<1>8. LinesMasked'
  BY <1>0, <1>2, <1>3 DEF EntryInv, LinesMasked, L
<1>9. TssChosen'
  BY <1>2, <1>3, <1>4 DEF TssChosen
<1>10. CallerWaits' /\ FramesWhole'
  BY <1>0, <1>2, <1>3 DEF EntryInv, CallerWaits, FramesWhole, user_mode
<1>11. NestingExact'
  <2>1. top'.at # "popping"
    BY <1>2, <1>3, <1>4 DEF top, Last
  <2>2. k_reenter = L - 1 - 0
    BY <1>0 DEF EntryInv, NestingExact, L
  <2>3. k_reenter' = Len(stack') - 1 - 0
    BY <1>0, <1>2, <2>2
  <2>4. /\ \A m, n \in 1 .. L - 1 : m # n => stack'[m].by # stack'[n].by
        /\ \A n \in 1 .. L - 1 : n > 1 => stack'[n].by \in IRQ
    BY <1>2, <1>3 DEF EntryInv, NestingExact
  <2> QED
    BY <1>2, <2>1, <2>3, <2>4 DEF NestingExact
<1> QED
  BY <1>5, <1>6, <1>7, <1>8, <1>9, <1>10, <1>11 DEF EntryInv

\* A driver opens its line from user mode, where no handler is under way.
LEMMA EnableInv ==
  ASSUME EntryInv, NEW i \in IRQ, enable_irq(i)
  PROVE  EntryInv'
<1>0. /\ stack = <<>> /\ masked' = masked \ {i}
      /\ UNCHANGED <<vars, stack, k_reenter, iflag, tss, frame>>
  BY DEF enable_irq, user_mode
<1>1. LinesMasked'
  <2>1. Len(stack') = 0 /\ \A n \in 1 .. 0 : FALSE
    BY <1>0
  <2> QED
    BY <2>1 DEF LinesMasked
<1>2. EntryTypes' /\ FirstReturns' /\ Interrupted' /\ OffAtExit' /\ TssChosen' /\ CallerWaits'
  BY <1>0 DEF EntryInv, EntryTypes, FirstReturns, Interrupted, OffAtExit, TssChosen,
     CallerWaits, vars
<1>3. NestingExact' /\ FramesWhole'
  BY <1>0 DEF EntryInv, NestingExact, FramesWhole, user_mode, top, Last
<1> QED
  BY <1>1, <1>2, <1>3 DEF EntryInv

\* main() enters restart for the first process with everything saved.
LEMMA EntryStarts == KernelInit => EntryInv
<1> USE EntryAssumption
<1> SUFFICES ASSUME KernelInit PROVE EntryInv
  OBVIOUS
<1>0. /\ p_proc_ready \in Proc
      /\ stack = <<[by |-> "main", at |-> "exit", to |-> "restart", esi |-> Elsewhere]>>
      /\ k_reenter = 0 /\ iflag = FALSE /\ masked = IRQ \ {"CLOCK"} /\ tss = p_proc_ready
      /\ frame = [p \in Proc |-> "saved"]
  BY DEF KernelInit, Init
<1>1. [by |-> "main", at |-> "exit", to |-> "restart", esi |-> Elsewhere] \in Entry
  BY DEF Entry, Entrant, At
<1>2. /\ stack \in Seq(Entry) /\ Len(stack) = 1 /\ DOMAIN stack = 1 .. 1 /\ stack # <<>>
      /\ stack[1].by = "main" /\ stack[1].at = "exit" /\ stack[1].to = "restart"
      /\ (\A n \in 1 .. 1 : n = 1) /\ (\A n \in 1 .. 1 - 1 : FALSE)
  BY <1>0, <1>1
<1>3. EntryTypes
  <2>1. k_reenter \in Int /\ masked \subseteq IRQ /\ tss \in Proc
    BY <1>0
  <2>2. iflag \in BOOLEAN
    BY <1>0, Zenon
  <2>3. frame \in [Proc -> {"saved", "calling", "stale", "lost"}]
    BY <1>0
  <2> QED
    BY <1>2, <2>1, <2>2, <2>3 DEF EntryTypes
<1>4. FirstReturns /\ Interrupted /\ LinesMasked
  BY <1>2 DEF FirstReturns, Interrupted, LinesMasked
<1>5. OffAtExit /\ TssChosen /\ CallerWaits
  BY <1>0, <1>2 DEF OffAtExit, TssChosen, CallerWaits
<1>6. NestingExact
  <2>1. top.at = "exit"
    BY <1>2 DEF top, Last
  <2> QED
    BY <1>0, <1>2, <2>1 DEF NestingExact
<1>7. FramesWhole
  BY <1>0 DEF FramesWhole
<1> QED
  BY <1>3, <1>4, <1>5, <1>6, <1>7 DEF EntryInv

\* Every step of the kernel keeps the entries in order, unless an interrupt
\* falls into restart.
LEMMA EntryStep ==
  ASSUME ~Window, IInv, EntryInv, [KernelNext]_kvars
  PROVE  EntryInv'
<1>0. p_proc_ready \in Proc
  BY DEF IInv, TypeOK
<1>1. ASSUME NEW i \in IRQ, hwint(i) \/ enable_irq(i) PROVE EntryInv'
  BY <1>1, HwintInv, EnableInv
<1>2. ASSUME sys_call PROVE EntryInv'
  BY <1>2, SysCallInv
<1>3. ASSUME NEW b \in Entrant, progress(b) PROVE EntryInv'
  <2>1. ASSUME clock_irq PROVE EntryInv'
    BY <2>1, BodyInv DEF clock_irq, running, EntryInv, EntryTypes
  <2>2. ASSUME sys_body PROVE EntryInv'
    <3>1. iflag' \in BOOLEAN
      BY <2>2 DEF sys_body, EntryInv, EntryTypes
    <3> QED
      BY <2>2, <3>1, BodyInv DEF sys_body, running
  <2>3. ASSUME NEW i \in IRQ, other_irq(i) \/ hwint_leave(i) PROVE EntryInv'
    <3>1. ASSUME other_irq(i) PROVE EntryInv'
      BY <3>1, BodyInv DEF other_irq, running, EntryInv, EntryTypes
    <3> QED
      BY <2>3, <3>1, HwintLeaveInv
  <2> QED
    BY <1>0, <1>3, <2>1, <2>2, <2>3, SysLeaveInv, RestartInv, IretdInv, ReenterInv DEF progress
<1>4. ASSUME UNCHANGED kvars PROVE EntryInv'
  BY <1>4 DEF kvars, entry_vars, vars, EntryInv, EntryTypes, FirstReturns, Interrupted,
     LinesMasked, OffAtExit, TssChosen, CallerWaits, NestingExact, FramesWhole, user_mode,
     top, Last
<1> QED
  BY <1>1, <1>2, <1>3, <1>4 DEF KernelNext

\* However entries nest and whatever the handlers do, the entries under way are
\* in order, as long as no interrupt falls between the instructions of restart.
THEOREM EntriesInOrder ==
  ASSUME ~Window
  PROVE  KernelSpec => [](IInv /\ EntryInv)
<1>1. KernelInit => IInv /\ EntryInv
  BY InitInv, EntryStarts DEF KernelInit
<1>2. IInv /\ EntryInv /\ [KernelNext]_kvars => (IInv /\ EntryInv)'
  BY SchedStep, NextInv, EntryStep
<1> QED
  BY <1>1, <1>2, PTL DEF KernelSpec

\* No line interrupts its own handler, only the first entry is a system call,
\* and k_reenter counts the entries, for any number of lines.
THEOREM NestingCounted ==
  ASSUME ~Window
  PROVE  KernelSpec => []NestingExact
<1>1. EntryInv => NestingExact
  BY DEF EntryInv
<1> QED
  BY <1>1, EntriesInOrder, PTL

\* Every process that does not run has all it needs in its frame, and the
\* result of its system call if it made one, for any number of lines.
THEOREM FramesKept ==
  ASSUME ~Window
  PROVE  KernelSpec => []FramesWhole
<1>1. EntryInv => FramesWhole
  BY DEF EntryInv
<1> QED
  BY <1>1, EntriesInOrder, PTL

\* The processor runs the process that the scheduler last chose, a runnable one,
\* and the TSS leads the next interrupt to its frame.
THEOREM ChosenRuns ==
  ASSUME ~Window
  PROVE  KernelSpec => []RunsChosen
<1>1. IInv /\ EntryInv => RunsChosen
  BY DEF IInv, EntryInv, TssChosen, CurrentIsReady, RunsChosen, user_mode
<1> QED
  BY <1>1, EntriesInOrder, PTL
=============================================================================
