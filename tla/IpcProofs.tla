----------------------------- MODULE IpcProofs -----------------------------
(***************************************************************************)
(* The invariants of the message kernel hold for any number of processes.  *)
(***************************************************************************)
EXTENDS IpcClients, IpcLemmas

\* What the clients keep to: they send messages, nobody waits for an
\* answer from itself, and TASK_HD, which alone is informed of interrupts,
\* never uses BOTH.
ClientInv ==
  /\ msg \in [Proc -> Message]
  /\ \A p \in Proc : has_int_msg[p] = 1 => p = TASK_HD
  /\ owed \in [Proc -> Proc \cup {NO_TASK}]
  /\ \A p \in Proc : owed[p] # p
  /\ owed[TASK_HD] = NO_TASK

IInv == KernelInv /\ ClientInv

----------------------------------------------------------------------------
(* The specification. *)

\* A call leaves messages in the buffers and no interrupt for anybody else.
LEMMA BufferFacts ==
  ASSUME KernelInv, ClientInv, NEW p \in Proc, mayCall(p),
         \/ \E d \in Proc \ {p}, t \in MsgType : msg_send(p, d, t)
         \/ \E s \in (Proc \ {p}) \cup {ANY, INTERRUPT} : msg_recevie(p, s)
  PROVE  /\ msg' \in [Proc -> Message]
         /\ \A q \in Proc : has_int_msg'[q] = 1 => q = TASK_HD
<1> USE IpcAssumption, ClientAssumption DEF mayCall
<1>1. ASSUME NEW d \in Proc \ {p}, NEW t \in MsgType, msg_send(p, d, t)
      PROVE  msg' \in [Proc -> Message] /\ has_int_msg' = has_int_msg
  <2>1. [source |-> p, type |-> t] \in Message
    BY DEF Message
  <2> QED
    BY <1>1, <2>1 DEF msg_send, send_panic, send_deliver, send_block, ClientInv
<1>2. ASSUME NEW s \in (Proc \ {p}) \cup {ANY, INTERRUPT}, recv_copy(p, s)
      PROVE  msg' \in [Proc -> Message] /\ has_int_msg' = has_int_msg
  <2>1. PICK f \in Proc : msg' = [msg EXCEPT ![p] = msg[f]] /\ has_int_msg' = has_int_msg
    BY <1>2, RecvCopyFacts
  <2> QED
    BY <2>1 DEF ClientInv
<1>3. ASSUME NEW s \in (Proc \ {p}) \cup {ANY, INTERRUPT}, recv_block(p, s)
      PROVE  msg' \in [Proc -> Message] /\ has_int_msg' = has_int_msg
  BY <1>3 DEF recv_block, Message, ClientInv
<1>4. ASSUME NEW s \in (Proc \ {p}) \cup {ANY, INTERRUPT}, recv_interrupt(p, s)
      PROVE  msg' \in [Proc -> Message] /\ has_int_msg' = [has_int_msg EXCEPT ![p] = 0]
  BY <1>4 DEF recv_interrupt, Message, ClientInv
<1> QED
  BY <1>1, <1>2, <1>3, <1>4 DEF msg_recevie, ClientInv, KernelInv, KernelTypeOK

\* No step of any client, and no interrupt, breaks the invariant.
LEMMA NextInv == IInv /\ [Next]_vars => IInv'
<1> SUFFICES ASSUME IInv, [Next]_vars PROVE IInv'
  OBVIOUS
<1> USE IpcAssumption, ClientAssumption DEF IInv
<1>1. ASSUME NEW p \in Proc, NEW d \in Proc \ {p}, NEW t \in MsgType, Send(p, d, t)
      PROVE  IInv'
  <2>1. KernelInv'
    BY <1>1, SendInv DEF Send, mayCall
  <2>2. ClientInv'
    BY <1>1, BufferFacts DEF Send, ClientInv
  <2> QED
    BY <2>1, <2>2
<1>2. ASSUME NEW p \in Proc, NEW d \in Proc \ {p}, NEW t \in MsgType, SendBoth(p, d, t)
      PROVE  IInv'
  <2>1. KernelInv'
    BY <1>2, SendInv DEF SendBoth, mayCall
  <2>2. ClientInv'
    BY <1>2, BufferFacts DEF SendBoth, ClientInv
  <2> QED
    BY <2>1, <2>2
<1>3. ASSUME NEW p \in Proc, RecvBoth(p)
      PROVE  IInv'
  <2>1. owed[p] \in (Proc \ {p}) \cup {ANY, INTERRUPT} /\ p # TASK_HD
    BY <1>3 DEF RecvBoth, ClientInv
  <2>2. has_int_msg[p] = 0
    BY <2>1 DEF ClientInv, KernelInv, KernelTypeOK
  <2>3. KernelInv'
    BY <1>3, <2>1, <2>2, RecvInv DEF RecvBoth, mayCall
  <2>4. ClientInv'
    BY <1>3, <2>1, BufferFacts DEF RecvBoth, ClientInv
  <2> QED
    BY <2>3, <2>4
<1>4. ASSUME NEW p \in Proc, NEW s \in (Proc \ {p}) \cup {ANY, INTERRUPT}, Receive(p, s)
      PROVE  IInv'
  <2>1. s \in Proc => has_int_msg[p] = 0
    BY <1>4 DEF Receive, ClientInv, KernelInv, KernelTypeOK
  <2>2. KernelInv'
    BY <1>4, <2>1, RecvInv DEF Receive, mayCall
  <2>3. ClientInv'
    BY <1>4, BufferFacts DEF Receive, ClientInv
  <2> QED
    BY <2>2, <2>3
<1>5. ASSUME Interrupt
      PROVE  IInv'
  <2>1. KernelInv'
    BY <1>5, InformIntInv DEF Interrupt
  <2>2. msg' \in [Proc -> Message] /\ \A p \in Proc : has_int_msg'[p] = 1 => p = TASK_HD
    <3>1. [source |-> INTERRUPT, type |-> HARD_INT] \in Message
      BY DEF Message
    <3>2. msg' \in [Proc -> Message]
      BY <1>5, <3>1 DEF Interrupt, inform_int, ClientInv
    <3>3. \A p \in Proc : has_int_msg'[p] = 1 => p = TASK_HD
      BY <1>5 DEF Interrupt, inform_int, int_recorded, ClientInv, KernelInv, KernelTypeOK
    <3> QED
      BY <3>2, <3>3
  <2> QED
    BY <1>5, <2>1, <2>2 DEF Interrupt, ClientInv
<1>6. ASSUME UNCHANGED vars
      PROVE  IInv'
  <2>1. KernelTypeOK' /\ ClientInv' /\ NoAssertFails'
    BY <1>6 DEF vars, ipcVars, KernelInv, ClientInv, KernelTypeOK, Buffers, NoAssertFails
  <2>2. FieldsAgree' /\ QueueExact'
    BY <1>6 DEF vars, ipcVars, KernelInv, FieldsAgree, QueueExact, Sending, Receiving
  <2>3. NoMissedRendezvous' /\ NoSleepThroughInterrupt' /\ NoSendCycle'
    BY <1>6 DEF vars, ipcVars, KernelInv, NoMissedRendezvous, WaitsFor, Receiving,
       NoSleepThroughInterrupt, NoSendCycle, Sending, awaits, int_awaited
  <2> QED
    BY <2>1, <2>2, <2>3 DEF KernelInv
<1> QED
  BY <1>1, <1>2, <1>3, <1>4, <1>5, <1>6 DEF Next

\* The invariant holds of the table that init_sched builds.
LEMMA InitInv == Init => IInv
<1> SUFFICES ASSUME Init PROVE IInv
  OBVIOUS
<1>1. KernelInv
  BY KernelInit DEF Init
<1>2. ClientInv
  BY IpcAssumption, ClientAssumption DEF Init, IpcInit, ClientInv, Message
<1> QED
  BY <1>1, <1>2 DEF IInv

\* Every reachable state satisfies the inductive invariant.
THEOREM Invariance == Spec => []IInv
BY InitInv, NextInv, PTL DEF Spec

\* The process table is well typed, for any number of processes.
THEOREM TypeCorrect == Spec => []TypeOK
<1>1. IInv => TypeOK
  BY DEF IInv, KernelInv, ClientInv, TypeOK
<1> QED
  BY <1>1, Invariance, PTL

\* No assert() of msg_send, msg_recevie or inform_int ever fails.
THEOREM AssertsHold == Spec => []NoAssertFails
<1>1. IInv => NoAssertFails
  BY DEF IInv, KernelInv
<1> QED
  BY <1>1, Invariance, PTL

\* The lists of senders are exact: no blocked sender is lost or served twice.
THEOREM ListsExact == Spec => []QueueExact
<1>1. IInv => QueueExact
  BY DEF IInv, KernelInv
<1> QED
  BY <1>1, Invariance, PTL

\* Nobody is left blocked sending to a process that is blocked receiving from
\* it: whichever of the two calls comes second finds the first.
THEOREM RendezvousFound == Spec => []NoMissedRendezvous
<1>1. IInv => NoMissedRendezvous
  BY DEF IInv, KernelInv
<1> QED
  BY <1>1, Invariance, PTL

\* Blocked senders never form a circle: deadlock() stops every one in time,
\* and its own walk along p_sendto always ends.
THEOREM NoCircles == Spec => []NoSendCycle
<1>1. IInv => NoSendCycle
  BY DEF IInv, KernelInv
<1> QED
  BY <1>1, Invariance, PTL

\* A task never sleeps while an interrupt it waits for is recorded.
THEOREM InterruptsSeen == Spec => []NoSleepThroughInterrupt
<1>1. IInv => NoSleepThroughInterrupt
  BY DEF IInv, KernelInv
<1> QED
  BY <1>1, Invariance, PTL

----------------------------------------------------------------------------
(* First come, first served. *)

\* Whoever stands before an old entry in u stood before it in q.
Monotone(q, u) ==
  \A k, l \in 1 .. Len(u), j \in 1 .. Len(q) :
    k < l /\ u[l] = q[j] => \E i \in 1 .. j - 1 : q[i] = u[k]

\* A list that does not change keeps its order.
LEMMA MonotoneSame ==
  ASSUME NEW S, NEW q \in Seq(S), NoRepeat(q)
  PROVE  Monotone(q, q)
BY DEF Monotone, NoRepeat

\* A list that grows at its end keeps its order.
LEMMA MonotoneEnqueue ==
  ASSUME NEW S, NEW q \in Seq(S), NEW p \in S, NoRepeat(q), ~Listed(q, p)
  PROVE  Monotone(q, enqueue(q, p))
<1> DEFINE u == Append(q, p)
<1>1. /\ Len(u) = Len(q) + 1 /\ Len(q) \in Nat
      /\ \A i \in 1 .. Len(q) : u[i] = q[i]
      /\ u[Len(q) + 1] = p
  OBVIOUS
<1> HIDE DEF u
<1>2. \A i \in 1 .. Len(q), k \in 1 .. Len(u) : u[k] = q[i] => k = i
  BY <1>1 DEF NoRepeat, Listed
<1> QED
  BY <1>1, <1>2 DEF Monotone, enqueue, u

\* A list that loses one entry keeps the order of the others.
LEMMA MonotoneUnlink ==
  ASSUME NEW S, NEW q \in Seq(S), NoRepeat(q), NEW f \in S
  PROVE  Monotone(q, unlink(q, f))
<1>1. CASE ~Listed(q, f)
  BY <1>1, MonotoneSame DEF unlink, Listed
<1>2. CASE Listed(q, f)
  <2> DEFINE c == CHOOSE i \in 1 .. Len(q) :
                    q[i] = f /\ \A j \in 1 .. i - 1 : q[j] # f
             u == [j \in 1 .. Len(q) - 1 |-> IF j < c THEN q[j] ELSE q[j + 1]]
  <2>1. PICK k \in 1 .. Len(q) : q[k] = f
    BY <1>2 DEF Listed
  <2>2. q[k] = f /\ \A j \in 1 .. k - 1 : q[j] # f
    BY <2>1 DEF NoRepeat
  <2>3. c \in 1 .. Len(q)
    BY <2>2
  <2>4. unlink(q, f) = u
    BY <2>1 DEF unlink
  <2>5. /\ Len(u) = Len(q) - 1 /\ Len(q) \in Nat
        /\ \A j \in 1 .. Len(q) - 1 : u[j] = IF j < c THEN q[j] ELSE q[j + 1]
    BY <2>3
  <2> HIDE DEF u, c
  <2>6. \A i \in 1 .. Len(q), j \in 1 .. Len(u) :
          u[j] = q[i] => i = IF j < c THEN j ELSE j + 1
    BY <2>3, <2>5 DEF NoRepeat
  <2>7. ASSUME NEW m \in 1 .. Len(u), NEW l \in 1 .. Len(u), NEW j \in 1 .. Len(q),
               m < l, u[l] = q[j]
        PROVE  \E i \in 1 .. j - 1 : q[i] = u[m]
    <3>1. j = IF l < c THEN l ELSE l + 1
      BY <2>6, <2>7
    <3>2. CASE m < c
      <4>1. m \in 1 .. j - 1 /\ q[m] = u[m]
        BY <2>3, <2>5, <2>7, <3>1, <3>2
      <4> QED
        BY <4>1
    <3>3. CASE ~(m < c)
      <4>1. m + 1 \in 1 .. j - 1 /\ q[m + 1] = u[m]
        BY <2>3, <2>5, <2>7, <3>1, <3>3
      <4> QED
        BY <4>1
    <3> QED
      BY <3>2, <3>3
  <2> QED
    BY <2>4, <2>7 DEF Monotone
<1> QED
  BY <1>1, <1>2

\* A kernel call that leaves, extends or shortens one list keeps their order.
LEMMA OrderOfUpdate ==
  ASSUME KernelInv, NEW d \in Proc,
         \/ q_sending' = q_sending
         \/ \E p \in Proc : ~Sending(p) /\ q_sending' = [q_sending EXCEPT ![d] = enqueue(@, p)]
         \/ \E f \in Proc : q_sending' = [q_sending EXCEPT ![d] = unlink(@, f)]
  PROVE  NoOvertaking
<1> SUFFICES ASSUME NEW e \in Proc PROVE Monotone(q_sending[e], q_sending'[e])
  BY DEF NoOvertaking, Monotone
<1>1. q_sending[e] \in Seq(Proc) /\ NoRepeat(q_sending[e])
  BY DEF KernelInv, KernelTypeOK, QueueExact
<1>2. CASE q_sending'[e] = q_sending[e]
  BY <1>1, <1>2, MonotoneSame
<1>3. CASE \E p \in Proc : ~Sending(p) /\ q_sending'[e] = enqueue(q_sending[e], p)
  <2>1. PICK p \in Proc : ~Sending(p) /\ q_sending'[e] = enqueue(q_sending[e], p)
    BY <1>3
  <2>2. ~Listed(q_sending[e], p)
    BY <2>1 DEF KernelInv, QueueExact
  <2> QED
    BY <1>1, <2>1, <2>2, MonotoneEnqueue
<1>4. CASE \E f \in Proc : q_sending'[e] = unlink(q_sending[e], f)
  BY <1>1, <1>4, MonotoneUnlink
<1> QED
  BY <1>2, <1>3, <1>4 DEF KernelInv, KernelTypeOK

\* A sender that is blocked in a list is never overtaken.
THEOREM FirstComeFirstServed == Spec => QueueOrderKept
<1>1. IInv /\ [Next]_vars => [NoOvertaking]_vars
  <2> SUFFICES ASSUME IInv, Next PROVE NoOvertaking
    OBVIOUS
  <2> USE IpcAssumption, ClientAssumption DEF IInv
  <2>1. ASSUME NEW p \in Proc, NEW d \in Proc \ {p}, NEW t \in MsgType,
               mayCall(p), msg_send(p, d, t)
        PROVE  NoOvertaking
    <3>1. ~Sending(p)
      BY <2>1 DEF mayCall, Sending
    <3>2. q_sending' = q_sending \/ q_sending' = [q_sending EXCEPT ![d] = enqueue(@, p)]
      BY <2>1 DEF msg_send, send_panic, send_deliver, send_block
    <3> QED
      BY <3>1, <3>2, OrderOfUpdate
  <2>2. ASSUME NEW p \in Proc, NEW s \in (Proc \ {p}) \cup {ANY, INTERRUPT},
               mayCall(p), msg_recevie(p, s)
        PROVE  NoOvertaking
    <3>1. CASE recv_copy(p, s)
      <4>1. PICK f \in Proc \ {p} :
           /\ s \in {f, ANY} /\ ~int_pending(p, s)
           /\ p_flags[f] = {"SENDING"} /\ p_sendto[f] = p
           /\ p_recvfrom[f] = NO_TASK /\ Listed(q_sending[p], f)
           /\ q_sending' = [q_sending EXCEPT ![p] = unlink(@, f)]
           /\ msg' = [msg EXCEPT ![p] = msg[f]]
           /\ p_msg' = [p_msg EXCEPT ![f] = 0]
           /\ p_sendto' = [p_sendto EXCEPT ![f] = NO_TASK]
           /\ p_flags' = [p_flags EXCEPT ![f] = {}]
           /\ UNCHANGED <<p_recvfrom, has_int_msg, fault>>
        BY <2>2, <3>1, RecvCopyFacts DEF mayCall
      <4> QED
        BY <4>1, OrderOfUpdate
    <3>2. CASE ~recv_copy(p, s)
      <4>1. q_sending' = q_sending
        BY <2>2, <3>2 DEF msg_recevie, recv_interrupt, recv_block
      <4> QED
        BY <4>1, OrderOfUpdate
    <3> QED
      BY <3>1, <3>2
  <2>3. ASSUME NEW p \in Proc, RecvBoth(p)
        PROVE  NoOvertaking
    <3>1. owed[p] \in (Proc \ {p}) \cup {ANY, INTERRUPT}
      BY <2>3 DEF RecvBoth, ClientInv
    <3> QED
      BY <2>2, <2>3, <3>1 DEF RecvBoth
  <2>4. ASSUME Interrupt
        PROVE  NoOvertaking
    <3>1. q_sending' = q_sending
      BY <2>4 DEF Interrupt, inform_int, int_recorded
    <3> QED
      BY <3>1, OrderOfUpdate
  <2> QED
    BY <2>1, <2>2, <2>3, <2>4 DEF Next, Send, SendBoth, Receive
<1> QED
  BY <1>1, Invariance, PTL DEF Spec, QueueOrderKept

----------------------------------------------------------------------------
(* The kernel implements Rendezvous. *)

\* The flag words of the table are one of the three things a process can want.
LEMMA WantFacts ==
  ASSUME KernelInv, NEW p \in Proc
  PROVE  /\ p_flags[p] = {} <=> wantOf(p) = R!Idle
         /\ \A d : Sending(p) /\ p_sendto[p] = d <=> wantOf(p) = R!Offering(d)
         /\ \A s : Receiving(p) /\ p_recvfrom[p] = s <=> wantOf(p) = R!Accepting(s)
<1> USE DEF R!Idle, R!Offering, R!Accepting, wantOf
<1>1. p_flags[p] \in {{}, {"SENDING"}, {"RECEIVING"}}
  BY DEF KernelInv, FieldsAgree
<1>2. CASE p_flags[p] = {}
  BY <1>2 DEF Sending, Receiving
<1>3. CASE p_flags[p] = {"SENDING"}
  BY <1>3 DEF Sending, Receiving
<1>4. CASE p_flags[p] = {"RECEIVING"}
  BY <1>4 DEF Sending, Receiving
<1> QED
  BY <1>1, <1>2, <1>3, <1>4

\* deadlock() finds p exactly when p's offer to d would close a circle.
LEMMA CircleFacts ==
  ASSUME KernelInv, NEW p \in Proc, p_flags[p] = {}, NEW d \in Proc \ {p}
  PROVE  deadlock(p, d) <=> \E S \in SUBSET Proc : R!Circle(S, p, d)
<1>0. \A q, r \in Proc : wantOf(q) = R!Offering(r) <=> Sending(q) /\ p_sendto[q] = r
  BY WantFacts
<1>c. ASSUME NEW S \in SUBSET Proc
      PROVE  R!Circle(S, p, d)
               <=> /\ p \in S /\ d \in S
                   /\ \A q \in S \ {p} : Sending(q) /\ p_sendto[q] \in S
  BY <1>0 DEF R!Circle
<1>1. ASSUME deadlock(p, d) PROVE \E S \in SUBSET Proc : R!Circle(S, p, d)
  <2> DEFINE S == {z \in Proc : \A T \in SUBSET Proc : z \in T /\ SendClosed(T) => p \in T}
  <2>1. p \in S /\ d \in S /\ S \in SUBSET Proc
    BY <1>1 DEF deadlock
  <2>2. ASSUME NEW q \in S \ {p} PROVE Sending(q) /\ p_sendto[q] \in S
    <3>1. Sending(q)
      <4>1. SUFFICES ASSUME ~Sending(q) PROVE FALSE
        OBVIOUS
      <4>2. SendClosed({q})
        BY <4>1 DEF SendClosed, Sending
      <4> QED
        BY <4>2
    <3>2. p_sendto[q] \in Proc
      BY <3>1 DEF KernelInv, KernelTypeOK, FieldsAgree
    <3>3. ASSUME NEW T \in SUBSET Proc, p_sendto[q] \in T, SendClosed(T) PROVE p \in T
      <4>1. SendClosed(T \cup {q}) /\ T \cup {q} \in SUBSET Proc
        BY <3>3 DEF SendClosed
      <4> QED
        BY <4>1
    <3> QED
      BY <3>1, <3>2, <3>3
  <2> HIDE DEF S
  <2> QED
    BY <1>c, <2>1, <2>2
<1>2. ASSUME NEW S \in SUBSET Proc, R!Circle(S, p, d), ~deadlock(p, d) PROVE FALSE
  <2>1. PICK T \in SUBSET Proc : d \in T /\ SendClosed(T) /\ p \notin T
    BY <1>2 DEF deadlock
  <2>2. d \in S \cap T /\ S \cap T \in SUBSET Proc
    BY <1>2, <1>c, <2>1
  <2>3. \A q \in S \cap T : Sending(q) /\ p_sendto[q] \in S \cap T
    BY <1>2, <1>c, <2>1 DEF SendClosed, Sending
  <2> QED
    BY <2>2, <2>3 DEF KernelInv, NoSendCycle
<1> QED
  BY <1>1, <1>2

\* The three outcomes of a send.
LEMMA SendImplements ==
  ASSUME KernelInv, KernelInv', NEW p \in Proc, mayCall(p),
         NEW d \in Proc \ {p}, NEW t \in MsgType, msg_send(p, d, t)
  PROVE  R!Next
<1> DEFINE m == [source |-> p, type |-> t]
<1>0. /\ wantOf(p) = R!Idle /\ p_flags[p] = {} /\ fault = "none" /\ fault' # "assert"
      /\ R!Accepts(d, p) <=> awaits(d, p)
  <2>1. wantOf(p) = R!Idle /\ p_flags[p] = {} /\ fault = "none" /\ fault' # "assert"
    BY WantFacts DEF mayCall, KernelInv, NoAssertFails
  <2>2. \A s : wantOf(d) = R!Accepting(s) <=> Receiving(d) /\ p_recvfrom[d] = s
    BY WantFacts
  <2> QED
    BY <2>1, <2>2 DEF R!Accepts, awaits, Receiving
<1>1. CASE send_panic(p, d, m)
  <2>1. \E S \in SUBSET Proc : R!Circle(S, p, d)
    BY <1>0, <1>1, CircleFacts DEF send_panic
  <2>2. R!Halt(p, d, m)
    BY <1>0, <1>1, <2>1 DEF R!Halt, send_panic, wantOf, Sending, Receiving
  <2> QED
    BY <1>0, <2>2 DEF R!Next
<1>2. CASE send_deliver(p, d, m)
  <2>1. wantOf(d)' = R!Idle
    <3>1. p_flags[d] = {"RECEIVING"}
      BY <1>2, FlagFacts DEF send_deliver, awaits, Receiving, KernelInv
    <3>2. p_flags'[d] = {}
      BY <1>2, <3>1 DEF send_deliver, KernelInv, KernelTypeOK
    <3> QED
      BY <3>2 DEF wantOf, Sending, Receiving, R!Idle
  <2>2. \A g \in Proc \ {d} : wantOf(g)' = wantOf(g)
    BY <1>2 DEF send_deliver, wantOf, Sending, Receiving, KernelInv, KernelTypeOK
  <2>3. R!Give(p, d, m)
    BY <1>0, <1>2, <2>1, <2>2 DEF R!Give, send_deliver
  <2> QED
    BY <1>0, <2>3 DEF R!Next
<1>3. CASE send_block(p, d, m)
  <2>1. wantOf(p)' = R!Offering(d)
    BY <1>0, <1>3 DEF send_block, wantOf, Sending, R!Offering, KernelInv, KernelTypeOK
  <2>2. \A g \in Proc \ {p} : wantOf(g)' = wantOf(g)
    BY <1>3 DEF send_block, wantOf, Sending, Receiving, KernelInv, KernelTypeOK
  <2>3. ~\E S \in SUBSET Proc : R!Circle(S, p, d)
    BY <1>0, <1>3, CircleFacts DEF send_block
  <2>4. R!Offer(p, d, m)
    BY <1>0, <1>3, <2>1, <2>2, <2>3 DEF R!Offer, send_block
  <2> QED
    BY <1>0, <2>4 DEF R!Next
<1> QED
  BY <1>1, <1>2, <1>3 DEF msg_send

\* The three outcomes of a receive.
LEMMA RecvImplements ==
  ASSUME KernelInv, KernelInv', NEW p \in Proc, mayCall(p),
         NEW s \in (Proc \ {p}) \cup {ANY, INTERRUPT}, msg_recevie(p, s)
  PROVE  R!Next
<1> USE IpcAssumption, ClientAssumption
<1>0. wantOf(p) = R!Idle /\ p_flags[p] = {} /\ fault = "none" /\ fault' # "assert"
  BY WantFacts DEF mayCall, KernelInv, NoAssertFails
<1>1. CASE recv_interrupt(p, s)
  <2>1. \A g \in Proc : wantOf(g)' = wantOf(g)
    BY <1>1 DEF recv_interrupt, wantOf, Sending, Receiving
  <2>2. R!TakeInterrupt(p, s)
    BY <1>0, <1>1, <2>1 DEF R!TakeInterrupt, R!IntMessage, recv_interrupt,
       int_pending, KernelInv, KernelTypeOK
  <2> QED
    BY <1>0, <2>2 DEF R!Next
<1>2. CASE recv_copy(p, s)
  <2>1. PICK f \in Proc \ {p} :
           /\ s \in {f, ANY} /\ ~int_pending(p, s)
           /\ p_flags[f] = {"SENDING"} /\ p_sendto[f] = p
           /\ p_recvfrom[f] = NO_TASK /\ Listed(q_sending[p], f)
           /\ q_sending' = [q_sending EXCEPT ![p] = unlink(@, f)]
           /\ msg' = [msg EXCEPT ![p] = msg[f]]
           /\ p_msg' = [p_msg EXCEPT ![f] = 0]
           /\ p_sendto' = [p_sendto EXCEPT ![f] = NO_TASK]
           /\ p_flags' = [p_flags EXCEPT ![f] = {}]
           /\ UNCHANGED <<p_recvfrom, has_int_msg, fault>>
    BY <1>0, <1>2, RecvCopyFacts
  <2>2. wantOf(f) = R!Offering(p) /\ wantOf(f)' = R!Idle
    BY <2>1 DEF wantOf, Sending, Receiving, R!Idle, R!Offering, KernelInv, KernelTypeOK
  <2>3. \A g \in Proc \ {f} : wantOf(g)' = wantOf(g)
    BY <2>1 DEF wantOf, Sending, Receiving, KernelInv, KernelTypeOK
  <2>4. R!Take(p, s, f)
    <3>1. s = ANY => has_int_msg[p] # 1
      BY <2>1 DEF int_pending
    <3> QED
      BY <1>0, <2>1, <2>2, <2>3, <3>1 DEF R!Take
  <2> QED
    BY <1>0, <2>1, <2>4 DEF R!Next
<1>3. CASE recv_block(p, s)
  <2>1. wantOf(p)' = R!Accepting(s)
    BY <1>0, <1>3 DEF recv_block, wantOf, Sending, Receiving, R!Accepting,
       KernelInv, KernelTypeOK
  <2>2. \A g \in Proc \ {p} : wantOf(g)' = wantOf(g)
    BY <1>3 DEF recv_block, wantOf, Sending, Receiving, KernelInv, KernelTypeOK
  <2>3. ASSUME NEW f \in Proc, s \in {f, ANY} PROVE wantOf(f) # R!Offering(p)
    <3>1. SUFFICES ASSUME Sending(f), p_sendto[f] = p PROVE FALSE
      BY WantFacts
    <3>2. Listed(q_sending[p], f)
      BY <3>1 DEF KernelInv, QueueExact
    <3>3. q_sending[p] # <<>>
      BY <3>2 DEF Listed
    <3> QED
      BY <1>3, <2>3, <3>1, <3>3 DEF recv_block, sender_ready, Sending
  <2>4. R!Accept(p, s)
    <3>1. s \in {ANY, INTERRUPT} => has_int_msg[p] # 1
      BY <1>3 DEF recv_block, int_pending
    <3>2. /\ msg' = [msg EXCEPT ![p].source = p] /\ UNCHANGED has_int_msg
          /\ fault' = fault
      BY <1>0, <1>3 DEF recv_block
    <3> QED
      BY <1>0, <2>1, <2>2, <2>3, <3>1, <3>2 DEF R!Accept
  <2> QED
    BY <1>0, <2>4 DEF R!Next
<1> QED
  BY <1>1, <1>2, <1>3 DEF msg_recevie

\* An interrupt.
LEMMA InterruptImplements ==
  ASSUME KernelInv, KernelInv', fault = "none", inform_int(TASK_HD)
  PROVE  R!Next
<1> DEFINE t == TASK_HD
<1> USE IpcAssumption, ClientAssumption
<1>0. int_awaited(t) <=> wantOf(t) \in {R!Accepting(INTERRUPT), R!Accepting(ANY)}
  BY WantFacts DEF int_awaited, Receiving
<1>1. CASE int_awaited(t)
  <2>1. p_flags[t] = {"RECEIVING"}
    BY <1>1, FlagFacts DEF int_awaited, Receiving, KernelInv
  <2>2. p_flags' = [p_flags EXCEPT ![t] = {}]
    BY <1>1, <2>1 DEF inform_int, KernelInv, KernelTypeOK
  <2>3. wantOf(t)' = R!Idle
    BY <2>2 DEF wantOf, Sending, Receiving, R!Idle, KernelInv, KernelTypeOK
  <2>4. \A g \in Proc \ {t} : wantOf(g)' = wantOf(g)
    BY <1>1, <2>2 DEF inform_int, wantOf, Sending, Receiving, KernelInv, KernelTypeOK
  <2>5. has_int_msg[t] = 0 /\ has_int_msg' = has_int_msg /\ fault' = fault
    BY <1>1 DEF inform_int, KernelInv, KernelTypeOK, NoSleepThroughInterrupt,
       NoAssertFails
  <2>6. R!Raise(t)
    BY <1>0, <1>1, <2>3, <2>4, <2>5 DEF R!Raise, R!IntMessage, inform_int
  <2> QED
    BY <2>6 DEF R!Next
<1>2. CASE ~int_awaited(t)
  <2>1. \A g \in Proc : wantOf(g)' = wantOf(g)
    BY <1>2 DEF inform_int, int_recorded, wantOf, Sending, Receiving
  <2>2. {g \in Proc : has_int_msg'[g] = 1} = {g \in Proc : has_int_msg[g] = 1} \cup {t}
    BY <1>2 DEF inform_int, int_recorded, KernelInv, KernelTypeOK
  <2>3. R!Raise(t)
    BY <1>0, <1>2, <2>1, <2>2 DEF R!Raise, inform_int
  <2> QED
    BY <2>3 DEF R!Next
<1> QED
  BY <1>1, <1>2

\* Message passing with flag words, lists and a deadlock walk implements
\* rendezvous, for any number of processes and any clients.
THEOREM Refinement == Spec => ImplementsRendezvous
<1>1. Init => R!Init
  BY DEF Init, IpcInit, R!Init, R!Idle, wantOf, Sending, Receiving
<1>2. IInv /\ IInv' /\ [Next]_vars => [R!Next]_(R!absVars)
  <2> SUFFICES ASSUME IInv, IInv', [Next]_vars PROVE R!Next \/ UNCHANGED R!absVars
    OBVIOUS
  <2> USE IpcAssumption, ClientAssumption DEF IInv
  <2>1. ASSUME NEW p \in Proc, NEW d \in Proc \ {p}, NEW t \in MsgType,
               Send(p, d, t) \/ SendBoth(p, d, t)
        PROVE  R!Next
    BY <2>1, SendImplements DEF Send, SendBoth
  <2>2. ASSUME NEW p \in Proc, RecvBoth(p)
        PROVE  R!Next
    <3>1. owed[p] \in (Proc \ {p}) \cup {ANY, INTERRUPT}
      BY <2>2 DEF RecvBoth, ClientInv
    <3> QED
      BY <2>2, <3>1, RecvImplements DEF RecvBoth
  <2>3. ASSUME NEW p \in Proc, NEW s \in (Proc \ {p}) \cup {ANY, INTERRUPT},
               Receive(p, s)
        PROVE  R!Next
    BY <2>3, RecvImplements DEF Receive
  <2>4. ASSUME Interrupt
        PROVE  R!Next
    BY <2>4, InterruptImplements DEF Interrupt
  <2>5. ASSUME UNCHANGED vars
        PROVE  UNCHANGED R!absVars
    BY <2>5 DEF vars, ipcVars, R!absVars, wantOf, Sending, Receiving
  <2> QED
    BY <2>1, <2>2, <2>3, <2>4, <2>5 DEF Next
<1> QED
  BY <1>1, <1>2, Invariance, PTL DEF Spec, R!Spec, ImplementsRendezvous
=============================================================================
