----------------------------- MODULE IpcLemmas -----------------------------
(***************************************************************************)
(* What a call of the message kernel does and keeps true, for any number   *)
(* of processes and whoever makes it.                                      *)
(***************************************************************************)
EXTENDS Ipc, TLAPS

\* What the kernel relies on.  No conjunct is inductive alone: the assertions
\* need the fields to agree and the lists to be exact, the lists need the
\* fields, and the absence of circles needs the test made by deadlock().
KernelInv ==
  /\ KernelTypeOK
  /\ NoAssertFails
  /\ FieldsAgree
  /\ QueueExact
  /\ NoMissedRendezvous
  /\ NoSleepThroughInterrupt
  /\ NoSendCycle

----------------------------------------------------------------------------
(* The two list operations. *)

\* enqueue keeps the entries, in their places, and adds the new one.
LEMMA EnqueueFacts ==
  ASSUME NEW S, NEW q \in Seq(S), NEW p \in S, NoRepeat(q), ~Listed(q, p)
  PROVE  /\ enqueue(q, p) \in Seq(S)
         /\ NoRepeat(enqueue(q, p))
         /\ \A f \in S : Listed(enqueue(q, p), f) <=> f = p \/ Listed(q, f)
<1> DEFINE u == Append(q, p)
<1>1. /\ u \in Seq(S) /\ Len(u) = Len(q) + 1 /\ Len(q) \in Nat
      /\ \A i \in 1 .. Len(q) : u[i] = q[i]
      /\ u[Len(q) + 1] = p
  OBVIOUS
<1> HIDE DEF u
<1>2. NoRepeat(u)
  BY <1>1 DEF NoRepeat, Listed
<1>3. \A f \in S : Listed(u, f) <=> f = p \/ Listed(q, f)
  BY <1>1 DEF Listed
<1> QED
  BY <1>1, <1>2, <1>3 DEF enqueue, u

\* unlink takes out one entry of a list without duplicates and closes the gap.
LEMMA UnlinkFacts ==
  ASSUME NEW S, NEW q \in Seq(S), NoRepeat(q), NEW f \in S, Listed(q, f)
  PROVE  /\ unlink(q, f) \in Seq(S)
         /\ NoRepeat(unlink(q, f))
         /\ \A g \in S : Listed(unlink(q, f), g) <=> g # f /\ Listed(q, g)
<1> DEFINE P(i) == q[i] = f /\ \A j \in 1 .. i - 1 : q[j] # f
           c == CHOOSE i \in 1 .. Len(q) : P(i)
           u == [j \in 1 .. Len(q) - 1 |-> IF j < c THEN q[j] ELSE q[j + 1]]
<1>1. PICK k \in 1 .. Len(q) : q[k] = f
  BY DEF Listed
<1>2. P(k)
  BY <1>1 DEF NoRepeat
<1>3. c \in 1 .. Len(q) /\ P(c)
  BY <1>2
<1>4. unlink(q, f) = u
  BY <1>3 DEF unlink
<1>5. /\ u \in Seq(S) /\ Len(u) = Len(q) - 1 /\ Len(q) \in Nat
      /\ \A j \in 1 .. Len(q) - 1 : u[j] = IF j < c THEN q[j] ELSE q[j + 1]
  BY <1>3
<1>6. q[c] = f
  BY <1>3
<1> HIDE DEF u, c, P
<1>7. NoRepeat(u)
  BY <1>3, <1>5 DEF NoRepeat
<1>8. ASSUME NEW g \in S PROVE Listed(u, g) <=> g # f /\ Listed(q, g)
  <2>1. ASSUME NEW j \in 1 .. Len(u), u[j] = g PROVE g # f /\ Listed(q, g)
    BY <1>3, <1>5, <1>6, <2>1 DEF NoRepeat, Listed
  <2>2. ASSUME NEW j \in 1 .. Len(q), q[j] = g, g # f PROVE Listed(u, g)
    <3>1. CASE j < c
      <4>1. j \in 1 .. Len(u) /\ u[j] = g
        BY <1>3, <1>5, <2>2, <3>1
      <4> QED
        BY <4>1 DEF Listed
    <3>2. CASE j > c
      <4>1. j - 1 \in 1 .. Len(u) /\ u[j - 1] = g
        BY <1>3, <1>5, <2>2, <3>2
      <4> QED
        BY <4>1 DEF Listed
    <3> QED
      BY <1>3, <1>6, <2>2, <3>1, <3>2
  <2> QED
    BY <2>1, <2>2 DEF Listed
<1> QED
  BY <1>4, <1>5, <1>7, <1>8

\* The flag word of a blocked process has one bit.
LEMMA FlagFacts ==
  ASSUME FieldsAgree, NEW p \in Proc
  PROVE  /\ Sending(p) => p_flags[p] = {"SENDING"}
         /\ Receiving(p) => p_flags[p] = {"RECEIVING"}
BY DEF FieldsAgree, Sending, Receiving

\* Senders that were there before, sending to the same processes, are in no
\* circle.
LEMMA NoNewSender ==
  ASSUME NoSendCycle,
         \A q \in Proc : Sending(q)' => Sending(q) /\ p_sendto'[q] = p_sendto[q]
  PROVE  NoSendCycle'
BY DEF NoSendCycle

----------------------------------------------------------------------------
(* Every outcome of a kernel call preserves KernelInv. *)

\* A receive that a recorded interrupt satisfies.
LEMMA RecvInterruptInv ==
  ASSUME KernelInv, NEW p \in Proc, p_flags[p] = {}, fault = "none",
         NEW s \in (Proc \ {p}) \cup {ANY, INTERRUPT}, recv_interrupt(p, s)
  PROVE  KernelInv'
<1> USE IpcAssumption DEF KernelInv, KernelTypeOK, recv_interrupt, int_pending
<1>1. KernelTypeOK'
  BY DEF Buffers
<1>2. NoAssertFails'
  BY DEF NoAssertFails, FieldsAgree, QueueExact, Sending, Receiving, quiet
<1>3. FieldsAgree'
  BY DEF FieldsAgree, Sending, Receiving
<1>4. QueueExact'
  BY DEF FieldsAgree, QueueExact, Sending
<1>5. NoMissedRendezvous'
  BY DEF FieldsAgree, NoMissedRendezvous, WaitsFor, Receiving, Sending, awaits
<1>6. NoSleepThroughInterrupt'
  BY DEF FieldsAgree, NoSleepThroughInterrupt, int_awaited
<1>7. NoSendCycle'
  <2>1. \A q \in Proc : Sending(q)' => Sending(q) /\ p_sendto'[q] = p_sendto[q]
    BY DEF Sending
  <2> QED
    BY <2>1, NoNewSender
<1> QED
  BY <1>1, <1>2, <1>3, <1>4, <1>5, <1>6, <1>7

\* A receive that blocks.
LEMMA RecvBlockInv ==
  ASSUME KernelInv, NEW p \in Proc, p_flags[p] = {}, fault = "none",
         NEW s \in (Proc \ {p}) \cup {ANY, INTERRUPT}, 
         s \in Proc => has_int_msg[p] = 0, recv_block(p, s)
  PROVE  KernelInv'
<1> USE IpcAssumption DEF KernelInv, KernelTypeOK, recv_block, int_pending, sender_ready
<1>1. KernelTypeOK'
  BY DEF Buffers
<1>2. NoAssertFails'
  BY DEF NoAssertFails, FieldsAgree, QueueExact, Sending, Receiving, quiet
<1>3. FieldsAgree'
  <2> SUFFICES ASSUME NEW q \in Proc
               PROVE  /\ p_flags'[q] \in {{}, {"SENDING"}, {"RECEIVING"}}
                      /\ Sending(q)' <=> p_sendto'[q] # NO_TASK
                      /\ Receiving(q)' <=> p_recvfrom'[q] # NO_TASK
                      /\ p_msg'[q] = 0 <=> p_flags'[q] = {}
    BY DEF FieldsAgree, Sending, Receiving
  <2>1. CASE q = p
    <3>1. p_flags'[p] = {"RECEIVING"} /\ p_msg'[p] = 1 /\ p_recvfrom'[p] = s
      OBVIOUS
    <3> QED
      BY <2>1, <3>1 DEF FieldsAgree, Sending, Receiving
  <2>2. CASE q # p
    BY <2>2 DEF FieldsAgree, Sending, Receiving
  <2> QED
    BY <2>1, <2>2
<1>4. QueueExact'
  BY DEF FieldsAgree, QueueExact, Sending
<1>5. NoMissedRendezvous'
  <2> SUFFICES ASSUME NEW f \in Proc, NEW d \in Proc, Sending(f)',
                      p_sendto'[f] = d, awaits(d, f)'
               PROVE  FALSE
    BY DEF NoMissedRendezvous, WaitsFor, Receiving, awaits
  <2>1. f # p
    BY DEF FieldsAgree, Sending, Receiving, awaits
  <2>2. Sending(f) /\ p_sendto[f] = d
    BY <2>1 DEF Sending
  <2>3. CASE d # p
    BY <2>2, <2>3 DEF NoMissedRendezvous, WaitsFor, Receiving, awaits
  <2>4. CASE d = p
    <3>1. s \in {f, ANY}
      BY <2>4 DEF awaits
    <3>2. q_sending[p] # <<>>
      BY <2>2, <2>4 DEF QueueExact, Listed
    <3> QED
      BY <2>2, <2>4, <3>1, <3>2 DEF Sending
  <2> QED
    BY <2>3, <2>4
<1>6. NoSleepThroughInterrupt'
  BY DEF FieldsAgree, NoSleepThroughInterrupt, int_awaited
<1>7. NoSendCycle'
  <2>1. \A q \in Proc : Sending(q)' => Sending(q) /\ p_sendto'[q] = p_sendto[q]
    BY DEF Sending
  <2> QED
    BY <2>1, NoNewSender
<1> QED
  BY <1>1, <1>2, <1>3, <1>4, <1>5, <1>6, <1>7

\* A send that panics.
LEMMA SendPanicInv ==
  ASSUME KernelInv, NEW p \in Proc, p_flags[p] = {}, fault = "none",
         NEW d \in Proc \ {p}, NEW t, 
         send_panic(p, d, [source |-> p, type |-> t])
  PROVE  KernelInv'
<1> USE IpcAssumption DEF KernelInv, KernelTypeOK, send_panic
<1>1. KernelTypeOK'
  BY DEF Buffers
<1>2. NoAssertFails'
  BY DEF NoAssertFails, FieldsAgree, QueueExact, Sending, Receiving, quiet
<1>3. FieldsAgree'
  BY DEF FieldsAgree, Sending, Receiving
<1>4. QueueExact'
  BY DEF FieldsAgree, QueueExact, Sending
<1>5. NoMissedRendezvous'
  BY DEF FieldsAgree, NoMissedRendezvous, WaitsFor, Receiving, Sending, awaits
<1>6. NoSleepThroughInterrupt'
  BY DEF FieldsAgree, NoSleepThroughInterrupt, int_awaited
<1>7. NoSendCycle'
  <2>1. \A q \in Proc : Sending(q)' => Sending(q) /\ p_sendto'[q] = p_sendto[q]
    BY DEF Sending
  <2> QED
    BY <2>1, NoNewSender
<1> QED
  BY <1>1, <1>2, <1>3, <1>4, <1>5, <1>6, <1>7

\* A send to a process that waits for it.
LEMMA SendDeliverInv ==
  ASSUME KernelInv, NEW p \in Proc, p_flags[p] = {}, fault = "none",
         NEW d \in Proc \ {p}, NEW t, 
         send_deliver(p, d, [source |-> p, type |-> t])
  PROVE  KernelInv'
<1> USE IpcAssumption DEF KernelInv, KernelTypeOK, send_deliver, awaits
<1>1. KernelTypeOK'
  BY DEF Buffers
<1>2. NoAssertFails'
  <2>1. p_flags[d] = {"RECEIVING"}
    BY FlagFacts DEF Receiving
  <2>2. p_msg[d] # 0 /\ p_sendto[d] = NO_TASK
    BY <2>1 DEF FieldsAgree, Sending
  <2>3. quiet(p)
    BY DEF FieldsAgree, Sending, Receiving, quiet
  <2> QED
    BY <2>1, <2>2, <2>3 DEF NoAssertFails
<1>3. FieldsAgree'
  BY DEF FieldsAgree, Sending, Receiving
<1>4. QueueExact'
  BY DEF FieldsAgree, QueueExact, Sending
<1>5. NoMissedRendezvous'
  BY DEF FieldsAgree, NoMissedRendezvous, WaitsFor, Receiving, Sending, awaits
<1>6. NoSleepThroughInterrupt'
  BY DEF FieldsAgree, NoSleepThroughInterrupt, int_awaited
<1>7. NoSendCycle'
  <2>1. \A q \in Proc : Sending(q)' => Sending(q) /\ p_sendto'[q] = p_sendto[q]
    BY DEF Sending
  <2> QED
    BY <2>1, NoNewSender
<1> QED
  BY <1>1, <1>2, <1>3, <1>4, <1>5, <1>6, <1>7

\* A send that blocks.  Two facts carry it: the sender was in no list, and
\* deadlock() found a set that contains d, is closed under p_sendto and does
\* not contain p.
LEMMA SendBlockInv ==
  ASSUME KernelInv, NEW p \in Proc, p_flags[p] = {}, fault = "none",
         NEW d \in Proc \ {p}, NEW t,
         send_block(p, d, [source |-> p, type |-> t])
  PROVE  KernelInv'
<1> USE IpcAssumption DEF KernelInv, KernelTypeOK
<1>1. /\ enqueue(q_sending[d], p) \in Seq(Proc)
      /\ NoRepeat(enqueue(q_sending[d], p))
      /\ \A f \in Proc : Listed(enqueue(q_sending[d], p), f)
                           <=> f = p \/ Listed(q_sending[d], f)
  <2>1. q_sending[d] \in Seq(Proc) /\ NoRepeat(q_sending[d])
    BY DEF QueueExact
  <2>2. ~Listed(q_sending[d], p)
    BY DEF QueueExact, Sending
  <2> QED
    BY <2>1, <2>2, EnqueueFacts
<1>2. \A f \in Proc : /\ Sending(f)' <=> f = p \/ Sending(f)
                      /\ p_sendto'[f] = IF f = p THEN d ELSE p_sendto[f]
                      /\ Receiving(f)' <=> Receiving(f)
  BY DEF send_block, Sending, Receiving
<1>3. ~Sending(p) /\ ~Receiving(p)
  BY DEF Sending, Receiving
<1>4. KernelTypeOK'
  BY <1>1 DEF send_block, Buffers
<1>5. NoAssertFails'
  BY <1>3 DEF send_block, NoAssertFails, FieldsAgree
<1>6. FieldsAgree'
  <2> SUFFICES ASSUME NEW f \in Proc
               PROVE  /\ p_flags'[f] \in {{}, {"SENDING"}, {"RECEIVING"}}
                      /\ Sending(f)' <=> p_sendto'[f] # NO_TASK
                      /\ Receiving(f)' <=> p_recvfrom'[f] # NO_TASK
                      /\ p_msg'[f] = 0 <=> p_flags'[f] = {}
    BY DEF FieldsAgree, Sending, Receiving
  <2>1. CASE f = p
    <3>1. p_flags'[p] = {"SENDING"} /\ p_msg'[p] = 1 /\ p_recvfrom'[p] = p_recvfrom[p]
      BY DEF send_block
    <3> QED
      BY <1>2, <1>3, <2>1, <3>1 DEF FieldsAgree, send_block
  <2>2. CASE f # p
    BY <1>2, <2>2 DEF FieldsAgree, send_block
  <2> QED
    BY <2>1, <2>2
<1>7. QueueExact'
  <2> SUFFICES ASSUME NEW e \in Proc
               PROVE  /\ NoRepeat(q_sending'[e])
                      /\ \A f \in Proc : Listed(q_sending'[e], f)
                                           <=> Sending(f)' /\ p_sendto'[f] = e
    BY DEF QueueExact, Sending
  <2>1. CASE e # d
    BY <1>2, <1>3, <2>1 DEF send_block, QueueExact
  <2>2. CASE e = d
    <3>1. q_sending'[e] = enqueue(q_sending[d], p)
      BY <2>2 DEF send_block
    <3> QED
      BY <1>1, <1>2, <1>3, <2>2, <3>1 DEF QueueExact
  <2> QED
    BY <2>1, <2>2
<1>8. NoMissedRendezvous'
  BY <1>2, <1>3 DEF send_block, NoMissedRendezvous, WaitsFor, awaits, Sending, Receiving
<1>9. NoSleepThroughInterrupt'
  BY DEF send_block, NoSleepThroughInterrupt, int_awaited
<1>10. NoSendCycle'
  <2> SUFFICES ASSUME NEW S \in SUBSET Proc, S # {},
                      \A f \in S : Sending(f)' /\ p_sendto'[f] \in S
               PROVE  FALSE
    BY DEF NoSendCycle, Sending
  <2>1. CASE p \notin S
    BY <1>2, <2>1 DEF NoSendCycle
  <2>2. CASE p \in S
    <3>1. d \in S
      BY <1>2, <2>2
    <3>2. PICK T \in SUBSET Proc : d \in T /\ SendClosed(T) /\ p \notin T
      BY DEF send_block, deadlock
    <3>3. S \cap T # {} /\ S \cap T \in SUBSET Proc
      BY <3>1, <3>2
    <3>4. \A f \in S \cap T : Sending(f) /\ p_sendto[f] \in S \cap T
      BY <1>2, <3>2 DEF SendClosed, Sending
    <3> QED
      BY <3>3, <3>4 DEF NoSendCycle
  <2> QED
    BY <2>1, <2>2
<1> QED
  BY <1>4, <1>5, <1>6, <1>7, <1>8, <1>9, <1>10

\* What a receive that takes a blocked sender does, its assertions included.
LEMMA RecvCopyFacts ==
  ASSUME KernelInv, NEW p \in Proc, p_flags[p] = {}, fault = "none",
         NEW s \in (Proc \ {p}) \cup {ANY, INTERRUPT}, recv_copy(p, s)
  PROVE  \E f \in Proc \ {p} :
           /\ s \in {f, ANY} /\ ~int_pending(p, s)
           /\ p_flags[f] = {"SENDING"} /\ p_sendto[f] = p
           /\ p_recvfrom[f] = NO_TASK /\ Listed(q_sending[p], f)
           /\ q_sending' = [q_sending EXCEPT ![p] = unlink(@, f)]
           /\ msg' = [msg EXCEPT ![p] = msg[f]]
           /\ p_msg' = [p_msg EXCEPT ![f] = 0]
           /\ p_sendto' = [p_sendto EXCEPT ![f] = NO_TASK]
           /\ p_flags' = [p_flags EXCEPT ![f] = {}]
           /\ UNCHANGED <<p_recvfrom, has_int_msg, fault>>
<1> DEFINE f == IF s = ANY THEN Head(q_sending[p]) ELSE s
<1> USE IpcAssumption DEF KernelInv, KernelTypeOK
<1>1. f \in Proc /\ Sending(f) /\ p_sendto[f] = p /\ Listed(q_sending[p], f)
  <2>1. CASE s = ANY
    <3>1. q_sending[p] # <<>>
      BY <2>1 DEF recv_copy, sender_ready
    <3>2. Head(q_sending[p]) \in Proc /\ Listed(q_sending[p], Head(q_sending[p]))
      BY <3>1 DEF Listed
    <3> QED
      BY <2>1, <3>2 DEF QueueExact
  <2>2. CASE s # ANY
    BY <2>2 DEF recv_copy, sender_ready, QueueExact, Sending
  <2> QED
    BY <2>1, <2>2
<1>2. /\ ~int_pending(p, s)
      /\ q_sending' = [q_sending EXCEPT ![p] = unlink(@, f)]
      /\ msg' = [msg EXCEPT ![p] = msg[f]]
      /\ p_msg' = [p_msg EXCEPT ![f] = 0]
      /\ p_sendto' = [p_sendto EXCEPT ![f] = NO_TASK]
      /\ p_flags' = [p_flags EXCEPT ![f] = @ \ {"SENDING"}]
      /\ UNCHANGED <<p_recvfrom, has_int_msg>>
  BY DEF recv_copy
<1>3. p_flags[f] = {"SENDING"} /\ f # p
  BY <1>1, FlagFacts
<1>4. p_msg[f] # 0 /\ p_recvfrom[f] = NO_TASK
  BY <1>1, <1>3 DEF FieldsAgree, Receiving
<1>5. p_flags' = [p_flags EXCEPT ![f] = {}]
  BY <1>1, <1>2, <1>3
<1>6. fault' = fault
  <2>1. quiet(p)
    BY DEF FieldsAgree, Sending, Receiving, quiet
  <2>2. q_sending[p] # <<>>
    BY <1>1 DEF Listed
  <2> QED
    BY <1>1, <1>3, <1>4, <2>1, <2>2 DEF recv_copy
<1>7. s \in {f, ANY}
  OBVIOUS
<1> HIDE DEF f
<1> QED
  BY <1>1, <1>2, <1>3, <1>4, <1>5, <1>6, <1>7

\* A receive that takes a blocked sender off the list.
LEMMA RecvCopyInv ==
  ASSUME KernelInv, NEW p \in Proc, p_flags[p] = {}, fault = "none",
         NEW s \in (Proc \ {p}) \cup {ANY, INTERRUPT}, recv_copy(p, s)
  PROVE  KernelInv'
<1> USE IpcAssumption DEF KernelInv, KernelTypeOK
<1>1. PICK f \in Proc \ {p} :
           /\ p_flags[f] = {"SENDING"} /\ p_sendto[f] = p
           /\ p_recvfrom[f] = NO_TASK /\ Listed(q_sending[p], f)
           /\ q_sending' = [q_sending EXCEPT ![p] = unlink(@, f)]
           /\ msg' = [msg EXCEPT ![p] = msg[f]]
           /\ p_msg' = [p_msg EXCEPT ![f] = 0]
           /\ p_sendto' = [p_sendto EXCEPT ![f] = NO_TASK]
           /\ p_flags' = [p_flags EXCEPT ![f] = {}]
           /\ UNCHANGED <<p_recvfrom, has_int_msg, fault>>
  BY RecvCopyFacts
<1>2. /\ unlink(q_sending[p], f) \in Seq(Proc)
      /\ NoRepeat(unlink(q_sending[p], f))
      /\ \A g \in Proc : Listed(unlink(q_sending[p], f), g)
                           <=> g # f /\ Listed(q_sending[p], g)
  <2>1. q_sending[p] \in Seq(Proc) /\ NoRepeat(q_sending[p])
    BY DEF QueueExact
  <2> QED
    BY <1>1, <2>1, UnlinkFacts
<1>3. \A g \in Proc : /\ Sending(g)' <=> g # f /\ Sending(g)
                      /\ p_sendto'[g] = IF g = f THEN NO_TASK ELSE p_sendto[g]
                      /\ Receiving(g)' <=> Receiving(g)
  BY <1>1 DEF Sending, Receiving
<1>4. KernelTypeOK'
  BY <1>1, <1>2 DEF Buffers
<1>5. NoAssertFails'
  BY <1>1 DEF NoAssertFails
<1>6. FieldsAgree'
  <2> SUFFICES ASSUME NEW g \in Proc
               PROVE  /\ p_flags'[g] \in {{}, {"SENDING"}, {"RECEIVING"}}
                      /\ Sending(g)' <=> p_sendto'[g] # NO_TASK
                      /\ Receiving(g)' <=> p_recvfrom'[g] # NO_TASK
                      /\ p_msg'[g] = 0 <=> p_flags'[g] = {}
    BY DEF FieldsAgree, Sending, Receiving
  <2>1. CASE g = f
    BY <1>1, <1>3, <2>1 DEF FieldsAgree
  <2>2. CASE g # f
    BY <1>1, <1>3, <2>2 DEF FieldsAgree
  <2> QED
    BY <2>1, <2>2
<1>7. QueueExact'
  <2> SUFFICES ASSUME NEW e \in Proc
               PROVE  /\ NoRepeat(q_sending'[e])
                      /\ \A g \in Proc : Listed(q_sending'[e], g)
                                           <=> Sending(g)' /\ p_sendto'[g] = e
    BY DEF QueueExact, Sending
  <2>1. CASE e # p
    BY <1>1, <1>3, <2>1 DEF QueueExact
  <2>2. CASE e = p
    <3>1. q_sending'[e] = unlink(q_sending[p], f)
      BY <1>1, <2>2
    <3> QED
      BY <1>1, <1>2, <1>3, <2>2, <3>1 DEF QueueExact
  <2> QED
    BY <2>1, <2>2
<1>8. NoMissedRendezvous'
  BY <1>1, <1>3 DEF NoMissedRendezvous, WaitsFor, awaits, Sending, Receiving
<1>9. NoSleepThroughInterrupt'
  BY <1>1, <1>3 DEF NoSleepThroughInterrupt, int_awaited, Receiving
<1>10. NoSendCycle'
  BY <1>1, <1>3 DEF NoSendCycle
<1> QED
  BY <1>4, <1>5, <1>6, <1>7, <1>8, <1>9, <1>10

\* An interrupt, delivered or recorded.
LEMMA InformIntInv ==
  ASSUME KernelInv, NEW t \in Proc, fault = "none", inform_int(t)
  PROVE  KernelInv'
<1> USE IpcAssumption DEF KernelInv, KernelTypeOK
<1>1. CASE ~int_awaited(t)
  <2>1. /\ has_int_msg' = [has_int_msg EXCEPT ![t] = 1]
        /\ UNCHANGED <<p_flags, p_msg, p_recvfrom, p_sendto, q_sending, msg, fault>>
    BY <1>1 DEF inform_int, int_recorded
  <2>2. NoSleepThroughInterrupt'
    BY <1>1, <2>1 DEF NoSleepThroughInterrupt, int_awaited
  <2>3. FieldsAgree' /\ NoAssertFails'
    BY <2>1 DEF FieldsAgree, NoAssertFails, Sending, Receiving
  <2>4. QueueExact' /\ NoMissedRendezvous' /\ NoSendCycle'
    BY <2>1 DEF QueueExact, NoMissedRendezvous, WaitsFor, Receiving, NoSendCycle, Sending, awaits
  <2>5. KernelTypeOK'
    BY <2>1 DEF Buffers
  <2> QED
    BY <2>2, <2>3, <2>4, <2>5
<1>2. CASE int_awaited(t)
  <2>1. p_flags[t] = {"RECEIVING"} /\ p_sendto[t] = NO_TASK
    <3>1. p_flags[t] = {"RECEIVING"}
      BY <1>2, FlagFacts DEF int_awaited, Receiving
    <3> QED
      BY <3>1 DEF FieldsAgree, Sending
  <2>2. /\ msg' = [msg EXCEPT ![t] = [source |-> INTERRUPT, type |-> HARD_INT]]
        /\ p_msg' = [p_msg EXCEPT ![t] = 0]
        /\ has_int_msg' = [has_int_msg EXCEPT ![t] = 0]
        /\ p_flags' = [p_flags EXCEPT ![t] = {}]
        /\ p_recvfrom' = [p_recvfrom EXCEPT ![t] = NO_TASK]
        /\ UNCHANGED <<p_sendto, q_sending, fault>>
    BY <1>2, <2>1 DEF inform_int, int_recorded
  <2>3. \A g \in Proc : /\ Sending(g)' <=> Sending(g)
                        /\ Receiving(g)' <=> g # t /\ Receiving(g)
    BY <2>1, <2>2 DEF Sending, Receiving
  <2>4. KernelTypeOK'
    BY <2>2 DEF Buffers
  <2>5. FieldsAgree'
    BY <2>1, <2>2, <2>3 DEF FieldsAgree
  <2>6. QueueExact'
    BY <2>2, <2>3 DEF QueueExact
  <2>7. NoMissedRendezvous'
    BY <2>2, <2>3 DEF NoMissedRendezvous, WaitsFor, awaits, Sending, Receiving
  <2>8. NoSleepThroughInterrupt'
    BY <2>2, <2>3 DEF NoSleepThroughInterrupt, int_awaited, Receiving
  <2>9. NoSendCycle'
    BY <2>2, <2>3 DEF NoSendCycle
  <2> QED
    BY <2>2, <2>4, <2>5, <2>6, <2>7, <2>8, <2>9 DEF NoAssertFails
<1> QED
  BY <1>1, <1>2

\* A send, whichever of its three outcomes it has.
LEMMA SendInv ==
  ASSUME KernelInv, NEW p \in Proc, p_flags[p] = {}, fault = "none",
         NEW d \in Proc \ {p}, NEW t, msg_send(p, d, t)
  PROVE  KernelInv'
BY SendPanicInv, SendDeliverInv, SendBlockInv DEF msg_send

\* A receive, whichever of its three outcomes it has.
LEMMA RecvInv ==
  ASSUME KernelInv, NEW p \in Proc, p_flags[p] = {}, fault = "none",
         NEW s \in (Proc \ {p}) \cup {ANY, INTERRUPT},
         s \in Proc => has_int_msg[p] = 0, msg_recevie(p, s)
  PROVE  KernelInv'
BY RecvInterruptInv, RecvCopyInv, RecvBlockInv DEF msg_recevie

\* The kernel starts with nobody blocked.
LEMMA KernelInit == IpcInit([p \in Proc |-> {}]) => KernelInv
<1> SUFFICES ASSUME IpcInit([p \in Proc |-> {}]) PROVE KernelInv
  OBVIOUS
<1> USE IpcAssumption DEF IpcInit
<1>1. KernelTypeOK
  BY DEF KernelTypeOK, Buffers
<1>2. NoAssertFails /\ FieldsAgree
  BY DEF NoAssertFails, FieldsAgree, Sending, Receiving
<1>3. QueueExact
  BY DEF QueueExact, NoRepeat, Listed, Sending
<1>4. NoMissedRendezvous /\ NoSleepThroughInterrupt /\ NoSendCycle
  BY DEF NoMissedRendezvous, NoSleepThroughInterrupt, NoSendCycle, Sending
<1> QED
  BY <1>1, <1>2, <1>3, <1>4 DEF KernelInv

\* A step that leaves the table alone.
LEMMA KernelFrame ==
  ASSUME KernelInv, Buffers', fault' \in {"none", "panic"},
         UNCHANGED <<p_flags, p_msg, p_recvfrom, p_sendto, has_int_msg, q_sending>>
  PROVE  KernelInv'
<1> USE DEF KernelInv, Sending, Receiving
<1>1. KernelTypeOK' /\ NoAssertFails'
  BY DEF KernelTypeOK, NoAssertFails
<1>2. FieldsAgree' /\ QueueExact'
  BY DEF FieldsAgree, QueueExact
<1>3. NoMissedRendezvous' /\ NoSleepThroughInterrupt' /\ NoSendCycle'
  BY DEF NoMissedRendezvous, WaitsFor, NoSleepThroughInterrupt, int_awaited, NoSendCycle
<1> QED
  BY <1>1, <1>2, <1>3

----------------------------------------------------------------------------
(* The same calls, as the processes see them. *)

\* Where a process stands: it may go on, it is blocked sending to d, or it is
\* blocked receiving from s.
Ready(p) == p_flags[p] = {}
SendsTo(p, d) == Sending(p) /\ p_sendto[p] = d
WaitsOn(p, s) == Receiving(p) /\ p_recvfrom[p] = s

\* A process that a call does not touch.
Unmoved(r) ==
  /\ Ready(r)' <=> Ready(r)
  /\ \A x : (SendsTo(r, x)' <=> SendsTo(r, x)) /\ (WaitsOn(r, x)' <=> WaitsOn(r, x))
  /\ msg'[r] = msg[r]

\* A process stands in one place only, and nobody is blocked on a process that
\* waits for it.
Place(p) ==
  /\ \/ Ready(p)
     \/ \E d \in Proc : SendsTo(p, d)
     \/ \E s \in Proc \cup {ANY, INTERRUPT} : WaitsOn(p, s)
  /\ \A x : ~(Ready(p) /\ SendsTo(p, x)) /\ ~(Ready(p) /\ WaitsOn(p, x))
  /\ \A x, y : ~(SendsTo(p, x) /\ WaitsOn(p, y))
  /\ \A x, y : SendsTo(p, x) /\ SendsTo(p, y) => x = y
  /\ \A x, y : WaitsOn(p, x) /\ WaitsOn(p, y) => x = y
  /\ \A d \in Proc : SendsTo(p, d) => ~WaitsOn(d, p) /\ ~WaitsOn(d, ANY)
Places == \A p \in Proc : Place(p)

\* It follows from the invariant of the kernel.
LEMMA PlaceFacts == KernelInv => Places
<1> SUFFICES ASSUME KernelInv, NEW p \in Proc PROVE Place(p)
  BY DEF Places
<1> USE IpcAssumption DEF KernelInv, KernelTypeOK, FieldsAgree
<1>1. p_flags[p] \in {{}, {"SENDING"}, {"RECEIVING"}}
  OBVIOUS
<1>2. \/ Ready(p)
      \/ \E d \in Proc : SendsTo(p, d)
      \/ \E s \in Proc \cup {ANY, INTERRUPT} : WaitsOn(p, s)
  <2>1. CASE p_flags[p] = {}
    BY <2>1 DEF Ready
  <2>2. CASE p_flags[p] = {"SENDING"}
    <3>1. Sending(p) /\ p_sendto[p] \in Proc
      BY <2>2 DEF Sending
    <3> QED
      BY <3>1 DEF SendsTo
  <2>3. CASE p_flags[p] = {"RECEIVING"}
    <3>1. Receiving(p) /\ p_recvfrom[p] \in Proc \cup {ANY, INTERRUPT}
      BY <2>3 DEF Receiving
    <3> QED
      BY <3>1 DEF WaitsOn
  <2> QED
    BY <1>1, <2>1, <2>2, <2>3
<1>3. ~(Ready(p) /\ Sending(p)) /\ ~(Ready(p) /\ Receiving(p)) /\ ~(Sending(p) /\ Receiving(p))
  BY <1>1 DEF Ready, Sending, Receiving
<1>4. \A d \in Proc : SendsTo(p, d) => ~WaitsOn(d, p) /\ ~WaitsOn(d, ANY)
  BY DEF NoMissedRendezvous, SendsTo, WaitsOn, WaitsFor
<1> QED
  BY <1>2, <1>3, <1>4 DEF Place, SendsTo, WaitsOn

\* And so it does after a step.
LEMMA PlaceFactsNext == KernelInv' => Places'
BY PlaceFacts, PTL

\* The fields that an untouched process keeps.
LEMMA UnmovedFacts ==
  ASSUME NEW r, p_flags'[r] = p_flags[r], p_recvfrom'[r] = p_recvfrom[r],
         p_sendto'[r] = p_sendto[r], msg'[r] = msg[r]
  PROVE  Unmoved(r)
BY DEF Unmoved, Ready, SendsTo, WaitsOn, Sending, Receiving

\* How a send ends: the receiver was waiting and goes on with the message, or
\* the sender blocks.
SendOutcome(p, d, t) ==
  /\ fault' = "none" /\ has_int_msg' = has_int_msg
  /\ \A r \in Proc \ {p, d} : Unmoved(r)
  /\ \/ /\ WaitsOn(d, p) \/ WaitsOn(d, ANY)
        /\ Ready(p)' /\ Ready(d)' /\ msg'[d] = [source |-> p, type |-> t]
     \/ /\ ~WaitsOn(d, p) /\ ~WaitsOn(d, ANY)
        /\ SendsTo(p, d)' /\ msg'[p] = [source |-> p, type |-> t]
        /\ Unmoved(d)

\* So does a send to a process that is blocked sending to nobody, or to e and e
\* to nobody.
LEMMA SendEffect ==
  ASSUME KernelInv, NEW p \in Proc, Ready(p), fault = "none",
         NEW d \in Proc \ {p}, NEW t, msg_send(p, d, t),
         NEW e \in Proc \ {p},
         \A x : SendsTo(d, x) => x = e, \A x : ~SendsTo(e, x)
  PROVE  KernelInv' /\ SendOutcome(p, d, t)
<1> DEFINE m == [source |-> p, type |-> t]
<1> USE IpcAssumption DEF KernelInv, KernelTypeOK
<1>1. KernelInv'
  BY SendInv DEF Ready
<1>2. ~deadlock(p, d)
  <2>1. SendClosed({d, e})
    BY DEF SendClosed, SendsTo, Sending
  <2> QED
    BY <2>1 DEF deadlock
<1>3. awaits(d, p) <=> WaitsOn(d, p) \/ WaitsOn(d, ANY)
  BY DEF awaits, WaitsOn, Receiving
<1>4. msg = [q \in Proc |-> msg[q]]
  BY DEF Buffers
<1>5. CASE send_deliver(p, d, m)
  <2>1. /\ msg' = [msg EXCEPT ![p] = m, ![d] = m]
        /\ p_flags' = [p_flags EXCEPT ![d] = @ \ {"RECEIVING"}]
        /\ p_recvfrom' = [p_recvfrom EXCEPT ![d] = NO_TASK]
        /\ UNCHANGED <<p_sendto, has_int_msg>> /\ awaits(d, p)
    BY <1>5 DEF send_deliver
  <2>2. p_flags[d] = {"RECEIVING"}
    BY <2>1, FlagFacts DEF awaits, Receiving
  <2>3. fault' = "none"
    <3>1. p_msg[d] # 0 /\ p_sendto[d] = NO_TASK
      BY <2>2 DEF FieldsAgree, Sending
    <3>2. quiet(p) /\ p_flags[p] = {}
      BY DEF FieldsAgree, Sending, Receiving, quiet, Ready
    <3> QED
      BY <1>5, <2>2, <3>1, <3>2 DEF send_deliver
  <2>4. msg'[d] = m /\ p_flags'[d] = {} /\ p_flags'[p] = p_flags[p]
    BY <1>4, <2>1, <2>2
  <2>5. ASSUME NEW r \in Proc \ {p, d} PROVE Unmoved(r)
    BY <1>4, <2>1, UnmovedFacts
  <2> QED
    BY <1>1, <1>3, <2>1, <2>3, <2>4, <2>5 DEF SendOutcome, Ready
<1>6. CASE send_block(p, d, m)
  <2>1. /\ msg' = [msg EXCEPT ![p] = m]
        /\ p_flags' = [p_flags EXCEPT ![p] = @ \cup {"SENDING"}]
        /\ p_sendto' = [p_sendto EXCEPT ![p] = d]
        /\ UNCHANGED <<p_recvfrom, has_int_msg>> /\ ~awaits(d, p)
    BY <1>6 DEF send_block
  <2>2. fault' = "none"
    <3>1. p_recvfrom[p] = NO_TASK /\ p_flags[p] = {}
      BY DEF FieldsAgree, Receiving, Ready
    <3> QED
      BY <1>6, <3>1 DEF send_block
  <2>3. msg'[p] = m /\ p_flags'[p] = p_flags[p] \cup {"SENDING"} /\ p_sendto'[p] = d
    BY <1>4, <2>1
  <2>4. ASSUME NEW r \in Proc \ {p} PROVE Unmoved(r)
    BY <1>4, <2>1, UnmovedFacts
  <2> QED
    BY <1>1, <1>3, <2>1, <2>2, <2>3, <2>4 DEF SendOutcome, SendsTo, Sending
<1> QED
  BY <1>2, <1>5, <1>6 DEF msg_send, send_panic

\* How a receive ends: a recorded interrupt satisfies it, or a blocked sender
\* that goes on, or the receiver blocks.
RecvOutcome(p, s) ==
  /\ fault' = "none"
  /\ \/ /\ s \in {ANY, INTERRUPT} /\ has_int_msg[p] = 1
        /\ has_int_msg' = [has_int_msg EXCEPT ![p] = 0]
        /\ Ready(p)'
        /\ \A r \in Proc \ {p} : Unmoved(r)
     \/ /\ has_int_msg' = has_int_msg
        /\ \E f \in Proc \ {p} :
             /\ SendsTo(f, p) /\ s \in {f, ANY}
             /\ Ready(p)' /\ Ready(f)' /\ msg'[p] = msg[f] /\ msg'[f] = msg[f]
             /\ \A r \in Proc \ {p, f} : Unmoved(r)
     \/ /\ has_int_msg' = has_int_msg
        /\ s \in {ANY, INTERRUPT} => has_int_msg[p] = 0
        /\ \A f \in Proc : s \in {f, ANY} => ~SendsTo(f, p)
        /\ WaitsOn(p, s)'
        /\ \A r \in Proc \ {p} : Unmoved(r)

\* So does every receive.
LEMMA RecvEffect ==
  ASSUME KernelInv, NEW p \in Proc, Ready(p), fault = "none",
         NEW s \in (Proc \ {p}) \cup {ANY, INTERRUPT},
         s \in Proc => has_int_msg[p] = 0, msg_recevie(p, s)
  PROVE  KernelInv' /\ RecvOutcome(p, s)
<1> USE IpcAssumption DEF KernelInv, KernelTypeOK
<1>1. KernelInv'
  BY RecvInv DEF Ready
<1>2. msg = [q \in Proc |-> msg[q]]
  BY DEF Buffers
<1>3. p_flags[p] = {} /\ p_sendto[p] = NO_TASK /\ p_msg[p] = 0
  BY DEF FieldsAgree, Ready, Sending
<1>4. CASE recv_interrupt(p, s)
  <2>1. /\ msg' = [msg EXCEPT ![p] = [source |-> INTERRUPT, type |-> HARD_INT]]
        /\ has_int_msg' = [has_int_msg EXCEPT ![p] = 0]
        /\ UNCHANGED <<p_flags, p_recvfrom, p_sendto>> /\ fault' = "none"
        /\ s \in {ANY, INTERRUPT} /\ has_int_msg[p] = 1
    BY <1>3, <1>4 DEF recv_interrupt, int_pending
  <2>2. ASSUME NEW r \in Proc \ {p} PROVE Unmoved(r)
    BY <1>2, <2>1, UnmovedFacts
  <2> QED
    BY <1>1, <1>3, <2>1, <2>2 DEF RecvOutcome, Ready
<1>5. CASE recv_copy(p, s)
  <2>1. PICK f \in Proc \ {p} :
           /\ s \in {f, ANY} /\ ~int_pending(p, s)
           /\ p_flags[f] = {"SENDING"} /\ p_sendto[f] = p
           /\ p_recvfrom[f] = NO_TASK /\ Listed(q_sending[p], f)
           /\ q_sending' = [q_sending EXCEPT ![p] = unlink(@, f)]
           /\ msg' = [msg EXCEPT ![p] = msg[f]]
           /\ p_msg' = [p_msg EXCEPT ![f] = 0]
           /\ p_sendto' = [p_sendto EXCEPT ![f] = NO_TASK]
           /\ p_flags' = [p_flags EXCEPT ![f] = {}]
           /\ UNCHANGED <<p_recvfrom, has_int_msg, fault>>
    BY <1>3, <1>5, RecvCopyFacts
  <2>2. /\ SendsTo(f, p) /\ msg'[p] = msg[f] /\ msg'[f] = msg[f]
        /\ p_flags'[f] = {} /\ p_flags'[p] = {}
    BY <1>2, <1>3, <2>1 DEF SendsTo, Sending
  <2>3. ASSUME NEW r \in Proc \ {p, f} PROVE Unmoved(r)
    BY <1>2, <2>1, UnmovedFacts
  <2> QED
    BY <1>1, <2>1, <2>2, <2>3 DEF RecvOutcome, Ready
<1>6. CASE recv_block(p, s)
  <2>1. /\ msg' = [msg EXCEPT ![p].source = p]
        /\ p_flags' = [p_flags EXCEPT ![p] = @ \cup {"RECEIVING"}]
        /\ p_recvfrom' = [p_recvfrom EXCEPT ![p] = s]
        /\ UNCHANGED <<p_sendto, has_int_msg>>
        /\ ~int_pending(p, s) /\ ~sender_ready(p, s)
    BY <1>6 DEF recv_block
  <2>2. s \in {ANY, INTERRUPT} => has_int_msg[p] = 0
    BY <2>1 DEF int_pending
  <2>3. fault' = "none"
    BY <1>3, <1>6, <2>2 DEF recv_block
  <2>4. ASSUME NEW f \in Proc, s \in {f, ANY}, SendsTo(f, p) PROVE FALSE
    <3>1. q_sending[p] # <<>>
      BY <2>4 DEF QueueExact, Listed, SendsTo
    <3> QED
      BY <2>1, <2>4, <3>1 DEF sender_ready, SendsTo, Sending
  <2>5. p_flags'[p] = p_flags[p] \cup {"RECEIVING"} /\ p_recvfrom'[p] = s
    BY <2>1
  <2>6. ASSUME NEW r \in Proc \ {p} PROVE Unmoved(r)
    BY <1>2, <2>1, UnmovedFacts
  <2> QED
    BY <1>1, <2>1, <2>2, <2>3, <2>4, <2>5, <2>6 DEF RecvOutcome, WaitsOn, Receiving
<1> QED
  BY <1>4, <1>5, <1>6 DEF msg_recevie

\* An interrupt: its task goes on, or it is recorded.
LEMMA InformEffect ==
  ASSUME KernelInv, NEW t \in Proc, fault = "none", inform_int(t)
  PROVE  /\ KernelInv' /\ fault' = "none"
         /\ \A r \in Proc \ {t} : Unmoved(r) /\ has_int_msg'[r] = has_int_msg[r]
         /\ \/ /\ WaitsOn(t, INTERRUPT) \/ WaitsOn(t, ANY)
               /\ Ready(t)' /\ has_int_msg'[t] = 0
            \/ /\ ~WaitsOn(t, INTERRUPT) /\ ~WaitsOn(t, ANY)
               /\ Unmoved(t) /\ has_int_msg'[t] = 1
<1> USE IpcAssumption DEF KernelInv, KernelTypeOK
<1>1. KernelInv'
  BY InformIntInv
<1>2. msg = [q \in Proc |-> msg[q]]
  BY DEF Buffers
<1>3. int_awaited(t) <=> WaitsOn(t, INTERRUPT) \/ WaitsOn(t, ANY)
  BY DEF int_awaited, WaitsOn, Receiving
<1>4. CASE ~int_awaited(t)
  <2>1. /\ has_int_msg' = [has_int_msg EXCEPT ![t] = 1]
        /\ UNCHANGED <<p_flags, p_recvfrom, p_sendto, msg, fault>>
    BY <1>4 DEF inform_int, int_recorded
  <2>2. \A r : Unmoved(r)
    BY <2>1, UnmovedFacts
  <2> QED
    BY <1>1, <1>3, <1>4, <2>1, <2>2
<1>5. CASE int_awaited(t)
  <2>1. p_flags[t] = {"RECEIVING"} /\ p_sendto[t] = NO_TASK
    <3>1. p_flags[t] = {"RECEIVING"}
      BY <1>5, FlagFacts DEF int_awaited, Receiving
    <3> QED
      BY <3>1 DEF FieldsAgree, Sending
  <2>2. /\ msg' = [msg EXCEPT ![t] = [source |-> INTERRUPT, type |-> HARD_INT]]
        /\ has_int_msg' = [has_int_msg EXCEPT ![t] = 0]
        /\ p_flags' = [p_flags EXCEPT ![t] = {}]
        /\ p_recvfrom' = [p_recvfrom EXCEPT ![t] = NO_TASK]
        /\ UNCHANGED <<p_sendto, fault>>
    BY <1>5, <2>1 DEF inform_int
  <2>3. ASSUME NEW r \in Proc \ {t} PROVE Unmoved(r) /\ has_int_msg'[r] = has_int_msg[r]
    BY <1>2, <2>2, UnmovedFacts
  <2> QED
    BY <1>1, <1>3, <1>5, <2>2, <2>3 DEF Ready
<1> QED
  BY <1>4, <1>5
=============================================================================
