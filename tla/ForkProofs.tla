----------------------------- MODULE ForkProofs -----------------------------
(***************************************************************************)
(* Processes for any number of slots and any programs: the tree of         *)
(* processes stays whole, every exit is noticed, nobody returns from       *)
(* exit(), and as long as no store to a p_flags has undone what the kernel *)
(* did to it, every call comes back with an answer and no assert of the    *)
(* kernel fails.                                                           *)
(***************************************************************************)
EXTENDS ForkExit, IpcLemmas, WellFoundedInduction

Flag == {"SENDING", "RECEIVING", "WAITING", "HANGING", "FREE_SLOT"}

KernelTypes ==
  /\ p_flags \in [Proc -> SUBSET Flag]
  /\ p_msg \in [Proc -> {0, 1}]
  /\ p_recvfrom \in [Proc -> Proc \cup {ANY, NO_TASK}]
  /\ p_sendto \in [Proc -> Proc \cup {NO_TASK}]
  /\ has_int_msg \in [Proc -> {0}]
  /\ q_sending \in [Proc -> Seq(Proc)]
  /\ Buffers

TableTypes ==
  /\ p_parent \in [User -> User \cup {NO_TASK}]
  /\ lib \in [User -> [call : {"none", "FORK", "WAIT", "EXIT"}, at : {"sent", "received"}]]
  /\ mm \in [at : {"receive", "got", "store", "birth", "reply", "cleanup", "free",
                   "orphans", "assert"},
             src : User \cup {NO_TASK}, who : Slots \cup {NO_TASK},
             load : {{}, {"RECEIVING"}}, bit : {"none", "WAITING", "HANGING"},
             then : {"none", "receive", "orphans", "assert"}]
  /\ torn \in BOOLEAN

Types == KernelTypes /\ TableTypes

----------------------------------------------------------------------------
(* Where a process is *)

\* In its own code, its last call answered by task_mm; it has not called exit().
AtUser(i) ==
  /\ p_flags[i] = {} /\ quiet(i) /\ lib[i].at = "received"
  /\ lib[i].call # "EXIT" /\ (lib[i].call # "none" => msg[i].source = TASK_MM)

\* Blocked sending its call to task_mm.
Asking(i) ==
  /\ p_flags[i] = {"SENDING"} /\ p_msg[i] = 1 /\ p_recvfrom[i] = NO_TASK
  /\ p_sendto[i] = TASK_MM /\ lib[i].at = "sent" /\ lib[i].call # "none"
  /\ msg[i] = [source |-> i, type |-> Body(lib[i].call, 0)]

\* Its call was heard, and it has not got to its receive.
Heard(i, x) == p_flags[i] = x /\ quiet(i) /\ lib[i].at = "sent"

Blocked(i) == p_msg[i] = 1 /\ p_recvfrom[i] = TASK_MM /\ p_sendto[i] = NO_TASK

\* Blocked in its receive.
Awaiting(i, x) ==
  p_flags[i] = {"RECEIVING"} \cup x /\ Blocked(i) /\ lib[i].at = "received"

\* The same, but a store of task_mm has undone the RECEIVING bit.
Lost(i, x) == torn /\ p_flags[i] = x /\ Blocked(i) /\ lib[i].at = "received"

\* In the call c, heard by task_mm, with the bits x of task_mm set.
Called(i, c, x) ==
  lib[i].call = c /\ (Heard(i, x) \/ Awaiting(i, x) \/ Lost(i, x))

\* The call of i has been heard and is not answered; i is not lost.
Served(i, c) ==
  lib[i].call = c /\ c # "none" /\ (Heard(i, {}) \/ Awaiting(i, {}))

\* Every process is at one of these places.
UserPlace(i) ==
  \/ AtUser(i)
  \/ Asking(i)
  \/ \E c \in {"FORK", "WAIT", "EXIT"} : Served(i, c)
  \/ Called(i, "WAIT", {})
  \/ Called(i, "WAIT", {"WAITING"})
  \/ Called(i, "EXIT", {"HANGING"})
  \/ i \in Slots /\ Free(i)

UserInv ==
  \A i \in User : UserPlace(i) /\ (lib[i].call = "EXIT" => i \in Slots)

----------------------------------------------------------------------------
(* Where task_mm is *)

MMReady == p_flags[TASK_MM] = {} /\ quiet(TASK_MM)

MMListens ==
  /\ p_flags[TASK_MM] = {"RECEIVING"} /\ p_msg[TASK_MM] = 1
  /\ p_recvfrom[TASK_MM] = ANY /\ p_sendto[TASK_MM] = NO_TASK

\* With a call in its buffer.
MMHeard ==
  MMReady /\ \E i \in User : \E c \in {"FORK", "WAIT", "EXIT"} :
    msg[TASK_MM] = [source |-> i, type |-> Body(c, 0)] /\ Served(i, c)

\* Blocked sending the answer to q, which has not got to its receive or has
\* been lost.
MMSends(q, c) ==
  /\ p_flags[TASK_MM] = {"SENDING"} /\ p_msg[TASK_MM] = 1
  /\ p_recvfrom[TASK_MM] = NO_TASK /\ p_sendto[TASK_MM] = q
  /\ msg[TASK_MM].source = TASK_MM
  /\ lib[q].call = c /\ (Heard(q, {}) \/ Lost(q, {}))

\* Between the load and the store of `p_flags of mm.src |= bit'.
Marking ==
  /\ mm.src \in User /\ p_flags[mm.src] \in {mm.load, {"RECEIVING"}}
  /\ \/ /\ mm.bit = "WAITING" /\ mm.then = "receive"
        /\ Served(mm.src, "WAIT")
        /\ \A i \in Slots : p_parent[i] = mm.src => ~Hanging(i)
     \/ /\ mm.bit = "HANGING" /\ mm.then = "orphans"
        /\ Served(mm.src, "EXIT") /\ ~Waiting(p_parent[mm.src])

\* cleanup is at work on the zombie mm.who.
CleansUp ==
  /\ mm.who \in Slots /\ p_parent[mm.who] \in User /\ lib[mm.who].call = "EXIT"
  /\ \/ mm.then = "orphans" /\ mm.src = mm.who /\ Served(mm.who, "EXIT")
     \/ mm.then \in {"receive", "assert"} /\ Called(mm.who, "EXIT", {"HANGING"})

Alive(q) == q \in User /\ ~Free(q) /\ ~Hanging(q)

MMInv ==
  /\ mm.at = "receive" =>
       mm = mmFrame /\ (MMReady \/ \E q \in User : \E c \in {"FORK", "WAIT"} : MMSends(q, c))
  /\ mm.at = "got" => MMListens \/ MMHeard
  /\ mm.at = "store" => MMReady /\ Marking
  /\ mm.at = "birth" =>
       /\ MMReady /\ mm.src \in User /\ mm.who \in Slots /\ mm.src # mm.who
       /\ lib[mm.src].call = "FORK" /\ Awaiting(mm.src, {})
       /\ lib[mm.who].call = "FORK" /\ Awaiting(mm.who, {})
  /\ mm.at = "reply" => MMReady /\ mm.src \in User /\ Served(mm.src, "FORK")
  /\ mm.at = "cleanup" => MMReady /\ CleansUp /\ Called(p_parent[mm.who], "WAIT", {})
  /\ mm.at = "free" =>
       CleansUp /\ (MMReady \/ \E q \in User : MMSends(q, "WAIT"))
  /\ mm.at = "orphans" => MMReady /\ mm.src \in Slots /\ ~Alive(mm.src)
  /\ mm.at = "assert" => MMReady

----------------------------------------------------------------------------
(* The tree of processes *)

\* task_mm is inside do_exit of mm.src.
Exiting ==
  \/ mm.at \in {"orphans", "assert"}
  \/ mm.at \in {"cleanup", "free"} /\ mm.then \in {"orphans", "assert"}

TreeInv ==
  /\ p_parent[INIT_PROC] = NO_TASK
  /\ \A i \in Slots : ~Free(i) =>
       p_parent[i] \in User /\ (Alive(p_parent[i]) \/ (Exiting /\ p_parent[i] = mm.src))
  /\ \A i \in Slots : Hanging(i) => ~Waiting(p_parent[i])

ForkInv ==
  /\ Types
  /\ KernelQuiet
  /\ fault = "none" => QueueExact /\ UserInv /\ MMInv /\ TreeInv

----------------------------------------------------------------------------
(* The calls of the kernel between task_mm and the processes *)

\* task_mm is none of the processes it serves.
LEMMA Actors ==
  /\ TASK_MM \in Proc /\ TASK_MM \notin User /\ User \subseteq Proc /\ Slots \subseteq User
  /\ INIT_PROC \in User /\ INIT_PROC \notin Slots /\ User \subseteq Nat
  /\ \A i \in User : i \in Slots \/ i = INIT_PROC
  /\ \A p \in Proc : p \in User \/ p = TASK_MM
  /\ ANY \notin Proc /\ NO_TASK \notin Proc /\ ANY # NO_TASK /\ NO_TASK \notin User
BY ForkAssumption, IpcAssumption DEF User

\* What such a call does: d goes on with the message of p,
Delivered(p, d, t) ==
  /\ fault' = "none" /\ KernelTypes' /\ QueueExact'
  /\ p_flags' = [p_flags EXCEPT ![d] = {}] /\ p_msg' = [p_msg EXCEPT ![d] = 0]
  /\ p_recvfrom' = [p_recvfrom EXCEPT ![d] = NO_TASK] /\ p_sendto' = p_sendto
  /\ \A r \in Proc \ {p, d} : msg'[r] = msg[r]
  /\ msg'[p] = [source |-> p, type |-> t] /\ msg'[d] = [source |-> p, type |-> t]

\* or p is blocked sending to d,
Joined(p, d, t) ==
  /\ fault' = "none" /\ KernelTypes' /\ QueueExact'
  /\ p_flags' = [p_flags EXCEPT ![p] = {"SENDING"}] /\ p_msg' = [p_msg EXCEPT ![p] = 1]
  /\ p_recvfrom' = p_recvfrom /\ p_sendto' = [p_sendto EXCEPT ![p] = d]
  /\ \A r \in Proc \ {p} : msg'[r] = msg[r]
  /\ msg'[p] = [source |-> p, type |-> t]

\* or p has the message of f, which goes on,
Copied(p, f) ==
  /\ fault' = "none" /\ KernelTypes' /\ QueueExact'
  /\ p_flags' = [p_flags EXCEPT ![f] = {}] /\ p_msg' = [p_msg EXCEPT ![f] = 0]
  /\ p_recvfrom' = p_recvfrom /\ p_sendto' = [p_sendto EXCEPT ![f] = NO_TASK]
  /\ \A r \in Proc \ {p} : msg'[r] = msg[r]
  /\ msg'[p] = msg[f]

\* or p is blocked receiving from s.
Listens(p, s) ==
  /\ fault' = "none" /\ KernelTypes' /\ QueueExact'
  /\ p_flags' = [p_flags EXCEPT ![p] = {"RECEIVING"}] /\ p_msg' = [p_msg EXCEPT ![p] = 1]
  /\ p_recvfrom' = [p_recvfrom EXCEPT ![p] = s] /\ p_sendto' = p_sendto
  /\ \A r \in Proc \ {p} : msg'[r] = msg[r]

\* A send to a process that waits for it.
LEMMA SendDelivers ==
  ASSUME KernelTypes, QueueExact, fault = "none",
         NEW p \in Proc, NEW d \in Proc, p # d, NEW t,
         p_flags[p] = {}, quiet(p), p_flags[d] = {"RECEIVING"}, p_msg[d] = 1,
         p_recvfrom[d] \in {p, ANY}, p_sendto[d] = NO_TASK, msg_send(p, d, t)
  PROVE  Delivered(p, d, t)
<1> DEFINE m == [source |-> p, type |-> t]
<1> USE Actors
<1>1. ~deadlock(p, d)
  <2>1. {d} \in SUBSET Proc /\ SendClosed({d}) /\ p \notin {d}
    BY DEF SendClosed
  <2> QED
    BY <2>1 DEF deadlock
<1>2. awaits(d, p)
  BY DEF awaits
<1>3. send_deliver(p, d, m)
  BY <1>1, <1>2 DEF msg_send, send_panic, send_block
<1> HIDE DEF m
<1>4. /\ msg' = [msg EXCEPT ![p] = m, ![d] = m]
      /\ p_msg' = [p_msg EXCEPT ![d] = 0]
      /\ p_flags' = [p_flags EXCEPT ![d] = @ \ {"RECEIVING"}]
      /\ p_recvfrom' = [p_recvfrom EXCEPT ![d] = NO_TASK]
      /\ UNCHANGED <<p_sendto, has_int_msg, q_sending>>
  BY <1>3 DEF send_deliver
<1>5. fault' = "none"
  BY <1>3 DEF send_deliver, quiet
<1>6. p_flags' = [p_flags EXCEPT ![d] = {}]
  BY <1>4 DEF KernelTypes
<1>7. KernelTypes'
  <2>1. p_flags' \in [Proc -> SUBSET Flag] /\ p_recvfrom' \in [Proc -> Proc \cup {ANY, NO_TASK}]
    BY <1>4, <1>6 DEF KernelTypes
  <2>2. p_msg' \in [Proc -> {0, 1}]
    BY <1>4 DEF KernelTypes
  <2>3. Buffers'
    BY <1>4 DEF Buffers, KernelTypes
  <2> QED
    BY <1>4, <2>1, <2>2, <2>3 DEF KernelTypes
<1>8. QueueExact'
  BY <1>4, <1>6 DEF QueueExact, Sending, KernelTypes
<1>9. /\ \A r \in Proc \ {p, d} : msg'[r] = msg[r]
      /\ msg'[p] = m /\ msg'[d] = m
  BY <1>4 DEF KernelTypes, Buffers
<1> QED
  BY <1>4, <1>5, <1>6, <1>7, <1>8, <1>9 DEF m, Delivered

\* A send to a process that is neither waiting for it nor sending, or that sends
\* to one that does not: the sender joins the list.
LEMMA SendBlocks ==
  ASSUME KernelTypes, QueueExact, fault = "none",
         NEW p \in Proc, NEW d \in Proc, p # d, NEW t,
         p_flags[p] = {}, quiet(p), "RECEIVING" \notin p_flags[d],
         NEW S \in SUBSET Proc, d \in S, p \notin S, SendClosed(S), msg_send(p, d, t)
  PROVE  Joined(p, d, t)
<1> DEFINE m == [source |-> p, type |-> t]
<1> USE Actors
<1>1. ~deadlock(p, d)
  BY DEF deadlock
<1>2. ~awaits(d, p)
  BY DEF awaits
<1>3. send_block(p, d, m)
  BY <1>1, <1>2 DEF msg_send, send_panic, send_deliver
<1> HIDE DEF m
<1>4. /\ msg' = [msg EXCEPT ![p] = m]
      /\ p_flags' = [p_flags EXCEPT ![p] = @ \cup {"SENDING"}]
      /\ p_sendto' = [p_sendto EXCEPT ![p] = d]
      /\ p_msg' = [p_msg EXCEPT ![p] = 1]
      /\ q_sending' = [q_sending EXCEPT ![d] = enqueue(@, p)]
      /\ UNCHANGED <<p_recvfrom, has_int_msg>>
  BY <1>3 DEF send_block
<1>5. fault' = "none"
  BY <1>3 DEF send_block, quiet
<1>6. p_flags' = [p_flags EXCEPT ![p] = {"SENDING"}]
  BY <1>4 DEF KernelTypes
<1>7. NoRepeat(q_sending[d]) /\ ~Listed(q_sending[d], p) /\ q_sending[d] \in Seq(Proc)
  BY DEF QueueExact, Sending, KernelTypes
<1>8. /\ enqueue(q_sending[d], p) \in Seq(Proc) /\ NoRepeat(enqueue(q_sending[d], p))
      /\ \A f \in Proc : Listed(enqueue(q_sending[d], p), f) <=> f = p \/ Listed(q_sending[d], f)
  BY <1>7, EnqueueFacts
<1>9. KernelTypes'
  <2>1. p_flags' \in [Proc -> SUBSET Flag] /\ p_sendto' \in [Proc -> Proc \cup {NO_TASK}]
    BY <1>4, <1>6 DEF KernelTypes, Flag
  <2>2. p_msg' \in [Proc -> {0, 1}]
    BY <1>4 DEF KernelTypes
  <2>3. q_sending' \in [Proc -> Seq(Proc)]
    BY <1>4, <1>8 DEF KernelTypes
  <2>4. Buffers'
    BY <1>4 DEF Buffers, KernelTypes
  <2> QED
    BY <1>4, <2>1, <2>2, <2>3, <2>4 DEF KernelTypes
<1>10. QueueExact'
  <2> SUFFICES ASSUME NEW e \in Proc
               PROVE  /\ NoRepeat(q_sending'[e])
                      /\ \A r \in Proc : Listed(q_sending'[e], r) <=>
                           ("SENDING" \in p_flags'[r] /\ p_sendto'[r] = e)
    BY DEF QueueExact, Sending
  <2>1. /\ NoRepeat(q_sending[e])
        /\ \A r \in Proc : Listed(q_sending[e], r) <=>
             ("SENDING" \in p_flags[r] /\ p_sendto[r] = e)
    BY DEF QueueExact, Sending
  <2>2. /\ "SENDING" \in p_flags'[p] /\ p_sendto'[p] = d /\ "SENDING" \notin p_flags[p]
        /\ \A r \in Proc \ {p} : p_flags'[r] = p_flags[r] /\ p_sendto'[r] = p_sendto[r]
    BY <1>4, <1>6 DEF KernelTypes
  <2>3. CASE e = d
    <3>1. q_sending'[e] = enqueue(q_sending[d], p)
      BY <1>4, <2>3 DEF KernelTypes
    <3> QED
      BY <1>8, <2>1, <2>2, <2>3, <3>1
  <2>4. CASE e # d
    <3>1. q_sending'[e] = q_sending[e]
      BY <1>4, <2>4 DEF KernelTypes
    <3> QED
      BY <2>1, <2>2, <2>4, <3>1
  <2> QED
    BY <2>3, <2>4
<1>11. /\ \A r \in Proc \ {p} : msg'[r] = msg[r]
       /\ msg'[p] = m
  BY <1>4 DEF KernelTypes, Buffers
<1> QED
  BY <1>4, <1>5, <1>6, <1>9, <1>10, <1>11 DEF m, Joined

\* A receive that finds a sender: f, the first in the list when s is ANY.
LEMMA RecvCopies ==
  ASSUME KernelTypes, QueueExact, fault = "none",
         NEW p \in Proc, NEW s \in {ANY} \cup Proc, p_flags[p] = {}, quiet(p),
         NEW f \in Proc, f # p, f = IF s = ANY THEN Head(q_sending[p]) ELSE s,
         q_sending[p] # <<>>, p_flags[f] = {"SENDING"}, p_msg[f] = 1,
         p_recvfrom[f] = NO_TASK, p_sendto[f] = p, msg_recevie(p, s)
  PROVE  Copied(p, f)
<1> USE Actors
<1>1. ~int_pending(p, s)
  BY DEF int_pending, KernelTypes
<1>2. sender_ready(p, s)
  BY DEF sender_ready
<1>3. recv_copy(p, s)
  BY <1>1, <1>2 DEF msg_recevie, recv_interrupt, recv_block
<1>4. /\ q_sending' = [q_sending EXCEPT ![p] = unlink(@, f)]
      /\ msg' = [msg EXCEPT ![p] = msg[f]]
      /\ p_msg' = [p_msg EXCEPT ![f] = 0]
      /\ p_sendto' = [p_sendto EXCEPT ![f] = NO_TASK]
      /\ p_flags' = [p_flags EXCEPT ![f] = @ \ {"SENDING"}]
      /\ UNCHANGED <<p_recvfrom, has_int_msg>>
  BY <1>3 DEF recv_copy
<1>5. fault' = "none"
  <2>1. p_flags[p] = {} /\ quiet(p) /\ q_sending[p] # <<>> /\ p_msg[f] # 0
    OBVIOUS
  <2>2. fault' = IF /\ p_flags[p] = {} /\ quiet(p) /\ q_sending[p] # <<>>
                    /\ s # ANY => p_flags[f] = {"SENDING"}
                    /\ p_msg[f] # 0 /\ p_recvfrom[f] = NO_TASK /\ p_sendto[f] = p
                 THEN fault ELSE "assert"
    BY <1>3 DEF recv_copy
  <2> QED
    BY <2>1, <2>2
<1>6. p_flags' = [p_flags EXCEPT ![f] = {}]
  <2>1. p_flags[f] \ {"SENDING"} = {}
    OBVIOUS
  <2> QED
    BY <1>4, <2>1
<1>7. NoRepeat(q_sending[p]) /\ Listed(q_sending[p], f) /\ q_sending[p] \in Seq(Proc)
  BY DEF QueueExact, Sending, KernelTypes
<1>8. /\ unlink(q_sending[p], f) \in Seq(Proc) /\ NoRepeat(unlink(q_sending[p], f))
      /\ \A g \in Proc : Listed(unlink(q_sending[p], f), g) <=> g # f /\ Listed(q_sending[p], g)
  BY <1>7, UnlinkFacts
<1>9. KernelTypes'
  <2>1. p_flags' \in [Proc -> SUBSET Flag] /\ p_sendto' \in [Proc -> Proc \cup {NO_TASK}]
    BY <1>4, <1>6 DEF KernelTypes, Flag
  <2>2. p_msg' \in [Proc -> {0, 1}]
    BY <1>4 DEF KernelTypes
  <2>3. q_sending' \in [Proc -> Seq(Proc)]
    BY <1>4, <1>8 DEF KernelTypes
  <2>4. Buffers'
    BY <1>4 DEF Buffers, KernelTypes
  <2> QED
    BY <1>4, <2>1, <2>2, <2>3, <2>4 DEF KernelTypes
<1>10. QueueExact'
  <2> SUFFICES ASSUME NEW e \in Proc
               PROVE  /\ NoRepeat(q_sending'[e])
                      /\ \A r \in Proc : Listed(q_sending'[e], r) <=>
                           ("SENDING" \in p_flags'[r] /\ p_sendto'[r] = e)
    BY DEF QueueExact, Sending
  <2>1. /\ NoRepeat(q_sending[e])
        /\ \A r \in Proc : Listed(q_sending[e], r) <=>
             ("SENDING" \in p_flags[r] /\ p_sendto[r] = e)
    BY DEF QueueExact, Sending
  <2>2. /\ "SENDING" \notin p_flags'[f] /\ "SENDING" \in p_flags[f] /\ p_sendto[f] = p
        /\ \A r \in Proc \ {f} : p_flags'[r] = p_flags[r] /\ p_sendto'[r] = p_sendto[r]
    BY <1>4, <1>6 DEF KernelTypes
  <2>3. CASE e = p
    <3>1. q_sending'[e] = unlink(q_sending[p], f)
      BY <1>4, <2>3 DEF KernelTypes
    <3> QED
      BY <1>8, <2>1, <2>2, <2>3, <3>1
  <2>4. CASE e # p
    <3>1. q_sending'[e] = q_sending[e]
      BY <1>4, <2>4 DEF KernelTypes
    <3> QED
      BY <2>1, <2>2, <2>4, <3>1
  <2> QED
    BY <2>3, <2>4
<1>11. /\ \A r \in Proc \ {p} : msg'[r] = msg[r]
       /\ msg'[p] = msg[f]
  BY <1>4 DEF KernelTypes, Buffers
<1> QED
  BY <1>4, <1>5, <1>6, <1>9, <1>10, <1>11 DEF Copied

\* A receive that finds none.
LEMMA RecvBlocks ==
  ASSUME KernelTypes, QueueExact, fault = "none",
         NEW p \in Proc, NEW s \in {ANY} \cup Proc, p_flags[p] = {}, quiet(p),
         ~sender_ready(p, s), msg_recevie(p, s)
  PROVE  Listens(p, s)
<1> USE Actors
<1>1. has_int_msg[p] = 0
  BY DEF KernelTypes
<1>2. recv_block(p, s)
  BY <1>1 DEF msg_recevie, recv_interrupt, recv_copy, int_pending
<1>3. /\ msg' = [msg EXCEPT ![p].source = p]
      /\ p_flags' = [p_flags EXCEPT ![p] = @ \cup {"RECEIVING"}]
      /\ p_msg' = [p_msg EXCEPT ![p] = 1]
      /\ p_recvfrom' = [p_recvfrom EXCEPT ![p] = s]
      /\ UNCHANGED <<p_sendto, has_int_msg, q_sending>>
  BY <1>2 DEF recv_block
<1>4. fault' = "none"
  BY <1>1, <1>2 DEF recv_block, quiet
<1>5. p_flags' = [p_flags EXCEPT ![p] = {"RECEIVING"}]
  BY <1>3 DEF KernelTypes
<1>6. KernelTypes'
  <2>1. p_flags' \in [Proc -> SUBSET Flag] /\ p_recvfrom' \in [Proc -> Proc \cup {ANY, NO_TASK}]
    BY <1>3, <1>5 DEF KernelTypes, Flag
  <2>2. p_msg' \in [Proc -> {0, 1}]
    BY <1>3 DEF KernelTypes
  <2>3. Buffers'
    BY <1>3 DEF Buffers, KernelTypes
  <2> QED
    BY <1>3, <2>1, <2>2, <2>3 DEF KernelTypes
<1>7. QueueExact'
  BY <1>3, <1>5 DEF QueueExact, Sending, KernelTypes
<1>8. \A r \in Proc \ {p} : msg'[r] = msg[r]
  BY <1>3 DEF KernelTypes, Buffers
<1> QED
  BY <1>3, <1>4, <1>5, <1>6, <1>7, <1>8 DEF Listens

----------------------------------------------------------------------------
(* What a step leaves alone *)

SameUser(i) ==
  /\ p_flags'[i] = p_flags[i] /\ p_msg'[i] = p_msg[i]
  /\ p_recvfrom'[i] = p_recvfrom[i] /\ p_sendto'[i] = p_sendto[i]
  /\ lib'[i] = lib[i] /\ msg'[i] = msg[i]
  /\ torn => torn'

\* A process the step does not touch stays where it is.
LEMMA SamePlace ==
  ASSUME NEW i \in User, SameUser(i)
  PROVE  /\ AtUser(i) => AtUser(i)'
         /\ Asking(i) => Asking(i)'
         /\ \A x : Heard(i, x) => Heard(i, x)'
         /\ \A x : Awaiting(i, x) => Awaiting(i, x)'
         /\ \A c, x : Called(i, c, x) => Called(i, c, x)'
         /\ \A c : Served(i, c) => Served(i, c)'
         /\ UserPlace(i) => UserPlace(i)'
<1> USE DEF SameUser
<1>1. AtUser(i) => AtUser(i)'
  BY DEF AtUser, quiet
<1>2. Asking(i) => Asking(i)'
  BY DEF Asking
<1>3. ASSUME NEW x PROVE Heard(i, x) => Heard(i, x)'
  BY DEF Heard, quiet
<1>4. Blocked(i) => Blocked(i)'
  BY DEF Blocked
<1>5. ASSUME NEW x PROVE Awaiting(i, x) => Awaiting(i, x)'
  BY <1>4 DEF Awaiting
<1>6. ASSUME NEW x PROVE Lost(i, x) => Lost(i, x)'
  BY <1>4 DEF Lost
<1>7. ASSUME NEW c, NEW x PROVE Called(i, c, x) => Called(i, c, x)'
  BY <1>3, <1>5, <1>6 DEF Called
<1>8. ASSUME NEW c PROVE Served(i, c) => Served(i, c)'
  BY <1>3, <1>5 DEF Served
<1>9. i \in Slots /\ Free(i) => (i \in Slots /\ Free(i))'
  BY DEF Free
<1>10. UserPlace(i) => UserPlace(i)'
  BY <1>1, <1>2, <1>7, <1>8, <1>9 DEF UserPlace
<1> QED
  BY <1>1, <1>2, <1>3, <1>5, <1>7, <1>8, <1>10

\* A step of p puts p at one of the places; the others stay where they are.
LEMMA UsersKept ==
  ASSUME UserInv, NEW p \in User, \A i \in User \ {p} : SameUser(i),
         UserPlace(p)', lib'[p].call = "EXIT" => p \in Slots
  PROVE  UserInv'
<1> SUFFICES ASSUME NEW i \in User
             PROVE  UserPlace(i)' /\ (lib'[i].call = "EXIT" => i \in Slots)
  BY DEF UserInv
<1>1. CASE i = p
  BY <1>1
<1>2. CASE i # p
  <2>1. SameUser(i) /\ lib'[i] = lib[i]
    BY <1>2 DEF SameUser
  <2> QED
    BY <2>1, SamePlace DEF UserInv
<1> QED
  BY <1>1, <1>2

\* The bits of task_mm are as they were.
SameBits(i) ==
  /\ Free(i)' <=> Free(i)
  /\ Hanging(i)' <=> Hanging(i)
  /\ Waiting(i)' <=> Waiting(i)

\* A step that changes no parent and none of the bits of task_mm keeps the tree.
LEMMA TreeKept ==
  ASSUME TreeInv, Types, p_parent' = p_parent, \A i \in User : SameBits(i),
         Exiting => Exiting' /\ mm'.src = mm.src
  PROVE  TreeInv'
<1> USE Actors
<1>1. ASSUME NEW i \in Slots, ~Free(i)'
      PROVE  /\ p_parent'[i] \in User
             /\ Alive(p_parent[i])' \/ (Exiting /\ p_parent[i] = mm.src)'
  <2>1. ~Free(i) /\ p_parent[i] \in User
    BY <1>1 DEF SameBits, TreeInv
  <2>2. Alive(p_parent[i]) => Alive(p_parent[i])'
    BY <2>1 DEF Alive, SameBits
  <2> QED
    BY <2>1, <2>2 DEF TreeInv
<1>2. ASSUME NEW i \in Slots, Hanging(i)' PROVE ~Waiting(p_parent[i])'
  <2>1. Hanging(i) /\ ~Free(i)
    BY <1>2 DEF SameBits, Hanging, Free
  <2>2. p_parent[i] \in User /\ ~Waiting(p_parent[i])
    BY <2>1 DEF TreeInv
  <2>3. SameBits(p_parent[i])
    BY <2>2
  <2> QED
    BY <2>2, <2>3 DEF SameBits
<1> QED
  BY <1>1, <1>2 DEF TreeInv

\* Every call task_mm may be at work on is where it was.
CallsKept ==
  \A q \in User :
    /\ SameBits(q)
    /\ \A c : Served(q, c) => Served(q, c)'
    /\ \A c, x : Called(q, c, x) => Called(q, c, x)'
    /\ Awaiting(q, {}) => Awaiting(q, {})' /\ lib'[q] = lib[q]

\* task_mm runs on, or has got the message it listens for.
TaskKept ==
  /\ MMReady => MMReady' /\ msg'[TASK_MM] = msg[TASK_MM]
  /\ MMListens => MMListens' \/ MMHeard'
  /\ \A q \in User : \A c : MMSends(q, c) => MMSends(q, c)'

\* A step of a process that disturbs no call task_mm is at work on.
LEMMA MMKept ==
  ASSUME MMInv, UserInv, TreeInv, Types, mm' = mm, p_parent' = p_parent,
         CallsKept, TaskKept
  PROVE  MMInv'
<1> USE Actors DEF CallsKept, TaskKept
<1>1. mm.at = "receive" =>
        mm = mmFrame /\ (MMReady \/ \E q \in User : \E c \in {"FORK", "WAIT"} : MMSends(q, c))'
  BY DEF MMInv
<1>2. mm.at = "got" => MMListens' \/ MMHeard'
  <2>1. MMHeard => MMHeard'
    BY DEF MMHeard
  <2> QED
    BY <2>1 DEF MMInv
<1>3. ASSUME Marking PROVE Marking'
  <2>1. mm.src \in User /\ p_flags[mm.src] \in {mm.load, {"RECEIVING"}}
    BY <1>3 DEF Marking
  <2>2. ASSUME NEW c, Served(mm.src, c)
        PROVE  Served(mm.src, c)' /\ p_flags'[mm.src] \in {mm.load, {"RECEIVING"}}
    <3>1. mm.load \in {{}, {"RECEIVING"}}
      BY DEF Types, TableTypes
    <3>2. Served(mm.src, c)'
      BY <2>1, <2>2
    <3>3. p_flags'[mm.src] \in {{}, {"RECEIVING"}}
      BY <3>2 DEF Served, Heard, Awaiting
    <3>4. mm.load = {"RECEIVING"} => Awaiting(mm.src, {})
      BY <2>1, <2>2 DEF Served, Heard
    <3>5. Awaiting(mm.src, {}) => p_flags'[mm.src] = {"RECEIVING"}
      BY <2>1 DEF Awaiting
    <3> QED
      BY <3>1, <3>2, <3>3, <3>4, <3>5
  <2>3. CASE /\ mm.bit = "WAITING" /\ mm.then = "receive"
             /\ Served(mm.src, "WAIT")
             /\ \A i \in Slots : p_parent[i] = mm.src => ~Hanging(i)
    <3>1. \A i \in Slots : p_parent[i] = mm.src => ~Hanging(i)'
      BY <2>3 DEF SameBits
    <3> QED
      BY <2>1, <2>2, <2>3, <3>1 DEF Marking
  <2>4. CASE /\ mm.bit = "HANGING" /\ mm.then = "orphans"
             /\ Served(mm.src, "EXIT") /\ ~Waiting(p_parent[mm.src])
    <3>1. mm.src \in Slots /\ ~Free(mm.src)
      BY <2>1, <2>4 DEF UserInv, Served, Heard, Awaiting, Free
    <3>2. p_parent[mm.src] \in User
      BY <3>1 DEF TreeInv
    <3>3. ~Waiting(p_parent[mm.src])'
      BY <2>4, <3>2 DEF SameBits
    <3> QED
      BY <2>1, <2>2, <2>4, <3>3 DEF Marking
  <2> QED
    BY <1>3, <2>3, <2>4 DEF Marking
<1>4. mm.at = "birth" =>
        /\ MMReady' /\ mm.src \in User /\ mm.who \in Slots /\ mm.src # mm.who
        /\ lib'[mm.src].call = "FORK" /\ Awaiting(mm.src, {})'
        /\ lib'[mm.who].call = "FORK" /\ Awaiting(mm.who, {})'
  BY DEF MMInv
<1>5. mm.at = "reply" => MMReady' /\ mm.src \in User /\ Served(mm.src, "FORK")'
  BY DEF MMInv
<1>6. CleansUp => CleansUp'
  <2> SUFFICES ASSUME CleansUp PROVE CleansUp'
    OBVIOUS
  <2>1. mm.who \in User
    BY DEF CleansUp
  <2>2. Served(mm.who, "EXIT")' \/ Called(mm.who, "EXIT", {"HANGING"})' => lib'[mm.who].call = "EXIT"
    BY DEF Served, Called
  <2> QED
    BY <2>1, <2>2 DEF CleansUp
<1>7. mm.at = "cleanup" => MMReady' /\ CleansUp' /\ Called(p_parent[mm.who], "WAIT", {})'
  BY <1>6 DEF MMInv, CleansUp
<1>8. mm.at = "free" =>
        CleansUp' /\ (MMReady \/ \E q \in User : MMSends(q, "WAIT"))'
  BY <1>6 DEF MMInv
<1>9. mm.at = "orphans" => MMReady' /\ mm.src \in Slots /\ ~Alive(mm.src)'
  BY DEF MMInv, Alive, SameBits
<1>10. mm.at = "assert" => MMReady'
  BY DEF MMInv
<1> QED
  BY <1>1, <1>2, <1>3, <1>4, <1>5, <1>6, <1>7, <1>8, <1>9, <1>10 DEF MMInv

\* task_mm runs, listens, or answers somebody.
LEMMA MMPlaces ==
  ASSUME MMInv, Types
  PROVE  \/ MMReady
         \/ MMListens /\ mm.at = "got"
         \/ /\ mm.at \in {"receive", "free"}
            /\ \E q \in User : \E c \in {"FORK", "WAIT"} : MMSends(q, c)
<1>1. mm.at \in {"receive", "got", "store", "birth", "reply", "cleanup", "free",
                 "orphans", "assert"}
  BY DEF Types, TableTypes
<1>2. mm.at = "got" => MMReady \/ MMListens
  BY DEF MMInv, MMHeard
<1>3. mm.at = "free" => MMReady \/ \E q \in User : \E c \in {"FORK", "WAIT"} : MMSends(q, c)
  BY DEF MMInv
<1>4. mm.at = "receive" => MMReady \/ \E q \in User : \E c \in {"FORK", "WAIT"} : MMSends(q, c)
  BY DEF MMInv
<1>5. mm.at \in {"store", "birth", "reply", "cleanup", "orphans", "assert"} => MMReady
  BY DEF MMInv
<1> QED
  BY <1>1, <1>2, <1>3, <1>4, <1>5

----------------------------------------------------------------------------
(* The steps of the processes *)

\* Whatever a send does, the table stays a table.
LEMMA SendTyped ==
  ASSUME KernelTypes, NEW p \in Proc, NEW d \in Proc, NEW t, msg_send(p, d, t)
  PROVE  KernelTypes'
<1> DEFINE m == [source |-> p, type |-> t]
<1> USE Actors
<1>1. q_sending[d] \in Seq(Proc) /\ enqueue(q_sending[d], p) \in Seq(Proc)
  BY DEF KernelTypes, enqueue
<1>2. send_panic(p, d, m) \/ send_deliver(p, d, m) \/ send_block(p, d, m)
  BY DEF msg_send
<1> HIDE DEF m
<1>3. CASE send_panic(p, d, m)
  BY <1>3 DEF send_panic, KernelTypes, Buffers
<1>4. CASE send_deliver(p, d, m)
  <2>1. /\ p_flags' = [p_flags EXCEPT ![d] = @ \ {"RECEIVING"}]
        /\ p_msg' = [p_msg EXCEPT ![d] = 0] /\ msg' = [msg EXCEPT ![p] = m, ![d] = m]
        /\ p_recvfrom' = [p_recvfrom EXCEPT ![d] = NO_TASK]
        /\ UNCHANGED <<p_sendto, has_int_msg, q_sending>>
    BY <1>4 DEF send_deliver
  <2>2. p_flags' \in [Proc -> SUBSET Flag]
    BY <2>1 DEF KernelTypes
  <2>3. p_msg' \in [Proc -> {0, 1}]
    BY <2>1 DEF KernelTypes
  <2>4. p_recvfrom' \in [Proc -> Proc \cup {ANY, NO_TASK}]
    BY <2>1 DEF KernelTypes
  <2>5. Buffers'
    BY <2>1 DEF KernelTypes, Buffers
  <2> QED
    BY <2>1, <2>2, <2>3, <2>4, <2>5 DEF KernelTypes
<1>5. CASE send_block(p, d, m)
  <2>1. /\ p_flags' = [p_flags EXCEPT ![p] = @ \cup {"SENDING"}]
        /\ p_msg' = [p_msg EXCEPT ![p] = 1] /\ msg' = [msg EXCEPT ![p] = m]
        /\ p_sendto' = [p_sendto EXCEPT ![p] = d]
        /\ q_sending' = [q_sending EXCEPT ![d] = enqueue(@, p)]
        /\ UNCHANGED <<p_recvfrom, has_int_msg>>
    BY <1>5 DEF send_block
  <2>2. p_flags' \in [Proc -> SUBSET Flag]
    BY <2>1 DEF KernelTypes, Flag
  <2>3. p_msg' \in [Proc -> {0, 1}]
    BY <2>1 DEF KernelTypes
  <2>4. p_sendto' \in [Proc -> Proc \cup {NO_TASK}]
    BY <2>1 DEF KernelTypes
  <2>5. q_sending' \in [Proc -> Seq(Proc)]
    BY <1>1, <2>1 DEF KernelTypes
  <2>6. Buffers'
    BY <2>1 DEF KernelTypes, Buffers
  <2> QED
    BY <2>1, <2>2, <2>3, <2>4, <2>5, <2>6 DEF KernelTypes
<1> QED
  BY <1>2, <1>3, <1>4, <1>5

\* A process in its own code is in no call.
LEMMA AtUserApart ==
  ASSUME NEW i \in User, AtUser(i)
  PROVE  /\ \A c : ~Served(i, c)
         /\ \A c, x : ~Called(i, c, x)
         /\ \A x : ~Awaiting(i, x) /\ ~Heard(i, x) /\ ~Lost(i, x)
         /\ \A c : ~MMSends(i, c)
BY DEF AtUser, Served, Called, Awaiting, Heard, Lost, Blocked, quiet, MMSends

\* The table entry and the buffer of task_mm are as they were.
SameTask ==
  /\ p_flags'[TASK_MM] = p_flags[TASK_MM] /\ p_msg'[TASK_MM] = p_msg[TASK_MM]
  /\ p_recvfrom'[TASK_MM] = p_recvfrom[TASK_MM] /\ p_sendto'[TASK_MM] = p_sendto[TASK_MM]
  /\ msg'[TASK_MM] = msg[TASK_MM]

\* A step of p that is no answer of task_mm.
LEMMA ProcessMoves ==
  ASSUME Types, UserInv, MMInv, TreeInv, NEW p \in User,
         mm' = mm, p_parent' = p_parent, \A i \in User \ {p} : SameUser(i),
         UserPlace(p)', lib'[p].call = "EXIT" => p \in Slots, SameBits(p),
         \A c : Served(p, c) => Served(p, c)',
         \A c, x : Called(p, c, x) => Called(p, c, x)',
         ~Awaiting(p, {}), \A c : ~MMSends(p, c),
         SameTask \/ (MMListens /\ mm.at = "got" /\ MMHeard')
  PROVE  UserInv' /\ MMInv' /\ TreeInv'
<1>1. UserInv'
  BY UsersKept
<1>2. \A q \in User : SameBits(q)
  BY DEF SameUser, SameBits, Free, Hanging, Waiting
<1>3. TreeInv'
  BY <1>2, TreeKept DEF Exiting
<1>4. CallsKept
  <2> SUFFICES ASSUME NEW q \in User
               PROVE  /\ \A c : Served(q, c) => Served(q, c)'
                      /\ \A c, x : Called(q, c, x) => Called(q, c, x)'
                      /\ Awaiting(q, {}) => Awaiting(q, {})' /\ lib'[q] = lib[q]
    BY <1>2 DEF CallsKept
  <2>1. CASE q = p
    BY <2>1
  <2>2. CASE q # p
    <3>1. SameUser(q) /\ lib'[q] = lib[q]
      BY <2>2 DEF SameUser
    <3> QED
      BY <3>1, SamePlace
  <2> QED
    BY <2>1, <2>2
<1>5. TaskKept
  <2>1. CASE SameTask
    <3>1. MMReady => MMReady' /\ msg'[TASK_MM] = msg[TASK_MM]
      BY <2>1 DEF SameTask, MMReady, quiet
    <3>2. MMListens => MMListens'
      BY <2>1 DEF SameTask, MMListens
    <3>3. ASSUME NEW q \in User, NEW c, MMSends(q, c) PROVE MMSends(q, c)'
      <4>1. q # p /\ SameUser(q)
        BY <3>3
      <4>2. Heard(q, {})' \/ Lost(q, {})'
        BY <3>3, <4>1 DEF MMSends, SameUser, Heard, Lost, Blocked, quiet
      <4> QED
        BY <2>1, <3>3, <4>1, <4>2 DEF MMSends, SameTask, SameUser
    <3> QED
      BY <3>1, <3>2, <3>3 DEF TaskKept
  <2>2. CASE MMListens /\ mm.at = "got" /\ MMHeard'
    <3>1. ~MMReady /\ \A q \in User : \A c : ~MMSends(q, c)
      BY <2>2 DEF MMListens, MMReady, MMSends
    <3> QED
      BY <2>2, <3>1 DEF TaskKept
  <2> QED
    BY <2>1, <2>2
<1> QED
  BY <1>1, <1>3, <1>4, <1>5, MMKept

\* A process that makes a call.
LEMMA CallStep ==
  ASSUME ForkInv, NEW p \in User, NEW c \in Calls[p], Call(p, c)
  PROVE  ForkInv'
<1> USE Actors
<1>1. /\ c \in {"FORK", "WAIT", "EXIT"} /\ c # "none" /\ (c = "EXIT" => p \in Slots)
      /\ p \in Proc /\ p # TASK_MM
  BY ForkAssumption
<1>2. /\ fault = "none" /\ p_flags[p] = {} /\ lib[p].at = "received"
      /\ msg_send(p, TASK_MM, Body(c, 0))
      /\ lib' = [lib EXCEPT ![p] = [call |-> c, at |-> "sent"]]
      /\ p_parent' = p_parent /\ mm' = mm /\ torn' = torn
  BY DEF Call, returned
<1>3. Types /\ QueueExact /\ UserInv /\ MMInv /\ TreeInv
  BY <1>2 DEF ForkInv
<1>4. Types'
  <2>1. KernelTypes'
    BY <1>1, <1>2, <1>3, SendTyped DEF Types
  <2>2. lib' \in [User -> [call : {"none", "FORK", "WAIT", "EXIT"}, at : {"sent", "received"}]]
    BY <1>1, <1>2, <1>3 DEF Types, TableTypes
  <2> QED
    BY <1>2, <1>3, <2>1, <2>2 DEF Types, TableTypes
<1>5. lib'[p] = [call |-> c, at |-> "sent"] /\ \A i \in User \ {p} : lib'[i] = lib[i]
  BY <1>2, <1>3 DEF Types, TableTypes
<1>6. AtUser(p) \/ Lost(p, {})
  BY <1>2, <1>3 DEF UserInv, UserPlace, Asking, Served, Called, Heard, Awaiting, Lost, Free
<1>7. CASE Lost(p, {})
  <2>1. torn' /\ p_recvfrom[p] # NO_TASK
    BY <1>2, <1>7 DEF Lost, Blocked
  <2>2. fault' # "none"
    BY <1>2, <2>1 DEF msg_send, send_panic, send_deliver, send_block, quiet
  <2> QED
    BY <1>4, <2>1, <2>2 DEF ForkInv, KernelQuiet
<1>8. CASE AtUser(p)
  <2>1. quiet(p)
    BY <1>8 DEF AtUser
  <2>2. CASE MMListens /\ mm.at = "got"
    <3>1. /\ fault' = "none" /\ QueueExact'
          /\ p_flags' = [p_flags EXCEPT ![TASK_MM] = {}] /\ p_msg' = [p_msg EXCEPT ![TASK_MM] = 0]
          /\ p_recvfrom' = [p_recvfrom EXCEPT ![TASK_MM] = NO_TASK] /\ p_sendto' = p_sendto
          /\ \A r \in Proc \ {p, TASK_MM} : msg'[r] = msg[r]
          /\ msg'[TASK_MM] = [source |-> p, type |-> Body(c, 0)]
      <4>1. /\ KernelTypes /\ p_flags[TASK_MM] = {"RECEIVING"} /\ p_msg[TASK_MM] = 1
            /\ p_recvfrom[TASK_MM] \in {p, ANY} /\ p_sendto[TASK_MM] = NO_TASK
        BY <1>3, <2>2 DEF Types, MMListens
      <4>2. Delivered(p, TASK_MM, Body(c, 0))
        BY <1>1, <1>2, <1>3, <2>1, <4>1, SendDelivers
      <4> QED
        BY <4>2 DEF Delivered
    <3>2. /\ \A r \in Proc \ {TASK_MM} : p_flags'[r] = p_flags[r] /\ p_msg'[r] = p_msg[r]
                                        /\ p_recvfrom'[r] = p_recvfrom[r]
          /\ p_flags'[TASK_MM] = {} /\ p_msg'[TASK_MM] = 0
          /\ p_recvfrom'[TASK_MM] = NO_TASK /\ p_sendto'[TASK_MM] = NO_TASK
      BY <1>3, <2>2, <3>1 DEF Types, KernelTypes, MMListens
    <3>3. \A i \in User \ {p} : SameUser(i)
      BY <1>2, <1>5, <3>1, <3>2 DEF SameUser
    <3>4. Served(p, c)'
      BY <1>1, <1>2, <1>5, <2>1, <3>1, <3>2 DEF Served, Heard, quiet
    <3>5. MMHeard'
      BY <1>1, <3>1, <3>2, <3>4 DEF MMHeard, MMReady, quiet
    <3>6. UserPlace(p)' /\ (lib'[p].call = "EXIT" => p \in Slots)
      BY <1>1, <1>5, <3>4 DEF UserPlace
    <3>7. SameBits(p)
      BY <1>1, <3>2 DEF SameBits, Free, Hanging, Waiting
    <3>8. UserInv' /\ MMInv' /\ TreeInv'
      BY <1>2, <1>3, <1>8, <2>2, <3>3, <3>5, <3>6, <3>7, AtUserApart, ProcessMoves
    <3> QED
      BY <1>4, <3>1, <3>8 DEF ForkInv, KernelQuiet
  <2>3. CASE MMReady \/ \E q \in User : \E e \in {"FORK", "WAIT"} : MMSends(q, e)
    <3>1. PICK S \in SUBSET Proc : TASK_MM \in S /\ p \notin S /\ SendClosed(S)
      <4>1. CASE MMReady
        <5>1. SendClosed({TASK_MM})
          BY <4>1 DEF SendClosed, MMReady
        <5> QED
          BY <1>1, <5>1
      <4>2. ASSUME NEW q \in User, NEW e \in {"FORK", "WAIT"}, MMSends(q, e)
            PROVE  SendClosed({TASK_MM, q}) /\ q # p
        <5>1. q # p
          BY <1>8, <4>2, AtUserApart
        <5>2. "SENDING" \notin p_flags[q] /\ p_sendto[TASK_MM] = q
          BY <4>2 DEF MMSends, Heard, Lost
        <5> QED
          BY <5>1, <5>2 DEF SendClosed
      <4> QED
        BY <1>1, <2>3, <4>1, <4>2
    <3>2. "RECEIVING" \notin p_flags[TASK_MM]
      BY <2>3 DEF MMReady, MMSends
    <3>3. /\ fault' = "none" /\ QueueExact'
          /\ p_flags' = [p_flags EXCEPT ![p] = {"SENDING"}] /\ p_msg' = [p_msg EXCEPT ![p] = 1]
          /\ p_recvfrom' = p_recvfrom /\ p_sendto' = [p_sendto EXCEPT ![p] = TASK_MM]
          /\ \A r \in Proc \ {p} : msg'[r] = msg[r]
          /\ msg'[p] = [source |-> p, type |-> Body(c, 0)]
      <4>1. KernelTypes
        BY <1>3 DEF Types
      <4>2. Joined(p, TASK_MM, Body(c, 0))
        BY <1>1, <1>2, <1>3, <2>1, <3>1, <3>2, <4>1, SendBlocks
      <4> QED
        BY <4>2 DEF Joined
    <3>4. /\ \A r \in Proc \ {p} : p_flags'[r] = p_flags[r] /\ p_msg'[r] = p_msg[r]
                                  /\ p_sendto'[r] = p_sendto[r]
          /\ p_flags'[p] = {"SENDING"} /\ p_msg'[p] = 1 /\ p_sendto'[p] = TASK_MM
          /\ p_recvfrom'[p] = NO_TASK
      BY <1>1, <1>3, <2>1, <3>3 DEF Types, KernelTypes, quiet
    <3>5. \A i \in User \ {p} : SameUser(i)
      BY <1>2, <1>5, <3>3, <3>4 DEF SameUser
    <3>6. Asking(p)'
      BY <1>1, <1>5, <3>3, <3>4 DEF Asking
    <3>7. UserPlace(p)' /\ (lib'[p].call = "EXIT" => p \in Slots)
      BY <1>1, <1>5, <3>6 DEF UserPlace
    <3>8. SameBits(p)
      BY <1>2, <3>4 DEF SameBits, Free, Hanging, Waiting
    <3>9. SameTask
      BY <1>1, <3>3, <3>4 DEF SameTask
    <3>10. UserInv' /\ MMInv' /\ TreeInv'
      BY <1>2, <1>3, <1>8, <3>5, <3>7, <3>8, <3>9, AtUserApart, ProcessMoves
    <3> QED
      BY <1>4, <3>3, <3>10 DEF ForkInv, KernelQuiet
  <2> QED
    BY <1>3, <2>2, <2>3, MMPlaces
<1> QED
  BY <1>6, <1>7, <1>8

\* A process that goes to its receive.
LEMMA AwaitStep ==
  ASSUME ForkInv, NEW p \in User, Await(p)
  PROVE  ForkInv'
<1> USE Actors
<1>1. p \in Proc /\ p # TASK_MM
  OBVIOUS
<1>2. /\ fault = "none" /\ p_flags[p] = {} /\ lib[p].at = "sent"
      /\ msg_recevie(p, TASK_MM)
      /\ lib' = [lib EXCEPT ![p].at = "received"]
      /\ p_parent' = p_parent /\ mm' = mm /\ torn' = torn
  BY DEF Await
<1>3. Types /\ KernelTypes /\ QueueExact /\ UserInv /\ MMInv /\ TreeInv
  BY <1>2 DEF ForkInv, Types
<1>4. /\ lib'[p] = [call |-> lib[p].call, at |-> "received"]
      /\ lib'[p].call = lib[p].call /\ lib'[p].at = "received"
      /\ \A i \in User \ {p} : lib'[i] = lib[i]
  BY <1>2, <1>3 DEF Types, TableTypes
<1>5. TableTypes'
  <2>1. lib' \in [User -> [call : {"none", "FORK", "WAIT", "EXIT"}, at : {"sent", "received"}]]
    BY <1>2, <1>3 DEF Types, TableTypes
  <2> QED
    BY <1>2, <1>3, <2>1 DEF Types, TableTypes
<1>6. PICK c \in {"FORK", "WAIT", "EXIT"} : lib[p].call = c /\ Heard(p, {})
  BY <1>2, <1>3 DEF UserInv, UserPlace, AtUser, Asking, Served, Called, Heard, Awaiting, Lost, Free
<1>7. quiet(p)
  BY <1>6 DEF Heard
<1>8. p_parent'[p] = p_parent[p] /\ (lib'[p].call = "EXIT" => p \in Slots)
  BY <1>2, <1>3, <1>4 DEF UserInv
<1>9. CASE MMSends(p, "FORK") \/ MMSends(p, "WAIT")
  <2>1. /\ p_flags[TASK_MM] = {"SENDING"} /\ p_msg[TASK_MM] = 1
        /\ p_recvfrom[TASK_MM] = NO_TASK /\ p_sendto[TASK_MM] = p
        /\ msg[TASK_MM].source = TASK_MM /\ c \in {"FORK", "WAIT"}
    BY <1>6, <1>9 DEF MMSends
  <2>2. Listed(q_sending[p], TASK_MM) /\ q_sending[p] \in Seq(Proc)
    BY <1>3, <2>1 DEF QueueExact, Sending, KernelTypes
  <2>3. q_sending[p] # <<>>
    BY <2>2 DEF Listed
  <2>4. /\ fault' = "none" /\ KernelTypes' /\ QueueExact'
        /\ p_flags' = [p_flags EXCEPT ![TASK_MM] = {}] /\ p_msg' = [p_msg EXCEPT ![TASK_MM] = 0]
        /\ p_recvfrom' = p_recvfrom /\ p_sendto' = [p_sendto EXCEPT ![TASK_MM] = NO_TASK]
        /\ \A r \in Proc \ {p} : msg'[r] = msg[r]
        /\ msg'[p] = msg[TASK_MM]
    <3>1. Copied(p, TASK_MM)
      BY <1>1, <1>2, <1>3, <1>7, <2>1, <2>3, RecvCopies
    <3> QED
      BY <3>1 DEF Copied
  <2>5. /\ \A r \in Proc \ {TASK_MM} : p_flags'[r] = p_flags[r] /\ p_msg'[r] = p_msg[r]
                                      /\ p_sendto'[r] = p_sendto[r]
        /\ p_flags'[TASK_MM] = {} /\ p_msg'[TASK_MM] = 0 /\ p_sendto'[TASK_MM] = NO_TASK
        /\ p_recvfrom'[TASK_MM] = NO_TASK
    BY <1>3, <2>1, <2>4 DEF KernelTypes
  <2>6. \A i \in User \ {p} : SameUser(i)
    BY <1>2, <1>4, <2>4, <2>5 DEF SameUser
  <2>7. AtUser(p)'
    BY <1>1, <1>2, <1>4, <1>6, <1>7, <2>1, <2>4, <2>5 DEF AtUser, quiet
  <2>8. UserInv'
    BY <1>3, <1>8, <2>6, <2>7, UsersKept DEF UserPlace
  <2>9. TreeInv'
    <3>1. \A q \in User : SameBits(q)
      BY <1>1, <2>5 DEF SameBits, Free, Hanging, Waiting
    <3> QED
      BY <1>2, <1>3, <3>1, TreeKept DEF Exiting
  <2>10. MMInv'
    <3>1. MMReady'
      BY <2>5 DEF MMReady, quiet
    <3>2. mm.at \in {"receive", "free"}
      BY <1>3, <2>1, MMPlaces DEF MMReady, MMListens
    <3>3. mm.at = "receive" => mm = mmFrame
      BY <1>3 DEF MMInv
    <3>4. CleansUp => CleansUp'
      <4> SUFFICES ASSUME CleansUp PROVE CleansUp'
        OBVIOUS
      <4>1. mm.who \in User /\ mm.who # p /\ SameUser(mm.who) /\ lib'[mm.who] = lib[mm.who]
        BY <1>6, <2>1, <2>6 DEF CleansUp, SameUser
      <4> QED
        BY <1>2, <4>1, SamePlace DEF CleansUp
    <3>5. mm.at = "free" => CleansUp'
      BY <1>3, <3>4 DEF MMInv
    <3> QED
      BY <1>2, <3>1, <3>2, <3>3, <3>5 DEF MMInv
  <2> QED
    BY <1>5, <2>4, <2>8, <2>9, <2>10 DEF ForkInv, KernelQuiet, Types
<1>10. CASE ~MMSends(p, "FORK") /\ ~MMSends(p, "WAIT")
  <2>1. ~("SENDING" \in p_flags[TASK_MM] /\ p_sendto[TASK_MM] = p)
    BY <1>3, <1>10, MMPlaces DEF MMReady, MMListens, MMSends
  <2>2. ~sender_ready(p, TASK_MM) /\ \A e : ~MMSends(p, e)
    BY <2>1 DEF sender_ready, MMSends
  <2>3. /\ fault' = "none" /\ KernelTypes' /\ QueueExact'
        /\ p_flags' = [p_flags EXCEPT ![p] = {"RECEIVING"}] /\ p_msg' = [p_msg EXCEPT ![p] = 1]
        /\ p_recvfrom' = [p_recvfrom EXCEPT ![p] = TASK_MM] /\ p_sendto' = p_sendto
        /\ \A r \in Proc \ {p} : msg'[r] = msg[r]
    <3>1. Listens(p, TASK_MM)
      BY <1>1, <1>2, <1>3, <1>7, <2>2, RecvBlocks
    <3> QED
      BY <3>1 DEF Listens
  <2>4. /\ \A r \in Proc \ {p} : p_flags'[r] = p_flags[r] /\ p_msg'[r] = p_msg[r]
                                /\ p_recvfrom'[r] = p_recvfrom[r]
        /\ p_flags'[p] = {"RECEIVING"} /\ p_msg'[p] = 1 /\ p_recvfrom'[p] = TASK_MM
        /\ p_sendto'[p] = NO_TASK
    BY <1>1, <1>3, <1>7, <2>3 DEF KernelTypes, quiet
  <2>5. \A i \in User \ {p} : SameUser(i)
    BY <1>2, <1>4, <2>3, <2>4 DEF SameUser
  <2>6. Awaiting(p, {})'
    BY <1>1, <1>4, <2>4 DEF Awaiting, Blocked
  <2>7. /\ \A e : Served(p, e) => Served(p, e)'
        /\ \A e, x : Called(p, e, x) => Called(p, e, x)'
    BY <1>2, <1>4, <1>7, <2>6 DEF Served, Called, Heard, Awaiting, Lost, Blocked, quiet
  <2>8. UserPlace(p)'
    BY <1>4, <1>6, <2>6 DEF UserPlace, Served
  <2>9. SameBits(p)
    BY <1>2, <2>4 DEF SameBits, Free, Hanging, Waiting
  <2>10. SameTask
    BY <1>1, <2>3, <2>4 DEF SameTask
  <2>11. ~Awaiting(p, {})
    BY <1>2 DEF Awaiting
  <2>12. UserInv' /\ MMInv' /\ TreeInv'
    BY <1>2, <1>3, <1>8, <2>2, <2>5, <2>7, <2>8, <2>9, <2>10, <2>11, ProcessMoves
  <2> QED
    BY <1>5, <2>3, <2>12 DEF ForkInv, KernelQuiet, Types
<1> QED
  BY <1>9, <1>10

----------------------------------------------------------------------------
(* The steps of task_mm *)

\* task_mm takes a step only when it is ready.
LEMMA MMRuns ==
  ASSUME MMInv, Types, p_flags[TASK_MM] = {}
  PROVE  MMReady /\ ~MMListens
BY MMPlaces DEF MMListens, MMSends

\* The caller of a handler has been heard and is not answered.
LEMMA MMServes ==
  ASSUME ForkInv, NEW t, mmGot(t)
  PROVE  /\ caller \in User /\ Served(caller, t) /\ (t = "EXIT" => caller \in Slots)
         /\ t \in {"FORK", "WAIT", "EXIT"}
<1>1. /\ p_flags[TASK_MM] = {} /\ mm.at = "got" /\ msg[TASK_MM].type.type = t
      /\ MMInv /\ UserInv /\ Types
  BY DEF mmGot, mmAt, ForkInv
<1>2. MMHeard
  BY <1>1, MMRuns DEF MMInv
<1>3. PICK i \in User, c \in {"FORK", "WAIT", "EXIT"} :
        msg[TASK_MM] = [source |-> i, type |-> Body(c, 0)] /\ Served(i, c)
  BY <1>2 DEF MMHeard
<1>4. caller = i /\ t = c
  BY <1>1, <1>3 DEF caller, Body
<1> QED
  BY <1>1, <1>3, <1>4 DEF UserInv, Served

\* The locals of task_mm, field by field.
LEMMA MMTyped ==
  ASSUME mm \in [at : {"receive", "got", "store", "birth", "reply", "cleanup", "free",
                       "orphans", "assert"},
                 src : User \cup {NO_TASK}, who : Slots \cup {NO_TASK},
                 load : {{}, {"RECEIVING"}}, bit : {"none", "WAITING", "HANGING"},
                 then : {"none", "receive", "orphans", "assert"}]
  PROVE  mm = [at |-> mm.at, src |-> mm.src, who |-> mm.who,
               load |-> mm.load, bit |-> mm.bit, then |-> mm.then]
OBVIOUS

\* An answer delivered to d, or left with d, which has not got to its receive or
\* is lost.
Answered(d, c) ==
  /\ fault' = "none" /\ KernelTypes' /\ QueueExact' /\ UserInv'
  /\ \A i \in User \ {d} : SameUser(i)
  /\ \A i \in User : SameBits(i)
  /\ MMReady' \/ MMSends(d, c)'

\* task_mm answers the call c of d.
LEMMA AnswerFacts ==
  ASSUME Types, QueueExact, UserInv, MMReady, fault = "none",
         NEW d \in User, NEW c \in {"FORK", "WAIT"}, Called(d, c, {}), NEW t,
         msg_send(TASK_MM, d, t), lib' = lib, torn' = torn
  PROVE  Answered(d, c) /\ (Awaiting(d, {}) => MMReady')
<1> USE Actors
<1>1. /\ TASK_MM \in Proc /\ d \in Proc /\ TASK_MM # d /\ KernelTypes
      /\ p_flags[TASK_MM] = {} /\ quiet(TASK_MM) /\ lib[d].call = c
      /\ Heard(d, {}) \/ Awaiting(d, {}) \/ Lost(d, {})
  BY DEF MMReady, Called, Types
<1>2. lib[d].call = "EXIT" => d \in Slots
  BY DEF UserInv
<1>3. CASE Awaiting(d, {})
  <2>1. p_flags[d] = {"RECEIVING"} /\ Blocked(d) /\ lib[d].at = "received"
    BY <1>3 DEF Awaiting
  <2>2. p_msg[d] = 1 /\ p_recvfrom[d] = TASK_MM /\ p_sendto[d] = NO_TASK
    BY <2>1 DEF Blocked
  <2>3. /\ fault' = "none" /\ KernelTypes' /\ QueueExact'
        /\ p_flags' = [p_flags EXCEPT ![d] = {}] /\ p_msg' = [p_msg EXCEPT ![d] = 0]
        /\ p_recvfrom' = [p_recvfrom EXCEPT ![d] = NO_TASK] /\ p_sendto' = p_sendto
        /\ \A r \in Proc \ {TASK_MM, d} : msg'[r] = msg[r]
        /\ msg'[d] = [source |-> TASK_MM, type |-> t]
    <3>1. Delivered(TASK_MM, d, t)
      BY <1>1, <2>1, <2>2, SendDelivers
    <3> QED
      BY <3>1 DEF Delivered
  <2>4. /\ \A r \in Proc \ {d} : p_flags'[r] = p_flags[r] /\ p_msg'[r] = p_msg[r]
                                /\ p_recvfrom'[r] = p_recvfrom[r]
        /\ p_flags'[d] = {} /\ p_msg'[d] = 0 /\ p_recvfrom'[d] = NO_TASK
        /\ p_sendto'[d] = NO_TASK
    BY <1>1, <2>1, <2>3 DEF KernelTypes, Blocked
  <2>5. \A i \in User \ {d} : SameUser(i)
    BY <2>3, <2>4 DEF SameUser
  <2>6. AtUser(d)'
    BY <1>1, <2>1, <2>3, <2>4 DEF AtUser, quiet
  <2>7. UserInv'
    BY <1>2, <2>5, <2>6, UsersKept DEF UserPlace
  <2>8. \A i \in User : SameBits(i)
    BY <2>1, <2>4 DEF SameBits, Free, Hanging, Waiting
  <2>9. MMReady'
    BY <1>1, <2>3, <2>4 DEF MMReady, quiet
  <2> QED
    BY <2>3, <2>5, <2>7, <2>8, <2>9 DEF Answered
<1>4. CASE ~Awaiting(d, {})
  <2>1. p_flags[d] = {} /\ (Heard(d, {}) \/ Lost(d, {}))
    BY <1>1, <1>4 DEF Heard, Lost
  <2>2. SendClosed({d}) /\ {d} \in SUBSET Proc /\ TASK_MM \notin {d}
    BY <1>1, <2>1 DEF SendClosed
  <2>3. "RECEIVING" \notin p_flags[d]
    BY <2>1
  <2>4. /\ fault' = "none" /\ KernelTypes' /\ QueueExact'
        /\ p_flags' = [p_flags EXCEPT ![TASK_MM] = {"SENDING"}]
        /\ p_msg' = [p_msg EXCEPT ![TASK_MM] = 1]
        /\ p_recvfrom' = p_recvfrom /\ p_sendto' = [p_sendto EXCEPT ![TASK_MM] = d]
        /\ \A r \in Proc \ {TASK_MM} : msg'[r] = msg[r]
        /\ msg'[TASK_MM] = [source |-> TASK_MM, type |-> t]
    <3>1. Joined(TASK_MM, d, t)
      BY <1>1, <2>2, <2>3, SendBlocks
    <3> QED
      BY <3>1 DEF Joined
  <2>5. /\ \A r \in Proc \ {TASK_MM} : p_flags'[r] = p_flags[r] /\ p_msg'[r] = p_msg[r]
                                      /\ p_sendto'[r] = p_sendto[r]
        /\ p_flags'[TASK_MM] = {"SENDING"} /\ p_msg'[TASK_MM] = 1 /\ p_sendto'[TASK_MM] = d
        /\ p_recvfrom'[TASK_MM] = NO_TASK
    BY <1>1, <2>4 DEF KernelTypes, quiet
  <2>6. \A i \in User : SameUser(i)
    BY <2>4, <2>5 DEF SameUser
  <2>7. UserInv'
    BY <2>6, SamePlace DEF UserInv, SameUser
  <2>8. \A i \in User : SameBits(i)
    BY <2>5 DEF SameBits, Free, Hanging, Waiting
  <2>9. Heard(d, {})' \/ Lost(d, {})'
    BY <2>1, <2>6 DEF Heard, Lost, Blocked, quiet, SameUser
  <2>10. MMSends(d, c)'
    BY <1>1, <2>4, <2>5, <2>9 DEF MMSends
  <2> QED
    BY <1>4, <2>4, <2>6, <2>7, <2>8, <2>10 DEF Answered
<1> QED
  BY <1>3, <1>4

\* Every step of task_mm starts from the invariant with task_mm ready.
LEMMA MMStarts ==
  ASSUME ForkInv, NEW a, mmAt(a)
  PROVE  /\ fault = "none" /\ mm.at = a /\ p_flags[TASK_MM] = {} /\ MMReady
         /\ Types /\ KernelTypes /\ TableTypes
         /\ QueueExact /\ UserInv /\ MMInv /\ TreeInv
         /\ \A q \in User : \A c : ~MMSends(q, c)
BY MMRuns DEF mmAt, ForkInv, Types, MMReady, MMSends

\* The handlers are entered with a message.
LEMMA GotStarts ==
  ASSUME NEW t, mmGot(t)
  PROVE  mmAt("got")
BY DEF mmGot

\* task_mm takes the first call there is, or listens.
LEMMA ReceiveStep ==
  ASSUME ForkInv, receive
  PROVE  ForkInv'
<1> USE Actors
<1>1. /\ mmAt("receive") /\ msg_recevie(TASK_MM, ANY)
      /\ mm' = [mm EXCEPT !.at = "got"] /\ p_parent' = p_parent /\ lib' = lib /\ torn' = torn
  BY DEF receive
<1>2. /\ fault = "none" /\ mm.at = "receive" /\ p_flags[TASK_MM] = {} /\ MMReady
      /\ Types /\ KernelTypes /\ TableTypes
      /\ QueueExact /\ UserInv /\ MMInv /\ TreeInv /\ quiet(TASK_MM)
  BY <1>1, MMStarts DEF MMReady
<1>3. mm' = [mmFrame EXCEPT !.at = "got"] /\ mm = mmFrame /\ mm'.at = "got"
  BY <1>1, <1>2 DEF MMInv, mmFrame
<1>4. TableTypes'
  BY <1>1, <1>2, <1>3 DEF TableTypes, mmFrame
<1>5. ~Exiting
  BY <1>2 DEF Exiting
<1>6. CASE q_sending[TASK_MM] = <<>>
  <2>1. ~sender_ready(TASK_MM, ANY)
    BY <1>6 DEF sender_ready
  <2>2. /\ fault' = "none" /\ KernelTypes' /\ QueueExact'
        /\ p_flags' = [p_flags EXCEPT ![TASK_MM] = {"RECEIVING"}]
        /\ p_msg' = [p_msg EXCEPT ![TASK_MM] = 1]
        /\ p_recvfrom' = [p_recvfrom EXCEPT ![TASK_MM] = ANY] /\ p_sendto' = p_sendto
        /\ \A r \in Proc \ {TASK_MM} : msg'[r] = msg[r]
    <3>1. Listens(TASK_MM, ANY)
      BY <1>1, <1>2, <2>1, RecvBlocks
    <3> QED
      BY <3>1 DEF Listens
  <2>3. /\ \A r \in Proc \ {TASK_MM} : p_flags'[r] = p_flags[r] /\ p_msg'[r] = p_msg[r]
                                      /\ p_recvfrom'[r] = p_recvfrom[r]
        /\ p_flags'[TASK_MM] = {"RECEIVING"} /\ p_msg'[TASK_MM] = 1
        /\ p_recvfrom'[TASK_MM] = ANY /\ p_sendto'[TASK_MM] = NO_TASK
    BY <1>2, <2>2 DEF KernelTypes, quiet
  <2>4. \A i \in User : SameUser(i)
    BY <1>1, <2>2, <2>3 DEF SameUser
  <2>5. UserInv'
    BY <1>2, <2>4, SamePlace DEF UserInv, SameUser
  <2>6. \A i \in User : SameBits(i)
    BY <2>3 DEF SameBits, Free, Hanging, Waiting
  <2>7. MMInv'
    BY <1>3, <2>3 DEF MMInv, MMListens
  <2>8. TreeInv'
    BY <1>1, <1>2, <1>5, <2>6, TreeKept
  <2> QED
    BY <1>4, <2>2, <2>5, <2>7, <2>8 DEF ForkInv, KernelQuiet, Types
<1>7. CASE q_sending[TASK_MM] # <<>>
  <2> DEFINE f == Head(q_sending[TASK_MM])
  <2>1. q_sending[TASK_MM] \in Seq(Proc) /\ f \in Proc /\ Listed(q_sending[TASK_MM], f)
    BY <1>2, <1>7 DEF KernelTypes, Listed
  <2>2. "SENDING" \in p_flags[f] /\ p_sendto[f] = TASK_MM /\ f \in User
    BY <1>2, <2>1 DEF QueueExact, Sending
  <2>3. Asking(f)
    BY <1>2, <2>2 DEF UserInv, UserPlace, AtUser, Served, Called, Heard, Awaiting, Lost, Free
  <2>4. PICK g \in User : g = f
    BY <2>2
  <2> HIDE DEF f
  <2>5. /\ p_flags[g] = {"SENDING"} /\ p_msg[g] = 1 /\ p_recvfrom[g] = NO_TASK
        /\ p_sendto[g] = TASK_MM /\ lib[g].at = "sent" /\ lib[g].call # "none"
        /\ msg[g] = [source |-> g, type |-> Body(lib[g].call, 0)]
    BY <2>3, <2>4 DEF Asking
  <2>6. /\ fault' = "none" /\ KernelTypes' /\ QueueExact'
        /\ p_flags' = [p_flags EXCEPT ![g] = {}] /\ p_msg' = [p_msg EXCEPT ![g] = 0]
        /\ p_recvfrom' = p_recvfrom /\ p_sendto' = [p_sendto EXCEPT ![g] = NO_TASK]
        /\ \A r \in Proc \ {TASK_MM} : msg'[r] = msg[r]
        /\ msg'[TASK_MM] = msg[g]
    <3>1. g = IF ANY = ANY THEN Head(q_sending[TASK_MM]) ELSE ANY
      BY <2>4 DEF f
    <3>2. TASK_MM \in Proc /\ g \in Proc /\ g # TASK_MM
      OBVIOUS
    <3>3. Copied(TASK_MM, g)
      BY <1>1, <1>2, <1>7, <2>5, <3>1, <3>2, RecvCopies
    <3> QED
      BY <3>3 DEF Copied
  <2>7. /\ \A r \in Proc \ {g} : p_flags'[r] = p_flags[r] /\ p_msg'[r] = p_msg[r]
                                /\ p_sendto'[r] = p_sendto[r]
        /\ p_flags'[g] = {} /\ p_msg'[g] = 0 /\ p_sendto'[g] = NO_TASK
        /\ p_recvfrom'[g] = NO_TASK
    BY <1>2, <2>5, <2>6 DEF KernelTypes
  <2>8. \A i \in User \ {g} : SameUser(i)
    BY <1>1, <2>6, <2>7 DEF SameUser
  <2>9. PICK c \in {"FORK", "WAIT", "EXIT"} : lib[g].call = c
    BY <1>2, <2>5 DEF TableTypes
  <2>10. Served(g, c)'
    BY <1>1, <2>5, <2>7, <2>9 DEF Served, Heard, quiet
  <2>11. UserInv'
    <3>1. UserPlace(g)' /\ (lib'[g].call = "EXIT" => g \in Slots)
      BY <1>1, <1>2, <2>10 DEF UserPlace, UserInv
    <3> QED
      BY <1>2, <2>8, <3>1, UsersKept
  <2>12. \A i \in User : SameBits(i)
    BY <2>5, <2>7 DEF SameBits, Free, Hanging, Waiting
  <2>13. MMHeard'
    <3>1. MMReady'
      BY <1>2, <2>6, <2>7 DEF MMReady, quiet
    <3>2. msg'[TASK_MM] = [source |-> g, type |-> Body(c, 0)]
      BY <2>5, <2>6, <2>9
    <3> QED
      BY <2>10, <3>1, <3>2 DEF MMHeard
  <2>14. MMInv'
    BY <1>3, <2>13 DEF MMInv
  <2>15. TreeInv'
    BY <1>1, <1>2, <1>5, <2>12, TreeKept
  <2> QED
    BY <1>4, <2>6, <2>11, <2>14, <2>15 DEF ForkInv, KernelQuiet, Types
<1> QED
  BY <1>6, <1>7

\* The answers that end a call: fork() in the parent, wait() without children.
LEMMA LastAnswerStep ==
  ASSUME ForkInv, NEW a, mmAt(a), ~Exiting, NEW d \in User, NEW c \in {"FORK", "WAIT"},
         Served(d, c), NEW t, mmSend(d, t, "receive")
  PROVE  ForkInv'
<1> USE Actors
<1>1. /\ msg_send(TASK_MM, d, t) /\ mm' = mmFrame
      /\ p_parent' = p_parent /\ lib' = lib /\ torn' = torn
  BY DEF mmSend, goOn
<1>2. /\ fault = "none" /\ MMReady /\ Types /\ TableTypes
      /\ QueueExact /\ UserInv /\ MMInv /\ TreeInv
  BY MMStarts
<1>3. Called(d, c, {})
  BY DEF Served, Called
<1>4. Answered(d, c)
  BY <1>1, <1>2, <1>3, AnswerFacts
<1>5. TableTypes'
  BY <1>1, <1>2 DEF TableTypes, mmFrame
<1>6. MMInv'
  BY <1>1, <1>4 DEF MMInv, Answered, mmFrame
<1>7. TreeInv'
  BY <1>1, <1>2, <1>4, TreeKept DEF Answered
<1> QED
  BY <1>4, <1>5, <1>6, <1>7 DEF ForkInv, KernelQuiet, Types, Answered

\* The answer to the parent of a fork().
LEMMA ForkReplyStep ==
  ASSUME ForkInv, fork_reply
  PROVE  ForkInv'
<1> DEFINE t == Body("SYSCALL_RET", IF mm.who = NO_TASK THEN 0 - 1 ELSE 0)
<1>1. mmAt("reply") /\ mmSend(mm.src, t, "receive")
  BY DEF fork_reply
<1> HIDE DEF t
<1>2. PICK d \in User : d = mm.src /\ Served(d, "FORK") /\ ~Exiting
  BY <1>1, MMStarts DEF MMInv, Exiting
<1>3. PICK u : u = t
  OBVIOUS
<1> QED
  BY <1>1, <1>2, <1>3, LastAnswerStep

\* wait() of a process without children.
LEMMA WaitChildlessStep ==
  ASSUME ForkInv, wait_childless
  PROVE  ForkInv'
<1>1. mmGot("WAIT") /\ mmSend(caller, SyscallRet, "receive")
  BY DEF wait_childless
<1>2. mmAt("got")
  BY <1>1, GotStarts
<1>3. PICK d \in User : d = caller /\ Served(d, "WAIT") /\ ~Exiting
  BY <1>1, <1>2, MMServes, MMStarts DEF Exiting
<1> QED
  BY <1>1, <1>2, <1>3, LastAnswerStep

\* The answer to the child of a fork().
LEMMA ForkBirthStep ==
  ASSUME ForkInv, fork_birth
  PROVE  ForkInv'
<1> USE Actors
<1>1. mmAt("birth") /\ mmSend(mm.who, SyscallRet, "reply")
  BY DEF fork_birth
<1>2. /\ fault = "none" /\ MMReady /\ Types /\ TableTypes /\ mm.at = "birth"
      /\ QueueExact /\ UserInv /\ MMInv /\ TreeInv
  BY <1>1, MMStarts
<1>3. /\ msg_send(TASK_MM, mm.who, SyscallRet) /\ mm' = [mm EXCEPT !.at = "reply"]
      /\ p_parent' = p_parent /\ lib' = lib /\ torn' = torn
  BY <1>1 DEF mmSend, goOn
<1>4. PICK d \in User, p \in User :
        /\ d = mm.who /\ p = mm.src /\ d # p
        /\ lib[d].call = "FORK" /\ Awaiting(d, {})
        /\ lib[p].call = "FORK" /\ Awaiting(p, {})
  BY <1>2 DEF MMInv
<1>5. Called(d, "FORK", {}) /\ Served(p, "FORK")
  BY <1>4 DEF Called, Served
<1>6. Answered(d, "FORK") /\ MMReady'
  BY <1>2, <1>3, <1>4, <1>5, AnswerFacts
<1>7. Served(p, "FORK")'
  BY <1>4, <1>5, <1>6, SamePlace DEF Answered
<1>8. TableTypes' /\ mm'.at = "reply" /\ mm'.src = p
  BY <1>2, <1>3, <1>4 DEF TableTypes
<1>9. MMInv'
  BY <1>6, <1>7, <1>8 DEF MMInv
<1>10. TreeInv'
  BY <1>2, <1>3, <1>6, TreeKept DEF Answered, Exiting
<1> QED
  BY <1>6, <1>8, <1>9, <1>10 DEF ForkInv, KernelQuiet, Types, Answered

\* cleanup tells the parent of the zombie.
LEMMA CleanupSendStep ==
  ASSUME ForkInv, cleanup_send
  PROVE  ForkInv'
<1> USE Actors
<1>1. mmAt("cleanup") /\ mmSend(p_parent[mm.who], SyscallRet, "free")
  BY DEF cleanup_send, informed
<1>2. /\ fault = "none" /\ MMReady /\ Types /\ TableTypes /\ mm.at = "cleanup"
      /\ QueueExact /\ UserInv /\ MMInv /\ TreeInv
  BY <1>1, MMStarts
<1>3. /\ msg_send(TASK_MM, p_parent[mm.who], SyscallRet) /\ mm' = [mm EXCEPT !.at = "free"]
      /\ p_parent' = p_parent /\ lib' = lib /\ torn' = torn
  BY <1>1 DEF mmSend, goOn
<1>4. PICK d \in User, z \in Slots :
        d = p_parent[z] /\ z = mm.who /\ CleansUp /\ Called(d, "WAIT", {})
  BY <1>2 DEF MMInv, CleansUp
<1>5. Answered(d, "WAIT")
  BY <1>2, <1>3, <1>4, AnswerFacts
<1>6. z # d /\ SameUser(z) /\ lib'[z] = lib[z]
  BY <1>4, <1>5 DEF CleansUp, Called, Answered, SameUser
<1>7. /\ TableTypes' /\ mm'.at = "free" /\ mm'.src = mm.src /\ mm'.who = mm.who
      /\ mm'.then = mm.then
  BY <1>2, <1>3 DEF TableTypes
<1>8. CleansUp'
  <2>1. /\ Served(z, "EXIT") => Served(z, "EXIT")'
        /\ Called(z, "EXIT", {"HANGING"}) => Called(z, "EXIT", {"HANGING"})'
    BY <1>6, SamePlace
  <2> QED
    BY <1>3, <1>4, <1>6, <1>7, <2>1 DEF CleansUp
<1>9. MMReady' \/ \E q \in User : MMSends(q, "WAIT")'
  BY <1>5 DEF Answered
<1>10. MMInv'
  BY <1>7, <1>8, <1>9 DEF MMInv
<1>11. TreeInv'
  BY <1>2, <1>3, <1>5, <1>7, TreeKept DEF Answered, Exiting
<1> QED
  BY <1>5, <1>7, <1>10, <1>11 DEF ForkInv, KernelQuiet, Types, Answered

----------------------------------------------------------------------------
(* Steps that change no table entry *)

\* The first entry the loops over proc_table find is one of those they look for.
LEMMA MinFacts ==
  ASSUME NEW S \in SUBSET Nat, S # {}
  PROVE  Min(S) \in S /\ \A y \in S : Min(S) <= y
<1>1. PICK m \in S : \A y \in S : ~ (<<y, m>> \in OpToRel(<, Nat))
  BY NatLessThanWellFounded, WFMin
<1>2. \A y \in S : ~(y < m)
  BY <1>1 DEF OpToRel
<1>3. \A y \in S : m <= y
  BY <1>2
<1> QED
  BY <1>3 DEF Min

\* INIT_PROC is never free and never a zombie.
LEMMA InitAlive ==
  ASSUME UserInv
  PROVE  Alive(INIT_PROC)
<1>1. UserPlace(INIT_PROC) /\ lib[INIT_PROC].call # "EXIT"
  BY Actors DEF UserInv
<1> QED
  BY <1>1, Actors DEF UserPlace, AtUser, Asking, Served, Called, Heard, Awaiting, Lost,
                      Alive, Free, Hanging

\* A zombie is in exit().
LEMMA ZombiePlace ==
  ASSUME UserInv, NEW i \in User, Hanging(i)
  PROVE  i \in Slots /\ Called(i, "EXIT", {"HANGING"})
<1>1. UserPlace(i) /\ "HANGING" \in p_flags[i] /\ (lib[i].call = "EXIT" => i \in Slots)
  BY DEF UserInv, Hanging
<1>2. ~AtUser(i) /\ ~Asking(i) /\ ~Free(i) /\ \A c : ~Served(i, c)
  BY <1>1 DEF AtUser, Asking, Free, Served, Heard, Awaiting
<1>3. ~Called(i, "WAIT", {}) /\ ~Called(i, "WAIT", {"WAITING"})
  BY <1>1 DEF Called, Heard, Awaiting, Lost
<1>4. Called(i, "EXIT", {"HANGING"})
  BY <1>1, <1>2, <1>3 DEF UserPlace
<1> QED
  BY <1>1, <1>4 DEF Called

\* A process that is waiting is in wait().
LEMMA WaiterPlace ==
  ASSUME UserInv, NEW i \in User, Waiting(i)
  PROVE  Called(i, "WAIT", {"WAITING"})
<1>1. UserPlace(i) /\ "WAITING" \in p_flags[i]
  BY DEF UserInv, Waiting
<1>2. ~AtUser(i) /\ ~Asking(i) /\ ~Free(i) /\ \A c : ~Served(i, c)
  BY <1>1 DEF AtUser, Asking, Free, Served, Heard, Awaiting
<1>3. ~Called(i, "WAIT", {}) /\ ~Called(i, "EXIT", {"HANGING"})
  BY <1>1 DEF Called, Heard, Awaiting, Lost
<1> QED
  BY <1>1, <1>2, <1>3 DEF UserPlace

\* A step of task_mm on its locals alone keeps everything but MMInv and TreeInv.
LEMMA LocalStep ==
  ASSUME QueueExact, UserInv, KernelTypes, UNCHANGED <<ipcVars, lib, torn>>
  PROVE  /\ QueueExact' /\ UserInv' /\ KernelTypes' /\ fault' = fault
         /\ (MMReady => MMReady')
         /\ \A i \in User : SameUser(i) /\ SameBits(i) /\ lib'[i] = lib[i]
<1> USE DEF ipcVars
<1>1. QueueExact'
  BY DEF QueueExact, Sending
<1>2. \A i \in User : SameUser(i)
  BY DEF SameUser
<1>3. UserInv'
  BY <1>2, SamePlace DEF UserInv
<1>4. KernelTypes'
  BY DEF KernelTypes, Buffers
<1>5. MMReady => MMReady'
  BY DEF MMReady, quiet
<1>6. \A i \in User : SameBits(i)
  BY DEF SameBits, Free, Hanging, Waiting
<1> QED
  BY <1>1, <1>2, <1>3, <1>4, <1>5, <1>6

\* fork() without a free slot.
LEMMA ForkFullStep ==
  ASSUME ForkInv, fork_full
  PROVE  ForkInv'
<1> USE Actors
<1>1. /\ mmGot("FORK") /\ mm' = [mm EXCEPT !.at = "reply", !.src = caller, !.who = NO_TASK]
      /\ UNCHANGED <<ipcVars, lib, torn>> /\ p_parent' = p_parent
  BY DEF fork_full
<1>2. PICK p \in User : p = caller /\ Served(p, "FORK")
  BY <1>1, MMServes
<1>3. /\ fault = "none" /\ MMReady /\ Types /\ KernelTypes /\ TableTypes
      /\ QueueExact /\ UserInv /\ TreeInv /\ ~Exiting
  BY <1>1, GotStarts, MMStarts DEF Exiting
<1>4. /\ QueueExact' /\ UserInv' /\ KernelTypes' /\ fault' = fault /\ MMReady'
      /\ \A i \in User : SameUser(i) /\ SameBits(i)
  BY <1>1, <1>3, LocalStep
<1>5. TableTypes' /\ mm'.at = "reply" /\ mm'.src = p
  BY <1>1, <1>2, <1>3 DEF TableTypes
<1>6. MMInv'
  BY <1>2, <1>4, <1>5, SamePlace DEF MMInv
<1>7. TreeInv'
  BY <1>1, <1>3, <1>4, TreeKept
<1> QED
  BY <1>3, <1>4, <1>5, <1>6, <1>7 DEF ForkInv, KernelQuiet, Types

\* exit() with a parent that is not waiting: the load of the flags.
LEMMA ExitUnwaitedStep ==
  ASSUME ForkInv, exit_unwaited
  PROVE  ForkInv'
<1> USE Actors
<1>1. /\ mmGot("EXIT") /\ ~Waiting(p_parent[caller])
      /\ mm' = [mm EXCEPT !.at = "store", !.src = caller, !.load = p_flags[caller],
                          !.bit = "HANGING", !.then = "orphans"]
      /\ UNCHANGED <<ipcVars, lib, torn>> /\ p_parent' = p_parent
  BY DEF exit_unwaited, or_flags
<1>2. PICK p \in Slots : p = caller /\ Served(p, "EXIT") /\ ~Waiting(p_parent[p])
  BY <1>1, MMServes
<1>3. /\ fault = "none" /\ MMReady /\ Types /\ KernelTypes /\ TableTypes
      /\ QueueExact /\ UserInv /\ TreeInv /\ ~Exiting
  BY <1>1, GotStarts, MMStarts DEF Exiting
<1>4. /\ QueueExact' /\ UserInv' /\ KernelTypes' /\ fault' = fault /\ MMReady'
      /\ \A i \in User : SameUser(i) /\ SameBits(i)
  BY <1>1, <1>3, LocalStep
<1>5. p_flags[p] \in {{}, {"RECEIVING"}}
  BY <1>2 DEF Served, Heard, Awaiting
<1>6. /\ TableTypes' /\ mm'.at = "store" /\ mm'.src = p /\ mm'.load = p_flags[p]
      /\ mm'.bit = "HANGING" /\ mm'.then = "orphans"
  BY <1>1, <1>2, <1>3, <1>5 DEF TableTypes
<1>7. Marking'
  <2>1. p_parent[p] \in User
    BY <1>3, <1>5 DEF TreeInv, Free
  <2>2. ~Waiting(p_parent[p])'
    BY <1>1, <1>2, <1>4, <2>1 DEF SameBits
  <2>3. Served(p, "EXIT")' /\ p_flags'[p] = p_flags[p]
    BY <1>2, <1>4, SamePlace DEF SameUser
  <2> QED
    BY <1>1, <1>6, <2>2, <2>3 DEF Marking
<1>8. MMInv'
  BY <1>4, <1>6, <1>7 DEF MMInv
<1>9. TreeInv'
  BY <1>1, <1>3, <1>4, TreeKept
<1> QED
  BY <1>3, <1>4, <1>6, <1>8, <1>9 DEF ForkInv, KernelQuiet, Types

\* wait() with children and no zombie among them: the load of the flags.
LEMMA WaitMarkStep ==
  ASSUME ForkInv, wait_mark
  PROVE  ForkInv'
<1> USE Actors
<1>1. /\ mmGot("WAIT") /\ reapable(caller) = {}
      /\ mm' = [mm EXCEPT !.at = "store", !.src = caller, !.load = p_flags[caller],
                          !.bit = "WAITING", !.then = "receive"]
      /\ UNCHANGED <<ipcVars, lib, torn>> /\ p_parent' = p_parent
  BY DEF wait_mark, or_flags
<1>2. PICK p \in User : p = caller /\ Served(p, "WAIT") /\ reapable(p) = {}
  BY <1>1, MMServes
<1>3. /\ fault = "none" /\ MMReady /\ Types /\ KernelTypes /\ TableTypes
      /\ QueueExact /\ UserInv /\ TreeInv /\ ~Exiting
  BY <1>1, GotStarts, MMStarts DEF Exiting
<1>4. /\ QueueExact' /\ UserInv' /\ KernelTypes' /\ fault' = fault /\ MMReady'
      /\ \A i \in User : SameUser(i) /\ SameBits(i)
  BY <1>1, <1>3, LocalStep
<1>5. p_flags[p] \in {{}, {"RECEIVING"}}
  BY <1>2 DEF Served, Heard, Awaiting
<1>6. /\ TableTypes' /\ mm'.at = "store" /\ mm'.src = p /\ mm'.load = p_flags[p]
      /\ mm'.bit = "WAITING" /\ mm'.then = "receive"
  BY <1>1, <1>2, <1>3, <1>5 DEF TableTypes
<1>7. Marking'
  <2>1. \A i \in Slots : p_parent'[i] = p => ~Hanging(i)'
    BY <1>1, <1>2, <1>4 DEF reapable, Children, SameBits
  <2>2. Served(p, "WAIT")' /\ p_flags'[p] = p_flags[p]
    BY <1>2, <1>4, SamePlace DEF SameUser
  <2> QED
    BY <1>6, <2>1, <2>2 DEF Marking
<1>8. MMInv'
  BY <1>4, <1>6, <1>7 DEF MMInv
<1>9. TreeInv'
  BY <1>1, <1>3, <1>4, TreeKept
<1> QED
  BY <1>3, <1>4, <1>6, <1>8, <1>9 DEF ForkInv, KernelQuiet, Types

\* wait() with a zombie.
LEMMA WaitReapStep ==
  ASSUME ForkInv, wait_reap
  PROVE  ForkInv'
<1> USE Actors
<1>1. /\ mmGot("WAIT") /\ reapable(caller) # {}
      /\ mm' = [mm EXCEPT !.at = "cleanup", !.src = caller, !.who = Min(reapable(caller)),
                          !.then = "receive"]
      /\ UNCHANGED <<ipcVars, lib, torn>> /\ p_parent' = p_parent
  BY DEF wait_reap
<1>2. PICK p \in User : p = caller /\ Served(p, "WAIT")
  BY <1>1, MMServes
<1>3. /\ fault = "none" /\ MMReady /\ Types /\ KernelTypes /\ TableTypes
      /\ QueueExact /\ UserInv /\ TreeInv /\ ~Exiting
  BY <1>1, GotStarts, MMStarts DEF Exiting
<1>4. PICK z \in reapable(p) : z = Min(reapable(caller))
  <2>1. reapable(p) \in SUBSET Nat /\ reapable(p) # {}
    BY <1>1, <1>2 DEF reapable, Children
  <2> QED
    BY <1>2, <2>1, MinFacts
<1>5. z \in Slots /\ p_parent[z] = p /\ Called(z, "EXIT", {"HANGING"})
  BY <1>3, <1>4, ZombiePlace DEF reapable, Children
<1>6. /\ QueueExact' /\ UserInv' /\ KernelTypes' /\ fault' = fault /\ MMReady'
      /\ \A i \in User : SameUser(i) /\ SameBits(i) /\ lib'[i] = lib[i]
  BY <1>1, <1>3, LocalStep
<1>7. /\ TableTypes' /\ mm'.at = "cleanup" /\ mm'.src = p /\ mm'.who = z
      /\ mm'.then = "receive"
  BY <1>1, <1>2, <1>3, <1>4, <1>5 DEF TableTypes
<1>8. CleansUp'
  <2>1. Called(z, "EXIT", {"HANGING"})' /\ lib'[z].call = "EXIT"
    BY <1>5, <1>6, SamePlace DEF Called
  <2> QED
    BY <1>1, <1>5, <1>7, <2>1 DEF CleansUp
<1>9. Called(p, "WAIT", {})'
  BY <1>2, <1>6, SamePlace DEF Served, Called
<1>10. MMInv'
  BY <1>1, <1>5, <1>6, <1>7, <1>8, <1>9 DEF MMInv
<1>11. TreeInv'
  BY <1>1, <1>3, <1>6, TreeKept
<1> QED
  BY <1>3, <1>6, <1>7, <1>10, <1>11 DEF ForkInv, KernelQuiet, Types

----------------------------------------------------------------------------
(* The bits of task_mm *)

\* A store of task_mm to the flags of one process that is not blocked sending:
\* the lists and the places of all others stay as they are.
LEMMA StoreFacts ==
  ASSUME KernelTypes, QueueExact, UserInv, MMReady, NEW q \in User, NEW w \in SUBSET Flag,
         "SENDING" \notin p_flags[q], "SENDING" \notin w, p_flags' = [p_flags EXCEPT ![q] = w],
         UNCHANGED <<p_msg, p_recvfrom, p_sendto, has_int_msg, q_sending, msg, lib>>,
         torn => torn'
  PROVE  /\ KernelTypes' /\ QueueExact' /\ MMReady'
         /\ p_flags'[q] = w /\ \A i \in User \ {q} : SameUser(i) /\ p_flags'[i] = p_flags[i]
         /\ (UserPlace(q)' => UserInv')
<1> USE Actors
<1>1. p_flags'[q] = w /\ \A i \in Proc \ {q} : p_flags'[i] = p_flags[i]
  BY DEF KernelTypes
<1>2. KernelTypes'
  <2>1. p_flags' \in [Proc -> SUBSET Flag]
    BY DEF KernelTypes
  <2> QED
    BY <2>1 DEF KernelTypes, Buffers
<1>3. QueueExact'
  <2>1. \A r \in Proc : "SENDING" \in p_flags'[r] <=> "SENDING" \in p_flags[r]
    BY <1>1
  <2> QED
    BY <2>1 DEF QueueExact, Sending
<1>4. MMReady'
  BY <1>1 DEF MMReady, quiet
<1>5. \A i \in User \ {q} : SameUser(i) /\ p_flags'[i] = p_flags[i]
  BY <1>1 DEF SameUser
<1>6. UserPlace(q)' => UserInv'
  <2>1. lib'[q].call = "EXIT" => q \in Slots
    BY DEF UserInv
  <2> QED
    BY <1>5, <2>1, UsersKept
<1> QED
  BY <1>1, <1>2, <1>3, <1>4, <1>5, <1>6

\* The bits x of a caller replaced by y where the kernel's bit is left alone.
LEMMA CalledMarked ==
  ASSUME NEW i \in User, NEW c, NEW x \in SUBSET {"WAITING", "HANGING"},
         NEW y \in SUBSET {"WAITING", "HANGING"}, Called(i, c, x),
         p_flags'[i] = (p_flags[i] \ x) \cup y, lib' = lib, torn => torn',
         UNCHANGED <<p_msg, p_recvfrom, p_sendto>>
  PROVE  Called(i, c, y)'
<1>1. Heard(i, x) => Heard(i, y)'
  BY DEF Heard, quiet
<1>2. Awaiting(i, x) => Awaiting(i, y)'
  <2>1. p_flags[i] = {"RECEIVING"} \cup x => p_flags'[i] = {"RECEIVING"} \cup y
    BY SMT
  <2> QED
    BY <2>1 DEF Awaiting, Blocked
<1>3. Lost(i, x) => Lost(i, y)'
  BY DEF Lost, Blocked
<1> QED
  BY <1>1, <1>2, <1>3 DEF Called

\* exit() with a parent that is waiting.
LEMMA ExitWaitedStep ==
  ASSUME ForkInv, exit_waited
  PROVE  ForkInv'
<1> USE Actors
<1>1. /\ mmGot("EXIT") /\ Waiting(p_parent[caller])
      /\ p_flags' = [p_flags EXCEPT ![p_parent[caller]] = @ \ {"WAITING"}]
      /\ mm' = [mm EXCEPT !.at = "cleanup", !.src = caller, !.who = caller, !.then = "orphans"]
      /\ UNCHANGED <<p_msg, p_recvfrom, p_sendto, has_int_msg, q_sending, msg, lib>>
      /\ torn' = torn /\ fault' = fault /\ p_parent' = p_parent
  BY DEF exit_waited, unmark
<1>2. PICK p \in Slots : p = caller /\ Served(p, "EXIT")
  BY <1>1, MMServes
<1>3. /\ fault = "none" /\ MMReady /\ Types /\ KernelTypes /\ TableTypes
      /\ QueueExact /\ UserInv /\ TreeInv /\ ~Exiting
  BY <1>1, GotStarts, MMStarts DEF Exiting
<1>4. PICK q \in User : q = p_parent[p] /\ Waiting(q)
  <2>1. ~Free(p)
    BY <1>2 DEF Served, Heard, Awaiting, Free
  <2> QED
    BY <1>1, <1>2, <1>3, <2>1 DEF TreeInv
<1>5. Called(q, "WAIT", {"WAITING"}) /\ q # p
  BY <1>2, <1>3, <1>4, WaiterPlace DEF Called, Served
<1>6. PICK w \in SUBSET Flag : w = p_flags[q] \ {"WAITING"}
  BY <1>3 DEF KernelTypes
<1>7. p_flags' = [p_flags EXCEPT ![q] = w] /\ "SENDING" \notin p_flags[q] /\ "SENDING" \notin w
  <2>1. "SENDING" \notin p_flags[q]
    BY <1>5 DEF Called, Heard, Awaiting, Lost
  <2> QED
    BY <1>1, <1>2, <1>4, <1>6, <2>1
<1>8. /\ KernelTypes' /\ QueueExact' /\ MMReady' /\ p_flags'[q] = w
      /\ \A i \in User \ {q} : SameUser(i) /\ p_flags'[i] = p_flags[i]
      /\ (UserPlace(q)' => UserInv')
  BY <1>1, <1>3, <1>7, StoreFacts
<1>9. Called(q, "WAIT", {})'
  BY <1>1, <1>5, <1>6, <1>8, CalledMarked
<1>10. UserInv'
  BY <1>8, <1>9 DEF UserPlace
<1>11. Served(p, "EXIT")' /\ lib'[p].call = "EXIT"
  BY <1>1, <1>2, <1>5, <1>8, SamePlace DEF Served
<1>12. /\ TableTypes' /\ mm'.at = "cleanup" /\ mm'.src = p /\ mm'.who = p
       /\ mm'.then = "orphans"
  BY <1>1, <1>2, <1>3 DEF TableTypes
<1>13. MMInv'
  BY <1>1, <1>4, <1>8, <1>9, <1>11, <1>12 DEF MMInv, CleansUp
<1>14. TreeInv'
  <2>1. ~Free(q) /\ ~Hanging(q) /\ ~Free(q)' /\ ~Hanging(q)'
    BY <1>5, <1>9 DEF Called, Heard, Awaiting, Lost, Free, Hanging
  <2>2. \A i \in User : (Free(i)' <=> Free(i)) /\ (Hanging(i)' <=> Hanging(i))
    BY <1>8, <2>1 DEF Free, Hanging
  <2>3. \A i \in User : Waiting(i)' => Waiting(i)
    BY <1>6, <1>8 DEF Waiting
  <2>4. \A i \in User : Alive(i) => Alive(i)'
    BY <2>2 DEF Alive
  <2> QED
    BY <1>1, <1>3, <2>2, <2>3, <2>4 DEF TreeInv, Hanging, Free
<1> QED
  BY <1>1, <1>3, <1>8, <1>10, <1>12, <1>13, <1>14 DEF ForkInv, KernelQuiet, Types

\* The store of `p_flags |= bit'.
LEMMA OrStoreStep ==
  ASSUME ForkInv, or_store
  PROVE  ForkInv'
<1> USE Actors
<1>1. /\ mmAt("store") /\ p_flags' = [p_flags EXCEPT ![mm.src] = mm.load \cup {mm.bit}]
      /\ torn' = (torn \/ p_flags[mm.src] # mm.load)
      /\ mm' = [goOn(mm.then) EXCEPT !.load = {}, !.bit = "none", !.then = "none"]
      /\ UNCHANGED <<p_msg, p_recvfrom, p_sendto, has_int_msg, q_sending, msg, lib>>
      /\ fault' = fault /\ p_parent' = p_parent
  BY DEF or_store, with_bit
<1>2. /\ fault = "none" /\ mm.at = "store" /\ MMReady /\ Types /\ KernelTypes /\ TableTypes
      /\ QueueExact /\ UserInv /\ TreeInv /\ MMInv /\ ~Exiting
  BY <1>1, MMStarts DEF Exiting
<1>3. Marking
  BY <1>2 DEF MMInv
<1>4. torn' \in BOOLEAN /\ (torn => torn')
  BY <1>1, <1>2 DEF TableTypes
<1>5. PICK q \in User, b \in {"WAITING", "HANGING"}, l \in {{}, {"RECEIVING"}}, c \in {"WAIT", "EXIT"} :
        /\ q = mm.src /\ b = mm.bit /\ l = mm.load /\ Served(q, c)
        /\ p_flags[q] \in {l, {"RECEIVING"}}
        /\ \/ /\ c = "WAIT" /\ b = "WAITING" /\ mm.then = "receive"
              /\ \A i \in Slots : p_parent[i] = q => ~Hanging(i)
           \/ /\ c = "EXIT" /\ b = "HANGING" /\ mm.then = "orphans"
              /\ ~Waiting(p_parent[q])
  BY <1>2, <1>3 DEF Marking, TableTypes
<1>6. PICK w \in SUBSET Flag : w = l \cup {b}
  BY DEF Flag
<1>7. /\ p_flags' = [p_flags EXCEPT ![q] = w] /\ "SENDING" \notin p_flags[q]
      /\ "SENDING" \notin w
  BY <1>1, <1>5, <1>6
<1>8. /\ KernelTypes' /\ QueueExact' /\ MMReady' /\ p_flags'[q] = w
      /\ \A i \in User \ {q} : SameUser(i) /\ p_flags'[i] = p_flags[i]
      /\ (UserPlace(q)' => UserInv')
  BY <1>1, <1>2, <1>4, <1>7, StoreFacts
<1>9. Called(q, c, {b})'
  <2>1. CASE Heard(q, {})
    <3>1. p_flags'[q] = {b}
      BY <1>5, <1>6, <1>8, <2>1 DEF Heard
    <3> QED
      BY <1>1, <1>5, <2>1, <3>1 DEF Heard, quiet, Called, Served
  <2>2. CASE Awaiting(q, {}) /\ l = {"RECEIVING"}
    <3>1. p_flags'[q] = {"RECEIVING"} \cup {b}
      BY <1>6, <1>8, <2>2
    <3> QED
      BY <1>1, <1>5, <2>2, <3>1 DEF Awaiting, Blocked, Called, Served
  <2>3. CASE Awaiting(q, {}) /\ l = {}
    <3>1. p_flags'[q] = {b} /\ torn'
      BY <1>1, <1>5, <1>6, <1>8, <2>3 DEF Awaiting
    <3> QED
      BY <1>1, <1>5, <2>3, <3>1 DEF Awaiting, Lost, Blocked, Called, Served
  <2> QED
    BY <1>5, <2>1, <2>2, <2>3 DEF Served
<1>10. UserInv'
  BY <1>5, <1>8, <1>9 DEF UserPlace
<1>11. /\ ~Free(q)' /\ (Hanging(q)' <=> b = "HANGING") /\ (Waiting(q)' <=> b = "WAITING")
       /\ ~Free(q) /\ ~Hanging(q) /\ ~Waiting(q)
       /\ \A i \in User \ {q} : SameBits(i)
  <2>1. /\ p_flags'[q] \in {{b}, {"RECEIVING", b}} /\ p_flags[q] \in {{}, {"RECEIVING"}}
    BY <1>5, <1>6, <1>8
  <2>2. \A i \in User \ {q} : SameBits(i)
    BY <1>8 DEF SameBits, Free, Hanging, Waiting
  <2> QED
    BY <2>1, <2>2 DEF Free, Hanging, Waiting
<1>12. CASE c = "WAIT" /\ b = "WAITING" /\ mm.then = "receive"
  <2>1. mm' = mmFrame
    BY <1>1, <1>12 DEF goOn, mmFrame
  <2>2. TableTypes'
    BY <1>1, <1>2, <1>4, <2>1 DEF TableTypes, mmFrame
  <2>3. MMInv'
    BY <1>8, <2>1 DEF MMInv, mmFrame
  <2>4. TreeInv'
    <3>1. \A i \in User : (Free(i)' <=> Free(i)) /\ (Hanging(i)' <=> Hanging(i))
      BY <1>11, <1>12 DEF SameBits
    <3>2. \A i \in User : Alive(i)' <=> Alive(i)
      BY <3>1 DEF Alive
    <3>3. \A i \in Slots : ~Free(i)' => p_parent'[i] \in User /\ Alive(p_parent[i])'
      BY <1>1, <1>2, <3>1, <3>2 DEF TreeInv
    <3>4. ASSUME NEW i \in Slots, Hanging(i)' PROVE ~Waiting(p_parent[i])'
      <4>1. Hanging(i) /\ ~Free(i)'
        BY <3>1, <3>4 DEF Hanging, Free
      <4>2. p_parent[i] \in User \ {q} /\ ~Waiting(p_parent[i])
        BY <1>1, <1>2, <1>5, <1>12, <3>3, <4>1 DEF TreeInv
      <4> QED
        BY <1>1, <1>11, <4>2 DEF SameBits
    <3>5. p_parent'[INIT_PROC] = NO_TASK
      BY <1>1, <1>2 DEF TreeInv
    <3> QED
      BY <3>3, <3>4, <3>5 DEF TreeInv
  <2> QED
    BY <1>1, <1>2, <1>8, <1>10, <2>2, <2>3, <2>4 DEF ForkInv, KernelQuiet, Types
<1>13. CASE /\ c = "EXIT" /\ b = "HANGING" /\ mm.then = "orphans" /\ ~Waiting(p_parent[q])
  <2>1. mm' = [mm EXCEPT !.at = "orphans", !.load = {}, !.bit = "none", !.then = "none"]
    BY <1>1, <1>2, <1>13, MMTyped DEF goOn, TableTypes
  <2>2. TableTypes' /\ mm'.at = "orphans" /\ mm'.src = q
    BY <1>1, <1>2, <1>4, <1>5, <2>1 DEF TableTypes
  <2>3. q \in Slots /\ p_parent[q] \in User
    <3>1. q \in Slots
      BY <1>2, <1>5, <1>13 DEF UserInv, Served
    <3> QED
      BY <1>2, <1>11, <3>1 DEF TreeInv
  <2>4. MMInv'
    BY <1>8, <1>11, <1>13, <2>2, <2>3 DEF MMInv, Alive
  <2>5. TreeInv'
    <3>1. \A i \in User : (Free(i)' <=> Free(i)) /\ (Waiting(i)' <=> Waiting(i))
      BY <1>11, <1>13 DEF SameBits
    <3>2. \A i \in User \ {q} : Alive(i)' <=> Alive(i)
      BY <1>11 DEF SameBits, Alive
    <3>3. \A i \in Slots : ~Free(i)' =>
            p_parent'[i] \in User /\ (Alive(p_parent[i])' \/ p_parent'[i] = mm'.src)
      BY <1>1, <1>2, <2>2, <3>1, <3>2 DEF TreeInv
    <3>4. ASSUME NEW i \in Slots, Hanging(i)' PROVE ~Waiting(p_parent[i])'
      <4>1. p_parent[i] \in User /\ ~Waiting(p_parent[i])
        <5>1. CASE i = q
          BY <1>13, <2>3, <5>1
        <5>2. CASE i # q
          <6>1. Hanging(i) /\ ~Free(i)
            BY <1>11, <3>4, <5>2 DEF SameBits, Hanging, Free
          <6> QED
            BY <1>2, <6>1 DEF TreeInv
        <5> QED
          BY <5>1, <5>2
      <4> QED
        BY <1>1, <3>1, <4>1
    <3>5. p_parent'[INIT_PROC] = NO_TASK
      BY <1>1, <1>2 DEF TreeInv
    <3>6. Exiting'
      BY <2>2 DEF Exiting
    <3> QED
      BY <2>2, <3>3, <3>4, <3>5, <3>6 DEF TreeInv
  <2> QED
    BY <1>1, <1>2, <1>8, <1>10, <2>2, <2>4, <2>5 DEF ForkInv, KernelQuiet, Types
<1> QED
  BY <1>5, <1>12, <1>13

\* cleanup frees the slot.
LEMMA CleanupFreeStep ==
  ASSUME ForkInv, cleanup_free
  PROVE  ForkInv'
<1> USE Actors
<1>1. /\ mmAt("free") /\ p_flags' = [p_flags EXCEPT ![mm.who] = {"FREE_SLOT"}]
      /\ mm' = [goOn(mm.then) EXCEPT !.who = NO_TASK, !.then = "none"]
      /\ UNCHANGED <<p_msg, p_recvfrom, p_sendto, has_int_msg, q_sending, msg, lib>>
      /\ fault' = fault /\ p_parent' = p_parent /\ torn' = torn
  BY DEF cleanup_free
<1>2. /\ fault = "none" /\ mm.at = "free" /\ MMReady /\ Types /\ KernelTypes /\ TableTypes
      /\ QueueExact /\ UserInv /\ TreeInv /\ MMInv
  BY <1>1, MMStarts
<1>3. CleansUp
  BY <1>2 DEF MMInv
<1>4. PICK z \in Slots : z = mm.who
  BY <1>3 DEF CleansUp
<1>5. PICK w \in SUBSET Flag : w = {"FREE_SLOT"}
  BY DEF Flag
<1>6. /\ p_flags' = [p_flags EXCEPT ![z] = w] /\ "SENDING" \notin p_flags[z]
      /\ "SENDING" \notin w
  <2>1. "SENDING" \notin p_flags[z]
    BY <1>3, <1>4 DEF CleansUp, Served, Called, Heard, Awaiting, Lost
  <2> QED
    BY <1>1, <1>4, <1>5, <2>1
<1>7. /\ KernelTypes' /\ QueueExact' /\ MMReady' /\ p_flags'[z] = w
      /\ \A i \in User \ {z} : SameUser(i) /\ p_flags'[i] = p_flags[i]
      /\ (UserPlace(z)' => UserInv')
  BY <1>1, <1>2, <1>6, StoreFacts
<1>8. UserInv' /\ Free(z)' /\ ~Hanging(z)' /\ ~Waiting(z)'
  <2>1. Free(z)'
    BY <1>5, <1>7 DEF Free
  <2> QED
    BY <1>7, <2>1 DEF UserPlace, Free, Hanging, Waiting
<1>9. \A i \in User \ {z} : SameBits(i) /\ (Alive(i)' <=> Alive(i))
  BY <1>7 DEF SameBits, Alive, Free, Hanging, Waiting
<1>10. /\ p_parent'[INIT_PROC] = NO_TASK
       /\ \A i \in Slots : Hanging(i)' => ~Waiting(p_parent[i])'
  <2> SUFFICES ASSUME NEW i \in Slots, Hanging(i)' PROVE ~Waiting(p_parent[i])'
    BY <1>1, <1>2 DEF TreeInv
  <2>1. Hanging(i) /\ ~Free(i)
    BY <1>8, <1>9 DEF SameBits, Hanging, Free
  <2>2. p_parent[i] \in User /\ ~Waiting(p_parent[i])
    BY <1>2, <2>1 DEF TreeInv
  <2> QED
    BY <1>1, <1>8, <1>9, <2>2 DEF SameBits
<1>11. ASSUME NEW i \in Slots, ~Free(i)'
       PROVE  /\ p_parent'[i] \in User
              /\ Alive(p_parent[i])' \/ p_parent[i] = z \/ (Exiting /\ p_parent[i] = mm.src)
  <2>1. ~Free(i)
    BY <1>8, <1>9, <1>11 DEF SameBits
  <2> QED
    BY <1>1, <1>2, <1>9, <2>1 DEF TreeInv
<1>12. CASE mm.then = "orphans" /\ mm.src = mm.who
  <2>1. mm' = [mm EXCEPT !.at = "orphans", !.who = NO_TASK, !.then = "none"]
    BY <1>1, <1>12 DEF goOn
  <2>2. TableTypes' /\ mm'.at = "orphans" /\ mm'.src = z
    BY <1>1, <1>2, <1>4, <1>12, <2>1 DEF TableTypes
  <2>3. MMInv'
    BY <1>7, <1>8, <2>2 DEF MMInv, Alive
  <2>4. TreeInv'
    BY <1>1, <1>4, <1>10, <1>11, <1>12, <2>2 DEF TreeInv, Exiting
  <2> QED
    BY <1>1, <1>2, <1>7, <1>8, <2>2, <2>3, <2>4 DEF ForkInv, KernelQuiet, Types
<1>13. ASSUME mm.then \in {"receive", "assert"}, Called(mm.who, "EXIT", {"HANGING"}),
              NEW i \in Slots, ~Free(i)'
       PROVE  Alive(p_parent[i])' \/ (mm.then = "assert" /\ p_parent[i] = mm.src)
  <2>1. ~Alive(z)
    BY <1>4, <1>13 DEF Called, Heard, Awaiting, Lost, Alive, Hanging
  <2>2. ~Free(i)
    BY <1>8, <1>9, <1>13 DEF SameBits
  <2>3. p_parent[i] \in User /\ (Alive(p_parent[i]) \/ (Exiting /\ p_parent[i] = mm.src))
    BY <1>2, <2>2 DEF TreeInv
  <2>4. Exiting => mm.then = "assert"
    BY <1>2, <1>13 DEF Exiting
  <2>5. CASE Alive(p_parent[i])
    <3>1. p_parent[i] \in User \ {z}
      BY <2>1, <2>3, <2>5
    <3> QED
      BY <1>1, <1>9, <2>5, <3>1
  <2> QED
    BY <2>3, <2>4, <2>5
<1>14. CASE mm.then = "receive" /\ Called(mm.who, "EXIT", {"HANGING"})
  <2>1. mm' = mmFrame
    BY <1>1, <1>14 DEF goOn, mmFrame
  <2>2. TableTypes'
    BY <1>1, <1>2, <2>1 DEF TableTypes, mmFrame
  <2>3. MMInv'
    BY <1>7, <2>1 DEF MMInv, mmFrame
  <2>4. \A i \in Slots : ~Free(i)' => Alive(p_parent[i])'
    BY <1>13, <1>14
  <2>5. TreeInv'
    BY <1>1, <1>10, <1>11, <2>4 DEF TreeInv
  <2> QED
    BY <1>1, <1>2, <1>7, <1>8, <2>2, <2>5, <2>3 DEF ForkInv, KernelQuiet, Types
<1>15. CASE mm.then = "assert" /\ Called(mm.who, "EXIT", {"HANGING"})
  <2>1. mm' = [mm EXCEPT !.at = "assert", !.who = NO_TASK, !.then = "none"]
    BY <1>1, <1>15 DEF goOn
  <2>2. TableTypes' /\ mm'.at = "assert" /\ mm'.src = mm.src
    BY <1>1, <1>2, <2>1 DEF TableTypes
  <2>3. MMInv'
    BY <1>7, <2>2 DEF MMInv
  <2>4. \A i \in Slots : ~Free(i)' => Alive(p_parent[i])' \/ p_parent'[i] = mm'.src
    BY <1>1, <1>13, <1>15, <2>2
  <2>5. TreeInv'
    BY <1>1, <1>10, <1>11, <2>2, <2>4 DEF TreeInv, Exiting
  <2> QED
    BY <1>1, <1>2, <1>7, <1>8, <2>2, <2>3, <2>5 DEF ForkInv, KernelQuiet, Types
<1> QED
  BY <1>3, <1>12, <1>14, <1>15 DEF CleansUp

----------------------------------------------------------------------------
(* The orphans *)

\* The children of the process that exits get INIT_PROC as parent.
LEMMA OrphansDoneStep ==
  ASSUME ForkInv, orphans_done
  PROVE  ForkInv'
<1> USE Actors
<1> DEFINE C == Children(mm.src)
<1>1. /\ mmAt("orphans") /\ ~(Waiting(INIT_PROC) /\ \E i \in C : Hanging(i))
      /\ p_parent' = [i \in User |-> IF i \in C THEN INIT_PROC ELSE p_parent[i]]
      /\ mm' = mmFrame /\ UNCHANGED <<ipcVars, lib, torn>>
  BY DEF orphans_done, adopt, goOn
<1>2. /\ fault = "none" /\ MMReady /\ Types /\ KernelTypes /\ TableTypes /\ mm.at = "orphans"
      /\ QueueExact /\ UserInv /\ TreeInv /\ MMInv
  BY <1>1, MMStarts
<1>3. /\ QueueExact' /\ UserInv' /\ KernelTypes' /\ fault' = fault /\ MMReady'
      /\ \A i \in User : SameUser(i) /\ SameBits(i)
  BY <1>1, <1>2, LocalStep
<1>4. Alive(INIT_PROC)' /\ mm.src \in Slots
  BY <1>2, <1>3, InitAlive DEF MMInv, Alive, SameBits
<1>5. TableTypes'
  <2>1. p_parent' \in [User -> User \cup {NO_TASK}]
    BY <1>1, <1>2 DEF TableTypes
  <2> QED
    BY <1>1, <1>2, <2>1 DEF TableTypes, mmFrame
<1>6. MMInv'
  BY <1>1, <1>3 DEF MMInv, mmFrame
<1>7. \A i \in User : p_parent'[i] = IF p_parent[i] = mm.src THEN INIT_PROC ELSE p_parent[i]
  BY <1>1 DEF Children
<1> HIDE DEF C
<1>8. p_parent'[INIT_PROC] = NO_TASK
  BY <1>2, <1>4, <1>7 DEF TreeInv
<1>9. ASSUME NEW i \in Slots, ~Free(i)' PROVE p_parent'[i] \in User /\ Alive(p_parent[i])'
  <2>1. CASE p_parent[i] = mm.src
    BY <1>4, <1>7, <2>1
  <2>2. CASE p_parent[i] # mm.src
    <3>1. p_parent[i] \in User /\ Alive(p_parent[i])
      BY <1>2, <1>3, <1>9, <2>2 DEF TreeInv, SameBits
    <3> QED
      BY <1>3, <1>7, <2>2, <3>1 DEF Alive, SameBits
  <2> QED
    BY <2>1, <2>2
<1>10. ASSUME NEW i \in Slots, Hanging(i)' PROVE ~Waiting(p_parent[i])'
  <2>1. Hanging(i) /\ ~Free(i)
    BY <1>3, <1>10 DEF SameBits, Hanging, Free
  <2>2. CASE p_parent[i] = mm.src
    <3>1. ~Waiting(INIT_PROC)
      BY <1>1, <2>1, <2>2 DEF C, Children
    <3> QED
      BY <1>3, <1>7, <2>2, <3>1 DEF SameBits
  <2>3. CASE p_parent[i] # mm.src
    <3>1. p_parent[i] \in User /\ ~Waiting(p_parent[i])
      BY <1>2, <2>1 DEF TreeInv
    <3> QED
      BY <1>3, <1>7, <2>3, <3>1 DEF SameBits
  <2> QED
    BY <2>2, <2>3
<1>11. TreeInv'
  BY <1>8, <1>9, <1>10 DEF TreeInv
<1> QED
  BY <1>2, <1>3, <1>5, <1>6, <1>11 DEF ForkInv, KernelQuiet, Types

\* A zombie among them, while INIT_PROC waits.
LEMMA OrphanHangingStep ==
  ASSUME ForkInv, orphan_hanging
  PROVE  ForkInv'
<1> USE Actors
<1> DEFINE H == {k \in Children(mm.src) : Hanging(k)}
           P == {k \in Children(mm.src) : k <= Min(H)}
<1>1. /\ mmAt("orphans") /\ Waiting(INIT_PROC) /\ H # {}
      /\ p_parent' = adopt(P)
      /\ p_flags' = [p_flags EXCEPT ![INIT_PROC] = @ \ {"WAITING"}]
      /\ mm' = [mm EXCEPT !.at = "cleanup", !.who = Min(H), !.then = "assert"]
      /\ UNCHANGED <<p_msg, p_recvfrom, p_sendto, has_int_msg, q_sending, msg, lib>>
      /\ torn' = torn /\ fault' = fault
  BY DEF orphan_hanging, unmark
<1>2. /\ fault = "none" /\ MMReady /\ Types /\ KernelTypes /\ TableTypes /\ mm.at = "orphans"
      /\ QueueExact /\ UserInv /\ TreeInv /\ MMInv
  BY <1>1, MMStarts
<1>3. Min(H) \in H
  <2>1. H \in SUBSET Nat
    BY DEF Children
  <2> HIDE DEF H
  <2> QED
    BY <1>1, <2>1, MinFacts
<1>4. PICK z \in User : z = Min(H) /\ p_parent[z] = mm.src /\ Hanging(z)
  BY <1>3 DEF Children
<1>5. z \in Slots /\ Called(z, "EXIT", {"HANGING"})
  BY <1>2, <1>4, ZombiePlace
<1>6. /\ z \in P /\ P \subseteq User /\ \A k \in P : p_parent[k] = mm.src
  <2>1. z \in Nat /\ z <= Min(H)
    <3> HIDE DEF H
    <3> QED
      BY <1>4
  <2> HIDE DEF H
  <2> QED
    BY <1>4, <2>1 DEF Children
<1>7. mm' = [mm EXCEPT !.at = "cleanup", !.who = z, !.then = "assert"]
  BY <1>1, <1>4
<1> HIDE DEF H, P
<1>8. /\ \A i \in User : p_parent'[i] = IF i \in P THEN INIT_PROC ELSE p_parent[i]
      /\ p_parent' \in [User -> User \cup {NO_TASK}]
  BY <1>1, <1>2 DEF adopt, TableTypes
<1>9. Called(INIT_PROC, "WAIT", {"WAITING"}) /\ Alive(INIT_PROC) /\ mm.src \in Slots
  BY <1>1, <1>2, WaiterPlace, InitAlive DEF MMInv
<1>10. PICK w \in SUBSET Flag : w = p_flags[INIT_PROC] \ {"WAITING"}
  BY <1>2 DEF KernelTypes
<1>11. /\ p_flags' = [p_flags EXCEPT ![INIT_PROC] = w]
       /\ "SENDING" \notin p_flags[INIT_PROC] /\ "SENDING" \notin w
  <2>1. "SENDING" \notin p_flags[INIT_PROC]
    BY <1>9 DEF Called, Heard, Awaiting, Lost
  <2> QED
    BY <1>1, <1>10, <2>1
<1>12. /\ KernelTypes' /\ QueueExact' /\ MMReady' /\ p_flags'[INIT_PROC] = w
       /\ \A i \in User \ {INIT_PROC} : SameUser(i) /\ p_flags'[i] = p_flags[i]
       /\ (UserPlace(INIT_PROC)' => UserInv')
  BY <1>1, <1>2, <1>11, StoreFacts
<1>13. Called(INIT_PROC, "WAIT", {})'
  BY <1>1, <1>9, <1>10, <1>12, CalledMarked
<1>14. UserInv'
  BY <1>12, <1>13 DEF UserPlace
<1>15. TableTypes' /\ mm'.at = "cleanup" /\ mm'.who = z /\ mm'.then = "assert" /\ mm'.src = mm.src
  BY <1>1, <1>2, <1>5, <1>7, <1>8 DEF TableTypes
<1>16. Called(z, "EXIT", {"HANGING"})' /\ lib'[z].call = "EXIT" /\ p_parent'[z] = INIT_PROC
  BY <1>1, <1>5, <1>6, <1>8, <1>12, SamePlace DEF Called
<1>17. MMInv'
  BY <1>5, <1>12, <1>13, <1>15, <1>16 DEF MMInv, CleansUp
<1>18. TreeInv'
  <2>1. ~Free(INIT_PROC)' /\ ~Hanging(INIT_PROC)' /\ ~Waiting(INIT_PROC)'
    BY <1>13 DEF Called, Heard, Awaiting, Lost, Free, Hanging, Waiting
  <2>2. Alive(INIT_PROC)'
    BY <2>1 DEF Alive
  <2>3. \A i \in User \ {INIT_PROC} : SameBits(i) /\ (Alive(i) <=> Alive(i)')
    BY <1>12 DEF SameBits, Alive, Free, Hanging, Waiting
  <2>4. p_parent'[INIT_PROC] = NO_TASK
    BY <1>2, <1>6, <1>8, <1>9 DEF TreeInv
  <2>5. ASSUME NEW i \in Slots, ~Free(i)'
        PROVE  p_parent'[i] \in User /\ (Alive(p_parent[i])' \/ p_parent'[i] = mm'.src)
    <3>1. p_parent[i] \in User /\ (Alive(p_parent[i]) \/ p_parent[i] = mm.src)
      BY <1>2, <2>3, <2>5 DEF TreeInv, SameBits
    <3>2. CASE i \in P
      BY <1>8, <2>2, <3>2
    <3>3. CASE i \notin P
      BY <1>8, <1>15, <2>2, <2>3, <3>1, <3>3
    <3> QED
      BY <3>2, <3>3
  <2>6. ASSUME NEW i \in Slots, Hanging(i)' PROVE ~Waiting(p_parent[i])'
    <3>1. p_parent[i] \in User /\ ~Waiting(p_parent[i])
      BY <1>2, <2>3, <2>6 DEF TreeInv, SameBits, Hanging, Free
    <3>2. CASE p_parent'[i] = INIT_PROC
      BY <2>1, <3>2
    <3>3. CASE p_parent'[i] # INIT_PROC
      BY <1>8, <2>3, <3>1, <3>3 DEF SameBits
    <3> QED
      BY <3>2, <3>3
  <2>7. Exiting'
    BY <1>15 DEF Exiting
  <2> QED
    BY <2>4, <2>5, <2>6, <2>7 DEF TreeInv
<1> QED
  BY <1>1, <1>2, <1>12, <1>14, <1>15, <1>17, <1>18 DEF ForkInv, KernelQuiet, Types

\* assert(0), after which nothing runs.
LEMMA OrphanAssertStep ==
  ASSUME ForkInv, orphan_assert
  PROVE  ForkInv'
<1>1. /\ fault' = "mm_assert" /\ Types
      /\ UNCHANGED <<p_flags, p_msg, p_recvfrom, p_sendto, has_int_msg, q_sending, msg,
                     p_parent, lib, mm, torn>>
  BY DEF orphan_assert, ForkInv
<1>2. Types'
  BY <1>1 DEF Types, KernelTypes, TableTypes, Buffers
<1> QED
  BY <1>1, <1>2 DEF ForkInv, KernelQuiet

----------------------------------------------------------------------------
(* fork() *)

\* The copy of the parent in the first free slot.
LEMMA ForkCopyStep ==
  ASSUME ForkInv, fork_copy
  PROVE  ForkInv'
<1> USE Actors
<1> DEFINE F == {i \in Slots : Free(i)}
<1>1. /\ mmGot("FORK") /\ F # {} /\ parent_waits(caller)
      /\ p_flags' = [p_flags EXCEPT ![Min(F)] = p_flags[caller]]
      /\ p_msg' = [p_msg EXCEPT ![Min(F)] = p_msg[caller]]
      /\ p_recvfrom' = [p_recvfrom EXCEPT ![Min(F)] = p_recvfrom[caller]]
      /\ p_sendto' = [p_sendto EXCEPT ![Min(F)] = p_sendto[caller]]
      /\ has_int_msg' = [has_int_msg EXCEPT ![Min(F)] = has_int_msg[caller]]
      /\ q_sending' = [q_sending EXCEPT ![Min(F)] = q_sending[caller]]
      /\ msg' = [msg EXCEPT ![Min(F)] = msg[caller]]
      /\ p_parent' = [p_parent EXCEPT ![Min(F)] = caller]
      /\ lib' = [lib EXCEPT ![Min(F)] = lib[caller]]
      /\ mm' = [mm EXCEPT !.at = "birth", !.src = caller, !.who = Min(F)]
      /\ fault' = fault /\ torn' = torn
  BY DEF fork_copy
<1>2. PICK c \in Slots : c = Min(F) /\ Free(c)
  <2>1. F \in SUBSET Nat /\ F # {}
    BY <1>1
  <2>2. Min(F) \in F
    BY <2>1, MinFacts
  <2> QED
    BY <2>2
<1> HIDE DEF F
<1>3. PICK p \in User : p = caller /\ Served(p, "FORK") /\ parent_waits(p)
  BY <1>1, MMServes
<1>4. /\ fault = "none" /\ MMReady /\ Types /\ KernelTypes /\ TableTypes
      /\ QueueExact /\ UserInv /\ TreeInv /\ ~Exiting
  BY <1>1, GotStarts, MMStarts DEF Exiting
<1>5. /\ p # c /\ lib[p].call = "FORK" /\ Awaiting(p, {}) /\ p_flags[p] = {"RECEIVING"}
  BY <1>2, <1>3 DEF Served, Heard, Awaiting, parent_waits, Free
<1>6. /\ p_flags' = [p_flags EXCEPT ![c] = p_flags[p]]
      /\ p_msg' = [p_msg EXCEPT ![c] = p_msg[p]]
      /\ p_recvfrom' = [p_recvfrom EXCEPT ![c] = p_recvfrom[p]]
      /\ p_sendto' = [p_sendto EXCEPT ![c] = p_sendto[p]]
      /\ has_int_msg' = [has_int_msg EXCEPT ![c] = has_int_msg[p]]
      /\ q_sending' = [q_sending EXCEPT ![c] = q_sending[p]]
      /\ msg' = [msg EXCEPT ![c] = msg[p]]
      /\ p_parent' = [p_parent EXCEPT ![c] = p]
      /\ lib' = [lib EXCEPT ![c] = lib[p]]
      /\ mm' = [mm EXCEPT !.at = "birth", !.src = p, !.who = c]
  BY <1>1, <1>2, <1>3
<1>7. KernelTypes'
  <2>1. p_flags' \in [Proc -> SUBSET Flag] /\ p_msg' \in [Proc -> {0, 1}]
    BY <1>4, <1>6 DEF KernelTypes
  <2>2. /\ p_recvfrom' \in [Proc -> Proc \cup {ANY, NO_TASK}]
        /\ p_sendto' \in [Proc -> Proc \cup {NO_TASK}]
    BY <1>4, <1>6 DEF KernelTypes
  <2>3. has_int_msg' \in [Proc -> {0}] /\ q_sending' \in [Proc -> Seq(Proc)]
    BY <1>4, <1>6 DEF KernelTypes
  <2>4. Buffers'
    BY <1>4, <1>6 DEF KernelTypes, Buffers
  <2> QED
    BY <2>1, <2>2, <2>3, <2>4 DEF KernelTypes
<1>8. TableTypes' /\ mm'.at = "birth" /\ mm'.src = p /\ mm'.who = c
  <2>1. p_parent' \in [User -> User \cup {NO_TASK}]
    BY <1>4, <1>6 DEF TableTypes
  <2>2. lib' \in [User -> [call : {"none", "FORK", "WAIT", "EXIT"}, at : {"sent", "received"}]]
    BY <1>4, <1>6 DEF TableTypes
  <2>3. mm'.at = "birth" /\ mm'.src = p /\ mm'.who = c
    BY <1>4, <1>6 DEF TableTypes
  <2>4. mm' \in [at : {"receive", "got", "store", "birth", "reply", "cleanup", "free",
                      "orphans", "assert"},
                src : User \cup {NO_TASK}, who : Slots \cup {NO_TASK},
                load : {{}, {"RECEIVING"}}, bit : {"none", "WAITING", "HANGING"},
                then : {"none", "receive", "orphans", "assert"}]
    BY <1>4, <1>6 DEF TableTypes
  <2>5. torn' \in BOOLEAN
    BY <1>1, <1>4 DEF TableTypes
  <2> QED
    BY <2>1, <2>2, <2>3, <2>4, <2>5 DEF TableTypes
<1>9. /\ \A r \in Proc \ {c} : p_flags'[r] = p_flags[r] /\ p_msg'[r] = p_msg[r]
                              /\ p_recvfrom'[r] = p_recvfrom[r] /\ p_sendto'[r] = p_sendto[r]
                              /\ q_sending'[r] = q_sending[r] /\ msg'[r] = msg[r]
      /\ p_flags'[c] = p_flags[p] /\ p_msg'[c] = p_msg[p] /\ q_sending'[c] = q_sending[p]
      /\ p_recvfrom'[c] = p_recvfrom[p] /\ p_sendto'[c] = p_sendto[p]
  BY <1>4, <1>6 DEF KernelTypes, Buffers
<1>10. /\ \A i \in User \ {c} : lib'[i] = lib[i] /\ p_parent'[i] = p_parent[i]
       /\ lib'[c] = lib[p] /\ p_parent'[c] = p
  BY <1>4, <1>6 DEF TableTypes
<1>11. QueueExact'
  <2>1. \A r \in Proc : \A d \in User : ~("SENDING" \in p_flags[r] /\ p_sendto[r] = d)
    <3>1. ASSUME NEW r \in User, "SENDING" \in p_flags[r] PROVE p_sendto[r] = TASK_MM
      <4>1. UserPlace(r)
        BY <1>4 DEF UserInv
      <4>2. ~AtUser(r) /\ ~Free(r) /\ \A e : ~Served(r, e)
        BY <3>1 DEF AtUser, Free, Served, Heard, Awaiting
      <4>3. /\ ~Called(r, "WAIT", {}) /\ ~Called(r, "WAIT", {"WAITING"})
            /\ ~Called(r, "EXIT", {"HANGING"})
        BY <3>1 DEF Called, Heard, Awaiting, Lost
      <4> QED
        BY <4>1, <4>2, <4>3 DEF UserPlace, Asking
    <3>2. "SENDING" \notin p_flags[TASK_MM]
      BY <1>4 DEF MMReady
    <3> QED
      BY <3>1, <3>2
  <2>2. \A r \in Proc : "SENDING" \in p_flags'[r] <=> "SENDING" \in p_flags[r]
    BY <1>2, <1>5, <1>9 DEF Free
  <2>3. \A r \in Proc : "SENDING" \in p_flags'[r] => p_sendto'[r] = p_sendto[r]
    BY <1>5, <1>9
  <2> SUFFICES ASSUME NEW e \in Proc
               PROVE  /\ NoRepeat(q_sending'[e])
                      /\ \A r \in Proc : Listed(q_sending'[e], r) <=>
                           ("SENDING" \in p_flags'[r] /\ p_sendto'[r] = e)
    BY DEF QueueExact, Sending
  <2>4. PICK g \in Proc : q_sending'[e] = q_sending[g] /\ (g # e => g = p /\ e = c)
    BY <1>9
  <2>5. /\ NoRepeat(q_sending[g])
        /\ \A r \in Proc : Listed(q_sending[g], r) <=>
             ("SENDING" \in p_flags[r] /\ p_sendto[r] = g)
    BY <1>4 DEF QueueExact, Sending
  <2>6. \A r \in Proc : Listed(q_sending[g], r) <=>
          ("SENDING" \in p_flags'[r] /\ p_sendto'[r] = e)
    BY <2>1, <2>2, <2>3, <2>4, <2>5
  <2> QED
    BY <2>4, <2>5, <2>6
<1>12. \A i \in User \ {c} : SameUser(i)
  BY <1>1, <1>9, <1>10 DEF SameUser
<1>13. Awaiting(c, {})' /\ Awaiting(p, {})' /\ lib'[c].call = "FORK" /\ lib'[p].call = "FORK"
  <2>1. Awaiting(c, {})'
    BY <1>5, <1>9, <1>10 DEF Awaiting, Blocked
  <2> QED
    BY <1>5, <1>10, <1>12, <2>1, SamePlace
<1>14. UserInv'
  <2>1. UserPlace(c)'
    BY <1>13 DEF UserPlace, Served
  <2> QED
    BY <1>4, <1>12, <2>1, UsersKept
<1>15. MMReady'
  BY <1>4, <1>9 DEF MMReady, quiet
<1>16. MMInv'
  BY <1>5, <1>8, <1>13, <1>15 DEF MMInv
<1>17. TreeInv'
  <2>1. /\ ~Free(c)' /\ ~Hanging(c)' /\ ~Waiting(c)' /\ Alive(p) /\ ~Alive(c)
        /\ \A i \in User \ {c} : SameBits(i) /\ (Alive(i)' <=> Alive(i))
    <3>1. ~Free(c)' /\ ~Hanging(c)' /\ ~Waiting(c)' /\ Alive(p)
      BY <1>5, <1>9 DEF Alive, Free, Hanging, Waiting
    <3>2. ~Alive(c)
      BY <1>2 DEF Alive
    <3>3. \A i \in User \ {c} : SameBits(i) /\ (Alive(i)' <=> Alive(i))
      BY <1>9 DEF SameBits, Alive, Free, Hanging, Waiting
    <3> QED
      BY <3>1, <3>2, <3>3
  <2>2. p_parent'[INIT_PROC] = NO_TASK
    BY <1>4, <1>10 DEF TreeInv
  <2>3. ASSUME NEW i \in Slots, ~Free(i)' PROVE p_parent'[i] \in User /\ Alive(p_parent[i])'
    <3>1. CASE i = c
      BY <1>5, <1>10, <2>1, <3>1
    <3>2. CASE i # c
      <4>1. p_parent[i] \in User \ {c} /\ Alive(p_parent[i])
        BY <1>4, <2>1, <2>3, <3>2 DEF TreeInv, SameBits
      <4> QED
        BY <1>10, <2>1, <3>2, <4>1
    <3> QED
      BY <3>1, <3>2
  <2>4. ASSUME NEW i \in Slots, Hanging(i)' PROVE ~Waiting(p_parent[i])'
    <3>1. i # c /\ Hanging(i) /\ ~Free(i)
      BY <2>1, <2>4 DEF SameBits, Hanging, Free
    <3>2. p_parent[i] \in User \ {c} /\ ~Waiting(p_parent[i])
      BY <1>4, <2>1, <3>1 DEF TreeInv
    <3> QED
      BY <1>10, <2>1, <3>1, <3>2 DEF SameBits
  <2> QED
    BY <2>2, <2>3, <2>4 DEF TreeInv
<1> QED
  BY <1>1, <1>4, <1>7, <1>8, <1>11, <1>14, <1>16, <1>17 DEF ForkInv, KernelQuiet, Types

----------------------------------------------------------------------------
(* The theorems *)

\* The table after init_sched.
LEMMA ForkInit ==
  ASSUME Init
  PROVE  ForkInv
<1> USE Actors
<1>1. /\ p_flags = [p \in Proc |-> IF p \in Slots THEN {"FREE_SLOT"} ELSE {}]
      /\ p_msg = [p \in Proc |-> 0] /\ p_recvfrom = [p \in Proc |-> NO_TASK]
      /\ p_sendto = [p \in Proc |-> NO_TASK] /\ has_int_msg = [p \in Proc |-> 0]
      /\ q_sending = [p \in Proc |-> <<>>]
      /\ msg = [p \in Proc |-> [source |-> p, type |-> UNSET]] /\ fault = "none"
      /\ p_parent = [p \in User |-> NO_TASK]
      /\ lib = [p \in User |-> [call |-> "none", at |-> "received"]]
      /\ mm = mmFrame /\ torn = FALSE
  BY DEF Init, IpcInit
<1>2. \A p \in Proc : /\ p_flags[p] = IF p \in Slots THEN {"FREE_SLOT"} ELSE {}
                      /\ quiet(p) /\ q_sending[p] = <<>>
  BY <1>1 DEF quiet
<1>3. KernelTypes
  <2>1. p_flags \in [Proc -> SUBSET Flag]
    BY <1>1 DEF Flag
  <2>2. p_msg \in [Proc -> {0, 1}] /\ has_int_msg \in [Proc -> {0}]
    BY <1>1
  <2>3. q_sending \in [Proc -> Seq(Proc)]
    BY <1>1
  <2>4. Buffers
    BY <1>1 DEF Buffers
  <2> QED
    BY <1>1, <2>1, <2>2, <2>3, <2>4 DEF KernelTypes
<1>4. TableTypes
  BY <1>1 DEF TableTypes, mmFrame
<1>5. QueueExact
  <2>1. \A p \in Proc : "SENDING" \notin p_flags[p]
    BY <1>2
  <2> QED
    BY <1>2, <2>1 DEF QueueExact, Sending, Listed, NoRepeat
<1>6. UserInv
  <2> SUFFICES ASSUME NEW i \in User PROVE UserPlace(i) /\ lib[i].call = "none"
    BY DEF UserInv
  <2>1. i = INIT_PROC => AtUser(i)
    BY <1>1, <1>2 DEF AtUser
  <2>2. i \in Slots => Free(i)
    BY <1>2 DEF Free
  <2> QED
    BY <1>1, <2>1, <2>2 DEF UserPlace
<1>7. MMReady
  BY <1>2 DEF MMReady
<1>8. MMInv
  BY <1>1, <1>7 DEF MMInv, mmFrame
<1>9. TreeInv
  BY <1>1, <1>2 DEF TreeInv, Free, Hanging
<1> QED
  BY <1>1, <1>3, <1>4, <1>5, <1>6, <1>8, <1>9 DEF ForkInv, KernelQuiet, Types

\* A step of something else.
LEMMA ForkStutter ==
  ASSUME ForkInv, UNCHANGED feVars
  PROVE  ForkInv'
<1> USE Actors DEF feVars
<1>1. /\ UNCHANGED <<ipcVars, lib, torn>> /\ mm' = mm /\ p_parent' = p_parent
      /\ fault' = fault /\ torn' = torn
  BY DEF ipcVars
<1>2. Types' /\ KernelQuiet'
  BY DEF ForkInv, Types, KernelTypes, TableTypes, Buffers, KernelQuiet, ipcVars
<1>3. ASSUME fault = "none"
      PROVE  QueueExact' /\ UserInv' /\ MMInv' /\ TreeInv'
  <2>1. Types /\ KernelTypes /\ QueueExact /\ UserInv /\ MMInv /\ TreeInv
    BY <1>3 DEF ForkInv, Types
  <2>2. /\ QueueExact' /\ UserInv' /\ (MMReady => MMReady')
        /\ \A i \in User : SameUser(i) /\ SameBits(i) /\ lib'[i] = lib[i]
    BY <1>1, <2>1, LocalStep
  <2>3. CallsKept
    BY <2>2, SamePlace DEF CallsKept
  <2>4. TaskKept
    <3>1. msg'[TASK_MM] = msg[TASK_MM]
      BY <1>1 DEF ipcVars
    <3>2. MMListens => MMListens'
      BY <1>1 DEF ipcVars, MMListens
    <3>3. ASSUME NEW q \in User, NEW c, MMSends(q, c) PROVE MMSends(q, c)'
      BY <1>1, <3>3 DEF MMSends, Heard, Lost, Blocked, quiet, ipcVars
    <3> QED
      BY <2>2, <3>1, <3>2, <3>3 DEF TaskKept
  <2>5. MMInv'
    BY <1>1, <2>1, <2>3, <2>4, MMKept
  <2>6. TreeInv'
    BY <1>1, <2>1, <2>2, TreeKept DEF Exiting
  <2> QED
    BY <2>2, <2>5, <2>6
<1> QED
  BY <1>1, <1>2, <1>3 DEF ForkInv

\* Every step, by the action that takes it.
LEMMA ForkNext ==
  ASSUME ForkInv, Next
  PROVE  ForkInv'
<1>1. ASSUME NEW p \in User, NEW c \in Calls[p], Call(p, c) PROVE ForkInv'
  BY <1>1, CallStep
<1>2. ASSUME NEW p \in User, Await(p) PROVE ForkInv'
  BY <1>2, AwaitStep
<1>3. CASE receive \/ or_store
  BY <1>3, ReceiveStep, OrStoreStep
<1>4. CASE fork_full \/ fork_copy \/ fork_birth \/ fork_reply
  BY <1>4, ForkFullStep, ForkCopyStep, ForkBirthStep, ForkReplyStep
<1>5. CASE cleanup_send \/ cleanup_free
  BY <1>5, CleanupSendStep, CleanupFreeStep
<1>6. CASE exit_waited \/ exit_unwaited
  BY <1>6, ExitWaitedStep, ExitUnwaitedStep
<1>7. CASE orphans_done \/ orphan_hanging \/ orphan_assert
  BY <1>7, OrphansDoneStep, OrphanHangingStep, OrphanAssertStep
<1>8. CASE wait_reap \/ wait_mark \/ wait_childless
  BY <1>8, WaitReapStep, WaitMarkStep, WaitChildlessStep
<1> QED
  BY <1>1, <1>2, <1>3, <1>4, <1>5, <1>6, <1>7, <1>8 DEF Next, MMStep

\* The invariant: every process is at one of its places, task_mm owes exactly
\* the answers its locals say, and the tree is whole but for the children of a
\* process whose exit task_mm is at work on.
THEOREM ForkInvariance == Spec => []ForkInv
<1>1. Init => ForkInv
  BY ForkInit
<1>2. ForkInv /\ [Next]_feVars => ForkInv'
  BY ForkNext, ForkStutter
<1> QED
  BY <1>1, <1>2, PTL DEF Spec

\* As long as no store of task_mm has undone what the kernel did to a p_flags, a
\* process that runs after a call has an answer of task_mm in its buffer: a
\* second message, or a wake-up without one, never ends fork() or wait().
THEOREM CallsComeBack == Spec => []CallsAnswered
<1>1. ForkInv => CallsAnswered
  BY DEF ForkInv, UserInv, UserPlace, AtUser, Asking, Served, Called, Heard, Awaiting, Lost,
         Free, CallsAnswered, returned
<1> QED
  BY <1>1, ForkInvariance, PTL

\* Under the same condition task_mm and the processes never make the kernel
\* panic over a circle of senders and never fail an assert of msg_send or
\* msg_recevie.
THEOREM KernelStaysQuiet == Spec => []KernelQuiet
<1>1. ForkInv => KernelQuiet
  BY DEF ForkInv
<1> QED
  BY <1>1, ForkInvariance, PTL

\* Between two requests the parent of every process in use is in use and has not
\* exited, torn stores or not: no child is left with a slot that fork() may give
\* to a stranger.
THEOREM TreeStaysWhole == Spec => []ParentsLive
<1>1. ForkInv => ParentsLive
  <2> SUFFICES ASSUME ForkInv, mmIdle, NEW i \in Slots, ~Free(i)
               PROVE  p_parent[i] \in User /\ InUse(p_parent[i]) /\ ~Hanging(p_parent[i])
    BY DEF ParentsLive
  <2>1. TreeInv /\ ~Exiting
    BY DEF ForkInv, mmIdle, Exiting
  <2> QED
    BY <2>1 DEF TreeInv, Alive, InUse
<1> QED
  BY <1>1, ForkInvariance, PTL

\* Between two requests no parent waits while a child of it is a zombie: the
\* test made by do_exit and the one made by do_wait never both miss.
THEOREM ExitsAreNoticed == Spec => []NoMissedExit
<1>1. ForkInv => NoMissedExit
  BY DEF ForkInv, TreeInv, NoMissedExit, mmIdle
<1> QED
  BY <1>1, ForkInvariance, PTL

\* A process that has called exit() never runs again, even when a store has
\* undone its RECEIVING bit.
THEOREM ExitForGood == Spec => []ExitIsFinal
<1>1. ForkInv => ExitIsFinal
  BY DEF ForkInv, UserInv, UserPlace, AtUser, Asking, Served, Called, Heard, Awaiting, Lost,
         Free, ExitIsFinal, returned
<1> QED
  BY <1>1, ForkInvariance, PTL
=============================================================================
