----------------------------- MODULE TtyProofs -----------------------------
(***************************************************************************)
(* The ring of a terminal stays inside its buffer for every number of      *)
(* consoles and every size of the buffer, even when task_tty and task_fs   *)
(* undo each other's changes of inbuf_count.                               *)
(*                                                                         *)
(* InBounds is not inductive: whether a store is in range depends on what  *)
(* was loaded, and that on a test made even earlier.  Each side has tested *)
(* the count before it moves its pointer, and whatever the other side      *)
(* stores meanwhile passes the same test again.                            *)
(*                                                                         *)
(* The second part is about the keyboard driver, which feeds the ring: for *)
(* every size of its own ring and every set of keys, the bytes under way   *)
(* are those of a list of strokes, and what is still to come about is what *)
(* these strokes are meant for.                                            *)
(***************************************************************************)
EXTENDS TtyInput, Keyboard, TLAPS

\* The types of the variables the ring depends on.
RingTypes ==
  /\ nr_current_console \in Tty
  /\ in_buf \in [Tty -> [Slot -> Key]]
  /\ p_inbuf_head \in [Tty -> Slot] /\ p_inbuf_tail \in [Tty -> Slot]
  /\ inbuf_count \in [Tty -> 0 .. TTY_IN_BYTES]
  /\ tty \in [at : {"poll", "load", "store"}, load : 0 .. TTY_IN_BYTES]
  /\ fs \in [at : {"idle", "get", "load", "store"}, tty : Tty, ch : Key, cnt : Nat,
             load : 0 .. TTY_IN_BYTES]

\* There is room for the key that task_tty is counting.
RoomKept ==
  /\ tty.at = "load" => inbuf_count[nr_current_console] < TTY_IN_BYTES
  /\ tty.at = "store" => tty.load < TTY_IN_BYTES

\* There was a key for task_fs to take.
KeyKept ==
  /\ fs.at = "load" => inbuf_count[fs.tty] > 0
  /\ fs.at = "store" => fs.load > 0

RingInv == RingTypes /\ RoomKept /\ KeyKept

USE TtyAssumption

\* The next slot is a slot: the pointers wrap at the end of the buffer.
LEMMA NextSlot == \A s \in Slot : next_slot(s) \in Slot
  BY DEF Slot, next_slot

\* The rings are empty after init_tty.
LEMMA RingInit == Init => RingInv
  <1>1. 0 \in Tty /\ 0 \in Slot /\ Enter \in Key
    BY DEF Tty, Slot, Key
  <1> QED BY <1>1 DEF Init, RingInv, RingTypes, RoomKept, KeyKept, fsIdle

\* No step of task_tty or task_fs takes the ring out of its buffer.
LEMMA RingStep == RingInv /\ [Next]_vars => RingInv'
  <1> SUFFICES ASSUME RingInv, [Next]_vars PROVE RingInv'
    OBVIOUS
  <1> USE DEF RingInv, RingTypes, RoomKept, KeyKept
  <1>1. CASE UNCHANGED vars
    BY <1>1 DEF vars
  <1>2. ASSUME NEW n \in 0 .. NR_FKEYS - 1, select_console(n) PROVE RingInv'
    BY <1>2 DEF select_console
  <1>3. ASSUME NEW k \in Key, put_key(k) PROVE RingInv'
    <2> DEFINE t == nr_current_console
    <2>1. next_slot(p_inbuf_head[t]) \in Slot
      BY NextSlot
    <2>2. in_buf' \in [Tty -> [Slot -> Key]]
      BY <1>3 DEF put_key
    <2>3. p_inbuf_head' \in [Tty -> Slot]
      BY <1>3, <2>1 DEF put_key
    <2> QED BY <1>3, <2>2, <2>3 DEF put_key, has_room
  <1>4. ASSUME NEW t \in Tty, read_start(t) PROVE RingInv'
    <2>1. fs' = [at |-> "get", tty |-> t, ch |-> Enter, cnt |-> 0, load |-> 0]
      BY <1>4 DEF read_start, fsIdle
    <2>2. Enter \in Key
      BY DEF Key
    <2> QED BY <1>4, <2>1, <2>2 DEF read_start, ring
  <1>5. CASE put_load
    BY <1>5 DEF put_load, ring
  <1>6. CASE put_store
    <2>1. tty.load + 1 \in 1 .. TTY_IN_BYTES
      BY <1>6 DEF put_store
    <2> QED BY <1>6, <2>1 DEF put_store, ring
  <1>7. CASE get_take
    <2>1. next_slot(p_inbuf_tail[fs.tty]) \in Slot
      BY NextSlot
    <2>2. p_inbuf_tail' \in [Tty -> Slot]
      BY <1>7, <2>1 DEF get_take
    <2>3. in_buf[fs.tty][p_inbuf_tail[fs.tty]] \in Key
      OBVIOUS
    <2> QED BY <1>7, <2>2, <2>3 DEF get_take, has_key
  <1>8. CASE get_load
    BY <1>8 DEF get_load, ring
  <1>9. CASE get_store
    <2>1. fs.load - 1 \in 0 .. TTY_IN_BYTES - 1
      BY <1>9 DEF get_store
    <2>2. more(fs) \in Nat
      BY DEF more
    <2>3. inbuf_count' = [inbuf_count EXCEPT ![fs.tty] = fs.load - 1]
          /\ inbuf_count' \in [Tty -> 0 .. TTY_IN_BYTES]
      BY <1>9, <2>1 DEF get_store
    <2>4. CASE fs.ch = Enter
      <3>1. fs' = [at |-> "idle", tty |-> 0, ch |-> Enter, cnt |-> 0, load |-> 0]
        BY <1>9, <2>4 DEF get_store, fsIdle
      <3>2. 0 \in Tty /\ Enter \in Key
        BY DEF Tty, Key
      <3> QED BY <1>9, <2>1, <2>3, <3>1, <3>2 DEF get_store, ring
    <2>5. CASE fs.ch # Enter
      <3>1. fs' = [fs EXCEPT !.at = "get", !.cnt = more(fs), !.load = 0]
        BY <1>9, <2>5 DEF get_store
      <3>2. /\ fs' \in [at : {"idle", "get", "load", "store"}, tty : Tty, ch : Key, cnt : Nat,
                       load : 0 .. TTY_IN_BYTES]
            /\ fs'.at = "get"
        <4>1. fs' = [at |-> "get", tty |-> fs.tty, ch |-> fs.ch, cnt |-> more(fs), load |-> 0]
          BY <3>1
        <4>2. fs.tty \in Tty /\ fs.ch \in Key /\ 0 \in 0 .. TTY_IN_BYTES
          OBVIOUS
        <4> QED BY <2>2, <4>1, <4>2
      <3> QED BY <1>9, <2>1, <2>3, <3>2 DEF get_store, ring
    <2> QED BY <2>4, <2>5
  <1> QED
    BY <1>1, <1>2, <1>3, <1>4, <1>5, <1>6, <1>7, <1>8, <1>9 DEF Next, TtyStep, FsStep

\* head, tail and count of every ring stay inside the buffer, whatever task_tty
\* and task_fs do to the count between each other's load and store.
THEOREM RingSafe == Spec => []InBounds
  <1>1. RingInv => InBounds
    BY DEF RingInv, RingTypes, InBounds
  <1> QED BY <1>1, RingInit, RingStep, PTL DEF Spec

----------------------------------------------------------------------------
(* The ring is a queue, as long as no store to inbuf_count undoes another.  *)
(* That takes the head as well: it is as far behind the tail as there are   *)
(* keys.                                                                    *)

\* From slot s on buffer b holds the keys of q.
Holds(b, s, q) ==
  Len(q) <= TTY_IN_BYTES /\ \A i \in 1 .. Len(q) : b[After(s, i - 1)] = q[i]

\* The steps on inbuf_count that each side has still to take for ring t.
late(t) == IF tty.at # "poll" /\ nr_current_console = t THEN 1 ELSE 0
early(t) == IF fs.at \in {"load", "store"} /\ fs.tty = t THEN 1 ELSE 0

Queued(t) ==
  /\ Holds(in_buf[t], p_inbuf_tail[t], unread[t])
  /\ p_inbuf_head[t] = After(p_inbuf_tail[t], Len(unread[t]))
  /\ inbuf_count[t] = Len(unread[t]) - late(t) + early(t)

QueueInv ==
  /\ RingInv
  /\ unread \in [Tty -> Seq(Key)]
  /\ ~torn => \A t \in Tty : Queued(t)

\* A slot of the ring, and that slots less than a round apart differ.
LEMMA AfterFacts ==
  ASSUME NEW s \in Slot
  PROVE  /\ After(s, 0) = s
         /\ \A i \in 0 .. TTY_IN_BYTES : After(s, i) \in Slot
         /\ \A i \in 0 .. TTY_IN_BYTES - 1 :
              /\ next_slot(After(s, i)) = After(s, i + 1)
              /\ After(next_slot(s), i) = After(s, i + 1)
         /\ \A i, j \in 0 .. TTY_IN_BYTES - 1 : After(s, i) = After(s, j) => i = j
  BY DEF Slot, After, next_slot

\* A key put at the head of a ring with room is the last of the queue.
LEMMA PutHolds ==
  ASSUME NEW b \in [Slot -> Key], NEW s \in Slot, NEW q \in Seq(Key), NEW k \in Key,
         Holds(b, s, q), Len(q) < TTY_IN_BYTES
  PROVE  Holds([b EXCEPT ![After(s, Len(q))] = k], s, Append(q, k))
  <1> DEFINE n == Len(q)
             c == [b EXCEPT ![After(s, n)] = k]
             r == Append(q, k)
  <1>1. /\ n \in Nat /\ n < TTY_IN_BYTES /\ Len(r) = n + 1 /\ r[n + 1] = k
        /\ \A i \in 1 .. n : r[i] = q[i]
    OBVIOUS
  <1>2. After(s, n) \in Slot
    BY <1>1, AfterFacts
  <1>3. ASSUME NEW i \in 1 .. n PROVE c[After(s, i - 1)] = q[i]
    <2>1. /\ i - 1 \in 0 .. TTY_IN_BYTES - 1 /\ n \in 0 .. TTY_IN_BYTES - 1 /\ i - 1 # n
          /\ i - 1 \in 0 .. TTY_IN_BYTES
      BY <1>1
    <2>2. After(s, i - 1) \in Slot /\ After(s, i - 1) # After(s, n)
      BY <2>1, AfterFacts
    <2> QED BY <2>2 DEF Holds
  <1>4. c[After(s, n)] = k
    BY <1>2
  <1> HIDE DEF n, c, r
  <1>5. \A i \in 1 .. n + 1 : i \in 1 .. n \/ i = n + 1
    BY <1>1
  <1>6. (n + 1) - 1 = n /\ n + 1 <= TTY_IN_BYTES
    BY <1>1
  <1>7. Holds(c, s, r)
    BY <1>1, <1>3, <1>4, <1>5, <1>6 DEF Holds
  <1> QED BY <1>7 DEF n, c, r

\* The key at the tail of a ring that is not empty is the first of the queue,
\* and the rest stays.
LEMMA TakeHolds ==
  ASSUME NEW b \in [Slot -> Key], NEW s \in Slot, NEW q \in Seq(Key),
         Holds(b, s, q), q # <<>>
  PROVE  /\ Holds(b, next_slot(s), Tail(q)) /\ Tail(q) \in Seq(Key)
         /\ Len(Tail(q)) = Len(q) - 1
         /\ After(next_slot(s), Len(q) - 1) = After(s, Len(q))
         /\ b[s] = Head(q)
  <1> DEFINE n == Len(q)
             r == Tail(q)
  <1>1. /\ n \in Nat /\ n > 0 /\ n <= TTY_IN_BYTES /\ Len(r) = n - 1 /\ r \in Seq(Key)
        /\ \A i \in 1 .. n - 1 : r[i] = q[i + 1]
    BY DEF Holds
  <1>2. ASSUME NEW i \in 1 .. n - 1 PROVE b[After(next_slot(s), i - 1)] = r[i]
    <2>1. /\ i - 1 \in 0 .. TTY_IN_BYTES - 1 /\ (i - 1) + 1 = (i + 1) - 1 /\ i + 1 \in 1 .. n
      BY <1>1
    <2>2. After(next_slot(s), i - 1) = After(s, (i + 1) - 1)
      BY <2>1, AfterFacts
    <2> QED BY <1>1, <2>1, <2>2 DEF Holds
  <1>3. n - 1 \in 0 .. TTY_IN_BYTES - 1 /\ (n - 1) + 1 = n
    BY <1>1
  <1>4. After(next_slot(s), n - 1) = After(s, n)
    BY <1>3, AfterFacts
  <1>5. b[s] = Head(q)
    <2>1. 1 \in 1 .. n /\ 1 - 1 = 0 /\ Head(q) = q[1]
      BY <1>1
    <2> QED BY <2>1, AfterFacts DEF Holds
  <1>6. Holds(b, next_slot(s), r)
    BY <1>1, <1>2 DEF Holds
  <1> QED BY <1>1, <1>4, <1>5, <1>6

\* The rings are empty after init_tty.
LEMMA QueueInit == Init => QueueInv
  <1> SUFFICES ASSUME Init PROVE QueueInv
    OBVIOUS
  <1>1. RingInv
    BY RingInit
  <1>2. ASSUME NEW t \in Tty PROVE unread[t] = <<>> /\ Queued(t)
    <2>1. /\ unread[t] = <<>> /\ Len(unread[t]) = 0 /\ \A i \in 1 .. 0 : FALSE
          /\ p_inbuf_head[t] = 0 /\ p_inbuf_tail[t] = 0 /\ inbuf_count[t] = 0
          /\ tty.at = "poll" /\ fs.at = "idle"
      BY DEF Init, fsIdle
    <2>2. 0 \in Slot
      BY DEF Slot
    <2>3. After(0, 0) = 0
      BY <2>2, AfterFacts
    <2> QED BY <2>1, <2>3 DEF Queued, Holds, late, early
  <1>3. unread \in [Tty -> Seq(Key)]
    BY DEF Init
  <1> QED BY <1>1, <1>2, <1>3 DEF QueueInv

\* What is not touched of a ring is still queued.
LEMMA SameQueue ==
  ASSUME NEW t \in Tty, Queued(t),
         in_buf'[t] = in_buf[t], p_inbuf_head'[t] = p_inbuf_head[t],
         p_inbuf_tail'[t] = p_inbuf_tail[t], unread'[t] = unread[t],
         inbuf_count'[t] = Len(unread[t]) - late(t)' + early(t)'
  PROVE  Queued(t)'
  BY DEF Queued, Holds

\* put_key, get_take and the stores to inbuf_count keep the queue, unless a
\* store undoes another.
LEMMA QueueStep == QueueInv /\ [Next]_vars => QueueInv'
  <1> SUFFICES ASSUME QueueInv, [Next]_vars PROVE QueueInv'
    OBVIOUS
  <1>0. RingInv /\ RingInv'
    BY RingStep DEF QueueInv
  <1>1. /\ nr_current_console \in Tty /\ fs.tty \in Tty /\ unread \in [Tty -> Seq(Key)]
        /\ in_buf \in [Tty -> [Slot -> Key]]
        /\ p_inbuf_head \in [Tty -> Slot] /\ p_inbuf_tail \in [Tty -> Slot]
        /\ inbuf_count \in [Tty -> 0 .. TTY_IN_BYTES]
        /\ tty \in [at : {"poll", "load", "store"}, load : 0 .. TTY_IN_BYTES]
        /\ fs \in [at : {"idle", "get", "load", "store"}, tty : Tty, ch : Key, cnt : Nat,
                   load : 0 .. TTY_IN_BYTES]
        /\ \A t \in Tty : Len(unread[t]) \in Nat
    <2>1. unread \in [Tty -> Seq(Key)]
      BY DEF QueueInv
    <2>2. \A t \in Tty : Len(unread[t]) \in Nat
      BY <2>1
    <2> QED
      BY ONLY <1>0, <2>1, <2>2 DEF RingInv, RingTypes
  <1> DEFINE Goal == /\ unread' \in [Tty -> Seq(Key)]
                     /\ ~torn' => ~torn /\ \A t \in Tty : Queued(t) => Queued(t)'
  <1>2. ASSUME UNCHANGED vars PROVE Goal
    BY <1>1, <1>2 DEF vars, Queued, Holds, late, early
  <1>3. ASSUME NEW n \in 0 .. NR_FKEYS - 1, select_console(n) PROVE Goal
    BY <1>1, <1>3, SameQueue DEF select_console, Queued, late, early
  <1>4. ASSUME NEW k \in Key, put_key(k) PROVE Goal
    <2>0. PICK c \in Tty : c = nr_current_console
      BY <1>1
    <2>1. unread' \in [Tty -> Seq(Key)] /\ torn' = torn
      BY <1>1, <1>4 DEF put_key
    <2>2. ASSUME NEW t \in Tty, Queued(t), t # c PROVE Queued(t)'
      BY <1>1, <1>4, <2>0, <2>2, SameQueue DEF put_key, Queued, late, early
    <2>3. ASSUME Queued(c) PROVE Queued(c)'
      <3>1. /\ Holds(in_buf[c], p_inbuf_tail[c], unread[c]) /\ Len(unread[c]) \in Nat
            /\ p_inbuf_head[c] = After(p_inbuf_tail[c], Len(unread[c]))
            /\ inbuf_count[c] = Len(unread[c]) + early(c) /\ early(c) \in {0, 1}
            /\ Len(unread[c]) < TTY_IN_BYTES
        BY <1>1, <1>4, <2>0, <2>3 DEF Queued, put_key, late, early, has_room
      <3>2. /\ in_buf'[c] = [in_buf[c] EXCEPT ![After(p_inbuf_tail[c], Len(unread[c]))] = k]
            /\ p_inbuf_tail'[c] = p_inbuf_tail[c] /\ unread'[c] = Append(unread[c], k)
            /\ p_inbuf_head'[c] = next_slot(p_inbuf_head[c])
            /\ inbuf_count'[c] = inbuf_count[c] /\ late(c)' = 1 /\ early(c)' = early(c)
        BY <1>1, <1>4, <2>0, <3>1 DEF put_key, late, early
      <3>3. Holds(in_buf'[c], p_inbuf_tail'[c], unread'[c])
        <4>1. in_buf[c] \in [Slot -> Key] /\ p_inbuf_tail[c] \in Slot /\ unread[c] \in Seq(Key)
          BY <1>1
        <4>2. Holds([in_buf[c] EXCEPT ![After(p_inbuf_tail[c], Len(unread[c]))] = k],
                    p_inbuf_tail[c], Append(unread[c], k))
          BY <3>1, <4>1, PutHolds
        <4> QED BY <3>2, <4>2
      <3>4. /\ Len(unread'[c]) = Len(unread[c]) + 1
            /\ Len(unread[c]) \in 0 .. TTY_IN_BYTES - 1
        BY <1>1, <3>1, <3>2
      <3>5. p_inbuf_head'[c] = After(p_inbuf_tail'[c], Len(unread'[c]))
        BY <1>1, <3>1, <3>2, <3>4, AfterFacts
      <3>6. inbuf_count'[c] = Len(unread'[c]) - late(c)' + early(c)'
        BY <3>1, <3>2, <3>4
      <3> QED BY <3>3, <3>5, <3>6 DEF Queued
    <2> QED BY <2>1, <2>2, <2>3
  <1>5. ASSUME NEW t \in Tty, read_start(t) PROVE Goal
    BY <1>1, <1>5, SameQueue DEF read_start, ring, Queued, late, early, fsIdle
  <1>6. ASSUME put_load PROVE Goal
    BY <1>1, <1>6, SameQueue DEF put_load, ring, Queued, late, early
  <1>7. ASSUME put_store PROVE Goal
    <2>1. unread' \in [Tty -> Seq(Key)] /\ (~torn' => ~torn)
      BY <1>1, <1>7 DEF put_store, ring
    <2>2. ASSUME ~torn', NEW t \in Tty, Queued(t) PROVE Queued(t)'
      <3>1. inbuf_count[nr_current_console] = tty.load
        BY <1>7, <2>2 DEF put_store
      <3>2. /\ in_buf' = in_buf /\ p_inbuf_head' = p_inbuf_head /\ p_inbuf_tail' = p_inbuf_tail
            /\ unread' = unread /\ nr_current_console' = nr_current_console
        BY <1>7 DEF put_store, ring
      <3>3. inbuf_count'[t] = inbuf_count[t] + late(t) /\ late(t)' = 0 /\ early(t)' = early(t)
        BY <1>1, <1>7, <3>1 DEF put_store, late, early
      <3>4. inbuf_count[t] = Len(unread[t]) - late(t) + early(t)
            /\ late(t) \in Int /\ early(t) \in Int /\ Len(unread[t]) \in Int
        BY <1>1, <2>2 DEF Queued, late, early
      <3>5. inbuf_count'[t] = Len(unread[t]) - late(t)' + early(t)'
        BY <3>3, <3>4
      <3> QED BY <2>2, <3>2, <3>5, SameQueue
    <2> QED BY <2>1, <2>2
  <1>8. ASSUME get_take PROVE Goal
    <2>0. PICK c \in Tty : c = fs.tty
      BY <1>1
    <2>1. ASSUME NEW t \in Tty PROVE Tail(unread[t]) \in Seq(Key) \/ unread[t] = <<>>
      BY <1>1
    <2>2. unread' \in [Tty -> Seq(Key)] /\ torn' = torn
      BY <1>1, <1>8, <2>0, <2>1 DEF get_take
    <2>3. ASSUME NEW t \in Tty, Queued(t), t # c PROVE Queued(t)'
      BY <1>1, <1>8, <2>0, <2>3, SameQueue DEF get_take, Queued, late, early
    <2>4. ASSUME Queued(c) PROVE Queued(c)'
      <3>1. /\ Holds(in_buf[c], p_inbuf_tail[c], unread[c]) /\ Len(unread[c]) \in Nat
            /\ p_inbuf_head[c] = After(p_inbuf_tail[c], Len(unread[c]))
            /\ inbuf_count[c] = Len(unread[c]) - late(c) /\ late(c) \in {0, 1}
            /\ Len(unread[c]) > 0
        BY <1>1, <1>8, <2>0, <2>4 DEF Queued, get_take, late, early, has_key
      <3>2. unread[c] # <<>>
        BY <3>1
      <3>3. /\ in_buf'[c] = in_buf[c] /\ unread'[c] = Tail(unread[c])
            /\ p_inbuf_tail'[c] = next_slot(p_inbuf_tail[c])
            /\ p_inbuf_head'[c] = p_inbuf_head[c]
            /\ inbuf_count'[c] = inbuf_count[c] /\ late(c)' = late(c) /\ early(c)' = 1
        BY <1>1, <1>8, <2>0, <3>2 DEF get_take, late, early
      <3>4. /\ Holds(in_buf'[c], p_inbuf_tail'[c], unread'[c])
            /\ p_inbuf_head'[c] = After(p_inbuf_tail'[c], Len(unread'[c]))
            /\ Len(unread'[c]) = Len(unread[c]) - 1
        <4>1. in_buf[c] \in [Slot -> Key] /\ p_inbuf_tail[c] \in Slot /\ unread[c] \in Seq(Key)
          BY <1>1
        <4>2. /\ Holds(in_buf[c], next_slot(p_inbuf_tail[c]), Tail(unread[c]))
              /\ Len(Tail(unread[c])) = Len(unread[c]) - 1
              /\ After(next_slot(p_inbuf_tail[c]), Len(unread[c]) - 1)
                   = After(p_inbuf_tail[c], Len(unread[c]))
          BY <3>1, <3>2, <4>1, TakeHolds
        <4> QED BY <3>1, <3>3, <4>2
      <3>5. inbuf_count'[c] = Len(unread'[c]) - late(c)' + early(c)'
        BY <3>1, <3>3, <3>4
      <3> QED BY <3>3, <3>4, <3>5 DEF Queued
    <2> QED BY <2>2, <2>3, <2>4
  <1>9. ASSUME get_load PROVE Goal
    BY <1>1, <1>9, SameQueue DEF get_load, ring, Queued, late, early
  <1>10. ASSUME get_store PROVE Goal
    <2>1. unread' \in [Tty -> Seq(Key)] /\ (~torn' => ~torn)
      BY <1>1, <1>10 DEF get_store, ring
    <2>2. ASSUME ~torn', NEW t \in Tty, Queued(t) PROVE Queued(t)'
      <3>1. inbuf_count[fs.tty] = fs.load
        BY <1>10, <2>2 DEF get_store
      <3>2. /\ in_buf' = in_buf /\ p_inbuf_head' = p_inbuf_head /\ p_inbuf_tail' = p_inbuf_tail
            /\ unread' = unread /\ fs'.at \in {"idle", "get"}
        BY <1>1, <1>10 DEF get_store, ring, fsIdle
      <3>3. inbuf_count'[t] = inbuf_count[t] - early(t) /\ late(t)' = late(t) /\ early(t)' = 0
        BY <1>1, <1>10, <3>1, <3>2 DEF get_store, late, early
      <3>4. inbuf_count[t] = Len(unread[t]) - late(t) + early(t)
            /\ late(t) \in Int /\ early(t) \in Int /\ Len(unread[t]) \in Int
        BY <1>1, <2>2 DEF Queued, late, early
      <3>5. inbuf_count'[t] = Len(unread[t]) - late(t)' + early(t)'
        BY <3>3, <3>4
      <3> QED BY <2>2, <3>2, <3>5, SameQueue
    <2> QED BY <2>1, <2>2
  <1>11. Goal
    BY <1>2, <1>3, <1>4, <1>5, <1>6, <1>7, <1>8, <1>9, <1>10 DEF Next, TtyStep, FsStep
  <1> QED BY <1>0, <1>11 DEF QueueInv

\* The ring is a queue: as long as no store to inbuf_count has undone another,
\* it holds the typed keys in their order and inbuf_count is their number, for
\* every size of the ring and any number of ttys.
THEOREM RingIsQueue == Spec => []RingExact
  <1>1. QueueInv => RingExact
    BY DEF QueueInv, Queued, Holds, late, early, RingExact
  <1> QED BY <1>1, QueueInit, QueueStep, PTL DEF Spec

HIDE TtyAssumption

----------------------------------------------------------------------------
(* The keyboard: strokes and their bytes *)

\* What the driver brings about, and the strokes: Pause sends nothing when it
\* goes up.
Act == [do : {"put", "scroll", "select"},
        what : {"a", "A", "nl", "bs", "Up", "Down", "F2"}]

Stroke == {s \in [key : KeyName, down : BOOLEAN] : s.down \/ s.key # "Pause"}

\* The bytes of a stroke, what it has to bring about with the keys in H down,
\* and the keys that are down after it.
CodeOf(s) == IF s.down THEN makeCode(s.key) ELSE breakCode(s.key)
Wants(s, H) == IF s.down THEN Meant(s.key, H) ELSE <<>>
DownAfter(s, H) ==
  IF ~s.down THEN H \ {s.key} ELSE IF s.key = "Pause" THEN H ELSE H \cup {s.key}

\* g is the first part of the bytes of s.
Begins(g, s) ==
  /\ g \in Seq(Int) /\ Len(g) \in 1 .. Len(CodeOf(s))
  /\ \A i \in 1 .. Len(g) : g[i] = CodeOf(s)[i]

\* One sequence goes on as another.
LEMMA PrefixFacts ==
  ASSUME NEW s \in Seq(Int), NEW t \in Seq(Int)
  PROVE  /\ IsStrictPrefix(s, t) <=>
              Len(s) < Len(t) /\ \A i \in 1 .. Len(s) : s[i] = t[i]
         /\ IsPrefix(s, t) <=>
              Len(s) <= Len(t) /\ \A i \in 1 .. Len(s) : s[i] = t[i]
  <1>1. IsPrefix(s, t) <=> Len(s) <= Len(t) /\ \A i \in 1 .. Len(s) : s[i] = t[i]
    <2>1. ASSUME Len(s) <= Len(t) PROVE Len(SubSeq(s, 1, Len(s))) = Len(s) /\ Len(SubSeq(t, 1, Len(s))) = Len(s)
      BY <2>1
    <2>2. ASSUME Len(s) <= Len(t), NEW i \in 1 .. Len(s)
          PROVE  SubSeq(s, 1, Len(s))[i] = s[i] /\ SubSeq(t, 1, Len(s))[i] = t[i]
      BY <2>2
    <2>3. ASSUME Len(s) <= Len(t), \A i \in 1 .. Len(s) : s[i] = t[i]
          PROVE SubSeq(s, 1, Len(s)) = SubSeq(t, 1, Len(s))
      BY <2>1, <2>2, <2>3
    <2> QED BY <2>1, <2>2, <2>3 DEF IsPrefix
  <1>2. Len(s) < Len(t) => s # t
    OBVIOUS
  <1>3. Len(s) = Len(t) /\ (\A i \in 1 .. Len(s) : s[i] = t[i]) => s = t
    OBVIOUS
  <1> QED BY <1>1, <1>2, <1>3 DEF IsStrictPrefix

\* The five kinds of codes.
LEMMA CodeForms ==
  ASSUME NEW s \in Stroke
  PROVE  \/ \E b \in Int : b < 224 /\ CodeOf(s) = <<b>>
         \/ \E b \in Int : b \notin {42, 183} /\ CodeOf(s) = <<224, b>>
         \/ CodeOf(s) = <<224, 42, 224, 55>>
         \/ CodeOf(s) = <<224, 183, 224, 170>>
         \/ CodeOf(s) = <<225, 29, 69, 225, 157, 197>>
  <1>1. CASE s.key = "PrintScreen"
    BY <1>1 DEF Stroke, CodeOf, makeCode, breakCode, Extended, E0, E1
  <1>2. CASE s.key = "Pause"
    BY <1>2 DEF Stroke, CodeOf, makeCode, breakCode, Extended, E0, E1
  <1>3. CASE s.key \in Extended
    <2>1. code(s.key) \in {29, 56, 72, 80} /\ s.key \notin {"PrintScreen", "Pause"}
      BY <1>3 DEF Extended, code
    <2> QED BY <1>3, <2>1 DEF Stroke, CodeOf, makeCode, breakCode, E0, E1
  <1>4. CASE s.key \notin Extended \cup {"PrintScreen", "Pause"}
    <2>1. code(s.key) \in {30, 28, 14, 42, 54, 29, 56, 60}
      BY <1>4 DEF Extended, code, Stroke, KeyName
    <2> QED BY <1>4, <2>1 DEF Stroke, CodeOf, makeCode, breakCode, E0, E1
  <1> QED BY <1>1, <1>2, <1>3, <1>4

\* keyboard_read asks for another byte until it has all of a stroke: the codes of
\* the keys are told apart by their beginnings.
LEMMA UnfinishedFacts ==
  ASSUME NEW s \in Stroke, NEW g, Begins(g, s)
  PROVE  unfinished(g) <=> Len(g) < Len(CodeOf(s))
  <1> DEFINE p == <<225, 29, 69, 225, 157, 197>>
             m == <<224, 42, 224, 55>>
             b == <<224, 183, 224, 170>>
  <1>1. p \in Seq(Int) /\ m \in Seq(Int) /\ b \in Seq(Int) /\ g \in Seq(Int)
    BY DEF Begins
  <1>2. unfinished(g) <=>
          \/ Len(g) < 6 /\ \A i \in 1 .. Len(g) : g[i] = p[i]
          \/ Len(g) < 4 /\ \A i \in 1 .. Len(g) : g[i] = m[i]
          \/ Len(g) < 4 /\ \A i \in 1 .. Len(g) : g[i] = b[i]
    <2>1. Len(p) = 6 /\ Len(m) = 4 /\ Len(b) = 4
      OBVIOUS
    <2>2. pausebrk_scode = p /\ print_make = m /\ print_break = b
      BY DEF pausebrk_scode, print_make, print_break, E0, E1
    <2> HIDE DEF p, m, b
    <2>3. \A t \in {p, m, b} : IsStrictPrefix(g, t) <=>
            Len(g) < Len(t) /\ \A i \in 1 .. Len(g) : g[i] = t[i]
      BY <1>1, PrefixFacts
    <2> QED BY <1>1, <2>1, <2>2, <2>3 DEF unfinished
  <1>3. Len(g) \in Nat /\ Len(g) >= 1 /\ Len(g) <= Len(CodeOf(s))
        /\ \A i \in 1 .. Len(g) : g[i] = CodeOf(s)[i]
    BY DEF Begins
  <1>4. CASE \E x \in Int : x < 224 /\ CodeOf(s) = <<x>>
    BY <1>2, <1>3, <1>4
  <1>5. CASE \E x \in Int : x \notin {42, 183} /\ CodeOf(s) = <<224, x>>
    BY <1>2, <1>3, <1>5
  <1>6. CASE CodeOf(s) = m
    BY <1>2, <1>3, <1>6
  <1>7. CASE CodeOf(s) = b
    BY <1>2, <1>3, <1>7
  <1>8. CASE CodeOf(s) = p
    BY <1>2, <1>3, <1>8
  <1> QED BY <1>4, <1>5, <1>6, <1>7, <1>8, CodeForms

\* The keys that are recognised and ignored, and the sets of keys that may be down.
Special == {"PrintScreen", "Pause"}
DownSets == SUBSET (KeyName \ {"Pause"})

\* The flags of the driver when the keys in H are down.
Flags(H) == UNION {flagOf(k) : k \in H}

\* What the table has for the key k.
NameOf(k, m) ==
  CASE k = "a" -> IF m \cap {"SHIFT_L", "SHIFT_R"} = {} THEN "a" ELSE "A"
    [] k = "Enter" -> "ENTER" [] k = "Backspace" -> "BACKSPACE"
    [] k = "LShift" -> "SHIFT_L" [] k = "RShift" -> "SHIFT_R"
    [] k = "LCtrl" -> "CTRL_L" [] k = "RCtrl" -> "CTRL_R"
    [] k = "LAlt" -> "ALT_L" [] k = "RAlt" -> "ALT_R"
    [] k = "Up" -> "UP" [] k = "Down" -> "DOWN" [] k = "F2" -> "F2"

\* A flag is set while one of its keys is down.
LEMMA FlagsFacts ==
  ASSUME NEW H \in DownSets
  PROVE  /\ Flags(H) \subseteq Modifier
         /\ "SHIFT_L" \in Flags(H) <=> "LShift" \in H
         /\ "SHIFT_R" \in Flags(H) <=> "RShift" \in H
         /\ "CTRL_L" \in Flags(H) <=> "LCtrl" \in H
         /\ "CTRL_R" \in Flags(H) <=> "RCtrl" \in H
         /\ "ALT_L" \in Flags(H) <=> "LAlt" \in H
         /\ "ALT_R" \in Flags(H) <=> "RAlt" \in H
  <1> DEFINE fl(k) == flagOf(k)
  <1>1. \A x : x \in Flags(H) <=> \E k \in H : x \in fl(k)
    BY DEF Flags
  <1>2. /\ fl("LShift") = {"SHIFT_L"} /\ fl("RShift") = {"SHIFT_R"} /\ fl("LCtrl") = {"CTRL_L"}
        /\ fl("RCtrl") = {"CTRL_R"} /\ fl("LAlt") = {"ALT_L"} /\ fl("RAlt") = {"ALT_R"}
    BY DEF flagOf
  <1>3. \A k \in KeyName \ {"LShift", "RShift", "LCtrl", "RCtrl", "LAlt", "RAlt"} : fl(k) = {}
    BY DEF KeyName, flagOf
  <1>4. H \subseteq KeyName
    BY DEF DownSets
  <1> HIDE DEF fl
  <1> QED BY <1>1, <1>2, <1>3, <1>4 DEF Modifier

\* keyboard_read finds the entry of the key and whether it went down.
LEMMA LookupFacts ==
  ASSUME NEW s \in Stroke, s.key \notin Special, NEW m
  PROVE  LET g == CodeOf(s)
             e0 == g[1] = E0
             scan_code == IF e0 THEN g[2] ELSE g[1]
         IN  /\ (scan_code < 128) = s.down
             /\ keymap(scan_code % 128)[column(e0, m)] = NameOf(s.key, m)
  <1> DEFINE g == CodeOf(s)
             e0 == g[1] = E0
             scan_code == IF e0 THEN g[2] ELSE g[1]
             c == code(s.key)
  <1>1. c \in {30, 28, 14, 42, 54, 29, 56, 60, 72, 80}
    BY DEF Special, code, Stroke, KeyName
  <1>2. e0 = (s.key \in Extended) /\ scan_code = IF s.down THEN c ELSE c + 128
    <2>1. CASE s.key \in Extended
      BY <2>1, <1>1 DEF Special, Stroke, CodeOf, makeCode, breakCode, E0
    <2>2. CASE s.key \notin Extended
      <3>1. CodeOf(s) = <<IF s.down THEN c ELSE c + 128>>
        BY <2>2 DEF Special, CodeOf, makeCode, breakCode
      <3> HIDE DEF c
      <3>2. CodeOf(s)[1] = IF s.down THEN c ELSE c + 128
        BY <3>1
      <3>3. CodeOf(s)[1] # 224
        BY <1>1, <3>2
      <3> QED BY <2>2, <3>2, <3>3 DEF E0
    <2> QED BY <2>1, <2>2
  <1>3. (scan_code < 128) = s.down /\ scan_code % 128 = c
    BY <1>1, <1>2 DEF Stroke
  <1>4. keymap(c)[column(s.key \in Extended, m)] = NameOf(s.key, m)
    <2> USE DEF code, keymap, column, NameOf, Extended
    <2>1. CASE s.key = "a"
      BY <2>1
    <2>2. CASE s.key = "Enter"
      BY <2>2
    <2>3. CASE s.key = "Backspace"
      BY <2>3
    <2>4. CASE s.key = "LShift"
      BY <2>4
    <2>5. CASE s.key = "RShift"
      BY <2>5
    <2>6. CASE s.key = "LCtrl"
      BY <2>6
    <2>7. CASE s.key = "RCtrl"
      BY <2>7
    <2>8. CASE s.key = "LAlt"
      BY <2>8
    <2>9. CASE s.key = "RAlt"
      BY <2>9
    <2>10. CASE s.key = "Up"
      BY <2>10
    <2>11. CASE s.key = "Down"
      BY <2>11
    <2>12. CASE s.key = "F2"
      BY <2>12
    <2>13. s.key \in {"a", "Enter", "Backspace", "LShift", "RShift", "LCtrl", "RCtrl", "LAlt",
                      "RAlt", "Up", "Down", "F2"}
      BY DEF Stroke, KeyName, Special
    <2> HIDE DEF code, keymap, column, NameOf, Extended
    <2> HIDE DEF c
    <2> QED
      BY <2>1, <2>2, <2>3, <2>4, <2>5, <2>6, <2>7, <2>8, <2>9, <2>10, <2>11, <2>12, <2>13
         DEF c
  <1> HIDE DEF c
  <1> QED BY <1>2, <1>3, <1>4

\* The flags follow the keys.
LEMMA FlagsFollow ==
  ASSUME NEW s \in Stroke, s.key \notin Special, NEW H \in DownSets
  PROVE  DownAfter(s, H) \in DownSets /\ set_flag(Flags(H), NameOf(s.key, Flags(H)), s.down) = Flags(DownAfter(s, H))
  <1>1. DownAfter(s, H) \in DownSets
    BY DEF Stroke, Special, DownSets, DownAfter
  <1> DEFINE n == NameOf(s.key, Flags(H))
             F == set_flag(Flags(H), n, s.down)
  <1>2. F \subseteq Modifier
    BY FlagsFacts DEF set_flag
  <1>3. ASSUME NEW x \in Modifier PROVE x \in F <=> x \in Flags(DownAfter(s, H))
    <2>1. CASE s.key \in {"LShift", "RShift", "LCtrl", "RCtrl", "LAlt", "RAlt"}
      BY <1>1, <1>3, <2>1, FlagsFacts DEF Modifier, set_flag, NameOf, DownAfter, Stroke
    <2>2. CASE s.key \notin {"LShift", "RShift", "LCtrl", "RCtrl", "LAlt", "RAlt"}
      <3>1. n \notin Modifier
        <4>1. s.key \in {"a", "Enter", "Backspace", "Up", "Down", "F2"}
          BY <2>2 DEF Stroke, KeyName, Special
        <4>2. n \in {"a", "A", "ENTER", "BACKSPACE", "UP", "DOWN", "F2"}
          BY <4>1 DEF NameOf
        <4> QED BY <4>2 DEF Modifier
      <3> QED BY <1>1, <1>3, <2>2, <3>1, FlagsFacts DEF Modifier, set_flag, DownAfter, Stroke
    <2> QED BY <2>1, <2>2
  <1> QED BY <1>1, <1>2, <1>3, FlagsFacts

\* in_process does what the user meant.
LEMMA DoneAsMeant ==
  ASSUME NEW s \in Stroke, s.key \notin Special, NEW H \in DownSets
  PROVE  (IF s.down THEN in_process(NameOf(s.key, Flags(H)), Flags(DownAfter(s, H))) ELSE <<>>)
           = Wants(s, H)
  <1> DEFINE m == Flags(DownAfter(s, H))
  <1>0. CASE ~s.down
    BY <1>0 DEF Wants
  <1> SUFFICES ASSUME s.down PROVE in_process(NameOf(s.key, Flags(H)), m) = Meant(s.key, H)
    BY <1>0 DEF Wants, Stroke
  <1>1. DownAfter(s, H) = H \cup {s.key} /\ DownAfter(s, H) \in DownSets
    BY FlagsFollow DEF DownAfter, Special
  <1>2. m \cap {"SHIFT_L", "SHIFT_R"} = {} <=> DownAfter(s, H) \cap {"LShift", "RShift"} = {}
    BY <1>1, FlagsFacts
  <1>3. m \cap {"ALT_L", "ALT_R"} = {} <=> DownAfter(s, H) \cap {"LAlt", "RAlt"} = {}
    BY <1>1, FlagsFacts
  <1>4. Flags(H) \cap {"SHIFT_L", "SHIFT_R"} = {} <=> H \cap {"LShift", "RShift"} = {}
    BY FlagsFacts
  <1> HIDE DEF m
  <1> USE DEF in_process, plain, NameOf, Meant
  <1>5. CASE s.key = "a"
    BY <1>4, <1>5
  <1>6. CASE s.key \in {"Enter", "Backspace"}
    BY <1>6
  <1>7. CASE s.key \in {"LShift", "RShift", "LCtrl", "RCtrl", "LAlt", "RAlt"}
    BY <1>7
  <1>8. CASE s.key \in {"Up", "Down"}
    BY <1>1, <1>2, <1>8
  <1>9. CASE s.key = "F2"
    BY <1>1, <1>3, <1>9
  <1> QED BY <1>5, <1>6, <1>7, <1>8, <1>9 DEF Stroke, KeyName, Special

\* What a stroke is meant for is at most one thing.
LEMMA WantsType ==
  ASSUME NEW s \in Stroke, NEW H
  PROVE  Wants(s, H) \in Seq(Act) /\ Len(Wants(s, H)) \in {0, 1}
  <1>1. Wants(s, H) = <<>> \/ \E a \in Act : Wants(s, H) = <<a>>
    <2>1. CASE s.down /\ s.key \in {"a", "Enter", "Backspace"}
      <3>1. \E x \in {"a", "A", "nl", "bs"} : Wants(s, H) = <<[do |-> "put", what |-> x]>>
        BY <2>1 DEF Wants, Meant
      <3> QED BY <3>1 DEF Act
    <2>2. CASE s.down /\ s.key \in {"Up", "Down"}
      <3>1. Wants(s, H) \in {<<>>, <<[do |-> "scroll", what |-> s.key]>>}
        BY <2>2 DEF Wants, Meant
      <3> QED BY <2>2, <3>1 DEF Act
    <2>3. CASE s.down /\ s.key = "F2"
      <3>1. Wants(s, H) \in {<<>>, <<[do |-> "select", what |-> s.key]>>}
        BY <2>3 DEF Wants, Meant
      <3> QED BY <2>3, <3>1 DEF Act
    <2>4. CASE ~s.down \/ s.key \notin {"a", "Enter", "Backspace", "Up", "Down", "F2"}
      BY <2>4 DEF Wants, Meant
    <2> QED BY <2>1, <2>2, <2>3, <2>4
  <1>2. CASE Wants(s, H) = <<>>
    BY <1>2
  <1>3. ASSUME NEW a \in Act, Wants(s, H) = <<a>> PROVE Wants(s, H) \in Seq(Act) /\ Len(Wants(s, H)) \in {0, 1}
    BY <1>3
  <1> QED BY <1>1, <1>2, <1>3

\* The bytes of a stroke that has been taken for itself bring about what it was meant for.
LEMMA DecodeFacts ==
  ASSUME NEW s \in Stroke, NEW H \in DownSets, mods = Flags(H), due \in Seq(Act),
         IsPrefix(Wants(s, H), due),
         decode(CodeOf(s)), ~wrong
  PROVE  /\ mods' = Flags(DownAfter(s, H)) /\ ~wrong'
         /\ due' = SubSeq(due, Len(Wants(s, H)) + 1, Len(due))
  <1> DEFINE special == {pausebrk_scode, print_make, print_break}
  <1>1. CASE s.key \in Special
    <2>1. CodeOf(s) \in special
      BY <1>1 DEF Special, Stroke, CodeOf, makeCode, breakCode, Extended,
                  pausebrk_scode, print_make, print_break
    <2>2. mods' = mods /\ due' = due /\ ~wrong'
      BY <2>1 DEF decode
    <2>3. Wants(s, H) = <<>>
      BY <1>1 DEF Wants, Meant, Special
    <2>4. Flags(DownAfter(s, H)) = Flags(H)
      <3>1. DownAfter(s, H) \in DownSets /\ \A k : k \in KeyName \ Special => (k \in DownAfter(s, H) <=> k \in H)
        BY <1>1 DEF DownAfter, DownSets, Special, Stroke
      <3>2. H \in DownSets /\ \A x \in Modifier : x \in Flags(DownAfter(s, H)) <=> x \in Flags(H)
        BY <3>1, FlagsFacts DEF Modifier, KeyName, Special
      <3> QED BY <3>1, <3>2, FlagsFacts
    <2>5. SubSeq(due, 1, Len(due)) = due
      OBVIOUS
    <2> QED BY <2>2, <2>3, <2>4, <2>5
  <1>2. CASE s.key \notin Special
    <2>1. CodeOf(s) \notin special
      <3>1. Len(CodeOf(s)) \in {1, 2}
        BY <1>2 DEF Special, Stroke, CodeOf, makeCode, breakCode
      <3>2. CodeOf(s) # pausebrk_scode
        <4>1. Len(pausebrk_scode) \notin {1, 2}
          BY DEF pausebrk_scode
        <4> QED BY <3>1, <4>1, Zenon
      <3>3. CodeOf(s) # print_make
        <4>1. Len(print_make) \notin {1, 2}
          BY DEF print_make
        <4> QED BY <3>1, <4>1, Zenon
      <3>4. CodeOf(s) # print_break
        <4>1. Len(print_break) \notin {1, 2}
          BY DEF print_break
        <4> QED BY <3>1, <4>1, Zenon
      <3> QED BY <3>2, <3>3, <3>4, Zenon
    <2> DEFINE w == Wants(s, H)
           g == CodeOf(s)
           e0 == g[1] = E0
           scan_code == IF e0 THEN g[2] ELSE g[1]
           key == keymap(scan_code % 128)[column(e0, mods)]
           m == set_flag(mods, key, scan_code < 128)
           done == IF scan_code < 128 THEN in_process(key, m) ELSE <<>>
    <2>2. /\ mods' = m
          /\ due' = IF IsPrefix(done, due) THEN SubSeq(due, Len(done) + 1, Len(due)) ELSE due
          /\ wrong' = (wrong \/ ~IsPrefix(done, due))
      BY <2>1 DEF decode
    <2>3. (scan_code < 128) = s.down /\ key = NameOf(s.key, Flags(H))
      BY <1>2, LookupFacts
    <2> HIDE DEF key, scan_code
    <2>4. m = Flags(DownAfter(s, H))
      BY <1>2, <2>3, FlagsFollow
    <2> HIDE DEF m
    <2>5. done = w
      BY <1>2, <2>3, <2>4, DoneAsMeant
    <2> HIDE DEF done
    <2>6. ~wrong'
      BY <2>2, <2>5, Zenon
    <2> QED BY <2>2, <2>4, <2>5, <2>6
  <1> QED BY <1>1, <1>2

----------------------------------------------------------------------------

\* The bytes that have been sent and not decoded, oldest first.
Stream == got \o kb_in \o wire

\* The sequence q has c behind its first n.
Piece(q, n, c) == \A i \in 1 .. Len(c) : q[n + i] = c[i]

\* The bytes under way are those of the strokes st[lo], ..., st[hi - 1], and what
\* is due is what these are meant for with the keys in H down: pos and want count
\* the bytes and the things due before each stroke, H are the keys down before it.
Listed(st, pos, want, H) ==
  /\ st \in [Nat -> Stroke] /\ pos \in [Nat -> Nat] /\ want \in [Nat -> Nat]
  /\ H \in [Nat -> DownSets]

Rising(lo, hi, pos) == \A j, k \in lo .. hi : j <= k => pos[j] <= pos[k]

Row(lo, j, st, pos, want, H) ==
  /\ pos[j + 1] = pos[j] + Len(CodeOf(st[j]))
  /\ Piece(Stream, pos[j] - pos[lo], CodeOf(st[j]))
  /\ want[j + 1] = want[j] + Len(Wants(st[j], H[j]))
  /\ Piece(due, want[j] - want[lo], Wants(st[j], H[j]))
  /\ H[j + 1] = DownAfter(st[j], H[j])

Ends(lo, hi, st, pos, want, H) ==
  /\ Len(Stream) = pos[hi] - pos[lo] /\ Len(due) = want[hi] - want[lo]
  /\ H[hi] = held /\ mods = Flags(H[lo])
  /\ got # <<>> => lo < hi /\ Len(got) < Len(CodeOf(st[lo]))

Script(lo, hi, st, pos, want, H) ==
  /\ lo <= hi
  /\ Rising(lo, hi, pos) /\ Rising(lo, hi, want)
  /\ Ends(lo, hi, st, pos, want, H)
  /\ \A j \in lo .. hi - 1 : Row(lo, j, st, pos, want, H)

\* The types, and the list of strokes that explains the bytes and what is due.
KeyTypes ==
  /\ kb_in \in Seq(Int) /\ got \in Seq(Int) /\ wire \in Seq(Int) /\ due \in Seq(Act)
  /\ held \in DownSets

Scripted ==
  \E lo, hi \in Nat : \E st, pos, want, H :
    Listed(st, pos, want, H) /\ Script(lo, hi, st, pos, want, H)

\* What keyboard_read relies on until a byte is lost.
KeyInv == ~lost => KeyTypes /\ ~wrong /\ Scripted

\* Every stroke sends something.
LEMMA CodeType ==
  ASSUME NEW s \in Stroke
  PROVE  CodeOf(s) \in Seq(Int) /\ Len(CodeOf(s)) \in Nat \ {0}
  <1>1. CASE \E b \in Int : b < 224 /\ CodeOf(s) = <<b>>
    <2>1. \A b \in Int : <<b>> \in Seq(Int) /\ Len(<<b>>) \in Nat \ {0}
      OBVIOUS
    <2> QED BY <1>1, <2>1, Zenon
  <1>2. CASE \E b \in Int : b \notin {42, 183} /\ CodeOf(s) = <<224, b>>
    <2>1. \A b \in Int : <<224, b>> \in Seq(Int) /\ Len(<<224, b>>) \in Nat \ {0}
      OBVIOUS
    <2> QED BY <1>2, <2>1, Zenon
  <1>3. CASE CodeOf(s) = <<224, 42, 224, 55>>
    <2>1. <<224, 42, 224, 55>> \in Seq(Int) /\ Len(<<224, 42, 224, 55>>) \in Nat \ {0}
      OBVIOUS
    <2> QED BY <1>3, <2>1, Zenon
  <1>4. CASE CodeOf(s) = <<224, 183, 224, 170>>
    <2>1. <<224, 183, 224, 170>> \in Seq(Int) /\ Len(<<224, 183, 224, 170>>) \in Nat \ {0}
      OBVIOUS
    <2> QED BY <1>4, <2>1, Zenon
  <1>5. CASE CodeOf(s) = <<225, 29, 69, 225, 157, 197>>
    <2>1. /\ <<225, 29, 69, 225, 157, 197>> \in Seq(Int)
          /\ Len(<<225, 29, 69, 225, 157, 197>>) \in Nat \ {0}
      OBVIOUS
    <2> QED BY <1>5, <2>1, Zenon
  <1> QED BY <1>1, <1>2, <1>3, <1>4, <1>5, CodeForms

\* The keys that are down are keys of the keyboard, and Pause is none of them.
LEMMA DownType ==
  ASSUME NEW s \in Stroke, NEW H \in DownSets
  PROVE  DownAfter(s, H) \in DownSets
  BY DEF DownAfter, Stroke, DownSets

\* What is listed.
LEMMA ListedFacts ==
  ASSUME NEW st, NEW pos, NEW want, NEW H, Listed(st, pos, want, H), NEW j \in Nat
  PROVE  /\ st[j] \in Stroke /\ pos[j] \in Nat /\ want[j] \in Nat /\ H[j] \in DownSets
         /\ Len(CodeOf(st[j])) \in Nat \ {0} /\ Len(Wants(st[j], H[j])) \in Nat
  <1>1. st[j] \in Stroke
    BY DEF Listed
  <1>2. pos[j] \in Nat /\ want[j] \in Nat
    BY DEF Listed
  <1>3. H[j] \in DownSets
    BY DEF Listed
  <1>4. Len(CodeOf(st[j])) \in Nat \ {0}
    BY <1>1, CodeType
  <1>5. Len(Wants(st[j], H[j])) \in {0, 1}
    BY <1>1, WantsType
  <1> QED BY <1>1, <1>2, <1>3, <1>4, <1>5

\* Nothing is under way at first.
LEMMA NoneUnderWay == KeyboardInit => KeyInv
  <1> SUFFICES ASSUME KeyboardInit PROVE KeyInv
    OBVIOUS
  <1>0. /\ kb_in = <<>> /\ got = <<>> /\ wire = <<>> /\ due = <<>> /\ held = {} /\ mods = {}
        /\ ~wrong
    BY DEF KeyboardInit
  <1>1. KeyTypes
    BY <1>0 DEF KeyTypes, DownSets
  <1> DEFINE st == [n \in Nat |-> [key |-> "a", down |-> TRUE]]
             pos == [n \in Nat |-> 0]
             H == [n \in Nat |-> {}]
  <1>2. [key |-> "a", down |-> TRUE] \in Stroke
    BY DEF Stroke, KeyName
  <1>3. Listed(st, pos, pos, H)
    BY <1>2 DEF DownSets, Listed
  <1>4. pos[0] = 0 /\ H[0] = {}
    OBVIOUS
  <1> HIDE DEF st, pos, H
  <1>5. Script(0, 0, st, pos, pos, H)
    <2>1. Len(Stream) = 0 /\ Flags({}) = {} /\ Len(due) = 0
      BY <1>0 DEF Stream, Flags
    <2> QED BY <1>0, <1>4, <2>1 DEF Script, Ends, Rising
  <1> QED BY <1>0, <1>1, <1>3, <1>5 DEF KeyInv, Scripted

\* A piece is still there when something is put behind all of it.
LEMMA PieceKept ==
  ASSUME NEW q, NEW r, NEW n \in Nat, NEW c, Len(c) \in Nat, n + Len(c) <= Len(q), Len(q) \in Nat,
         \A i \in 1 .. Len(q) : r[i] = q[i], Piece(q, n, c)
  PROVE  Piece(r, n, c)
  BY DEF Piece

\* Arithmetic of the positions: what ends before d, and what begins at d.
LEMMA Between ==
  ASSUME NEW a \in Nat, NEW b \in Nat, NEW d \in Nat, NEW n \in Nat, a <= b, b + n <= d
  PROVE  b - a + n <= d - a /\ d - a \in Nat
  OBVIOUS

\* The same with n bytes taken from the front.
LEMMA Past ==
  ASSUME NEW a \in Nat, NEW b \in Nat, NEW n \in Nat, NEW d \in Nat, d = a + n, d <= b
  PROVE  n <= b - a /\ b - a \in Nat /\ (b - a) - n = b - d /\ a <= b
  OBVIOUS

\* The keyboard is free and sends s.
Strikes(s) ==
  /\ wire = <<>> /\ wire' = CodeOf(s)
  /\ held' = DownAfter(s, held) /\ due' = due \o Wants(s, held)
  /\ kb_in' = kb_in /\ got' = got /\ mods' = mods

\* A stroke is made: its bytes and what it is meant for come last.
LEMMA StrokeMade ==
  ASSUME KeyTypes, Scripted, NEW s \in Stroke, Strikes(s)
  PROVE  KeyTypes' /\ Scripted'
  <1> DEFINE c == CodeOf(s)
  <1> PICK w : w = Wants(s, held)
    OBVIOUS
  <1> PICK a : a = DownAfter(s, held)
    OBVIOUS
  <1>1. c \in Seq(Int) /\ Len(c) \in Nat \ {0}
    BY CodeType
  <1>2. w \in Seq(Act) /\ Len(w) \in Nat
    <2>1. w \in Seq(Act) /\ Len(w) \in {0, 1}
      BY WantsType
    <2> QED BY <2>1
  <1>3. a \in DownSets /\ held' = a
    BY DownType DEF KeyTypes, Strikes
  <1>4. KeyTypes'
    BY <1>1, <1>2, <1>3 DEF KeyTypes, Strikes
  <1>5. /\ Stream \in Seq(Int) /\ Len(Stream') = Len(Stream) + Len(c)
        /\ \A i \in 1 .. Len(Stream) : Stream'[i] = Stream[i]
        /\ Piece(Stream', Len(Stream), c)
    <2>1. Stream = got \o kb_in /\ Stream \in Seq(Int)
      BY DEF Stream, KeyTypes, Strikes
    <2>2. Stream' = Stream \o c
      BY <2>1 DEF Stream, Strikes
    <2> HIDE DEF c
    <2> QED BY <1>1, <2>1, <2>2 DEF Piece
  <1>6. /\ due \in Seq(Act) /\ Len(due') = Len(due) + Len(w)
        /\ \A i \in 1 .. Len(due) : due'[i] = due[i]
        /\ Piece(due', Len(due), w)
    <2>1. due \in Seq(Act) /\ due' = due \o w
      BY DEF KeyTypes, Strikes
    <2> QED BY <1>2, <2>1 DEF Piece
  <1> PICK lo \in Nat, hi \in Nat : \E st, pos, want, H :
             Listed(st, pos, want, H) /\ Script(lo, hi, st, pos, want, H)
    BY DEF Scripted
  <1> PICK st, pos, want, H : Listed(st, pos, want, H) /\ Script(lo, hi, st, pos, want, H)
    OBVIOUS
  <1> DEFINE st1 == [st EXCEPT ![hi] = s]
             pos1 == [pos EXCEPT ![hi + 1] = pos[hi] + Len(c)]
             want1 == [want EXCEPT ![hi + 1] = want[hi] + Len(w)]
             H1 == [H EXCEPT ![hi + 1] = a]
  <1>7. pos[hi] \in Nat /\ want[hi] \in Nat
    BY ListedFacts
  <1>8. Listed(st1, pos1, want1, H1)
    <2>1. st1 \in [Nat -> Stroke]
      BY DEF Listed
    <2>2. pos1 \in [Nat -> Nat]
      <3>1. pos[hi] + Len(c) \in Nat
        BY <1>1, <1>7
      <3> HIDE DEF c
      <3> QED BY <3>1 DEF Listed
    <2>3. want1 \in [Nat -> Nat]
      <3>1. want[hi] + Len(w) \in Nat
        BY <1>2, <1>7
      <3> QED BY <3>1 DEF Listed
    <2>4. H1 \in [Nat -> DownSets]
      BY <1>3 DEF Listed
    <2> QED BY <2>1, <2>2, <2>3, <2>4 DEF Listed
  <1>9. /\ st1[hi] = s /\ pos1[hi + 1] = pos[hi] + Len(c) /\ want1[hi + 1] = want[hi] + Len(w)
        /\ H1[hi + 1] = a
    <2>1. DOMAIN st = Nat /\ DOMAIN pos = Nat /\ DOMAIN want = Nat /\ DOMAIN H = Nat
      BY DEF Listed
    <2> HIDE DEF c
    <2> QED BY <2>1
  <1>10. ASSUME NEW n \in Nat, n # hi PROVE st1[n] = st[n]
    BY <1>10 DEF Listed
  <1>11. ASSUME NEW n \in Nat, n # hi + 1
         PROVE  pos1[n] = pos[n] /\ want1[n] = want[n] /\ H1[n] = H[n]
    BY <1>11 DEF Listed
  <1> HIDE DEF c, st1, pos1, want1, H1
  <1>12. lo <= hi /\ H[hi] = held
    BY DEF Script, Ends
  <1>13. Len(Stream) = pos[hi] - pos[lo] /\ Len(due) = want[hi] - want[lo]
    BY DEF Script, Ends
  <1>14. pos1[lo] = pos[lo] /\ want1[lo] = want[lo] /\ H1[lo] = H[lo]
    BY <1>11, <1>12
  <1>15. ASSUME NEW p, NEW p1, \A n \in Nat : p[n] \in Nat /\ (n # hi + 1 => p1[n] = p[n]),
                Rising(lo, hi, p), p1[hi + 1] \in Nat, p1[hi + 1] >= p[hi]
         PROVE  Rising(lo, hi + 1, p1)
    <2> SUFFICES ASSUME NEW j \in lo .. hi + 1, NEW k \in lo .. hi + 1, j <= k
                 PROVE  p1[j] <= p1[k]
      BY DEF Rising
    <2>1. CASE k <= hi
      BY <1>15, <2>1 DEF Rising
    <2>2. CASE j = hi + 1
      BY <1>15, <2>2
    <2>3. CASE k = hi + 1 /\ j <= hi
      <3>1. p[j] <= p[hi] /\ p1[j] = p[j] /\ p[j] \in Nat /\ p[hi] \in Nat
        BY <1>12, <1>15, <2>3 DEF Rising
      <3> QED BY <1>15, <2>3, <3>1
    <2> QED BY <2>1, <2>2, <2>3
  <1>16. Rising(lo, hi + 1, pos1) /\ Rising(lo, hi + 1, want1)
    <2>1. Rising(lo, hi, pos) /\ Rising(lo, hi, want)
      BY DEF Script
    <2>2. \A n \in Nat : pos[n] \in Nat /\ want[n] \in Nat
      BY ListedFacts
    <2>3. /\ \A n \in Nat : pos[n] \in Nat /\ (n # hi + 1 => pos1[n] = pos[n])
          /\ \A n \in Nat : want[n] \in Nat /\ (n # hi + 1 => want1[n] = want[n])
      BY <1>11, <2>2
    <2>4. /\ pos1[hi + 1] \in Nat /\ pos1[hi + 1] >= pos[hi]
          /\ want1[hi + 1] \in Nat /\ want1[hi + 1] >= want[hi]
      <3>1. pos1[hi + 1] \in Nat /\ pos1[hi + 1] >= pos[hi]
        BY <1>1, <1>7, <1>9
      <3>2. want1[hi + 1] \in Nat /\ want1[hi + 1] >= want[hi]
        BY <1>2, <1>7, <1>9
      <3> QED BY <3>1, <3>2
    <2> QED BY <1>15, <2>1, <2>3, <2>4
  <1>17. Ends(lo, hi + 1, st1, pos1, want1, H1)'
    <2>1. /\ Len(Stream') = pos1[hi + 1] - pos1[lo] /\ Len(due') = want1[hi + 1] - want1[lo]
      <3>1. pos[lo] \in Nat /\ want[lo] \in Nat
        BY ListedFacts
      <3>2. Len(Stream') = Len(Stream) + Len(c) /\ Len(due') = Len(due) + Len(w)
        BY <1>5, <1>6
      <3>3. Len(c) \in Nat /\ Len(w) \in Nat
        BY <1>1, <1>2
      <3>4. (pos[hi] + Len(c)) - pos[lo] = (pos[hi] - pos[lo]) + Len(c)
        BY <1>7, <3>1, <3>3
      <3>5. (want[hi] + Len(w)) - want[lo] = (want[hi] - want[lo]) + Len(w)
        BY <1>7, <3>1, <3>3
      <3>6. Len(Stream') = pos1[hi + 1] - pos1[lo]
        <4>1. Len(Stream') = (pos[hi] - pos[lo]) + Len(c)
          BY <1>13, <3>2, Zenon
        <4>2. pos1[hi + 1] - pos1[lo] = (pos[hi] + Len(c)) - pos[lo]
          BY <1>9, <1>14
        <4> QED BY <3>4, <4>1, <4>2, Zenon
      <3>7. Len(due') = want1[hi + 1] - want1[lo]
        <4>1. Len(due') = (want[hi] - want[lo]) + Len(w)
          BY <1>13, <3>2, Zenon
        <4>2. want1[hi + 1] - want1[lo] = (want[hi] + Len(w)) - want[lo]
          BY <1>9, <1>14
        <4> QED BY <3>5, <4>1, <4>2, Zenon
      <3> QED BY <3>6, <3>7
    <2>2. H1[hi + 1] = held' /\ mods' = Flags(H1[lo])
      BY <1>3, <1>9, <1>14 DEF Script, Ends, Strikes
    <2>3. got' # <<>> => lo < hi + 1 /\ Len(got') < Len(CodeOf(st1[lo]))
      BY <1>10, <1>12 DEF Script, Ends, Strikes
    <2> QED BY <2>1, <2>2, <2>3 DEF Ends
  <1>18. ASSUME NEW j \in lo .. hi - 1
         PROVE  Row(lo, j, st1, pos1, want1, H1)'
    <2>1. /\ st1[j] = st[j] /\ pos1[j] = pos[j] /\ want1[j] = want[j] /\ H1[j] = H[j]
          /\ pos1[j + 1] = pos[j + 1] /\ want1[j + 1] = want[j + 1] /\ H1[j + 1] = H[j + 1]
      <3>1. j \in Nat /\ j + 1 \in Nat /\ j # hi /\ j # hi + 1 /\ j + 1 # hi + 1
        OBVIOUS
      <3> QED BY <1>10, <1>11, <3>1
    <2>2. Row(lo, j, st, pos, want, H)
      BY DEF Script
    <2>3. /\ pos[lo] \in Nat /\ want[lo] \in Nat /\ pos[j] \in Nat /\ want[j] \in Nat
          /\ Len(CodeOf(st[j])) \in Nat /\ Len(Wants(st[j], H[j])) \in Nat
      <3>1. j \in Nat
        OBVIOUS
      <3>2. pos[lo] \in Nat /\ want[lo] \in Nat
        BY ListedFacts
      <3> QED BY <3>1, <3>2, ListedFacts
    <2>4. /\ pos[lo] <= pos[j] /\ pos[j + 1] <= pos[hi]
          /\ want[lo] <= want[j] /\ want[j + 1] <= want[hi]
      BY <1>12 DEF Script, Rising
    <2> DEFINE cj == CodeOf(st[j])
               wj == Wants(st[j], H[j])
    <2>5. pos[j] + Len(cj) = pos[j + 1] /\ want[j] + Len(wj) = want[j + 1]
      BY <2>2 DEF Row
    <2>6. Piece(Stream, pos[j] - pos[lo], cj) /\ Piece(due, want[j] - want[lo], wj)
      BY <2>2 DEF Row
    <2>7. Len(cj) \in Nat /\ Len(wj) \in Nat
      BY <2>3
    <2> HIDE DEF cj, wj
    <2>10. /\ pos[j] - pos[lo] \in Nat /\ pos[j] - pos[lo] + Len(cj) <= Len(Stream)
           /\ Len(Stream) \in Nat
      <3>1. pos[j] - pos[lo] \in Nat
        BY <2>3, <2>4
      <3>2. pos[j] + Len(cj) <= pos[hi]
        BY <2>4, <2>5
      <3>3. pos[j] - pos[lo] + Len(cj) <= pos[hi] - pos[lo] /\ pos[hi] - pos[lo] \in Nat
        BY <1>7, <2>3, <2>4, <2>7, <3>2, Between
      <3> QED BY <1>13, <3>1, <3>3
    <2>11. /\ want[j] - want[lo] \in Nat /\ want[j] - want[lo] + Len(wj) <= Len(due)
           /\ Len(due) \in Nat
      <3>1. want[j] - want[lo] \in Nat
        BY <2>3, <2>4
      <3>2. want[j] + Len(wj) <= want[hi]
        BY <2>4, <2>5
      <3>3. want[j] - want[lo] + Len(wj) <= want[hi] - want[lo] /\ want[hi] - want[lo] \in Nat
        BY <1>7, <2>3, <2>4, <2>7, <3>2, Between
      <3> QED BY <1>13, <3>1, <3>3
    <2>8. Piece(Stream', pos[j] - pos[lo], cj)
      BY <1>5, <2>6, <2>7, <2>10, PieceKept
    <2>9. Piece(due', want[j] - want[lo], wj)
      BY <1>6, <2>6, <2>7, <2>11, PieceKept
    <2> QED BY <1>14, <2>1, <2>2, <2>8, <2>9 DEF Row, cj, wj
  <1>19. Row(lo, hi, st1, pos1, want1, H1)'
    <2>1. pos1[hi] = pos[hi] /\ want1[hi] = want[hi] /\ H1[hi] = held
      BY <1>11, <1>12
    <2> QED BY <1>5, <1>6, <1>9, <1>13, <1>14, <2>1 DEF Row, c
  <1>20. Script(lo, hi + 1, st1, pos1, want1, H1)'
    <2>1. \A j \in lo .. hi : Row(lo, j, st1, pos1, want1, H1)'
      <3> SUFFICES ASSUME NEW j \in lo .. hi PROVE Row(lo, j, st1, pos1, want1, H1)'
        OBVIOUS
      <3>1. CASE j = hi
        BY <1>19, <3>1
      <3>2. CASE j # hi
        BY <1>18, <3>2
      <3> QED BY <3>1, <3>2
    <2>2. lo <= hi + 1 /\ hi + 1 - 1 = hi
      BY <1>12
    <2> QED BY <1>16, <1>17, <2>1, <2>2 DEF Script
  <1>21. hi + 1 \in Nat
    OBVIOUS
  <1>22. Scripted'
    BY <1>8, <1>20, <1>21 DEF Scripted
  <1> QED BY <1>4, <1>22

\* A byte moves on, and all strokes are still under way.
LEMMA ByteMoves ==
  ASSUME NEW lo, NEW hi, NEW st, NEW pos, NEW want, NEW H, Script(lo, hi, st, pos, want, H),
         Stream' = Stream, due' = due, held' = held, mods' = mods,
         got' # <<>> => lo < hi /\ Len(got') < Len(CodeOf(st[lo]))
  PROVE  Script(lo, hi, st, pos, want, H)'
  <1>1. lo <= hi /\ Rising(lo, hi, pos) /\ Rising(lo, hi, want)
    BY DEF Script
  <1>2. Ends(lo, hi, st, pos, want, H)'
    BY DEF Script, Ends
  <1>3. ASSUME NEW j \in lo .. hi - 1 PROVE Row(lo, j, st, pos, want, H)'
    <2>1. Row(lo, j, st, pos, want, H)
      BY DEF Script
    <2> QED BY <2>1 DEF Row, Piece
  <1> QED BY <1>1, <1>2, <1>3 DEF Script, Rising

\* Two sequences with the same entries are one.
LEMMA SameSeq ==
  ASSUME NEW a \in Seq(Int), NEW b \in Seq(Int), Len(a) = Len(b), \A i \in 1 .. Len(a) : a[i] = b[i]
  PROVE  a = b
  OBVIOUS

\* What putting one sequence behind another makes.
LEMMA ConcatFacts ==
  ASSUME NEW a \in Seq(Int), NEW b \in Seq(Int)
  PROVE  /\ a \o b \in Seq(Int) /\ Len(a \o b) = Len(a) + Len(b)
         /\ \A i \in 1 .. Len(a) : (a \o b)[i] = a[i]
         /\ \A i \in 1 .. Len(b) : (a \o b)[Len(a) + i] = b[i]
  OBVIOUS

\* Sequences are put together in any order.
LEMMA Grouping ==
  ASSUME NEW a \in Seq(Int), NEW b \in Seq(Int), NEW d \in Seq(Int)
  PROVE  (a \o b) \o d = a \o (b \o d)
  <1> DEFINE x == a \o b
             y == b \o d
             l == x \o d
             r == a \o y
  <1>1. /\ x \in Seq(Int) /\ Len(x) = Len(a) + Len(b)
        /\ \A i \in 1 .. Len(a) : x[i] = a[i]
        /\ \A i \in 1 .. Len(b) : x[Len(a) + i] = b[i]
    BY ConcatFacts, Zenon
  <1>2. /\ y \in Seq(Int) /\ Len(y) = Len(b) + Len(d)
        /\ \A i \in 1 .. Len(b) : y[i] = b[i]
        /\ \A i \in 1 .. Len(d) : y[Len(b) + i] = d[i]
    BY ConcatFacts, Zenon
  <1>3. Len(a) \in Nat /\ Len(b) \in Nat /\ Len(d) \in Nat
    OBVIOUS
  <1> HIDE DEF x, y
  <1>4. /\ l \in Seq(Int) /\ Len(l) = Len(x) + Len(d)
        /\ \A i \in 1 .. Len(x) : l[i] = x[i]
        /\ \A i \in 1 .. Len(d) : l[Len(x) + i] = d[i]
    BY <1>1, ConcatFacts, Zenon
  <1>5. /\ r \in Seq(Int) /\ Len(r) = Len(a) + Len(y)
        /\ \A i \in 1 .. Len(a) : r[i] = a[i]
        /\ \A i \in 1 .. Len(y) : r[Len(a) + i] = y[i]
    BY <1>2, ConcatFacts, Zenon
  <1> HIDE DEF l, r
  <1>6. Len(l) = Len(r)
    BY <1>1, <1>2, <1>3, <1>4, <1>5
  <1>7. ASSUME NEW i \in 1 .. Len(l) PROVE l[i] = r[i]
    <2>1. CASE i <= Len(a)
      BY <1>1, <1>3, <1>4, <1>5, <1>7, <2>1
    <2>2. CASE Len(a) < i /\ i <= Len(a) + Len(b)
      <3>1. i - Len(a) \in 1 .. Len(b) /\ i = Len(a) + (i - Len(a))
        BY <1>3, <1>7, <2>2
      <3> PICK k \in 1 .. Len(b) : i = Len(a) + k
        BY <3>1
      <3>2. l[i] = x[Len(a) + k]
        BY <1>1, <1>3, <1>4, <1>7, <2>2
      <3>3. r[i] = y[k]
        BY <1>2, <1>3, <1>5
      <3> QED BY <1>1, <1>2, <3>2, <3>3
    <2>3. CASE Len(a) + Len(b) < i
      <3>1. /\ i - (Len(a) + Len(b)) \in 1 .. Len(d)
            /\ i = (Len(a) + Len(b)) + (i - (Len(a) + Len(b)))
        BY <1>1, <1>3, <1>4, <1>7, <2>3
      <3> PICK k \in 1 .. Len(d) : i = (Len(a) + Len(b)) + k
        BY <3>1
      <3>2. l[i] = d[k]
        BY <1>1, <1>4
      <3>3. i = Len(a) + (Len(b) + k) /\ Len(b) + k \in 1 .. Len(y)
        BY <1>2, <1>3
      <3>4. r[i] = y[Len(b) + k]
        BY <1>5, <3>3
      <3> QED BY <1>2, <3>2, <3>4
    <2> QED BY <1>1, <1>3, <1>4, <1>7, <2>1, <2>2, <2>3
  <1>8. l = r
    BY <1>4, <1>5, <1>6, <1>7, SameSeq
  <1> QED BY <1>8, Zenon DEF l, r, x, y

\* Nor does it matter on which side of the cut the first entry behind it is.
LEMMA OneMoved ==
  ASSUME NEW a \in Seq(Int), NEW b \in Seq(Int), b # <<>>
  PROVE  /\ Append(a, Head(b)) \o Tail(b) = a \o b
         /\ Append(a, Head(b)) \in Seq(Int) /\ Len(Append(a, Head(b))) = Len(a) + 1
         /\ Tail(b) \in Seq(Int)
  <1> DEFINE u == <<Head(b)>>
             t == Tail(b)
  <1>1. u \in Seq(Int) /\ t \in Seq(Int) /\ b = u \o t
    OBVIOUS
  <1>2. Append(a, Head(b)) = a \o u /\ Append(a, Head(b)) \in Seq(Int)
        /\ Len(Append(a, Head(b))) = Len(a) + 1
    OBVIOUS
  <1> HIDE DEF u, t
  <1>3. (a \o u) \o t = a \o (u \o t)
    BY <1>1, Grouping
  <1>4. Append(a, Head(b)) \o t = a \o b
    BY <1>1, <1>2, <1>3, Zenon
  <1> QED BY <1>1, <1>2, <1>4, Zenon DEF t

\* keyboard_handler puts a byte into the ring.
LEMMA ByteQueued ==
  ASSUME KeyTypes, Scripted, keyboard_handler, ~lost'
  PROVE  KeyTypes' /\ Scripted' /\ ~lost
  <1>1. /\ wire # <<>> /\ wire' = Tail(wire) /\ kb_in' = Append(kb_in, Head(wire))
        /\ got' = got /\ mods' = mods /\ held' = held /\ due' = due
    BY DEF keyboard_handler
  <1>2. ~lost
    BY DEF keyboard_handler
  <1>3. KeyTypes'
    BY <1>1 DEF KeyTypes
  <1>4. Stream' = Stream
    <2>1. kb_in' \o wire' = kb_in \o wire
      <3>1. kb_in \in Seq(Int) /\ wire \in Seq(Int)
        BY DEF KeyTypes
      <3>2. Append(kb_in, Head(wire)) \o Tail(wire) = kb_in \o wire
        BY <1>1, <3>1, OneMoved
      <3> QED BY <1>1, <3>2, Zenon
    <2>2. got \o kb_in \o wire = got \o (kb_in \o wire) /\ got \o kb_in' \o wire' = got \o (kb_in' \o wire')
      <3>1. got \in Seq(Int) /\ kb_in \in Seq(Int) /\ wire \in Seq(Int)
        BY DEF KeyTypes
      <3>2. (got \o kb_in) \o wire = got \o (kb_in \o wire)
        BY <3>1, Grouping
      <3>3. got \in Seq(Int) /\ kb_in' \in Seq(Int) /\ wire' \in Seq(Int)
        BY <1>3, <3>1 DEF KeyTypes
      <3>4. (got \o kb_in') \o wire' = got \o (kb_in' \o wire')
        BY <3>3, Grouping
      <3> QED BY <3>2, <3>4, Zenon
    <2> QED BY <1>1, <2>1, <2>2, Zenon DEF Stream
  <1> PICK lo \in Nat, hi \in Nat : \E st, pos, want, H :
             Listed(st, pos, want, H) /\ Script(lo, hi, st, pos, want, H)
    BY DEF Scripted
  <1> PICK st, pos, want, H : Listed(st, pos, want, H) /\ Script(lo, hi, st, pos, want, H)
    OBVIOUS
  <1>5. got' # <<>> => lo < hi /\ Len(got') < Len(CodeOf(st[lo]))
    BY <1>1 DEF Script, Ends
  <1>6. Script(lo, hi, st, pos, want, H)'
    BY <1>1, <1>4, <1>5, ByteMoves
  <1> QED BY <1>2, <1>3, <1>6 DEF Scripted

\* A piece is found further to the front when the first n have been taken away.
LEMMA PieceShifted ==
  ASSUME NEW q, NEW r, NEW n \in Nat, NEW m \in Nat, NEW c, n <= m, Len(c) \in Nat,
         m + Len(c) <= Len(q), Len(q) \in Nat,
         \A i \in 1 .. Len(q) - n : r[i] = q[n + i], Piece(q, m, c)
  PROVE  Piece(r, m - n, c)
  <1> SUFFICES ASSUME NEW i \in 1 .. Len(c) PROVE r[(m - n) + i] = c[i]
    BY DEF Piece
  <1>1. q[m + i] = c[i]
    BY DEF Piece
  <1>2. (m - n) + i \in 1 .. Len(q) - n /\ n + ((m - n) + i) = m + i
    OBVIOUS
  <1> QED BY <1>1, <1>2

\* What is due first is what the first stroke is meant for.
LEMMA DueFirst ==
  ASSUME due \in Seq(Act), NEW w \in Seq(Act), Len(w) \in {0, 1}, Len(w) <= Len(due), Piece(due, 0, w)
  PROVE  /\ IsPrefix(w, due)
         /\ SubSeq(due, Len(w) + 1, Len(due)) \in Seq(Act)
         /\ Len(SubSeq(due, Len(w) + 1, Len(due))) = Len(due) - Len(w)
         /\ \A i \in 1 .. Len(due) - Len(w) : SubSeq(due, Len(w) + 1, Len(due))[i] = due[Len(w) + i]
  <1>1. IsPrefix(w, due)
    <2>1. \A i \in 1 .. Len(w) : due[i] = w[i]
      BY DEF Piece
    <2>2. SubSeq(w, 1, Len(w)) = SubSeq(due, 1, Len(w))
      <3>1. CASE Len(w) = 0
        BY <3>1
      <3>2. CASE Len(w) = 1
        BY <2>1, <3>2
      <3> QED BY <3>1, <3>2
    <2> QED BY <2>2 DEF IsPrefix
  <1>2. Len(w) \in Nat /\ Len(due) \in Nat
    OBVIOUS
  <1>3. SubSeq(due, Len(w) + 1, Len(due)) \in Seq(Act)
    BY <1>2
  <1>4. Len(SubSeq(due, Len(w) + 1, Len(due))) = Len(due) - Len(w)
    BY <1>2
  <1>5. \A i \in 1 .. Len(due) - Len(w) : SubSeq(due, Len(w) + 1, Len(due))[i] = due[Len(w) + i]
    BY <1>2
  <1> QED BY <1>1, <1>3, <1>4, <1>5

\* keyboard_read takes a byte.
LEMMA ByteTaken ==
  ASSUME KeyTypes, Scripted, ~wrong, keyboard_read
  PROVE  KeyTypes' /\ Scripted' /\ ~wrong'
  <1> DEFINE g == Append(got, Head(kb_in))
  <1>1. /\ kb_in # <<>> /\ kb_in' = Tail(kb_in) /\ wire' = wire /\ held' = held
    BY DEF keyboard_read
  <1>2. \/ unfinished(g) /\ got' = g /\ mods' = mods /\ due' = due /\ wrong' = wrong
        \/ ~unfinished(g) /\ got' = <<>> /\ decode(g)
    BY DEF keyboard_read
  <1>3. /\ g \in Seq(Int) /\ Len(g) = Len(got) + 1 /\ Len(got) \in Nat
        /\ Stream = g \o (kb_in' \o wire') /\ kb_in' \in Seq(Int) /\ wire' \in Seq(Int)
    <2>1. got \in Seq(Int) /\ kb_in \in Seq(Int) /\ wire \in Seq(Int)
      BY DEF KeyTypes
    <2>2. Tail(kb_in) \in Seq(Int) /\ g \in Seq(Int) /\ Len(g) = Len(got) + 1
          /\ g \o Tail(kb_in) = got \o kb_in
      <3>1. /\ Append(got, Head(kb_in)) \o Tail(kb_in) = got \o kb_in
            /\ Append(got, Head(kb_in)) \in Seq(Int) /\ Len(Append(got, Head(kb_in))) = Len(got) + 1
            /\ Tail(kb_in) \in Seq(Int)
        BY <1>1, <2>1, OneMoved, Zenon
      <3> QED BY <3>1, Zenon
    <2>3. Stream = g \o (Tail(kb_in) \o wire)
      <3>1. (g \o Tail(kb_in)) \o wire = g \o (Tail(kb_in) \o wire)
        <4>1. g \in Seq(Int) /\ Tail(kb_in) \in Seq(Int) /\ wire \in Seq(Int)
          BY <2>1, <2>2, Zenon
        <4> HIDE DEF g
        <4> QED BY <4>1, Grouping
      <3> QED BY <2>2, <3>1, Zenon DEF Stream
    <2>4. kb_in' \in Seq(Int) /\ wire' \in Seq(Int) /\ Stream = g \o (kb_in' \o wire')
      BY <1>1, <2>1, <2>2, <2>3, Zenon
    <2>5. Len(got) \in Nat
      BY <2>1
    <2> QED BY <2>2, <2>4, <2>5, Zenon
  <1> HIDE DEF g
  <1>4. /\ Len(Stream) = Len(g) + Len(kb_in' \o wire') /\ Len(kb_in' \o wire') \in Nat
        /\ \A i \in 1 .. Len(g) : Stream[i] = g[i]
        /\ \A i \in 1 .. Len(kb_in' \o wire') : Stream[Len(g) + i] = (kb_in' \o wire')[i]
    <2> DEFINE y == kb_in' \o wire'
    <2>1. y \in Seq(Int)
      BY <1>3, ConcatFacts, Zenon
    <2>2. Stream = g \o y /\ g \in Seq(Int)
      BY <1>3, Zenon
    <2> HIDE DEF y
    <2>3. Len(y) \in Nat
      BY <2>1
    <2>4. /\ Len(g \o y) = Len(g) + Len(y)
          /\ \A i \in 1 .. Len(g) : (g \o y)[i] = g[i]
          /\ \A i \in 1 .. Len(y) : (g \o y)[Len(g) + i] = y[i]
      BY <2>1, <2>2, ConcatFacts
    <2> QED BY <2>2, <2>3, <2>4, Zenon DEF y
  <1> PICK lo \in Nat, hi \in Nat : \E st, pos, want, H :
             Listed(st, pos, want, H) /\ Script(lo, hi, st, pos, want, H)
    BY DEF Scripted
  <1> PICK st, pos, want, H : Listed(st, pos, want, H) /\ Script(lo, hi, st, pos, want, H)
    OBVIOUS
  <1> DEFINE c == CodeOf(st[lo])
  <1>5. /\ lo < hi /\ pos[lo] \in Nat /\ pos[hi] \in Nat
        /\ Len(Stream) = pos[hi] - pos[lo]
    <2>1. lo <= hi /\ Len(Stream) = pos[hi] - pos[lo]
      BY DEF Script, Ends
    <2>2. pos[lo] \in Nat /\ pos[hi] \in Nat
      BY ListedFacts
    <2>3. Len(Stream) > 0
      BY <1>3, <1>4
    <2>4. lo # hi
      BY <2>1, <2>2, <2>3
    <2> QED BY <2>1, <2>2, <2>4
  <1>6. st[lo] \in Stroke /\ H[lo] \in DownSets /\ c \in Seq(Int) /\ Len(c) \in Nat \ {0}
    <2>1. st[lo] \in Stroke /\ H[lo] \in DownSets
      BY ListedFacts
    <2> QED BY <2>1, CodeType
  <1>7. Row(lo, lo, st, pos, want, H)
    <2>1. lo \in lo .. hi - 1
      BY <1>5
    <2> QED BY <2>1 DEF Script
  <1>8. Begins(g, st[lo])
    <2>1. Len(got) < Len(c)
      BY <1>3, <1>6 DEF Script, Ends, KeyTypes
    <2>2. \A i \in 1 .. Len(c) : Stream[i] = c[i]
      <3>1. pos[lo] - pos[lo] = 0
        BY <1>5
      <3>2. Piece(Stream, 0, c)
        BY <1>7, <3>1 DEF Row
      <3> HIDE DEF c
      <3> QED BY <1>6, <3>2 DEF Piece
    <2> HIDE DEF c
    <2>3. Len(g) \in 1 .. Len(c) /\ \A i \in 1 .. Len(g) : g[i] = c[i]
      <3>1. Len(g) \in 1 .. Len(c)
        BY <1>3, <1>6, <2>1
      <3>2. ASSUME NEW i \in 1 .. Len(g) PROVE g[i] = c[i]
        <4>1. i \in 1 .. Len(c)
          BY <1>6, <3>1
        <4>2. Stream[i] = c[i] /\ Stream[i] = g[i]
          BY <1>4, <2>2, <4>1
        <4> QED BY <4>2
      <3> QED BY <3>1, <3>2
    <2> QED BY <1>3, <2>3 DEF Begins, c
  <1>9. unfinished(g) <=> Len(g) < Len(c)
    BY <1>6, <1>8, UnfinishedFacts
  <1>10. CASE unfinished(g)
    <2>1. got' = g /\ mods' = mods /\ due' = due /\ wrong' = wrong
      BY <1>2, <1>10
    <2>2. KeyTypes'
      BY <1>1, <1>3, <2>1 DEF KeyTypes
    <2>3. Stream' = Stream
      <3>1. (g \o kb_in') \o wire' = g \o (kb_in' \o wire')
        BY <1>3, Grouping, Zenon
      <3> QED BY <1>3, <2>1, <3>1, Zenon DEF Stream
    <2>4. got' # <<>> => lo < hi /\ Len(got') < Len(CodeOf(st[lo]))
      BY <1>5, <1>9, <1>10, <2>1
    <2>5. Script(lo, hi, st, pos, want, H)'
      BY <1>1, <2>1, <2>3, <2>4, ByteMoves
    <2>6. ~wrong'
      BY <2>1
    <2> QED BY <2>2, <2>5, <2>6 DEF Scripted
  <1>11. CASE ~unfinished(g)
    <2>1. got' = <<>> /\ decode(g)
      BY <1>2, <1>11
    <2>2. g = c
      <3>1. Len(g) = Len(c)
        BY <1>3, <1>6, <1>8, <1>9, <1>11 DEF Begins
      <3>2. \A i \in 1 .. Len(g) : g[i] = c[i]
        BY <1>8 DEF Begins
      <3> HIDE DEF c
      <3>3. g \in Seq(Int)
        BY <1>3
      <3> QED BY <1>6, <3>1, <3>2, <3>3, SameSeq
    <2> DEFINE w == Wants(st[lo], H[lo])
    <2>3. w \in Seq(Act) /\ Len(w) \in {0, 1}
      BY <1>6, WantsType
    <2>4. /\ pos[lo + 1] = pos[lo] + Len(c) /\ pos[lo + 1] \in Nat
          /\ want[lo + 1] = want[lo] + Len(w) /\ want[lo] \in Nat /\ want[hi] \in Nat
          /\ want[lo + 1] \in Nat /\ want[lo + 1] <= want[hi] /\ H[lo + 1] = DownAfter(st[lo], H[lo])
          /\ Len(due) = want[hi] - want[lo]
      <3>1. pos[lo + 1] \in Nat /\ want[lo] \in Nat /\ want[hi] \in Nat /\ want[lo + 1] \in Nat
        <4>1. lo + 1 \in Nat
          OBVIOUS
        <4>2. pos[lo + 1] \in Nat /\ want[lo + 1] \in Nat
          BY <4>1, ListedFacts
        <4>3. want[lo] \in Nat /\ want[hi] \in Nat
          BY ListedFacts
        <4> QED BY <4>2, <4>3
      <3>2. want[lo + 1] <= want[hi]
        BY <1>5 DEF Script, Rising
      <3>3. Len(due) = want[hi] - want[lo]
        BY DEF Script, Ends
      <3> QED BY <1>7, <3>1, <3>2, <3>3 DEF Row
    <2> HIDE DEF c, w
    <2>5. due \in Seq(Act) /\ Len(w) <= Len(due) /\ Piece(due, 0, w)
      <3>1. due \in Seq(Act)
        BY DEF KeyTypes
      <3>2. want[lo] - want[lo] = 0
        BY <2>4
      <3>3. Piece(due, 0, w)
        BY <1>7, <3>2 DEF Row, w
      <3>4. Len(w) <= Len(due)
        BY <2>3, <2>4
      <3> QED BY <3>1, <3>3, <3>4
    <2>6. mods' = Flags(H[lo + 1]) /\ ~wrong' /\ due' = SubSeq(due, Len(w) + 1, Len(due))
      <3>1. mods = Flags(H[lo])
        BY DEF Script, Ends
      <3>2. IsPrefix(w, due)
        BY <2>3, <2>5, DueFirst
      <3>3. decode(CodeOf(st[lo]))
        BY <2>1, <2>2 DEF c
      <3> QED BY <1>6, <2>4, <2>5, <3>1, <3>2, <3>3, DecodeFacts DEF w
    <2>7. /\ due' \in Seq(Act) /\ Len(due') = Len(due) - Len(w)
          /\ \A i \in 1 .. Len(due) - Len(w) : due'[i] = due[Len(w) + i]
      BY <2>3, <2>5, <2>6, DueFirst
    <2>8. KeyTypes'
      BY <1>1, <1>3, <2>1, <2>7 DEF KeyTypes
    <2>9. /\ Len(Stream') = Len(Stream) - Len(c)
          /\ \A i \in 1 .. Len(Stream) - Len(c) : Stream'[i] = Stream[Len(c) + i]
      <3>1. Stream' = kb_in' \o wire'
        BY <1>3, <2>1 DEF Stream
      <3>2. Len(Stream) = Len(c) + Len(Stream') /\ Len(Stream') \in Nat
        BY <1>4, <2>2, <3>1
      <3>3. \A i \in 1 .. Len(Stream') : Stream[Len(c) + i] = Stream'[i]
        BY <1>4, <2>2, <3>1
      <3>4. Len(Stream') = Len(Stream) - Len(c)
        BY <1>6, <3>2
      <3> QED BY <3>3, <3>4
    <2>10. Ends(lo + 1, hi, st, pos, want, H)'
      <3>1. Len(Stream') = pos[hi] - pos[lo + 1]
        <4>1. pos[lo + 1] <= pos[hi]
          BY <1>5 DEF Script, Rising
        <4>2. (pos[hi] - pos[lo]) - Len(c) = pos[hi] - pos[lo + 1]
          <5>1. Len(c) \in Nat
            BY <1>6
          <5>2. pos[lo + 1] \in Nat /\ pos[lo + 1] = pos[lo] + Len(c) /\ pos[lo] \in Nat /\ pos[hi] \in Nat
            BY <1>5, <2>4
          <5>3. PICK x \in Nat, y \in Nat, z \in Nat, n \in Nat :
                       x = pos[lo] /\ y = pos[hi] /\ z = pos[lo + 1] /\ n = Len(c)
            BY <5>1, <5>2, Zenon
          <5>4. z = x + n /\ z <= y
            BY <4>1, <5>2, <5>3
          <5>5. (y - x) - n = y - z
            BY <5>4
          <5> QED BY <5>1, <5>3, <5>5, Zenon
        <4> QED BY <1>5, <2>9, <4>2, Zenon
      <3>2. Len(due') = want[hi] - want[lo + 1]
        BY <2>3, <2>4, <2>7
      <3>3. H[hi] = held'
        BY <1>1 DEF Script, Ends
      <3> QED BY <2>1, <2>6, <3>1, <3>2, <3>3 DEF Ends
    <2>11. ASSUME NEW j \in lo + 1 .. hi - 1 PROVE Row(lo + 1, j, st, pos, want, H)'
      <3>1. Row(lo, j, st, pos, want, H)
        BY DEF Script
      <3>2. /\ pos[j] \in Nat /\ want[j] \in Nat
            /\ Len(CodeOf(st[j])) \in Nat /\ Len(Wants(st[j], H[j])) \in Nat
        <4>1. j \in Nat
          OBVIOUS
        <4> QED BY <4>1, ListedFacts
      <3>3. pos[lo + 1] <= pos[j] /\ pos[j + 1] <= pos[hi] /\ want[lo + 1] <= want[j] /\ want[j + 1] <= want[hi]
        BY DEF Script, Rising
      <3> DEFINE cj == CodeOf(st[j])
                 wj == Wants(st[j], H[j])
      <3>4. pos[j + 1] = pos[j] + Len(cj) /\ want[j + 1] = want[j] + Len(wj)
        BY <3>1 DEF Row
      <3>5. Piece(Stream, pos[j] - pos[lo], cj) /\ Piece(due, want[j] - want[lo], wj)
        BY <3>1 DEF Row
      <3>6. Len(cj) \in Nat /\ Len(wj) \in Nat
        BY <3>2
      <3> HIDE DEF cj, wj
      <3>7. Piece(Stream', pos[j] - pos[lo + 1], cj)
        <4>1. /\ Len(c) <= pos[j] - pos[lo] /\ pos[j] - pos[lo] \in Nat
              /\ (pos[j] - pos[lo]) - Len(c) = pos[j] - pos[lo + 1]
          <5>1. Len(c) \in Nat
            BY <1>6
          <5>2. pos[lo + 1] \in Nat /\ pos[lo + 1] = pos[lo] + Len(c) /\ pos[lo] \in Nat /\ pos[j] \in Nat
            BY <1>5, <2>4, <3>2
          <5>3. PICK x \in Nat, y \in Nat, z \in Nat, n \in Nat :
                       x = pos[lo] /\ y = pos[j] /\ z = pos[lo + 1] /\ n = Len(c)
            BY <5>1, <5>2, Zenon
          <5>4. z = x + n /\ z <= y
            BY <3>3, <5>2, <5>3
          <5>5. n <= y - x /\ y - x \in Nat /\ (y - x) - n = y - z
            BY <5>4
          <5> QED BY <5>1, <5>3, <5>5, Zenon
        <4>2. (pos[j] - pos[lo]) + Len(cj) <= Len(Stream) /\ Len(Stream) \in Nat
          <5>1. pos[j] + Len(cj) <= pos[hi] /\ pos[lo] <= pos[j]
            <6>1. pos[lo] <= pos[j]
              BY <1>5 DEF Script, Rising
            <6> QED BY <3>3, <3>4, <6>1
          <5>2. (pos[j] - pos[lo]) + Len(cj) <= pos[hi] - pos[lo] /\ pos[hi] - pos[lo] \in Nat
            BY <1>5, <3>2, <3>6, <5>1, Between
          <5> QED BY <1>5, <5>2
        <4>3. Piece(Stream', (pos[j] - pos[lo]) - Len(c), cj)
          BY <1>6, <2>9, <3>5, <3>6, <4>1, <4>2, PieceShifted
        <4> QED BY <4>1, <4>3
      <3>8. Piece(due', want[j] - want[lo + 1], wj)
        <4>1. /\ Len(w) <= want[j] - want[lo] /\ want[j] - want[lo] \in Nat
              /\ (want[j] - want[lo]) - Len(w) = want[j] - want[lo + 1] /\ Len(w) \in Nat
          <5>1. Len(w) \in Nat
            BY <2>3
          <5>2. want[lo + 1] \in Nat /\ want[lo + 1] = want[lo] + Len(w) /\ want[lo] \in Nat /\ want[j] \in Nat
            BY <2>4, <3>2
          <5>3. PICK x \in Nat, y \in Nat, z \in Nat, n \in Nat :
                       x = want[lo] /\ y = want[j] /\ z = want[lo + 1] /\ n = Len(w)
            BY <5>1, <5>2, Zenon
          <5>4. z = x + n /\ z <= y
            BY <3>3, <5>2, <5>3
          <5>5. n <= y - x /\ y - x \in Nat /\ (y - x) - n = y - z
            BY <5>4
          <5> QED BY <5>1, <5>3, <5>5, Zenon
        <4>2. (want[j] - want[lo]) + Len(wj) <= Len(due) /\ Len(due) \in Nat
          <5>1. want[j] + Len(wj) <= want[hi] /\ want[lo] <= want[j]
            <6>1. want[lo] <= want[j]
              BY <1>5 DEF Script, Rising
            <6> QED BY <3>3, <3>4, <6>1
          <5>2. (want[j] - want[lo]) + Len(wj) <= want[hi] - want[lo] /\ want[hi] - want[lo] \in Nat
            BY <2>4, <3>2, <3>6, <5>1, Between
          <5> QED BY <2>4, <5>2
        <4>3. Piece(due', (want[j] - want[lo]) - Len(w), wj)
          BY <2>7, <3>5, <3>6, <4>1, <4>2, PieceShifted
        <4> QED BY <4>1, <4>3
      <3> QED BY <3>1, <3>7, <3>8 DEF Row, cj, wj
    <2>12. Script(lo + 1, hi, st, pos, want, H)'
      <3>1. lo + 1 <= hi
        BY <1>5
      <3>2. Rising(lo + 1, hi, pos) /\ Rising(lo + 1, hi, want)
        BY DEF Script, Rising
      <3> QED BY <2>10, <2>11, <3>1, <3>2 DEF Script, Rising
    <2>13. lo + 1 \in Nat
      OBVIOUS
    <2> QED BY <2>6, <2>8, <2>12, <2>13 DEF Scripted
  <1> QED BY <1>10, <1>11

\* A key goes down, or is held down longer.
LEMMA PressStep ==
  ASSUME KeyInv, NEW k \in Keys, press(k)
  PROVE  KeyInv'
  <1> PICK s : s = [key |-> k, down |-> TRUE]
    OBVIOUS
  <1>1. s \in Stroke /\ s.key = k /\ s.down
    BY KeyboardAssumption DEF Stroke
  <1>2. ~lost /\ wrong' = wrong /\ lost' = lost
    BY DEF press
  <1>3. KeyTypes /\ ~wrong /\ Scripted
    BY <1>2 DEF KeyInv
  <1>4. Strikes(s)
    BY <1>1 DEF press, Strikes, CodeOf, DownAfter, Wants
  <1>5. KeyTypes' /\ Scripted'
    BY <1>1, <1>3, <1>4, StrokeMade
  <1>6. ~wrong'
    BY <1>2, <1>3, Zenon
  <1> QED BY <1>5, <1>6 DEF KeyInv

\* A key goes up.
LEMMA ReleaseStep ==
  ASSUME KeyInv, NEW k \in Keys, release(k)
  PROVE  KeyInv'
  <1> PICK s : s = [key |-> k, down |-> FALSE]
    OBVIOUS
  <1>1. ~lost /\ wrong' = wrong /\ lost' = lost /\ k \in held
    BY DEF release
  <1>2. KeyTypes /\ ~wrong /\ Scripted
    BY <1>1 DEF KeyInv
  <1>3. s \in Stroke /\ s.key = k /\ ~s.down
    <2>1. k \in KeyName \ {"Pause"}
      BY <1>1, <1>2 DEF KeyTypes, DownSets
    <2> QED BY <2>1 DEF Stroke
  <1>4. Strikes(s)
    <2>1. due' = due \o <<>> /\ due' = due
      BY <1>2 DEF release, KeyTypes
    <2> QED BY <1>3, <2>1 DEF release, Strikes, CodeOf, DownAfter, Wants
  <1>5. KeyTypes' /\ Scripted'
    BY <1>2, <1>3, <1>4, StrokeMade
  <1>6. ~wrong'
    BY <1>1, <1>2, Zenon
  <1> QED BY <1>5, <1>6 DEF KeyInv

\* As long as no byte is lost, what is under way and what is due stay in step.
LEMMA KeyStep ==
  ASSUME KeyInv, [KeyboardNext]_keyboardVars
  PROVE  KeyInv'
  <1>1. CASE \E k \in Keys : press(k) \/ release(k)
    <2> PICK k \in Keys : press(k) \/ release(k)
      BY <1>1
    <2> QED BY PressStep, ReleaseStep
  <1>2. CASE keyboard_handler
    <2> SUFFICES ASSUME ~lost' PROVE KeyTypes' /\ ~wrong' /\ Scripted'
      BY DEF KeyInv
    <2>1. ~lost /\ wrong' = wrong
      BY <1>2 DEF keyboard_handler
    <2>2. KeyTypes /\ ~wrong /\ Scripted
      BY <2>1 DEF KeyInv
    <2>3. KeyTypes' /\ Scripted'
      BY <1>2, <2>2, ByteQueued
    <2>4. ~wrong'
      BY <2>1, <2>2, Zenon
    <2> QED BY <2>3, <2>4
  <1>3. CASE keyboard_read
    <2> SUFFICES ASSUME ~lost' PROVE KeyTypes' /\ ~wrong' /\ Scripted'
      BY DEF KeyInv
    <2>1. lost' = lost
      BY <1>3 DEF keyboard_read
    <2>2. KeyTypes /\ ~wrong /\ Scripted
      BY <2>1, Zenon DEF KeyInv
    <2> QED BY <1>3, <2>2, ByteTaken
  <1>4. CASE UNCHANGED keyboardVars
    <2>1. /\ kb_in' = kb_in /\ got' = got /\ mods' = mods /\ wire' = wire /\ held' = held
          /\ due' = due /\ wrong' = wrong /\ lost' = lost
      BY <1>4 DEF keyboardVars
    <2> SUFFICES ASSUME ~lost' PROVE KeyTypes' /\ ~wrong' /\ Scripted'
      BY DEF KeyInv
    <2>2. KeyTypes /\ ~wrong /\ Scripted
      BY <2>1, Zenon DEF KeyInv
    <2>3. KeyTypes'
      BY <2>1, <2>2 DEF KeyTypes
    <2>4. ~wrong'
      BY <2>1, <2>2, Zenon
    <2> PICK lo \in Nat, hi \in Nat : \E st, pos, want, H :
               Listed(st, pos, want, H) /\ Script(lo, hi, st, pos, want, H)
      BY <2>2 DEF Scripted
    <2> PICK st, pos, want, H : Listed(st, pos, want, H) /\ Script(lo, hi, st, pos, want, H)
      OBVIOUS
    <2>5. Script(lo, hi, st, pos, want, H)'
      <3>1. got' # <<>> => lo < hi /\ Len(got') < Len(CodeOf(st[lo]))
        BY <2>1 DEF Script, Ends
      <3>2. Stream' = Stream
        BY <2>1 DEF Stream
      <3> QED BY <2>1, <3>1, <3>2, ByteMoves
    <2> QED BY <2>3, <2>4, <2>5 DEF Scripted
  <1> QED BY <1>1, <1>2, <1>3, <1>4 DEF KeyboardNext

\* KeyInv, for a ring of any size and any set of the keys.
THEOREM KeysInvariance == KeyboardSpec => []KeyInv
  <1>1. KeyboardInit => KeyInv
    BY NoneUnderWay
  <1>2. KeyInv /\ [KeyboardNext]_keyboardVars => KeyInv'
    BY KeyStep
  <1> QED BY <1>1, <1>2, PTL DEF KeyboardSpec

\* Nothing comes about that the user did not ask for.
THEOREM NothingElse == KeyboardSpec => []OnlyWhatWasMeant
  <1>1. KeyInv => OnlyWhatWasMeant
    BY DEF KeyInv, OnlyWhatWasMeant
  <1> QED BY <1>1, KeysInvariance, PTL

\* When the driver has caught up it is done with every stroke.
THEOREM NoneLeftOver == KeyboardSpec => []CaughtUp
  <1>1. KeyInv => CaughtUp
    <2> SUFFICES ASSUME KeyTypes, Scripted, wire = <<>>, kb_in = <<>>
                 PROVE  got = <<>> /\ due = <<>> /\ mods = UNION {flagOf(k) : k \in held}
      BY DEF KeyInv, CaughtUp
    <2>1. Stream = got /\ Len(got) \in Nat /\ Len(due) \in Nat
      BY DEF Stream, KeyTypes
    <2> PICK lo \in Nat, hi \in Nat : \E st, pos, want, H :
               Listed(st, pos, want, H) /\ Script(lo, hi, st, pos, want, H)
      BY DEF Scripted
    <2> PICK st, pos, want, H : Listed(st, pos, want, H) /\ Script(lo, hi, st, pos, want, H)
      OBVIOUS
    <2>2. lo = hi
      <3> SUFFICES ASSUME lo # hi PROVE FALSE
        OBVIOUS
      <3>1. lo < hi /\ Rising(lo, hi, pos) /\ Row(lo, lo, st, pos, want, H)
        <4>1. lo <= hi
          BY DEF Script
        <4>2. lo \in lo .. hi - 1
          BY <4>1
        <4> QED BY <4>1, <4>2 DEF Script
      <3>2. pos[lo + 1] = pos[lo] + Len(CodeOf(st[lo])) /\ pos[lo + 1] <= pos[hi]
        BY <3>1 DEF Row, Rising
      <3>3. Len(got) = pos[hi] - pos[lo]
        BY <2>1 DEF Script, Ends
      <3>4. pos[lo] \in Nat /\ pos[hi] \in Nat /\ Len(CodeOf(st[lo])) \in Nat \ {0}
        BY ListedFacts
      <3>5. got # <<>> => Len(got) < Len(CodeOf(st[lo]))
        BY DEF Script, Ends
      <3>6. got = <<>> => Len(got) = 0
        OBVIOUS
      <3> HIDE DEF Stream
      <3>7. Len(got) < Len(CodeOf(st[lo]))
        BY <3>4, <3>5, <3>6
      <3> QED BY <3>2, <3>3, <3>4, <3>7, Past
    <2>3. pos[lo] \in Nat /\ want[lo] \in Nat
      BY ListedFacts
    <2>4. Len(got) = 0 /\ Len(due) = 0
      BY <2>1, <2>2, <2>3 DEF Script, Ends
    <2>5. got = <<>> /\ due = <<>>
      BY <2>4 DEF KeyTypes
    <2>6. mods = Flags(held)
      BY <2>2 DEF Script, Ends
    <2> QED BY <2>5, <2>6 DEF Flags
  <1> QED BY <1>1, KeysInvariance, PTL
=============================================================================
