------------------------------ MODULE TtyInput ------------------------------
(***************************************************************************)
(* The input side of the terminals (src/kernel/tty.c): task_tty puts the   *)
(* keys of the current console into the ring of its tty, task_fs takes     *)
(* them out again, one line per READ request.                              *)
(*                                                                         *)
(* Both tasks run in ring 1 with interrupts on, and the calls that would   *)
(* mask them around the reader are commented out.  inbuf_count++ and       *)
(* inbuf_count-- are a load and a store in the build the makefile makes    *)
(* (no optimisation), and torn remembers that one has undone the other.    *)
(* How scan codes become keys is module Keyboard.                          *)
(***************************************************************************)
EXTENDS Integers, Sequences

CONSTANTS
  NR_CONSOLES,     \* consoles, and ttys: 0 .. NR_CONSOLES - 1
  NR_FKEYS,        \* the keys F1, F2, ... that select a console with Alt
  TTY_IN_BYTES,    \* the size of a ring
  Char,            \* keys that are plain characters
  Enter, Backspace,
  MaxLine          \* bound: keys on a line before its Enter

Tty == 0 .. NR_CONSOLES - 1
Key == Char \cup {Enter, Backspace}
Slot == 0 .. TTY_IN_BYTES - 1

ASSUME TtyAssumption ==
  /\ NR_CONSOLES \in Nat \ {0} /\ NR_FKEYS \in Nat
  /\ TTY_IN_BYTES \in Nat \ {0}
  /\ Enter # Backspace /\ Enter \notin Char /\ Backspace \notin Char
  /\ MaxLine \in Nat

VARIABLES
  nr_current_console,
  in_buf, p_inbuf_head, p_inbuf_tail, inbuf_count,   \* the ring of each tty
  tty,      \* task_tty: where it is, and the inbuf_count it has loaded
  fs,       \* task_fs: where it is, for which tty, its ch, cnt and loaded count
  unread,   \* history: the keys put into each ring and not yet taken out
  torn      \* history: a store to inbuf_count has undone the other task's

vars == <<nr_current_console, in_buf, p_inbuf_head, p_inbuf_tail, inbuf_count,
          tty, fs, unread, torn>>

ring == <<in_buf, p_inbuf_head, p_inbuf_tail, unread>>

fsIdle == [at |-> "idle", tty |-> 0, ch |-> Enter, cnt |-> 0, load |-> 0]

\* init_tty for each tty, select_console(0).
Init ==
  /\ nr_current_console = 0
  /\ in_buf = [t \in Tty |-> [i \in Slot |-> Enter]]
  /\ p_inbuf_head = [t \in Tty |-> 0] /\ p_inbuf_tail = [t \in Tty |-> 0]
  /\ inbuf_count = [t \in Tty |-> 0]
  /\ tty = [at |-> "poll", load |-> 0]
  /\ fs = fsIdle
  /\ unread = [t \in Tty |-> <<>>]
  /\ torn = FALSE

next_unwrapped(i) == IF i = TTY_IN_BYTES - 1 THEN i ELSE i + 1

\* p++, and back to the start of the buffer at its end.
next_slot(i) == IF i + 1 = TTY_IN_BYTES THEN 0 ELSE i + 1

----------------------------------------------------------------------------
(* task_tty *)

\* Alt + Fn: select_console, which ignores a console that does not exist.
select_console(n) ==
  /\ tty.at = "poll"
  /\ nr_current_console' = IF n \in Tty THEN n ELSE nr_current_console
  /\ UNCHANGED <<in_buf, p_inbuf_head, p_inbuf_tail, inbuf_count, tty, fs, unread, torn>>

\* Bound: the keys that are in the ring or on the line with the reader; there
\* is always room for the Enter.
typeable(t, k) ==
  LET held == fs.cnt + (IF fs.at \in {"load", "store"} THEN 1 ELSE 0)
      n == Len(unread[t]) + (IF fs.tty = t THEN held ELSE 0)
  IN IF k = Enter THEN n <= MaxLine ELSE n < MaxLine

has_room_late(t) == inbuf_count[t] <= TTY_IN_BYTES

has_room(t) == inbuf_count[t] < TTY_IN_BYTES

\* in_process and put_key: the key goes into the ring of the current console.
\* Without room nothing changes, and the key is lost.
put_key(k) ==
  LET t == nr_current_console
  IN /\ tty.at = "poll" /\ has_room(t)
     /\ typeable(t, k)
     /\ in_buf' = [in_buf EXCEPT ![t][p_inbuf_head[t]] = k]
     /\ p_inbuf_head' = [p_inbuf_head EXCEPT ![t] = next_slot(@)]
     /\ unread' = [unread EXCEPT ![t] = Append(@, k)]
     /\ tty' = [tty EXCEPT !.at = "load"]
     /\ UNCHANGED <<nr_current_console, p_inbuf_tail, inbuf_count, fs, torn>>

\* inbuf_count++
put_load ==
  /\ tty.at = "load"
  /\ tty' = [at |-> "store", load |-> inbuf_count[nr_current_console]]
  /\ UNCHANGED <<nr_current_console, ring, inbuf_count, fs, torn>>

put_store ==
  /\ tty.at = "store"
  /\ inbuf_count' = [inbuf_count EXCEPT ![nr_current_console] = tty.load + 1]
  /\ tty' = [at |-> "poll", load |-> 0]
  /\ torn' = (torn \/ inbuf_count[nr_current_console] # tty.load)
  /\ UNCHANGED <<nr_current_console, ring, fs>>

----------------------------------------------------------------------------
(* task_fs *)

\* A READ request from a process of tty t: do_read.
read_start(t) ==
  /\ fs.at = "idle"
  /\ fs' = [fsIdle EXCEPT !.at = "get", !.tty = t]
  /\ UNCHANGED <<nr_current_console, ring, inbuf_count, tty, torn>>

get_at_once(t) == TRUE

\* while(p_tty->inbuf_count <= 0){}
has_key(t) == inbuf_count[t] > 0

\* get_char_form_tty: ch = *(p_inbuf_tail), p_inbuf_tail++.
get_take ==
  LET t == fs.tty
  IN /\ fs.at = "get" /\ has_key(t) /\ fs.cnt <= MaxLine
     /\ p_inbuf_tail' = [p_inbuf_tail EXCEPT ![t] = next_slot(@)]
     /\ fs' = [fs EXCEPT !.at = "load", !.ch = in_buf[t][p_inbuf_tail[t]]]
     /\ unread' = [unread EXCEPT ![t] = IF @ = <<>> THEN @ ELSE Tail(@)]
     /\ UNCHANGED <<nr_current_console, in_buf, p_inbuf_head, inbuf_count, tty, torn>>

\* inbuf_count--
get_load ==
  /\ fs.at = "load"
  /\ fs' = [fs EXCEPT !.at = "store", !.load = inbuf_count[fs.tty]]
  /\ UNCHANGED <<nr_current_console, ring, inbuf_count, tty, torn>>

\* The body of do_read's loop: a Backspace takes back the last character, any
\* other key, and a Backspace with nothing to take back, is one more of them.
more(c) == IF c.ch = Backspace /\ c.cnt > 0 THEN c.cnt - 1 ELSE c.cnt + 1

\* The Enter ends the line; task_fs answers with cnt and is free again.
get_store ==
  /\ fs.at = "store"
  /\ inbuf_count' = [inbuf_count EXCEPT ![fs.tty] = fs.load - 1]
  /\ fs' = IF fs.ch = Enter THEN fsIdle
           ELSE [fs EXCEPT !.at = "get", !.cnt = more(fs), !.load = 0]
  /\ torn' = (torn \/ inbuf_count[fs.tty] # fs.load)
  /\ UNCHANGED <<nr_current_console, ring, tty>>

----------------------------------------------------------------------------

TtyStep == put_load \/ put_store
FsStep == get_take \/ get_load \/ get_store

Next ==
  \/ \E n \in 0 .. NR_FKEYS - 1 : select_console(n)
  \/ \E k \in Key : put_key(k)
  \/ \E t \in Tty : read_start(t)
  \/ TtyStep \/ FsStep

\* Both tasks are READY all the time and the scheduler runs each again; nobody
\* need type.
Spec == Init /\ [][Next]_vars /\ WF_vars(TtyStep) /\ WF_vars(FsStep)

----------------------------------------------------------------------------

\* The slot i places after slot s, for i up to the size of the ring.
After(s, i) == IF s + i < TTY_IN_BYTES THEN s + i ELSE s + i - TTY_IN_BYTES

\* The ring is a queue: from p_inbuf_tail on it holds the keys that were put
\* in and not yet taken out, in their order, and inbuf_count is their number,
\* but for the step that each side is about to take, as long as neither side
\* has undone a step of the other.
RingExact ==
  ~torn => \A t \in Tty :
    LET late == IF tty.at # "poll" /\ nr_current_console = t THEN 1 ELSE 0
        early == IF fs.at \in {"load", "store"} /\ fs.tty = t THEN 1 ELSE 0
    IN /\ Len(unread[t]) <= TTY_IN_BYTES
       /\ inbuf_count[t] = Len(unread[t]) - late + early
       /\ \A i \in 1 .. Len(unread[t]) :
            in_buf[t][After(p_inbuf_tail[t], i - 1)] = unread[t][i]

\* Whatever the two tasks do to the count, head, tail and count stay inside
\* the buffer.
InBounds ==
  \A t \in Tty :
    /\ p_inbuf_head[t] \in Slot /\ p_inbuf_tail[t] \in Slot
    /\ inbuf_count[t] \in 0 .. TTY_IN_BYTES

\* "inbuf_count guarantees that there is data": the reader that has seen a
\* positive count finds a key that was typed and not yet read.
CountGuaranteesData ==
  fs.at = "get" /\ inbuf_count[fs.tty] > 0 => unread[fs.tty] # <<>>

\* A line that has been typed to its end is read to its end.
LinesAreRead ==
  \A t \in Tty :
    (fs.at # "idle" /\ fs.tty = t /\ \E i \in 1 .. Len(unread[t]) : unread[t][i] = Enter)
      ~> (fs.at = "idle" \/ torn)
=============================================================================
