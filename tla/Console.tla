------------------------------ MODULE Console ------------------------------
(***************************************************************************)
(* The consoles (src/kernel/console.c): each owns a part of the video      *)
(* memory, has a cursor in it and shows a window of it; the CRT controller *)
(* shows the current one.                                                  *)
(*                                                                         *)
(* Two kinds of callers: the system calls sys_write and sys_printx, in     *)
(* ring 0, where the clock does not change the process, so that out_char   *)
(* is one step; and task_tty, which echoes keys, scrolls and changes the   *)
(* console in ring 1, where any system call may come between two of its    *)
(* memory accesses; raced remembers that one came that prints on the same  *)
(* console.                                                                *)
(*                                                                         *)
(* The fields of a CONSOLE are unsigned int.  A cursor is taken modulo     *)
(* UINT, the 2^32 of the code: it may pass 0.  A window stays within the   *)
(* video memory, which WindowOnLines shows, and needs no width.            *)
(***************************************************************************)
EXTENDS Integers, FiniteSetsExt

CONSTANTS
  NR_CONSOLES,
  SCREEN_WIDTH, SCREEN_SIZE,   \* in characters
  v_mem_limit,                 \* the part of one console, in characters
  UINT,                        \* the values of an unsigned int, 2^32
  ProgChar                     \* what programs print

Char == {"c", "nl", "bs"}      \* a character, '\n' and '\b'
Con == 0 .. NR_CONSOLES - 1

ASSUME ConsoleAssumption ==
  /\ NR_CONSOLES \in Nat \ {0} /\ SCREEN_WIDTH \in Nat \ {0}
  /\ SCREEN_SIZE \in Nat /\ v_mem_limit \in Nat
  /\ 2 < SCREEN_SIZE /\ SCREEN_SIZE < v_mem_limit
  /\ SCREEN_WIDTH <= SCREEN_SIZE
  /\ UINT \in Nat /\ NR_CONSOLES * v_mem_limit + 2 * SCREEN_WIDTH < UINT
  /\ ProgChar \subseteq Char

VARIABLES
  nr_current_console,
  cursor, current_start_addr,   \* of each console
  crtc,                         \* the registers CURSOR and START_ADDR
  tty,                          \* task_tty: where it is and its local variables
  spins,                        \* ring 0 is in the while of out_char for ever
  stray,                        \* history: a cell of another console was written
  raced                         \* history: a program printed where task_tty was at work

vars == <<nr_current_console, cursor, current_start_addr, crtc, tty, spins, stray, raced>>

original_addr(c) == c * v_mem_limit
limit(c) == original_addr(c) + v_mem_limit

\* What an unsigned int holds of x.
u32(x) == x % UINT

\* task_tty at a place of its code, on a console, with nothing loaded.
ttyAt(a, c) == [at |-> a, con |-> c, ch |-> "c", p |-> 0, load |-> 0, then |-> "idle"]
ttyIdle == ttyAt("idle", 0)

\* init_screen for each console, the first behind the messages of the boot
\* (disp_pos / 2), the others with their number; then select_console(0).
Init ==
  /\ nr_current_console = 0
  /\ cursor \in [Con -> 0 .. NR_CONSOLES * v_mem_limit]
  /\ cursor[0] < v_mem_limit
  /\ \A c \in Con \ {0} : cursor[c] = original_addr(c) + 2
  /\ current_start_addr = [c \in Con |-> original_addr(c)]
  /\ crtc = [cursor |-> cursor[0], start |-> 0]
  /\ tty = ttyIdle
  /\ spins = FALSE
  /\ stray = FALSE
  /\ raced = FALSE

----------------------------------------------------------------------------
(* out_char, in parts *)

late_limit(c, ch, cur) ==
  CASE ch = "nl" -> cur < limit(c) - SCREEN_WIDTH
    [] ch = "bs" -> cur > original_addr(c)
    [] ch = "c" -> cur < limit(c)

bs_unguarded(c, ch, cur) ==
  CASE ch = "nl" -> cur < limit(c) - SCREEN_WIDTH
    [] ch = "bs" -> TRUE
    [] ch = "c" -> cur < limit(c) - 1

\* The test before the cursor is moved.
moves(c, ch, cur) ==
  CASE ch = "nl" -> cur < limit(c) - SCREEN_WIDTH
    [] ch = "bs" -> cur > original_addr(c)
    [] ch = "c" -> cur < limit(c) - 1

\* Where the cursor goes.
moved(c, ch, cur) ==
  CASE ch = "nl" -> u32(original_addr(c)
                        + SCREEN_WIDTH * (u32(cur - original_addr(c)) \div SCREEN_WIDTH + 1))
    [] ch = "bs" -> u32(cur - 1)
    [] ch = "c" -> u32(cur + 1)

\* The cell that is written, p_vmem being the place of the cursor, is outside.
outside(c, ch, p) ==
  CASE ch = "nl" -> FALSE
    [] ch = "bs" -> p - 1 \notin original_addr(c) .. limit(c) - 1
    [] ch = "c" -> p \notin original_addr(c) .. limit(c) - 1

scrolls_within(c, s) == s + SCREEN_SIZE + SCREEN_WIDTH <= limit(c)

scrolls_to_end(c, s) == s < limit(c)

\* scroll_screen(SCR_DN) moves the window.
can_scroll(c, s) == s + SCREEN_SIZE < limit(c)

\* The cursor is behind the window: the condition of the while.
behind(cur, s) == cur >= s + SCREEN_SIZE

\* The window when the while ends or scroll_screen moves it no more.
settled(c, cur, s) ==
  Min({x \in {s + k * SCREEN_WIDTH : k \in 0 .. v_mem_limit} :
         ~behind(cur, x) \/ ~can_scroll(c, x)})

flush_never(c) == FALSE

\* flush and the end of scroll_screen: only the current console is shown.
is_current_console(c) == c = nr_current_console

----------------------------------------------------------------------------
(* sys_write and sys_printx: out_char for one character *)

\* When the window cannot scroll to the cursor, the while never ends, and in
\* ring 0 no other process runs any more.
print(c, ch) ==
  /\ LET go == moves(c, ch, cursor[c])
         cur == IF go THEN moved(c, ch, cursor[c]) ELSE cursor[c]
         s == settled(c, cur, current_start_addr[c])
     IN /\ cursor' = [cursor EXCEPT ![c] = cur]
        /\ current_start_addr' = [current_start_addr EXCEPT ![c] = s]
        /\ crtc' = IF is_current_console(c) THEN [cursor |-> cur, start |-> s] ELSE crtc
        /\ spins' = behind(cur, s)
        /\ stray' = (stray \/ (go /\ outside(c, ch, cursor[c])))
        /\ raced' = (raced \/ (tty.at # "idle" /\ tty.con = c))
  /\ UNCHANGED <<nr_current_console, tty>>

\* scroll_screen in that while: it moves nothing and shows the same again.
spin ==
  /\ spins
  /\ UNCHANGED vars

----------------------------------------------------------------------------
(* task_tty: one memory access of a shared field in each step *)

\* in_process echoes the key: out_char computes p_vmem.
echo(ch) ==
  /\ tty.at = "idle"
  /\ tty' = [ttyAt("test", nr_current_console) EXCEPT !.ch = ch,
                                                       !.p = cursor[nr_current_console]]
  /\ UNCHANGED <<nr_current_console, cursor, current_start_addr, crtc, spins, stray, raced>>

\* The test, and the write to the cell.
echo_test ==
  /\ tty.at = "test"
  /\ LET go == moves(tty.con, tty.ch, cursor[tty.con])
     IN /\ tty' = IF go THEN [tty EXCEPT !.at = "load", !.p = 0] ELSE ttyAt("loop", tty.con)
        /\ stray' = (stray \/ (go /\ outside(tty.con, tty.ch, tty.p)))
  /\ UNCHANGED <<nr_current_console, cursor, current_start_addr, crtc, spins, raced>>

\* cursor++, cursor--, or the start of the next line.
echo_load ==
  /\ tty.at = "load"
  /\ tty' = [tty EXCEPT !.at = "store", !.load = cursor[tty.con]]
  /\ UNCHANGED <<nr_current_console, cursor, current_start_addr, crtc, spins, stray, raced>>

echo_store ==
  /\ tty.at = "store"
  /\ cursor' = [cursor EXCEPT ![tty.con] = moved(tty.con, tty.ch, tty.load)]
  /\ tty' = ttyAt("loop", tty.con)
  /\ UNCHANGED <<nr_current_console, current_start_addr, crtc, spins, stray, raced>>

\* The while: scroll_screen(SCR_DN), or on to flush.
echo_loop ==
  /\ tty.at = "loop"
  /\ tty' = IF behind(cursor[tty.con], current_start_addr[tty.con])
            THEN [tty EXCEPT !.at = "down", !.then = "loop"]
            ELSE [tty EXCEPT !.at = "set_cursor", !.then = "idle"]
  /\ UNCHANGED <<nr_current_console, cursor, current_start_addr, crtc, spins, stray, raced>>

\* Shift + Up or Down: scroll_screen from the keyboard.
scroll(dir) ==
  /\ tty.at = "idle"
  /\ tty' = ttyAt(dir, nr_current_console)
  /\ UNCHANGED <<nr_current_console, cursor, current_start_addr, crtc, spins, stray, raced>>

\* scroll_screen: the test of the window, then current_start_addr -+= SCREEN_WIDTH.
scroll_test ==
  /\ tty.at \in {"up", "down"}
  /\ LET s == current_start_addr[tty.con]
         go == IF tty.at = "up" THEN s > original_addr(tty.con) ELSE can_scroll(tty.con, s)
     IN tty' = [tty EXCEPT !.at = IF ~go THEN "set_cursor"
                                  ELSE IF @ = "up" THEN "up_load" ELSE "down_load"]
  /\ UNCHANGED <<nr_current_console, cursor, current_start_addr, crtc, spins, stray, raced>>

scroll_load ==
  /\ tty.at \in {"up_load", "down_load"}
  /\ tty' = [tty EXCEPT !.at = IF @ = "up_load" THEN "up_store" ELSE "down_store",
                        !.load = current_start_addr[tty.con]]
  /\ UNCHANGED <<nr_current_console, cursor, current_start_addr, crtc, spins, stray, raced>>

scroll_store ==
  /\ tty.at \in {"up_store", "down_store"}
  /\ current_start_addr' = [current_start_addr EXCEPT ![tty.con] =
       IF tty.at = "up_store" THEN tty.load - SCREEN_WIDTH ELSE tty.load + SCREEN_WIDTH]
  /\ tty' = [tty EXCEPT !.at = "set_cursor", !.load = 0]
  /\ UNCHANGED <<nr_current_console, cursor, crtc, spins, stray, raced>>

\* Alt + Fn.
select_console(n) ==
  /\ tty.at = "idle"
  /\ nr_current_console' = n
  /\ tty' = ttyAt("set_cursor", n)
  /\ UNCHANGED <<cursor, current_start_addr, crtc, spins, stray, raced>>

\* set_cursor and set_video_start_addr: the argument is read, then the
\* registers are written with interrupts masked.  The order of the two calls
\* differs from caller to caller and is taken to be this one.
set_cursor ==
  /\ tty.at = "set_cursor"
  /\ tty' = IF is_current_console(tty.con)
            THEN [tty EXCEPT !.at = "out_cursor", !.load = cursor[tty.con]]
            ELSE [tty EXCEPT !.at = tty.then]
  /\ UNCHANGED <<nr_current_console, cursor, current_start_addr, crtc, spins, stray, raced>>

out_cursor ==
  /\ tty.at = "out_cursor"
  /\ crtc' = [crtc EXCEPT !.cursor = tty.load]
  /\ tty' = [tty EXCEPT !.at = "set_start", !.load = 0]
  /\ UNCHANGED <<nr_current_console, cursor, current_start_addr, spins, stray, raced>>

set_video_start_addr ==
  /\ tty.at = "set_start"
  /\ tty' = [tty EXCEPT !.at = "out_start", !.load = current_start_addr[tty.con]]
  /\ UNCHANGED <<nr_current_console, cursor, current_start_addr, crtc, spins, stray, raced>>

out_start ==
  /\ tty.at = "out_start"
  /\ crtc' = [crtc EXCEPT !.start = tty.load]
  /\ tty' = IF tty.then = "idle" THEN ttyIdle ELSE [tty EXCEPT !.at = tty.then, !.load = 0]
  /\ UNCHANGED <<nr_current_console, cursor, current_start_addr, spins, stray, raced>>

----------------------------------------------------------------------------

TtyStep ==
  /\ ~spins
  /\ \/ echo_test \/ echo_load \/ echo_store \/ echo_loop
     \/ scroll_test \/ scroll_load \/ scroll_store
     \/ set_cursor \/ out_cursor \/ set_video_start_addr \/ out_start

Next ==
  \/ /\ ~spins
     /\ \/ \E c \in Con, ch \in ProgChar : print(c, ch)
        \/ \E ch \in Char : echo(ch)
        \/ \E dir \in {"up", "down"} : scroll(dir)
        \/ \E n \in Con : select_console(n)
  \/ TtyStep
  \/ spin

\* task_tty is READY all the time.
Spec == Init /\ [][Next]_vars /\ WF_vars(TtyStep)

----------------------------------------------------------------------------

\* Consoles keep apart: no console ever writes into the part of another, its
\* cursor stays in its own part, and no system call that prints stays in the
\* loop of out_char, as long as no program has printed on a console that
\* task_tty was working on.
ConsolesApart ==
  ~raced =>
    /\ ~stray /\ ~spins
    /\ \A c \in Con : cursor[c] \in original_addr(c) .. limit(c) - 1

\* What the controller shows is the current console, its window and its cursor,
\* whenever task_tty is idle, after any printing, scrolling and change of the
\* console.  A program that prints where task_tty is at work is left out: what
\* it did to the registers may be lost.
ShowsCurrent ==
  ~raced /\ tty.at = "idle" =>
    /\ crtc.cursor = cursor[nr_current_console]
    /\ crtc.start = current_start_addr[nr_current_console]

\* The window starts at the start of a line of its console and passes the end
\* of the console by less than a line, or by less than two when a program and
\* task_tty have both scrolled it.
WindowOnLines ==
  \A c \in Con :
    LET off == current_start_addr[c] - original_addr(c)
    IN /\ off >= 0 /\ off % SCREEN_WIDTH = 0
       /\ off + SCREEN_SIZE < v_mem_limit + 2 * SCREEN_WIDTH
       /\ ~raced => off + SCREEN_SIZE < v_mem_limit + SCREEN_WIDTH

\* task_tty is in the loop of out_char on console c, or in what the loop calls.
in_loop(c) == tty.con = c /\ (tty.at = "loop" \/ tty.then = "loop")

\* A cursor that has passed 0, the beginning of the first console.
wrapped(cur) == cur \in {UINT - 1, UINT - 2}

\* When task_tty and the programs race for the cursor it passes the end of its
\* part by less than a line and its beginning by no more than a character,
\* except on the first console, where that character is before address 0: the
\* cursor is then the greatest unsigned int, and whoever is in out_char on that
\* console, task_tty or a system call, never comes out of its loop.
CursorNear ==
  \A c \in Con :
    \/ cursor[c] + 1 >= original_addr(c) /\ cursor[c] < limit(c) + SCREEN_WIDTH
    \/ c = 0 /\ wrapped(cursor[c]) /\ (spins \/ in_loop(c))

\* task_tty is done with a key at some time: the loop that scrolls the window
\* after the cursor comes to an end, unless a program printed in between.
EchoEnds == (tty.at # "idle") ~> (tty.at = "idle" \/ raced)
=============================================================================
