--------------------------- MODULE ConsoleProofs ---------------------------
(***************************************************************************)
(* The consoles for any number of them, any screen and any part of the     *)
(* video memory larger than a screen.                                      *)
(***************************************************************************)
EXTENDS Console, TLAPS, WellFoundedInduction

\* A set of integers with a lower bound has a least element, and Min finds it.
LEMMA MinFacts ==
  ASSUME NEW S \in SUBSET Int, S # {}, NEW b \in Int, \A x \in S : b <= x
  PROVE  Min(S) \in S /\ \A y \in S : Min(S) <= y
<1> DEFINE T == {x - b : x \in S}
<1>1. T \subseteq Nat /\ T # {}
  <2>1. \A x \in S : x - b \in Nat
    OBVIOUS
  <2> QED
    BY <2>1
<1>2. PICK m \in T : \A y \in T : ~ (<<y, m>> \in OpToRel(<, Nat))
  BY <1>1, NatLessThanWellFounded, WFMin
<1>3. \A y \in T : ~ (y < m)
  BY <1>1, <1>2 DEF OpToRel
<1>4. PICK x \in S : m = x - b
  OBVIOUS
<1>5. ASSUME NEW y \in S PROVE x <= y
  <2>1. y - b \in T
    OBVIOUS
  <2>2. ~ (y - b < x - b)
    BY <1>3, <1>4, <2>1
  <2> QED
    BY <2>2
<1> QED
  BY <1>5 DEF Min

\* Numbers of whole lines.
LEMMA LineFacts ==
  ASSUME NEW w \in Nat \ {0}, NEW x \in Int
  PROVE  /\ x \div w \in Int
         /\ w * (x \div w + 1) > x /\ w * (x \div w + 1) <= x + w
         /\ x % w = 0 => /\ \A k \in Int : (x + k * w) % w = 0
                         /\ (x + w) % w = 0 /\ (x - w) % w = 0
                         /\ x > 0 => x >= w
<1>1. w \in Int /\ w > 0 /\ x \div w \in Int
  OBVIOUS
<1>2. w * (x \div w + 1) > x /\ w * (x \div w + 1) <= x + w
  OBVIOUS
<1>3. ASSUME NEW q \in Int PROVE (w * q) % w = 0
  OBVIOUS
<1>4. ASSUME x % w = 0, NEW k \in Int PROVE (x + k * w) % w = 0
  <2>1. x = w * (x \div w)
    BY <1>1, <1>4
  <2>2. PICK q \in Int : x = w * q
    BY <1>1, <2>1
  <2>3. x + k * w = w * (q + k) /\ q + k \in Int
    BY <2>2
  <2> QED
    BY <1>3, <2>3
<1>5. ASSUME x % w = 0 PROVE (x + w) % w = 0 /\ (x - w) % w = 0
  <2>1. 1 \in Int /\ -1 \in Int /\ x + 1 * w = x + w /\ x + (-1) * w = x - w
    OBVIOUS
  <2>2. (x + 1 * w) % w = 0 /\ (x + (-1) * w) % w = 0
    BY <1>4, <1>5, <2>1, Zenon
  <2> QED
    BY <2>1, <2>2
<1>6. ASSUME x % w = 0, x > 0 PROVE x >= w
  BY <1>6
<1> QED
  BY <1>1, <1>2, <1>4, <1>5, <1>6

\* The parts of the consoles are addresses, each has v_mem_limit of them, and
\* they are below the end of an unsigned int by more than two lines.
LEMMA AddrFacts ==
  /\ SCREEN_WIDTH \in Nat \ {0} /\ v_mem_limit \in Nat /\ SCREEN_SIZE \in Nat /\ UINT \in Nat
  /\ 2 < SCREEN_SIZE /\ SCREEN_SIZE < v_mem_limit /\ SCREEN_WIDTH <= SCREEN_SIZE
  /\ 0 \in Con /\ original_addr(0) = 0
  /\ \A c \in Con : /\ c \in Int /\ original_addr(c) \in Nat /\ limit(c) \in Nat
                    /\ limit(c) = original_addr(c) + v_mem_limit
                    /\ limit(c) + 2 * SCREEN_WIDTH < UINT
                    /\ c # 0 => original_addr(c) > 0
<1>1. ASSUME NEW c \in Con
      PROVE  /\ c \in Int /\ c * v_mem_limit \in Nat
             /\ c * v_mem_limit + v_mem_limit + 2 * SCREEN_WIDTH < UINT
             /\ c # 0 => c * v_mem_limit > 0
  <2>1. PICK v \in Nat, n \in Nat, w \in Nat :
          /\ v = v_mem_limit /\ n = NR_CONSOLES /\ w = SCREEN_WIDTH
          /\ v > 0 /\ n * v + 2 * w < UINT
    BY ConsoleAssumption
  <2>2. c \in Nat /\ c + 1 <= n /\ UINT \in Nat
    BY <2>1, ConsoleAssumption DEF Con
  <2>3. c * v \in Nat /\ n * v \in Nat /\ (c + 1) * v <= n * v /\ (c # 0 => c * v > 0)
    BY <2>1, <2>2
  <2>4. (c + 1) * v = c * v + v
    BY <2>1, <2>2
  <2> QED
    BY <2>1, <2>2, <2>3, <2>4
<1>2. 0 \in Con /\ 0 * v_mem_limit = 0
  BY ConsoleAssumption DEF Con
<1>3. ASSUME NEW c \in Con
      PROVE  /\ c \in Int /\ original_addr(c) \in Nat /\ limit(c) \in Nat
             /\ limit(c) = original_addr(c) + v_mem_limit
             /\ limit(c) + 2 * SCREEN_WIDTH < UINT
             /\ c # 0 => original_addr(c) > 0
  <2>1. PICK a \in Nat : a = c * v_mem_limit
    BY <1>1
  <2>2. PICK v \in Nat : v = v_mem_limit
    BY ConsoleAssumption
  <2>3. c \in Int /\ a + v + 2 * SCREEN_WIDTH < UINT /\ (c # 0 => a > 0)
    BY <1>1, <2>1, <2>2
  <2>4. original_addr(c) = a /\ limit(c) = a + v
    BY <2>1, <2>2 DEF original_addr, limit
  <2> QED
    BY <2>2, <2>3, <2>4
<1> QED
  BY <1>2, <1>3, ConsoleAssumption DEF original_addr

\* An unsigned int: what is in range is kept, what is not comes round once.
LEMMA U32Facts ==
  ASSUME NEW x \in Int
  PROVE  /\ u32(x) \in Nat
         /\ x >= 0 /\ x < UINT => u32(x) = x
         /\ x >= UINT /\ x < UINT + UINT => u32(x) = x - UINT
         /\ x < 0 /\ x + UINT >= 0 => u32(x) = x + UINT
<1>1. PICK u \in Nat : u = UINT /\ u > 0
  BY ConsoleAssumption, AddrFacts
<1>2. PICK q \in Int, y \in Nat : x = u * q + y /\ y < u /\ y = x % u
  BY <1>1
<1>3. /\ q >= 1 => u * q >= u
      /\ q <= -1 => u * q <= -u
      /\ q >= 2 => u * q >= u + u
      /\ q <= -2 => u * q <= -(u + u)
  BY <1>1
<1>4. q = 0 => u * q = 0
  BY <1>1
<1>5. q = 1 => u * q = u
  BY <1>1
<1>6. q = -1 => u * q = -u
  BY <1>1
<1>7. PICK m \in Int : m = u * q
  BY <1>1
<1>8. u32(x) = y
  BY <1>1, <1>2 DEF u32
<1> QED
  BY <1>1, <1>2, <1>3, <1>4, <1>5, <1>6, <1>7, <1>8

Places == {"idle", "test", "load", "store", "loop", "up", "down", "up_load", "down_load",
           "up_store", "down_store", "set_cursor", "out_cursor", "set_start", "out_start"}

Locals ==
  [at : Places, con : Con, ch : Char, p : Int, load : Int, then : {"idle", "loop"}]

TypeOK ==
  /\ nr_current_console \in Con
  /\ cursor \in [Con -> Nat] /\ current_start_addr \in [Con -> Int]
  /\ crtc \in [cursor : Int, start : Int]
  /\ tty \in Locals
  /\ spins \in BOOLEAN /\ stray \in BOOLEAN /\ raced \in BOOLEAN

\* The cursor is within a line of its part.
Near(c, x) ==
  x >= 0 /\ x + 1 >= original_addr(c) /\ x < limit(c) + SCREEN_WIDTH

\* What out_char may do to a cursor it has tested before: the test of a
\* backspace keeps it from the beginning, the others from the end.
Loadable(c, ch, x) ==
  Near(c, x) /\ IF ch = "bs" THEN x >= original_addr(c) ELSE x < limit(c)

\* The cursor of the first console has passed 0.  The backspace of a system
\* call may take it one further, which then is in its loop.
Lost(c, x) ==
  c = 0 /\ \/ x = UINT - 1 /\ (spins \/ in_loop(0))
           \/ x = UINT - 2 /\ spins

\* The cursor, whatever races.
CursorInv ==
  /\ \A c \in Con : Near(c, cursor[c]) \/ Lost(c, cursor[c])
  /\ tty.at \in {"idle", "test", "load", "store"} => tty.then = "idle"
  /\ tty.at = "load" => Loadable(tty.con, tty.ch, cursor[tty.con])
  /\ tty.at = "store" => Loadable(tty.con, tty.ch, tty.load)

\* Without a race what task_tty has loaded and tested is still true.
ApartInv ==
  ~raced =>
    /\ ~stray /\ ~spins
    /\ \A c \in Con : cursor[c] \in original_addr(c) .. limit(c) - 1
    /\ tty.at = "test" => tty.p = cursor[tty.con]
    /\ tty.at \in {"load", "store"} => moves(tty.con, tty.ch, cursor[tty.con])
    /\ tty.at = "store" => tty.load = cursor[tty.con]

\* A window that starts at s starts at a line of console c.
OnLine(c, s) == s >= original_addr(c) /\ (s - original_addr(c)) % SCREEN_WIDTH = 0

\* A window that starts at s passes the end by less than a line.
Within(c, s) == s + SCREEN_SIZE < limit(c) + SCREEN_WIDTH

\* A window that starts at s passes the end by less than two lines.
Far(c, s) == s + SCREEN_SIZE < limit(c) + 2 * SCREEN_WIDTH

\* The window: programs only scroll it down, and not beyond the end, so that
\* task_tty may scroll it up or down by a line as it has seen it, whatever races.
WindowInv ==
  /\ \A c \in Con : /\ OnLine(c, current_start_addr[c]) /\ Far(c, current_start_addr[c])
                    /\ ~raced => Within(c, current_start_addr[c])
  /\ tty.at = "up_load" => current_start_addr[tty.con] > original_addr(tty.con)
  /\ tty.at = "up_store" => tty.load > original_addr(tty.con) /\ Far(tty.con, tty.load)
  /\ tty.at = "down_load" => Within(tty.con, current_start_addr[tty.con])
  /\ tty.at = "down_store" => Within(tty.con, tty.load)
  /\ tty.at \in {"up_store", "down_store"} => OnLine(tty.con, tty.load)
  /\ ~raced =>
       /\ tty.at = "down_load" => can_scroll(tty.con, current_start_addr[tty.con])
       /\ tty.at = "down_store" => can_scroll(tty.con, tty.load)
       /\ tty.at = "up_store" => Within(tty.con, tty.load)

\* task_tty works on the current console, and brings the controller up to date
\* before it is idle again.
ShownInv ==
  /\ tty.at # "idle" => tty.con = nr_current_console
  /\ ShowsCurrent
  /\ ~raced =>
       /\ tty.at = "out_cursor" => tty.load = cursor[tty.con]
       /\ tty.at \in {"set_start", "out_start"} => crtc.cursor = cursor[tty.con]
       /\ tty.at = "out_start" => tty.load = current_start_addr[tty.con]

ConsoleInv == TypeOK /\ CursorInv /\ ApartInv /\ WindowInv /\ ShownInv

----------------------------------------------------------------------------

\* The start of the next line: a cursor before its part is taken for one far
\* behind it, and comes back to the first line.
LEMMA NextLine ==
  ASSUME NEW c \in Con, NEW x \in Nat, Near(c, x), x < limit(c)
  PROVE  LET n == moved(c, "nl", x)
         IN /\ n \in Nat /\ n >= original_addr(c) /\ n <= x + SCREEN_WIDTH
            /\ n > x
<1>1. PICK o \in Nat, l \in Nat, w \in Nat \ {0}, v \in Nat, u \in Nat :
        /\ o = original_addr(c) /\ l = limit(c) /\ w = SCREEN_WIDTH /\ v = v_mem_limit
        /\ u = UINT /\ l = o + v /\ l + 2 * w < u /\ w < v
  BY AddrFacts
<1>2. moved(c, "nl", x) = u32(o + w * (u32(x - o) \div w + 1))
  BY <1>1 DEF moved
<1>3. x + 1 >= o /\ x < l
  BY <1>1 DEF Near
<1>4. CASE x >= o
  <2>1. PICK d \in Nat : d = x - o /\ u32(x - o) = d
    <3>1. PICK d \in Nat : d = x - o
      BY <1>4
    <3>2. u32(d) = d
      BY <1>1, <1>3, <3>1, U32Facts
    <3> QED
      BY <3>1, <3>2
  <2>2. PICK m \in Int : m = w * (d \div w + 1) /\ m > d /\ m <= d + w
    <3>1. /\ d \div w \in Int
          /\ w * (d \div w + 1) > d /\ w * (d \div w + 1) <= d + w
      BY LineFacts
    <3>2. w * (d \div w + 1) \in Int
      BY <3>1
    <3> QED
      BY <3>1, <3>2, Zenon
  <2>3. o + m \in Int /\ o + m >= 0 /\ o + m < u
    BY <1>1, <1>3, <2>1, <2>2
  <2>4. u32(o + m) = o + m
    BY <1>1, <2>3, U32Facts
  <2>5. moved(c, "nl", x) = u32(o + m)
    BY <1>2, <2>1, <2>2, Zenon
  <2> QED
    BY <1>1, <2>1, <2>2, <2>3, <2>4, <2>5
<1>5. CASE x + 1 = o
  <2>1. PICK d \in Nat : d = u - 1 /\ u32(x - o) = d
    <3>1. x - o = -1 /\ u - 1 \in Nat
      BY <1>1, <1>5
    <3>2. u32(-1) = u - 1
      BY <1>1, U32Facts
    <3> QED
      BY <3>1, <3>2
  <2>2. PICK m \in Int : m = w * (d \div w + 1) /\ m > d /\ m <= d + w
    <3>1. /\ d \div w \in Int
          /\ w * (d \div w + 1) > d /\ w * (d \div w + 1) <= d + w
      BY LineFacts
    <3>2. w * (d \div w + 1) \in Int
      BY <3>1
    <3> QED
      BY <3>1, <3>2, Zenon
  <2>3. o + m \in Int /\ o + m >= u /\ o + m < u + u
    BY <1>1, <2>1, <2>2
  <2>4. u32(o + m) = (o + m) - u
    BY <1>1, <2>3, U32Facts
  <2>5. moved(c, "nl", x) = u32(o + m)
    BY <1>2, <2>1, <2>2, Zenon
  <2> QED
    BY <1>1, <1>5, <2>1, <2>2, <2>3, <2>4, <2>5
<1> QED
  BY <1>1, <1>3, <1>4, <1>5

\* Where out_char leaves the cursor: after a test that is still true, after one
\* that is not, and in one step.
LEMMA CursorFacts ==
  ASSUME NEW c \in Con, NEW ch \in Char, NEW x \in Nat
  PROVE  LET o == original_addr(c)
             l == limit(c)
             n == moved(c, ch, x)
             y == IF moves(c, ch, x) THEN n ELSE x
         IN /\ n \in Nat
            /\ Loadable(c, ch, x) => Near(c, n) \/ (c = 0 /\ n = UINT - 1)
            /\ moves(c, ch, x) /\ Near(c, x) => Loadable(c, ch, x)
            /\ moves(c, ch, x) /\ x \in o .. l - 1 => n \in o .. l - 1 /\ ~outside(c, ch, x)
            /\ Near(c, x) => Near(c, y)
            /\ \A k \in Char : Loadable(c, k, x) => Loadable(c, k, y)
            /\ x = UINT - 1 => y \in {UINT - 1, UINT - 2}
<1>1. PICK o \in Nat, l \in Nat, w \in Nat \ {0}, v \in Nat, u \in Nat :
        /\ o = original_addr(c) /\ l = limit(c) /\ w = SCREEN_WIDTH /\ v = v_mem_limit
        /\ u = UINT /\ l = o + v /\ l + 2 * w < u /\ w < v /\ 2 < v /\ (c # 0 => o > 0)
  BY AddrFacts
<1>2. CASE ch = "nl"
  <2>1. moved(c, ch, x) \in Nat
    <3>1. u32(x - o) \in Nat
      BY <1>1, U32Facts
    <3>2. o + w * (u32(x - o) \div w + 1) \in Int
      BY <1>1, <3>1
    <3> QED
      BY <1>1, <1>2, <3>2, U32Facts DEF moved
  <2>2. Near(c, x) /\ x < l =>
          moved(c, ch, x) >= o /\ moved(c, ch, x) <= x + w /\ moved(c, ch, x) > x
    BY <1>1, <1>2, NextLine
  <2>3. moves(c, ch, x) <=> x < l - w
    BY <1>1, <1>2 DEF moves
  <2> QED
    BY <1>1, <1>2, <2>1, <2>2, <2>3 DEF outside, Loadable, Near
<1>3. CASE ch = "bs"
  <2>1. moved(c, ch, x) = u32(x - 1) /\ u32(x - 1) \in Nat
    BY <1>3, U32Facts DEF moved
  <2>2. x > 0 /\ x <= u => u32(x - 1) = x - 1
    BY <1>1, U32Facts
  <2>3. x = 0 => u32(x - 1) = u - 1
    BY <1>1, U32Facts
  <2>4. moves(c, ch, x) <=> x > o
    BY <1>1, <1>3 DEF moves
  <2> QED
    BY <1>1, <1>3, <2>1, <2>2, <2>3, <2>4 DEF outside, Loadable, Near
<1>4. CASE ch = "c"
  <2>1. moved(c, ch, x) = u32(x + 1) /\ u32(x + 1) \in Nat
    BY <1>4, U32Facts DEF moved
  <2>2. x < l => u32(x + 1) = x + 1
    BY <1>1, U32Facts
  <2>3. moves(c, ch, x) <=> x < l - 1
    BY <1>1, <1>4 DEF moves
  <2> QED
    BY <1>1, <1>4, <2>1, <2>2, <2>3 DEF outside, Loadable, Near
<1> QED
  BY <1>2, <1>3, <1>4 DEF Char

\* The window follows the cursor line by line, and no further than it scrolls.
LEMMA SettledFacts ==
  ASSUME NEW c \in Con, NEW cur \in Int, NEW s \in Int, OnLine(c, s)
  PROVE  /\ settled(c, cur, s) \in Int /\ settled(c, cur, s) >= s
         /\ OnLine(c, settled(c, cur, s))
         /\ settled(c, cur, s) = s \/ Within(c, settled(c, cur, s))
         /\ ~behind(cur, settled(c, cur, s)) \/ ~can_scroll(c, settled(c, cur, s))
<1> DEFINE w == SCREEN_WIDTH
           A == {s + k * w : k \in 0 .. v_mem_limit}
           S == {x \in A : ~behind(cur, x) \/ ~can_scroll(c, x)}
<1>1. /\ original_addr(c) \in Int /\ limit(c) \in Int /\ w \in Nat \ {0}
      /\ limit(c) = original_addr(c) + v_mem_limit /\ v_mem_limit \in Nat
      /\ SCREEN_SIZE \in Nat
  BY AddrFacts
<1>2. \A k \in 0 .. v_mem_limit : k * w \in Int /\ k * w >= 0
  BY <1>1
<1>3. S \in SUBSET Int /\ \A x \in S : s <= x
  BY <1>2
<1>4. S # {}
  <2>1. v_mem_limit * w >= v_mem_limit
    BY <1>1
  <2>2. s + v_mem_limit * w \in A
    BY <1>1, v_mem_limit \in 0 .. v_mem_limit
  <2>3. ~can_scroll(c, s + v_mem_limit * w)
    BY <1>1, <1>2, <2>1 DEF can_scroll, OnLine
  <2> QED
    BY <2>2, <2>3
<1>5. settled(c, cur, s) = Min(S)
  BY DEF settled
<1>6. PICK m \in S : m = Min(S) /\ \A y \in S : m <= y
  <2> HIDE DEF S
  <2> QED
    BY <1>3, <1>4, MinFacts
<1>7. PICK k \in 0 .. v_mem_limit : m = s + k * w
  BY <1>6
<1>8. m \in Int /\ m >= s
  BY <1>2, <1>7
<1>9. OnLine(c, m)
  <2>1. PICK d \in Int : d = s - original_addr(c)
    BY <1>1
  <2>2. d % w = 0 /\ k \in Int
    BY <2>1 DEF OnLine
  <2>3. (d + k * w) % w = 0
    BY <1>1, <2>2, LineFacts
  <2>4. m - original_addr(c) = d + k * w
    BY <1>1, <1>2, <1>7, <2>1
  <2> QED
    BY <1>1, <1>8, <2>3, <2>4 DEF OnLine
<1>10. m = s \/ Within(c, m)
  <2>1. CASE k = 0
    BY <1>1, <1>7, <2>1
  <2>2. CASE k # 0
    <3>1. k - 1 \in 0 .. v_mem_limit
      BY <1>1, <2>2
    <3>2. (k - 1) * w = k * w - w
      BY <1>1
    <3>3. m - w = s + (k - 1) * w
      BY <1>1, <1>2, <1>7, <3>2
    <3>4. m - w \in A
      BY <3>1, <3>3
    <3>5. m - w \notin S
      <4>1. ~ (m <= m - w)
        BY <1>1, <1>8
      <4> HIDE DEF S
      <4> QED
        BY <1>6, <4>1
    <3>6. can_scroll(c, m - w)
      BY <3>4, <3>5
    <3> QED
      BY <1>1, <1>8, <3>6 DEF can_scroll, Within
  <2> QED
    BY <2>1, <2>2
<1>11. ~behind(cur, m) \/ ~can_scroll(c, m)
  BY <1>6
<1> QED
  BY <1>5, <1>6, <1>8, <1>9, <1>10, <1>11

----------------------------------------------------------------------------

\* A step of task_tty that has used up what it loaded.
LEMMA LocalsFacts ==
  ASSUME tty \in Locals, NEW a \in Places
  PROVE  [tty EXCEPT !.at = a, !.load = 0] \in Locals
<1>1. PICK z \in Int : z = 0
  OBVIOUS
<1>2. [tty EXCEPT !.at = a, !.load = z] \in Locals
  BY DEF Locals
<1> QED
  BY <1>1, <1>2

\* init_screen puts every console at its beginning.
LEMMA ConsoleInit == Init => ConsoleInv
<1> SUFFICES ASSUME Init PROVE ConsoleInv
  OBVIOUS
<1>1. \A c \in Con : original_addr(c) \in Nat /\ limit(c) = original_addr(c) + v_mem_limit
  BY AddrFacts
<1>2. /\ cursor \in [Con -> Nat]
      /\ \A c \in Con : cursor[c] \in original_addr(c) .. limit(c) - 1
  <2>1. cursor \in [Con -> Nat]
    <3>1. 0 .. NR_CONSOLES * v_mem_limit \subseteq Nat
      OBVIOUS
    <3> QED
      BY <3>1 DEF Init
  <2>2. cursor[0] \in original_addr(0) .. limit(0) - 1
    <3>1. cursor[0] >= 0 /\ cursor[0] \in Int
      BY AddrFacts DEF Init
    <3> QED
      BY <1>1, <3>1, AddrFacts DEF Init
  <2>3. ASSUME NEW c \in Con \ {0} PROVE cursor[c] \in original_addr(c) .. limit(c) - 1
    BY <1>1, AddrFacts DEF Init
  <2> QED
    BY <2>1, <2>2, <2>3
<1>3. TypeOK
  <2>1. current_start_addr \in [Con -> Int] /\ crtc \in [cursor : Int, start : Int]
    BY <1>1, <1>2, AddrFacts DEF Init
  <2>2. tty \in Locals
    BY AddrFacts DEF Init, Locals, ttyIdle, ttyAt, Char, Places
  <2> QED
    BY <1>2, <2>1, <2>2, AddrFacts DEF Init, TypeOK
<1>4. CursorInv
  BY <1>1, <1>2, AddrFacts DEF Init, CursorInv, Near, ttyIdle, ttyAt
<1>5. ApartInv
  BY <1>2 DEF Init, ApartInv, ttyIdle, ttyAt
<1>6. WindowInv
  <2>1. 0 % SCREEN_WIDTH = 0
    BY AddrFacts
  <2>2. ASSUME NEW c \in Con
        PROVE  /\ OnLine(c, original_addr(c)) /\ Within(c, original_addr(c))
               /\ Far(c, original_addr(c))
    <3>1. original_addr(c) - original_addr(c) = 0
      BY <1>1
    <3> QED
      BY <1>1, <2>1, <3>1, AddrFacts DEF OnLine, Within, Far
  <2> QED
    BY <2>2 DEF Init, WindowInv, ttyIdle, ttyAt
<1>7. ShownInv
  BY AddrFacts DEF Init, ShownInv, ShowsCurrent, ttyIdle, ttyAt
<1> QED
  BY <1>3, <1>4, <1>5, <1>6, <1>7 DEF ConsoleInv

\* A system call that prints moves one cursor and one window, and does not come
\* back when the window cannot follow.
LEMMA PrintFacts ==
  ASSUME TypeOK, WindowInv, NEW c \in Con, NEW ch \in Char, print(c, ch)
  PROVE  \E y \in Nat, s \in Int :
           /\ cursor' = [cursor EXCEPT ![c] = y]
           /\ y = IF moves(c, ch, cursor[c]) THEN moved(c, ch, cursor[c]) ELSE cursor[c]
           /\ current_start_addr' = [current_start_addr EXCEPT ![c] = s]
           /\ s >= current_start_addr[c] /\ OnLine(c, s)
           /\ s = current_start_addr[c] \/ Within(c, s)
           /\ spins' = behind(y, s) /\ (~behind(y, s) \/ ~can_scroll(c, s))
           /\ crtc' = IF c = nr_current_console THEN [cursor |-> y, start |-> s] ELSE crtc
           /\ stray' = (stray \/ (moves(c, ch, cursor[c]) /\ outside(c, ch, cursor[c])))
           /\ raced' = (raced \/ (tty.at # "idle" /\ tty.con = c))
           /\ UNCHANGED <<nr_current_console, tty>>
<1> DEFINE y == IF moves(c, ch, cursor[c]) THEN moved(c, ch, cursor[c]) ELSE cursor[c]
           s == settled(c, y, current_start_addr[c])
<1>1. cursor[c] \in Nat /\ current_start_addr[c] \in Int /\ OnLine(c, current_start_addr[c])
  BY DEF Locals, TypeOK, WindowInv
<1>2. y \in Nat
  BY <1>1, CursorFacts
<1>3. /\ s \in Int /\ s >= current_start_addr[c] /\ OnLine(c, s)
      /\ s = current_start_addr[c] \/ Within(c, s)
      /\ ~behind(y, s) \/ ~can_scroll(c, s)
  <2>1. y \in Int
    BY <1>2
  <2> HIDE DEF y
  <2> QED
    BY <1>1, <2>1, SettledFacts
<1>4. /\ cursor' = [cursor EXCEPT ![c] = y]
      /\ current_start_addr' = [current_start_addr EXCEPT ![c] = s]
      /\ spins' = behind(y, s)
      /\ crtc' = IF c = nr_current_console THEN [cursor |-> y, start |-> s] ELSE crtc
      /\ stray' = (stray \/ (moves(c, ch, cursor[c]) /\ outside(c, ch, cursor[c])))
      /\ raced' = (raced \/ (tty.at # "idle" /\ tty.con = c))
      /\ UNCHANGED <<nr_current_console, tty>>
  BY DEF print, is_current_console
<1>5. y = IF moves(c, ch, cursor[c]) THEN moved(c, ch, cursor[c]) ELSE cursor[c]
  OBVIOUS
<1> HIDE DEF y, s
<1> QED
  BY <1>2, <1>3, <1>4, <1>5

\* Printing keeps the invariant.
LEMMA PrintStep ==
  ASSUME ConsoleInv, ~spins, NEW c \in Con, NEW ch \in Char, print(c, ch)
  PROVE  ConsoleInv'
<1> USE DEF ConsoleInv
<1>1. PICK y \in Nat, s \in Int :
        /\ cursor' = [cursor EXCEPT ![c] = y]
        /\ y = IF moves(c, ch, cursor[c]) THEN moved(c, ch, cursor[c]) ELSE cursor[c]
        /\ current_start_addr' = [current_start_addr EXCEPT ![c] = s]
        /\ s >= current_start_addr[c] /\ OnLine(c, s)
        /\ s = current_start_addr[c] \/ Within(c, s)
        /\ spins' = behind(y, s) /\ (~behind(y, s) \/ ~can_scroll(c, s))
        /\ crtc' = IF c = nr_current_console THEN [cursor |-> y, start |-> s] ELSE crtc
        /\ stray' = (stray \/ (moves(c, ch, cursor[c]) /\ outside(c, ch, cursor[c])))
        /\ raced' = (raced \/ (tty.at # "idle" /\ tty.con = c))
        /\ UNCHANGED <<nr_current_console, tty>>
  BY PrintFacts
<1>2. PICK x \in Nat : x = cursor[c]
  BY DEF TypeOK
<1>3. cursor'[c] = y /\ \A d \in Con \ {c} : cursor'[d] = cursor[d]
  BY <1>1 DEF TypeOK
<1>4. /\ current_start_addr'[c] = s
      /\ \A d \in Con \ {c} : current_start_addr'[d] = current_start_addr[d]
  BY <1>1 DEF TypeOK
<1>5. TypeOK'
  <2>1. cursor' \in [Con -> Nat] /\ current_start_addr' \in [Con -> Int]
    BY <1>1 DEF TypeOK
  <2>2. crtc' \in [cursor : Int, start : Int]
    BY <1>1 DEF TypeOK
  <2>3. stray' \in BOOLEAN /\ raced' \in BOOLEAN
    BY <1>1, Zenon DEF TypeOK
  <2>4. spins' \in BOOLEAN
    BY <1>1 DEF behind
  <2> QED
    BY <1>1, <2>1, <2>2, <2>3, <2>4 DEF TypeOK
<1>6. Far(c, s)
  <2>1. Far(c, current_start_addr[c])
    BY DEF WindowInv
  <2>2. Within(c, s) => Far(c, s)
    BY AddrFacts DEF Within, Far
  <2> QED
    BY <1>1, <2>1, <2>2
<1>7. CursorInv'
  <2>1. ASSUME Near(c, x) PROVE Near(c, y)
    BY <1>1, <1>2, <2>1, CursorFacts
  <2>2. ASSUME Lost(c, x) PROVE Lost(c, y)'
    <3>1. c = 0 /\ x = UINT - 1
      BY <2>2 DEF Lost
    <3>2. y \in {UINT - 1, UINT - 2}
      BY <1>1, <1>2, <3>1, CursorFacts
    <3>3. behind(y, s)
      BY <1>6, <3>2, AddrFacts DEF Far, behind
    <3> QED
      BY <1>1, <3>1, <3>2, <3>3 DEF Lost
  <2>3. \A d \in Con : Near(d, cursor'[d]) \/ Lost(d, cursor[d])'
    <3>1. Near(c, cursor'[c]) \/ Lost(c, cursor[c])'
      BY <1>2, <1>3, <2>1, <2>2 DEF CursorInv, Lost
    <3>2. ASSUME NEW d \in Con \ {c} PROVE Near(d, cursor'[d]) \/ Lost(d, cursor[d])'
      BY <1>1, <1>3 DEF CursorInv, Lost, in_loop
    <3> QED
      BY <3>1, <3>2
  <2>4. ASSUME tty.at = "load" PROVE Loadable(tty.con, tty.ch, cursor'[tty.con])
    <3>1. tty.ch \in Char /\ tty.con \in Con
      BY DEF Locals, TypeOK
    <3>2. CASE tty.con = c
      BY <1>1, <1>2, <1>3, <2>4, <3>1, <3>2, CursorFacts DEF CursorInv
    <3>3. CASE tty.con # c
      BY <1>3, <2>4, <3>1, <3>3 DEF CursorInv
    <3> QED
      BY <3>2, <3>3
  <2> QED
    BY <1>1, <2>3, <2>4 DEF CursorInv, Near, Loadable
<1>8. ApartInv'
  <2> SUFFICES ASSUME ~raced', ~raced
               PROVE  /\ ~stray' /\ ~spins'
                      /\ \A d \in Con : cursor'[d] \in original_addr(d) .. limit(d) - 1
                      /\ tty.at = "test" => tty.p = cursor'[tty.con]
                      /\ tty.at \in {"load", "store"} =>
                           moves(tty.con, tty.ch, cursor'[tty.con])
                      /\ tty.at = "store" => tty.load = cursor'[tty.con]
    BY <1>1 DEF ApartInv
  <2>1. tty.at = "idle" \/ tty.con # c
    BY <1>1
  <2>2. x \in original_addr(c) .. limit(c) - 1 /\ ~stray
    BY <1>2 DEF ApartInv
  <2>3. ~stray' /\ y \in original_addr(c) .. limit(c) - 1
    BY <1>1, <1>2, <2>2, CursorFacts
  <2>4. ~spins'
    <3>1. ~can_scroll(c, s) => ~behind(y, s)
      BY <2>3, AddrFacts DEF can_scroll, behind
    <3> QED
      BY <1>1, <3>1
  <2>5. \A d \in Con : cursor'[d] \in original_addr(d) .. limit(d) - 1
    BY <1>3, <2>3 DEF ApartInv
  <2>6. tty.at # "idle" => cursor'[tty.con] = cursor[tty.con]
    BY <1>3, <2>1 DEF Locals, TypeOK
  <2> QED
    BY <2>3, <2>4, <2>5, <2>6 DEF ApartInv
<1>9. WindowInv'
  <2>1. OnLine(c, s) /\ Far(c, s) /\ (~raced => Within(c, s))
    BY <1>1, <1>6 DEF WindowInv
  <2>2. \A d \in Con : /\ OnLine(d, current_start_addr'[d]) /\ Far(d, current_start_addr'[d])
                       /\ ~raced' => Within(d, current_start_addr'[d])
    BY <1>1, <1>4, <2>1 DEF WindowInv
  <2>3. tty.con \in Con /\ original_addr(tty.con) \in Int /\ original_addr(c) \in Int
    BY AddrFacts DEF Locals, TypeOK
  <2>4. tty.at = "up_load" => current_start_addr'[tty.con] > original_addr(tty.con)
    BY <1>1, <1>4, <2>3 DEF WindowInv, TypeOK
  <2>5. tty.at = "down_load" => Within(tty.con, current_start_addr'[tty.con])
    BY <1>1, <1>4, <2>3 DEF WindowInv
  <2>6. ~raced' /\ tty.at # "idle" => current_start_addr'[tty.con] = current_start_addr[tty.con]
    BY <1>1, <1>4, <2>3
  <2> QED
    BY <1>1, <2>2, <2>4, <2>5, <2>6 DEF WindowInv
<1>10. ShownInv'
  <2>1. ShowsCurrent'
    <3> SUFFICES ASSUME ~raced, tty.at = "idle"
                 PROVE  /\ crtc'.cursor = cursor'[nr_current_console]
                        /\ crtc'.start = current_start_addr'[nr_current_console]
      BY <1>1 DEF ShowsCurrent
    <3> QED
      BY <1>1, <1>3, <1>4 DEF ShownInv, ShowsCurrent, TypeOK
  <2>2. ~raced' /\ tty.at # "idle" =>
          /\ ~raced /\ tty.con # c
          /\ cursor'[tty.con] = cursor[tty.con] /\ crtc' = crtc
          /\ current_start_addr'[tty.con] = current_start_addr[tty.con]
    BY <1>1, <1>3, <1>4 DEF ShownInv, TypeOK
  <2> QED
    BY <1>1, <2>1, <2>2 DEF ShownInv
<1> QED
  BY <1>5, <1>7, <1>8, <1>9, <1>10

\* A step that moves no cursor and does not come out of the loop.
LEMMA CursorKept ==
  ASSUME CursorInv, UNCHANGED <<cursor, spins>>, ~spins,
         in_loop(0) => (tty'.con = 0 /\ (tty'.at = "loop" \/ tty'.then = "loop")),
         tty'.at \in {"idle", "test", "load", "store"} => tty'.then = "idle",
         tty'.at \notin {"load", "store"}
  PROVE  CursorInv'
BY DEF CursorInv, Lost, in_loop, Near

\* task_tty takes a key: it starts on the current console.
LEMMA StartStep ==
  ASSUME ConsoleInv, ~spins,
         \/ \E ch \in Char : echo(ch)
         \/ \E dir \in {"up", "down"} : scroll(dir)
         \/ \E n \in Con : select_console(n)
  PROVE  ConsoleInv'
<1> USE DEF ConsoleInv
<1>1. /\ UNCHANGED <<cursor, current_start_addr, crtc, spins, stray, raced>>
      /\ nr_current_console' \in Con
      /\ \E a \in {"test", "up", "down", "set_cursor"}, k \in Char, p \in Int :
           /\ tty' = [at |-> a, con |-> nr_current_console', ch |-> k, p |-> p, load |-> 0,
                      then |-> "idle"]
           /\ a = "test" => p = cursor[nr_current_console']
  <2>1. ASSUME NEW ch \in Char, echo(ch) PROVE <1>1!:
    <3>1. /\ UNCHANGED <<nr_current_console, cursor, current_start_addr, crtc, spins, stray, raced>>
          /\ tty' = [at |-> "test", con |-> nr_current_console, ch |-> ch,
                     p |-> cursor[nr_current_console], load |-> 0, then |-> "idle"]
      BY <2>1 DEF echo, ttyAt
    <3>2. PICK x \in Int : x = cursor[nr_current_console]
      BY DEF TypeOK
    <3> QED
      BY <3>1, <3>2 DEF TypeOK
  <2>2. ASSUME NEW dir \in {"up", "down"}, scroll(dir) PROVE <1>1!:
    <3>1. /\ UNCHANGED <<nr_current_console, cursor, current_start_addr, crtc, spins, stray, raced>>
          /\ tty' = [at |-> dir, con |-> nr_current_console, ch |-> "c", p |-> 0, load |-> 0,
                     then |-> "idle"]
      BY <2>2 DEF scroll, ttyAt
    <3> QED
      BY <3>1 DEF TypeOK, Char
  <2>3. ASSUME NEW n \in Con, select_console(n) PROVE <1>1!:
    <3>1. /\ UNCHANGED <<cursor, current_start_addr, crtc, spins, stray, raced>>
          /\ nr_current_console' = n
          /\ tty' = [at |-> "set_cursor", con |-> n, ch |-> "c", p |-> 0, load |-> 0,
                     then |-> "idle"]
      BY <2>3 DEF select_console, ttyAt
    <3> QED
      BY <3>1 DEF Char
  <2> QED
    BY <2>1, <2>2, <2>3
<1>2. PICK a \in {"test", "up", "down", "set_cursor"}, k \in Char, p \in Int :
        /\ tty' = [at |-> a, con |-> nr_current_console', ch |-> k, p |-> p, load |-> 0,
                   then |-> "idle"]
        /\ a = "test" => p = cursor[nr_current_console']
  BY <1>1
<1>3. TypeOK'
  <2>1. tty' \in Locals
    BY <1>1, <1>2 DEF Locals, Places
  <2> QED
    BY <1>1, <2>1 DEF TypeOK
<1>4. tty.at = "idle"
  BY DEF echo, scroll, select_console
<1>5. CursorInv'
  <2>1. ~in_loop(0)
    BY <1>4 DEF CursorInv, in_loop
  <2> QED
    BY <1>1, <1>2, <2>1, CursorKept
<1>6. ApartInv'
  BY <1>1, <1>2 DEF ApartInv
<1>7. WindowInv'
  BY <1>1, <1>2 DEF WindowInv
<1>8. ShownInv'
  BY <1>1, <1>2 DEF ShownInv, ShowsCurrent
<1> QED
  BY <1>3, <1>5, <1>6, <1>7, <1>8

\* task_tty echoes: out_char up to its loop.
LEMMA EchoStep ==
  ASSUME ConsoleInv, ~spins, echo_test \/ echo_load \/ echo_store \/ echo_loop
  PROVE  ConsoleInv'
<1> USE DEF ConsoleInv
<1>1. PICK c \in Con, ch \in Char, x \in Nat : c = tty.con /\ ch = tty.ch /\ x = cursor[c]
  BY DEF Locals, TypeOK
<1>2. PICK n \in Locals :
        /\ n = [at |-> "loop", con |-> c, ch |-> "c", p |-> 0, load |-> 0, then |-> "idle"]
        /\ n = ttyAt("loop", tty.con)
  <2>1. [at |-> "loop", con |-> c, ch |-> "c", p |-> 0, load |-> 0, then |-> "idle"] \in Locals
    BY DEF Locals, Places, Char
  <2>2. ttyAt("loop", c) = [at |-> "loop", con |-> c, ch |-> "c", p |-> 0, load |-> 0,
                            then |-> "idle"]
    BY DEF ttyAt
  <2> QED
    BY <1>1, <2>1, <2>2, Zenon
<1>3. CASE echo_test
  <2>1. /\ UNCHANGED <<nr_current_console, cursor, current_start_addr, crtc, spins, raced>>
        /\ tty.at = "test"
        /\ stray' = (stray \/ (moves(c, ch, x) /\ outside(c, ch, tty.p)))
    BY <1>1, <1>3 DEF echo_test
  <2>2. /\ tty' \in Locals
        /\ tty'.con = c /\ tty'.then = "idle"
        /\ \/ tty'.at = "load" /\ tty'.ch = ch /\ moves(c, ch, x)
           \/ tty'.at = "loop"
    <3>1. CASE moves(c, ch, x)
      <4>1. PICK z \in Int : z = 0
        OBVIOUS
      <4>2. tty' = [tty EXCEPT !.at = "load", !.p = z]
        BY <1>1, <1>3, <3>1, <4>1 DEF echo_test
      <4>3. tty.then = "idle"
        BY <2>1 DEF CursorInv
      <4> QED
        BY <1>1, <3>1, <4>2, <4>3 DEF Locals, TypeOK, Places
    <3>2. CASE ~moves(c, ch, x)
      <4>1. tty' = n
        BY <1>1, <1>2, <1>3, <3>2 DEF echo_test
      <4> QED
        BY <1>2, <4>1
    <3> QED
      BY <3>1, <3>2
  <2>3. TypeOK'
    <3>1. stray' \in BOOLEAN
      BY <2>1, Zenon DEF TypeOK
    <3> QED
      BY <2>1, <2>2, <3>1 DEF TypeOK
  <2>4. CursorInv'
    <3>1. ~in_loop(0)
      BY <2>1 DEF CursorInv, in_loop
    <3>2. \A d \in Con : Near(d, cursor[d])
      BY <3>1 DEF CursorInv, Lost
    <3>3. moves(c, ch, x) => Loadable(c, ch, x)
      BY <1>1, <3>2, CursorFacts
    <3> QED
      BY <1>1, <2>1, <2>2, <3>2, <3>3 DEF CursorInv, Near, Loadable
  <2>5. ApartInv'
    <3>1. ~raced => ~stray'
      BY <1>1, <2>1, CursorFacts DEF ApartInv
    <3> QED
      BY <1>1, <2>1, <2>2, <3>1 DEF ApartInv
  <2>6. WindowInv' /\ ShownInv'
    BY <1>1, <2>1, <2>2 DEF WindowInv, ShownInv, ShowsCurrent
  <2> QED
    BY <2>3, <2>4, <2>5, <2>6
<1>4. CASE echo_load
  <2>1. /\ UNCHANGED <<nr_current_console, cursor, current_start_addr, crtc, spins, stray, raced>>
        /\ tty.at = "load" /\ tty' = [tty EXCEPT !.at = "store", !.load = x]
    BY <1>1, <1>4 DEF echo_load
  <2>2. TypeOK'
    <3>1. PICK z \in Int : z = x
      OBVIOUS
    <3>2. tty' = [tty EXCEPT !.at = "store", !.load = z]
      BY <2>1, <3>1
    <3>3. tty' \in Locals
      BY <3>2 DEF Locals, TypeOK, Places
    <3> QED
      BY <2>1, <3>3 DEF TypeOK
  <2>3. CursorInv'
    <3>1. tty'.at = "store" /\ tty'.con = c /\ tty'.ch = ch /\ tty'.load = x
          /\ tty'.then = "idle" /\ Loadable(c, ch, x)
      BY <1>1, <2>1 DEF CursorInv, Locals, TypeOK
    <3>2. ~in_loop(0)
      BY <2>1 DEF CursorInv, in_loop
    <3> QED
      BY <2>1, <3>1, <3>2 DEF CursorInv, Lost, Near, Loadable
  <2>4. ApartInv'
    BY <1>1, <2>1 DEF ApartInv, TypeOK
  <2>5. WindowInv' /\ ShownInv'
    BY <2>1 DEF WindowInv, ShownInv, ShowsCurrent, TypeOK
  <2> QED
    BY <2>2, <2>3, <2>4, <2>5
<1>5. CASE echo_store
  <2>1. PICK k \in Nat : k = tty.load /\ Loadable(c, ch, k)
    BY <1>1, <1>5 DEF echo_store, CursorInv, Loadable, Near, Locals, TypeOK
  <2>2. PICK y \in Nat : y = moved(c, ch, k)
    BY CursorFacts
  <2>3. /\ UNCHANGED <<nr_current_console, current_start_addr, crtc, spins, stray, raced>>
        /\ cursor' = [cursor EXCEPT ![c] = y]
        /\ tty.at = "store" /\ tty' = n
    BY <1>1, <1>2, <1>5, <2>1, <2>2 DEF echo_store
  <2>4. cursor'[c] = y /\ \A d \in Con \ {c} : cursor'[d] = cursor[d]
    BY <2>3 DEF TypeOK
  <2>5. TypeOK'
    <3>1. cursor' \in [Con -> Nat]
      BY <2>3 DEF TypeOK
    <3> QED
      BY <1>2, <2>3, <3>1 DEF TypeOK
  <2>6. CursorInv'
    <3>1. Near(c, y) \/ (c = 0 /\ y = UINT - 1)
      BY <2>1, <2>2, CursorFacts
    <3>2. tty'.at = "loop" /\ tty'.con = c /\ tty'.then = "idle"
      BY <1>2, <2>3
    <3>3. ~in_loop(0)
      BY <2>3 DEF CursorInv, in_loop
    <3>4. \A d \in Con \ {c} : Near(d, cursor'[d])
      BY <2>4, <3>3 DEF CursorInv, Lost
    <3>5. c = 0 /\ y = UINT - 1 => Lost(c, cursor[c])'
      BY <2>4, <3>2 DEF Lost, in_loop
    <3> QED
      BY <2>4, <3>1, <3>2, <3>4, <3>5 DEF CursorInv, Near
  <2>7. ApartInv'
    <3>1. ASSUME ~raced PROVE y \in original_addr(c) .. limit(c) - 1
      BY <1>1, <2>1, <2>2, <2>3, <3>1, CursorFacts DEF ApartInv
    <3> QED
      BY <1>2, <2>3, <2>4, <3>1 DEF ApartInv, TypeOK
  <2>8. WindowInv' /\ ShownInv'
    BY <1>1, <1>2, <2>3 DEF WindowInv, ShownInv, ShowsCurrent
  <2> QED
    BY <2>5, <2>6, <2>7, <2>8
<1>6. CASE echo_loop
  <2>1. /\ UNCHANGED <<nr_current_console, cursor, current_start_addr, crtc, spins, stray, raced>>
        /\ tty.at = "loop"
        /\ \/ tty' = [tty EXCEPT !.at = "down", !.then = "loop"]
              /\ behind(cursor[c], current_start_addr[c])
           \/ tty' = [tty EXCEPT !.at = "set_cursor", !.then = "idle"]
              /\ ~behind(cursor[c], current_start_addr[c])
    BY <1>1, <1>6 DEF echo_loop
  <2>2. TypeOK'
    BY <2>1 DEF Locals, TypeOK, Places
  <2>3. CursorInv'
    <3>1. CASE behind(cursor[c], current_start_addr[c])
      <4>1. tty'.at = "down" /\ tty'.then = "loop" /\ tty'.con = c
        BY <1>1, <2>1, <3>1 DEF Locals, TypeOK
      <4> QED
        BY <1>1, <2>1, <4>1, CursorKept DEF in_loop
    <3>2. CASE ~behind(cursor[c], current_start_addr[c])
      <4>1. tty'.at = "set_cursor"
        BY <2>1, <3>2 DEF Locals, TypeOK
      <4>2. Far(c, current_start_addr[c]) /\ current_start_addr[c] \in Int
        BY DEF WindowInv, TypeOK
      <4>3. x # UINT - 1
        BY <1>1, <3>2, <4>2, AddrFacts DEF Far, behind
      <4>4. ~Lost(0, cursor[0])
        BY <1>1, <2>1, <4>3 DEF Lost, in_loop, CursorInv
      <4> QED
        BY <2>1, <4>1, <4>4, AddrFacts DEF CursorInv, Lost, Near
    <3> QED
      BY <3>1, <3>2
  <2>4. ApartInv'
    BY <2>1 DEF ApartInv, Locals, TypeOK
  <2>5. WindowInv' /\ ShownInv'
    BY <2>1 DEF WindowInv, ShownInv, ShowsCurrent, Locals, TypeOK
  <2> QED
    BY <2>2, <2>3, <2>4, <2>5
<1> QED
  BY <1>3, <1>4, <1>5, <1>6

\* task_tty scrolls by a line.
LEMMA ScrollStep ==
  ASSUME ConsoleInv, ~spins, scroll_test \/ scroll_load \/ scroll_store
  PROVE  ConsoleInv'
<1> USE DEF ConsoleInv
<1>1. PICK c \in Con, s \in Int : c = tty.con /\ s = current_start_addr[c]
  BY DEF Locals, TypeOK
<1>2. CASE scroll_test
  <2>1. /\ UNCHANGED <<nr_current_console, cursor, current_start_addr, crtc, spins, stray, raced>>
        /\ tty.at \in {"up", "down"}
        /\ \/ tty' = [tty EXCEPT !.at = "set_cursor"]
           \/ tty' = [tty EXCEPT !.at = "up_load"] /\ s > original_addr(c)
           \/ tty' = [tty EXCEPT !.at = "down_load"] /\ can_scroll(c, s)
    BY <1>1, <1>2 DEF scroll_test, TypeOK
  <2>2. TypeOK'
    BY <2>1 DEF Locals, TypeOK, Places
  <2>3. CursorInv'
    <3>1. tty'.con = tty.con /\ tty'.then = tty.then
          /\ tty'.at \in {"set_cursor", "up_load", "down_load", "up_store", "down_store"}
      BY <2>1 DEF Locals, TypeOK
    <3> QED
      BY <2>1, <3>1, CursorKept DEF in_loop
  <2>4. ApartInv'
    BY <2>1 DEF ApartInv, Locals, TypeOK
  <2>5. can_scroll(c, s) => Within(c, s)
    <3>1. s \in Int
      BY <1>1
    <3> QED
      BY <3>1, AddrFacts DEF can_scroll, Within
  <2>6. WindowInv' /\ ShownInv'
    BY <1>1, <2>1, <2>5 DEF WindowInv, ShownInv, ShowsCurrent, Locals, TypeOK
  <2> QED
    BY <2>2, <2>3, <2>4, <2>6
<1>3. CASE scroll_load
  <2>1. /\ UNCHANGED <<nr_current_console, cursor, current_start_addr, crtc, spins, stray, raced>>
        /\ \/ tty.at = "up_load" /\ tty' = [tty EXCEPT !.at = "up_store", !.load = s]
           \/ tty.at = "down_load" /\ tty' = [tty EXCEPT !.at = "down_store", !.load = s]
    BY <1>1, <1>3 DEF scroll_load, TypeOK
  <2>2. TypeOK'
    BY <2>1 DEF Locals, TypeOK, Places
  <2>3. CursorInv'
    <3>1. tty'.con = tty.con /\ tty'.then = tty.then
          /\ tty'.at \in {"set_cursor", "up_load", "down_load", "up_store", "down_store"}
      BY <2>1 DEF Locals, TypeOK
    <3> QED
      BY <2>1, <3>1, CursorKept DEF in_loop
  <2>4. ApartInv'
    BY <2>1 DEF ApartInv, Locals, TypeOK
  <2>5. WindowInv' /\ ShownInv'
    BY <1>1, <2>1 DEF WindowInv, ShownInv, ShowsCurrent, Locals, TypeOK
  <2> QED
    BY <2>2, <2>3, <2>4, <2>5
<1>4. CASE scroll_store
  <2>1. PICK l \in Int : l = tty.load /\ OnLine(c, l)
    BY <1>1, <1>4 DEF scroll_store, Locals, TypeOK, WindowInv
  <2>2. /\ original_addr(c) \in Int /\ limit(c) \in Int /\ SCREEN_WIDTH \in Nat \ {0}
        /\ SCREEN_SIZE \in Nat
    BY AddrFacts
  <2>3. PICK d \in Int : d = l - original_addr(c) /\ d >= 0 /\ d % SCREEN_WIDTH = 0
    BY <2>1, <2>2 DEF OnLine
  <2>4. /\ (d + SCREEN_WIDTH) % SCREEN_WIDTH = 0 /\ (d - SCREEN_WIDTH) % SCREEN_WIDTH = 0
        /\ d > 0 => d >= SCREEN_WIDTH
    BY <2>2, <2>3, LineFacts
  <2>5. PICK n \in Int : /\ OnLine(c, n) /\ Far(c, n) /\ (~raced => Within(c, n))
                         /\ current_start_addr' = [current_start_addr EXCEPT ![c] = n]
    <3>1. CASE tty.at = "up_store"
      <4>1. l > original_addr(c) /\ Far(c, l) /\ (~raced => Within(c, l))
        BY <1>1, <2>1, <3>1 DEF WindowInv
      <4>2. (l - SCREEN_WIDTH) - original_addr(c) = d - SCREEN_WIDTH /\ l - SCREEN_WIDTH \in Int
        BY <2>2, <2>3
      <4>3. l - SCREEN_WIDTH >= original_addr(c)
        BY <2>2, <2>3, <2>4, <4>1
      <4>4. /\ OnLine(c, l - SCREEN_WIDTH) /\ Far(c, l - SCREEN_WIDTH)
            /\ ~raced => Within(c, l - SCREEN_WIDTH)
        BY <2>2, <2>4, <4>1, <4>2, <4>3 DEF OnLine, Within, Far
      <4>5. current_start_addr' = [current_start_addr EXCEPT ![c] = l - SCREEN_WIDTH]
        BY <1>1, <1>4, <2>1, <3>1 DEF scroll_store
      <4> QED
        BY <4>2, <4>4, <4>5
    <3>2. CASE tty.at = "down_store"
      <4>1. Within(c, l) /\ (~raced => can_scroll(c, l))
        BY <1>1, <2>1, <3>2 DEF WindowInv
      <4>2. (l + SCREEN_WIDTH) - original_addr(c) = d + SCREEN_WIDTH /\ l + SCREEN_WIDTH \in Int
        BY <2>2, <2>3
      <4>3. /\ OnLine(c, l + SCREEN_WIDTH) /\ Far(c, l + SCREEN_WIDTH)
            /\ ~raced => Within(c, l + SCREEN_WIDTH)
        <5>1. OnLine(c, l + SCREEN_WIDTH)
          BY <2>2, <2>3, <2>4, <4>2 DEF OnLine
        <5>2. Far(c, l + SCREEN_WIDTH)
          BY <2>2, <4>1, <4>2 DEF Within, Far
        <5>3. ~raced => Within(c, l + SCREEN_WIDTH)
          BY <2>2, <4>1, <4>2 DEF Within, can_scroll
        <5> QED
          BY <5>1, <5>2, <5>3
      <4>4. current_start_addr' = [current_start_addr EXCEPT ![c] = l + SCREEN_WIDTH]
        BY <1>1, <1>4, <2>1, <3>2 DEF scroll_store
      <4> QED
        BY <4>2, <4>3, <4>4
    <3> QED
      BY <1>4, <3>1, <3>2 DEF scroll_store
  <2>6. /\ UNCHANGED <<nr_current_console, cursor, crtc, spins, stray, raced>>
        /\ tty.at \in {"up_store", "down_store"}
        /\ tty' = [tty EXCEPT !.at = "set_cursor", !.load = 0]
    BY <1>4 DEF scroll_store
  <2>7. current_start_addr'[c] = n
        /\ \A e \in Con \ {c} : current_start_addr'[e] = current_start_addr[e]
    BY <2>5 DEF TypeOK
  <2>8. TypeOK'
    <3>1. current_start_addr' \in [Con -> Int]
      BY <2>5 DEF TypeOK
    <3>2. tty' \in Locals
      BY <2>6, LocalsFacts DEF TypeOK, Places
    <3> QED
      BY <2>6, <3>1, <3>2 DEF TypeOK
  <2>9. CursorInv'
    <3>1. tty'.con = tty.con /\ tty'.then = tty.then /\ tty'.at = "set_cursor"
      BY <2>6 DEF Locals, TypeOK
    <3> QED
      BY <2>6, <3>1, CursorKept DEF in_loop
  <2>10. ApartInv'
    BY <2>6 DEF ApartInv, TypeOK
  <2>11. WindowInv'
    BY <2>5, <2>6, <2>7 DEF WindowInv, TypeOK
  <2>12. ShownInv'
    BY <2>6 DEF ShownInv, ShowsCurrent, TypeOK
  <2> QED
    BY <2>8, <2>9, <2>10, <2>11, <2>12
<1> QED
  BY <1>2, <1>3, <1>4

\* task_tty writes the registers of the controller.
LEMMA ShowStep ==
  ASSUME ConsoleInv, ~spins, set_cursor \/ out_cursor \/ set_video_start_addr \/ out_start
  PROVE  ConsoleInv'
<1> USE DEF ConsoleInv
<1>1. /\ UNCHANGED <<nr_current_console, cursor, current_start_addr, spins, stray, raced>>
      /\ tty.at \in {"set_cursor", "out_cursor", "set_start", "out_start"}
      /\ tty.con = nr_current_console
  BY DEF set_cursor, out_cursor, set_video_start_addr, out_start, ShownInv
<1>2. tty.con \in Con /\ cursor[tty.con] \in Int /\ current_start_addr[tty.con] \in Int
  BY DEF Locals, TypeOK
<1>3. ASSUME crtc' \in [cursor : Int, start : Int],
             tty' \in Locals,
             tty'.at \in {"out_cursor", "set_start", "out_start", "idle", "loop"},
             tty'.at = "idle" => tty'.then = "idle",
             tty.then = "loop" => tty'.con = tty.con /\ tty'.then = "loop"
      PROVE  TypeOK' /\ CursorInv' /\ ApartInv' /\ WindowInv'
  <2>1. TypeOK'
    BY <1>1, <1>3 DEF TypeOK
  <2>2. CursorInv'
    BY <1>1, <1>3, CursorKept DEF in_loop
  <2>3. ApartInv'
    BY <1>1, <1>3 DEF ApartInv
  <2>4. WindowInv'
    BY <1>1, <1>3 DEF WindowInv
  <2> QED
    BY <2>1, <2>2, <2>3, <2>4
<1>4. CASE set_cursor
  <2>1. /\ tty' = [tty EXCEPT !.at = "out_cursor", !.load = cursor[tty.con]]
        /\ crtc' = crtc
    BY <1>1, <1>4 DEF set_cursor, is_current_console
  <2>2. TypeOK' /\ CursorInv' /\ ApartInv' /\ WindowInv'
    BY <1>2, <1>3, <2>1 DEF Locals, TypeOK, Places
  <2>3. ShownInv'
    BY <1>1, <2>1 DEF ShownInv, ShowsCurrent, TypeOK
  <2> QED
    BY <2>2, <2>3
<1>5. CASE out_cursor
  <2>1. /\ tty.at = "out_cursor" /\ tty' = [tty EXCEPT !.at = "set_start", !.load = 0]
        /\ crtc' = [crtc EXCEPT !.cursor = tty.load]
    BY <1>5 DEF out_cursor
  <2>2. TypeOK' /\ CursorInv' /\ ApartInv' /\ WindowInv'
    <3>1. tty' \in Locals
      BY <2>1, LocalsFacts DEF TypeOK, Places
    <3> QED
      BY <1>3, <2>1, <3>1 DEF Locals, TypeOK
  <2>3. ShownInv'
    BY <1>1, <2>1 DEF ShownInv, ShowsCurrent, TypeOK
  <2> QED
    BY <2>2, <2>3
<1>6. CASE set_video_start_addr
  <2>1. /\ tty.at = "set_start" /\ crtc' = crtc
        /\ tty' = [tty EXCEPT !.at = "out_start", !.load = current_start_addr[tty.con]]
    BY <1>6 DEF set_video_start_addr
  <2>2. TypeOK' /\ CursorInv' /\ ApartInv' /\ WindowInv'
    BY <1>2, <1>3, <2>1 DEF Locals, TypeOK, Places
  <2>3. ShownInv'
    BY <1>1, <2>1 DEF ShownInv, ShowsCurrent, TypeOK
  <2> QED
    BY <2>2, <2>3
<1>7. CASE out_start
  <2>1. tty.at = "out_start" /\ crtc' = [crtc EXCEPT !.start = tty.load]
    BY <1>7 DEF out_start
  <2>2. CASE tty.then = "idle"
    <3>1. tty' = [at |-> "idle", con |-> 0, ch |-> "c", p |-> 0, load |-> 0, then |-> "idle"]
      BY <1>7, <2>2 DEF out_start, ttyIdle, ttyAt
    <3>2. TypeOK' /\ CursorInv' /\ ApartInv' /\ WindowInv'
      <4>1. tty' \in Locals
        BY <3>1, AddrFacts DEF Locals, Places, Char
      <4>2. crtc' \in [cursor : Int, start : Int]
        BY <2>1 DEF Locals, TypeOK
      <4>3. tty'.at = "idle" /\ tty'.then = "idle"
        BY <3>1
      <4> QED
        BY <1>3, <2>2, <4>1, <4>2, <4>3, Zenon
    <3>3. ShownInv'
      BY <1>1, <2>1, <3>1 DEF ShownInv, ShowsCurrent, TypeOK
    <3> QED
      BY <3>2, <3>3
  <2>3. CASE tty.then = "loop"
    <3>1. tty' = [tty EXCEPT !.at = "loop", !.load = 0]
      BY <1>7, <2>3 DEF out_start
    <3>2. TypeOK' /\ CursorInv' /\ ApartInv' /\ WindowInv'
      <4>1. tty' \in Locals
        BY <3>1, LocalsFacts, Zenon DEF TypeOK, Places
      <4> QED
        BY <1>3, <2>1, <3>1, <4>1 DEF Locals, TypeOK
    <3>3. ShownInv'
      BY <1>1, <2>1, <3>1 DEF ShownInv, ShowsCurrent, TypeOK
    <3> QED
      BY <3>2, <3>3
  <2> QED
    BY <2>2, <2>3 DEF Locals, TypeOK
<1> QED
  BY <1>4, <1>5, <1>6, <1>7

\* Every step keeps the invariant.
LEMMA ConsoleStep == ConsoleInv /\ [Next]_vars => ConsoleInv'
<1> SUFFICES ASSUME ConsoleInv, [Next]_vars PROVE ConsoleInv'
  OBVIOUS
<1>1. CASE UNCHANGED vars
  BY <1>1 DEF vars, ConsoleInv, TypeOK, CursorInv, Lost, in_loop, ApartInv, WindowInv, ShownInv,
              ShowsCurrent
<1>2. ASSUME ~spins, NEW c \in Con, NEW ch \in ProgChar, print(c, ch) PROVE ConsoleInv'
  BY <1>2, PrintStep, ConsoleAssumption
<1> QED
  BY <1>1, <1>2, StartStep, EchoStep, ScrollStep, ShowStep DEF Next, TtyStep, spin

LEMMA ConsoleAlways == Spec => []ConsoleInv
BY ConsoleInit, ConsoleStep, PTL DEF Spec

----------------------------------------------------------------------------

\* When task_tty and the programs race for a cursor it stays within a line of its
\* part (out_char), or has passed 0 on the first console and then whoever is in
\* out_char there stays in its loop, for every size of the screen and of the
\* parts and every width of the integers that holds the addresses.
THEOREM CursorStaysNear == Spec => []CursorNear
<1>1. ConsoleInv => CursorNear
  BY DEF ConsoleInv, CursorInv, CursorNear, Near, Lost, wrapped
<1> QED
  BY <1>1, ConsoleAlways, PTL

\* Without such a race no console writes outside its part of the video memory,
\* its cursor is in it, and every system call that prints comes back.
THEOREM ConsolesKeepApart == Spec => []ConsolesApart
<1>1. ConsoleInv => ConsolesApart
  BY DEF ConsoleInv, ApartInv, ConsolesApart
<1> QED
  BY <1>1, ConsoleAlways, PTL

\* The window starts on a line of its own console whatever races (scroll_screen
\* tests, loads and stores), and ends less than two lines behind it, less than
\* one without a race.
THEOREM WindowStaysOnLines == Spec => []WindowOnLines
<1>1. ASSUME ConsoleInv PROVE WindowOnLines
  <2> SUFFICES ASSUME NEW c \in Con
               PROVE  LET off == current_start_addr[c] - original_addr(c)
                      IN /\ off >= 0 /\ off % SCREEN_WIDTH = 0
                         /\ off + SCREEN_SIZE < v_mem_limit + 2 * SCREEN_WIDTH
                         /\ ~raced => off + SCREEN_SIZE < v_mem_limit + SCREEN_WIDTH
    BY DEF WindowOnLines
  <2>1. /\ current_start_addr[c] \in Int
        /\ OnLine(c, current_start_addr[c]) /\ Far(c, current_start_addr[c])
        /\ ~raced => Within(c, current_start_addr[c])
    BY <1>1 DEF ConsoleInv, WindowInv, TypeOK
  <2> QED
    BY <2>1, AddrFacts DEF OnLine, Within, Far
<1> QED
  BY <1>1, ConsoleAlways, PTL

\* Without a race the controller shows the current console whenever task_tty is
\* idle, though it writes the registers in several steps (flush, select_console).
THEOREM CurrentIsShown == Spec => []ShowsCurrent
<1>1. ConsoleInv => ShowsCurrent
  BY DEF ConsoleInv, ShownInv
<1> QED
  BY <1>1, ConsoleAlways, PTL
=============================================================================
