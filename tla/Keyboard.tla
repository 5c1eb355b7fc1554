------------------------------ MODULE Keyboard ------------------------------
(***************************************************************************)
(* From the keyboard to the terminal: keyboard_handler queues the bytes    *)
(* that the keyboard sends, keyboard_read (called by task_tty for the      *)
(* current console) takes them out and decodes them, in_process acts on    *)
(* the key.                                                                *)
(*                                                                         *)
(* get_byte_from_kbuf masks interrupts, so the ring kb_in is a queue of at *)
(* most KB_IN_BYTES bytes and a byte is put in or taken out in one step;   *)
(* its pointers wrap like those of the ring in TtyInput.  keyboard_read    *)
(* spins inside a sequence of bytes until the next one arrives.            *)
(***************************************************************************)
EXTENDS Integers, Sequences, SequencesExt

CONSTANTS
  KB_IN_BYTES,    \* the size of the ring
  Keys            \* the keys of the keyboard that are pressed

\* The keys whose codes and meaning are below.
KeyName == {"a", "Enter", "Backspace", "LShift", "RShift", "LCtrl", "RCtrl", "LAlt", "RAlt",
            "Up", "Down", "F2", "PrintScreen", "Pause"}

ASSUME KeyboardAssumption == KB_IN_BYTES \in Nat \ {0} /\ Keys \subseteq KeyName

E0 == 224
E1 == 225

VARIABLES
  kb_in,    \* the bytes in the ring, oldest first
  got,      \* the bytes the current keyboard_read has taken
  mods,     \* the flags shift_l, shift_r, ctrl_l, ctrl_r, alt_l, alt_r that are set
  wire,     \* the keyboard: the bytes of the last stroke still to be sent
  held,     \* the keys that are down
  due,      \* history: what the strokes made so far still have to bring about
  wrong,    \* history: something else came about
  lost      \* history: keyboard_handler has found the ring full

keyboardVars == <<kb_in, got, mods, wire, held, due, wrong, lost>>

KeyboardInit ==
  /\ kb_in = <<>> /\ got = <<>> /\ mods = {}
  /\ wire = <<>> /\ held = {} /\ due = <<>> /\ wrong = FALSE /\ lost = FALSE

----------------------------------------------------------------------------
(* The keyboard (scan code set 1) and what its keys are for *)

\* The byte of a key without a sequence of its own, and the keys behind E0.
code(k) ==
  CASE k = "a" -> 30 [] k = "Enter" -> 28 [] k = "Backspace" -> 14
    [] k = "LShift" -> 42 [] k = "RShift" -> 54 [] k \in {"LCtrl", "RCtrl"} -> 29
    [] k \in {"LAlt", "RAlt"} -> 56 [] k = "Up" -> 72 [] k = "Down" -> 80
    [] k = "F2" -> 60

Extended == {"RCtrl", "RAlt", "Up", "Down"}

makeCode(k) ==
  CASE k = "PrintScreen" -> <<E0, 42, E0, 55>>
    [] k = "Pause" -> <<E1, 29, 69, E1, 157, 197>>
    [] k \in Extended -> <<E0, code(k)>>
    [] OTHER -> <<code(k)>>

breakCode(k) ==
  CASE k = "PrintScreen" -> <<E0, 183, E0, 170>>
    [] k = "Pause" -> <<>>
    [] k \in Extended -> <<E0, code(k) + 128>>
    [] OTHER -> <<code(k) + 128>>

\* What a user means by pressing k with the keys in H down.
Meant(k, H) ==
  CASE k = "a" -> <<[do |-> "put", what |-> IF H \cap {"LShift", "RShift"} = {} THEN "a" ELSE "A"]>>
    [] k = "Enter" -> <<[do |-> "put", what |-> "nl"]>>
    [] k = "Backspace" -> <<[do |-> "put", what |-> "bs"]>>
    [] k \in {"Up", "Down"} /\ H \cap {"LShift", "RShift"} # {} -> <<[do |-> "scroll", what |-> k]>>
    [] k = "F2" /\ H \cap {"LAlt", "RAlt"} # {} -> <<[do |-> "select", what |-> k]>>
    [] OTHER -> <<>>

\* A key goes down; holding it repeats the stroke.  Bound: no stroke is made
\* once a byte was lost.
press(k) ==
  /\ ~lost /\ wire = <<>>
  /\ wire' = makeCode(k)
  /\ held' = IF k = "Pause" THEN held ELSE held \cup {k}
  /\ due' = due \o Meant(k, held)
  /\ UNCHANGED <<kb_in, got, mods, wrong, lost>>

release(k) ==
  /\ ~lost /\ wire = <<>> /\ k \in held
  /\ wire' = breakCode(k)
  /\ held' = held \ {k}
  /\ UNCHANGED <<kb_in, got, mods, due, wrong, lost>>

----------------------------------------------------------------------------
(* keyboard_handler: one interrupt for each byte *)

keyboard_handler ==
  /\ wire # <<>>
  /\ wire' = Tail(wire)
  /\ \/ /\ Len(kb_in) < KB_IN_BYTES
        /\ kb_in' = Append(kb_in, Head(wire))
        /\ UNCHANGED lost
     \/ /\ Len(kb_in) >= KB_IN_BYTES
        /\ lost' = TRUE
        /\ UNCHANGED kb_in
  /\ UNCHANGED <<got, mods, held, due, wrong>>

----------------------------------------------------------------------------
(* keyboard_read *)

pausebrk_scode == <<E1, 29, 69, E1, 157, 197>>
print_make == <<E0, 42, E0, 55>>
print_break == <<E0, 183, E0, 170>>

\* keyboard_read asks for one more byte after g.
unfinished(g) ==
  \/ IsStrictPrefix(g, pausebrk_scode)
  \/ IsStrictPrefix(g, print_make) \/ IsStrictPrefix(g, print_break)

\* The rows of keymap[] for the bytes above: !Shift, Shift, E0.  The key 0 of
\* the table is "none", and stands for the rows that are left out too.
keymap(row) ==
  CASE row = 30 -> <<"a", "A", "none">>
    [] row = 28 -> <<"ENTER", "ENTER", "PAD_ENTER">>
    [] row = 14 -> <<"BACKSPACE", "BACKSPACE", "none">>
    [] row = 42 -> <<"SHIFT_L", "SHIFT_L", "none">>
    [] row = 54 -> <<"SHIFT_R", "SHIFT_R", "none">>
    [] row = 29 -> <<"CTRL_L", "CTRL_L", "CTRL_R">>
    [] row = 56 -> <<"ALT_L", "ALT_L", "ALT_R">>
    [] row = 72 -> <<"PAD_UP", "8", "UP">>
    [] row = 80 -> <<"PAD_DOWN", "2", "DOWN">>
    [] row = 60 -> <<"F2", "F2", "none">>
    [] row = 69 -> <<"NUM_LOCK", "NUM_LOCK", "none">>
    [] row = 55 -> <<"*", "*", "none">>
    [] OTHER -> <<"none", "none", "none">>

Modifier == {"SHIFT_L", "SHIFT_R", "CTRL_L", "CTRL_R", "ALT_L", "ALT_R"}

shift_first(e0, m) ==
  IF m \cap {"SHIFT_L", "SHIFT_R"} # {} THEN 2 ELSE IF e0 THEN 3 ELSE 1

\* The column of the table: E0 goes before Shift.
column(e0, m) ==
  IF e0 THEN 3 ELSE IF m \cap {"SHIFT_L", "SHIFT_R"} # {} THEN 2 ELSE 1

make_only(m, k, make) == IF k \in Modifier /\ make THEN m \cup {k} ELSE m

\* shift_l = make, and so on.
set_flag(m, k, make) ==
  IF k \notin Modifier THEN m ELSE IF make THEN m \cup {k} ELSE m \ {k}

\* The keys without FLAG_EXT are characters, the 0 of an empty entry is one.
plain(k) == k \in {"a", "A", "2", "8", "*", "none"}

\* in_process: put_key and echo, scroll, change the console, or nothing.
in_process(k, m) ==
  CASE plain(k) -> <<[do |-> "put", what |-> k]>>
    [] k = "ENTER" -> <<[do |-> "put", what |-> "nl"]>>
    [] k = "BACKSPACE" -> <<[do |-> "put", what |-> "bs"]>>
    [] k = "UP" /\ m \cap {"SHIFT_L", "SHIFT_R"} # {} -> <<[do |-> "scroll", what |-> "Up"]>>
    [] k = "DOWN" /\ m \cap {"SHIFT_L", "SHIFT_R"} # {} -> <<[do |-> "scroll", what |-> "Down"]>>
    [] k = "F2" /\ m \cap {"ALT_L", "ALT_R"} # {} -> <<[do |-> "select", what |-> "F2"]>>
    [] OTHER -> <<>>

\* The sequence g is complete.  PrintScreen and Pause are recognised and
\* ignored; any other is looked up by its first byte, or by the one after E0.
decode(g) ==
  LET e0 == g[1] = E0
      scan_code == IF e0 THEN g[2] ELSE g[1]
      make == scan_code < 128
      key == keymap(scan_code % 128)[column(e0, mods)]
      m == set_flag(mods, key, make)
      done == IF make THEN in_process(key, m) ELSE <<>>
  IN IF g \in {pausebrk_scode, print_make, print_break}
     THEN UNCHANGED <<mods, due, wrong>>
     ELSE /\ mods' = m
          /\ due' = IF IsPrefix(done, due) THEN SubSeq(due, Len(done) + 1, Len(due)) ELSE due
          /\ wrong' = (wrong \/ ~IsPrefix(done, due))

\* get_byte_from_kbuf, and the decoding when the byte was the last one.
keyboard_read ==
  LET g == Append(got, Head(kb_in))
  IN /\ kb_in # <<>>
     /\ kb_in' = Tail(kb_in)
     /\ \/ /\ unfinished(g)
           /\ got' = g
           /\ UNCHANGED <<mods, due, wrong>>
        \/ /\ ~unfinished(g)
           /\ got' = <<>>
           /\ decode(g)
     /\ UNCHANGED <<wire, held, lost>>

----------------------------------------------------------------------------

KeyboardNext ==
  \/ \E k \in Keys : press(k) \/ release(k)
  \/ keyboard_handler
  \/ keyboard_read

\* The keyboard sends what it has, and task_tty polls for ever.
KeyboardSpec ==
  /\ KeyboardInit /\ [][KeyboardNext]_keyboardVars
  /\ WF_keyboardVars(keyboard_handler) /\ WF_keyboardVars(keyboard_read)

----------------------------------------------------------------------------

\* As long as no byte was lost, every character, line end, scrolling and
\* change of console is one that the user asked for, in the order of the
\* strokes: the bytes of one key are never taken for another.
OnlyWhatWasMeant == ~lost => ~wrong

flagOf(k) ==
  CASE k = "LShift" -> {"SHIFT_L"} [] k = "RShift" -> {"SHIFT_R"}
    [] k = "LCtrl" -> {"CTRL_L"} [] k = "RCtrl" -> {"CTRL_R"}
    [] k = "LAlt" -> {"ALT_L"} [] k = "RAlt" -> {"ALT_R"} [] OTHER -> {}

\* When all bytes are decoded nothing is left over, and the flags of the
\* driver say which modifiers are down: no Shift stays on by itself.
CaughtUp ==
  ~lost /\ wire = <<>> /\ kb_in = <<>> =>
    got = <<>> /\ due = <<>> /\ mods = UNION {flagOf(k) : k \in held}
=============================================================================
