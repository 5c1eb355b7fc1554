# A verification project for aneasyos

aneasyos is a small 32-bit x86 kernel in the style of MINIX: tasks in ring 1 serve
programs in ring 3 through synchronous messages. This directory holds TLA+ models of
its core, the TLC runs that check them on small instances, and TLAPS proofs of the
properties that matter most, for all values of the constants.

`PROJECT.json` lists the components, the runs, what every definition stands for in the
source (`map`), a mutation for every property, the findings, the hazards and the
theorems. Paths below are relative to `src/src/`.

## 1. The system

| Component | State | Operations | What makes it correct |
|---|---|---|---|
| Message passing, `kernel/sched.c` | the IPC fields of `proc_table[]` | `sys_sendrec`, `msg_send`, `msg_recevie`, `inform_int`, `deadlock` | no message lost, duplicated or misdelivered; no missed rendezvous; lists exact and in order; asserts hold |
| Scheduler and clock, `kernel/sched.c`, `clock.c`, `syscall.c` | `p_flags`, `ticks`, `priority`, `wake_up_ticks`, `p_proc_ready` | `schedule`, `clock_handler`, `sys_sleep`, `block` | somebody is always runnable; nobody starves; sleepers wake |
| Process management, `mm/` and `lib/` | `p_parent`, the bits WAITING, HANGING, FREE_SLOT | `do_fork`, `do_exit`, `cleanup`, `do_wait`, `fork()`, `wait()`, `exit()` | every call answered once; the tree of processes stays whole |
| Terminal input, `kernel/tty.c` | a ring of keys for each tty | `put_key`, `get_char_form_tty`, `do_read` | the ring is a queue; lines get read |
| Keyboard, `kernel/keyboard.c` | a ring of scan codes, modifier flags | `keyboard_handler`, `keyboard_read`, `in_process` | strokes mean what the user meant |
| Consoles, `kernel/console.c` | cursor and window of each console, the CRT controller | `out_char`, `scroll_screen`, `select_console` | consoles keep apart; the current one is shown |
| Disk driver, `kernel/hd.c` | the disk, the interrupt, `has_int_msg` | `hd_read_bytes`, `interrupt_wait`, `hd_handler`, `task_hd` | reads in step with the disk; no lost wake-up |
| File system task, `kernel/main.c` | the request it serves | `task_fs`, `read()` | every read comes back |
| FAT16 reader, `fs/fat.c` | the table, the list of root entries | `read_vbr_16`, `read_root_dirs`, `find_dir_entry`, `read_file` | the bytes asked for, from the file asked for |
| System task, `kernel/systask.c` | `ticks`, `unix_time` (read) | GET_TICKS, GET_PID, GETTIME, MSGSLEEP | every request answered, with a value for its sender and of its time |
| Kernel entry, `kernel/asm/*.asm`, `traps.c`, `i8259A.c` | `k_reenter`, the kernel stack, the TSS stack, the interrupt flag and mask, the register frames | `save`, `restart`, `sys_call`, `hwint*`, `enable_irq` | no register frame lost; what the scheduler chose is what runs; nesting is bounded |
| Boot, `boot/setup.asm`, `setup_c.c`, `kernel/main.c` | `mem_size`, page tables | the memory map, `DispMemInfo`, `setup_paging` | all memory counted is mapped |
| Clock chip and calendar, `lib/klib.c`, `lib/libc.c` | `unix_time` | `read_rtc`, `mktime` | the kernel starts with the true time |
| Memory for processes, `mm/main.c` | `memory_size` | `init_mm`, `alloc_mem` | places exist, are mapped, are given once |
| Strings, `vsprintf` | - | pure functions | - |
| Exceptions, test programs, port I/O | - | print and halt; clients; one instruction | - |

How they interact. Programs and tasks call `send_recv`, which enters the kernel
(`sendrec`); the kernel copies a message from one process to the other or blocks the
caller and schedules. The clock interrupt calls `schedule`; the keyboard interrupt fills
a ring that `task_tty` polls; the disk interrupt calls `inform_int(TASK_HD)`.
`task_fs` asks `task_hd` for DEV_OPEN once, then serves `read()` out of the tty rings
that `task_tty` fills; `task_mm` serves `fork`, `wait`, `exit`; `task_sys` serves
`time`, `getpid`, `get_ticks2`. Every entry, from a program or an interrupt, goes through
`save` and leaves through `restart`, which resumes `p_proc_ready`.

What is hard here: the interrupt flag is clear when a system call begins, but printing
turns it on, handlers run with interrupts on and nest, and tasks run in ring 1 and share memory with each other and with the kernel
(`p_flags`, `inbuf_count`, `cursor`, `current_start_addr`) without locks; interrupts
arrive before, while or after somebody waits for them; tasks block on each other;
counters and buffers have limits. The hazards in `PROJECT.json` name the lines.

## 2. Modules

| Module | Models | Uses |
|---|---|---|
| `Ipc` | the message kernel: one operator for every operation and for every way it can end; its invariants | - |
| `IpcClients` | the kernel under arbitrary clients, and what they see of it | `Ipc`, `Rendezvous` |
| `Rendezvous` | the abstract promise: synchronous message passing | - |
| `IpcLemmas` | proofs about the operators of `Ipc`, for every module that makes calls | `Ipc` |
| `IpcProofs` | proofs about `IpcClients` | `IpcLemmas` |
| `Sched` | scheduler, clock, sleep | - |
| `KernelEntry`, `KernelProofs` | entry, nesting and exit of the kernel around the scheduler; proofs of both | `Sched` |
| `ForkExit`, `ForkProofs` | `task_mm` and its callers; proofs | `Ipc`, `IpcLemmas` |
| `TtyInput`, `TtyProofs` | tty rings, writer and reader; proofs of this and of `Keyboard` | `Keyboard` |
| `Keyboard` | keyboard, interrupt handler, decoder | - |
| `Console`, `ConsoleProofs` | consoles and CRT controller; proofs | - |
| `HdDriver` | disk, `task_hd`, `task_fs` | `Ipc` |
| `Servers`, `ServersProofs` | `task_sys`, the clock and the clients beside them; proofs of all of it | `HdDriver`, `IpcLemmas` |
| `Fat` (proofs in `BootProofs`) | mount, lookup, file reading | - |
| `Boot`, `BootProofs` | memory map, paging, clock chip, `mktime`, `alloc_mem`; proofs about memory, time and files | - |
| `MCIpc`, `MCKernel`, `MCForkExit`, `MCServers`, `MCBoot` | constants for TLC that a `.cfg` cannot write | |

Correspondence of state and actions:

- **Ipc**. `p_flags` is the set of bits that are set. `p_msg` is 0 or 1: which buffer it
  points at is always the caller's. The linked list `q_sending`/`next_sending` is a
  sequence. `msg[p]` is the buffer `p` passed to its last call; a message is its source
  and its "type", which stands for everything else in it. A failed assert or a panic is
  recorded in `fault`, and nothing runs after it. A message call is one step: all gates
  are interrupt gates, the `sti` in `sys_call` is commented out, and only printing turns
  interrupts on (`KernelEntry` has that case).
  `deadlock(src, dest)` is stated as reachability along `p_sendto`; that the walk of the
  code ends is what `NoSendCycle` is for.
- **IpcClients**. Any process that is not blocked makes any call; `owed` remembers the
  second half of a BOTH. The disk task receives from ANY or INTERRUPT only, as in
  `hd.c`: another receive with an interrupt pending would fail the last assert of
  `msg_recevie`.
- **Sched**. `flags` distinguishes READY, PROC_SLEEP and any other bit. `left` is the
  sleep that remains. One action for the clock in a process, one for the clock in the
  kernel (`k_reenter != 0`), one for each call that leaves the processor. `Busy` are the
  processes whose code never blocks (`task_tty`'s loop; Init's `while(1)`).
- **KernelEntry**. `stack` has a record for every entry under way: who entered, how far
  it is (handler, second half, `restart` step by step), whether its `ret` leads to
  `restart` or `restart_reenter`, and whose frame `esi` points at. The frame of a process
  is one value: whole, whole but for the result of a call, in use, or lost. A handler's
  body is one step of `Sched` (or none); every hardware instruction that changes the flag,
  the mask, `k_reenter` or the TSS is a step of its own or bundled with steps that the
  flag keeps together. A system call may end with interrupts on (`set_cursor`). `Window`
  says whether an interrupt may fall between the instructions of `restart`: in the run
  `kernel` it may not, in `restart_window` it may, as in the code.
- **ForkExit**. `mm` is the place and the locals of `task_mm`. Steps end at system calls
  and between the load and the store of `p_flags |= bit`, the only accesses of `task_mm`
  that the kernel can get in between of with an effect. `torn` is a history variable: a store has undone a change
  that the kernel made. `lib` is the library call each process is in. Init, as the source
  stands, stops in `while(1)` before its `fork()`; the model lets every process call
  `fork`, `wait` and `exit`, which is what the library offers.
- **TtyInput**. The writer and the reader in steps of one access to `inbuf_count`;
  `unread` is what was put in and not taken out, `torn` that a store undid the other's.
- **Keyboard**. The keyboard (external) sends make and break codes byte by byte;
  `due` is what the user meant and has not been done yet, `wrong` that something else was.
- **Console**. A system call prints a character in one step; `task_tty` performs
  `out_char`, `scroll_screen` and `select_console` one shared access at a time. `raced`
  records that a program printed on the console `task_tty` was at work on. A cursor is an
  unsigned int: it is taken modulo `UINT`, so one that passes 0 becomes the greatest
  number. Then the loop of `out_char` that scrolls the window after it never ends;
  `spins` says that a system call is in it, and nothing but `spin` happens any more.
- **HdDriver**. Data is counted in sectors; the disk (external) has one interrupt for
  each sector. Any message to `task_hd` but DEV_OPEN is the panic of the code.
- **Servers**. Each client makes any of its calls (`Calls`), one after the other;
  `since` remembers the tick at which the call began. Reading a value and sending it are
  two steps of `task_sys`, and the clock ticks between any two. `unix_time` counts from
  the start.
- **Fat**. The disk is chosen in `FatInit` among all proper ones. A byte is its place
  on the disk, so that a result shows where it came from. Loops over a chain are
  recursive functions. Sizes have no width: a FAT16 volume is smaller than 2 GB, and the
  sums of two such numbers fit into the u32 of the code. `part_start_sec` is where the
  first partition begins; `read_fat` does not look at it, so the table in memory is the
  disk's only where it is 1 (`table_loaded`). A look-up in an empty root directory follows
  a pointer that was never set, and a read with another table follows garbage: the model
  ends there, at `wild` (or at `assert`, if the pointer happens to be null). Two names on
  a path are looked up as the code does it, from the directory's own entry on.
- **Boot**. Memory is counted in pages; sums wrap at 2^20 pages as u32 does, and `int`
  makes 2 GB and more negative, as `memory_size` does. A machine is a BIOS memory map and
  the moment it is switched on. `read_rtc` reads one register a step; the chip (external)
  announces an update at least `Lead` port accesses ahead, which is what its data sheet
  guarantees (244 microseconds) and what the wait for the flag relies on. `main()` runs
  with interrupts off, so nothing else comes between. Unix time is a day and a second of
  the day. `Tomorrow` and `DayNumber` are the reference: the calendar counted on day by
  day, and days summed by year and month (`YearBegins`, `MonthBegins`).

## 3. Runs

| Run | States | Shows |
|---|---|---|
| `ipc` | 41 thousand | seven properties of the kernel under all clients, among them the refinement to `Rendezvous` |
| `kernel` | 78 thousand | no frame is lost (`FramesWhole`), the chosen process runs (`RunsChosen`), nesting is exact (`NestingExact`), `NeverHung`, `WakeLatency`, and under fairness `ReadyRuns` |
| `mm` | 510 thousand | fork, wait and exit with three child slots, and that `fork()` comes back with success in parent and child |
| `tty_input` | 790 thousand | the ring is a queue within its bounds, lines get read |
| `keyboard` | 450 thousand | decoding of seven kinds of keys, in any overlap |
| `console` | 1.3 million | two consoles, programs against `task_tty`, cursors that wrap |
| `servers` | 400 thousand | disk, driver, file system task, system task, clock and two clients |
| `fat` | 420 thousand | every small disk and every request |
| `boot` | 650 thousand | memory sizes around every limit; carries of the clock at the ends of months and years |
| `mm_stale_child` | violation | `wait()` blocks on a child that is long gone |
| `tty_race` | violation | `inbuf_count` does not guarantee data |
| `restart_window` | violation | an interrupt inside `restart` is taken for one from user mode |

Bounds and why they are enough.

- `ipc`: four processes give circles and chains of three senders, a list of three with a
  removal in its middle, and the disk task beside them. One message value suffices: the
  source tells messages apart. The proofs remove the bound.
- `kernel`: three processes, two priorities, one of them never blocking; sleeps of 0 to 2
  ticks, one nested tick of debt, the clock and one more line: ties, refills with and
  without sleepers, a handler inside a handler inside a system call (the deepest nesting
  two lines allow).
- `mm`: Init and three slots give orphans, reuse of a slot and a full table; `MCCalls`
  says who makes which calls: Init forks and waits, the first child makes all of them,
  the second forks and exits, the third exits.
- `tty_input`: rings of two slots wrap at once. `Char` is empty in this run because a
  Backspace with nothing to take back is stored like a plain character, so the two kinds of
  keys already cover the branches of `do_read`; `MaxLine` bounds what is typed ahead.
- `keyboard`: a ring of three bytes is shorter than PrintScreen and Pause, so the
  sequences meet both a waiting reader and a full ring. No stroke is made after a loss.
- `console`: a width of 2, a screen of 2 lines and 7 characters for each console keep the
  relation of the real numbers (80, 2000, 5461): the console is longer than the screen and
  no multiple of a line. `UINT` is 19: more than both consoles and two lines, and no
  multiple of a line (nor is 2^32 one of 80), so a wrapped cursor is on no line. Programs
  print characters, newlines and backspaces. The run reaches a cursor of `UINT - 1` and
  `UINT - 2`, with a system call and with `task_tty` in the loop.
- `servers`: `COUNT_MOD` 3 in place of 256, so that requests reach the value that is sent as 0. One
  client reads lines and the time, the other reads lines, its pid and the ticks; a second
  is two ticks long.
- `boot`: memory that ends before, at and behind the first, second and last place of a
  process, at a multiple of 4 MB and a page off it, at 2 GB and near 4 GB, and ranges above
  4 GB whose upper halves the code ignores; the last two seconds of every February and
  December from 2000 to 2099 and of every month of three years. The last second of 2099 is
  left out: `read_rtc` takes the century from `CURRENT_YEAR`. Memory above 1 MB has no hole:
  `DispMemInfo` keeps only the highest end, so on a machine with the ISA hole at 15 MB the
  third place would lie partly in it.
- `fat`: partitions at sector 1 and at 63; clusters of two bytes, files of up to three
  clusters, a root directory of two sectors with two slots
  each (the end mark and deleted entries in every place, so empty ones, too), an array of
  three entries, so that it can run out.

`CHECK_DEADLOCK FALSE` stands where the system may stop: after a panic or failed assert,
when everybody waits for somebody to act (`ipc`, `mm`), when nobody presses a key and
bounds are used up, or when boot is over. The run `kernel` checks for deadlock.

History variables. `CallsAnswered`, `KernelQuiet`, `RingExact`, `LinesAreRead`,
`ConsolesApart`, `ShowsCurrent`, `EchoEnds` and the liveness of `ForkExit` are claimed as
long as no unlocked read-modify-write has undone the other side's; what survives even
such a race is claimed without that condition: `ParentsLive`, `NoMissedExit`,
`ExitIsFinal`, `InBounds`, `CursorNear` and the first half of
`WindowOnLines`. `ForkReturns` is claimed until a store is torn, and for callers that are
not `refused`: those `task_mm` answers with -1 when every slot is taken, which then fail the library's
assert. The races themselves are in the models; `tty_race` shows one.

Fairness. `KernelEntry` assumes that the processor gets on with every entry although
interrupts break in again and again (strong fairness of each entrant's steps: handlers are
finite and a device that has been served is silent for a while), and that the timer's
ticks do not all fall into the kernel (strong fairness of the clock interrupt in user
mode: a tick is 10 ms, an entry far less). The other modules assume weak fairness of every
READY process's next step, which is what `ReadyRuns` establishes, of the interrupts that
are pending, and of the disk. No fairness is assumed of users: nobody has to type, call
or press. In `HdDriver` the step that answers a READ stands for a line that has been
typed.

## 4. Findings

1. `mm/forkexit.c:315`: `do_wait` counts free slots whose `p_parent` is stale.
2. `kernel/tty.c:95`, `:197`: the count of the ring is updated by two tasks without a lock.
3. `kernel/asm/kernel.asm:107`: `restart` can be interrupted when `k_reenter` already says
   that the kernel has been left.

The details, with the lines of documentation they contradict, are in `PROJECT.json`.

Met while modelling, without a run of their own:

- `fs/fat.c:415`: the rest of a path is looked up among the siblings of the directory, so
  `/DIR/A.TXT` gives the contents of `/A.TXT`, although the comment at `:437` means the file
  in the directory.
- `fs/fat.c:512`: `root_fs_entry.next` is not set when the root directory is empty;
  `fs/fat.c:108`: `read_fat` takes the partition to begin at sector 1.
- `mm/forkexit.c:28`: with a full table `fork()` does not return -1: the caller fails
  `assert(msg.RETVAL == 0)` (`lib/fork.c:13`) and spins.
- `kernel/console.c:128`: when a program and `task_tty` race for a cursor, it can come to lie
  where no window reaches it: a newline tested for one line and done on the last (line 69
  begins at 5520 = 3520 + 2000, and 3520 is the last place of the window), or a Backspace
  that takes the cursor of the first console below 0, to 2^32 - 1. The loop then never
  ends; in a system call it keeps the processor. `CursorNear` describes the second case.
- `lib/string.c:19`: `memset` never advances its pointer (and `init_kernel` does not clear the
  bss, so the tables are zero only where the memory was); `lib/klib.c:260` tests the wrong bit
  for binary mode and loses the PM bit.
- `mm/main.c:101`: every `fork()` panics on a machine with 2 GB or more.
- `boot/setup_c.c:196` unmaps page 0, where the segments of all native processes begin, so that
  `phys_copy` of such a parent (`mm/forkexit.c:94`) must fault - Init stops in `while(1)`
  before its `fork()`.
- A child of Init has a segment of 2 MB, but `alloc_mem` was asked for 704 KB, so on a machine
  with less than 12 MB the segment passes the end of memory.

## 5. Proofs

All theorems are checked by TLAPS without any unproved step. They hold for every value
of the constants that the named assumptions of the modules allow; TLC evaluates those
assumptions in the runs.

### Messages (`IpcLemmas`, `IpcProofs`)

The invariant `KernelInv` of the message kernel is the types, `FieldsAgree`, `QueueExact`,
`NoMissedRendezvous`, `NoSleepThroughInterrupt`, `NoSendCycle` and `NoAssertFails`
together. None is inductive alone: the asserts need the fields to agree; that a list entry
is really a blocked sender (`QueueExact`) is needed to know that the process taken from the
list may be released; `NoSendCycle` needs the detector's answer and the fact that a
receiver is no sender.

`IpcLemmas` speaks of the operators only, so that every module that makes calls can use
it. `EnqueueFacts`, `UnlinkFacts` and `FlagFacts` say what the helpers do to a list and a
flag word; one lemma for each way an operation ends (`SendDeliverInv`, `RecvCopyInv`, ...)
leads to `SendInv`, `RecvInv` and `InformIntInv`: each call keeps `KernelInv`. Its second
half describes the same calls as a process sees them. At any moment a process is at one
*place*: ready, sending to one process, or waiting on one process, the interrupt or
anybody (`Places`, and the exclusions in `PlaceFacts`). `SendEffect`, `RecvEffect` and
`InformEffect` say which places and buffers a call changes and that it leaves all others
alone (`Unmoved`); a deadlock is reported only when the receiver itself is sending, to the
caller or to a process that is sending too.

`IpcProofs` adds what arbitrary clients owe (`ClientInv`) and concludes `TypeCorrect`,
`AssertsHold`, `ListsExact`, `RendezvousFound`, `NoCircles`, `InterruptsSeen`;
`FirstComeFirstServed` is an action property from the same invariant; `Refinement` shows
that every step maps to a step of `Rendezvous` or a stutter, where the circle of the
abstract specification and the closed sets of `deadlock` are matched in `CircleFacts`.
Assumptions: `IpcAssumption` and `ClientAssumption` (the special numbers ANY, INTERRUPT,
NO_TASK are no process numbers, TASK_HD is one).

### Scheduler and kernel entry (`KernelProofs`)

`SchedulerSafe` adds `BusyReady`, that the processes that never block are READY, to four
properties: it is why the scheduler always finds one. `WakeLatency` is inductive together
with `NoHoarding`: what a sleeper oversleeps is paid for by a tick of the running process.
Assumption: priorities are positive and `Busy` is not empty. `KernelSafe` carries the same
over to `KernelEntry`: `SchedStep` shows that each step of the kernel is a step of `Sched`
or leaves its variables alone.

`EntriesInOrder` proves the inductive invariant `EntryInv` of the entries, for any set of
interrupt lines and nesting of any depth. Beside `NestingExact` and `FramesWhole` it says:
only the first entry returns by `restart`, all others by `restart_reenter`
(`FirstReturns`); an entry that is not the latest was interrupted in its
handler or behind it, where interrupts are on (`Interrupted`); a line is masked as long as
its handler runs (`LinesMasked`, why no line is nested in itself); interrupts are off from
the exit of an interrupt on (`OffAtExit`); `restart` has loaded the frame and the stack of
`p_proc_ready` (`TssChosen`); a system call that nested interrupts delay still knows its
caller (`CallerWaits`). From it follow `NestingCounted`, `FramesKept` and `ChosenRuns`.

These four theorems assume `~Window`: no interrupt falls between the instructions of
`restart`. In the code that is so for every exit of an interrupt handler, which clears the
flag first, and for every system call that has not printed. For one that has it is
false, and then the properties are too: that is the finding of run `restart_window`. The
theorems say that there is no other way to lose a frame.

### Processes (`ForkProofs`)

`ForkInv` is proved for any number of slots and any set of calls each process makes. It
is the types, `KernelQuiet` and, until an assert has failed, `QueueExact`, `UserInv`,
`MMInv` and `TreeInv`; only all of them together are inductive.

- `UserInv`: every process is at one of a few places: in its own code, blocked sending its
  call, heard (and perhaps blocked in its receive), WAITING, HANGING, or a free slot. One
  place more needs `torn`: a process is `Lost` when a store of `task_mm` has undone the
  RECEIVING bit that the kernel had set after the load. A lost process is scheduled
  although it has no answer, and is the only way to a failed assert.
- `MMInv`: what `task_mm` owes at each place of its code. It hears one call at a time
  (`MMHeard`), answers it or records why it does not, and sends only to a process that has
  been heard and is not sending itself (`MMSends`), which is why `deadlock` cannot say yes.
  `Marking`, between the load and the store of `p_flags |= bit`, says that what `do_wait`
  and `do_exit` tested before is still true when the bit appears. `CleansUp`: the zombie
  under `cleanup` is a process that called `exit` and its parent is in `wait`.
- `TreeInv`: every used slot has a living parent, and no HANGING child has a WAITING
  parent. It is not inductive as it stands: in the middle of `do_exit` the children of the
  process that exits have not been handed to Init yet. `Exiting` names these places.

The four ways a call of a client or of `task_mm` ends (`Delivered`, `Joined`, `Copied`,
`Listens`) are operators, and `SendDelivers`, `SendBlocks`, `RecvCopies` and `RecvBlocks`
derive them from `IpcLemmas`. Frame lemmas (`SamePlace`, `UsersKept`, `TreeKept`, `MMKept`,
`ProcessMoves`) say which processes a step leaves where they are; each action has a lemma
of its own. The loop over the table that finds the first zombie or free slot needs
that a set of slots has a least one, which is a well-founded induction (`MinFacts`).

Theorems: `TreeStaysWhole`, `ExitsAreNoticed` and `ExitForGood` hold even after a store
has undone the kernel's; `CallsComeBack` and `KernelStaysQuiet` until then. Assumptions:
`ForkAssumption` (the processes are `task_mm`, Init and the slots; Init does not call
`exit`) and `IpcAssumption`.

### Terminal and keyboard (`TtyProofs`)

`RingSafe`: head, tail and count stay in range in spite of the race. The strengthening says
that a writer that is past its test has loaded, or will load, a count below the size (only
the reader can change it meanwhile, and only downwards), and the same for the reader and 0.
`RingIsQueue`: until a store has undone the other task's, the ring from tail to head is what
was typed and not yet read. The invariant `QueueInv` relates the count to the queue while one
side is half-way: the writer has stored a key and moved the head but not counted up
(`late`), the reader has taken one but not counted down (`early`); `PutHolds` and
`TakeHolds` are the arithmetic of the ring.

The second part proves `Keyboard` for a ring of any size and any set of the keys. Neither of its
properties is inductive: whether the driver is right about a byte depends on all
strokes that are under way. `KeyInv` says that there is a list of strokes whose codes, one behind
the other, are the bytes taken by the current `keyboard_read`, in the ring and still in the
keyboard (`Stream`), whose meanings are what is due, and along which the set of keys that are
down leads from the one the driver's flags show to the one that is held (`Script`). It is
stated with functions on the numbers, which count the bytes and meanings before
each stroke, so that no step needs an induction: a stroke is added behind the last one
(`StrokeMade`), a byte that moves changes nothing (`ByteQueued`), and the first stroke is taken
off when its last byte is read (`ByteTaken`). Three facts about the tables carry the proof:
a beginning of a code is the beginning of PrintScreen or Pause only while bytes of the
stroke are missing (`UnfinishedFacts`); the lookup finds the entry of the key (`LookupFacts`); and
the flags follow the keys, so that `in_process` does what was meant (`FlagsFollow`,
`DoneAsMeant`, together `DecodeFacts`). Theorems: `NothingElse`, `NoneLeftOver`, both from
`KeysInvariance`. Assumption: `KeyboardAssumption`, the pressed keys are among the fourteen
whose codes and meaning the model has.

### Consoles (`ConsoleProofs`)

`ConsoleInv` holds for any geometry in which a console is longer than the screen and any
number of consoles, and any width of the integers that holds the video memory. `CursorInv`:
a cursor that `task_tty` has loaded and tested lies where
adding or subtracting at most a line keeps it near (`Near`), wherever a program has moved it
since. The exception is the cursor of console 0 that wraps below 0 (`Lost`): no window
reaches it, because none is further than two lines behind its console (`Far`), so whoever has
stored it, and whoever prints on it then, is in the loop for good. `U32Facts` and `NextLine`
are the arithmetic of `u32`.
`ApartInv`: without a race what was tested is still true at the store. `WindowInv`: a program
only ever scrolls a window down, so `task_tty` may scroll it up by a line it has seen; two
lines behind the end are the most the two together can do, one without a race. `ShownInv`:
`task_tty` works on the current console, programs bring the controller up to date in the step they print in, and `task_tty`
before it is idle. Theorems: `CursorStaysNear`, `ConsolesKeepApart`, `WindowStaysOnLines`,
`CurrentIsShown`. Nonlinear arithmetic (`LineFacts`, `AddrFacts`) is kept in lemmas.

### Memory, time and files (`BootProofs`)

`MemoryInv`: what setup counted is the end of a piece of memory, and the page tables cover
it (`Counted`); what was given is the place of its child and ends below what was counted
(`Given`); `alloc_mem` panics only when the end passes what was counted (`PanicRefused`).
Theorems: `ImagesKeptApart`, `SlotsHaveMemory`. `ChildrenAssumption`: pids of children are
those of the slots behind the native processes, as `do_fork` finds them.
`MachinesAssumption`: memory below 4 GB has no hole from `PROCS_BASE` on. Setup takes that
for granted (`DispMemInfo` keeps only the highest end): on a machine with the ISA hole
at 15 MB the theorem does not apply, and its conclusion would be false for the third place.

`ClockInv` is the invariant of the clock's reading. While a register is still to be read,
no second has been counted since the flag was clear, and one that has been announced is
further away than the accesses that are left (`NoUpdateYet`): so all registers are of one
moment (`ReadTrue`), and what `mktime` makes of them is that moment (`BootedAt`). The rest is
the calendar: `MktimeFacts` shows that BCD, the split of the second of the day and the sums
of `mktime` are undone and right for every date of 2000 to 2099. `YearBegins` and
`MonthBegins` are recursive functions; their values follow without induction over data:
the closed form of `mktime` satisfies the same equation (`LeapStep`), so a function that
does exists, and a least year in which the two differ cannot exist (`YearFacts`). Theorem:
`TimeIsTrue`. Assumptions: `LeadAssumption`, the chip announces an update at
least six port accesses ahead (fewer, and the year may be read after the carry; the data
sheet's 244 microseconds leave room for many more); `ClockAssumption`, a machine is switched
on between 2000 and the last day but one of 2099 (`read_rtc` writes the century itself) and
`main()` takes less than a day.

`FileInv` is the invariant of the FAT16 reader, for any root directory, any number and size
of clusters, any file and any disk that is proper at the start. `DiskProper`: the table
leads from each cluster of the file to the next, and 0 is found behind the last; the reader
changes nothing there. `DirsListed`: there is an increasing function from the list onto the
slots in front of `slot` that are live, and no end mark among those, so that at the end
the list is the directory. `LastRead`: the last result was what had been asked for. The
arithmetic is that of quotient and rest (`SplitFacts`, `JoinFacts`, `CdivFacts`) and of pieces
of a file put together (`GlueFacts`). `read_cluster_chain` and `get_offest_cluster` are
recursive functions, treated like the calendar: the file's own bytes, or the clusters of its
chain, satisfy the recursive equation, and at a least place two solutions cannot differ
(`ChainReads`, `OffestFacts`). `ReadFacts` joins the two pieces of `read_file`. Theorems:
`ListIsDirectory`, `FilesFound` (of a directory that is not empty), `FilesReadExactly` (of a
file of the root directory: what two names lead to is wrong in the code).
`FatAssumption`: a cluster has at least a byte, and clusters have numbers from 2 to below
the end mark of a chain.

### Servers (`ServersProofs`)

`ServersInv` is proved for any number of clients, any set of calls each of them makes,
requests of up to `COUNT_MOD` sectors and any `HZ`. It consists of `KernelInv` (used through
`IpcLemmas`), the clock, and `Protocol`, which says where everybody is in the conversation:

- `DiskInv`: outside of a command the disk is quiet; during one it owes as many sectors as
  the driver wants, and for the next of them exactly one of these is true: the disk is at
  work, its interrupt is raised, or `has_int_msg` has recorded it (`DiskWorks`). That is why
  one flag is enough, why no interrupt is left over for the main loop, and why the driver
  reads a sector only when there is one.
- `HdProto`: `task_hd` hears from `task_fs` alone, which is waiting for the answer.
- `FsProto`, `SysProto`: a server knows one request at a time, from a process, and goes
  back to receiving only after the answer has been taken or is on its list.
- `ClientProto`: a process is in at most one call, blocked on the server of that call until
  it is heard, and owed one answer afterwards by that server alone.

Together they exclude that `deadlock` says yes: it needs a receiver that is itself
sending in a circle, but a server that sends does so to somebody who waits for it. That
an answer is still true when it arrives (`Fresh`) is kept because ticks only grow, and with
them `ticks \div HZ` (`DivFacts`, `TrueForGrows`). `fault # "none"` is allowed in the
timeout of `waitfor` only, which is a panic in the code. Theorems: `DriverInStep`,
`InterruptComes`, `OnlyTimeout`, `CallsAreFresh`. Assumptions: `ServersAssumption` and
`HdAssumption` (the tasks are different processes, the clients are the others, a
request asks for at least one sector).

### What is only model-checked

Liveness under fairness, and whatever needs `ENABLED`: `ReadyRuns`, `ForkReturns`,
`LinesAreRead`, `EchoEnds`, `CallsReturn`. The prover does not handle it.

## 6. Not modelled

- The boot sector, loading files from the floppy, the ELF segments, the switch to
  protected mode, the set-up of descriptor tables and of the 8259A: run once, no decisions.
- Exception handlers (print and halt), port I/O primitives, the test programs and the
  shell (clients, which the models replace by arbitrary ones).
- MSGSLEEP of `task_sys`: nothing in the repository sends it.
- Disk errors: the driver has no error path. Clock chips in 12-hour or binary mode.
- Strings, `vsprintf`, names and dates of directory entries, the contents of video memory:
  sequential conversions that nothing else decides on.
- Handlers are atomic against each other's data: an interrupt inside `clock_handler`'s
  `schedule()` may set a process READY half-way through its loops; `KernelEntry` lets it
  come before or after the body.

## 7. Plan

Done: the modules of section 2, the refinement to `Rendezvous` and the proofs of
section 5. Next: the clock with wrapped counters (`wake_up_ticks = ticks + tick`).
