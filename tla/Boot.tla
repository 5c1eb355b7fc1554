-------------------------------- MODULE Boot --------------------------------
(***************************************************************************)
(* From the BIOS to the first process, and the memory that boot leaves to  *)
(* fork(): setup counts the memory (setup.asm, DispMemInfo), maps it       *)
(* (setup_paging) and hands it to the kernel; main() reads the battery     *)
(* clock (read_rtc, mktime) while the clock chip keeps running; task_mm    *)
(* gives every forked process its place (alloc_mem).                       *)
(*                                                                         *)
(* Memory is counted in pages of 4 KB: a 32-bit address is a page below    *)
(* 2^20, and an int is negative from page 2^19 up.  Unix time is a day     *)
(* since 1970 and a second of that day; 2^32 seconds end in 2106, after    *)
(* the years read_rtc can produce.                                         *)
(***************************************************************************)
EXTENDS Integers, FiniteSetsExt

CONSTANTS
  Machines,   \* what the machine may be: [ram, date, sec]
  Lead,       \* port accesses that fit between the chip's warning and its update
  Children,   \* pids of forked processes
  MaxUpdates, \* bound: seconds that pass while main() reads the clock
  MaxImages   \* bound: calls of alloc_mem

NR_TASKS == 5
NR_PROCS == 32
NR_NATIVE_PROCS == 4
PROCS_BASE == 2560               \* 10 MB
PROC_IMAGE_SIZE_DEFAULT == 512   \* 2 MB
PAGE_DIR_BASE == 256             \* 1 MB
page_table_mem_size == 1024      \* 4 MB
CURRENT_YEAR == 2017
PAGES_2GB == 524288              \* 2^19
PAGES_4GB == 1048576             \* 2^20

ASSUME LeadAssumption == Lead \in Nat /\ Lead >= 6
ASSUME ChildrenAssumption ==
  Children \subseteq NR_TASKS + NR_NATIVE_PROCS .. NR_TASKS + NR_PROCS - 1

(* What setup takes for granted of a machine: its memory below 4 GB has no *)
(* hole from PROCS_BASE on and ends before the 4 GB do; and a machine with *)
(* memory above has room for all of proc_table below.                      *)
ASSUME MachinesAssumption ==
  \A m \in Machines :
    /\ \A r \in m.ram : r.base \in 0 .. PAGES_4GB - 1 /\ r.len \in 0 .. PAGES_4GB - 1
    /\ \E low \in m.ram :
         /\ low.type = 1 /\ low.high = 0 /\ low.base <= PROCS_BASE
         /\ low.base + low.len < PAGES_4GB
         /\ \A r \in m.ram : r.type = 1 =>
              IF r.high = 0
              THEN r.base + r.len <= low.base + low.len
              ELSE low.base + low.len >= PROCS_BASE
                     + (NR_PROCS - NR_NATIVE_PROCS) * PROC_IMAGE_SIZE_DEFAULT

VARIABLES
  pc,        \* where boot is
  machine,   \* the machine: its memory and the moment it was switched on
  mem_size,  \* kernel_env.mem_size
  tables,    \* page tables filled, NoTables before setup_paging
  uip,       \* the chip announces or makes an update
  lead,      \* port accesses before that update may happen
  updates,   \* seconds passed since Init
  began,     \* updates when the first register was read
  regs,      \* registers read so far, by name
  unix_time,
  images     \* places given out by alloc_mem: [pid, base, size]

chip == <<uip, lead, updates>>
vars == <<pc, machine, mem_size, tables, chip, began, regs, unix_time, images>>

-----------------------------------------------------------------------------
(* The calendar as the clock chip keeps it, year by year, month by month.  *)

IS_LEAP_YEAR(year) == (year % 4 = 0 /\ year % 100 # 0) \/ year % 400 = 0

month_days(year) ==
  <<31, IF IS_LEAP_YEAR(year) THEN 29 ELSE 28, 31, 30, 31, 30,
    31, 31, 30, 31, 30, 31>>

\* The dates of the century in which read_rtc places the two digits of the year.
Dates ==
  {d \in [year : 2000 .. 2099, month : 1 .. 12, day : 1 .. 31] :
     d.day <= month_days(d.year)[d.month]}

(* The machine is not switched on in the last day of that century, nor is  *)
(* a day spent on reading the clock.                                       *)
ASSUME ClockAssumption ==
  /\ MaxUpdates \in Nat /\ MaxUpdates <= 86400
  /\ \A m \in Machines :
       /\ m.sec \in Nat /\ m.sec < 86400
       /\ m.date \in Dates \ {[year |-> 2099, month |-> 12, day |-> 31]}

Tomorrow(d) ==
  CASE d.day < month_days(d.year)[d.month] -> [d EXCEPT !.day = @ + 1]
    [] d.day = month_days(d.year)[d.month] /\ d.month < 12 ->
         [year |-> d.year, month |-> d.month + 1, day |-> 1]
    [] OTHER -> [year |-> d.year + 1, month |-> 1, day |-> 1]

Instant(n) ==   \* n seconds, less than a day, after the machine was switched on
  LET s == machine.sec + n
  IN  [date |-> IF s < 86400 THEN machine.date ELSE Tomorrow(machine.date),
       sec |-> s % 86400]

(* Days since 1970, counted a year and a month at a time.                  *)
YearBegins[year \in Nat] ==
  IF year <= 1970 THEN 0
  ELSE YearBegins[year - 1] + IF IS_LEAP_YEAR(year - 1) THEN 366 ELSE 365

MonthBegins(year) ==
  LET begins[month \in 1..12] ==
        IF month = 1 THEN 0 ELSE begins[month - 1] + month_days(year)[month - 1]
  IN  begins

DayNumber(d) == YearBegins[d.year] + MonthBegins(d.year)[d.month] + d.day - 1

BCD(n) == (n \div 10) * 16 + (n % 10)

Register(name, t) ==   \* in 24-hour BCD mode
  LET d == t.date
  IN  BCD(CASE name = "second" -> t.sec % 60
            [] name = "minute" -> (t.sec \div 60) % 60
            [] name = "hour"   -> t.sec \div 3600
            [] name = "day"    -> d.day
            [] name = "month"  -> d.month
            [] name = "year"   -> d.year % 100)

-----------------------------------------------------------------------------
(* mktime *)

month_day_sum == <<0, 31, 59, 90, 120, 151, 181, 212, 243, 273, 304, 334>>

leap_year_cnt(year) ==
  IF year <= 1972 THEN 0
  ELSE ((year - 1 - 1972) \div 4) + 1
       + IF year <= 2000 THEN 0
         ELSE ((year - 1 - 2000) \div 400) - ((year - 1 - 2000) \div 100)

mktime(date) ==
  [day |-> (date.year - 1970) * 365 + leap_year_cnt(date.year)
             + month_day_sum[date.month]
             + (IF IS_LEAP_YEAR(date.year) /\ date.month > 2 THEN 1 ELSE 0)
             + date.day - 1,
   sec |-> (date.hour * 60 + date.minute) * 60 + date.second]

BCD2BIN(a) == (a \div 16) * 10 + (a % 16)

date_of(r) ==
  [f \in DOMAIN r |->
     IF f = "year" THEN (CURRENT_YEAR \div 100) * 100 + BCD2BIN(r[f]) ELSE BCD2BIN(r[f])]

-----------------------------------------------------------------------------
(* Memory *)

NoTables == -1

DispMemInfo(ranges) ==   \* the upper halves of base and length are not looked at
  Max({0} \cup {(r.base + r.len) % PAGES_4GB : r \in {r \in ranges : r.type = 1}})

rounded_down(size) == size \div page_table_mem_size

page_table_cnt(size) ==
  (size \div page_table_mem_size) + IF size % page_table_mem_size # 0 THEN 1 ELSE 0

int(p) == IF p >= PAGES_2GB THEN p - PAGES_4GB ELSE p

(* T_size of a caller: INIT's segment ends at 0x30000 + 0x7ffff, the other *)
(* native processes have the kernel's, of all 4 GB, a forked one its       *)
(* image.                                                                  *)
caller_T_size == {(limit + 1) % PAGES_4GB : limit \in {175, PAGES_4GB - 1, PROC_IMAGE_SIZE_DEFAULT - 1}}

place_of_slot(pid) == PROCS_BASE + pid * PROC_IMAGE_SIZE_DEFAULT

place(pid) ==
  PROCS_BASE + (pid - (NR_TASKS + NR_NATIVE_PROCS)) * PROC_IMAGE_SIZE_DEFAULT

base_only(pid, memsize) ==
  memsize > PROC_IMAGE_SIZE_DEFAULT \/ place(pid) >= int(mem_size)

refused(pid, memsize) ==
  \/ memsize > PROC_IMAGE_SIZE_DEFAULT
  \/ place(pid) + memsize >= int(mem_size)

-----------------------------------------------------------------------------
Init ==
  /\ pc = "e820"
  /\ machine \in Machines
  /\ mem_size = 0
  /\ tables = NoTables
  /\ uip \in BOOLEAN
  /\ lead \in IF uip THEN {0, Lead \div 2, Lead} ELSE {0}
  /\ updates = 0
  /\ began = 0
  /\ regs = <<>>
  /\ unix_time = [day |-> 0, sec |-> 0]
  /\ images = {}

(* A carry from any call of int 15h makes the number of ranges 0.          *)
count_memory ==
  /\ pc = "e820"
  /\ \E answered \in BOOLEAN :
       mem_size' = DispMemInfo(IF answered THEN machine.ram ELSE {})
  /\ pc' = "paging"
  /\ UNCHANGED <<machine, tables, chip, began, regs, unix_time, images>>

(* With no page table the instruction after the switch cannot be fetched   *)
(* and there is no handler yet: the processor resets.                      *)
setup_paging ==
  /\ pc = "paging"
  /\ tables' = page_table_cnt(mem_size)
  /\ pc' = IF tables' = 0 THEN "reset" ELSE "wait"
  /\ UNCHANGED <<machine, mem_size, chip, began, regs, unix_time, images>>

port_access == lead' = IF lead > 0 THEN lead - 1 ELSE 0

flag_not_tested == TRUE

flag_is_clear == ~uip

get_update_in_progress_flag ==
  /\ pc = "wait"
  /\ pc' = IF flag_is_clear THEN "second" ELSE "wait"
  /\ port_access
  /\ began' = updates
  /\ UNCHANGED <<machine, mem_size, tables, uip, updates, regs, unix_time, images>>

NextRegister ==
  [second |-> "minute", minute |-> "hour", hour |-> "day",
   day |-> "month", month |-> "year", year |-> "convert"]

get_RTC_reg(name) ==
  /\ pc = name
  /\ regs' = [f \in DOMAIN regs \cup {name} |->
                IF f = name THEN Register(name, Instant(updates)) ELSE regs[f]]
  /\ pc' = NextRegister[name]
  /\ port_access
  /\ UNCHANGED <<machine, mem_size, tables, uip, updates, began, unix_time, images>>

get_rtc_unxi_time ==
  /\ pc = "convert"
  /\ unix_time' = mktime(date_of(regs))
  /\ pc' = "running"
  /\ UNCHANGED <<machine, mem_size, tables, chip, began, regs, images>>

alloc_mem(pid, memsize) ==
  /\ pc = "running"
  /\ Cardinality(images) < MaxImages
  /\ pid \notin {i.pid : i \in images}
  /\ IF refused(pid, memsize)
     THEN pc' = "panic" /\ UNCHANGED images
     ELSE images' = images \cup {[pid |-> pid, base |-> place(pid), size |-> memsize]}
          /\ UNCHANGED pc
  /\ UNCHANGED <<machine, mem_size, tables, chip, began, regs, unix_time>>

(* The chip: it raises the flag some time before it counts a second.       *)
reading == pc \in {"wait", "convert"} \cup DOMAIN NextRegister

warn ==
  /\ reading /\ ~uip /\ updates < MaxUpdates
  /\ uip' = TRUE
  /\ lead' = Lead
  /\ UNCHANGED <<pc, machine, mem_size, tables, updates, began, regs, unix_time, images>>

update ==
  /\ reading /\ uip /\ lead = 0
  /\ uip' = FALSE
  /\ updates' = updates + 1
  /\ UNCHANGED <<pc, machine, mem_size, tables, lead, began, regs, unix_time, images>>

Next ==
  \/ count_memory
  \/ setup_paging
  \/ get_update_in_progress_flag
  \/ \E name \in DOMAIN NextRegister : get_RTC_reg(name)
  \/ get_rtc_unxi_time
  \/ \E pid \in Children, memsize \in caller_T_size : alloc_mem(pid, memsize)
  \/ warn
  \/ update

Spec == Init /\ [][Next]_vars

-----------------------------------------------------------------------------
(* The time main() starts the kernel's clock with is the true time at some *)
(* moment of the reading: no field is from before a carry and another from *)
(* after it, and mktime agrees with the calendar.                          *)
BootTimeExact ==
  pc \in {"running", "panic"} =>
    \E n \in began..updates :
      unix_time = [day |-> DayNumber(Instant(n).date), sec |-> Instant(n).sec]

ram(page) == \E r \in machine.ram :
  r.type = 1 /\ r.high = 0 /\ r.base <= page /\ page < r.base + r.len

mapped(page) == page # 0 /\ page < tables * page_table_mem_size

(* What alloc_mem gives out exists, is mapped, lies above the page tables  *)
(* setup_paging left behind and belongs to one process only, to the end of *)
(* its segment.                                                            *)
ImagesApart ==
  \A i \in images :
    /\ i.base > PAGE_DIR_BASE + tables
    /\ \A page \in {i.base, i.base + i.size - 1} :
         i.size > 0 => ram(page) /\ mapped(page)
    /\ \A j \in images \ {i} :
         \/ i.base + PROC_IMAGE_SIZE_DEFAULT <= j.base
         \/ j.base + PROC_IMAGE_SIZE_DEFAULT <= i.base

(* A machine with room for all of proc_table never makes alloc_mem panic   *)
(* (below 2 GB, where memory_size turns negative): what setup counted      *)
(* reaches task_mm and the places are packed from PROCS_BASE up.           *)
EverySlotHasMemory ==
  LET all == PROCS_BASE + (Max(Children) - (NR_TASKS + NR_NATIVE_PROCS) + 1)
                            * PROC_IMAGE_SIZE_DEFAULT
      top == Max({r.base + r.len : r \in {r \in machine.ram : r.type = 1 /\ r.high = 0}})
  IN  pc = "panic" => ~ (mem_size > 0 /\ all < top /\ mem_size < PAGES_2GB)

=============================================================================
