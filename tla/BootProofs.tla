----------------------------- MODULE BootProofs -----------------------------
(***************************************************************************)
(* The memory that boot leaves to fork(), for any machine without a hole   *)
(* in its memory and any set of children; the time the kernel starts with, *)
(* for any machine switched on in the century read_rtc knows; and what it  *)
(* reads from its disk, for any proper FAT16 file system.                  *)
(***************************************************************************)
EXTENDS Boot, Fat, TLAPS, WellFoundedInduction, SequenceTheorems

\* A set of integers that is bounded has a greatest element, and Max finds it.
LEMMA MaxFacts ==
  ASSUME NEW S \in SUBSET Int, S # {}, NEW b \in Int, \A x \in S : x <= b
  PROVE  Max(S) \in S /\ \A y \in S : y <= Max(S)
<1> DEFINE T == {b - x : x \in S}
<1>1. T \subseteq Nat /\ T # {}
  <2>1. \A x \in S : b - x \in Nat
    OBVIOUS
  <2> QED
    BY <2>1
<1>2. PICK m \in T : \A y \in T : ~ (<<y, m>> \in OpToRel(<, Nat))
  BY <1>1, NatLessThanWellFounded, WFMin
<1>3. \A y \in T : ~ (y < m)
  BY <1>1, <1>2 DEF OpToRel
<1>4. PICK x \in S : m = b - x
  OBVIOUS
<1>5. ASSUME NEW y \in S PROVE x >= y
  <2>1. b - y \in T
    OBVIOUS
  <2>2. ~ (b - y < b - x)
    BY <1>3, <1>4, <2>1
  <2> QED
    BY <2>2
<1> QED
  BY <1>5 DEF Max

\* The sizes in pages.
LEMMA PagesFacts ==
  /\ PAGES_4GB \in Int /\ PAGES_2GB \in Int /\ PAGES_4GB = 2 * PAGES_2GB
  /\ PAGES_2GB > 0 /\ PAGES_4GB = page_table_mem_size * 1024
BY SMT DEF PAGES_4GB, PAGES_2GB, page_table_mem_size

\* The pids of children are those of the slots behind the native processes.
LEMMA ChildFacts == \A p \in Children : p \in Int /\ p <= 36
BY ChildrenAssumption DEF NR_TASKS, NR_NATIVE_PROCS, NR_PROCS

\* A child's place is between PROCS_BASE and the end of the last slot's, and
\* the places of different children do not overlap.
LEMMA PlaceFacts ==
  ASSUME NEW p \in Children
  PROVE  /\ place(p) \in Int /\ place(p) >= PROCS_BASE
         /\ place(p) + PROC_IMAGE_SIZE_DEFAULT <=
              PROCS_BASE + (NR_PROCS - NR_NATIVE_PROCS) * PROC_IMAGE_SIZE_DEFAULT
         /\ \A q \in Children : p < q => place(p) + PROC_IMAGE_SIZE_DEFAULT <= place(q)
BY ChildrenAssumption
DEF place, PROCS_BASE, NR_TASKS, NR_NATIVE_PROCS, NR_PROCS, PROC_IMAGE_SIZE_DEFAULT

\* What setup counts is 0 or the end of a piece of memory, no piece ends behind
\* it, and it is an address.
LEMMA CountFacts ==
  ASSUME NEW m \in Machines
  PROVE  /\ DispMemInfo({}) = 0
         /\ DispMemInfo(m.ram) \in 0 .. PAGES_4GB - 1
         /\ DispMemInfo(m.ram) = 0 \/ \E r \in m.ram : r.type = 1 /\
              DispMemInfo(m.ram) = (r.base + r.len) % PAGES_4GB
         /\ \A r \in m.ram : r.type = 1 => (r.base + r.len) % PAGES_4GB <= DispMemInfo(m.ram)
<1> DEFINE E(pieces) == {(r.base + r.len) % PAGES_4GB : r \in {r \in pieces : r.type = 1}}
           S(pieces) == {0} \cup E(pieces)
<1>0. PAGES_4GB \in Int /\ PAGES_4GB > 0
  BY PagesFacts
<1>1. E(m.ram) \subseteq 0 .. PAGES_4GB - 1
  <2>1. \A r \in m.ram : r.base \in 0 .. PAGES_4GB - 1 /\ r.len \in 0 .. PAGES_4GB - 1
    BY MachinesAssumption
  <2>2. \A r \in m.ram : (r.base + r.len) % PAGES_4GB \in 0 .. PAGES_4GB - 1
    BY <1>0, <2>1
  <2> QED
    BY <2>2
<1>2. S(m.ram) \in SUBSET Int /\ S(m.ram) # {} /\ \A x \in S(m.ram) : x \in 0 .. PAGES_4GB - 1
  <2>1. 0 \in 0 .. PAGES_4GB - 1 /\ 0 .. PAGES_4GB - 1 \subseteq Int
    BY <1>0
  <2> HIDE DEF E
  <2> QED
    BY <1>1, <2>1
<1>3. Max(S(m.ram)) \in S(m.ram) /\ \A y \in S(m.ram) : y <= Max(S(m.ram))
  <2>1. PICK b \in Int : b = PAGES_4GB - 1
    BY <1>0
  <2>2. \A x \in S(m.ram) : x <= b
    BY <1>0, <1>2, <2>1
  <2> HIDE DEF S
  <2> QED
    BY <1>2, <2>2, MaxFacts
<1>4. Max(S({})) = 0
  <2>1. S({}) = {0}
    OBVIOUS
  <2> QED
    BY <2>1, MaxFacts
<1>5. DispMemInfo(m.ram) = Max(S(m.ram)) /\ DispMemInfo({}) = Max(S({}))
  BY DEF DispMemInfo
<1>6. \A r \in m.ram : r.type = 1 => (r.base + r.len) % PAGES_4GB \in S(m.ram)
  OBVIOUS
<1>7. \A x \in S(m.ram) : x = 0 \/ \E r \in m.ram : r.type = 1 /\ x = (r.base + r.len) % PAGES_4GB
  OBVIOUS
<1> HIDE DEF S, E
<1> QED
  BY <1>2, <1>3, <1>4, <1>5, <1>6, <1>7

----------------------------------------------------------------------------

\* What setup left behind: the count is the end of the memory it was told of,
\* or 0, and the page tables cover it.
Counted ==
  /\ machine \in Machines
  /\ mem_size \in 0 .. PAGES_4GB - 1
  /\ mem_size # 0 =>
       /\ \E r \in machine.ram : r.type = 1 /\ mem_size = (r.base + r.len) % PAGES_4GB
       /\ \A r \in machine.ram : r.type = 1 => (r.base + r.len) % PAGES_4GB <= mem_size
  /\ pc \notin {"e820", "paging"} => tables = page_table_cnt(mem_size)

\* The places that have been given out were not refused, one for a child.
Given ==
  /\ images # {} => pc \notin {"e820", "paging"}
  /\ \A i \in images :
       /\ i.pid \in Children /\ i.base = place(i.pid)
       /\ i.size \in 0 .. PROC_IMAGE_SIZE_DEFAULT /\ i.base + i.size < int(mem_size)
  /\ \A i, j \in images : i.pid = j.pid => i = j

\* alloc_mem panics only when it refuses.
PanicRefused ==
  pc = "panic" => \E pid \in Children, memsize \in caller_T_size : refused(pid, memsize)

MemoryInv == Counted /\ Given /\ PanicRefused

\* A caller's segment is no larger than an image.
LEMMA CallerFacts == caller_T_size \subseteq 0 .. PROC_IMAGE_SIZE_DEFAULT
<1>1. ASSUME NEW l \in {175, PAGES_4GB - 1, PROC_IMAGE_SIZE_DEFAULT - 1}
      PROVE  (l + 1) % PAGES_4GB \in 0 .. PROC_IMAGE_SIZE_DEFAULT
  BY SMT DEF PAGES_4GB, PROC_IMAGE_SIZE_DEFAULT
<1> QED
  BY <1>1 DEF caller_T_size

\* Boot starts with nothing counted and nothing given out.
LEMMA MemoryInit == Init => MemoryInv
<1> SUFFICES ASSUME Init PROVE MemoryInv
  OBVIOUS
<1>1. 0 \in 0 .. PAGES_4GB - 1
  BY PagesFacts
<1>2. pc = "e820" /\ machine \in Machines /\ mem_size = 0 /\ images = {}
  BY DEF Init
<1> QED
  BY <1>1, <1>2 DEF MemoryInv, Counted, Given, PanicRefused

\* Counting, mapping and giving out memory keep the invariant; reading the
\* clock does not touch it.
LEMMA MemoryStep == MemoryInv /\ [Next]_vars => MemoryInv'
<1> SUFFICES ASSUME MemoryInv, [Next]_vars PROVE MemoryInv'
  OBVIOUS
<1> USE DEF MemoryInv
<1>1. ASSUME count_memory PROVE MemoryInv'
  <2>1. /\ machine' = machine /\ machine \in Machines /\ images' = {} /\ pc' = "paging"
        /\ mem_size' = DispMemInfo({}) \/ mem_size' = DispMemInfo(machine.ram)
    BY <1>1 DEF count_memory, Counted, Given
  <2>2. 0 \in 0 .. PAGES_4GB - 1
    BY PagesFacts
  <2>3. CASE mem_size' = DispMemInfo({})
    BY <2>1, <2>2, <2>3, CountFacts DEF Counted, Given, PanicRefused
  <2>4. CASE mem_size' = DispMemInfo(machine.ram)
    <3>1. Counted'
      BY <2>1, <2>4, CountFacts DEF Counted
    <3> QED
      BY <2>1, <3>1 DEF Given, PanicRefused
  <2> QED
    BY <2>1, <2>3, <2>4
<1>2. ASSUME setup_paging PROVE MemoryInv'
  <2>1. /\ UNCHANGED <<machine, mem_size, images>> /\ images = {}
        /\ tables' = page_table_cnt(mem_size) /\ pc' \in {"reset", "wait"}
    BY <1>2 DEF setup_paging, Given
  <2> QED
    BY <2>1 DEF Counted, Given, PanicRefused, page_table_cnt
<1>3. ASSUME UNCHANGED <<machine, mem_size, tables, images>>,
             pc \notin {"e820", "paging"}, pc' \notin {"e820", "paging", "panic"}
      PROVE  MemoryInv'
  <2>1. Counted' /\ PanicRefused'
    BY <1>3 DEF Counted, PanicRefused
  <2>2. Given'
    BY <1>3 DEF Given, int
  <2> QED
    BY <2>1, <2>2
<1>4. ASSUME get_update_in_progress_flag \/ get_rtc_unxi_time \/ warn \/ update
      PROVE  MemoryInv'
  <2>1. CASE get_update_in_progress_flag
    BY <1>3, <2>1 DEF get_update_in_progress_flag
  <2>2. CASE get_rtc_unxi_time
    BY <1>3, <2>2 DEF get_rtc_unxi_time
  <2>3. CASE warn \/ update
    <3>1. reading => pc \notin {"e820", "paging", "panic"}
      BY DEF reading, NextRegister
    <3> QED
      BY <1>3, <2>3, <3>1 DEF warn, update
  <2> QED
    BY <1>4, <2>1, <2>2, <2>3
<1>5. ASSUME NEW name \in DOMAIN NextRegister, get_RTC_reg(name) PROVE MemoryInv'
  BY <1>3, <1>5 DEF get_RTC_reg, NextRegister
<1>6. ASSUME NEW pid \in Children, NEW memsize \in caller_T_size, alloc_mem(pid, memsize)
      PROVE  MemoryInv'
  <2>1. UNCHANGED <<machine, mem_size, tables>> /\ pc = "running"
    BY <1>6 DEF alloc_mem
  <2>2. CASE refused(pid, memsize)
    <3>1. images' = images /\ pc' = "panic"
      BY <1>6, <2>2 DEF alloc_mem
    <3>2. refused(pid, memsize)'
      BY <2>1, <2>2 DEF refused, int
    <3> QED
      BY <2>1, <3>1, <3>2 DEF Counted, Given, PanicRefused, int
  <2>3. CASE ~refused(pid, memsize)
    <3> DEFINE i == [pid |-> pid, base |-> place(pid), size |-> memsize]
    <3>1. images' = images \cup {i} /\ pc' = pc /\ \A j \in images : j.pid # pid
      BY <1>6, <2>3 DEF alloc_mem
    <3>2. /\ i.pid = pid /\ i.base = place(pid) /\ i.size = memsize
          /\ memsize \in 0 .. PROC_IMAGE_SIZE_DEFAULT /\ place(pid) \in Int
      BY CallerFacts, PlaceFacts
    <3>3. place(pid) + memsize < int(mem_size)
      <4>1. mem_size \in Int
        BY PagesFacts DEF Counted
      <4>2. int(mem_size) \in Int /\ memsize \in Int
        BY <3>2, <4>1, PagesFacts DEF int, PROC_IMAGE_SIZE_DEFAULT
      <4> QED
        BY <2>3, <3>2, <4>2 DEF refused
    <3> HIDE DEF i
    <3>4. Given'
      BY <2>1, <3>1, <3>2, <3>3 DEF Given, int
    <3> QED
      BY <2>1, <3>1, <3>4 DEF Counted, PanicRefused
  <2> QED
    BY <2>2, <2>3
<1>7. ASSUME UNCHANGED vars PROVE MemoryInv'
  BY <1>7 DEF vars, chip, Counted, Given, PanicRefused, int, refused
<1> QED
  BY <1>1, <1>2, <1>4, <1>5, <1>6, <1>7 DEF Next

LEMMA MemoryAlways == Spec => []MemoryInv
BY MemoryInit, MemoryStep, PTL DEF Spec

----------------------------------------------------------------------------

\* The end of a piece of memory below 4 GB needs no 33rd bit.
LEMMA LowEnd ==
  ASSUME NEW b \in Int, NEW l \in Int, b >= 0, l >= 0, b + l < PAGES_4GB
  PROVE  (b + l) % PAGES_4GB = b + l
<1>1. PICK n \in Int : n = PAGES_4GB
  BY PagesFacts
<1> QED
  BY <1>1

\* The page tables of less than 2 GB cover it and are at most 512.
LEMMA TableFacts ==
  ASSUME NEW s \in Int, s >= 0, s < PAGES_2GB
  PROVE  /\ page_table_cnt(s) \in 0 .. 512
         /\ s <= page_table_cnt(s) * page_table_mem_size
<1>1. s < 512 * 1024
  BY SMT DEF PAGES_2GB
<1> QED
  BY <1>1 DEF page_table_cnt, page_table_mem_size

\* fork() gives out memory that exists, that setup mapped, above the page
\* tables, and to one process only (alloc_mem, setup_paging, DispMemInfo): on
\* every machine without a hole in its memory and for every set of children.
THEOREM ImagesKeptApart == Spec => []ImagesApart
<1>1. ASSUME MemoryInv PROVE ImagesApart
  <2> SUFFICES ASSUME NEW i \in images
               PROVE  /\ i.base > PAGE_DIR_BASE + tables
                      /\ \A page \in {i.base, i.base + i.size - 1} :
                           i.size > 0 => ram(page) /\ mapped(page)
                      /\ \A j \in images \ {i} :
                           \/ i.base + PROC_IMAGE_SIZE_DEFAULT <= j.base
                           \/ j.base + PROC_IMAGE_SIZE_DEFAULT <= i.base
    BY DEF ImagesApart
  <2>1. PICK b \in Int, s \in Int :
          /\ i.base = b /\ b = place(i.pid) /\ i.pid \in Children /\ i.size = s
          /\ s >= 0 /\ s <= 512 /\ b + s < int(mem_size) /\ b >= 2560
          /\ b + 512 <= PROCS_BASE + (NR_PROCS - NR_NATIVE_PROCS) * PROC_IMAGE_SIZE_DEFAULT
    <3>1. i.size \in 0 .. 512
      BY <1>1 DEF MemoryInv, Given, PROC_IMAGE_SIZE_DEFAULT
    <3>2. /\ i.pid \in Children /\ i.base = place(i.pid) /\ i.base + i.size < int(mem_size)
      BY <1>1 DEF MemoryInv, Given
    <3>3. /\ place(i.pid) \in Int /\ place(i.pid) >= 2560
          /\ place(i.pid) + 512 <= PROCS_BASE + (NR_PROCS - NR_NATIVE_PROCS) * PROC_IMAGE_SIZE_DEFAULT
      BY <3>2, PlaceFacts DEF PROC_IMAGE_SIZE_DEFAULT, PROCS_BASE
    <3>4. i.base \in Int /\ i.size \in Int /\ i.size >= 0 /\ i.size <= 512
      BY ONLY <3>1, <3>2, <3>3
    <3> USE <3>4
    <3> WITNESS i.base \in Int, i.size \in Int
    <3> QED
      BY ONLY <3>2, <3>3, <3>4
  <2>2. mem_size \in Int /\ mem_size >= 0 /\ mem_size < PAGES_4GB
    BY <1>1, PagesFacts DEF MemoryInv, Counted
  <2>3. mem_size < PAGES_2GB /\ int(mem_size) = mem_size
    BY <2>1, <2>2, PagesFacts DEF int
  <2>4. tables = page_table_cnt(mem_size)
    BY <1>1 DEF MemoryInv, Counted, Given
  <2>5. tables \in 0 .. 512 /\ mem_size <= tables * page_table_mem_size
    BY <2>2, <2>3, <2>4, TableFacts
  <2>6. i.base > PAGE_DIR_BASE + tables
    BY <2>1, <2>5 DEF PAGE_DIR_BASE
  <2>7. ASSUME NEW page \in Int, b <= page, page < b + s PROVE ram(page)
    <3>1. machine \in Machines /\ mem_size # 0
      BY <1>1, <2>1, <2>3 DEF MemoryInv, Counted
    <3>2. PICK r \in machine.ram : r.type = 1 /\ mem_size = (r.base + r.len) % PAGES_4GB
      BY <1>1, <3>1 DEF MemoryInv, Counted
    <3>3. PICK low \in machine.ram :
            /\ low.type = 1 /\ low.high = 0 /\ low.base <= PROCS_BASE
            /\ low.base + low.len < PAGES_4GB
            /\ \A q \in machine.ram : q.type = 1 =>
                 IF q.high = 0 THEN q.base + q.len <= low.base + low.len
                 ELSE low.base + low.len >= PROCS_BASE
                        + (NR_PROCS - NR_NATIVE_PROCS) * PROC_IMAGE_SIZE_DEFAULT
      BY <3>1, MachinesAssumption
    <3>4. /\ r.base \in Int /\ r.base >= 0 /\ r.len \in Int /\ r.len >= 0
          /\ low.base \in Int /\ low.len \in Int
      BY <3>1, PagesFacts, MachinesAssumption
    <3>5. page < low.base + low.len
      <4>1. CASE r.high = 0
        <5>1. r.base + r.len <= low.base + low.len /\ r.base + r.len < PAGES_4GB
          BY <3>2, <3>3, <3>4, <4>1, PagesFacts
        <5>2. mem_size = r.base + r.len
          BY <3>2, <3>4, <5>1, LowEnd
        <5> QED
          BY <2>1, <2>3, <2>7, <3>4, <5>1, <5>2
      <4>2. CASE r.high # 0
        <5>1. low.base + low.len >= PROCS_BASE
                + (NR_PROCS - NR_NATIVE_PROCS) * PROC_IMAGE_SIZE_DEFAULT
          BY <3>2, <3>3, <4>2
        <5> QED
          BY <2>1, <2>7, <3>4, <5>1
             DEF PROCS_BASE, NR_PROCS, NR_NATIVE_PROCS, PROC_IMAGE_SIZE_DEFAULT
      <4> QED
        BY <4>1, <4>2
    <3> QED
      BY <2>1, <2>7, <3>3, <3>5, <3>4 DEF ram, PROCS_BASE
  <2>8. ASSUME NEW page \in Int, b <= page, page < b + s PROVE mapped(page)
    BY <2>1, <2>2, <2>3, <2>5, <2>8 DEF mapped, page_table_mem_size
  <2>9. ASSUME NEW j \in images \ {i}
        PROVE  \/ i.base + PROC_IMAGE_SIZE_DEFAULT <= j.base
               \/ j.base + PROC_IMAGE_SIZE_DEFAULT <= i.base
    <3>1. /\ i.pid # j.pid /\ i.pid \in Children /\ j.pid \in Children
          /\ i.base = place(i.pid) /\ j.base = place(j.pid)
      BY <1>1 DEF MemoryInv, Given
    <3>2. i.pid \in Int /\ j.pid \in Int
      BY <3>1, ChildFacts, Zenon
    <3>3. i.pid < j.pid \/ j.pid < i.pid
      BY <3>1, <3>2
    <3> QED
      BY <3>1, <3>3, PlaceFacts
  <2>10. ASSUME NEW page \in {i.base, i.base + i.size - 1}, i.size > 0
         PROVE  page \in Int /\ b <= page /\ page < b + s
    BY <2>1, <2>10
  <2> QED
    BY <2>6, <2>7, <2>8, <2>9, <2>10
<1> QED
  BY <1>1, MemoryAlways, PTL

\* A machine with room for every child, all of it below 2 GB, never makes
\* alloc_mem panic: what setup counted is the end of that room.
THEOREM SlotsHaveMemory == Spec => []EverySlotHasMemory
<1>1. ASSUME MemoryInv PROVE EverySlotHasMemory
  <2> DEFINE all == PROCS_BASE + (Max(Children) - (NR_TASKS + NR_NATIVE_PROCS) + 1)
                                   * PROC_IMAGE_SIZE_DEFAULT
             ends == {r.base + r.len : r \in {r \in machine.ram : r.type = 1 /\ r.high = 0}}
  <2> SUFFICES ASSUME pc = "panic", mem_size > 0, all < Max(ends), mem_size < PAGES_2GB
               PROVE  FALSE
    BY DEF EverySlotHasMemory
  <2>1. PICK pid \in Children, memsize \in caller_T_size : refused(pid, memsize)
    BY <1>1 DEF MemoryInv, PanicRefused
  <2>2. mem_size \in Int /\ int(mem_size) = mem_size /\ mem_size # 0 /\ machine \in Machines
    BY <1>1, PagesFacts DEF MemoryInv, Counted, int
  <2>3. PICK low \in machine.ram :
          /\ low.type = 1 /\ low.high = 0 /\ low.base + low.len < PAGES_4GB
          /\ \A q \in machine.ram : q.type = 1 /\ q.high = 0 =>
               q.base + q.len <= low.base + low.len
    BY <2>2, MachinesAssumption
  <2>4. \A q \in machine.ram : q.base \in Nat /\ q.len \in Nat
    BY <2>2, PagesFacts, MachinesAssumption
  <2>5. low.base + low.len <= mem_size
    <3>1. (low.base + low.len) % PAGES_4GB <= mem_size
      BY <1>1, <2>2, <2>3 DEF MemoryInv, Counted
    <3> QED
      BY <2>3, <2>4, <3>1, LowEnd
  <2>6. Max(ends) \in Int /\ Max(ends) <= mem_size
    <3>1. ends \in SUBSET Int /\ low.base + low.len \in ends
      BY <2>3, <2>4
    <3>2. \A x \in ends : x <= low.base + low.len
      BY <2>3
    <3>3. PICK b \in Int : b = low.base + low.len
      BY <2>4
    <3> HIDE DEF ends
    <3>4. Max(ends) \in ends
      BY <3>1, <3>2, <3>3, MaxFacts
    <3>5. Max(ends) \in Int /\ Max(ends) <= b
      BY <3>1, <3>2, <3>3, <3>4
    <3> QED
      BY <2>2, <2>5, <3>3, <3>5
  <2>7. Max(Children) \in Int /\ pid \in Int /\ pid <= Max(Children)
    <3>1. Children \in SUBSET Int /\ Children # {} /\ 36 \in Int
      BY ChildFacts
    <3>2. Max(Children) \in Children /\ \A y \in Children : y <= Max(Children)
      BY <3>1, ChildFacts, MaxFacts
    <3> QED
      BY <3>1, <3>2
  <2>8. place(pid) + PROC_IMAGE_SIZE_DEFAULT <= all /\ all \in Int
    BY <2>7 DEF place, PROCS_BASE, PROC_IMAGE_SIZE_DEFAULT, NR_TASKS, NR_NATIVE_PROCS
  <2>9. memsize \in 0 .. PROC_IMAGE_SIZE_DEFAULT /\ place(pid) \in Int
    BY CallerFacts, PlaceFacts
  <2> HIDE DEF all, ends
  <2> QED
    BY <2>1, <2>2, <2>6, <2>8, <2>9 DEF refused, PROC_IMAGE_SIZE_DEFAULT
<1> QED
  BY <1>1, MemoryAlways, PTL

----------------------------------------------------------------------------

\* A set of numbers has a least one.
LEMMA LeastFacts ==
  ASSUME NEW T \in SUBSET Nat, T # {}
  PROVE  \E m \in T : \A y \in T : m <= y
<1>1. PICK m \in T : \A y \in T : ~ (<<y, m>> \in OpToRel(<, Nat))
  BY NatLessThanWellFounded, WFMin
<1>2. \A y \in T : ~ (y < m)
  BY <1>1 DEF OpToRel
<1> QED
  BY <1>2

\* A count of whole fours, hundreds and four hundreds grows at their multiples.
LEMMA DivStep ==
  ASSUME NEW n \in Nat
  PROVE  /\ (n + 1) \div 4 = (n \div 4) + IF (n + 1) % 4 = 0 THEN 1 ELSE 0
         /\ (n + 1) \div 100 = (n \div 100) + IF (n + 1) % 100 = 0 THEN 1 ELSE 0
         /\ (n + 1) \div 400 = (n \div 400) + IF (n + 1) % 400 = 0 THEN 1 ELSE 0
<1>1. (n + 1) \div 4 = (n \div 4) + IF (n + 1) % 4 = 0 THEN 1 ELSE 0
  OBVIOUS
<1>2. (n + 1) \div 100 = (n \div 100) + IF (n + 1) % 100 = 0 THEN 1 ELSE 0
  OBVIOUS
<1>3. (n + 1) \div 400 = (n \div 400) + IF (n + 1) % 400 = 0 THEN 1 ELSE 0
  OBVIOUS
<1> QED
  BY <1>1, <1>2, <1>3

\* The leap days that mktime counts in closed form are those of the calendar.
LEMMA LeapStep ==
  ASSUME NEW y \in Nat, y >= 1970
  PROVE  leap_year_cnt(y + 1) = leap_year_cnt(y) + IF IS_LEAP_YEAR(y) THEN 1 ELSE 0
<1>1. CASE y < 1973
  <2>1. y \in {1970, 1971, 1972}
    BY <1>1
  <2>2. IS_LEAP_YEAR(y) <=> y = 1972
    BY <2>1 DEF IS_LEAP_YEAR
  <2> HIDE DEF IS_LEAP_YEAR
  <2> QED
    BY <2>1, <2>2 DEF leap_year_cnt
<1>2. CASE y >= 1973 /\ y < 2000
  <2>1. IS_LEAP_YEAR(y) <=> (y - 1972) % 4 = 0
    BY <1>2 DEF IS_LEAP_YEAR
  <2>2. PICK n \in Nat : n = y - 1973
    BY <1>2
  <2>3. leap_year_cnt(y + 1) = ((n + 1) \div 4) + 1 /\ leap_year_cnt(y) = (n \div 4) + 1
    <3>1. (y + 1) - 1 - 1972 = n + 1 /\ y - 1 - 1972 = n
      BY <2>2
    <3> QED
      BY <1>2, <3>1 DEF leap_year_cnt
  <2>4. IS_LEAP_YEAR(y) <=> (n + 1) % 4 = 0
    BY <2>1, <2>2
  <2> QED
    BY <2>3, <2>4, DivStep
<1>3. CASE y = 2000
  BY <1>3 DEF leap_year_cnt, IS_LEAP_YEAR
<1>4. CASE y > 2000
  <2>1. PICK n \in Nat : n = y - 1973
    BY <1>4
  <2>2. PICK k \in Nat : k = y - 2001
    BY <1>4
  <2>3. /\ (y % 4 = 0) = ((n + 1) % 4 = 0)
        /\ (y % 100 = 0) = ((k + 1) % 100 = 0) /\ (y % 400 = 0) = ((k + 1) % 400 = 0)
    <3>1. (y % 4 = 0) = ((n + 1) % 4 = 0)
      BY <2>1
    <3>2. (y % 100 = 0) = ((k + 1) % 100 = 0)
      BY <2>2
    <3>3. (y % 400 = 0) = ((k + 1) % 400 = 0)
      BY <2>2
    <3> QED
      BY <3>1, <3>2, <3>3
  <2>4. (k + 1) % 400 = 0 => (k + 1) % 100 = 0 /\ (n + 1) % 4 = 0
    <3>1. (k + 1) % 400 = 0 => (k + 1) % 100 = 0
      OBVIOUS
    <3>2. n = k + 28 /\ ((k + 1) % 400 = 0 => (n + 1) % 4 = 0)
      BY <2>1, <2>2
    <3> QED
      BY <3>1, <3>2
  <2>5. (k + 1) % 100 = 0 => (n + 1) % 4 = 0
    BY <2>1, <2>2
  <2>6. /\ leap_year_cnt(y + 1) = ((n + 1) \div 4) + 1 + (((k + 1) \div 400) - ((k + 1) \div 100))
        /\ leap_year_cnt(y) = (n \div 4) + 1 + ((k \div 400) - (k \div 100))
    <3>1. /\ (y + 1) - 1 - 1972 = n + 1 /\ y - 1 - 1972 = n
          /\ (y + 1) - 1 - 2000 = k + 1 /\ y - 1 - 2000 = k
      BY <2>1, <2>2
    <3> QED
      BY <1>4, <3>1 DEF leap_year_cnt
  <2>7. IS_LEAP_YEAR(y) <=> ((n + 1) % 4 = 0 /\ (k + 1) % 100 # 0) \/ (k + 1) % 400 = 0
    BY <2>3 DEF IS_LEAP_YEAR
  <2>8. /\ n \div 4 \in Int /\ k \div 100 \in Int /\ k \div 400 \in Int
    OBVIOUS
  <2>9. /\ (n + 1) \div 4 = (n \div 4) + IF (n + 1) % 4 = 0 THEN 1 ELSE 0
        /\ (k + 1) \div 100 = (k \div 100) + IF (k + 1) % 100 = 0 THEN 1 ELSE 0
        /\ (k + 1) \div 400 = (k \div 400) + IF (k + 1) % 400 = 0 THEN 1 ELSE 0
    BY DivStep
  <2> QED
    BY <2>4, <2>5, <2>6, <2>7, <2>8, <2>9
<1> QED
  BY <1>1, <1>2, <1>3, <1>4

\* The closed form of the leap days is a number.
LEMMA LeapCount == \A x \in Nat : leap_year_cnt(x) \in Int
<1> TAKE x \in Nat
<1>1. (x - 1 - 1972) \div 4 \in Int
  OBVIOUS
<1>2. (x - 1 - 2000) \div 400 \in Int /\ (x - 1 - 2000) \div 100 \in Int
  OBVIOUS
<1> QED
  BY <1>1, <1>2 DEF leap_year_cnt

\* What mktime has for the first of January is what the years before it add up to.
LEMMA YearFacts ==
  ASSUME NEW y \in Nat, y >= 1970
  PROVE  YearBegins[y] = (y - 1970) * 365 + leap_year_cnt(y)
<1> DEFINE length(x) == IF IS_LEAP_YEAR(x) THEN 366 ELSE 365
           closed(x) == (x - 1970) * 365 + leap_year_cnt(x)
           table == [x \in Nat |-> IF x <= 1970 THEN 0 ELSE closed(x)]
<1>1. \A x \in Nat : leap_year_cnt(x) \in Int
  BY LeapCount
<1>2. \A x \in Nat : closed(x) \in Int
  BY <1>1
<1>3. closed(1970) = 0
  BY DEF leap_year_cnt
<1>4. \A x \in Nat : x >= 1970 => closed(x + 1) = closed(x) + length(x)
  <2> SUFFICES ASSUME NEW x \in Nat, x >= 1970 PROVE closed(x + 1) = closed(x) + length(x)
    OBVIOUS
  <2>1. leap_year_cnt(x + 1) = leap_year_cnt(x) + IF IS_LEAP_YEAR(x) THEN 1 ELSE 0
    BY LeapStep
  <2>2. leap_year_cnt(x) \in Int
    BY <1>1
  <2> QED
    BY <2>1, <2>2
<1> HIDE DEF length, closed
<1>5. table = [x \in Nat |-> IF x <= 1970 THEN 0 ELSE table[x - 1] + length(x - 1)]
  <2>1. ASSUME NEW x \in Nat, x > 1970 PROVE closed(x) = table[x - 1] + length(x - 1)
    <3>1. x - 1 \in Nat /\ x - 1 >= 1970 /\ (x - 1) + 1 = x
      BY <2>1
    <3>2. closed(x) = closed(x - 1) + length(x - 1)
      BY <1>4, <3>1
    <3>3. table[x - 1] = closed(x - 1)
      <4>1. CASE x - 1 = 1970
        BY <1>3, <3>1, <4>1
      <4>2. CASE x - 1 # 1970
        BY <3>1, <4>2
      <4> QED
        BY <4>1, <4>2
    <3> QED
      BY <3>2, <3>3
  <2>2. ASSUME NEW x \in Nat
        PROVE  (IF x <= 1970 THEN 0 ELSE closed(x))
                 = IF x <= 1970 THEN 0 ELSE table[x - 1] + length(x - 1)
    BY <2>1
  <2> QED
    BY <2>2
<1> HIDE DEF table
<1>6. YearBegins = CHOOSE f : f = [x \in Nat |-> IF x <= 1970 THEN 0 ELSE f[x - 1] + length(x - 1)]
  BY DEF YearBegins, length
<1>7. YearBegins = [x \in Nat |-> IF x <= 1970 THEN 0 ELSE YearBegins[x - 1] + length(x - 1)]
  BY <1>5, <1>6
<1>8. \A x \in Nat : x > 1970 => YearBegins[x] = YearBegins[x - 1] + length(x - 1)
  BY <1>7
<1>9. YearBegins[1970] = 0
  BY <1>7
<1> DEFINE Off == {x \in Nat : x >= 1970 /\ YearBegins[x] # closed(x)}
<1>10. Off = {}
  <2> SUFFICES ASSUME Off # {} PROVE FALSE
    OBVIOUS
  <2>1. PICK T \in SUBSET Nat : T = Off /\ T # {}
    <3>1. Off \subseteq Nat
      OBVIOUS
    <3> HIDE DEF Off
    <3> QED
      BY <3>1
  <2>2. PICK x \in T : \A z \in T : x <= z
    <3> HIDE DEF Off
    <3> QED
      BY ONLY T \in SUBSET Nat, <2>1, LeastFacts
  <2>3. \A z \in Nat : z \in Off => x <= z
    <3> HIDE DEF Off
    <3> QED
      BY <2>1, <2>2
  <2>4. x \in Nat /\ x >= 1970 /\ YearBegins[x] # closed(x)
    BY <2>1
  <2>5. x # 1970
    BY <1>3, <1>9, <2>4
  <2>6. x - 1 \in Nat /\ x - 1 >= 1970 /\ x - 1 < x /\ (x - 1) + 1 = x
    BY <2>4, <2>5
  <2>7. YearBegins[x - 1] = closed(x - 1)
    BY <2>3, <2>6
  <2> QED
    BY <1>4, <1>8, <2>4, <2>6, <2>7
<1> QED
  BY <1>10 DEF closed

\* The same for the first of a month.
LEMMA MonthFacts ==
  ASSUME NEW y, NEW m \in 1 .. 12
  PROVE  MonthBegins(y)[m] = month_day_sum[m] + IF IS_LEAP_YEAR(y) /\ m > 2 THEN 1 ELSE 0
<1> DEFINE closed(n) == month_day_sum[n] + IF IS_LEAP_YEAR(y) /\ n > 2 THEN 1 ELSE 0
           table == [n \in 1 .. 12 |-> closed(n)]
           days == month_days(y)
<1>1. closed(1) = 0 /\ \A n \in 2 .. 12 : closed(n) = closed(n - 1) + days[n - 1]
  BY DEF month_day_sum, month_days
<1> HIDE DEF closed, days
<1>2. table = [n \in 1 .. 12 |-> IF n = 1 THEN 0 ELSE table[n - 1] + days[n - 1]]
  <2>1. ASSUME NEW n \in 1 .. 12
        PROVE  closed(n) = IF n = 1 THEN 0 ELSE table[n - 1] + days[n - 1]
    BY <1>1
  <2> QED
    BY <2>1
<1> HIDE DEF table
<1> DEFINE b == MonthBegins(y)
<1>3. b = CHOOSE f : f = [n \in 1 .. 12 |-> IF n = 1 THEN 0 ELSE f[n - 1] + days[n - 1]]
  BY DEF MonthBegins, days
<1> HIDE DEF b
<1>4. b = [n \in 1 .. 12 |-> IF n = 1 THEN 0 ELSE b[n - 1] + days[n - 1]]
  BY <1>2, <1>3
<1>5. b[1] = 0 /\ \A n \in 2 .. 12 : b[n] = b[n - 1] + days[n - 1]
  BY <1>4
<1>6. b[1] = closed(1) /\ \A n \in 2 .. 12 : b[n - 1] = closed(n - 1) => b[n] = closed(n)
  BY <1>1, <1>5
<1>7. b[2] = closed(2) /\ b[3] = closed(3) /\ b[4] = closed(4) /\ b[5] = closed(5)
  BY <1>6
<1>8. b[6] = closed(6) /\ b[7] = closed(7) /\ b[8] = closed(8) /\ b[9] = closed(9)
  BY <1>6, <1>7
<1>9. b[10] = closed(10) /\ b[11] = closed(11) /\ b[12] = closed(12)
  BY <1>6, <1>8
<1>10. b[m] = closed(m)
  BY <1>6, <1>7, <1>8, <1>9
<1> QED
  BY <1>10 DEF b, closed

\* A date of the century has a year of it, a month and a day of that month.
LEMMA DateFacts ==
  ASSUME NEW d \in Dates
  PROVE  /\ d.year \in 2000 .. 2099 /\ d.month \in 1 .. 12 /\ d.day \in 1 .. 31
         /\ d.day <= month_days(d.year)[d.month]
         /\ d = [year |-> d.year, month |-> d.month, day |-> d.day]
BY DEF Dates

\* A month has 28 to 31 days.
LEMMA MonthDaysFacts ==
  ASSUME NEW year, NEW m \in 1 .. 12
  PROVE  month_days(year)[m] \in 28 .. 31
<1>1. PICK feb \in {28, 29} : feb = IF IS_LEAP_YEAR(year) THEN 29 ELSE 28
  OBVIOUS
<1>2. month_days(year) = <<31, feb, 31, 30, 31, 30, 31, 31, 30, 31, 30, 31>>
  BY <1>1 DEF month_days
<1> HIDE DEF IS_LEAP_YEAR
<1> QED
  BY <1>2

\* A year, a month and a day that it has make a date.
LEMMA MakeDate ==
  ASSUME NEW y, NEW m, NEW n, y \in 2000 .. 2099, m \in 1 .. 12, n \in 1 .. 31,
         n <= month_days(y)[m]
  PROVE  [year |-> y, month |-> m, day |-> n] \in Dates
BY DEF Dates

\* The day after a date of the century, its last excepted, is in the century.
LEMMA TomorrowFacts ==
  ASSUME NEW d \in Dates, d # [year |-> 2099, month |-> 12, day |-> 31]
  PROVE  Tomorrow(d) \in Dates
<1>1. /\ d.year \in 2000 .. 2099 /\ d.month \in 1 .. 12 /\ d.day \in 1 .. 31
      /\ d.day <= month_days(d.year)[d.month]
      /\ d = [year |-> d.year, month |-> d.month, day |-> d.day]
  BY DateFacts
<1>2. PICK y \in 2000 .. 2099 : y = d.year
  BY <1>1
<1>3. PICK m \in 1 .. 12 : m = d.month
  BY <1>1
<1>4. PICK n \in 1 .. 31 : n = d.day
  BY <1>1
<1>5. PICK l \in 28 .. 31 : l = month_days(y)[m]
  BY MonthDaysFacts
<1>6. n <= l /\ d = [year |-> y, month |-> m, day |-> n] /\ l = month_days(d.year)[d.month]
  BY <1>1, <1>2, <1>3, <1>4, <1>5
<1>7. CASE n < l
  <2>1. Tomorrow(d) = [d EXCEPT !.day = n + 1]
    BY <1>3, <1>4, <1>6, <1>7, SMT DEF Tomorrow
  <2>2. Tomorrow(d) = [year |-> y, month |-> m, day |-> n + 1]
    BY <1>6, <2>1, SMT
  <2>3. n + 1 \in 1 .. 31 /\ n + 1 <= month_days(y)[m]
    BY <1>5, <1>7, SMT
  <2> QED
    BY <2>2, <2>3, MakeDate, SMT
<1>8. CASE n = l /\ m < 12
  <2>1. Tomorrow(d) = [year |-> y, month |-> m + 1, day |-> 1]
    BY <1>2, <1>3, <1>4, <1>6, <1>8, SMT DEF Tomorrow
  <2>2. PICK k \in 1 .. 12 : k = m + 1
    BY <1>8, SMT
  <2>3. month_days(y)[k] \in 28 .. 31
    BY MonthDaysFacts, SMT
  <2>4. 1 <= month_days(y)[k] /\ 1 \in 1 .. 31
    BY <2>3, SMT
  <2> QED
    BY <2>1, <2>2, <2>4, MakeDate, SMT
<1>9. CASE n = l /\ ~ (m < 12)
  <2>1. m = 12
    BY <1>9, SMT
  <2>2. month_days(y)[12] = 31 /\ month_days(y + 1)[1] = 31
    BY SMT DEF month_days
  <2>3. n = 31 /\ y # 2099
    BY <1>5, <1>6, <1>9, <2>1, <2>2, SMT
  <2>4. Tomorrow(d) = [year |-> y + 1, month |-> 1, day |-> 1]
    BY <1>2, <1>3, <1>4, <1>6, <1>9, SMT DEF Tomorrow
  <2>5. PICK z \in 2000 .. 2099 : z = y + 1
    BY <2>3, SMT
  <2>6. 1 \in 1 .. 12 /\ 1 \in 1 .. 31 /\ 1 <= month_days(z)[1]
    BY <2>2, <2>5, SMT
  <2> QED
    BY <2>4, <2>5, <2>6, MakeDate, SMT
<1> QED
  BY <1>6, <1>7, <1>8, <1>9, SMT

\* The clock of a machine shows a date of the century and a second of a day.
LEMMA InstantFacts ==
  ASSUME machine \in Machines, NEW n \in Nat
  PROVE  Instant(n).date \in Dates /\ Instant(n).sec \in Nat /\ Instant(n).sec < 86400
<1>1. /\ machine.sec \in Nat /\ machine.date \in Dates
      /\ machine.date # [year |-> 2099, month |-> 12, day |-> 31]
  BY ClockAssumption, SMT
<1>2. Tomorrow(machine.date) \in Dates
  BY <1>1, TomorrowFacts, SMT
<1>3. PICK s \in Nat : s = machine.sec + n
  BY <1>1, SMT
<1>4. /\ Instant(n).sec = s % 86400
      /\ Instant(n).date = machine.date \/ Instant(n).date = Tomorrow(machine.date)
  BY <1>3, SMT DEF Instant
<1>5. s % 86400 \in Nat /\ s % 86400 < 86400
  BY SMT
<1> QED
  BY <1>1, <1>2, <1>4, <1>5, SMT

\* What BCD2BIN undoes.
LEMMA BCDFacts ==
  ASSUME NEW n \in 0 .. 99
  PROVE  BCD2BIN(BCD(n)) = n
<1>1. PICK q \in 0 .. 9, r \in 0 .. 9 : n = 10 * q + r /\ n \div 10 = q /\ n % 10 = r
  <2>1. n \div 10 \in 0 .. 9 /\ n % 10 \in 0 .. 9 /\ n = 10 * (n \div 10) + (n % 10)
    OBVIOUS
  <2> QED
    BY <2>1
<1>2. BCD(n) = q * 16 + r
  BY <1>1 DEF BCD
<1>3. (q * 16 + r) \div 16 = q /\ (q * 16 + r) % 16 = r
  OBVIOUS
<1> QED
  BY <1>1, <1>2, <1>3 DEF BCD2BIN

\* The hours, minutes and seconds of a second of the day make it up.
LEMMA SecondFacts ==
  ASSUME NEW s \in Nat, s < 86400
  PROVE  /\ s % 60 \in 0 .. 99 /\ (s \div 60) % 60 \in 0 .. 99 /\ s \div 3600 \in 0 .. 99
         /\ ((s \div 3600) * 60 + ((s \div 60) % 60)) * 60 + (s % 60) = s
<1>1. PICK q \in Nat, r \in 0 .. 59 : s \div 60 = q /\ s % 60 = r /\ s = 60 * q + r
  <2>1. s \div 60 \in Nat /\ s % 60 \in 0 .. 59 /\ s = 60 * (s \div 60) + (s % 60)
    BY SMT
  <2> QED
    BY <2>1, SMT
<1>2. PICK h \in Nat, m \in 0 .. 59 : q % 60 = m /\ q = 60 * h + m
  <2>1. q \div 60 \in Nat /\ q % 60 \in 0 .. 59 /\ q = 60 * (q \div 60) + (q % 60)
    BY SMT
  <2> QED
    BY <2>1, SMT
<1>3. s = 3600 * h + (60 * m + r) /\ 60 * m + r < 3600
  BY <1>1, <1>2, SMT
<1>4. s \div 3600 = h /\ h <= 23
  BY <1>3, SMT
<1> QED
  BY <1>1, <1>2, <1>4, SMT

\* mktime makes of the registers of one moment the number of its day and its
\* second (read_rtc, mktime).
LEMMA MktimeFacts ==
  ASSUME NEW t, t.date \in Dates, t.sec \in Nat, t.sec < 86400,
         NEW r, DOMAIN r = DOMAIN NextRegister,
         \A f \in DOMAIN r : r[f] = Register(f, t)
  PROVE  mktime(date_of(r)) = [day |-> DayNumber(t.date), sec |-> t.sec]
<1>1. t.date.year \in 2000 .. 2099 /\ t.date.month \in 1 .. 12 /\ t.date.day \in 1 .. 31
  BY DateFacts, SMT
<1>2. PICK y \in 2000 .. 2099 : y = t.date.year
  BY <1>1
<1>3. PICK m \in 1 .. 12 : m = t.date.month
  BY <1>1
<1>4. PICK n \in 1 .. 31 : n = t.date.day
  BY <1>1
<1>5. PICK s \in Nat : t.sec = s /\ s < 86400
  BY SMT
<1>6. DOMAIN r = {"second", "minute", "hour", "day", "month", "year"}
  BY SMT DEF NextRegister
<1>7. /\ date_of(r).second = BCD2BIN(r["second"])
      /\ date_of(r).minute = BCD2BIN(r["minute"])
      /\ date_of(r).hour = BCD2BIN(r["hour"])
      /\ date_of(r).day = BCD2BIN(r["day"])
      /\ date_of(r).month = BCD2BIN(r["month"])
      /\ date_of(r).year = 2000 + BCD2BIN(r["year"])
  <2>1. (CURRENT_YEAR \div 100) * 100 = 2000
    BY SMT DEF CURRENT_YEAR
  <2> HIDE DEF BCD2BIN
  <2> QED
    BY <1>6, <2>1, SMT DEF date_of
<1>8. /\ r["second"] = BCD(s % 60) /\ r["minute"] = BCD((s \div 60) % 60)
      /\ r["hour"] = BCD(s \div 3600)
      /\ r["day"] = BCD(n) /\ r["month"] = BCD(m) /\ r["year"] = BCD(y % 100)
  BY <1>2, <1>3, <1>4, <1>5, <1>6, SMT DEF Register
<1>9. n \in 0 .. 99 /\ m \in 0 .. 99 /\ y % 100 \in 0 .. 99 /\ 2000 + (y % 100) = y
  BY SMT
<1>10. /\ date_of(r).second = s % 60 /\ date_of(r).minute = (s \div 60) % 60
      /\ date_of(r).hour = s \div 3600
      /\ date_of(r).day = n /\ date_of(r).month = m /\ date_of(r).year = y
  <2>1. /\ BCD2BIN(BCD(n)) = n /\ BCD2BIN(BCD(m)) = m /\ BCD2BIN(BCD(y % 100)) = y % 100
    BY <1>9, BCDFacts, SMT
  <2>2. /\ BCD2BIN(BCD(s % 60)) = s % 60
        /\ BCD2BIN(BCD((s \div 60) % 60)) = (s \div 60) % 60
        /\ BCD2BIN(BCD(s \div 3600)) = s \div 3600
    BY SecondFacts, BCDFacts, <1>5, SMT
  <2> QED
    BY <1>7, <1>8, <1>9, <2>1, <2>2, SMT
<1>11. (date_of(r).hour * 60 + date_of(r).minute) * 60 + date_of(r).second = s
  BY <1>10, SecondFacts, SMT
<1>12. DayNumber(t.date)
        = (y - 1970) * 365 + leap_year_cnt(y)
            + month_day_sum[m] + (IF IS_LEAP_YEAR(y) /\ m > 2 THEN 1 ELSE 0)
            + n - 1
  <2>1. YearBegins[y] = (y - 1970) * 365 + leap_year_cnt(y)
    BY YearFacts, SMT
  <2>2. MonthBegins(y)[m] = month_day_sum[m] + IF IS_LEAP_YEAR(y) /\ m > 2 THEN 1 ELSE 0
    BY MonthFacts, SMT
  <2>3. PICK a \in Int : a = month_day_sum[m]
    BY SMT DEF month_day_sum
  <2>4. PICK b \in Int : b = leap_year_cnt(y)
    BY LeapCount, SMT
  <2>5. DayNumber(t.date) = YearBegins[y] + MonthBegins(y)[m] + n - 1
    BY <1>2, <1>3, <1>4, SMT DEF DayNumber
  <2> QED
    BY <2>1, <2>2, <2>3, <2>4, <2>5, SMT
<1> QED
  BY <1>5, <1>10, <1>11, <1>12, SMT DEF mktime

----------------------------------------------------------------------------

\* The registers read before a step of the reading.
ReadBefore ==
  [second |-> {}, minute |-> {"second"}, hour |-> {"second", "minute"},
   day |-> {"second", "minute", "hour"},
   month |-> {"second", "minute", "hour", "day"},
   year |-> {"second", "minute", "hour", "day", "month"}]

\* The port accesses that are left when the reading is at a register.
AccessesLeft == [second |-> 6, minute |-> 5, hour |-> 4, day |-> 3, month |-> 2, year |-> 1]

\* The chip and what is read of it have their types; time does not go back.
ClockType ==
  /\ machine \in Machines
  /\ uip \in BOOLEAN /\ lead \in Nat /\ updates \in Nat /\ began \in Nat
  /\ began <= updates

\* While registers are read no second is counted: one that has been announced
\* comes after the accesses that are left.
NoUpdateYet ==
  pc \in DOMAIN NextRegister => began = updates /\ (uip => lead >= AccessesLeft[pc])

\* What has been read is what the registers were when the reading began.
ReadTrue ==
  /\ pc \in {"e820", "paging", "wait", "reset"} => DOMAIN regs = {}
  /\ pc \in DOMAIN NextRegister => DOMAIN regs = ReadBefore[pc]
  /\ pc = "convert" => DOMAIN regs = DOMAIN NextRegister
  /\ \A f \in DOMAIN regs : regs[f] = Register(f, Instant(began))

\* What mktime made of it is that moment.
BootedAt ==
  pc \in {"running", "panic"} =>
    unix_time = [day |-> DayNumber(Instant(began).date), sec |-> Instant(began).sec]

ClockInv == ClockType /\ NoUpdateYet /\ ReadTrue /\ BootedAt

\* Boot starts with nothing read.
LEMMA ClockInit == Init => ClockInv
<1> SUFFICES ASSUME Init PROVE ClockInv
  OBVIOUS
<1>1. /\ pc = "e820" /\ machine \in Machines /\ uip \in BOOLEAN
      /\ updates = 0 /\ began = 0 /\ regs = <<>>
      /\ lead \in {0, Lead \div 2, Lead}
  BY DEF Init
<1>2. lead \in Nat
  BY <1>1, LeadAssumption
<1>3. DOMAIN regs = {}
  BY <1>1
<1>4. pc \notin DOMAIN NextRegister
  BY <1>1 DEF NextRegister
<1> QED
  BY <1>1, <1>2, <1>3, <1>4 DEF ClockInv, ClockType, NoUpdateYet, ReadTrue, BootedAt

\* The registers in the order they are read.
LEMMA OrderFacts ==
  /\ DOMAIN NextRegister = {"second", "minute", "hour", "day", "month", "year"}
  /\ \A name \in DOMAIN NextRegister :
       IF NextRegister[name] \in DOMAIN NextRegister
       THEN /\ ReadBefore[NextRegister[name]] = ReadBefore[name] \cup {name}
            /\ AccessesLeft[name] - 1 = AccessesLeft[NextRegister[name]]
       ELSE /\ NextRegister[name] = "convert"
            /\ ReadBefore[name] \cup {name} = DOMAIN NextRegister
  /\ \A name \in DOMAIN NextRegister : AccessesLeft[name] \in 1 .. 6
<1>1. DOMAIN NextRegister = {"second", "minute", "hour", "day", "month", "year"}
  BY SMT DEF NextRegister
<1>2. /\ NextRegister["second"] = "minute" /\ NextRegister["minute"] = "hour"
      /\ NextRegister["hour"] = "day" /\ NextRegister["day"] = "month"
      /\ NextRegister["month"] = "year" /\ NextRegister["year"] = "convert"
  BY SMT DEF NextRegister
<1>3. ASSUME NEW name \in DOMAIN NextRegister, NextRegister[name] \in DOMAIN NextRegister
      PROVE  /\ ReadBefore[NextRegister[name]] = ReadBefore[name] \cup {name}
             /\ AccessesLeft[name] - 1 = AccessesLeft[NextRegister[name]]
  BY <1>1, <1>2, <1>3, SMT DEF ReadBefore, AccessesLeft
<1>4. ASSUME NEW name \in DOMAIN NextRegister, NextRegister[name] \notin DOMAIN NextRegister
      PROVE  /\ NextRegister[name] = "convert"
             /\ ReadBefore[name] \cup {name} = DOMAIN NextRegister
  <2>1. name = "year"
    BY <1>1, <1>2, <1>4, SMT
  <2> QED
    BY <1>1, <1>2, <2>1, SMT DEF ReadBefore
<1>5. \A name \in DOMAIN NextRegister : AccessesLeft[name] \in 1 .. 6
  BY <1>1, SMT DEF AccessesLeft
<1> QED
  BY <1>1, <1>3, <1>4, <1>5, Zenon

\* Setup, the reading of the clock, the chip and fork() keep the invariant.
LEMMA ClockStep == ClockInv /\ [Next]_vars => ClockInv'
<1> SUFFICES ASSUME ClockInv, [Next]_vars PROVE ClockInv'
  OBVIOUS
<1>1. ClockType /\ NoUpdateYet /\ ReadTrue /\ BootedAt
  BY DEF ClockInv
<1> DEFINE Registers == DOMAIN NextRegister
           Time(n) == [day |-> DayNumber(Instant(n).date), sec |-> Instant(n).sec]
<1>2. ASSUME machine' = machine, NEW n PROVE Instant(n)' = Instant(n)
  BY <1>2 DEF Instant
<1>3. ASSUME machine' = machine, began' = began, NEW f
      PROVE  Register(f, Instant(began))' = Register(f, Instant(began))
  <2>1. Instant(began)' = Instant(began)
    BY <1>3, <1>2
  <2> QED
    BY <2>1 DEF Register
<1>4. Registers = {"second", "minute", "hour", "day", "month", "year"}
  BY OrderFacts
<1> HIDE DEF Registers
<1>5. ASSUME count_memory \/ setup_paging PROVE ClockInv'
  <2>1. /\ UNCHANGED <<machine, uip, lead, updates, began, regs>>
        /\ pc \in {"e820", "paging"} /\ pc' \in {"paging", "wait", "reset"}
    BY <1>5 DEF count_memory, setup_paging, chip
  <2>2. ClockType'
    BY <1>1, <2>1 DEF ClockType
  <2>3. pc' \notin Registers /\ pc' \notin {"convert", "running", "panic"}
    BY <1>4, <2>1
  <2>4. NoUpdateYet' /\ BootedAt'
    BY <2>3 DEF NoUpdateYet, BootedAt, Registers
  <2>5. ReadTrue'
    <3>1. DOMAIN regs = {} /\ regs' = regs
      BY <1>1, <2>1 DEF ReadTrue
    <3> QED
      BY <2>3, <3>1 DEF ReadTrue, Registers
  <2> QED
    BY <2>2, <2>4, <2>5 DEF ClockInv
<1>6. ASSUME get_update_in_progress_flag PROVE ClockInv'
  <2>1. /\ pc = "wait" /\ UNCHANGED <<machine, uip, updates, regs>> /\ began' = updates
        /\ pc' = IF ~ uip THEN "second" ELSE "wait"
        /\ lead' = IF lead > 0 THEN lead - 1 ELSE 0
    BY <1>6 DEF get_update_in_progress_flag, flag_is_clear, port_access
  <2>2. ClockType'
    BY <1>1, <2>1 DEF ClockType
  <2>3. DOMAIN regs' = {}
    BY <1>1, <2>1 DEF ReadTrue
  <2>4. CASE uip
    <3>1. pc' = "wait" /\ pc' \notin Registers
      BY <1>4, <2>1, <2>4
    <3> QED
      BY <2>2, <2>3, <3>1 DEF ClockInv, NoUpdateYet, ReadTrue, BootedAt, Registers
  <2>5. CASE ~ uip
    <3>1. pc' = "second" /\ ~ uip' /\ began' = updates'
      BY <2>1, <2>5
    <3>2. ReadBefore["second"] = {}
      BY DEF ReadBefore
    <3>3. NoUpdateYet' /\ BootedAt'
      BY <3>1 DEF NoUpdateYet, BootedAt
    <3>4. ReadTrue'
      BY <2>3, <3>1, <3>2 DEF ReadTrue
    <3> QED
      BY <2>2, <3>3, <3>4 DEF ClockInv
  <2> QED
    BY <2>4, <2>5
<1>7. ASSUME NEW name \in Registers, get_RTC_reg(name) PROVE ClockInv'
  <2>1. /\ pc = name /\ pc' = NextRegister[name]
        /\ UNCHANGED <<machine, uip, updates, began>>
        /\ lead' = IF lead > 0 THEN lead - 1 ELSE 0
    BY <1>7 DEF get_RTC_reg, port_access
  <2>2. regs' = [f \in DOMAIN regs \cup {name} |->
                   IF f = name THEN Register(name, Instant(updates)) ELSE regs[f]]
    BY <1>7 DEF get_RTC_reg
  <2>3. /\ lead \in Nat /\ began = updates /\ (uip => lead >= AccessesLeft[name])
        /\ DOMAIN regs = ReadBefore[name]
    BY <1>1, <1>7, <2>1 DEF ClockType, NoUpdateYet, ReadTrue, Registers
  <2>4. ClockType'
    BY <1>1, <2>1 DEF ClockType
  <2>5. \A f \in DOMAIN regs' : regs'[f] = Register(f, Instant(began))
    BY <1>1, <2>2, <2>3 DEF ReadTrue
  <2>6. \A f \in DOMAIN regs' : regs'[f] = Register(f, Instant(began))'
    BY <1>3, <2>1, <2>5
  <2>7. DOMAIN regs' = ReadBefore[name] \cup {name}
    BY <2>2, <2>3
  <2>8. CASE NextRegister[name] \in Registers
    <3>1. /\ ReadBefore[NextRegister[name]] = ReadBefore[name] \cup {name}
          /\ AccessesLeft[name] - 1 = AccessesLeft[NextRegister[name]]
          /\ AccessesLeft[name] \in 1 .. 6
      BY <1>7, <2>8, OrderFacts DEF Registers
    <3>2. NoUpdateYet'
      <4>1. PICK a \in 1 .. 6 : a = AccessesLeft[name]
        BY <3>1
      <4>2. lead \in Nat /\ (uip => lead >= a) /\ AccessesLeft[NextRegister[name]] = a - 1
        BY <2>3, <3>1, <4>1
      <4>3. uip => lead' >= a - 1
        BY <2>1, <4>1, <4>2
      <4>4. began' = updates' /\ uip' = uip /\ pc' = NextRegister[name]
        BY <2>1, <2>3
      <4> QED
        BY <4>2, <4>3, <4>4 DEF NoUpdateYet
    <3>3. pc' \notin {"e820", "paging", "wait", "reset", "convert", "running", "panic"}
      BY <1>4, <2>1, <2>8
    <3>4. ReadTrue' /\ BootedAt'
      BY <2>1, <2>6, <2>7, <3>1, <3>3 DEF ReadTrue, BootedAt
    <3> QED
      BY <2>4, <3>2, <3>4 DEF ClockInv
  <2>9. CASE NextRegister[name] \notin Registers
    <3>1. pc' = "convert" /\ DOMAIN regs' = Registers
      BY <1>7, <2>1, <2>7, <2>9, OrderFacts DEF Registers
    <3>2. pc' \notin Registers
      BY <1>4, <3>1
    <3>3. ReadTrue'
      BY <2>6, <3>1, <3>2 DEF ReadTrue, Registers
    <3>4. NoUpdateYet' /\ BootedAt'
      BY <3>1, <3>2 DEF NoUpdateYet, BootedAt, Registers
    <3> QED
      BY <2>4, <3>3, <3>4 DEF ClockInv
  <2> QED
    BY <2>8, <2>9
<1>8. ASSUME get_rtc_unxi_time PROVE ClockInv'
  <2>1. /\ pc = "convert" /\ pc' = "running" /\ unix_time' = mktime(date_of(regs))
        /\ UNCHANGED <<machine, uip, lead, updates, began, regs>>
    BY <1>8 DEF get_rtc_unxi_time, chip
  <2>2. ClockType'
    BY <1>1, <2>1 DEF ClockType
  <2>3. /\ DOMAIN regs = Registers
        /\ \A f \in DOMAIN regs : regs[f] = Register(f, Instant(began))
    BY <1>1, <2>1 DEF ReadTrue, Registers
  <2>4. PICK t : t = Instant(began)
    OBVIOUS
  <2>5. t.date \in Dates /\ t.sec \in Nat /\ t.sec < 86400
    BY <1>1, <2>4, InstantFacts DEF ClockType
  <2>6. \A f \in DOMAIN regs : regs[f] = Register(f, t)
    BY <2>3, <2>4
  <2>7. mktime(date_of(regs)) = [day |-> DayNumber(t.date), sec |-> t.sec]
    BY <2>3, <2>5, <2>6, MktimeFacts DEF Registers
  <2>8. t = Instant(began)'
    BY <1>2, <2>1, <2>4
  <2>9. BootedAt'
    BY <2>1, <2>7, <2>8 DEF BootedAt, DayNumber
  <2>10. NoUpdateYet' /\ ReadTrue'
    <3>1. pc' \notin Registers
      BY <1>4, <2>1
    <3>2. \A f \in DOMAIN regs' : regs'[f] = Register(f, Instant(began))'
      BY <2>1, <2>6, <2>8 DEF Register
    <3> QED
      BY <2>1, <3>1, <3>2 DEF NoUpdateYet, ReadTrue, Registers
  <2> QED
    BY <2>2, <2>9, <2>10 DEF ClockInv
<1>9. ASSUME NEW pid \in Children, NEW memsize \in caller_T_size, alloc_mem(pid, memsize)
      PROVE  ClockInv'
  <2>1. /\ UNCHANGED <<machine, uip, lead, updates, began, regs, unix_time>>
        /\ pc = "running" /\ pc' \in {"running", "panic"}
    BY <1>9 DEF alloc_mem, chip
  <2>2. ClockType'
    BY <1>1, <2>1 DEF ClockType
  <2>3. NoUpdateYet' /\ ReadTrue'
    <3>1. pc' \notin Registers
      BY <1>4, <2>1
    <3>2. \A f \in DOMAIN regs' : regs'[f] = Register(f, Instant(began))'
      BY <1>1, <1>3, <2>1 DEF ReadTrue
    <3> QED
      BY <2>1, <3>1, <3>2 DEF NoUpdateYet, ReadTrue, Registers
  <2>4. BootedAt'
    BY <1>1, <1>2, <2>1 DEF BootedAt, DayNumber
  <2> QED
    BY <2>2, <2>3, <2>4 DEF ClockInv
<1>10. ASSUME warn \/ update, machine' = machine, pc' = pc, began' = began, regs' = regs,
             ClockType', NoUpdateYet', pc \notin {"running", "panic"}
      PROVE  ClockInv'
  <2>1. \A f \in DOMAIN regs' : regs'[f] = Register(f, Instant(began))'
    BY <1>1, <1>3, <1>10 DEF ReadTrue
  <2>2. ReadTrue' /\ BootedAt'
    BY <1>1, <1>10, <2>1 DEF ReadTrue, BootedAt
  <2> QED
    BY <1>10, <2>2 DEF ClockInv
<1>11. ASSUME reading PROVE pc \notin {"running", "panic"}
  BY <1>4, <1>11 DEF reading, Registers
<1>12. ASSUME warn PROVE ClockInv'
  <2>1. /\ reading /\ UNCHANGED <<pc, machine, updates, began, regs>>
        /\ uip' = TRUE /\ lead' = Lead
    BY <1>12 DEF warn
  <2>2. ClockType'
    BY <1>1, <2>1, LeadAssumption DEF ClockType
  <2>3. NoUpdateYet'
    <3> SUFFICES ASSUME pc \in Registers PROVE began = updates /\ Lead >= AccessesLeft[pc]
      BY <2>1 DEF NoUpdateYet, Registers
    <3>1. AccessesLeft[pc] \in 1 .. 6
      BY OrderFacts DEF Registers
    <3> QED
      BY <1>1, <3>1, LeadAssumption DEF NoUpdateYet, Registers
  <2> QED
    BY <1>10, <1>11, <1>12, <2>1, <2>2, <2>3
<1>13. ASSUME update PROVE ClockInv'
  <2>1. /\ reading /\ uip /\ lead = 0 /\ UNCHANGED <<pc, machine, lead, began, regs>>
        /\ uip' = FALSE /\ updates' = updates + 1
    BY <1>13 DEF update
  <2>2. ClockType'
    <3>1. updates' \in Nat /\ began' \in Nat /\ began' <= updates'
      BY <1>1, <2>1 DEF ClockType
    <3> QED
      BY <1>1, <2>1, <3>1 DEF ClockType
  <2>3. pc \notin Registers
    <3> SUFFICES ASSUME pc \in Registers PROVE FALSE
      OBVIOUS
    <3>1. AccessesLeft[pc] \in 1 .. 6
      BY OrderFacts DEF Registers
    <3> QED
      BY <1>1, <2>1, <3>1 DEF NoUpdateYet, Registers
  <2>4. NoUpdateYet'
    BY <2>1, <2>3 DEF NoUpdateYet, Registers
  <2> QED
    BY <1>10, <1>11, <1>13, <2>1, <2>2, <2>4
<1>14. ASSUME UNCHANGED vars PROVE ClockInv'
  <2>1. UNCHANGED <<pc, machine, uip, lead, updates, began, regs, unix_time>>
    BY <1>14 DEF vars, chip
  <2>2. ClockType' /\ NoUpdateYet'
    BY <1>1, <2>1 DEF ClockType, NoUpdateYet
  <2>3. \A f \in DOMAIN regs' : regs'[f] = Register(f, Instant(began))'
    BY <1>1, <1>3, <2>1 DEF ReadTrue
  <2>4. ReadTrue'
    BY <1>1, <2>1, <2>3 DEF ReadTrue
  <2>5. BootedAt'
    BY <1>1, <1>2, <2>1 DEF BootedAt, DayNumber
  <2> QED
    BY <2>2, <2>4, <2>5 DEF ClockInv
<1> QED
  BY <1>5, <1>6, <1>7, <1>8, <1>9, <1>12, <1>13, <1>14 DEF Next, Registers

\* The time main() starts the kernel's clock with is a moment of the reading of
\* the battery clock (read_rtc, mktime), on every machine that is switched on in
\* the century read_rtc knows and that makes six port accesses between the
\* chip's warning and its update.
THEOREM TimeIsTrue == Spec => []BootTimeExact
<1>1. ASSUME ClockInv PROVE BootTimeExact
  <2> SUFFICES ASSUME pc \in {"running", "panic"}
               PROVE  \E n \in began .. updates :
                        unix_time = [day |-> DayNumber(Instant(n).date), sec |-> Instant(n).sec]
    BY DEF BootTimeExact
  <2>1. began \in began .. updates
    BY <1>1 DEF ClockInv, ClockType
  <2> QED
    BY <1>1, <2>1 DEF ClockInv, BootedAt
<1>2. Spec => []ClockInv
  BY ClockInit, ClockStep, PTL DEF Spec
<1> QED
  BY <1>1, <1>2, PTL

----------------------------------------------------------------------------
(* The FAT16 reader: bytes, clusters and chains *)

\* A place in a file is a cluster of it and a place in that cluster.
LEMMA SplitFacts ==
  ASSUME NEW b \in Nat \ {0}, NEW x \in Nat
  PROVE  /\ x \div b \in Nat /\ x % b \in Nat /\ x % b < b
         /\ x = (x \div b) * b + (x % b)
<1>1. x \div b \in Int /\ x % b \in Int /\ 0 <= x % b /\ x % b < b
  OBVIOUS
<1>2. x = b * (x \div b) + (x % b)
  OBVIOUS
<1>3. PICK q \in Int, r \in Int : q = x \div b /\ r = x % b /\ 0 <= r /\ r < b /\ x = b * q + r
  BY <1>1, <1>2
<1>4. q >= 0
  <2> SUFFICES ASSUME q <= -1 PROVE FALSE
    BY <1>3
  <2>1. b * q <= b * (-1)
    BY <1>3
  <2> QED
    BY <1>3, <2>1
<1>5. b * q = q * b
  BY <1>3
<1> QED
  BY <1>3, <1>4, <1>5

\* And the other way round.
LEMMA JoinFacts ==
  ASSUME NEW b \in Nat \ {0}, NEW q \in Nat, NEW r \in Nat, r < b
  PROVE  q * b + r \in Nat /\ (q * b + r) \div b = q /\ (q * b + r) % b = r
<1>1. PICK p \in Nat : p = q * b
  OBVIOUS
<1>2. PICK x \in Nat : x = p + r
  OBVIOUS
<1>3. PICK y \in Nat, z \in Nat : y = x \div b /\ z = x % b /\ z < b /\ x = y * b + z
  BY SplitFacts
<1>4. y = q
  <2>1. CASE y < q
    <3>1. PICK d \in Nat : q = y + 1 + d
      BY <2>1
    <3>2. q * b = y * b + b + d * b /\ d * b \in Nat /\ y * b \in Nat
      BY <3>1
    <3> QED
      BY <1>1, <1>2, <1>3, <3>2
  <2>2. CASE y > q
    <3>1. PICK d \in Nat : y = q + 1 + d
      BY <2>2
    <3>2. y * b = q * b + b + d * b /\ d * b \in Nat /\ q * b \in Nat
      BY <3>1
    <3> QED
      BY <1>1, <1>2, <1>3, <3>2
  <2> QED
    BY <2>1, <2>2
<1>5. z = r
  BY <1>1, <1>2, <1>3, <1>4
<1> QED
  BY <1>1, <1>2, <1>3, <1>4, <1>5

\* Enough clusters for a file, and no cluster too many.
LEMMA CdivFacts ==
  ASSUME NEW b \in Nat \ {0}, NEW s \in Nat \ {0}
  PROVE  /\ cdiv(s, b) \in Nat \ {0} /\ s <= cdiv(s, b) * b
         /\ \A x \in Nat : x < s => x \div b < cdiv(s, b)
<1>1. PICK x \in Nat : x = s + b - 1
  OBVIOUS
<1>2. PICK c \in Nat, r \in Nat : c = x \div b /\ r < b /\ x = c * b + r
  BY SplitFacts
<1>3. cdiv(s, b) = c
  BY <1>1, <1>2 DEF cdiv
<1>4. PICK p \in Nat : p = c * b
  BY <1>2
<1>5. s <= p
  BY <1>1, <1>2, <1>4
<1>6. c # 0
  BY <1>4, <1>5
<1>7. ASSUME NEW y \in Nat, y < s PROVE y \div b < c
  <2>1. PICK k \in Nat, t \in Nat : k = y \div b /\ t < b /\ y = k * b + t
    BY SplitFacts
  <2>2. CASE k >= c
    <3>1. PICK d \in Nat : k = c + d
      BY <2>2
    <3>2. k * b = c * b + d * b /\ d * b \in Nat
      BY <3>1
    <3> QED
      BY <1>4, <1>5, <1>7, <2>1, <3>2
  <2> QED
    BY <2>1, <2>2
<1> QED
  BY <1>3, <1>4, <1>5, <1>6, <1>7

----------------------------------------------------------------------------

\* How many clusters A.TXT has.
Clusters == cdiv(file_size, ONE_CLUSTER_BYTES)

\* The disk holds a proper file: its clusters are linked in order, the last one
\* to none, and no cluster that is not the file's is linked to any.
DiskProper ==
  /\ file_size \in Nat \ {0}
  /\ chain \in [1 .. Clusters -> Cluster]
  /\ \A j, k \in 1 .. Clusters : chain[j] = chain[k] => j = k
  /\ \A k \in 1 .. Clusters :
       get_next_cluster(chain[k]) = IF k = Clusters THEN 0 ELSE chain[k + 1]
  /\ \A c \in Cluster : (\A k \in 1 .. Clusters : chain[k] # c) => get_next_cluster(c) = 0

\* n bytes of the file from one on.
Bytes(from, n) == [j \in 1 .. n |-> Byte(from + j - 1)]

\* No cluster has the number 0.
LEMMA ClusterFacts == \A c \in Cluster : c \in Nat /\ c # 0 /\ c < EOC
BY FatAssumption

\* What a cluster of the file holds.
LEMMA DataFacts ==
  ASSUME DiskProper, NEW k \in 1 .. Clusters, NEW from \in Nat, NEW n \in Nat,
         from + n <= ONE_CLUSTER_BYTES
  PROVE  data(chain[k], from, n) = Bytes((k - 1) * ONE_CLUSTER_BYTES + from, n)
<1> DEFINE b == ONE_CLUSTER_BYTES
<1>1. b \in Nat \ {0}
  BY FatAssumption
<1>2. PICK q \in Nat : q = k - 1
  OBVIOUS
<1> HIDE DEF b
<1>3. ASSUME NEW j \in 1 .. n PROVE Byte(q * b + from + j - 1) = <<chain[k], from + j - 1>>
  <2>1. PICK r \in Nat : r = from + j - 1 /\ r < b
    BY <1>1 DEF b
  <2>2. (q * b + r) \div b = q /\ (q * b + r) % b = r
    BY <1>1, <2>1, JoinFacts
  <2>3. q * b + from + j - 1 = q * b + r
    <3>1. PICK p \in Nat : p = q * b
      BY <1>1
    <3> QED
      BY <2>1, <3>1
  <2>4. q + 1 = k
    BY <1>2
  <2> QED
    BY <2>1, <2>2, <2>3, <2>4 DEF Byte, b
<1>4. Bytes(q * b + from, n) = [j \in 1 .. n |-> <<chain[k], from + j - 1>>]
  BY <1>3 DEF Bytes
<1> QED
  BY <1>2, <1>4 DEF data, b

\* A piece of the file, and two that follow each other.
LEMMA GlueFacts ==
  ASSUME NEW from \in Nat
  PROVE  /\ \A m, n \in Nat : Bytes(from, m) \o Bytes(from + m, n) = Bytes(from, m + n)
         /\ \A n \in Nat : Len(Bytes(from, n)) = n /\ Bytes(from, n) \o <<>> = Bytes(from, n)
         /\ Bytes(from, 0) = <<>>
<1> DEFINE S == {Byte(k) : k \in Nat}
<1>1. ASSUME NEW f \in Nat, NEW l \in Nat
      PROVE  /\ Bytes(f, l) \in Seq(S) /\ Len(Bytes(f, l)) = l
             /\ \A j \in 1 .. l : Bytes(f, l)[j] = Byte(f + j - 1)
  <2>1. \A j \in 1 .. l : Byte(f + j - 1) \in S
    OBVIOUS
  <2> HIDE DEF S
  <2>2. Bytes(f, l) \in [1 .. l -> S]
    BY <2>1 DEF Bytes
  <2>3. \A j \in 1 .. l : Bytes(f, l)[j] = Byte(f + j - 1)
    BY DEF Bytes
  <2>4. Bytes(f, l) \in Seq(S) /\ DOMAIN Bytes(f, l) = 1 .. l
    BY <2>2
  <2>5. Len(Bytes(f, l)) = l
    BY <2>4
  <2> QED
    BY <2>3, <2>4, <2>5
<1> HIDE DEF S
<1>2. ASSUME NEW m \in Nat, NEW n \in Nat
      PROVE  Bytes(from, m) \o Bytes(from + m, n) = Bytes(from, m + n)
  <2>1. PICK g \in Nat, h \in Nat : g = from + m /\ h = m + n
    OBVIOUS
  <2>2. PICK s1 \in Seq(S) : /\ s1 = Bytes(from, m) /\ Len(s1) = m
                             /\ \A j \in 1 .. m : s1[j] = Byte(from + j - 1)
    BY <1>1
  <2>3. PICK s2 \in Seq(S) : /\ s2 = Bytes(g, n) /\ Len(s2) = n
                             /\ \A j \in 1 .. n : s2[j] = Byte(g + j - 1)
    BY <1>1
  <2>4. PICK s \in Seq(S) : /\ s = Bytes(from, h) /\ Len(s) = h
                            /\ \A j \in 1 .. h : s[j] = Byte(from + j - 1)
    BY <1>1
  <2>5. s1 \o s2 = s
    <3>1. /\ s1 \o s2 \in Seq(S) /\ Len(s1 \o s2) = m + n
          /\ \A j \in 1 .. m + n : (s1 \o s2)[j] = IF j <= m THEN s1[j] ELSE s2[j - m]
      <4>1. /\ s1 \o s2 \in Seq(S) /\ Len(s1 \o s2) = Len(s1) + Len(s2)
            /\ \A j \in 1 .. Len(s1) + Len(s2) :
                 (s1 \o s2)[j] = IF j <= Len(s1) THEN s1[j] ELSE s2[j - Len(s1)]
        BY ConcatProperties, Zenon
      <4>2. Len(s1) = m /\ Len(s2) = n
        BY <2>2, <2>3
      <4> QED
        BY <4>1, <4>2, Zenon
    <3>2. ASSUME NEW j \in 1 .. h PROVE (s1 \o s2)[j] = s[j]
      <4>1. CASE j <= m
        <5>1. j \in 1 .. m /\ j \in 1 .. m + n
          BY <2>1, <4>1
        <5>2. (s1 \o s2)[j] = s1[j]
          BY <3>1, <4>1, <5>1
        <5> QED
          BY <2>2, <2>4, <5>1, <5>2
      <4>2. CASE ~ (j <= m)
        <5>1. PICK d \in 1 .. n : d = j - m
          BY <2>1, <4>2
        <5>2. g + d - 1 = from + j - 1
          BY <2>1, <5>1
        <5>3. (s1 \o s2)[j] = s2[d]
          BY <2>1, <3>1, <4>2, <5>1
        <5> QED
          BY <2>3, <2>4, <5>2, <5>3
      <4> QED
        BY <4>1, <4>2
    <3> QED
      BY <2>1, <2>4, <3>1, <3>2, SeqEqual
  <2> QED
    BY <2>1, <2>2, <2>3, <2>4, <2>5
<1>3. ASSUME NEW n \in Nat PROVE Bytes(from, n) \o <<>> = Bytes(from, n)
  BY <1>1, ConcatEmptySeq
<1>4. Bytes(from, 0) = <<>>
  BY DEF Bytes
<1>5. ASSUME NEW n \in Nat PROVE Len(Bytes(from, n)) = n
  BY <1>1
<1> QED
  BY <1>2, <1>3, <1>4, <1>5, Zenon

\* A piece of the file and the piece behind it are one piece.
Adjoin(from, m, n) == Bytes(from, m) \o Bytes(from + m, n) = Bytes(from, m + n)

LEMMA GlueTwo == \A from \in Nat : \A m, n \in Nat : Adjoin(from, m, n)
BY GlueFacts, Zenon DEF Adjoin

\* What read_cluster_chain reads from a cluster of the file on is the file, up to
\* its last cluster.
LEMMA ChainReads ==
  ASSUME DiskProper, NEW k \in 1 .. Clusters, NEW n \in Nat,
         n <= (Clusters - k + 1) * ONE_CLUSTER_BYTES
  PROVE  read_cluster_chain[n][chain[k]] = Bytes((k - 1) * ONE_CLUSTER_BYTES, n)
<1> DEFINE b == ONE_CLUSTER_BYTES
           L == Clusters
           left(j) == (L - j + 1) * b
           least(x, y) == IF x <= y THEN x ELSE y
           in(c) == \E j \in 1 .. L : chain[j] = c
           position(c) == CHOOSE j \in 1 .. L : chain[j] = c
           read(x) == IF x > b THEN b ELSE x
           whole(x, c) == IF in(c) THEN Bytes((position(c) - 1) * b, least(x, left(position(c))))
                          ELSE data(c, 0, read(x))
           table == [x \in Nat |-> [c \in Cluster |-> whole(x, c)]]
           step(f, x, c) ==
             IF x = 0 THEN <<>>
             ELSE data(c, 0, read(x)) \o (IF get_next_cluster(c) = 0 THEN <<>>
                                          ELSE f[x - read(x)][get_next_cluster(c)])
<1>1. b \in Nat \ {0} /\ L \in Nat \ {0}
  BY FatAssumption, CdivFacts DEF DiskProper, Clusters
<1>2. \A j \in 1 .. L : chain[j] \in Cluster /\ chain[j] # 0
  BY ClusterFacts DEF DiskProper
<1>3. \A x \in Nat : /\ read(x) \in Nat /\ read(x) <= b
                       /\ x - read(x) \in Nat /\ (x # 0 => x - read(x) < x)
  BY <1>1
<1>4. \A j \in 1 .. L : left(j) \in Nat /\ left(j) >= b /\ (j - 1) * b \in Nat
  <2> TAKE j \in 1 .. L
  <2>1. PICK d \in Nat, q \in Nat : d = L - j /\ q = j - 1
    BY <1>1
  <2>2. (d + 1) * b = d * b + b /\ d * b \in Nat /\ q * b \in Nat
    BY <1>1
  <2>3. L - j + 1 = d + 1
    BY <1>1, <2>1
  <2> HIDE DEF b, L
  <2> QED
    BY <1>1, <2>1, <2>2, <2>3
<1> HIDE DEF b, L
<1>5. \A j \in 1 .. L : j # L => /\ j + 1 \in 1 .. L /\ left(j) = left(j + 1) + b
                                 /\ ((j + 1) - 1) * b = (j - 1) * b + b
  <2> SUFFICES ASSUME NEW j \in 1 .. L, j # L
               PROVE  j + 1 \in 1 .. L /\ left(j) = left(j + 1) + b
                        /\ ((j + 1) - 1) * b = (j - 1) * b + b
    OBVIOUS
  <2>1. PICK d \in Nat, q \in Nat : d = L - j /\ q = j - 1
    BY <1>1
  <2>2. (d + 1) * b = d * b + b /\ (q + 1) * b = q * b + b
    BY <1>1
  <2>3. L - j + 1 = d + 1 /\ L - (j + 1) + 1 = d /\ (j + 1) - 1 = q + 1
    BY <1>1, <2>1
  <2> QED
    BY <1>1, <2>1, <2>2, <2>3
<1>6. left(L) = b
  <2>1. L - L + 1 = 1 /\ 1 * b = b
    BY <1>1
  <2> QED
    BY <2>1
<1> HIDE DEF left
<1>7. ASSUME NEW x \in Nat, NEW j \in 1 .. L
      PROVE  table[x][chain[j]] = Bytes((j - 1) * b, least(x, left(j)))
  <2>1. in(chain[j])
    OBVIOUS
  <2>2. position(chain[j]) = j
    BY DEF DiskProper, L
  <2> HIDE DEF in, position, least, read
  <2>3. whole(x, chain[j]) = Bytes((j - 1) * b, least(x, left(j)))
    BY <2>1, <2>2
  <2> HIDE DEF whole
  <2> QED
    BY <1>2, <2>3
<1>8. ASSUME NEW x \in Nat, NEW c \in Cluster PROVE whole(x, c) = step(table, x, c)
  <2>1. CASE ~ in(c)
    <3>1. get_next_cluster(c) = 0 /\ whole(x, c) = data(c, 0, read(x))
      BY <2>1 DEF DiskProper, L
    <3>2. PICK m \in Nat : m = read(x)
      BY <1>3
    <3>3. data(c, 0, m) \o <<>> = data(c, 0, m) /\ data(c, 0, 0) = <<>>
      <4> DEFINE S == {<<c, 0 + j - 1>> : j \in Int}
      <4>1. data(c, 0, m) \in Seq(S)
        <5>1. \A j \in 1 .. m : <<c, 0 + j - 1>> \in S
          OBVIOUS
        <5> HIDE DEF S
        <5>2. data(c, 0, m) \in [1 .. m -> S]
          BY <5>1 DEF data
        <5> QED
          BY <5>2
      <4>2. data(c, 0, 0) = <<>>
        BY DEF data
      <4> QED
        BY <4>1, <4>2, ConcatEmptySeq
    <3>4. x = 0 => m = 0
      BY <1>1, <3>2
    <3> QED
      BY <3>1, <3>2, <3>3, <3>4
  <2>2. CASE in(c)
    <3>1. PICK j \in 1 .. L : c = chain[j]
      BY <2>2
    <3>2. whole(x, c) = Bytes((j - 1) * b, least(x, left(j)))
      <4>1. table[x][c] = whole(x, c)
        <5> HIDE DEF whole
        <5> QED
          OBVIOUS
      <4> HIDE DEF table, whole, least
      <4> QED
        BY <1>7, <3>1, <4>1
    <3>3. PICK f \in Nat : f = (j - 1) * b
      BY <1>4
    <3>4. PICK l \in Nat : l = left(j) /\ l >= b
      BY <1>4
    <3>5. get_next_cluster(c) = IF j = L THEN 0 ELSE chain[j + 1]
      BY <3>1 DEF DiskProper, L
    <3>6. ASSUME NEW m \in Nat, m <= b PROVE data(c, 0, m) = Bytes(f, m)
      <4>1. data(c, 0, m) = Bytes((j - 1) * b + 0, m)
        BY <3>1, <3>6, DataFacts DEF b, L
      <4>2. (j - 1) * b + 0 = f
        BY <3>3
      <4> QED
        BY <4>1, <4>2
    <3>7. PICK m \in Nat : m = read(x) /\ m <= b
      BY <1>3
    <3> HIDE DEF whole, table, in, position
    <3>8. CASE x = 0
      <4>1. step(table, x, c) = <<>> /\ least(x, left(j)) = 0
        BY <3>4, <3>8
      <4> QED
        BY <3>2, <3>3, <4>1, GlueFacts
    <3>9. CASE x # 0 /\ j = L
      <4>1. step(table, x, c) = Bytes(f, m) \o <<>>
        BY <3>5, <3>6, <3>7, <3>9
      <4>2. least(x, left(j)) = m
        BY <1>1, <1>6, <3>7, <3>9
      <4> QED
        BY <3>2, <3>3, <4>1, <4>2, GlueFacts
    <3>10. CASE x # 0 /\ j # L
      <4>1. j + 1 \in 1 .. L /\ left(j) = left(j + 1) + b /\ ((j + 1) - 1) * b = f + b
        BY <1>5, <3>3, <3>10
      <4>2. get_next_cluster(c) = chain[j + 1] /\ chain[j + 1] # 0
        BY <1>2, <3>5, <3>10, <4>1
      <4>3. PICK r \in Nat : r = x - m
        BY <1>3, <3>7
      <4>4. PICK g \in Nat : g = left(j + 1)
        BY <1>4, <4>1
      <4>5. step(table, x, c) = Bytes(f, m) \o table[r][chain[j + 1]]
        BY <3>6, <3>7, <3>10, <4>2, <4>3
      <4>6. table[r][chain[j + 1]] = Bytes(f + b, least(r, g))
        BY <1>7, <4>1, <4>4
      <4>7. CASE x <= b
        <5>1. m = x /\ r = 0 /\ least(r, g) = 0 /\ least(x, left(j)) = x
          BY <1>1, <3>4, <3>7, <4>3, <4>7
        <5>2. f + b \in Nat
          BY <1>1
        <5>3. Bytes(f, x) \o Bytes(f + b, 0) = Bytes(f, x)
          <6>1. Bytes(f + b, 0) = <<>> /\ Bytes(f, x) \o <<>> = Bytes(f, x)
            BY <5>2, GlueFacts
          <6> QED
            BY <6>1
        <5> QED
          BY <3>2, <3>3, <4>5, <4>6, <5>1, <5>3
      <4>8. CASE x > b
        <5>1. m = b
          BY <3>7, <4>8
        <5>2. PICK h \in Nat : h = least(r, g)
          BY <4>3, <4>4
        <5>3. least(x, left(j)) = b + h
          BY <1>1, <3>4, <4>1, <4>3, <4>4, <4>8, <5>1, <5>2
        <5>4. Bytes(f, b) \o Bytes(f + b, h) = Bytes(f, b + h)
          <6>1. PICK d \in Nat : d = b
            BY <1>1
          <6>2. Bytes(f, d) \o Bytes(f + d, h) = Bytes(f, d + h)
            <7>1. Adjoin(f, d, h)
              BY GlueTwo
            <7> QED
              BY <7>1 DEF Adjoin
          <6> QED
            BY <6>1, <6>2
        <5> QED
          BY <3>2, <3>3, <4>5, <4>6, <5>1, <5>2, <5>3, <5>4
      <4> QED
        <5>1. x <= b \/ x > b
          BY <1>1
        <5> QED
          BY <4>7, <4>8, <5>1, Zenon
    <3> QED
      BY <3>8, <3>9, <3>10
  <2> QED
    BY <2>1, <2>2
<1> HIDE DEF whole
<1>9. table = [x \in Nat |-> [c \in Cluster |-> step(table, x, c)]]
  <2> HIDE DEF step
  <2> QED
    BY <1>8
<1>10. PICK f : f = read_cluster_chain
  OBVIOUS
<1>11. f = [x \in Nat |-> [c \in Cluster |-> step(f, x, c)]]
  <2>1. read_cluster_chain = CHOOSE g : g = [x \in Nat |-> [c \in Cluster |-> step(g, x, c)]]
    BY DEF read_cluster_chain, b
  <2> HIDE DEF step, table
  <2> QED
    BY <1>9, <1>10, <2>1
<1> DEFINE Off == {x \in Nat : f[x] # table[x]}
<1>12. Off = {}
  <2> SUFFICES ASSUME Off # {} PROVE FALSE
    OBVIOUS
  <2>1. PICK T \in SUBSET Nat : T = Off /\ T # {}
    <3>1. Off \subseteq Nat
      OBVIOUS
    <3> HIDE DEF Off
    <3> QED
      BY <3>1
  <2>2. PICK x \in T : \A z \in T : x <= z
    <3> HIDE DEF Off
    <3> QED
      BY ONLY T \in SUBSET Nat, <2>1, LeastFacts
  <2>3. x \in Nat /\ f[x] # table[x]
    BY <2>1
  <2>4. x # 0 => f[x - read(x)] = table[x - read(x)]
    <3> SUFFICES ASSUME x # 0, f[x - read(x)] # table[x - read(x)] PROVE FALSE
      OBVIOUS
    <3>1. PICK z \in Nat : z = x - read(x) /\ z < x
      BY <1>3, <2>3
    <3>2. z \in T
      BY <2>1, <3>1
    <3> QED
      BY <2>2, <2>3, <3>1, <3>2
  <2> HIDE DEF table, Off, read
  <2>5. \A c \in Cluster : step(f, x, c) = step(table, x, c)
    BY <2>4
  <2> HIDE DEF step
  <2>6. f[x] = [c \in Cluster |-> step(f, x, c)] /\ table[x] = [c \in Cluster |-> step(table, x, c)]
    BY <1>9, <1>11, <2>3, Zenon
  <2> QED
    BY <2>3, <2>5, <2>6
<1>13. f[n] = table[n]
  BY <1>12
<1>14. n <= left(k)
  BY DEF left, b, L
<1>15. table[n][chain[k]] = Bytes((k - 1) * b, n)
  <2>1. table[n][chain[k]] = Bytes((k - 1) * b, least(n, left(k)))
    BY <1>7 DEF L
  <2> HIDE DEF table
  <2> QED
    BY <1>14, <2>1
<1> QED
  BY <1>10, <1>13, <1>15 DEF b

\* The cluster that get_offest_cluster finds is the one in which the offset lies.
LEMMA OffestFacts ==
  ASSUME DiskProper, NEW offest \in Nat, offest < file_size
  PROVE  /\ offest \div ONE_CLUSTER_BYTES + 1 \in 1 .. Clusters
         /\ get_offest_cluster(chain[1], offest) = chain[offest \div ONE_CLUSTER_BYTES + 1]
<1>1. PICK q \in Nat : q = offest \div ONE_CLUSTER_BYTES
  BY FatAssumption, SplitFacts
<1>2. Clusters \in Nat \ {0} /\ q < Clusters
  BY <1>1, FatAssumption, CdivFacts DEF DiskProper, Clusters
<1> DEFINE table == [j \in 0 .. q |-> chain[j + 1]]
           step(f, j) == IF j = 0 THEN chain[1] ELSE get_next_cluster(f[j - 1])
           found == CHOOSE f : f = [j \in 0 .. q |-> step(f, j)]
<1>3. table = [j \in 0 .. q |-> step(table, j)]
  <2>1. ASSUME NEW j \in 0 .. q PROVE chain[j + 1] = step(table, j)
    <3>1. CASE j = 0
      BY <3>1
    <3>2. CASE j # 0
      <4>1. j - 1 \in 0 .. q /\ j \in 1 .. Clusters /\ j # Clusters /\ (j - 1) + 1 = j
        BY <1>2, <3>2
      <4>2. table[j - 1] = chain[j]
        BY <4>1
      <4>3. get_next_cluster(chain[j]) = chain[j + 1]
        BY <4>1 DEF DiskProper
      <4> QED
        BY <3>2, <4>2, <4>3
    <3> QED
      BY <3>1, <3>2
  <2> HIDE DEF step
  <2> QED
    BY <2>1
<1> HIDE DEF table
<1>4. found = [j \in 0 .. q |-> step(found, j)]
  <2> HIDE DEF step
  <2> QED
    BY <1>3
<1>5. get_offest_cluster(chain[1], offest) = found[q]
  BY <1>1 DEF get_offest_cluster
<1> HIDE DEF found
<1>6. PICK g : g = found
  OBVIOUS
<1>7. \A j \in 0 .. q : g[j] = step(g, j) /\ table[j] = step(table, j)
  <2> HIDE DEF step
  <2> QED
    BY <1>3, <1>4, <1>6, Zenon
<1> DEFINE Off == {j \in 0 .. q : g[j] # table[j]}
<1>8. Off = {}
  <2> SUFFICES ASSUME Off # {} PROVE FALSE
    OBVIOUS
  <2>1. PICK T \in SUBSET Nat : T = Off /\ T # {}
    <3>1. Off \subseteq Nat
      OBVIOUS
    <3> HIDE DEF Off
    <3> QED
      BY <3>1
  <2>2. PICK x \in T : \A z \in T : x <= z
    <3> HIDE DEF Off
    <3> QED
      BY ONLY T \in SUBSET Nat, <2>1, LeastFacts
  <2>3. x \in 0 .. q /\ g[x] # table[x]
    BY <2>1
  <2>4. x # 0 => x - 1 \in 0 .. q /\ g[x - 1] = table[x - 1]
    <3> SUFFICES ASSUME x # 0, ~ (x - 1 \in 0 .. q /\ g[x - 1] = table[x - 1]) PROVE FALSE
      OBVIOUS
    <3>1. PICK z \in 0 .. q : z = x - 1 /\ z < x
      BY <2>3
    <3>2. z \in T
      BY <2>1, <3>1
    <3> QED
      BY <2>2, <2>3, <3>1, <3>2
  <2>5. step(g, x) = step(table, x)
    BY <2>4
  <2> HIDE DEF step, Off
  <2> QED
    BY <1>7, <2>3, <2>5
<1>9. g[q] = table[q]
  BY <1>8
<1>10. table[q] = chain[q + 1]
  BY DEF table
<1> QED
  BY <1>1, <1>2, <1>5, <1>6, <1>9, <1>10

\* The two pieces that read_file puts together: a part of one cluster, and the
\* clusters behind it.
Pieces(offest, count, cluster, part, next, rest) ==
  /\ cluster = get_offest_cluster(chain[1], offest)
  /\ part = first_part(offest, count)
  /\ next = get_next_cluster(cluster)
  /\ next = 0 => rest = <<>>
  /\ next # 0 => rest = read_cluster_chain[count - part][next]

\* Together they are what was asked for.
LEMMA ReadFacts ==
  ASSUME DiskProper, NEW offest \in Nat, NEW count \in Nat \ {0}, offest + count <= file_size,
         NEW cluster, NEW part, NEW next, NEW rest,
         Pieces(offest, count, cluster, part, next, rest)
  PROVE  /\ read_one_cluster(cluster, offest % ONE_CLUSTER_BYTES, part) \o rest
              = Bytes(offest, count)
         /\ part + Len(rest) = count
<1>1. PICK b \in Nat \ {0} : b = ONE_CLUSTER_BYTES
  BY FatAssumption
<1>2. PICK L \in Nat \ {0} : L = Clusters
  BY FatAssumption, CdivFacts DEF DiskProper, Clusters
<1>3. file_size \in Nat /\ file_size <= L * b
  BY <1>1, <1>2, CdivFacts DEF DiskProper, Clusters
<1>4. /\ offest \div b \in Nat /\ offest % b \in Nat /\ offest % b < b
      /\ offest = (offest \div b) * b + (offest % b)
  <2>1. \A d \in Nat \ {0}, x \in Nat : /\ x \div d \in Nat /\ x % d \in Nat /\ x % d < d
                                        /\ x = (x \div d) * d + (x % d)
    BY SplitFacts, Zenon
  <2> QED
    BY <2>1, Zenon
<1>5. PICK q \in Nat : q = offest \div b
  BY <1>4
<1>6. PICK o \in Nat : o = offest % b
  BY <1>4
<1>7. q = offest \div b /\ o = offest % b /\ o < b /\ offest = q * b + o
  BY <1>4, <1>5, <1>6
<1>8. PICK k \in 1 .. L : k = q + 1 /\ cluster = chain[k]
  <2>1. offest < file_size
    BY <1>3
  <2> QED
    BY <1>1, <1>2, <1>3, <1>7, <2>1, OffestFacts DEF Pieces
<1>9. /\ \A from, x \in Nat : Bytes(from, x) \o <<>> = Bytes(from, x) /\ Len(Bytes(from, x)) = x
      /\ \A from \in Nat : Bytes(from, 0) = <<>>
  BY GlueFacts, Zenon
<1>10. part \in Nat \ {0} /\ part <= count /\ o + part <= b
      /\ part = IF count + o > b THEN b - o ELSE count
  BY <1>1, <1>2, <1>3, <1>7 DEF first_part, Pieces
<1>11. read_one_cluster(cluster, o, part) = Bytes(offest, part)
  <2>1. read_one_cluster(cluster, o, part) = data(chain[k], o, part)
    BY <1>8, <1>10 DEF read_one_cluster
  <2>2. data(chain[k], o, part) = Bytes((k - 1) * b + o, part)
    <3>1. o + part <= ONE_CLUSTER_BYTES /\ k \in 1 .. Clusters /\ part \in Nat
      BY <1>1, <1>2, <1>10
    <3>2. data(chain[k], o, part) = Bytes((k - 1) * ONE_CLUSTER_BYTES + o, part)
      BY <3>1, DataFacts
    <3> QED
      BY <1>1, <1>2, <1>3, <3>2
  <2>3. (k - 1) * b + o = offest
    BY <1>1, <1>2, <1>3, <1>7, <1>8
  <2> QED
    BY <2>1, <2>2, <2>3
<1>12. next = IF k = L THEN 0 ELSE chain[k + 1]
  BY <1>8, <1>2 DEF DiskProper, Pieces
<1>13. PICK p \in Nat : p = q * b
  BY <1>1
<1>14. k * b = p + b
  BY <1>1, <1>2, <1>3, <1>8, <1>13
<1>15. CASE k = L
  <2>1. offest + count <= p + b /\ offest = p + o
    BY <1>1, <1>2, <1>3, <1>7, <1>13, <1>14, <1>15
  <2>2. part = count
    BY <1>1, <1>2, <1>3, <1>7, <1>10, <2>1
  <2>3. rest = <<>>
    BY <1>12, <1>15 DEF Pieces
  <2>4. Bytes(offest, count) \o <<>> = Bytes(offest, count) /\ count + Len(<<>>) = count
    BY <1>9
  <2> QED
    BY <1>1, <1>7, <1>11, <2>2, <2>3, <2>4
<1>16. CASE k # L
  <2>1. k + 1 \in 1 .. L
    BY <1>1, <1>2, <1>3, <1>16
  <2>2. next = chain[k + 1] /\ next # 0
    <3>1. chain \in [1 .. L -> Cluster]
      BY <1>2 DEF DiskProper
    <3>2. chain[k + 1] # 0
      BY <2>1, <3>1, ClusterFacts
    <3> QED
      BY <1>12, <1>16, <3>2
  <2>3. PICK r \in Nat : r = count - part
    BY <1>10
  <2>4. r <= (L - (k + 1) + 1) * b
    <3>1. PICK d \in Nat : L = k + d
      BY <1>1, <1>2, <1>3, <1>16
    <3>2. L - (k + 1) + 1 = d /\ L * b = k * b + d * b /\ d * b \in Nat
      BY <1>1, <1>2, <1>3, <3>1
    <3>3. PICK e \in Nat : e = d * b
      BY <3>2
    <3>4. offest + count <= p + b + e /\ offest = p + o
      BY <1>1, <1>2, <1>3, <1>7, <1>13, <1>14, <3>2, <3>3
    <3>5. r <= e
      BY <1>1, <1>2, <1>3, <1>7, <1>10, <2>3, <3>3, <3>4
    <3> QED
      BY <3>2, <3>3, <3>5
  <2>5. rest = Bytes(p + b, r)
    <3>1. rest = read_cluster_chain[r][chain[k + 1]]
      BY <2>2, <2>3 DEF Pieces
    <3>2. read_cluster_chain[r][chain[k + 1]] = Bytes((k + 1 - 1) * b, r)
      BY <2>1, <2>4, <1>1, <1>2, ChainReads
    <3>3. (k + 1 - 1) * b = p + b
      <4>1. k + 1 - 1 = k
        OBVIOUS
      <4> QED
        BY <1>14, <4>1
    <3> QED
      BY <3>1, <3>2, <3>3
  <2>6. p + b \in Nat
    BY <1>1, <1>2, <1>3, <1>13
  <2>7. CASE r = 0
    <3>1. rest = <<>> /\ part = count
      BY <1>9, <1>10, <2>3, <2>5, <2>6, <2>7
    <3>2. Bytes(offest, count) \o <<>> = Bytes(offest, count) /\ count + Len(<<>>) = count
      BY <1>9
    <3> QED
      BY <1>1, <1>7, <1>11, <3>1, <3>2
  <2>8. CASE r # 0
    <3>1. offest + part = p + b /\ part + r = count
      <4>1. part + r = count /\ part # count
        BY <1>10, <2>3, <2>8
      <4>2. part = b - o /\ offest = p + o
        BY <1>7, <1>10, <1>13, <4>1
      <4> QED
        BY <1>6, <1>4, <1>13, <4>1, <4>2
    <3>2. Bytes(offest, part) \o Bytes(p + b, r) = Bytes(offest, count)
      <4>1. Bytes(offest, part) \o Bytes(offest + part, r) = Bytes(offest, part + r)
        <5>1. part \in Nat
          BY <1>10
        <5>2. Adjoin(offest, part, r)
          BY <5>1, GlueTwo
        <5> QED
          BY <5>2 DEF Adjoin
      <4> QED
        BY <3>1, <4>1
    <3>3. Len(rest) = r
      BY <1>9, <2>5, <2>6
    <3> QED
      BY <1>1, <1>7, <1>11, <2>5, <3>1, <3>2, <3>3
  <2> QED
    BY <2>7, <2>8
<1> QED
  BY <1>15, <1>16

----------------------------------------------------------------------------

\* The slots that have been looked at and listed.
Taken == {k \in Live : k < slot}

\* Places of the list in the root directory: in order, and all of a set.
Ordered(spot, S) ==
  /\ spot \in [1 .. Len(dirs) -> S]
  /\ \A m, n \in 1 .. Len(dirs) : m < n => spot[m] < spot[n]
  /\ \A k \in S : \E n \in 1 .. Len(dirs) : spot[n] = k
  /\ \A n \in 1 .. Len(dirs) : dirs[n] = root[spot[n]]

\* What the list holds is what stands in front of the slot that is looked at.
DirsListed ==
  /\ root \in [1 .. RootSlots -> Slot]
  /\ slot \in 1 .. RootSlots + 1
  /\ slot <= RootSlots => \A j \in 1 .. slot - 1 : root[j] # "end"
  /\ at = "ready" => slot = RootSlots + 1
  /\ dirs \in Seq(Slot)
  /\ \E spot : Ordered(spot, Taken)

\* What the last read_file returned is what it was asked for.
LastRead ==
  result.entry # 0 =>
    result.value = result.count /\ result.bytes = Bytes(result.offest, result.count)

FileInv == DiskProper /\ DirsListed /\ LastRead

\* Every disk that the reader starts with is proper, and nothing is listed.
LEMMA FileInit == FatInit => FileInv
<1> SUFFICES ASSUME FatInit PROVE FileInv
  OBVIOUS
<1>1. file_size \in Nat \ {0}
  <2>1. file_size \in 1 .. MaxSize /\ MaxSize \in Nat
    BY FatAssumption DEF FatInit
  <2> QED
    BY <2>1
<1>2. /\ file_size \in 1 .. MaxSize
      /\ chain \in [1 .. Clusters -> Cluster] /\ IsInjective(chain)
      /\ fat = [c \in Cluster |->
                  IF \E k \in DOMAIN chain : chain[k] = c
                  THEN LET k == CHOOSE k \in DOMAIN chain : chain[k] = c
                       IN IF k = Len(chain) THEN EOC ELSE chain[k + 1]
                  ELSE 0]
  BY DEF FatInit, Clusters
<1>3. Clusters \in Nat \ {0}
  BY <1>1, FatAssumption, CdivFacts DEF Clusters
<1>4. \A j, k \in 1 .. Clusters : chain[j] = chain[k] => j = k
  BY <1>2 DEF IsInjective
<1>5. DOMAIN chain = 1 .. Clusters /\ Len(chain) = Clusters
  BY <1>2, <1>3
<1>6. 0 < EOC /\ EOC \in Nat
  BY DEF EOC
<1>7. ASSUME NEW k \in 1 .. Clusters
      PROVE  get_next_cluster(chain[k]) = IF k = Clusters THEN 0 ELSE chain[k + 1]
  <2>1. /\ chain[k] \in Cluster
        /\ k # Clusters => k + 1 \in 1 .. Clusters /\ chain[k + 1] \in Cluster
    BY <1>2, <1>3
  <2>2. (CHOOSE j \in DOMAIN chain : chain[j] = chain[k]) = k
    BY <1>4, <1>5
  <2>3. fat[chain[k]] = IF k = Clusters THEN EOC ELSE chain[k + 1]
    BY <1>2, <1>5, <2>1, <2>2
  <2>4. k # Clusters => chain[k + 1] \in Nat /\ chain[k + 1] < EOC
    BY <2>1, ClusterFacts
  <2> QED
    BY <1>6, <2>3, <2>4 DEF get_next_cluster
<1>8. ASSUME NEW c \in Cluster, \A k \in 1 .. Clusters : chain[k] # c
      PROVE  get_next_cluster(c) = 0
  <2>1. fat[c] = 0
    BY <1>2, <1>5, <1>8
  <2> QED
    BY <1>6, <2>1 DEF get_next_cluster
<1>9. DiskProper
  BY <1>2, <1>4, <1>7, <1>8 DEF DiskProper
<1>10. DirsListed
  <2>1. /\ root \in [1 .. RootSlots -> Slot] /\ slot = 1 /\ dirs = <<>> /\ at = "mount"
    BY DEF FatInit
  <2>2. Taken = {} /\ slot \in 1 .. RootSlots + 1
    BY <2>1, FatAssumption DEF Taken, Live
  <2>3. Ordered(<<>>, Taken)
    BY <2>1, <2>2 DEF Ordered
  <2> QED
    BY <2>1, <2>2, <2>3 DEF DirsListed
<1>11. LastRead
  BY DEF FatInit, LastRead, none
<1> QED
  BY <1>9, <1>10, <1>11 DEF FileInv

\* The disk is only read.
LEMMA DiskStays == DiskProper /\ UNCHANGED image => DiskProper'
BY DEF DiskProper, image, get_next_cluster, Clusters

\* A result stays true.
LEMMA ReadStays == LastRead /\ UNCHANGED <<image, result>> => LastRead'
BY DEF LastRead, image, Bytes, Byte

\* A list and what has been looked at of the root directory stay as they are.
LEMMA ListStays ==
  ASSUME DirsListed, root' = root, dirs' = dirs, Taken' = Taken, slot' \in 1 .. RootSlots + 1,
         slot' <= RootSlots => \A j \in 1 .. slot' - 1 : root[j] # "end",
         at' = "ready" => slot' = RootSlots + 1
  PROVE  DirsListed'
<1>1. PICK spot : Ordered(spot, Taken)
  BY DEF DirsListed
<1>2. Ordered(spot, Taken)'
  BY <1>1 DEF Ordered
<1> QED
  BY <1>2 DEF DirsListed

\* The root directory is looked through one slot after the other, and files are
\* read.
LEMMA FileStep == FileInv /\ [FatNext]_fatVars => FileInv'
<1> SUFFICES ASSUME FileInv, [FatNext]_fatVars PROVE FileInv'
  OBVIOUS
<1>1. DiskProper /\ DirsListed /\ LastRead
  BY DEF FileInv
<1>2. /\ root \in [1 .. RootSlots -> Slot] /\ RootSlots \in Nat /\ slot \in 1 .. RootSlots + 1
      /\ slot <= RootSlots => \A j \in 1 .. slot - 1 : root[j] # "end"
      /\ at = "ready" => slot = RootSlots + 1
  BY <1>1, FatAssumption DEF DirsListed
<1>3. ASSUME root' = root PROVE Live' = Live
  BY <1>3 DEF Live
<1>4. ASSUME root_entry PROVE FileInv'
  <2>1. at = "mount" /\ slot <= RootSlots /\ root[slot] \notin {"end", "deleted"}
        /\ UNCHANGED <<image, result>>
    BY <1>4 DEF root_entry
  <2>2. DiskProper' /\ LastRead' /\ root' = root
    BY <1>1, <2>1, DiskStays, ReadStays DEF image
  <2>3. CASE at' = "assert" /\ UNCHANGED <<dirs, slot>>
    <3>1. Taken' = Taken
      BY <1>3, <2>2, <2>3 DEF Taken
    <3>2. DirsListed'
      BY <1>1, <1>2, <2>2, <2>3, <3>1, ListStays
    <3> QED
      BY <2>2, <3>2 DEF FileInv
  <2>4. CASE dirs' = Append(dirs, root[slot]) /\ slot' = slot + 1 /\ UNCHANGED at
    <3>1. PICK spot : Ordered(spot, Taken)
      BY <1>1 DEF DirsListed
    <3>2. PICK l \in Nat : l = Len(dirs)
      BY <1>1 DEF DirsListed
    <3>3. dirs \in Seq(Slot) /\ root[slot] \in Slot
      BY <1>1, <1>2, <2>1 DEF DirsListed
    <3>4. /\ dirs' \in Seq(Slot) /\ Len(dirs') = l + 1 /\ dirs'[l + 1] = root[slot]
          /\ \A n \in 1 .. l : dirs'[n] = dirs[n]
      BY <2>4, <3>2, <3>3
    <3>5. slot \in Live /\ Live \subseteq 1 .. RootSlots
      BY <1>2, <2>1 DEF Live
    <3>6. Taken' = Taken \cup {slot} /\ slot \notin Taken /\ \A k \in Taken : k \in Int /\ k < slot
      <4>1. Taken' = {k \in Live : k < slot + 1}
        BY <1>3, <2>2, <2>4 DEF Taken
      <4>2. ASSUME NEW k \in Live PROVE k < slot + 1 <=> k < slot \/ k = slot
        <5>1. k \in Int /\ slot \in Int
          BY <1>2, <3>5
        <5> QED
          BY <5>1
      <4>3. \A k \in Taken : k \in Int /\ k < slot /\ k \in Live
        BY <3>5 DEF Taken
      <4>4. slot \in Int /\ slot \notin Taken
        BY <1>2, <4>3
      <4>5. Taken' = Taken \cup {slot}
        BY <3>5, <4>1, <4>2 DEF Taken
      <4> QED
        BY <4>3, <4>4, <4>5
    <3>7. PICK more : more = [n \in 1 .. l + 1 |-> IF n = l + 1 THEN slot ELSE spot[n]]
      OBVIOUS
    <3>8. /\ spot \in [1 .. l -> Taken]
          /\ \A m, n \in 1 .. l : m < n => spot[m] < spot[n]
          /\ \A k \in Taken : \E n \in 1 .. l : spot[n] = k
          /\ \A n \in 1 .. l : dirs[n] = root[spot[n]]
      BY <3>1, <3>2 DEF Ordered
    <3>9. more[l + 1] = slot /\ \A n \in 1 .. l : more[n] = spot[n]
      BY <3>2, <3>7
    <3>10. more \in [1 .. l + 1 -> Taken \cup {slot}]
      BY <3>2, <3>8, <3>7
    <3>11. ASSUME NEW m \in 1 .. l + 1, NEW n \in 1 .. l + 1, m < n PROVE more[m] < more[n]
      <4>1. m \in 1 .. l
        BY <3>2, <3>11
      <4>2. CASE n = l + 1
        <5>1. spot[m] \in Taken
          BY <3>8, <4>1
        <5> QED
          BY <3>6, <3>9, <4>1, <4>2, <5>1
      <4>3. CASE n # l + 1
        <5>1. n \in 1 .. l
          BY <3>2, <4>3
        <5> QED
          BY <3>8, <3>9, <3>11, <4>1, <5>1
      <4> QED
        BY <4>2, <4>3
    <3>12. ASSUME NEW k \in Taken \cup {slot} PROVE \E n \in 1 .. l + 1 : more[n] = k
      <4>1. CASE k = slot
        <5>1. l + 1 \in 1 .. l + 1
          BY <3>2
        <5> QED
          BY <3>9, <4>1, <5>1
      <4>2. CASE k \in Taken
        <5>1. PICK n \in 1 .. l : spot[n] = k
          BY <3>8, <4>2
        <5>2. n \in 1 .. l + 1
          BY <3>2, <5>1
        <5> QED
          BY <3>9, <5>1, <5>2
      <4> QED
        BY <4>1, <4>2
    <3>13. ASSUME NEW n \in 1 .. l + 1 PROVE dirs'[n] = root[more[n]]
      <4>1. CASE n = l + 1
        BY <3>4, <3>9, <4>1
      <4>2. CASE n # l + 1
        <5>1. n \in 1 .. l
          BY <3>2, <4>2
        <5> QED
          BY <3>4, <3>8, <3>9, <5>1
      <4> QED
        BY <4>1, <4>2
    <3>14. Ordered(more, Taken)'
      <4>1. Len(dirs') = l + 1 /\ Taken' = Taken \cup {slot} /\ root' = root
        BY <2>2, <3>4, <3>6
      <4>2. more \in [1 .. Len(dirs') -> Taken']
        BY <3>10, <4>1
      <4>3. \A m, n \in 1 .. Len(dirs') : m < n => more[m] < more[n]
        BY <3>11, <4>1
      <4>4. \A k \in Taken' : \E n \in 1 .. Len(dirs') : more[n] = k
        BY <3>12, <4>1
      <4>5. \A n \in 1 .. Len(dirs') : dirs'[n] = root'[more[n]]
        BY <3>13, <4>1
      <4> QED
        BY <4>2, <4>3, <4>4, <4>5 DEF Ordered
    <3>15. /\ slot' \in 1 .. RootSlots + 1
           /\ slot' <= RootSlots => \A j \in 1 .. slot' - 1 : root[j] # "end"
      BY <1>2, <2>1, <2>4
    <3>16. at' # "ready"
      BY <2>1, <2>4
    <3>17. DirsListed'
      BY <1>2, <2>2, <3>4, <3>14, <3>15, <3>16 DEF DirsListed
    <3> QED
      BY <2>2, <3>17 DEF FileInv
  <2> QED
    BY <1>4, <2>3, <2>4 DEF root_entry
<1>5. ASSUME root_deleted PROVE FileInv'
  <2>1. /\ at = "mount" /\ slot <= RootSlots /\ root[slot] = "deleted" /\ slot' = slot + 1
        /\ UNCHANGED <<image, dirs, at, result>>
    BY <1>5 DEF root_deleted
  <2>2. DiskProper' /\ LastRead' /\ root' = root
    BY <1>1, <2>1, DiskStays, ReadStays DEF image
  <2>3. Taken' = Taken
    <3>1. slot \notin Live /\ \A k \in Live : k \in Int
      BY <2>1 DEF Live
    <3>2. \A k \in Live : k < slot + 1 <=> k < slot
      BY <1>2, <3>1
    <3> QED
      BY <1>3, <2>1, <2>2, <3>2 DEF Taken
  <2>4. /\ slot' \in 1 .. RootSlots + 1
        /\ slot' <= RootSlots => \A j \in 1 .. slot' - 1 : root[j] # "end"
    BY <1>2, <2>1
  <2>5. DirsListed'
    BY <1>1, <2>1, <2>2, <2>3, <2>4, ListStays
  <2> QED
    BY <2>2, <2>5 DEF FileInv
<1>6. ASSUME root_end PROVE FileInv'
  <2>1. /\ at = "mount" /\ slot <= RootSlots /\ root[slot] = "end" /\ slot' = RootSlots + 1
        /\ UNCHANGED <<image, dirs, at, result>>
    BY <1>6 DEF root_end, after_end
  <2>2. DiskProper' /\ LastRead' /\ root' = root
    BY <1>1, <2>1, DiskStays, ReadStays DEF image
  <2>3. Taken' = Taken
    <3>1. ASSUME NEW k \in Live PROVE k < RootSlots + 1 /\ k < slot
      <4>1. k \in 1 .. RootSlots /\ \A j \in 1 .. k : root[j] # "end"
        BY DEF Live
      <4>2. CASE slot <= k
        BY <1>2, <2>1, <4>1, <4>2
      <4> QED
        BY <1>2, <4>1, <4>2
    <3> QED
      BY <1>3, <2>1, <2>2, <3>1 DEF Taken
  <2>4. slot' \in 1 .. RootSlots + 1 /\ ~ (slot' <= RootSlots)
    BY <1>2, <2>1
  <2>5. DirsListed'
    BY <1>1, <2>1, <2>2, <2>3, <2>4, ListStays
  <2> QED
    BY <2>2, <2>5 DEF FileInv
<1>7. ASSUME root_done PROVE FileInv'
  <2>1. slot > RootSlots /\ at' = "ready" /\ UNCHANGED <<image, slot, dirs, result>>
    BY <1>7 DEF root_done
  <2>2. DiskProper' /\ LastRead' /\ root' = root
    BY <1>1, <2>1, DiskStays, ReadStays DEF image
  <2>3. Taken' = Taken
    BY <1>3, <2>1, <2>2 DEF Taken
  <2>4. slot' = RootSlots + 1
    BY <1>2, <2>1
  <2>5. DirsListed'
    BY <1>1, <1>2, <2>1, <2>2, <2>3, <2>4, ListStays
  <2> QED
    BY <2>2, <2>5 DEF FileInv
<1>8. ASSUME NEW path \in Path, NEW offest \in 0 .. MaxSize - 1, NEW n \in 0 .. MaxSize,
             read_file(path, offest, n)
      PROVE  FileInv'
  <2> DEFINE entry == find_dir_entry(1, path)
             count == IF n = 0 THEN file_size - offest ELSE n
             cluster == get_offest_cluster(chain[1], offest)
             part == first_part(offest, count)
             next == get_next_cluster(cluster)
             rest == IF next = 0 THEN <<>> ELSE read_cluster_chain[count - part][next]
             bytes == read_one_cluster(cluster, offest % ONE_CLUSTER_BYTES, part) \o rest
  <2>1. /\ at = "ready" /\ offest < file_size /\ UNCHANGED <<image, slot, dirs>>
        /\ at' \in {"ready", "assert", "wild"}
        /\ \/ UNCHANGED result
           \/ result' = [none EXCEPT !.path = path]
           \/ /\ fits(offest, count)
              /\ result' = [path |-> path, offest |-> offest, count |-> count, entry |-> entry,
                            bytes |-> bytes, value |-> part + Len(rest)]
    <3> HIDE DEF entry, rest, bytes
    <3> QED
      BY <1>8 DEF read_file, entry, rest, bytes
  <2>2. DiskProper' /\ root' = root
    BY <1>1, <2>1, DiskStays DEF image
  <2>3. Taken' = Taken
    BY <1>3, <2>1, <2>2 DEF Taken
  <2>4. DirsListed'
    BY <1>1, <1>2, <2>1, <2>2, <2>3, ListStays
  <2>5. ASSUME NEW f, NEW c PROVE Bytes(f, c)' = Bytes(f, c)
    BY <2>1 DEF Bytes, Byte, image
  <2>6. LastRead'
    <3>1. CASE UNCHANGED result
      BY <1>1, <2>1, <3>1, ReadStays
    <3>2. CASE result' = [none EXCEPT !.path = path]
      BY <3>2 DEF LastRead, none
    <3>3. CASE /\ fits(offest, count)
               /\ result' = [path |-> path, offest |-> offest, count |-> count, entry |-> entry,
                             bytes |-> bytes, value |-> part + Len(rest)]
      <4>1. offest \in Nat /\ n \in Nat /\ file_size \in Nat
        <5>1. file_size \in Nat /\ MaxSize \in Nat
          BY <1>1, FatAssumption DEF DiskProper
        <5> HIDE DEF entry, count, cluster, part, next, rest, bytes
        <5> QED
          BY <5>1
      <4>2. count \in Nat \ {0} /\ offest + count <= file_size
        <5>1. offest < file_size /\ file_size >= offest + count
          BY <2>1, <3>3 DEF fits
        <5>2. CASE n = 0
          BY <4>1, <5>1, <5>2
        <5>3. CASE n # 0
          BY <4>1, <5>1, <5>3
        <5> QED
          BY <5>2, <5>3
      <4>3. bytes = Bytes(offest, count) /\ part + Len(rest) = count
        <5>1. PICK c \in Nat \ {0} : c = count
          BY <4>2
        <5>2. PICK u : u = cluster
          OBVIOUS
        <5>3. PICK p : p = part
          OBVIOUS
        <5>4. PICK x : x = next
          OBVIOUS
        <5>5. PICK z : z = rest
          OBVIOUS
        <5>6. bytes = read_one_cluster(u, offest % ONE_CLUSTER_BYTES, p) \o z
          BY <5>2, <5>3, <5>5
        <5>7. u = get_offest_cluster(chain[1], offest) /\ offest + c <= file_size
          BY <4>2, <5>1, <5>2
        <5> HIDE DEF bytes
        <5>8. x = get_next_cluster(u)
          BY <5>2, <5>4
        <5> HIDE DEF cluster
        <5>9. (x = 0 => z = <<>>) /\ (x # 0 => z = read_cluster_chain[c - p][x])
          BY <5>1, <5>3, <5>4, <5>5
        <5> HIDE DEF rest, next
        <5>10. p = first_part(offest, c)
          BY <5>1, <5>3
        <5> HIDE DEF part, count
        <5>11. /\ read_one_cluster(u, offest % ONE_CLUSTER_BYTES, p) \o z = Bytes(offest, c)
               /\ p + Len(z) = c
          <6>1. /\ DiskProper /\ offest \in Nat /\ c \in Nat \ {0} /\ offest + c <= file_size
                /\ u = get_offest_cluster(chain[1], offest) /\ p = first_part(offest, c)
            BY <1>1, <4>1, <5>7, <5>10
          <6>2. Pieces(offest, c, u, p, x, z)
            BY <6>1, <5>8, <5>9 DEF Pieces
          <6>3. PICK f \in Nat : f = offest
            BY <6>1
          <6>4. DiskProper /\ f + c <= file_size /\ Pieces(f, c, u, p, x, z)
            BY <6>1, <6>2, <6>3
          <6>5. /\ read_one_cluster(u, f % ONE_CLUSTER_BYTES, p) \o z = Bytes(f, c)
                /\ p + Len(z) = c
            BY <6>4, ReadFacts, SMT
          <6> QED
            BY <6>3, <6>5
        <5> QED
          BY <5>1, <5>3, <5>5, <5>6, <5>11
      <4>4. PICK c : c = count
        OBVIOUS
      <4> HIDE DEF count, bytes, part, rest, entry
      <4>5. result'.value = c /\ result'.count = c /\ result'.offest = offest
            /\ result'.bytes = Bytes(offest, c)
        BY <3>3, <4>3, <4>4
      <4>6. Bytes(result.offest, result.count)' = Bytes(offest, c)
        BY <2>1, <4>5 DEF Bytes, Byte, image
      <4> QED
        BY <4>5, <4>6 DEF LastRead
    <3> QED
      BY <2>1, <3>1, <3>2, <3>3
  <2> QED
    BY <2>2, <2>4, <2>6 DEF FileInv
<1>9. ASSUME UNCHANGED fatVars PROVE FileInv'
  <2>1. UNCHANGED <<image, slot, dirs, at, result>>
    BY <1>9 DEF fatVars, image
  <2>2. DiskProper' /\ LastRead' /\ root' = root
    BY <1>1, <2>1, DiskStays, ReadStays DEF image
  <2>3. Taken' = Taken
    BY <1>3, <2>1, <2>2 DEF Taken
  <2>4. DirsListed'
    BY <1>1, <1>2, <2>1, <2>2, <2>3, ListStays
  <2> QED
    BY <2>2, <2>4 DEF FileInv
<1> QED
  BY <1>4, <1>5, <1>6, <1>7, <1>8, <1>9 DEF FatNext

LEMMA FileAlways == FatSpec => []FileInv
BY FileInit, FileStep, PTL DEF FatSpec

\* The whole root directory has been looked at when the reader is ready.
LEMMA AllTaken ==
  ASSUME FileInv, at = "ready"
  PROVE  Taken = Live /\ dirs \in Seq(Slot)
<1>1. slot = RootSlots + 1 /\ RootSlots \in Nat /\ dirs \in Seq(Slot)
  BY FatAssumption DEF FileInv, DirsListed
<1> QED
  BY <1>1 DEF Taken, Live

\* The list in memory is the root directory of the disk, entry by entry and in
\* order (read_root_dirs), for a root directory of any size and any array.
THEOREM ListIsDirectory == FatSpec => []RootListed
<1>1. ASSUME FileInv PROVE RootListed
  <2> SUFFICES ASSUME at = "ready"
               PROVE  \E spot \in [1 .. Len(dirs) -> Live] :
                        /\ \A m, n \in 1 .. Len(dirs) : m < n => spot[m] < spot[n]
                        /\ \A k \in Live : \E n \in 1 .. Len(dirs) : spot[n] = k
                        /\ \A n \in 1 .. Len(dirs) : dirs[n] = root[spot[n]]
    BY DEF RootListed
  <2>1. PICK spot : Ordered(spot, Taken)
    BY <1>1 DEF FileInv, DirsListed
  <2>2. Taken = Live
    BY <1>1, AllTaken
  <2> QED
    BY <2>1, <2>2 DEF Ordered
<1> QED
  BY <1>1, FileAlways, PTL

\* In a root directory that is not empty, a file is found under its name if there is one
\* of that name, and not found otherwise (find_dir_entry, find_entry).
THEOREM FilesFound == FatSpec => []RootLookup
<1>1. ASSUME FileInv PROVE RootLookup
  <2> SUFFICES ASSUME at = "ready", dirs # <<>>, NEW f \in {"A.TXT", "B.TXT"}
               PROVE  LET entry == find_dir_entry(1, <<f>>)
                      IN IF \E k \in Live : root[k] = f THEN dirs[entry] = f ELSE entry = 0
    BY DEF RootLookup
  <2>1. PICK spot : Ordered(spot, Taken)
    BY <1>1 DEF FileInv, DirsListed
  <2>2. Taken = Live /\ Len(dirs) \in Nat
    BY <1>1, AllTaken
  <2>3. (\E k \in Live : root[k] = f) <=> (\E k \in 1 .. Len(dirs) : dirs[k] = f)
    BY <2>1, <2>2 DEF Ordered
  <2>4. find_dir_entry(1, <<f>>) = find_entry(1, f)
    <3> DEFINE first == find_entry(1, f)
               step(g, k) == IF k = 1 THEN find_entry(1, <<f>>[1])
                             ELSE IF g[k - 1] = 0 THEN 0 ELSE find_entry(g[k - 1], <<f>>[k])
               ret == CHOOSE g : g = [k \in 1 .. Len(<<f>>) |-> step(g, k)]
    <3>1. find_dir_entry(1, <<f>>) = ret[Len(<<f>>)]
      BY DEF find_dir_entry
    <3>2. Len(<<f>>) = 1 /\ <<f>>[1] = f /\ 1 .. 1 = {1}
      OBVIOUS
    <3>3. PICK g : g = [k \in 1 .. Len(<<f>>) |-> first]
      OBVIOUS
    <3>4. \A h : \A k \in 1 .. Len(<<f>>) : step(h, k) = first
      BY <3>2
    <3> HIDE DEF step, first
    <3>5. g = [k \in 1 .. Len(<<f>>) |-> step(g, k)]
      BY <3>3, <3>4
    <3>6. ret = [k \in 1 .. Len(<<f>>) |-> step(ret, k)]
      BY <3>5
    <3> HIDE DEF ret
    <3>7. ret[1] = step(ret, 1)
      BY <3>2, <3>6
    <3> QED
      BY <3>1, <3>2, <3>4, <3>7 DEF first
  <2>5. CASE \E k \in 1 .. Len(dirs) : dirs[k] = f
    <3> DEFINE T == {k \in 1 .. Len(dirs) : dirs[k] = f}
    <3>1. T \in SUBSET Nat /\ T # {}
      BY <2>5
    <3>2. PICK k \in T : \A j \in T : k <= j
      <4> HIDE DEF T
      <4> QED
        BY <3>1, LeastFacts
    <3>3. k \in 1 .. Len(dirs) /\ dirs[k] = f /\ \A j \in 1 .. k - 1 : dirs[j] # f
      BY <2>2, <3>2
    <3>4. dirs[find_entry(1, f)] = f
      BY <2>5, <3>3 DEF find_entry
    <3> QED
      BY <2>3, <2>4, <2>5, <3>4
  <2>6. CASE ~ \E k \in 1 .. Len(dirs) : dirs[k] = f
    <3>1. find_entry(1, f) = 0
      BY <2>6 DEF find_entry
    <3> QED
      BY <2>3, <2>4, <2>6, <3>1
  <2> QED
    BY <2>5, <2>6
<1> QED
  BY <1>1, FileAlways, PTL

\* Of a file of the root directory read_file returns exactly the bytes that were asked
\* for, wherever the piece begins and ends and however the clusters lie on the disk (read_file,
\* get_offest_cluster, read_one_cluster, read_cluster_chain): for clusters of any
\* size and files of any length.
THEOREM FilesReadExactly == FatSpec => []ReadsExactly
<1>1. ASSUME FileInv PROVE ReadsExactly
  BY <1>1 DEF FileInv, LastRead, ReadsExactly, Bytes
<1> QED
  BY <1>1, FileAlways, PTL
=============================================================================
