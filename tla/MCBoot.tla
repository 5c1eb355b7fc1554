------------------------------- MODULE MCBoot -------------------------------
(***************************************************************************)
(* Boot on machines of every size around a limit of the code, switched on  *)
(* at one moment; and on one machine switched on just before the end of a  *)
(* minute, a day, every February and every year of the century the code    *)
(* knows, and every month of three years.                                  *)
(***************************************************************************)
EXTENDS Boot

ARDS(high, base, len, type) == [high |-> high, base |-> base, len |-> len, type |-> type]

PC(top, more) ==   \* 640 KB, the hole, and memory from 1 MB to top
  {ARDS(0, 0, 159, 1), ARDS(0, 160, 96, 2), ARDS(0, 256, top - 256, 1),
   ARDS(0, 2^20 - 64, 64, 2)} \cup more

Tops == {300, 2560, 2560 + 512, 2560 + 513, 2737, 3072, 3073, 4 * 512 + 1025,
         16896, 16897, 20000, 32768, 2^19 - 1, 2^19, 786432, 2^20 - 64}

Date(y, m, d) == [year |-> y, month |-> m, day |-> d]
MidYear == [date |-> Date(2017, 7, 1), sec |-> 43199]

Rams ==
  {PC(top, {}) : top \in Tops}
  \cup {PC(32768, {ARDS(1, 0, len, 1)}) : len \in {100, 2^18, 2^20 - 1}}

MonthEnds ==
  {Date(y, m, month_days(y)[m]) :
     <<y, m>> \in ((2000..2099) \X {2, 12}) \cup ({2000, 2017, 2024} \X (1..12))}
     \ {Date(2099, 12, 31)}

MCMachines ==
  {[ram |-> r, date |-> MidYear.date, sec |-> MidYear.sec] : r \in Rams}
  \cup {[ram |-> PC(32768, {}), date |-> d, sec |-> s] :
          d \in MonthEnds, s \in {86399, 86398}}

MCChildren == {9, 10, 36}
=============================================================================
