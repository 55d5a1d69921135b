---------------------------- MODULE MCSignalRun ----------------------------
(***************************************************************************)
(* Three symbols over eight days in months of two, each with one of eight  *)
(* series: full, late, reversed on load, falling, illiquid, with gaps in   *)
(* the adjusted closes, with a day twice, or none.                         *)
(***************************************************************************)
EXTENDS SignalRun

Month(day) == day \div 2

Bar(day, adjusted) ==
    [day |-> day, close |-> IF adjusted = Missing THEN 2 ELSE adjusted + 1,
     adjusted |-> adjusted, volume |-> 2]

Rising(from, factor) == [i \in 1 .. 9 - from |-> Bar(from + i - 1, factor * (from + i - 1))]

Series ==
    { Rising(2, 1),
      Rising(3, 2),
      Reverse(Rising(2, 1)),
      Rising(5, 1),
      [i \in 1 .. 7 |-> Bar(i + 1, 9 - i)],
      [i \in 1 .. 7 |-> [Rising(2, 3)[i] EXCEPT !.volume = IF i > 4 THEN 0 ELSE 2]],
      << Bar(3, 0), Bar(4, 1), Bar(5, Missing), Bar(6, 2), Bar(6, 3), Bar(8, 3) >>,
      <<>> }

SeriesOf == [1 .. 3 -> Series]

Memberships ==
    { [month \in 0 .. 4 |-> {1, 2, 3}],
      [month \in 0 .. 4 |-> IF month < 3 THEN {1, 2} ELSE {2, 3}],
      [month \in 0 .. 4 |-> IF month = 3 THEN {3} ELSE {1, 3}] }
=============================================================================
