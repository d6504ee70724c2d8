---------------------------- MODULE MCFieldValues ----------------------------
(* FieldValues for TLC: days that can and that cannot be read the other way   *)
(* round, the first hour and the last second of a day, fractions that a       *)
(* datetime column keeps, truncates and carries; zones east and west.         *)
EXTENDS FieldValues

MCOffsets == {0, 7200, -19800}
MCDecimals ==
    [kind : {"decimal"}, sign : {0, 1}, exp : -3..2,
     digits : UNION {[1..n -> {0, 3, 7}] : n \in 1..3}]
MCDurations == {250000, 999999, 1000000, 1500000, -250000, -1500000}
==============================================================================
