---------------------------- MODULE MCCommands ----------------------------
(* Model-checking instance of Commands.                                    *)
EXTENDS Commands

Time(y, mo, d, h, mi, s) ==
  [year |-> y, month |-> mo, day |-> d, hour |-> h, minute |-> mi, second |-> s]

(* Every value of every field, and the carries that change most of them.     *)
StartTimes ==
  {Time(n, (n % 12) + 1, (n % 28) + 1, n % 24, n % 60, (n + 59) % 60) : n \in 0 .. 99}
  \cup {Time(99, 12, 31, 23, 59, 59), Time(24, 2, 28, 23, 59, 59),
        Time(23, 2, 28, 23, 59, 59), Time(25, 6, 30, 23, 59, 59),
        Time(25, 1, 1, 11, 59, 59), Time(25, 1, 1, 12, 59, 59),
        Time(25, 1, 1, 0, 59, 59)}
=============================================================================
