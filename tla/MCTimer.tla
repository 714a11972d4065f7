------------------------------ MODULE MCTimer ------------------------------
(* Instances of Timer for TLC. *)
EXTENDS Timer

\* A step of the clock may be shorter or longer than an interval, and a "once"
\* timer may be asked for with an interval of zero.
TimesIntervals == {0, 2, 3}

\* A base time before the clock starts and one in the future.
TimesBaseTimes == {-1, 5}
=============================================================================
