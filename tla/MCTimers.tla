------------------------------ MODULE MCTimers ------------------------------
(* Timers on small intervals.                                                *)
EXTENDS Timers

\* Like the 39 intervals of generate(): increasing, then once smaller than the one before
\* (3 seconds after 7000 milliseconds), with two that are equal (5000 ms and 5 s).
MCDurations == <<1, 3, 4, 2, 3>>

=============================================================================
