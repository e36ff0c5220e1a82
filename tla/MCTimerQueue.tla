---------------------------- MODULE MCTimerQueue ----------------------------
(* The uses of the timers that TLC explores. *)
EXTENDS TimerQueue

Use(past, delays, intervals, ops, max_created) ==
  [past |-> past, delays |-> delays, intervals |-> intervals, ops |-> ops,
   max_created |-> max_created]

\* Three timers of the loop thread, then two of the loop thread and another one.
MCUses == {Use({0}, {}, {0, 1}, {}, 3),
           Use({}, {0, 1}, {1}, {"Add", "Cancel"}, 2)}
=============================================================================
