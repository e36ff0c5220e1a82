---------------------------- MODULE MCThreadPool ----------------------------
(* A pool with and without a limit, and the two blocking queues. *)
EXTENDS ThreadPool

CONSTANTS p1, p2

MCProducers == {p1, p2}

Use(pool, max, sizes, spawn, ops, tasks) ==
  [pool |-> pool, max |-> max, sizes |-> sizes, spawn |-> spawn, ops |-> ops, tasks |-> tasks]

MCUses == {Use(TRUE, 1, {2}, TRUE, {"Stop"}, 3), Use(TRUE, 2, {1}, FALSE, {"Stop"}, 4),
           Use(TRUE, 1, {1, 2}, FALSE, {"Resize", "Stop"}, 3),
           Use(FALSE, 1, {2}, FALSE, {}, 3), Use(FALSE, 0, {2}, FALSE, {"clear"}, 3)}

\* What the tests do: start, run, stop.
MCTestUses == {Use(TRUE, 0, {2}, FALSE, {"Stop"}, 2)}
=============================================================================
