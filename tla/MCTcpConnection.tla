-------------------------- MODULE MCTcpConnection --------------------------
(* The uses of a connection that TLC explores. *)
EXTENDS TcpConnection

CONSTANTS base, io

Use(loop, loop_ops, caller_ops, dtor, max_calls) ==
  [loop |-> loop, loop_ops |-> loop_ops, caller_ops |-> caller_ops, dtor |-> dtor,
   max_calls |-> max_calls]

\* A server without IO threads; then ones whose connection another thread
\* uses too; and one with IO threads that is destroyed while the connection is up.
MCUses ==
  {Use(base, Ops, {}, TRUE, 3),
   Use(io, {"Send", "Shutdown", "ForceClose"},
       {"Send", "Shutdown", "ForceClose", "ForceCloseWithDelay"}, FALSE, 2),
   Use(io, {}, {"Send", "Shutdown"}, FALSE, 3),
   Use(io, {"Send", "Shutdown", "ForceClose"}, {"Send"}, TRUE, 2)}

\* Only another thread closes.
MCShutdownOnly == {Use(io, {}, {"Shutdown"}, FALSE, 1)}
=============================================================================
