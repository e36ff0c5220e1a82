---------------------------- MODULE MCTcpClient ----------------------------
(* Both pollers; the client used by its loop's thread or by another one. *)
EXTENDS TcpClient

Use(poll, caller, ops, retry, hold) ==
  [poll |-> poll, caller |-> caller, ops |-> ops, retry |-> retry, hold |-> hold]

Methods == {"Connect", "Disconnect", "Stop"}

MCUses ==
  {Use(poll, "loop", Methods \cup {"Destroy"}, retry, hold) :
     poll \in BOOLEAN, retry \in BOOLEAN, hold \in BOOLEAN}
  \cup {Use(FALSE, "loop", Ops, retry, FALSE) : retry \in BOOLEAN}
  \cup {Use(poll, "other", Methods, TRUE, FALSE) : poll \in BOOLEAN}
=============================================================================
