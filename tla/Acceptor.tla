------------------------------ MODULE Acceptor ------------------------------
(***************************************************************************)
(* net/acceptor.cc, and accept in net/socket.cc and net/socket_ops.cc.     *)
(*                                                                         *)
(* An acceptor is a record; `free` counts the file descriptors that the    *)
(* process may still open and `backlog` the connections that wait in the   *)
(* kernel.  idle_fd_ is kept open so that, when no descriptor is left, one *)
(* can be closed to accept and drop the connection that waits: that takes  *)
(* four calls, between which other threads open and close files.           *)
(***************************************************************************)
EXTENDS Naturals

\* The constructor, with n descriptors left to the process.
NewAcceptor(n) ==
  [is_listening_ |-> FALSE, idle_fd_ |-> TRUE,       \* TRUE: >= 0, open
   backlog |-> 0, free |-> n, opened |-> 0, stolen |-> FALSE]

Listen(a) == [a EXCEPT !.is_listening_ = TRUE]

Destroy(a) ==
  [a EXCEPT !.is_listening_ = FALSE, !.idle_fd_ = FALSE, !.backlog = 0,
            !.free = @ + (IF a.idle_fd_ THEN 1 ELSE 0)]

\* Poll reports the listening socket.
Readable(a) == a.is_listening_ /\ a.backlog > 0

\* accept4: the results it can have.  ENFILE stands for the errors that are fatal
\* in socket::Accept, ECONNABORTED for those after which nothing is done.
AcceptResults(a) ==
  (IF a.free > 0 THEN {"connfd"} ELSE {"EMFILE"}) \cup {"ECONNABORTED", "ENFILE"}

Accept(a, result) ==
  [a EXCEPT !.backlog = IF result \in {"connfd", "ECONNABORTED"} THEN @ - 1 ELSE @,
            !.free = IF result = "connfd" THEN @ - 1 ELSE @]

\* Mutant: idle_fd_ stays open.
CloseIdle_not(a) == a

\* ::close(idle_fd_), of the file and of the connection that was accepted with it.
CloseIdle(a) == [a EXCEPT !.idle_fd_ = FALSE, !.free = @ + (IF a.idle_fd_ THEN 1 ELSE 0)]

\* idle_fd_ = ::accept(...); -1 if another thread has taken the descriptor.
AcceptIdle(a) ==
  IF a.free > 0 /\ a.backlog > 0
    THEN [a EXCEPT !.idle_fd_ = TRUE, !.free = @ - 1, !.backlog = @ - 1]
    ELSE [a EXCEPT !.idle_fd_ = FALSE]

\* idle_fd_ = ::open("/dev/null", ...)
OpenIdle(a) ==
  IF a.free > 0 THEN [a EXCEPT !.idle_fd_ = TRUE, !.free = @ - 1]
  ELSE [a EXCEPT !.idle_fd_ = FALSE]

\* A client connects.
Arrive(a) == [a EXCEPT !.backlog = @ + 1]

\* Another thread opens a file (`borrowed`: with the descriptor of idle_fd_), or closes one.
OtherOpens(a, borrowed) ==
  [a EXCEPT !.free = @ - 1, !.opened = @ + 1, !.stolen = @ \/ borrowed]
OtherCloses(a) == [a EXCEPT !.free = @ + 1, !.opened = @ - 1]
=============================================================================
