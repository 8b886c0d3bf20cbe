------------------------------ MODULE MCDmrIo ------------------------------
(***************************************************************************)
(* Instances of DmrIo for TLC: the registrations of noisebridge's          *)
(* protocols, those of its HTTP server, and every kind of request.         *)
(***************************************************************************)
EXTENDS DmrIo, TLC

CONSTANTS readable, poll, error, slot, stop, accept

Sock == 1           \* the protocol's socket
SIGINT == 2
Client == 2         \* an HTTP client's socket

Reg(k, fd, cb, once) == [kind |-> k, fd |-> fd, cb |-> cb, once |-> once]

Del(k, fd, cb) == [kind |-> k, fd |-> fd, cb |-> cb]

\* repeater.c and homebrew_io.c: two read entries on one socket, a permanent
\* timer, call timers that come and go, and a one-shot signal.
BridgeRegs ==
    {Reg("read", Sock, poll, FALSE), Reg("read", Sock, readable, FALSE),
     Reg("error", Sock, error, FALSE), Reg("timer", Sock, slot, FALSE),
     Reg("signal", SIGINT, stop, TRUE)}

BridgeDels == {Del("timer", Sock, slot), Del("read", Sock, readable),
               Del("error", Sock, error)}

\* http.c: a listening socket, and one-shot entries of a client that both the
\* request handler and the error handler delete.
HttpRegs ==
    {Reg("read", Sock, accept, FALSE), Reg("read", Client, readable, TRUE),
     Reg("error", Client, error, TRUE)}

HttpDels == {Del("read", Client, readable), Del("error", Client, error)}

\* Every kind of request, one-shot and permanent.
AllRegs ==
    {Reg("read", Sock, readable, TRUE), Reg("read", Client, poll, FALSE),
     Reg("write", Sock, poll, TRUE), Reg("error", Sock, error, TRUE),
     Reg("timer", Sock, slot, TRUE), Reg("close", Sock, stop, TRUE),
     Reg("signal", SIGINT, stop, FALSE)}

AllDels == {Del("read", Sock, readable), Del("write", Sock, poll),
            Del("error", Sock, error), Del("timer", Sock, slot)}

LoopRegs == AllRegs \cup BridgeRegs

LoopDels == AllDels \cup BridgeDels

TheFds == {Sock, SIGINT}

Symmetry == Permutations(Id)
=============================================================================
