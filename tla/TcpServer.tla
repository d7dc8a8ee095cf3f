------------------------------ MODULE TcpServer -------------------------------
(***************************************************************************)
(* The TCP front end of a cache node: AcceptLoop, Handle, the thread of a  *)
(* connection and Stop in src/src/cache/kv_node_server.cc.                 *)
(*                                                                         *)
(* A socket is a pair of byte streams.  A request and a reply are the      *)
(* number of the call they belong to; a frame arrives whole or not at all. *)
(***************************************************************************)
EXTENDS Integers, Sequences, FiniteSets

CONSTANTS Sockets,      \* socket numbers, reused once both ends are closed
          ServerCap,    \* tcp_max_connections_
          Links         \* bounds of a behaviour: [calls, faults, stops, restarts]

VARIABLES link,         \* the bounds of this behaviour
          sock,         \* the state of each socket
          listening,    \* running_
          tcpAcceptor,  \* where the accept loop is
          tcpStopper,   \* where Stop is
          handlers,     \* conns_: connections with a thread to join
          connFds,      \* conn_fds_
          tcpFaults,    \* timeouts and failed dials so far
          tcpStops      \* stops so far

tcpServerVars == <<link, sock, listening, tcpAcceptor, tcpStopper, handlers, connFds,
                   tcpFaults, tcpStops>>

NoSocket  == [client |-> "closed", stage |-> "closed", up |-> <<>>, down |-> <<>>,
              request |-> 0, shut |-> FALSE]
Accepting == [pc |-> "accept", taken |-> 0]

TcpServerInit ==
    /\ link \in Links
    /\ sock = [s \in Sockets |-> NoSocket]
    /\ listening = TRUE
    /\ tcpAcceptor = Accepting
    /\ tcpStopper = "idle"
    /\ handlers = {} /\ connFds = {}
    /\ tcpFaults = 0 /\ tcpStops = 0

TcpFault == tcpFaults < link.faults /\ tcpFaults' = tcpFaults + 1
NoFault  == UNCHANGED tcpFaults

(* Closing the server's end: what the client did not read yet stays.       *)
ServerCloses(s) == [sock EXCEPT ![s] =
    [NoSocket EXCEPT !.client = sock[s].client, !.down = sock[s].down]]

(***************************************************************************)
(* AcceptLoop.  A connection taken from the backlog is registered under    *)
(* the lock, unless the server stops or is full.                           *)
(***************************************************************************)
AcceptSocket(s) ==
    /\ listening
    /\ tcpAcceptor.pc = "accept"
    /\ sock[s].stage = "backlog"
    /\ sock' = [sock EXCEPT ![s].stage = "accepted"]
    /\ tcpAcceptor' = [pc |-> "register", taken |-> s]
    /\ UNCHANGED <<link, listening, tcpStopper, handlers, connFds, tcpFaults, tcpStops>>

Unfinished == {s \in handlers : sock[s].stage # "closed"}

RegisterSocket ==
    LET s == tcpAcceptor.taken
    IN  /\ tcpAcceptor.pc = "register"
        /\ IF ~listening \/ Cardinality(Unfinished) >= ServerCap
           THEN sock' = ServerCloses(s) /\ UNCHANGED connFds
           ELSE sock' = [sock EXCEPT ![s].stage = "loop"] /\ connFds' = connFds \union {s}
        /\ handlers' = CASE ~listening -> handlers
                         [] listening /\ Cardinality(Unfinished) >= ServerCap -> Unfinished
                         [] OTHER -> Unfinished \union {s}
        /\ tcpAcceptor' = IF listening THEN Accepting ELSE [Accepting EXCEPT !.pc = "ended"]
        /\ UNCHANGED <<link, listening, tcpStopper, tcpFaults, tcpStops>>

(* accept() fails on the shut down listener.                               *)
AcceptEnds ==
    /\ ~listening
    /\ tcpAcceptor.pc = "accept"
    /\ tcpAcceptor' = [tcpAcceptor EXCEPT !.pc = "ended"]
    /\ UNCHANGED <<link, sock, listening, tcpStopper, handlers, connFds, tcpFaults, tcpStops>>

(***************************************************************************)
(* Handle: one request after the other until the peer, a timeout or Stop   *)
(* ends it.  The deadline of the first frame and the socket's timeout are  *)
(* one fault here.                                                         *)
(***************************************************************************)
HandleLoop(s) ==
    /\ sock[s].stage = "loop"
    /\ sock' = [sock EXCEPT ![s].stage = IF listening THEN "read" ELSE "left"]
    /\ UNCHANGED <<link, listening, tcpAcceptor, tcpStopper, handlers, connFds, tcpFaults, tcpStops>>

ReadRequest(s) ==
    /\ sock[s].stage = "read"
    /\ \/ /\ sock[s].up # <<>>
          /\ sock' = [sock EXCEPT ![s].stage = "serve", ![s].request = Head(sock[s].up),
                                  ![s].up = Tail(@)]
          /\ NoFault
       \/ /\ sock[s].up = <<>>
          /\ sock[s].client = "closed" \/ sock[s].shut
          /\ sock' = [sock EXCEPT ![s].stage = "left"]
          /\ NoFault
       \/ /\ sock' = [sock EXCEPT ![s].stage = "left"]
          /\ TcpFault
    /\ UNCHANGED <<link, listening, tcpAcceptor, tcpStopper, handlers, connFds, tcpStops>>

ProcessTcpRequest(s) ==
    /\ sock[s].stage = "serve"
    /\ sock' = [sock EXCEPT ![s].stage = "write"]
    /\ UNCHANGED <<link, listening, tcpAcceptor, tcpStopper, handlers, connFds, tcpFaults, tcpStops>>

WriteReply(s) ==
    /\ sock[s].stage = "write"
    /\ sock' = IF sock[s].client = "closed" \/ sock[s].shut
               THEN [sock EXCEPT ![s].stage = "left", ![s].request = 0]
               ELSE [sock EXCEPT ![s].stage = "loop", ![s].request = 0,
                                 ![s].down = Append(@, sock[s].request)]
    /\ UNCHANGED <<link, listening, tcpAcceptor, tcpStopper, handlers, connFds, tcpFaults, tcpStops>>

(* The thread of the connection: forget the descriptor, then close it.     *)
EraseFd(s) ==
    /\ sock[s].stage = "left"
    /\ connFds' = connFds \ {s}
    /\ sock' = [sock EXCEPT ![s].stage = "erased"]
    /\ UNCHANGED <<link, listening, tcpAcceptor, tcpStopper, handlers, tcpFaults, tcpStops>>

CloseFd(s) ==
    /\ sock[s].stage = "erased"
    /\ sock' = ServerCloses(s)
    /\ UNCHANGED <<link, listening, tcpAcceptor, tcpStopper, handlers, connFds, tcpFaults, tcpStops>>

(***************************************************************************)
(* Stop: shut the listener down, which resets its backlog; wait for the    *)
(* accept loop; then wake and join the handlers.                           *)
(***************************************************************************)
StopListening ==
    /\ listening
    /\ tcpStopper = "idle"
    /\ tcpStops < link.stops
    /\ listening' = FALSE
    /\ sock' = [s \in Sockets |-> IF sock[s].stage = "backlog"
                                  THEN [sock[s] EXCEPT !.stage = "closed", !.up = <<>>]
                                  ELSE sock[s]]
    /\ tcpStopper' = "join accept"
    /\ tcpStops' = tcpStops + 1
    /\ UNCHANGED <<link, tcpAcceptor, handlers, connFds, tcpFaults>>

ShutConnections ==
    /\ tcpStopper = "join accept"
    /\ tcpAcceptor.pc = "ended"
    /\ sock' = [s \in Sockets |-> IF s \in connFds THEN [sock[s] EXCEPT !.shut = TRUE]
                                  ELSE sock[s]]
    /\ tcpStopper' = "join handlers"
    /\ UNCHANGED <<link, listening, tcpAcceptor, handlers, connFds, tcpFaults, tcpStops>>

JoinHandlers ==
    /\ tcpStopper = "join handlers"
    /\ \A s \in handlers : sock[s].stage = "closed"
    /\ handlers' = {}
    /\ tcpStopper' = "stopped"
    /\ UNCHANGED <<link, sock, listening, tcpAcceptor, connFds, tcpFaults, tcpStops>>

(* The next process listens on the same port.                              *)
StartListening ==
    /\ tcpStopper = "stopped"
    /\ link.restarts
    /\ listening' = TRUE
    /\ tcpAcceptor' = Accepting
    /\ tcpStopper' = "idle"
    /\ UNCHANGED <<link, sock, handlers, connFds, tcpFaults, tcpStops>>

TcpHandler(s) ==
    HandleLoop(s) \/ ReadRequest(s) \/ ProcessTcpRequest(s) \/ WriteReply(s)
    \/ EraseFd(s) \/ CloseFd(s)

TcpServerNext ==
    \/ \E s \in Sockets : AcceptSocket(s) \/ TcpHandler(s)
    \/ RegisterSocket \/ AcceptEnds
    \/ StopListening \/ ShutConnections \/ JoinHandlers \/ StartListening

(***************************************************************************)
(* Stop drains: once it has returned, no thread of a connection is left to *)
(* touch the store and every descriptor is closed, whatever connections    *)
(* were being accepted, served or closed when it was called.               *)
(***************************************************************************)
StoppedIsDrained ==
    tcpStopper = "stopped" =>
        /\ handlers = {} /\ connFds = {}
        /\ \A s \in Sockets : sock[s].stage = "closed"
=============================================================================
