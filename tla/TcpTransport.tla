---------------------------- MODULE TcpTransport ------------------------------
(***************************************************************************)
(* The client's TCP transport, src/src/transport/tcp_transport.cc, with    *)
(* the server it talks to (TcpServer): a bounded pool of sockets to one    *)
(* node, dial backoff, and one retry when a pooled socket turns out dead.  *)
(***************************************************************************)
EXTENDS TcpServer, FiniteSetsExt

CONSTANTS TcpCallers,
          MaxConnections, MinConnections,  \* EndpointPoolOptions
          IdleTimeout, BackoffBase, BackoffMax

ASSUME TcpAssumption ==
    /\ IsFiniteSet(Sockets) /\ 0 \notin Sockets
    /\ MaxConnections \in Nat

VARIABLES pool,     \* NodePool: sockets, dials in progress, backoff
          idleFor,  \* how long each pooled socket has been idle
          tcp,      \* what each caller is doing
          tcpCalls  \* calls so far

connPoolVars == <<pool, idleFor, tcp, tcpCalls>>
tcpVars  == <<tcpServerVars, pool, idleFor, tcp, tcpCalls>>

IdleTcp == [pc |-> "idle", sock |-> 0, reused |-> FALSE, attempt |-> 0, call |-> 0,
            late |-> FALSE]

TcpInit ==
    /\ TcpServerInit
    /\ pool = [sockets |-> {}, creating |-> 0, streak |-> 0, backoff |-> 0]
    /\ idleFor = [s \in Sockets |-> 0]
    /\ tcp = [t \in TcpCallers |-> IdleTcp]
    /\ tcpCalls = 0

Busy(s) == \E t \in TcpCallers : tcp[t].sock = s
Idles   == {s \in pool.sockets : ~Busy(s)}

(* notify_all                                                              *)
Woken(ops) == [t \in TcpCallers |->
    IF ops[t].pc = "wait" THEN [ops[t] EXCEPT !.pc = "acquire"] ELSE ops[t]]

RoundTrip(t) ==
    /\ tcp[t].pc = "idle"
    /\ tcpCalls < link.calls
    /\ tcpCalls' = tcpCalls + 1
    /\ tcp' = [tcp EXCEPT ![t] =
          [IdleTcp EXCEPT !.pc = "acquire", !.attempt = 1, !.call = tcpCalls + 1]]
    /\ UNCHANGED <<tcpServerVars, pool, idleFor>>

(***************************************************************************)
(* Acquire, under the lock: retire what has been idle too long; take an    *)
(* idle socket; else dial within the limits; else give up or wait.         *)
(***************************************************************************)
RetireIdle(retired) ==
    LET old == {s \in Idles : idleFor[s] >= IdleTimeout}
        spare == Cardinality(pool.sockets) - MinConnections
    IN  /\ retired \subseteq old
        /\ Cardinality(retired) = Min({Cardinality(old), Max({spare, 0})})

ClosedByClient(gone) ==
    [s \in Sockets |-> IF s \in gone THEN [sock[s] EXCEPT !.client = "closed", !.down = <<>>]
                       ELSE sock[s]]

Acquire(t, retired) ==
    LET rest == pool.sockets \ retired
        idle == Idles \ retired
        dial == Cardinality(rest) + pool.creating < MaxConnections /\ pool.backoff = 0
    IN  /\ tcp[t].pc = "acquire"
        /\ RetireIdle(retired)
        /\ sock' = ClosedByClient(retired)
        /\ \/ \E s \in idle :
                 /\ tcp' = [tcp EXCEPT ![t].pc = "send", ![t].sock = s, ![t].reused = TRUE,
                                       ![t].late = FALSE]
                 /\ pool' = [pool EXCEPT !.sockets = rest]
           \/ /\ idle = {} /\ dial
              /\ tcp' = [tcp EXCEPT ![t].pc = "dial"]
              /\ pool' = [pool EXCEPT !.sockets = rest, !.creating = @ + 1]
           \/ /\ idle = {} /\ ~dial
              /\ tcp' = IF (rest = {} /\ pool.backoff > 0) \/ tcp[t].late
                        THEN [tcp EXCEPT ![t] = IdleTcp]
                        ELSE [tcp EXCEPT ![t].pc = "wait"]
              /\ pool' = [pool EXCEPT !.sockets = rest]
        /\ UNCHANGED <<link, listening, tcpAcceptor, tcpStopper, handlers, connFds, tcpFaults,
                       tcpStops, idleFor, tcpCalls>>

(* The deadline of a waiting call; it looks at the pool a last time.       *)
AcquireTimesOut(t) ==
    /\ tcp[t].pc = "wait"
    /\ tcp' = [tcp EXCEPT ![t].pc = "acquire", ![t].late = TRUE]
    /\ UNCHANGED <<tcpServerVars, pool, idleFor, tcpCalls>>

ApplyBackoff ==
    [pool EXCEPT !.streak = Min({@ + 1, BackoffMax}),
                 !.backoff = Min({BackoffBase * 2 ^ pool.streak, BackoffMax})]

FreshSockets ==
    {s \in Sockets \ handlers : sock[s].client = "closed" /\ sock[s].stage = "closed"}

DialSucceeds(t, s) ==
    /\ tcp[t].pc = "dial"
    /\ listening
    /\ s \in FreshSockets /\ s = Min(FreshSockets)
    /\ sock' = [sock EXCEPT ![s] = [NoSocket EXCEPT !.client = "open", !.stage = "backlog"]]
    /\ pool' = [sockets |-> pool.sockets \union {s}, creating |-> pool.creating - 1,
                streak |-> 0, backoff |-> 0]
    /\ idleFor' = [idleFor EXCEPT ![s] = 0]
    /\ tcp' = Woken([tcp EXCEPT ![t].pc = "send", ![t].sock = s, ![t].reused = FALSE,
                                ![t].late = FALSE])
    /\ UNCHANGED <<link, listening, tcpAcceptor, tcpStopper, handlers, connFds, tcpFaults,
                   tcpStops, tcpCalls>>

ConnectFails(t) ==
    /\ tcp[t].pc = "dial"
    /\ IF listening THEN TcpFault ELSE NoFault
    /\ pool' = [ApplyBackoff EXCEPT !.creating = @ - 1]
    /\ tcp' = Woken(IF pool.sockets = {} THEN [tcp EXCEPT ![t] = IdleTcp]
                                         ELSE [tcp EXCEPT ![t].pc = "acquire"])
    /\ UNCHANGED <<link, sock, listening, tcpAcceptor, tcpStopper, handlers, connFds,
                   tcpStops, idleFor, tcpCalls>>

(***************************************************************************)
(* OneShot and Complete.  A socket that failed in any way is closed, so    *)
(* the answer to a call that gave up is never read by a later call.        *)
(***************************************************************************)
SendRequest(t) ==
    LET s == tcp[t].sock
    IN  /\ tcp[t].pc = "send"
        /\ sock' = IF sock[s].stage = "closed" THEN sock
                   ELSE [sock EXCEPT ![s].up = Append(@, tcp[t].call)]
        /\ tcp' = [tcp EXCEPT ![t].pc = "recv"]
        /\ UNCHANGED <<link, listening, tcpAcceptor, tcpStopper, handlers, connFds, tcpFaults,
                       tcpStops, pool, idleFor, tcpCalls>>

CompleteHealthy(t) ==
    LET s == tcp[t].sock
    IN  /\ tcp[t].pc = "recv"
        /\ sock[s].down # <<>>
        /\ sock' = [sock EXCEPT ![s].down = Tail(@)]
        /\ pool' = [pool EXCEPT !.streak = 0, !.backoff = 0]
        /\ idleFor' = [idleFor EXCEPT ![s] = 0]
        /\ tcp' = Woken([tcp EXCEPT ![t] = IdleTcp])
        /\ UNCHANGED <<link, listening, tcpAcceptor, tcpStopper, handlers, connFds, tcpFaults,
                       tcpStops, tcpCalls>>

OneShotFails(s) ==
    \/ sock[s].stage = "closed" /\ sock[s].down = <<>> /\ NoFault
    \/ TcpFault

RetriedOrFailed(t) ==
    IF tcp[t].reused /\ tcp[t].attempt = 1
    THEN [tcp EXCEPT ![t].pc = "acquire", ![t].sock = 0, ![t].attempt = 2]
    ELSE [tcp EXCEPT ![t] = IdleTcp]

\* Mutant: a socket whose exchange failed stays in the pool.
KeepsFailed(t) ==
    LET s == tcp[t].sock
    IN  /\ tcp[t].pc = "recv"
        /\ OneShotFails(s)
        /\ tcp' = Woken(RetriedOrFailed(t))
        /\ idleFor' = [idleFor EXCEPT ![s] = 0]
        /\ UNCHANGED <<link, sock, pool, listening, tcpAcceptor, tcpStopper, handlers, connFds,
                       tcpStops, tcpCalls>>

CompleteFailed(t) ==
    LET s == tcp[t].sock
    IN  /\ tcp[t].pc = "recv"
        /\ OneShotFails(s)
        /\ sock' = ClosedByClient({s})
        /\ pool' = [(IF tcp[t].reused THEN pool ELSE ApplyBackoff)
                       EXCEPT !.sockets = @ \ {s}]
        /\ tcp' = Woken(RetriedOrFailed(t))
        /\ UNCHANGED <<link, listening, tcpAcceptor, tcpStopper, handlers, connFds, tcpStops,
                       idleFor, tcpCalls>>

(* Time passes: sockets grow idle, the backoff runs out and wakes waiters. *)
TcpTick ==
    /\ pool.backoff > 0 \/ \E s \in Idles : idleFor[s] < IdleTimeout
    /\ pool' = [pool EXCEPT !.backoff = Max({@ - 1, 0})]
    /\ idleFor' = [s \in Sockets |-> IF s \in Idles THEN Min({idleFor[s] + 1, IdleTimeout})
                                     ELSE idleFor[s]]
    /\ tcp' = IF pool.backoff = 1 THEN Woken(tcp) ELSE tcp
    /\ UNCHANGED <<tcpServerVars, tcpCalls>>

TcpCaller(t) ==
    \/ \E r \in SUBSET pool.sockets : Acquire(t, r)
    \/ AcquireTimesOut(t) \/ ConnectFails(t)
    \/ \E s \in Sockets : DialSucceeds(t, s)
    \/ SendRequest(t) \/ CompleteHealthy(t) \/ CompleteFailed(t)

TcpNext ==
    \/ TcpServerNext /\ UNCHANGED connPoolVars
    \/ \E t \in TcpCallers : RoundTrip(t) \/ TcpCaller(t)
    \/ TcpTick

\* The steps that a thread takes without waiting for a person or for time.
TcpRuns ==
    \/ /\ \/ \E s \in Sockets : TcpHandler(s) \/ AcceptSocket(s)
          \/ RegisterSocket \/ AcceptEnds \/ ShutConnections \/ JoinHandlers
       /\ UNCHANGED connPoolVars
    \/ \E t \in TcpCallers : TcpCaller(t)

TcpSpec == TcpInit /\ [][TcpNext]_tcpVars

(***************************************************************************)
(* A caller reads the answer to its own request, never one that a call     *)
(* before it on the same socket gave up waiting for (the io timeout races  *)
(* a slow server), and no two callers share a socket; sockets and dials    *)
(* together stay within the pool's maximum.                                *)
(***************************************************************************)
AnswersAreOwn ==
    /\ \A t \in TcpCallers : tcp[t].pc = "recv" =>
          LET s == tcp[t].sock
          IN  /\ \A i \in DOMAIN sock[s].down : sock[s].down[i] = tcp[t].call
              /\ \A u \in TcpCallers \ {t} : tcp[u].sock # s
    /\ Cardinality(pool.sockets) + pool.creating <= MaxConnections

(***************************************************************************)
(* Nobody waits for nobody: while a call or a Stop is under way, some      *)
(* thread can take a step.  Stale sockets, a full pool, backoff and a      *)
(* server that stops under a call end in an answer or an error, and Stop   *)
(* wakes the reads of all the handlers it then joins, although idle        *)
(* clients keep their connections open.                                    *)
(***************************************************************************)
TcpIsNeverStuck ==
    (\E t \in TcpCallers : tcp[t].pc # "idle") \/ tcpStopper \notin {"idle", "stopped"}
        => ENABLED TcpRuns

(***************************************************************************)
(* TCP under timeouts, stale sockets and a stopping server: answers are    *)
(* never mixed up, a server that stops drains (StoppedIsDrained), and      *)
(* nobody is left waiting on either side.                                  *)
(***************************************************************************)
TcpIsSound == AnswersAreOwn /\ StoppedIsDrained /\ TcpIsNeverStuck
=============================================================================
