----------------------------- MODULE AcceptLoop -----------------------------
(***************************************************************************)
(* The accept loop of the servers: `serve_listener_with_shutdown`          *)
(* (grpc-server/src/server.rs) over TCP, with or without TLS, and          *)
(* `run_accept_loop` (grpc-server/src/h3_server.rs) over QUIC, with the    *)
(* task each connection is served in, the semaphore that limits their      *)
(* number and the shutdown signal.                                         *)
(*                                                                         *)
(* The loop is one task: a `select!` of accept and the signal, whose       *)
(* accept arm awaits a permit before it spawns the connection's task.      *)
(* While it awaits, the signal is not polled.  A connection's task owns    *)
(* its permit, from the handshake on, and drops it when it ends.           *)
(***************************************************************************)
EXTENDS Integers, Sequences, FiniteSets

CONSTANTS
    Conn,           \* the connections peers may open, each once
    Stream,         \* the requests a connection may carry
    Limit,          \* concurrency_limit
    Transports,     \* the transports served, some of "tcp", "tls" and "h3"
    NoConn          \* not a connection

ASSUME LimitAssumption == Limit \in Nat \ {0}
ASSUME ConnAssumption == IsFiniteSet(Conn) /\ NoConn \notin Conn
ASSUME TransportAssumption == Transports \subseteq {"tcp", "tls", "h3"}

VARIABLES
    transport,  \* what this server is served over; never changes
    loop,       \* "select", "acquire" (awaiting a permit), "stopped" (serve
                \* returned Ok) or "failed" (it returned an error)
    signal,     \* "pending" or "fired"
    permits,    \* what the semaphore has left
    backlog,    \* connections the listener has and the loop has not accepted
    held,       \* the connection accepted while no permit was free, or NoConn
    conn,       \* where each connection is
    rpc         \* where each request of each connection is

vars == <<transport, loop, signal, permits, backlog, held, conn, rpc>>

ConnState == {"new", "queued", "held", "handshake", "serving", "closed"}

(* An "orphaned" request has lost its connection but its handler runs on.  *)
RpcState == {"none", "running", "answered", "orphaned", "aborted"}

TypeOK ==
    /\ transport \in Transports
    /\ loop \in {"select", "acquire", "stopped", "failed"}
    /\ signal \in {"pending", "fired"}
    /\ permits \in 0..Limit
    /\ backlog \in Seq(Conn)
    /\ held \in Conn \cup {NoConn}
    /\ conn \in [Conn -> ConnState]
    /\ rpc \in [Conn -> [Stream -> RpcState]]

Init ==
    /\ transport \in Transports
    /\ loop = "select"
    /\ signal = "pending"
    /\ permits = Limit
    /\ backlog = <<>>
    /\ held = NoConn
    /\ conn = [c \in Conn |-> "new"]
    /\ rpc = [c \in Conn |-> [s \in Stream |-> "none"]]

Ended == loop \in {"stopped", "failed"}

(* Without TLS a spawned task serves at once; otherwise it handshakes.     *)
Spawned == IF transport = "tcp" THEN "serving" ELSE "handshake"

(* What becomes of the requests of a connection that is gone.  hyper drops *)
(* their handlers (external); an h3 request has a task of its own, which   *)
(* goes on until it fails to write to the stream.                          *)
Abort(requests) ==
    LET lost == IF transport = "h3" THEN "orphaned" ELSE "aborted"
    IN  [s \in Stream |-> IF requests[s] = "running" THEN lost ELSE requests[s]]
-----------------------------------------------------------------------------
(* A peer connects: the listener has it until the loop accepts it.         *)
Connect(c) ==
    /\ ~Ended
    /\ conn[c] = "new"
    /\ conn' = [conn EXCEPT ![c] = "queued"]
    /\ backlog' = Append(backlog, c)
    /\ UNCHANGED <<transport, loop, signal, permits, held, rpc>>

(* The caller's shutdown future completes.                                 *)
SignalFires ==
    /\ signal = "pending"
    /\ signal' = "fired"
    /\ UNCHANGED <<transport, loop, permits, backlog, held, conn, rpc>>

Ready == loop = "select" /\ backlog # <<>>

(* Accept, and try_acquire succeeds.                                       *)
AcceptWithPermit ==
    /\ Ready
    /\ permits > 0
    /\ permits' = permits - 1
    /\ conn' = [conn EXCEPT ![Head(backlog)] = Spawned]
    /\ backlog' = Tail(backlog)
    /\ UNCHANGED <<transport, loop, signal, held, rpc>>

(* Accept, and try_acquire fails: the connection is held while the loop    *)
(* awaits a permit.                                                        *)
AcceptAtLimit ==
    /\ Ready
    /\ permits = 0
    /\ loop' = "acquire"
    /\ held' = Head(backlog)
    /\ conn' = [conn EXCEPT ![Head(backlog)] = "held"]
    /\ backlog' = Tail(backlog)
    /\ UNCHANGED <<transport, signal, permits, rpc>>

(* acquire_owned() is given a permit.                                      *)
Acquire ==
    /\ loop = "acquire"
    /\ permits > 0
    /\ permits' = permits - 1
    /\ loop' = "select"
    /\ held' = NoConn
    /\ conn' = [conn EXCEPT ![held] = Spawned]
    /\ UNCHANGED <<transport, signal, backlog, rpc>>

(* Mutant of Leave: what the listener had queued is not accounted for.     *)
LeaveQueued(how) ==
    /\ loop' = how
    /\ backlog' = <<>>
    /\ rpc' = IF transport = "h3" THEN [c \in Conn |-> Abort(rpc[c])] ELSE rpc
    /\ UNCHANGED <<transport, signal, permits, held, conn>>

(* The end of serve: the listener is dropped and with it what it had       *)
(* queued.  Over QUIC the endpoint is closed too, which closes every       *)
(* connection under the tasks that serve them.                             *)
Leave(how) ==
    /\ loop' = how
    /\ backlog' = <<>>
    /\ conn' = [c \in Conn |-> IF conn[c] = "queued" THEN "closed" ELSE conn[c]]
    /\ rpc' = IF transport = "h3" THEN [c \in Conn |-> Abort(rpc[c])] ELSE rpc
    /\ UNCHANGED <<transport, signal, permits, held>>

(* The select! takes the signal's arm.                                     *)
Shutdown ==
    /\ loop = "select"
    /\ signal = "fired"
    /\ Leave("stopped")

(* accept() or set_nodelay() returns an error, which `?` returns; a QUIC   *)
(* endpoint that was closed by its owner yields None instead.              *)
AcceptError ==
    /\ loop = "select"
    /\ Leave(IF transport = "h3" THEN "stopped" ELSE "failed")
-----------------------------------------------------------------------------
(* The task of connection c.                                               *)
HandshakeDone(c) ==
    /\ conn[c] = "handshake"
    /\ ~(transport = "h3" /\ Ended)
    /\ conn' = [conn EXCEPT ![c] = "serving"]
    /\ UNCHANGED <<transport, loop, signal, permits, backlog, held, rpc>>

(* Mutant of HandshakeFails: the permit is not given back.                 *)
HandshakeLeaks(c) ==
    /\ conn[c] = "handshake"
    /\ conn' = [conn EXCEPT ![c] = "closed"]
    /\ UNCHANGED <<transport, loop, signal, permits, backlog, held, rpc>>

HandshakeFails(c) ==
    /\ conn[c] = "handshake"
    /\ conn' = [conn EXCEPT ![c] = "closed"]
    /\ permits' = permits + 1
    /\ UNCHANGED <<transport, loop, signal, backlog, held, rpc>>

(* Mutant of Close: the requests of the connection are forgotten.          *)
CloseForgets(c) ==
    /\ conn[c] = "serving"
    /\ conn' = [conn EXCEPT ![c] = "closed"]
    /\ permits' = permits + 1
    /\ UNCHANGED <<transport, loop, signal, backlog, held, rpc>>

(* serve_connection returns: the peer has closed the connection or it      *)
(* failed.  What was running on it ends with it.                           *)
Close(c) ==
    /\ conn[c] = "serving"
    /\ conn' = [conn EXCEPT ![c] = "closed"]
    /\ permits' = permits + 1
    /\ rpc' = [rpc EXCEPT ![c] = Abort(rpc[c])]
    /\ UNCHANGED <<transport, loop, signal, backlog, held>>

Request(c, s) ==
    /\ conn[c] = "serving"
    /\ ~(transport = "h3" /\ Ended)
    /\ rpc[c][s] = "none"
    /\ rpc' = [rpc EXCEPT ![c][s] = "running"]
    /\ UNCHANGED <<transport, loop, signal, permits, backlog, held, conn>>

Answer(c, s) ==
    /\ rpc[c][s] = "running"
    /\ rpc' = [rpc EXCEPT ![c][s] = "answered"]
    /\ UNCHANGED <<transport, loop, signal, permits, backlog, held, conn>>

(* The handler of an orphaned request returns, or its timeout elapses.     *)
HandlerEnds(c, s) ==
    /\ rpc[c][s] = "orphaned"
    /\ rpc' = [rpc EXCEPT ![c][s] = "aborted"]
    /\ UNCHANGED <<transport, loop, signal, permits, backlog, held, conn>>

Loop == AcceptWithPermit \/ AcceptAtLimit \/ Acquire \/ Shutdown
Task(c) ==
    \/ HandshakeDone(c) \/ HandshakeFails(c) \/ Close(c)
    \/ \E s \in Stream : Request(c, s) \/ Answer(c, s) \/ HandlerEnds(c, s)

Next ==
    \/ Loop
    \/ AcceptError
    \/ SignalFires
    \/ \E c \in Conn : Connect(c) \/ Task(c)

Spec == Init /\ [][Next]_vars

(* The runtime polls the loop's task when it is woken; `select!` polls its *)
(* arms in random order, so that neither is passed over for ever.          *)
LoopFairness ==
    /\ WF_vars(AcceptWithPermit \/ AcceptAtLimit)
    /\ WF_vars(Acquire)
    /\ SF_vars(Shutdown)
LoopSpec == Spec /\ LoopFairness

-----------------------------------------------------------------------------
Owners == { c \in Conn : conn[c] \in {"handshake", "serving"} }

(***************************************************************************)
(* No permit is lost or made up: each is in the semaphore or owned by one  *)
(* connection's task (server.rs:301-349).  So never more than              *)
(* concurrency_limit connections are served.                               *)
(***************************************************************************)
PermitsConserved == permits + Cardinality(Owners) = Limit

(***************************************************************************)
(* The loop accepts at most one connection beyond the limit, and it is the *)
(* only one between the listener and its task (server.rs:301-312).         *)
(***************************************************************************)
OneHeld ==
    { c \in Conn : conn[c] = "held" } = IF loop = "acquire" THEN {held} ELSE {}

(***************************************************************************)
(* The listener holds exactly the connections that are queued, each once,  *)
(* and none once serve has returned (server.rs:358).                       *)
(***************************************************************************)
BacklogExact ==
    /\ { backlog[i] : i \in DOMAIN backlog } = { c \in Conn : conn[c] = "queued" }
    /\ \A i, j \in DOMAIN backlog : backlog[i] = backlog[j] => i = j
    /\ Ended => backlog = <<>>

(***************************************************************************)
(* A request that can still be answered is on a connection that is being   *)
(* served, and so under a permit (server.rs:410, h3_server.rs:186).  Only  *)
(* over QUIC may a handler run without one.                                *)
(***************************************************************************)
RpcUnderPermit ==
    \A c \in Conn, s \in Stream :
        /\ rpc[c][s] = "running" =>
              conn[c] = "serving" /\ ~(transport = "h3" /\ Ended)
        /\ rpc[c][s] = "orphaned" => transport = "h3"

(* Every permit is with a task.  The code sets a timeout neither on a      *)
(* handshake nor on a connection, so that peers may keep it so for ever.   *)
Full == Cardinality(Owners) = Limit

(***************************************************************************)
(* Nobody waits for a permit that is free, and no connection is forgotten: *)
(* each that the listener has is accepted or refused in the end, unless as *)
(* many peers as there are permits stay for ever (server.rs:291-356).      *)
(***************************************************************************)
EveryConnectionHandled ==
    \A c \in Conn : <>[](conn[c] \in {"queued", "held"} => Full)

(***************************************************************************)
(* All that can keep the loop from hearing the shutdown signal is its wait *)
(* for a permit inside the accept arm (server.rs:305, 351), and that lasts *)
(* for ever only if as many peers as there are permits stay for ever.      *)
(***************************************************************************)
ShutdownHeard == <>[](signal = "fired" => Ended \/ (loop = "acquire" /\ Full))

(***************************************************************************)
(* The loop of serve never stops working: connections and the signal are   *)
(* kept waiting only while peers hold every permit (server.rs:291-356).    *)
(***************************************************************************)
LoopGoesOn == EveryConnectionHandled /\ ShutdownHeard
=============================================================================
