---------------------------- MODULE ServerProofs ----------------------------
(***************************************************************************)
(* Theorems about a server: about `AcceptLoop`, for any number of          *)
(* connections, requests and permits, over every transport, and about      *)
(* `Services`, for any schemas the compilers accept, chains of             *)
(* interceptors, clients, strangers and endpoints.                         *)
(*                                                                         *)
(* The accept loop's invariants, which TLC checks on a small instance, are *)
(* together inductive.  Those of Services rest on three inductive          *)
(* invariants: RoutingInv of registrations and calls, LoadInv of the       *)
(* counter, and WorkInv of the worklist of messages.                       *)
(***************************************************************************)
EXTENDS AcceptLoop, Services, FiniteSetTheorems, WellFoundedInduction, TLAPS

(* The counting of permits needs to know that the connection whose task is *)
(* spawned had none (OneHeld, BacklogExact), and the one whose task ends   *)
(* had one.                                                                *)
IInv ==
    /\ TypeOK
    /\ PermitsConserved
    /\ OneHeld
    /\ BacklogExact
    /\ RpcUnderPermit
-----------------------------------------------------------------------------
(* There are finitely many tasks.                                          *)
LEMMA OwnersFinite ==
    /\ IsFiniteSet(Owners)
    /\ Cardinality(Owners) \in Nat
<1>1. Owners \subseteq Conn
  BY DEF Owners
<1>2. IsFiniteSet(Owners)
  BY <1>1, ConnAssumption, FS_Subset
<1> QED
  BY <1>2, FS_CardinalityType

(* A task is spawned with the permit taken for it.                         *)
LEMMA TaskSpawned ==
    ASSUME TypeOK, PermitsConserved, permits > 0,
           NEW c \in Conn, c \notin Owners,
           conn' = [conn EXCEPT ![c] = Spawned],
           permits' = permits - 1
    PROVE  /\ PermitsConserved'
           /\ permits' \in 0..Limit
           /\ conn' \in [Conn -> ConnState]
<1>1. Spawned \in {"handshake", "serving"}
  BY DEF Spawned
<1>2. conn \in [Conn -> ConnState]
  BY DEF TypeOK
<1>3. conn' \in [Conn -> ConnState]
  BY <1>1, <1>2 DEF ConnState
<1>4. Owners' = Owners \cup {c}
  BY <1>1, <1>2 DEF Owners
<1>5. Cardinality(Owners') = Cardinality(Owners) + 1
  BY <1>4, OwnersFinite, FS_AddElement
<1>6. permits \in 0..Limit /\ Limit \in Nat
  BY LimitAssumption DEF TypeOK
<1>7. PermitsConserved'
  BY <1>5, <1>6, OwnersFinite DEF PermitsConserved
<1>8. permits' \in 0..Limit
  BY <1>6
<1> QED
  BY <1>3, <1>7, <1>8

(* A task that ends gives its permit back.                                 *)
LEMMA TaskEnded ==
    ASSUME TypeOK, PermitsConserved,
           NEW c \in Owners,
           conn' = [conn EXCEPT ![c] = "closed"],
           permits' = permits + 1
    PROVE  /\ PermitsConserved'
           /\ permits' \in 0..Limit
           /\ conn' \in [Conn -> ConnState]
<1>1. c \in Conn
  BY DEF Owners
<1>2. conn \in [Conn -> ConnState]
  BY DEF TypeOK
<1>3. conn' \in [Conn -> ConnState]
  BY <1>1, <1>2 DEF ConnState
<1>4. Owners' = Owners \ {c}
  BY <1>1, <1>2 DEF Owners
<1>5. /\ Cardinality(Owners') = Cardinality(Owners) - 1
      /\ Cardinality(Owners') \in Nat
  BY <1>4, OwnersFinite, FS_RemoveElement, FS_CardinalityType
<1>6. permits + Cardinality(Owners) = Limit /\ permits \in 0..Limit /\ Limit \in Nat
  BY LimitAssumption DEF TypeOK, PermitsConserved
<1>7. permits' + Cardinality(Owners') = Limit /\ permits' \in 0..Limit
  BY <1>5, <1>6, OwnersFinite
<1> QED
  BY <1>3, <1>7 DEF PermitsConserved

(* Steps that move no connection into or out of a task.                    *)
LEMMA SameTasks ==
    ASSUME TypeOK, PermitsConserved,
           conn' \in [Conn -> ConnState],
           \A c \in Conn : conn[c] \in {"handshake", "serving"}
                              <=> conn'[c] \in {"handshake", "serving"},
           UNCHANGED permits
    PROVE  PermitsConserved'
<1>1. Owners' = Owners
  BY DEF Owners
<1> QED
  BY <1>1 DEF PermitsConserved

(* The connection at the head of the backlog is queued, there once, and    *)
(* the backlog without it is exact again.                                  *)
LEMMA AcceptHead ==
    ASSUME TypeOK, BacklogExact, Ready,
           NEW st \in ConnState \ {"queued"},
           conn' = [conn EXCEPT ![Head(backlog)] = st],
           backlog' = Tail(backlog),
           loop' \in {"select", "acquire"}
    PROVE  /\ Head(backlog) \in Conn
           /\ conn[Head(backlog)] = "queued"
           /\ backlog' \in Seq(Conn)
           /\ conn' \in [Conn -> ConnState]
           /\ BacklogExact'
<1> DEFINE h == Head(backlog)
<1>1. /\ backlog \in Seq(Conn) /\ backlog # <<>>
      /\ conn \in [Conn -> ConnState]
  BY DEF TypeOK, Ready
<1>2. /\ h \in Conn /\ h = backlog[1] /\ 1 \in DOMAIN backlog
      /\ Tail(backlog) \in Seq(Conn)
      /\ Len(Tail(backlog)) = Len(backlog) - 1
      /\ \A i \in 1..(Len(backlog) - 1) : Tail(backlog)[i] = backlog[i + 1]
      /\ DOMAIN backlog = 1..Len(backlog)
      /\ DOMAIN Tail(backlog) = 1..(Len(backlog) - 1)
  BY <1>1
<1>3. conn[h] = "queued"
  <2>1. h \in { backlog[i] : i \in DOMAIN backlog }
    BY <1>2
  <2> QED
    BY <2>1 DEF BacklogExact
<1>4. conn' \in [Conn -> ConnState]
  BY <1>1, <1>2
<1>5. { c \in Conn : conn'[c] = "queued" } = { c \in Conn : conn[c] = "queued" } \ {h}
  BY <1>1, <1>2
<1>6. { Tail(backlog)[i] : i \in DOMAIN Tail(backlog) }
        = { backlog[i] : i \in DOMAIN backlog } \ {h}
  <2>1. ASSUME NEW i \in DOMAIN Tail(backlog)
        PROVE  /\ Tail(backlog)[i] \in { backlog[j] : j \in DOMAIN backlog }
               /\ Tail(backlog)[i] # h
    <3>1. /\ i + 1 \in DOMAIN backlog /\ i + 1 # 1
          /\ Tail(backlog)[i] = backlog[i + 1]
      BY <1>2
    <3> QED
      BY <1>2, <3>1 DEF BacklogExact
  <2>2. ASSUME NEW i \in DOMAIN backlog, backlog[i] # h
        PROVE  \E j \in DOMAIN Tail(backlog) : Tail(backlog)[j] = backlog[i]
    <3>1. i - 1 \in DOMAIN Tail(backlog) /\ Tail(backlog)[i - 1] = backlog[i]
      BY <1>2, <2>2
    <3> QED
      BY <3>1
  <2> QED
    BY <2>1, <2>2
<1>7. \A i, j \in DOMAIN Tail(backlog) :
          Tail(backlog)[i] = Tail(backlog)[j] => i = j
  <2>1. ASSUME NEW i \in DOMAIN Tail(backlog), NEW j \in DOMAIN Tail(backlog),
               Tail(backlog)[i] = Tail(backlog)[j]
        PROVE  i = j
    <3>1. /\ i + 1 \in DOMAIN backlog /\ j + 1 \in DOMAIN backlog
          /\ backlog[i + 1] = backlog[j + 1]
      BY <1>2, <2>1
    <3>2. i + 1 = j + 1
      BY <3>1 DEF BacklogExact
    <3> QED
      BY <1>2, <3>2
  <2> QED
    BY <2>1
<1>8. BacklogExact'
  <2>1. { backlog'[i] : i \in DOMAIN backlog' } = { c \in Conn : conn'[c] = "queued" }
    <3>1. { backlog'[i] : i \in DOMAIN backlog' }
            = { Tail(backlog)[i] : i \in DOMAIN Tail(backlog) }
      OBVIOUS
    <3>2. { backlog[i] : i \in DOMAIN backlog } = { c \in Conn : conn[c] = "queued" }
      BY DEF BacklogExact
    <3> HIDE DEF h
    <3> QED
      BY <1>5, <1>6, <3>1, <3>2, Zenon
  <2>2. \A i, j \in DOMAIN backlog' : backlog'[i] = backlog'[j] => i = j
    BY <1>7
  <2>3. ~Ended'
    BY DEF Ended
  <2> QED
    BY <2>1, <2>2, <2>3 DEF BacklogExact
<1> QED
  BY <1>1, <1>2, <1>3, <1>4, <1>8

(* Steps that leave the queued connections where they are.                 *)
LEMMA SameBacklog ==
    ASSUME BacklogExact,
           \A c \in Conn : conn[c] = "queued" <=> conn'[c] = "queued",
           UNCHANGED <<loop, backlog>>
    PROVE  BacklogExact'
<1>1. { c \in Conn : conn'[c] = "queued" } = { c \in Conn : conn[c] = "queued" }
  OBVIOUS
<1> QED
  BY <1>1 DEF BacklogExact, Ended

(* Steps that neither start nor end a task's work on requests.             *)
LEMMA SameRequests ==
    ASSUME TypeOK, RpcUnderPermit,
           \A c \in Conn : conn[c] = "serving" => conn'[c] = "serving",
           Ended' => Ended,
           UNCHANGED <<transport, rpc>>
    PROVE  RpcUnderPermit'
BY DEF RpcUnderPermit

LEMMA AbortType ==
    ASSUME NEW requests \in [Stream -> RpcState]
    PROVE  /\ Abort(requests) \in [Stream -> RpcState]
           /\ \A s \in Stream : Abort(requests)[s] # "running"
           /\ \A s \in Stream : Abort(requests)[s] = "orphaned" =>
                  requests[s] = "orphaned" \/ transport = "h3"
BY DEF Abort, RpcState
-----------------------------------------------------------------------------
LEMMA InitInv == Init => IInv
<1> SUFFICES ASSUME Init PROVE IInv
  OBVIOUS
<1>1. TypeOK
  BY LimitAssumption DEF Init, TypeOK, ConnState, RpcState
<1>2. Owners = {}
  BY DEF Init, Owners
<1>3. PermitsConserved
  BY <1>2, FS_EmptySet, LimitAssumption DEF Init, PermitsConserved
<1>4. OneHeld
  BY DEF Init, OneHeld
<1>5. BacklogExact
  BY DEF Init, BacklogExact
<1>6. RpcUnderPermit
  BY DEF Init, RpcUnderPermit
<1> QED
  BY <1>1, <1>3, <1>4, <1>5, <1>6 DEF IInv

LEMMA ConnectStep ==
    ASSUME IInv, NEW c \in Conn, Connect(c)
    PROVE  IInv'
<1>1. /\ conn \in [Conn -> ConnState] /\ backlog \in Seq(Conn)
      /\ conn[c] = "new" /\ ~Ended
      /\ conn' = [conn EXCEPT ![c] = "queued"]
      /\ backlog' = Append(backlog, c)
      /\ UNCHANGED <<transport, loop, signal, permits, held, rpc>>
  BY DEF Connect, IInv, TypeOK
<1>2. conn' \in [Conn -> ConnState] /\ backlog' \in Seq(Conn)
  BY <1>1 DEF ConnState
<1>3. TypeOK'
  BY <1>1, <1>2 DEF IInv, TypeOK
<1>4. PermitsConserved'
  BY <1>1, <1>2, SameTasks DEF IInv
<1>5. OneHeld'
  BY <1>1 DEF IInv, OneHeld
<1>6. BacklogExact'
  <2>1. /\ DOMAIN backlog = 1..Len(backlog)
        /\ DOMAIN backlog' = 1..(Len(backlog) + 1)
        /\ backlog'[Len(backlog) + 1] = c
        /\ \A i \in DOMAIN backlog : backlog'[i] = backlog[i]
    BY <1>1
  <2>2. \A i \in DOMAIN backlog : backlog[i] \in Conn /\ conn[backlog[i]] = "queued"
    <3>1. \A i \in DOMAIN backlog : backlog[i] \in { b \in Conn : conn[b] = "queued" }
      BY DEF IInv, BacklogExact
    <3> QED
      BY <3>1
  <2>3. \A i \in DOMAIN backlog : backlog[i] # c
    BY <1>1, <2>2
  <2>4. { b \in Conn : conn'[b] = "queued" } = { b \in Conn : conn[b] = "queued" } \cup {c}
    BY <1>1
  <2>5. { backlog'[i] : i \in DOMAIN backlog' } = { backlog[i] : i \in DOMAIN backlog } \cup {c}
    <3>1. \A i \in DOMAIN backlog' : i \in DOMAIN backlog \/ i = Len(backlog) + 1
      BY <2>1
    <3>2. Len(backlog) + 1 \in DOMAIN backlog' /\ DOMAIN backlog \subseteq DOMAIN backlog'
      BY <1>1, <2>1
    <3> QED
      BY <2>1, <3>1, <3>2
  <2>6. \A i, j \in DOMAIN backlog' : backlog'[i] = backlog'[j] => i = j
    <3>1. \A i \in DOMAIN backlog' : i \in DOMAIN backlog \/ i = Len(backlog) + 1
      BY <2>1
    <3>2. \A i, j \in DOMAIN backlog : backlog[i] = backlog[j] => i = j
      BY DEF IInv, BacklogExact
    <3> QED
      BY <2>1, <2>3, <3>1, <3>2
  <2> QED
    BY <1>1, <2>4, <2>5, <2>6 DEF IInv, BacklogExact, Ended
<1>7. RpcUnderPermit'
  BY <1>1, SameRequests DEF IInv, Ended
<1> QED
  BY <1>3, <1>4, <1>5, <1>6, <1>7 DEF IInv

LEMMA AcceptWithPermitStep ==
    ASSUME IInv, AcceptWithPermit
    PROVE  IInv'
<1> DEFINE h == Head(backlog)
<1>1. /\ TypeOK /\ Ready /\ permits > 0 /\ permits' = permits - 1
      /\ conn' = [conn EXCEPT ![h] = Spawned]
      /\ backlog' = Tail(backlog)
      /\ UNCHANGED <<transport, loop, signal, held, rpc>>
      /\ loop = "select"
  BY DEF AcceptWithPermit, IInv, Ready
<1>2. Spawned \in {"handshake", "serving"} /\ Spawned \in ConnState \ {"queued"}
  BY DEF Spawned, ConnState
<1>3. /\ h \in Conn /\ conn[h] = "queued"
      /\ backlog' \in Seq(Conn) /\ conn' \in [Conn -> ConnState]
      /\ BacklogExact'
  BY <1>1, <1>2, AcceptHead DEF IInv
<1>4. conn \in [Conn -> ConnState]
  BY <1>1 DEF TypeOK
<1>5. PermitsConserved' /\ permits' \in 0..Limit
  <2>1. h \notin Owners
    BY <1>3 DEF Owners
  <2> QED
    BY <1>1, <1>3, <2>1, TaskSpawned DEF IInv
<1>6. TypeOK'
  BY <1>1, <1>3, <1>5 DEF TypeOK
<1>7. OneHeld'
  BY <1>1, <1>2, <1>3, <1>4 DEF IInv, OneHeld
<1>8. RpcUnderPermit'
  BY <1>1, <1>3, <1>4, SameRequests DEF IInv, Ended
<1> QED
  BY <1>3, <1>5, <1>6, <1>7, <1>8 DEF IInv

LEMMA AcceptAtLimitStep ==
    ASSUME IInv, AcceptAtLimit
    PROVE  IInv'
<1> DEFINE h == Head(backlog)
<1>1. /\ TypeOK /\ Ready /\ loop = "select" /\ loop' = "acquire"
      /\ held' = h
      /\ conn' = [conn EXCEPT ![h] = "held"]
      /\ backlog' = Tail(backlog)
      /\ UNCHANGED <<transport, signal, permits, rpc>>
  BY DEF AcceptAtLimit, IInv, Ready
<1>2. /\ h \in Conn /\ conn[h] = "queued"
      /\ backlog' \in Seq(Conn) /\ conn' \in [Conn -> ConnState]
      /\ BacklogExact'
  BY <1>1, AcceptHead DEF IInv, ConnState
<1>3. conn \in [Conn -> ConnState]
  BY <1>1 DEF TypeOK
<1>4. TypeOK'
  BY <1>1, <1>2 DEF TypeOK
<1>5. PermitsConserved'
  BY <1>1, <1>2, <1>3, SameTasks DEF IInv
<1>6. OneHeld'
  <2>1. { c \in Conn : conn[c] = "held" } = {}
    BY <1>1 DEF IInv, OneHeld
  <2> QED
    BY <1>1, <1>2, <1>3, <2>1 DEF OneHeld
<1>7. RpcUnderPermit'
  BY <1>1, <1>2, <1>3, SameRequests DEF IInv, Ended
<1> QED
  BY <1>2, <1>4, <1>5, <1>6, <1>7 DEF IInv

LEMMA AcquireStep ==
    ASSUME IInv, Acquire
    PROVE  IInv'
<1>1. /\ TypeOK /\ loop = "acquire" /\ loop' = "select"
      /\ permits > 0 /\ permits' = permits - 1
      /\ held' = NoConn
      /\ conn' = [conn EXCEPT ![held] = Spawned]
      /\ UNCHANGED <<transport, signal, backlog, rpc>>
  BY DEF Acquire, IInv
<1>2. Spawned \in {"handshake", "serving"}
  BY DEF Spawned
<1>3. { c \in Conn : conn[c] = "held" } = {held}
  BY <1>1 DEF IInv, OneHeld
<1>4. held \in Conn /\ conn[held] = "held"
  BY <1>3
<1>5. conn \in [Conn -> ConnState]
  BY <1>1 DEF TypeOK
<1>6. PermitsConserved' /\ permits' \in 0..Limit /\ conn' \in [Conn -> ConnState]
  <2>1. held \notin Owners
    BY <1>4 DEF Owners
  <2> QED
    BY <1>1, <1>4, <2>1, TaskSpawned DEF IInv
<1>7. TypeOK'
  BY <1>1, <1>6 DEF TypeOK
<1>8. OneHeld'
  BY <1>1, <1>2, <1>3, <1>4, <1>5 DEF OneHeld
<1>9. BacklogExact'
  <2>1. { c \in Conn : conn'[c] = "queued" } = { c \in Conn : conn[c] = "queued" }
    BY <1>1, <1>2, <1>4, <1>5
  <2> QED
    BY <1>1, <2>1 DEF IInv, BacklogExact, Ended
<1>10. RpcUnderPermit'
  BY <1>1, <1>4, <1>5, SameRequests DEF IInv, Ended
<1> QED
  BY <1>6, <1>7, <1>8, <1>9, <1>10 DEF IInv

(* The loop may end in the middle of anything the tasks do.                *)
LEMMA LeaveStep ==
    ASSUME IInv, loop = "select",
           NEW how \in {"stopped", "failed"},
           Leave(how)
    PROVE  IInv'
<1>1. /\ TypeOK /\ loop' = how /\ backlog' = <<>>
      /\ conn' = [c \in Conn |-> IF conn[c] = "queued" THEN "closed" ELSE conn[c]]
      /\ rpc' = IF transport = "h3" THEN [c \in Conn |-> Abort(rpc[c])] ELSE rpc
      /\ UNCHANGED <<transport, signal, permits, held>>
      /\ conn \in [Conn -> ConnState]
      /\ rpc \in [Conn -> [Stream -> RpcState]]
  BY DEF Leave, IInv, TypeOK
<1>2. conn' \in [Conn -> ConnState]
  BY <1>1 DEF ConnState
<1>3. rpc' \in [Conn -> [Stream -> RpcState]]
  BY <1>1, AbortType
<1>4. TypeOK'
  BY <1>1, <1>2, <1>3 DEF TypeOK
<1>5. PermitsConserved'
  BY <1>1, <1>2, SameTasks DEF IInv
<1>6. OneHeld'
  <2>1. { c \in Conn : conn[c] = "held" } = {}
    BY DEF IInv, OneHeld
  <2> QED
    BY <1>1, <2>1 DEF OneHeld
<1>7. BacklogExact'
  <2>1. { c \in Conn : conn'[c] = "queued" } = {}
    BY <1>1
  <2> QED
    BY <1>1, <2>1 DEF BacklogExact
<1>8. RpcUnderPermit'
  <2>1. CASE transport = "h3"
    BY <1>1, <2>1, AbortType DEF RpcUnderPermit
  <2>2. CASE transport # "h3"
    BY <1>1, <2>2 DEF IInv, RpcUnderPermit
  <2> QED
    BY <2>1, <2>2
<1> QED
  BY <1>4, <1>5, <1>6, <1>7, <1>8 DEF IInv

LEMMA TaskStep ==
    ASSUME IInv, NEW c \in Conn, Task(c)
    PROVE  IInv'
<1>1. /\ TypeOK /\ PermitsConserved /\ OneHeld /\ BacklogExact /\ RpcUnderPermit
      /\ conn \in [Conn -> ConnState]
      /\ rpc \in [Conn -> [Stream -> RpcState]]
  BY DEF IInv, TypeOK
<1>2. CASE HandshakeDone(c)
  <2>1. /\ conn[c] = "handshake" /\ conn' = [conn EXCEPT ![c] = "serving"]
        /\ UNCHANGED <<transport, loop, signal, permits, backlog, held, rpc>>
    BY <1>2 DEF HandshakeDone
  <2>2. conn' \in [Conn -> ConnState]
    BY <1>1, <2>1 DEF ConnState
  <2>3. TypeOK'
    BY <1>1, <2>1, <2>2 DEF TypeOK
  <2>4. PermitsConserved'
    BY <1>1, <2>1, <2>2, SameTasks
  <2>5. OneHeld'
    BY <1>1, <2>1 DEF OneHeld
  <2>6. BacklogExact'
    BY <1>1, <2>1, SameBacklog
  <2>7. RpcUnderPermit'
    BY <1>1, <2>1, SameRequests DEF Ended
  <2> QED
    BY <2>3, <2>4, <2>5, <2>6, <2>7 DEF IInv
<1>3. CASE HandshakeFails(c)
  <2>1. /\ conn[c] = "handshake" /\ conn' = [conn EXCEPT ![c] = "closed"]
        /\ permits' = permits + 1
        /\ UNCHANGED <<transport, loop, signal, backlog, held, rpc>>
    BY <1>3 DEF HandshakeFails
  <2>2. c \in Owners
    BY <2>1 DEF Owners
  <2>3. PermitsConserved' /\ permits' \in 0..Limit /\ conn' \in [Conn -> ConnState]
    BY <1>1, <2>1, <2>2, TaskEnded
  <2>4. TypeOK'
    BY <1>1, <2>1, <2>3 DEF TypeOK
  <2>5. OneHeld'
    BY <1>1, <2>1 DEF OneHeld
  <2>6. BacklogExact'
    BY <1>1, <2>1, SameBacklog
  <2>7. RpcUnderPermit'
    BY <1>1, <2>1, SameRequests DEF Ended
  <2> QED
    BY <2>3, <2>4, <2>5, <2>6, <2>7 DEF IInv
<1>4. CASE Close(c)
  <2>1. /\ conn[c] = "serving" /\ conn' = [conn EXCEPT ![c] = "closed"]
        /\ permits' = permits + 1
        /\ rpc' = [rpc EXCEPT ![c] = Abort(rpc[c])]
        /\ UNCHANGED <<transport, loop, signal, backlog, held>>
    BY <1>4 DEF Close
  <2>2. c \in Owners
    BY <2>1 DEF Owners
  <2>3. PermitsConserved' /\ permits' \in 0..Limit /\ conn' \in [Conn -> ConnState]
    BY <1>1, <2>1, <2>2, TaskEnded
  <2>4. /\ Abort(rpc[c]) \in [Stream -> RpcState]
        /\ \A s \in Stream : Abort(rpc[c])[s] # "running"
        /\ \A s \in Stream : Abort(rpc[c])[s] = "orphaned" =>
               rpc[c][s] = "orphaned" \/ transport = "h3"
    BY <1>1, AbortType
  <2>5. TypeOK'
    BY <1>1, <2>1, <2>3, <2>4 DEF TypeOK
  <2>6. OneHeld'
    BY <1>1, <2>1 DEF OneHeld
  <2>7. BacklogExact'
    BY <1>1, <2>1, SameBacklog
  <2>8. RpcUnderPermit'
    BY <1>1, <2>1, <2>4 DEF RpcUnderPermit, Ended
  <2> QED
    BY <2>3, <2>5, <2>6, <2>7, <2>8 DEF IInv
<1>5. CASE \E s \in Stream : Request(c, s) \/ Answer(c, s) \/ HandlerEnds(c, s)
  <2>1. PICK s \in Stream : Request(c, s) \/ Answer(c, s) \/ HandlerEnds(c, s)
    BY <1>5
  <2>2. /\ UNCHANGED <<transport, loop, signal, permits, backlog, held, conn>>
        /\ \/ /\ rpc' = [rpc EXCEPT ![c][s] = "running"]
              /\ conn[c] = "serving" /\ ~(transport = "h3" /\ Ended)
           \/ rpc' = [rpc EXCEPT ![c][s] = "answered"]
           \/ rpc' = [rpc EXCEPT ![c][s] = "aborted"]
    BY <2>1 DEF Request, Answer, HandlerEnds
  <2>3. rpc' \in [Conn -> [Stream -> RpcState]]
    BY <1>1, <2>2 DEF RpcState
  <2>4. TypeOK'
    BY <1>1, <2>2, <2>3 DEF TypeOK
  <2>5. PermitsConserved'
    BY <1>1, <2>2 DEF PermitsConserved, Owners
  <2>6. OneHeld'
    BY <1>1, <2>2 DEF OneHeld
  <2>7. BacklogExact'
    BY <1>1, <2>2, SameBacklog
  <2>8. RpcUnderPermit'
    BY <1>1, <2>2 DEF RpcUnderPermit, Ended
  <2> QED
    BY <2>4, <2>5, <2>6, <2>7, <2>8 DEF IInv
<1> QED
  BY <1>2, <1>3, <1>4, <1>5 DEF Task

LEMMA StepInv == IInv /\ [Next]_vars => IInv'
<1> SUFFICES ASSUME IInv, [Next]_vars PROVE IInv'
  OBVIOUS
<1>1. CASE Loop
  <2>1. CASE AcceptWithPermit
    BY <2>1, AcceptWithPermitStep
  <2>2. CASE AcceptAtLimit
    BY <2>2, AcceptAtLimitStep
  <2>3. CASE Acquire
    BY <2>3, AcquireStep
  <2>4. CASE Shutdown
    BY <2>4, LeaveStep DEF Shutdown
  <2> QED
    BY <1>1, <2>1, <2>2, <2>3, <2>4 DEF Loop
<1>2. CASE AcceptError
  <2>1. CASE transport = "h3"
    BY <1>2, <2>1, LeaveStep DEF AcceptError
  <2>2. CASE transport # "h3"
    BY <1>2, <2>2, LeaveStep DEF AcceptError
  <2> QED
    BY <2>1, <2>2
<1>3. CASE SignalFires
  BY <1>3 DEF SignalFires, IInv, TypeOK, PermitsConserved, Owners, OneHeld,
              BacklogExact, RpcUnderPermit, Ended
<1>4. CASE \E c \in Conn : Connect(c) \/ Task(c)
  BY <1>4, ConnectStep, TaskStep
<1>5. CASE UNCHANGED vars
  BY <1>5 DEF vars, IInv, TypeOK, PermitsConserved, Owners, OneHeld,
              BacklogExact, RpcUnderPermit, Ended
<1> QED
  BY <1>1, <1>2, <1>3, <1>4, <1>5 DEF Next

LEMMA Invariance == Spec => []IInv
BY InitInv, StepInv, PTL DEF Spec

(* The state of the accept loop is always well formed.                     *)
THEOREM TypeCorrect == Spec => []TypeOK
<1>1. IInv => TypeOK
  BY DEF IInv
<1> QED
  BY <1>1, Invariance, PTL

(* No permit is lost or made up, whatever order connections are accepted,  *)
(* shaken hands with, closed or aborted in; so the number of connections   *)
(* served never exceeds concurrency_limit (server.rs:301-349).             *)
THEOREM PermitsAlwaysConserved == Spec => []PermitsConserved
<1>1. IInv => PermitsConserved
  BY DEF IInv
<1> QED
  BY <1>1, Invariance, PTL

(* At most one accepted connection waits for a permit (server.rs:301-312). *)
THEOREM AtMostOneHeld == Spec => []OneHeld
<1>1. IInv => OneHeld
  BY DEF IInv
<1> QED
  BY <1>1, Invariance, PTL

(* No connection is lost between the listener and the loop                 *)
(* (server.rs:291-358).                                                    *)
THEOREM BacklogAlwaysExact == Spec => []BacklogExact
<1>1. IInv => BacklogExact
  BY DEF IInv
<1> QED
  BY <1>1, Invariance, PTL

(* A request that can be answered is under a permit (server.rs:410,        *)
(* h3_server.rs:186).                                                      *)
THEOREM RequestsUnderPermit == Spec => []RpcUnderPermit
<1>1. IInv => RpcUnderPermit
  BY DEF IInv
<1> QED
  BY <1>1, Invariance, PTL
-----------------------------------------------------------------------------
(* Services: what calls, and all that is registered, have to do with the   *)
(* schema.                                                                 *)

(* What is known of a generated service: its names, and that rustc accepts *)
(* its server.                                                             *)
Named(service) ==
    /\ service.package \in Text /\ service.name \in Text
    /\ \E n \in Nat : DOMAIN service.methods = 1..n
    /\ \A j \in DOMAIN service.methods : service.methods[j].name \in Text
    /\ IsInjective(Names(service.methods))

Key(service) == <<"/">> \o Fqn(service)

ServicesNamed ==
    /\ \E n \in Nat : DOMAIN services = 1..n
    /\ \A i \in DOMAIN services : Named(services[i]) /\ Compiles(GenerateServer(services[i]))
    /\ \A i, k \in DOMAIN services : Fqn(services[i]) = Fqn(services[k]) => i = k

Registration == [service : DOMAIN services, chain : Seq({"mark", "reject"}), version : 1..added]

RoutesKept ==
    /\ added \in Nat
    /\ \A key \in DOMAIN routes :
           routes[key] \in Registration /\ key = Key(services[routes[key].service])
    /\ \A k, l \in DOMAIN routes : routes[k].version = routes[l].version => k = l

Marked(marks, chain) ==
    /\ marks \in Seq(Nat) /\ Len(marks) <= Len(chain)
    /\ \A i \in 1..Len(marks) : marks[i] = i /\ chain[i] = "mark"

Hits(server, path) == { j \in DOMAIN server.arms : server.arms[j].path = path }

(* How the call was answered, by the registration of a key that matches.   *)
AnsweredBy(call, entry, server) ==
    LET hit == Hits(server, call.target.path)
    IN  \/ call.answer = "rejected" /\ "reject" \in Range(entry.chain)
        \/ call.answer = "method not found" /\ hit = {}
        \/ /\ call.answer = "handled" /\ hit # {}
           /\ call.handler = Handler(entry.version, server, server.arms[Min(hit)])
           /\ Marked(call.marks, entry.chain) /\ Len(call.marks) = Len(entry.chain)

ServerOf(entry) == GenerateServer(services[entry.service])

CallKept(call) ==
    \/ call = NoCall
    \/ /\ call.at = "sent" /\ call = [at |-> "sent", target |-> call.target]
       /\ call.target \in Asked \cup Strangers
    \/ /\ call.at = "intercept"
       /\ call = [at |-> "intercept", target |-> call.target,
                  entry |-> call.entry, marks |-> call.marks]
       /\ call.target \in Asked \cup Strangers
       /\ \E key \in DOMAIN routes : Matches(key, call.target.path) /\ call.entry = routes[key]
       /\ Marked(call.marks, call.entry.chain)
    \/ /\ call.at = "done"
       /\ call.target \in Asked \cup Strangers
       /\ \/ /\ call.answer = (IF fallback = "yes" THEN "fallback" ELSE "service not found")
             /\ \A key \in DOMAIN routes : ~Matches(key, call.target.path)
          \/ \E key \in DOMAIN routes :
                 /\ Matches(key, call.target.path)
                 /\ AnsweredBy(call, routes[key], ServerOf(routes[key]))

CallsKept ==
    /\ calls = [c \in Slots |-> calls[c]]
    /\ \A c \in Slots : CallKept(calls[c])

RoutingInv ==
    /\ stage \in {"collect", "generate"} => DOMAIN routes = {}
    /\ stage # "serve" => \A c \in Slots : calls[c] = NoCall
    /\ schema \in Schemas /\ fallback \in {"yes", "no"}
    /\ ServicesNamed
    /\ RoutesKept
    /\ CallsKept
-----------------------------------------------------------------------------
(* Building: nothing is registered and nothing is called yet, and what is  *)
(* generated keeps the names of the schema.                                *)

(* At the start there is nothing yet to route.                             *)
LEMMA InitRouting == ServicesInit => RoutingInv
<1> SUFFICES ASSUME ServicesInit PROVE RoutingInv
  OBVIOUS
<1>1. ServicesNamed
  BY DEF ServicesInit, ServicesNamed
<1>2. DOMAIN routes = {}
  BY DEF ServicesInit
<1>3. RoutesKept
  BY <1>2 DEF ServicesInit, RoutesKept
<1>4. \A c \in Slots : calls[c] = NoCall
  BY DEF ServicesInit
<1>5. CallsKept
  BY <1>4 DEF ServicesInit, CallsKept, CallKept
<1>6. schema \in Schemas /\ fallback \in {"yes", "no"}
  BY DEF ServicesInit
<1> QED
  BY <1>1, <1>2, <1>3, <1>4, <1>5, <1>6 DEF RoutingInv

(* Nothing is called before the server serves.                             *)
LEMMA NoCalls ==
    ASSUME RoutingInv, stage # "serve", calls' = calls
    PROVE  CallsKept' /\ \A c \in Slots : calls'[c] = NoCall
<1>1. \A c \in Slots : calls'[c] = NoCall
  BY DEF RoutingInv
<1>2. \A c \in Slots : CallKept(calls[c])'
  BY <1>1 DEF CallKept
<1> QED
  BY <1>1, <1>2 DEF RoutingInv, CallsKept

(* A step that leaves the registry alone keeps all that is said of it.     *)
LEMMA SameRegistry ==
    ASSUME RoutingInv, UNCHANGED <<services, routes, added>>
    PROVE  ServicesNamed' /\ RoutesKept'
BY DEF RoutingInv, ServicesNamed, RoutesKept, Registration

(* The rounds of the worklist change nothing that calls depend on.         *)
LEMMA BuildKeeps ==
    ASSUME RoutingInv, Collect \/ CollectDone \/ SetFallback \/ Serve
    PROVE  RoutingInv'
<1>1. /\ UNCHANGED <<services, routes, added, schema, calls>>
      /\ stage # "serve"
      /\ stage' \in {"collect", "generate"} => stage \in {"collect", "generate"}
      /\ fallback' \in {fallback, "yes"}
  BY DEF Collect, CollectDone, SetFallback, Serve, registry, building
<1>2. ServicesNamed' /\ RoutesKept'
  BY <1>1, SameRegistry
<1>3. CallsKept' /\ \A c \in Slots : calls'[c] = NoCall
  BY <1>1, NoCalls
<1> QED
  BY <1>1, <1>2, <1>3 DEF RoutingInv

(* The adapter of prost keeps a service's names (protobuf.rs:12-77).       *)
LEMMA FromProtoNamed ==
    ASSUME NEW s \in ServiceDescriptor, IsInjective(Names(s.methods))
    PROVE  Named(ServiceFromProto(s, s.package, "super"))
<1> DEFINE r == ServiceFromProto(s, s.package, "super")
<1>1. /\ s.package \in Text /\ s.name \in Text
      /\ s.methods \in Seq(MethodDescriptor)
  BY DEF ServiceDescriptor
<1>2. r.package = s.package /\ r.name = s.name /\ DOMAIN r.methods = DOMAIN s.methods
  BY DEF ServiceFromProto
<1>3. \A j \in DOMAIN s.methods :
          /\ r.methods[j].name = s.methods[j].name
          /\ s.methods[j].name \in Text
  <2> TAKE j \in DOMAIN s.methods
  <2>1. s.methods[j] \in MethodDescriptor
    BY <1>1
  <2> QED
    BY <2>1 DEF ServiceFromProto, MethodDescriptor
<1>4. Names(r.methods) = Names(s.methods)
  BY <1>2, <1>3 DEF Names
<1>5. DOMAIN r.methods = 1..Len(s.methods) /\ Len(s.methods) \in Nat
  BY <1>1, <1>2
<1> QED
  BY <1>1, <1>2, <1>3, <1>4, <1>5 DEF Named

(* So does the adapter of FlatBuffers (flatbuffers.rs:153-194).            *)
LEMMA ToIrNamed ==
    ASSUME NEW s \in ServiceDescriptor, IsInjective(Names(s.methods))
    PROVE  Named(ServiceToIr(s))
<1> DEFINE r == ServiceToIr(s)
<1>1. /\ s.package \in Text /\ s.name \in Text
      /\ s.methods \in Seq(MethodDescriptor)
  BY DEF ServiceDescriptor
<1>2. r.package = s.package /\ r.name = s.name /\ DOMAIN r.methods = DOMAIN s.methods
  BY DEF ServiceToIr, ServiceDescriptor
<1>3. \A j \in DOMAIN s.methods :
          /\ r.methods[j].name = s.methods[j].name
          /\ s.methods[j].name \in Text
  <2> TAKE j \in DOMAIN s.methods
  <2>1. s.methods[j] \in MethodDescriptor
    BY <1>1
  <2> QED
    BY <2>1 DEF ServiceToIr, MethodDescriptor, ServiceDescriptor
<1>4. Names(r.methods) = Names(s.methods)
  BY <1>2, <1>3 DEF Names
<1>5. DOMAIN r.methods = 1..Len(s.methods) /\ Len(s.methods) \in Nat
  BY <1>1, <1>2
<1> QED
  BY <1>1, <1>2, <1>3, <1>4, <1>5 DEF Named

(* So all the services that are generated have the schema's names.         *)
LEMMA IrNamed ==
    ASSUME schema \in Schemas
    PROVE  /\ \E n \in Nat : DOMAIN Ir = 1..n
           /\ \A i \in DOMAIN Ir : Named(Ir[i])
           /\ \A i, k \in DOMAIN Ir : Fqn(Ir[i]) = Fqn(Ir[k]) => i = k
<1>1. /\ schema.services \in Seq(ServiceDescriptor)
      /\ IsInjective([i \in DOMAIN schema.services |-> Fqn(schema.services[i])])
      /\ \A service \in ToSet(schema.services) : IsInjective(Names(service.methods))
  BY SchemasAssumption
<1>2. DOMAIN Ir = DOMAIN schema.services /\ DOMAIN Ir = 1..Len(schema.services)
  BY <1>1 DEF Ir
<1>3. \A i \in DOMAIN Ir : Named(Ir[i]) /\ Fqn(Ir[i]) = Fqn(schema.services[i])
  <2> TAKE i \in DOMAIN Ir
  <2>1. schema.services[i] \in ServiceDescriptor
    BY <1>1, <1>2
  <2>2. IsInjective(Names(schema.services[i].methods))
    BY <1>1, <1>2 DEF ToSet
  <2>3. CASE schema.kind = "fbs"
    <3>1. Ir[i] = ServiceToIr(schema.services[i])
      BY <2>3, <1>2 DEF Ir
    <3>2. ServiceToIr(schema.services[i]).package = schema.services[i].package
      BY <2>1 DEF ServiceToIr, ServiceDescriptor
    <3>3. ServiceToIr(schema.services[i]).name = schema.services[i].name
      BY <2>1 DEF ServiceToIr, ServiceDescriptor
    <3> QED
      BY <3>1, <3>2, <3>3, <2>1, <2>2, ToIrNamed DEF Fqn
  <2>4. CASE schema.kind # "fbs"
    <3> DEFINE s == schema.services[i]
    <3>1. Ir[i] = ServiceFromProto(s, s.package, "super")
      BY <2>4, <1>2 DEF Ir
    <3>2. /\ ServiceFromProto(s, s.package, "super").package = s.package
          /\ ServiceFromProto(s, s.package, "super").name = s.name
      BY DEF ServiceFromProto
    <3>3. Named(ServiceFromProto(s, s.package, "super"))
      BY <2>1, <2>2, FromProtoNamed
    <3> QED
      BY <3>1, <3>2, <3>3 DEF Fqn
  <2> QED
    BY <2>3, <2>4
<1>4. ASSUME NEW i \in DOMAIN Ir, NEW k \in DOMAIN Ir, Fqn(Ir[i]) = Fqn(Ir[k])
      PROVE  i = k
  BY <1>1, <1>2, <1>3, <1>4 DEF IsInjective
<1>5. Len(schema.services) \in Nat
  BY <1>1
<1> QED
  BY <1>2, <1>3, <1>4, <1>5

(* Code is generated for services that rustc accepts.                      *)
LEMMA GenerateKeeps ==
    ASSUME RoutingInv, Generate
    PROVE  RoutingInv'
<1>1. stage = "generate" /\ stage' \in {"register", "failed"}
  BY DEF Generate
<1>2. UNCHANGED <<schema, routes, added, fallback, calls>> /\ DOMAIN routes = {}
  BY <1>1 DEF Generate, registry, RoutingInv
<1>3. RoutesKept'
  BY <1>2 DEF RoutingInv, RoutesKept
<1>4. CallsKept' /\ \A c \in Slots : calls'[c] = NoCall
  BY <1>1, <1>2, NoCalls
<1>5. schema \in Schemas
  BY DEF RoutingInv
<1>6. ServicesNamed'
  <2>1. CASE services' = services
    BY <2>1 DEF RoutingInv, ServicesNamed
  <2>2. CASE services' = Ir /\ \A i \in DOMAIN Ir : Compiles(GenerateServer(Ir[i]))
    <3>1. /\ \E n \in Nat : DOMAIN Ir = 1..n
          /\ \A i \in DOMAIN Ir : Named(Ir[i])
          /\ \A i, k \in DOMAIN Ir : Fqn(Ir[i]) = Fqn(Ir[k]) => i = k
      BY <1>5, IrNamed
    <3> HIDE DEF Ir
    <3> QED
      BY <2>2, <3>1 DEF ServicesNamed
  <2> QED
    BY <2>1, <2>2 DEF Generate
<1> QED
  BY <1>1, <1>2, <1>3, <1>4, <1>5, <1>6 DEF RoutingInv

(* A registration has a version of its own, and its service's key.         *)
LEMMA AddServiceKeeps ==
    ASSUME RoutingInv, AddService
    PROVE  RoutingInv'
<1>1. /\ stage = "register" /\ UNCHANGED <<stage, schema, services, fallback, calls>>
      /\ added' = added + 1
  BY DEF AddService, building
<1>2. CallsKept' /\ \A c \in Slots : calls'[c] = NoCall
  BY <1>1, NoCalls
<1>3. ServicesNamed'
  BY <1>1 DEF RoutingInv, ServicesNamed
<1>4. RoutesKept'
  <2>1. PICK i \in DOMAIN services, chain \in Chains :
            routes' = [k \in DOMAIN routes \cup {Key(services[i])} |->
                           IF k = Key(services[i])
                           THEN [service |-> i, chain |-> chain, version |-> added + 1]
                           ELSE routes[k]]
    BY DEF AddService, Key, GenerateServer
  <2> DEFINE entry == [service |-> i, chain |-> chain, version |-> added + 1]
             new == Key(services[i])
  <2>2. added \in Nat /\ 1..added \subseteq 1..added + 1 /\ added + 1 \in 1..added + 1
    BY DEF RoutingInv, RoutesKept
  <2>3. chain \in Seq({"mark", "reject"})
    BY ServicesAssumption
  <2>4. DOMAIN routes' = DOMAIN routes \cup {new} /\ routes'[new] = entry
    BY <2>1
  <2>5. \A key \in DOMAIN routes \ {new} : routes'[key] = routes[key]
    BY <2>1
  <2>6. /\ \A key \in DOMAIN routes :
               /\ routes[key] \in Registration
               /\ key = Key(services[routes[key].service])
        /\ \A k, l \in DOMAIN routes : routes[k].version = routes[l].version => k = l
    BY DEF RoutingInv, RoutesKept
  <2> HIDE DEF new
  <2>7. entry \in Registration'
    BY <1>1, <2>2, <2>3 DEF Registration
  <2>8. Registration \subseteq Registration'
    <3> SUFFICES ASSUME NEW r \in Registration PROVE r \in Registration'
      OBVIOUS
    <3>1. /\ r = [service |-> r.service, chain |-> r.chain, version |-> r.version]
          /\ r.service \in DOMAIN services /\ r.chain \in Seq({"mark", "reject"})
          /\ r.version \in 1..added
      BY DEF Registration
    <3> QED
      BY <3>1, <2>2, <1>1 DEF Registration
  <2>9. entry.service = i /\ entry.version = added + 1 /\ new = Key(services[i])
    BY DEF new
  <2>10. \A key \in DOMAIN routes : routes[key].version \in 1..added
    BY <2>6 DEF Registration
  <2> HIDE DEF entry
  <2>11. \A key \in DOMAIN routes' :
             /\ routes'[key] \in Registration'
             /\ key = Key(services[routes'[key].service])
    BY <2>4, <2>5, <2>6, <2>7, <2>8, <2>9
  <2>12. \A k, l \in DOMAIN routes' : routes'[k].version = routes'[l].version => k = l
    BY <2>2, <2>4, <2>5, <2>6, <2>9, <2>10
  <2> QED
    BY <1>1, <2>2, <2>11, <2>12 DEF RoutesKept, Key
<1> QED
  BY <1>1, <1>2, <1>3, <1>4 DEF RoutingInv
-----------------------------------------------------------------------------
(* Calls, one step at a time.                                              *)

(* A call that does not move stays as it is while others do.               *)
LEMMA CallStays ==
    ASSUME UNCHANGED <<services, routes, fallback>>,
           NEW d, CallKept(calls'[d])
    PROVE  CallKept(calls[d])'
<1>1. Asked' = Asked /\ Strangers' = Strangers
  BY DEF Asked, Strangers
<1> QED
  BY <1>1 DEF CallKept, ServerOf, NoCall

(* The fields of an answer.                                                *)
LEMMA AnsweredFields ==
    \A target, answer : /\ Answered(target, answer).at = "done"
                        /\ Answered(target, answer).target = target
                        /\ Answered(target, answer).answer = answer
BY DEF Answered

(* A step of one call leaves the others alone.                             *)
LEMMA CallStep ==
    ASSUME RoutingInv, NEW c \in Slots, stage = "serve",
           UNCHANGED <<building, registry>>,
           calls' = [calls EXCEPT ![c] = calls'[c]],
           CallKept(calls'[c])
    PROVE  RoutingInv'
<1>1. UNCHANGED <<stage, schema, services, routes, added, fallback>>
  BY DEF building, registry
<1>2. ServicesNamed' /\ RoutesKept'
  BY <1>1, SameRegistry
<1>3. calls' = [d \in Slots |-> calls'[d]] /\ \A d \in Slots : d # c => calls'[d] = calls[d]
  BY DEF RoutingInv, CallsKept
<1>4. \A d \in Slots : CallKept(calls'[d])
  BY <1>3 DEF RoutingInv, CallsKept
<1>5. \A d \in Slots : CallKept(calls[d])'
  BY <1>1, <1>4, CallStays
<1>6. CallsKept'
  BY <1>3, <1>5 DEF CallsKept
<1> QED
  BY <1>1, <1>2, <1>6 DEF RoutingInv

(* Calls are made while the server serves, and nothing is registered then. *)
LEMMA Serving ==
    ASSUME RoutingInv, NEW c \in Slots, calls[c].at \in {"sent", "intercept"}
    PROVE  stage = "serve"
BY DEF RoutingInv, NoCall

(* A call is sent with a target that a client or a stranger has.           *)
LEMMA SendKeeps ==
    ASSUME RoutingInv, NEW c \in Slots, Send(c)
    PROVE  RoutingInv'
<1>1. PICK target \in Asked \cup Strangers :
          calls' = [calls EXCEPT ![c] = [at |-> "sent", target |-> target]]
  BY DEF Send
<1>2. calls'[c] = [at |-> "sent", target |-> target]
  BY <1>1 DEF RoutingInv, CallsKept
<1>3. CallKept(calls'[c])
  BY <1>2 DEF CallKept
<1>4. stage = "serve" /\ UNCHANGED <<building, registry>>
  BY DEF Send
<1>5. calls' = [calls EXCEPT ![c] = calls'[c]]
  BY <1>1, <1>2
<1> QED
  BY <1>3, <1>4, <1>5, CallStep

(* A call is routed to a registration whose key it matches, or there is    *)
(* none.                                                                   *)
LEMMA RouteKeeps ==
    ASSUME RoutingInv, NEW c \in Slots, Route(c)
    PROVE  RoutingInv'
<1>1. stage = "serve" /\ UNCHANGED <<building, registry>> /\ calls[c].at = "sent"
  BY Serving DEF Route
<1>2. calls[c].target \in Asked \cup Strangers
  <2>1. CallKept(calls[c])
    BY DEF RoutingInv, CallsKept
  <2> QED
    BY <1>1, <2>1 DEF CallKept, NoCall
<1> DEFINE target == calls[c].target
           matching == { key \in DOMAIN routes : Matches(key, target.path) }
<1>3. CASE \E key \in matching :
               calls' = [calls EXCEPT ![c] =
                             [at |-> "intercept", target |-> target,
                              entry |-> routes[key], marks |-> <<>>]]
  <2>1. PICK key \in matching :
            calls' = [calls EXCEPT ![c] =
                          [at |-> "intercept", target |-> target,
                           entry |-> routes[key], marks |-> <<>>]]
    BY <1>3
  <2>2. calls'[c] = [at |-> "intercept", target |-> target,
                     entry |-> routes[key], marks |-> <<>>]
    BY <2>1 DEF RoutingInv, CallsKept
  <2>3. routes[key].chain \in Seq({"mark", "reject"})
    BY DEF RoutingInv, RoutesKept, Registration
  <2>4. Marked(<<>>, routes[key].chain)
    BY <2>3 DEF Marked
  <2>5. CallKept(calls'[c])
    BY <2>2, <2>4, <1>2 DEF CallKept
  <2>6. calls' = [calls EXCEPT ![c] = calls'[c]]
    BY <2>1, <2>2
  <2> QED
    BY <1>1, <2>5, <2>6, CallStep
<1>4. CASE /\ matching = {}
           /\ calls' = [calls EXCEPT ![c] = Answered(target,
                            IF fallback = "yes" THEN "fallback" ELSE "service not found")]
  <2> DEFINE answer == IF fallback = "yes" THEN "fallback" ELSE "service not found"
  <2>1. calls'[c] = Answered(target, answer)
    BY <1>4 DEF RoutingInv, CallsKept
  <2>2. CallKept(calls'[c])
    <3>1. target \in Asked \cup Strangers
      BY <1>2
    <3>2. \A key \in DOMAIN routes : ~Matches(key, target.path)
      BY <1>4
    <3>3. answer = (IF fallback = "yes" THEN "fallback" ELSE "service not found")
      OBVIOUS
    <3> HIDE DEF target, answer
    <3>4. /\ calls'[c].at = "done" /\ calls'[c].target = target
          /\ calls'[c].answer = answer
      BY <2>1 DEF Answered
    <3> QED
      BY <3>1, <3>2, <3>3, <3>4 DEF CallKept
  <2>3. calls' = [calls EXCEPT ![c] = calls'[c]]
    BY <1>4, <2>1
  <2> QED
    BY <1>1, <2>2, <2>3, CallStep
<1> QED
  BY <1>3, <1>4 DEF Route

(* What is known of a call on its way through the interceptors.            *)
LEMMA Intercepting ==
    ASSUME RoutingInv, NEW c \in Slots, calls[c].at = "intercept"
    PROVE  /\ calls[c] = [at |-> "intercept", target |-> calls[c].target,
                          entry |-> calls[c].entry, marks |-> calls[c].marks]
           /\ calls[c].target \in Asked \cup Strangers
           /\ \E key \in DOMAIN routes :
                  Matches(key, calls[c].target.path) /\ calls[c].entry = routes[key]
           /\ Marked(calls[c].marks, calls[c].entry.chain)
           /\ calls[c].entry.chain \in Seq({"mark", "reject"})
<1>1. CallKept(calls[c])
  BY DEF RoutingInv, CallsKept
<1>2. \A key \in DOMAIN routes : routes[key].chain \in Seq({"mark", "reject"})
  BY DEF RoutingInv, RoutesKept, Registration
<1> QED
  BY <1>1, <1>2 DEF CallKept, NoCall

(* An interceptor passes a call on or answers it, and the next one has it. *)
LEMMA InterceptKeeps ==
    ASSUME RoutingInv, NEW c \in Slots, Intercept(c)
    PROVE  RoutingInv'
<1>1. stage = "serve" /\ UNCHANGED <<building, registry>> /\ calls[c].at = "intercept"
  BY Serving DEF Intercept
<1> DEFINE call == calls[c]
           position == Len(call.marks) + 1
<1>2. /\ call = [at |-> "intercept", target |-> call.target,
                 entry |-> call.entry, marks |-> call.marks]
      /\ call.target \in Asked \cup Strangers
      /\ \E key \in DOMAIN routes : Matches(key, call.target.path) /\ call.entry = routes[key]
      /\ Marked(call.marks, call.entry.chain)
      /\ call.entry.chain \in Seq({"mark", "reject"})
  BY <1>1, Intercepting
<1>3. position <= Len(call.entry.chain)
  BY DEF Intercept
<1>4. CASE /\ call.entry.chain[position] = "mark"
           /\ calls' = [calls EXCEPT ![c].marks = Append(@, position)]
  <2> DEFINE marks == Append(call.marks, position)
  <2>1. calls'[c] = [call EXCEPT !.marks = marks]
    BY <1>4 DEF RoutingInv, CallsKept
  <2>2. calls'[c] = [at |-> "intercept", target |-> call.target,
                     entry |-> call.entry, marks |-> marks]
    <3>1. PICK t, e, m : call = [at |-> "intercept", target |-> t, entry |-> e, marks |-> m]
      BY <1>2
    <3> HIDE DEF call, marks
    <3> QED
      BY <2>1, <3>1
  <2>3. Marked(marks, call.entry.chain)
    BY <1>2, <1>3, <1>4 DEF Marked
  <2>4. CallKept(calls'[c])
    <3> HIDE DEF marks
    <3> QED
      BY <2>2, <2>3, <1>2 DEF CallKept
  <2>5. calls' = [calls EXCEPT ![c] = calls'[c]]
    BY <1>4, <2>1
  <2> QED
    BY <1>1, <2>4, <2>5, CallStep
<1>5. CASE /\ call.entry.chain[position] = "reject"
           /\ calls' = [calls EXCEPT ![c] = Answered(call.target, "rejected")]
  <2>1. calls'[c] = Answered(call.target, "rejected")
    BY <1>5 DEF RoutingInv, CallsKept
  <2>2. position \in DOMAIN call.entry.chain
    BY <1>2, <1>3 DEF Marked
  <2>3. "reject" \in Range(call.entry.chain)
    BY <2>2, <1>5 DEF Range
  <2>4. PICK key \in DOMAIN routes : Matches(key, call.target.path) /\ call.entry = routes[key]
    BY <1>2
  <2>5. AnsweredBy(calls'[c], routes[key], ServerOf(routes[key]))
    BY <2>1, <2>3, <2>4 DEF AnsweredBy, Answered, ServerOf
  <2>6. CallKept(calls'[c])
    BY <2>1, <2>4, <2>5, <1>2 DEF CallKept, Answered
  <2>7. calls' = [calls EXCEPT ![c] = calls'[c]]
    BY <1>5, <2>1
  <2> QED
    BY <1>1, <2>6, <2>7, CallStep
<1> QED
  BY <1>4, <1>5 DEF Intercept

(* A call that has passed its whole chain is answered by the first arm of  *)
(* its path.                                                               *)
LEMMA DispatchKeeps ==
    ASSUME RoutingInv, NEW c \in Slots, Dispatch(c)
    PROVE  RoutingInv'
<1>1. stage = "serve" /\ UNCHANGED <<building, registry>> /\ calls[c].at = "intercept"
  BY Serving DEF Dispatch
<1> DEFINE call == calls[c]
           server == GenerateServer(services[call.entry.service])
           hit == Hits(server, call.target.path)
           handler == Handler(call.entry.version, server, server.arms[Min(hit)])
<1>2. /\ call.target \in Asked \cup Strangers
      /\ \E key \in DOMAIN routes : Matches(key, call.target.path) /\ call.entry = routes[key]
      /\ Marked(call.marks, call.entry.chain)
  BY <1>1, Intercepting
<1>3. Len(call.marks) = Len(call.entry.chain)
  BY DEF Dispatch
<1>4. calls' = [calls EXCEPT ![c] =
          IF hit = {} THEN Answered(call.target, "method not found")
          ELSE [Answered(call.target, "handled") EXCEPT
                    !.handler = handler, !.marks = call.marks]]
  BY DEF Dispatch, Hits
<1>5. calls'[c] = IF hit = {} THEN Answered(call.target, "method not found")
                  ELSE [Answered(call.target, "handled") EXCEPT
                            !.handler = handler, !.marks = call.marks]
  BY <1>4 DEF RoutingInv, CallsKept
<1>6. PICK key \in DOMAIN routes : Matches(key, call.target.path) /\ call.entry = routes[key]
  BY <1>2
<1>7. /\ AnsweredBy(calls'[c], routes[key], ServerOf(routes[key]))
      /\ calls'[c].at = "done" /\ calls'[c].target = call.target
  <2>1. CASE hit = {}
    <3>1. calls'[c] = Answered(call.target, "method not found")
      BY <2>1, <1>5
    <3>2. /\ calls'[c].at = "done" /\ calls'[c].target = call.target
          /\ calls'[c].answer = "method not found"
      <4> DEFINE target == call.target
                 answer == "method not found"
      <4>1. calls'[c] = Answered(target, answer)
        BY <3>1
      <4> HIDE DEF target, answer
      <4>2. calls'[c].at = "done" /\ calls'[c].target = target /\ calls'[c].answer = answer
        BY <4>1, AnsweredFields
      <4> QED
        BY <4>2 DEF target, answer
    <3>3. Hits(ServerOf(routes[key]), calls'[c].target.path) = {}
      BY <3>2, <2>1, <1>6 DEF ServerOf
    <3> QED
      BY <3>2, <3>3 DEF AnsweredBy
  <2>2. CASE hit # {}
    <3>1. calls'[c] = [Answered(call.target, "handled") EXCEPT
                           !.handler = handler, !.marks = call.marks]
      BY <2>2, <1>5
    <3>2. calls'[c] = [at |-> "done", target |-> call.target, answer |-> "handled",
                       handler |-> handler, marks |-> call.marks]
      BY <3>1 DEF Answered
    <3>3. call.entry = routes[key] /\ server = ServerOf(routes[key])
      BY <1>6 DEF ServerOf
    <3>4. calls'[c].target.path = call.target.path
      BY <3>2
    <3>5. Marked(call.marks, routes[key].chain) /\ Len(call.marks) = Len(routes[key].chain)
      BY <1>2, <1>3, <1>6
    <3>6. /\ calls'[c].handler = handler /\ calls'[c].marks = call.marks
          /\ calls'[c].answer = "handled"
      BY <3>2
    <3> QED
      BY <3>2, <3>3, <3>4, <3>5, <3>6, <2>2 DEF AnsweredBy
  <2> QED
    BY <2>1, <2>2
<1>8. CallKept(calls'[c])
  BY <1>2, <1>6, <1>7 DEF CallKept
<1>9. calls' = [calls EXCEPT ![c] = calls'[c]]
  BY <1>4, <1>5
<1> QED
  BY <1>1, <1>8, <1>9, CallStep

(* Every step of the specification keeps the routing.                      *)
LEMMA RoutingStep == RoutingInv /\ [ServicesNext]_servicesVars => RoutingInv'
<1> SUFFICES ASSUME RoutingInv, [ServicesNext]_servicesVars PROVE RoutingInv'
  OBVIOUS
<1>1. CASE Build
  BY <1>1, BuildKeeps, GenerateKeeps DEF Build
<1>2. CASE Register
  BY <1>2, BuildKeeps, AddServiceKeeps DEF Register
<1>3. CASE \E c \in Slots : Call(c)
  BY <1>3, SendKeeps, RouteKeeps, InterceptKeeps, DispatchKeeps DEF Call
<1>4. CASE UNCHANGED servicesVars
  <2>1. UNCHANGED <<stage, schema, services, routes, added, fallback, calls>>
    BY <1>4 DEF servicesVars, building, registry
  <2>2. ServicesNamed' /\ RoutesKept'
    BY <2>1, SameRegistry
  <2>3. \A d \in Slots : CallKept(calls[d])'
    BY <2>1, CallStays DEF RoutingInv, CallsKept
  <2> QED
    BY <2>1, <2>2, <2>3 DEF RoutingInv, CallsKept
<1> QED
  BY <1>1, <1>2, <1>3, <1>4 DEF ServicesNext

(* The routing invariant holds for every schema, chain and number of       *)
(* calls.                                                                  *)
LEMMA RoutingInvariant == ServicesSpec => []RoutingInv
<1> QED
  BY InitRouting, RoutingStep, PTL DEF ServicesSpec
-----------------------------------------------------------------------------
(* Texts, and the paths made of them.                                      *)

(* A sequence over a set is one over a larger set.                         *)
LEMMA Widen ==
    ASSUME NEW S, NEW T, S \subseteq T, NEW s \in Seq(S)
    PROVE  s \in Seq(T)
OBVIOUS

(* A word is a sequence.                                                   *)
LEMMA OneText ==
    ASSUME NEW S, NEW x \in S
    PROVE  <<x>> \in Seq(S)
OBVIOUS

(* Sequences over a set can be joined.                                     *)
LEMMA Joined == \A S : \A p, q \in Seq(S) : p \o q \in Seq(S)
OBVIOUS

(* What a path is made of.                                                 *)
PathWord == Word \cup {"_", ".", "::", "/"}

(* A text has no slash in it.                                              *)
LEMMA Texts ==
    /\ Text \subseteq Seq(PathWord)
    /\ <<".">> \in Text
    /\ <<"/">> \in Seq(PathWord)
    /\ \A text \in Text : \A i \in 1..Len(text) : text[i] # "/"
<1> DEFINE W == Word \cup {"_", ".", "::"}
<1>1. W \subseteq PathWord /\ "/" \in PathWord /\ "." \in W /\ "/" \notin W
  BY WordAssumption DEF PathWord
<1>2. Text = Seq(W)
  BY DEF Text
<1> HIDE DEF W
<1>3. \A s \in Seq(W) : s \in Seq(PathWord)
  BY <1>1, Widen
<1>4. <<".">> \in Seq(W)
  BY <1>1, OneText
<1>5. <<"/">> \in Seq(PathWord)
  BY <1>1, OneText
<1>6. \A s \in Seq(W) : \A i \in 1..Len(s) : s[i] # "/"
  BY <1>1
<1> QED
  BY <1>2, <1>3, <1>4, <1>5, <1>6

(* A service's full name is a text.                                        *)
LEMMA FqnText ==
    ASSUME NEW service, Named(service)
    PROVE  Fqn(service) \in Text
<1>1. /\ service.package \in Text /\ service.name \in Text
      /\ <<".">> \in Text
  BY Texts DEF Named
<1>2. \A p, q \in Text : p \o q \in Text
  BY Joined DEF Text
<1>3. service.package \o <<".">> \o service.name \in Text
  BY <1>1, <1>2
<1> QED
  BY <1>1, <1>3 DEF Fqn, Qualified

Spelled(path, g, m) ==
    /\ path \in Seq(PathWord)
    /\ Len(path) = Len(g) + Len(m) + 2 /\ Len(g) \in Nat /\ Len(m) \in Nat
    /\ path[1] = "/"
    /\ \A i \in 1..Len(g) : path[i + 1] = g[i] /\ g[i] # "/"
    /\ path[Len(g) + 2] = "/"
    /\ \A i \in 1..Len(m) : path[Len(g) + 2 + i] = m[i] /\ m[i] # "/"

(* A path is a slash, the service, a slash and the method.                 *)
LEMMA PathIs ==
    ASSUME NEW g \in Text, NEW m \in Text, NEW path,
           path = <<"/">> \o g \o <<"/">> \o m
    PROVE  Spelled(path, g, m)
<1>1. g \in Seq(PathWord) /\ m \in Seq(PathWord) /\ <<"/">> \in Seq(PathWord)
  BY Texts
<1>2. Len(g) \in Nat /\ Len(m) \in Nat
  BY <1>1
<1>3. /\ \A i \in 1..Len(g) : g[i] # "/"
      /\ \A i \in 1..Len(m) : m[i] # "/"
  BY Texts
<1> DEFINE a == <<"/">> \o g
           b == a \o <<"/">>
<1>4. /\ a \in Seq(PathWord) /\ Len(a) = Len(g) + 1 /\ a[1] = "/"
      /\ \A i \in 1..Len(g) : a[i + 1] = g[i]
  BY <1>1
<1>5. path = b \o m
  OBVIOUS
<1> HIDE DEF a
<1>6. /\ b \in Seq(PathWord) /\ Len(b) = Len(g) + 2 /\ b[Len(g) + 2] = "/"
      /\ \A i \in 1..Len(a) : b[i] = a[i]
  BY <1>1, <1>2, <1>4
<1> HIDE DEF b
<1>7. /\ path \in Seq(PathWord) /\ Len(path) = Len(g) + Len(m) + 2
      /\ \A i \in 1..Len(b) : path[i] = b[i]
      /\ \A i \in 1..Len(m) : path[Len(b) + i] = m[i]
  BY <1>1, <1>2, <1>5, <1>6
<1>8. path[1] = "/" /\ path[Len(g) + 2] = "/"
  BY <1>2, <1>4, <1>6, <1>7
<1>9. \A i \in 1..Len(g) : path[i + 1] = g[i]
  BY <1>2, <1>4, <1>6, <1>7
<1>10. \A i \in 1..Len(m) : path[Len(g) + 2 + i] = m[i]
  BY <1>2, <1>6, <1>7
<1> QED
  BY <1>2, <1>3, <1>7, <1>8, <1>9, <1>10 DEF Spelled

(* A key is a slash and the service.                                       *)
LEMMA KeyIs ==
    ASSUME NEW f \in Text, NEW key, key = <<"/">> \o f
    PROVE  /\ key \in Seq(PathWord) /\ Len(f) \in Nat /\ Len(key) = Len(f) + 1 /\ key[1] = "/"
           /\ \A i \in 1..Len(f) : key[i + 1] = f[i]
<1>1. f \in Seq(PathWord) /\ <<"/">> \in Seq(PathWord)
  BY Texts
<1> QED
  BY <1>1

(* A path has the key of one service only, whatever other names it begins  *)
(* with.                                                                   *)
LEMMA OnlyKey ==
    ASSUME NEW f \in Text, NEW g \in Text, NEW m \in Text, NEW path,
           path = <<"/">> \o g \o <<"/">> \o m, Matches(<<"/">> \o f, path)
    PROVE  f = g
<1> DEFINE key == <<"/">> \o f
<1>0. path = <<"/">> \o g \o <<"/">> \o m
  OBVIOUS
<1>1. /\ path \in Seq(PathWord)
      /\ Len(path) = Len(g) + Len(m) + 2 /\ Len(g) \in Nat /\ Len(m) \in Nat
      /\ path[1] = "/"
      /\ \A i \in 1..Len(g) : path[i + 1] = g[i] /\ g[i] # "/"
      /\ path[Len(g) + 2] = "/"
      /\ \A i \in 1..Len(m) : path[Len(g) + 2 + i] = m[i] /\ m[i] # "/"
  <2>1. Spelled(path, g, m)
    BY <1>0, PathIs
  <2> QED
    BY <2>1 DEF Spelled
<1>2. /\ key \in Seq(PathWord) /\ Len(f) \in Nat /\ Len(key) = Len(f) + 1 /\ key[1] = "/"
      /\ \A i \in 1..Len(f) : key[i + 1] = f[i]
  BY KeyIs
<1>3. f \in Seq(PathWord) /\ g \in Seq(PathWord)
  BY Texts
<1>4. Matches(key, path)
  OBVIOUS
<1> HIDE DEF key
<1>5. f = g
  <2>1. /\ SubSeq(key, 1, Len(key)) = SubSeq(path, 1, Len(key))
        /\ Len(path) > Len(key) /\ path[Len(f) + 2] = "/"
    BY <1>2, <1>4 DEF Matches, IsPrefix
  <2>2. \A i \in 1..Len(key) : key[i] = path[i]
    <3> TAKE i \in 1..Len(key)
    <3>1. SubSeq(key, 1, Len(key))[i] = key[i]
      BY <1>2
    <3>2. SubSeq(path, 1, Len(key))[i] = path[i]
      BY <1>1, <1>2, <2>1
    <3> QED
      BY <2>1, <3>1, <3>2
  <2>3. Len(f) = Len(g)
    <3>1. ~(Len(f) < Len(g))
      <4> SUFFICES ASSUME Len(f) < Len(g) PROVE FALSE
        OBVIOUS
      <4>1. Len(f) + 1 \in 1..Len(g) /\ (Len(f) + 1) + 1 = Len(f) + 2
        BY <1>1, <1>2
      <4> QED
        BY <4>1, <1>1, <2>1
    <3>2. ~(Len(f) > Len(g))
      <4> SUFFICES ASSUME Len(f) > Len(g) PROVE FALSE
        OBVIOUS
      <4>1. Len(f) - Len(g) \in 1..Len(m) /\ Len(g) + 2 + (Len(f) - Len(g)) = Len(f) + 2
        BY <1>1, <1>2, <2>1
      <4> QED
        BY <4>1, <1>1, <2>1
    <3> QED
      BY <3>1, <3>2, <1>1, <1>2
  <2>4. \A i \in 1..Len(f) : f[i] = g[i]
    <3> TAKE i \in 1..Len(f)
    <3>1. i + 1 \in 1..Len(key)
      BY <1>2
    <3> QED
      BY <3>1, <1>1, <1>2, <2>2, <2>3
  <2> QED
    BY <1>3, <2>3, <2>4
<1> QED
  BY <1>5

(* And it has the key of its own.                                          *)
LEMMA OwnKey ==
    ASSUME NEW g \in Text, NEW m \in Text, NEW path,
           path = <<"/">> \o g \o <<"/">> \o m
    PROVE  Matches(<<"/">> \o g, path)
<1> DEFINE key == <<"/">> \o g
<1>0. path = <<"/">> \o g \o <<"/">> \o m
  OBVIOUS
<1>1. /\ path \in Seq(PathWord)
      /\ Len(path) = Len(g) + Len(m) + 2 /\ Len(g) \in Nat /\ Len(m) \in Nat
      /\ path[1] = "/"
      /\ \A i \in 1..Len(g) : path[i + 1] = g[i] /\ g[i] # "/"
      /\ path[Len(g) + 2] = "/"
      /\ \A i \in 1..Len(m) : path[Len(g) + 2 + i] = m[i] /\ m[i] # "/"
  <2>1. Spelled(path, g, m)
    BY <1>0, PathIs
  <2> QED
    BY <2>1 DEF Spelled
<1>2. /\ key \in Seq(PathWord) /\ Len(g) \in Nat /\ Len(key) = Len(g) + 1 /\ key[1] = "/"
      /\ \A i \in 1..Len(g) : key[i + 1] = g[i]
  BY KeyIs
<1>3. g \in Seq(PathWord)
  BY Texts
<1> HIDE DEF key
<1>4. Matches(key, path)
  <2>1. Len(key) < Len(path) /\ path[Len(key) + 1] = "/"
    BY <1>1, <1>2
  <2>2. \A i \in 1..Len(key) : key[i] = path[i]
    <3> TAKE i \in 1..Len(key)
    <3>1. CASE i = 1
      BY <3>1, <1>1, <1>2
    <3>2. CASE i # 1
      <4>1. i - 1 \in 1..Len(g) /\ (i - 1) + 1 = i
        BY <3>2, <1>2
      <4> QED
        <5>1. path[(i - 1) + 1] = g[i - 1]
          BY <4>1, <1>1
        <5>2. key[(i - 1) + 1] = g[i - 1]
          BY <4>1, <1>2
        <5> QED
          BY <4>1, <5>1, <5>2
    <3> QED
      BY <3>1, <3>2
  <2>3. SubSeq(key, 1, Len(key)) = SubSeq(path, 1, Len(key))
    <3> DEFINE a == SubSeq(key, 1, Len(key))
               b == SubSeq(path, 1, Len(key))
    <3>1. a \in Seq(PathWord) /\ Len(a) = Len(key) /\ \A i \in 1..Len(key) : a[i] = key[i]
      BY <1>2
    <3>2. b \in Seq(PathWord) /\ Len(b) = Len(key) /\ \A i \in 1..Len(key) : b[i] = path[i]
      <4>1. Len(key) \in Nat /\ Len(key) \in 0..Len(path)
        BY <1>1, <1>2, <2>1
      <4> QED
        BY <4>1, <1>1
    <3> HIDE DEF a, b
    <3>3. \A i \in 1..Len(key) : a[i] = b[i]
      BY <3>1, <3>2, <2>2
    <3>4. a = b
      BY <3>1, <3>2, <3>3
    <3> QED
      BY <3>4 DEF a, b
  <2> QED
    BY <2>1, <2>3, <1>1, <1>2 DEF Matches, IsPrefix
<1> QED
  BY <1>4 DEF key

(* Two methods of a service that have one path have one name.              *)
LEMMA OnePath ==
    ASSUME NEW g \in Text, NEW l \in Text, NEW m \in Text,
           <<"/">> \o g \o <<"/">> \o l = <<"/">> \o g \o <<"/">> \o m
    PROVE  l = m
<1> DEFINE path == <<"/">> \o g \o <<"/">> \o l
<1>1. /\ Len(path) = Len(g) + Len(l) + 2 /\ Len(g) \in Nat /\ Len(l) \in Nat
      /\ \A i \in 1..Len(l) : path[Len(g) + 2 + i] = l[i]
  BY PathIs DEF Spelled
<1>2. /\ Len(path) = Len(g) + Len(m) + 2 /\ Len(m) \in Nat
      /\ \A i \in 1..Len(m) : path[Len(g) + 2 + i] = m[i]
  BY PathIs DEF Spelled
<1>3. l \in Seq(PathWord) /\ m \in Seq(PathWord)
  BY Texts
<1> HIDE DEF path
<1>4. Len(l) = Len(m)
  BY <1>1, <1>2
<1>5. \A i \in 1..Len(l) : l[i] = m[i]
  BY <1>1, <1>2, <1>4
<1> QED
  BY <1>3, <1>4, <1>5
-----------------------------------------------------------------------------
(* What the invariant says of a call that is over.                         *)

(* A call that is over was answered by a registration it matches, or there *)
(* was none.                                                               *)
LEMMA DoneCall ==
    ASSUME RoutingInv, NEW call \in DoneCalls
    PROVE  /\ call.target \in Asked \cup Strangers
           /\ \/ /\ call.answer = (IF fallback = "yes" THEN "fallback" ELSE "service not found")
                 /\ \A key \in DOMAIN routes : ~Matches(key, call.target.path)
              \/ \E key \in DOMAIN routes :
                     /\ Matches(key, call.target.path)
                     /\ AnsweredBy(call, routes[key], ServerOf(routes[key]))
<1>1. PICK c \in Slots : calls[c].at = "done" /\ call = calls[c]
  BY DEF DoneCalls
<1>2. CallKept(call)
  BY <1>1 DEF RoutingInv, CallsKept
<1>3. call.at = "done"
  BY <1>1
<1>4. /\ call # NoCall
      /\ call.at # "sent" /\ call.at # "intercept"
  BY <1>3 DEF NoCall
<1> QED
  BY <1>2, <1>4 DEF CallKept

(* A registration is of a service that was generated, under its key.       *)
LEMMA RouteTyped ==
    ASSUME RoutingInv, NEW key \in DOMAIN routes
    PROVE  /\ routes[key].service \in DOMAIN services
           /\ routes[key].chain \in Seq({"mark", "reject"})
           /\ key = Key(services[routes[key].service])
           /\ \A l \in DOMAIN routes : routes[l].version = routes[key].version => l = key
BY DEF RoutingInv, RoutesKept, Registration

(* A call was handled with all the marks of its chain.                     *)
LEMMA Guarded == RoutingInv => InterceptorsGuard
<1> SUFFICES ASSUME RoutingInv, NEW call \in DoneCalls, Handled(call)
             PROVE  LET chain == (CHOOSE r \in Range(routes) :
                                      r.version = call.handler.version).chain
                    IN  /\ "reject" \notin Range(chain)
                        /\ call.marks = [i \in DOMAIN chain |-> i]
  BY DEF InterceptorsGuard
<1>1. PICK key \in DOMAIN routes : AnsweredBy(call, routes[key], ServerOf(routes[key]))
  BY DoneCall DEF Handled
<1>2. /\ call.handler.version = routes[key].version
      /\ Marked(call.marks, routes[key].chain) /\ Len(call.marks) = Len(routes[key].chain)
  BY <1>1 DEF AnsweredBy, Handled, Handler
<1>3. routes[key] \in Range(routes)
  BY DEF Range
<1>4. ASSUME NEW r \in Range(routes), r.version = call.handler.version
      PROVE  r = routes[key]
  <2>1. PICK l \in DOMAIN routes : r = routes[l]
    BY DEF Range
  <2>2. l = key
    BY <2>1, <1>2, <1>4, RouteTyped
  <2> QED
    BY <2>1, <2>2
<1>5. (CHOOSE r \in Range(routes) : r.version = call.handler.version) = routes[key]
  BY <1>2, <1>3, <1>4
<1> DEFINE chain == routes[key].chain
<1>6. chain \in Seq({"mark", "reject"})
  BY RouteTyped
<1> HIDE DEF chain
<1>7. "reject" \notin Range(chain)
  BY <1>2, <1>6 DEF Marked, Range, chain
<1>8. call.marks = [i \in DOMAIN chain |-> i]
  <2>1. /\ call.marks \in Seq(Nat) /\ DOMAIN call.marks = DOMAIN chain
        /\ \A i \in DOMAIN call.marks : call.marks[i] = i
    BY <1>2, <1>6 DEF Marked, chain
  <2>2. call.marks = [i \in DOMAIN call.marks |-> call.marks[i]]
    BY <2>1
  <2> QED
    BY <2>1, <2>2
<1> QED
  BY <1>5, <1>7, <1>8 DEF chain

(* A service that was generated has a key of its own.                      *)
LEMMA ServiceNamed ==
    ASSUME RoutingInv, NEW i \in DOMAIN services
    PROVE  /\ Named(services[i]) /\ Compiles(GenerateServer(services[i]))
           /\ Fqn(services[i]) \in Text
           /\ \A k \in DOMAIN services : Key(services[k]) = Key(services[i]) => k = i
<1>1. /\ \A k \in DOMAIN services : Named(services[k]) /\ Compiles(GenerateServer(services[k]))
      /\ \A k, l \in DOMAIN services : Fqn(services[k]) = Fqn(services[l]) => k = l
  BY DEF RoutingInv, ServicesNamed
<1>2. \A k \in DOMAIN services : Fqn(services[k]) \in Text
  BY <1>1, FqnText
<1>3. \A f, g \in Text : <<"/">> \o f = <<"/">> \o g => f = g
  <2> SUFFICES ASSUME NEW f \in Text, NEW g \in Text, <<"/">> \o f = <<"/">> \o g
               PROVE  f = g
    OBVIOUS
  <2> DEFINE key == <<"/">> \o f
  <2>1. /\ Len(f) \in Nat /\ Len(key) = Len(f) + 1
        /\ \A j \in 1..Len(f) : key[j + 1] = f[j]
    BY KeyIs
  <2>2. /\ Len(g) \in Nat /\ Len(key) = Len(g) + 1
        /\ \A j \in 1..Len(g) : key[j + 1] = g[j]
    BY KeyIs
  <2>3. f \in Seq(PathWord) /\ g \in Seq(PathWord)
    BY Texts
  <2> HIDE DEF key
  <2> QED
    BY <2>1, <2>2, <2>3
<1> QED
  BY <1>1, <1>2, <1>3 DEF Key

(* A call that is not known matches no path, or no key.                    *)
LEMMA StrangersTurned == RoutingInv => StrangersTurnedAway
<1> SUFFICES ASSUME RoutingInv, NEW call \in DoneCalls
             PROVE
        /\ Handled(call) => \E s \in ToSet(services) : \E m \in ToSet(s.methods) :
               call.target.path = GrpcPath(s, m)
        /\ call.answer = "service not found" => fallback = "no"
        /\ call.answer \in {"fallback", "service not found"} =>
               \A s \in ToSet(services) :
                   <<"/">> \o Fqn(s) \in DOMAIN routes =>
                       \A rest \in {m.name : m \in ToSet(s.methods)} :
                           call.target.path # <<"/">> \o Fqn(s) \o <<"/">> \o rest
  BY DEF StrangersTurnedAway
<1>1. ASSUME Handled(call)
      PROVE  \E s \in ToSet(services) : \E m \in ToSet(s.methods) :
                 call.target.path = GrpcPath(s, m)
  <2>1. PICK key \in DOMAIN routes : AnsweredBy(call, routes[key], ServerOf(routes[key]))
    BY <1>1, DoneCall DEF Handled
  <2>2. PICK j \in DOMAIN ServerOf(routes[key]).arms :
            ServerOf(routes[key]).arms[j].path = call.target.path
    BY <2>1, <1>1 DEF AnsweredBy, Hits, Handled
  <2> DEFINE s == services[routes[key].service]
  <2>3. s \in ToSet(services)
    BY RouteTyped DEF ToSet
  <2>4. /\ j \in DOMAIN s.methods
        /\ ServerOf(routes[key]).arms[j].path = GrpcPath(s, s.methods[j])
    BY <2>2 DEF ServerOf, GenerateServer, DispatchArm
  <2>5. s.methods[j] \in ToSet(s.methods)
    BY <2>4 DEF ToSet
  <2> QED
    BY <2>2, <2>3, <2>4, <2>5
<1>2. ASSUME call.answer \in {"fallback", "service not found"}
      PROVE  /\ call.answer = (IF fallback = "yes" THEN "fallback" ELSE "service not found")
             /\ \A key \in DOMAIN routes : ~Matches(key, call.target.path)
  BY <1>2, DoneCall DEF AnsweredBy
<1>3. ASSUME call.answer \in {"fallback", "service not found"},
             NEW s \in ToSet(services), <<"/">> \o Fqn(s) \in DOMAIN routes,
             NEW m \in ToSet(s.methods)
      PROVE  call.target.path # <<"/">> \o Fqn(s) \o <<"/">> \o m.name
  <2>1. PICK i \in DOMAIN services : s = services[i]
    BY DEF ToSet
  <2>2. Fqn(s) \in Text /\ m.name \in Text
    BY <2>1, ServiceNamed DEF Named, ToSet
  <2>3. SUFFICES ASSUME call.target.path = <<"/">> \o Fqn(s) \o <<"/">> \o m.name PROVE FALSE
    OBVIOUS
  <2>4. Matches(<<"/">> \o Fqn(s), call.target.path)
    BY <2>2, <2>3, OwnKey
  <2> QED
    BY <1>2, <1>3, <2>4
<1>4. call.answer = "service not found" => fallback = "no"
  BY <1>2 DEF RoutingInv
<1> QED
  BY <1>1, <1>3, <1>4
-----------------------------------------------------------------------------
(* A call that is known goes to its method: to the struct of the same      *)
(* name, of which rustc has accepted only one.                             *)

(* The places of two lists joined.                                         *)
LEMMA ConcatDomain ==
    ASSUME NEW S, NEW a \in Seq(S), NEW b \in Seq(S), NEW c, c = a \o b
    PROVE  DOMAIN c = 1..Len(a) + Len(b)
OBVIOUS

(* What is at the places of the second.                                    *)
LEMMA ConcatAt ==
    ASSUME NEW S, NEW a \in Seq(S), NEW b \in Seq(S), NEW c, c = a \o b,
           NEW k \in 1..Len(b)
    PROVE  c[Len(a) + k] = b[k]
OBVIOUS

(* The handler that runs for a path.                                       *)
Run(version, server, path) == Handler(version, server, server.arms[Min(Hits(server, path))])

(* rustc has accepted the structs of a server: each has a name of its own. *)
LEMMA OwnStruct ==
    ASSUME NEW s, Named(s), Compiles(GenerateServer(s)),
           NEW i \in DOMAIN s.methods, NEW j \in DOMAIN s.methods,
           SvcIdent(s.methods[i]) = SvcIdent(s.methods[j])
    PROVE  i = j
<1>1. PICK n \in Nat : DOMAIN s.methods = 1..n
  BY DEF Named
<1> DEFINE types == <<s.name, s.name \o <<"Server">>>>
           names == [k \in 1..n |-> SvcIdent(s.methods[k])]
           all == types \o names
<1>2. Names(GenerateServer(s).svcs) = names
  BY <1>1 DEF Names, GenerateServer, SvcStruct
<1>3. IsInjective(all)
  BY <1>2 DEF Compiles, GenerateServer
<1> DEFINE S == {s.name, s.name \o <<"Server">>} \cup { SvcIdent(s.methods[k]) : k \in 1..n }
<1>4. types \in Seq(S) /\ Len(types) = 2
  OBVIOUS
<1>5. names \in Seq(S) /\ Len(names) = n /\ \A k \in 1..n : names[k] = SvcIdent(s.methods[k])
  BY <1>1
<1> HIDE DEF types, names, S
<1>6. DOMAIN all = 1..2 + n /\ \A k \in 1..n : all[2 + k] = names[k]
  <2>1. all = types \o names
    OBVIOUS
  <2>2. DOMAIN all = 1..Len(types) + Len(names)
    BY <1>4, <1>5, ConcatDomain
  <2>3. ASSUME NEW k \in 1..Len(names)
        PROVE  all[Len(types) + k] = names[k]
    <3>1. k \in 1..Len(names) /\ types \in Seq(S) /\ names \in Seq(S) /\ all = types \o names
      BY <1>4, <1>5, <2>3
    <3> HIDE DEF all
    <3> QED
      BY <3>1, ConcatAt
  <2> QED
    BY <2>2, <2>3, <1>4, <1>5
<1>7. i \in 1..n /\ j \in 1..n /\ names[i] = names[j]
  BY <1>1, <1>5
<1> HIDE DEF all
<1>8. all[2 + i] = all[2 + j] /\ 2 + i \in DOMAIN all /\ 2 + j \in DOMAIN all
  BY <1>6, <1>7
<1>9. 2 + i = 2 + j
  BY <1>3, <1>8 DEF IsInjective
<1> QED
  BY <1>7, <1>9

(* A method's arm has the path its client asks for.                        *)
LEMMA OwnPath ==
    ASSUME NEW s, Named(s), NEW i \in DOMAIN s.methods, NEW j \in DOMAIN s.methods,
           GrpcPath(s, s.methods[i]) = GrpcPath(s, s.methods[j])
    PROVE  i = j
<1>1. s.methods[i].name \in Text /\ s.methods[j].name \in Text /\ Fqn(s) \in Text
  BY FqnText DEF Named
<1>2. s.methods[i].name = s.methods[j].name
  BY <1>1, OnePath DEF GrpcPath
<1>3. IsInjective(Names(s.methods))
  BY DEF Named
<1> QED
  BY <1>2, <1>3 DEF IsInjective, Names

(* And no other arm of that server has it.                                 *)
LEMMA MethodHit ==
    ASSUME NEW s, Named(s), Compiles(GenerateServer(s)), NEW j \in DOMAIN s.methods,
           NEW version
    PROVE  /\ Hits(GenerateServer(s), GrpcPath(s, s.methods[j])) # {}
           /\ Run(version, GenerateServer(s), GrpcPath(s, s.methods[j])) =
                  [version |-> version, arm |-> DispatchArm(s, s.methods[j]),
                   svc |-> SvcStruct(s.methods[j])]
<1> DEFINE path == GrpcPath(s, s.methods[j])
<1> DEFINE server == GenerateServer(s)
           hit == Hits(server, path)
           arm == DispatchArm(s, s.methods[j])
<1>1. /\ DOMAIN server.arms = DOMAIN s.methods
      /\ \A k \in DOMAIN s.methods : server.arms[k] = DispatchArm(s, s.methods[k])
  BY DEF GenerateServer
<1>2. \A k \in DOMAIN s.methods : DispatchArm(s, s.methods[k]).path = GrpcPath(s, s.methods[k])
  BY DEF DispatchArm
<1>3. j \in hit
  BY <1>1, <1>2 DEF Hits
<1>4. ASSUME NEW k \in hit PROVE k = j
  BY <1>1, <1>2, OwnPath DEF Hits
<1>5. j \in Nat
  BY DEF Named
<1>6. hit = {j}
  BY <1>3, <1>4
<1>7. Min(hit) = j
  BY <1>5, <1>6 DEF Min
<1>8. server.arms[Min(hit)] = arm
  BY <1>1, <1>7
<1>9. /\ DOMAIN server.svcs = DOMAIN s.methods
      /\ \A k \in DOMAIN s.methods : server.svcs[k] = SvcStruct(s.methods[k])
  BY DEF GenerateServer
<1>10. \A k \in DOMAIN s.methods : SvcStruct(s.methods[k]).name = SvcIdent(s.methods[k])
  BY DEF SvcStruct
<1>11. arm.svc = SvcIdent(s.methods[j])
  BY DEF DispatchArm
<1>12. ASSUME NEW svc \in ToSet(server.svcs), svc.name = arm.svc
       PROVE  svc = SvcStruct(s.methods[j])
  <2>1. PICK k \in DOMAIN s.methods : svc = SvcStruct(s.methods[k])
    BY <1>9 DEF ToSet
  <2>2. SvcIdent(s.methods[k]) = SvcIdent(s.methods[j])
    BY <2>1, <1>10, <1>11, <1>12
  <2>3. k = j
    BY <2>2, OwnStruct
  <2> QED
    BY <2>1, <2>3
<1>13. SvcStruct(s.methods[j]) \in ToSet(server.svcs) /\ SvcStruct(s.methods[j]).name = arm.svc
  BY <1>9, <1>10, <1>11 DEF ToSet
<1> HIDE DEF server, arm, hit
<1>14. (CHOOSE svc \in ToSet(server.svcs) : svc.name = arm.svc) = SvcStruct(s.methods[j])
  BY <1>12, <1>13
<1>15. Handler(version, server, arm) =
           [version |-> version, arm |-> arm, svc |-> SvcStruct(s.methods[j])]
  BY <1>14 DEF Handler
<1>16. hit # {}
  BY <1>6
<1> QED
  BY <1>8, <1>15, <1>16 DEF server, arm, hit, Run

(* So a known call reaches its method, unless an interceptor rejects it.   *)
LEMMA Reaches == RoutingInv => ReachesItsMethod
<1> SUFFICES ASSUME RoutingInv, NEW call \in DoneCalls,
                    Known(call), "reject" \notin Range(RouteOf(call).chain)
             PROVE  /\ Handled(call)
                    /\ call.handler.version = RouteOf(call).version
                    /\ call.handler.svc.calls = Expected(call).name
                    /\ {call.handler.arm.shape, call.handler.svc.shape} = {Expected(call).shape}
                    /\ call.handler.arm.decode = Expected(call).encode
                    /\ call.handler.arm.encode = Expected(call).decode
  BY DEF ReachesItsMethod
<1> DEFINE i == call.target.service
           j == call.target.method
           s == services[i]
           m == s.methods[j]
           path == call.target.path
           K == Key(s)
<1>1. i \in DOMAIN services /\ j \in DOMAIN s.methods
  <2>1. i # 0
    BY DEF Known
  <2>2. call.target \in Asked \cup Strangers
    BY DoneCall
  <2>3. call.target \notin Strangers
    BY <2>1 DEF Strangers
  <2>4. \E k \in DOMAIN services :
            call.target \in { [service |-> k, method |-> l,
                               path |-> o \o GenerateClient(services[k])[l].path] :
                                  l \in DOMAIN services[k].methods, o \in Origins }
    BY <2>2, <2>3 DEF Asked
  <2> QED
    BY <2>4
<1>2. K \in DOMAIN routes /\ path = GrpcPath(s, m)
  BY DEF Known, Key
<1>3. /\ Named(s) /\ Compiles(GenerateServer(s)) /\ Fqn(s) \in Text
      /\ \A k \in DOMAIN services : Key(services[k]) = Key(s) => k = i
  BY <1>1, ServiceNamed
<1>4. m.name \in Text
  BY <1>1, <1>3 DEF Named
<1>5. RouteOf(call) = routes[K] /\ Expected(call) = ClientMethod(s, m)
  BY <1>1 DEF RouteOf, Key, Expected, GenerateClient
<1>6. ASSUME NEW key \in DOMAIN routes
      PROVE  /\ Matches(key, path) => key = K
             /\ key = K => Matches(key, path)
  <2> DEFINE r == services[routes[key].service]
  <2>1. key = Key(r) /\ routes[key].service \in DOMAIN services
    BY RouteTyped
  <2>2. Fqn(r) \in Text
    BY <2>1, ServiceNamed
  <2>3. path = <<"/">> \o Fqn(s) \o <<"/">> \o m.name
    BY <1>2 DEF GrpcPath
  <2>4. /\ Matches(<<"/">> \o Fqn(r), path) => Fqn(r) = Fqn(s)
        /\ Fqn(r) = Fqn(s) => Matches(<<"/">> \o Fqn(r), path)
    <3> DEFINE f == Fqn(r)
               g == Fqn(s)
               n == m.name
    <3>1. f \in Text /\ g \in Text /\ n \in Text /\ path = <<"/">> \o g \o <<"/">> \o n
      BY <2>2, <2>3, <1>3, <1>4
    <3> HIDE DEF f, g, n, path
    <3>2. Matches(<<"/">> \o f, path) => f = g
      BY <3>1, OnlyKey
    <3>3. Matches(<<"/">> \o g, path)
      BY <3>1, OwnKey
    <3> QED
      BY <3>2, <3>3 DEF f, g
  <2>5. Fqn(r) = Fqn(s) => Key(r) = K
    BY DEF Key
  <2>6. Key(r) = K => Fqn(r) = Fqn(s)
    BY <2>1, <1>3
  <2>7. Key(r) = <<"/">> \o Fqn(r)
    BY DEF Key
  <2> HIDE DEF r, K, path, s
  <2> QED
    BY <2>1, <2>4, <2>5, <2>6, <2>7
<1>7. routes[K].service = i
  BY <1>2, <1>3, RouteTyped
<1>8. Matches(K, path)
  BY <1>2, <1>6
<1>9. AnsweredBy(call, routes[K], GenerateServer(s))
  BY <1>2, <1>6, <1>7, <1>8, DoneCall DEF ServerOf
<1> DEFINE handler == Run(routes[K].version, GenerateServer(s), path)
<1>10. /\ Hits(GenerateServer(s), path) # {}
       /\ handler = [version |-> routes[K].version, arm |-> DispatchArm(s, m),
                     svc |-> SvcStruct(m)]
  BY <1>1, <1>2, <1>3, MethodHit
<1>11. call.answer = "handled" /\ call.handler = handler
  <2>1. "reject" \notin Range(routes[K].chain)
    BY <1>5
  <2> QED
    BY <2>1, <1>9, <1>10 DEF AnsweredBy, Run
<1>12. call.handler = [version |-> routes[K].version, arm |-> DispatchArm(s, m),
                       svc |-> SvcStruct(m)]
  BY <1>10, <1>11
<1>13. /\ DispatchArm(s, m).shape = m.shape /\ SvcStruct(m).shape = m.shape
       /\ SvcStruct(m).calls = ClientMethod(s, m).name
       /\ ClientMethod(s, m).shape = m.shape
       /\ DispatchArm(s, m).decode = ClientMethod(s, m).encode
       /\ DispatchArm(s, m).encode = ClientMethod(s, m).decode
  BY DEF DispatchArm, SvcStruct, ClientMethod
<1> HIDE DEF m, s, K
<1> QED
  BY <1>5, <1>11, <1>12, <1>13 DEF Handled

(***************************************************************************)
(* A call runs the method it was generated for and nothing else: only the  *)
(* key of its service is a prefix of its path that ends at a slash, only   *)
(* one arm has the path, and only one struct the arm's name                *)
(* (router.rs:95-104, 181-196, server_gen.rs:194-298).                     *)
(***************************************************************************)
THEOREM CallsAreRouted == ServicesSpec => []CallsRouted
<1>1. RoutingInv => CallsRouted
  BY Reaches, StrangersTurned DEF CallsRouted
<1> QED
  BY <1>1, RoutingInvariant, PTL

(***************************************************************************)
(* No method runs past an interceptor that rejects, and one that runs has  *)
(* the metadata of all of them in order (interceptor.rs:76-99).            *)
(***************************************************************************)
THEOREM InterceptorsAlwaysGuard == ServicesSpec => []InterceptorsGuard
BY RoutingInvariant, Guarded, PTL
-----------------------------------------------------------------------------
(* The sum over a function's domain, an argument at a time.                *)

(* Induction over numbers.                                                 *)
LEMMA Induction ==
    ASSUME NEW T, 0 \in T, \A n \in Nat : n \in T => n + 1 \in T
    PROVE  Nat \subseteq T
<1> DEFINE R == {q \in Nat \X Nat : q[1] < q[2]}
           F == Nat \ T
<1>1. IsWellFoundedOn(R, Nat)
  BY NatLessThanWellFounded DEF OpToRel
<1>2. SUFFICES ASSUME F # {} PROVE FALSE
  OBVIOUS
<1>3. F \subseteq Nat
  OBVIOUS
<1> HIDE DEF R, F
<1>4. PICK x \in F : \A y \in F : <<y, x>> \notin R
  BY <1>1, <1>2, <1>3, WFMin
<1>5. x \in Nat /\ x # 0 /\ x \notin T
  BY <1>4 DEF F
<1>6. x - 1 \in Nat /\ (x - 1) + 1 = x /\ x - 1 < x
  BY <1>5
<1>7. <<x - 1, x>> \in R
  BY <1>5, <1>6 DEF R
<1>8. x - 1 \in T
  BY <1>4, <1>6, <1>7 DEF F
<1> QED
  BY <1>5, <1>6, <1>8

(* The sum of a function over the sets of its arguments, an argument at a  *)
(* time.                                                                   *)
Pick(s) == CHOOSE x \in s : TRUE
Added(f, s, sums) == IF s = {} THEN 0 ELSE f[Pick(s)] + sums[s \ {Pick(s)}]
Sums(f, S) == CHOOSE sums : sums = [s \in SUBSET S |-> Added(f, s, sums)]

(* The sum over a function is the last of its partial sums.                *)
LEMMA TotalIs == \A f : FoldFunction(+, 0, f) = Sums(f, DOMAIN f)[DOMAIN f]
BY DEF FoldFunction, FoldFunctionOnSet, MapThenFoldSet, Sums, Added, Pick

(* A finite set without the argument picked from it is smaller.            *)
LEMMA SmallerSet ==
    ASSUME NEW s, IsFiniteSet(s), s # {}
    PROVE  /\ Pick(s) \in s /\ IsFiniteSet(s \ {Pick(s)})
           /\ Cardinality(s) \in Nat /\ Cardinality(s) # 0
           /\ Cardinality(s \ {Pick(s)}) = Cardinality(s) - 1
<1>1. Pick(s) \in s
  BY DEF Pick
<1>2. Cardinality(s) \in Nat /\ Cardinality(s) # 0
  BY FS_CardinalityType, FS_EmptySet
<1> QED
  BY <1>1, <1>2, FS_RemoveElement

(* There are partial sums over a finite set.                               *)
LEMMA SumsExist ==
    ASSUME NEW S, IsFiniteSet(S), NEW f
    PROVE  \E sums : sums = [s \in SUBSET S |-> Added(f, s, sums)]
<1> DEFINE Small(k) == { s \in SUBSET S : Cardinality(s) <= k }
           Right(sums, k) == sums = [s \in Small(k) |-> Added(f, s, sums)]
           T == { k \in Nat : \E sums : Right(sums, k) }
<1>1. \A s \in SUBSET S : IsFiniteSet(s) /\ Cardinality(s) \in Nat
  BY FS_Subset, FS_CardinalityType
<1>2. 0 \in T
  <2> DEFINE none == [s \in Small(0) |-> 0]
  <2>1. \A s \in Small(0) : s = {}
    BY <1>1, FS_EmptySet
  <2>2. none = [s \in Small(0) |-> Added(f, s, none)]
    BY <2>1 DEF Added
  <2> HIDE DEF none
  <2>3. Right(none, 0)
    BY <2>2
  <2> QED
    BY <2>3
<1>3. ASSUME NEW k \in Nat, k \in T PROVE k + 1 \in T
  <2>1. PICK small : Right(small, k)
    BY <1>3
  <2> DEFINE D == Small(k)
             E == Small(k + 1)
             sums == [s \in E |-> IF s \in D THEN small[s] ELSE Added(f, s, small)]
  <2>2. \A s \in D : s \in E /\ sums[s] = small[s]
    BY <1>1
  <2>3. ASSUME NEW s \in E, s # {} PROVE s \ {Pick(s)} \in D
    <3>1. IsFiniteSet(s)
      BY <1>1
    <3>2. Cardinality(s \ {Pick(s)}) = Cardinality(s) - 1 /\ Cardinality(s) \in Nat
      BY <2>3, <3>1, SmallerSet
    <3> QED
      BY <3>2
  <2>4. ASSUME NEW s \in E PROVE sums[s] = Added(f, s, sums)
    <3>1. s # {} => sums[s \ {Pick(s)}] = small[s \ {Pick(s)}]
      BY <2>2, <2>3
    <3>2. s \in D => small[s] = Added(f, s, small)
      BY <2>1
    <3>3. sums[s] = Added(f, s, small)
      BY <3>2
    <3> HIDE DEF sums
    <3> QED
      BY <3>1, <3>3 DEF Added
  <2>5. sums = [s \in E |-> sums[s]]
    OBVIOUS
  <2> HIDE DEF sums
  <2>6. Right(sums, k + 1)
    BY <2>4, <2>5
  <2> HIDE DEF Right
  <2> QED
    BY <2>6
<1> HIDE DEF T
<1>4. Cardinality(S) \in T
  BY <1>1, <1>2, <1>3, Induction
<1>5. Small(Cardinality(S)) = SUBSET S
  BY <1>1, FS_Subset
<1> QED
  BY <1>4, <1>5 DEF T

(* Each is that of one argument fewer, and the argument's value.           *)
LEMMA SumsAre ==
    ASSUME NEW S, IsFiniteSet(S), NEW f
    PROVE  \A s \in SUBSET S : Sums(f, S)[s] = Added(f, s, Sums(f, S))
<1> DEFINE sums == Sums(f, S)
<1>1. sums = [s \in SUBSET S |-> Added(f, s, sums)]
  BY SumsExist DEF Sums
<1> HIDE DEF sums
<1>2. \A s \in SUBSET S : sums[s] = Added(f, s, sums)
  BY <1>1
<1> QED
  BY <1>2 DEF sums

(* The sum of nothing.                                                     *)
LEMMA SumOfNone ==
    ASSUME NEW S, IsFiniteSet(S), NEW f, \A x \in S : f[x] = 0
    PROVE  Sums(f, S)[S] = 0
<1> DEFINE sums == Sums(f, S)
           T == { k \in Nat : \A s \in SUBSET S : Cardinality(s) = k => sums[s] = 0 }
<1>1. \A s \in SUBSET S : sums[s] = Added(f, s, sums)
  BY SumsAre
<1> HIDE DEF sums
<1>2. \A s \in SUBSET S : IsFiniteSet(s) /\ Cardinality(s) \in Nat
  BY FS_Subset, FS_CardinalityType
<1>3. 0 \in T
  BY <1>1, <1>2, FS_EmptySet DEF Added
<1>4. ASSUME NEW k \in Nat, k \in T PROVE k + 1 \in T
  <2> SUFFICES ASSUME NEW s \in SUBSET S, Cardinality(s) = k + 1 PROVE sums[s] = 0
    OBVIOUS
  <2>1. s # {}
    BY FS_EmptySet
  <2>2. /\ Pick(s) \in s /\ s \ {Pick(s)} \in SUBSET S
        /\ Cardinality(s \ {Pick(s)}) = k
    BY <1>2, <2>1, SmallerSet
  <2>3. sums[s \ {Pick(s)}] = 0
    BY <1>4, <2>2
  <2>4. sums[s] = f[Pick(s)] + sums[s \ {Pick(s)}]
    BY <1>1, <2>1 DEF Added
  <2> QED
    BY <2>2, <2>3, <2>4
<1>5. Cardinality(S) \in T
  <2> HIDE DEF T
  <2> QED
    BY <1>2, <1>3, <1>4, Induction
<1> QED
  BY <1>5 DEF sums

(* One more call to an endpoint is one more in all.                        *)
LEMMA SumOfOneMore ==
    ASSUME NEW S, IsFiniteSet(S), NEW f \in [S -> Nat], NEW e \in S, NEW g,
           g = [f EXCEPT ![e] = f[e] + 1]
    PROVE  Sums(f, S)[S] \in Nat /\ Sums(g, S)[S] = Sums(f, S)[S] + 1
<1> DEFINE old == Sums(f, S)
           new == Sums(g, S)
           One(s) == IF e \in s THEN 1 ELSE 0
           T == { k \in Nat : \A s \in SUBSET S :
                      Cardinality(s) = k => old[s] \in Nat /\ new[s] = old[s] + One(s) }
<1>1. /\ \A s \in SUBSET S : old[s] = Added(f, s, old)
      /\ \A s \in SUBSET S : new[s] = Added(g, s, new)
  BY SumsAre
<1> HIDE DEF old, new
<1>2. \A s \in SUBSET S : IsFiniteSet(s) /\ Cardinality(s) \in Nat
  BY FS_Subset, FS_CardinalityType
<1>3. 0 \in T
  <2> SUFFICES ASSUME NEW s \in SUBSET S, Cardinality(s) = 0
               PROVE  old[s] \in Nat /\ new[s] = old[s] + One(s)
    OBVIOUS
  <2>1. s = {}
    BY <1>2, FS_EmptySet
  <2>2. old[s] = 0 /\ new[s] = 0
    BY <1>1, <2>1 DEF Added
  <2> QED
    BY <2>1, <2>2
<1>4. ASSUME NEW k \in Nat, k \in T PROVE k + 1 \in T
  <2> SUFFICES ASSUME NEW s \in SUBSET S, Cardinality(s) = k + 1
               PROVE  old[s] \in Nat /\ new[s] = old[s] + One(s)
    OBVIOUS
  <2>1. s # {}
    BY FS_EmptySet
  <2> DEFINE p == Pick(s)
             r == s \ {p}
  <2>2. p \in s /\ r \in SUBSET S /\ Cardinality(r) = k
    BY <1>2, <2>1, SmallerSet
  <2>3. old[r] \in Nat /\ new[r] = old[r] + One(r)
    BY <1>4, <2>2
  <2>4. old[s] = f[p] + old[r] /\ new[s] = g[p] + new[r]
    BY <1>1, <2>1 DEF Added
  <2>5. p \in S /\ f[p] \in Nat /\ g[p] = f[p] + (IF p = e THEN 1 ELSE 0)
    BY <2>2
  <2>6. One(s) = (IF p = e THEN 1 ELSE 0) + One(r)
    BY <2>2
  <2> HIDE DEF p, r, One
  <2>7. One(r) \in {0, 1}
    BY DEF One
  <2> QED
    BY <2>3, <2>4, <2>5, <2>6, <2>7
<1>5. Cardinality(S) \in T
  <2> HIDE DEF T
  <2> QED
    BY <1>2, <1>3, <1>4, Induction
<1> QED
  BY <1>5 DEF old, new
-----------------------------------------------------------------------------
(* The calls each endpoint is sent, from the calls sent in all.            *)

(* How many of the first n values of the counter go to endpoint e.         *)
Share(n, e) == (n + Endpoints - e) \div Endpoints

(* The counter has wrapped around q times.                                 *)
Spread(q) ==
    /\ load \in [1..Endpoints -> Nat]
    /\ next \in 0..CounterSize - 1
    /\ Sums(load, 1..Endpoints)[1..Endpoints] = q * CounterSize + next
    /\ \A e \in 1..Endpoints : load[e] = q * Share(CounterSize, e) + Share(next, e)

LoadInv == \E q \in Nat : Spread(q)

(* Facts of division with a remainder.                                     *)
LEMMA Quotient ==
    ASSUME NEW a \in Nat, NEW n \in Nat \ {0}
    PROVE  /\ a \div n \in Nat
           /\ a % n \in 0..n - 1
           /\ a = ((a \div n) * n) + (a % n)
OBVIOUS

LEMMA QuotientIs ==
    ASSUME NEW q \in Nat, NEW n \in Nat \ {0}, NEW r \in 0..n - 1
    PROVE  (q * n + r) \div n = q
OBVIOUS

LEMMA QuotientUp ==
    ASSUME NEW a \in Nat, NEW n \in Nat \ {0}
    PROVE  (a + 1) \div n = (a \div n) + (IF a % n = n - 1 THEN 1 ELSE 0)
OBVIOUS

LEMMA QuotientNear ==
    ASSUME NEW a \in Nat, NEW b \in Nat, NEW n \in Nat \ {0}, a < b + n
    PROVE  a \div n <= (b \div n) + 1
OBVIOUS

LEMMA RemainderIs ==
    ASSUME NEW q \in Nat, NEW n \in Nat \ {0}, NEW r \in 0..n - 1
    PROVE  (q * n + r) % n = r
OBVIOUS

(* Counting on from a remainder.                                           *)
LEMMA ModShift ==
    ASSUME NEW a \in Nat, NEW n \in Nat \ {0}, NEW e \in 1..n
    PROVE  /\ (a + n - e) % n = n - 1 => (a % n) + 1 = e
           /\ (a % n) + 1 = e => (a + n - e) % n = n - 1
<1> DEFINE d == a \div n
           r == a % n
<1>1. d \in Nat /\ r \in 0..n - 1 /\ a = (d * n) + r
  BY Quotient
<1> HIDE DEF d, r
<1>2. (d + 1) * n = (d * n) + n
  BY <1>1
<1>3. CASE r >= e
  <2>1. a + n - e = ((d + 1) * n) + (r - e) /\ r - e \in 0..n - 1
    BY <1>1, <1>2, <1>3
  <2>2. (a + n - e) % n = r - e
    BY <2>1, <1>1, RemainderIs
  <2> QED
    BY <2>2, <1>1, <1>3 DEF r
<1>4. CASE r < e
  <2>1. a + n - e = (d * n) + (r + n - e) /\ r + n - e \in 0..n - 1
    BY <1>1, <1>4
  <2> DEFINE m == (a + n - e) % n
  <2>2. m = r + n - e
    BY <2>1, <1>1, RemainderIs
  <2> HIDE DEF m
  <2>3. m = n - 1 => r + 1 = e
    BY <2>2, <1>1, <1>4
  <2>4. r + 1 = e => m = n - 1
    BY <2>2, <1>1, <1>4
  <2> QED
    BY <2>3, <2>4 DEF r, m
<1> QED
  BY <1>1, <1>3, <1>4

(* What an endpoint has had, from the number of calls since the last wrap. *)
LEMMA ShareIs ==
    ASSUME NEW n \in Nat, NEW e \in 1..Endpoints
    PROVE  /\ Share(n, e) \in Nat
           /\ Share(0, e) = 0
           /\ Share(n + 1, e) = Share(n, e) + (IF (n % Endpoints) + 1 = e THEN 1 ELSE 0)
<1>1. Endpoints \in Nat \ {0}
  BY ServicesAssumption
<1> DEFINE a == n + Endpoints - e
<1>2. a \in Nat /\ n + 1 + Endpoints - e = a + 1
  BY <1>1
<1>3. a \div Endpoints \in Nat
  BY <1>1, <1>2, Quotient
<1>4. (a + 1) \div Endpoints
          = (a \div Endpoints) + (IF a % Endpoints = Endpoints - 1 THEN 1 ELSE 0)
  BY <1>1, <1>2, QuotientUp
<1>5. /\ a % Endpoints = Endpoints - 1 => (n % Endpoints) + 1 = e
      /\ (n % Endpoints) + 1 = e => a % Endpoints = Endpoints - 1
  BY <1>1, ModShift
<1>6. (0 + Endpoints - e) \div Endpoints = 0
  <2>1. Endpoints - e \in 0..Endpoints - 1 /\ 0 + Endpoints - e = 0 * Endpoints + (Endpoints - e)
    BY <1>1
  <2> QED
    BY <2>1, <1>1, QuotientIs
<1>7. /\ Share(n, e) = a \div Endpoints /\ Share(n + 1, e) = (a + 1) \div Endpoints
      /\ Share(0, e) = (0 + Endpoints - e) \div Endpoints
  BY <1>2 DEF Share
<1> HIDE DEF a
<1> QED
  BY <1>3, <1>4, <1>5, <1>6, <1>7

(* Shares are never more than one apart.                                   *)
LEMMA ShareNear ==
    ASSUME NEW n \in Nat, NEW a \in 1..Endpoints, NEW b \in 1..Endpoints
    PROVE  Share(n, a) <= Share(n, b) + 1
<1>1. Endpoints \in Nat \ {0}
  BY ServicesAssumption
<1>2. /\ n + Endpoints - a \in Nat /\ n + Endpoints - b \in Nat
      /\ n + Endpoints - a < (n + Endpoints - b) + Endpoints
  BY <1>1
<1> QED
  BY <1>1, <1>2, QuotientNear DEF Share

(* No endpoint has had a call at the start.                                *)
LEMMA InitLoad == ServicesInit => LoadInv
<1> SUFFICES ASSUME ServicesInit PROVE Spread(0)
  BY DEF LoadInv
<1>1. Endpoints \in Nat \ {0} /\ CounterSize \in Nat \ {0}
  BY ServicesAssumption
<1>2. load = [e \in 1..Endpoints |-> 0] /\ next = 0
  BY DEF ServicesInit
<1>3. Sums(load, 1..Endpoints)[1..Endpoints] = 0
  BY <1>1, <1>2, SumOfNone, FS_Interval
<1>4. \A e \in 1..Endpoints : Share(0, e) = 0 /\ Share(CounterSize, e) \in Nat
  BY <1>1, ShareIs
<1> QED
  BY <1>1, <1>2, <1>3, <1>4 DEF Spread

(* A product of numbers is a number.                                       *)
LEMMA Product ==
    ASSUME NEW q \in Nat, NEW x \in Nat
    PROVE  (q + 1) * x = (q * x) + x /\ q * x \in Nat
OBVIOUS

(* A call sent goes to the endpoint whose turn it is.                      *)
LEMMA SendSpreads ==
    ASSUME LoadInv, NEW c \in Slots, Send(c)
    PROVE  LoadInv'
<1>1. Endpoints \in Nat \ {0} /\ CounterSize \in Nat \ {0}
  BY ServicesAssumption
<1>2. PICK q \in Nat : Spread(q)
  BY DEF LoadInv
<1> DEFINE S == 1..Endpoints
           e == (next % Endpoints) + 1
<1>3. /\ load \in [S -> Nat] /\ next \in 0..CounterSize - 1
      /\ Sums(load, S)[S] = q * CounterSize + next
      /\ \A f \in S : load[f] = q * Share(CounterSize, f) + Share(next, f)
  BY <1>2 DEF Spread
<1>4. load' = [load EXCEPT ![e] = load[e] + 1] /\ next' = (next + 1) % CounterSize
  BY DEF Send
<1>5. e \in S
  <2>1. next \in Nat
    BY <1>1, <1>3
  <2>2. next % Endpoints \in 0..Endpoints - 1
    BY <2>1, <1>1, Quotient
  <2> QED
    BY <2>2, <1>1
<1>6. load' \in [S -> Nat]
  BY <1>3, <1>4, <1>5
<1>7. Sums(load', S)[S] = q * CounterSize + (next + 1)
  <2>1. IsFiniteSet(S)
    BY <1>1, FS_Interval
  <2> HIDE DEF S, e
  <2>2. Sums(load', S)[S] = Sums(load, S)[S] + 1
    BY <2>1, <1>3, <1>4, <1>5, SumOfOneMore
  <2>3. q * CounterSize \in Nat /\ next \in Nat
    BY <1>1, <1>3
  <2> QED
    BY <2>2, <2>3, <1>3
<1>8. ASSUME NEW f \in S
      PROVE  load'[f] = q * Share(CounterSize, f) + Share(next + 1, f)
  <2>1. next \in Nat
    BY <1>1, <1>3
  <2>2. /\ Share(next, f) \in Nat /\ Share(CounterSize, f) \in Nat
        /\ Share(next + 1, f) = Share(next, f) + (IF e = f THEN 1 ELSE 0)
    BY <2>1, <1>1, ShareIs
  <2>3. load'[f] = load[f] + (IF e = f THEN 1 ELSE 0)
    BY <1>3, <1>4, <1>5
  <2>4. load[f] = q * Share(CounterSize, f) + Share(next, f)
    BY <1>3
  <2>5. q * Share(CounterSize, f) \in Nat
    BY <2>2
  <2> HIDE DEF e
  <2> QED
    BY <2>2, <2>3, <2>4, <2>5
<1>9. CASE next + 1 < CounterSize
  <2>1. next + 1 \in 0..CounterSize - 1 /\ next + 1 = 0 * CounterSize + (next + 1)
    BY <1>1, <1>3, <1>9
  <2>2. next' = next + 1
    BY <2>1, <1>1, <1>4, RemainderIs
  <2>3. Spread(q)'
    BY <2>1, <2>2, <1>6, <1>7, <1>8 DEF Spread
  <2> QED
    BY <2>3 DEF LoadInv
<1>10. CASE next + 1 = CounterSize
  <2>1. next + 1 = 1 * CounterSize + 0 /\ 0 \in 0..CounterSize - 1
    BY <1>1, <1>10
  <2>2. next' = 0
    BY <2>1, <1>1, <1>4, RemainderIs
  <2>3. (q + 1) * CounterSize = (q * CounterSize) + CounterSize /\ q * CounterSize \in Nat
    BY <1>1, Product
  <2>4. Sums(load', S)[S] = (q + 1) * CounterSize + next'
    BY <2>2, <2>3, <1>1, <1>7, <1>10
  <2>5. ASSUME NEW f \in S
        PROVE  load'[f] = (q + 1) * Share(CounterSize, f) + Share(next', f)
    <3>1. Share(CounterSize, f) \in Nat /\ Share(0, f) = 0
      BY <1>1, ShareIs
    <3>2. (q + 1) * Share(CounterSize, f) = (q * Share(CounterSize, f)) + Share(CounterSize, f)
      BY <3>1, Product
    <3>3. q * Share(CounterSize, f) \in Nat
      BY <3>1
    <3>4. load'[f] = q * Share(CounterSize, f) + Share(CounterSize, f)
      BY <1>8, <1>10
    <3> QED
      BY <3>1, <3>2, <3>3, <3>4, <2>2
  <2>6. Spread(q + 1)'
    BY <2>1, <2>2, <2>4, <2>5, <1>6 DEF Spread
  <2> QED
    BY <2>6 DEF LoadInv
<1> QED
  BY <1>1, <1>3, <1>9, <1>10

(* Every step of the specification keeps the spread.                       *)
LEMMA LoadStep == LoadInv /\ [ServicesNext]_servicesVars => LoadInv'
<1> SUFFICES ASSUME LoadInv, [ServicesNext]_servicesVars PROVE LoadInv'
  OBVIOUS
<1>1. ASSUME UNCHANGED <<next, load>> PROVE LoadInv'
  BY <1>1 DEF LoadInv, Spread
<1>2. CASE Build \/ Register \/ UNCHANGED servicesVars
  BY <1>1, <1>2 DEF Build, Collect, CollectDone, Generate, Register, AddService, SetFallback,
                    Serve, servicesVars
<1>3. CASE \E c \in Slots : Call(c)
  BY <1>1, <1>3, SendSpreads DEF Call, Route, Intercept, Dispatch
<1> QED
  BY <1>2, <1>3 DEF ServicesNext

(* And calls so spread are even.                                           *)
LEMMA SpreadIsEven == LoadInv => EvenLoad
<1> SUFFICES ASSUME LoadInv, NEW a \in 1..Endpoints, NEW b \in 1..Endpoints
             PROVE  load[a] <= load[b] + 1 + (FoldFunction(+, 0, load) \div CounterSize)
  BY DEF EvenLoad
<1>1. Endpoints \in Nat \ {0} /\ CounterSize \in Nat \ {0}
  BY ServicesAssumption
<1>2. PICK q \in Nat : Spread(q)
  BY DEF LoadInv
<1>3. /\ load \in [1..Endpoints -> Nat] /\ next \in 0..CounterSize - 1 /\ next \in Nat
      /\ Sums(load, 1..Endpoints)[1..Endpoints] = q * CounterSize + next
      /\ load[a] = q * Share(CounterSize, a) + Share(next, a)
      /\ load[b] = q * Share(CounterSize, b) + Share(next, b)
  BY <1>1, <1>2 DEF Spread
<1>4. FoldFunction(+, 0, load) \div CounterSize = q
  <2>1. FoldFunction(+, 0, load) = Sums(load, 1..Endpoints)[1..Endpoints]
    <3>1. DOMAIN load = 1..Endpoints
      BY <1>3
    <3> QED
      BY <3>1, TotalIs
  <2>2. FoldFunction(+, 0, load) = q * CounterSize + next
    BY <2>1, <1>3
  <2>3. (q * CounterSize + next) \div CounterSize = q
    BY <1>1, <1>3, QuotientIs
  <2> QED
    BY <2>2, <2>3
<1> DEFINE x == Share(CounterSize, a)
           y == Share(CounterSize, b)
           u == Share(next, a)
           v == Share(next, b)
<1>5. x \in Nat /\ y \in Nat /\ u \in Nat /\ v \in Nat /\ x <= y + 1 /\ u <= v + 1
  BY <1>1, <1>3, ShareIs, ShareNear
<1> HIDE DEF x, y, u, v
<1>6. q * x <= q * y + q
  <2>1. q * x <= q * (y + 1)
    BY <1>5
  <2>2. q * (y + 1) = q * y + q
    BY <1>5
  <2> QED
    BY <2>1, <2>2
<1>7. load[a] = q * x + u /\ load[b] = q * y + v
  BY <1>3 DEF x, y, u, v
<1>8. q * x \in Nat /\ q * y \in Nat
  BY <1>5
<1> DEFINE total == FoldFunction(+, 0, load)
<1>9. total \div CounterSize = q
  BY <1>4
<1>10. load[a] <= load[b] + 1 + q
  BY <1>5, <1>6, <1>7, <1>8
<1> HIDE DEF total
<1>11. load[a] <= load[b] + 1 + (total \div CounterSize)
  BY <1>9, <1>10
<1> QED
  BY <1>11 DEF total

(***************************************************************************)
(* Concurrent callers that share a channel spread their calls over any     *)
(* number of endpoints: none is ahead of another by more than one, and one *)
(* more for each time the counter has wrapped around (balance.rs:71).      *)
(***************************************************************************)
THEOREM LoadIsEven == ServicesSpec => []EvenLoad
<1>1. ServicesSpec => []LoadInv
  BY InitLoad, LoadStep, PTL DEF ServicesSpec
<1> QED
  BY <1>1, SpreadIsEven, PTL
-----------------------------------------------------------------------------
(* Names, in full and for short, and lists of them.                        *)

(* The greatest of a set of numbers.                                       *)
LEMMA MaxIs ==
    ASSUME NEW S, S \subseteq Nat, NEW m \in S, \A y \in S : y <= m
    PROVE  Max(S) = m
<1>1. \A x \in S : (\A y \in S : x >= y) => x = m
  OBVIOUS
<1>2. \A y \in S : m >= y
  OBVIOUS
<1> QED
  BY <1>1, <1>2 DEF Max

(* The least of such a set.                                                *)
LEMMA MinIs ==
    ASSUME NEW S, S \subseteq Nat, NEW m \in S, \A y \in S : m <= y
    PROVE  Min(S) = m
<1>1. \A x \in S : (\A y \in S : x <= y) => x = m
  OBVIOUS
<1> QED
  BY <1>1 DEF Min

(* A set of numbers has a least one.                                       *)
LEMMA MinBelow ==
    ASSUME NEW S, S \subseteq Nat, S # {}
    PROVE  Min(S) \in S /\ \A y \in S : Min(S) <= y
<1> DEFINE R == {q \in Nat \X Nat : q[1] < q[2]}
<1>1. IsWellFoundedOn(R, Nat)
  BY NatLessThanWellFounded DEF OpToRel
<1>2. PICK x \in S : \A y \in S : <<y, x>> \notin R
  <2> HIDE DEF R
  <2> QED
    BY <1>1, WFMin
<1>3. \A y \in S : x <= y
  <2> TAKE y \in S
  <2>1. x \in Nat /\ y \in Nat /\ <<y, x>> \notin R
    BY <1>2
  <2>2. ~(y < x)
    BY <2>1
  <2> QED
    BY <2>1, <2>2
<1>4. Min(S) = x
  BY <1>3, MinIs
<1> QED
  BY <1>3, <1>4

(* The texts of names and types, and those of bare names.                  *)
TextWord == Word \cup {"_", ".", "::"}

(* A bare name has no separator of names in it.                            *)
LEMMA Bare ==
    ASSUME NEW n \in Identifier
    PROVE  /\ n \in Seq(TextWord)
           /\ \A i \in DOMAIN n : n[i] # "." /\ n[i] # "::"
<1> DEFINE W == Word \cup {"_"}
<1>1. n \in Seq(W)
  BY DEF Identifier
<1>2. W \subseteq TextWord /\ "." \notin W /\ "::" \notin W
  BY WordAssumption DEF TextWord
<1> HIDE DEF W
<1>3. n \in Seq(TextWord)
  BY <1>1, <1>2, Widen
<1> QED
  BY <1>1, <1>2, <1>3

(* A qualified name can be taken apart again.                              *)
LEMMA NameParts ==
    ASSUME NEW p \in Text, NEW n \in Identifier
    PROVE  /\ LastAfter(Qualified(p, n), ".") = n
           /\ SplitNamespace(Qualified(p, n)) = p
<1>1. p \in Seq(TextWord) /\ n \in Seq(TextWord) /\ \A i \in DOMAIN n : n[i] # "."
  BY Bare DEF Text, TextWord
<1>2. CASE p = <<>>
  <2>1. Qualified(p, n) = n
    BY <1>2 DEF Qualified
  <2>2. LastAfter(n, ".") = n
    BY <1>1 DEF LastAfter
  <2> QED
    BY <2>1, <2>2, <1>2 DEF SplitNamespace
<1>3. CASE p # <<>>
  <2> DEFINE a == p \o <<".">>
             t == a \o n
             at == { i \in DOMAIN t : t[i] = "." }
             P == Len(p)
             N == Len(n)
  <2>1. P \in Nat /\ N \in Nat
    BY <1>1
  <2>2. <<".">> \in Seq(TextWord)
    <3>1. "." \in TextWord
      BY DEF TextWord
    <3> QED
      BY <3>1, OneText
  <2>3. /\ a \in Seq(TextWord) /\ Len(a) = P + 1 /\ a[P + 1] = "."
        /\ \A i \in 1..P : a[i] = p[i]
    BY <1>1, <2>2
  <2> HIDE DEF a
  <2>4. /\ t \in Seq(TextWord) /\ Len(t) = P + 1 + N
        /\ \A i \in 1..P + 1 : t[i] = a[i]
        /\ \A i \in 1..N : t[P + 1 + i] = n[i]
    BY <1>1, <2>1, <2>3
  <2>5. Qualified(p, n) = t
    BY <1>3 DEF Qualified, a
  <2> HIDE DEF t
  <2>6. P + 1 \in at /\ at \subseteq Nat
    BY <2>1, <2>3, <2>4
  <2>7. ASSUME NEW i \in at PROVE i <= P + 1
    <3> SUFFICES ASSUME i > P + 1 PROVE FALSE
      BY <2>6, <2>1
    <3>1. i - (P + 1) \in 1..N /\ P + 1 + (i - (P + 1)) = i
      BY <2>1, <2>4
    <3>2. t[i] = n[i - (P + 1)]
      BY <2>4, <3>1
    <3> QED
      BY <3>1, <3>2, <1>1
  <2>8. Max(at) = P + 1 /\ at # {}
    <3> HIDE DEF at
    <3> QED
      BY <2>6, <2>7, MaxIs
  <2>9. SubSeq(t, P + 1 + 1, Len(t)) = n
    <3> DEFINE u == SubSeq(t, P + 1 + 1, Len(t))
    <3>1. u \in Seq(TextWord) /\ Len(u) = N /\ \A i \in 1..N : u[i] = t[P + 1 + i]
      BY <2>1, <2>4
    <3> HIDE DEF u
    <3>2. u = n
      BY <3>1, <2>4, <1>1
    <3> QED
      BY <3>2 DEF u
  <2>10. LastAfter(t, ".") = n
    BY <2>8, <2>9 DEF LastAfter
  <2>11. n # t
    BY <2>1, <2>4
  <2>12. SubSeq(t, 1, Len(t) - N - 1) = p
    <3> DEFINE u == SubSeq(t, 1, P)
    <3>1. Len(t) - N - 1 = P
      BY <2>1, <2>4
    <3>2. u \in Seq(TextWord) /\ Len(u) = P /\ \A i \in 1..P : u[i] = t[i]
      BY <2>1, <2>4
    <3> HIDE DEF u
    <3>3. \A i \in 1..P : u[i] = p[i]
      BY <3>2, <2>1, <2>3, <2>4
    <3>4. u = p
      BY <3>2, <3>3, <1>1
    <3> QED
      BY <3>1, <3>4 DEF u
  <2>13. SplitNamespace(t) = p
    BY <2>10, <2>11, <2>12 DEF SplitNamespace
  <2> QED
    BY <2>5, <2>10, <2>13
<1> QED
  BY <1>2, <1>3

(* A set that has been put into a sequence is all there.                   *)
LEMMA ListOf ==
    ASSUME NEW S, IsFiniteSet(S)
    PROVE  SetToSeq(S) \in Seq(S) /\ ToSet(SetToSeq(S)) = S
<1> DEFINE n == Cardinality(S)
<1>1. n \in Nat /\ ExistsBijection(1..n, S)
  BY FS_CardinalityType
<1>2. \E f \in [1..n -> S] : IsInjective(f)
  <2>1. PICK f \in Injection(1..n, S) : TRUE
    BY <1>1 DEF ExistsBijection, Bijection
  <2> QED
    BY <2>1 DEF Injection
<1>3. SetToSeq(S) \in [1..n -> S] /\ IsInjective(SetToSeq(S))
  BY <1>2 DEF SetToSeq
<1>4. SetToSeq(S) \in Injection(1..n, S)
  BY <1>3 DEF Injection
<1>5. SetToSeq(S) \in Surjection(1..n, S)
  <2>1. IsFiniteSet(1..n) /\ Cardinality(1..n) = n
    BY <1>1, FS_Interval
  <2> QED
    BY <2>1, <1>4, FS_Injection
<1>6. ToSet(SetToSeq(S)) = S
  BY <1>3, <1>5 DEF ToSet, Surjection
<1> QED
  BY <1>1, <1>3, <1>6
-----------------------------------------------------------------------------
(* The worklist of messages.                                               *)

Messages == schema.messages
Found(id) == FindMessage(Messages, SplitNamespace(id), LastAfter(id, "."))
(* Messages that are found where their own names are looked for, and what  *)
(* they are called.                                                        *)
Findable == { m \in ToSet(Messages) : FindMessage(Messages, m.namespace, m.name) = {m} }
FindableIds == { QualifiedName(m) : m \in Findable }

SchemaTyped == schema \in Schemas /\ schema.kind = "fbs"

WorkInv ==
    /\ schema \in Schemas
    /\ schema.kind = "fbs" =>
        /\ stage # "collect" => frontier = <<>>
        /\ frontier \in Seq(FindableIds) /\ needed \subseteq FindableIds
        /\ RpcIoMessages(schema) \subseteq needed \cup ToSet(frontier)
        /\ \A id \in needed : \A m \in Found(id) :
               Referenced(schema, m) \subseteq needed \cup ToSet(frontier)
        /\ \A s : RpcIoMessages(schema) \subseteq s /\ Closed(s) =>
               needed \cup ToSet(frontier) \subseteq s

(* What the FlatBuffers compiler accepts.                                  *)
LEMMA MessagesTyped ==
    ASSUME SchemaTyped
    PROVE  /\ Messages \in Seq(MessageDescriptor)
           /\ \A m \in ToSet(Messages) :
                  m.namespace \in Text /\ m.name \in Identifier
           /\ \A m, l \in ToSet(Messages) :
                  m.namespace = l.namespace /\ m.name = l.name => m = l
<1>1. /\ Messages \in Seq(MessageDescriptor)
      /\ \A i, j \in DOMAIN Messages :
             Messages[i].namespace = Messages[j].namespace
                 /\ Messages[i].name = Messages[j].name => i = j
  BY MessagesAssumption DEF SchemaTyped, Messages
<1>2. \A m \in ToSet(Messages) : m \in MessageDescriptor
  BY <1>1 DEF ToSet
<1>3. \A m \in ToSet(Messages) : m.namespace \in Text /\ m.name \in Identifier
  BY <1>2 DEF MessageDescriptor
<1>4. \A m, l \in ToSet(Messages) : m.namespace = l.namespace /\ m.name = l.name => m = l
  BY <1>1 DEF ToSet
<1> QED
  BY <1>1, <1>3, <1>4

(* A full name is of one message only.                                     *)
LEMMA NamesApart ==
    ASSUME SchemaTyped, NEW m \in ToSet(Messages), NEW l \in ToSet(Messages),
           QualifiedName(m) = QualifiedName(l)
    PROVE  m = l
<1>1. /\ m.namespace \in Text /\ m.name \in Identifier
      /\ l.namespace \in Text /\ l.name \in Identifier
  BY MessagesTyped
<1>2. m.name = l.name /\ m.namespace = l.namespace
  <2>1. /\ LastAfter(QualifiedName(m), ".") = m.name
        /\ SplitNamespace(QualifiedName(m)) = m.namespace
    BY <1>1, NameParts DEF QualifiedName
  <2>2. /\ LastAfter(QualifiedName(l), ".") = l.name
        /\ SplitNamespace(QualifiedName(l)) = l.namespace
    BY <1>1, NameParts DEF QualifiedName
  <2> QED
    BY <2>1, <2>2
<1> QED
  BY <1>2, MessagesTyped

(* A message that is found where its name leads is found by its full name. *)
LEMMA FoundOwn ==
    ASSUME SchemaTyped, NEW m \in Findable
    PROVE  Found(QualifiedName(m)) = {m}
<1>1. m \in ToSet(Messages) /\ FindMessage(Messages, m.namespace, m.name) = {m}
  BY DEF Findable
<1>2. m.namespace \in Text /\ m.name \in Identifier
  BY <1>1, MessagesTyped
<1>3. /\ LastAfter(QualifiedName(m), ".") = m.name
      /\ SplitNamespace(QualifiedName(m)) = m.namespace
  BY <1>2, NameParts DEF QualifiedName
<1> QED
  BY <1>1, <1>3 DEF Found

(* What is found is where its own name leads to.                           *)
LEMMA FoundFindable ==
    ASSUME SchemaTyped, NEW ns, NEW name, NEW m \in FindMessage(Messages, ns, name)
    PROVE  m \in Findable
<1> DEFINE hits == { i \in DOMAIN Messages :
                       Messages[i].name = name /\ (ns = <<>> \/ ns = Messages[i].namespace) }
           k == Min(hits)
<1>1. hits # {} /\ m = Messages[k]
  BY DEF FindMessage, FirstOf
<1>2. DOMAIN Messages \subseteq Nat
  <2>1. Messages \in Seq(MessageDescriptor)
    BY MessagesTyped
  <2> HIDE DEF Messages
  <2> QED
    BY <2>1
<1>3. k \in hits /\ \A i \in hits : k <= i
  <2>1. hits \subseteq Nat
    BY <1>2
  <2> HIDE DEF hits
  <2> QED
    BY <1>1, <2>1, MinBelow
<1> DEFINE own == { i \in DOMAIN Messages :
                      Messages[i].name = m.name
                          /\ (m.namespace = <<>> \/ m.namespace = Messages[i].namespace) }
<1>4. k \in own /\ own \subseteq Nat
  BY <1>1, <1>2, <1>3
<1>5. ASSUME NEW i \in own PROVE k <= i
  <2>1. CASE ns = <<>>
    <3>1. i \in hits
      BY <2>1, <1>1, <1>3
    <3> QED
      BY <3>1, <1>3
  <2>2. CASE ns # <<>>
    <3>1. m.namespace = ns /\ m.name = name
      BY <2>2, <1>1, <1>3
    <3>2. i \in hits
      BY <2>2, <3>1
    <3> QED
      BY <3>2, <1>3
  <2> QED
    BY <2>1, <2>2
<1>6. Min(own) = k
  <2> HIDE DEF own, k
  <2> QED
    BY <1>4, <1>5, MinIs
<1>7. FindMessage(Messages, m.namespace, m.name) = {m}
  BY <1>1, <1>4, <1>6 DEF FindMessage, FirstOf
<1>8. m \in ToSet(Messages)
  BY <1>1, <1>3 DEF ToSet
<1> QED
  BY <1>7, <1>8 DEF Findable

(* A bare type is looked for in every namespace.                           *)
LEMMA QualifyIsFind == \A messages, raw :
    QualifyMessage(messages, raw) = FindMessage(messages, <<>>, LastAfter(raw, "::"))
BY DEF QualifyMessage, FindMessage

(* The worklist begins with messages that are found by their full names.   *)
LEMMA IoFindable ==
    ASSUME SchemaTyped
    PROVE  RpcIoMessages(schema) \subseteq FindableIds
<1> SUFFICES ASSUME NEW id \in RpcIoMessages(schema) PROVE id \in FindableIds
  OBVIOUS
<1>1. PICK raw, m : m \in QualifyMessage(Messages, raw) /\ id = QualifiedName(m)
  BY DEF RpcIoMessages, Messages
<1>2. m \in Findable
  BY <1>1, QualifyIsFind, FoundFindable
<1> QED
  BY <1>1, <1>2 DEF FindableIds

(* And so are those that are referred to.                                  *)
LEMMA ReferencedFindable ==
    ASSUME SchemaTyped, NEW m
    PROVE  Referenced(schema, m) \subseteq FindableIds
<1> SUFFICES ASSUME NEW id \in Referenced(schema, m) PROVE id \in FindableIds
  OBVIOUS
<1>1. PICK r, l : l \in FindMessage(Messages, r.package, r.name) /\ id = QualifiedName(l)
  BY DEF Referenced, Messages
<1>2. l \in Findable
  BY <1>1, FoundFindable
<1> QED
  BY <1>1, <1>2 DEF FindableIds

(* There are finitely many messages, so any set of them can be listed.     *)
LEMMA IdsFinite ==
    ASSUME SchemaTyped, NEW S, S \subseteq FindableIds
    PROVE  SetToSeq(S) \in Seq(FindableIds) /\ ToSet(SetToSeq(S)) = S
<1>1. Messages \in Seq(MessageDescriptor)
  BY MessagesTyped
<1> DEFINE D == 1..Len(Messages)
           name == [i \in D |-> QualifiedName(Messages[i])]
           T == { name[i] : i \in D }
<1>2. IsFiniteSet(D) /\ D = DOMAIN Messages
  <2> HIDE DEF Messages
  <2>1. Len(Messages) \in Nat
    BY <1>1
  <2> QED
    BY <1>1, <2>1, FS_Interval
<1>3. name \in Surjection(D, T)
  <2> HIDE DEF D
  <2> QED
    BY DEF Surjection
<1>4. IsFiniteSet(T)
  <2> HIDE DEF D, T, name
  <2> QED
    BY <1>2, <1>3, FS_Surjection
<1>5. FindableIds \subseteq T
  BY <1>2 DEF FindableIds, Findable, ToSet
<1>6. IsFiniteSet(S)
  <2> HIDE DEF T
  <2> QED
    BY <1>4, <1>5, FS_Subset
<1>7. SetToSeq(S) \in Seq(S) /\ ToSet(SetToSeq(S)) = S
  BY <1>6, ListOf
<1>8. SetToSeq(S) \in Seq(FindableIds)
  BY <1>7, Widen
<1> QED
  BY <1>7, <1>8

(* What is in two lists joined.                                            *)
LEMMA ToSetOfBoth ==
    ASSUME NEW S, NEW a \in Seq(S), NEW b \in Seq(S)
    PROVE  a \o b \in Seq(S) /\ ToSet(a \o b) = ToSet(a) \cup ToSet(b)
<1> DEFINE c == a \o b
<1>1. /\ c \in Seq(S) /\ Len(a) \in Nat /\ Len(b) \in Nat
      /\ DOMAIN a = 1..Len(a) /\ DOMAIN b = 1..Len(b) /\ DOMAIN c = 1..Len(a) + Len(b)
      /\ \A i \in 1..Len(a) : c[i] = a[i]
      /\ \A i \in 1..Len(b) : c[Len(a) + i] = b[i]
  OBVIOUS
<1> HIDE DEF c
<1>2. \A x \in ToSet(a) : x \in ToSet(c)
  BY <1>1 DEF ToSet
<1>3. ASSUME NEW x \in ToSet(b) PROVE x \in ToSet(c)
  <2>1. PICK i \in 1..Len(b) : x = b[i]
    BY <1>1 DEF ToSet
  <2>2. Len(a) + i \in DOMAIN c /\ x = c[Len(a) + i]
    BY <2>1, <1>1
  <2> QED
    BY <2>2 DEF ToSet
<1>4. ASSUME NEW x \in ToSet(c) PROVE x \in ToSet(a) \cup ToSet(b)
  <2>1. PICK i \in DOMAIN c : x = c[i]
    BY DEF ToSet
  <2>2. CASE i <= Len(a)
    <3>1. i \in DOMAIN a /\ x = a[i]
      BY <1>1, <2>1, <2>2
    <3> QED
      BY <3>1 DEF ToSet
  <2>3. CASE i > Len(a)
    <3>1. i - Len(a) \in 1..Len(b) /\ Len(a) + (i - Len(a)) = i
      BY <1>1, <2>1, <2>3
    <3>2. i - Len(a) \in DOMAIN b /\ x = b[i - Len(a)]
      BY <1>1, <2>1, <3>1
    <3> QED
      BY <3>2 DEF ToSet
  <2>4. i \in Nat /\ Len(a) \in Nat
    BY <1>1, <2>1
  <2> QED
    BY <2>2, <2>3, <2>4
<1>5. ToSet(c) = ToSet(a) \cup ToSet(b)
  BY <1>2, <1>3, <1>4
<1> QED
  BY <1>1, <1>5 DEF c

(* A list is what is in front, and its last.                               *)
LEMMA Popped ==
    ASSUME NEW S, NEW s \in Seq(S), s # <<>>
    PROVE  /\ Front(s) \in Seq(S) /\ Last(s) \in S
           /\ ToSet(s) = ToSet(Front(s)) \cup {Last(s)}
<1>1. Len(s) \in Nat /\ Len(s) # 0 /\ DOMAIN s = 1..Len(s)
  OBVIOUS
<1>2. /\ Front(s) \in Seq(S) /\ DOMAIN Front(s) = 1..Len(s) - 1
      /\ \A i \in 1..Len(s) - 1 : Front(s)[i] = s[i]
  BY <1>1 DEF Front
<1>3. Last(s) \in S /\ Last(s) = s[Len(s)]
  BY <1>1 DEF Last
<1>4. ASSUME NEW x \in ToSet(s) PROVE x \in ToSet(Front(s)) \cup {Last(s)}
  <2>1. PICK i \in 1..Len(s) : x = s[i]
    BY <1>1 DEF ToSet
  <2>2. i = Len(s) \/ i \in 1..Len(s) - 1
    <3> DEFINE n == Len(s)
    <3>1. n \in Nat /\ i \in 1..n
      BY <1>1, <2>1
    <3> HIDE DEF n
    <3>2. i = n \/ i \in 1..n - 1
      BY <3>1
    <3> QED
      BY <3>2 DEF n
  <2> QED
    BY <2>1, <2>2, <1>2, <1>3 DEF ToSet
<1>5. ASSUME NEW x \in ToSet(Front(s)) \cup {Last(s)} PROVE x \in ToSet(s)
  <2>1. \A i \in 1..Len(s) - 1 : i \in 1..Len(s)
    BY <1>1
  <2>2. Len(s) \in 1..Len(s)
    BY <1>1
  <2> QED
    BY <2>1, <2>2, <1>1, <1>2, <1>3 DEF ToSet
<1> QED
  BY <1>2, <1>3, <1>4, <1>5

(* The invariant of the worklist, of what has been found and what is       *)
(* still to be looked at.                                                  *)
Working(all, found) ==
    /\ RpcIoMessages(schema) \subseteq all
    /\ \A id \in found : \A m \in Found(id) : Referenced(schema, m) \subseteq all
    /\ \A s : RpcIoMessages(schema) \subseteq s /\ Closed(s) => all \subseteq s

(* The invariant, of these parts.                                          *)
LEMMA WorkInvIs ==
    WorkInv <=> /\ schema \in Schemas
                /\ schema.kind = "fbs" =>
                    /\ stage # "collect" => frontier = <<>>
                    /\ frontier \in Seq(FindableIds) /\ needed \subseteq FindableIds
                    /\ Working(needed \cup ToSet(frontier), needed)
BY DEF WorkInv, Working

(* At the start all of the worklist is still to be looked at.              *)
LEMMA InitWork == ServicesInit => WorkInv
<1> SUFFICES ASSUME ServicesInit PROVE WorkInv
  OBVIOUS
<1>1. schema \in Schemas
  BY DEF ServicesInit
<1>2. ASSUME schema.kind = "fbs"
      PROVE  /\ stage # "collect" => frontier = <<>>
             /\ frontier \in Seq(FindableIds) /\ needed \subseteq FindableIds
             /\ Working(needed \cup ToSet(frontier), needed)
  <2>1. SchemaTyped
    BY <1>1, <1>2 DEF SchemaTyped
  <2>2. stage = "collect" /\ needed = {} /\ frontier = SetToSeq(RpcIoMessages(schema))
    BY <1>2 DEF ServicesInit
  <2>3. frontier \in Seq(FindableIds) /\ ToSet(frontier) = RpcIoMessages(schema)
    BY <2>1, <2>2, IoFindable, IdsFinite
  <2>4. needed \cup ToSet(frontier) = RpcIoMessages(schema)
    BY <2>2, <2>3
  <2> QED
    BY <2>2, <2>3, <2>4 DEF Working
<1> QED
  BY <1>1, <1>2, WorkInvIs

(* A round looks at the last, and puts what it refers to into the          *)
(* worklist.                                                               *)
LEMMA CollectWorks ==
    ASSUME WorkInv, Collect
    PROVE  WorkInv'
<1>1. UNCHANGED <<stage, schema>> /\ stage = "collect" /\ frontier # <<>>
  BY DEF Collect
<1>2. schema \in Schemas
  BY WorkInvIs
<1>3. SUFFICES ASSUME schema.kind = "fbs"
               PROVE  WorkInv'
  BY <1>1, <1>2 DEF WorkInv
<1>4. SchemaTyped
  BY <1>2, <1>3 DEF SchemaTyped
<1>5. /\ frontier \in Seq(FindableIds) /\ needed \subseteq FindableIds
      /\ Working(needed \cup ToSet(frontier), needed)
  BY <1>3, WorkInvIs
<1> DEFINE id == Last(frontier)
           found == IF id \in needed THEN {} ELSE Found(id)
           more == UNION { Referenced(schema, m) : m \in found }
           all == needed \cup ToSet(frontier)
<1>6. needed' = needed \cup {id} /\ frontier' = Front(frontier) \o SetToSeq(more)
  BY DEF Collect, Found, Messages
<1>7. /\ Front(frontier) \in Seq(FindableIds) /\ id \in FindableIds
      /\ ToSet(frontier) = ToSet(Front(frontier)) \cup {id}
  BY <1>1, <1>5, Popped
<1>8. more \subseteq FindableIds
  BY <1>4, ReferencedFindable
<1>9. SetToSeq(more) \in Seq(FindableIds) /\ ToSet(SetToSeq(more)) = more
  <2> HIDE DEF more
  <2> QED
    BY <1>4, <1>8, IdsFinite
<1>10. /\ frontier' \in Seq(FindableIds)
       /\ ToSet(frontier') = ToSet(Front(frontier)) \cup more
  <2> HIDE DEF more
  <2> QED
    BY <1>6, <1>7, <1>9, ToSetOfBoth
<1>11. needed' \subseteq FindableIds
  BY <1>5, <1>6, <1>7
<1>12. needed' \cup ToSet(frontier') = all \cup more
  BY <1>6, <1>7, <1>10
<1>13. Working(all \cup more, needed')
  <2>1. RpcIoMessages(schema) \subseteq all \cup more
    BY <1>5 DEF Working
  <2>2. ASSUME NEW i \in needed', NEW m \in Found(i)
        PROVE  Referenced(schema, m) \subseteq all \cup more
    <3>1. CASE i \in needed
      BY <3>1, <1>5 DEF Working
    <3>2. CASE i \notin needed
      <4>1. i = id /\ id \notin needed
        BY <3>2, <1>6
      <4>2. m \in found
        BY <4>1
      <4> HIDE DEF found, all
      <4> QED
        BY <4>2
    <3> QED
      BY <3>1, <3>2
  <2>3. ASSUME NEW s, RpcIoMessages(schema) \subseteq s, Closed(s)
        PROVE  all \cup more \subseteq s
    <3>1. all \subseteq s
      BY <2>3, <1>5 DEF Working
    <3>2. id \in s
      BY <3>1, <1>7
    <3>3. PICK l \in Findable : id = QualifiedName(l)
      BY <1>7 DEF FindableIds
    <3>4. ASSUME NEW m \in found PROVE Referenced(schema, m) \subseteq s
      <4>1. m = l
        BY <3>3, <1>4, FoundOwn
      <4>2. l \in ToSet(schema.messages) /\ QualifiedName(l) \in s
        BY <3>2, <3>3 DEF Findable, Messages
      <4> QED
        BY <4>1, <4>2, <2>3 DEF Closed
    <3>5. more \subseteq s
      <4> HIDE DEF found
      <4> QED
        BY <3>4
    <3> QED
      BY <3>1, <3>5
  <2> HIDE DEF all, more, found, id
  <2> QED
    BY <2>1, <2>2, <2>3 DEF Working
<1>14. Working(needed \cup ToSet(frontier), needed)'
  <2> HIDE DEF all, more, found, id
  <2>1. Working(needed' \cup ToSet(frontier'), needed')
    BY <1>12, <1>13
  <2> QED
    BY <2>1, <1>1 DEF Working, Closed, Found, Messages
<1>15. FindableIds' = FindableIds
  BY <1>1 DEF FindableIds, Findable, Messages
<1> HIDE DEF all, more, found, id
<1>16. /\ (schema \in Schemas)'
       /\ (stage # "collect" => frontier = <<>>)'
       /\ (frontier \in Seq(FindableIds) /\ needed \subseteq FindableIds)'
  BY <1>1, <1>2, <1>10, <1>11, <1>15
<1> QED
  BY <1>14, <1>16 DEF WorkInv, Working

(* Every step of the specification keeps the worklist's invariant.         *)
LEMMA WorkStep == WorkInv /\ [ServicesNext]_servicesVars => WorkInv'
<1> SUFFICES ASSUME WorkInv, [ServicesNext]_servicesVars PROVE WorkInv'
  OBVIOUS
<1>1. ASSUME UNCHANGED <<schema, frontier, needed>>, stage' # "collect" => frontier = <<>>
      PROVE  WorkInv'
  BY <1>1 DEF WorkInv, Closed, Found, Findable, FindableIds, Messages
<1>2. ASSUME UNCHANGED <<schema, frontier, needed, stage>>
      PROVE  WorkInv'
  BY <1>2 DEF WorkInv, Closed, Found, Findable, FindableIds, Messages
<1>3. CASE Collect
  BY <1>3, CollectWorks
<1>4. CASE CollectDone
  BY <1>1, <1>4 DEF CollectDone
<1>5. CASE Generate
  <2>1. schema.kind = "fbs" => frontier = <<>>
    BY <1>5 DEF Generate, WorkInv
  <2>2. UNCHANGED <<schema, frontier, needed>>
    BY <1>5 DEF Generate
  <2> QED
    BY <2>1, <2>2 DEF WorkInv, Closed, Found, Findable, FindableIds, Messages
<1>6. CASE Serve
  <2>1. schema.kind = "fbs" => frontier = <<>>
    BY <1>6 DEF Serve, WorkInv
  <2>2. UNCHANGED <<schema, frontier, needed>>
    BY <1>6 DEF Serve
  <2> QED
    BY <2>1, <2>2 DEF WorkInv, Closed, Found, Findable, FindableIds, Messages
<1>7. CASE AddService \/ SetFallback \/ UNCHANGED servicesVars
  BY <1>2, <1>7 DEF AddService, SetFallback, servicesVars, building
<1>8. CASE \E c \in Slots : Call(c)
  BY <1>2, <1>8 DEF Call, Send, Route, Intercept, Dispatch, building
<1> QED
  BY <1>3, <1>4, <1>5, <1>6, <1>7, <1>8 DEF ServicesNext, Build, Register

(* The worklist is empty when the code is generated: what it has found is  *)
(* closed, and below everything that is.                                   *)
LEMMA FoundAll ==
    ASSUME WorkInv, stage = "generate", schema.kind = "fbs"
    PROVE  /\ SchemaTyped /\ needed \subseteq FindableIds
           /\ Working(needed, needed)
<1>1. /\ schema \in Schemas /\ frontier = <<>> /\ needed \subseteq FindableIds
      /\ Working(needed \cup ToSet(frontier), needed)
  BY WorkInvIs
<1>2. needed \cup ToSet(frontier) = needed
  <2>1. ToSet(<<>>) = {}
    BY DEF ToSet
  <2> QED
    BY <1>1, <2>1
<1> QED
  BY <1>1, <1>2 DEF SchemaTyped

(* So it is the least set that is closed.                                  *)
LEMMA NeededIsReachable ==
    ASSUME SchemaTyped, needed \subseteq FindableIds, Working(needed, needed)
    PROVE  needed = Reachable
<1> DEFINE names == { QualifiedName(m) : m \in ToSet(schema.messages) }
           closed == { s \in SUBSET names : RpcIoMessages(schema) \subseteq s /\ Closed(s) }
<1>1. needed \subseteq names
  BY DEF FindableIds, Findable, Messages
<1>2. Closed(needed)
  <2> SUFFICES ASSUME NEW m \in ToSet(schema.messages), QualifiedName(m) \in needed
               PROVE  Referenced(schema, m) \subseteq needed
    BY DEF Closed
  <2>1. PICK l \in Findable : QualifiedName(m) = QualifiedName(l)
    BY DEF FindableIds
  <2>2. l \in ToSet(Messages) /\ m \in ToSet(Messages)
    BY <2>1 DEF Findable, Messages
  <2>3. m = l
    BY <2>1, <2>2, NamesApart
  <2>4. m \in Found(QualifiedName(m))
    BY <2>1, <2>3, FoundOwn
  <2> QED
    BY <2>4 DEF Working
<1>3. needed \in closed
  BY <1>1, <1>2 DEF Working
<1>4. \A s \in closed : needed \subseteq s
  BY DEF Working
<1>5. Reachable = { id \in UNION closed : \A s \in closed : id \in s }
  BY DEF Reachable
<1> HIDE DEF closed
<1>6. \A id \in needed : id \in UNION closed /\ \A s \in closed : id \in s
  BY <1>3, <1>4
<1>7. ASSUME NEW id, \A s \in closed : id \in s PROVE id \in needed
  BY <1>3, <1>7
<1> QED
  BY <1>5, <1>6, <1>7

(* Each codec is for an alias.                                             *)
LEMMA CodecsHaveAliases ==
    ASSUME SchemaTyped, needed \subseteq FindableIds, Working(needed, needed)
    PROVE  CodecImpls(schema) \subseteq ToSet(Aliases(schema, needed))
<1> SUFFICES ASSUME NEW name \in CodecImpls(schema)
             PROVE  name \in ToSet(Aliases(schema, needed))
  OBVIOUS
<1>1. PICK id \in RpcIoMessages(schema) : name = LastAfter(id, ".")
  BY DEF CodecImpls
<1>2. id \in needed
  BY <1>1 DEF Working
<1>3. PICK m \in Findable : id = QualifiedName(m)
  BY <1>2 DEF FindableIds
<1>4. m \in ToSet(Messages)
  BY <1>3 DEF Findable
<1>5. m.namespace \in Text /\ m.name \in Identifier
  BY <1>4, MessagesTyped
<1>6. name = m.name
  BY <1>1, <1>3, <1>5, NameParts DEF QualifiedName
<1>7. PICK i \in DOMAIN schema.messages : schema.messages[i] = m
  BY <1>4 DEF ToSet, Messages
<1> DEFINE D == { j \in DOMAIN schema.messages : QualifiedName(schema.messages[j]) \in needed }
           aliases == [j \in D |-> schema.messages[j].name]
<1>8. i \in D
  BY <1>2, <1>3, <1>7
<1>9. aliases[i] = name /\ i \in DOMAIN aliases
  BY <1>6, <1>7, <1>8
<1>10. Aliases(schema, needed) = aliases
  BY DEF Aliases
<1> HIDE DEF aliases
<1>11. name \in ToSet(aliases)
  BY <1>9 DEF ToSet
<1> QED
  BY <1>10, <1>11

(* Where names are unique, so are aliases.                                 *)
LEMMA AliasesApart ==
    ASSUME UniqueNames
    PROVE  IsInjective(Aliases(schema, needed))
<1>1. \A i, j \in DOMAIN schema.messages :
          schema.messages[i].name = schema.messages[j].name => i = j
  BY DEF UniqueNames, Names, IsInjective
<1> QED
  BY <1>1 DEF Aliases, IsInjective

(* What the worklist has found is needed, and everything needed is there.  *)
LEMMA ReachedExactly == WorkInv => NeededExact
<1> SUFFICES ASSUME WorkInv, stage = "generate", schema.kind = "fbs"
             PROVE  /\ needed = Reachable
                    /\ CodecImpls(schema) \subseteq ToSet(Aliases(schema, needed))
                    /\ UniqueNames => IsInjective(Aliases(schema, needed))
  BY DEF NeededExact
<1>1. SchemaTyped /\ needed \subseteq FindableIds /\ Working(needed, needed)
  BY FoundAll
<1>2. needed = Reachable
  BY <1>1, NeededIsReachable
<1>3. CodecImpls(schema) \subseteq ToSet(Aliases(schema, needed))
  BY <1>1, CodecsHaveAliases
<1> QED
  BY <1>2, <1>3, AliasesApart
-----------------------------------------------------------------------------
(* The Dart client's helpers.                                              *)

(* The loop over the methods of a service: what its Dart file has helpers  *)
(* for after k of them.                                                    *)
Round(s, ms, after) ==
    IF s = {} THEN <<>> ELSE AddTypes(after[s \ {Max(s)}], ms[Max(s)])
Rounds(ms) == CHOOSE after : after = [s \in SUBSET DOMAIN ms |-> Round(s, ms, after)]

(* The list of types is the last of those after each method.               *)
LEMMA FoldIs == \A ms : FoldLeft(AddTypes, <<>>, ms) = Rounds(ms)[DOMAIN ms]
BY DEF FoldLeft, MapThenFoldSet, Rounds, Round

(* The last of the methods so far.                                         *)
LEMMA TopIs ==
    ASSUME NEW k \in Nat, NEW s \in SUBSET (1..k + 1), k + 1 \in s
    PROVE  Max(s) = k + 1 /\ s \ {Max(s)} \in SUBSET (1..k)
<1>1. s \subseteq Nat /\ k + 1 \in s /\ \A y \in s : y <= k + 1
  OBVIOUS
<1>2. Max(s) = k + 1
  BY <1>1, MaxIs
<1> QED
  BY <1>2

(* There is a list after each method.                                      *)
LEMMA RoundsExist ==
    ASSUME NEW ms, NEW n \in Nat, DOMAIN ms = 1..n
    PROVE  \E after : after = [s \in SUBSET DOMAIN ms |-> Round(s, ms, after)]
<1> DEFINE Right(after, k) == after = [s \in SUBSET (1..k) |-> Round(s, ms, after)]
           T == { k \in Nat : \E after : Right(after, k) }
<1>1. 0 \in T
  <2> DEFINE none == [s \in {{}} |-> <<>>]
  <2>1. SUBSET (1..0) = {{}}
    OBVIOUS
  <2>2. none = [s \in {{}} |-> Round(s, ms, none)]
    BY DEF Round
  <2> HIDE DEF none
  <2>3. Right(none, 0)
    BY <2>1, <2>2
  <2> QED
    BY <2>3
<1>2. ASSUME NEW k \in Nat, k \in T PROVE k + 1 \in T
  <2>1. PICK f : Right(f, k)
    BY <1>2
  <2> DEFINE D == SUBSET (1..k)
             E == SUBSET (1..k + 1)
             Later(s) == IF k + 1 \in s THEN AddTypes(f[s \ {k + 1}], ms[k + 1]) ELSE f[s]
             g == [s \in E |-> Later(s)]
  <2>2. \A s \in D : s \in E /\ g[s] = f[s]
    OBVIOUS
  <2>3. ASSUME NEW s \in E PROVE g[s] = Round(s, ms, g)
    <3>1. CASE k + 1 \in s
      <4>1. Max(s) = k + 1 /\ s \ {Max(s)} \in D
        BY <3>1, TopIs
      <4>2. g[s \ {k + 1}] = f[s \ {k + 1}]
        BY <2>2, <4>1
      <4>3. g[s] = AddTypes(f[s \ {k + 1}], ms[k + 1])
        BY <3>1
      <4> HIDE DEF g
      <4>4. s # {}
        BY <3>1
      <4> QED
        BY <4>1, <4>2, <4>3, <4>4 DEF Round
    <3>2. CASE k + 1 \notin s
      <4>1. s \in D
        BY <3>2
      <4>2. g[s] = f[s] /\ f[s] = Round(s, ms, f)
        BY <2>1, <2>2, <4>1
      <4>3. s \ {Max(s)} \in D
        BY <4>1
      <4>4. g[s \ {Max(s)}] = f[s \ {Max(s)}]
        BY <2>2, <4>3
      <4> HIDE DEF g
      <4> QED
        BY <4>2, <4>4 DEF Round
    <3> QED
      BY <3>1, <3>2
  <2>4. g = [s \in E |-> g[s]]
    OBVIOUS
  <2> HIDE DEF g
  <2>5. Right(g, k + 1)
    BY <2>3, <2>4
  <2> QED
    BY <2>5
<1> HIDE DEF T
<1>3. n \in T
  BY <1>1, <1>2, Induction
<1> QED
  BY <1>3 DEF T

(* And it is that of one method fewer, with the method's types.            *)
LEMMA RoundIs ==
    ASSUME NEW ms, NEW n \in Nat, DOMAIN ms = 1..n
    PROVE  /\ Rounds(ms)[1..0] = <<>>
           /\ \A k \in 0..n - 1 :
                  Rounds(ms)[1..k + 1] = AddTypes(Rounds(ms)[1..k], ms[k + 1])
<1> DEFINE R == Rounds(ms)
<1>1. R = [s \in SUBSET DOMAIN ms |-> Round(s, ms, R)]
  BY RoundsExist DEF Rounds
<1> HIDE DEF R
<1>2. R[1..0] = <<>>
  <2>1. 1..0 = {} /\ {} \in SUBSET DOMAIN ms
    OBVIOUS
  <2> QED
    BY <1>1, <2>1 DEF Round
<1>3. ASSUME NEW k \in 0..n - 1 PROVE R[1..k + 1] = AddTypes(R[1..k], ms[k + 1])
  <2> DEFINE s == 1..k + 1
  <2>1. /\ k \in Nat /\ s \in SUBSET (1..k + 1) /\ k + 1 \in s /\ s \in SUBSET DOMAIN ms
        /\ s # {} /\ s \ {k + 1} = 1..k
    OBVIOUS
  <2> HIDE DEF s
  <2>2. Max(s) = k + 1
    BY <2>1, TopIs
  <2>3. R[s] = AddTypes(R[s \ {Max(s)}], ms[Max(s)])
    BY <1>1, <2>1 DEF Round
  <2> QED
    BY <2>1, <2>2, <2>3 DEF s
<1> QED
  BY <1>2, <1>3 DEF R

(* A bare name is what a type is called, in full and for short.            *)
LEMMA BareNames ==
    ASSUME NEW n \in Identifier
    PROVE  ShortName(n) = n /\ TypeName(n) = n
<1>1. n \in Seq(TextWord) /\ \A i \in DOMAIN n : n[i] # "." /\ n[i] # "::"
  BY Bare
<1>2. ShortName(n) = n
  BY <1>1 DEF ShortName, LastAfter
<1>3. ~(Len(n) > 1 /\ SubSeq(n, 1, 2) = <<".", "::">>)
  <2> SUFFICES ASSUME Len(n) > 1, SubSeq(n, 1, 2) = <<".", "::">> PROVE FALSE
    OBVIOUS
  <2>1. 1 \in DOMAIN n /\ SubSeq(n, 1, 2)[1] = n[1]
    BY <1>1
  <2>2. <<".", "::">>[1] = "."
    OBVIOUS
  <2> QED
    BY <1>1, <2>1, <2>2
<1>4. TypeName(n) = [i \in DOMAIN n |-> n[i]]
  <2> DEFINE D == DOMAIN n
             t == [i \in D |-> IF n[i] = "::" THEN "." ELSE n[i]]
  <2>1. TypeName(n) = t
    BY <1>3 DEF TypeName
  <2>2. \A i \in D : (IF n[i] = "::" THEN "." ELSE n[i]) = n[i]
    BY <1>1
  <2>3. t = [i \in D |-> n[i]]
    BY <2>2
  <2> QED
    BY <2>1, <2>3
<1>5. n = [i \in DOMAIN n |-> n[i]]
  BY <1>1
<1> QED
  BY <1>2, <1>4, <1>5

(* A list of types without repetitions.                                    *)
Listed(types) == types \in Seq(Identifier) /\ IsInjective(types)

(* A type is put into the list once.                                       *)
LEMMA AddNewLists ==
    ASSUME NEW types, Listed(types), NEW t \in Identifier
    PROVE  /\ Listed(AddNew(types, t))
           /\ ToSet(AddNew(types, t)) = ToSet(types) \cup {t}
<1> DEFINE n == Len(types)
<1>1. types \in Seq(Identifier) /\ n \in Nat /\ DOMAIN types = 1..n
  BY DEF Listed
<1>2. CASE Contains(types, t)
  <2>1. AddNew(types, t) = types
    BY <1>2 DEF AddNew
  <2>2. t \in ToSet(types)
    BY <1>1, <1>2 DEF Contains, ToSet
  <2> QED
    BY <2>1, <2>2
<1>3. CASE ~Contains(types, t)
  <2> DEFINE c == Append(types, t)
  <2>1. AddNew(types, t) = c
    BY <1>3 DEF AddNew
  <2>2. \A i \in 1..n : types[i] # t
    BY <1>3 DEF Contains
  <2>3. /\ c \in Seq(Identifier) /\ DOMAIN c = 1..n + 1 /\ c[n + 1] = t
        /\ \A i \in 1..n : c[i] = types[i]
    BY <1>1
  <2>4. \A i, j \in 1..n : types[i] = types[j] => i = j
    BY <1>1 DEF Listed, IsInjective
  <2> HIDE DEF c, n
  <2>5. \A i \in 1..n + 1 : i = n + 1 \/ i \in 1..n
    BY <1>1
  <2>6. IsInjective(c)
    BY <2>2, <2>3, <2>4, <2>5 DEF IsInjective
  <2>7. ToSet(c) = ToSet(types) \cup {t}
    <3>1. n + 1 \in 1..n + 1 /\ \A i \in 1..n : i \in 1..n + 1
      BY <1>1
    <3> QED
      BY <1>1, <2>3, <2>5, <3>1 DEF ToSet
  <2> QED
    BY <2>1, <2>3, <2>6, <2>7 DEF Listed
<1> QED
  BY <1>2, <1>3

(* The methods of an adapter's service.                                    *)
Adapted(ms) ==
    /\ ms \in Seq(MethodDescriptor)
    /\ \A m \in ToSet(ms) : m.input \in Identifier /\ m.output \in Identifier

(* All types of the methods are in the list, and none is twice.            *)
LEMMA HelpersListed ==
    ASSUME NEW ms, Adapted(ms)
    PROVE  /\ Listed(FoldLeft(AddTypes, <<>>, ms))
           /\ \A m \in ToSet(ms) :
                  {m.input, m.output} \subseteq ToSet(FoldLeft(AddTypes, <<>>, ms))
<1> DEFINE n == Len(ms)
           R(k) == Rounds(ms)[1..k]
           Good(k) == /\ Listed(R(k))
                      /\ \A i \in 1..k : {ms[i].input, ms[i].output} \subseteq ToSet(R(k))
           T == { k \in Nat : k <= n => Good(k) }
<1>1. n \in Nat /\ DOMAIN ms = 1..n
  BY DEF Adapted
<1>2. \A i \in 1..n : ms[i].input \in Identifier /\ ms[i].output \in Identifier
  BY <1>1 DEF Adapted, ToSet
<1>3. R(0) = <<>> /\ \A k \in 0..n - 1 : R(k + 1) = AddTypes(R(k), ms[k + 1])
  <2> HIDE DEF n
  <2> QED
    BY <1>1, RoundIs
<1> HIDE DEF n, R
<1>4. 0 \in T
  <2>1. Listed(<<>>)
    BY DEF Listed, IsInjective
  <2> QED
    BY <1>3, <2>1
<1>5. ASSUME NEW k \in Nat, k \in T PROVE k + 1 \in T
  <2> SUFFICES ASSUME k + 1 <= n PROVE Good(k + 1)
    OBVIOUS
  <2>1. Good(k) /\ k \in 0..n - 1 /\ k + 1 \in 1..n
    BY <1>1, <1>5
  <2> DEFINE input == ms[k + 1].input
             output == ms[k + 1].output
             types == R(k)
             one == AddNew(types, input)
             both == AddNew(one, output)
  <2>2. input \in Identifier /\ output \in Identifier
    BY <1>2, <2>1
  <2>3. ShortName(input) = input /\ ShortName(output) = output
    <3> HIDE DEF input, output
    <3> QED
      BY <2>2, BareNames
  <2>4. R(k + 1) = both
    BY <1>3, <2>1, <2>3 DEF AddTypes
  <2>5. Listed(types)
    BY <2>1
  <2> HIDE DEF input, output, types
  <2>6. Listed(one) /\ ToSet(one) = ToSet(types) \cup {input}
    BY <2>2, <2>5, AddNewLists
  <2> HIDE DEF one
  <2>7. Listed(both) /\ ToSet(both) = ToSet(one) \cup {output}
    BY <2>2, <2>6, AddNewLists
  <2> HIDE DEF both
  <2>8. ASSUME NEW i \in 1..k + 1
        PROVE  {ms[i].input, ms[i].output} \subseteq ToSet(both)
    <3>1. i = k + 1 \/ i \in 1..k
      BY <2>1
    <3>2. CASE i = k + 1
      BY <3>2, <2>6, <2>7 DEF input, output
    <3>3. CASE i \in 1..k
      <4>1. {ms[i].input, ms[i].output} \subseteq ToSet(types)
        BY <3>3, <2>1 DEF types
      <4> QED
        BY <4>1, <2>6, <2>7
    <3> QED
      BY <3>1, <3>2, <3>3
  <2> QED
    BY <2>4, <2>7, <2>8
<1> HIDE DEF T
<1>6. n \in T
  BY <1>1, <1>4, <1>5, Induction
<1>7. FoldLeft(AddTypes, <<>>, ms) = R(n)
  BY <1>1, FoldIs DEF R
<1>8. Good(n)
  BY <1>1, <1>6 DEF T
<1>9. ASSUME NEW m \in ToSet(ms)
      PROVE  {m.input, m.output} \subseteq ToSet(R(n))
  <2>1. PICK i \in 1..n : m = ms[i]
    BY <1>1 DEF ToSet
  <2> QED
    BY <1>8, <2>1
<1> QED
  BY <1>7, <1>8, <1>9

(* The methods of a FlatBuffers schema have bare types.                    *)
LEMMA AdaptedServices ==
    ASSUME SchemaTyped, NEW s \in ToSet(schema.services)
    PROVE  Adapted(s.methods)
<1>1. schema.services \in Seq(ServiceDescriptor)
  BY SchemasAssumption DEF SchemaTyped
<1>2. s \in ServiceDescriptor
  BY <1>1 DEF ToSet
<1>3. s.methods \in Seq(MethodDescriptor)
  BY <1>2 DEF ServiceDescriptor
<1>4. \A m \in ToSet(s.methods) : m.input \in Identifier /\ m.output \in Identifier
  BY MessagesAssumption DEF SchemaTyped
<1> QED
  BY <1>3, <1>4 DEF Adapted

(* The Dart client of a service of an adapter.                             *)
DartFits(s, dart) ==
    /\ IsInjective(dart.helpers)
    /\ \A i \in DOMAIN dart.methods :
           LET m == dart.methods[i]
           IN  /\ m.path = GenerateClient(s)[i].path
               /\ m.shape = GenerateClient(s)[i].shape
               /\ m.request = m.serialize /\ m.response = m.deserialize
               /\ \E h, g \in ToSet(dart.helpers) :
                      h.serialize = m.serialize /\ g.deserialize = m.deserialize

(* Each method of the Dart client has the helpers of its types.            *)
LEMMA DartClientFits ==
    ASSUME NEW s, Adapted(s.methods)
    PROVE  DartFits(s, GenerateDart(s))
<1> DEFINE ms == s.methods
           types == FoldLeft(AddTypes, <<>>, ms)
           helpers == Serializers(types)
           dart == GenerateDart(s)
<1>1. /\ dart.methods = [i \in DOMAIN ms |-> DartMethod(s, ms[i])]
      /\ dart.helpers = helpers
  BY DEF GenerateDart, DartHelpers
<1>2. /\ types \in Seq(Identifier) /\ IsInjective(types)
      /\ \A m \in ToSet(ms) : m.input \in ToSet(types) /\ m.output \in ToSet(types)
  BY HelpersListed DEF Listed
<1> HIDE DEF types, dart
<1>3. /\ DOMAIN helpers = DOMAIN types
      /\ \A i \in DOMAIN types :
             helpers[i].serialize = types[i] /\ helpers[i].deserialize = types[i]
  BY DEF Serializers
<1> HIDE DEF helpers
<1>4. IsInjective(helpers)
  BY <1>2, <1>3 DEF IsInjective
<1>5. ASSUME NEW t \in ToSet(types)
      PROVE  \E h \in ToSet(helpers) : h.serialize = t /\ h.deserialize = t
  <2>1. PICK i \in DOMAIN types : types[i] = t
    BY DEF ToSet
  <2>2. helpers[i] \in ToSet(helpers)
    BY <1>3, <2>1 DEF ToSet
  <2> QED
    BY <1>3, <2>1, <2>2
<1>6. ASSUME NEW i \in DOMAIN ms
      PROVE  LET m == DartMethod(s, ms[i])
             IN  /\ m.path = GenerateClient(s)[i].path
                 /\ m.shape = GenerateClient(s)[i].shape
                 /\ m.request = m.serialize /\ m.response = m.deserialize
                 /\ \E h, g \in ToSet(helpers) :
                        h.serialize = m.serialize /\ g.deserialize = m.deserialize
  <2> DEFINE r == ms[i]
             m == DartMethod(s, r)
             c == GenerateClient(s)[i]
  <2>1. r \in ToSet(ms)
    BY DEF ToSet
  <2>2. r.input \in Identifier /\ r.output \in Identifier
    BY <2>1 DEF Adapted
  <2>3. c = ClientMethod(s, r)
    BY DEF GenerateClient
  <2>4. r.input \in ToSet(types) /\ r.output \in ToSet(types)
    BY <1>2, <2>1
  <2> HIDE DEF r, c, ms
  <2>5. /\ ShortName(r.input) = r.input /\ TypeName(r.input) = r.input
        /\ ShortName(r.output) = r.output /\ TypeName(r.output) = r.output
    BY <2>2, BareNames
  <2>6. c.path = GrpcPath(s, r) /\ c.shape = r.shape
    BY <2>3 DEF ClientMethod
  <2>7. /\ m.path = GrpcPath(s, r) /\ m.shape = r.shape
        /\ m.request = r.input /\ m.response = r.output
        /\ m.serialize = r.input /\ m.deserialize = r.output
    BY <2>5 DEF DartMethod
  <2>8. \E h, g \in ToSet(helpers) : h.serialize = r.input /\ g.deserialize = r.output
    BY <1>5, <2>4
  <2> HIDE DEF m
  <2>9. /\ m.path = c.path /\ m.shape = c.shape
        /\ m.request = m.serialize /\ m.response = m.deserialize
        /\ \E h, g \in ToSet(helpers) :
               h.serialize = m.serialize /\ g.deserialize = m.deserialize
    BY <2>6, <2>7, <2>8
  <2> QED
    BY <2>9 DEF m, c, r, ms
<1>7. DOMAIN dart.methods = DOMAIN ms
      /\ \A i \in DOMAIN ms : dart.methods[i] = DartMethod(s, ms[i])
  BY <1>1
<1>8. DartFits(s, dart)
  <2> HIDE DEF ms
  <2> QED
    BY <1>1, <1>4, <1>6, <1>7 DEF DartFits
<1> QED
  BY <1>8 DEF dart

(* So has each client that is generated.                                   *)
LEMMA DartMatches == WorkInv => DartHelpersMatch
<1> SUFFICES ASSUME WorkInv, stage = "generate", schema.kind = "fbs",
                    NEW s \in ToSet(schema.services)
             PROVE  DartFits(s, GenerateDart(s))
  BY Zenon DEF DartHelpersMatch, DartFits
<1>1. SchemaTyped
  BY DEF WorkInv, SchemaTyped
<1> QED
  BY <1>1, AdaptedServices, DartClientFits

(* The worklist's invariant holds on every schema.                         *)
THEOREM WorkInvariant == ServicesSpec => []WorkInv
BY InitWork, WorkStep, PTL DEF ServicesSpec

(* The messages that get aliases are the least set that is closed under    *)
(* references, each codec has its alias, and each method of a Dart client  *)
(* the helpers of its types, for every schema (flatbuffers.rs:84-138,      *)
(* 262-289, dart_client_gen.rs:122-175).                                   *)
THEOREM GeneratedAlwaysFits == ServicesSpec => []GeneratedFits
<1>1. WorkInv => GeneratedFits
  BY ReachedExactly, DartMatches DEF GeneratedFits
<1> QED
  BY <1>1, WorkInvariant, PTL
=============================================================================
