------------------------------ MODULE IpcServer ------------------------------
(***************************************************************************)
(* The control socket (core/src/ipc/IpcServer.cpp): the accept thread, one *)
(* detached thread per connection, the limit on them, and the stop that    *)
(* has to drain them before the application object goes away.  A           *)
(* connection carries one request line and one response.  What a handler   *)
(* does is left to the module that composes this one with it: here it      *)
(* begins with Serve and ends with Served or Threw.                        *)
(***************************************************************************)
EXTENDS Naturals, FiniteSets

CONSTANTS Conns,            \* connections a client may hold
          MaxConnections    \* kMaxConnections

ASSUME IpcAssumption == MaxConnections \in Nat \ {0} /\ IsFiniteSet(Conns)

VARIABLES running,   \* running_
          stopPc,    \* stop(): "no", "join", "shut", "drain", "stopped"
          accPc,     \* the accept thread: "top", "accept", "reject", "count", "list", "spawn", "gone"
          cur,       \* the connection accept() returned
          conn,      \* state of each connection, client and thread together
          count,     \* active_connections_
          listed,    \* conn_fds_
          shut       \* connections stop() has shut down

ipcVars == <<running, stopPc, accPc, cur, conn, count, listed, shut>>

None == "none"
Set(c, s) == conn' = [conn EXCEPT ![c] = s]
WithThread == {c \in Conns : conn[c] \in {"reading", "waiting", "serving", "replying", "tail"}}

IpcInit ==
    /\ running = TRUE /\ stopPc = "no" /\ accPc = "top" /\ cur = None
    /\ conn = [c \in Conns |-> "free"] /\ count = 0
    /\ listed = {} /\ shut = {}

-----------------------------------------------------------------------------
(* Clients. *)

\* connect(): the kernel queues the connection until accept() takes it.
Connect(c) ==
    /\ conn[c] = "free" /\ stopPc = "no"
    /\ Set(c, "queued")
    /\ UNCHANGED <<running, stopPc, accPc, cur, count, listed, shut>>

-----------------------------------------------------------------------------
(* The accept thread. *)

AcceptTop ==
    /\ accPc = "top"
    /\ accPc' = IF ~running THEN "gone"
                ELSE IF count >= MaxConnections THEN "reject" ELSE "accept"
    /\ UNCHANGED <<running, stopPc, cur, conn, count, listed, shut>>

\* A plausible bug: stop() does not wake the accept thread.
AcceptBlocks ==
    /\ accPc = "accept"
    /\ \E c \in Conns : conn[c] = "queued" /\ cur' = c /\ Set(c, "taken") /\ accPc' = "count"
    /\ UNCHANGED <<running, stopPc, count, listed, shut>>

\* accept() returns a queued connection; the listening socket shut down, it fails.
Accept ==
    /\ accPc = "accept"
    /\ \/ \E c \in Conns : conn[c] = "queued" /\ cur' = c /\ Set(c, "taken") /\ accPc' = "count"
       \/ stopPc # "no" /\ accPc' = "top" /\ UNCHANGED <<cur, conn>>
    /\ UNCHANGED <<running, stopPc, count, listed, shut>>

Reject ==
    /\ accPc = "reject"
    /\ \/ \E c \in Conns : conn[c] = "queued" /\ Set(c, "free")
       \/ stopPc # "no" /\ UNCHANGED conn
    /\ accPc' = "top"
    /\ UNCHANGED <<running, stopPc, cur, count, listed, shut>>

CountConn ==
    /\ accPc = "count" /\ count' = count + 1 /\ accPc' = "list"
    /\ UNCHANGED <<running, stopPc, cur, conn, listed, shut>>

ListConn ==
    /\ accPc = "list" /\ listed' = listed \cup {cur} /\ accPc' = "spawn"
    /\ UNCHANGED <<running, stopPc, cur, conn, count, shut>>

Spawn ==
    /\ accPc = "spawn" /\ Set(cur, "reading") /\ cur' = None /\ accPc' = "top"
    /\ UNCHANGED <<running, stopPc, count, listed, shut>>

-----------------------------------------------------------------------------
(* A connection thread. *)

\* read_line gets a whole line.
ReadLine(c) ==
    /\ conn[c] = "reading" /\ c \notin shut /\ Set(c, "waiting")
    /\ UNCHANGED <<running, stopPc, accPc, cur, count, listed, shut>>

\* Nothing within kServerRecvTimeoutMs, an end of file, or the shutdown by
\* stop(): there is no response.
ReadEnds(c) ==
    /\ conn[c] = "reading" /\ Set(c, "tail")
    /\ UNCHANGED <<running, stopPc, accPc, cur, count, listed, shut>>

\* A line too long, no JSON, an unknown type, or a request that only reads: the
\* response is made without a mutex of the application.
Ask(c) ==
    /\ conn[c] \in {"reading", "waiting"} /\ c \notin shut /\ Set(c, "replying")
    /\ UNCHANGED <<running, stopPc, accPc, cur, count, listed, shut>>

\* The handler gets the mutex of the application.
Serve(c) ==
    /\ conn[c] = "waiting" /\ Set(c, "serving")
    /\ UNCHANGED <<running, stopPc, accPc, cur, count, listed, shut>>

Served(c) ==
    /\ conn[c] = "serving" /\ Set(c, "replying")
    /\ UNCHANGED <<running, stopPc, accPc, cur, count, listed, shut>>

\* A plausible bug: the exception ends the thread before its slot is given back.
ThrewPast(c) ==
    /\ conn[c] = "serving" /\ Set(c, "free")
    /\ UNCHANGED <<running, stopPc, accPc, cur, count, listed, shut>>

\* An exception that leaves the handler is caught by the thread: no response.
Threw(c) ==
    /\ conn[c] = "serving" /\ Set(c, "tail")
    /\ UNCHANGED <<running, stopPc, accPc, cur, count, listed, shut>>

\* The send ends, fails with EPIPE because the client has given up, or reaches
\* kServerSendTimeoutMs: the server does not know which answers were read.
Reply(c) ==
    /\ conn[c] = "replying" /\ Set(c, "tail")
    /\ UNCHANGED <<running, stopPc, accPc, cur, count, listed, shut>>

\* One critical section: close, count, unlist and notify.
ConnectionEnds(c) ==
    /\ conn[c] = "tail" /\ Set(c, "free")
    /\ count' = count - 1 /\ listed' = listed \ {c}
    /\ shut' = shut \ {c}
    /\ UNCHANGED <<running, stopPc, accPc, cur>>

-----------------------------------------------------------------------------
(* stop(), called by Application::shutdown. *)

StopBegin ==
    /\ running /\ running' = FALSE /\ stopPc' = "join"
    /\ UNCHANGED <<accPc, cur, conn, count, listed, shut>>

\* The accept thread is joined, and the listening socket with what it had queued closed.
StopJoined ==
    /\ stopPc = "join" /\ accPc = "gone" /\ stopPc' = "shut"
    /\ conn' = [c \in Conns |-> IF conn[c] = "queued" THEN "free" ELSE conn[c]]
    /\ UNCHANGED <<running, accPc, cur, count, listed, shut>>

StopShut ==
    /\ stopPc = "shut" /\ stopPc' = "drain" /\ shut' = listed
    /\ UNCHANGED <<running, accPc, cur, conn, count, listed>>

\* The condition variable is left when the list is empty.
StopDrained ==
    /\ stopPc = "drain" /\ listed = {} /\ stopPc' = "stopped" /\ count' = 0
    /\ UNCHANGED <<running, accPc, cur, conn, listed, shut>>

IpcStep(c) == Connect(c) \/ ReadLine(c) \/ ReadEnds(c) \/ Ask(c) \/ Reply(c) \/ ConnectionEnds(c)
AcceptStep == AcceptTop \/ Accept \/ Reject \/ CountConn \/ ListConn \/ Spawn
StopStep == StopJoined \/ StopShut \/ StopDrained

-----------------------------------------------------------------------------
\* Never more threads than kMaxConnections, and the counter that says so
\* neither leaks a slot nor loses one, whichever way a connection ends
\* (IpcServer.cpp:451, :481).
SlotsAreCounted ==
    /\ Cardinality(WithThread) <= MaxConnections
    /\ stopPc # "stopped" =>
         count = Cardinality(WithThread)
                   + (IF accPc \in {"list", "spawn"} THEN 1 ELSE 0)
=============================================================================
