---------------------------- MODULE ControlPlane -----------------------------
(***************************************************************************)
(* The model requests as the web console makes them: a line on the control *)
(* socket (IpcServer), handled under the lifecycle mutex of the            *)
(* application by an operation of the model library (ModelRegistry), its   *)
(* answer sent back to a client that may have given up meanwhile and asks  *)
(* again; the process may be stopped or may die at any moment.             *)
(***************************************************************************)
EXTENDS ModelRegistry, IpcServer

VARIABLE app        \* what the handlers use (core_runtime_, model_management_) exists

vars == <<regVars, ipcVars, app>>

Init == RegInit /\ IpcInit /\ app = TRUE

Handling(c) == conn[c] = "serving"

\* A handler gets the lifecycle mutex, which it holds until it returns; its
\* first step checks what it is asked.
Handle(c) == (\A d \in Conns : ~Handling(d)) /\ Serve(c) /\ Request /\ UNCHANGED app

\* The other steps of the operation under way, taken by the thread that holds the mutex.
Work == \E c \in Conns : Handling(c) /\ Step /\ UNCHANGED <<ipcVars, app>>

\* The operation has answered: the thread goes on to send.
Finish(c) == Handling(c) /\ op.pc = "idle" /\ (Served(c) \/ Threw(c)) /\ UNCHANGED <<regVars, app>>

Connections == \E c \in Conns : IpcStep(c) /\ UNCHANGED <<regVars, app>>
Accepting == AcceptStep /\ UNCHANGED <<regVars, app>>
Stopping == (StopBegin \/ StopStep) /\ UNCHANGED <<regVars, app>>

\* shutdown() destroys what the handlers use once stop() has returned.
Destroy == stopPc = "stopped" /\ app /\ app' = FALSE /\ UNCHANGED <<regVars, ipcVars>>

\* The process dies and is started again: the disk is what it was.
Die ==
    /\ Crash
    /\ running' = TRUE /\ stopPc' = "no" /\ accPc' = "top" /\ cur' = None
    /\ conn' = [c \in Conns |-> "free"] /\ count' = 0
    /\ listed' = {} /\ shut' = {} /\ app' = TRUE

Replace == Tamper /\ UNCHANGED <<ipcVars, app>>

Next ==
    \/ \E c \in Conns : Handle(c) \/ Finish(c)
    \/ Work \/ Connections \/ Accepting \/ Stopping \/ Destroy \/ Die \/ Replace

Spec == Init /\ [][Next]_vars

\* Threads are scheduled; a silent or slow client is bounded by the socket
\* timeouts, so reading and sending end; a handler waits for the mutex behind
\* handlers that end.
Fairness ==
    /\ WF_vars(Accepting) /\ WF_vars(Work)
    /\ WF_vars(StopStep /\ UNCHANGED <<regVars, app>>)
    /\ \A c \in Conns :
         /\ SF_vars(Handle(c)) /\ WF_vars(Finish(c))
         /\ WF_vars((ReadEnds(c) \/ Reply(c) \/ ConnectionEnds(c)) /\ UNCHANGED <<regVars, app>>)

FairSpec == Spec /\ Fairness

-----------------------------------------------------------------------------
\* No connection thread is left once stop() has returned, so none touches the
\* server, or runs a handler when what it uses is destroyed (IpcServer.cpp:408,
\* Application.cpp:1269).
NoThreadOutlivesStop ==
    /\ stopPc = "stopped" => WithThread = {} /\ accPc = "gone"
    /\ ~app => stopPc = "stopped"

\* The threads of the connections, counted and gone before the server is.
ThreadsAreAccounted == SlotsAreCounted /\ NoThreadOutlivesStop

\* stop() ends: with silent clients, with a handler waiting for the mutex
\* behind another, with an accept under way (IpcServer.cpp:384).
StopEnds == stopPc = "join" ~> stopPc \in {"stopped", "no"}
=============================================================================
