---------------------------- MODULE CoreRuntime ----------------------------
(***************************************************************************)
(* The object CoreRuntime (core/src/runtime/CoreRuntime.cpp) as a value    *)
(* and its methods as operators on it: the capture, the worker pool, the   *)
(* aim thread and the preview it starts and stops together.  Its callers   *)
(* hold runtime_lifecycle_mutex_ (RuntimeLifecycle), so a method is one    *)
(* step.  A fault is what the hardware answers while it lasts:             *)
(*   "none"     everything works                                           *)
(*   "capture"  the capture device cannot be opened or started             *)
(*   "workers"  no worker can load its model or start its loop             *)
(*   "noframes" the capture runs but delivers nothing                      *)
(*   "noinfer"  frames arrive but the NPU answers nothing                  *)
(***************************************************************************)
CONSTANTS Models, NoModel

AllFeatures == {"capture", "inference", "aim"}
AllFaults   == {"none", "capture", "workers", "noframes", "noinfer"}

ASSUME ModelAssumption == NoModel \notin Models

(***************************************************************************)
(* init      initialize() succeeded on this object                         *)
(* up        running_                                                      *)
(* gates     gates_, the licensed features start() goes by                 *)
(* params    model of worker_params_                                       *)
(* pool      model loaded by the workers; NoModel is a pool of no worker   *)
(* looping   the workers' threads run                                      *)
(* preloaded workers_preloaded_                                            *)
(* capturing, aiming   the other two threads                               *)
(* ready     a worker has inferred and decoded a frame                     *)
(* quiet     no worker has inferred for longer than the watchdog allows    *)
(***************************************************************************)
Cores ==
  [init : BOOLEAN, up : BOOLEAN, gates : SUBSET AllFeatures,
   params : Models \cup {NoModel}, pool : Models \cup {NoModel},
   looping : BOOLEAN, preloaded : BOOLEAN, capturing : BOOLEAN,
   aiming : BOOLEAN, ready : BOOLEAN, quiet : BOOLEAN]

(* std::make_unique<CoreRuntime>(): the default gates are all open.        *)
Allocated ==
  [init |-> FALSE, up |-> FALSE, gates |-> AllFeatures, params |-> NoModel,
   pool |-> NoModel, looping |-> FALSE, preloaded |-> FALSE,
   capturing |-> FALSE, aiming |-> FALSE, ready |-> FALSE, quiet |-> FALSE]

(* initialize(): new capture, mailbox and (empty) worker pool.             *)
Initialized(c, m, g) ==
  [init |-> TRUE, up |-> c.up, gates |-> g, params |-> m, pool |-> NoModel,
   looping |-> FALSE, preloaded |-> c.preloaded, capturing |-> c.capturing,
   aiming |-> c.aiming, ready |-> FALSE, quiet |-> c.quiet]

SetGates(c, g) == [c EXCEPT !.gates = g]

Preloaded(c) ==
  [init |-> c.init, up |-> c.up, gates |-> c.gates, params |-> c.params,
   pool |-> c.params, looping |-> c.looping, preloaded |-> TRUE,
   capturing |-> c.capturing, aiming |-> c.aiming, ready |-> c.ready,
   quiet |-> c.quiet]

(* Mutant: workers_preloaded_ outlives the workers.                        *)
StoppedPreloaded(c) ==
  [init |-> c.init, up |-> FALSE, gates |-> c.gates, params |-> c.params,
   pool |-> NoModel, looping |-> FALSE, preloaded |-> c.preloaded,
   capturing |-> FALSE, aiming |-> FALSE, ready |-> FALSE, quiet |-> FALSE]

(* stop() cleans up whatever is left, running or not.                      *)
Stopped(c) ==
  [init |-> c.init, up |-> FALSE, gates |-> c.gates, params |-> c.params,
   pool |-> NoModel, looping |-> FALSE, preloaded |-> FALSE,
   capturing |-> FALSE, aiming |-> FALSE, ready |-> FALSE, quiet |-> FALSE]

CaptureFails(c, fault) == "capture" \in c.gates /\ fault = "capture"

(* start_loops() of a preloaded pool finds every engine loaded; start()    *)
(* loads the model of the parameters.                                      *)
WorkersFail(c, fault) ==
  /\ "inference" \in c.gates /\ ~c.preloaded
  /\ c.params = NoModel \/ fault = "workers"

CanStart(c, fault) ==
  c.init /\ ~c.up /\ ~CaptureFails(c, fault) /\ ~WorkersFail(c, fault)

StartedPool(c) ==
  IF "inference" \in c.gates /\ ~c.preloaded THEN c.params ELSE c.pool

Running(c) ==
  [init |-> c.init, up |-> TRUE, gates |-> c.gates, params |-> c.params,
   pool |-> StartedPool(c), looping |-> "inference" \in c.gates,
   preloaded |-> c.preloaded, capturing |-> "capture" \in c.gates,
   aiming |-> "aim" \in c.gates, ready |-> FALSE, quiet |-> FALSE]

(* rollback() in start() when the workers fail.                            *)
RolledBack(c) ==
  [init |-> c.init, up |-> c.up, gates |-> c.gates, params |-> c.params,
   pool |-> NoModel, looping |-> FALSE, preloaded |-> c.preloaded,
   capturing |-> c.capturing, aiming |-> c.aiming, ready |-> c.ready,
   quiet |-> c.quiet]

AfterStart(c, fault) ==
  IF CanStart(c, fault) THEN Running(c)
  ELSE IF c.init /\ ~c.up /\ ~CaptureFails(c, fault) THEN RolledBack(c)
  ELSE c

(* reload_workers(): the new model, the old one again, or a full stop.     *)
WithPool(c, m) ==
  [init |-> c.init, up |-> c.up, gates |-> c.gates, params |-> m,
   pool |-> m, looping |-> TRUE, preloaded |-> c.preloaded,
   capturing |-> c.capturing, aiming |-> c.aiming, ready |-> FALSE,
   quiet |-> FALSE]

Reloads(c, m, fault) ==
  IF fault # "workers" THEN {[core |-> WithPool(c, m), ok |-> TRUE]}
  ELSE {[core |-> WithPool(c, c.params), ok |-> FALSE],
        [core |-> Stopped(c), ok |-> FALSE]}

Infers(c, fault) ==
  /\ c.up /\ c.capturing /\ c.looping /\ c.pool # NoModel
  /\ fault \notin {"noframes", "noinfer"}

Inferred(c) ==
  [init |-> c.init, up |-> c.up, gates |-> c.gates, params |-> c.params,
   pool |-> c.pool, looping |-> c.looping, preloaded |-> c.preloaded,
   capturing |-> c.capturing, aiming |-> c.aiming, ready |-> TRUE,
   quiet |-> FALSE]

ModelReady(c) == c.up /\ c.pool # NoModel /\ c.ready
=============================================================================
