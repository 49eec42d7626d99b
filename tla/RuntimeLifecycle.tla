-------------------------- MODULE RuntimeLifecycle --------------------------
(***************************************************************************)
(* The life of the AI runtime under core/src/app/Application.cpp: boot,    *)
(* the main loop (retry, watchdog, first-frame commit, end of the          *)
(* post-update check), start / stop / restart by the user, MODEL_ACTIVATE  *)
(* with its rollbacks, licence changes, updates, kills and restarts.       *)
(* Every handler holds runtime_lifecycle_mutex_ and is one step, but for   *)
(* a model switch, which waits for the first frame with the mutex held:    *)
(* txn is its place, and licence, frames and kills go on meanwhile.        *)
(***************************************************************************)
EXTENDS Naturals, CoreRuntime

CONSTANTS
  Versions, NoVersion,
  Cards,          \* the feature sets a licence may grant
  Faults,         \* the faults of the hardware (CoreRuntime)
  Writes,         \* outcomes of an access to a file: {TRUE} or BOOLEAN
  Preload,        \* inference_preload of the configuration
  MaxKills, MaxUpdates, MaxCards, MaxFaults   \* bounds

ASSUME LifecycleAssumption ==
  /\ NoVersion \notin Versions /\ Versions # {}
  /\ Cards \subseteq SUBSET AllFeatures
  /\ "none" \in Faults /\ Faults \subseteq AllFaults
  /\ TRUE \in Writes /\ Writes \subseteq BOOLEAN
  /\ Preload \in BOOLEAN
  /\ MaxKills \in Nat /\ MaxUpdates \in Nat
  /\ MaxCards \in Nat /\ MaxFaults \in Nat

VARIABLES
  version, bootVersion,  \* release that runs, core_boot_version
  ota,                   \* ota_status.json
  intent,                \* runtime_intent.json
  active, profile,       \* active.json, runtime_profile.model_id
  card, gate,            \* licence of the box, LicenseGate snapshot
  phase,                 \* of the process
  want, smoke, waiting, core, runningId,
  txn,                   \* model switch in progress
  fault,
  order, saved,          \* history: last order in force and whether the
                         \* last write of the intent succeeded
  kills, updates, cards, faults

disk    == <<version, bootVersion, ota, intent, profile>>
licence == <<card, gate>>
history == <<order, saved>>
bounds  == <<kills, updates, cards, faults>>
vars    == <<disk, active, licence, phase, want, smoke, waiting, core,
             runningId, txn, fault, history, bounds>>
-----------------------------------------------------------------------------
Live == phase # "down"
Idle == txn.stage = "idle"     \* runtime_lifecycle_mutex_ is free

Txn(stage, kind, target, prev) ==
  [stage |-> stage, kind |-> kind, target |-> target, prev |-> prev]

NoTxn == Txn("idle", "hot", NoModel, NoModel)

PipelineAllowed == "capture" \in gate

(* build_runtime_params: inference needs a selected model.                 *)
CanBuild == "inference" \in gate => active # NoModel

Built(g) == IF "inference" \in g THEN active ELSE NoModel

(* try_resume_from_degraded on a new object, or the core as it is.         *)
Resumed(c) ==
  IF ~waiting THEN c
  ELSE IF CanBuild THEN Initialized(Allocated, Built(gate), gate)
  ELSE Allocated

Attempt(c, allowed) ==
  /\ core' = IF allowed /\ (waiting => CanBuild)
               THEN AfterStart(Resumed(c), fault) ELSE Resumed(c)
  /\ waiting' = (waiting /\ ~CanBuild)

Persist(value) ==
  \E ok \in Writes : /\ intent' = IF ok THEN value ELSE intent
                     /\ saved' = ok

Synced(m) ==     \* sync_model_id_to_profile succeeds
  profile' = m

Init ==
  /\ version \in Versions
  /\ bootVersion \in {NoVersion, version}
  /\ ota = [state |-> "none", version |-> NoVersion]
  /\ intent \in {"none", "run", "stop"}
  /\ active \in Models \cup {NoModel} /\ profile = active
  /\ card \in Cards /\ gate = {}
  /\ phase = "down" /\ want = TRUE /\ smoke = "off" /\ waiting = FALSE
  /\ core = Allocated /\ runningId = NoModel /\ txn = NoTxn
  /\ fault = "none"
  /\ order = "none" /\ saved = TRUE
  /\ kills = 0 /\ updates = 0 /\ cards = 0 /\ faults = 0
-----------------------------------------------------------------------------
(* decide_startup_intent                                                   *)
JustUpdated ==
  \/ bootVersion # NoVersion /\ bootVersion # version
  \/ /\ bootVersion = NoVersion
     /\ ota = [state |-> "SUCCESS", version |-> version]

(* initialize(): the intent, the marker of this version, the object.       *)
Boot ==
  /\ phase = "down"
  /\ phase' = "booting"
  /\ \E ok \in Writes : bootVersion' = IF ok THEN version ELSE bootVersion
  /\ want' = (JustUpdated \/ intent # "stop")
  /\ smoke' = IF JustUpdated THEN "on" ELSE "off"
  /\ order' = IF JustUpdated THEN "update" ELSE order
  /\ waiting' = (active = NoModel)
  /\ core' = IF active = NoModel THEN Allocated
             ELSE LET c == Initialized(Allocated, active, AllFeatures)
                  IN IF Preload /\ fault # "workers" THEN Preloaded(c) ELSE c
  /\ gate' = {} /\ runningId' = NoModel /\ txn' = NoTxn
  /\ UNCHANGED <<version, ota, intent, profile, active, card, fault, saved,
                 bounds>>

(* run(): publish the licence and pass its gates on, without the mutex.    *)
ApplyGates ==
  /\ phase = "booting"
  /\ phase' = "gated"
  /\ gate' = card
  /\ core' = SetGates(core, card)
  /\ UNCHANGED <<disk, active, card, want, smoke, waiting, runningId, txn,
                 fault, history, bounds>>

(* run(): the first start.                                                 *)
FirstStart ==
  /\ phase = "gated" /\ Idle
  /\ phase' = "looping"
  /\ IF want THEN runningId' = NoModel /\ Attempt(core, PipelineAllowed)
             ELSE UNCHANGED <<runningId, core, waiting>>
  /\ UNCHANGED <<disk, active, licence, want, smoke, txn, fault, history,
                 bounds>>
-----------------------------------------------------------------------------
Tick == phase = "looping" /\ Idle

(* Mutant: the retry does not ask for the licence.                         *)
RetryUnasked ==
  /\ Tick /\ want /\ ~core.up
  /\ Attempt(core, TRUE)
  /\ UNCHANGED <<disk, active, licence, phase, want, smoke, runningId, txn,
                 fault, history, bounds>>

Retry ==
  /\ Tick /\ want /\ ~core.up
  /\ Attempt(core, PipelineAllowed)
  /\ UNCHANGED <<disk, active, licence, phase, want, smoke, runningId, txn,
                 fault, history, bounds>>

(* Mutant: the watchdog keeps the current model on display.                *)
WatchdogKeepsId ==
  /\ Tick /\ core.up /\ core.quiet
  /\ want' = TRUE
  /\ core' = IF PipelineAllowed THEN AfterStart(Stopped(core), fault)
             ELSE Stopped(core)
  /\ UNCHANGED <<disk, active, licence, phase, smoke, waiting, runningId, txn,
                 fault, history, bounds>>

Watchdog ==
  /\ Tick /\ core.up /\ core.quiet
  /\ runningId' = NoModel /\ want' = TRUE
  /\ core' = IF PipelineAllowed THEN AfterStart(Stopped(core), fault)
             ELSE Stopped(core)
  /\ UNCHANGED <<disk, active, licence, phase, smoke, waiting, txn, fault,
                 history, bounds>>

Commit ==
  /\ Tick /\ ModelReady(core) /\ active # NoModel /\ runningId # active
  /\ \E ok \in Writes :
       /\ runningId' = IF ok THEN active ELSE NoModel
       /\ profile' = IF ok THEN active ELSE profile
  /\ UNCHANGED <<version, bootVersion, ota, intent, active, licence, phase,
                 want, smoke, waiting, core, txn, fault, history, bounds>>

(* The updater writes FAILED without a version.                            *)
Terminal == ota.state \in {"SUCCESS", "FAILED"} /\ ota.version = version

(* Mutant: no deadline of the core's own.                                  *)
WrapUpOnVerdict ==
  /\ Tick /\ smoke # "off" /\ Terminal
  /\ smoke' = "off" /\ want' = FALSE /\ Persist("stop")
  /\ core' = Stopped(core) /\ runningId' = NoModel
  /\ order' = "stop"
  /\ UNCHANGED <<version, bootVersion, ota, profile, active, licence, phase,
                 waiting, txn, fault, bounds>>

WrapUp ==
  /\ Tick /\ smoke # "off" /\ (Terminal \/ smoke = "late")
  /\ smoke' = "off" /\ want' = FALSE /\ Persist("stop")
  /\ core' = Stopped(core) /\ runningId' = NoModel
  /\ order' = "stop"
  /\ UNCHANGED <<version, bootVersion, ota, profile, active, licence, phase,
                 waiting, txn, fault, bounds>>
-----------------------------------------------------------------------------
(* handle_runtime_control                                                  *)
Control == Live /\ Idle /\ smoke' = "off"

StartIdempotent ==
  /\ Control /\ core.up
  /\ order' = "start"
  /\ UNCHANGED <<disk, active, licence, phase, want, waiting, core,
                 runningId, txn, fault, saved, bounds>>

(* start or restart: refused, but the wait for the updater is off.         *)
ControlRefused ==
  /\ Control /\ ~PipelineAllowed
  /\ order' = "start"
  /\ UNCHANGED <<disk, active, licence, phase, want, waiting, core,
                 runningId, txn, fault, saved, bounds>>

StartWith(c) ==
  /\ Control /\ PipelineAllowed
  /\ want' = TRUE /\ Persist("run") /\ runningId' = NoModel
  /\ Attempt(c, TRUE)
  /\ order' = "start"
  /\ UNCHANGED <<version, bootVersion, ota, profile, active, licence, phase,
                 txn, fault, bounds>>

ControlStart == ~core.up /\ StartWith(core)

ControlRestart == StartWith(Stopped(core))

(* Mutant: the stop is not written down.                                   *)
StopUnsaved ==
  /\ Control
  /\ want' = FALSE /\ runningId' = NoModel
  /\ core' = Stopped(core)
  /\ order' = "stop"
  /\ UNCHANGED <<disk, active, licence, phase, waiting, txn, fault, saved,
                 bounds>>

ControlStop ==
  /\ Control
  /\ want' = FALSE /\ Persist("stop") /\ runningId' = NoModel
  /\ core' = Stopped(core)
  /\ order' = "stop"
  /\ UNCHANGED <<version, bootVersion, ota, profile, active, licence, phase,
                 waiting, txn, fault, bounds>>
-----------------------------------------------------------------------------
(* handle_model_activate, up to its first switch.  A model the registry    *)
(* refuses changes nothing.                                                *)
Activate(m) ==
  /\ Live /\ Idle
  /\ order' = "activate"
  /\ IF active = m /\ core.up /\ runningId = m
     THEN /\ \E ok \in Writes : IF ok THEN Synced(m) ELSE UNCHANGED profile
          /\ UNCHANGED <<active, txn>>
     ELSE /\ active' = m
          /\ txn' = Txn("switch", IF core.up THEN "hot" ELSE "cold", m, active)
          /\ UNCHANGED profile
  /\ UNCHANGED <<version, bootVersion, ota, intent, licence, phase, want,
                 smoke, waiting, core, runningId, fault, saved, bounds>>

(* handle_model_set_concurrency of the running model.                      *)
SetConcurrency ==
  /\ Live /\ Idle /\ core.up /\ runningId # NoModel
  /\ txn' = Txn("switch", "workers", runningId, runningId)
  /\ UNCHANGED <<disk, active, licence, phase, want, smoke, waiting, core,
                 runningId, fault, history, bounds>>

(* registry().activate or deactivate; a failure is ignored.                *)
Reselect(m) == \E ok \in Writes : active' = IF ok THEN m ELSE active

Leave(c, w, id) ==
  core' = c /\ want' = w /\ runningId' = id /\ txn' = NoTxn

(***************************************************************************)
(* The first activation failed, with the runtime as c, w and id.  how:     *)
(* "select" puts the old selection back, "back" also switches back to it,  *)
(* "backsync" also writes it to the profile.                               *)
(***************************************************************************)
Undo(how, c, w, id) ==
  IF txn.kind \notin {"cold", "hot"}
    THEN Leave(c, w, id) /\ UNCHANGED active
  ELSE IF txn.prev = NoModel
    THEN /\ Reselect(NoModel)
         /\ IF how = "select" THEN Leave(c, w, id)
            ELSE Leave(Stopped(c), FALSE, NoModel)
  ELSE IF txn.kind = "cold" /\ txn.prev = txn.target
    THEN Leave(c, w, id) /\ UNCHANGED active
  ELSE IF how = "select"
    THEN Leave(c, w, id) /\ Reselect(txn.prev)
  ELSE /\ Reselect(txn.prev)
       /\ core' = c /\ want' = w /\ runningId' = id
       /\ txn' = Txn("switch", how, txn.prev, txn.prev)

SwitchFailed(c, w, id) ==
  Undo(IF txn.kind = "cold" THEN "select" ELSE "back", c, w, id)

(* A new core with the selected model, or the workers of the running one.  *)
Rebuilds ==
  IF core.up THEN Reloads(core, Built(gate), fault)
  ELSE LET c == Initialized(Stopped(core), Built(gate), gate)
       IN {[core |-> AfterStart(c, fault), ok |-> CanStart(c, fault)]}

(* switch_active_model_runtime up to the wait for the first frame          *)
SwitchRefused ==
  /\ txn.stage = "switch" /\ "inference" \notin gate
  /\ SwitchFailed(core, want, runningId)
  /\ UNCHANGED <<disk, licence, phase, smoke, waiting, fault, history,
                 bounds>>

(* The parameters of the model cannot be built: want is on again.          *)
SwitchUnbuilt ==
  /\ txn.stage = "switch" /\ "inference" \in gate
  /\ ~CanBuild \/ FALSE \in Writes
  /\ SwitchFailed(IF core.up THEN core ELSE Stopped(core), TRUE, NoModel)
  /\ UNCHANGED <<disk, licence, phase, smoke, waiting, fault, history,
                 bounds>>

Switch ==
  /\ txn.stage = "switch" /\ "inference" \in gate /\ CanBuild
  /\ \E r \in Rebuilds :
       IF r.ok
         THEN /\ core' = SetGates(r.core, gate)
              /\ want' = TRUE /\ waiting' = FALSE /\ runningId' = NoModel
              /\ txn' = [txn EXCEPT !.stage = "frame"]
              /\ UNCHANGED active
         ELSE SwitchFailed(r.core, TRUE, NoModel) /\ UNCHANGED waiting
  /\ UNCHANGED <<disk, licence, phase, smoke, fault, history, bounds>>

(* The first frame came: running_model_id_, then the profile.              *)
FirstFrame ==
  /\ txn.stage = "frame" /\ ModelReady(core)
  /\ IF txn.kind \in {"back", "workers"}
     THEN Leave(core, want, txn.target) /\ UNCHANGED <<profile, active>>
     ELSE \E ok \in Writes :
            IF ok THEN /\ Synced(txn.target)
                       /\ Leave(core, want, txn.target) /\ UNCHANGED active
            ELSE Undo("backsync", core, want, txn.target) /\ UNCHANGED profile
  /\ UNCHANGED <<version, bootVersion, ota, intent, licence, phase, smoke,
                 waiting, fault, history, bounds>>

NoFirstFrame ==
  /\ txn.stage = "frame" /\ ~ModelReady(core)
  /\ SwitchFailed(core, want, runningId)
  /\ UNCHANGED <<disk, licence, phase, smoke, waiting, fault, history,
                 bounds>>
-----------------------------------------------------------------------------
(* A worker decodes a frame.                                               *)
Frame ==
  /\ Live /\ Infers(core, fault) /\ (~core.ready \/ core.quiet)
  /\ core' = Inferred(core)
  /\ UNCHANGED <<disk, active, licence, phase, want, smoke, waiting,
                 runningId, txn, fault, history, bounds>>

(* No worker has for the time of the watchdog.                             *)
FallQuiet ==
  /\ Live /\ core.up /\ ~Infers(core, fault) /\ ~core.quiet
  /\ core' = [core EXCEPT !.quiet = TRUE]
  /\ UNCHANGED <<disk, active, licence, phase, want, smoke, waiting,
                 runningId, txn, fault, history, bounds>>

(* kPostUpdateSmokeMaxMs are over.                                         *)
Deadline ==
  /\ Live /\ smoke = "on"
  /\ smoke' = "late"
  /\ UNCHANGED <<disk, active, licence, phase, want, waiting, core,
                 runningId, txn, fault, history, bounds>>

(* A licence handler changed the licence and published it.                 *)
ChangeCard(c) ==
  /\ Live /\ cards < MaxCards
  /\ cards' = cards + 1
  /\ card' = c /\ gate' = c
  /\ UNCHANGED <<disk, active, phase, want, smoke, waiting, core, runningId,
                 txn, fault, history, kills, updates, faults>>

ChangeFault(f) ==
  /\ faults < MaxFaults /\ f # fault
  /\ faults' = faults + 1
  /\ fault' = f
  /\ UNCHANGED <<disk, active, licence, phase, want, smoke, waiting, core,
                 runningId, txn, history, kills, updates, cards>>

Gone ==
  /\ phase' = "down" /\ txn' = NoTxn /\ core' = Allocated
  /\ runningId' = NoModel /\ smoke' = "off" /\ want' = TRUE
  /\ waiting' = FALSE /\ gate' = {}

Kill ==
  /\ Live /\ kills < MaxKills
  /\ kills' = kills + 1
  /\ Gone
  /\ UNCHANGED <<disk, active, card, fault, history, updates, cards, faults>>

(* A request to exit; no handler is in flight after ipc_.stop().           *)
Shutdown ==
  /\ Tick
  /\ Gone
  /\ UNCHANGED <<disk, active, card, fault, history, bounds>>

(* ttbox_ota_updater.py: a new release, then its verdict by default_health, *)
(* which asks for an answering core.                                       *)
Update(v) ==
  /\ updates < MaxUpdates /\ v # version
  /\ updates' = updates + 1
  /\ version' = v /\ ota' = [state |-> "RUNNING", version |-> v]
  /\ Gone
  /\ UNCHANGED <<bootVersion, intent, profile, active, card, fault, history,
                 kills, cards, faults>>

UpdateSucceeds ==
  /\ ota.state = "RUNNING" /\ Live
  /\ ota' = [state |-> "SUCCESS", version |-> version]
  /\ UNCHANGED <<version, bootVersion, intent, profile, active, licence,
                 phase, want, smoke, waiting, core, runningId, txn, fault,
                 history, bounds>>

(* The rollback itself fails: the verdict is all that is left of it.        *)
UpdateFails ==
  /\ ota.state = "RUNNING"
  /\ ota' = [state |-> "FAILED", version |-> NoVersion]
  /\ UNCHANGED <<version, bootVersion, intent, profile, active, licence,
                 phase, want, smoke, waiting, core, runningId, txn, fault,
                 history, bounds>>

UpdateRollsBack(v) ==
  /\ ota.state = "RUNNING" /\ v # version
  /\ version' = v /\ ota' = [state |-> "FAILED", version |-> NoVersion]
  /\ Gone
  /\ UNCHANGED <<bootVersion, intent, profile, active, card, fault, history,
                 bounds>>
-----------------------------------------------------------------------------
MainLoop == FirstStart \/ Retry \/ Watchdog \/ Commit \/ WrapUp

Switching == SwitchRefused \/ SwitchUnbuilt \/ Switch
             \/ FirstFrame \/ NoFirstFrame

Users ==
  \/ StartIdempotent \/ ControlRefused \/ ControlStart \/ ControlRestart
  \/ ControlStop \/ SetConcurrency
  \/ \E m \in Models : Activate(m)

Environment ==
  \/ Deadline \/ Kill \/ Shutdown \/ UpdateSucceeds \/ UpdateFails
  \/ \E c \in Cards : ChangeCard(c)
  \/ \E f \in Faults : ChangeFault(f)
  \/ \E v \in Versions : Update(v) \/ UpdateRollsBack(v)

Next == Boot \/ ApplyGates \/ MainLoop \/ Switching \/ Users
        \/ Frame \/ FallQuiet \/ Environment

Spec == Init /\ [][Next]_vars

(***************************************************************************)
(* systemd restarts the process, its main loop ticks, a wait for a frame   *)
(* is limited to 5 s, time passes, and hardware that works delivers.       *)
(***************************************************************************)
Fairness ==
  /\ WF_vars(Boot) /\ WF_vars(ApplyGates) /\ WF_vars(FirstStart)
  /\ WF_vars(Retry) /\ WF_vars(Watchdog) /\ WF_vars(WrapUp)
  /\ WF_vars(Switching) /\ WF_vars(Frame) /\ WF_vars(FallQuiet)
  /\ WF_vars(Deadline)

FairSpec == Spec /\ Fairness
-----------------------------------------------------------------------------
DiskType ==
  /\ version \in Versions /\ bootVersion \in Versions \cup {NoVersion}
  /\ ota \in [state : {"none", "RUNNING", "SUCCESS", "FAILED"},
              version : Versions \cup {NoVersion}]
  /\ intent \in {"none", "run", "stop"}
  /\ profile \in Models \cup {NoModel}

LicenceType == card \in Cards /\ gate \in Cards \cup {{}}

ProcessType ==
  /\ phase \in {"down", "booting", "gated", "looping"}
  /\ want \in BOOLEAN /\ smoke \in {"off", "on", "late"}
  /\ waiting \in BOOLEAN

ModelType == active \in Models \cup {NoModel}
             /\ runningId \in Models \cup {NoModel}

TxnType ==
  txn \in [stage : {"idle", "switch", "frame"},
           kind : {"cold", "hot", "back", "backsync", "workers"},
           target : Models \cup {NoModel}, prev : Models \cup {NoModel}]

HistoryType ==
  /\ order \in {"none", "start", "stop", "update", "activate"}
  /\ saved \in BOOLEAN

BoundsType ==
  /\ fault \in Faults
  /\ kills \in 0 .. MaxKills /\ updates \in 0 .. MaxUpdates
  /\ cards \in 0 .. MaxCards /\ faults \in 0 .. MaxFaults

(* What the state is made of, core \in Cores included.                     *)
TypeOK ==
  /\ DiskType /\ LicenceType /\ ProcessType /\ ModelType
  /\ core \in Cores /\ TxnType /\ HistoryType /\ BoundsType

(* Whenever no handler holds the mutex, a runtime that is up is wanted:    *)
(* the switch that puts want off for its own time, and every way out of    *)
(* its rollbacks, leaves the two in agreement (Application.cpp:2103).      *)
RunningIsWanted == Idle /\ core.up => want

(* A current_model_id is only published for a runtime that is up and whose *)
(* workers have decoded a frame, through every rollback, watchdog restart  *)
(* and failed reload (Application.cpp:1321).                               *)
CurrentModelIsReady == runningId # NoModel => ModelReady(core)

(* After a stop by the user, or the stop that ends the check after an      *)
(* update, nothing but a new request of the user or a new release has the  *)
(* runtime up or wanted again: no retry, watchdog or reboot does, if the   *)
(* order reached the disk (Application.cpp:1017, 1756).                    *)
StopHolds ==
  order = "stop" /\ saved /\ Live /\ smoke = "off" /\ Idle
    => ~want /\ ~core.up

(* No session begins without a licence for the capture, or, for a model    *)
(* switch, the inference (Application.cpp:998).                            *)
NoSessionWithoutLicence ==
  [][core'.up /\ ~core.up => gate \cap {"capture", "inference"} # {}]_vars

(* The check after an update comes to an end, unless model switches keep   *)
(* the mutex busy for ever (Application.cpp:1221).                         *)
SmokeEnds == <>[]Idle => ((smoke # "off") ~> (smoke = "off"))

(* A wanted runtime with its licence, parameters and working hardware      *)
(* comes to decode frames whatever failed before, with preloaded workers   *)
(* or without (Application.cpp:1013, 1071; CoreRuntime.cpp:330).           *)
Recovers ==
  <>[](phase = "looping" /\ Idle /\ want /\ fault = "none" /\ ~waiting
       /\ core.params # NoModel /\ core.gates = AllFeatures
       /\ PipelineAllowed)
    => []<>ModelReady(core)

=============================================================================
