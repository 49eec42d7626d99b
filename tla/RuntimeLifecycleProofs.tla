----------------------- MODULE RuntimeLifecycleProofs -----------------------
(***************************************************************************)
(* For any models, versions, licences, faults and bounds: the type of the  *)
(* state, that a runtime that is up is wanted, that a published model has  *)
(* decoded a frame, that a stop holds, and that no session begins without  *)
(* a licence.                                                              *)
(***************************************************************************)
EXTENDS RuntimeLifecycle, TLAPS

USE ModelAssumption, LifecycleAssumption

NullableModels == Models \cup {NoModel}
-----------------------------------------------------------------------------
(* What the methods of CoreRuntime make of a well-formed object.           *)
LEMMA AllocatedCore == Allocated \in Cores /\ ~Allocated.up
BY DEF Allocated, Cores, AllFeatures

LEMMA StoppedCore ==
  ASSUME NEW c \in Cores
  PROVE  Stopped(c) \in Cores /\ ~Stopped(c).up
BY DEF Stopped, Cores

LEMMA InitializedCore ==
  ASSUME NEW c \in Cores, NEW m \in NullableModels, NEW g \in SUBSET AllFeatures
  PROVE  /\ Initialized(c, m, g) \in Cores
         /\ Initialized(c, m, g).up = c.up
BY DEF Initialized, Cores, NullableModels

LEMMA PreloadedCore ==
  ASSUME NEW c \in Cores
  PROVE  Preloaded(c) \in Cores /\ Preloaded(c).up = c.up
BY DEF Preloaded, Cores

LEMMA GatedCore ==
  ASSUME NEW c \in Cores, NEW g \in SUBSET AllFeatures
  PROVE  /\ SetGates(c, g) \in Cores
         /\ SetGates(c, g).up = c.up /\ SetGates(c, g).pool = c.pool
         /\ SetGates(c, g).ready = c.ready
BY DEF SetGates, Cores

LEMMA StartedCore ==
  ASSUME NEW c \in Cores, NEW f
  PROVE  AfterStart(c, f) \in Cores
<1>1. StartedPool(c) \in NullableModels
  BY DEF StartedPool, Cores, NullableModels
<1>2. Running(c) \in Cores
  BY <1>1 DEF Running, Cores, NullableModels
<1>3. RolledBack(c) \in Cores
  BY DEF RolledBack, Cores
<1> QED  BY <1>2, <1>3 DEF AfterStart

LEMMA PooledCore ==
  ASSUME NEW c \in Cores, NEW m \in NullableModels
  PROVE  WithPool(c, m) \in Cores /\ WithPool(c, m).up = c.up
BY DEF WithPool, Cores, NullableModels

LEMMA ReloadedCore ==
  ASSUME NEW c \in Cores, NEW m \in NullableModels, NEW f,
         NEW r \in Reloads(c, m, f)
  PROVE  r.core \in Cores
<1>1. c.params \in NullableModels
  BY DEF Cores, NullableModels
<1> QED  BY <1>1, PooledCore, StoppedCore DEF Reloads

LEMMA InferredCore ==
  ASSUME NEW c \in Cores
  PROVE  Inferred(c) \in Cores /\ Inferred(c).up = c.up
BY DEF Inferred, Cores
-----------------------------------------------------------------------------
(* What the parts shared by several actions do.                            *)
LEMMA GateIsFeatures ==
  ASSUME LicenceType
  PROVE  gate \in SUBSET AllFeatures /\ card \in SUBSET AllFeatures
BY DEF LicenceType

LEMMA BuiltModel ==
  ASSUME ModelType, NEW g
  PROVE  Built(g) \in NullableModels
BY DEF ModelType, Built, NullableModels

LEMMA ResumedCore ==
  ASSUME TypeOK, NEW c \in Cores
  PROVE  Resumed(c) \in Cores /\ (Resumed(c).up => c.up)
<1>1. gate \in SUBSET AllFeatures
  BY GateIsFeatures DEF TypeOK
<1>2. Built(gate) \in NullableModels
  BY BuiltModel DEF TypeOK
<1>3. Allocated \in Cores /\ ~Allocated.up
  BY AllocatedCore
<1>4. /\ Initialized(Allocated, Built(gate), gate) \in Cores
      /\ ~Initialized(Allocated, Built(gate), gate).up
  BY <1>1, <1>2, <1>3, InitializedCore
<1> QED  BY <1>3, <1>4 DEF Resumed

LEMMA AttemptedCore ==
  ASSUME TypeOK, NEW c \in Cores, NEW a, Attempt(c, a)
  PROVE  core' \in Cores /\ waiting' \in BOOLEAN /\ (core'.up => c.up \/ a)
<1>1. Resumed(c) \in Cores /\ (Resumed(c).up => c.up)
  BY ResumedCore
<1>2. AfterStart(Resumed(c), fault) \in Cores
  BY <1>1, StartedCore
<1>3. waiting' \in BOOLEAN
  BY DEF Attempt
<1> QED  BY <1>1, <1>2, <1>3 DEF Attempt

LEMMA RebuiltCore ==
  ASSUME TypeOK, NEW r \in Rebuilds
  PROVE  r.core \in Cores
<1>1. gate \in SUBSET AllFeatures /\ core \in Cores
  BY GateIsFeatures DEF TypeOK
<1>2. Built(gate) \in NullableModels
  BY BuiltModel DEF TypeOK
<1>3. CASE core.up
  BY <1>1, <1>2, <1>3, ReloadedCore DEF Rebuilds
<1>4. CASE ~core.up
  <2> DEFINE c == Initialized(Stopped(core), Built(gate), gate)
  <2>1. c \in Cores
    BY <1>1, <1>2, StoppedCore, InitializedCore
  <2>2. AfterStart(c, fault) \in Cores
    BY <2>1, StartedCore
  <2>3. r = [core |-> AfterStart(c, fault), ok |-> CanStart(c, fault)]
    BY <1>4 DEF Rebuilds
  <2> QED  BY <2>2, <2>3
<1> QED  BY <1>3, <1>4

LEMMA TxnTyped ==
  ASSUME NEW s \in {"idle", "switch", "frame"},
         NEW k \in {"cold", "hot", "back", "backsync", "workers"},
         NEW m \in NullableModels, NEW p \in NullableModels,
         txn' = Txn(s, k, m, p)
  PROVE  TxnType'
BY DEF Txn, TxnType, NullableModels

(* A rollback leaves the runtime as given, or stopped and unwanted.        *)
LEMMA UndoEffect ==
  ASSUME TypeOK, NEW c \in Cores, NEW w \in BOOLEAN, NEW id \in NullableModels,
         NEW how \in {"select", "back", "backsync"}, Undo(how, c, w, id)
  PROVE  /\ \/ core' = c /\ want' = w /\ runningId' = id
            \/ core' = Stopped(c) /\ want' = FALSE /\ runningId' = NoModel
         /\ ModelType' /\ TxnType'
<1>1. txn.prev \in NullableModels /\ active \in NullableModels
  BY DEF TypeOK, TxnType, ModelType, NullableModels
<1>2. NoModel \in NullableModels
  BY DEF NullableModels
<1>3. ASSUME txn' = NoTxn PROVE TxnType'
  BY <1>2, <1>3, TxnTyped DEF NoTxn
<1>4. \/ core' = c /\ want' = w /\ runningId' = id
      \/ core' = Stopped(c) /\ want' = FALSE /\ runningId' = NoModel
  BY DEF Undo, Leave
<1>5. active' \in NullableModels
  BY <1>1, <1>2 DEF Undo, Reselect
<1>6. TxnType'
  <2>1. CASE txn' = NoTxn
    BY <2>1, <1>3
  <2>2. CASE txn' # NoTxn
    <3>1. how # "select" /\ txn' = Txn("switch", how, txn.prev, txn.prev)
      BY <2>2 DEF Undo, Leave
    <3>2. how \in {"cold", "hot", "back", "backsync", "workers"}
      BY <3>1
    <3>3. "switch" \in {"idle", "switch", "frame"}
      OBVIOUS
    <3> QED  BY <1>1, <3>1, <3>2, <3>3, TxnTyped
  <2> QED  BY <2>1, <2>2
<1> QED  BY <1>2, <1>4, <1>5, <1>6 DEF ModelType, NullableModels

LEMMA SwitchFailedEffect ==
  ASSUME TypeOK, NEW c \in Cores, NEW w \in BOOLEAN, NEW id \in NullableModels,
         SwitchFailed(c, w, id)
  PROVE  /\ \/ core' = c /\ want' = w /\ runningId' = id
            \/ core' = Stopped(c) /\ want' = FALSE /\ runningId' = NoModel
         /\ ModelType' /\ TxnType'
<1> DEFINE how == IF txn.kind = "cold" THEN "select" ELSE "back"
<1>1. how \in {"select", "back", "backsync"}
  OBVIOUS
<1>2. Undo(how, c, w, id)
  BY DEF SwitchFailed
<1> HIDE DEF how
<1> QED  BY <1>1, <1>2, UndoEffect
-----------------------------------------------------------------------------
(* The type of the state.                                                  *)
LEMMA IdleTxn ==
  /\ txn = NoTxn => TxnType
  /\ txn' = NoTxn => TxnType'
BY DEF NoTxn, Txn, TxnType

LEMMA TypeInit == Init => TypeOK
<1> SUFFICES ASSUME Init PROVE TypeOK
  OBVIOUS
<1>1. core \in Cores /\ TxnType
  BY AllocatedCore, IdleTxn DEF Init
<1>2. DiskType /\ LicenceType /\ ProcessType /\ ModelType /\ HistoryType
  BY DEF Init, DiskType, LicenceType, ProcessType, ModelType, HistoryType
<1>3. BoundsType
  BY DEF Init, BoundsType
<1> QED  BY <1>1, <1>2, <1>3 DEF TypeOK

(* The parts of the state that a step leaves alone.                        *)
LEMMA Framed ==
  ASSUME TypeOK
  PROVE  /\ UNCHANGED disk => DiskType'
         /\ UNCHANGED licence => LicenceType'
         /\ UNCHANGED history => HistoryType'
         /\ UNCHANGED <<fault, bounds>> => BoundsType'
         /\ UNCHANGED <<active, runningId>> => ModelType'
         /\ UNCHANGED txn => TxnType'
         /\ UNCHANGED core => core' \in Cores
         /\ UNCHANGED <<phase, want, smoke, waiting>> => ProcessType'
BY DEF TypeOK, DiskType, LicenceType, ProcessType, ModelType, TxnType, HistoryType, BoundsType, disk, licence, history, bounds

LEMMA BootType ==
  ASSUME TypeOK, Boot
  PROVE  TypeOK'
<1>1. core' \in Cores
  <2>1. ASSUME active # NoModel
      PROVE  Initialized(Allocated, active, AllFeatures) \in Cores
    <3>1. active \in NullableModels
      BY DEF TypeOK, ModelType, NullableModels
    <3> QED  BY <3>1, AllocatedCore, InitializedCore
  <2>2. CASE active = NoModel
    BY <2>2, AllocatedCore DEF Boot
  <2>3. CASE active # NoModel
    BY <2>1, <2>3, PreloadedCore DEF Boot
  <2> QED  BY <2>2, <2>3
<1>2. DiskType' /\ LicenceType'
  BY Framed DEF Boot, disk, licence, history, bounds, TypeOK, DiskType, LicenceType
<1>3. ProcessType' /\ HistoryType'
  BY Framed DEF Boot, disk, licence, history, bounds, TypeOK, ProcessType, HistoryType
<1>4. ModelType' /\ TxnType'
  BY Framed, IdleTxn DEF Boot, disk, licence, history, bounds, TypeOK, ModelType
<1>5. BoundsType'
  BY Framed DEF Boot, disk, licence, history, bounds, TypeOK, BoundsType
<1> QED  BY <1>1, <1>2, <1>3, <1>4, <1>5 DEF TypeOK

LEMMA ApplyGatesType ==
  ASSUME TypeOK, ApplyGates
  PROVE  TypeOK'
<1>1. core' \in Cores
  BY GateIsFeatures, GatedCore DEF ApplyGates, TypeOK
<1>2. DiskType' /\ LicenceType'
  BY Framed DEF ApplyGates, disk, licence, history, bounds, TypeOK, DiskType, LicenceType
<1>3. ProcessType' /\ HistoryType'
  BY Framed DEF ApplyGates, disk, licence, history, bounds, TypeOK, ProcessType, HistoryType
<1>4. ModelType' /\ TxnType'
  BY Framed, IdleTxn DEF ApplyGates, disk, licence, history, bounds, TypeOK, ModelType
<1>5. BoundsType'
  BY Framed DEF ApplyGates, disk, licence, history, bounds, TypeOK, BoundsType
<1> QED  BY <1>1, <1>2, <1>3, <1>4, <1>5 DEF TypeOK

LEMMA FirstStartType ==
  ASSUME TypeOK, FirstStart
  PROVE  TypeOK'
<1>1. core' \in Cores /\ waiting' \in BOOLEAN
  BY AttemptedCore, StoppedCore DEF FirstStart, TypeOK, ProcessType
<1>2. DiskType' /\ LicenceType'
  BY Framed DEF FirstStart, disk, licence, history, bounds, TypeOK, DiskType, LicenceType
<1>3. ProcessType' /\ HistoryType'
  BY <1>1, Framed DEF FirstStart, disk, licence, history, bounds, TypeOK, ProcessType, HistoryType
<1>4. ModelType' /\ TxnType'
  BY Framed DEF FirstStart, disk, licence, history, bounds, TypeOK, ModelType
<1>5. BoundsType'
  BY Framed DEF FirstStart, disk, licence, history, bounds
<1> QED  BY <1>1, <1>2, <1>3, <1>4, <1>5 DEF TypeOK

LEMMA RetryType ==
  ASSUME TypeOK, Retry
  PROVE  TypeOK'
<1>1. core' \in Cores /\ waiting' \in BOOLEAN
  BY AttemptedCore, StoppedCore DEF Retry, TypeOK, ProcessType
<1>2. DiskType' /\ LicenceType'
  BY Framed DEF Retry, disk, licence, history, bounds, TypeOK, DiskType, LicenceType
<1>3. ProcessType' /\ HistoryType'
  BY <1>1, Framed DEF Retry, disk, licence, history, bounds, TypeOK, ProcessType, HistoryType
<1>4. ModelType' /\ TxnType'
  BY Framed DEF Retry, disk, licence, history, bounds, TypeOK, ModelType
<1>5. BoundsType'
  BY Framed DEF Retry, disk, licence, history, bounds
<1> QED  BY <1>1, <1>2, <1>3, <1>4, <1>5 DEF TypeOK

LEMMA WatchdogType ==
  ASSUME TypeOK, Watchdog
  PROVE  TypeOK'
<1>1. core' \in Cores
  BY StoppedCore, StartedCore DEF Watchdog, TypeOK
<1>2. DiskType' /\ LicenceType'
  BY Framed DEF Watchdog, disk, licence, history, bounds, TypeOK, DiskType, LicenceType
<1>3. ProcessType' /\ HistoryType'
  BY Framed DEF Watchdog, disk, licence, history, bounds, TypeOK, ProcessType, HistoryType
<1>4. ModelType' /\ TxnType'
  BY Framed, IdleTxn DEF Watchdog, disk, licence, history, bounds, TypeOK, ModelType
<1>5. BoundsType'
  BY Framed DEF Watchdog, disk, licence, history, bounds, TypeOK, BoundsType
<1> QED  BY <1>1, <1>2, <1>3, <1>4, <1>5 DEF TypeOK

LEMMA CommitType ==
  ASSUME TypeOK, Commit
  PROVE  TypeOK'
<1>1. core' \in Cores
  BY Framed DEF Commit
<1>2. DiskType' /\ LicenceType'
  BY Framed DEF Commit, Synced, disk, licence, history, bounds, TypeOK, DiskType,
     LicenceType, ModelType
<1>3. ProcessType' /\ HistoryType'
  BY Framed DEF Commit, disk, licence, history, bounds, TypeOK, ProcessType, HistoryType
<1>4. ModelType' /\ TxnType'
  BY Framed, IdleTxn DEF Commit, disk, licence, history, bounds, TypeOK, ModelType
<1>5. BoundsType'
  BY Framed DEF Commit, disk, licence, history, bounds, TypeOK, BoundsType
<1> QED  BY <1>1, <1>2, <1>3, <1>4, <1>5 DEF TypeOK

LEMMA WrapUpType ==
  ASSUME TypeOK, WrapUp
  PROVE  TypeOK'
<1>1. core' \in Cores
  BY StoppedCore DEF WrapUp, TypeOK
<1>2. DiskType' /\ LicenceType'
  BY Framed DEF WrapUp, disk, licence, history, bounds, TypeOK, DiskType, LicenceType, Persist
<1>3. ProcessType' /\ HistoryType'
  BY Framed DEF WrapUp, disk, licence, history, bounds, TypeOK, ProcessType, HistoryType, Persist
<1>4. ModelType' /\ TxnType'
  BY Framed, IdleTxn DEF WrapUp, disk, licence, history, bounds, TypeOK, ModelType, Persist
<1>5. BoundsType'
  BY Framed DEF WrapUp, disk, licence, history, bounds, TypeOK, BoundsType, Persist
<1> QED  BY <1>1, <1>2, <1>3, <1>4, <1>5 DEF TypeOK

LEMMA StartIdempotentType ==
  ASSUME TypeOK, StartIdempotent
  PROVE  TypeOK'
<1>1. core' \in Cores
  BY Framed DEF StartIdempotent
<1>2. DiskType' /\ LicenceType'
  BY Framed DEF StartIdempotent, disk, licence, history, bounds, TypeOK, DiskType, LicenceType, Control
<1>3. ProcessType' /\ HistoryType'
  BY Framed DEF StartIdempotent, disk, licence, history, bounds, TypeOK, ProcessType, HistoryType, Control
<1>4. ModelType' /\ TxnType'
  BY Framed, IdleTxn DEF StartIdempotent, disk, licence, history, bounds, TypeOK, ModelType, Control
<1>5. BoundsType'
  BY Framed DEF StartIdempotent, disk, licence, history, bounds, TypeOK, BoundsType, Control
<1> QED  BY <1>1, <1>2, <1>3, <1>4, <1>5 DEF TypeOK

LEMMA ControlRefusedType ==
  ASSUME TypeOK, ControlRefused
  PROVE  TypeOK'
<1>1. core' \in Cores
  BY Framed DEF ControlRefused
<1>2. DiskType' /\ LicenceType'
  BY Framed DEF ControlRefused, disk, licence, history, bounds, TypeOK, DiskType, LicenceType, Control
<1>3. ProcessType' /\ HistoryType'
  BY Framed DEF ControlRefused, disk, licence, history, bounds, TypeOK, ProcessType, HistoryType, Control
<1>4. ModelType' /\ TxnType'
  BY Framed, IdleTxn DEF ControlRefused, disk, licence, history, bounds, TypeOK, ModelType, Control
<1>5. BoundsType'
  BY Framed DEF ControlRefused, disk, licence, history, bounds, TypeOK, BoundsType, Control
<1> QED  BY <1>1, <1>2, <1>3, <1>4, <1>5 DEF TypeOK

LEMMA ControlStartType ==
  ASSUME TypeOK, ControlStart
  PROVE  TypeOK'
<1>1. core' \in Cores /\ waiting' \in BOOLEAN
  BY AttemptedCore, StoppedCore DEF ControlStart, TypeOK, ProcessType, StartWith, Control, Persist
<1>2. DiskType' /\ LicenceType'
  BY Framed DEF ControlStart, disk, licence, history, bounds, TypeOK, DiskType, LicenceType, StartWith, Control, Persist
<1>3. ProcessType' /\ HistoryType'
  BY <1>1, Framed DEF ControlStart, disk, licence, history, bounds, TypeOK, ProcessType, HistoryType, StartWith, Control, Persist
<1>4. ModelType' /\ TxnType'
  BY Framed DEF ControlStart, disk, licence, history, bounds, TypeOK, ModelType, StartWith, Control, Persist
<1>5. BoundsType'
  BY Framed DEF ControlStart, disk, licence, history, bounds, StartWith, Control, Persist
<1> QED  BY <1>1, <1>2, <1>3, <1>4, <1>5 DEF TypeOK

LEMMA ControlRestartType ==
  ASSUME TypeOK, ControlRestart
  PROVE  TypeOK'
<1>1. core' \in Cores /\ waiting' \in BOOLEAN
  BY AttemptedCore, StoppedCore DEF ControlRestart, TypeOK, ProcessType, StartWith, Control, Persist
<1>2. DiskType' /\ LicenceType'
  BY Framed DEF ControlRestart, disk, licence, history, bounds, TypeOK, DiskType, LicenceType, StartWith, Control, Persist
<1>3. ProcessType' /\ HistoryType'
  BY <1>1, Framed DEF ControlRestart, disk, licence, history, bounds, TypeOK, ProcessType, HistoryType, StartWith, Control, Persist
<1>4. ModelType' /\ TxnType'
  BY Framed DEF ControlRestart, disk, licence, history, bounds, TypeOK, ModelType, StartWith, Control, Persist
<1>5. BoundsType'
  BY Framed DEF ControlRestart, disk, licence, history, bounds, StartWith, Control, Persist
<1> QED  BY <1>1, <1>2, <1>3, <1>4, <1>5 DEF TypeOK

LEMMA ControlStopType ==
  ASSUME TypeOK, ControlStop
  PROVE  TypeOK'
<1>1. core' \in Cores
  BY StoppedCore DEF ControlStop, TypeOK
<1>2. DiskType' /\ LicenceType'
  BY Framed DEF ControlStop, disk, licence, history, bounds, TypeOK, DiskType, LicenceType, Control, Persist
<1>3. ProcessType' /\ HistoryType'
  BY Framed DEF ControlStop, disk, licence, history, bounds, TypeOK, ProcessType, HistoryType, Control, Persist
<1>4. ModelType' /\ TxnType'
  BY Framed, IdleTxn DEF ControlStop, disk, licence, history, bounds, TypeOK, ModelType, Control, Persist
<1>5. BoundsType'
  BY Framed DEF ControlStop, disk, licence, history, bounds, TypeOK, BoundsType, Control, Persist
<1> QED  BY <1>1, <1>2, <1>3, <1>4, <1>5 DEF TypeOK

LEMMA ActivateType ==
  ASSUME TypeOK, NEW m \in Models, Activate(m)
  PROVE  TypeOK'
<1>1. core' \in Cores
  BY Framed DEF Activate
<1>2. DiskType' /\ LicenceType'
  BY Framed DEF Activate, disk, licence, history, bounds, TypeOK, DiskType, LicenceType, Synced
<1>3. ProcessType' /\ HistoryType'
  BY Framed DEF Activate, disk, licence, history, bounds, TypeOK, ProcessType, HistoryType, Synced
<1>4. ModelType' /\ TxnType'
  <2>1. active \in NullableModels /\ m \in NullableModels
    BY DEF TypeOK, ModelType, NullableModels
  <2>2. "switch" \in {"idle", "switch", "frame"}
    OBVIOUS
  <2>3. ASSUME NEW k \in {"cold", "hot", "back", "backsync", "workers"},
               txn' = Txn("switch", k, m, active)
        PROVE  TxnType'
    BY <2>1, <2>2, <2>3, TxnTyped
  <2>4. TxnType'
    BY <2>3, Framed DEF Activate
  <2>5. ModelType'
    BY <2>1 DEF Activate, TypeOK, ModelType
  <2> QED  BY <2>4, <2>5
<1>5. BoundsType'
  BY Framed DEF Activate, disk, licence, history, bounds, TypeOK, BoundsType, Synced
<1> QED  BY <1>1, <1>2, <1>3, <1>4, <1>5 DEF TypeOK

LEMMA SetConcurrencyType ==
  ASSUME TypeOK, SetConcurrency
  PROVE  TypeOK'
<1>1. core' \in Cores
  BY Framed DEF SetConcurrency
<1>2. DiskType' /\ LicenceType'
  BY Framed DEF SetConcurrency, disk, licence, history, bounds, TypeOK, DiskType, LicenceType
<1>3. ProcessType' /\ HistoryType'
  BY Framed DEF SetConcurrency, disk, licence, history, bounds, TypeOK, ProcessType, HistoryType
<1>4. ModelType' /\ TxnType'
  <2>1. runningId \in NullableModels
    BY DEF TypeOK, ModelType, NullableModels
  <2>2. /\ "switch" \in {"idle", "switch", "frame"}
        /\ "workers" \in {"cold", "hot", "back", "backsync", "workers"}
    OBVIOUS
  <2>3. TxnType'
    BY <2>1, <2>2, TxnTyped DEF SetConcurrency
  <2>4. ModelType'
    BY Framed DEF SetConcurrency
  <2> QED  BY <2>3, <2>4
<1>5. BoundsType'
  BY Framed DEF SetConcurrency, disk, licence, history, bounds, TypeOK, BoundsType
<1> QED  BY <1>1, <1>2, <1>3, <1>4, <1>5 DEF TypeOK

LEMMA SwitchRefusedType ==
  ASSUME TypeOK, SwitchRefused
  PROVE  TypeOK'
<1>1. /\ core' \in Cores /\ want' \in BOOLEAN
      /\ ModelType' /\ TxnType'
  <2>1. /\ core \in Cores /\ want \in BOOLEAN
        /\ runningId \in NullableModels /\ NoModel \in NullableModels
    BY DEF TypeOK, ProcessType, ModelType, NullableModels
  <2>2. Stopped(core) \in Cores
    BY <2>1, StoppedCore
  <2>3. core' \in Cores => Stopped(core') \in Cores
    BY StoppedCore
  <2> DEFINE c == IF core.up THEN core ELSE Stopped(core)
  <2>4. c \in Cores
    BY <2>1, <2>2
  <2>5. Stopped(c) \in Cores
    BY <2>4, StoppedCore
  <2> HIDE DEF c
  <2> QED  BY <2>1, <2>2, <2>4, <2>5, SwitchFailedEffect DEF SwitchRefused, c
<1>2. DiskType' /\ LicenceType' /\ HistoryType' /\ BoundsType'
  BY Framed DEF SwitchRefused, bounds
<1>3. ProcessType'
  BY <1>1 DEF SwitchRefused, TypeOK, ProcessType
<1> QED  BY <1>1, <1>2, <1>3 DEF TypeOK

LEMMA SwitchUnbuiltType ==
  ASSUME TypeOK, SwitchUnbuilt
  PROVE  TypeOK'
<1>1. /\ core' \in Cores /\ want' \in BOOLEAN
      /\ ModelType' /\ TxnType'
  <2>1. /\ core \in Cores /\ want \in BOOLEAN
        /\ runningId \in NullableModels /\ NoModel \in NullableModels
    BY DEF TypeOK, ProcessType, ModelType, NullableModels
  <2>2. Stopped(core) \in Cores
    BY <2>1, StoppedCore
  <2>3. core' \in Cores => Stopped(core') \in Cores
    BY StoppedCore
  <2> DEFINE c == IF core.up THEN core ELSE Stopped(core)
  <2>4. c \in Cores
    BY <2>1, <2>2
  <2>5. Stopped(c) \in Cores
    BY <2>4, StoppedCore
  <2> HIDE DEF c
  <2> QED  BY <2>1, <2>2, <2>4, <2>5, SwitchFailedEffect DEF SwitchUnbuilt, c
<1>2. DiskType' /\ LicenceType' /\ HistoryType' /\ BoundsType'
  BY Framed DEF SwitchUnbuilt, bounds
<1>3. ProcessType'
  BY <1>1 DEF SwitchUnbuilt, TypeOK, ProcessType
<1> QED  BY <1>1, <1>2, <1>3 DEF TypeOK

LEMMA NoFirstFrameType ==
  ASSUME TypeOK, NoFirstFrame
  PROVE  TypeOK'
<1>1. /\ core' \in Cores /\ want' \in BOOLEAN
      /\ ModelType' /\ TxnType'
  <2>1. /\ core \in Cores /\ want \in BOOLEAN
        /\ runningId \in NullableModels /\ NoModel \in NullableModels
    BY DEF TypeOK, ProcessType, ModelType, NullableModels
  <2>2. Stopped(core) \in Cores
    BY <2>1, StoppedCore
  <2>3. core' \in Cores => Stopped(core') \in Cores
    BY StoppedCore
  <2> DEFINE c == IF core.up THEN core ELSE Stopped(core)
  <2>4. c \in Cores
    BY <2>1, <2>2
  <2>5. Stopped(c) \in Cores
    BY <2>4, StoppedCore
  <2> HIDE DEF c
  <2> QED  BY <2>1, <2>2, <2>4, <2>5, SwitchFailedEffect DEF NoFirstFrame, c
<1>2. DiskType' /\ LicenceType' /\ HistoryType' /\ BoundsType'
  BY Framed DEF NoFirstFrame, bounds
<1>3. ProcessType'
  BY <1>1 DEF NoFirstFrame, TypeOK, ProcessType
<1> QED  BY <1>1, <1>2, <1>3 DEF TypeOK

LEMMA SwitchType ==
  ASSUME TypeOK, Switch
  PROVE  TypeOK'
<1>1. /\ core' \in Cores /\ want' \in BOOLEAN /\ waiting' \in BOOLEAN
      /\ ModelType' /\ TxnType'
  <2>1. PICK r \in Rebuilds :
          IF r.ok
            THEN /\ core' = SetGates(r.core, gate)
                 /\ want' = TRUE /\ waiting' = FALSE /\ runningId' = NoModel
                 /\ txn' = [txn EXCEPT !.stage = "frame"]
                 /\ UNCHANGED active
            ELSE SwitchFailed(r.core, TRUE, NoModel) /\ UNCHANGED waiting
    BY DEF Switch
  <2>2. r.core \in Cores /\ Stopped(r.core) \in Cores
    BY RebuiltCore, StoppedCore
  <2>3. gate \in SUBSET AllFeatures /\ NoModel \in NullableModels
    BY GateIsFeatures DEF TypeOK, NullableModels
  <2>4. CASE r.ok
    <3>1. core' \in Cores
      BY <2>1, <2>2, <2>3, <2>4, GatedCore
    <3>2. TxnType'
      BY <2>1, <2>4 DEF TypeOK, TxnType
    <3>3. ModelType'
      BY <2>1, <2>4 DEF TypeOK, ModelType
    <3> QED  BY <2>1, <2>4, <3>1, <3>2, <3>3
  <2>5. CASE ~r.ok
    BY <2>1, <2>2, <2>3, <2>5, SwitchFailedEffect DEF TypeOK, ProcessType
  <2> QED  BY <2>4, <2>5
<1>2. DiskType' /\ LicenceType' /\ HistoryType' /\ BoundsType'
  BY Framed DEF Switch, bounds
<1>3. ProcessType'
  BY <1>1 DEF Switch, TypeOK, ProcessType
<1> QED  BY <1>1, <1>2, <1>3 DEF TypeOK

LEMMA FirstFrameType ==
  ASSUME TypeOK, FirstFrame
  PROVE  TypeOK'
<1> DEFINE t == txn.target
<1>1. /\ t \in NullableModels /\ core \in Cores /\ want \in BOOLEAN
      /\ Stopped(core) \in Cores
  BY StoppedCore DEF TypeOK, TxnType, ProcessType, NullableModels
<1>2. ASSUME Leave(core, want, t), UNCHANGED active
      PROVE  /\ core' \in Cores /\ want' \in BOOLEAN
             /\ ModelType' /\ TxnType'
  <2>1. core' \in Cores /\ want' \in BOOLEAN /\ TxnType'
    BY <1>1, <1>2, IdleTxn DEF Leave
  <2>2. ModelType'
    BY <1>1, <1>2 DEF Leave, TypeOK, ModelType, NullableModels
  <2> QED  BY <2>1, <2>2
<1>3. ASSUME Undo("backsync", core, want, t)
      PROVE  /\ core' \in Cores /\ want' \in BOOLEAN
             /\ ModelType' /\ TxnType'
  <2>1. "backsync" \in {"select", "back", "backsync"}
    OBVIOUS
  <2> QED  BY <1>1, <1>3, <2>1, UndoEffect
<1>4. /\ core' \in Cores /\ want' \in BOOLEAN
      /\ ModelType' /\ TxnType'
  BY <1>2, <1>3 DEF FirstFrame
<1>5. profile' \in NullableModels
  BY <1>1 DEF FirstFrame, Synced, TypeOK, DiskType, NullableModels
<1>6. DiskType' /\ LicenceType' /\ HistoryType' /\ BoundsType'
  BY <1>5, Framed DEF FirstFrame, TypeOK, DiskType, bounds, NullableModels
<1>7. ProcessType'
  BY <1>4 DEF FirstFrame, TypeOK, ProcessType
<1> QED  BY <1>4, <1>6, <1>7 DEF TypeOK

LEMMA FrameType ==
  ASSUME TypeOK, Frame
  PROVE  TypeOK'
<1>1. core' \in Cores
  BY InferredCore DEF Frame, TypeOK
<1>2. DiskType' /\ LicenceType'
  BY Framed DEF Frame, disk, licence, history, bounds, TypeOK, DiskType, LicenceType
<1>3. ProcessType' /\ HistoryType'
  BY Framed DEF Frame, disk, licence, history, bounds, TypeOK, ProcessType, HistoryType
<1>4. ModelType' /\ TxnType'
  BY Framed, IdleTxn DEF Frame, disk, licence, history, bounds, TypeOK, ModelType
<1>5. BoundsType'
  BY Framed DEF Frame, disk, licence, history, bounds, TypeOK, BoundsType
<1> QED  BY <1>1, <1>2, <1>3, <1>4, <1>5 DEF TypeOK

LEMMA FallQuietType ==
  ASSUME TypeOK, FallQuiet
  PROVE  TypeOK'
<1>1. core' \in Cores
  BY DEF FallQuiet, TypeOK, Cores
<1>2. DiskType' /\ LicenceType'
  BY Framed DEF FallQuiet, disk, licence, history, bounds, TypeOK, DiskType, LicenceType
<1>3. ProcessType' /\ HistoryType'
  BY Framed DEF FallQuiet, disk, licence, history, bounds, TypeOK, ProcessType, HistoryType
<1>4. ModelType' /\ TxnType'
  BY Framed, IdleTxn DEF FallQuiet, disk, licence, history, bounds, TypeOK, ModelType
<1>5. BoundsType'
  BY Framed DEF FallQuiet, disk, licence, history, bounds, TypeOK, BoundsType
<1> QED  BY <1>1, <1>2, <1>3, <1>4, <1>5 DEF TypeOK

LEMMA DeadlineType ==
  ASSUME TypeOK, Deadline
  PROVE  TypeOK'
<1>1. core' \in Cores
  BY Framed DEF Deadline
<1>2. DiskType' /\ LicenceType'
  BY Framed DEF Deadline, disk, licence, history, bounds, TypeOK, DiskType, LicenceType
<1>3. ProcessType' /\ HistoryType'
  BY Framed DEF Deadline, disk, licence, history, bounds, TypeOK, ProcessType, HistoryType
<1>4. ModelType' /\ TxnType'
  BY Framed, IdleTxn DEF Deadline, disk, licence, history, bounds, TypeOK, ModelType
<1>5. BoundsType'
  BY Framed DEF Deadline, disk, licence, history, bounds, TypeOK, BoundsType
<1> QED  BY <1>1, <1>2, <1>3, <1>4, <1>5 DEF TypeOK

LEMMA ChangeCardType ==
  ASSUME TypeOK, NEW c \in Cards, ChangeCard(c)
  PROVE  TypeOK'
<1>1. core' \in Cores
  BY Framed DEF ChangeCard
<1>2. DiskType' /\ LicenceType'
  BY Framed DEF ChangeCard, disk, licence, history, bounds, TypeOK, DiskType, LicenceType
<1>3. ProcessType' /\ HistoryType'
  BY Framed DEF ChangeCard, disk, licence, history, bounds, TypeOK, ProcessType, HistoryType
<1>4. ModelType' /\ TxnType'
  BY Framed, IdleTxn DEF ChangeCard, disk, licence, history, bounds, TypeOK, ModelType
<1>5. BoundsType'
  BY Framed DEF ChangeCard, disk, licence, history, bounds, TypeOK, BoundsType
<1> QED  BY <1>1, <1>2, <1>3, <1>4, <1>5 DEF TypeOK

LEMMA ChangeFaultType ==
  ASSUME TypeOK, NEW f \in Faults, ChangeFault(f)
  PROVE  TypeOK'
<1>1. core' \in Cores
  BY Framed DEF ChangeFault
<1>2. DiskType' /\ LicenceType'
  BY Framed DEF ChangeFault, disk, licence, history, bounds, TypeOK, DiskType, LicenceType
<1>3. ProcessType' /\ HistoryType'
  BY Framed DEF ChangeFault, disk, licence, history, bounds, TypeOK, ProcessType, HistoryType
<1>4. ModelType' /\ TxnType'
  BY Framed, IdleTxn DEF ChangeFault, disk, licence, history, bounds, TypeOK, ModelType
<1>5. BoundsType'
  BY Framed DEF ChangeFault, disk, licence, history, bounds, TypeOK, BoundsType
<1> QED  BY <1>1, <1>2, <1>3, <1>4, <1>5 DEF TypeOK

LEMMA KillType ==
  ASSUME TypeOK, Kill
  PROVE  TypeOK'
<1>1. core' \in Cores
  BY AllocatedCore, Framed DEF Kill, Gone
<1>2. DiskType' /\ LicenceType'
  BY Framed DEF Kill, disk, licence, history, bounds, TypeOK, DiskType, LicenceType, Gone
<1>3. ProcessType' /\ HistoryType'
  BY Framed DEF Kill, disk, licence, history, bounds, TypeOK, ProcessType, HistoryType, Gone
<1>4. ModelType' /\ TxnType'
  BY Framed, IdleTxn DEF Kill, disk, licence, history, bounds, TypeOK, ModelType, Gone
<1>5. BoundsType'
  BY Framed DEF Kill, disk, licence, history, bounds, TypeOK, BoundsType, Gone
<1> QED  BY <1>1, <1>2, <1>3, <1>4, <1>5 DEF TypeOK

LEMMA ShutdownType ==
  ASSUME TypeOK, Shutdown
  PROVE  TypeOK'
<1>1. core' \in Cores
  BY AllocatedCore, Framed DEF Shutdown, Gone
<1>2. DiskType' /\ LicenceType'
  BY Framed DEF Shutdown, disk, licence, history, bounds, TypeOK, DiskType, LicenceType, Gone
<1>3. ProcessType' /\ HistoryType'
  BY Framed DEF Shutdown, disk, licence, history, bounds, TypeOK, ProcessType, HistoryType, Gone
<1>4. ModelType' /\ TxnType'
  BY Framed, IdleTxn DEF Shutdown, disk, licence, history, bounds, TypeOK, ModelType, Gone
<1>5. BoundsType'
  BY Framed DEF Shutdown, disk, licence, history, bounds, TypeOK, BoundsType, Gone
<1> QED  BY <1>1, <1>2, <1>3, <1>4, <1>5 DEF TypeOK

LEMMA UpdateType ==
  ASSUME TypeOK, NEW v \in Versions, Update(v)
  PROVE  TypeOK'
<1>1. core' \in Cores
  BY AllocatedCore, Framed DEF Update, Gone
<1>2. DiskType' /\ LicenceType'
  BY Framed DEF Update, disk, licence, history, bounds, TypeOK, DiskType, LicenceType, Gone
<1>3. ProcessType' /\ HistoryType'
  BY Framed DEF Update, disk, licence, history, bounds, TypeOK, ProcessType, HistoryType, Gone
<1>4. ModelType' /\ TxnType'
  BY Framed, IdleTxn DEF Update, disk, licence, history, bounds, TypeOK, ModelType, Gone
<1>5. BoundsType'
  BY Framed DEF Update, disk, licence, history, bounds, TypeOK, BoundsType, Gone
<1> QED  BY <1>1, <1>2, <1>3, <1>4, <1>5 DEF TypeOK

LEMMA UpdateSucceedsType ==
  ASSUME TypeOK, UpdateSucceeds
  PROVE  TypeOK'
<1>1. core' \in Cores
  BY AllocatedCore, Framed DEF UpdateSucceeds, Gone
<1>2. DiskType' /\ LicenceType'
  BY Framed DEF UpdateSucceeds, disk, licence, history, bounds, TypeOK, DiskType, LicenceType, Gone
<1>3. ProcessType' /\ HistoryType'
  BY Framed DEF UpdateSucceeds, disk, licence, history, bounds, TypeOK, ProcessType, HistoryType, Gone
<1>4. ModelType' /\ TxnType'
  BY Framed, IdleTxn DEF UpdateSucceeds, disk, licence, history, bounds, TypeOK, ModelType, Gone
<1>5. BoundsType'
  BY Framed DEF UpdateSucceeds, disk, licence, history, bounds, TypeOK, BoundsType, Gone
<1> QED  BY <1>1, <1>2, <1>3, <1>4, <1>5 DEF TypeOK

LEMMA UpdateFailsType ==
  ASSUME TypeOK, UpdateFails
  PROVE  TypeOK'
<1>1. core' \in Cores
  BY AllocatedCore, Framed DEF UpdateFails, Gone
<1>2. DiskType' /\ LicenceType'
  BY Framed DEF UpdateFails, disk, licence, history, bounds, TypeOK, DiskType, LicenceType, Gone
<1>3. ProcessType' /\ HistoryType'
  BY Framed DEF UpdateFails, disk, licence, history, bounds, TypeOK, ProcessType, HistoryType, Gone
<1>4. ModelType' /\ TxnType'
  BY Framed, IdleTxn DEF UpdateFails, disk, licence, history, bounds, TypeOK, ModelType, Gone
<1>5. BoundsType'
  BY Framed DEF UpdateFails, disk, licence, history, bounds, TypeOK, BoundsType, Gone
<1> QED  BY <1>1, <1>2, <1>3, <1>4, <1>5 DEF TypeOK

LEMMA UpdateRollsBackType ==
  ASSUME TypeOK, NEW v \in Versions, UpdateRollsBack(v)
  PROVE  TypeOK'
<1>1. core' \in Cores
  BY AllocatedCore, Framed DEF UpdateRollsBack, Gone
<1>2. DiskType' /\ LicenceType'
  BY Framed DEF UpdateRollsBack, disk, licence, history, bounds, TypeOK, DiskType, LicenceType, Gone
<1>3. ProcessType' /\ HistoryType'
  BY Framed DEF UpdateRollsBack, disk, licence, history, bounds, TypeOK, ProcessType, HistoryType, Gone
<1>4. ModelType' /\ TxnType'
  BY Framed, IdleTxn DEF UpdateRollsBack, disk, licence, history, bounds, TypeOK, ModelType, Gone
<1>5. BoundsType'
  BY Framed DEF UpdateRollsBack, disk, licence, history, bounds, TypeOK, BoundsType, Gone
<1> QED  BY <1>1, <1>2, <1>3, <1>4, <1>5 DEF TypeOK

LEMMA TypeStep == TypeOK /\ [Next]_vars => TypeOK'
<1> SUFFICES ASSUME TypeOK, [Next]_vars PROVE TypeOK'
  OBVIOUS
<1>1. CASE Boot
  BY <1>1, BootType
<1>2. CASE ApplyGates
  BY <1>2, ApplyGatesType
<1>3. CASE FirstStart
  BY <1>3, FirstStartType
<1>4. CASE Retry
  BY <1>4, RetryType
<1>5. CASE Watchdog
  BY <1>5, WatchdogType
<1>6. CASE Commit
  BY <1>6, CommitType
<1>7. CASE WrapUp
  BY <1>7, WrapUpType
<1>8. CASE SwitchRefused
  BY <1>8, SwitchRefusedType
<1>9. CASE SwitchUnbuilt
  BY <1>9, SwitchUnbuiltType
<1>10. CASE Switch
  BY <1>10, SwitchType
<1>11. CASE FirstFrame
  BY <1>11, FirstFrameType
<1>12. CASE NoFirstFrame
  BY <1>12, NoFirstFrameType
<1>13. CASE StartIdempotent
  BY <1>13, StartIdempotentType
<1>14. CASE ControlRefused
  BY <1>14, ControlRefusedType
<1>15. CASE ControlStart
  BY <1>15, ControlStartType
<1>16. CASE ControlRestart
  BY <1>16, ControlRestartType
<1>17. CASE ControlStop
  BY <1>17, ControlStopType
<1>18. CASE SetConcurrency
  BY <1>18, SetConcurrencyType
<1>19. CASE Frame
  BY <1>19, FrameType
<1>20. CASE FallQuiet
  BY <1>20, FallQuietType
<1>21. CASE Deadline
  BY <1>21, DeadlineType
<1>22. CASE Kill
  BY <1>22, KillType
<1>23. CASE Shutdown
  BY <1>23, ShutdownType
<1>24. CASE UpdateSucceeds \/ UpdateFails
  BY <1>24, UpdateSucceedsType, UpdateFailsType
<1>25. CASE \E m \in Models : Activate(m)
  BY <1>25, ActivateType
<1>26. CASE \E c \in Cards : ChangeCard(c)
  BY <1>26, ChangeCardType
<1>27. CASE \E f \in Faults : ChangeFault(f)
  BY <1>27, ChangeFaultType
<1>28. CASE \E v \in Versions : Update(v)
  BY <1>28, UpdateType
<1>29. CASE \E v \in Versions : UpdateRollsBack(v)
  BY <1>29, UpdateRollsBackType
<1>30. CASE UNCHANGED vars
  BY <1>30, Framed DEF vars, TypeOK
<1> QED
  BY <1>1, <1>2, <1>3, <1>4, <1>5, <1>6, <1>7, <1>8, <1>9, <1>10, <1>11,
     <1>12, <1>13, <1>14, <1>15, <1>16, <1>17, <1>18, <1>19, <1>20, <1>21,
     <1>22, <1>23, <1>24, <1>25, <1>26, <1>27, <1>28, <1>29, <1>30
     DEF Next, MainLoop, Switching, Users, Environment

(* Every reachable state has its type, whatever the constants.             *)
THEOREM TypeCorrect == Spec => []TypeOK
<1>1. Init => TypeOK
  BY TypeInit
<1>2. TypeOK /\ [Next]_vars => TypeOK'
  BY TypeStep
<1> QED  BY <1>1, <1>2, PTL DEF Spec
-----------------------------------------------------------------------------
Licensed == gate \cap {"capture", "inference"} # {}

(* The five things a step can do to the runtime.                           *)
Keeps ==
  /\ core'.up = core.up /\ want' = want /\ runningId' = runningId
  /\ ModelReady(core) => ModelReady(core')

Ends == ~core'.up /\ runningId' = NoModel

Begins ==
  /\ want' = TRUE /\ runningId' = NoModel
  /\ core'.up => core.up \/ Licensed

Retries ==
  /\ ~core.up /\ want /\ want' = want /\ runningId' = runningId
  /\ core'.up => Licensed

Publishes == UNCHANGED <<core, want>> /\ ModelReady(core)

StepKind == Keeps \/ Ends \/ Begins \/ Retries \/ Publishes

LEMMA GoneEnds == Gone => Ends
BY AllocatedCore DEF Gone, Ends

LEMMA AttemptLicensed ==
  ASSUME TypeOK, NEW c \in Cores, Attempt(c, PipelineAllowed)
  PROVE  core'.up => c.up \/ Licensed
<1>1. core'.up => c.up \/ PipelineAllowed
  BY AttemptedCore
<1> QED  BY <1>1 DEF PipelineAllowed, Licensed

LEMMA StartBegins ==
  ASSUME TypeOK, NEW c \in Cores, StartWith(c)
  PROVE  Begins
BY DEF StartWith, Begins, PipelineAllowed, Licensed

(* A failed switch keeps, ends or begins a session, by what it is given.   *)
LEMMA FailureKind ==
  ASSUME TypeOK, NEW c \in Cores, NEW w \in BOOLEAN, NEW id \in NullableModels,
         \/ SwitchFailed(c, w, id)
         \/ Undo("backsync", c, w, id)
  PROVE  (core' = c /\ want' = w /\ runningId' = id) \/ Ends
<1>1. \/ core' = c /\ want' = w /\ runningId' = id
      \/ core' = Stopped(c) /\ want' = FALSE /\ runningId' = NoModel
  BY UndoEffect, SwitchFailedEffect
<1>2. ~Stopped(c).up
  BY StoppedCore
<1> QED  BY <1>1, <1>2 DEF Ends

LEMMA SwitchingKind == TypeOK /\ Switching => StepKind
<1> SUFFICES ASSUME TypeOK, Switching PROVE StepKind
  OBVIOUS
<1>1. /\ core \in Cores /\ want \in BOOLEAN /\ runningId \in NullableModels
      /\ NoModel \in NullableModels /\ txn.target \in NullableModels
  BY DEF TypeOK, ProcessType, ModelType, TxnType, NullableModels
<1>2. CASE SwitchRefused
  <2>1. (core' = core /\ want' = want /\ runningId' = runningId) \/ Ends
    BY <1>1, <1>2, FailureKind DEF SwitchRefused
  <2> QED  BY <2>1 DEF StepKind, Keeps
<1>3. CASE SwitchUnbuilt
  <2> DEFINE c == IF core.up THEN core ELSE Stopped(core)
  <2>1. c \in Cores /\ (c.up => core.up)
    BY <1>1, StoppedCore
  <2>2. SwitchFailed(c, TRUE, NoModel)
    BY <1>3 DEF SwitchUnbuilt
  <2> HIDE DEF c
  <2>3. (core' = c /\ want' = TRUE /\ runningId' = NoModel) \/ Ends
    BY <1>1, <2>1, <2>2, FailureKind
  <2> QED  BY <2>1, <2>3 DEF StepKind, Begins
<1>4. CASE Switch
  <2>1. Licensed
    BY <1>4 DEF Switch, Licensed
  <2>2. PICK r \in Rebuilds :
          IF r.ok
            THEN want' = TRUE /\ runningId' = NoModel
            ELSE SwitchFailed(r.core, TRUE, NoModel)
    BY <1>4 DEF Switch
  <2>3. r.core \in Cores
    BY RebuiltCore
  <2>4. CASE r.ok
    BY <2>1, <2>2, <2>4 DEF StepKind, Begins
  <2>5. CASE ~r.ok
    <3>1. (core' = r.core /\ want' = TRUE /\ runningId' = NoModel) \/ Ends
      BY <1>1, <2>2, <2>3, <2>5, FailureKind
    <3> QED  BY <2>1, <3>1 DEF StepKind, Begins
  <2> QED  BY <2>4, <2>5
<1>5. CASE FirstFrame
  <2>1. \/ core' = core /\ want' = want
        \/ Undo("backsync", core, want, txn.target)
    BY <1>5 DEF FirstFrame, Leave
  <2>2. (core' = core /\ want' = want) \/ Ends
    BY <1>1, <2>1, FailureKind
  <2> QED  BY <1>5, <2>2 DEF FirstFrame, StepKind, Publishes
<1>6. CASE NoFirstFrame
  <2>1. (core' = core /\ want' = want /\ runningId' = runningId) \/ Ends
    BY <1>1, <1>6, FailureKind DEF NoFirstFrame
  <2> QED  BY <2>1 DEF StepKind, Keeps
<1> QED  BY <1>2, <1>3, <1>4, <1>5, <1>6 DEF Switching

LEMMA MainLoopKind == TypeOK /\ MainLoop => StepKind
<1> SUFFICES ASSUME TypeOK, MainLoop PROVE StepKind
  OBVIOUS
<1>1. core \in Cores /\ ~Stopped(core).up /\ want \in BOOLEAN
  BY StoppedCore DEF TypeOK, ProcessType
<1>2. CASE FirstStart
  <2>1. CASE want
    <3>1. core'.up => core.up \/ Licensed
      BY <1>1, <1>2, <2>1, AttemptLicensed DEF FirstStart
    <3> QED  BY <1>1, <1>2, <2>1, <3>1 DEF FirstStart, StepKind, Begins
  <2>2. CASE ~want
    BY <1>2, <2>2 DEF FirstStart, StepKind, Keeps
  <2> QED  BY <2>1, <2>2
<1>3. CASE Retry
  <2>1. core'.up => Licensed
    BY <1>1, <1>3, AttemptLicensed DEF Retry
  <2> QED  BY <1>3, <2>1 DEF Retry, StepKind, Retries
<1>4. CASE Watchdog
  BY <1>4 DEF Watchdog, StepKind, Begins
<1>5. CASE Commit
  BY <1>5 DEF Commit, StepKind, Publishes
<1>6. CASE WrapUp
  BY <1>1, <1>6 DEF WrapUp, StepKind, Ends
<1> QED  BY <1>2, <1>3, <1>4, <1>5, <1>6 DEF MainLoop

LEMMA UsersKind == TypeOK /\ Users => StepKind
<1> SUFFICES ASSUME TypeOK, Users PROVE StepKind
  OBVIOUS
<1>1. core \in Cores /\ Stopped(core) \in Cores /\ ~Stopped(core).up
  BY StoppedCore DEF TypeOK
<1>2. CASE StartIdempotent
  BY <1>2 DEF StartIdempotent, StepKind, Keeps
<1>3. CASE ControlRefused
  BY <1>3 DEF ControlRefused, StepKind, Keeps
<1>4. CASE ControlStart
  BY <1>1, <1>4, StartBegins DEF ControlStart, StepKind
<1>5. CASE ControlRestart
  BY <1>1, <1>5, StartBegins DEF ControlRestart, StepKind
<1>6. CASE ControlStop
  BY <1>1, <1>6 DEF ControlStop, StepKind, Ends
<1>7. CASE SetConcurrency
  BY <1>7 DEF SetConcurrency, StepKind, Keeps
<1>8. CASE \E m \in Models : Activate(m)
  BY <1>8 DEF Activate, StepKind, Keeps
<1> QED  BY <1>2, <1>3, <1>4, <1>5, <1>6, <1>7, <1>8 DEF Users

LEMMA EnvironmentKind == TypeOK /\ Environment => StepKind
<1> SUFFICES ASSUME TypeOK, Environment PROVE StepKind
  OBVIOUS
<1>1. CASE Deadline
  BY <1>1 DEF Deadline, StepKind, Keeps
<1>2. CASE UpdateSucceeds \/ UpdateFails
  BY <1>2 DEF UpdateSucceeds, UpdateFails, StepKind, Keeps
<1>3. CASE \E c \in Cards : ChangeCard(c)
  BY <1>3 DEF ChangeCard, StepKind, Keeps
<1>4. CASE \E f \in Faults : ChangeFault(f)
  BY <1>4 DEF ChangeFault, StepKind, Keeps
<1>5. CASE Gone
  BY <1>5, GoneEnds DEF StepKind
<1> QED
  BY <1>1, <1>2, <1>3, <1>4, <1>5
     DEF Environment, Kill, Shutdown, Update, UpdateRollsBack

LEMMA BootEnds ==
  ASSUME TypeOK, Boot
  PROVE  Ends
<1>1. CASE active = NoModel
  BY <1>1, AllocatedCore DEF Boot, Ends
<1>2. CASE active # NoModel
  <2> DEFINE c == Initialized(Allocated, active, AllFeatures)
  <2>1. active \in NullableModels
    BY DEF TypeOK, ModelType, NullableModels
  <2>2. c \in Cores /\ ~c.up
    BY <2>1, AllocatedCore, InitializedCore
  <2>3. Preloaded(c).up = c.up
    BY <2>2, PreloadedCore
  <2>4. core' \in {c, Preloaded(c)} /\ runningId' = NoModel
    BY <1>2 DEF Boot
  <2> QED  BY <2>2, <2>3, <2>4 DEF Ends
<1> QED  BY <1>1, <1>2

(* Every step is of one of the five kinds.                                 *)
LEMMA NextKind == TypeOK /\ [Next]_vars => StepKind
<1> SUFFICES ASSUME TypeOK, [Next]_vars PROVE StepKind
  OBVIOUS
<1>1. core \in Cores
  BY DEF TypeOK
<1>2. CASE Boot
  BY <1>2, BootEnds DEF StepKind
<1>3. CASE ApplyGates
  <2>1. SetGates(core, card) \in Cores /\ SetGates(core, card).up = core.up
        /\ SetGates(core, card).pool = core.pool
        /\ SetGates(core, card).ready = core.ready
    BY <1>1, GateIsFeatures, GatedCore DEF TypeOK
  <2> QED  BY <1>3, <2>1 DEF ApplyGates, StepKind, Keeps, ModelReady
<1>4. CASE Frame
  BY <1>1, <1>4, InferredCore
     DEF Frame, Inferred, StepKind, Keeps, ModelReady
<1>5. CASE FallQuiet
  BY <1>1, <1>5 DEF FallQuiet, Cores, StepKind, Keeps, ModelReady
<1>6. CASE UNCHANGED vars
  BY <1>6 DEF vars, StepKind, Keeps
<1> QED
  BY <1>2, <1>3, <1>4, <1>5, <1>6, MainLoopKind, SwitchingKind, UsersKind,
     EnvironmentKind DEF Next
-----------------------------------------------------------------------------
(* Wanted holds in every state, also while a switch holds the mutex.       *)
Wanted == core.up => want

(* A runtime that is up when no handler is at work is wanted, so that the  *)
(* retry and the watchdog of the main loop take care of it.                *)
THEOREM RunningRuntimeIsWanted == Spec => []RunningIsWanted
<1>1. Init => Wanted
  BY AllocatedCore DEF Init, Wanted
<1>2. TypeOK /\ Wanted /\ [Next]_vars => Wanted'
  BY NextKind
     DEF Wanted, StepKind, Keeps, Ends, Begins, Retries, Publishes
<1>3. Wanted => RunningIsWanted
  BY DEF Wanted, RunningIsWanted
<1> QED  BY <1>1, <1>2, <1>3, TypeCorrect, PTL DEF Spec

(* No current model is published before it has decoded a frame, nor after  *)
(* the runtime that ran it is gone.                                        *)
THEOREM PublishedModelIsReady == Spec => []CurrentModelIsReady
<1>1. Init => CurrentModelIsReady
  BY DEF Init, CurrentModelIsReady
<1>2. TypeOK /\ CurrentModelIsReady /\ [Next]_vars => CurrentModelIsReady'
  <2> SUFFICES ASSUME TypeOK, CurrentModelIsReady, [Next]_vars
               PROVE  CurrentModelIsReady'
    OBVIOUS
  <2>1. CASE Keeps
    BY <2>1 DEF CurrentModelIsReady, Keeps
  <2>2. CASE Ends \/ Begins
    BY <2>2 DEF CurrentModelIsReady, Ends, Begins
  <2>3. CASE Retries
    BY <2>3 DEF CurrentModelIsReady, Retries, ModelReady
  <2>4. CASE Publishes
    BY <2>4 DEF CurrentModelIsReady, Publishes, ModelReady
  <2> QED  BY <2>1, <2>2, <2>3, <2>4, NextKind DEF StepKind
<1> QED  BY <1>1, <1>2, TypeCorrect, PTL DEF Spec

(* No step opens a session when the licence in force has neither the       *)
(* capture nor the inference.                                              *)
THEOREM SessionsAreLicensed == Spec => NoSessionWithoutLicence
<1>1. TypeOK /\ [Next]_vars
        => [core'.up /\ ~core.up
              => gate \cap {"capture", "inference"} # {}]_vars
  BY NextKind
     DEF StepKind, Keeps, Ends, Begins, Retries, Publishes, Licensed
<1> QED  BY <1>1, TypeCorrect, PTL DEF Spec, NoSessionWithoutLicence
-----------------------------------------------------------------------------
(* Why a stop holds: no check after an update is pending, the file says    *)
(* stop, and the process neither wants nor has a runtime nor is in the     *)
(* middle of a switch.                                                     *)
Stays ==
  order = "stop" =>
    /\ smoke = "off"
    /\ saved => intent = "stop"
    /\ saved /\ Live => ~want /\ ~core.up /\ Idle

LEMMA StaysStep == TypeOK /\ Stays /\ [Next]_vars => Stays'
<1> SUFFICES ASSUME TypeOK, Stays, [Next]_vars PROVE Stays'
  OBVIOUS
<1>1. core \in Cores /\ ~Stopped(core).up /\ want \in BOOLEAN
  BY StoppedCore DEF TypeOK, ProcessType
<1>2. NoTxn.stage = "idle"
  BY DEF NoTxn, Txn
<1>3. CASE WrapUp \/ ControlStop
  <2>1. ~core'.up /\ want' = FALSE /\ smoke' = "off"
    BY <1>1, <1>3 DEF WrapUp, ControlStop, Control
  <2>2. saved' => intent' = "stop"
    BY <1>3 DEF WrapUp, ControlStop, Persist
  <2>3. Idle'
    BY <1>3 DEF WrapUp, ControlStop, Control, Tick, Idle
  <2> QED  BY <2>1, <2>2, <2>3 DEF Stays
<1>4. CASE \/ StartIdempotent \/ ControlRefused \/ ControlStart
           \/ ControlRestart \/ \E m \in Models : Activate(m)
  BY <1>4 DEF StartIdempotent, ControlRefused, ControlStart, ControlRestart,
              StartWith, Activate, Stays
<1>5. CASE Boot
  <2>1. ~JustUpdated => smoke' = "off" /\ want' = (intent # "stop")
    BY <1>5 DEF Boot
  <2>2. JustUpdated => order' = "update"
    BY <1>5 DEF Boot
  <2>3. ~JustUpdated => order' = order
    BY <1>5 DEF Boot
  <2>4. saved' = saved /\ intent' = intent /\ txn' = NoTxn
    BY <1>5 DEF Boot
  <2>5. ~core'.up
    BY <1>5, BootEnds DEF Ends
  <2> QED  BY <1>2, <2>1, <2>2, <2>3, <2>4, <2>5 DEF Stays, Idle
<1>6. CASE Gone /\ UNCHANGED <<intent, history>>
  BY <1>6 DEF Gone, Stays, Live, history
<1>7. CASE /\ UNCHANGED <<intent, history, smoke, want, txn>>
           /\ core'.up = core.up /\ (Live' => Live)
  BY <1>7 DEF Stays, Idle, history
<1>8. CASE FirstStart \/ Retry \/ Watchdog \/ Commit \/ SetConcurrency
  <2> SUFFICES ASSUME order = "stop" PROVE Stays'
    BY <1>8 DEF FirstStart, Retry, Watchdog, Commit, SetConcurrency, history,
                Stays
  <2>1. Live
    BY <1>8 DEF FirstStart, Retry, Watchdog, Commit, SetConcurrency, Tick, Live
  <2>2. CASE saved
    <3>1. ~want /\ ~core.up
      BY <2>1, <2>2 DEF Stays
    <3>2. FirstStart
      BY <1>8, <3>1
         DEF Retry, Watchdog, Commit, SetConcurrency, ModelReady
    <3> QED  BY <2>2, <3>1, <3>2 DEF FirstStart, Stays, Live, Idle, history, disk
  <2>3. CASE ~saved
    BY <1>8, <2>3
       DEF FirstStart, Retry, Watchdog, Commit, SetConcurrency, history, Stays
  <2> QED  BY <2>2, <2>3
<1>9. CASE Switching
  <2>1. Live => ~(order = "stop" /\ saved)
    BY <1>9 DEF Switching, SwitchRefused, SwitchUnbuilt, Switch, FirstFrame,
                NoFirstFrame, Stays, Idle
  <2>2. UNCHANGED <<history, intent, phase, smoke>>
    BY <1>9 DEF Switching, SwitchRefused, SwitchUnbuilt, Switch, FirstFrame,
                NoFirstFrame, disk
  <2> QED  BY <2>1, <2>2 DEF Stays, history, Live
<1>10. CASE Deadline
  BY <1>10 DEF Deadline, Stays, history
<1>11. CASE ApplyGates \/ Frame \/ FallQuiet
  <2>1. core'.up = core.up
    <3>1. SetGates(core, card).up = core.up
      BY <1>1, GateIsFeatures, GatedCore DEF TypeOK
    <3>2. Inferred(core).up = core.up
      BY <1>1, InferredCore
    <3> QED  BY <1>1, <1>11, <3>1, <3>2
               DEF ApplyGates, Frame, FallQuiet, Cores
  <2>2. UNCHANGED <<intent, history, smoke, want, txn>> /\ (Live' => Live)
    BY <1>11 DEF ApplyGates, Frame, FallQuiet, Live, disk
  <2> QED  BY <1>7, <2>1, <2>2
<1>12. CASE \/ \E c \in Cards : ChangeCard(c)
            \/ \E f \in Faults : ChangeFault(f)
            \/ UpdateSucceeds \/ UpdateFails
            \/ UNCHANGED vars
  <2>1. UNCHANGED <<intent, history, smoke, want, txn, core, phase>>
    BY <1>12
       DEF ChangeCard, ChangeFault, UpdateSucceeds, UpdateFails, vars, disk
  <2> QED  BY <1>7, <2>1 DEF Live
<1>13. CASE \/ Kill \/ Shutdown
            \/ \E v \in Versions : Update(v) \/ UpdateRollsBack(v)
  BY <1>6, <1>13 DEF Kill, Shutdown, Update, UpdateRollsBack, disk
<1> QED
  BY <1>3, <1>4, <1>5, <1>8, <1>9, <1>10, <1>11, <1>12, <1>13
     DEF Next, MainLoop, Users, Environment

(* A stop that reached the disk holds, through reboots, retries, watchdog, *)
(* licence changes and kills, until the user asks for a session again or a *)
(* new release is checked.                                                 *)
THEOREM StopStays == Spec => []StopHolds
<1>1. Init => Stays
  BY DEF Init, Stays
<1>2. TypeOK /\ Stays /\ [Next]_vars => Stays'
  BY StaysStep
<1>3. Stays => StopHolds
  BY DEF Stays, StopHolds
<1> QED  BY <1>1, <1>2, <1>3, TypeCorrect, PTL DEF Spec
=============================================================================
