--------------------------- MODULE LicenseDaemon ---------------------------
(***************************************************************************)
(* The offline licence authority of the core process: LicenseDaemon (its   *)
(* status under the mutex mu_, its background thread, activate,            *)
(* activate_cloud, deactivate_cloud, verify_now_blocking), OfflineCardClient,*)
(* the two files of LicenseStore, LicenseGate, and the Application code    *)
(* that calls them: the main thread (start-up verification, the 10 s       *)
(* heartbeat) and the IPC connection threads, which run concurrently.      *)
(* One action is one critical section of mu_, one file operation or one    *)
(* publication; what a caller carries between two of them is in call[t].   *)
(***************************************************************************)
EXTENDS LicenseStateMachine, FiniteSets

CONSTANTS
  Cards,        \* offline cards (signed envelopes)
  Clouds,       \* licences granted by the cloud
  Expiry,       \* [Cards \cup Clouds -> Nat]: expires_at, 0 = never
  IssuedAt,     \* [Cards -> Nat]
  Verdict,      \* [Cards -> CardVerdicts]: what parsing and verifying finds
  KeyFileCard,  \* card of --license / license.key / config, or NoLicence
  Callers,      \* IPC connection threads
  Main,         \* the main thread
  InitDisks,    \* contents of the licence directory at first boot
  Heartbeat,    \* 60 s, in clock units
  MaxClock,     \* bound: wall clock
  MaxCalls,     \* bound: IPC requests
  MaxCrashes,   \* bound: crashes of the process
  MaxFaults,    \* bound: failed file writes
  EarlyIpc      \* TRUE: IPC requests may arrive before the start-up check

CardVerdicts == {"genuine", "unparsable", "forged", "foreign"}
Licences == Cards \cup Clouds
Threads  == Callers \cup {Main}

(* state.json: its last_seen_issued_at, or one of these.                   *)
Missing == -1
Corrupt == -2

DiskType == [doc : Licences \cup {NoLicence}, base : Nat \cup {Missing, Corrupt}]

ASSUME CardAssumption ==
  /\ Cards \cap Clouds = {}
  /\ NoLicence \notin Licences
  /\ Expiry \in [Licences -> Nat]
  /\ IssuedAt \in [Cards -> Nat]
  /\ Verdict \in [Cards -> CardVerdicts]
  /\ KeyFileCard \in Cards \cup {NoLicence}

ASSUME ThreadAssumption == Main \notin Callers

ASSUME BoundAssumption ==
  /\ InitDisks \subseteq DiskType
  /\ Heartbeat \in Nat /\ MaxClock \in Nat /\ MaxCalls \in Nat
  /\ MaxCrashes \in Nat /\ MaxFaults \in Nat
  /\ EarlyIpc \in BOOLEAN

VARIABLES
  now,        \* wall clock (unix time), starts at 1
  status,     \* LicenseDaemon::status_
  card,       \* card_plain_
  cloud,      \* cloud_license_
  disk,       \* license.json and state.json
  gate,       \* LicenseGate::cur_
  pc,         \* where each thread is
  call,       \* the locals of each thread's current request
  faults, crashes, calls,   \* bounds
  acked,      \* history: licence of the last activation answered with success
  attempted,  \* history: licences tried since then
  quiet,      \* history: no request since the last boot
  revoked     \* history: cloud licence deactivated since boot, not granted since

memory  == <<status, card, cloud>>
history == <<acked, attempted, quiet, revoked>>
bounds  == <<faults, crashes, calls>>
vars    == <<now, memory, disk, gate, pc, call, bounds, history>>
-----------------------------------------------------------------------------

(* OfflineCardClient.verify_once at time t: it always answers.             *)
VerifyOnce(c, t) ==
  IF c \notin Cards THEN Refusal("InvalidCard", 0)
  ELSE IF Verdict[c] \in {"unparsable", "forged"} THEN Refusal("InvalidCard", 0)
  ELSE IF Verdict[c] = "foreign" THEN Refusal("BoundElsewhere", 0)
  ELSE IF Unexpired(Expiry[c], t)
       THEN Acceptance(Expiry[c], c)
       ELSE Refusal("Expired", Expiry[c])

Checked(out) == ApplyCheckResult(status, out, TRUE, now, Heartbeat)

(* The status a cloud licence puts in force.                               *)
CloudGrant(l, t) ==
  Status("Valid", t, Expiry[l], t + 365 * 1440 * Heartbeat, l)

(* LicenseStore: the issue date load() recovers the baseline from, the     *)
(* baseline, and the card that resolve_license_card takes from the store.  *)
DocIssuedAt(d) == IF d.doc \in Cards THEN IssuedAt[d.doc] ELSE 0

Baseline(d) == CASE d.base = Missing -> 0
                 [] d.base = Corrupt -> DocIssuedAt(d)
                 [] OTHER -> d.base

(* Mutants: the downgrade test swaps its operands; a restart forgets the   *)
(* store.                                                                  *)
IsUpgrade(issuedAt, lastSeen) == lastSeen < issuedAt
ResolveWithoutStore == KeyFileCard

IsDowngrade(issuedAt, lastSeen) == issuedAt < lastSeen

ResolveCard == IF KeyFileCard # NoLicence THEN KeyFileCard
               ELSE IF disk.doc \in Cards THEN disk.doc ELSE NoLicence

(* restore_cloud_doc_locked, at boot, over the default status.             *)
RestoredStatus ==
  IF disk.doc \notin Clouds THEN UnknownStatus
  ELSE IF Expiry[disk.doc] = 0
       THEN Status("InvalidCard", 0, 0, 0, disk.doc)
  ELSE IF now > Expiry[disk.doc]
       THEN Status("Expired", 0, Expiry[disk.doc], CloudGrant(disk.doc, now).next, disk.doc)
  ELSE CloudGrant(disk.doc, now)

(* LicenseGate: only a trusted state projects its content (no grace is     *)
(* ever granted by this code), and a publication made while checking keeps *)
(* the previous state.                                                     *)
ToSnapshot(s) ==
  [state |-> s.state, grant |-> IF AllowRun(s) THEN s.grant ELSE NoLicence]

Transient == {"Checking", "NetworkError"}

Published(snap) ==
  IF snap.state \in Transient /\ gate.state \notin Transient \cup {"None"}
  THEN [snap EXCEPT !.state = gate.state] ELSE snap

PipelineAllowed == gate.grant # NoLicence
-----------------------------------------------------------------------------
Request(op, lic, since, prevCloud, prevStatus, prevCard, reply) ==
  [op |-> op, lic |-> lic, since |-> since, prevCloud |-> prevCloud,
   prevStatus |-> prevStatus, prevCard |-> prevCard,
   vcard |-> NoLicence, snap |-> UnknownStatus, reply |-> reply]

PlainRequest(op, lic, since, reply) ==
  Request(op, lic, since, FALSE, UnknownStatus, NoLicence, reply)

WithCheck(r, c, at) == [r EXCEPT !.vcard = c, !.since = at]

Idle == PlainRequest("none", NoLicence, 1, "none")

Go(t, next) == pc' = [pc EXCEPT ![t] = next]

Down == [t \in Threads |-> "down"]
Blank == [t \in Threads |-> Idle]

Init ==
  /\ now = 1
  /\ status = UnknownStatus /\ card = NoLicence /\ cloud = FALSE
  /\ disk \in InitDisks
  /\ gate = [state |-> "None", grant |-> NoLicence]
  /\ pc = Down /\ call = Blank
  /\ faults = 0 /\ crashes = 0 /\ calls = 0
  /\ acked = NoLicence /\ attempted = {} /\ quiet = TRUE /\ revoked = NoLicence

Up == pc[Main] # "down"
-----------------------------------------------------------------------------
(* Application::initialize: resolve the card, set_card, start().  Nothing  *)
(* else runs before start() has spawned the daemon thread.                 *)
Boot ==
  /\ ~Up
  /\ card' = ResolveCard
  /\ status' = RestoredStatus
  /\ cloud' = (disk.doc \in Clouds)
  /\ gate' = [state |-> "None", grant |-> NoLicence]
  /\ pc' = [t \in Threads |-> IF t = Main THEN "verify" ELSE "idle"]
  /\ call' = Blank
  /\ quiet' = TRUE /\ revoked' = NoLicence
  /\ UNCHANGED <<now, disk, bounds, acked, attempted>>

(* A card is checked unless it is valid and not yet due.                   *)
ScanCard ==
  /\ ~cloud /\ card # NoLicence
  /\ ~(/\ status.state = "Valid" /\ now < status.next
       /\ Unexpired(status.expire, now))
  /\ status' = Checked(VerifyOnce(card, now))

(* Mutants: an empty card is an invalid one even under a cloud licence; a  *)
(* cloud licence is not scanned for expiry.                                *)
ScanForgetsCloud ==
  /\ Up
  /\ \/ card = NoLicence /\ status' = [status EXCEPT !.state = "InvalidCard"]
     \/ ScanCard
  /\ UNCHANGED <<now, card, cloud, disk, gate, pc, call, bounds, history>>
ScanWithoutExpiry ==
  /\ Up
  /\ \/ /\ ~cloud /\ card = NoLicence
        /\ status' = [status EXCEPT !.state = "InvalidCard"]
     \/ ScanCard
  /\ UNCHANGED <<now, card, cloud, disk, gate, pc, call, bounds, history>>

(* One pass of thread_loop under mu_.                                      *)
DaemonScan ==
  /\ Up
  /\ \/ /\ cloud
        /\ AllowRun(status) /\ status.expire > 0 /\ now > status.expire
        /\ status' = [status EXCEPT !.state = "Expired"]
     \/ /\ ~cloud /\ card = NoLicence
        /\ status' = [status EXCEPT !.state = "InvalidCard"]
     \/ ScanCard
  /\ UNCHANGED <<now, card, cloud, disk, gate, pc, call, bounds, history>>

(* verify_now_blocking, first critical section.                            *)
VerifyBegin(t) ==
  /\ pc[t] = "verify"
  /\ IF cloud
     THEN /\ Go(t, IF t = Main THEN "snapshot" ELSE "judge")
          /\ UNCHANGED <<status, call>>
     ELSE /\ call' = [call EXCEPT ![t] = WithCheck(@, card, now)]
          /\ status' = [status EXCEPT !.state = "Checking"]
          /\ Go(t, "verifying")
  /\ UNCHANGED <<now, card, cloud, disk, gate, bounds, history>>

(* verify_now_blocking, second critical section: the verdict was reached   *)
(* outside the mutex, at some moment since the first one.                  *)
VerifyEnd(t) ==
  /\ pc[t] = "verifying"
  /\ \E at \in call[t].since .. now :
       status' = Checked(VerifyOnce(call[t].vcard, at))
  /\ Go(t, IF t = Main THEN "snapshot" ELSE "judge")
  /\ UNCHANGED <<now, card, cloud, disk, gate, call, bounds, history>>

(* publish(to_snapshot(status_snapshot(), ...)): read, then publish.       *)
TakeSnapshot(t) ==
  /\ pc[t] = "snapshot"
  /\ call' = [call EXCEPT ![t].snap = status]
  /\ Go(t, "publish")
  /\ UNCHANGED <<now, memory, disk, gate, bounds, history>>

Publish(t) ==
  /\ pc[t] = "publish"
  /\ gate' = Published(ToSnapshot(call[t].snap))
  /\ IF t = Main
     THEN Go(t, "loop") /\ UNCHANGED <<call, acked, attempted>>
     ELSE /\ Go(t, "idle")
          /\ call' = [call EXCEPT ![t] = Idle]
          /\ IF call[t].reply = "ok" /\ call[t].lic # NoLicence
             THEN acked' = call[t].lic /\ attempted' = {}
             ELSE UNCHANGED <<acked, attempted>>
  /\ UNCHANGED <<now, memory, disk, bounds, quiet, revoked>>

(* The 10 s heartbeat of Application::run.                                 *)
HeartbeatTick ==
  /\ pc[Main] = "loop"
  /\ Go(Main, "snapshot")
  /\ UNCHANGED <<now, memory, disk, gate, call, bounds, history>>
-----------------------------------------------------------------------------
(* An IPC request arrives.                                                 *)
Arrive(t) ==
  /\ pc[t] = "idle" /\ calls < MaxCalls
  /\ EarlyIpc \/ pc[Main] \in {"loop", "snapshot", "publish"}
  /\ calls' = calls + 1
  /\ quiet' = FALSE

(* activate: the snapshot taken on entry.                                  *)
Activate(t) ==
  /\ Arrive(t)
  /\ \E c \in Cards :
       /\ call' = [call EXCEPT ![t] =
                     Request("activate", c, 1, cloud, status, card, "none")]
       /\ attempted' = attempted \cup {c}
       /\ Go(t, IF Verdict[c] = "unparsable" THEN "refuse" ELSE "baseline")
  /\ UNCHANGED <<now, memory, disk, gate, faults, crashes, acked, revoked>>

(* The downgrade check against the baseline on disk.                       *)
CheckBaseline(t) ==
  /\ pc[t] = "baseline"
  /\ Go(t, IF IsDowngrade(IssuedAt[call[t].lic], Baseline(disk))
           THEN "refuse" ELSE "install")
  /\ UNCHANGED <<now, memory, disk, gate, call, bounds, history>>

(* A card that does not parse or is a downgrade: the reason is recorded.   *)
Refuse(t) ==
  /\ pc[t] = "refuse"
  /\ status' = [status EXCEPT !.state = "InvalidCard"]
  /\ Go(t, "rollback")
  /\ UNCHANGED <<now, card, cloud, disk, gate, call, bounds, history>>

InstallCard(t) ==
  /\ pc[t] = "install"
  /\ card' = call[t].lic
  /\ cloud' = FALSE
  /\ status' = [status EXCEPT !.state = "Checking"]
  /\ Go(t, "verify")
  /\ UNCHANGED <<now, disk, gate, call, bounds, history>>

(* status_snapshot after the check, and the branch on its state.           *)
Judge(t) ==
  /\ pc[t] = "judge"
  /\ Go(t, IF status.state = "Valid" THEN "save" ELSE "withdraw")
  /\ UNCHANGED <<now, memory, disk, gate, call, bounds, history>>

WithdrawCard(t) ==
  /\ pc[t] = "withdraw"
  /\ card' = NoLicence
  /\ Go(t, "rollback")
  /\ UNCHANGED <<now, status, cloud, disk, gate, call, bounds, history>>

(* rollback_cloud_guard.                                                   *)
Rollback(t) ==
  /\ pc[t] = "rollback"
  /\ IF call[t].prevCloud
     THEN /\ cloud' = TRUE
          /\ status' = call[t].prevStatus
          /\ card' = call[t].prevCard
     ELSE UNCHANGED memory
  /\ call' = [call EXCEPT ![t].reply = "rejected"]
  /\ Go(t, "snapshot")
  /\ UNCHANGED <<now, disk, gate, bounds, history>>

(* save_doc of activate (then the baseline) and of activate_cloud.         *)
SaveDoc(t) ==
  /\ pc[t] = "save"
  /\ disk' = [disk EXCEPT !.doc = call[t].lic]
  /\ Go(t, IF call[t].op = "activate" THEN "save_state" ELSE "grant")
  /\ UNCHANGED <<now, memory, gate, call, bounds, history>>

SaveDocFails(t) ==
  /\ pc[t] = "save" /\ faults < MaxFaults
  /\ faults' = faults + 1
  /\ call' = [call EXCEPT ![t].reply = "unsaved"]
  /\ Go(t, "snapshot")
  /\ UNCHANGED <<now, memory, disk, gate, crashes, calls, history>>

(* save_state: last_seen_issued_at becomes this card's; a failure is only  *)
(* logged.  The cached last_load_ it then updates is read by nobody else.  *)
SaveState(t) ==
  /\ pc[t] = "save_state"
  /\ \/ /\ disk' = [disk EXCEPT !.base = IssuedAt[call[t].lic]]
        /\ UNCHANGED faults
     \/ /\ faults < MaxFaults
        /\ faults' = faults + 1
        /\ UNCHANGED disk
  /\ call' = [call EXCEPT ![t].reply = "ok"]
  /\ Go(t, "snapshot")
  /\ UNCHANGED <<now, memory, gate, crashes, calls, history>>
-----------------------------------------------------------------------------
(* activate_cloud: the expiry must lie in the future.                      *)
ActivateCloud(t) ==
  /\ Arrive(t)
  /\ \E l \in Clouds :
       LET accepted == Expiry[l] > now IN
       /\ call' = [call EXCEPT ![t] =
                     PlainRequest("activate_cloud", l, now,
                                  IF accepted THEN "none" ELSE "rejected")]
       /\ attempted' = IF accepted THEN attempted \cup {l} ELSE attempted
       /\ Go(t, IF accepted THEN "save" ELSE "snapshot")
  /\ UNCHANGED <<now, memory, disk, gate, faults, crashes, acked, revoked>>

GrantCloud(t) ==
  /\ pc[t] = "grant"
  /\ status' = CloudGrant(call[t].lic, call[t].since)
  /\ cloud' = TRUE
  /\ call' = [call EXCEPT ![t].reply = "ok"]
  /\ revoked' = IF revoked = call[t].lic THEN NoLicence ELSE revoked
  /\ Go(t, "snapshot")
  /\ UNCHANGED <<now, card, disk, gate, bounds, acked, attempted, quiet>>

(* deactivate_cloud: locks whatever is in force, memory only.              *)
DeactivateCloud(t) ==
  /\ Arrive(t)
  /\ status' = [status EXCEPT !.state = "Expired"]
  /\ call' = [call EXCEPT ![t] = PlainRequest("deactivate", NoLicence, 1, "ok")]
  /\ Go(t, "snapshot")
  /\ revoked' = IF cloud THEN status.grant ELSE revoked
  /\ UNCHANGED <<now, card, cloud, disk, gate, faults, crashes, acked, attempted>>
-----------------------------------------------------------------------------
Tick ==
  /\ now < MaxClock
  /\ now' = now + 1
  /\ UNCHANGED <<memory, disk, gate, pc, call, bounds, history>>

(* The process dies (power loss, kill, restart by the service manager).    *)
Crash ==
  /\ Up /\ crashes < MaxCrashes
  /\ crashes' = crashes + 1
  /\ status' = UnknownStatus /\ card' = NoLicence /\ cloud' = FALSE
  /\ gate' = [state |-> "None", grant |-> NoLicence]
  /\ pc' = Down /\ call' = Blank
  /\ UNCHANGED <<now, disk, faults, calls, history>>

RequestStep(t) ==
  \/ CheckBaseline(t) \/ Refuse(t) \/ InstallCard(t) \/ Judge(t)
  \/ WithdrawCard(t) \/ Rollback(t) \/ SaveDoc(t) \/ SaveDocFails(t)
  \/ SaveState(t) \/ GrantCloud(t)

ThreadStep(t) ==
  VerifyBegin(t) \/ VerifyEnd(t) \/ TakeSnapshot(t) \/ Publish(t)

Next ==
  \/ Boot \/ DaemonScan \/ HeartbeatTick \/ Tick \/ Crash
  \/ \E t \in Threads : ThreadStep(t)
  \/ \E t \in Callers : \/ Activate(t) \/ ActivateCloud(t) \/ DeactivateCloud(t)
                        \/ RequestStep(t)

Spec == Init /\ [][Next]_vars

(* Every thread of the process keeps running: the daemon thread polls, the *)
(* main loop beats, a request once accepted is carried to its end, the     *)
(* service manager restarts the process and time passes.                   *)
Fairness ==
  /\ WF_vars(Boot) /\ WF_vars(DaemonScan) /\ WF_vars(HeartbeatTick)
  /\ WF_vars(Tick)
  /\ \A t \in Threads : WF_vars(ThreadStep(t))
  /\ \A t \in Callers : WF_vars(RequestStep(t))

FairSpec == Spec /\ Fairness
-----------------------------------------------------------------------------
CallType == [op : {"none", "activate", "activate_cloud", "deactivate"},
             lic : Licences \cup {NoLicence}, prevCloud : BOOLEAN,
             prevStatus : StatusType(Licences), prevCard : Cards \cup {NoLicence},
             vcard : Cards \cup {NoLicence}, since : Nat,
             snap : StatusType(Licences),
             reply : {"none", "ok", "rejected", "unsaved"}]

PcType == {"down", "idle", "loop", "verify", "verifying", "snapshot", "publish",
           "baseline", "refuse", "install", "judge", "withdraw", "rollback",
           "save", "save_state", "grant"}

(* Every variable stays in its type.                                       *)
TypeOK ==
  /\ now \in Nat
  /\ status \in StatusType(Licences)
  /\ card \in Cards \cup {NoLicence} /\ cloud \in BOOLEAN
  /\ disk \in DiskType
  /\ gate \in [state : States \cup {"None"}, grant : Licences \cup {NoLicence}]
  /\ pc \in [Threads -> PcType] /\ call \in [Threads -> CallType]
  /\ faults \in Nat /\ crashes \in Nat /\ calls \in Nat
  /\ acked \in Licences \cup {NoLicence} /\ attempted \subseteq Licences
  /\ quiet \in BOOLEAN /\ revoked \in Licences \cup {NoLicence}
-----------------------------------------------------------------------------
InFlight == {t \in Callers : pc[t] # "idle"}

(* A status mixes nothing: the content in force is that of one genuine     *)
(* card or cloud licence, and the expiry that will end it is that licence's*)
(* own.  (LicenseDaemon and apply_check_result write the fields of status_ *)
(* piecemeal, from several threads.)                                       *)
Coherent(s) ==
  /\ s.grant # NoLicence => s.expire = Expiry[s.grant]
  /\ s.grant \in Cards => Verdict[s.grant] = "genuine"
  /\ AllowRun(s) => s.grant # NoLicence

NoMixedLicence == Coherent(status)

(* The gate never opens the pipeline for a licence that was never accepted:*)
(* what LicenseGate projects is the content of a genuine card or of a cloud*)
(* licence with an end.                                                    *)
GateOnlyOpensForAccepted ==
  PipelineAllowed => \/ gate.grant \in Cards /\ Verdict[gate.grant] = "genuine"
                     \/ gate.grant \in Clouds /\ Expiry[gate.grant] > 0

(* After a restart with no request since, the licence whose activation was *)
(* last answered with success is in force again, unless it has expired or  *)
(* another activation was tried in between.                                *)
RestartRestoresAcked ==
  /\ pc[Main] = "loop" /\ quiet /\ attempted = {} /\ acked # NoLicence
  => \/ AllowRun(status) /\ status.grant = acked
     \/ Expiry[acked] > 0 /\ now >= Expiry[acked]

(* The downgrade baseline on disk, while it is readable, never moves back. *)
BaselineNeverMovesBack ==
  [][disk.base # Corrupt => Baseline(disk') >= Baseline(disk)]_disk

(* A cloud licence the server has revoked does not come back into force    *)
(* until the cloud grants it again or the process restarts.                *)
RevokedStaysLocked ==
  revoked # NoLicence => ~(AllowRun(status) /\ status.grant = revoked)

(* A cloud activation answered with success is in force from then on, until*)
(* it expires, is revoked, or another request or a restart comes: nothing  *)
(* that was already under way may undo it.                                 *)
AckedCloudStaysInForce ==
  /\ Up /\ InFlight = {} /\ attempted = {} /\ acked \in Clouds
  /\ revoked # acked /\ now <= Expiry[acked]
  => cloud /\ AllowRun(status) /\ status.grant = acked

(* An expired cloud licence closes the gate: the 60 s scan and the 10 s    *)
(* heartbeat get there even if every publication raced another one.        *)
ExpiredCloudClosesGate ==
  \A l \in Clouds :
    (gate.grant = l /\ now > Expiry[l]) ~> (gate.grant # l)

=============================================================================
