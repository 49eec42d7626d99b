------------------------ MODULE LicenseDaemonProofs ------------------------
(***************************************************************************)
(* Safety of LicenseDaemon for every set of cards, cloud licences and      *)
(* callers and for every bound.  Neither NoMixedLicence nor                *)
(* GateOnlyOpensForAccepted is inductive: a status also travels through    *)
(* the locals of a request (the snapshot activate() takes on entry and may *)
(* roll back to, the snapshot about to be published), and a cloud licence  *)
(* travels from its acceptance to the status through call[t].lic.  The     *)
(* inductive invariant says the same of those copies, and which phase of a *)
(* request carries which kind of licence.                                  *)
(***************************************************************************)
EXTENDS LicenseDaemon, TLAPS

Sound(s) == Coherent(s) /\ (AllowRun(s) /\ s.grant \in Clouds => Expiry[s.grant] > 0)

ActivatePhases == {"baseline", "refuse", "install", "verify", "verifying",
                   "judge", "withdraw", "rollback", "save_state"}

Phases ==
  \A t \in Callers :
    /\ pc[t] \in ActivatePhases => call[t].op = "activate" /\ call[t].lic \in Cards
    /\ pc[t] = "save" => \/ call[t].op = "activate" /\ call[t].lic \in Cards
                         \/ call[t].op = "activate_cloud" /\ call[t].lic \in Clouds
                              /\ Expiry[call[t].lic] > 0
    /\ pc[t] = "grant" => call[t].lic \in Clouds /\ Expiry[call[t].lic] > 0

IInv ==
  /\ TypeOK
  /\ Sound(status)
  /\ \A t \in Threads : Sound(call[t].prevStatus) /\ Sound(call[t].snap)
  /\ GateOnlyOpensForAccepted
  /\ Phases

USE CardAssumption, ThreadAssumption, BoundAssumption

(* The default status and a refusal carry nothing.                         *)
LEMMA UnknownIsSound ==
  UnknownStatus \in StatusType(Licences) /\ Sound(UnknownStatus)
  BY DEF UnknownStatus, Status, StatusType, States, Sound, Coherent, AllowRun, Licences

LEMMA RefusalFields ==
  ASSUME NEW st \in States, NEW e \in Nat
  PROVE  /\ Refusal(st, e) \in StatusType(Licences)
         /\ Refusal(st, e).state = st /\ Refusal(st, e).grant = NoLicence
         /\ Refusal(st, e).expire = e
  BY DEF Refusal, Status, StatusType, Licences

(* The verdict on a card is an accepted status or a refusal.               *)
LEMMA VerdictFields ==
  ASSUME NEW c \in Cards \cup {NoLicence}, NEW at \in Nat
  PROVE  LET v == VerifyOnce(c, at) IN
         /\ v \in StatusType(Licences)
         /\ \/ /\ v.state = "Valid" /\ v.grant = c /\ c \in Cards
               /\ Verdict[c] = "genuine" /\ v.expire = Expiry[c]
            \/ /\ v.state \in {"InvalidCard", "BoundElsewhere", "Expired"}
               /\ v.grant = NoLicence
<1>1. CASE c \notin Cards
  BY <1>1, RefusalFields DEF VerifyOnce, States
<1>2. CASE c \in Cards /\ Verdict[c] \in {"unparsable", "forged", "foreign"}
  <2>1. \/ VerifyOnce(c, at) = Refusal("InvalidCard", 0)
        \/ VerifyOnce(c, at) = Refusal("BoundElsewhere", 0)
    BY <1>2 DEF VerifyOnce
  <2> QED  BY <2>1, RefusalFields DEF States
<1>3. CASE c \in Cards /\ Verdict[c] = "genuine"
  <2>1. Expiry[c] \in Nat /\ c \in Licences
    BY <1>3 DEF Licences
  <2>2. CASE Unexpired(Expiry[c], at)
    <3>1. VerifyOnce(c, at) = Acceptance(Expiry[c], c)
      BY <1>3, <2>2 DEF VerifyOnce
    <3> QED  BY <1>3, <2>1, <3>1 DEF Acceptance, Status, StatusType, States
  <2>3. CASE ~Unexpired(Expiry[c], at)
    <3>1. VerifyOnce(c, at) = Refusal("Expired", Expiry[c])
      BY <1>3, <2>3 DEF VerifyOnce
    <3> QED  BY <2>1, <3>1, RefusalFields DEF States
  <2> QED  BY <2>2, <2>3
<1> QED  BY <1>1, <1>2, <1>3 DEF CardVerdicts

(* Merging a verdict into a sound status gives a sound status.             *)
LEMMA CheckedIsSound ==
  ASSUME NEW c \in Cards \cup {NoLicence}, NEW at \in Nat,
         status \in StatusType(Licences), Sound(status), now \in Nat
  PROVE  /\ Checked(VerifyOnce(c, at)) \in StatusType(Licences)
         /\ Sound(Checked(VerifyOnce(c, at)))
<1> DEFINE v == VerifyOnce(c, at)
<1>1. v \in StatusType(Licences)
  BY VerdictFields
<1>2. CASE v.state = "Valid"
  <2>1. Checked(v) = Status("Valid", now, v.expire, now + Heartbeat, v.grant)
    BY <1>2 DEF Checked, ApplyCheckResult, CheckSucceeded
  <2>2. v.grant \in Cards /\ Verdict[v.grant] = "genuine" /\ v.expire = Expiry[v.grant]
    BY <1>2, VerdictFields
  <2>3. now + Heartbeat \in Nat
    OBVIOUS
  <2> QED  BY <1>1, <2>1, <2>2, <2>3
           DEF Status, StatusType, States, Sound, Coherent, AllowRun, Licences
<1>3. CASE v.state # "Valid"
  <2>1. v.state \in {"InvalidCard", "BoundElsewhere", "Expired"} /\ v.grant = NoLicence
    BY <1>3, VerdictFields
  <2>2. Checked(v) = Status(v.state, status.verified,
                            IF v.expire > 0 THEN v.expire ELSE status.expire,
                            v.next, NoLicence)
    BY <2>1 DEF Checked, ApplyCheckResult, CheckSucceeded, IsNetworkClassFailure
  <2> QED  BY <1>1, <2>1, <2>2 DEF Status, StatusType, Sound, Coherent, AllowRun, Licences, States
<1> QED  BY <1>2, <1>3

(* Writing a state that does not let the core run keeps a status sound.    *)
LEMMA DowngradedIsSound ==
  ASSUME NEW s \in StatusType(Licences), Sound(s),
         NEW st \in {"Checking", "InvalidCard", "Expired"}
  PROVE  /\ [s EXCEPT !.state = st] \in StatusType(Licences)
         /\ Sound([s EXCEPT !.state = st])
BY DEF StatusType, States, Sound, Coherent, AllowRun, Licences

LEMMA CloudGrantIsSound ==
  ASSUME NEW l \in Clouds, Expiry[l] > 0, NEW t \in Nat
  PROVE  CloudGrant(l, t) \in StatusType(Licences) /\ Sound(CloudGrant(l, t))
<1>1. Expiry[l] \in Nat /\ l \in Licences /\ l \notin Cards
  BY DEF Licences
<1>2. t + 365 * 1440 * Heartbeat \in Nat
  OBVIOUS
<1> QED  BY <1>1, <1>2 DEF CloudGrant, Status, StatusType, States, Sound, Coherent, AllowRun

(* The status restored from the licence directory is sound.                *)
LEMMA RestoredIsSound ==
  ASSUME disk \in DiskType, now \in Nat
  PROVE  RestoredStatus \in StatusType(Licences) /\ Sound(RestoredStatus)
<1>1. CASE disk.doc \notin Clouds
  BY <1>1, UnknownIsSound DEF RestoredStatus
<1>2. CASE disk.doc \in Clouds
  <2>1. Expiry[disk.doc] \in Nat /\ disk.doc \in Licences /\ disk.doc \notin Cards
    BY <1>2 DEF Licences
  <2>2. CASE Expiry[disk.doc] = 0
    BY <1>2, <2>1, <2>2 DEF RestoredStatus, Status, StatusType, States, Sound,
       Coherent, AllowRun
  <2>3. CASE Expiry[disk.doc] # 0
    <3>1. CloudGrant(disk.doc, now) \in StatusType(Licences)
          /\ Sound(CloudGrant(disk.doc, now))
      BY <1>2, <2>1, <2>3, CloudGrantIsSound
    <3>2. CASE now > Expiry[disk.doc]
      <4>1. CloudGrant(disk.doc, now).next \in Nat
        BY <3>1 DEF StatusType
      <4>2. RestoredStatus = Status("Expired", 0, Expiry[disk.doc],
                                    CloudGrant(disk.doc, now).next, disk.doc)
        BY <1>2, <2>3, <3>2 DEF RestoredStatus
      <4> QED  BY <2>1, <4>1, <4>2 DEF Status, StatusType, States, Sound, Coherent,
                  AllowRun
    <3>3. CASE ~(now > Expiry[disk.doc])
      BY <1>2, <2>3, <3>1, <3>3 DEF RestoredStatus
    <3> QED  BY <3>2, <3>3
  <2> QED  BY <2>2, <2>3
<1> QED  BY <1>1, <1>2

-----------------------------------------------------------------------------
(* What the invariant says of a call record, thread by thread.             *)
LEMMA IdleIsSound ==
  Idle \in CallType /\ Sound(Idle.prevStatus) /\ Sound(Idle.snap)
BY UnknownIsSound DEF Idle, PlainRequest, Request, CallType

LEMMA InitIInv == Init => IInv
<1> SUFFICES ASSUME Init PROVE IInv
  OBVIOUS
<1>1. TypeOK
  BY UnknownIsSound, IdleIsSound
  DEF Init, TypeOK, DiskType, States, PcType, Down, Blank
<1>2. Sound(status)
  BY UnknownIsSound DEF Init
<1>3. \A t \in Threads : Sound(call[t].prevStatus) /\ Sound(call[t].snap)
  BY IdleIsSound DEF Init, Blank
<1>4. GateOnlyOpensForAccepted
  BY DEF Init, GateOnlyOpensForAccepted, PipelineAllowed
<1>5. Phases
  BY DEF Init, Phases, ActivatePhases, Down, Threads
<1> QED  BY <1>1, <1>2, <1>3, <1>4, <1>5 DEF IInv

(* A new request: what it snapshots is sound, and it carries nothing else. *)
LEMMA RequestIsSound ==
  ASSUME NEW op \in {"none", "activate", "activate_cloud", "deactivate"},
         NEW lic \in Licences \cup {NoLicence}, NEW since \in Nat,
         NEW pCloud \in BOOLEAN,
         NEW pStatus \in StatusType(Licences), Sound(pStatus),
         NEW pCard \in Cards \cup {NoLicence},
         NEW reply \in {"none", "ok", "rejected", "unsaved"}
  PROVE  LET r == Request(op, lic, since, pCloud, pStatus, pCard, reply) IN
         /\ r \in CallType /\ Sound(r.prevStatus) /\ Sound(r.snap)
         /\ r.op = op /\ r.lic = lic
BY UnknownIsSound DEF Request, CallType

(* The part of the invariant about calls survives replacing one record by  *)
(* a sound one.                                                            *)
CallsSound(c) == /\ c \in [Threads -> CallType]
                 /\ \A t \in Threads : Sound(c[t].prevStatus) /\ Sound(c[t].snap)

LEMMA CallUpdate ==
  ASSUME CallsSound(call), NEW t \in Threads, NEW r \in CallType,
         Sound(r.prevStatus), Sound(r.snap)
  PROVE  CallsSound([call EXCEPT ![t] = r])
BY DEF CallsSound

(* Replies, verdict inputs and snapshots written into a record.            *)
LEMMA ReplyRecord ==
  ASSUME NEW r \in CallType, Sound(r.prevStatus), Sound(r.snap),
         NEW x \in {"none", "ok", "rejected", "unsaved"}
  PROVE  LET q == [r EXCEPT !.reply = x] IN
         /\ q \in CallType /\ Sound(q.prevStatus) /\ Sound(q.snap)
         /\ q.op = r.op /\ q.lic = r.lic
BY DEF CallType

LEMMA CheckRecord ==
  ASSUME NEW r \in CallType, Sound(r.prevStatus), Sound(r.snap),
         NEW c \in Cards \cup {NoLicence}, NEW n \in Nat, NEW q, q = WithCheck(r, c, n)
  PROVE  /\ q \in CallType /\ Sound(q.prevStatus) /\ Sound(q.snap)
         /\ q.op = r.op /\ q.lic = r.lic
BY DEF CallType, WithCheck

LEMMA SnapRecord ==
  ASSUME NEW r \in CallType, Sound(r.prevStatus), Sound(r.snap),
         NEW s \in StatusType(Licences), Sound(s)
  PROVE  LET q == [r EXCEPT !.snap = s] IN
         /\ q \in CallType /\ Sound(q.prevStatus) /\ Sound(q.snap)
         /\ q.op = r.op /\ q.lic = r.lic
BY DEF CallType

(* Every step of a thread keeps the invariant; one step per action.  The   *)
(* parts are the typed and sound status, the typed and sound calls, the    *)
(* gate, the phases and the types of the rest.                             *)
Rest == /\ now \in Nat /\ card \in Cards \cup {NoLicence} /\ cloud \in BOOLEAN
        /\ disk \in DiskType
        /\ gate \in [state : States \cup {"None"}, grant : Licences \cup {NoLicence}]
        /\ pc \in [Threads -> PcType]
        /\ acked \in Licences \cup {NoLicence} /\ attempted \subseteq Licences
        /\ quiet \in BOOLEAN /\ revoked \in Licences \cup {NoLicence}

Counters == faults \in Nat /\ crashes \in Nat /\ calls \in Nat

StatusSound == status \in StatusType(Licences) /\ Sound(status)

LEMMA IInvParts ==
  IInv <=> StatusSound /\ CallsSound(call) /\ Rest /\ Counters
           /\ GateOnlyOpensForAccepted /\ Phases
BY DEF IInv, TypeOK, StatusSound, CallsSound, Rest, Counters

LEMMA StatusStep ==
  ASSUME StatusSound, now \in Nat
  PROVE  /\ \A c \in Cards \cup {NoLicence}, at \in Nat :
              status' = Checked(VerifyOnce(c, at)) => StatusSound'
         /\ \A st \in {"Checking", "InvalidCard", "Expired"} :
              status' = [status EXCEPT !.state = st] => StatusSound'
         /\ UNCHANGED status => StatusSound'
<1>1. ASSUME NEW c \in Cards \cup {NoLicence}, NEW at \in Nat,
             status' = Checked(VerifyOnce(c, at))
      PROVE  StatusSound'
  <2>1. /\ Checked(VerifyOnce(c, at)) \in StatusType(Licences)
        /\ Sound(Checked(VerifyOnce(c, at)))
    BY CheckedIsSound DEF StatusSound
  <2> QED  BY <1>1, <2>1 DEF StatusSound, Sound, Coherent, AllowRun
<1>2. ASSUME NEW st \in {"Checking", "InvalidCard", "Expired"},
             status' = [status EXCEPT !.state = st]
      PROVE  StatusSound'
  <2>1. /\ [status EXCEPT !.state = st] \in StatusType(Licences)
        /\ Sound([status EXCEPT !.state = st])
    BY DowngradedIsSound DEF StatusSound
  <2> QED  BY <1>2, <2>1 DEF StatusSound, Sound, Coherent, AllowRun
<1>3. UNCHANGED status => StatusSound'
  BY DEF StatusSound, Sound, Coherent, AllowRun
<1> QED  BY <1>1, <1>2, <1>3
LEMMA UnchangedParts ==
  /\ StatusSound /\ UNCHANGED status => StatusSound'
  /\ CallsSound(call) /\ UNCHANGED call => CallsSound(call')
  /\ GateOnlyOpensForAccepted /\ UNCHANGED gate => GateOnlyOpensForAccepted'
  /\ Phases /\ UNCHANGED <<pc, call>> => Phases'
BY DEF StatusSound, CallsSound, GateOnlyOpensForAccepted, PipelineAllowed, Phases

LEMMA StepIInv == IInv /\ [Next]_vars => IInv'
<1> SUFFICES ASSUME StatusSound, CallsSound(call), Rest, Counters, GateOnlyOpensForAccepted,
                    Phases, [Next]_vars
             PROVE  /\ StatusSound' /\ CallsSound(call') /\ Rest' /\ Counters'
                    /\ GateOnlyOpensForAccepted' /\ Phases'
  <2>1. IInv' <=> (StatusSound /\ CallsSound(call) /\ Rest /\ Counters /\ GateOnlyOpensForAccepted /\ Phases)'
    BY IInvParts, PTL
  <2> QED  BY <2>1, IInvParts
<1>1. CASE Boot
  <2>1. StatusSound'
    <3>1. RestoredStatus \in StatusType(Licences) /\ Sound(RestoredStatus)
      BY RestoredIsSound DEF Rest
    <3> QED  BY <1>1, <3>1 DEF Boot, StatusSound
  <2>2. CallsSound(call')
    BY <1>1, IdleIsSound DEF Boot, Blank, CallsSound
  <2>3. Rest'
    <3>1. ResolveCard \in Cards \cup {NoLicence}
      BY DEF ResolveCard
    <3> QED  BY <1>1, <3>1 DEF Boot, Rest, States, PcType, bounds
  <2>4. GateOnlyOpensForAccepted'
    BY <1>1 DEF Boot, GateOnlyOpensForAccepted, PipelineAllowed
  <2>5. Phases'
    BY <1>1 DEF Boot, Phases, ActivatePhases, Threads
  <2>9. Counters'
    BY <1>1 DEF Counters, Boot, bounds
  <2> QED  BY <2>9, <2>1, <2>2, <2>3, <2>4, <2>5
<1>2. CASE DaemonScan
  <2>1. StatusSound'
    BY <1>2, StatusStep DEF DaemonScan, ScanCard, Rest
  <2>2. Rest'
    BY <1>2 DEF DaemonScan, Rest, bounds, history
  <2>9. Counters'
    BY <1>2 DEF Counters, DaemonScan, bounds
  <2> QED  BY <1>2, <2>9, <2>1, <2>2, UnchangedParts DEF DaemonScan
<1>3. CASE HeartbeatTick
  <2>1. Rest'
    BY <1>3 DEF HeartbeatTick, Go, Rest, memory, bounds, history, PcType
  <2>2. Phases'
    BY <1>3 DEF HeartbeatTick, Go, Phases, Rest, ActivatePhases, Threads
  <2>9. Counters'
    BY <1>3 DEF Counters, HeartbeatTick, bounds
  <2> QED  BY <1>3, <2>9, <2>1, <2>2, UnchangedParts DEF HeartbeatTick, memory
<1>4. CASE Tick
  <2>1. Rest'
    BY <1>4 DEF Tick, Rest, memory, bounds, history
  <2>9. Counters'
    BY <1>4 DEF Counters, Tick, bounds
  <2> QED  BY <1>4, <2>9, <2>1, UnchangedParts DEF Tick, memory
<1>5. CASE Crash
  <2>1. StatusSound'
    BY <1>5, UnknownIsSound DEF Crash, StatusSound
  <2>2. CallsSound(call')
    BY <1>5, IdleIsSound DEF Crash, Blank, CallsSound
  <2>3. Rest'
    <3>1. pc' \in [Threads -> PcType]
      BY <1>5 DEF Crash, Down, PcType
    <3>2. /\ card' \in Cards \cup {NoLicence} /\ cloud' \in BOOLEAN
          /\ gate' \in [state : States \cup {"None"}, grant : Licences \cup {NoLicence}]
      BY <1>5 DEF Crash
    <3>3. UNCHANGED <<now, disk, history>>
      BY <1>5 DEF Crash
    <3> QED  BY <3>1, <3>2, <3>3 DEF Rest, history
  <2>4. GateOnlyOpensForAccepted'
    BY <1>5 DEF Crash, GateOnlyOpensForAccepted, PipelineAllowed
  <2>5. Phases'
    BY <1>5 DEF Crash, Down, Phases, ActivatePhases, Threads
  <2>9. Counters'
    BY <1>5 DEF Counters, Crash, bounds
  <2> QED  BY <2>9, <2>1, <2>2, <2>3, <2>4, <2>5
<1>6. ASSUME NEW t \in Threads, VerifyBegin(t)
      PROVE  /\ StatusSound' /\ CallsSound(call') /\ Rest' /\ Counters'
             /\ GateOnlyOpensForAccepted' /\ Phases'
  <2>1. StatusSound'
    BY <1>6, StatusStep DEF VerifyBegin, Rest
  <2>2. CallsSound(call') /\ \A u \in Threads : call'[u].op = call[u].op /\ call'[u].lic = call[u].lic
    <3>1. CASE UNCHANGED call
      BY <3>1
    <3>2. CASE call' = [call EXCEPT ![t] = WithCheck(call[t], card, now)]
      <4> DEFINE r == WithCheck(call[t], card, now)
      <4>1. r \in CallType /\ Sound(r.prevStatus) /\ Sound(r.snap)
            /\ r.op = call[t].op /\ r.lic = call[t].lic
        <5>1. call[t] \in CallType /\ Sound(call[t].prevStatus) /\ Sound(call[t].snap)
              /\ card \in Cards \cup {NoLicence} /\ now \in Nat
          BY <1>6 DEF CallsSound, Rest
        <5>2. r = WithCheck(call[t], card, now)
          OBVIOUS
        <5> HIDE DEF r
        <5> QED  BY ONLY <5>1, <5>2, CheckRecord
      <4>2. call' = [call EXCEPT ![t] = r]
        BY <3>2
      <4> HIDE DEF r
      <4> QED  BY <1>6, <4>1, <4>2, CallUpdate DEF CallsSound
    <3> QED  BY <1>6, <3>1, <3>2 DEF VerifyBegin
  <2>3. Rest'
    BY <1>6 DEF VerifyBegin, Go, Rest, bounds, history, PcType
  <2>4. Phases'
    BY <1>6, <2>2 DEF VerifyBegin, Go, Phases, Rest, ActivatePhases, Threads
  <2>9. Counters'
    BY <1>6 DEF Counters, VerifyBegin, bounds
  <2> QED  BY <1>6, <2>9, <2>1, <2>2, <2>3, <2>4, UnchangedParts DEF VerifyBegin
<1>7. ASSUME NEW t \in Threads, VerifyEnd(t)
      PROVE  /\ StatusSound' /\ CallsSound(call') /\ Rest' /\ Counters'
             /\ GateOnlyOpensForAccepted' /\ Phases'
  <2>1. StatusSound'
    <3>1. PICK at \in call[t].since .. now : status' = Checked(VerifyOnce(call[t].vcard, at))
      BY <1>7 DEF VerifyEnd
    <3>2. call[t].vcard \in Cards \cup {NoLicence} /\ call[t].since \in Nat
      BY <1>7 DEF CallsSound, CallType
    <3>3. at \in Nat /\ now \in Nat
      BY <3>2 DEF Rest
    <3> QED  BY <3>1, <3>2, <3>3, StatusStep
  <2>2. Rest'
    BY <1>7 DEF VerifyEnd, Go, Rest, bounds, history, PcType
  <2>3. Phases'
    BY <1>7 DEF VerifyEnd, Go, Phases, Rest, ActivatePhases, Threads
  <2>9. Counters'
    BY <1>7 DEF Counters, VerifyEnd, bounds
  <2> QED  BY <1>7, <2>9, <2>1, <2>2, <2>3, UnchangedParts DEF VerifyEnd
<1>8. ASSUME NEW t \in Threads, TakeSnapshot(t)
      PROVE  /\ StatusSound' /\ CallsSound(call') /\ Rest' /\ Counters'
             /\ GateOnlyOpensForAccepted' /\ Phases'
  <2>1. CallsSound(call') /\ \A u \in Threads : call'[u].op = call[u].op /\ call'[u].lic = call[u].lic
    <3> DEFINE r == [call[t] EXCEPT !.snap = status]
    <3>1. r \in CallType /\ Sound(r.prevStatus) /\ Sound(r.snap)
          /\ r.op = call[t].op /\ r.lic = call[t].lic
      BY <1>8, SnapRecord DEF CallsSound, StatusSound
    <3>2. call' = [call EXCEPT ![t] = r]
      BY <1>8 DEF TakeSnapshot
    <3> HIDE DEF r
    <3> QED  BY <1>8, <3>1, <3>2, CallUpdate DEF CallsSound, Threads
  <2>2. Rest'
    BY <1>8 DEF TakeSnapshot, Go, Rest, bounds, history, memory, PcType
  <2>3. Phases'
    BY <1>8, <2>1 DEF TakeSnapshot, Go, Phases, Rest, ActivatePhases, Threads
  <2>9. Counters'
    BY <1>8 DEF Counters, TakeSnapshot, bounds
  <2> QED  BY <1>8, <2>9, <2>1, <2>2, <2>3, UnchangedParts DEF TakeSnapshot, memory
<1>9. ASSUME NEW t \in Threads, Publish(t)
      PROVE  /\ StatusSound' /\ CallsSound(call') /\ Rest' /\ Counters'
             /\ GateOnlyOpensForAccepted' /\ Phases'
  <2> DEFINE sn == call[t].snap
  <2>1. sn \in StatusType(Licences) /\ Sound(sn) /\ call[t] \in CallType
    BY <1>9 DEF CallsSound, CallType
  <2>2. CallsSound(call')
    <3>1. CASE t = Main
      BY <1>9, <3>1 DEF Publish
    <3>2. CASE t # Main
      BY <1>9, <3>2, IdleIsSound, CallUpdate DEF Publish
    <3> QED  BY <3>1, <3>2
  <2>3. gate' \in [state : States \cup {"None"}, grant : Licences \cup {NoLicence}]
        /\ GateOnlyOpensForAccepted'
    <3> DEFINE p == ToSnapshot(sn)
    <3>1. /\ p \in [state : States \cup {"None"}, grant : Licences \cup {NoLicence}]
          /\ p.grant # NoLicence => p.grant = sn.grant /\ AllowRun(sn)
      BY <2>1 DEF ToSnapshot, StatusType
    <3>2. gate' = Published(p)
      BY <1>9 DEF Publish
    <3>3. gate' = p \/ gate' = [p EXCEPT !.state = gate.state]
      BY <3>2 DEF Published
    <3>4. gate' \in [state : States \cup {"None"}, grant : Licences \cup {NoLicence}]
          /\ gate'.grant = p.grant
      BY <3>1, <3>3 DEF Rest
    <3> HIDE DEF p, sn
    <3> QED  BY <2>1, <3>1, <3>4
             DEF GateOnlyOpensForAccepted, PipelineAllowed, Sound, Coherent, Licences
  <2>4. Rest'
    <3>1. call[t].lic \in Licences \cup {NoLicence}
      BY <2>1 DEF CallType
    <3>2. acked' \in Licences \cup {NoLicence} /\ attempted' \subseteq Licences
      BY <1>9, <3>1 DEF Publish, Rest
    <3> QED  BY <1>9, <2>3, <3>2 DEF Publish, Go, Rest, bounds, memory, PcType
  <2>5. Phases'
    BY <1>9, IdleIsSound DEF Publish, Go, Phases, Rest, ActivatePhases, Threads, CallsSound
  <2>9. Counters'
    BY <1>9 DEF Counters, Publish, bounds
  <2> QED  BY <1>9, <2>9, <2>2, <2>3, <2>4, <2>5, UnchangedParts DEF Publish, memory
<1>10. ASSUME NEW t \in Callers, Activate(t)
      PROVE  /\ StatusSound' /\ CallsSound(call') /\ Rest' /\ Counters'
             /\ GateOnlyOpensForAccepted' /\ Phases'
  <2>1. PICK c \in Cards :
           /\ call' = [call EXCEPT ![t] = Request("activate", c, 1, cloud, status, card, "none")]
           /\ attempted' = attempted \cup {c}
           /\ Go(t, IF Verdict[c] = "unparsable" THEN "refuse" ELSE "baseline")
    BY <1>10 DEF Activate
  <2> DEFINE r == Request("activate", c, 1, cloud, status, card, "none")
  <2>2. r \in CallType /\ Sound(r.prevStatus) /\ Sound(r.snap) /\ r.op = "activate" /\ r.lic = c
    <3>1. c \in Licences \cup {NoLicence} /\ 1 \in Nat /\ cloud \in BOOLEAN
          /\ "activate" \in {"none", "activate", "activate_cloud", "deactivate"}
          /\ "none" \in {"none", "ok", "rejected", "unsaved"}
          /\ status \in StatusType(Licences) /\ Sound(status)
          /\ card \in Cards \cup {NoLicence}
      BY DEF Licences, Rest, StatusSound
    <3> QED  BY <3>1, UnknownIsSound DEF Request, CallType
  <2>3. call' = [call EXCEPT ![t] = r]
    BY <2>1
  <2> HIDE DEF r
  <2>4. CallsSound(call')
    BY <1>10, <2>2, <2>3, CallUpdate DEF Threads
  <2>5. Rest'
    <3>1. attempted' \subseteq Licences
      BY <2>1 DEF Rest, Licences
    <3>2. pc' \in [Threads -> PcType]
      BY <2>1 DEF Go, Rest, PcType
    <3> QED  BY <1>10, <3>1, <3>2 DEF Activate, Arrive, Rest, memory
  <2>6. Phases'
    BY <1>10, <2>1, <2>2, <2>3 DEF Go, Phases, Rest, ActivatePhases, Threads, CallsSound
  <2>9. Counters'
    BY <1>10 DEF Counters, Activate, bounds, Arrive
  <2> QED  BY <1>10, <2>9, <2>4, <2>5, <2>6, UnchangedParts DEF Activate, memory
<1>11. ASSUME NEW t \in Callers, ActivateCloud(t)
      PROVE  /\ StatusSound' /\ CallsSound(call') /\ Rest' /\ Counters'
             /\ GateOnlyOpensForAccepted' /\ Phases'
  <2>1. PICK l \in Clouds :
           LET accepted == Expiry[l] > now IN
           /\ call' = [call EXCEPT ![t] =
                         PlainRequest("activate_cloud", l, now,
                                      IF accepted THEN "none" ELSE "rejected")]
           /\ attempted' = IF accepted THEN attempted \cup {l} ELSE attempted
           /\ Go(t, IF accepted THEN "save" ELSE "snapshot")
    BY <1>11 DEF ActivateCloud
  <2> DEFINE r == PlainRequest("activate_cloud", l, now,
                               IF Expiry[l] > now THEN "none" ELSE "rejected")
  <2>2. r \in CallType /\ Sound(r.prevStatus) /\ Sound(r.snap)
        /\ r.op = "activate_cloud" /\ r.lic = l
    <3>1. (IF Expiry[l] > now THEN "none" ELSE "rejected") \in {"none", "ok", "rejected", "unsaved"}
      OBVIOUS
    <3>2. l \in Licences \cup {NoLicence} /\ now \in Nat
      BY DEF Licences, Rest
    <3>3. NoLicence \in Cards \cup {NoLicence} /\ FALSE \in BOOLEAN
          /\ "activate_cloud" \in {"none", "activate", "activate_cloud", "deactivate"}
      OBVIOUS
    <3> QED  BY <3>1, <3>2, <3>3, UnknownIsSound DEF PlainRequest, Request, CallType
  <2>3. call' = [call EXCEPT ![t] = r]
    BY <2>1
  <2> HIDE DEF r
  <2>4. CallsSound(call')
    BY <1>11, <2>2, <2>3, CallUpdate DEF Threads
  <2>5. Rest'
    <3>1. attempted' \subseteq Licences
      BY <2>1 DEF Rest, Licences
    <3>2. pc' \in [Threads -> PcType]
      BY <2>1 DEF Go, Rest, PcType
    <3> QED  BY <1>11, <3>1, <3>2 DEF ActivateCloud, Arrive, Rest, memory
  <2>6. Phases'
    <3>1. Expiry[l] > now => Expiry[l] > 0
      BY DEF Rest, Licences
    <3> QED  BY <1>11, <2>1, <2>2, <2>3, <3>1
             DEF Go, Phases, Rest, ActivatePhases, Threads, CallsSound
  <2>9. Counters'
    BY <1>11 DEF Counters, ActivateCloud, bounds, Arrive
  <2> QED  BY <1>11, <2>9, <2>4, <2>5, <2>6, UnchangedParts DEF ActivateCloud, memory
<1>12. ASSUME NEW t \in Callers, DeactivateCloud(t)
      PROVE  /\ StatusSound' /\ CallsSound(call') /\ Rest' /\ Counters'
             /\ GateOnlyOpensForAccepted' /\ Phases'
  <2> DEFINE r == PlainRequest("deactivate", NoLicence, 1, "ok")
  <2>1. r \in CallType /\ Sound(r.prevStatus) /\ Sound(r.snap)
    <3>1. "deactivate" \in {"none", "activate", "activate_cloud", "deactivate"}
          /\ NoLicence \in Licences \cup {NoLicence} /\ NoLicence \in Cards \cup {NoLicence}
          /\ 1 \in Nat /\ FALSE \in BOOLEAN /\ "ok" \in {"none", "ok", "rejected", "unsaved"}
      OBVIOUS
    <3> QED  BY <3>1, UnknownIsSound DEF PlainRequest, Request, CallType
  <2>2. call' = [call EXCEPT ![t] = r]
    BY <1>12 DEF DeactivateCloud
  <2> HIDE DEF r
  <2>3. StatusSound'
    BY <1>12, StatusStep DEF DeactivateCloud, Rest
  <2>4. CallsSound(call')
    BY <1>12, <2>1, <2>2, CallUpdate DEF Threads
  <2>5. Rest'
    <3>1. revoked' \in Licences \cup {NoLicence}
      BY <1>12 DEF DeactivateCloud, Rest, StatusSound, StatusType
    <3>2. pc' \in [Threads -> PcType]
      BY <1>12 DEF DeactivateCloud, Go, Rest, PcType
    <3> QED  BY <1>12, <3>1, <3>2 DEF DeactivateCloud, Arrive, Rest
  <2>6. Phases'
    BY <1>12, <2>2 DEF DeactivateCloud, Go, Phases, Rest, ActivatePhases, Threads, CallsSound
  <2>9. Counters'
    BY <1>12 DEF Counters, DeactivateCloud, bounds, Arrive
  <2> QED  BY <1>12, <2>9, <2>3, <2>4, <2>5, <2>6, UnchangedParts DEF DeactivateCloud
<1>13. ASSUME NEW t \in Callers, CheckBaseline(t)
      PROVE  /\ StatusSound' /\ CallsSound(call') /\ Rest' /\ Counters'
             /\ GateOnlyOpensForAccepted' /\ Phases'
  <2>1. Rest'
    BY <1>13 DEF CheckBaseline, Go, Rest, DiskType, Phases, ActivatePhases, memory, bounds, history, PcType, Threads
  <2>2. Phases'
    BY <1>13 DEF CheckBaseline, Go, Phases, Rest, ActivatePhases, Threads, CallsSound
  <2>9. Counters'
    BY <1>13 DEF Counters, CheckBaseline, bounds
  <2> QED  BY <1>13, <2>9, <2>1, <2>2, UnchangedParts DEF CheckBaseline, memory
<1>14. ASSUME NEW t \in Callers, Refuse(t)
      PROVE  /\ StatusSound' /\ CallsSound(call') /\ Rest' /\ Counters'
             /\ GateOnlyOpensForAccepted' /\ Phases'
  <2>1. StatusSound'
    BY <1>14, StatusStep DEF Refuse, Rest
  <2>2. Rest'
    BY <1>14 DEF Refuse, Go, Rest, DiskType, Phases, ActivatePhases, memory, bounds, history, PcType, Threads
  <2>3. Phases'
    BY <1>14 DEF Refuse, Go, Phases, Rest, ActivatePhases, Threads, CallsSound
  <2>9. Counters'
    BY <1>14 DEF Counters, Refuse, bounds
  <2> QED  BY <1>14, <2>9, <2>1, <2>2, <2>3, UnchangedParts DEF Refuse, memory
<1>15. ASSUME NEW t \in Callers, InstallCard(t)
      PROVE  /\ StatusSound' /\ CallsSound(call') /\ Rest' /\ Counters'
             /\ GateOnlyOpensForAccepted' /\ Phases'
  <2>1. StatusSound'
    BY <1>15, StatusStep DEF InstallCard, Rest
  <2>2. Rest'
    BY <1>15 DEF InstallCard, Go, Rest, DiskType, Phases, ActivatePhases, memory, bounds, history, PcType, Threads
  <2>3. Phases'
    BY <1>15 DEF InstallCard, Go, Phases, Rest, ActivatePhases, Threads, CallsSound
  <2>9. Counters'
    BY <1>15 DEF Counters, InstallCard, bounds
  <2> QED  BY <1>15, <2>9, <2>1, <2>2, <2>3, UnchangedParts DEF InstallCard, memory
<1>16. ASSUME NEW t \in Callers, Judge(t)
      PROVE  /\ StatusSound' /\ CallsSound(call') /\ Rest' /\ Counters'
             /\ GateOnlyOpensForAccepted' /\ Phases'
  <2>1. Rest'
    BY <1>16 DEF Judge, Go, Rest, DiskType, Phases, ActivatePhases, memory, bounds, history, PcType, Threads
  <2>2. Phases'
    BY <1>16 DEF Judge, Go, Phases, Rest, ActivatePhases, Threads, CallsSound
  <2>9. Counters'
    BY <1>16 DEF Counters, Judge, bounds
  <2> QED  BY <1>16, <2>9, <2>1, <2>2, UnchangedParts DEF Judge, memory
<1>17. ASSUME NEW t \in Callers, WithdrawCard(t)
      PROVE  /\ StatusSound' /\ CallsSound(call') /\ Rest' /\ Counters'
             /\ GateOnlyOpensForAccepted' /\ Phases'
  <2>1. Rest'
    BY <1>17 DEF WithdrawCard, Go, Rest, DiskType, Phases, ActivatePhases, memory, bounds, history, PcType, Threads
  <2>2. Phases'
    BY <1>17 DEF WithdrawCard, Go, Phases, Rest, ActivatePhases, Threads, CallsSound
  <2>9. Counters'
    BY <1>17 DEF Counters, WithdrawCard, bounds
  <2> QED  BY <1>17, <2>9, <2>1, <2>2, UnchangedParts DEF WithdrawCard, memory
<1>18. ASSUME NEW t \in Callers, Rollback(t)
      PROVE  /\ StatusSound' /\ CallsSound(call') /\ Rest' /\ Counters'
             /\ GateOnlyOpensForAccepted' /\ Phases'
  <2>1. call[t] \in CallType /\ Sound(call[t].prevStatus)
    BY <1>18 DEF CallsSound, Threads
  <2>2. StatusSound'
    BY <1>18, <2>1, UnchangedParts DEF Rollback, StatusSound, CallType, memory
  <2>3. CallsSound(call') /\ \A u \in Threads : call'[u].op = call[u].op /\ call'[u].lic = call[u].lic
    <3> DEFINE r == [call[t] EXCEPT !.reply = "rejected"]
    <3>1. r \in CallType /\ Sound(r.prevStatus) /\ Sound(r.snap)
          /\ r.op = call[t].op /\ r.lic = call[t].lic
      BY <1>18, ReplyRecord DEF CallsSound, Threads
    <3>2. call' = [call EXCEPT ![t] = r]
      BY <1>18 DEF Rollback
    <3> HIDE DEF r
    <3> QED  BY <1>18, <3>1, <3>2, CallUpdate DEF CallsSound, Threads
  <2>4. Rest'
    BY <1>18, <2>1 DEF Rollback, Go, Rest, CallType, memory, bounds, history, PcType
  <2>5. Phases'
    BY <1>18, <2>3 DEF Rollback, Go, Phases, Rest, ActivatePhases, Threads
  <2>9. Counters'
    BY <1>18 DEF Counters, Rollback, bounds
  <2> QED  BY <1>18, <2>9, <2>2, <2>3, <2>4, <2>5, UnchangedParts DEF Rollback
<1>19. ASSUME NEW t \in Callers, SaveDoc(t)
      PROVE  /\ StatusSound' /\ CallsSound(call') /\ Rest' /\ Counters'
             /\ GateOnlyOpensForAccepted' /\ Phases'
  <2>1. call[t].lic \in Licences
    BY <1>19 DEF SaveDoc, Phases, Licences
  <2>2. Rest'
    BY <1>19, <2>1 DEF SaveDoc, Go, Rest, DiskType, memory, bounds, history, PcType
  <2>3. Phases'
    BY <1>19 DEF SaveDoc, Go, Phases, Rest, ActivatePhases, Threads
  <2>9. Counters'
    BY <1>19 DEF Counters, SaveDoc, bounds
  <2> QED  BY <1>19, <2>9, <2>2, <2>3, UnchangedParts DEF SaveDoc, memory
<1>20. ASSUME NEW t \in Callers, SaveDocFails(t)
      PROVE  /\ StatusSound' /\ CallsSound(call') /\ Rest' /\ Counters'
             /\ GateOnlyOpensForAccepted' /\ Phases'
  <2>1. CallsSound(call') /\ \A u \in Threads : call'[u].op = call[u].op /\ call'[u].lic = call[u].lic
    <3> DEFINE r == [call[t] EXCEPT !.reply = "unsaved"]
    <3>1. r \in CallType /\ Sound(r.prevStatus) /\ Sound(r.snap)
          /\ r.op = call[t].op /\ r.lic = call[t].lic
      BY <1>20, ReplyRecord DEF CallsSound, Threads
    <3>2. call' = [call EXCEPT ![t] = r]
      BY <1>20 DEF SaveDocFails
    <3> HIDE DEF r
    <3> QED  BY <1>20, <3>1, <3>2, CallUpdate DEF CallsSound, Threads
  <2>2. Rest'
    BY <1>20 DEF SaveDocFails, Go, Rest, memory, history, PcType
  <2>3. Phases'
    BY <1>20, <2>1 DEF SaveDocFails, Go, Phases, Rest, ActivatePhases, Threads
  <2>9. Counters'
    BY <1>20 DEF Counters, SaveDocFails, bounds
  <2> QED  BY <1>20, <2>9, <2>1, <2>2, <2>3, UnchangedParts DEF SaveDocFails, memory
<1>21. ASSUME NEW t \in Callers, SaveState(t)
      PROVE  /\ StatusSound' /\ CallsSound(call') /\ Rest' /\ Counters'
             /\ GateOnlyOpensForAccepted' /\ Phases'
  <2>1. CallsSound(call') /\ \A u \in Threads : call'[u].op = call[u].op /\ call'[u].lic = call[u].lic
    <3> DEFINE r == [call[t] EXCEPT !.reply = "ok"]
    <3>1. r \in CallType /\ Sound(r.prevStatus) /\ Sound(r.snap)
          /\ r.op = call[t].op /\ r.lic = call[t].lic
      BY <1>21, ReplyRecord DEF CallsSound, Threads
    <3>2. call' = [call EXCEPT ![t] = r]
      BY <1>21 DEF SaveState
    <3> HIDE DEF r
    <3> QED  BY <1>21, <3>1, <3>2, CallUpdate DEF CallsSound, Threads
  <2>2. Rest'
    <3>1. IssuedAt[call[t].lic] \in Nat
      BY <1>21 DEF SaveState, Phases, ActivatePhases
    <3> QED  BY <1>21, <3>1 DEF SaveState, Go, Rest, DiskType, memory, history, PcType
  <2>3. Phases'
    BY <1>21, <2>1 DEF SaveState, Go, Phases, Rest, ActivatePhases, Threads
  <2>9. Counters'
    BY <1>21 DEF Counters, SaveState, bounds
  <2> QED  BY <1>21, <2>9, <2>1, <2>2, <2>3, UnchangedParts DEF SaveState, memory
<1>22. ASSUME NEW t \in Callers, GrantCloud(t)
      PROVE  /\ StatusSound' /\ CallsSound(call') /\ Rest' /\ Counters'
             /\ GateOnlyOpensForAccepted' /\ Phases'
  <2>1. call[t].lic \in Clouds /\ Expiry[call[t].lic] > 0 /\ call[t].since \in Nat
    BY <1>22 DEF GrantCloud, Phases, CallsSound, CallType, Threads
  <2>2. StatusSound'
    BY <1>22, <2>1, CloudGrantIsSound DEF GrantCloud, StatusSound
  <2>3. CallsSound(call') /\ \A u \in Threads : call'[u].op = call[u].op /\ call'[u].lic = call[u].lic
    <3> DEFINE r == [call[t] EXCEPT !.reply = "ok"]
    <3>1. r \in CallType /\ Sound(r.prevStatus) /\ Sound(r.snap)
          /\ r.op = call[t].op /\ r.lic = call[t].lic
      BY <1>22, ReplyRecord DEF CallsSound, Threads
    <3>2. call' = [call EXCEPT ![t] = r]
      BY <1>22 DEF GrantCloud
    <3> HIDE DEF r
    <3> QED  BY <1>22, <3>1, <3>2, CallUpdate DEF CallsSound, Threads
  <2>4. Rest'
    BY <1>22 DEF GrantCloud, Go, Rest, memory, bounds, PcType
  <2>5. Phases'
    BY <1>22, <2>3 DEF GrantCloud, Go, Phases, Rest, ActivatePhases, Threads
  <2>9. Counters'
    BY <1>22 DEF Counters, GrantCloud, bounds
  <2> QED  BY <1>22, <2>9, <2>2, <2>3, <2>4, <2>5, UnchangedParts DEF GrantCloud
<1>23. CASE UNCHANGED vars
  <2>1. Rest'
    BY <1>23 DEF vars, memory, bounds, history, Rest
  <2>9. Counters'
    BY <1>23 DEF Counters, vars, bounds
  <2> QED  BY <1>23, <2>9, <2>1, UnchangedParts DEF vars, memory
<1>24. CASE \E t \in Threads : ThreadStep(t)
  BY <1>24, <1>6, <1>7, <1>8, <1>9 DEF ThreadStep
<1>25. CASE \E t \in Callers : \/ Activate(t) \/ ActivateCloud(t) \/ DeactivateCloud(t)
                                 \/ RequestStep(t)
  BY <1>25, <1>10, <1>11, <1>12, <1>13, <1>14, <1>15, <1>16, <1>17, <1>18, <1>19,
     <1>20, <1>21, <1>22 DEF RequestStep
<1>28. CASE Next
  BY <1>1, <1>2, <1>3, <1>4, <1>5, <1>24, <1>25, <1>28 DEF Next
<1> QED  BY <1>23, <1>28
-----------------------------------------------------------------------------
LEMMA IInvAlways == Spec => []IInv
BY InitIInv, StepIInv, PTL DEF Spec

(* Every variable of the licence authority (LicenseDaemon, LicenseStore,   *)
(* LicenseGate and their callers) stays in its type.                       *)
THEOREM TypeCorrect == Spec => []TypeOK
<1>1. IInv => TypeOK
  BY DEF IInv
<1> QED  BY <1>1, IInvAlways, PTL

(* Whatever the IPC threads, the daemon thread and the start-up check      *)
(* interleave, the features in force and the expiry that will end them     *)
(* belong to one accepted licence (LicenseDaemon::status_).                *)
THEOREM StatusNeverMixes == Spec => []NoMixedLicence
<1>1. IInv => NoMixedLicence
  BY DEF IInv, NoMixedLicence, Sound
<1> QED  BY <1>1, IInvAlways, PTL

(* LicenseGate never opens the pipeline but for the content of a genuine   *)
(* card or of a cloud licence that has an end.                             *)
THEOREM GateIsSound == Spec => []GateOnlyOpensForAccepted
<1>1. IInv => GateOnlyOpensForAccepted
  BY DEF IInv
<1> QED  BY <1>1, IInvAlways, PTL
-----------------------------------------------------------------------------
(* With one thread of requests more can be said, of what was answered and  *)
(* of what is on disk.  With two it is not so: both pass the downgrade     *)
(* check against one baseline, and the older card is saved after the newer.*)

(* A card past the downgrade check is no older than the baseline.          *)
BaselineHeld(c) ==
  (\/ pc[c] \in {"install", "verify", "verifying", "judge", "save_state"}
   \/ pc[c] = "save" /\ call[c].op = "activate")
  => IssuedAt[call[c].lic] >= Baseline(disk)

(* What is written into the record of a request leaves its other fields.   *)
LEMMA RecordFields ==
  ASSUME NEW r \in CallType, NEW x, NEW y
  PROVE  /\ LET q == [r EXCEPT !.reply = x] IN
            q.op = r.op /\ q.lic = r.lic /\ q.vcard = r.vcard /\ q.reply = x
         /\ LET q == [r EXCEPT !.snap = x] IN
            q.op = r.op /\ q.lic = r.lic /\ q.vcard = r.vcard /\ q.reply = r.reply
         /\ LET q == WithCheck(r, x, y) IN
            q.op = r.op /\ q.lic = r.lic /\ q.vcard = x /\ q.reply = r.reply
  BY DEF CallType, WithCheck

SameRequest(c) == call'[c].op = call[c].op /\ call'[c].lic = call[c].lic
SameAnswer(c)  == SameRequest(c) /\ call'[c].reply = call[c].reply /\ call'[c].vcard = call[c].vcard

LEMMA CallFields ==
  ASSUME TypeOK, NEW t \in Threads
  PROVE  /\ UNCHANGED call => SameAnswer(t)
         /\ TakeSnapshot(t) => SameAnswer(t)
         /\ VerifyBegin(t) /\ ~cloud => SameRequest(t) /\ call'[t].vcard = card
         /\ VerifyBegin(t) /\ cloud => SameAnswer(t)
         /\ Rollback(t) => SameRequest(t) /\ call'[t].reply = "rejected"
         /\ SaveDocFails(t) => SameRequest(t) /\ call'[t].reply = "unsaved"
         /\ SaveState(t) \/ GrantCloud(t) => SameRequest(t) /\ call'[t].reply = "ok"
<1>1. call \in [Threads -> CallType] /\ call[t] \in CallType
  BY DEF TypeOK
<1>2. UNCHANGED call => SameAnswer(t)
  BY DEF SameAnswer, SameRequest
<1>3. ASSUME TakeSnapshot(t) PROVE SameAnswer(t)
  <2>1. call'[t] = [call[t] EXCEPT !.snap = status]
    BY <1>1, <1>3 DEF TakeSnapshot
  <2> QED BY <1>1, <2>1, RecordFields DEF SameAnswer, SameRequest
<1>4. ASSUME VerifyBegin(t), ~cloud PROVE SameRequest(t) /\ call'[t].vcard = card
  <2>1. call'[t] = WithCheck(call[t], card, now)
    BY <1>1, <1>4 DEF VerifyBegin
  <2> QED BY <1>1, <2>1, RecordFields DEF SameRequest
<1>5. ASSUME VerifyBegin(t), cloud PROVE SameAnswer(t)
  BY <1>2, <1>5 DEF VerifyBegin
<1>6. ASSUME Rollback(t) PROVE SameRequest(t) /\ call'[t].reply = "rejected"
  <2>1. call'[t] = [call[t] EXCEPT !.reply = "rejected"]
    BY <1>1, <1>6 DEF Rollback
  <2> QED BY <1>1, <2>1, RecordFields DEF SameRequest
<1>7. ASSUME SaveDocFails(t) PROVE SameRequest(t) /\ call'[t].reply = "unsaved"
  <2>1. call'[t] = [call[t] EXCEPT !.reply = "unsaved"]
    BY <1>1, <1>7 DEF SaveDocFails
  <2> QED BY <1>1, <2>1, RecordFields DEF SameRequest
<1>8. ASSUME SaveState(t) \/ GrantCloud(t) PROVE SameRequest(t) /\ call'[t].reply = "ok"
  <2>1. call'[t] = [call[t] EXCEPT !.reply = "ok"]
    BY <1>1, <1>8 DEF SaveState, GrantCloud
  <2> QED BY <1>1, <2>1, RecordFields DEF SameRequest
<1> QED BY <1>2, <1>3, <1>4, <1>5, <1>6, <1>7, <1>8

(* The fields of a new request, and of none.                               *)
LEMMA NewFields ==
  ASSUME NEW op, NEW lic, NEW since, NEW reply, NEW a, NEW b, NEW d
  PROVE  /\ LET q == Request(op, lic, since, a, b, d, reply) IN
            q.op = op /\ q.lic = lic /\ q.reply = reply
         /\ LET q == PlainRequest(op, lic, since, reply) IN
            q.op = op /\ q.lic = lic /\ q.reply = reply
         /\ Idle.op = "none" /\ Idle.lic = NoLicence /\ Idle.reply = "none"
  BY DEF Request, PlainRequest, Idle

(* What the main thread, the daemon thread and time do not touch.          *)
Beside == DaemonScan \/ HeartbeatTick \/ Tick \/ ThreadStep(Main) \/ UNCHANGED vars

LEMMA BesideFrame ==
  ASSUME TypeOK, NEW c, Callers = {c}, Beside
  PROVE  /\ pc'[c] = pc[c] /\ call'[c] = call[c]
         /\ UNCHANGED <<disk, card, cloud, acked, attempted, quiet, revoked>>
<1>1. /\ pc \in [Threads -> PcType] /\ call \in [Threads -> CallType]
      /\ c \in Threads /\ Main \in Threads /\ c # Main
  BY DEF TypeOK, Threads
<1>2. CASE DaemonScan \/ HeartbeatTick \/ Tick \/ UNCHANGED vars
  BY <1>1, <1>2 DEF DaemonScan, HeartbeatTick, Tick, Go, vars, memory, history, bounds
<1>3. CASE ThreadStep(Main)
  BY <1>1, <1>3 DEF ThreadStep, VerifyBegin, VerifyEnd, TakeSnapshot, Publish, Go, memory, history, bounds
<1> QED BY <1>2, <1>3 DEF Beside

LEMMA WhoSteps ==
  ASSUME NEW c, Callers = {c}, [Next]_vars
  PROVE  \/ Boot \/ Crash \/ Beside
         \/ ThreadStep(c) \/ RequestStep(c) \/ Activate(c) \/ ActivateCloud(c) \/ DeactivateCloud(c)
  BY DEF Next, Threads, Beside

(* The label a request goes to.                                            *)
LEMMA PcMoves ==
  ASSUME TypeOK, NEW c, Callers = {c}, NEW t \in Threads, NEW next, Go(t, next)
  PROVE  pc'[t] = next /\ \A u \in Threads \ {t} : pc'[u] = pc[u]
  BY DEF TypeOK, Go
-----------------------------------------------------------------------------
LEMMA BaselineInit ==
  ASSUME NEW c, Callers = {c}
  PROVE  Init => BaselineHeld(c)
  BY DEF Init, BaselineHeld, Down, Threads

LEMMA BaselineStep ==
  ASSUME IInv, NEW c, Callers = {c}, BaselineHeld(c), [Next]_vars
  PROVE  BaselineHeld(c)' /\ (disk.base # Corrupt => Baseline(disk') >= Baseline(disk))
<1> USE DEF BaselineHeld
<1>1. TypeOK /\ Phases /\ c \in Threads /\ c \in Callers /\ c # Main /\ Main \in Threads
  BY DEF IInv, Threads
<1>2. Baseline(disk) \in Nat
  <2>1. disk \in DiskType
    BY <1>1 DEF TypeOK
  <2> QED BY <2>1 DEF Baseline, DocIssuedAt, DiskType
<1>3. CASE Boot \/ Crash
  <2>1. pc'[c] \in {"idle", "down"} /\ disk' = disk
    BY <1>1, <1>3 DEF Boot, Crash, Down
  <2> QED BY <1>2, <2>1
<1>4. CASE Beside
  BY <1>1, <1>2, <1>4, BesideFrame
<1>5. CASE Activate(c) \/ ActivateCloud(c) \/ DeactivateCloud(c)
  <2>1. disk' = disk
    BY <1>5 DEF Activate, ActivateCloud, DeactivateCloud
  <2>2. CASE Activate(c) \/ DeactivateCloud(c)
    <3>1. pc'[c] \in {"refuse", "baseline", "snapshot"}
      BY <1>1, <2>2, PcMoves DEF Activate, DeactivateCloud
    <3> QED BY <1>2, <2>1, <3>1
  <2>3. CASE ActivateCloud(c)
    <3>1. pc'[c] \in {"save", "snapshot"}
      BY <1>1, <2>3, PcMoves DEF ActivateCloud
    <3>2. call'[c].op = "activate_cloud"
      BY <1>1, <2>3, NewFields DEF ActivateCloud, TypeOK
    <3> QED BY <1>2, <2>1, <3>1, <3>2
  <2> QED BY <1>5, <2>2, <2>3
<1>6. CASE CheckBaseline(c)
  <2>1. /\ disk' = disk /\ call' = call
        /\ pc'[c] = IF IsDowngrade(IssuedAt[call[c].lic], Baseline(disk)) THEN "refuse" ELSE "install"
    BY <1>1, <1>6, PcMoves DEF CheckBaseline
  <2>2. IssuedAt[call[c].lic] \in Nat
    BY <1>1, <1>6 DEF CheckBaseline, Phases, ActivatePhases
  <2> QED BY <1>2, <2>1, <2>2 DEF IsDowngrade
<1>7. CASE InstallCard(c) \/ ThreadStep(c) \/ Judge(c)
  <2>1. disk' = disk
    BY <1>7 DEF InstallCard, ThreadStep, VerifyBegin, VerifyEnd, TakeSnapshot, Publish, Judge
  <2>2. CASE InstallCard(c) \/ VerifyBegin(c) \/ VerifyEnd(c) \/ Judge(c)
    <3>1. call'[c].lic = call[c].lic
      BY <1>1, <2>2, CallFields DEF InstallCard, VerifyBegin, VerifyEnd, Judge, SameAnswer, SameRequest
    <3>2. pc[c] \in {"install", "verify", "verifying", "judge"}
      BY <2>2 DEF InstallCard, VerifyBegin, VerifyEnd, Judge
    <3> QED BY <1>2, <2>1, <3>1, <3>2
  <2>3. CASE TakeSnapshot(c) \/ Publish(c)
    <3>1. pc'[c] \in {"publish", "idle"}
      BY <1>1, <2>3, PcMoves DEF TakeSnapshot, Publish
    <3> QED BY <1>2, <2>1, <3>1
  <2> QED BY <1>7, <2>2, <2>3 DEF ThreadStep
<1>8. CASE Refuse(c) \/ WithdrawCard(c) \/ Rollback(c) \/ SaveDocFails(c) \/ GrantCloud(c)
  <2>1. disk' = disk
    BY <1>8 DEF Refuse, WithdrawCard, Rollback, SaveDocFails, GrantCloud
  <2>2. pc'[c] \in {"rollback", "snapshot"}
    BY <1>1, <1>8, PcMoves DEF Refuse, WithdrawCard, Rollback, SaveDocFails, GrantCloud
  <2> QED BY <1>2, <2>1, <2>2
<1>9. CASE SaveDoc(c)
  <2>1. /\ pc[c] = "save" /\ call' = call /\ disk' = [disk EXCEPT !.doc = call[c].lic]
        /\ pc'[c] = IF call[c].op = "activate" THEN "save_state" ELSE "grant"
    BY <1>1, <1>9, PcMoves DEF SaveDoc
  <2>2. disk \in DiskType
    BY <1>1 DEF TypeOK
  <2>3. disk'.base = disk.base /\ disk'.doc = call[c].lic
    BY <2>1, <2>2 DEF DiskType
  <2>4. disk.base # Corrupt => Baseline(disk') = Baseline(disk)
    BY <2>3 DEF Baseline
  <2>5. CASE call[c].op = "activate"
    <3>1. call[c].lic \in Cards
      BY <1>1, <2>1, <2>5 DEF Phases
    <3>2. IssuedAt[call[c].lic] \in Nat
      BY <3>1
    <3>3. disk.base = Corrupt => Baseline(disk') = IssuedAt[call[c].lic]
      BY <2>3, <3>1 DEF Baseline, DocIssuedAt, Missing, Corrupt
    <3>4. IssuedAt[call[c].lic] >= Baseline(disk)
      BY <2>1, <2>5
    <3>5. IssuedAt[call[c].lic] >= Baseline(disk')
      BY <2>4, <3>2, <3>3, <3>4
    <3> QED BY <1>2, <2>1, <2>4, <3>5
  <2>6. CASE call[c].op # "activate"
    BY <1>2, <2>1, <2>4, <2>6
  <2> QED BY <2>5, <2>6
<1>10. CASE SaveState(c)
  <2>1. pc[c] = "save_state" /\ pc'[c] = "snapshot"
    BY <1>1, <1>10, PcMoves DEF SaveState
  <2>2. IssuedAt[call[c].lic] \in Nat /\ IssuedAt[call[c].lic] >= Baseline(disk)
    BY <1>1, <2>1 DEF Phases, ActivatePhases
  <2>3. CASE disk' = disk
    BY <1>2, <2>1, <2>3
  <2>4. CASE disk' = [disk EXCEPT !.base = IssuedAt[call[c].lic]]
    <3>1. disk'.base = IssuedAt[call[c].lic]
      BY <1>1, <2>4 DEF TypeOK, DiskType
    <3>2. Baseline(disk') = IssuedAt[call[c].lic]
      BY <2>2, <3>1 DEF Baseline, Missing, Corrupt
    <3> QED BY <2>1, <2>2, <3>2
  <2> QED BY <1>10, <2>3, <2>4 DEF SaveState
<1> QED BY <1>3, <1>4, <1>5, <1>6, <1>7, <1>8, <1>9, <1>10, WhoSteps DEF RequestStep

(* A restart or an older card never moves the downgrade baseline on disk   *)
(* back (LicenseDaemon::activate, LicenseStore::save_state).               *)
THEOREM BaselineNeverGoesBack ==
  ASSUME NEW c, Callers = {c}
  PROVE  Spec => BaselineNeverMovesBack
<1>1. Init => BaselineHeld(c)
  BY BaselineInit
<1>2. IInv /\ BaselineHeld(c) /\ [Next]_vars
      => BaselineHeld(c)' /\ [disk.base # Corrupt => Baseline(disk') >= Baseline(disk)]_disk
  BY BaselineStep
<1> QED BY <1>1, <1>2, IInvAlways, PTL DEF Spec, BaselineNeverMovesBack
-----------------------------------------------------------------------------
(* When requests wait for the start-up check, it and they do not overlap.  *)
Serial(c) ==
  /\ pc[Main] \in {"down", "verify", "verifying", "snapshot", "publish", "loop"}
  /\ pc[Main] \in {"verify", "verifying"} => pc[c] = "idle"
  /\ pc[Main] = "verifying" => ~cloud

Working(c)   == pc[c] \notin {"idle", "down", "snapshot", "publish"}
Answering(c) == /\ pc[c] \in {"snapshot", "publish"}
                /\ call[c].reply = "ok" /\ call[c].lic # NoLicence

(* What is answered is on disk, and nothing replaces it unseen.            *)
Stored(c) ==
  /\ Working(c) => call[c].lic \in attempted
  /\ pc[c] \in {"save_state", "grant"} \/ Answering(c) => disk.doc = call[c].lic
  /\ acked # NoLicence /\ attempted = {} => disk.doc = acked

(* A cloud licence that was granted is in force, unless it was revoked or  *)
(* has expired.                                                            *)
GrantHolds(l) ==
  cloud /\ status.grant = l /\ (revoked = l \/ now > Expiry[l] \/ AllowRun(status))
CloudHeld(c) ==
  /\ Answering(c) /\ call[c].lic \in Clouds => Expiry[call[c].lic] > 0 /\ GrantHolds(call[c].lic)
  /\ acked \in Clouds => Expiry[acked] > 0
  /\ Up /\ attempted = {} /\ acked \in Clouds => GrantHolds(acked)

CloudInv(c) == Serial(c) /\ Stored(c) /\ CloudHeld(c)

Arrives(c) == Activate(c) \/ ActivateCloud(c) \/ DeactivateCloud(c)
CallerStep(c) == ThreadStep(c) \/ RequestStep(c) \/ Arrives(c)

LEMMA CallerFrame ==
  ASSUME TypeOK, NEW c, Callers = {c}, ~EarlyIpc, Serial(c), CallerStep(c)
  PROVE  pc'[Main] = pc[Main] /\ pc[Main] \in {"down", "snapshot", "publish", "loop"}
<1>1. c \in Threads /\ Main \in Threads /\ c # Main /\ pc \in [Threads -> PcType]
  BY DEF Threads, TypeOK
<1>2. pc[c] # "idle" \/ pc[Main] \in {"loop", "snapshot", "publish"}
  BY DEF CallerStep, Arrives, Arrive, Activate, ActivateCloud, DeactivateCloud, ThreadStep, VerifyBegin, VerifyEnd,
         TakeSnapshot, Publish, RequestStep, CheckBaseline, Refuse, InstallCard, Judge, WithdrawCard,
         Rollback, SaveDoc, SaveDocFails, SaveState, GrantCloud
<1>3. pc'[Main] = pc[Main]
  BY <1>1 DEF CallerStep, Arrives, Activate, ActivateCloud, DeactivateCloud, ThreadStep, VerifyBegin, VerifyEnd,
         TakeSnapshot, Publish, RequestStep, CheckBaseline, Refuse, InstallCard, Judge, WithdrawCard,
         Rollback, SaveDoc, SaveDocFails, SaveState, GrantCloud, Go
<1> QED BY <1>2, <1>3 DEF Serial

LEMMA SerialStep ==
  ASSUME IInv, NEW c, Callers = {c}, ~EarlyIpc, Serial(c), [Next]_vars
  PROVE  Serial(c)'
<1>1. TypeOK /\ c \in Threads /\ Main \in Threads /\ c # Main /\ pc \in [Threads -> PcType]
  BY DEF IInv, Threads, TypeOK
<1>2. CASE Boot \/ Crash
  BY <1>1, <1>2 DEF Serial, Boot, Crash, Down
<1>3. CASE CallerStep(c)
  BY <1>1, <1>3, CallerFrame DEF Serial
<1>4. CASE Beside
  <2>1. pc'[c] = pc[c] /\ cloud' = cloud
    BY <1>1, <1>4, BesideFrame
  <2>2. CASE DaemonScan \/ Tick \/ UNCHANGED vars
    BY <2>1, <2>2 DEF Serial, DaemonScan, Tick, vars
  <2>3. CASE HeartbeatTick
    BY <1>1, <2>1, <2>3, PcMoves DEF Serial, HeartbeatTick, Go
  <2>4. CASE ThreadStep(Main)
    <3>1. VerifyBegin(Main) => (pc'[Main] = IF cloud THEN "snapshot" ELSE "verifying") /\ pc[Main] = "verify"
      BY <1>1 DEF VerifyBegin, Go
    <3>2. VerifyEnd(Main) => pc'[Main] = "snapshot"
      BY <1>1 DEF VerifyEnd, Go
    <3>3. TakeSnapshot(Main) => pc'[Main] = "publish"
      BY <1>1 DEF TakeSnapshot, Go
    <3>4. Publish(Main) => pc'[Main] = "loop"
      BY <1>1 DEF Publish, Go
    <3> QED BY <2>1, <2>4, <3>1, <3>2, <3>3, <3>4 DEF Serial, ThreadStep
  <2> QED BY <1>4, <2>2, <2>3, <2>4 DEF Beside
<1> QED BY <1>2, <1>3, <1>4, WhoSteps DEF CallerStep, Arrives

(* What a thread of requests does, for the sake of what is stored.         *)
LEMMA StoredStep ==
  ASSUME IInv, NEW c, Callers = {c}, Stored(c), [Next]_vars
  PROVE  Stored(c)'
<1> USE DEF Stored, Working, Answering
<1>1. TypeOK /\ c \in Threads /\ c \in Callers /\ c # Main /\ Main \in Threads
  BY DEF IInv, Threads
<1>2. CASE Boot \/ Crash
  <2>1. pc'[c] \in {"idle", "down"} /\ UNCHANGED <<disk, acked, attempted>>
    BY <1>1, <1>2 DEF Boot, Crash, Down, history
  <2> QED BY <2>1
<1>3. CASE Beside
  BY <1>1, <1>3, BesideFrame
<1>4. CASE Arrives(c)
  <2>1. UNCHANGED <<disk, acked>>
    BY <1>4 DEF Arrives, Activate, ActivateCloud, DeactivateCloud
  <2>2. CASE Activate(c)
    <3>1. PICK l \in Cards : /\ attempted' = attempted \cup {l}
                             /\ call' = [call EXCEPT ![c] = Request("activate", l, 1, cloud, status, card, "none")]
                             /\ Go(c, IF Verdict[l] = "unparsable" THEN "refuse" ELSE "baseline")
      BY <2>2 DEF Activate
    <3>2. call'[c].lic = l /\ pc'[c] \in {"refuse", "baseline"}
      BY <1>1, <3>1, NewFields, PcMoves DEF TypeOK
    <3> QED BY <2>1, <3>1, <3>2
  <2>3. CASE ActivateCloud(c)
    <3>1. PICK l \in Clouds :
             LET accepted == Expiry[l] > now IN
             /\ call' = [call EXCEPT ![c] = PlainRequest("activate_cloud", l, now,
                                                         IF accepted THEN "none" ELSE "rejected")]
             /\ attempted' = IF accepted THEN attempted \cup {l} ELSE attempted
             /\ Go(c, IF accepted THEN "save" ELSE "snapshot")
      BY <2>3 DEF ActivateCloud
    <3>2. /\ call'[c].lic = l /\ call'[c].reply = IF Expiry[l] > now THEN "none" ELSE "rejected"
      <4>1. call'[c] = PlainRequest("activate_cloud", l, now, IF Expiry[l] > now THEN "none" ELSE "rejected")
        BY <1>1, <3>1 DEF TypeOK
      <4> QED BY <4>1 DEF PlainRequest, Request
    <3>3. pc'[c] = IF Expiry[l] > now THEN "save" ELSE "snapshot"
      BY <1>1, <3>1, PcMoves
    <3>4. attempted' = IF Expiry[l] > now THEN attempted \cup {l} ELSE attempted
      BY <3>1
    <3>5. CASE Expiry[l] > now
      <4>1. pc'[c] = "save" /\ call'[c].lic = l /\ l \in attempted'
        BY <3>2, <3>3, <3>4, <3>5
      <4> QED BY <2>1, <4>1
    <3>6. CASE ~(Expiry[l] > now)
      <4>1. pc'[c] = "snapshot" /\ call'[c].reply = "rejected" /\ attempted' = attempted
        BY <3>2, <3>3, <3>4, <3>6
      <4> QED BY <2>1, <4>1
    <3> QED BY <3>5, <3>6
  <2>4. CASE DeactivateCloud(c)
    <3>1. call'[c].lic = NoLicence /\ pc'[c] = "snapshot" /\ attempted' = attempted
      BY <1>1, <2>4, NewFields, PcMoves DEF DeactivateCloud, TypeOK
    <3> QED BY <2>1, <3>1
  <2> QED BY <1>4, <2>2, <2>3, <2>4 DEF Arrives
<1>5. CASE \/ VerifyBegin(c) \/ VerifyEnd(c) \/ CheckBaseline(c) \/ Refuse(c) \/ InstallCard(c)
           \/ Judge(c) \/ WithdrawCard(c)
  <2>1. UNCHANGED <<disk, acked, attempted>>
    BY <1>5 DEF VerifyBegin, VerifyEnd, CheckBaseline, Refuse, InstallCard, Judge, WithdrawCard, history
  <2>2. Working(c) /\ pc'[c] \in {"judge", "verifying", "refuse", "install", "rollback", "verify", "save", "withdraw"}
    BY <1>1, <1>5, PcMoves DEF VerifyBegin, VerifyEnd, CheckBaseline, Refuse, InstallCard, Judge, WithdrawCard
  <2>3. call'[c].lic = call[c].lic
    BY <1>1, <1>5, CallFields
       DEF VerifyBegin, VerifyEnd, CheckBaseline, Refuse, InstallCard, Judge, WithdrawCard, SameAnswer, SameRequest
  <2> QED BY <2>1, <2>2, <2>3
<1>6. CASE Rollback(c) \/ SaveDocFails(c)
  <2>1. UNCHANGED <<disk, acked, attempted>>
    BY <1>6 DEF Rollback, SaveDocFails, history
  <2>2. pc'[c] = "snapshot" /\ call'[c].reply # "ok"
    BY <1>1, <1>6, PcMoves, CallFields DEF Rollback, SaveDocFails
  <2> QED BY <2>1, <2>2
<1>7. CASE SaveDoc(c)
  <2>1. /\ pc[c] = "save" /\ pc'[c] \in {"save_state", "grant"} /\ call'[c] = call[c]
        /\ UNCHANGED <<acked, attempted>> /\ disk' = [disk EXCEPT !.doc = call[c].lic]
    BY <1>1, <1>7, PcMoves DEF SaveDoc, history
  <2>2. disk'.doc = call[c].lic
    BY <1>1, <2>1 DEF TypeOK, DiskType
  <2> QED BY <2>1, <2>2
<1>8. CASE SaveState(c) \/ GrantCloud(c)
  <2>1. /\ pc[c] \in {"save_state", "grant"} /\ pc'[c] = "snapshot" /\ call'[c].lic = call[c].lic
        /\ UNCHANGED <<acked, attempted>>
    BY <1>1, <1>8, PcMoves, CallFields DEF SaveState, GrantCloud, history, SameRequest
  <2>2. disk'.doc = disk.doc
    BY <1>1, <1>8 DEF SaveState, GrantCloud, TypeOK, DiskType
  <2> QED BY <2>1, <2>2
<1>9. CASE TakeSnapshot(c)
  <2>1. /\ pc[c] = "snapshot" /\ pc'[c] = "publish" /\ SameAnswer(c)
        /\ UNCHANGED <<disk, acked, attempted>>
    BY <1>1, <1>9, PcMoves, CallFields DEF TakeSnapshot, history
  <2> QED BY <2>1 DEF SameAnswer, SameRequest
<1>10. CASE Publish(c)
  <2>1. pc[c] = "publish" /\ pc'[c] = "idle" /\ disk' = disk
    BY <1>1, <1>10, PcMoves DEF Publish
  <2>2. \/ call[c].reply = "ok" /\ call[c].lic # NoLicence /\ acked' = call[c].lic /\ attempted' = {}
        \/ UNCHANGED <<acked, attempted>>
    BY <1>1, <1>10 DEF Publish
  <2> QED BY <2>1, <2>2
<1> QED BY <1>2, <1>3, <1>4, <1>5, <1>6, <1>7, <1>8, <1>9, <1>10, WhoSteps DEF RequestStep, ThreadStep, Arrives

(* A grant outlasts all that is not a request.                             *)
LEMMA GrantLasts ==
  ASSUME IInv, NEW c, Callers = {c}, Serial(c), Beside, NEW l \in Clouds, GrantHolds(l)
  PROVE  GrantHolds(l)'
<1>1. TypeOK /\ Main \in Threads /\ Sound(status) /\ l \in Licences
  BY DEF IInv, Threads, Licences
<1>2. cloud' = cloud /\ revoked' = revoked
  BY <1>1, BesideFrame
<1>3. CASE DaemonScan
  <2>1. now' = now
    BY <1>3 DEF DaemonScan
  <2>2. \/ now > status.expire /\ status' = [status EXCEPT !.state = "Expired"]
    BY <1>3 DEF DaemonScan, ScanCard, GrantHolds
  <2>3. status.expire = Expiry[l] /\ l # NoLicence
    BY <1>1 DEF GrantHolds, Sound, Coherent
  <2>4. status'.grant = status.grant
    BY <1>1, <2>2 DEF TypeOK, StatusType
  <2> QED BY <1>2, <2>1, <2>2, <2>3, <2>4 DEF GrantHolds
<1>4. CASE Tick
  <2>1. status' = status /\ now' = now + 1 /\ now \in Nat /\ Expiry[l] \in Nat
    BY <1>1, <1>4 DEF Tick, memory, TypeOK
  <2> QED BY <1>2, <2>1 DEF GrantHolds
<1>5. CASE HeartbeatTick \/ UNCHANGED vars
  BY <1>2, <1>5 DEF HeartbeatTick, memory, vars, GrantHolds
<1>6. CASE ThreadStep(Main)
  <2>1. ~VerifyEnd(Main)
    BY DEF VerifyEnd, Serial, GrantHolds
  <2>2. status' = status /\ now' = now
    BY <1>6, <2>1 DEF ThreadStep, VerifyBegin, TakeSnapshot, Publish, memory, GrantHolds
  <2> QED BY <1>2, <2>2 DEF GrantHolds
<1> QED BY <1>3, <1>4, <1>5, <1>6 DEF Beside

LEMMA BesideUp ==
  ASSUME TypeOK, Beside, Up'
  PROVE  Up
<1>1. Main \in Threads /\ pc \in [Threads -> PcType]
  BY DEF TypeOK, Threads
<1> QED BY <1>1 DEF Beside, Up, DaemonScan, HeartbeatTick, Tick, vars, ThreadStep, VerifyBegin, VerifyEnd,
                    TakeSnapshot, Publish

LEMMA CloudStep ==
  ASSUME IInv, NEW c, Callers = {c}, ~EarlyIpc, CloudInv(c), [Next]_vars
  PROVE  CloudHeld(c)'
<1> USE DEF Answering
<1>1. /\ TypeOK /\ Phases /\ c \in Threads /\ c \in Callers /\ c # Main /\ Main \in Threads
      /\ Serial(c) /\ Stored(c) /\ CloudHeld(c)
  BY DEF IInv, Threads, CloudInv
<1>2. NoLicence \notin Clouds /\ NoLicence \notin Cards /\ \A l \in Clouds : l \notin Cards
  BY DEF Licences
<1>3. CASE Boot
  <2>1. pc'[c] = "idle" /\ UNCHANGED <<disk, acked, attempted, now>>
    BY <1>1, <1>3 DEF Boot
  <2>2. ASSUME attempted = {}, acked \in Clouds PROVE GrantHolds(acked)'
    <3>1. disk.doc = acked /\ Expiry[acked] > 0
      BY <1>1, <1>2, <2>2 DEF Stored, CloudHeld
    <3>2. cloud' /\ status' = IF now > Expiry[acked]
                              THEN Status("Expired", 0, Expiry[acked], CloudGrant(acked, now).next, acked)
                              ELSE CloudGrant(acked, now)
      <4>1. Expiry[acked] # 0 /\ disk.doc \in Clouds
        BY <2>2, <3>1 DEF Licences
      <4>2. cloud' = TRUE
        BY <1>3, <4>1 DEF Boot
      <4>3. status' = RestoredStatus
        BY <1>3 DEF Boot
      <4> QED BY <3>1, <4>1, <4>2, <4>3 DEF RestoredStatus
    <3>3. status'.grant = acked /\ (now > Expiry[acked] \/ AllowRun(status'))
      BY <3>2 DEF Status, CloudGrant, AllowRun
    <3> QED BY <2>1, <3>2, <3>3 DEF GrantHolds, AllowRun
  <2> QED BY <1>1, <2>1, <2>2 DEF CloudHeld
<1>4. CASE Crash
  <2>1. pc'[c] = "down" /\ ~Up' /\ acked' = acked
    BY <1>1, <1>4 DEF Crash, Down, Up, history
  <2> QED BY <1>1, <2>1 DEF CloudHeld
<1>5. CASE Beside
  <2>1. pc'[c] = pc[c] /\ call'[c] = call[c] /\ UNCHANGED <<acked, attempted>>
    BY <1>1, <1>5, BesideFrame
  <2>2. \A l \in Clouds : GrantHolds(l) => GrantHolds(l)'
    BY <1>1, <1>5, GrantLasts
  <2>3. Up' => Up
    BY <1>1, <1>5, BesideUp
  <2> QED BY <1>1, <2>1, <2>2, <2>3 DEF CloudHeld
<1>6. CASE CallerStep(c)
  <2>1. Up' => Up
    BY <1>1, <1>6, CallerFrame DEF Up
  <2>2. CASE Arrives(c)
    <3>1. ~Answering(c)'
      <4>1. CASE Activate(c)
        <5>1. pc'[c] \in {"refuse", "baseline"}
          BY <1>1, <4>1, PcMoves DEF Activate
        <5> QED BY <5>1
      <4>2. CASE ActivateCloud(c)
        <5>1. PICK l \in Clouds :
                 LET accepted == Expiry[l] > now IN
                 /\ call' = [call EXCEPT ![c] = PlainRequest("activate_cloud", l, now,
                                                             IF accepted THEN "none" ELSE "rejected")]
                 /\ Go(c, IF accepted THEN "save" ELSE "snapshot")
          BY <4>2 DEF ActivateCloud
        <5>2. call'[c] = PlainRequest("activate_cloud", l, now, IF Expiry[l] > now THEN "none" ELSE "rejected")
          BY <1>1, <5>1 DEF TypeOK
        <5>3. call'[c].reply = IF Expiry[l] > now THEN "none" ELSE "rejected"
          BY <5>2 DEF PlainRequest, Request
        <5>4. pc'[c] = IF Expiry[l] > now THEN "save" ELSE "snapshot"
          BY <1>1, <5>1, PcMoves
        <5> QED BY <5>3, <5>4
      <4>3. CASE DeactivateCloud(c)
        <5>1. call'[c] = PlainRequest("deactivate", NoLicence, 1, "ok")
          BY <1>1, <4>3 DEF DeactivateCloud, TypeOK
        <5> QED BY <5>1 DEF PlainRequest, Request
      <4> QED BY <2>2, <4>1, <4>2, <4>3 DEF Arrives
    <3>2. acked' = acked
      BY <2>2 DEF Arrives, Activate, ActivateCloud, DeactivateCloud
    <3>3. attempted' = {} => attempted = {} /\ ~Activate(c)
      BY <2>2 DEF Arrives, Activate, ActivateCloud, DeactivateCloud
    <3>4. ASSUME GrantHolds(acked), ~Activate(c) PROVE GrantHolds(acked)'
      <4>1. CASE ActivateCloud(c)
        BY <3>2, <3>4, <4>1 DEF ActivateCloud, memory, GrantHolds
      <4>2. CASE DeactivateCloud(c)
        <5>1. /\ status' = [status EXCEPT !.state = "Expired"] /\ revoked' = status.grant
              /\ UNCHANGED <<cloud, acked>>
          BY <3>4, <4>2 DEF DeactivateCloud, GrantHolds
        <5>2. status'.grant = status.grant
          BY <1>1, <5>1 DEF TypeOK, StatusType
        <5> QED BY <3>4, <5>1, <5>2 DEF GrantHolds
      <4> QED BY <2>2, <3>4, <4>1, <4>2 DEF Arrives
    <3> QED BY <1>1, <2>1, <3>1, <3>2, <3>3, <3>4 DEF CloudHeld
  <2>3. CASE VerifyBegin(c) \/ VerifyEnd(c) \/ RequestStep(c)
    <3>1. UNCHANGED <<acked, attempted>>
      BY <2>3 DEF VerifyBegin, VerifyEnd, RequestStep, CheckBaseline, Refuse, InstallCard, Judge,
         WithdrawCard, Rollback, SaveDoc, SaveDocFails, SaveState, GrantCloud, history
    <3>2. attempted # {}
      <4>1. Working(c)
        BY <2>3 DEF Working, VerifyBegin, VerifyEnd, RequestStep, CheckBaseline, Refuse, InstallCard, Judge,
           WithdrawCard, Rollback, SaveDoc, SaveDocFails, SaveState, GrantCloud
      <4> QED BY <1>1, <4>1 DEF Stored
    <3>3. CASE GrantCloud(c)
      <4>1. pc[c] = "grant" /\ call[c].lic \in Clouds /\ Expiry[call[c].lic] > 0
        BY <1>1, <3>3 DEF GrantCloud, Phases
      <4>2. call'[c].lic = call[c].lic
        BY <1>1, <3>3, CallFields DEF SameRequest
      <4>3. cloud' /\ status' = CloudGrant(call[c].lic, call[c].since)
        BY <3>3 DEF GrantCloud
      <4>4. status'.grant = call[c].lic /\ AllowRun(status')
        BY <4>3 DEF CloudGrant, Status, AllowRun
      <4>5. GrantHolds(call[c].lic)'
        BY <4>2, <4>3, <4>4 DEF GrantHolds, AllowRun
      <4> QED BY <1>1, <3>1, <3>2, <4>1, <4>2, <4>5 DEF CloudHeld, GrantHolds
    <3>4. CASE SaveState(c)
      <4>1. call'[c].lic \in Cards
        BY <1>1, <3>4, CallFields DEF SaveState, Phases, ActivatePhases, SameRequest
      <4> QED BY <1>1, <1>2, <3>1, <3>2, <4>1 DEF CloudHeld
    <3>5. CASE ~GrantCloud(c) /\ ~SaveState(c)
      <4>1. ~Answering(c)'
        <5>1. CASE Rollback(c) \/ SaveDocFails(c)
          BY <1>1, <5>1, CallFields
        <5>2. CASE ~Rollback(c) /\ ~SaveDocFails(c)
          BY <1>1, <2>3, <3>5, <5>2, PcMoves DEF VerifyBegin, VerifyEnd, RequestStep, CheckBaseline, Refuse,
             InstallCard, Judge, WithdrawCard, SaveDoc
        <5> QED BY <5>1, <5>2
      <4> QED BY <1>1, <3>1, <3>2, <4>1 DEF CloudHeld
    <3> QED BY <3>3, <3>4, <3>5
  <2>4. CASE TakeSnapshot(c)
    <3>1. /\ pc[c] = "snapshot" /\ SameAnswer(c)
          /\ UNCHANGED <<acked, attempted, now, status, cloud, revoked>>
      BY <1>1, <2>4, CallFields DEF TakeSnapshot, memory, history
    <3>2. \A l \in Clouds : GrantHolds(l) => GrantHolds(l)'
      BY <3>1 DEF GrantHolds
    <3> QED BY <1>1, <2>1, <3>1, <3>2 DEF CloudHeld, SameAnswer, SameRequest
  <2>5. CASE Publish(c)
    <3>1. pc[c] = "publish" /\ pc'[c] = "idle" /\ UNCHANGED <<now, status, cloud, revoked>>
      BY <1>1, <2>5, PcMoves DEF Publish, memory
    <3>2. \/ call[c].reply = "ok" /\ call[c].lic # NoLicence /\ acked' = call[c].lic /\ attempted' = {}
          \/ UNCHANGED <<acked, attempted>>
      BY <1>1, <2>5 DEF Publish
    <3>3. \A l \in Clouds : GrantHolds(l) => GrantHolds(l)'
      BY <3>1 DEF GrantHolds
    <3> QED BY <1>1, <2>1, <3>1, <3>2, <3>3 DEF CloudHeld, GrantHolds
  <2> QED BY <1>6, <2>2, <2>3, <2>4, <2>5 DEF CallerStep, ThreadStep
<1> QED BY <1>3, <1>4, <1>5, <1>6, WhoSteps DEF CallerStep, Arrives

LEMMA CloudInvInit ==
  ASSUME NEW c, Callers = {c}
  PROVE  Init => CloudInv(c)
  BY DEF Init, CloudInv, Serial, Stored, CloudHeld, Working, Answering, Down, Threads, Up, Licences

LEMMA CloudInvStep ==
  ASSUME NEW c, Callers = {c}, ~EarlyIpc
  PROVE  IInv /\ CloudInv(c) /\ [Next]_vars => CloudInv(c)'
<1> SUFFICES ASSUME IInv, CloudInv(c), [Next]_vars PROVE CloudInv(c)'
  OBVIOUS
<1>1. Serial(c)' /\ Stored(c)'
  BY SerialStep, StoredStep DEF CloudInv
<1>2. CloudHeld(c)'
  BY CloudStep
<1> QED BY <1>1, <1>2 DEF CloudInv

(* Nothing that was already under way undoes a cloud activation that was   *)
(* answered with success (LicenseDaemon::activate_cloud, the 60 s scan, a  *)
(* restart).                                                               *)
THEOREM AckedCloudStays ==
  ASSUME NEW c, Callers = {c}, ~EarlyIpc
  PROVE  Spec => []AckedCloudStaysInForce
<1>1. Init => CloudInv(c)
  BY CloudInvInit
<1>2. IInv /\ CloudInv(c) /\ [Next]_vars => CloudInv(c)'
  BY CloudInvStep
<1>3. IInv /\ CloudInv(c) => AckedCloudStaysInForce
  <2> SUFFICES ASSUME IInv, CloudInv(c), Up, attempted = {}, acked \in Clouds, revoked # acked, now <= Expiry[acked]
               PROVE  cloud /\ AllowRun(status) /\ status.grant = acked
    BY DEF AckedCloudStaysInForce
  <2>1. now \in Nat /\ Expiry[acked] \in Nat
    BY DEF IInv, TypeOK, Licences
  <2>2. GrantHolds(acked)
    BY DEF CloudInv, CloudHeld
  <2> QED BY <2>1, <2>2 DEF GrantHolds
<1> QED BY <1>1, <1>2, <1>3, IInvAlways, PTL DEF Spec
-----------------------------------------------------------------------------
(* What checking a card makes of the status: that card, if anything, is in *)
(* force, and a genuine one is until its end.                              *)
LEMMA CheckOfCard ==
  ASSUME NEW l \in Cards, NEW at \in Nat, status \in StatusType(Licences), now \in Nat
  PROVE  /\ AllowRun(Checked(VerifyOnce(l, at))) => Checked(VerifyOnce(l, at)).grant = l
         /\ Verdict[l] = "genuine" =>
              AllowRun(Checked(VerifyOnce(l, at))) \/ (Expiry[l] > 0 /\ at >= Expiry[l])
<1> DEFINE v == VerifyOnce(l, at)
<1>1. CASE v.state = "Valid"
  <2>1. Checked(v) = Status("Valid", now, v.expire, now + Heartbeat, v.grant) /\ v.grant = l
    BY <1>1, VerdictFields DEF Checked, ApplyCheckResult, CheckSucceeded
  <2> QED BY <2>1 DEF Status, AllowRun
<1>2. CASE v.state # "Valid"
  <2>1. v.state \in {"InvalidCard", "BoundElsewhere", "Expired"}
    BY <1>2, VerdictFields
  <2>2. Checked(v).state = v.state
    BY <2>1 DEF Checked, ApplyCheckResult, CheckSucceeded, IsNetworkClassFailure, Status
  <2>3. ~AllowRun(Checked(v))
    BY <2>1, <2>2 DEF AllowRun
  <2>4. Verdict[l] = "genuine" => ~Unexpired(Expiry[l], at)
    BY <1>2 DEF VerifyOnce, Acceptance, Status
  <2>5. Expiry[l] \in Nat
    BY DEF Licences
  <2> QED BY <2>3, <2>4, <2>5 DEF Unexpired
<1> QED BY <1>1, <1>2

(* An activation judges its own card.                                      *)
CardJudged(c) ==
  /\ pc[c] \in {"verify", "verifying", "judge"} =>
       card = call[c].lic /\ ~cloud /\ (AllowRun(status) => status.grant = card)
  /\ pc[c] = "verifying" => call[c].vcard = call[c].lic
  /\ (pc[c] \in {"save", "save_state"} \/ Answering(c)) /\ call[c].lic \in Cards =>
       Verdict[call[c].lic] = "genuine"
  /\ acked \in Cards => Verdict[acked] = "genuine"

LEMMA CardJudgedStep ==
  ASSUME IInv, NEW c, Callers = {c}, Serial(c), CardJudged(c), [Next]_vars
  PROVE  CardJudged(c)'
<1> USE DEF CardJudged, Answering
<1>1. /\ TypeOK /\ Phases /\ Sound(status) /\ c \in Threads /\ c \in Callers /\ c # Main
      /\ Main \in Threads /\ status \in StatusType(Licences) /\ now \in Nat
  BY DEF IInv, Threads, TypeOK
<1>2. NoLicence \notin Cards /\ \A l \in Clouds : l \notin Cards
  BY DEF Licences
<1>3. CASE Boot \/ Crash
  <2>1. pc'[c] \in {"idle", "down"} /\ acked' = acked
    BY <1>1, <1>3 DEF Boot, Crash, Down, history
  <2> QED BY <1>1, <2>1
<1>4. CASE Beside
  <2>1. pc'[c] = pc[c] /\ call'[c] = call[c] /\ UNCHANGED <<card, cloud, acked>>
    BY <1>1, <1>4, BesideFrame
  <2>2. ASSUME pc[c] \in {"verify", "verifying", "judge"}
        PROVE  AllowRun(status') => status'.grant = card
    <3>1. card \in Cards /\ ~cloud /\ card # NoLicence
      BY <1>1, <1>2, <2>2 DEF Phases, ActivatePhases
    <3>2. CASE DaemonScan
      <4>1. status' = Checked(VerifyOnce(card, now))
        BY <3>1, <3>2 DEF DaemonScan, ScanCard
      <4> QED BY <1>1, <3>1, <4>1, CheckOfCard DEF AllowRun
    <3>3. CASE ~DaemonScan
      <4>1. status' = status
        BY <1>4, <2>2, <3>3 DEF Beside, Serial, ThreadStep, VerifyBegin, VerifyEnd, TakeSnapshot,
           Publish, HeartbeatTick, Tick, memory, vars
      <4> QED BY <2>2, <4>1
    <3> QED BY <3>2, <3>3
  <2>3. AllowRun(status)' <=> AllowRun(status')
    BY DEF AllowRun
  <2> QED BY <1>1, <2>1, <2>2, <2>3
<1>5. CASE Arrives(c)
  <2>1. acked' = acked
    BY <1>5 DEF Arrives, Activate, ActivateCloud, DeactivateCloud
  <2>2. CASE Activate(c)
    <3>1. pc'[c] \in {"refuse", "baseline"}
      BY <1>1, <2>2, PcMoves DEF Activate
    <3> QED BY <2>1, <3>1
  <2>3. CASE ActivateCloud(c) \/ DeactivateCloud(c)
    <3>1. pc'[c] \in {"save", "snapshot"}
      BY <1>1, <2>3, PcMoves DEF ActivateCloud, DeactivateCloud
    <3>2. call'[c].lic \notin Cards
      <4>1. CASE ActivateCloud(c)
        <5>1. PICK l \in Clouds :
                 call' = [call EXCEPT ![c] = PlainRequest("activate_cloud", l, now,
                                               IF Expiry[l] > now THEN "none" ELSE "rejected")]
          BY <4>1 DEF ActivateCloud
        <5>2. call'[c].lic = l
          BY <1>1, <5>1, NewFields DEF TypeOK
        <5> QED BY <1>2, <5>2
      <4>2. CASE DeactivateCloud(c)
        <5>1. call'[c].lic = NoLicence
          BY <1>1, <4>2, NewFields DEF DeactivateCloud, TypeOK
        <5> QED BY <1>2, <5>1
      <4> QED BY <2>3, <4>1, <4>2
    <3> QED BY <2>1, <3>1, <3>2
  <2> QED BY <1>5, <2>2, <2>3 DEF Arrives
<1>6. CASE InstallCard(c) \/ VerifyBegin(c)
  <2>1. /\ call'[c].lic = call[c].lic /\ card' = call[c].lic /\ ~cloud' /\ acked' = acked
        /\ status' = [status EXCEPT !.state = "Checking"] /\ pc'[c] \in {"verify", "verifying"}
        /\ pc'[c] = "verifying" => call'[c].vcard = call[c].lic
    <3>1. CASE InstallCard(c)
      BY <1>1, <3>1, PcMoves DEF InstallCard, history
    <3>2. CASE VerifyBegin(c)
      BY <1>1, <3>2, CallFields, PcMoves DEF VerifyBegin, history, SameRequest
    <3> QED BY <1>6, <3>1, <3>2
  <2>2. ~AllowRun(status')
    <3>1. status'.state = "Checking"
      BY <1>1, <2>1 DEF StatusType
    <3> QED BY <3>1 DEF AllowRun
  <2> QED BY <1>1, <2>1, <2>2 DEF AllowRun
<1>7. CASE VerifyEnd(c)
  <2>1. /\ pc'[c] = "judge" /\ call' = call /\ UNCHANGED <<card, cloud, acked>>
        /\ card \in Cards /\ call[c].vcard = card
    BY <1>1, <1>7, PcMoves DEF VerifyEnd, Phases, ActivatePhases, history
  <2>2. PICK at \in call[c].since .. now : status' = Checked(VerifyOnce(card, at))
    BY <1>7, <2>1 DEF VerifyEnd
  <2>3. at \in Nat
    BY <1>1, <2>2 DEF TypeOK, CallType
  <2>4. AllowRun(status') => status'.grant = card
    BY <1>1, <2>1, <2>2, <2>3, CheckOfCard DEF AllowRun
  <2> QED BY <1>1, <1>7, <2>1, <2>4 DEF VerifyEnd, AllowRun
<1>8. CASE Judge(c)
  <2>1. /\ pc[c] = "judge" /\ call' = call /\ UNCHANGED <<card, cloud, acked, status>>
        /\ pc'[c] = IF status.state = "Valid" THEN "save" ELSE "withdraw"
    BY <1>1, <1>8, PcMoves DEF Judge, memory, history
  <2>2. status.state = "Valid" => Verdict[call[c].lic] = "genuine"
    BY <1>1, <2>1 DEF AllowRun, Sound, Coherent, Phases, ActivatePhases
  <2> QED BY <1>1, <2>1, <2>2
<1>9. CASE \/ CheckBaseline(c) \/ Refuse(c) \/ WithdrawCard(c) \/ Rollback(c) \/ SaveDocFails(c)
  <2>1. acked' = acked
    BY <1>9 DEF CheckBaseline, Refuse, WithdrawCard, Rollback, SaveDocFails, history
  <2>2. pc'[c] \in {"refuse", "install", "rollback"} \/ (pc'[c] = "snapshot" /\ call'[c].reply # "ok")
    BY <1>1, <1>9, PcMoves, CallFields DEF CheckBaseline, Refuse, WithdrawCard, Rollback, SaveDocFails
  <2> QED BY <1>1, <2>1, <2>2
<1>10. CASE SaveDoc(c) \/ SaveState(c) \/ TakeSnapshot(c)
  <2>1. acked' = acked /\ call'[c].lic = call[c].lic
    BY <1>1, <1>10, CallFields DEF SaveDoc, SaveState, TakeSnapshot, history, SameAnswer, SameRequest
  <2>2. pc'[c] \in {"save_state", "grant", "snapshot", "publish"}
    BY <1>1, <1>10, PcMoves DEF SaveDoc, SaveState, TakeSnapshot
  <2>3. \/ pc[c] \in {"save", "save_state"}
        \/ (pc[c] = "snapshot" /\ call'[c].reply = call[c].reply)
    BY <1>1, <1>10, CallFields DEF SaveDoc, SaveState, TakeSnapshot, SameAnswer
  <2>4. call[c].lic \in Cards /\ pc'[c] \in {"save", "save_state"} \cup {"snapshot", "publish"}
          /\ (pc'[c] \in {"save", "save_state"} \/ Answering(c)')
        => Verdict[call[c].lic] = "genuine"
    <3>1. CASE pc[c] \in {"save", "save_state"}
      BY <3>1
    <3>2. CASE pc[c] = "snapshot" /\ call'[c].reply = call[c].reply
      <4>1. pc'[c] = "publish"
        BY <1>1, <1>10, <3>2, PcMoves DEF SaveDoc, SaveState, TakeSnapshot
      <4> QED BY <2>1, <3>2, <4>1
    <3> QED BY <2>3, <3>1, <3>2
  <2> QED BY <1>1, <2>1, <2>2, <2>4
<1>11. CASE GrantCloud(c)
  <2>1. acked' = acked /\ call'[c].lic \notin Cards /\ pc'[c] = "snapshot"
    <3>1. SameRequest(c)
      BY <1>1, <1>11, CallFields
    <3>2. call[c].lic \notin Cards
      BY <1>1, <1>2, <1>11 DEF GrantCloud, Phases
    <3>3. acked' = acked /\ Go(c, "snapshot")
      BY <1>11 DEF GrantCloud
    <3> QED BY <1>1, <3>1, <3>2, <3>3, PcMoves DEF SameRequest
  <2> QED BY <1>1, <2>1
<1>12. CASE Publish(c)
  <2>1. pc[c] = "publish" /\ pc'[c] = "idle"
    BY <1>1, <1>12, PcMoves DEF Publish
  <2>2. \/ call[c].reply = "ok" /\ call[c].lic # NoLicence /\ acked' = call[c].lic
        \/ acked' = acked
    BY <1>1, <1>12 DEF Publish
  <2> QED BY <1>1, <2>1, <2>2
<1> QED BY <1>3, <1>4, <1>5, <1>6, <1>7, <1>8, <1>9, <1>10, <1>11, <1>12, WhoSteps
        DEF RequestStep, ThreadStep, Arrives

(* Between a boot and the first request the card on disk is the one that   *)
(* is checked, and it comes back into force.                               *)
PastEnd(l) == Expiry[l] > 0 /\ now >= Expiry[l]
Restarting == quiet /\ Up /\ attempted = {} /\ acked \in Cards
Restarted(c) ==
  /\ quiet => revoked = NoLicence /\ pc[c] \in {"idle", "down"}
  /\ Restarting =>
       /\ card = acked /\ ~cloud /\ (AllowRun(status) => status.grant = acked)
       /\ pc[Main] = "verifying" => call[Main].vcard = acked
       /\ pc[Main] \notin {"verify", "verifying"} => AllowRun(status) \/ PastEnd(acked)

LEMMA RestartedStep ==
  ASSUME IInv, NEW c, Callers = {c}, KeyFileCard = NoLicence,
         Stored(c), CardJudged(c), Restarted(c), [Next]_vars
  PROVE  Restarted(c)'
<1> USE DEF Restarted, Restarting
<1>1. /\ TypeOK /\ c \in Threads /\ c \in Callers /\ c # Main /\ Main \in Threads
      /\ status \in StatusType(Licences) /\ now \in Nat
  BY DEF IInv, Threads, TypeOK
<1>2. NoLicence \notin Cards /\ \A l \in Clouds : l \notin Cards
  BY DEF Licences
<1>3. CASE Boot
  <2>1. /\ pc'[c] = "idle" /\ pc'[Main] = "verify" /\ revoked' = NoLicence
        /\ UNCHANGED <<acked, attempted>>
    BY <1>1, <1>3 DEF Boot
  <2>2. ASSUME attempted = {}, acked \in Cards
        PROVE  card' = acked /\ ~cloud' /\ ~AllowRun(status')
    <3>1. disk.doc = acked /\ disk.doc \notin Clouds
      BY <1>2, <2>2 DEF Stored
    <3>2. card' = acked /\ ~cloud' /\ status' = UnknownStatus
      <4>1. card' = ResolveCard /\ status' = RestoredStatus /\ cloud' = (disk.doc \in Clouds)
        BY <1>3 DEF Boot
      <4>2. ResolveCard = acked
        BY <2>2, <3>1 DEF ResolveCard
      <4>3. RestoredStatus = UnknownStatus
        BY <3>1 DEF RestoredStatus
      <4>4. ~cloud'
        BY <3>1, <4>1
      <4> QED BY <4>1, <4>2, <4>3, <4>4
    <3> QED BY <3>2 DEF UnknownStatus, Status, AllowRun
  <2> QED BY <2>1, <2>2 DEF AllowRun
<1>4. CASE Crash
  <2>1. pc'[c] = "down" /\ ~Up' /\ UNCHANGED <<quiet, revoked>>
    BY <1>1, <1>4 DEF Crash, Down, Up, history
  <2> QED BY <2>1
<1>5. CASE Beside
  <2>1. pc'[c] = pc[c] /\ UNCHANGED <<card, cloud, acked, attempted, quiet, revoked>>
    BY <1>1, <1>5, BesideFrame
  <2>2. Up' => Up
    BY <1>1, <1>5, BesideUp
  <2>3. ASSUME Restarting
        PROVE  /\ AllowRun(status') => status'.grant = acked
               /\ pc'[Main] = "verifying" => call'[Main].vcard = acked
               /\ pc'[Main] \notin {"verify", "verifying"} => AllowRun(status') \/ PastEnd(acked)'
    <3>1. card = acked /\ acked \in Cards /\ ~cloud /\ card # NoLicence /\ Verdict[acked] = "genuine"
      BY <1>2, <2>3 DEF CardJudged
    <3>2. CASE DaemonScan
      <4>1. status' = Checked(VerifyOnce(acked, now)) /\ UNCHANGED <<now, pc, call>>
        BY <3>1, <3>2 DEF DaemonScan, ScanCard
      <4>2. /\ AllowRun(status') => status'.grant = acked
            /\ AllowRun(status') \/ PastEnd(acked)'
        BY <1>1, <2>1, <3>1, <4>1, CheckOfCard DEF PastEnd, AllowRun
      <4> QED BY <2>3, <4>1, <4>2
    <3>3. CASE HeartbeatTick \/ Tick \/ UNCHANGED vars
      <4>1. UNCHANGED <<status, call>> /\ (now' = now \/ now' = now + 1)
        BY <3>3 DEF HeartbeatTick, Tick, vars, memory
      <4>2. pc'[Main] = pc[Main] \/ (pc[Main] = "loop" /\ pc'[Main] = "snapshot")
        BY <1>1, <3>3, PcMoves DEF HeartbeatTick, Tick, vars
      <4>3. PastEnd(acked) => PastEnd(acked)'
        <5>1. Expiry[acked] \in Nat
          BY <3>1 DEF Licences
        <5> QED BY <1>1, <2>1, <4>1, <5>1 DEF PastEnd
      <4> QED BY <2>3, <4>1, <4>2, <4>3
    <3>4. CASE VerifyBegin(Main)
      <4>1. /\ pc'[Main] = "verifying" /\ call'[Main].vcard = card
            /\ status' = [status EXCEPT !.state = "Checking"]
        BY <1>1, <3>1, <3>4, CallFields, PcMoves DEF VerifyBegin
      <4>2. status'.state = "Checking"
        BY <1>1, <4>1 DEF StatusType
      <4> QED BY <3>1, <4>1, <4>2 DEF AllowRun
    <3>5. CASE VerifyEnd(Main)
      <4>1. pc'[Main] = "snapshot" /\ call[Main].vcard = acked /\ now' = now
        BY <1>1, <2>3, <3>5, PcMoves DEF VerifyEnd
      <4>2. PICK at \in call[Main].since .. now : status' = Checked(VerifyOnce(acked, at))
        BY <3>5, <4>1 DEF VerifyEnd
      <4>3. at \in Nat /\ at <= now /\ Expiry[acked] \in Nat
        BY <1>1, <3>1, <4>2 DEF TypeOK, CallType, Licences
      <4>4. /\ AllowRun(Checked(VerifyOnce(acked, at))) => Checked(VerifyOnce(acked, at)).grant = acked
            /\ AllowRun(Checked(VerifyOnce(acked, at))) \/ (Expiry[acked] > 0 /\ at >= Expiry[acked])
        BY <1>1, <3>1, <4>3, CheckOfCard
      <4>5. (Expiry[acked] > 0 /\ at >= Expiry[acked]) => PastEnd(acked)'
        BY <1>1, <2>1, <4>1, <4>3 DEF PastEnd
      <4> QED BY <4>1, <4>2, <4>4, <4>5
    <3>6. CASE TakeSnapshot(Main) \/ Publish(Main)
      <4>1. UNCHANGED <<status, now>> /\ pc[Main] \in {"snapshot", "publish"}
        BY <3>6 DEF TakeSnapshot, Publish, memory
      <4>2. pc'[Main] \in {"publish", "loop"}
        BY <1>1, <3>6, PcMoves DEF TakeSnapshot, Publish
      <4> QED BY <2>1, <2>3, <4>1, <4>2 DEF PastEnd
    <3> QED BY <1>5, <3>2, <3>3, <3>4, <3>5, <3>6 DEF Beside, ThreadStep
  <2> QED BY <2>1, <2>2, <2>3 DEF AllowRun
<1>6. CASE CallerStep(c)
  <2>1. CASE Arrives(c)
    <3>1. quiet' = FALSE
      BY <2>1 DEF Arrives, Activate, ActivateCloud, DeactivateCloud, Arrive
    <3> QED BY <3>1
  <2>2. CASE ThreadStep(c) \/ RequestStep(c)
    <3>1. pc[c] \notin {"idle", "down"} /\ quiet' = quiet
      BY <2>2 DEF ThreadStep, RequestStep, VerifyBegin, VerifyEnd, TakeSnapshot, Publish, CheckBaseline,
         Refuse, InstallCard, Judge, WithdrawCard, Rollback, SaveDoc, SaveDocFails, SaveState, GrantCloud, history
    <3> QED BY <3>1
  <2> QED BY <1>6, <2>1, <2>2 DEF CallerStep
<1> QED BY <1>3, <1>4, <1>5, <1>6, WhoSteps DEF CallerStep, Arrives

(* After a restart with no request since, the licence whose activation was *)
(* last answered with success is in force again unless it has ended        *)
(* (Application::initialize, LicenseStore::load, verify_now_blocking,      *)
(* restore_cloud_doc_locked).                                              *)
THEOREM RestartRestores ==
  ASSUME NEW c, Callers = {c}, ~EarlyIpc, KeyFileCard = NoLicence
  PROVE  Spec => []RestartRestoresAcked
<1>1. Init => CloudInv(c) /\ CardJudged(c) /\ Restarted(c)
  <2>1. Init => CardJudged(c) /\ Restarted(c)
    BY DEF Init, CardJudged, Restarted, Restarting, Answering, Down, Threads, Up, Licences
  <2> QED BY <2>1, CloudInvInit
<1>2. IInv /\ CloudInv(c) /\ CardJudged(c) /\ Restarted(c) /\ [Next]_vars
      => CloudInv(c)' /\ CardJudged(c)' /\ Restarted(c)'
  BY CloudInvStep, CardJudgedStep, RestartedStep DEF CloudInv
<1>3. IInv /\ CloudInv(c) /\ Restarted(c) => RestartRestoresAcked
  <2> SUFFICES ASSUME IInv, CloudInv(c), Restarted(c), pc[Main] = "loop", quiet, attempted = {},
                      acked # NoLicence
               PROVE  (AllowRun(status) /\ status.grant = acked) \/ PastEnd(acked)
    BY DEF RestartRestoresAcked, PastEnd
  <2>1. now \in Nat /\ Up /\ (acked \in Cards \/ acked \in Clouds)
    BY DEF IInv, TypeOK, Licences, Up
  <2>2. CASE acked \in Cards
    BY <2>1, <2>2 DEF Restarted, Restarting
  <2>3. CASE acked \in Clouds
    <3>1. Expiry[acked] \in Nat /\ Expiry[acked] > 0 /\ GrantHolds(acked) /\ revoked # acked
      BY <2>1, <2>3 DEF CloudInv, CloudHeld, Restarted, Licences
    <3> QED BY <2>1, <3>1 DEF GrantHolds, PastEnd
  <2> QED BY <2>1, <2>2, <2>3
<1> QED BY <1>1, <1>2, <1>3, IInvAlways, PTL DEF Spec
=============================================================================
