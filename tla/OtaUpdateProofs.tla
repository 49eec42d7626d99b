--------------------------- MODULE OtaUpdateProofs ---------------------------
(***************************************************************************)
(* What an update promises, for every set of packages and any number of    *)
(* jobs, kills and failing calls.  The directories are changed by whoever  *)
(* has the turn, the updater or the installer it runs; the invariant says  *)
(* who that is, and what each has established where it stands.             *)
(***************************************************************************)
EXTENDS OtaUpdate, SequenceTheorems, TLAPS

Kinds == {"release", "full", "ota", "staging", "old"}
Names == [ver : Releases, kind : Kinds]

JobFiles == [pkg : Packages, written : BOOLEAN]

Typed ==
  /\ DOMAIN dirs \subseteq Names
  /\ jobs \in Seq(JobFiles)
  /\ upd.pkg \in Packages \cup {NoPackage}
  /\ ins.ver \in Releases /\ ins.tree \in Names /\ ins.doomed \subseteq Names

(* The updater never counts on a job file that is not there.               *)
Batch == upd.left \in 0..Len(jobs) /\ (upd.pc \notin {"off", "next"} => upd.left # 0)

(* The link names a tree that list_versions lists.                         *)
Linked == current \in DOMAIN dirs /\ current.kind \in {"release", "full"}

(* The installer runs for the updater, which waits for it, or for an       *)
(* operator who goes back.                                                 *)
Turns ==
  ins.pc # "off" =>
    \/ ins.op = "install" /\ upd.pc = "install" /\ ins.ver = upd.pkg.ver
    \/ ins.op = "rollback" /\ upd.pc \in {"off", "rollback"}

UpdaterStands ==
  /\ upd.pc \in {"merge", "merged"} => current.kind = "release" /\ Full \in DOMAIN dirs
  /\ upd.pc = "health" => current = Release(upd.pkg.ver) /\ dirs[current].whole
  /\ SuccessIsCurrent

Installing == {"stage", "copy", "check", "publish", "swap", "activate"}
Returns == ins.tree \in DOMAIN dirs /\ ins.tree.kind \in {"release", "full"}

InstallerStands ==
  /\ ins.pc \in Installing => ins.op = "install" /\ current # Target
  /\ ins.pc \in {"copy", "check", "publish", "swap"} => Copy \in DOMAIN dirs
  /\ ins.pc \in {"publish", "swap"} => dirs[Copy].whole
  /\ ins.pc = "activate" => Target \in DOMAIN dirs /\ dirs[Target].whole
  /\ ActivatedIsWhole
  /\ ins.pc \in {"assert", "restart", "probe"} /\ ins.op = "install" => Returns
  /\ ins.pc \in {"assert", "prune", "remove"} => ins.op = "install"
  /\ ins.pc \in {"prune", "remove"} => current \notin ins.doomed
  /\ ins.pc = "remove" => current # ins.tree
  /\ ins.pc = "choose" => ins.op = "rollback"
  /\ ins.pc = "done" /\ ins.ok /\ ins.op = "install" => current = Target /\ dirs[current].whole

IInv == Typed /\ Batch /\ Linked /\ Turns /\ UpdaterStands /\ InstallerStands

-----------------------------------------------------------------------------
LEMMA InitInv == ASSUME OtaAssumption, OtaInit PROVE IInv
<1> USE DEF OtaAssumption, OtaInit, Releases, Release, Dir, Tree, NoUpdater, Updater, NoInstaller, Installer, NoPackage
<1>1. Typed
  BY DEF Typed, Names, Kinds
<1>2. Batch
  BY DEF Batch
<1>3. Linked /\ Turns /\ UpdaterStands
  BY DEF Linked, Turns, UpdaterStands, SuccessIsCurrent
<1>4. InstallerStands
  BY DEF InstallerStands, Installing, ActivatedIsWhole
<1> QED BY <1>1, <1>2, <1>3, <1>4 DEF IInv

LEMMA PackageVersion == ASSUME OtaAssumption, Typed PROVE upd.pkg.ver \in Releases /\ upd.pkg.base \in Releases
  BY DEF OtaAssumption, Typed, NoPackage, Releases

(* The console only adds jobs.                                             *)
LEMMA ConsoleInv == ASSUME IInv, WebAsks \/ WebWrites PROVE IInv'
<1>1. jobs' \in Seq(JobFiles) /\ Len(jobs') \in Nat /\ Len(jobs') >= Len(jobs)
  <2> jobs \in Seq(JobFiles)
    BY DEF IInv, Typed
  <2>1. CASE WebAsks
    <3>1. PICK job \in JobFiles : jobs' = Append(jobs, job)
      BY <2>1 DEF WebAsks, Job, JobFiles
    <3>2. Append(jobs, job) \in Seq(JobFiles) /\ Len(Append(jobs, job)) = Len(jobs) + 1
      BY AppendProperties
    <3> QED BY <3>1, <3>2, LenProperties
  <2>2. CASE WebWrites
    <3>1. PICK i \in DOMAIN jobs : jobs' = [jobs EXCEPT ![i] = Job(jobs[i].pkg, TRUE)]
      BY <2>2 DEF WebWrites
    <3>2. i \in 1..Len(jobs) /\ jobs[i] \in JobFiles
      BY LenProperties, ElementOfSeq
    <3>3. PICK job \in JobFiles : jobs' = [jobs EXCEPT ![i] = job]
      BY <3>1, <3>2 DEF Job, JobFiles
    <3>4. [jobs EXCEPT ![i] = job] \in Seq(JobFiles) /\ Len([jobs EXCEPT ![i] = job]) = Len(jobs)
      BY <3>2, ExceptSeq
    <3> QED BY <3>3, <3>4, LenProperties
  <2> QED BY <2>1, <2>2
<1>2. UNCHANGED <<dirs, current, upd, ins, status>>
  BY DEF WebAsks, WebWrites
<1>3. Typed'
  BY <1>1, <1>2 DEF IInv, Typed
<1>4. Batch'
  BY <1>1, <1>2 DEF IInv, Typed, Batch
<1>5. Linked' /\ Turns' /\ UpdaterStands'
  BY <1>2 DEF IInv, Linked, Turns, UpdaterStands, SuccessIsCurrent, Full
<1>6. InstallerStands'
  BY <1>2 DEF IInv, InstallerStands, ActivatedIsWhole, Target, Copy, Returns
<1> QED BY <1>3, <1>4, <1>5, <1>6 DEF IInv

-----------------------------------------------------------------------------
(* The updater has the turn while no installer runs.                       *)
LEMMA UpdaterAlone == ASSUME IInv, upd.pc \notin {"off", "install", "rollback"} PROVE ins.pc = "off"
  BY DEF IInv, Turns

LEMMA NamesOf == ASSUME NEW v \in Releases
                 PROVE  /\ Release(v) \in Names /\ \A kind \in Kinds : Dir(v, kind) \in Names
                        /\ Release(v).kind = "release" /\ Release(v).ver = v
  BY DEF Names, Kinds, Release, Dir

LEMMA UpdaterNames == ASSUME OtaAssumption, Typed PROVE Staging \in Names /\ Full \in Names
  BY PackageVersion, NamesOf DEF Staging, Full, Kinds

(* What a step of the updater has to show: in general, and within a job.   *)
LEMMA UpdaterTurn ==
  ASSUME OtaAssumption, IInv, ins' = ins \/ ins' = NoInstaller, ins'.pc = "off",
         DOMAIN dirs' \subseteq Names, jobs' \in Seq(JobFiles),
         NEW step, NEW left \in 0..Len(jobs'), NEW pkg \in Packages \cup {NoPackage},
         step \in {"off", "next"} \/ left # 0, upd' = Updater(step, left, pkg),
         Linked', UpdaterStands'
  PROVE  IInv'
<1>1. upd'.pc = step /\ upd'.left = left /\ upd'.pkg = pkg
  BY DEF Updater
<1>2. ins'.ver \in Releases /\ ins'.tree \in Names /\ ins'.doomed \subseteq Names
  BY NamesOf DEF IInv, Typed, NoInstaller, Installer, OtaAssumption, Releases
<1>3. Typed' /\ Batch'
  BY <1>1, <1>2 DEF Typed, Batch
<1>4. Turns' /\ InstallerStands'
  BY DEF Turns, InstallerStands, Installing, ActivatedIsWhole
<1> QED BY <1>3, <1>4 DEF IInv

LEMMA UpdaterMoves ==
  ASSUME OtaAssumption, IInv, ins' = ins \/ ins' = NoInstaller, ins'.pc = "off",
         DOMAIN dirs' \subseteq Names, UNCHANGED jobs, NEW step,
         step = "next" \/ upd.pc # "next" \/ upd.left # 0, upd.pc # "off",
         upd' = Updater(step, upd.left, upd.pkg),
         Linked', UpdaterStands'
  PROVE  IInv'
<1>1. jobs' \in Seq(JobFiles) /\ upd.left \in 0..Len(jobs') /\ upd.pkg \in Packages \cup {NoPackage}
  BY DEF IInv, Typed, Batch
<1>2. step \in {"off", "next"} \/ upd.left # 0
  BY DEF IInv, Batch
<1> QED BY <1>1, <1>2, UpdaterTurn

(* A job that fails, with what it had extracted removed or not.            *)
LEMMA FailsInv ==
  ASSUME OtaAssumption, IInv, ins' = ins \/ ins' = NoInstaller, ins'.pc = "off",
         upd.pc \notin {"off", "next"}, UNCHANGED <<current, jobs>>,
         Fails({Staging}) \/ Fails({})
  PROVE  IInv'
<1>1. DOMAIN dirs' \subseteq Names /\ current' \in DOMAIN dirs'
  BY DEF IInv, Typed, Linked, Fails, Without, Staging, Dir
<1>2. upd' = Updater("archive", upd.left, upd.pkg) /\ status' = "FAILED"
  BY DEF Fails, Ends, Goes
<1>3. Linked'
  BY <1>1 DEF IInv, Linked
<1>4. UpdaterStands'
  BY <1>2 DEF UpdaterStands, SuccessIsCurrent, Updater
<1> QED BY <1>1, <1>2, <1>3, <1>4, UpdaterMoves

LEMMA TriggerInv == ASSUME OtaAssumption, IInv, Trigger PROVE IInv'
<1>1. jobs' \in Seq(JobFiles) /\ Len(jobs) \in 0..Len(jobs')
  BY LenProperties DEF IInv, Typed, Trigger
<1>2. upd' = Updater("next", Len(jobs), NoPackage) /\ UNCHANGED <<dirs, current, ins>> /\ ins.pc = "off"
  BY DEF Trigger
<1>3. Linked' /\ DOMAIN dirs' \subseteq Names
  BY <1>2 DEF IInv, Linked, Typed
<1>4. UpdaterStands'
  BY <1>2 DEF UpdaterStands, SuccessIsCurrent, Updater
<1> QED BY <1>1, <1>2, <1>3, <1>4, UpdaterTurn

LEMMA NextJobInv == ASSUME OtaAssumption, IInv, NextJob PROVE IInv'
<1>1. ins.pc = "off" /\ UNCHANGED <<dirs, current, jobs, ins>> /\ upd.pc = "next"
  BY UpdaterAlone DEF NextJob
<1>2. Linked' /\ DOMAIN dirs' \subseteq Names /\ jobs' \in Seq(JobFiles)
  BY <1>1 DEF IInv, Linked, Typed
<1>3. upd.left \in 0..Len(jobs')
  BY <1>1 DEF IInv, Batch
<1>4. CASE upd.left = 0
  <2>1. upd' = Updater("off", 0, NoPackage) /\ 0 \in 0..Len(jobs')
    BY <1>1, <1>3, <1>4 DEF NextJob, NoUpdater
  <2>2. UpdaterStands'
    BY <2>1 DEF UpdaterStands, SuccessIsCurrent, Updater
  <2> QED BY <1>1, <1>2, <2>1, <2>2, UpdaterTurn
<1>5. CASE upd.left # 0 /\ jobs[1].written
  <2>1. jobs[1] \in JobFiles
    <3>1. Len(jobs) \in Nat /\ 1 \in 1..Len(jobs)
      BY <1>1, <1>2, <1>3, <1>5, LenProperties
    <3> QED BY <1>1, <1>2, <3>1, ElementOfSeq
  <2>2. upd' = Updater("fetch", upd.left, jobs[1].pkg) /\ jobs[1].pkg \in Packages
    BY <1>5, <2>1 DEF NextJob, JobFiles
  <2>3. UpdaterStands'
    BY <2>2 DEF UpdaterStands, SuccessIsCurrent, Updater
  <2> QED BY <1>1, <1>2, <1>3, <1>5, <2>2, <2>3, UpdaterTurn
<1>6. CASE upd.left # 0 /\ ~jobs[1].written
  <2>1. upd' = Updater("archive", upd.left, upd.pkg) /\ status' = "FAILED"
    BY <1>6 DEF NextJob, Ends, Goes
  <2>2. UpdaterStands'
    BY <2>1 DEF UpdaterStands, SuccessIsCurrent, Updater
  <2> QED BY <1>1, <1>2, <1>6, <2>1, <2>2, UpdaterMoves
<1> QED BY <1>4, <1>5, <1>6

LEMMA ArchiveInv == ASSUME OtaAssumption, IInv, Archive PROVE IInv'
<1>1. ins.pc = "off" /\ UNCHANGED <<dirs, current, ins>> /\ upd.left # 0
  BY UpdaterAlone DEF Archive, IInv, Batch
<1>2. jobs # <<>>
  BY <1>1 DEF IInv, Batch
<1>3. jobs' \in Seq(JobFiles) /\ Len(jobs') = Len(jobs) - 1
  BY <1>2, HeadTailProperties DEF Archive, IInv, Typed
<1>4. upd.left - 1 \in 0..Len(jobs')
  BY <1>1, <1>3 DEF IInv, Batch
<1>5. upd' = Updater("next", upd.left - 1, NoPackage)
  BY DEF Archive
<1>6. Linked' /\ DOMAIN dirs' \subseteq Names
  BY <1>1 DEF IInv, Linked, Typed
<1>7. UpdaterStands'
  BY <1>5 DEF UpdaterStands, SuccessIsCurrent, Updater
<1> QED BY <1>1, <1>3, <1>4, <1>5, <1>6, <1>7, UpdaterTurn

(* A step that ends neither in success nor where a tree must stand.        *)
LEMMA PlainStands ==
  ASSUME NEW step, step \notin {"merge", "merged", "health"}, step # "archive" \/ status' # "SUCCESS",
         NEW left, NEW pkg, upd' = Updater(step, left, pkg)
  PROVE  UpdaterStands'
  BY DEF UpdaterStands, SuccessIsCurrent, Updater

LEMMA FetchInv == ASSUME OtaAssumption, IInv, Fetch PROVE IInv'
<1>1. ins.pc = "off" /\ UNCHANGED <<dirs, current, jobs, ins>> /\ upd.pc = "fetch"
  BY UpdaterAlone DEF Fetch
<1>2. Linked' /\ DOMAIN dirs' \subseteq Names
  BY <1>1 DEF IInv, Linked, Typed
<1>3. PICK step \in {"extract", "archive"} : /\ upd' = Updater(step, upd.left, upd.pkg)
                                             /\ step = "archive" => status' = "FAILED"
  BY DEF Fetch, Goes, Ends
<1>4. UpdaterStands'
  BY <1>3, PlainStands
<1> QED BY <1>1, <1>2, <1>3, <1>4, UpdaterMoves

LEMMA ExtractInv == ASSUME OtaAssumption, IInv, Extract \/ Extracted PROVE IInv'
<1>1. ins.pc = "off" /\ UNCHANGED <<current, jobs, ins, status>> /\ upd.pc \in {"extract", "extracting"}
  BY UpdaterAlone DEF Extract, Extracted
<1>2. DOMAIN dirs' = DOMAIN dirs \cup {Staging}
  BY DEF Extract, Extracted, With
<1>3. Linked' /\ DOMAIN dirs' \subseteq Names
  BY <1>1, <1>2, UpdaterNames DEF IInv, Linked, Typed
<1>4. PICK step \in {"extracting", "base", "verify"} : upd' = Updater(step, upd.left, upd.pkg)
  BY DEF Extract, Extracted, Goes
<1>5. UpdaterStands'
  BY <1>4, PlainStands
<1> QED BY <1>1, <1>3, <1>4, <1>5, UpdaterMoves

LEMMA ExtractFailsInv == ASSUME OtaAssumption, IInv, ExtractFails \/ MergeFails PROVE IInv'
<1>1. ins.pc = "off" /\ UNCHANGED <<current, jobs, ins>> /\ upd.pc \notin {"off", "next"}
  BY UpdaterAlone DEF ExtractFails, MergeFails
<1>2. Fails({Staging}) \/ Fails({})
  BY DEF ExtractFails, MergeFails
<1> QED BY <1>1, <1>2, FailsInv

(* The merged tree is made beside the release it is made from.             *)
LEMMA CheckBaseInv == ASSUME OtaAssumption, IInv, CheckBase PROVE IInv'
<1>1. ins.pc = "off" /\ UNCHANGED <<current, jobs, ins>> /\ upd.pc = "base"
  BY UpdaterAlone DEF CheckBase
<1>2. CASE current = Release(upd.pkg.base)
  <2>1. upd' = Updater("merge", upd.left, upd.pkg) /\ DOMAIN dirs' = DOMAIN dirs \cup {Full}
    BY <1>2 DEF CheckBase, Goes, With
  <2>2. Linked' /\ DOMAIN dirs' \subseteq Names
    BY <1>1, <2>1, UpdaterNames DEF IInv, Linked, Typed
  <2>3. UpdaterStands'
    BY <1>1, <1>2, <2>1 DEF UpdaterStands, SuccessIsCurrent, Updater, Full, Release, Dir
  <2> QED BY <1>1, <2>1, <2>2, <2>3, UpdaterMoves
<1>3. CASE current # Release(upd.pkg.base)
  <2>1. Fails({Staging})
    BY <1>3 DEF CheckBase
  <2> QED BY <1>1, <2>1, FailsInv
<1> QED BY <1>2, <1>3

LEMMA MergeInv == ASSUME OtaAssumption, IInv, Merge PROVE IInv'
<1>1. ins.pc = "off" /\ UNCHANGED <<current, jobs, ins>> /\ upd.pc = "merge"
  BY UpdaterAlone DEF Merge
<1>2. upd' = Updater("merged", upd.left, upd.pkg) /\ DOMAIN dirs' = DOMAIN dirs \ {Staging}
  BY DEF Merge, Goes
<1>3. current.kind = "release" /\ Full \in DOMAIN dirs
  BY <1>1 DEF IInv, UpdaterStands
<1>4. Staging # current /\ Staging # Full
  BY <1>3 DEF Staging, Full, Dir
<1>5. Linked' /\ DOMAIN dirs' \subseteq Names
  BY <1>1, <1>2, <1>4 DEF IInv, Linked, Typed
<1>6. UpdaterStands'
  BY <1>1, <1>2, <1>3, <1>4 DEF UpdaterStands, SuccessIsCurrent, Updater, Full
<1> QED BY <1>1, <1>2, <1>5, <1>6, UpdaterMoves

LEMMA MergedInv == ASSUME OtaAssumption, IInv, Merged PROVE IInv'
<1>1. ins.pc = "off" /\ UNCHANGED <<current, jobs, ins, status>> /\ upd.pc = "merged"
  BY UpdaterAlone DEF Merged
<1>2. upd' = Updater("verify", upd.left, upd.pkg) /\ DOMAIN dirs' = (DOMAIN dirs \ {Full}) \cup {Staging}
  BY DEF Merged, Goes, Moved
<1>3. current.kind = "release"
  BY <1>1 DEF IInv, UpdaterStands
<1>4. Full # current
  BY <1>3 DEF Full, Dir
<1>5. Linked' /\ DOMAIN dirs' \subseteq Names
  BY <1>1, <1>2, <1>4, UpdaterNames DEF IInv, Linked, Typed
<1>6. UpdaterStands'
  BY <1>2, PlainStands
<1> QED BY <1>1, <1>2, <1>5, <1>6, UpdaterMoves

(* An installer begins, for the updater or for an operator.                *)
LEMMA RunInv ==
  ASSUME OtaAssumption, IInv, NEW op \in {"install", "rollback"}, NEW v \in Releases, Run(op, v),
         UNCHANGED <<dirs, current, jobs>>, UpdaterStands', Batch', upd'.pkg = upd.pkg,
         \/ op = "install" /\ upd'.pc = "install" /\ v = upd.pkg.ver /\ current # Release(v)
         \/ op = "rollback" /\ upd'.pc \in {"off", "rollback"}
  PROVE  IInv'
<1>1. /\ ins'.pc = (IF op = "install" THEN "stage" ELSE "choose") /\ ins'.op = op /\ ins'.ver = v
      /\ ins'.tree = current /\ ins'.doomed = {} /\ ins'.ok = FALSE
  BY DEF Run, Installer
<1>2. Typed' /\ Linked'
  BY <1>1 DEF IInv, Typed, Linked
<1>3. Turns'
  BY <1>1 DEF Turns
<1>4. InstallerStands'
  BY <1>1 DEF InstallerStands, Installing, ActivatedIsWhole, Target
<1> QED BY <1>2, <1>3, <1>4 DEF IInv

LEMMA VerifyInv == ASSUME OtaAssumption, IInv, Verify PROVE IInv'
<1>1. ins.pc = "off" /\ UNCHANGED <<current, jobs>> /\ upd.pc = "verify"
  BY UpdaterAlone DEF Verify
<1>2. CASE ~IsDowngrade /\ Run("install", upd.pkg.ver) /\ Goes("install") /\ UNCHANGED <<dirs, status>>
  <2>1. upd.pkg.ver \in Nat /\ upd.pkg.ver \in Releases /\ current.ver \in Nat
    BY PackageVersion DEF IInv, Typed, Linked, Names, OtaAssumption, Releases
  <2>2. current # Release(upd.pkg.ver)
    <3>1. upd.pkg.ver # current.ver
      BY <1>2, <2>1 DEF IsDowngrade
    <3> QED BY <3>1 DEF Release, Dir
  <2>3. upd'.pc = "install" /\ upd'.pkg = upd.pkg /\ upd'.left = upd.left
    BY <1>2 DEF Goes, Updater
  <2>4. UpdaterStands' /\ Batch'
    BY <1>1, <2>3 DEF UpdaterStands, SuccessIsCurrent, IInv, Batch
  <2> QED BY <1>1, <1>2, <2>1, <2>2, <2>3, <2>4, RunInv
<1>3. CASE (Fails({Staging}) \/ Fails({})) /\ UNCHANGED ins
  BY <1>1, <1>3, FailsInv
<1> QED BY <1>2, <1>3 DEF Verify

(* The installer reports success of the version it was asked for.          *)
LEMMA InstalledInv == ASSUME OtaAssumption, IInv, Installed PROVE IInv'
<1>1. upd.pc = "install" /\ ins.pc = "done" /\ ins' = NoInstaller /\ UNCHANGED <<current, jobs>>
  BY DEF Installed
<1>2. ins'.pc = "off"
  BY <1>1 DEF NoInstaller, Installer
<1>3. CASE ins.ok
  <2>1. upd' = Updater("health", upd.left, upd.pkg) /\ UNCHANGED <<dirs, status>>
    BY <1>3 DEF Installed, Goes
  <2>2. current = Release(upd.pkg.ver) /\ dirs[current].whole
    BY <1>1, <1>3 DEF IInv, Turns, InstallerStands, Target
  <2>3. Linked' /\ DOMAIN dirs' \subseteq Names
    BY <1>1, <2>1 DEF IInv, Linked, Typed
  <2>4. UpdaterStands'
    BY <1>1, <2>1, <2>2 DEF UpdaterStands, SuccessIsCurrent, Updater
  <2> QED BY <1>1, <1>2, <2>1, <2>3, <2>4, UpdaterMoves
<1>4. CASE ~ins.ok
  <2>1. Fails({Staging})
    BY <1>4 DEF Installed
  <2> QED BY <1>1, <1>2, <2>1, FailsInv
<1> QED BY <1>3, <1>4

LEMMA HealthyInv == ASSUME OtaAssumption, IInv, Healthy PROVE IInv'
<1>1. ins.pc = "off" /\ UNCHANGED <<dirs, current, jobs, ins>> /\ upd.pc = "health"
  BY UpdaterAlone DEF Healthy
<1>2. upd' = Updater("archive", upd.left, upd.pkg)
  BY DEF Healthy, Ends, Goes
<1>3. Linked' /\ DOMAIN dirs' \subseteq Names
  BY <1>1 DEF IInv, Linked, Typed
<1>4. UpdaterStands'
  BY <1>1, <1>2 DEF IInv, UpdaterStands, SuccessIsCurrent, Updater
<1> QED BY <1>1, <1>2, <1>3, <1>4, UpdaterMoves

LEMMA UnhealthyInv == ASSUME OtaAssumption, IInv, Unhealthy PROVE IInv'
<1>1. UNCHANGED <<dirs, current, jobs>> /\ upd.pc = "health" /\ Run("rollback", First) /\ First \in Releases
  BY DEF Unhealthy, OtaAssumption, Releases
<1>2. upd'.pc = "rollback" /\ upd'.pkg = upd.pkg /\ upd'.left = upd.left
  BY DEF Unhealthy, Goes, Updater
<1>3. UpdaterStands' /\ Batch'
  BY <1>1, <1>2 DEF UpdaterStands, SuccessIsCurrent, IInv, Batch
<1> QED BY <1>1, <1>2, <1>3, RunInv

LEMMA RolledBackInv == ASSUME OtaAssumption, IInv, UpdateRolledBack PROVE IInv'
<1>1. upd.pc = "rollback" /\ ins' = NoInstaller /\ UNCHANGED <<current, jobs>> /\ Fails({Staging})
  BY DEF UpdateRolledBack
<1>2. ins'.pc = "off"
  BY <1>1 DEF NoInstaller, Installer
<1> QED BY <1>1, <1>2, FailsInv

LEMMA OperatorInv == ASSUME OtaAssumption, IInv, OperatorRollsBack PROVE IInv'
<1>1. UNCHANGED <<dirs, current, jobs, upd, status>> /\ upd.pc = "off" /\ Run("rollback", First) /\ First \in Releases
  BY DEF OperatorRollsBack, OtaAssumption, Releases, InsOnly
<1>2. UpdaterStands' /\ Batch'
  BY <1>1 DEF UpdaterStands, SuccessIsCurrent, IInv, Batch
<1> QED BY <1>1, <1>2, RunInv

(* Killed, both scripts are gone; what they had done stays.                *)
LEMMA KillInv == ASSUME OtaAssumption, IInv, KillUpdate PROVE IInv'
<1>1. UNCHANGED <<dirs, current, jobs>> /\ upd' = Updater("off", 0, NoPackage) /\ ins' = NoInstaller
  BY DEF KillUpdate, NoUpdater
<1>2. ins'.pc = "off"
  BY <1>1 DEF NoInstaller, Installer
<1>3. jobs' \in Seq(JobFiles) /\ 0 \in 0..Len(jobs')
  BY <1>1 DEF IInv, Typed, Batch
<1>4. Linked' /\ DOMAIN dirs' \subseteq Names
  BY <1>1 DEF IInv, Linked, Typed
<1>5. UpdaterStands'
  BY <1>1, PlainStands
<1> QED BY <1>1, <1>2, <1>3, <1>4, <1>5, UpdaterTurn

-----------------------------------------------------------------------------
(* The installer has the turn while the updater, if any, waits for it.     *)
LEMMA InstallerMoves ==
  ASSUME OtaAssumption, IInv, InsOnly, ins.pc # "off",
         NEW step, step # "off", NEW tree \in Names, NEW ok, NEW doomed \in SUBSET Names,
         ins' = At(step, tree, ok, doomed), DOMAIN dirs' \subseteq Names, Linked', InstallerStands'
  PROVE  IInv'
<1>1. /\ ins'.pc = step /\ ins'.op = ins.op /\ ins'.ver = ins.ver
      /\ ins'.tree = tree /\ ins'.doomed = doomed /\ UNCHANGED <<jobs, upd, status>>
  BY DEF At, Installer, InsOnly
<1>2. Typed' /\ Batch'
  BY <1>1 DEF IInv, Typed, Batch
<1>3. Turns' /\ upd.pc \in {"install", "off", "rollback"}
  BY <1>1 DEF IInv, Turns
<1>4. UpdaterStands'
  BY <1>1, <1>3 DEF UpdaterStands, SuccessIsCurrent
<1> QED BY <1>2, <1>3, <1>4 DEF IInv

(* An installer that fails leaves nothing to promise but the link.         *)
LEMMA ExitsInv ==
  ASSUME OtaAssumption, IInv, InsOnly, ins.pc # "off", Exits(FALSE), DOMAIN dirs' \subseteq Names, Linked'
  PROVE  IInv'
<1>1. ins' = At("done", ins.tree, FALSE, {})
  BY DEF Exits
<1>2. ins'.pc = "done" /\ ins'.ok = FALSE
  BY <1>1 DEF At, Installer
<1>3. InstallerStands'
  BY <1>2 DEF InstallerStands, Installing, ActivatedIsWhole
<1>4. ins.tree \in Names /\ {} \in SUBSET Names
  BY DEF IInv, Typed
<1> QED BY <1>1, <1>3, <1>4, InstallerMoves

LEMMA InstallerNames == ASSUME Typed PROVE Target \in Names /\ Copy \in Names /\ Old \in Names
  BY NamesOf DEF Typed, Target, Copy, Old, Kinds

LEMMA Apart == ASSUME IInv PROVE /\ current # Copy /\ current # Old /\ Target # Copy /\ Target # Old /\ Copy # Old
  BY DEF IInv, Linked, Target, Copy, Old, Release, Dir

(* A step of the installer that goes on with the tree it has in hand.      *)
LEMMA StepsFields ==
  ASSUME NEW step, Steps(step)
  PROVE  /\ ins' = At(step, ins.tree, ins.ok, ins.doomed)
         /\ ins'.pc = step /\ ins'.op = ins.op /\ ins'.ver = ins.ver
         /\ ins'.tree = ins.tree /\ ins'.ok = ins.ok /\ ins'.doomed = ins.doomed
  BY DEF Steps, At, Installer

LEMMA StepsInv ==
  ASSUME OtaAssumption, IInv, InsOnly, ins.pc # "off", NEW step, step # "off", Steps(step),
         DOMAIN dirs' \subseteq Names, Linked', InstallerStands'
  PROVE  IInv'
<1>1. ins.tree \in Names /\ ins.doomed \in SUBSET Names
  BY DEF IInv, Typed
<1> QED BY <1>1, StepsFields, InstallerMoves

LEMMA DiesInv == ASSUME OtaAssumption, IInv, Dies PROVE IInv'
<1>1. InsOnly /\ ins.pc # "off" /\ Exits(FALSE) /\ UNCHANGED <<dirs, current>>
  BY DEF Dies
<1>2. Linked' /\ DOMAIN dirs' \subseteq Names
  BY <1>1 DEF IInv, Linked, Typed
<1> QED BY <1>1, <1>2, ExitsInv

LEMMA StageInv == ASSUME OtaAssumption, IInv, Stage PROVE IInv'
<1>1. InsOnly /\ ins.pc = "stage" /\ Steps("copy") /\ UNCHANGED current /\ DOMAIN dirs' = DOMAIN dirs \cup {Copy}
  BY DEF Stage, With
<1>2. Linked' /\ DOMAIN dirs' \subseteq Names
  BY <1>1, InstallerNames DEF IInv, Linked, Typed
<1>3. ins.op = "install" /\ current # Target
  BY <1>1 DEF IInv, InstallerStands, Installing
<1>4. InstallerStands'
  BY <1>1, <1>3, StepsFields DEF InstallerStands, Installing, ActivatedIsWhole, Target, Copy
<1> QED BY <1>1, <1>2, <1>4, StepsInv

LEMMA CopiedInv == ASSUME OtaAssumption, IInv, Copied PROVE IInv'
<1>1. InsOnly /\ ins.pc = "copy" /\ Steps("check") /\ UNCHANGED current
  BY DEF Copied
<1>2. ins.op = "install" /\ current # Target /\ Copy \in DOMAIN dirs
  BY <1>1 DEF IInv, InstallerStands, Installing
<1>3. DOMAIN dirs' = DOMAIN dirs
  BY <1>2 DEF Copied, With
<1>4. Linked' /\ DOMAIN dirs' \subseteq Names
  BY <1>1, <1>3 DEF IInv, Linked, Typed
<1>5. InstallerStands'
  BY <1>1, <1>2, <1>3, StepsFields DEF InstallerStands, Installing, ActivatedIsWhole, Target, Copy
<1> QED BY <1>1, <1>4, <1>5, StepsInv

(* Only a copy that the check found complete is published.                 *)
LEMMA CheckCopyInv == ASSUME OtaAssumption, IInv, CheckCopy PROVE IInv'
<1>1. InsOnly /\ ins.pc = "check" /\ UNCHANGED <<dirs, current>>
  BY DEF CheckCopy
<1>2. Linked' /\ DOMAIN dirs' \subseteq Names
  BY <1>1 DEF IInv, Linked, Typed
<1>3. CASE dirs[Copy].whole
  <2>1. Steps("publish")
    BY <1>3 DEF CheckCopy
  <2>2. ins.op = "install" /\ current # Target /\ Copy \in DOMAIN dirs
    BY <1>1 DEF IInv, InstallerStands, Installing
  <2>3. InstallerStands'
    BY <1>1, <1>3, <2>1, <2>2, StepsFields DEF InstallerStands, Installing, ActivatedIsWhole, Target, Copy
  <2> QED BY <1>1, <1>2, <2>1, <2>3, StepsInv
<1>4. CASE ~dirs[Copy].whole
  BY <1>1, <1>2, <1>4, ExitsInv DEF CheckCopy
<1> QED BY <1>3, <1>4

LEMMA PublishInv == ASSUME OtaAssumption, IInv, Publish PROVE IInv'
<1>1. InsOnly /\ ins.pc = "publish" /\ UNCHANGED current
  BY DEF Publish
<1>2. ins.op = "install" /\ current # Target /\ Copy \in DOMAIN dirs /\ dirs[Copy].whole
  BY <1>1 DEF IInv, InstallerStands, Installing
<1>3. CASE Target \in DOMAIN dirs
  <2>1. dirs' = Moved(Target, Old) /\ Steps("swap")
    BY <1>3 DEF Publish
  <2>2. DOMAIN dirs' = (DOMAIN dirs \ {Target}) \cup {Old} /\ dirs'[Copy].whole
    BY <1>2, <2>1, Apart DEF Moved
  <2>3. Linked' /\ DOMAIN dirs' \subseteq Names
    BY <1>1, <1>2, <2>2, InstallerNames DEF IInv, Linked, Typed
  <2>4. InstallerStands'
    BY <1>1, <1>2, <2>1, <2>2, StepsFields, Apart
       DEF InstallerStands, Installing, ActivatedIsWhole, Target, Copy
  <2> QED BY <1>1, <2>1, <2>3, <2>4, StepsInv
<1>4. CASE Target \notin DOMAIN dirs
  <2>1. dirs' = Moved(Copy, Target) /\ Steps("activate")
    BY <1>4 DEF Publish
  <2>2. DOMAIN dirs' = (DOMAIN dirs \ {Copy}) \cup {Target} /\ dirs'[Target].whole
    BY <1>2, <2>1 DEF Moved
  <2>3. Linked' /\ DOMAIN dirs' \subseteq Names
    BY <1>1, <2>2, InstallerNames, Apart DEF IInv, Linked, Typed
  <2>4. InstallerStands'
    BY <1>1, <1>2, <2>1, <2>2, StepsFields DEF InstallerStands, Installing, ActivatedIsWhole, Target
  <2> QED BY <1>1, <2>1, <2>3, <2>4, StepsInv
<1> QED BY <1>3, <1>4

LEMMA SwapInv == ASSUME OtaAssumption, IInv, Swap PROVE IInv'
<1>1. InsOnly /\ ins.pc = "swap" /\ UNCHANGED current
  BY DEF Swap
<1>2. ins.op = "install" /\ current # Target /\ Copy \in DOMAIN dirs /\ dirs[Copy].whole
  BY <1>1 DEF IInv, InstallerStands, Installing
<1>3. CASE /\ dirs' = [n \in (DOMAIN dirs \ {Copy, Old}) \cup {Target} |-> IF n = Target THEN dirs[Copy] ELSE dirs[n]]
           /\ Steps("activate")
  <2>1. DOMAIN dirs' = (DOMAIN dirs \ {Copy, Old}) \cup {Target} /\ dirs'[Target].whole
    BY <1>2, <1>3
  <2>2. Linked' /\ DOMAIN dirs' \subseteq Names
    BY <1>1, <2>1, InstallerNames, Apart DEF IInv, Linked, Typed
  <2>3. InstallerStands'
    BY <1>1, <1>2, <1>3, <2>1, StepsFields DEF InstallerStands, Installing, ActivatedIsWhole, Target
  <2> QED BY <1>1, <1>3, <2>2, <2>3, StepsInv
<1>4. CASE dirs' = Moved(Old, Target) /\ Exits(FALSE)
  <2>1. DOMAIN dirs' = (DOMAIN dirs \ {Old}) \cup {Target}
    BY <1>4 DEF Moved
  <2>2. Linked' /\ DOMAIN dirs' \subseteq Names
    BY <1>1, <2>1, InstallerNames, Apart DEF IInv, Linked, Typed
  <2> QED BY <1>1, <1>4, <2>2, ExitsInv
<1> QED BY <1>3, <1>4 DEF Swap

(* The link is moved to a complete tree; the one to go back to still is.   *)
LEMMA ActivateInv == ASSUME OtaAssumption, IInv, SwitchLink PROVE IInv'
<1>1. InsOnly /\ ins.pc = "activate" /\ UNCHANGED dirs /\ current' = Target
      /\ ins' = At("assert", current, ins.ok, ins.doomed)
  BY DEF SwitchLink
<1>2. ins.op = "install" /\ Target \in DOMAIN dirs /\ dirs[Target].whole
  BY <1>1 DEF IInv, InstallerStands, Installing
<1>3. /\ ins'.pc = "assert" /\ ins'.op = "install" /\ ins'.ver = ins.ver /\ ins'.tree = current
  BY <1>1, <1>2 DEF At, Installer
<1>4. Linked' /\ DOMAIN dirs' \subseteq Names
  BY <1>1, <1>2 DEF IInv, Linked, Typed, Target, Release, Dir
<1>5. InstallerStands'
  BY <1>1, <1>2, <1>3 DEF InstallerStands, Installing, ActivatedIsWhole, Target, IInv, Linked, Returns
<1>6. current \in Names /\ ins.doomed \in SUBSET Names
  BY DEF IInv, Linked, Typed
<1> QED BY <1>1, <1>4, <1>5, <1>6, InstallerMoves

LEMMA AssertUnitsInv == ASSUME OtaAssumption, IInv, AssertUnits PROVE IInv'
<1>1. InsOnly /\ ins.pc = "assert" /\ UNCHANGED dirs
  BY DEF AssertUnits
<1>2. ins.op = "install" /\ Returns /\ current = Target /\ dirs[current].whole
  BY <1>1 DEF IInv, InstallerStands, ActivatedIsWhole
<1>3. DOMAIN dirs' \subseteq Names
  BY <1>1 DEF IInv, Typed
<1>4. CASE Exits(FALSE) /\ (UNCHANGED current \/ current' = ins.tree)
  <2>1. Linked'
    BY <1>1, <1>2, <1>4 DEF IInv, Linked, Returns
  <2> QED BY <1>1, <1>3, <1>4, <2>1, ExitsInv
<1>5. CASE Steps("restart") /\ UNCHANGED current
  <2>1. Linked'
    BY <1>1, <1>5 DEF IInv, Linked
  <2>2. InstallerStands'
    BY <1>1, <1>2, <1>5, StepsFields DEF InstallerStands, Installing, ActivatedIsWhole, Target, Returns
  <2> QED BY <1>1, <1>3, <1>5, <2>1, <2>2, StepsInv
<1> QED BY <1>4, <1>5 DEF AssertUnits

LEMMA RestartInv == ASSUME OtaAssumption, IInv, Restart PROVE IInv'
<1>1. InsOnly /\ ins.pc \in {"restart", "undo"} /\ UNCHANGED <<dirs, current>>
  BY DEF Restart
<1>2. Linked' /\ DOMAIN dirs' \subseteq Names
  BY <1>1 DEF IInv, Linked, Typed
<1>3. CASE ins.pc = "restart"
  <2>1. Steps("probe")
    BY <1>3 DEF Restart
  <2>2. InstallerStands'
    BY <1>1, <1>3, <2>1, StepsFields
       DEF IInv, InstallerStands, Installing, ActivatedIsWhole, Target, Returns
  <2> QED BY <1>1, <1>2, <2>1, <2>2, StepsInv
<1>4. CASE ins.pc = "undo"
  BY <1>1, <1>2, <1>4, ExitsInv DEF Restart
<1> QED BY <1>1, <1>3, <1>4

LEMMA ExpiredIsNotCurrent == ASSUME IInv PROVE Expired \in SUBSET Names /\ current \notin Expired
  BY DEF IInv, Typed, Expired, Listed

(* Success begins the pruning; failure goes back to a tree that is there.  *)
LEMMA ProbeInv == ASSUME OtaAssumption, IInv, Probe PROVE IInv'
<1>1. InsOnly /\ ins.pc = "probe" /\ UNCHANGED dirs /\ ins.op \in {"install", "rollback"}
  BY DEF Probe, IInv, Turns
<1>2. DOMAIN dirs' \subseteq Names
  BY <1>1 DEF IInv, Typed
<1>3. ins.op = "install" => Returns /\ current = Target /\ dirs[current].whole
  BY <1>1 DEF IInv, InstallerStands, ActivatedIsWhole
<1>4. CASE ins.op = "install" /\ UNCHANGED current /\ ins' = At("prune", ins.tree, ins.ok, Expired)
  <2>1. ins'.pc = "prune" /\ ins'.op = "install" /\ ins'.ver = ins.ver /\ ins'.doomed = Expired
    BY <1>4 DEF At, Installer
  <2>2. Linked'
    BY <1>1, <1>4 DEF IInv, Linked
  <2>3. InstallerStands'
    BY <1>1, <1>3, <1>4, <2>1, ExpiredIsNotCurrent DEF InstallerStands, Installing, ActivatedIsWhole, Target
  <2>4. ins.tree \in Names
    BY DEF IInv, Typed
  <2> QED BY <1>1, <1>2, <1>4, <2>2, <2>3, <2>4, ExpiredIsNotCurrent, InstallerMoves
<1>5. CASE ins.op = "rollback" /\ UNCHANGED current /\ Exits(TRUE)
  <2>1. ins' = At("done", ins.tree, TRUE, {})
    BY <1>5 DEF Exits
  <2>2. ins'.pc = "done" /\ ins'.op = "rollback"
    BY <1>5, <2>1 DEF At, Installer
  <2>3. Linked'
    BY <1>1, <1>5 DEF IInv, Linked
  <2>4. InstallerStands'
    BY <2>2 DEF InstallerStands, Installing, ActivatedIsWhole
  <2>5. ins.tree \in Names /\ {} \in SUBSET Names
    BY DEF IInv, Typed
  <2> QED BY <1>1, <1>2, <2>1, <2>3, <2>4, <2>5, InstallerMoves
<1>6. CASE ins.op = "install" /\ current' = ins.tree /\ Steps("undo")
  <2>1. Linked'
    BY <1>1, <1>3, <1>6 DEF Linked, Returns
  <2>2. InstallerStands'
    BY <1>6, StepsFields DEF InstallerStands, Installing, ActivatedIsWhole
  <2> QED BY <1>1, <1>2, <1>6, <2>1, <2>2, StepsInv
<1>7. CASE ins.op = "rollback" /\ Exits(FALSE) /\ UNCHANGED current
  <2>1. Linked'
    BY <1>1, <1>7 DEF IInv, Linked
  <2> QED BY <1>1, <1>2, <1>7, <2>1, ExitsInv
<1> QED BY <1>1, <1>4, <1>5, <1>6, <1>7 DEF Probe

(* The tree that is taken apart is never the current one.                  *)
LEMMA PruneInv == ASSUME OtaAssumption, IInv, Prune PROVE IInv'
<1>1. InsOnly /\ ins.pc = "prune" /\ UNCHANGED current
  BY DEF Prune
<1>2. ins.op = "install" /\ current = Target /\ dirs[current].whole /\ current \notin ins.doomed
  BY <1>1 DEF IInv, InstallerStands, ActivatedIsWhole
<1>3. ins.doomed \subseteq Names /\ ins.tree \in Names
  BY DEF IInv, Typed
<1>4. CASE Exits(TRUE) /\ UNCHANGED dirs
  <2>1. ins' = At("done", ins.tree, TRUE, {})
    BY <1>4 DEF Exits
  <2>2. ins'.pc = "done" /\ ins'.op = "install" /\ ins'.ver = ins.ver
    BY <1>2, <2>1 DEF At, Installer
  <2>3. Linked' /\ DOMAIN dirs' \subseteq Names
    BY <1>1, <1>4 DEF IInv, Linked, Typed
  <2>4. InstallerStands'
    BY <1>1, <1>2, <1>4, <2>2 DEF InstallerStands, Installing, ActivatedIsWhole, Target
  <2>5. {} \in SUBSET Names
    OBVIOUS
  <2> QED BY <1>1, <1>3, <2>1, <2>3, <2>4, <2>5, InstallerMoves
<1>5. ASSUME NEW n \in ins.doomed, dirs' = With(n, FALSE, Now), ins' = At("remove", n, ins.ok, ins.doomed \ {n})
      PROVE  IInv'
  <2>1. DOMAIN dirs' = DOMAIN dirs \cup {n} /\ (\A m \in DOMAIN dirs : m # n => dirs'[m] = dirs[m])
    BY <1>5 DEF With
  <2>2. /\ ins'.pc = "remove" /\ ins'.op = "install" /\ ins'.ver = ins.ver /\ ins'.tree = n
        /\ ins'.doomed = ins.doomed \ {n}
    BY <1>2, <1>5 DEF At, Installer
  <2>3. Linked' /\ DOMAIN dirs' \subseteq Names
    BY <1>1, <1>3, <2>1 DEF IInv, Linked, Typed
  <2>4. InstallerStands'
    BY <1>1, <1>2, <2>1, <2>2 DEF InstallerStands, Installing, ActivatedIsWhole, Target, IInv, Linked
  <2>5. n \in Names /\ ins.doomed \ {n} \in SUBSET Names
    BY <1>3
  <2> QED BY <1>1, <1>5, <2>3, <2>4, <2>5, InstallerMoves
<1> QED BY <1>4, <1>5 DEF Prune

LEMMA RemoveInv == ASSUME OtaAssumption, IInv, Remove PROVE IInv'
<1>1. InsOnly /\ ins.pc = "remove" /\ UNCHANGED current /\ Steps("prune") /\ dirs' = Without({ins.tree})
  BY DEF Remove
<1>2. ins.op = "install" /\ current = Target /\ dirs[current].whole /\ current \notin ins.doomed /\ current # ins.tree
  BY <1>1 DEF IInv, InstallerStands, ActivatedIsWhole
<1>3. DOMAIN dirs' = DOMAIN dirs \ {ins.tree} /\ (\A m \in DOMAIN dirs' : dirs'[m] = dirs[m])
  BY <1>1 DEF Without
<1>4. Linked' /\ DOMAIN dirs' \subseteq Names
  BY <1>1, <1>2, <1>3 DEF IInv, Linked, Typed
<1>5. InstallerStands'
  BY <1>1, <1>2, <1>3, <1>4, StepsFields DEF InstallerStands, Installing, ActivatedIsWhole, Target, Linked
<1> QED BY <1>1, <1>4, <1>5, StepsInv

LEMMA ChooseInv == ASSUME OtaAssumption, IInv, Choose PROVE IInv'
<1>1. InsOnly /\ ins.pc = "choose" /\ UNCHANGED dirs
  BY DEF Choose
<1>2. ins.op = "rollback" /\ DOMAIN dirs' \subseteq Names
  BY <1>1 DEF IInv, InstallerStands, Typed
<1>3. CASE Others = {}
  <2>1. Exits(FALSE) /\ UNCHANGED current
    BY <1>3 DEF Choose
  <2>2. Linked'
    BY <1>1, <2>1 DEF IInv, Linked
  <2> QED BY <1>1, <1>2, <2>1, <2>2, ExitsInv
<1>4. CASE Others # {}
  <2>1. Steps("restart") /\ current' \in Listed
    BY <1>4 DEF Choose, Others
  <2>2. Linked'
    BY <1>1, <2>1 DEF Linked, Listed
  <2>3. InstallerStands'
    BY <1>2, <2>1, StepsFields DEF InstallerStands, Installing, ActivatedIsWhole
  <2> QED BY <1>1, <1>2, <2>1, <2>2, <2>3, StepsInv
<1> QED BY <1>3, <1>4

LEMMA OperatorDoneInv == ASSUME OtaAssumption, IInv, OperatorDone PROVE IInv'
<1>1. UNCHANGED <<dirs, current, jobs, upd, status>> /\ upd.pc = "off" /\ ins' = NoInstaller
  BY DEF OperatorDone, InsOnly
<1>2. /\ ins'.pc = "off" /\ ins'.ver \in Releases /\ ins'.tree \in Names /\ ins'.doomed = {}
  BY <1>1, NamesOf DEF NoInstaller, Installer, OtaAssumption, Releases
<1>3. Typed' /\ Batch' /\ Linked'
  BY <1>1, <1>2 DEF IInv, Typed, Batch, Linked
<1>4. Turns' /\ InstallerStands'
  BY <1>2 DEF Turns, InstallerStands, Installing, ActivatedIsWhole
<1>5. UpdaterStands'
  BY <1>1 DEF UpdaterStands, SuccessIsCurrent
<1> QED BY <1>3, <1>4, <1>5 DEF IInv

-----------------------------------------------------------------------------
LEMMA StutterInv == ASSUME IInv, UNCHANGED otaVars PROVE IInv'
<1>1. UNCHANGED <<dirs, current, jobs, upd, ins, status>>
  BY DEF otaVars
<1>2. Typed' /\ Batch' /\ Linked' /\ Turns'
  BY <1>1 DEF IInv, Typed, Batch, Linked, Turns
<1>3. UpdaterStands' /\ InstallerStands'
  BY <1>1 DEF IInv, UpdaterStands, SuccessIsCurrent, Full, InstallerStands, ActivatedIsWhole, Target, Copy, Returns
<1> QED BY <1>2, <1>3 DEF IInv

LEMMA NextInv == ASSUME OtaAssumption, IInv, [OtaNext]_otaVars PROVE IInv'
<1>1. CASE WebAsks \/ WebWrites
  BY <1>1, ConsoleInv
<1>2. CASE UpdaterStep
  <2>1. CASE Trigger \/ NextJob \/ Fetch \/ Extract \/ Extracted \/ ExtractFails \/ MergeFails
    BY <2>1, TriggerInv, NextJobInv, FetchInv, ExtractInv, ExtractFailsInv
  <2>2. CASE CheckBase \/ Merge \/ Merged \/ Verify \/ Installed
    BY <2>2, CheckBaseInv, MergeInv, MergedInv, VerifyInv, InstalledInv
  <2>3. CASE Healthy \/ Unhealthy \/ UpdateRolledBack \/ Archive
    BY <2>3, HealthyInv, UnhealthyInv, RolledBackInv, ArchiveInv
  <2> QED BY <1>2, <2>1, <2>2, <2>3 DEF UpdaterStep
<1>3. CASE InstallerStep
  <2>1. CASE Dies \/ Stage \/ Copied \/ CheckCopy \/ Publish \/ Swap \/ SwitchLink
    BY <2>1, DiesInv, StageInv, CopiedInv, CheckCopyInv, PublishInv, SwapInv, ActivateInv
  <2>2. CASE AssertUnits \/ Restart \/ Probe \/ Prune \/ Remove \/ Choose \/ OperatorDone
    BY <2>2, AssertUnitsInv, RestartInv, ProbeInv, PruneInv, RemoveInv, ChooseInv, OperatorDoneInv
  <2> QED BY <1>3, <2>1, <2>2 DEF InstallerStep
<1>4. CASE OperatorRollsBack
  BY <1>4, OperatorInv
<1>5. CASE KillUpdate
  BY <1>5, KillInv
<1>6. CASE UNCHANGED otaVars
  BY <1>6, StutterInv
<1> QED BY <1>1, <1>2, <1>3, <1>4, <1>5, <1>6 DEF OtaNext

(* Whatever is installed, fails or is killed, and in whatever order: the   *)
(* link names a directory that is there, what do_install has made current  *)
(* is complete, and an update that ota_status.json calls a success has     *)
(* left its own version current.  (An operator goes back only while no     *)
(* update is under way, as OperatorRollsBack has it.)                      *)
THEOREM CurrentStaysSound == OtaSpec => []CurrentIsSound
<1>1. OtaInit => IInv
  BY UpdateAssumption, InitInv
<1>2. IInv /\ [OtaNext]_otaVars => IInv'
  BY UpdateAssumption, NextInv
<1>3. IInv => CurrentIsSound
  BY DEF IInv, Linked, UpdaterStands, InstallerStands, CurrentIsSound, CurrentExists
<1> QED BY <1>1, <1>2, <1>3, PTL DEF OtaSpec
=============================================================================
