------------------------------ MODULE OtaUpdate ------------------------------
(***************************************************************************)
(* Updates over the air: the web console drops a job file, a path unit     *)
(* starts the updater (ttbox_ota_updater.py) as root, and that runs the    *)
(* installer (ttbox_release_install.sh) over the directories of            *)
(* /opt/ttbox/releases, the link "current" and the services.  Both may be  *)
(* killed, and power may fail, between any two steps.                      *)
(***************************************************************************)
EXTENDS Integers, Sequences, FiniteSets

CONSTANTS Packages,   \* what can be downloaded: ver, genuine, delta, base
          Fit,        \* what a version does: "works", "noproxy", "mute", "badunit", "nounits"
          First,      \* the release the box comes with
          Keep,       \* KEEP_VERSIONS
          MaxJobs, MaxUpdateKills, MaxUpdateFaults   \* bounds: jobs asked for, kills, failing calls

VARIABLES dirs,       \* /opt/ttbox/releases: directories, whether complete, and their age
          current,    \* the directory the link names
          serving,    \* the release the services were started from
          jobs,       \* job files in the order of their names; the last may not be written yet
          upd,        \* the updater: step, jobs of its batch left, package in hand
          ins,        \* the installer: step, command, target, exit status, the trees it prunes, and
                      \* the tree in hand: the one to go back to, or the one it removes
          status,     \* ota_status.json
          used        \* how much of each bound is used

OtaAssumption ==
  /\ DOMAIN Fit \subseteq Nat /\ First \in DOMAIN Fit
  /\ \A p \in Packages : p.ver \in DOMAIN Fit /\ p.base \in DOMAIN Fit
  /\ Keep \in Nat \ {0} /\ MaxJobs \in Nat /\ MaxUpdateKills \in Nat /\ MaxUpdateFaults \in Nat

ASSUME UpdateAssumption == OtaAssumption

otaVars == <<dirs, current, serving, jobs, upd, ins, status, used>>

Releases == DOMAIN Fit
Dir(v, kind) == [ver |-> v, kind |-> kind]
Release(v) == Dir(v, "release")

NoPackage == [ver |-> First, genuine |-> FALSE, delta |-> FALSE, base |-> First]
Updater(step, left, pkg) == [pc |-> step, left |-> left, pkg |-> pkg]
NoUpdater == Updater("off", 0, NoPackage)
Installer(step, op, v, tree, ok, doomed) ==
  [pc |-> step, op |-> op, ver |-> v, tree |-> tree, ok |-> ok, doomed |-> doomed]
NoInstaller == Installer("off", "install", First, Release(First), FALSE, {})

Tree(whole, at) == [whole |-> whole, at |-> at]

OtaInit == /\ dirs = [n \in {Release(First)} |-> Tree(TRUE, 1)]
           /\ current = Release(First)
           /\ serving = [ver |-> First, whole |-> TRUE]
           /\ jobs = <<>> /\ upd = NoUpdater /\ ins = NoInstaller
           /\ status = "none"
           /\ used = [jobs |-> 0, kills |-> 0, faults |-> 0]

Fault == used.faults < MaxUpdateFaults /\ used' = [used EXCEPT !.faults = @ + 1]

(* Directories. *)
With(n, whole, at) == [m \in DOMAIN dirs \cup {n} |-> IF m = n THEN Tree(whole, at) ELSE dirs[m]]
Without(names) == [m \in DOMAIN dirs \ names |-> dirs[m]]
Moved(from, to) == [m \in (DOMAIN dirs \ {from}) \cup {to} |-> IF m = to THEN dirs[from] ELSE dirs[m]]
Now == 1 + CHOOSE t \in {dirs[n].at : n \in DOMAIN dirs} : \A n \in DOMAIN dirs : dirs[n].at <= t

\* list_versions leaves out *.staging and *.old.*, by name; a tree that a merge
\* left behind, <ver>.ota.staging.full, is listed.
Listed == {n \in DOMAIN dirs : n.kind \in {"release", "full"}}
Newer(n) == {m \in Listed : dirs[m].at > dirs[n].at}
Expired == {n \in Listed \ {current} : Cardinality(Newer(n)) >= Keep}

\* What the services run after a restart.
Started == [ver |-> current.ver, whole |-> dirs[current].whole]
MayAnswer(fits) == ~serving.whole \/ Fit[serving.ver] \in fits
MayFail(fits) == ~serving.whole \/ Fit[serving.ver] \notin fits

-----------------------------------------------------------------------------
(* The web console: the job file is created, then written. *)

Job(p, written) == [pkg |-> p, written |-> written]

WebAsks == /\ used.jobs < MaxJobs
           /\ \E p \in Packages : jobs' = Append(jobs, Job(p, FALSE))
           /\ used' = [used EXCEPT !.jobs = @ + 1]
           /\ UNCHANGED <<dirs, current, serving, upd, ins, status>>

\* A file that was archived in the meantime is written where it is now.
WebWrites == /\ \E i \in DOMAIN jobs : ~jobs[i].written /\ jobs' = [jobs EXCEPT ![i] = Job(@.pkg, TRUE)]
             /\ UNCHANGED <<dirs, current, serving, upd, ins, status, used>>

-----------------------------------------------------------------------------
(* The updater: process_jobs and OtaUpdater.run *)

Goes(step) == upd' = Updater(step, upd.left, upd.pkg)
Ends(result) == status' = result /\ Goes("archive")
Fails(removed) == dirs' = Without(removed) /\ Ends("FAILED")
Staging == Dir(upd.pkg.ver, "ota")
Full == Dir(upd.pkg.ver, "full")

\* PathExistsGlob: the service is started as long as there is a job file (here
\* not while an operator goes back: nothing keeps the two apart).
Trigger == /\ upd.pc = "off" /\ ins.pc = "off" /\ jobs # <<>>
           /\ upd' = Updater("next", Len(jobs), NoPackage)
           /\ UNCHANGED <<dirs, current, serving, jobs, ins, status, used>>

\* A file without content is no job, and fails.
NextJob == /\ upd.pc = "next"
           /\ IF upd.left = 0 THEN upd' = NoUpdater /\ UNCHANGED status
              ELSE IF jobs[1].written
              THEN upd' = Updater("fetch", upd.left, jobs[1].pkg) /\ status' = "RUNNING"
              ELSE Ends("FAILED")
           /\ UNCHANGED <<dirs, current, serving, jobs, ins, used>>

\* The package and its signature, three attempts each, and both checks.
Fetch == /\ upd.pc = "fetch"
         /\ \/ upd.pkg.genuine /\ Goes("extract") /\ UNCHANGED <<status, used>>
            \/ ~upd.pkg.genuine /\ Ends("FAILED") /\ UNCHANGED used
            \/ Fault /\ Ends("FAILED")
         /\ UNCHANGED <<dirs, current, serving, jobs, ins>>

\* What a killed update left there is written over.
Extract == /\ upd.pc = "extract"
           /\ dirs' = With(Staging, FALSE, Now)
           /\ Goes("extracting")
           /\ UNCHANGED <<current, serving, jobs, ins, status, used>>

Extracted == /\ upd.pc = "extracting"
             /\ dirs' = With(Staging, TRUE, dirs[Staging].at)
             /\ Goes(IF upd.pkg.delta THEN "base" ELSE "verify")
             /\ UNCHANGED <<current, serving, jobs, ins, status, used>>

\* A package that is refused is removed; any other exception leaves it.
ExtractFails == /\ upd.pc = "extracting" /\ Fault
                /\ Fails({Staging}) \/ Fails({})
                /\ UNCHANGED <<current, serving, jobs, ins>>

\* A delta is merged with the release it was made from, if that is the current.
CheckBase == /\ upd.pc = "base"
             /\ IF current = Release(upd.pkg.base)
                THEN dirs' = With(Full, FALSE, Now) /\ Goes("merge") /\ UNCHANGED status
                ELSE Fails({Staging})
             /\ UNCHANGED <<current, serving, jobs, ins, used>>

Merge == /\ upd.pc = "merge"
         /\ dirs' = [n \in DOMAIN dirs \ {Staging} |->
                       IF n = Full THEN Tree(TRUE, dirs[n].at) ELSE dirs[n]]
         /\ Goes("merged")
         /\ UNCHANGED <<current, serving, jobs, ins, status, used>>

\* A file that neither tree has, or a full disk: the half of the merged tree stays.
MergeFails == /\ upd.pc = "merge" /\ Fault
              /\ Fails({Staging}) \/ Fails({})
              /\ UNCHANGED <<current, serving, jobs, ins>>

Merged == /\ upd.pc = "merged"
          /\ dirs' = Moved(Full, Staging)
          /\ Goes("verify")
          /\ UNCHANGED <<current, serving, jobs, ins, status, used>>

Run(op, v) == ins' = Installer(IF op = "install" THEN "stage" ELSE "choose", op, v, current, FALSE, {})

IsDowngrade == upd.pkg.ver <= current.ver

\* The hashes, the version, the permissions; then the installer.
Verify == /\ upd.pc = "verify"
          /\ \/ ~IsDowngrade /\ Run("install", upd.pkg.ver) /\ Goes("install")
                /\ UNCHANGED <<dirs, status, used>>
             \/ IsDowngrade /\ Fails({Staging}) /\ UNCHANGED <<ins, used>>
             \/ Fault /\ (Fails({Staging}) \/ Fails({})) /\ UNCHANGED ins
          /\ UNCHANGED <<current, serving, jobs>>

Installed == /\ upd.pc = "install" /\ ins.pc = "done"
             /\ ins' = NoInstaller
             /\ IF ins.ok THEN Goes("health") /\ UNCHANGED <<dirs, status>> ELSE Fails({Staging})
             /\ UNCHANGED <<current, serving, jobs, used>>

\* Three services and an answer of the core, of whatever version.
Healthy == /\ upd.pc = "health" /\ MayAnswer({"works"})
           /\ Ends("SUCCESS")
           /\ UNCHANGED <<dirs, current, serving, jobs, ins, used>>

Unhealthy == /\ upd.pc = "health"
             /\ (MayFail({"works"}) /\ UNCHANGED used) \/ Fault
             /\ Run("rollback", First) /\ Goes("rollback")
             /\ UNCHANGED <<dirs, current, serving, jobs, status>>

\* The exit status of the rollback is not looked at.
UpdateRolledBack == /\ upd.pc = "rollback" /\ ins.pc = "done"
                    /\ ins' = NoInstaller
                    /\ Fails({Staging})
                    /\ UNCHANGED <<current, serving, jobs, used>>

\* Mutant: a job that failed stays where it is.
ArchiveDone == /\ upd.pc = "archive"
               /\ jobs' = IF status = "SUCCESS" THEN Tail(jobs) ELSE jobs
               /\ upd' = Updater("next", upd.left - 1, NoPackage)
               /\ UNCHANGED <<dirs, current, serving, ins, status, used>>

Archive == /\ upd.pc = "archive"
           /\ jobs' = Tail(jobs)
           /\ upd' = Updater("next", upd.left - 1, NoPackage)
           /\ UNCHANGED <<dirs, current, serving, ins, status, used>>

-----------------------------------------------------------------------------
(* The installer, and `ttbox rollback` of an operator *)

At(step, tree, ok, doomed) == Installer(step, ins.op, ins.ver, tree, ok, doomed)
Steps(step) == ins' = At(step, ins.tree, ins.ok, ins.doomed)
Exits(ok) == ins' = At("done", ins.tree, ok, {})
Target == Release(ins.ver)
Copy == Dir(ins.ver, "staging")
Old == Dir(ins.ver, "old")
InsOnly == UNCHANGED <<jobs, upd, status>>

\* set -e: a command that fails ends the script where it is, but not in a
\* condition (the publishing mv, the assertions, the health check).
Dies == /\ ins.pc \in {"stage", "copy", "publish", "activate", "restart", "undo", "prune", "remove", "choose"}
        /\ Fault /\ Exits(FALSE)
        /\ InsOnly /\ UNCHANGED <<dirs, current, serving>>

\* tar keeps the age of the tree it copies.
Stage == /\ ins.pc = "stage"
         /\ dirs' = With(Copy, FALSE, dirs[Dir(ins.ver, "ota")].at)
         /\ Steps("copy")
         /\ InsOnly /\ UNCHANGED <<current, serving, used>>

\* tar's failure ends the script; damage it does not see is left to the hashes.
Copied == /\ ins.pc = "copy"
          /\ \/ dirs' = With(Copy, TRUE, dirs[Copy].at) /\ UNCHANGED used
             \/ UNCHANGED dirs /\ Fault
          /\ Steps("check")
          /\ InsOnly /\ UNCHANGED <<current, serving>>

\* Mutant: the copy is not verified.
TrustCopy == /\ ins.pc = "check"
             /\ Steps("publish")
             /\ InsOnly /\ UNCHANGED <<dirs, current, serving, used>>

CheckCopy == /\ ins.pc = "check"
             /\ IF dirs[Copy].whole THEN Steps("publish") ELSE Exits(FALSE)
             /\ InsOnly /\ UNCHANGED <<dirs, current, serving, used>>

\* A release of that version that is there already is moved out of the way.
Publish == /\ ins.pc = "publish"
           /\ IF Target \in DOMAIN dirs THEN dirs' = Moved(Target, Old) /\ Steps("swap")
                                        ELSE dirs' = Moved(Copy, Target) /\ Steps("activate")
           /\ InsOnly /\ UNCHANGED <<current, serving, used>>

Swap == /\ ins.pc = "swap"
        /\ \/ /\ dirs' = [n \in (DOMAIN dirs \ {Copy, Old}) \cup {Target} |->
                            IF n = Target THEN dirs[Copy] ELSE dirs[n]]
              /\ Steps("activate") /\ UNCHANGED used
           \/ Fault /\ dirs' = Moved(Old, Target) /\ Exits(FALSE)
        /\ InsOnly /\ UNCHANGED <<current, serving>>

\* ln beside the link, and a rename over it.
SwitchLink == /\ ins.pc = "activate"
              /\ current' = Target
              /\ ins' = At("assert", current, ins.ok, ins.doomed)
              /\ InsOnly /\ UNCHANGED <<dirs, serving, used>>

\* Units that cannot run switch back; a release without units ends the script.
AssertUnits == /\ ins.pc = "assert"
               /\ \/ Fit[ins.ver] = "nounits" /\ Exits(FALSE) /\ UNCHANGED current
                  \/ Fit[ins.ver] = "badunit" /\ Exits(FALSE) /\ current' = ins.tree
                  \/ Fit[ins.ver] \notin {"nounits", "badunit"} /\ Steps("restart") /\ UNCHANGED current
               /\ InsOnly /\ UNCHANGED <<dirs, serving, used>>

\* A restart that fails is left to the health check, and may leave what ran.
Restart == /\ ins.pc \in {"restart", "undo"}
           /\ \/ serving' = Started /\ UNCHANGED used
              \/ UNCHANGED serving /\ Fault
           /\ IF ins.pc = "restart" THEN Steps("probe") ELSE Exits(FALSE)
           /\ InsOnly /\ UNCHANGED <<dirs, current>>

\* The socket of the core, its answer to a ping, and the port of the console.
Probe == /\ ins.pc = "probe"
         /\ \/ /\ MayAnswer({"works", "noproxy"})
               /\ UNCHANGED <<current, used>>
               /\ IF ins.op = "install" THEN ins' = At("prune", ins.tree, ins.ok, Expired)
                                        ELSE Exits(TRUE)
            \/ /\ (MayFail({"works", "noproxy"}) /\ UNCHANGED used) \/ Fault
               /\ IF ins.op = "install" THEN current' = ins.tree /\ Steps("undo")
                                        ELSE Exits(FALSE) /\ UNCHANGED current
         /\ InsOnly /\ UNCHANGED <<dirs, serving>>

\* prune_versions: rm -rf takes a tree apart, which makes it the newest.
Prune == /\ ins.pc = "prune"
         /\ \/ /\ ins.doomed = {} /\ Exits(TRUE) /\ UNCHANGED dirs
            \/ \E n \in ins.doomed : dirs' = With(n, FALSE, Now) /\ ins' = At("remove", n, ins.ok, ins.doomed \ {n})
         /\ InsOnly /\ UNCHANGED <<current, serving, used>>

Remove == /\ ins.pc = "remove"
          /\ dirs' = Without({ins.tree})
          /\ Steps("prune")
          /\ InsOnly /\ UNCHANGED <<current, serving, used>>

\* do_rollback: the newest listed tree that is not the current one.
Others == Listed \ {current}
Choose == /\ ins.pc = "choose"
          /\ IF Others = {} THEN Exits(FALSE) /\ UNCHANGED current
             ELSE /\ \E n \in Others : Newer(n) \cap Others = {} /\ current' = n
                  /\ Steps("restart")
          /\ InsOnly /\ UNCHANGED <<dirs, serving, used>>

\* An operator goes back while no update is under way.
OperatorRollsBack == /\ ins.pc = "off" /\ upd.pc = "off" /\ jobs = <<>> /\ Fault
                     /\ Run("rollback", First)
                     /\ InsOnly /\ UNCHANGED <<dirs, current, serving>>

OperatorDone == /\ ins.pc = "done" /\ upd.pc = "off"
                /\ ins' = NoInstaller
                /\ InsOnly /\ UNCHANGED <<dirs, current, serving, used>>

-----------------------------------------------------------------------------
(* The unit's timeout or a signal ends both scripts; power loss ends the   *)
(* services too, which then start from the link, and the console.          *)
KillUpdate == /\ used.kills < MaxUpdateKills
              /\ \/ upd.pc # "off" /\ UNCHANGED serving
                 \/ current \in DOMAIN dirs /\ serving' = Started
              /\ upd' = NoUpdater /\ ins' = NoInstaller
              /\ used' = [used EXCEPT !.kills = @ + 1]
              /\ UNCHANGED <<dirs, current, jobs, status>>

UpdaterStep == \/ Trigger \/ NextJob \/ Fetch \/ Extract \/ Extracted \/ ExtractFails
               \/ CheckBase \/ Merge \/ MergeFails \/ Merged \/ Verify \/ Installed
               \/ Healthy \/ Unhealthy \/ UpdateRolledBack \/ Archive
InstallerStep == \/ Dies \/ Stage \/ Copied \/ CheckCopy \/ Publish \/ Swap \/ SwitchLink
                 \/ AssertUnits \/ Restart \/ Probe \/ Prune \/ Remove \/ Choose \/ OperatorDone
OtaNext == WebAsks \/ WebWrites \/ UpdaterStep \/ InstallerStep \/ OperatorRollsBack \/ KillUpdate

OtaFairness == WF_otaVars(UpdaterStep) /\ WF_otaVars(InstallerStep)
OtaSpec == OtaInit /\ [][OtaNext]_otaVars
OtaFairSpec == OtaSpec /\ OtaFairness

-----------------------------------------------------------------------------
(* The link always names a directory, whatever is killed or taken away.    *)
CurrentExists == current \in DOMAIN dirs

(* What the installer makes current is complete, whatever trees updates    *)
(* that were killed have left under the same names.                        *)
ActivatedIsWhole ==
  ins.op = "install" /\ ins.pc \in {"assert", "restart", "probe", "prune", "remove"} =>
    current = Target /\ dirs[current].whole

(* An update that reports success has left its version current, complete.  *)
SuccessIsCurrent ==
  upd.pc = "archive" /\ status = "SUCCESS" =>
    current = Release(upd.pkg.ver) /\ dirs[current].whole

CurrentIsSound == CurrentExists /\ ActivatedIsWhole /\ SuccessIsCurrent

(* Every job is dealt with and its outcome told, also after kills and      *)
(* power loss: the path unit does not start the updater for ever.          *)
UpdatesEnd == <>[](jobs = <<>> /\ upd.pc = "off" /\ ins.pc = "off" /\ status # "RUNNING")
=============================================================================
