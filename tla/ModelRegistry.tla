---------------------------- MODULE ModelRegistry ----------------------------
(***************************************************************************)
(* The model library on disk (core/src/model/ModelRegistry.cpp).  Every    *)
(* operation holds one mutex, so there is at most one operation under way  *)
(* (op); what interleaves with it is the death of the process between two  *)
(* file operations, an I/O error at any of them, and a file replaced       *)
(* behind the registry's back while no operation runs.                     *)
(*                                                                         *)
(* A model package is a directory with four facts: the content of          *)
(* model.rknn, the checksum its manifest records, whether the manifest has *)
(* the dimensions only a validation writes, and the checksum in            *)
(* validation/ok.json.  A checksum is the content it was computed from.    *)
(***************************************************************************)
EXTENDS Naturals, FiniteSets

CONSTANTS Ids,          \* model identifiers
          Contents,     \* contents of a model.rknn
          Loads,        \* the contents the RKNN validator can load
          Legacy,       \* identifiers that may start in the root layout
          MaxMishaps    \* bound: failed file operations, files replaced from
                        \* outside and deaths of the process, together

ASSUME RegistryAssumption ==
    /\ Loads \subseteq Contents /\ Legacy \subseteq Ids
    /\ {"none", "torn"} \cap Contents = {} /\ "" \notin Ids
    /\ MaxMishaps \in Nat

VARIABLES disk,      \* [Places -> [Ids -> Pack]]
          active,    \* model_id of registry/active.json, "" when there is none
          op,        \* the operation that holds the mutex
          done,      \* the answer of the last operation
          mishaps,   \* what is left of that bound
          passed,    \* history: contents the validator last passed, per id
          tampered,  \* history: ids whose files were replaced from outside
          dying,     \* history: ids whose removal has begun
          fresh,     \* history: ids published and not touched since
          faulty     \* history: a file operation has failed

disk_vars == <<disk, active>>
history   == <<passed, tampered, dying, fresh>>
luck      == <<mishaps, faulty>>
regVars   == <<disk, active, op, done, luck, history>>

Places == {"staging", "installed", "legacy"}
Kinds  == {"import", "validate", "install", "activate", "deactivate", "remove",
           "quarantine"}

Pack == [dir : BOOLEAN, rknn : Contents \cup {"none", "torn"},
         sha : Contents \cup {"none"}, dims : BOOLEAN, ok : Contents \cup {"none"}]
NoPack == [dir |-> FALSE, rknn |-> "none", sha |-> "none", dims |-> FALSE, ok |-> "none"]
Whole(c) == [dir |-> TRUE, rknn |-> c, sha |-> c, dims |-> TRUE, ok |-> c]

Idle == [kind |-> "none", id |-> "", pc |-> "idle", place |-> "staging", sha |-> "none"]
NoAnswer == [kind |-> "none", id |-> "", ok |-> FALSE]

Staged == disk["staging"][op.id]

\* model_dir_locked: the formal directory hides the root layout.
ModelPlace(id) == IF ~disk["installed"][id].dir /\ disk["legacy"][id].dir
                  THEN "legacy" ELSE "installed"
ModelPack(id) == disk[ModelPlace(id)][id]

\* sha256_file of a package and the manifest agree (a torn file has no known sum).
SumMatches(p) == p.sha # "none" /\ p.rknn = p.sha

\* build_record_locked leaves the package neither invalid nor failed.
Ready(p) == SumMatches(p) /\ p.dims

\* install's triple check: file, manifest and validation report.
Credential(p) == SumMatches(p) /\ p.ok = p.sha

RegInit ==
    /\ \E L \in SUBSET Legacy, c \in Loads :
          disk = [p \in Places |-> [i \in Ids |-> IF p = "legacy" /\ i \in L THEN Whole(c) ELSE NoPack]]
    /\ active = "" /\ op = Idle /\ done = NoAnswer
    /\ mishaps = MaxMishaps /\ faulty = FALSE
    /\ passed = [i \in Ids |-> {}] /\ fresh = {}
    /\ tampered = {} /\ dying = {}

-----------------------------------------------------------------------------
(* Steps shared by the operations. *)

At(kind, pc) == op.kind = kind /\ op.pc = pc
Goto(pc) == op' = [op EXCEPT !.pc = pc] /\ UNCHANGED done

\* The operation answers and gives the mutex back.
Answer(kind, id, ok) == op' = Idle /\ done' = [kind |-> kind, id |-> id, ok |-> ok]

\* One mishap less is left; a file operation that fails is remembered.
Mishap == mishaps > 0 /\ mishaps' = mishaps - 1
Fault == Mishap /\ faulty' = TRUE

Put(place, id, pack) == disk' = [disk EXCEPT ![place][id] = pack]

\* One file of a directory is gone; removing a file that is not there changes nothing.
Without(p, f) == CASE f = "rknn" -> [p EXCEPT !.rknn = "none"]
                   [] f = "man"  -> [p EXCEPT !.sha = "none", !.dims = FALSE]
                   [] f = "ok"   -> [p EXCEPT !.ok = "none"]

Empty(p) == p = [NoPack EXCEPT !.dir = TRUE]

\* remove_all deletes the entries one by one, in the directory's order, and
\* then the directory.
EraseFile(place) ==
    /\ disk[place][op.id].dir
    /\ \/ /\ ~Empty(disk[place][op.id])
          /\ \E f \in {"rknn", "man", "ok"} :
                /\ Without(disk[place][op.id], f) # disk[place][op.id]
                /\ Put(place, op.id, Without(disk[place][op.id], f))
       \/ Empty(disk[place][op.id]) /\ Put(place, op.id, NoPack)
    /\ UNCHANGED <<active, op, done, luck, history>>

Erased(place) == ~disk[place][op.id].dir

Start(kind, id, pc, place, sha) ==
    /\ op' = [kind |-> kind, id |-> id, pc |-> pc, place |-> place, sha |-> sha]
    /\ done' = NoAnswer

-----------------------------------------------------------------------------
(* import: refused while the id exists; replaces the staging directory. *)

ImportRefused(id) ==
    /\ disk["legacy"][id].dir \/ disk["installed"][id].dir
    /\ Answer("import", id, FALSE)
    /\ UNCHANGED <<disk_vars, luck, history>>

ImportBegin(id, c) ==
    /\ ~disk["legacy"][id].dir /\ ~disk["installed"][id].dir
    /\ Start("import", id, "clear", "staging", c)
    /\ fresh' = fresh \ {id}
    /\ tampered' = tampered \ {id} /\ dying' = dying \ {id}
    /\ UNCHANGED <<disk_vars, luck, passed>>

\* copy_file: fails when the source is gone, else the target is torn until the copy ends.
ImportCopy ==
    /\ At("import", "clear")
    /\ \/ Erased("staging") /\ UNCHANGED luck
       \/ ~Erased("staging") /\ Fault      \* remove_all's error is not looked at
    /\ Put("staging", op.id, [Staged EXCEPT !.dir = TRUE, !.rknn = "torn"])
    /\ Goto("copy") /\ UNCHANGED <<active, history>>

ImportSourceGone ==
    /\ At("import", "clear") /\ Erased("staging")
    /\ Answer("import", op.id, FALSE) /\ UNCHANGED <<disk_vars, luck, history>>

ImportCopied ==
    /\ At("import", "copy")
    /\ \/ /\ Put("staging", op.id, [Staged EXCEPT !.rknn = op.sha])
          /\ Goto("manifest") /\ UNCHANGED luck
       \/ Fault /\ Answer("import", op.id, FALSE) /\ UNCHANGED disk
    /\ UNCHANGED <<active, history>>

ImportManifest ==
    /\ At("import", "manifest")
    /\ \/ /\ Put("staging", op.id, [Staged EXCEPT !.sha = Staged.rknn, !.dims = FALSE])
          /\ Answer("import", op.id, TRUE) /\ UNCHANGED luck
       \/ Fault /\ Answer("import", op.id, FALSE) /\ UNCHANGED disk
    /\ UNCHANGED <<active, history>>

-----------------------------------------------------------------------------
(* validate: voids the old report, loads the model, writes the manifest and *)
(* last of all ok.json.                                                     *)

ValidateRefused(id) ==
    /\ ~SumMatches(disk["staging"][id])
    /\ Answer("validate", id, FALSE)
    /\ fresh' = fresh \ {id}
    /\ UNCHANGED <<disk_vars, luck, passed, tampered, dying>>

ValidateBegin(id) ==
    /\ SumMatches(disk["staging"][id])
    /\ Start("validate", id, "void", "staging", disk["staging"][id].sha)
    /\ fresh' = fresh \ {id}
    /\ UNCHANGED <<disk_vars, luck, passed, tampered, dying>>

\* A plausible bug: an old report is kept until the new one replaces it.
VoidNothing == At("validate", "void") /\ Goto("load") /\ UNCHANGED <<disk_vars, luck, history>>

\* The report of an earlier validation is withdrawn before the new one begins.
ValidateVoid ==
    /\ At("validate", "void")
    /\ Put("staging", op.id, [Staged EXCEPT !.ok = "none"])
    /\ Goto("load") /\ UNCHANGED <<active, luck, history>>

\* The NPU probe may fail on a model that loads (memory, driver).
ValidateLoad ==
    /\ At("validate", "load")
    /\ \/ /\ Staged.rknn \in Loads /\ Goto("manifest")
          /\ passed' = [passed EXCEPT ![op.id] = @ \cup {Staged.rknn}]
       \/ /\ Answer("validate", op.id, FALSE)
          /\ passed' = [passed EXCEPT ![op.id] = @ \ {Staged.rknn}]
    /\ UNCHANGED <<disk_vars, luck, tampered, dying, fresh>>

ValidateManifest ==
    /\ At("validate", "manifest")
    /\ \/ /\ Put("staging", op.id, [Staged EXCEPT !.sha = op.sha, !.dims = TRUE])
          /\ Goto("report") /\ UNCHANGED luck
       \/ Fault /\ Answer("validate", op.id, FALSE) /\ UNCHANGED disk
    /\ UNCHANGED <<active, history>>

ValidateReport ==
    /\ At("validate", "report")
    /\ \/ /\ Put("staging", op.id, [Staged EXCEPT !.ok = op.sha])
          /\ Answer("validate", op.id, TRUE) /\ UNCHANGED luck
       \/ Fault /\ Answer("validate", op.id, FALSE) /\ UNCHANGED disk
    /\ UNCHANGED <<active, history>>

-----------------------------------------------------------------------------
(* install: assembled under cache/, published by one rename. *)

InstallRefused(id) ==
    /\ \/ ~Credential(disk["staging"][id])
       \/ disk["installed"][id].dir /\ disk["installed"][id].sha # disk["staging"][id].sha
    /\ Answer("install", id, FALSE)
    /\ UNCHANGED <<disk_vars, luck, history>>

\* The same package is there already: a repeated request succeeds.
InstallReplay(id) ==
    /\ Credential(disk["staging"][id])
    /\ disk["installed"][id].dir /\ disk["installed"][id].sha = disk["staging"][id].sha
    /\ Answer("install", id, TRUE)
    /\ UNCHANGED <<disk_vars, luck, history>>

InstallBegin(id) ==
    /\ Credential(disk["staging"][id]) /\ ~disk["installed"][id].dir
    /\ Start("install", id, "assemble", "installed", "none")
    /\ UNCHANGED <<disk_vars, luck, history>>

\* Copies into cache/.installing_<id>_<ms>, which nothing else reads.
InstallAssemble ==
    /\ At("install", "assemble")
    /\ \/ Goto("publish") /\ UNCHANGED luck
       \/ Fault /\ Answer("install", op.id, FALSE)
    /\ UNCHANGED <<disk_vars, history>>

InstallPublish ==
    /\ At("install", "publish")
    /\ \/ /\ Put("installed", op.id, Staged) /\ Goto("refresh")
          /\ fresh' = fresh \cup {op.id} /\ UNCHANGED luck
       \/ Fault /\ Answer("install", op.id, FALSE) /\ UNCHANGED <<disk, fresh>>
    /\ UNCHANGED <<active, passed, tampered, dying>>

InstallAnswered ==
    /\ At("install", "refresh")
    /\ Answer("install", op.id, TRUE) /\ UNCHANGED <<disk_vars, luck, history>>

-----------------------------------------------------------------------------
(* activate and deactivate. *)

ActivateRefused(id) ==
    /\ ~Ready(ModelPack(id))
    /\ Answer("activate", id, FALSE) /\ UNCHANGED <<disk_vars, luck, history>>

ActivateBegin(id) ==
    /\ Ready(ModelPack(id))
    /\ Start("activate", id, "probe", ModelPlace(id), "none")
    /\ UNCHANGED <<disk_vars, luck, history>>

\* The installed file is loaded for real: a report copied at install is not enough.
ActivateProbe ==
    /\ At("activate", "probe")
    /\ \/ disk[op.place][op.id].rknn \in Loads /\ Goto("select")
       \/ Answer("activate", op.id, FALSE)
    /\ UNCHANGED <<disk_vars, luck, history>>

\* A failed write leaves the old selection, or none when both renames fail.
ActivateSelect ==
    /\ At("activate", "select")
    /\ \/ active' = op.id /\ Answer("activate", op.id, TRUE) /\ UNCHANGED luck
       \/ Fault /\ Answer("activate", op.id, FALSE) /\ active' \in {active, ""}
    /\ UNCHANGED <<disk, history>>

Deactivate ==
    /\ \/ active' = "" /\ Answer("deactivate", "", TRUE) /\ UNCHANGED luck
       \/ Fault /\ Answer("deactivate", "", FALSE) /\ active' \in {active, ""}
    /\ UNCHANGED <<disk, history>>

-----------------------------------------------------------------------------
(* remove: never the active model; then the copy left in staging. *)

RemoveRefused(id) ==
    /\ active = id \/ ~ModelPack(id).dir
    /\ Answer("remove", id, FALSE) /\ UNCHANGED <<disk_vars, luck, history>>

\* A plausible bug: the selection is not looked at.
RemoveAny(id) ==
    /\ ModelPack(id).dir
    /\ Start("remove", id, "erase", ModelPlace(id), "none")
    /\ dying' = dying \cup {id} /\ fresh' = fresh \ {id}
    /\ UNCHANGED <<disk_vars, luck, passed, tampered>>

RemoveBegin(id) ==
    /\ active # id /\ ModelPack(id).dir
    /\ Start("remove", id, "erase", ModelPlace(id), "none")
    /\ dying' = dying \cup {id} /\ fresh' = fresh \ {id}
    /\ UNCHANGED <<disk_vars, luck, passed, tampered>>

RemoveErased ==
    /\ At("remove", "erase")
    /\ \/ Erased(op.place) /\ Goto("sweep") /\ UNCHANGED luck
       \/ ~Erased(op.place) /\ Fault /\ Answer("remove", op.id, FALSE)
    /\ UNCHANGED <<disk_vars, history>>

\* The error of this second remove_all is not looked at.
RemoveSwept ==
    /\ At("remove", "sweep")
    /\ (Erased("staging") /\ UNCHANGED luck) \/ (~Erased("staging") /\ Fault)
    /\ Answer("remove", op.id, TRUE)
    /\ UNCHANGED <<disk_vars, history>>

Erase ==
    \/ At("import", "clear") /\ EraseFile("staging")
    \/ At("remove", "erase") /\ EraseFile(op.place)
    \/ At("remove", "sweep") /\ EraseFile("staging")

\* quarantine: the staging directory is moved away, by rename or by copy and
\* delete; nothing reads the quarantine.
Quarantine(id) ==
    /\ disk["staging"][id].rknn # "none"
    /\ Put("staging", id, NoPack)
    /\ \/ Answer("quarantine", id, TRUE) /\ UNCHANGED luck
       \/ Fault /\ Answer("quarantine", id, FALSE)       \* reason.json not written
    /\ fresh' = fresh \ {id}
    /\ UNCHANGED <<active, passed, tampered, dying>>

-----------------------------------------------------------------------------
(* The whole of it. *)

\* A request that got the mutex.
Request ==
    /\ op.pc = "idle"
    /\ \/ \E id \in Ids :
            \/ ImportRefused(id) \/ (\E c \in Contents : ImportBegin(id, c))
            \/ ValidateRefused(id) \/ ValidateBegin(id)
            \/ InstallRefused(id) \/ InstallReplay(id) \/ InstallBegin(id)
            \/ ActivateRefused(id) \/ ActivateBegin(id)
            \/ RemoveRefused(id) \/ RemoveBegin(id) \/ Quarantine(id)
       \/ Deactivate

\* The steps of the operation under way.
Step ==
    \/ Erase \/ ImportCopy \/ ImportSourceGone \/ ImportCopied \/ ImportManifest
    \/ ValidateVoid \/ ValidateLoad \/ ValidateManifest \/ ValidateReport
    \/ InstallAssemble \/ InstallPublish \/ InstallAnswered
    \/ ActivateProbe \/ ActivateSelect \/ RemoveErased \/ RemoveSwept

\* The process dies between two file operations; init only scans the disk.
Crash ==
    /\ Mishap /\ UNCHANGED faulty
    /\ op' = Idle /\ done' = NoAnswer
    /\ UNCHANGED <<disk_vars, history>>

\* A model file is replaced from outside, while no operation runs.
Tamper ==
    /\ op.pc = "idle" /\ Mishap /\ UNCHANGED faulty
    /\ \E p \in {"staging", "installed"}, id \in Ids, c \in Contents :
          /\ disk[p][id].rknn \notin {"none", c}
          /\ Put(p, id, [disk[p][id] EXCEPT !.rknn = c])
          /\ tampered' = IF p = "installed" THEN tampered \cup {id} ELSE tampered
          /\ fresh' = fresh \ {id}
    /\ UNCHANGED <<active, op, done, passed, dying>>

-----------------------------------------------------------------------------
\* What active.json names can be run: unless its file was replaced from
\* outside, the package is complete and is one the validator loads, whatever
\* operations, I/O errors and crashes led there (ModelRegistry.cpp:769, :829).
ActiveIsUsable ==
    active # "" /\ active \notin tampered =>
        Ready(ModelPack(active)) /\ ModelPack(active).rknn \in Loads

\* An installed directory is a complete, checked package or is not there,
\* unless its removal has begun (the two states of the comment at
\* ModelRegistry.cpp:685).  Its manifest has the dimensions too, as long as no
\* file operation failed: an import over a staging directory it could not
\* clear keeps the old report beside a manifest without them.
InstalledIsWhole ==
    \A id \in Ids \ (dying \cup tampered) :
        disk["installed"][id].dir =>
            /\ Credential(disk["installed"][id])
            /\ ~faulty => Ready(disk["installed"][id])

\* What is selected and what is installed are whole.
PackagesAreWhole == ActiveIsUsable /\ InstalledIsWhole

\* Only a content whose latest load by the validator succeeded is published:
\* a failed validation, a replaced file or a crash in between never lets an
\* older report through (ModelRegistry.cpp:498, :609).
OnlyPassedIsPublished ==
    [][\A id \in Ids :
          disk'["installed"][id].dir /\ ~disk["installed"][id].dir
              => disk'["installed"][id].rknn \in passed[id]]_regVars

\* An install whose answer was lost, to the network or to a crash after the
\* rename, can be asked again: the repetition is answered OK
\* (ModelRegistry.cpp:645).
RepeatedInstallSucceeds ==
    \A id \in fresh : ~(done.kind = "install" /\ done.id = id /\ ~done.ok)

\* What is selected and what is installed are whole, and an install can be
\* repeated, through failed file operations and deaths.
LibraryIsSound == PackagesAreWhole /\ RepeatedInstallSucceeds
=============================================================================
