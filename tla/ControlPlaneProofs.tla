------------------------- MODULE ControlPlaneProofs -------------------------
(***************************************************************************)
(* What the control plane promises, for every set of identifiers, contents *)
(* and connections, and any number of requests, failed file operations,    *)
(* tampered files and deaths of the process.  The library is kept by the   *)
(* steps of the operation that holds the mutex: the invariant says what    *)
(* each has established where it stands, and what of that a death leaves.  *)
(***************************************************************************)
EXTENDS ControlPlane, ConfigStore, FiniteSetTheorems, TLAPS

Labels == {"idle", "clear", "copy", "manifest", "void", "load", "report", "assemble", "publish", "refresh",
           "probe", "select", "erase", "sweep"}
Ops == [kind : Kinds \cup {"none"}, id : Ids \cup {""}, pc : Labels, place : Places, sha : Contents \cup {"none"}]

RegTyped ==
  /\ disk \in [Places -> [Ids -> Pack]]
  /\ active \in Ids \cup {""} /\ op \in Ops
  /\ passed \in [Ids -> SUBSET Contents]

(* What is not there is nothing, and an identifier of the root layout has  *)
(* no other copy.                                                          *)
DirsSound ==
  \A id \in Ids :
    /\ ~disk["installed"][id].dir => disk["installed"][id] = NoPack
    /\ ~disk["legacy"][id].dir => disk["legacy"][id] = NoPack
    /\ ~disk["staging"][id].dir => disk["staging"][id] = NoPack
    /\ disk["legacy"][id].dir => disk["staging"][id] = NoPack /\ ~disk["installed"][id].dir

(* A report in staging is of a content that passed, beside a manifest with *)
(* dimensions unless a file operation has failed.                          *)
StagingSound ==
  \A id \in Ids :
    LET p == disk["staging"][id]
    IN p.ok # "none" => /\ p.ok \in passed[id]
                        /\ ~faulty /\ p.sha # "none" => p.dims

(* What was published is still what an install would publish.              *)
FreshSound ==
  \A id \in fresh \cap Ids :
    /\ disk["installed"][id].dir /\ Credential(disk["staging"][id])
    /\ disk["installed"][id].sha = disk["staging"][id].sha

(* What is selected is there.                                              *)
ActiveSound == active # "" => ModelPack(active).dir

(* What the operation under way has established.                           *)
ImportStands ==
  op.kind = "import" =>
    /\ op.sha \in Contents /\ op.id \notin fresh
    /\ ~disk["legacy"][op.id].dir /\ ~disk["installed"][op.id].dir
    /\ op.pc \in {"copy", "manifest"} => Staged.dir /\ (~faulty => Staged.ok = "none")
    /\ op.pc = "manifest" => Staged.rknn = op.sha
ValidateStands ==
  op.kind = "validate" =>
    /\ SumMatches(Staged) /\ op.sha = Staged.sha /\ op.id \notin fresh
    /\ op.pc \in {"load", "manifest", "report"} => Staged.ok = "none"
    /\ op.pc \in {"manifest", "report"} => Staged.rknn \in passed[op.id]
    /\ op.pc = "report" => Staged.dims
InstallStands ==
  op.kind = "install" /\ op.pc \in {"assemble", "publish"} =>
    Credential(Staged) /\ ~disk["installed"][op.id].dir
ActivateStands ==
  op.kind = "activate" =>
    /\ op.place = ModelPlace(op.id) /\ Ready(ModelPack(op.id))
    /\ op.pc = "select" => ModelPack(op.id).rknn \in Loads
RemoveStands ==
  op.kind = "remove" =>
    active # op.id /\ op.id \in dying /\ op.id \notin fresh /\ op.place \in {"installed", "legacy"}

OpStands ==
  op.pc # "idle" =>
    /\ op.id \in Ids /\ done = NoAnswer
    /\ ImportStands /\ ValidateStands /\ InstallStands /\ ActivateStands /\ RemoveStands

RegInv == /\ RegTyped /\ DirsSound /\ StagingSound /\ FreshSound /\ ActiveSound /\ OpStands
          /\ ActiveIsUsable /\ InstalledIsWhole /\ RepeatedInstallSucceeds

-----------------------------------------------------------------------------
LEMMA NoPackIs == /\ NoPack \in Pack /\ NoPack.dir = FALSE /\ NoPack.rknn = "none" /\ NoPack.sha = "none"
                  /\ NoPack.dims = FALSE /\ NoPack.ok = "none" /\ ~Credential(NoPack) /\ ~Ready(NoPack)
  BY DEF NoPack, Pack, Credential, Ready, SumMatches

LEMMA IdleIs == Idle \in Ops /\ Idle.pc = "idle"
<1>1. Idle.kind \in Kinds \cup {"none"} /\ Idle.pc \in Labels /\ Idle.pc = "idle"
  BY DEF Idle, Labels
<1>2. Idle.id \in Ids \cup {""} /\ Idle.place \in Places /\ Idle.sha \in Contents \cup {"none"}
  BY DEF Idle, Places
<1>3. Idle = [kind |-> Idle.kind, id |-> Idle.id, pc |-> Idle.pc, place |-> Idle.place, sha |-> Idle.sha]
  BY DEF Idle
<1> QED BY <1>1, <1>2, <1>3 DEF Ops

LEMMA PlacesAre == Places = {"staging", "installed", "legacy"}
  BY DEF Places

LEMMA DiskIs == ASSUME RegTyped PROVE \A id \in Ids : disk["staging"][id] \in Pack
<1>1. disk \in [Places -> [Ids -> Pack]] /\ "staging" \in Places
  BY PlacesAre DEF RegTyped
<1>2. disk["staging"] \in [Ids -> Pack]
  BY <1>1
<1> QED BY <1>2

LEMMA RegInitInv == ASSUME RegInit PROVE RegInv
<1>1. PICK L \in SUBSET Legacy, c \in Loads :
        disk = [p \in Places |-> [i \in Ids |-> IF p = "legacy" /\ i \in L THEN Whole(c) ELSE NoPack]]
  BY DEF RegInit
<1>2. /\ Whole(c) \in Pack /\ Whole(c).dir
  BY RegistryAssumption DEF Whole, Pack
<1>3. \A p \in Places, i \in Ids : disk[p][i] = IF p = "legacy" /\ i \in L THEN Whole(c) ELSE NoPack
  BY <1>1
<1>4. disk \in [Places -> [Ids -> Pack]]
  BY <1>1, <1>2, NoPackIs
<1>5. active = "" /\ op = Idle /\ done = NoAnswer /\ fresh = {} /\ passed = [i \in Ids |-> {}]
  BY DEF RegInit
<1>6. RegTyped
  BY <1>4, <1>5, IdleIs DEF RegTyped
<1>7. DirsSound /\ StagingSound /\ InstalledIsWhole
  BY <1>2, <1>3, NoPackIs, PlacesAre DEF DirsSound, StagingSound, InstalledIsWhole
<1>8. FreshSound /\ ActiveSound /\ OpStands /\ ActiveIsUsable /\ RepeatedInstallSucceeds
  BY <1>5, IdleIs DEF FreshSound, ActiveSound, OpStands, ActiveIsUsable, RepeatedInstallSucceeds
<1> QED BY <1>6, <1>7, <1>8 DEF RegInv

(* One package of one place is replaced.                                   *)
LEMMA PutIs ==
  ASSUME RegTyped, NEW place \in Places, NEW id \in Ids, NEW p \in Pack, Put(place, id, p)
  PROVE  /\ disk' \in [Places -> [Ids -> Pack]] /\ disk'[place][id] = p
         /\ \A q \in Places, i \in Ids : q # place \/ i # id => disk'[q][i] = disk[q][i]
  BY DEF RegTyped, Put

(* An answer that changes nothing else.                                    *)
LEMMA AnswerIs ==
  ASSUME NEW kind, NEW id, NEW ok, Answer(kind, id, ok)
  PROVE  /\ op' = Idle /\ op' \in Ops /\ op'.pc = "idle"
         /\ done'.kind = kind /\ done'.id = id /\ done'.ok = ok
         /\ OpStands'
  BY IdleIs DEF Answer, OpStands

(* A step of the operation, which stays the same one.                      *)
LEMMA GotoIs ==
  ASSUME RegTyped, NEW label \in Labels, Goto(label)
  PROVE  /\ op' \in Ops /\ op'.pc = label /\ UNCHANGED done
         /\ op'.kind = op.kind /\ op'.id = op.id /\ op'.place = op.place /\ op'.sha = op.sha
  BY DEF RegTyped, Goto, Ops

(* An operation begins.                                                    *)
LEMMA StartIs ==
  ASSUME NEW kind \in Kinds, NEW id \in Ids, NEW label \in Labels, NEW place \in Places,
         NEW sha \in Contents \cup {"none"}, Start(kind, id, label, place, sha)
  PROVE  /\ op' \in Ops /\ op'.kind = kind /\ op'.id = id /\ op'.pc = label /\ op'.place = place
         /\ op'.sha = sha /\ done' = NoAnswer
  BY DEF Start, Ops

(* What no step of the operation may forget: here the disk stays.          *)
LEMMA QuietInv ==
  ASSUME RegInv, UNCHANGED <<disk, active, passed, tampered, dying>>, fresh' \subseteq fresh,
         faulty' = faulty \/ faulty' = TRUE, op' \in Ops, OpStands', RepeatedInstallSucceeds'
  PROVE  RegInv'
<1>1. RegTyped' /\ DirsSound'
  BY DEF RegInv, RegTyped, DirsSound
<1>2. StagingSound' /\ FreshSound'
  BY DEF RegInv, StagingSound, FreshSound
<1>3. InstalledIsWhole'
  BY DEF RegInv, InstalledIsWhole
<1>4. ActiveSound' /\ ActiveIsUsable'
  BY DEF RegInv, ActiveSound, ActiveIsUsable, ModelPack, ModelPlace
<1> QED BY <1>1, <1>2, <1>3, <1>4 DEF RegInv

LEMMA FaultIs == ASSUME UNCHANGED luck \/ Fault PROVE faulty' = faulty \/ faulty' = TRUE
  BY DEF luck, Fault

(* An answer that is no refused install.                                   *)
LEMMA RefusedInv ==
  ASSUME RegInv, UNCHANGED <<disk, active, passed, tampered, dying>>, fresh' \subseteq fresh,
         UNCHANGED luck \/ Fault, NEW kind, NEW id, NEW ok, Answer(kind, id, ok),
         kind = "install" /\ ~ok => id \notin fresh
  PROVE  RegInv'
<1>1. op' \in Ops /\ OpStands' /\ RepeatedInstallSucceeds'
  BY AnswerIs DEF RepeatedInstallSucceeds
<1> QED BY <1>1, FaultIs, QuietInv

(* No answer stands while an operation is under way.                       *)
LEMMA NoAnswerIs == ASSUME done' = NoAnswer PROVE RepeatedInstallSucceeds'
  BY DEF RepeatedInstallSucceeds, NoAnswer

LEMMA BeginInv ==
  ASSUME RegInv, UNCHANGED <<disk, active, passed, tampered, dying>>, fresh' \subseteq fresh, UNCHANGED luck,
         op' \in Ops, op'.id \in Ids, done' = NoAnswer,
         ImportStands', ValidateStands', InstallStands', ActivateStands', RemoveStands'
  PROVE  RegInv'
<1>1. OpStands' /\ RepeatedInstallSucceeds'
  BY NoAnswerIs DEF OpStands
<1> QED BY <1>1, FaultIs, QuietInv

(* A package in staging is replaced.                                       *)
LEMMA StagingInv ==
  ASSUME RegInv, NEW id \in Ids, NEW p \in Pack, Put("staging", id, p),
         UNCHANGED <<active, passed, tampered, dying>>, fresh' \subseteq fresh, id \notin fresh',
         faulty' = faulty \/ faulty' = TRUE,
         disk["legacy"][id].dir \/ ~p.dir => p = NoPack,
         p.ok # "none" => p.ok \in passed[id] /\ (~faulty' /\ p.sha # "none" => p.dims),
         op' \in Ops, OpStands', RepeatedInstallSucceeds'
  PROVE  RegInv'
<1>1. /\ disk' \in [Places -> [Ids -> Pack]] /\ disk'["staging"][id] = p
      /\ \A q \in Places, i \in Ids : q # "staging" \/ i # id => disk'[q][i] = disk[q][i]
  BY PutIs, PlacesAre DEF RegInv
<1>2. \A i \in Ids : disk'["installed"][i] = disk["installed"][i] /\ disk'["legacy"][i] = disk["legacy"][i]
  BY <1>1, PlacesAre
<1>3. \A i \in Ids : i # id => disk'["staging"][i] = disk["staging"][i]
  BY <1>1, PlacesAre
<1>4. RegTyped'
  BY <1>1 DEF RegInv, RegTyped
<1>5. DirsSound'
  BY <1>1, <1>2, <1>3 DEF RegInv, DirsSound
<1>6. StagingSound'
  BY <1>1, <1>3 DEF RegInv, StagingSound
<1>7. FreshSound'
  BY <1>2, <1>3 DEF RegInv, FreshSound
<1>8. active # "" => ModelPack(active)' = ModelPack(active)
  BY <1>2 DEF RegInv, RegTyped, ModelPack, ModelPlace
<1>9. ActiveSound' /\ ActiveIsUsable'
  BY <1>8 DEF RegInv, ActiveSound, ActiveIsUsable
<1>10. InstalledIsWhole'
  BY <1>2 DEF RegInv, InstalledIsWhole
<1> QED BY <1>4, <1>5, <1>6, <1>7, <1>9, <1>10 DEF RegInv

-----------------------------------------------------------------------------
(* import                                                                  *)
LEMMA ImportRefusedInv == ASSUME RegInv, NEW id \in Ids, ImportRefused(id) PROVE RegInv'
  BY RefusedInv DEF ImportRefused, disk_vars, history

LEMMA UnderWay == ASSUME RegInv, op.pc # "idle"
                  PROVE  /\ op.id \in Ids /\ done = NoAnswer /\ op \in Ops /\ Staged \in Pack
                         /\ ImportStands /\ ValidateStands /\ InstallStands /\ ActivateStands /\ RemoveStands
  BY PlacesAre DEF RegInv, RegTyped, OpStands, Staged

LEMMA ImportBeginInv == ASSUME RegInv, NEW id \in Ids, NEW c \in Contents, ImportBegin(id, c) PROVE RegInv'
<1>1. /\ op' \in Ops /\ op'.kind = "import" /\ op'.id = id /\ op'.pc = "clear" /\ op'.sha = c /\ done' = NoAnswer
  <2>1. Start("import", id, "clear", "staging", c)
    BY DEF ImportBegin
  <2>2. "import" \in Kinds /\ "clear" \in Labels /\ "staging" \in Places /\ c \in Contents \cup {"none"}
    BY PlacesAre DEF Kinds, Labels
  <2> QED BY <2>1, <2>2, StartIs
<1>2. /\ UNCHANGED <<disk, active, passed, faulty>> /\ fresh' = fresh \ {id}
      /\ tampered' = tampered \ {id} /\ dying' = dying \ {id}
      /\ ~disk["legacy"][id].dir /\ ~disk["installed"][id].dir
  BY DEF ImportBegin, disk_vars, luck
<1>3. ImportStands' /\ ValidateStands' /\ InstallStands' /\ ActivateStands' /\ RemoveStands'
  BY <1>1, <1>2 DEF ImportStands, ValidateStands, InstallStands, ActivateStands, RemoveStands
<1>4. OpStands' /\ RepeatedInstallSucceeds'
  BY <1>1, <1>3, NoAnswerIs DEF OpStands
<1>5. RegTyped' /\ DirsSound' /\ StagingSound' /\ FreshSound'
  BY <1>1, <1>2 DEF RegInv, RegTyped, DirsSound, StagingSound, FreshSound
<1>6. active # id
  BY <1>2, RegistryAssumption DEF RegInv, ActiveSound, ModelPack, ModelPlace
<1>7. ActiveSound' /\ ActiveIsUsable'
  BY <1>2, <1>6 DEF RegInv, ActiveSound, ActiveIsUsable, ModelPack, ModelPlace
<1>8. InstalledIsWhole'
  BY <1>2 DEF RegInv, InstalledIsWhole
<1> QED BY <1>4, <1>5, <1>7, <1>8 DEF RegInv

(* A step of import or validate that rewrites the package in staging.      *)
LEMMA ImportCopyInv == ASSUME RegInv, ImportCopy PROVE RegInv'
<1>1. op.kind = "import" /\ op.pc = "clear"
  BY DEF ImportCopy, At
<1> DEFINE p == [Staged EXCEPT !.dir = TRUE, !.rknn = "torn"]
<1>2. op.id \in Ids /\ done = NoAnswer /\ op \in Ops /\ Staged \in Pack /\ ImportStands
  BY <1>1, UnderWay
<1>3. p \in Pack /\ p.ok = Staged.ok /\ p.sha = Staged.sha /\ p.dims = Staged.dims /\ p.dir
  BY <1>2 DEF Pack
<1>4. /\ op' \in Ops /\ op'.kind = "import" /\ op'.id = op.id /\ op'.pc = "copy" /\ op'.sha = op.sha /\ done' = NoAnswer
  BY <1>1, <1>2, GotoIs DEF ImportCopy, RegInv, Labels
<1>5. Put("staging", op.id, p) /\ UNCHANGED <<active, passed, tampered, dying, fresh>>
      /\ (faulty' = faulty \/ faulty' = TRUE)
  BY FaultIs DEF ImportCopy, history
<1>6. ~faulty' => Staged.ok = "none"
  <2>1. ~faulty' => Erased("staging")
    BY DEF ImportCopy, Fault
  <2> QED BY <1>2, <2>1, NoPackIs DEF RegInv, DirsSound, Erased, Staged
<1> HIDE DEF p
<1>7. Staged' = p
  BY <1>2, <1>3, <1>4, <1>5, PutIs, PlacesAre DEF RegInv, Staged
<1>8. ~disk["legacy"][op.id].dir /\ ~disk["installed"][op.id].dir /\ op.id \notin fresh /\ op.sha \in Contents
  BY <1>1, <1>2 DEF ImportStands
<1>9. UNCHANGED <<disk["legacy"][op.id], disk["installed"][op.id]>>
  BY <1>2, <1>3, <1>4, <1>5, PutIs, PlacesAre DEF RegInv
<1>10. ImportStands' /\ ValidateStands' /\ InstallStands' /\ ActivateStands' /\ RemoveStands'
  BY <1>3, <1>4, <1>5, <1>6, <1>7, <1>8, <1>9
     DEF ImportStands, ValidateStands, InstallStands, ActivateStands, RemoveStands
<1>11. OpStands' /\ RepeatedInstallSucceeds'
  BY <1>2, <1>4, <1>10, NoAnswerIs DEF OpStands
<1>12. p.ok # "none" => p.ok \in passed[op.id] /\ (~faulty' /\ p.sha # "none" => p.dims)
  BY <1>2, <1>3, <1>6 DEF RegInv, StagingSound, Staged
<1> QED BY <1>2, <1>3, <1>4, <1>5, <1>8, <1>11, <1>12, StagingInv

LEMMA ImportSourceGoneInv == ASSUME RegInv, ImportSourceGone PROVE RegInv'
  BY RefusedInv DEF ImportSourceGone, disk_vars, history

LEMMA ImportCopiedInv == ASSUME RegInv, ImportCopied PROVE RegInv'
<1>1. op.kind = "import" /\ op.pc = "copy"
  BY DEF ImportCopied, At
<1>2. op.id \in Ids /\ done = NoAnswer /\ op \in Ops /\ Staged \in Pack /\ ImportStands
  BY <1>1, UnderWay
<1>3. CASE Fault /\ Answer("import", op.id, FALSE) /\ UNCHANGED disk
  BY <1>3, RefusedInv DEF ImportCopied, history
<1>4. CASE Put("staging", op.id, [Staged EXCEPT !.rknn = op.sha]) /\ Goto("manifest") /\ UNCHANGED luck
  <2> DEFINE p == [Staged EXCEPT !.rknn = op.sha]
  <2>1. ~disk["legacy"][op.id].dir /\ ~disk["installed"][op.id].dir /\ op.id \notin fresh /\ op.sha \in Contents
        /\ Staged.dir /\ (~faulty => Staged.ok = "none")
    BY <1>1, <1>2 DEF ImportStands
  <2>2. p \in Pack /\ p.ok = Staged.ok /\ p.sha = Staged.sha /\ p.dims = Staged.dims /\ p.rknn = op.sha /\ p.dir = Staged.dir
    BY <1>2, <2>1 DEF Pack
  <2>3. /\ op' \in Ops /\ op'.kind = "import" /\ op'.id = op.id /\ op'.pc = "manifest" /\ op'.sha = op.sha /\ done' = NoAnswer
    BY <1>1, <1>2, <1>4, GotoIs DEF RegInv, Labels
  <2>4. UNCHANGED <<active, passed, tampered, dying, fresh, faulty>>
    BY <1>4 DEF ImportCopied, history, luck
  <2>5. Staged' = p /\ UNCHANGED <<disk["legacy"][op.id], disk["installed"][op.id]>>
    BY <1>2, <1>4, <2>2, <2>3, PutIs, PlacesAre DEF RegInv, Staged
  <2>6. ImportStands' /\ ValidateStands' /\ InstallStands' /\ ActivateStands' /\ RemoveStands'
    BY <2>1, <2>2, <2>3, <2>4, <2>5
       DEF ImportStands, ValidateStands, InstallStands, ActivateStands, RemoveStands
  <2>7. OpStands' /\ RepeatedInstallSucceeds'
    BY <1>2, <2>3, <2>6, NoAnswerIs DEF OpStands
  <2>8. p.ok # "none" => p.ok \in passed[op.id] /\ (~faulty' /\ p.sha # "none" => p.dims)
    BY <1>2, <2>1, <2>2, <2>4 DEF RegInv, StagingSound, Staged
  <2> QED BY <1>2, <1>4, <2>1, <2>2, <2>3, <2>4, <2>7, <2>8, StagingInv
<1> QED BY <1>3, <1>4 DEF ImportCopied

(* A package in staging is replaced as the operation goes on, or answers.  *)
LEMMA StagedStep ==
  ASSUME RegInv, op.pc # "idle", NEW label \in Labels, Goto(label), NEW p \in Pack, Put("staging", op.id, p)
  PROVE  /\ op' \in Ops /\ op'.pc = label /\ op'.kind = op.kind /\ op'.id = op.id /\ op'.sha = op.sha
         /\ op'.place = op.place /\ done' = NoAnswer /\ RepeatedInstallSucceeds' /\ Staged' = p
         /\ UNCHANGED <<disk["legacy"][op.id], disk["installed"][op.id]>>
<1>1. op.id \in Ids /\ done = NoAnswer /\ RegTyped
  BY UnderWay DEF RegInv
<1>2. /\ op' \in Ops /\ op'.pc = label /\ op'.kind = op.kind /\ op'.id = op.id /\ op'.sha = op.sha
      /\ op'.place = op.place /\ done' = NoAnswer
  BY <1>1, GotoIs
<1>3. Staged' = p /\ UNCHANGED <<disk["legacy"][op.id], disk["installed"][op.id]>>
  BY <1>1, <1>2, PutIs, PlacesAre DEF Staged
<1> QED BY <1>2, <1>3, NoAnswerIs

LEMMA StagedAnswer ==
  ASSUME RegInv, op.pc # "idle", NEW kind, kind # "install", NEW ok, Answer(kind, op.id, ok),
         NEW p \in Pack, Put("staging", op.id, p), p.dir,
         UNCHANGED <<active, passed, tampered, dying, fresh, faulty>>, op.id \notin fresh,
         ~disk["legacy"][op.id].dir,
         p.ok # "none" => p.ok \in passed[op.id] /\ (~faulty' /\ p.sha # "none" => p.dims)
  PROVE  RegInv'
<1>1. op' \in Ops /\ OpStands' /\ RepeatedInstallSucceeds'
  BY AnswerIs DEF RepeatedInstallSucceeds
<1>2. op.id \in Ids
  BY UnderWay
<1> QED BY <1>1, <1>2, StagingInv

LEMMA ImportManifestInv == ASSUME RegInv, ImportManifest PROVE RegInv'
<1>1. op.kind = "import" /\ op.pc = "manifest"
  BY DEF ImportManifest, At
<1>2. op.id \in Ids /\ Staged \in Pack /\ ImportStands
  BY <1>1, UnderWay
<1>3. CASE Fault /\ Answer("import", op.id, FALSE) /\ UNCHANGED disk
  BY <1>3, RefusedInv DEF ImportManifest, history
<1>4. CASE /\ Put("staging", op.id, [Staged EXCEPT !.sha = Staged.rknn, !.dims = FALSE])
           /\ Answer("import", op.id, TRUE) /\ UNCHANGED luck
  <2> DEFINE p == [Staged EXCEPT !.sha = Staged.rknn, !.dims = FALSE]
  <2>1. ~disk["legacy"][op.id].dir /\ op.id \notin fresh /\ Staged.rknn \in Contents
        /\ Staged.dir /\ (~faulty => Staged.ok = "none")
    BY <1>1, <1>2 DEF ImportStands
  <2>2. p \in Pack /\ p.ok = Staged.ok /\ p.dir = Staged.dir
    BY <1>2, <2>1 DEF Pack
  <2>3. UNCHANGED <<active, passed, tampered, dying, fresh, faulty>>
    BY <1>4 DEF ImportManifest, history, luck
  <2>4. p.ok # "none" => p.ok \in passed[op.id] /\ (~faulty' /\ p.sha # "none" => p.dims)
    BY <1>2, <2>1, <2>2, <2>3 DEF RegInv, StagingSound, Staged
  <2> HIDE DEF p
  <2> QED BY <1>1, <1>2, <1>4, <2>1, <2>2, <2>3, <2>4, StagedAnswer DEF p
<1> QED BY <1>3, <1>4 DEF ImportManifest

-----------------------------------------------------------------------------
(* validate                                                                *)
LEMMA ValidateRefusedInv == ASSUME RegInv, NEW id \in Ids, ValidateRefused(id) PROVE RegInv'
  BY RefusedInv DEF ValidateRefused, disk_vars

LEMMA ValidateBeginInv == ASSUME RegInv, NEW id \in Ids, ValidateBegin(id) PROVE RegInv'
<1>1. disk["staging"][id].sha \in Contents /\ disk["staging"][id].sha # "none"
  <2>1. disk["staging"][id] \in Pack
    BY DiskIs DEF RegInv
  <2>2. disk["staging"][id].sha \in Contents \cup {"none"}
    BY <2>1 DEF Pack
  <2>3. disk["staging"][id].sha # "none"
    BY DEF ValidateBegin, SumMatches
  <2> QED BY <2>2, <2>3
<1>2. /\ op' \in Ops /\ op'.kind = "validate" /\ op'.id = id /\ op'.pc = "void" /\ op'.sha = disk["staging"][id].sha
      /\ done' = NoAnswer
  <2>1. Start("validate", id, "void", "staging", disk["staging"][id].sha)
    BY DEF ValidateBegin
  <2>2. "validate" \in Kinds /\ "void" \in Labels /\ "staging" \in Places
    BY PlacesAre DEF Kinds, Labels
  <2>3. disk["staging"][id].sha \in Contents \cup {"none"}
    BY <1>1
  <2> QED BY <2>1, <2>2, <2>3, StartIs
<1>3. UNCHANGED <<disk, active, passed, luck, tampered, dying>> /\ fresh' = fresh \ {id} /\ SumMatches(disk["staging"][id])
  BY DEF ValidateBegin, disk_vars
<1>4. ImportStands' /\ ValidateStands' /\ InstallStands' /\ ActivateStands' /\ RemoveStands'
  BY <1>2, <1>3 DEF ImportStands, ValidateStands, InstallStands, ActivateStands, RemoveStands, Staged
<1> QED BY <1>2, <1>3, <1>4, BeginInv

(* The package under validation is in staging alone.                       *)
LEMMA Validating ==
  ASSUME RegInv, op.pc # "idle", op.kind = "validate"
  PROVE  /\ op.id \in Ids /\ Staged \in Pack /\ SumMatches(Staged) /\ op.sha = Staged.sha /\ op.id \notin fresh
         /\ op.pc \in {"load", "manifest", "report"} => Staged.ok = "none"
         /\ op.pc \in {"manifest", "report"} => Staged.rknn \in passed[op.id]
         /\ op.pc = "report" => Staged.dims
         /\ op.sha \in Contents /\ Staged.rknn = op.sha /\ Staged.dir /\ ~disk["legacy"][op.id].dir
<1>1. /\ op.id \in Ids /\ Staged \in Pack /\ SumMatches(Staged) /\ op.sha = Staged.sha /\ op.id \notin fresh
      /\ op.pc \in {"load", "manifest", "report"} => Staged.ok = "none"
      /\ op.pc \in {"manifest", "report"} => Staged.rknn \in passed[op.id]
      /\ op.pc = "report" => Staged.dims
  BY UnderWay DEF ValidateStands
<1>2. op.sha \in Contents /\ Staged.rknn = op.sha /\ Staged # NoPack
  BY <1>1, NoPackIs DEF SumMatches, Pack
<1>3. Staged.dir /\ ~disk["legacy"][op.id].dir
  BY <1>1, <1>2 DEF RegInv, DirsSound, Staged
<1> QED BY <1>1, <1>2, <1>3

LEMMA ValidateVoidInv == ASSUME RegInv, ValidateVoid PROVE RegInv'
<1> DEFINE p == [Staged EXCEPT !.ok = "none"]
<1>1. op.kind = "validate" /\ op.pc = "void"
  BY DEF ValidateVoid, At
<1>2. /\ op.id \in Ids /\ Staged \in Pack /\ SumMatches(Staged) /\ op.sha = Staged.sha /\ op.id \notin fresh
      /\ Staged.dir /\ ~disk["legacy"][op.id].dir
  BY <1>1, Validating
<1>3. p \in Pack /\ p.ok = "none" /\ p.dir = Staged.dir /\ p.sha = Staged.sha /\ p.rknn = Staged.rknn
  BY <1>2 DEF Pack
<1>4. Put("staging", op.id, p) /\ Goto("load") /\ UNCHANGED <<active, passed, tampered, dying, fresh, faulty>>
  BY DEF ValidateVoid, luck, history
<1> HIDE DEF p
<1>5. /\ op' \in Ops /\ op'.pc = "load" /\ op'.kind = "validate" /\ op'.id = op.id /\ op'.sha = op.sha
      /\ done' = NoAnswer /\ RepeatedInstallSucceeds' /\ Staged' = p
  BY <1>1, <1>3, <1>4, StagedStep DEF Labels
<1>6. ImportStands' /\ ValidateStands' /\ InstallStands' /\ ActivateStands' /\ RemoveStands'
  BY <1>2, <1>3, <1>4, <1>5
     DEF ImportStands, ValidateStands, InstallStands, ActivateStands, RemoveStands, SumMatches
<1>7. OpStands'
  BY <1>2, <1>5, <1>6 DEF OpStands
<1> QED BY <1>2, <1>3, <1>4, <1>5, <1>7, StagingInv

LEMMA ValidateLoadInv == ASSUME RegInv, ValidateLoad PROVE RegInv'
<1>1. op.kind = "validate" /\ op.pc = "load"
  BY DEF ValidateLoad, At
<1>2. /\ op.id \in Ids /\ Staged \in Pack /\ SumMatches(Staged) /\ op.sha = Staged.sha /\ op.id \notin fresh
      /\ Staged.ok = "none" /\ Staged.rknn \in Contents
  BY <1>1, Validating
<1>3. UNCHANGED <<disk, active, faulty, tampered, dying, fresh>>
  BY DEF ValidateLoad, disk_vars, luck
<1>4. /\ passed' \in [Ids -> SUBSET Contents]
      /\ \A i \in Ids : i # op.id => passed'[i] = passed[i]
  BY <1>2 DEF ValidateLoad, RegInv, RegTyped
<1>5. op' \in Ops /\ OpStands' /\ RepeatedInstallSucceeds'
  <2>1. CASE Goto("manifest") /\ passed' = [passed EXCEPT ![op.id] = @ \cup {Staged.rknn}]
    <3>1. /\ op' \in Ops /\ op'.pc = "manifest" /\ op'.kind = "validate" /\ op'.id = op.id /\ op'.sha = op.sha
          /\ done' = NoAnswer
      BY <1>1, <2>1, GotoIs, UnderWay DEF RegInv, Labels
    <3>2. Staged.rknn \in passed'[op.id] /\ Staged' = Staged
      BY <1>2, <1>3, <2>1, <3>1 DEF RegInv, RegTyped, Staged
    <3>3. ImportStands' /\ ValidateStands' /\ InstallStands' /\ ActivateStands' /\ RemoveStands'
      BY <1>2, <1>3, <3>1, <3>2
         DEF ImportStands, ValidateStands, InstallStands, ActivateStands, RemoveStands, SumMatches
    <3> QED BY <1>2, <3>1, <3>3, NoAnswerIs DEF OpStands
  <2>2. CASE Answer("validate", op.id, FALSE)
    BY <2>2, IdleIs DEF Answer, OpStands, RepeatedInstallSucceeds
  <2> QED BY <2>1, <2>2 DEF ValidateLoad
<1>6. RegTyped' /\ DirsSound' /\ FreshSound'
  BY <1>3, <1>4, <1>5 DEF RegInv, RegTyped, DirsSound, FreshSound
<1>7. StagingSound'
  BY <1>2, <1>3, <1>4 DEF RegInv, StagingSound, Staged
<1>8. InstalledIsWhole'
  BY <1>3 DEF RegInv, InstalledIsWhole
<1>9. ActiveSound' /\ ActiveIsUsable'
  BY <1>3 DEF RegInv, ActiveSound, ActiveIsUsable, ModelPack, ModelPlace
<1> QED BY <1>5, <1>6, <1>7, <1>8, <1>9 DEF RegInv

LEMMA ValidateManifestInv == ASSUME RegInv, ValidateManifest PROVE RegInv'
<1>1. op.kind = "validate" /\ op.pc = "manifest"
  BY DEF ValidateManifest, At
<1>2. /\ op.id \in Ids /\ Staged \in Pack /\ SumMatches(Staged) /\ op.sha = Staged.sha /\ op.id \notin fresh
      /\ Staged.dir /\ ~disk["legacy"][op.id].dir /\ op.sha \in Contents /\ Staged.ok = "none"
      /\ Staged.rknn \in passed[op.id]
  BY <1>1, Validating
<1>3. CASE Fault /\ Answer("validate", op.id, FALSE) /\ UNCHANGED disk
  BY <1>3, RefusedInv DEF ValidateManifest, history
<1>4. CASE Put("staging", op.id, [Staged EXCEPT !.sha = op.sha, !.dims = TRUE]) /\ Goto("report") /\ UNCHANGED luck
  <2> DEFINE p == [Staged EXCEPT !.sha = op.sha, !.dims = TRUE]
  <2>1. p \in Pack /\ p.ok = "none" /\ p.dir = Staged.dir /\ p.sha = Staged.sha /\ p.rknn = Staged.rknn /\ p.dims = TRUE
    BY <1>2 DEF Pack
  <2>2. Put("staging", op.id, p) /\ UNCHANGED <<active, passed, tampered, dying, fresh, faulty>>
    BY <1>4 DEF ValidateManifest, luck, history
  <2> HIDE DEF p
  <2>3. /\ op' \in Ops /\ op'.pc = "report" /\ op'.kind = "validate" /\ op'.id = op.id /\ op'.sha = op.sha
        /\ done' = NoAnswer /\ RepeatedInstallSucceeds' /\ Staged' = p
    BY <1>1, <1>4, <2>1, <2>2, StagedStep DEF Labels
  <2>4. ImportStands' /\ ValidateStands' /\ InstallStands' /\ ActivateStands' /\ RemoveStands'
    BY <1>2, <2>1, <2>2, <2>3
       DEF ImportStands, ValidateStands, InstallStands, ActivateStands, RemoveStands, SumMatches
  <2>5. OpStands'
    BY <1>2, <2>3, <2>4 DEF OpStands
  <2> QED BY <1>2, <2>1, <2>2, <2>3, <2>5, StagingInv
<1> QED BY <1>3, <1>4 DEF ValidateManifest

LEMMA ValidateReportInv == ASSUME RegInv, ValidateReport PROVE RegInv'
<1>1. op.kind = "validate" /\ op.pc = "report"
  BY DEF ValidateReport, At
<1>2. /\ op.id \in Ids /\ Staged \in Pack /\ op.id \notin fresh /\ Staged.rknn = op.sha /\ Staged.dims
      /\ Staged.dir /\ ~disk["legacy"][op.id].dir /\ op.sha \in Contents /\ Staged.rknn \in passed[op.id]
  BY <1>1, Validating
<1>3. CASE Fault /\ Answer("validate", op.id, FALSE) /\ UNCHANGED disk
  BY <1>3, RefusedInv DEF ValidateReport, history
<1>4. CASE Put("staging", op.id, [Staged EXCEPT !.ok = op.sha]) /\ Answer("validate", op.id, TRUE) /\ UNCHANGED luck
  <2> DEFINE p == [Staged EXCEPT !.ok = op.sha]
  <2>1. p \in Pack /\ p.ok = op.sha /\ p.dir = Staged.dir /\ p.dims = Staged.dims
    BY <1>2 DEF Pack
  <2>2. Put("staging", op.id, p) /\ UNCHANGED <<active, passed, tampered, dying, fresh, faulty>>
    BY <1>4 DEF ValidateReport, luck, history
  <2> HIDE DEF p
  <2> QED BY <1>1, <1>2, <1>4, <2>1, <2>2, StagedAnswer
<1> QED BY <1>3, <1>4 DEF ValidateReport

-----------------------------------------------------------------------------
(* install                                                                 *)
LEMMA FreshIsReplayed ==
  ASSUME RegInv, NEW id \in Ids, id \in fresh
  PROVE  /\ Credential(disk["staging"][id]) /\ disk["installed"][id].dir
         /\ disk["installed"][id].sha = disk["staging"][id].sha
  BY DEF RegInv, FreshSound

LEMMA InstallRefusedInv == ASSUME RegInv, NEW id \in Ids, InstallRefused(id) PROVE RegInv'
<1>1. id \notin fresh
  BY FreshIsReplayed DEF InstallRefused
<1> QED BY <1>1, RefusedInv DEF InstallRefused, disk_vars, history

LEMMA InstallReplayInv == ASSUME RegInv, NEW id \in Ids, InstallReplay(id) PROVE RegInv'
  BY RefusedInv DEF InstallReplay, disk_vars, history

LEMMA InstallBeginInv == ASSUME RegInv, NEW id \in Ids, InstallBegin(id) PROVE RegInv'
<1>1. /\ op' \in Ops /\ op'.kind = "install" /\ op'.id = id /\ op'.pc = "assemble" /\ done' = NoAnswer
  <2>1. Start("install", id, "assemble", "installed", "none")
    BY DEF InstallBegin
  <2>2. "install" \in Kinds /\ "assemble" \in Labels /\ "installed" \in Places
        /\ "none" \in Contents \cup {"none"}
    BY PlacesAre DEF Kinds, Labels
  <2> QED BY <2>1, <2>2, StartIs
<1>2. UNCHANGED <<disk, active, passed, luck, tampered, dying, fresh>>
      /\ Credential(disk["staging"][id]) /\ ~disk["installed"][id].dir
  BY DEF InstallBegin, disk_vars, history
<1>3. ImportStands' /\ ValidateStands' /\ InstallStands' /\ ActivateStands' /\ RemoveStands'
  BY <1>1, <1>2 DEF ImportStands, ValidateStands, InstallStands, ActivateStands, RemoveStands, Staged
<1> QED BY <1>1, <1>2, <1>3, BeginInv

(* The package being installed is checked, and not there yet.              *)
LEMMA Installing ==
  ASSUME RegInv, op.pc \in {"assemble", "publish"}, op.kind = "install"
  PROVE  /\ op.id \in Ids /\ Staged \in Pack /\ Credential(Staged) /\ ~disk["installed"][op.id].dir
         /\ op.id \notin fresh /\ done = NoAnswer
  BY UnderWay, FreshIsReplayed DEF InstallStands

LEMMA InstallAssembleInv == ASSUME RegInv, InstallAssemble PROVE RegInv'
<1>1. op.kind = "install" /\ op.pc = "assemble"
  BY DEF InstallAssemble, At
<1>2. /\ op.id \in Ids /\ Staged \in Pack /\ Credential(Staged) /\ ~disk["installed"][op.id].dir
      /\ op.id \notin fresh /\ done = NoAnswer
  BY <1>1, Installing
<1>3. UNCHANGED <<disk, active, passed, tampered, dying, fresh>>
  BY DEF InstallAssemble, disk_vars, history
<1>4. CASE Fault /\ Answer("install", op.id, FALSE)
  BY <1>2, <1>3, <1>4, RefusedInv
<1>5. CASE Goto("publish") /\ UNCHANGED luck
  <2>1. op' \in Ops /\ op'.pc = "publish" /\ op'.kind = "install" /\ op'.id = op.id /\ done' = NoAnswer
    BY <1>1, <1>2, <1>5, GotoIs DEF RegInv, Labels
  <2>2. ImportStands' /\ ValidateStands' /\ InstallStands' /\ ActivateStands' /\ RemoveStands'
    BY <1>2, <1>3, <2>1
       DEF ImportStands, ValidateStands, InstallStands, ActivateStands, RemoveStands, Staged
  <2> QED BY <1>2, <1>3, <1>5, <2>1, <2>2, BeginInv
<1> QED BY <1>4, <1>5 DEF InstallAssemble

(* One rename publishes what was checked, under a name that was free; the  *)
(* active model is another, as it is there already.                        *)
LEMMA InstallPublishInv == ASSUME RegInv, InstallPublish PROVE RegInv'
<1>1. op.kind = "install" /\ op.pc = "publish"
  BY DEF InstallPublish, At
<1>2. /\ op.id \in Ids /\ Staged \in Pack /\ Credential(Staged) /\ ~disk["installed"][op.id].dir
      /\ op.id \notin fresh /\ done = NoAnswer
  BY <1>1, Installing
<1>3. CASE Fault /\ Answer("install", op.id, FALSE) /\ UNCHANGED <<disk, fresh>>
  BY <1>2, <1>3, RefusedInv DEF InstallPublish
<1>4. CASE Put("installed", op.id, Staged) /\ Goto("refresh") /\ fresh' = fresh \cup {op.id} /\ UNCHANGED luck
  <2> DEFINE p == Staged
  <2>1. UNCHANGED <<active, passed, tampered, dying, faulty>>
    BY <1>4 DEF InstallPublish, luck
  <2>2. op' \in Ops /\ op'.pc = "refresh" /\ op'.kind = "install" /\ op'.id = op.id /\ done' = NoAnswer
    BY <1>1, <1>2, <1>4, GotoIs DEF RegInv, Labels
  <2>3. /\ disk' \in [Places -> [Ids -> Pack]] /\ disk'["installed"][op.id] = disk["staging"][op.id]
        /\ \A q \in Places, i \in Ids : q # "installed" \/ i # op.id => disk'[q][i] = disk[q][i]
    BY <1>2, <1>4, PutIs, PlacesAre DEF RegInv, Staged
  <2>4. \A i \in Ids : disk'["staging"][i] = disk["staging"][i] /\ disk'["legacy"][i] = disk["legacy"][i]
    BY <2>3, PlacesAre
  <2>5. \A i \in Ids : i # op.id => disk'["installed"][i] = disk["installed"][i]
    BY <2>3, PlacesAre
  <2>6. disk["staging"][op.id].dir /\ ~disk["legacy"][op.id].dir
    BY <1>2, NoPackIs DEF RegInv, DirsSound, Staged
  <2>7. OpStands' /\ RepeatedInstallSucceeds'
    BY <1>2, <2>2, NoAnswerIs
       DEF OpStands, ImportStands, ValidateStands, InstallStands, ActivateStands, RemoveStands
  <2>8. RegTyped'
    BY <2>1, <2>2, <2>3 DEF RegInv, RegTyped
  <2>9. DirsSound'
    BY <2>3, <2>4, <2>5, <2>6 DEF RegInv, DirsSound
  <2>10. StagingSound'
    BY <2>1, <2>4 DEF RegInv, StagingSound
  <2>11. FreshSound'
    BY <1>2, <1>4, <2>3, <2>4, <2>5, <2>6 DEF RegInv, FreshSound, Staged
  <2>12. active # op.id
    BY <1>2, <2>6, RegistryAssumption DEF RegInv, ActiveSound, ModelPack, ModelPlace
  <2>13. active # "" => ModelPack(active)' = ModelPack(active)
    BY <2>1, <2>4, <2>5, <2>12 DEF RegInv, RegTyped, ModelPack, ModelPlace
  <2>14. ActiveSound' /\ ActiveIsUsable'
    BY <2>1, <2>13 DEF RegInv, ActiveSound, ActiveIsUsable
  <2>15. InstalledIsWhole'
    <3>1. ~faulty => Ready(disk["staging"][op.id])
      BY <1>2 DEF RegInv, StagingSound, Staged, Credential, Ready, SumMatches
    <3> QED BY <1>2, <2>1, <2>3, <2>5, <3>1 DEF RegInv, InstalledIsWhole, Staged
  <2> QED BY <2>7, <2>8, <2>9, <2>10, <2>11, <2>14, <2>15 DEF RegInv
<1> QED BY <1>3, <1>4 DEF InstallPublish

LEMMA InstallAnsweredInv == ASSUME RegInv, InstallAnswered PROVE RegInv'
  BY RefusedInv DEF InstallAnswered, disk_vars, history

-----------------------------------------------------------------------------
(* activate and deactivate                                                 *)
LEMMA ActivateRefusedInv == ASSUME RegInv, NEW id \in Ids, ActivateRefused(id) PROVE RegInv'
  BY RefusedInv DEF ActivateRefused, disk_vars, history

LEMMA ActivateBeginInv == ASSUME RegInv, NEW id \in Ids, ActivateBegin(id) PROVE RegInv'
<1>1. ModelPlace(id) \in Places
  BY PlacesAre DEF ModelPlace
<1>2. /\ op' \in Ops /\ op'.kind = "activate" /\ op'.id = id /\ op'.pc = "probe" /\ op'.place = ModelPlace(id)
      /\ done' = NoAnswer
  <2>1. Start("activate", id, "probe", ModelPlace(id), "none")
    BY DEF ActivateBegin
  <2>2. "activate" \in Kinds /\ "probe" \in Labels /\ "none" \in Contents \cup {"none"}
    BY DEF Kinds, Labels
  <2> QED BY <1>1, <2>1, <2>2, StartIs
<1>3. UNCHANGED <<disk, active, passed, luck, tampered, dying, fresh>> /\ Ready(ModelPack(id))
  BY DEF ActivateBegin, disk_vars, history
<1>4. ImportStands' /\ ValidateStands' /\ InstallStands' /\ ActivateStands' /\ RemoveStands'
  BY <1>2, <1>3
     DEF ImportStands, ValidateStands, InstallStands, ActivateStands, RemoveStands, ModelPack, ModelPlace
<1> QED BY <1>2, <1>3, <1>4, BeginInv

LEMMA ActivateProbeInv == ASSUME RegInv, ActivateProbe PROVE RegInv'
<1>1. op.kind = "activate" /\ op.pc = "probe"
  BY DEF ActivateProbe, At
<1>2. op.id \in Ids /\ done = NoAnswer /\ op.place = ModelPlace(op.id) /\ Ready(ModelPack(op.id))
  BY <1>1, UnderWay DEF ActivateStands
<1>3. UNCHANGED <<disk, active, luck, passed, tampered, dying, fresh>>
  BY DEF ActivateProbe, disk_vars, history
<1>4. CASE Answer("activate", op.id, FALSE)
  BY <1>3, <1>4, RefusedInv
<1>5. CASE disk[op.place][op.id].rknn \in Loads /\ Goto("select")
  <2>1. /\ op' \in Ops /\ op'.pc = "select" /\ op'.kind = "activate" /\ op'.id = op.id /\ op'.place = op.place
        /\ done' = NoAnswer
    BY <1>1, <1>2, <1>5, GotoIs DEF RegInv, Labels
  <2>2. ModelPack(op.id).rknn \in Loads
    BY <1>2, <1>5 DEF ModelPack
  <2>3. ImportStands' /\ ValidateStands' /\ InstallStands' /\ ActivateStands' /\ RemoveStands'
    BY <1>2, <1>3, <2>1, <2>2
       DEF ImportStands, ValidateStands, InstallStands, ActivateStands, RemoveStands, ModelPack, ModelPlace
  <2> QED BY <1>2, <1>3, <2>1, <2>3, BeginInv
<1> QED BY <1>4, <1>5 DEF ActivateProbe

(* The selection changes: to what the probe loaded, to nothing, or not.    *)
Runs(id) == Ready(ModelPack(id)) /\ ModelPack(id).rknn \in Loads
MayChoose(a) == a \in Ids \cup {""} /\ (a = active \/ a = "" \/ Runs(a))

LEMMA SelectedInv ==
  ASSUME RegInv, UNCHANGED <<disk, passed, tampered, dying, fresh>>, faulty' = faulty \/ faulty' = TRUE,
         op' \in Ops, OpStands', RepeatedInstallSucceeds', NEW a, active' = a, MayChoose(a)
  PROVE  RegInv'
<1>1. RegTyped' /\ DirsSound'
  BY DEF RegInv, RegTyped, DirsSound, MayChoose
<1>2. StagingSound' /\ FreshSound'
  BY DEF RegInv, StagingSound, FreshSound
<1>3. InstalledIsWhole'
  BY DEF RegInv, InstalledIsWhole
<1>4. ASSUME a # "" PROVE Ready(ModelPack(a)) => ModelPack(a).dir
  BY <1>4, NoPackIs DEF MayChoose, RegInv, DirsSound, ModelPack, ModelPlace
<1>5. ModelPack(active)' = ModelPack(a)
  BY DEF ModelPack, ModelPlace
<1>6. ActiveSound'
  <2>1. CASE a = active
    BY <1>5, <2>1 DEF RegInv, ActiveSound
  <2>2. CASE a = ""
    BY <2>2 DEF ActiveSound
  <2>3. CASE Runs(a)
    BY <1>4, <1>5, <2>3 DEF ActiveSound, Runs
  <2> QED BY <2>1, <2>2, <2>3 DEF MayChoose
<1>7. ActiveIsUsable'
  <2>1. CASE a = active
    BY <1>5, <2>1 DEF RegInv, ActiveIsUsable
  <2>2. CASE a = ""
    BY <2>2 DEF ActiveIsUsable
  <2>3. CASE Runs(a)
    BY <1>5, <2>3 DEF ActiveIsUsable, Runs
  <2> QED BY <2>1, <2>2, <2>3 DEF MayChoose
<1> QED BY <1>1, <1>2, <1>3, <1>6, <1>7 DEF RegInv

LEMMA SelectInv ==
  ASSUME RegInv, UNCHANGED <<disk, history>>, UNCHANGED luck \/ Fault,
         NEW kind, NEW id, NEW ok, Answer(kind, id, ok), kind # "install",
         NEW a, active' = a, MayChoose(a)
  PROVE  RegInv'
<1>1. op' \in Ops /\ OpStands' /\ RepeatedInstallSucceeds'
  BY AnswerIs DEF RepeatedInstallSucceeds
<1>2. UNCHANGED <<disk, passed, tampered, dying, fresh>>
  BY DEF history
<1> QED BY <1>1, <1>2, FaultIs, SelectedInv

LEMMA ActivateSelectInv == ASSUME RegInv, ActivateSelect PROVE RegInv'
<1>1. op.kind = "activate" /\ op.pc = "select"
  BY DEF ActivateSelect, At
<1>2. MayChoose(op.id)
  BY <1>1, UnderWay DEF ActivateStands, Runs, MayChoose
<1>3. UNCHANGED <<disk, history>> /\ MayChoose(active) /\ MayChoose("")
  BY DEF ActivateSelect, RegInv, RegTyped, MayChoose
<1>4. CASE active' = op.id /\ Answer("activate", op.id, TRUE) /\ UNCHANGED luck
  BY <1>2, <1>3, <1>4, SelectInv
<1>5. CASE Fault /\ Answer("activate", op.id, FALSE) /\ active' \in {active, ""}
  BY <1>3, <1>5, SelectInv
<1> QED BY <1>4, <1>5 DEF ActivateSelect

LEMMA DeactivateInv == ASSUME RegInv, Deactivate PROVE RegInv'
<1>1. UNCHANGED <<disk, history>> /\ MayChoose(active) /\ MayChoose("")
  BY DEF Deactivate, RegInv, RegTyped, MayChoose
<1>2. CASE active' = "" /\ Answer("deactivate", "", TRUE) /\ UNCHANGED luck
  BY <1>1, <1>2, SelectInv
<1>3. CASE Fault /\ Answer("deactivate", "", FALSE) /\ active' \in {active, ""}
  BY <1>1, <1>3, SelectInv
<1> QED BY <1>2, <1>3 DEF Deactivate

-----------------------------------------------------------------------------
(* remove                                                                  *)
LEMMA RemoveRefusedInv == ASSUME RegInv, NEW id \in Ids, RemoveRefused(id) PROVE RegInv'
  BY RefusedInv DEF RemoveRefused, disk_vars, history

LEMMA RemoveBeginInv == ASSUME RegInv, NEW id \in Ids, RemoveBegin(id) PROVE RegInv'
<1>1. ModelPlace(id) \in Places /\ ModelPlace(id) \in {"installed", "legacy"}
  BY PlacesAre DEF ModelPlace
<1>2. /\ op' \in Ops /\ op'.kind = "remove" /\ op'.id = id /\ op'.pc = "erase" /\ op'.place = ModelPlace(id)
      /\ done' = NoAnswer
  <2>1. Start("remove", id, "erase", ModelPlace(id), "none")
    BY DEF RemoveBegin
  <2>2. "remove" \in Kinds /\ "erase" \in Labels /\ "none" \in Contents \cup {"none"}
    BY DEF Kinds, Labels
  <2> QED BY <1>1, <2>1, <2>2, StartIs
<1>3. /\ UNCHANGED <<disk, active, passed, tampered, faulty>> /\ fresh' = fresh \ {id}
      /\ dying' = dying \cup {id} /\ active # id
  BY DEF RemoveBegin, disk_vars, luck
<1>4. ImportStands' /\ ValidateStands' /\ InstallStands' /\ ActivateStands' /\ RemoveStands'
  BY <1>1, <1>2, <1>3 DEF ImportStands, ValidateStands, InstallStands, ActivateStands, RemoveStands
<1>5. OpStands' /\ RepeatedInstallSucceeds'
  BY <1>2, <1>4, NoAnswerIs DEF OpStands
<1>6. RegTyped' /\ DirsSound' /\ StagingSound' /\ FreshSound'
  BY <1>2, <1>3 DEF RegInv, RegTyped, DirsSound, StagingSound, FreshSound
<1>7. ActiveSound' /\ ActiveIsUsable'
  BY <1>3 DEF RegInv, ActiveSound, ActiveIsUsable, ModelPack, ModelPlace
<1>8. InstalledIsWhole'
  BY <1>3 DEF RegInv, InstalledIsWhole
<1> QED BY <1>5, <1>6, <1>7, <1>8 DEF RegInv

LEMMA RemoveErasedInv == ASSUME RegInv, RemoveErased PROVE RegInv'
<1>1. op.kind = "remove" /\ op.pc = "erase"
  BY DEF RemoveErased, At
<1>2. op.id \in Ids /\ done = NoAnswer /\ RemoveStands
  BY <1>1, UnderWay
<1>3. UNCHANGED <<disk, active, passed, tampered, dying, fresh>>
  BY DEF RemoveErased, disk_vars, history
<1>4. CASE Goto("sweep") /\ UNCHANGED luck
  <2>1. /\ op' \in Ops /\ op'.pc = "sweep" /\ op'.kind = "remove" /\ op'.id = op.id /\ op'.place = op.place
        /\ done' = NoAnswer
    BY <1>1, <1>2, <1>4, GotoIs DEF RegInv, Labels
  <2>2. ImportStands' /\ ValidateStands' /\ InstallStands' /\ ActivateStands' /\ RemoveStands'
    BY <1>1, <1>2, <1>3, <2>1
       DEF ImportStands, ValidateStands, InstallStands, ActivateStands, RemoveStands
  <2> QED BY <1>2, <1>3, <1>4, <2>1, <2>2, BeginInv
<1>5. CASE Fault /\ Answer("remove", op.id, FALSE)
  BY <1>3, <1>5, RefusedInv
<1> QED BY <1>4, <1>5 DEF RemoveErased

LEMMA RemoveSweptInv == ASSUME RegInv, RemoveSwept PROVE RegInv'
<1>1. UNCHANGED luck \/ Fault
  BY DEF RemoveSwept
<1>2. UNCHANGED <<disk, active, passed, tampered, dying, fresh>> /\ Answer("remove", op.id, TRUE)
  BY DEF RemoveSwept, disk_vars, history
<1> QED BY <1>1, <1>2, RefusedInv

(* What remove_all leaves of a package after one more entry.               *)
Shrunk(p, q) == /\ p.dir /\ (~q.dir => q = NoPack)
                /\ q.ok \in {p.ok, "none"} /\ q.rknn \in {p.rknn, "none"}
                /\ q.sha # "none" => q.sha = p.sha /\ q.dims = p.dims

LEMMA WithoutIs ==
  ASSUME NEW p \in Pack, p.dir, NEW f \in {"rknn", "man", "ok"}
  PROVE  Without(p, f) \in Pack /\ Shrunk(p, Without(p, f))
<1>1. CASE f = "rknn"
  <2> DEFINE q == [p EXCEPT !.rknn = "none"]
  <2>1. q \in Pack /\ q.dir = p.dir /\ q.rknn = "none" /\ q.ok = p.ok /\ q.sha = p.sha /\ q.dims = p.dims
    BY DEF Pack
  <2>2. Without(p, f) = q
    BY <1>1 DEF Without
  <2> HIDE DEF q
  <2> QED BY <2>1, <2>2 DEF Shrunk
<1>2. CASE f = "man"
  <2> DEFINE q == [p EXCEPT !.sha = "none", !.dims = FALSE]
  <2>1. q \in Pack /\ q.dir = p.dir /\ q.rknn = p.rknn /\ q.ok = p.ok /\ q.sha = "none"
    BY DEF Pack
  <2>2. Without(p, f) = q
    BY <1>2 DEF Without
  <2> HIDE DEF q
  <2> QED BY <2>1, <2>2 DEF Shrunk
<1>3. CASE f = "ok"
  <2> DEFINE q == [p EXCEPT !.ok = "none"]
  <2>1. q \in Pack /\ q.dir = p.dir /\ q.rknn = p.rknn /\ q.ok = "none" /\ q.sha = p.sha /\ q.dims = p.dims
    BY DEF Pack
  <2>2. Without(p, f) = q
    BY <1>3 DEF Without
  <2> HIDE DEF q
  <2> QED BY <2>1, <2>2 DEF Shrunk
<1> QED BY <1>1, <1>2, <1>3

LEMMA EraseFileIs ==
  ASSUME RegInv, op.pc # "idle", NEW place \in Places, EraseFile(place)
  PROVE  /\ \E q \in Pack : Put(place, op.id, q) /\ Shrunk(disk[place][op.id], q)
         /\ UNCHANGED <<active, op, done, faulty, passed, tampered, dying, fresh>>
<1>1. op.id \in Ids /\ disk[place][op.id] \in Pack /\ disk[place][op.id].dir
  BY UnderWay DEF EraseFile, RegInv, RegTyped
<1>2. UNCHANGED <<active, op, done, faulty, passed, tampered, dying, fresh>>
  BY DEF EraseFile, luck, history
<1>3. ASSUME NEW f \in {"rknn", "man", "ok"}, Put(place, op.id, Without(disk[place][op.id], f))
      PROVE \E q \in Pack : Put(place, op.id, q) /\ Shrunk(disk[place][op.id], q)
  BY <1>1, <1>3, WithoutIs
<1>4. ASSUME Put(place, op.id, NoPack)
      PROVE \E q \in Pack : Put(place, op.id, q) /\ Shrunk(disk[place][op.id], q)
  BY <1>1, <1>4, NoPackIs DEF Shrunk
<1> QED BY <1>2, <1>3, <1>4 DEF EraseFile

(* Entries of a staging directory are deleted: import, and the sweep of    *)
(* remove.                                                                 *)
LEMMA EraseStagedInv ==
  ASSUME RegInv, \/ op.kind = "import" /\ op.pc = "clear"
                 \/ op.kind = "remove" /\ op.pc = "sweep",
         EraseFile("staging")
  PROVE  RegInv'
<1>1. /\ op.id \in Ids /\ done = NoAnswer /\ op.id \notin fresh /\ Staged \in Pack
      /\ op.kind = "import" => ImportStands
      /\ op.kind = "remove" => RemoveStands
  BY UnderWay DEF ImportStands, RemoveStands
<1>2. PICK q \in Pack : Put("staging", op.id, q) /\ Shrunk(Staged, q)
  BY EraseFileIs, PlacesAre DEF Staged
<1>3. UNCHANGED <<active, op, done, faulty, passed, tampered, dying, fresh>>
  BY EraseFileIs, PlacesAre
<1>4. UNCHANGED <<disk["legacy"][op.id], disk["installed"][op.id]>>
  BY <1>1, <1>2, <1>3, PutIs, PlacesAre DEF RegInv
<1>5. ~disk["legacy"][op.id].dir
  BY <1>1, <1>2, NoPackIs DEF RegInv, DirsSound, Shrunk, Staged
<1>6. ImportStands' /\ ValidateStands' /\ InstallStands' /\ ActivateStands' /\ RemoveStands'
  BY <1>1, <1>3, <1>4
     DEF ImportStands, ValidateStands, InstallStands, ActivateStands, RemoveStands
<1>7. op' \in Ops /\ OpStands' /\ RepeatedInstallSucceeds'
  BY <1>1, <1>3, <1>6, NoAnswerIs DEF OpStands, RegInv, RegTyped
<1>8. q.ok # "none" => q.ok \in passed[op.id] /\ (~faulty' /\ q.sha # "none" => q.dims)
  BY <1>1, <1>2, <1>3 DEF RegInv, StagingSound, Shrunk, Staged
<1>9. ~q.dir => q = NoPack
  BY <1>2 DEF Shrunk
<1> QED BY <1>1, <1>2, <1>3, <1>5, <1>7, <1>8, <1>9, StagingInv

(* Entries of the model under removal are deleted, in either layout.       *)
LEMMA EraseModelInv ==
  ASSUME RegInv, op.kind = "remove", op.pc = "erase", EraseFile(op.place)
  PROVE  RegInv'
<1> DEFINE place == op.place
<1>1. /\ op.id \in Ids /\ done = NoAnswer /\ active # op.id /\ op.id \in dying /\ op.id \notin fresh
      /\ place \in {"installed", "legacy"}
  BY UnderWay DEF RemoveStands
<1>2. place \in Places
  BY <1>1, PlacesAre
<1>3. PICK q \in Pack : Put(place, op.id, q) /\ Shrunk(disk[place][op.id], q)
  BY <1>2, EraseFileIs
<1>4. UNCHANGED <<active, op, done, faulty, passed, tampered, dying, fresh>>
  BY <1>2, EraseFileIs
<1>5. /\ disk' \in [Places -> [Ids -> Pack]] /\ disk'[place][op.id] = q
      /\ \A r \in Places, i \in Ids : r # place \/ i # op.id => disk'[r][i] = disk[r][i]
  BY <1>1, <1>2, <1>3, PutIs DEF RegInv
<1>6. \A i \in Ids : disk'["staging"][i] = disk["staging"][i]
  BY <1>1, <1>5, PlacesAre
<1>7. \A i \in Ids : i # op.id => disk'["installed"][i] = disk["installed"][i] /\ disk'["legacy"][i] = disk["legacy"][i]
  BY <1>5, PlacesAre
<1>8. \/ place = "installed" /\ disk'["legacy"][op.id] = disk["legacy"][op.id]
      \/ place = "legacy" /\ disk'["installed"][op.id] = disk["installed"][op.id]
  BY <1>1, <1>5, PlacesAre
<1>9. RegTyped'
  BY <1>4, <1>5 DEF RegInv, RegTyped
<1>10. DirsSound'
  <2>1. disk[place][op.id].dir /\ (~q.dir => q = NoPack)
    BY <1>3 DEF Shrunk
  <2>2. SUFFICES ASSUME NEW i \in Ids
                 PROVE  /\ ~disk'["installed"][i].dir => disk'["installed"][i] = NoPack
                        /\ ~disk'["legacy"][i].dir => disk'["legacy"][i] = NoPack
                        /\ ~disk'["staging"][i].dir => disk'["staging"][i] = NoPack
                        /\ disk'["legacy"][i].dir => disk'["staging"][i] = NoPack /\ ~disk'["installed"][i].dir
    BY DEF DirsSound, NoPack
  <2>3. CASE i # op.id
    BY <1>6, <1>7, <2>3 DEF RegInv, DirsSound
  <2>4. CASE i = op.id
    BY <1>1, <1>5, <1>6, <1>8, <2>1, <2>4 DEF RegInv, DirsSound
  <2> QED BY <2>3, <2>4
<1>11. StagingSound' /\ FreshSound'
  BY <1>1, <1>4, <1>6, <1>7 DEF RegInv, StagingSound, FreshSound
<1>12. active # "" => ModelPack(active)' = ModelPack(active)
  BY <1>1, <1>4, <1>7 DEF RegInv, RegTyped, ModelPack, ModelPlace
<1>13. ActiveSound' /\ ActiveIsUsable'
  BY <1>4, <1>12 DEF RegInv, ActiveSound, ActiveIsUsable
<1>14. InstalledIsWhole'
  BY <1>1, <1>4, <1>7 DEF RegInv, InstalledIsWhole
<1>15. ImportStands' /\ ValidateStands' /\ InstallStands' /\ ActivateStands' /\ RemoveStands'
  BY <1>1, <1>4
     DEF ImportStands, ValidateStands, InstallStands, ActivateStands, RemoveStands
<1>16. OpStands' /\ RepeatedInstallSucceeds'
  BY <1>1, <1>4, <1>15, NoAnswerIs DEF OpStands
<1> QED BY <1>9, <1>10, <1>11, <1>13, <1>14, <1>16 DEF RegInv

LEMMA EraseInv == ASSUME RegInv, Erase PROVE RegInv'
  BY EraseStagedInv, EraseModelInv DEF Erase, At

-----------------------------------------------------------------------------
(* quarantine, the death of the process, a file replaced from outside      *)
LEMMA QuarantineInv == ASSUME RegInv, NEW id \in Ids, Quarantine(id) PROVE RegInv'
<1>1. /\ Put("staging", id, NoPack) /\ UNCHANGED <<active, passed, tampered, dying>> /\ fresh' = fresh \ {id}
      /\ UNCHANGED luck \/ Fault
  BY DEF Quarantine
<1>2. op' \in Ops /\ OpStands' /\ RepeatedInstallSucceeds'
  BY AnswerIs DEF Quarantine, RepeatedInstallSucceeds
<1> QED BY <1>1, <1>2, FaultIs, NoPackIs, StagingInv

LEMMA CrashInv == ASSUME RegInv, Crash PROVE RegInv'
<1>1. op' \in Ops /\ OpStands' /\ RepeatedInstallSucceeds'
  BY IdleIs, NoAnswerIs DEF Crash, OpStands
<1> QED BY <1>1, QuietInv DEF Crash, disk_vars, history

LEMMA StayInv == ASSUME RegInv, UNCHANGED regVars PROVE RegInv'
<1>1. UNCHANGED <<disk, active, op, done, faulty, passed, tampered, dying, fresh>>
  BY DEF regVars, luck, history
<1>2. op' \in Ops /\ RepeatedInstallSucceeds'
  BY <1>1 DEF RegInv, RegTyped, RepeatedInstallSucceeds
<1>3. OpStands'
  BY <1>1 DEF RegInv, OpStands, ImportStands, ValidateStands, InstallStands, ActivateStands, RemoveStands,
              Staged, ModelPack, ModelPlace
<1> QED BY <1>1, <1>2, <1>3, QuietInv

LEMMA TamperInv == ASSUME RegInv, Tamper PROVE RegInv'
<1>1. PICK place \in {"staging", "installed"}, id \in Ids, c \in Contents :
        /\ disk[place][id].rknn \notin {"none", c}
        /\ Put(place, id, [disk[place][id] EXCEPT !.rknn = c])
        /\ tampered' = IF place = "installed" THEN tampered \cup {id} ELSE tampered
        /\ fresh' = fresh \ {id}
  BY DEF Tamper
<1> DEFINE q == [disk[place][id] EXCEPT !.rknn = c]
<1>2. op.pc = "idle" /\ UNCHANGED <<active, op, done, faulty, passed, dying>>
  BY DEF Tamper
<1>3. place \in Places /\ disk[place][id] \in Pack
  BY PlacesAre DEF RegInv, RegTyped
<1>4. disk[place][id].dir
  BY <1>1, NoPackIs DEF RegInv, DirsSound
<1>5. /\ q \in Pack /\ q.dir /\ q.ok = disk[place][id].ok /\ q.sha = disk[place][id].sha
      /\ q.dims = disk[place][id].dims
  BY <1>3, <1>4 DEF Pack
<1>6. op' \in Ops /\ OpStands' /\ RepeatedInstallSucceeds'
  BY <1>1, <1>2 DEF RegInv, RegTyped, OpStands, RepeatedInstallSucceeds
<1>7. Put(place, id, q)
  BY <1>1
<1> HIDE DEF q
<1>8. CASE place = "staging"
  <2>1. ~disk["legacy"][id].dir
    BY <1>1, <1>8, NoPackIs DEF RegInv, DirsSound
  <2>2. q.ok # "none" => q.ok \in passed[id] /\ (~faulty' /\ q.sha # "none" => q.dims)
    BY <1>2, <1>5, <1>8 DEF RegInv, StagingSound
  <2>3. tampered' = tampered /\ id \notin fresh' /\ fresh' \subseteq fresh
    BY <1>1, <1>8
  <2> QED BY <1>2, <1>5, <1>6, <1>7, <1>8, <2>1, <2>2, <2>3, StagingInv
<1>9. CASE place = "installed"
  <2>1. tampered' = tampered \cup {id} /\ fresh' = fresh \ {id}
    BY <1>1, <1>9
  <2>2. /\ disk' \in [Places -> [Ids -> Pack]] /\ disk'["installed"][id] = q
        /\ \A r \in Places, i \in Ids : r # "installed" \/ i # id => disk'[r][i] = disk[r][i]
    BY <1>3, <1>5, <1>7, <1>9, PutIs DEF RegInv
  <2>3. \A i \in Ids : disk'["staging"][i] = disk["staging"][i] /\ disk'["legacy"][i] = disk["legacy"][i]
    BY <2>2, PlacesAre
  <2>4. \A i \in Ids : i # id => disk'["installed"][i] = disk["installed"][i]
    BY <2>2, PlacesAre
  <2>5. RegTyped'
    BY <1>2, <1>6, <2>2 DEF RegInv, RegTyped
  <2>6. DirsSound'
    BY <1>4, <1>5, <1>9, <2>2, <2>3, <2>4 DEF RegInv, DirsSound
  <2>7. StagingSound' /\ FreshSound'
    BY <1>2, <2>1, <2>3, <2>4 DEF RegInv, StagingSound, FreshSound
  <2>8. \A i \in Ids : i # id => ModelPack(i)' = ModelPack(i)
    BY <2>3, <2>4 DEF ModelPack, ModelPlace
  <2>9. ModelPack(id)'.dir
    BY <1>5, <2>2 DEF ModelPack, ModelPlace
  <2>10. ActiveSound'
    BY <1>2, <2>8, <2>9 DEF RegInv, RegTyped, ActiveSound, ModelPack, ModelPlace
  <2>11. ActiveIsUsable'
    BY <1>2, <2>1, <2>8 DEF RegInv, RegTyped, ActiveIsUsable, ModelPack, ModelPlace
  <2>12. InstalledIsWhole'
    BY <1>2, <2>1, <2>4 DEF RegInv, InstalledIsWhole
  <2> QED BY <1>6, <2>5, <2>6, <2>7, <2>10, <2>11, <2>12 DEF RegInv
<1> QED BY <1>8, <1>9

-----------------------------------------------------------------------------
(* Every request, every step.                                              *)
LEMMA RequestInv == ASSUME RegInv, Request PROVE RegInv'
  BY ImportRefusedInv, ImportBeginInv, ValidateRefusedInv, ValidateBeginInv, InstallRefusedInv,
     InstallReplayInv, InstallBeginInv, ActivateRefusedInv, ActivateBeginInv, RemoveRefusedInv,
     RemoveBeginInv, QuarantineInv, DeactivateInv
     DEF Request

LEMMA StepInv == ASSUME RegInv, Step PROVE RegInv'
  BY EraseInv, ImportCopyInv, ImportSourceGoneInv, ImportCopiedInv, ImportManifestInv, ValidateVoidInv,
     ValidateLoadInv, ValidateManifestInv, ValidateReportInv, InstallAssembleInv, InstallPublishInv,
     InstallAnsweredInv, ActivateProbeInv, ActivateSelectInv, RemoveErasedInv, RemoveSweptInv
     DEF Step

(* The library is touched by a handler that has the mutex, by the death of *)
(* the process and from outside; no other step of the server reaches it.   *)
LEMMA RegNext == ASSUME [Next]_vars PROVE Request \/ Step \/ Crash \/ Tamper \/ UNCHANGED regVars
<1>1. ASSUME NEW c \in Conns, Handle(c) PROVE Request
  BY <1>1 DEF Handle
<1>2. ASSUME NEW c \in Conns, Finish(c) PROVE UNCHANGED regVars
  BY <1>2 DEF Finish
<1>3. Work => Step
  BY DEF Work
<1>4. Connections \/ Accepting \/ Stopping \/ Destroy => UNCHANGED regVars
  BY DEF Connections, Accepting, Stopping, Destroy
<1>5. Die => Crash
  BY DEF Die
<1>6. Replace => Tamper
  BY DEF Replace
<1>7. UNCHANGED vars => UNCHANGED regVars
  BY DEF vars
<1> QED BY <1>1, <1>2, <1>3, <1>4, <1>5, <1>6, <1>7 DEF Next

LEMMA RegInvHolds == Spec => []RegInv
<1>1. Init => RegInv
  BY RegInitInv DEF Init
<1>2. RegInv /\ [Next]_vars => RegInv'
  BY RegNext, RequestInv, StepInv, CrashInv, TamperInv, StayInv
<1> QED BY <1>1, <1>2, PTL DEF Spec

(* What is selected can be run and what is installed is a whole, checked   *)
(* package, unless it was replaced from outside; an install that was       *)
(* published and not touched since is never refused.  However operations   *)
(* follow each other, fail at any file operation, or end with the process  *)
(* (ModelRegistry.cpp:645, :685, :769, :829).                              *)
THEOREM LibraryStaysSound == Spec => []LibraryIsSound
<1>1. RegInv => LibraryIsSound
  BY DEF RegInv, LibraryIsSound, PackagesAreWhole
<1> QED BY <1>1, RegInvHolds, PTL

-----------------------------------------------------------------------------
(* What may be published.                                                  *)
Checked ==
  \A id \in Ids :
    disk'["installed"][id].dir /\ ~disk["installed"][id].dir => disk'["installed"][id].rknn \in passed[id]

(* Only a package that appears where none was counts.                      *)
LEMMA PutChecked ==
  ASSUME RegInv, NEW place \in Places, NEW id, NEW p, Put(place, id, p),
         place # "installed" \/ disk["installed"][id].dir \/ ~p.dir
  PROVE  Checked
<1>1. disk \in [Places -> [Ids -> Pack]] /\ "installed" \in Places
  BY PlacesAre DEF RegInv, RegTyped
<1>2. ASSUME NEW i \in Ids
      PROVE disk'["installed"][i] = IF place = "installed" /\ i = id THEN p ELSE disk["installed"][i]
  BY <1>1 DEF Put
<1> QED BY <1>2 DEF Checked

LEMMA StillChecked == ASSUME UNCHANGED disk PROVE Checked
  BY DEF Checked

LEMMA EraseChecked == ASSUME RegInv, NEW place \in Places, EraseFile(place) PROVE Checked
<1>1. disk[place][op.id].dir
  BY DEF EraseFile
<1>2. PICK p : Put(place, op.id, p)
  BY DEF EraseFile
<1> QED BY <1>1, <1>2, PutChecked

LEMMA PublishChecked == ASSUME RegInv, InstallPublish PROVE Checked
<1>1. op.kind = "install" /\ op.pc = "publish"
  BY DEF InstallPublish, At
<1>2. op.id \in Ids /\ Credential(Staged) /\ Staged \in Pack
  BY <1>1, Installing
<1>3. Staged.rknn \in passed[op.id]
  BY <1>2 DEF RegInv, StagingSound, Staged, Credential, SumMatches
<1>4. CASE UNCHANGED disk
  BY <1>4, StillChecked
<1>5. CASE Put("installed", op.id, Staged)
  <2>1. disk \in [Places -> [Ids -> Pack]] /\ "installed" \in Places
    BY PlacesAre DEF RegInv, RegTyped
  <2>2. ASSUME NEW i \in Ids
        PROVE disk'["installed"][i] = IF i = op.id THEN Staged ELSE disk["installed"][i]
    BY <1>5, <2>1 DEF Put
  <2> QED BY <1>3, <2>2 DEF Checked
<1> QED BY <1>4, <1>5 DEF InstallPublish

LEMMA RequestChecked == ASSUME RegInv, Request PROVE Checked
<1>1. ASSUME NEW id \in Ids, Quarantine(id) PROVE Checked
  BY <1>1, PutChecked, PlacesAre DEF Quarantine
<1>2. \/ UNCHANGED disk
      \/ \E id \in Ids : Quarantine(id)
  BY DEF Request, ImportRefused, ImportBegin, ValidateRefused, ValidateBegin, InstallRefused, InstallReplay,
         InstallBegin, ActivateRefused, ActivateBegin, RemoveRefused, RemoveBegin, Deactivate, disk_vars
<1> QED BY <1>1, <1>2, StillChecked

LEMMA StepChecked == ASSUME RegInv, Step PROVE Checked
<1>1. CASE Erase
  <2>1. op.place \in Places
    BY DEF RegInv, RegTyped, Ops
  <2> QED BY <1>1, <2>1, EraseChecked, PlacesAre DEF Erase
<1>2. CASE ImportCopy
  BY <1>2, PutChecked, PlacesAre DEF ImportCopy
<1>3. CASE ImportCopied
  BY <1>3, PutChecked, PlacesAre, StillChecked DEF ImportCopied
<1>4. CASE ImportManifest
  BY <1>4, PutChecked, PlacesAre, StillChecked DEF ImportManifest
<1>5. CASE ValidateVoid
  BY <1>5, PutChecked, PlacesAre DEF ValidateVoid
<1>6. CASE ValidateManifest
  BY <1>6, PutChecked, PlacesAre, StillChecked DEF ValidateManifest
<1>7. CASE ValidateReport
  BY <1>7, PutChecked, PlacesAre, StillChecked DEF ValidateReport
<1>8. CASE InstallPublish
  BY <1>8, PublishChecked
<1>9. \/ Erase \/ ImportCopy \/ ImportCopied \/ ImportManifest \/ ValidateVoid \/ ValidateManifest
      \/ ValidateReport \/ InstallPublish \/ UNCHANGED disk
  BY DEF Step, ImportSourceGone, ValidateLoad, InstallAssemble, InstallAnswered, ActivateProbe, ActivateSelect,
         RemoveErased, RemoveSwept, disk_vars
<1> QED BY <1>1, <1>2, <1>3, <1>4, <1>5, <1>6, <1>7, <1>8, <1>9, StillChecked

LEMMA TamperChecked == ASSUME RegInv, Tamper PROVE Checked
<1>1. PICK place \in {"staging", "installed"}, id \in Ids, c \in Contents :
        /\ disk[place][id].rknn \notin {"none", c}
        /\ Put(place, id, [disk[place][id] EXCEPT !.rknn = c])
  BY DEF Tamper
<1>2. place \in Places /\ (place = "installed" => disk["installed"][id].dir)
  BY <1>1, NoPackIs, PlacesAre DEF RegInv, DirsSound
<1> QED BY <1>1, <1>2, PutChecked

(* What is published is what the validator last loaded with success: an    *)
(* older report never opens the way to a content that failed since, or     *)
(* that was put in its place (ModelRegistry.cpp:498, :609).                *)
THEOREM OnlyPassedHolds == Spec => OnlyPassedIsPublished
<1>1. RegInv /\ [Next]_vars => [Checked]_regVars
  BY RegNext, RequestChecked, StepChecked, TamperChecked, StillChecked DEF Crash, disk_vars
<1>2. [Checked]_regVars =>
        [\A id \in Ids :
            disk'["installed"][id].dir /\ ~disk["installed"][id].dir
                => disk'["installed"][id].rknn \in passed[id]]_regVars
  BY DEF Checked
<1> QED BY <1>1, <1>2, RegInvHolds, PTL DEF Spec, OnlyPassedIsPublished

-----------------------------------------------------------------------------
(* The threads of the server: the slots they hold, and the stop.           *)
Busy == {"reading", "waiting", "serving", "replying", "tail"}
Taking == {"count", "list", "spawn"}
OnItsWay == IF accPc \in {"list", "spawn"} THEN 1 ELSE 0

IpcTyped ==
  /\ running \in BOOLEAN /\ app \in BOOLEAN /\ count \in Nat
  /\ stopPc \in {"no", "join", "shut", "drain", "stopped"}
  /\ accPc \in Taking \cup {"top", "accept", "reject", "gone"}
  /\ conn \in [Conns -> Busy \cup {"free", "queued", "taken"}]

(* The accept thread is joined before anything else is taken down, and the *)
(* handlers' state outlives stop().                                        *)
StopSound ==
  /\ running <=> stopPc = "no"
  /\ stopPc \notin {"no", "join"} => accPc = "gone"
  /\ stopPc = "stopped" => listed = {}
  /\ ~app => stopPc = "stopped"

(* The accepted connection that has no thread yet is the accept thread's.  *)
AcceptSound ==
  /\ accPc \in Taking => cur \in Conns /\ conn[cur] = "taken"
  /\ \A c \in Conns : conn[c] = "taken" => accPc \in Taking /\ cur = c

(* A slot per thread, and one for the thread about to start; the list      *)
(* stop() waits for has every thread on it.                                *)
SlotsSound ==
  /\ stopPc # "stopped" => count = Cardinality(WithThread) + OnItsWay /\ count <= MaxConnections
  /\ accPc \in {"accept", "count"} => count < MaxConnections
  /\ listed = WithThread \cup (IF accPc = "spawn" THEN {cur} ELSE {})

IpcInv == IpcTyped /\ StopSound /\ AcceptSound /\ SlotsSound

LEMMA ThreadsAreFinite == IsFiniteSet(WithThread) /\ Cardinality(WithThread) \in Nat
<1>1. WithThread \subseteq Conns
  BY DEF WithThread
<1> QED BY <1>1, IpcAssumption, FS_Subset, FS_CardinalityType

(* The state of one connection changes.                                    *)
LEMMA SetIs ==
  ASSUME IpcTyped, NEW c \in Conns, NEW st \in Busy \cup {"free", "queued", "taken"}, Set(c, st)
  PROVE  /\ conn' \in [Conns -> Busy \cup {"free", "queued", "taken"}]
         /\ conn'[c] = st /\ \A d \in Conns : d # c => conn'[d] = conn[d]
         /\ st \in Busy => WithThread' = WithThread \cup {c}
         /\ st \notin Busy => WithThread' = WithThread \ {c}
<1>1. /\ conn' \in [Conns -> Busy \cup {"free", "queued", "taken"}]
      /\ conn'[c] = st /\ \A d \in Conns : d # c => conn'[d] = conn[d]
  BY DEF IpcTyped, Set
<1>2. \A d \in Conns : d \in WithThread <=> conn[d] \in Busy
  BY DEF WithThread, Busy
<1>3. \A d \in Conns : d \in WithThread' <=> conn'[d] \in Busy
  BY DEF WithThread, Busy
<1>4. WithThread \subseteq Conns /\ WithThread' \subseteq Conns
  BY DEF WithThread
<1> QED BY <1>1, <1>2, <1>3, <1>4

(* A thread goes on, or a connection changes that has none.                *)
LEMMA MoveInv ==
  ASSUME IpcInv, NEW c \in Conns, NEW st \in Busy \cup {"free", "queued"}, Set(c, st), conn[c] # "taken",
         conn[c] \in Busy <=> st \in Busy,
         UNCHANGED <<running, stopPc, accPc, cur, count, listed, app>>
  PROVE  IpcInv'
<1>1. /\ conn' \in [Conns -> Busy \cup {"free", "queued", "taken"}]
      /\ conn'[c] = st /\ \A d \in Conns : d # c => conn'[d] = conn[d]
      /\ st \in Busy => WithThread' = WithThread \cup {c}
      /\ st \notin Busy => WithThread' = WithThread \ {c}
  BY SetIs DEF IpcInv
<1>2. WithThread' = WithThread
  BY <1>1 DEF WithThread, Busy
<1>3. IpcTyped' /\ StopSound'
  BY <1>1 DEF IpcInv, IpcTyped, StopSound
<1>4. AcceptSound'
  BY <1>1 DEF IpcInv, AcceptSound, Busy
<1>5. SlotsSound'
  BY <1>2 DEF IpcInv, SlotsSound, OnItsWay
<1> QED BY <1>3, <1>4, <1>5 DEF IpcInv

(* A thread gives its slot back: it held one.                              *)
LEMMA TailInv == ASSUME IpcInv, NEW c \in Conns, ConnectionEnds(c), UNCHANGED app PROVE IpcInv'
<1>1. /\ conn[c] = "tail" /\ Set(c, "free") /\ count' = count - 1 /\ listed' = listed \ {c}
      /\ UNCHANGED <<running, stopPc, accPc, cur, app>>
  BY DEF ConnectionEnds
<1>2. /\ conn' \in [Conns -> Busy \cup {"free", "queued", "taken"}]
      /\ conn'[c] = "free" /\ \A d \in Conns : d # c => conn'[d] = conn[d]
      /\ WithThread' = WithThread \ {c}
  BY <1>1, SetIs DEF IpcInv, Busy
<1>3. c \in WithThread
  BY <1>1 DEF WithThread
<1>4. Cardinality(WithThread') = Cardinality(WithThread) - 1
  BY <1>2, <1>3, ThreadsAreFinite, FS_RemoveElement
<1>5. stopPc # "stopped"
  BY <1>3 DEF IpcInv, StopSound, SlotsSound
<1>6. count = Cardinality(WithThread) + OnItsWay /\ OnItsWay' = OnItsWay /\ OnItsWay \in Nat
      /\ Cardinality(WithThread') \in Nat
  <2>1. count = Cardinality(WithThread) + OnItsWay
    BY <1>5 DEF IpcInv, SlotsSound
  <2>2. OnItsWay' = OnItsWay /\ OnItsWay \in Nat
    BY <1>1 DEF OnItsWay
  <2>3. IsFiniteSet(WithThread')
    BY <1>2, <1>3, ThreadsAreFinite, FS_RemoveElement
  <2> QED BY <2>1, <2>2, <2>3, FS_CardinalityType
<1>7. /\ count' = Cardinality(WithThread') + OnItsWay' /\ count' \in Nat /\ count' <= count
  BY <1>1, <1>4, <1>6, ThreadsAreFinite DEF IpcInv, IpcTyped
<1>8. IpcTyped' /\ StopSound'
  BY <1>1, <1>2, <1>5, <1>7 DEF IpcInv, IpcTyped, StopSound
<1>9. AcceptSound'
  BY <1>1, <1>2 DEF IpcInv, AcceptSound
<1>10. accPc = "spawn" => cur # c
  BY <1>1 DEF IpcInv, AcceptSound, Taking
<1>11. listed' = WithThread' \cup (IF accPc' = "spawn" THEN {cur'} ELSE {})
  BY <1>1, <1>2, <1>10 DEF IpcInv, SlotsSound
<1>12. count \in Nat /\ MaxConnections \in Nat
  BY IpcAssumption DEF IpcInv, IpcTyped
<1>13. count' <= MaxConnections /\ (accPc' \in {"accept", "count"} => count' < MaxConnections)
  BY <1>1, <1>5, <1>7, <1>12 DEF IpcInv, SlotsSound
<1>14. SlotsSound'
  BY <1>7, <1>11, <1>13 DEF SlotsSound
<1> QED BY <1>8, <1>9, <1>14 DEF IpcInv

LEMMA ConnectionInv == ASSUME IpcInv, NEW c \in Conns, IpcStep(c), UNCHANGED app PROVE IpcInv'
<1>1. CASE Connect(c)
  BY <1>1, MoveInv DEF Connect, Busy
<1>2. CASE ReadLine(c)
  BY <1>2, MoveInv DEF ReadLine, Busy
<1>3. CASE ReadEnds(c)
  BY <1>3, MoveInv DEF ReadEnds, Busy
<1>4. CASE Ask(c)
  BY <1>4, MoveInv DEF Ask, Busy
<1>5. CASE Reply(c)
  BY <1>5, MoveInv DEF Reply, Busy
<1>6. CASE ConnectionEnds(c)
  BY <1>6, TailInv
<1> QED BY <1>1, <1>2, <1>3, <1>4, <1>5, <1>6 DEF IpcStep

LEMMA HandlerInv ==
  ASSUME IpcInv, NEW c \in Conns, Serve(c) \/ Served(c) \/ Threw(c), UNCHANGED app PROVE IpcInv'
<1>1. CASE Serve(c)
  BY <1>1, MoveInv DEF Serve, Busy
<1>2. CASE Served(c)
  BY <1>2, MoveInv DEF Served, Busy
<1>3. CASE Threw(c)
  BY <1>3, MoveInv DEF Threw, Busy
<1> QED BY <1>1, <1>2, <1>3

(* The accept thread goes on and no connection changes.                    *)
LEMMA AcceptTopInv == ASSUME IpcInv, AcceptTop, UNCHANGED app PROVE IpcInv'
<1>1. /\ accPc = "top" /\ UNCHANGED <<running, stopPc, cur, conn, count, listed, app>>
      /\ accPc' \in {"gone", "reject", "accept"}
      /\ accPc' = "gone" \/ running
      /\ accPc' = "accept" => ~(count >= MaxConnections)
  BY DEF AcceptTop
<1>2. count \in Nat /\ MaxConnections \in Nat
  BY IpcAssumption DEF IpcInv, IpcTyped
<1>3. accPc' = "accept" => count < MaxConnections
  BY <1>1, <1>2
<1>4. IpcTyped' /\ StopSound' /\ AcceptSound'
  BY <1>1 DEF IpcInv, IpcTyped, StopSound, AcceptSound, Taking
<1>5. WithThread' = WithThread
  BY <1>1 DEF WithThread
<1>6. SlotsSound'
  BY <1>1, <1>3, <1>5 DEF IpcInv, SlotsSound, OnItsWay
<1> QED BY <1>4, <1>6 DEF IpcInv

LEMMA AcceptInv == ASSUME IpcInv, Accept, UNCHANGED app PROVE IpcInv'
<1>1. accPc = "accept" /\ UNCHANGED <<running, stopPc, count, listed, app>>
  BY DEF Accept
<1>2. ASSUME NEW c \in Conns, conn[c] = "queued", cur' = c, Set(c, "taken"), accPc' = "count"
      PROVE IpcInv'
  <2>1. /\ conn' \in [Conns -> Busy \cup {"free", "queued", "taken"}]
        /\ conn'[c] = "taken" /\ \A d \in Conns : d # c => conn'[d] = conn[d]
        /\ WithThread' = WithThread \ {c}
    BY <1>2, SetIs DEF IpcInv, Busy
  <2>2. WithThread' = WithThread
    BY <1>2, <2>1 DEF WithThread
  <2>3. IpcTyped' /\ StopSound' /\ AcceptSound'
    BY <1>1, <1>2, <2>1 DEF IpcInv, IpcTyped, StopSound, AcceptSound, Taking
  <2>4. SlotsSound'
    BY <1>1, <1>2, <2>2 DEF IpcInv, SlotsSound, OnItsWay
  <2> QED BY <2>3, <2>4 DEF IpcInv
<1>3. ASSUME stopPc # "no", accPc' = "top", UNCHANGED <<cur, conn>> PROVE IpcInv'
  <2>1. IpcTyped' /\ StopSound' /\ AcceptSound'
    BY <1>1, <1>3 DEF IpcInv, IpcTyped, StopSound, AcceptSound, Taking
  <2>2. WithThread' = WithThread
    BY <1>3 DEF WithThread
  <2>3. SlotsSound'
    BY <1>1, <1>3, <2>2 DEF IpcInv, SlotsSound, OnItsWay
  <2> QED BY <2>1, <2>3 DEF IpcInv
<1> QED BY <1>2, <1>3 DEF Accept

LEMMA RejectInv == ASSUME IpcInv, Reject, UNCHANGED app PROVE IpcInv'
<1>1. accPc = "reject" /\ accPc' = "top" /\ UNCHANGED <<running, stopPc, cur, count, listed, app>>
  BY DEF Reject
<1>2. /\ conn' \in [Conns -> Busy \cup {"free", "queued", "taken"}]
      /\ \A d \in Conns : conn'[d] = conn[d] \/ (conn[d] = "queued" /\ conn'[d] = "free")
  <2>1. ASSUME NEW c \in Conns, conn[c] = "queued", Set(c, "free")
        PROVE  /\ conn' \in [Conns -> Busy \cup {"free", "queued", "taken"}]
               /\ \A d \in Conns : conn'[d] = conn[d] \/ (conn[d] = "queued" /\ conn'[d] = "free")
    BY <2>1, SetIs DEF IpcInv
  <2>2. CASE UNCHANGED conn
    BY <2>2 DEF IpcInv, IpcTyped
  <2> QED BY <2>1, <2>2 DEF Reject
<1>3. WithThread' = WithThread
  BY <1>2 DEF WithThread
<1>4. IpcTyped' /\ StopSound' /\ AcceptSound'
  BY <1>1, <1>2 DEF IpcInv, IpcTyped, StopSound, AcceptSound, Taking
<1>5. SlotsSound'
  BY <1>1, <1>3 DEF IpcInv, SlotsSound, OnItsWay
<1> QED BY <1>4, <1>5 DEF IpcInv

(* The slot is taken before the thread exists.                             *)
LEMMA CountConnInv == ASSUME IpcInv, CountConn, UNCHANGED app PROVE IpcInv'
<1>1. accPc = "count" /\ accPc' = "list" /\ count' = count + 1 /\ UNCHANGED <<running, stopPc, cur, conn, listed, app>>
  BY DEF CountConn
<1>2. count \in Nat /\ MaxConnections \in Nat /\ count < MaxConnections /\ OnItsWay = 0 /\ OnItsWay' = 1
  BY <1>1, IpcAssumption DEF IpcInv, IpcTyped, SlotsSound, OnItsWay
<1>3. count' \in Nat /\ count' <= MaxConnections
  BY <1>1, <1>2
<1>4. IpcTyped' /\ StopSound' /\ AcceptSound'
  BY <1>1, <1>3 DEF IpcInv, IpcTyped, StopSound, AcceptSound, Taking
<1>5. WithThread' = WithThread
  BY <1>1 DEF WithThread
<1>6. stopPc # "stopped" => count' = Cardinality(WithThread) + 1
  BY <1>1, <1>2, ThreadsAreFinite DEF IpcInv, SlotsSound
<1>7. SlotsSound'
  BY <1>1, <1>2, <1>3, <1>5, <1>6 DEF IpcInv, SlotsSound
<1> QED BY <1>4, <1>7 DEF IpcInv

LEMMA ListConnInv == ASSUME IpcInv, ListConn, UNCHANGED app PROVE IpcInv'
<1>1. /\ accPc = "list" /\ accPc' = "spawn" /\ listed' = listed \cup {cur}
      /\ UNCHANGED <<running, stopPc, cur, conn, count, app>>
  BY DEF ListConn
<1>2. stopPc \in {"no", "join"}
  BY <1>1 DEF IpcInv, StopSound
<1>3. IpcTyped' /\ StopSound' /\ AcceptSound'
  BY <1>1, <1>2 DEF IpcInv, IpcTyped, StopSound, AcceptSound, Taking
<1>4. WithThread' = WithThread
  BY <1>1 DEF WithThread
<1>5. SlotsSound'
  BY <1>1, <1>4 DEF IpcInv, SlotsSound, OnItsWay
<1> QED BY <1>3, <1>5 DEF IpcInv

LEMMA SpawnInv == ASSUME IpcInv, Spawn, UNCHANGED app PROVE IpcInv'
<1>1. /\ accPc = "spawn" /\ accPc' = "top" /\ Set(cur, "reading")
      /\ UNCHANGED <<running, stopPc, count, listed, app>>
  BY DEF Spawn
<1>2. cur \in Conns /\ conn[cur] = "taken" /\ \A c \in Conns : conn[c] = "taken" => cur = c
  BY <1>1 DEF IpcInv, AcceptSound, Taking
<1>3. /\ conn' \in [Conns -> Busy \cup {"free", "queued", "taken"}]
      /\ conn'[cur] = "reading" /\ \A d \in Conns : d # cur => conn'[d] = conn[d]
      /\ WithThread' = WithThread \cup {cur}
  BY <1>1, <1>2, SetIs DEF IpcInv, Busy
<1>4. cur \notin WithThread
  BY <1>2 DEF WithThread
<1>5. Cardinality(WithThread') = Cardinality(WithThread) + 1
  BY <1>3, <1>4, ThreadsAreFinite, FS_AddElement
<1>6. OnItsWay = 1 /\ OnItsWay' = 0
  BY <1>1 DEF OnItsWay
<1>7. stopPc # "stopped" => count' = Cardinality(WithThread') + OnItsWay' /\ count' <= MaxConnections
  BY <1>1, <1>5, <1>6, ThreadsAreFinite DEF IpcInv, SlotsSound
<1>8. IpcTyped' /\ StopSound' /\ AcceptSound'
  BY <1>1, <1>2, <1>3 DEF IpcInv, IpcTyped, StopSound, AcceptSound, Taking
<1>9. SlotsSound'
  BY <1>1, <1>3, <1>7 DEF IpcInv, SlotsSound
<1> QED BY <1>8, <1>9 DEF IpcInv

LEMMA AcceptStepInv == ASSUME IpcInv, AcceptStep, UNCHANGED app PROVE IpcInv'
  BY AcceptTopInv, AcceptInv, RejectInv, CountConnInv, ListConnInv, SpawnInv DEF AcceptStep

(* stop(): each step after the join finds the accept thread gone.          *)
LEMMA StopBeginInv == ASSUME IpcInv, StopBegin, UNCHANGED app PROVE IpcInv'
<1>1. running /\ running' = FALSE /\ stopPc' = "join" /\ UNCHANGED <<accPc, cur, conn, count, listed, app>>
  BY DEF StopBegin
<1>2. stopPc = "no"
  BY <1>1 DEF IpcInv, StopSound
<1>3. IpcTyped' /\ AcceptSound' /\ StopSound'
  <2>1. IpcTyped' /\ AcceptSound'
    BY <1>1 DEF IpcInv, IpcTyped, AcceptSound
  <2>2. app
    BY <1>2 DEF IpcInv, StopSound
  <2>3. StopSound'
    BY <1>1, <2>2 DEF StopSound
  <2> QED BY <2>1, <2>3
<1>4. WithThread' = WithThread
  BY <1>1 DEF WithThread
<1>5. SlotsSound'
  BY <1>1, <1>2, <1>4 DEF IpcInv, SlotsSound, OnItsWay
<1> QED BY <1>3, <1>5 DEF IpcInv

LEMMA StopJoinedInv == ASSUME IpcInv, StopJoined, UNCHANGED app PROVE IpcInv'
<1>1. /\ stopPc = "join" /\ accPc = "gone" /\ stopPc' = "shut" /\ UNCHANGED <<running, accPc, cur, count, listed, app>>
      /\ conn' = [c \in Conns |-> IF conn[c] = "queued" THEN "free" ELSE conn[c]]
  BY DEF StopJoined
<1>2. /\ conn' \in [Conns -> Busy \cup {"free", "queued", "taken"}]
      /\ \A d \in Conns : conn'[d] = conn[d] \/ (conn[d] = "queued" /\ conn'[d] = "free")
  BY <1>1 DEF IpcInv, IpcTyped
<1>3. IpcTyped' /\ StopSound' /\ AcceptSound'
  BY <1>1, <1>2 DEF IpcInv, IpcTyped, StopSound, AcceptSound
<1>4. WithThread' = WithThread
  BY <1>2 DEF WithThread
<1>5. SlotsSound'
  BY <1>1, <1>4 DEF IpcInv, SlotsSound, OnItsWay
<1> QED BY <1>3, <1>5 DEF IpcInv

LEMMA StopShutInv == ASSUME IpcInv, StopShut, UNCHANGED app PROVE IpcInv'
<1>1. stopPc = "shut" /\ stopPc' = "drain" /\ UNCHANGED <<running, accPc, cur, conn, count, listed, app>>
  BY DEF StopShut
<1>2. IpcTyped' /\ StopSound' /\ AcceptSound'
  BY <1>1 DEF IpcInv, IpcTyped, StopSound, AcceptSound
<1>3. WithThread' = WithThread
  BY <1>1 DEF WithThread
<1>4. SlotsSound'
  BY <1>1, <1>3 DEF IpcInv, SlotsSound, OnItsWay
<1> QED BY <1>2, <1>4 DEF IpcInv

LEMMA StopDrainedInv == ASSUME IpcInv, StopDrained, UNCHANGED app PROVE IpcInv'
<1>1. /\ stopPc = "drain" /\ listed = {} /\ stopPc' = "stopped" /\ count' = 0
      /\ UNCHANGED <<running, accPc, cur, conn, listed, app>>
  BY DEF StopDrained
<1>2. accPc = "gone"
  BY <1>1 DEF IpcInv, StopSound
<1>3. IpcTyped' /\ StopSound' /\ AcceptSound'
  BY <1>1, <1>2 DEF IpcInv, IpcTyped, StopSound, AcceptSound
<1>4. WithThread' = WithThread
  BY <1>1 DEF WithThread
<1>5. SlotsSound'
  BY <1>1, <1>2, <1>4 DEF IpcInv, SlotsSound
<1> QED BY <1>3, <1>5 DEF IpcInv

LEMMA IpcInitInv ==
  ASSUME running = TRUE, stopPc = "no", accPc = "top", conn = [c \in Conns |-> "free"], count = 0, listed = {},
         app = TRUE
  PROVE  IpcInv
<1>1. \A c \in Conns : conn[c] = "free"
  OBVIOUS
<1>2. WithThread = {}
  BY <1>1 DEF WithThread
<1>3. Cardinality(WithThread) = 0 /\ OnItsWay = 0 /\ MaxConnections \in Nat \ {0}
  BY <1>2, FS_EmptySet, IpcAssumption DEF OnItsWay
<1>4. IpcTyped /\ StopSound
  BY DEF IpcTyped, StopSound
<1>5. AcceptSound
  BY <1>1 DEF AcceptSound, Taking
<1>6. SlotsSound
  BY <1>2, <1>3 DEF SlotsSound
<1> QED BY <1>4, <1>5, <1>6 DEF IpcInv

LEMMA DieInv == ASSUME Die PROVE IpcInv'
<1>1. /\ running' = TRUE /\ stopPc' = "no" /\ accPc' = "top" /\ conn' = [c \in Conns |-> "free"]
      /\ count' = 0 /\ listed' = {} /\ app' = TRUE
  BY DEF Die
<1>2. \A c \in Conns : conn'[c] = "free"
  BY <1>1
<1>3. WithThread' = {}
  BY <1>2 DEF WithThread
<1>4. Cardinality(WithThread') = 0 /\ OnItsWay' = 0 /\ MaxConnections \in Nat \ {0}
  BY <1>1, <1>3, FS_EmptySet, IpcAssumption DEF OnItsWay
<1>5. IpcTyped' /\ StopSound'
  BY <1>1 DEF IpcTyped, StopSound
<1>6. AcceptSound'
  BY <1>1, <1>2 DEF AcceptSound, Taking
<1>7. SlotsSound'
  BY <1>1, <1>3, <1>4 DEF SlotsSound
<1> QED BY <1>5, <1>6, <1>7 DEF IpcInv

LEMMA DestroyInv == ASSUME IpcInv, Destroy PROVE IpcInv'
<1>1. stopPc = "stopped" /\ app' = FALSE /\ UNCHANGED <<running, stopPc, accPc, cur, conn, count, listed>>
  BY DEF Destroy, ipcVars
<1>2. IpcTyped' /\ StopSound' /\ AcceptSound'
  BY <1>1 DEF IpcInv, IpcTyped, StopSound, AcceptSound
<1>3. WithThread' = WithThread
  BY <1>1 DEF WithThread
<1>4. SlotsSound'
  BY <1>1, <1>3 DEF IpcInv, SlotsSound, OnItsWay
<1> QED BY <1>2, <1>4 DEF IpcInv

LEMMA IpcStayInv == ASSUME IpcInv, UNCHANGED <<ipcVars, app>> PROVE IpcInv'
<1>1. UNCHANGED <<running, stopPc, accPc, cur, conn, count, listed, app>>
  BY DEF ipcVars
<1>2. IpcTyped' /\ StopSound' /\ AcceptSound'
  BY <1>1 DEF IpcInv, IpcTyped, StopSound, AcceptSound
<1>3. WithThread' = WithThread
  BY <1>1 DEF WithThread
<1>4. SlotsSound'
  BY <1>1, <1>3 DEF IpcInv, SlotsSound, OnItsWay
<1> QED BY <1>2, <1>4 DEF IpcInv

LEMMA IpcNext == ASSUME IpcInv, [Next]_vars PROVE IpcInv'
<1>1. ASSUME NEW c \in Conns, Handle(c) \/ Finish(c) PROVE IpcInv'
  BY <1>1, HandlerInv DEF Handle, Finish
<1>2. CASE Work
  BY <1>2, IpcStayInv DEF Work
<1>3. CASE Connections
  BY <1>3, ConnectionInv DEF Connections
<1>4. CASE Accepting
  BY <1>4, AcceptStepInv DEF Accepting
<1>5. CASE Stopping
  BY <1>5, StopBeginInv, StopJoinedInv, StopShutInv, StopDrainedInv DEF Stopping, StopStep
<1>6. CASE Destroy
  BY <1>6, DestroyInv
<1>7. CASE Die
  BY <1>7, DieInv
<1>8. CASE Replace
  BY <1>8, IpcStayInv DEF Replace
<1>9. CASE UNCHANGED vars
  BY <1>9, IpcStayInv DEF vars
<1> QED BY <1>1, <1>2, <1>3, <1>4, <1>5, <1>6, <1>7, <1>8, <1>9 DEF Next

LEMMA IpcSound == ASSUME IpcInv PROVE ThreadsAreAccounted
<1>1. stopPc # "stopped" => Cardinality(WithThread) <= MaxConnections
  <2>1. OnItsWay \in Nat /\ Cardinality(WithThread) \in Nat /\ MaxConnections \in Nat
    BY ThreadsAreFinite, IpcAssumption DEF OnItsWay
  <2> QED BY <2>1 DEF IpcInv, SlotsSound
<1>2. stopPc = "stopped" => WithThread = {} /\ accPc = "gone"
  BY DEF IpcInv, StopSound, SlotsSound
<1>3. stopPc = "stopped" => Cardinality(WithThread) <= MaxConnections
  BY <1>2, FS_EmptySet, IpcAssumption
<1>4. SlotsAreCounted
  BY <1>1, <1>3 DEF IpcInv, SlotsSound, SlotsAreCounted, OnItsWay
<1> QED BY <1>2, <1>4 DEF ThreadsAreAccounted, NoThreadOutlivesStop, IpcInv, StopSound

(* For any number of connections and any limit: never more threads than    *)
(* the limit, the counter exact, and no thread left when stop() has        *)
(* returned and what the handlers use is destroyed (IpcServer.cpp:408,     *)
(* :451, :481, Application.cpp:1269).                                      *)
THEOREM ThreadsStayAccounted == Spec => []ThreadsAreAccounted
<1>1. Init => IpcInv
  BY IpcInitInv DEF Init, IpcInit
<1>2. IpcInv /\ [Next]_vars => IpcInv'
  BY IpcNext
<1> QED BY <1>1, <1>2, IpcSound, PTL DEF Spec
-----------------------------------------------------------------------------
(* The configuration, for every set of documents and any number of         *)
(* requests, failed calls, crashes and releases.  What a save will put     *)
(* into memory, and what the next start would read of the file, must be    *)
(* carried along.                                                          *)

(* A list of hotkeys, and a document.                                      *)
IsList(a) == a = [i \in DOMAIN a |-> a[i]] /\ (a = <<>> \/ 1 \in DOMAIN a)
IsDoc(d) == /\ d = [k \in DOMAIN d |-> d[k]] /\ DOMAIN d \subseteq Leaves
            /\ "aims" \in DOMAIN d => IsList(d["aims"])

(* A profile that from_json has read, or the default.                      *)
IsProfile(p) ==
  /\ p = [model |-> p.model, roi |-> p.roi, conf |-> p.conf, zc |-> p.zc, aims |-> p.aims]
  /\ p.roi # "tiny" /\ IsList(p.aims) /\ p.aims # <<>>
  /\ \A i \in DOMAIN p.aims : p.aims[i] # "outside"

LEMMA GivenDocs == \A d \in Factories \cup DeviceDocs \cup Requests : IsDoc(d)
<1> SUFFICES ASSUME NEW d \in Factories \cup DeviceDocs \cup Requests PROVE IsDoc(d)
  OBVIOUS
<1>1. d = [k \in DOMAIN d |-> d[k]] /\ DOMAIN d \subseteq Leaves
  BY ConfigAssumption
<1>2. ASSUME "aims" \in DOMAIN d PROVE IsList(d["aims"])
  <2>1. d["aims"] \in Seq(Hotkeys)
    BY <1>2, ConfigAssumption
  <2> QED BY <2>1 DEF IsList
<1> QED BY <1>1, <1>2 DEF IsDoc

LEMMA EmptyDoc == IsDoc(NoDoc) /\ DOMAIN NoDoc = {}
BY DEF IsDoc, NoDoc

LEMMA TornIsNoDoc == \A d : IsDoc(d) => d # Torn
BY DEF IsDoc, Torn, Leaves, ProfileKeys

LEMMA Merged ==
  ASSUME NEW under, NEW over, IsDoc(under), IsDoc(over)
  PROVE  /\ Merge(under, over) = [k \in DOMAIN under \cup DOMAIN over |->
                                    IF k \in DOMAIN over THEN over[k] ELSE under[k]]
         /\ IsDoc(Merge(under, over))
BY DEF Merge, IsDoc

LEMMA MergedIsDoc ==
  ASSUME NEW under, NEW over, IsDoc(under), IsDoc(over)
  PROVE  /\ IsDoc(Merge(under, over))
         /\ DOMAIN under \subseteq DOMAIN Merge(under, over)
         /\ DOMAIN over \subseteq DOMAIN Merge(under, over)
BY DEF Merge, IsDoc

(* What layer_diff takes out, merging puts back.                           *)
LEMMA DiffRestores ==
  ASSUME NEW view, NEW under, IsDoc(view), IsDoc(under), DOMAIN under \subseteq DOMAIN view
  PROVE  IsDoc(Diff(view, under)) /\ Merge(under, Diff(view, under)) = view
<1>1. IsDoc(Diff(view, under))
  BY DEF Diff, IsDoc
<1>2. \A k \in DOMAIN view : k \notin DOMAIN Diff(view, under) => k \in DOMAIN under /\ view[k] = under[k]
  BY DEF Diff
<1>3. \A k \in DOMAIN Diff(view, under) : k \in DOMAIN view /\ Diff(view, under)[k] = view[k]
  BY DEF Diff
<1> HIDE DEF Diff
<1>4. Merge(under, Diff(view, under)) = [k \in DOMAIN view |-> view[k]]
  BY <1>1, <1>2, <1>3, Merged
<1> QED BY <1>1, <1>4 DEF IsDoc

LEMMA OutRestores ==
  ASSUME NEW view, IsDoc(view), IsDoc(base), DOMAIN base \subseteq DOMAIN view, ~layered => base = NoDoc
  PROVE  IsDoc(Out(view)) /\ Merge(base, Out(view)) = view
<1>1. CASE layered
  BY <1>1, DiffRestores DEF Out
<1>2. CASE ~layered
  <2>1. Merge(base, view) = [k \in DOMAIN view |-> view[k]]
    BY <1>2, EmptyDoc DEF Merge
  <2> QED BY <1>2, <2>1 DEF Out, IsDoc
<1> QED BY <1>1, <1>2

LEMMA SectionIsDoc ==
  ASSUME NEW doc, IsDoc(doc) PROVE IsDoc(Section(doc)) /\ DOMAIN Section(doc) \subseteq ProfileKeys
BY DEF IsDoc, Section

LEMMA BitsKnown == \A v : Bits(v) # "outside" /\ (v # "outside" => Bits(v) = v)
BY DEF Bits

LEMMA ReadIsProfile ==
  ASSUME NEW doc, IsDoc(doc) PROVE IsProfile(FromJson(doc))
<1> DEFINE p == FromJson(doc)
           given == Get(doc, "aims", <<>>)
<1>1. p = [model |-> p.model, roi |-> p.roi, conf |-> p.conf, zc |-> p.zc, aims |-> p.aims]
      /\ p.roi # "tiny" /\ p.aims = Aims(doc)
  BY DEF FromJson, Heal
<1>2. IsList(given)
  BY DEF Get, IsDoc, IsList
<1>3. IsList(Aims(doc)) /\ Aims(doc) # <<>> /\ \A i \in DOMAIN Aims(doc) : Aims(doc)[i] # "outside"
  <2>1. CASE given = <<>>
    <3>1. Aims(doc) = <<Bits(Get(doc, "hotkey", Default.aims[1]))>>
      BY <2>1 DEF Aims
    <3> QED BY <3>1, BitsKnown DEF IsList
  <2>2. CASE given # <<>>
    <3>1. Aims(doc) = [i \in DOMAIN given |-> Bits(given[i])]
      BY <2>2 DEF Aims
    <3>2. 1 \in DOMAIN given
      BY <1>2, <2>2 DEF IsList
    <3> QED BY <3>1, <3>2, BitsKnown DEF IsList
  <2> QED BY <2>1, <2>2
<1> QED BY <1>1, <1>3 DEF IsProfile

LEMMA WrittenIsDoc ==
  ASSUME NEW p, IsProfile(p)
  PROVE  IsDoc(ToJson(p)) /\ DOMAIN ToJson(p) = ProfileKeys
BY DEF IsDoc, IsProfile, ToJson, Leaves, ProfileKeys

(* What was read and is written reads as it was.                           *)
LEMMA RoundTrip ==
  ASSUME NEW p, IsProfile(p)
  PROVE  /\ FromJson(ToJson(p)).model = p.model /\ FromJson(ToJson(p)).roi = p.roi
         /\ FromJson(ToJson(p)).conf = p.conf /\ FromJson(ToJson(p)).aims = p.aims
         /\ ToJson(FromJson(ToJson(p))) = ToJson(p)
<1> DEFINE j == ToJson(p)
<1>1. DOMAIN j = ProfileKeys
  BY WrittenIsDoc
<1>2. /\ j["model"] = p.model /\ j["roi"] = p.roi /\ j["conf"] = p.conf /\ j["aims"] = p.aims
      /\ j["zc"] # "unset" /\ j["zc"] = IF p.zc = "unset" THEN "on" ELSE p.zc
  BY DEF ToJson
<1> HIDE DEF j
<1>3. Aims(j) = p.aims
  <2>1. Get(j, "aims", <<>>) = p.aims
    BY <1>1, <1>2 DEF Get, ProfileKeys
  <2>2. Aims(j) = [i \in DOMAIN p.aims |-> Bits(p.aims[i])]
    BY <2>1 DEF Aims, IsProfile
  <2>3. Aims(j) = [i \in DOMAIN p.aims |-> p.aims[i]]
    BY <2>2, BitsKnown DEF IsProfile
  <2> QED BY <2>3 DEF IsProfile, IsList
<1>4. FromJson(j) = [model |-> p.model, roi |-> p.roi, conf |-> p.conf, zc |-> j["zc"], aims |-> p.aims]
  BY <1>1, <1>2, <1>3 DEF FromJson, Get, ProfileKeys, Heal, IsProfile
<1>5. ToJson(FromJson(j)) = ToJson(p)
  BY <1>2, <1>4 DEF ToJson
<1> QED BY <1>4, <1>5 DEF j

(* The section of a document a profile was written into.                   *)
LEMMA WrittenInto ==
  ASSUME NEW doc, NEW p, IsDoc(doc), IsProfile(p)
  PROVE  /\ IsDoc(WithProfile(doc, p)) /\ DOMAIN doc \subseteq DOMAIN WithProfile(doc, p)
         /\ Section(WithProfile(doc, p)) = ToJson(p)
<1> DEFINE j == ToJson(p)
<1>1. IsDoc(j) /\ DOMAIN j = ProfileKeys
  BY WrittenIsDoc
<1> HIDE DEF j
<1>2. WithProfile(doc, p) = [k \in ProfileKeys \cup DOMAIN doc |-> IF k \in ProfileKeys THEN j[k] ELSE doc[k]]
  BY <1>1 DEF WithProfile, Merge, j
<1>3. IsDoc(WithProfile(doc, p))
  BY <1>1, <1>2 DEF IsDoc, Leaves, ProfileKeys
<1>4. Section(WithProfile(doc, p)) = [k \in ProfileKeys |-> j[k]]
  BY <1>2 DEF Section
<1> QED BY <1>1, <1>2, <1>3, <1>4 DEF IsDoc, j
-----------------------------------------------------------------------------
(* What the files hold, and a save in the middle of its system calls.      *)
Bases == IF layered THEN Factories ELSE {NoDoc}

DiskSound ==
  /\ factory \in Factories /\ IsDoc(device) /\ \A d \in durable : IsDoc(d)
  /\ "faults" \in DOMAIN used /\ used.faults \in Nat

InFile == job # NoJob /\ job.step \in {"sync", "publish"}

(* The documents in memory are those of the files; a save that has changed *)
(* the file and not the memory yet has what it will put there.             *)
MemorySound ==
  pc # "down" =>
    /\ base \in Bases /\ IsDoc(root) /\ DOMAIN base \subseteq DOMAIN root
    /\ Merge(base, device) = IF InFile THEN job.view ELSE root

Started == pc \in {"params", "run"}

ProfileSound ==
  /\ pc = "profile" => profile = NoProfile
  /\ Started /\ profile # NoProfile =>
       /\ IsProfile(profile)
       /\ ToJson(FromJson(Section(root))) = ToJson(profile)
       /\ used.faults = 0 => Section(root) = ToJson(profile)

Written(view, p) == IsProfile(p) /\ Section(view) = ToJson(p)

JobSound ==
  job # NoJob =>
    /\ DOMAIN job = {"kind", "view", "profile", "step", "next"}
    /\ pc \in {"profile", "params", "run"}
    /\ job.step \in {"write", "rename", "sync", "publish"} /\ job.next \in {"params", "run"}
    /\ IsDoc(job.view) /\ DOMAIN root \subseteq DOMAIN job.view
    /\ IF job.kind = "migrate"
       THEN Started /\ job.profile = profile /\ Section(job.view) = Section(root)
       ELSE Written(job.view, job.profile)
    /\ job.kind = "heal" <=> pc = "profile"
    /\ job.kind = "heal" => job.profile = FromJson(Section(root))

ConfigInv == DiskSound /\ MemorySound /\ ProfileSound /\ JobSound

LEMMA BasesAreDocs == \A b \in Bases : IsDoc(b)
BY GivenDocs, EmptyDoc DEF Bases

LEMMA RecordIsNoDoc ==
  /\ \A kind, view, p, step, next :
       [kind |-> kind, view |-> view, profile |-> p, step |-> step, next |-> next] # NoJob
  /\ \A p : IsProfile(p) => p # NoProfile
BY EmptyDoc DEF NoJob, NoProfile, IsProfile

LEMMA ConfigInitInv == ConfigInit => ConfigInv
BY GivenDocs DEF ConfigInit, ConfigInv, DiskSound, MemorySound, ProfileSound, Started, JobSound

(* Faults are only ever counted up.                                        *)
LEMMA Counted ==
  ASSUME NEW what \in {"requests", "crashes", "upgrades"}, NEW max, Use(what, max)
  PROVE  used'.faults = used.faults /\ DOMAIN used' = DOMAIN used
BY DEF Use

LEMMA FaultCounted ==
  ASSUME "faults" \in DOMAIN used, used.faults \in Nat, Use("faults", MaxFaults)
  PROVE  "faults" \in DOMAIN used' /\ used'.faults \in Nat \ {0}
BY DEF Use

LEMMA LoadInv == ASSUME ConfigInv, Load PROVE ConfigInv'
<1> USE DEF ConfigInv
<1>1. pc = "down" /\ pc' = "profile" /\ profile' = NoProfile /\ UNCHANGED <<files, job, used>>
  BY DEF Load
<1>2. job = NoJob /\ job' = NoJob
  BY <1>1 DEF JobSound
<1>3. base' = IF layered THEN factory ELSE NoDoc
  BY DEF Load
<1>4. base' \in Bases /\ Bases' = Bases
  BY <1>1, <1>3 DEF Bases, DiskSound, files
<1>5. IsDoc(base') /\ IsDoc(device)
  BY <1>4, BasesAreDocs DEF DiskSound
<1>6. root' = Merge(base', device)
  BY DEF Load
<1>7. IsDoc(root') /\ DOMAIN base' \subseteq DOMAIN root'
  BY <1>5, <1>6, MergedIsDoc
<1> QED BY <1>1, <1>2, <1>4, <1>6, <1>7 DEF DiskSound, MemorySound, InFile, ProfileSound, Started, JobSound, files

(* A save that starts changes nothing yet.                                 *)
LEMMA StartSaveInv ==
  ASSUME ConfigInv, NEW kind, NEW view, NEW p, NEW next \in {"params", "run"},
         StartSave(kind, view, p, next), NotSaving, UNCHANGED <<files, memory, pc>>,
         used'.faults = used.faults, DOMAIN used' = DOMAIN used,
         pc \in {"profile", "params", "run"}, IsDoc(view), DOMAIN root \subseteq DOMAIN view,
         IF kind = "migrate" THEN Started /\ p = profile /\ Section(view) = Section(root)
                             ELSE Written(view, p),
         kind = "heal" <=> pc = "profile", kind = "heal" => p = FromJson(Section(root))
  PROVE  ConfigInv'
<1> USE DEF ConfigInv
<1>1. job' = [kind |-> kind, view |-> view, profile |-> p, step |-> "write", next |-> next]
  BY DEF StartSave
<1>2. job' # NoJob /\ ~InFile' /\ ~InFile
  BY <1>1, RecordIsNoDoc DEF InFile, NotSaving
<1>3. UNCHANGED <<layered, factory, device, durable, base, root, profile>>
  BY DEF files, memory
<1>4. DiskSound' /\ ProfileSound'
  BY <1>3 DEF DiskSound, ProfileSound, Started
<1>5. MemorySound'
  BY <1>2, <1>3 DEF MemorySound, Bases
<1>6. JobSound'
  BY <1>1, <1>3 DEF JobSound, Started, Written
<1> QED BY <1>4, <1>5, <1>6

LEMMA LoadProfileInv == ASSUME ConfigInv, LoadProfile PROVE ConfigInv'
<1> USE DEF ConfigInv
<1> DEFINE section == Section(root)
           p == FromJson(section)
<1>1. /\ pc = "profile" /\ job = NoJob /\ profile = NoProfile
      /\ UNCHANGED <<files, base, root, used>> /\ IsDoc(root)
  BY DEF LoadProfile, NotSaving, ProfileSound, MemorySound
<1>2. IsProfile(p)
  BY <1>1, SectionIsDoc, ReadIsProfile
<1>3. CASE job' = NoJob /\ pc' = "params" /\ (profile' = NoProfile \/ (profile' = p /\ ToJson(p) = section))
  <2>1. DiskSound' /\ JobSound'
    BY <1>1, <1>3 DEF DiskSound, JobSound, files
  <2>2. MemorySound'
    BY <1>1, <1>3 DEF MemorySound, InFile, Bases, files
  <2>3. ProfileSound'
    BY <1>1, <1>2, <1>3 DEF ProfileSound, Started
  <2> QED BY <2>1, <2>2, <2>3
<1>4. CASE StartSave("heal", WithProfile(root, p), p, "params") /\ UNCHANGED <<pc, profile>>
  <2>1. /\ IsDoc(WithProfile(root, p)) /\ DOMAIN root \subseteq DOMAIN WithProfile(root, p)
        /\ Written(WithProfile(root, p), p)
    BY <1>1, <1>2, WrittenInto DEF Written
  <2> HIDE DEF p
  <2>2. UNCHANGED <<files, memory, pc>> /\ used'.faults = used.faults /\ DOMAIN used' = DOMAIN used /\ NotSaving
    BY <1>1, <1>4 DEF memory, NotSaving
  <2> QED BY <1>1, <1>4, <2>1, <2>2, StartSaveInv DEF p
<1> QED BY <1>1, <1>3, <1>4 DEF LoadProfile

LEMMA RefuseProfileInv == ASSUME ConfigInv, RefuseProfile PROVE ConfigInv'
BY DEF ConfigInv, RefuseProfile, NotSaving, DiskSound, MemorySound, InFile, Bases, ProfileSound, Started,
       JobSound, files, memory

LEMMA BuildParamsInv == ASSUME ConfigInv, BuildParams PROVE ConfigInv'
<1> USE DEF ConfigInv
<1>1. pc \in {"params", "run"} /\ job = NoJob /\ UNCHANGED <<files, memory, used>> /\ IsDoc(root)
  BY DEF BuildParams, NotSaving, MemorySound
<1>2. CASE pc = "params" /\ pc' = "run" /\ UNCHANGED job
  BY <1>1, <1>2 DEF DiskSound, MemorySound, InFile, Bases, ProfileSound, Started, JobSound, files, memory
<1>3. CASE StartSave("migrate", Merge(root, [out |-> "on"]), profile, "run") /\ UNCHANGED pc
  <2> DEFINE on == [out |-> "on"]
             view == Merge(root, on)
  <2>1. IsDoc(on) /\ DOMAIN on = {"out"}
    BY DEF IsDoc, Leaves
  <2>2. view = [k \in DOMAIN root \cup {"out"} |-> IF k = "out" THEN "on" ELSE root[k]]
    BY DEF Merge
  <2>3. IsDoc(view) /\ DOMAIN root \subseteq DOMAIN view
    BY <1>1, <2>1, MergedIsDoc
  <2>4. Section(view) = Section(root)
    BY <2>2 DEF Section, ProfileKeys
  <2>5. Started /\ NotSaving
    BY <1>1 DEF Started, NotSaving
  <2> HIDE DEF view
  <2> QED BY <1>1, <1>3, <2>3, <2>4, <2>5, StartSaveInv DEF view
<1> QED BY <1>2, <1>3 DEF BuildParams

LEMMA SaveRequestInv ==
  ASSUME ConfigInv, NEW kind \in {"set", "sync"}, NEW p, IsProfile(p), pc = "run", NotSaving,
         Use("requests", MaxRequests), StartSave(kind, WithProfile(root, p), p, "run"),
         UNCHANGED <<files, memory, pc>>
  PROVE  ConfigInv'
<1>1. IsDoc(root)
  BY DEF ConfigInv, MemorySound
<1> DEFINE view == WithProfile(root, p)
<1>2. IsDoc(view) /\ DOMAIN root \subseteq DOMAIN view /\ Written(view, p)
  BY <1>1, WrittenInto DEF Written
<1>3. used'.faults = used.faults /\ DOMAIN used' = DOMAIN used
  BY Counted
<1> HIDE DEF view
<1> QED BY <1>2, <1>3, StartSaveInv DEF view

LEMMA SetConfigInv == ASSUME ConfigInv, NEW r \in Requests, SetConfig(r) PROVE ConfigInv'
<1>1. IsProfile(FromJson(r))
  BY GivenDocs, ReadIsProfile
<1> QED BY <1>1, SaveRequestInv DEF SetConfig

LEMMA SyncModelInv == ASSUME ConfigInv, NEW m \in Models, SyncModel(m) PROVE ConfigInv'
<1> DEFINE current == IF profile = NoProfile THEN Default ELSE profile
           p == [current EXCEPT !.model = m]
<1>1. IsProfile(Default)
  BY DEF IsProfile, IsList, Default
<1>2. pc = "run" /\ IsProfile(current)
  BY <1>1 DEF SyncModel, ConfigInv, ProfileSound, Started
<1> HIDE DEF current
<1>3. IsProfile(p)
  BY <1>2 DEF IsProfile
<1>4. /\ NotSaving /\ Use("requests", MaxRequests) /\ UNCHANGED <<files, memory, pc>>
      /\ StartSave("sync", WithProfile(root, p), p, "run")
  BY DEF SyncModel, current
<1> HIDE DEF p
<1> QED BY <1>2, <1>3, <1>4, SaveRequestInv

(* From one system call to the next.                                       *)
LEMMA WentOn ==
  ASSUME ConfigInv, NEW from, NEW to, SaveGoes(from, to)
  PROVE  /\ job # NoJob /\ job.step = from /\ job' # NoJob /\ job'.step = to
         /\ job'.kind = job.kind /\ job'.view = job.view /\ job'.profile = job.profile
         /\ job'.next = job.next /\ DOMAIN job' = DOMAIN job
<1>1. job # NoJob /\ job.step = from /\ job' = [job EXCEPT !.step = to]
  BY DEF SaveGoes
<1>2. DOMAIN job = {"kind", "view", "profile", "step", "next"}
  BY <1>1 DEF ConfigInv, JobSound
<1>3. DOMAIN job' = DOMAIN job
  BY <1>1
<1>4. job' # NoJob
  BY <1>2, <1>3, EmptyDoc DEF NoJob
<1> QED BY <1>1, <1>2, <1>3, <1>4

LEMMA WriteTempInv == ASSUME ConfigInv, WriteTemp PROVE ConfigInv'
<1> USE DEF ConfigInv
<1>1. /\ job # NoJob /\ job.step = "write" /\ job' # NoJob /\ job'.step = "rename"
      /\ job'.kind = job.kind /\ job'.view = job.view /\ job'.profile = job.profile
      /\ job'.next = job.next /\ DOMAIN job' = DOMAIN job
  BY WentOn DEF WriteTemp
<1>2. UNCHANGED <<layered, factory, device, durable, base, root, profile, pc, used>>
  BY DEF WriteTemp, files, memory
<1> QED BY <1>1, <1>2 DEF DiskSound, MemorySound, InFile, Bases, ProfileSound, Started, JobSound, Written

LEMMA RenameInv == ASSUME ConfigInv, Rename PROVE ConfigInv'
<1> USE DEF ConfigInv
<1>1. /\ job # NoJob /\ job.step = "rename" /\ job' # NoJob /\ job'.step = "sync"
      /\ job'.kind = job.kind /\ job'.view = job.view /\ job'.profile = job.profile
      /\ job'.next = job.next /\ DOMAIN job' = DOMAIN job
  BY WentOn DEF Rename
<1>2. /\ device' = Out(job.view) /\ durable' = durable \cup {device'}
      /\ UNCHANGED <<layered, factory, base, root, profile, pc, used>>
  BY DEF Rename, memory
<1>3. /\ pc # "down" /\ base \in Bases /\ IsDoc(job.view) /\ DOMAIN base \subseteq DOMAIN job.view
  BY <1>1 DEF JobSound, MemorySound
<1>4. IsDoc(device') /\ Merge(base, device') = job.view
  BY <1>2, <1>3, OutRestores, BasesAreDocs DEF Bases
<1>5. DiskSound'
  BY <1>2, <1>4 DEF DiskSound
<1>6. MemorySound'
  BY <1>1, <1>2, <1>3, <1>4 DEF MemorySound, InFile, Bases
<1>7. ProfileSound' /\ JobSound'
  BY <1>1, <1>2 DEF ProfileSound, Started, JobSound, Written
<1> QED BY <1>5, <1>6, <1>7

LEMMA SyncDirInv == ASSUME ConfigInv, SyncDir PROVE ConfigInv'
<1> USE DEF ConfigInv
<1>1. /\ job # NoJob /\ job.step = "sync" /\ job' # NoJob /\ job'.step = "publish"
      /\ job'.kind = job.kind /\ job'.view = job.view /\ job'.profile = job.profile
      /\ job'.next = job.next /\ DOMAIN job' = DOMAIN job
  BY WentOn DEF SyncDir
<1>2. UNCHANGED <<layered, factory, device, base, root, profile, pc>>
  BY DEF SyncDir, memory
<1>3. /\ durable' = {device} \/ durable' = durable
      /\ UNCHANGED used \/ ("faults" \in DOMAIN used' /\ used'.faults \in Nat \ {0})
  BY FaultCounted DEF SyncDir, DiskSound
<1>4. DiskSound'
  BY <1>2, <1>3 DEF DiskSound
<1>5. MemorySound'
  BY <1>1, <1>2 DEF MemorySound, InFile, Bases
<1>6. ProfileSound' /\ JobSound'
  BY <1>1, <1>2, <1>3 DEF ProfileSound, Started, JobSound, Written
<1> QED BY <1>4, <1>5, <1>6

LEMMA PublishInv == ASSUME ConfigInv, Publish PROVE ConfigInv'
<1> USE DEF ConfigInv
<1>1. /\ job # NoJob /\ job.step = "publish" /\ root' = job.view /\ profile' = job.profile
      /\ pc' = job.next /\ job' = NoJob /\ UNCHANGED <<layered, factory, device, durable, base, used>>
  BY DEF Publish, files
<1>2. /\ pc # "down" /\ pc' \in {"params", "run"} /\ IsDoc(job.view)
      /\ DOMAIN root \subseteq DOMAIN job.view /\ Merge(base, device) = job.view
  BY <1>1 DEF JobSound, MemorySound, InFile
<1>3. DiskSound' /\ JobSound'
  BY <1>1 DEF DiskSound, JobSound
<1>4. MemorySound'
  BY <1>1, <1>2 DEF MemorySound, InFile, Bases
<1>5. CASE job.kind = "migrate"
  <2>1. profile' = profile /\ Section(root') = Section(root) /\ Started
    BY <1>1, <1>5 DEF JobSound
  <2>2. ProfileSound'
    BY <1>1, <1>2, <2>1 DEF ProfileSound, Started
  <2> QED BY <1>3, <1>4, <2>2
<1>6. CASE job.kind # "migrate"
  <2>1. IsProfile(profile') /\ Section(root') = ToJson(profile')
    BY <1>1, <1>6 DEF JobSound, Written
  <2>2. ToJson(FromJson(Section(root'))) = ToJson(profile')
    BY <2>1, RoundTrip
  <2>3. ProfileSound'
    BY <1>1, <1>2, <2>1, <2>2 DEF ProfileSound
  <2> QED BY <1>3, <1>4, <2>3
<1> QED BY <1>5, <1>6

LEMMA SaveFailsInv == ASSUME ConfigInv, SaveFails PROVE ConfigInv'
<1> USE DEF ConfigInv
<1>1. /\ job # NoJob /\ job.step \in {"write", "rename"}
      /\ profile' = IF job.kind = "heal" THEN job.profile ELSE profile
      /\ pc' = job.next /\ job' = NoJob /\ UNCHANGED <<layered, factory, device, durable, base, root>>
  BY DEF SaveFails, files
<1>2. "faults" \in DOMAIN used' /\ used'.faults \in Nat \ {0}
  BY FaultCounted DEF SaveFails, DiskSound
<1>3. pc # "down" /\ pc' \in {"params", "run"} /\ ~InFile
  BY <1>1 DEF JobSound, InFile
<1>4. DiskSound' /\ JobSound'
  BY <1>1, <1>2 DEF DiskSound, JobSound
<1>5. MemorySound'
  BY <1>1, <1>3 DEF MemorySound, InFile, Bases
<1>6. CASE job.kind = "heal"
  <2>1. IsProfile(profile') /\ profile' = FromJson(Section(root))
    BY <1>1, <1>6 DEF JobSound, Written
  <2>2. ProfileSound'
    BY <1>1, <1>2, <1>3, <2>1 DEF ProfileSound
  <2> QED BY <1>4, <1>5, <2>2
<1>7. CASE job.kind # "heal"
  <2>1. Started
    BY <1>1, <1>7 DEF JobSound, Started
  <2>2. ProfileSound'
    BY <1>1, <1>2, <1>3, <1>7, <2>1 DEF ProfileSound
  <2> QED BY <1>4, <1>5, <2>2
<1> QED BY <1>6, <1>7

LEMMA StoppedInv == ASSUME ConfigInv, CoreDies \/ PowerLoss PROVE ConfigInv'
<1> USE DEF ConfigInv
<1>1. pc' = "down" /\ job' = NoJob /\ UNCHANGED <<layered, factory>>
  BY DEF CoreDies, PowerLoss, Stopped
<1>2. (device' = device \/ device' \in durable) /\ (durable' = durable \/ durable' = {device'})
  BY DEF CoreDies, PowerLoss
<1>3. used'.faults = used.faults /\ DOMAIN used' = DOMAIN used
  BY Counted DEF CoreDies, PowerLoss
<1>4. DiskSound'
  BY <1>1, <1>2, <1>3 DEF DiskSound
<1> QED BY <1>1, <1>4 DEF MemorySound, ProfileSound, Started, JobSound

LEMMA UpgradeInv == ASSUME ConfigInv, Upgrade PROVE ConfigInv'
<1> USE DEF ConfigInv
<1>1. used'.faults = used.faults /\ DOMAIN used' = DOMAIN used
  BY Counted DEF Upgrade
<1> QED BY <1>1 DEF Upgrade, DiskSound, MemorySound, InFile, Bases, ProfileSound, Started, JobSound, Written, memory

LEMMA ConfigStep == ASSUME ConfigInv, [ConfigNext]_configVars PROVE ConfigInv'
<1>1. CASE UNCHANGED configVars
  BY <1>1 DEF configVars, files, memory, ConfigInv, DiskSound, MemorySound, InFile, Bases, ProfileSound,
              Started, JobSound, Written
<1>2. CASE Load \/ LoadProfile \/ RefuseProfile \/ BuildParams
  BY <1>2, LoadInv, LoadProfileInv, RefuseProfileInv, BuildParamsInv
<1>3. CASE (\E r \in Requests : SetConfig(r)) \/ (\E m \in Models : SyncModel(m))
  BY <1>3, SetConfigInv, SyncModelInv
<1>4. CASE WriteTemp \/ Rename \/ SyncDir \/ Publish \/ SaveFails
  BY <1>4, WriteTempInv, RenameInv, SyncDirInv, PublishInv, SaveFailsInv
<1>5. CASE CoreDies \/ PowerLoss \/ Upgrade
  BY <1>5, StoppedInv, UpgradeInv
<1> QED BY <1>1, <1>2, <1>3, <1>4, <1>5 DEF ConfigNext

(* Whatever fails or dies: no file is cut off, a restart finds the profile *)
(* in memory, and unless a call failed it finds it written as it would     *)
(* write it.                                                               *)
THEOREM DiskAlwaysMatches == ConfigSpec => []DiskMatchesMemory
<1>1. ConfigInv => DiskMatchesMemory
  <2> SUFFICES ASSUME ConfigInv PROVE DiskMatchesMemory
    OBVIOUS
  <2>1. Torn \notin durable \cup {device}
    BY TornIsNoDoc DEF ConfigInv, DiskSound
  <2>2. ASSUME pc = "run", NotSaving, profile # NoProfile
        PROVE  /\ ToJson(FromJson(Section(Merge(base, device)))) = ToJson(profile)
               /\ used.faults = 0 => Section(Merge(base, device)) = ToJson(profile)
    <3>1. Merge(base, device) = root
      BY <2>2 DEF ConfigInv, MemorySound, InFile, NotSaving
    <3> QED BY <2>2, <3>1 DEF ConfigInv, ProfileSound, Started
  <2> QED BY <2>1, <2>2 DEF DiskMatchesMemory, RestartKeepsConfig, HealsOnce
<1> QED BY <1>1, ConfigInitInv, ConfigStep, PTL DEF ConfigSpec
-----------------------------------------------------------------------------
(* What a new baseline changes.  The baselines name the same leaves of the *)
(* profile, and none that from_json repairs or reads together with others. *)
BaselinesAlike ==
  \A f, g \in Factories : /\ DOMAIN Section(f) = DOMAIN Section(g)
                          /\ DOMAIN Section(f) \subseteq {"model", "conf", "zc"}

Settings == {"model", "roi", "conf", "aims"}

(* What the next start would read, whatever baseline it finds.             *)
SavedSound ==
  saved # NoSave =>
    \A b \in Bases : \A k \in Settings :
      FromJson(Section(Merge(b, device)))[k] =
        IF AtBaseline(k) THEN FromJson(Section(b))[k] ELSE saved.profile[k]

LEMMA SectionLeaf ==
  ASSUME NEW doc, NEW l \in ProfileKeys
  PROVE  /\ l \in DOMAIN Section(doc) <=> l \in DOMAIN doc
         /\ l \in DOMAIN doc => Section(doc)[l] = doc[l]
BY DEF Section

LEMMA ReadLeaves ==
  ASSUME NEW doc
  PROVE  /\ FromJson(doc)["model"] = Get(doc, "model", Default.model)
         /\ FromJson(doc)["roi"] = Heal(Get(doc, "roi", Default.roi))
         /\ FromJson(doc)["conf"] = Get(doc, "conf", Default.conf)
         /\ FromJson(doc)["aims"] = Aims(doc)
BY DEF FromJson

(* The leaves of the file a save has written, merged over some baseline.   *)
LEMMA LeafOfFile ==
  ASSUME NEW view, NEW b, NEW l \in ProfileKeys, ~layered => base = NoDoc, DOMAIN base \subseteq DOMAIN view,
         l \in DOMAIN b <=> l \in DOMAIN base
  PROVE  LET m == Section(Merge(b, Out(view)))
         IN  /\ l \in DOMAIN m <=> l \in DOMAIN view
             /\ l \in DOMAIN view => m[l] = IF l \in DOMAIN base /\ view[l] = base[l] THEN b[l] ELSE view[l]
<1> DEFINE d == Out(view)
           m == Section(Merge(b, d))
<1>1. /\ l \in DOMAIN d <=> l \in DOMAIN view /\ (l \in DOMAIN base => view[l] # base[l])
      /\ l \in DOMAIN d => d[l] = view[l]
  <2>1. CASE layered
    BY <2>1 DEF Out, Diff
  <2>2. CASE ~layered
    BY <2>2, EmptyDoc DEF Out
  <2> QED BY <2>1, <2>2
<1> HIDE DEF d
<1>2. /\ l \in DOMAIN m <=> l \in DOMAIN d \/ l \in DOMAIN b
      /\ l \in DOMAIN m => m[l] = IF l \in DOMAIN d THEN d[l] ELSE b[l]
  BY DEF Section, Merge
<1> HIDE DEF m
<1>3. l \in DOMAIN base => l \in DOMAIN view
  OBVIOUS
<1>4. /\ l \in DOMAIN m <=> l \in DOMAIN view
      /\ l \in DOMAIN view => m[l] = IF l \in DOMAIN base /\ view[l] = base[l] THEN b[l] ELSE view[l]
  BY <1>1, <1>2, <1>3
<1> QED BY <1>4 DEF m, d

LEMMA BaseLeaves ==
  ASSUME BaselinesAlike, NEW b \in Bases, NEW c \in Bases, NEW l \in ProfileKeys
  PROVE  /\ l \in DOMAIN b <=> l \in DOMAIN c
         /\ l \in DOMAIN b => l \in {"model", "conf", "zc"}
<1>1. CASE layered
  BY <1>1, SectionLeaf DEF Bases, BaselinesAlike
<1>2. CASE ~layered
  BY <1>2, EmptyDoc DEF Bases
<1> QED BY <1>1, <1>2

LEMMA SavedAtRename ==
  ASSUME BaselinesAlike, ConfigInv, Rename PROVE SavedSound'
<1> DEFINE view == job.view
           s == Section(view)
<1>1. /\ device' = Out(view) /\ saved' = [profile |-> FromJson(s), base |-> base]
      /\ UNCHANGED <<layered, base>> /\ job # NoJob /\ job.step = "rename"
  BY DEF Rename, SaveGoes, memory
<1>2. base \in Bases /\ DOMAIN base \subseteq DOMAIN view
  BY <1>1 DEF ConfigInv, JobSound, MemorySound
<1> HIDE DEF view
<1>3. ~layered => base = NoDoc
  BY <1>2 DEF Bases
<1> SUFFICES ASSUME NEW b \in Bases, NEW k \in Settings
             PROVE  FromJson(Section(Merge(b, Out(view))))[k] =
                      IF k \in DOMAIN base /\ base[k] = FromJson(s)[k] THEN FromJson(Section(b))[k] ELSE FromJson(s)[k]
  BY <1>1 DEF SavedSound, AtBaseline, Bases
<1> DEFINE m == Section(Merge(b, Out(view)))
<1>4. ASSUME NEW l \in ProfileKeys
      PROVE  /\ l \in DOMAIN m <=> l \in DOMAIN s
             /\ l \in DOMAIN base => l \in DOMAIN b /\ l \in DOMAIN s /\ l \in {"model", "conf", "zc"}
             /\ l \in DOMAIN s => m[l] = IF l \in DOMAIN base /\ s[l] = base[l] THEN b[l] ELSE s[l]
  <2>1. /\ l \in DOMAIN b <=> l \in DOMAIN base
        /\ l \in DOMAIN base => l \in {"model", "conf", "zc"}
    BY <1>2, BaseLeaves
  <2>2. /\ l \in DOMAIN s <=> l \in DOMAIN view
        /\ l \in DOMAIN view => s[l] = view[l]
    BY SectionLeaf
  <2> HIDE DEF s
  <2>3. /\ l \in DOMAIN m <=> l \in DOMAIN view
        /\ l \in DOMAIN view => m[l] = IF l \in DOMAIN base /\ view[l] = base[l] THEN b[l] ELSE view[l]
    BY <1>2, <1>3, <2>1, LeafOfFile
  <2> HIDE DEF m
  <2> QED BY <1>2, <2>1, <2>2, <2>3
<1>5. {"model", "roi", "conf", "aims", "hotkey"} \subseteq ProfileKeys
  BY DEF ProfileKeys
<1> HIDE DEF m, s
<1>6. \A l \in {"roi", "aims", "hotkey"} : l \notin DOMAIN base /\ \A x : Get(m, l, x) = Get(s, l, x)
  BY <1>4, <1>5 DEF Get
<1>7. ASSUME NEW l \in {"model", "conf"}, NEW x
      PROVE  Get(m, l, x) = IF l \in DOMAIN base /\ base[l] = Get(s, l, x) THEN Get(Section(b), l, x) ELSE Get(s, l, x)
  <2>1. l \in ProfileKeys
    BY <1>5
  <2>2. /\ l \in DOMAIN m <=> l \in DOMAIN s
        /\ l \in DOMAIN base => l \in DOMAIN b /\ l \in DOMAIN s
        /\ l \in DOMAIN s => m[l] = IF l \in DOMAIN base /\ s[l] = base[l] THEN b[l] ELSE s[l]
    BY <1>4, <2>1
  <2>3. l \in DOMAIN b => l \in DOMAIN Section(b) /\ Section(b)[l] = b[l]
    BY <2>1, SectionLeaf
  <2> QED BY <2>2, <2>3 DEF Get
<1>8. CASE k = "roi"
  BY <1>6, <1>8, ReadLeaves DEF m
<1>9. CASE k = "aims"
  <2>1. Aims(m) = Aims(s)
    BY <1>6 DEF Aims
  <2> QED BY <1>6, <1>9, <2>1, ReadLeaves DEF m
<1>10. CASE k = "model"
  BY <1>7, <1>10, ReadLeaves DEF m
<1>11. CASE k = "conf"
  BY <1>7, <1>11, ReadLeaves DEF m
<1> QED BY <1>8, <1>9, <1>10, <1>11 DEF Settings

LEMMA SavedStep ==
  ASSUME BaselinesAlike, ConfigInv, SavedSound, [ConfigNext]_configVars PROVE SavedSound'
<1>1. CASE Rename
  BY <1>1, SavedAtRename
<1>2. CASE ~Rename
  <2>1. saved' = NoSave \/ UNCHANGED <<saved, device>>
    BY <1>2 DEF ConfigNext, Load, LoadProfile, RefuseProfile, BuildParams, SetConfig, SyncModel, WriteTemp,
                SyncDir, Publish, SaveFails, CoreDies, PowerLoss, Upgrade, configVars, files
  <2>2. layered' = layered
    BY DEF ConfigNext, Load, LoadProfile, RefuseProfile, BuildParams, SetConfig, SyncModel, WriteTemp,
           Rename, SyncDir, Publish, SaveFails, CoreDies, PowerLoss, Stopped, Upgrade, configVars, files
  <2> QED BY <2>1, <2>2 DEF SavedSound, Bases, AtBaseline
<1> QED BY <1>1, <1>2

(* A new baseline, or a restart, changes exactly the settings that were    *)
(* left at the baseline of the save, for baselines that name the same      *)
(* leaves of the profile, each of them by itself.                          *)
THEOREM UpgradesKeepSettings == BaselinesAlike => (ConfigSpec => []UpgradeKeepsSettings)
<1> SUFFICES ASSUME BaselinesAlike PROVE ConfigSpec => []UpgradeKeepsSettings
  OBVIOUS
<1>1. ConfigInit => SavedSound
  BY DEF ConfigInit, SavedSound
<1>2. ConfigInv /\ SavedSound => UpgradeKeepsSettings
  <2> SUFFICES ASSUME ConfigInv, SavedSound, pc = "run", NotSaving, saved # NoSave, profile # NoProfile,
                      NEW k \in DOMAIN profile \ {"zc"}
               PROVE  profile[k] = IF AtBaseline(k) THEN FromJson(Section(base))[k] ELSE saved.profile[k]
    BY DEF UpgradeKeepsSettings
  <2>1. base \in Bases /\ Merge(base, device) = root
    BY DEF ConfigInv, MemorySound, InFile, NotSaving
  <2>2. IsProfile(profile) /\ ToJson(FromJson(Section(root))) = ToJson(profile)
    BY DEF ConfigInv, ProfileSound, Started
  <2>3. k \in Settings
    BY <2>2 DEF IsProfile, Settings
  <2> DEFINE q == FromJson(Section(root))
  <2>4. q["model"] = profile["model"] /\ q["roi"] = profile["roi"] /\ q["conf"] = profile["conf"]
        /\ q["aims"] = profile["aims"]
    <3> HIDE DEF q
    <3>1. /\ ToJson(q)["model"] = q["model"] /\ ToJson(q)["roi"] = q["roi"]
          /\ ToJson(q)["conf"] = q["conf"] /\ ToJson(q)["aims"] = q["aims"]
      BY DEF ToJson
    <3>2. /\ ToJson(profile)["model"] = profile["model"] /\ ToJson(profile)["roi"] = profile["roi"]
          /\ ToJson(profile)["conf"] = profile["conf"] /\ ToJson(profile)["aims"] = profile["aims"]
      BY DEF ToJson
    <3>3. ToJson(q) = ToJson(profile)
      BY <2>2 DEF q
    <3> QED BY <3>1, <3>2, <3>3
  <2> HIDE DEF q
  <2>5. q[k] = profile[k]
    BY <2>3, <2>4 DEF Settings
  <2> QED BY <2>1, <2>3, <2>5 DEF SavedSound, q
<1> QED BY <1>1, <1>2, ConfigInitInv, ConfigStep, SavedStep, PTL DEF ConfigSpec
=============================================================================
