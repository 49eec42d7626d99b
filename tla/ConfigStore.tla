---------------------------- MODULE ConfigStore ----------------------------
(***************************************************************************)
(* The configuration of the core: the layers of config.d (ConfigManager),  *)
(* the profile in memory (RuntimeConfig), and the requests that change     *)
(* both (Application).  A JSON document is the function of its leaves; the *)
(* leaves kept apart are the output switch ("out"), the global zero-copy   *)
(* key ("dma") and six leaves of the runtime profile: the model, a region, *)
(* a confidence, the zero-copy key of the profile ("zc", absent, on or     *)
(* off), the list of aim hotkeys and the flat hotkey of older versions.  A *)
(* save is one step per system call that another layer of the program, or  *)
(* a crash, can tell apart.                                                *)
(* Everything that saves holds runtime_lifecycle_mutex_ or runs before the *)
(* requests are served; the exception (the switch migration of the first   *)
(* initialisation) is taken as if it did.                                  *)
(***************************************************************************)
EXTENDS Naturals, FiniteSets, Sequences

CONSTANTS Factories,     \* contents the release gives 00-factory.json
          DeviceDocs,    \* contents of 10-device.json (or the only file) at first start
          Requests,      \* profiles a client sends
          Hotkeys,       \* what a list of aim hotkeys holds
          Models,        \* models that finish activation
          MaxRequests, MaxFaults, MaxCrashes, MaxUpgrades   \* bounds

ProfileKeys == {"model", "roi", "conf", "zc", "hotkey", "aims"}
Leaves == {"out", "dma"} \cup ProfileKeys
NoDoc == [k \in {} |-> "none"]
Torn == [torn |-> "cut off in the middle"]   \* a file that does not parse

NoProfile == NoDoc
NoJob == NoDoc
NoSave == NoDoc

ASSUME ConfigAssumption ==
  /\ \A d \in Factories \cup DeviceDocs \cup Requests :
       /\ d = [k \in DOMAIN d |-> d[k]] /\ DOMAIN d \subseteq Leaves
       /\ "aims" \in DOMAIN d => d["aims"] \in Seq(Hotkeys)
  /\ MaxRequests \in Nat /\ MaxFaults \in Nat /\ MaxCrashes \in Nat /\ MaxUpgrades \in Nat

VARIABLES layered,    \* --config names a directory
          factory, device,   \* the files
          durable,    \* contents of device a power loss may leave
          base, root, \* ConfigManager: layer_base_, root_
          profile,    \* RuntimeConfig
          pc, job,    \* the program, and the save under way
          saved,      \* history: what the device file was made from
          deployed,   \* history: the device file of the first start
          used        \* requests, faults, crashes, upgrades so far

files == <<layered, factory, device, durable, deployed>>
memory == <<base, root, profile>>
configVars == <<files, memory, pc, job, saved, used>>

-----------------------------------------------------------------------------
(* Documents *)

\* deep_merge: the leaves of the later layer win.
Merge(under, over) == [k \in DOMAIN under \cup DOMAIN over |->
                         IF k \in DOMAIN over THEN over[k] ELSE under[k]]

\* layer_diff: the leaves that differ from the base.
Diff(view, under) ==
    LET kept == {k \in DOMAIN view : k \in DOMAIN under => view[k] # under[k]}
    IN [k \in kept |-> view[k]]

Section(doc) == [k \in DOMAIN doc \cap ProfileKeys |-> doc[k]]
Get(doc, k, default) == IF k \in DOMAIN doc THEN doc[k] ELSE default

\* RuntimeProfile: absent leaves get their default, a degenerate ROI is
\* repaired, a hotkey outside the five bits never matches, and a document
\* without a list of hotkeys gets one made of the flat hotkey.
Default == [model |-> "", roi |-> "full", conf |-> "zero", zc |-> "unset", aims |-> <<"right">>]
Heal(v) == IF v = "tiny" THEN "full" ELSE v
Bits(v) == IF v = "outside" THEN "never" ELSE v
Aims(doc) == LET listed == Get(doc, "aims", <<>>)
             IN IF listed = <<>> THEN <<Bits(Get(doc, "hotkey", Default.aims[1]))>>
                ELSE [i \in DOMAIN listed |-> Bits(listed[i])]
FromJson(doc) == [model |-> Get(doc, "model", Default.model),
                  roi |-> Heal(Get(doc, "roi", Default.roi)),
                  conf |-> Get(doc, "conf", Default.conf),
                  zc |-> Get(doc, "zc", Default.zc),
                  aims |-> Aims(doc)]
Valid(p) == p.conf # "beyond"

\* to_json: every leaf is written, the flat hotkey as a copy of the first of
\* the list, and a zero-copy key that was never set as its default.
ToJson(p) == [model |-> p.model, roi |-> p.roi, conf |-> p.conf,
              zc |-> IF p.zc = "unset" THEN "on" ELSE p.zc,
              hotkey |-> p.aims[1], aims |-> p.aims]

\* Mutant: the whole view goes into the device layer.
FullOut(view) == view

\* What persist() writes: the difference, or everything.
Out(view) == IF layered THEN Diff(view, base) ELSE view

WithProfile(doc, p) == Merge(doc, ToJson(p))

-----------------------------------------------------------------------------
NotSaving == job = NoJob

ConfigInit == /\ layered \in BOOLEAN
              /\ factory \in Factories
              /\ device \in DeviceDocs
              /\ durable = {device} /\ deployed = device
              /\ base = NoDoc /\ root = NoDoc /\ profile = NoProfile
              /\ pc = "down" /\ job = NoJob /\ saved = NoSave
              /\ used = [requests |-> 0, faults |-> 0, crashes |-> 0, upgrades |-> 0]

Use(what, max) == used[what] < max /\ used' = [used EXCEPT ![what] = @ + 1]

\* load, load_layered: a file that does not parse stops the start.
Load == /\ pc = "down" /\ device # Torn
        /\ base' = IF layered THEN factory ELSE NoDoc
        /\ root' = Merge(base', device)
        /\ profile' = NoProfile
        /\ pc' = "profile"
        /\ UNCHANGED <<files, job, saved, used>>

StartSave(kind, view, p, next) ==
    job' = [kind |-> kind, view |-> view, profile |-> p, step |-> "write", next |-> next]

\* The profile of the file enters memory; when it had to be repaired it is
\* saved first.
LoadProfile ==
    LET section == Section(root)
        p == FromJson(section)
    IN /\ pc = "profile" /\ NotSaving
       /\ IF section = NoDoc THEN pc' = "params" /\ UNCHANGED <<job, profile>>
          ELSE /\ Valid(p)
               /\ IF ToJson(p) = section
                  THEN profile' = p /\ pc' = "params" /\ UNCHANGED job
                  ELSE StartSave("heal", WithProfile(root, p), p, "params") /\ UNCHANGED <<pc, profile>>
       /\ UNCHANGED <<files, base, root, saved, used>>

\* An invalid profile ends the process.
RefuseProfile == /\ pc = "profile" /\ NotSaving /\ ~Valid(FromJson(Section(root)))
                 /\ pc' = "refused"
                 /\ UNCHANGED <<files, memory, job, saved, used>>

\* migrate_output_enabled: the baseline alone says off.
Inherited == /\ layered
             /\ device # Torn /\ "out" \notin DOMAIN device
             /\ Get(root, "out", "on") = "off"

\* build_runtime_params, at start and whenever the runtime is rebuilt.
BuildParams ==
    /\ pc \in {"params", "run"} /\ NotSaving
    /\ IF Inherited
       THEN StartSave("migrate", Merge(root, [out |-> "on"]), profile, "run") /\ UNCHANGED pc
       ELSE pc = "params" /\ pc' = "run" /\ UNCHANGED job
    /\ UNCHANGED <<files, memory, saved, used>>

-----------------------------------------------------------------------------
(* Requests *)

\* handle_config_update: the raw ROI is checked before it could be repaired,
\* and the model is not the client's to change.
Accepts(r) == /\ Get(r, "roi", "full") # "tiny"
              /\ Valid(FromJson(r))
              /\ profile # NoProfile => FromJson(r).model = profile.model

SetConfig(r) == /\ pc = "run" /\ NotSaving
                /\ Use("requests", MaxRequests)
                /\ Accepts(r)
                /\ StartSave("set", WithProfile(root, FromJson(r)), FromJson(r), "run")
                /\ UNCHANGED <<files, memory, pc, saved>>

\* sync_model_id_to_profile, at the end of an activation or by the main loop.
SyncModel(m) == LET current == IF profile = NoProfile THEN Default ELSE profile
                    p == [current EXCEPT !.model = m]
                IN /\ pc = "run" /\ NotSaving
                   /\ Use("requests", MaxRequests)
                   /\ StartSave("sync", WithProfile(root, p), p, "run")
                   /\ UNCHANGED <<files, memory, pc, saved>>

-----------------------------------------------------------------------------
(* ConfigManager::persist and persist_runtime_profile *)

SaveGoes(from, to) == job # NoJob /\ job.step = from /\ job' = [job EXCEPT !.step = to]

\* Mutant: the file itself is written, not a temporary.
WriteInPlace == /\ SaveGoes("write", "rename")
                /\ device' = Torn /\ durable' = durable \cup {Torn}
                /\ UNCHANGED <<layered, factory, deployed, memory, pc, saved, used>>

\* The temporary file is written and synced; load() never reads that name.
WriteTemp == /\ SaveGoes("write", "rename")
             /\ UNCHANGED <<files, memory, pc, saved, used>>

Rename == /\ SaveGoes("rename", "sync")
          /\ device' = Out(job.view)
          /\ durable' = durable \cup {device'}
          /\ saved' = [profile |-> FromJson(Section(job.view)), base |-> base]
          /\ UNCHANGED <<layered, factory, deployed, memory, pc, used>>

\* A failure to sync the directory is only logged.
SyncDir == /\ SaveGoes("sync", "publish")
           /\ \/ durable' = {device} /\ UNCHANGED used
              \/ UNCHANGED durable /\ Use("faults", MaxFaults)
           /\ UNCHANGED <<layered, factory, device, deployed, memory, pc, saved>>

\* replace_root, RuntimeConfig::update; the migration leaves the profile alone.
Publish == /\ job # NoJob /\ job.step = "publish"
           /\ root' = job.view
           /\ profile' = job.profile
           /\ pc' = job.next /\ job' = NoJob
           /\ UNCHANGED <<files, base, saved, used>>

\* The write or the rename fails.  A repaired profile is used all the same.
SaveFails == /\ job # NoJob /\ job.step \in {"write", "rename"}
             /\ Use("faults", MaxFaults)
             /\ profile' = IF job.kind = "heal" THEN job.profile ELSE profile
             /\ pc' = job.next /\ job' = NoJob
             /\ UNCHANGED <<files, base, root, saved>>

-----------------------------------------------------------------------------
(* The environment *)

Stopped == /\ pc' = "down" /\ job' = NoJob
           /\ base' = NoDoc /\ root' = NoDoc /\ profile' = NoProfile
           /\ UNCHANGED <<layered, factory, deployed>>

CoreDies == /\ pc \notin {"down", "refused"}
            /\ Use("crashes", MaxCrashes)
            /\ Stopped
            /\ UNCHANGED <<device, durable, saved>>

PowerLoss == /\ pc # "refused"
             /\ Use("crashes", MaxCrashes)
             /\ Stopped
             /\ device' \in durable /\ durable' = {device'}
             /\ saved' = IF device' = device THEN saved ELSE NoSave

\* A release replaces 00-factory.json, also under a running core.
Upgrade == /\ Use("upgrades", MaxUpgrades)
           /\ factory' \in Factories \ {factory}
           /\ UNCHANGED <<layered, device, durable, deployed, memory, pc, job, saved>>

ConfigNext == \/ Load \/ LoadProfile \/ RefuseProfile \/ BuildParams
              \/ \E r \in Requests : SetConfig(r)
              \/ \E m \in Models : SyncModel(m)
              \/ WriteTemp \/ Rename \/ SyncDir \/ Publish \/ SaveFails
              \/ CoreDies \/ PowerLoss \/ Upgrade

ConfigSpec == ConfigInit /\ [][ConfigNext]_configVars

-----------------------------------------------------------------------------
(* Between saves the program and the disk agree: whatever failed before, a
   restart now, even after a power loss, finds a file that parses, and unless
   the directory was left unsynced it yields the profile in memory
   (persist_runtime_profile: file, root and memory in one step). *)
RestartKeepsConfig ==
    /\ Torn \notin durable \cup {device}
    /\ pc = "run" /\ NotSaving /\ profile # NoProfile =>
          ToJson(FromJson(Section(Merge(base, device)))) = ToJson(profile)

\* A leaf the operator left at the baseline of the save.
AtBaseline(k) == k \in DOMAIN saved.base /\ saved.base[k] = saved.profile[k]

(* A new baseline, or a restart, changes exactly the leaves that were left at
   the old baseline: settings are neither lost nor frozen (layer_diff). *)
UpgradeKeepsSettings ==
    pc = "run" /\ NotSaving /\ saved # NoSave /\ profile # NoProfile =>
        \A k \in DOMAIN profile \ {"zc"} :
            profile[k] = IF AtBaseline(k) THEN FromJson(Section(base))[k] ELSE saved.profile[k]

(* A repaired profile is written back once: unless a call failed, what the
   next start reads needs no repair, so a start does not write the flash
   every time (Application.cpp, load of the profile). *)
HealsOnce ==
    pc = "run" /\ NotSaving /\ profile # NoProfile /\ used.faults = 0 =>
        Section(Merge(base, device)) = ToJson(profile)

(* What the disk holds is what the program goes by, now and at the next start. *)
DiskMatchesMemory == RestartKeepsConfig /\ HealsOnce

\* build_runtime_params: what the workers are told.
ZeroCopy == IF profile = NoProfile \/ profile.zc = "unset" THEN Get(root, "dma", "off") ELSE profile.zc

(* A device whose configuration never had the zero-copy key of the profile,
   and that no client has configured, follows the global key, as before the
   key existed (comments on from_json and build_runtime_params). *)
LegacyFollowsGlobal ==
    pc = "run" /\ NotSaving /\ "zc" \notin DOMAIN deployed /\ used.requests = 0 =>
        ZeroCopy = Get(root, "dma", "off")
=============================================================================
