---------------------------- MODULE LicenseFile ----------------------------
(***************************************************************************)
(* One file of LicenseStore (license.json or state.json) at the            *)
(* granularity of system calls: write_file_atomic_ (temporary file, write, *)
(* fsync, read back, rename, fsync of the directory) by the writers,       *)
(* load() by other threads, kills of the process and power loss.  Directory  *)
(* entries and file contents reach the disk at any time of their own and   *)
(* at the latest with their fsync.  Nothing serialises the calls: they     *)
(* come from IPC threads, outside the mutex of LicenseDaemon.              *)
(***************************************************************************)
EXTENDS Naturals

CONSTANTS
  Docs, NoDoc,     \* documents
  Chunks,          \* write(2) calls per document
  Inodes, NoInode,
  Pids, NoPid,     \* the temporary is named after the process
  Doc,             \* the name of the file itself
  Writers,         \* threads that save
  MaxFaults,       \* bound: failing system calls
  MaxCrashes       \* bound: kills and power losses

Names   == Pids \cup {Doc}
Blank   == [k \in 1 .. Chunks |-> NoDoc]
Whole(d) == [k \in 1 .. Chunks |-> d]
Contents == [1 .. Chunks -> Docs \cup {NoDoc}]

ASSUME FileAssumption ==
  /\ Chunks \in Nat \ {0}
  /\ NoDoc \notin Docs /\ NoInode \notin Inodes /\ NoPid \notin Pids
  /\ Doc \notin Pids
  /\ MaxFaults \in Nat /\ MaxCrashes \in Nat

VARIABLES
  dir, durableDir,    \* [Names -> inode]: as seen, as on disk
  data, durableData,  \* [Inodes -> Contents]: as seen, as on disk
  pid,                \* the running process
  pc, arg, fd, pos,   \* locals of a save: content, inode open, next chunk
  faults, crashes,
  safe                \* history: document saved with success and its
                      \* directory entry synced, no other save begun since

disk    == <<dir, durableDir, data, durableData>>
locals  == <<arg, fd, pos>>
vars    == <<disk, pid, pc, locals, faults, crashes, safe>>
-----------------------------------------------------------------------------
NoEntry == [n \in Names |-> NoInode]

Go(t, next) == pc' = [pc EXCEPT ![t] = next]

Unlinked(n) == [dir EXCEPT ![n] = NoInode]

Moved(n) == [m \in Names |-> IF m = Doc THEN dir[n]
                             ELSE IF m = n THEN NoInode ELSE dir[m]]

(* remove_stale_tmps: every name with the marker.                          *)
OnlyDoc == [n \in Names |-> IF n = Doc THEN dir[Doc] ELSE NoInode]

Free == {i \in Inodes : /\ \A n \in Names : dir[n] # i /\ durableDir[n] # i
                        /\ \A t \in Writers : fd[t] # i}

Reset ==
  /\ pc' = [t \in Writers |-> "idle"]
  /\ arg' = [t \in Writers |-> NoDoc] /\ fd' = [t \in Writers |-> NoInode]
  /\ pos' = [t \in Writers |-> 1]

Init ==
  /\ dir \in {NoEntry} \cup {[NoEntry EXCEPT ![Doc] = i] : i \in Inodes}
  /\ durableDir = dir
  /\ data \in {[i \in Inodes |-> Whole(d)] : d \in Docs}
  /\ durableData = data
  /\ pid = NoPid
  /\ pc = [t \in Writers |-> "idle"]
  /\ arg = [t \in Writers |-> NoDoc] /\ fd = [t \in Writers |-> NoInode]
  /\ pos = [t \in Writers |-> 1]
  /\ faults = 0 /\ crashes = 0 /\ safe = NoDoc
-----------------------------------------------------------------------------
Start ==
  /\ pid = NoPid
  /\ pid' \in Pids
  /\ UNCHANGED <<disk, pc, locals, faults, crashes, safe>>

(* save_doc, save_state                                                    *)
Save(t) ==
  /\ pid # NoPid /\ pc[t] = "idle"
  /\ \E d \in Docs : arg' = [arg EXCEPT ![t] = d]
  /\ safe' = NoDoc
  /\ Go(t, "unlink")
  /\ UNCHANGED <<disk, pid, fd, pos, faults, crashes>>

UnlinkTmp(t) ==
  /\ pc[t] = "unlink"
  /\ dir' = Unlinked(pid)
  /\ Go(t, "open")
  /\ UNCHANGED <<durableDir, data, durableData, pid, locals, faults, crashes, safe>>

(* open(O_CREAT | O_TRUNC): an entry made meanwhile is truncated.          *)
OpenTmp(t) ==
  /\ pc[t] = "open"
  /\ \E i \in IF dir[pid] = NoInode THEN Free ELSE {dir[pid]} :
       /\ dir' = [dir EXCEPT ![pid] = i]
       /\ data' = [data EXCEPT ![i] = Blank]
       /\ fd' = [fd EXCEPT ![t] = i]
       /\ durableData' = IF dir[pid] = NoInode
                         THEN [durableData EXCEPT ![i] = Blank] ELSE durableData
  /\ pos' = [pos EXCEPT ![t] = 1]
  /\ Go(t, "write")
  /\ UNCHANGED <<durableDir, pid, arg, faults, crashes, safe>>

WithChunk(content, k, d) == [content EXCEPT ![k] = d]

WriteChunk(t) ==
  /\ pc[t] = "write"
  /\ data' = [data EXCEPT ![fd[t]] = WithChunk(@, pos[t], arg[t])]
  /\ pos' = [pos EXCEPT ![t] = pos[t] + 1]
  /\ Go(t, IF pos[t] = Chunks THEN "sync" ELSE "write")
  /\ UNCHANGED <<dir, durableDir, durableData, pid, arg, fd, faults, crashes, safe>>

(* fsync and close                                                         *)
SyncTmp(t) ==
  /\ pc[t] = "sync"
  /\ durableData' = [durableData EXCEPT ![fd[t]] = data[fd[t]]]
  /\ Go(t, "readback")
  /\ UNCHANGED <<dir, durableDir, data, pid, locals, faults, crashes, safe>>

(* Mutant: the old file makes room before the rename.                      *)
ReadBackAndClear(t) ==
  /\ pc[t] = "readback"
  /\ Go(t, "rename")
  /\ dir' = Unlinked(Doc)
  /\ UNCHANGED <<durableDir, data, durableData, pid, locals, faults, crashes, safe>>

(* The read-back opens the temporary by its name.                          *)
ReadBack(t) ==
  /\ pc[t] = "readback"
  /\ Go(t, IF dir[pid] # NoInode /\ data[dir[pid]] = Whole(arg[t])
           THEN "rename" ELSE "abandon")
  /\ UNCHANGED <<disk, pid, locals, faults, crashes, safe>>

Rename(t) ==
  /\ pc[t] = "rename"
  /\ IF dir[pid] = NoInode
     THEN Go(t, "abandon") /\ UNCHANGED dir
     ELSE /\ dir' = Moved(pid)
          /\ Go(t, "syncdir")
  /\ UNCHANGED <<durableDir, data, durableData, pid, locals, faults, crashes, safe>>

(* Mutant: the directory is left to the system.                            *)
SkipSyncDir(t) ==
  /\ pc[t] = "syncdir"
  /\ safe' = arg[t]
  /\ Go(t, "idle")
  /\ UNCHANGED <<disk, pid, locals, faults, crashes>>

SyncDir(t) ==
  /\ pc[t] = "syncdir"
  /\ durableDir' = dir
  /\ safe' = arg[t]
  /\ Go(t, "idle")
  /\ UNCHANGED <<dir, data, durableData, pid, locals, faults, crashes>>

(* A failed open leaves nothing behind; a failed fsync of the directory is *)
(* ignored and the save still succeeds; any other failure unlinks the      *)
(* temporary.                                                              *)
Fail(t) ==
  /\ faults < MaxFaults
  /\ faults' = faults + 1
  /\ \/ pc[t] \in {"open", "syncdir"} /\ Go(t, "idle")
     \/ pc[t] \in {"write", "sync", "readback", "rename"} /\ Go(t, "abandon")
  /\ UNCHANGED <<disk, pid, locals, crashes, safe>>

Abandon(t) ==
  /\ pc[t] = "abandon"
  /\ dir' = Unlinked(pid)
  /\ Go(t, "idle")
  /\ UNCHANGED <<durableDir, data, durableData, pid, locals, faults, crashes, safe>>
-----------------------------------------------------------------------------
(* load() by any other thread; the document it then reads is what the name *)
(* leads to at that moment.                                                *)
Load ==
  /\ pid # NoPid
  /\ dir' = OnlyDoc
  /\ UNCHANGED <<durableDir, data, durableData, pid, pc, locals, faults, crashes, safe>>

-----------------------------------------------------------------------------
(* The system writes back when it likes.                                   *)
WriteBack ==
  /\ \/ durableDir' = dir /\ UNCHANGED durableData
     \/ /\ \E i \in Inodes : durableData' = [durableData EXCEPT ![i] = data[i]]
        /\ UNCHANGED durableDir
  /\ UNCHANGED <<dir, data, pid, pc, locals, faults, crashes, safe>>

Kill ==
  /\ pid # NoPid /\ crashes < MaxCrashes
  /\ crashes' = crashes + 1 /\ pid' = NoPid
  /\ Reset
  /\ UNCHANGED <<disk, faults, safe>>

PowerLoss ==
  /\ crashes < MaxCrashes
  /\ crashes' = crashes + 1 /\ pid' = NoPid
  /\ dir' = durableDir /\ data' = durableData
  /\ Reset
  /\ UNCHANGED <<durableDir, durableData, faults, safe>>

SaveStep(t) == \/ Save(t) \/ UnlinkTmp(t) \/ OpenTmp(t) \/ WriteChunk(t)
               \/ SyncTmp(t) \/ ReadBack(t) \/ Rename(t) \/ SyncDir(t)
               \/ Fail(t) \/ Abandon(t)

Next ==
  \/ Start \/ Load \/ WriteBack \/ Kill \/ PowerLoss
  \/ \E t \in Writers : SaveStep(t)

Spec == Init /\ [][Next]_vars
-----------------------------------------------------------------------------
PcType == {"idle", "unlink", "open", "write", "sync", "readback", "rename",
           "syncdir", "abandon"}

(* Every variable stays in its type.                                       *)
TypeOK ==
  /\ dir \in [Names -> Inodes \cup {NoInode}]
  /\ durableDir \in [Names -> Inodes \cup {NoInode}]
  /\ data \in [Inodes -> Contents] /\ durableData \in [Inodes -> Contents]
  /\ pid \in Pids \cup {NoPid}
  /\ pc \in [Writers -> PcType]
  /\ arg \in [Writers -> Docs \cup {NoDoc}]
  /\ fd \in [Writers -> Inodes \cup {NoInode}]
  /\ pos \in [Writers -> 1 .. Chunks + 1]
  /\ faults \in Nat /\ crashes \in Nat /\ safe \in Docs \cup {NoDoc}

(* "The old file is either intact or replaced as a whole": what the name   *)
(* leads to, in memory and on disk, is one whole document.                 *)
WholeAt(d, c) == d[Doc] # NoInode => \E x \in Docs : c[d[Doc]] = Whole(x)
DocIsWhole == WholeAt(dir, data) /\ WholeAt(durableDir, durableData)

ValueAt(d, c) == IF d[Doc] = NoInode THEN NoDoc ELSE c[d[Doc]][1]

(* A save that succeeded, and whose directory was synced, survives kills   *)
(* and power loss until the next save.                                     *)
SavedStaysSaved ==
  safe # NoDoc => /\ ValueAt(dir, data) = safe
                  /\ ValueAt(durableDir, durableData) = safe

(* Seen from outside the file is a register: each save puts its document   *)
(* in one step.                                                            *)
Register == INSTANCE AtomicRegister WITH
  value <- ValueAt(dir, data), stable <- ValueAt(durableDir, durableData)

ImplementsRegister == Register!Spec
=============================================================================
