------------------------- MODULE LicenseFileProofs -------------------------
(***************************************************************************)
(* With one thread that saves (and any number that load), for any number   *)
(* of documents, chunks, inodes, process ids, faults and crashes: the file *)
(* is always one whole document, a synced save survives, and the file      *)
(* implements AtomicRegister.  DocIsWhole is not inductive: that the file  *)
(* being written is never the one the name leads to, in memory or on disk, *)
(* and that what is renamed is whole and synced, must be carried along.    *)
(* At the end, the other part of the run that checks them: the online      *)
(* check of LicenseOnline, for every lifetime, heartbeat and backoff.      *)
(***************************************************************************)
EXTENDS LicenseFile, LicenseOnline, TLAPS

Distinct(d) == \A m, n \in Names : d[m] = d[n] /\ d[m] # NoInode => m = n

Clean(i) == i # NoInode => /\ durableData[i] = data[i]
                           /\ \E x \in Docs : data[i] = Whole(x)

Entries ==
  /\ Distinct(dir) /\ Distinct(durableDir)
  /\ \A n \in Pids : dir[n] # NoInode => dir[n] # durableDir[Doc]
  /\ Clean(dir[Doc]) /\ Clean(durableDir[Doc])

Writing == {"write", "sync", "readback", "rename"}

(* Where the one writer w is, and what it has then.                        *)
Progress(w) ==
  /\ pc[w] # "idle" => pid \in Pids /\ arg[w] \in Docs
  /\ pc[w] = "open" => dir[pid] = NoInode
  /\ pc[w] \in Writing => /\ fd[w] \in Inodes /\ dir[pid] \in {fd[w], NoInode}
                          /\ fd[w] # dir[Doc] /\ fd[w] # durableDir[Doc]
  /\ pc[w] = "write" => /\ pos[w] \in 1 .. Chunks
                        /\ \A k \in 1 .. pos[w] - 1 : data[fd[w]][k] = arg[w]
  /\ pc[w] \in {"sync", "readback", "rename"} => data[fd[w]] = Whole(arg[w])
  /\ pc[w] \in {"readback", "rename"} => durableData[fd[w]] = Whole(arg[w])
  /\ pc[w] = "syncdir" => dir[Doc] # NoInode /\ data[dir[Doc]] = Whole(arg[w])

Kept(w) == safe # NoDoc => pc[w] = "idle" /\ SavedStaysSaved

IInv(w) == TypeOK /\ Entries /\ Progress(w) /\ Kept(w)

USE FileAssumption

LEMMA InitIInv ==
  ASSUME NEW w, Writers = {w}
  PROVE  Init => IInv(w)
<1> SUFFICES ASSUME Init PROVE IInv(w)
  OBVIOUS
<1>1. TypeOK
  <2>1. dir \in [Names -> Inodes \cup {NoInode}] /\ durableDir = dir
    BY DEF Init, NoEntry, Names
  <2>2. data \in [Inodes -> Contents] /\ durableData = data
    BY DEF Init, Contents, Whole
  <2>3. pos \in [Writers -> 1 .. Chunks + 1]
    BY DEF Init
  <2> QED  BY <2>1, <2>2, <2>3 DEF Init, TypeOK, PcType
<1>2. Entries
  BY <1>1 DEF Init, Entries, Distinct, Clean, NoEntry, Names, TypeOK
<1>3. Progress(w) /\ Kept(w)
  BY DEF Init, Progress, Writing, Kept
<1> QED  BY <1>1, <1>2, <1>3 DEF IInv

LEMMA StepIInv ==
  ASSUME NEW w, Writers = {w}, IInv(w), [Next]_vars
  PROVE  IInv(w)'
<1> USE DEF IInv
<1>1. CASE Start
  <2>1. TypeOK'
    BY <1>1 DEF Start, TypeOK, Names, Contents, PcType, disk, locals
  <2>2. Entries'
    BY <1>1, <2>1 DEF Start, Entries, Distinct, Clean, Names, TypeOK, disk
  <2>3. Progress(w)'
    BY <1>1, <2>1 DEF Start, Progress, Writing, Entries, TypeOK, Names, disk, locals
  <2>4. Kept(w)'
    BY <1>1, <2>1 DEF Start, Kept, SavedStaysSaved, ValueAt, Entries, Clean, TypeOK, Names, disk, locals
  <2> QED  BY <2>1, <2>2, <2>3, <2>4
<1>2. CASE Load
  <2>1. TypeOK'
    BY <1>2 DEF Load, OnlyDoc, TypeOK, Names, Contents, PcType, disk, locals
  <2>2. Entries'
    BY <1>2, <2>1 DEF Load, OnlyDoc, Entries, Distinct, Clean, Names, TypeOK, disk
  <2>3. Progress(w)'
    BY <1>2, <2>1 DEF Load, OnlyDoc, Progress, Writing, Entries, TypeOK, Names, disk, locals
  <2>4. Kept(w)'
    BY <1>2, <2>1 DEF Load, OnlyDoc, Kept, SavedStaysSaved, ValueAt, Entries, Clean, TypeOK, Names, disk, locals
  <2> QED  BY <2>1, <2>2, <2>3, <2>4
<1>3. CASE WriteBack
  <2>1. TypeOK'
    BY <1>3 DEF WriteBack, TypeOK, Names, Contents, PcType, disk, locals
  <2>2. Entries'
    BY <1>3, <2>1 DEF WriteBack, Entries, Distinct, Clean, Names, TypeOK, disk
  <2>3. Progress(w)'
    BY <1>3, <2>1 DEF WriteBack, Progress, Writing, Entries, TypeOK, Names, disk, locals
  <2>4. Kept(w)'
    BY <1>3, <2>1 DEF WriteBack, Kept, SavedStaysSaved, ValueAt, Entries, Clean, TypeOK, Names, disk, locals
  <2> QED  BY <2>1, <2>2, <2>3, <2>4
<1>4. CASE Kill
  <2>1. TypeOK'
    BY <1>4 DEF Kill, Reset, TypeOK, Names, Contents, PcType, disk, locals
  <2>2. Entries'
    BY <1>4, <2>1 DEF Kill, Reset, Entries, Distinct, Clean, Names, TypeOK, disk
  <2>3. Progress(w)'
    BY <1>4, <2>1 DEF Kill, Reset, Progress, Writing, Entries, TypeOK, Names, disk, locals
  <2>4. Kept(w)'
    BY <1>4, <2>1 DEF Kill, Reset, Kept, SavedStaysSaved, ValueAt, Entries, Clean, TypeOK, Names, disk, locals
  <2> QED  BY <2>1, <2>2, <2>3, <2>4
<1>5. CASE PowerLoss
  <2>1. TypeOK'
    BY <1>5 DEF PowerLoss, Reset, TypeOK, Names, Contents, PcType, disk, locals
  <2>2. Entries'
    BY <1>5, <2>1 DEF PowerLoss, Reset, Entries, Distinct, Clean, Names, TypeOK, disk
  <2>3. Progress(w)'
    BY <1>5, <2>1 DEF PowerLoss, Reset, Progress, Writing, Entries, TypeOK, Names, disk, locals
  <2>4. Kept(w)'
    BY <1>5, <2>1 DEF PowerLoss, Reset, Kept, SavedStaysSaved, ValueAt, Entries, Clean, TypeOK, Names, disk, locals
  <2> QED  BY <2>1, <2>2, <2>3, <2>4
<1>6. CASE Save(w)
  <2>1. TypeOK'
    BY <1>6 DEF Save, Go, TypeOK, Names, Contents, PcType, disk, locals
  <2>2. Entries'
    BY <1>6, <2>1 DEF Save, Go, Entries, Distinct, Clean, Names, TypeOK, disk
  <2>3. Progress(w)'
    BY <1>6, <2>1 DEF Save, Go, Progress, Writing, Entries, TypeOK, Names, disk, locals
  <2>4. Kept(w)'
    BY <1>6, <2>1 DEF Save, Go, Kept, SavedStaysSaved, ValueAt, Entries, Clean, TypeOK, Names, disk, locals
  <2> QED  BY <2>1, <2>2, <2>3, <2>4
<1>7. CASE UnlinkTmp(w)
  <2>1. TypeOK'
    BY <1>7 DEF UnlinkTmp, Unlinked, Go, TypeOK, Names, Contents, PcType, disk, locals
  <2>2. Entries'
    BY <1>7, <2>1 DEF UnlinkTmp, Unlinked, Go, Entries, Distinct, Clean, Names, TypeOK, disk
  <2>3. Progress(w)'
    BY <1>7, <2>1 DEF UnlinkTmp, Unlinked, Go, Progress, Writing, Entries, TypeOK, Names, disk, locals
  <2>4. Kept(w)'
    BY <1>7, <2>1 DEF UnlinkTmp, Unlinked, Go, Kept, SavedStaysSaved, ValueAt, Entries, Clean, TypeOK, Names, disk, locals
  <2> QED  BY <2>1, <2>2, <2>3, <2>4
<1>8. CASE OpenTmp(w)
  <2>1. TypeOK'
    <3>1. PICK i \in Free : /\ dir' = [dir EXCEPT ![pid] = i]
                            /\ data' = [data EXCEPT ![i] = Blank]
                            /\ fd' = [fd EXCEPT ![w] = i]
                            /\ durableData' = [durableData EXCEPT ![i] = Blank]
      BY <1>8 DEF OpenTmp, Progress
    <3>2. i \in Inodes /\ Blank \in Contents
      BY DEF Free, Blank, Contents
    <3>3. /\ dir' \in [Names -> Inodes \cup {NoInode}]
          /\ fd' \in [Writers -> Inodes \cup {NoInode}]
      BY <3>1, <3>2 DEF TypeOK
    <3>4. data' \in [Inodes -> Contents] /\ durableData' \in [Inodes -> Contents]
      BY <3>1, <3>2 DEF TypeOK
    <3>5. pos' \in [Writers -> 1 .. Chunks + 1] /\ pc' \in [Writers -> PcType]
      BY <1>8 DEF OpenTmp, Go, TypeOK, PcType
    <3> QED  BY <1>8, <3>3, <3>4, <3>5 DEF OpenTmp, TypeOK
  <2>2. Entries'
    <3>1. PICK i \in Free : /\ dir' = [dir EXCEPT ![pid] = i]
                            /\ data' = [data EXCEPT ![i] = Blank]
                            /\ durableData' = [durableData EXCEPT ![i] = Blank]
      BY <1>8 DEF OpenTmp, Progress
    <3>2. pid \in Pids /\ i \in Inodes /\ UNCHANGED durableDir
      BY <1>8 DEF OpenTmp, Progress, Free
    <3>3. \A n \in Names : dir[n] # i /\ durableDir[n] # i
      BY DEF Free
    <3>4. dir'[Doc] = dir[Doc] /\ dir[Doc] # i /\ durableDir[Doc] # i
      BY <3>1, <3>2, <3>3 DEF TypeOK, Names
    <3>5. Clean(dir[Doc])' /\ Clean(durableDir[Doc])'
      BY <3>1, <3>2, <3>4 DEF Entries, Clean, TypeOK, Names
    <3> QED  BY <3>1, <3>2, <3>3, <3>4, <3>5 DEF Entries, Distinct, Names, TypeOK
  <2>3. Progress(w)'
    BY <1>8, <2>1 DEF OpenTmp, Go, Free, Blank, Progress, Writing, Entries, TypeOK, Names, disk, locals
  <2>4. Kept(w)'
    BY <1>8, <2>1 DEF OpenTmp, Go, Free, Blank, Kept, SavedStaysSaved, ValueAt, Entries, Clean, TypeOK, Names, disk, locals
  <2> QED  BY <2>1, <2>2, <2>3, <2>4
<1>9. CASE WriteChunk(w)
  <2>1. TypeOK'
    <3>1. /\ fd[w] \in Inodes /\ pos[w] \in 1 .. Chunks /\ arg[w] \in Docs
          /\ fd[w] # dir[Doc] /\ fd[w] # durableDir[Doc]
          /\ data[fd[w]] \in Contents
          /\ data' = [data EXCEPT ![fd[w]] = WithChunk(data[fd[w]], pos[w], arg[w])]
      BY <1>9 DEF WriteChunk, Progress, Writing, TypeOK
    <3>2. WithChunk(data[fd[w]], pos[w], arg[w]) \in Contents
      BY <3>1 DEF WithChunk, Contents
    <3>3. data' \in [Inodes -> Contents]
      BY <3>1, <3>2 DEF TypeOK
    <3>4. pos' \in [Writers -> 1 .. Chunks + 1] /\ pc' \in [Writers -> PcType]
      BY <1>9, <3>1 DEF WriteChunk, Go, TypeOK, PcType
    <3> QED  BY <1>9, <3>3, <3>4 DEF WriteChunk, TypeOK
  <2>2. Entries'
    <3>1. /\ fd[w] \in Inodes /\ pos[w] \in 1 .. Chunks /\ arg[w] \in Docs
          /\ fd[w] # dir[Doc] /\ fd[w] # durableDir[Doc]
          /\ data[fd[w]] \in Contents
          /\ data' = [data EXCEPT ![fd[w]] = WithChunk(data[fd[w]], pos[w], arg[w])]
      BY <1>9 DEF WriteChunk, Progress, Writing, TypeOK
    <3>2. WithChunk(data[fd[w]], pos[w], arg[w]) \in Contents
      BY <3>1 DEF WithChunk, Contents
    <3>3. UNCHANGED <<dir, durableDir, durableData>>
      BY <1>9 DEF WriteChunk
    <3>4. \A j \in Inodes : j # fd[w] => data'[j] = data[j]
      BY <3>1 DEF TypeOK
    <3>5. Clean(dir[Doc])' /\ Clean(durableDir[Doc])'
      BY <3>1, <3>3, <3>4 DEF Entries, Clean, TypeOK, Names
    <3> QED  BY <3>3, <3>5 DEF Entries, Distinct
  <2>3. Progress(w)'
    <3>1. /\ fd[w] \in Inodes /\ pos[w] \in 1 .. Chunks /\ arg[w] \in Docs
          /\ fd[w] # dir[Doc] /\ fd[w] # durableDir[Doc]
          /\ data[fd[w]] \in Contents
          /\ data' = [data EXCEPT ![fd[w]] = WithChunk(data[fd[w]], pos[w], arg[w])]
      BY <1>9 DEF WriteChunk, Progress, Writing, TypeOK
    <3>2. WithChunk(data[fd[w]], pos[w], arg[w]) \in Contents
      BY <3>1 DEF WithChunk, Contents
    <3> DEFINE c == WithChunk(data[fd[w]], pos[w], arg[w])
    <3>3. data'[fd[w]] = c /\ UNCHANGED <<dir, durableDir, pid, arg, fd>>
      BY <1>9, <3>1 DEF WriteChunk, TypeOK
    <3>4. \A k \in 1 .. pos[w] : c[k] = arg[w]
      BY <1>9, <3>1 DEF WithChunk, Contents, Progress, WriteChunk
    <3>5. pos'[w] = pos[w] + 1 /\ pc'[w] = IF pos[w] = Chunks THEN "sync" ELSE "write"
      BY <1>9 DEF WriteChunk, Go, TypeOK
    <3>6. CASE pos[w] = Chunks
      <4>1. c = Whole(arg[w])
        BY <3>2, <3>4, <3>6 DEF Contents, Whole
      <4> HIDE DEF c
      <4> QED  BY <1>9, <3>1, <3>3, <3>5, <3>6, <4>1 DEF Progress, Writing, WriteChunk
    <3>7. CASE pos[w] # Chunks
      <4>1. pos'[w] \in 1 .. Chunks /\ pos'[w] - 1 = pos[w]
        BY <3>1, <3>5, <3>7
      <4> HIDE DEF c
      <4> QED  BY <1>9, <3>1, <3>3, <3>4, <3>5, <3>7, <4>1 DEF Progress, Writing, WriteChunk
    <3> QED  BY <3>6, <3>7
  <2>4. Kept(w)'
    BY <1>9, <2>1 DEF WriteChunk, WithChunk, Go, Whole, Kept, SavedStaysSaved, ValueAt, Entries, Clean, TypeOK, Names, disk, locals
  <2> QED  BY <2>1, <2>2, <2>3, <2>4
<1>10. CASE SyncTmp(w)
  <2>1. TypeOK'
    BY <1>10 DEF SyncTmp, Go, TypeOK, Names, Contents, PcType, disk, locals
  <2>2. Entries'
    BY <1>10, <2>1 DEF SyncTmp, Go, Entries, Distinct, Clean, Names, TypeOK, disk
  <2>3. Progress(w)'
    BY <1>10, <2>1 DEF SyncTmp, Go, Progress, Writing, Entries, TypeOK, Names, disk, locals
  <2>4. Kept(w)'
    BY <1>10, <2>1 DEF SyncTmp, Go, Kept, SavedStaysSaved, ValueAt, Entries, Clean, TypeOK, Names, disk, locals
  <2> QED  BY <2>1, <2>2, <2>3, <2>4
<1>11. CASE ReadBack(w)
  <2>1. TypeOK'
    BY <1>11 DEF ReadBack, Go, TypeOK, Names, Contents, PcType, disk, locals
  <2>2. Entries'
    BY <1>11, <2>1 DEF ReadBack, Go, Entries, Distinct, Clean, Names, TypeOK, disk
  <2>3. Progress(w)'
    BY <1>11, <2>1 DEF ReadBack, Go, Progress, Writing, Entries, TypeOK, Names, disk, locals
  <2>4. Kept(w)'
    BY <1>11, <2>1 DEF ReadBack, Go, Kept, SavedStaysSaved, ValueAt, Entries, Clean, TypeOK, Names, disk, locals
  <2> QED  BY <2>1, <2>2, <2>3, <2>4
<1>12. CASE Rename(w)
  <2>1. TypeOK'
    <3>1. dir' \in [Names -> Inodes \cup {NoInode}]
      <4>1. CASE dir[pid] = NoInode
        BY <1>12, <4>1 DEF Rename, TypeOK
      <4>2. CASE dir[pid] # NoInode
        <5>1. dir' = Moved(pid)
          BY <1>12, <4>2 DEF Rename
        <5>2. Moved(pid) \in [Names -> Inodes \cup {NoInode}]
          BY <1>12 DEF Rename, Progress, TypeOK, Moved, Names
        <5> QED  BY <5>1, <5>2
      <4> QED  BY <4>1, <4>2
    <3>2. pc' \in [Writers -> PcType]
      BY <1>12 DEF Rename, Go, TypeOK, PcType
    <3> QED  BY <1>12, <3>1, <3>2 DEF Rename, TypeOK, locals
  <2>2. Entries'
    <3>1. CASE dir[pid] = NoInode
      BY <1>12, <3>1 DEF Rename, Entries, Distinct, Clean, Names
    <3>2. CASE dir[pid] # NoInode
      <4>1. /\ dir' = Moved(pid) /\ pid \in Pids
            /\ UNCHANGED <<durableDir, data, durableData>>
        BY <1>12, <3>2 DEF Rename, Progress
      <4>2. /\ dir'[Doc] = dir[pid] /\ dir'[pid] = NoInode
            /\ \A n \in Names : n # Doc /\ n # pid => dir'[n] = dir[n]
        BY <4>1 DEF Moved, Names
      <4>3. dir[pid] = fd[w] /\ Clean(fd[w]) /\ Clean(durableDir[Doc])
        BY <1>12, <3>2 DEF Rename, Progress, Writing, Entries, Clean
      <4>4. Distinct(dir')
        BY <4>1, <4>2 DEF Entries, Distinct, Names
      <4>5. Clean(dir[Doc])' /\ Clean(durableDir[Doc])'
        BY <4>1, <4>2, <4>3 DEF Clean
      <4> QED  BY <4>1, <4>2, <4>4, <4>5 DEF Entries, Distinct, Names
    <3> QED  BY <3>1, <3>2
  <2>3. Progress(w)'
    BY <1>12, <2>1 DEF Rename, Go, Moved, Progress, Writing, Entries, TypeOK, Names, disk, locals
  <2>4. Kept(w)'
    BY <1>12, <2>1 DEF Rename, Go, Moved, Kept, SavedStaysSaved, ValueAt, Entries, Clean, TypeOK, Names, disk, locals
  <2> QED  BY <2>1, <2>2, <2>3, <2>4
<1>13. CASE SyncDir(w)
  <2>1. TypeOK'
    BY <1>13 DEF SyncDir, Go, TypeOK, Names, Contents, PcType, disk, locals
  <2>2. Entries'
    BY <1>13, <2>1 DEF SyncDir, Go, Entries, Distinct, Clean, Names, TypeOK, disk
  <2>3. Progress(w)'
    BY <1>13, <2>1 DEF SyncDir, Go, Progress, Writing, Entries, TypeOK, Names, disk, locals
  <2>4. Kept(w)'
    <3>1. /\ dir[Doc] \in Inodes /\ arg[w] \in Docs /\ data[dir[Doc]] = Whole(arg[w])
          /\ durableData[dir[Doc]] = data[dir[Doc]]
      BY <1>13 DEF SyncDir, Progress, Entries, Clean, TypeOK, Names
    <3>2. Whole(arg[w])[1] = arg[w]
      BY DEF Whole
    <3>3. /\ dir' = dir /\ durableDir' = dir /\ data' = data /\ durableData' = durableData
          /\ safe' = arg[w] /\ pc'[w] = "idle"
      BY <1>13 DEF SyncDir, Go, TypeOK
    <3> QED  BY <3>1, <3>2, <3>3 DEF Kept, SavedStaysSaved, ValueAt
  <2> QED  BY <2>1, <2>2, <2>3, <2>4
<1>14. CASE Fail(w)
  <2>1. TypeOK'
    BY <1>14 DEF Fail, Go, TypeOK, Names, Contents, PcType, disk, locals
  <2>2. Entries'
    BY <1>14, <2>1 DEF Fail, Go, Entries, Distinct, Clean, Names, TypeOK, disk
  <2>3. Progress(w)'
    BY <1>14, <2>1 DEF Fail, Go, Progress, Writing, Entries, TypeOK, Names, disk, locals
  <2>4. Kept(w)'
    BY <1>14, <2>1 DEF Fail, Go, Kept, SavedStaysSaved, ValueAt, Entries, Clean, TypeOK, Names, disk, locals
  <2> QED  BY <2>1, <2>2, <2>3, <2>4
<1>15. CASE Abandon(w)
  <2>1. TypeOK'
    BY <1>15 DEF Abandon, Unlinked, Go, TypeOK, Names, Contents, PcType, disk, locals
  <2>2. Entries'
    BY <1>15, <2>1 DEF Abandon, Unlinked, Go, Entries, Distinct, Clean, Names, TypeOK, disk
  <2>3. Progress(w)'
    BY <1>15, <2>1 DEF Abandon, Unlinked, Go, Progress, Writing, Entries, TypeOK, Names, disk, locals
  <2>4. Kept(w)'
    BY <1>15, <2>1 DEF Abandon, Unlinked, Go, Kept, SavedStaysSaved, ValueAt, Entries, Clean, TypeOK, Names, disk, locals
  <2> QED  BY <2>1, <2>2, <2>3, <2>4
<1>16. CASE UNCHANGED vars
  <2>1. TypeOK'
    BY <1>16 DEF vars, TypeOK, Names, Contents, PcType, disk, locals
  <2>2. Entries'
    BY <1>16, <2>1 DEF vars, Entries, Distinct, Clean, Names, TypeOK, disk
  <2>3. Progress(w)'
    BY <1>16, <2>1 DEF vars, Progress, Writing, Entries, TypeOK, Names, disk, locals
  <2>4. Kept(w)'
    BY <1>16, <2>1 DEF vars, Kept, SavedStaysSaved, ValueAt, Entries, Clean, TypeOK, Names, disk, locals
  <2> QED  BY <2>1, <2>2, <2>3, <2>4
<1> QED  BY <1>1, <1>2, <1>3, <1>4, <1>5, <1>6, <1>7, <1>8, <1>9, <1>10, <1>11, <1>12, <1>13, <1>14, <1>15, <1>16 DEF Next, SaveStep
-----------------------------------------------------------------------------
LEMMA IInvAlways ==
  ASSUME NEW CONSTANT w, Writers = {w}
  PROVE  Spec => []IInv(w)
BY InitIInv, StepIInv, PTL DEF Spec

(* With one saving thread, license.json and state.json are one whole       *)
(* document at every moment, in memory and on disk, whatever fails, dies   *)
(* or loads meanwhile (write_file_atomic_).                                *)
THEOREM OneWriterIsAtomic ==
  ASSUME NEW CONSTANT w, Writers = {w}
  PROVE  Spec => []DocIsWhole
<1>1. IInv(w) => DocIsWhole
  BY DEF IInv, DocIsWhole, WholeAt, Entries, Clean, TypeOK, Names
<1> QED  BY <1>1, IInvAlways, PTL

(* A save that reported success after syncing the directory survives every *)
(* kill and power loss until the next save.                                *)
THEOREM OneWriterKeepsSaved ==
  ASSUME NEW CONSTANT w, Writers = {w}
  PROVE  Spec => []SavedStaysSaved
<1>1. IInv(w) => SavedStaysSaved
  BY DEF IInv, Kept, SavedStaysSaved
<1> QED  BY <1>1, IInvAlways, PTL

(* Every step of the system calls is a step of the register or none.       *)
LEMMA RegisterInit ==
  Init => Register!Init
<1> SUFFICES ASSUME Init PROVE Register!Init
  OBVIOUS
<1>1. dir[Doc] \in Inodes \cup {NoInode}
  BY DEF Init, NoEntry, Names
<1>2. \A i \in Inodes : data[i][1] \in Docs
  BY DEF Init, Whole
<1> QED  BY <1>1, <1>2 DEF Init, Register!Init, ValueAt

LEMMA RegisterStep ==
  ASSUME NEW w, Writers = {w}, IInv(w), [Next]_vars
  PROVE  [Register!Next]_(Register!vars)
<1> DEFINE value == ValueAt(dir, data)
           stable == ValueAt(durableDir, durableData)
<1>0. /\ dir[Doc] \in Inodes \cup {NoInode} /\ durableDir[Doc] \in Inodes \cup {NoInode}
      /\ dir[Doc] # NoInode => durableData[dir[Doc]] = data[dir[Doc]]
      /\ durableDir[Doc] # NoInode => durableData[durableDir[Doc]] = data[durableDir[Doc]]
  BY DEF IInv, TypeOK, Names, Entries, Clean
<1> SUFFICES \/ UNCHANGED <<value, stable>>
             \/ value' \in Docs /\ stable' = stable
             \/ stable' = value /\ value' = value
             \/ value' = stable /\ stable' = stable
  BY DEF Register!Next, Register!Put, Register!Settle, Register!PowerLoss, Register!vars
<1>1. CASE UNCHANGED <<disk>>
  BY <1>1 DEF disk, ValueAt
<1>2. ASSUME /\ dir'[Doc] = dir[Doc]
             /\ UNCHANGED <<durableDir, data, durableData>>
      PROVE  UNCHANGED <<value, stable>>
  BY <1>2 DEF ValueAt
<1>3. CASE Load
  <2>1. dir'[Doc] = dir[Doc]
    BY <1>3 DEF Load, OnlyDoc, Names
  <2> QED  BY <1>2, <1>3, <2>1 DEF Load
<1>4. CASE WriteBack
  <2>1. CASE durableDir' = dir /\ UNCHANGED durableData
    BY <1>0, <1>4, <2>1 DEF WriteBack, ValueAt
  <2>2. CASE /\ \E i \in Inodes : durableData' = [durableData EXCEPT ![i] = data[i]]
             /\ UNCHANGED durableDir
    BY <1>0, <1>4, <2>2 DEF WriteBack, ValueAt, IInv, TypeOK
  <2> QED  BY <1>4, <2>1, <2>2 DEF WriteBack
<1>5. CASE PowerLoss
  BY <1>5 DEF PowerLoss, ValueAt
<1>6. CASE UnlinkTmp(w) \/ Abandon(w)
  <2>1. dir'[Doc] = dir[Doc]
    BY <1>6 DEF UnlinkTmp, Abandon, Unlinked, IInv, Progress, TypeOK, Names
  <2> QED  BY <1>2, <1>6, <2>1 DEF UnlinkTmp, Abandon
<1>7. CASE OpenTmp(w)
  <2>1. PICK i \in Free : /\ dir' = [dir EXCEPT ![pid] = i]
                          /\ data' = [data EXCEPT ![i] = Blank]
                          /\ durableData' = [durableData EXCEPT ![i] = Blank]
    BY <1>7 DEF OpenTmp, IInv, Progress
  <2>2. i # dir[Doc] /\ i # durableDir[Doc] /\ dir'[Doc] = dir[Doc]
    BY <1>7, <2>1 DEF Free, Names, IInv, TypeOK, Progress, OpenTmp
  <2>3. UNCHANGED durableDir
    BY <1>7 DEF OpenTmp
  <2> QED  BY <1>0, <2>1, <2>2, <2>3 DEF ValueAt, IInv, TypeOK
<1>8. CASE WriteChunk(w)
  <2>1. fd[w] # dir[Doc] /\ UNCHANGED <<dir, durableDir, durableData>>
        /\ data' = [data EXCEPT ![fd[w]] = WithChunk(data[fd[w]], pos[w], arg[w])]
    BY <1>8 DEF WriteChunk, IInv, Progress, Writing
  <2> QED  BY <1>0, <2>1 DEF ValueAt, IInv, TypeOK
<1>9. CASE SyncTmp(w)
  <2>1. fd[w] # durableDir[Doc] /\ UNCHANGED <<dir, durableDir, data>>
        /\ durableData' = [durableData EXCEPT ![fd[w]] = data[fd[w]]]
    BY <1>9 DEF SyncTmp, IInv, Progress, Writing
  <2> QED  BY <1>0, <2>1 DEF ValueAt, IInv, TypeOK
<1>10. CASE Rename(w)
  <2>1. CASE dir[pid] = NoInode
    BY <1>1, <1>10, <2>1 DEF Rename, disk
  <2>2. CASE dir[pid] # NoInode
    <3>1. /\ dir'[Doc] = fd[w] /\ fd[w] \in Inodes /\ arg[w] \in Docs
          /\ data[fd[w]] = Whole(arg[w])
          /\ UNCHANGED <<durableDir, data, durableData>>
      BY <1>10, <2>2 DEF Rename, Moved, Names, IInv, Progress, Writing
    <3>2. Whole(arg[w])[1] = arg[w]
      BY DEF Whole
    <3> QED  BY <3>1, <3>2 DEF ValueAt
  <2> QED  BY <2>1, <2>2
<1>11. CASE SyncDir(w)
  BY <1>0, <1>11 DEF SyncDir, ValueAt
<1>12. CASE Start \/ Kill \/ Save(w) \/ ReadBack(w) \/ Fail(w) \/ UNCHANGED vars
  BY <1>1, <1>12 DEF Start, Kill, Save, ReadBack, Fail, vars, disk
<1> QED  BY <1>3, <1>4, <1>5, <1>6, <1>7, <1>8, <1>9, <1>10, <1>11, <1>12 DEF Next, SaveStep

(* With one saving thread, the system calls of write_file_atomic_ and      *)
(* load() implement AtomicRegister: each save takes effect in one step.    *)
THEOREM OneWriterRefines ==
  ASSUME NEW CONSTANT w, Writers = {w}
  PROVE  Spec => ImplementsRegister
BY RegisterInit, RegisterStep, IInvAlways, PTL DEF Spec, ImplementsRegister, Register!Spec
-----------------------------------------------------------------------------
(* The online check.  OutageIsBridged is not inductive: what an acceptance *)
(* leaves in the status, and how far ahead the thread may be asleep, must  *)
(* be carried along.                                                       *)

OnlineTyped ==
  /\ now \in Nat \ {0} /\ wake \in Nat /\ backoff \in 0 .. BackoffCap
  /\ status.verified \in Nat /\ status.expire \in Nat /\ status.next \in Nat
  /\ answer \in {"none", "refused", "accepted"}

(* Once the server has accepted the card, and until it refuses one, the    *)
(* status has the content, the expiry and the time of that acceptance.     *)
Accepted ==
  /\ status.verified > 0 => status.expire > 0
  /\ answer = "accepted" => /\ status.grant = Grant /\ status.verified > 0
                            /\ Unexpired(status.expire, now) => AllowRun(status)

(* The next check and the wake-up are never further ahead than one sleep.  *)
NearWake ==
  /\ wake <= now + Slack /\ status.next <= now + HeartbeatInterval
  /\ AllowRun(status) => status.expire > 0 /\ wake <= status.expire + Slack

OnlineInv == OnlineTyped /\ Accepted /\ NearWake /\ ExpiryEndsPermission

LEMMA SlackBounds ==
  /\ Slack \in Nat /\ BackoffCap <= Slack /\ ThreadHeartbeat <= Slack /\ HeartbeatInterval <= Slack
<1> DEFINE S == {BackoffCap, ThreadHeartbeat, HeartbeatInterval}
<1>1. BackoffCap \in Nat /\ ThreadHeartbeat \in Nat /\ HeartbeatInterval \in Nat
  BY OnlineAssumption
<1>2. \E x \in S : \A y \in S : y <= x
  <2>1. CASE ThreadHeartbeat <= BackoffCap /\ HeartbeatInterval <= BackoffCap
    BY <1>1, <2>1
  <2>2. CASE BackoffCap <= ThreadHeartbeat /\ HeartbeatInterval <= ThreadHeartbeat
    BY <1>1, <2>2
  <2>3. CASE BackoffCap <= HeartbeatInterval /\ ThreadHeartbeat <= HeartbeatInterval
    BY <1>1, <2>3
  <2> QED BY <1>1, <2>1, <2>2, <2>3
<1>3. Slack \in S /\ \A y \in S : y <= Slack
  BY <1>2 DEF Slack, LargestOf
<1> QED BY <1>1, <1>3

LEMMA BackoffStays ==
  ASSUME NEW cur \in 0 .. BackoffCap, NEW done \in BOOLEAN
  PROVE  NextBackoff(cur, done, BackoffBase, BackoffCap) \in 0 .. BackoffCap
BY OnlineAssumption DEF NextBackoff

(* What one answer makes of the status, by the kind of answer.             *)
LEMMA Concluded ==
  ASSUME OnlineInv, NEW a \in Answers, Conclude(a)
  PROVE  /\ status'.verified \in Nat /\ status'.expire \in Nat /\ status'.next \in Nat
         /\ answer' \in {"none", "refused", "accepted"}
         /\ status'.next <= now + HeartbeatInterval
         /\ AllowRun(status') => now < status'.expire
         /\ status'.verified > 0 => status'.expire > 0
         /\ answer' = "accepted" => /\ status'.grant = Grant /\ status'.verified > 0
                                    /\ Unexpired(status'.expire, now) => AllowRun(status')
<1> USE DEF OnlineInv, OnlineTyped
<1>1. CASE \E life \in Lifetimes : a = [out |-> Acceptance(now + life, Grant), ok |-> TRUE, says |-> "accepted"]
  <2>1. PICK life \in Lifetimes : a = [out |-> Acceptance(now + life, Grant), ok |-> TRUE, says |-> "accepted"]
    BY <1>1
  <2>2. life \in Nat \ {0}
    BY OnlineAssumption
  <2>3. status' = Status("Valid", now, now + life, now + HeartbeatInterval, Grant)
    BY <2>1 DEF Conclude, ApplyCheckResult, CheckSucceeded, Acceptance, Status
  <2>4. answer' = "accepted"
    BY <2>1 DEF Conclude
  <2> QED BY <2>2, <2>3, <2>4, OnlineAssumption DEF Status, AllowRun
<1>2. CASE a = [out |-> Refusal("InvalidCard", 0), ok |-> TRUE, says |-> "refused"]
  <2>1. /\ status'.state = "InvalidCard" /\ status'.verified = status.verified
        /\ status'.expire = status.expire /\ status'.next = 0
    BY <1>2 DEF Conclude, ApplyCheckResult, CheckSucceeded, IsNetworkClassFailure, Refusal, Status
  <2>2. answer' = "refused"
    BY <1>2 DEF Conclude
  <2> QED BY <2>1, <2>2, OnlineAssumption DEF AllowRun, Accepted
<1>3. CASE a = [out |-> Refusal("NetworkError", 0), ok |-> FALSE, says |-> answer]
  <2>1. /\ status'.state = IF status.verified > 0 /\ Unexpired(status.expire, now)
                           THEN "Fallback" ELSE "NetworkError"
        /\ status'.verified = status.verified /\ status'.expire = status.expire
        /\ status'.next = 0 /\ status'.grant = status.grant
    BY <1>3 DEF Conclude, ApplyCheckResult, CheckSucceeded, IsNetworkClassFailure, Refusal, Status
  <2>2. answer' = answer
    BY <1>3 DEF Conclude
  <2> QED BY <2>1, <2>2, OnlineAssumption DEF AllowRun, Accepted, Unexpired
<1> QED BY <1>1, <1>2, <1>3 DEF Answers

LEMMA OnlineInitInv == OnlineInit => OnlineInv
BY SlackBounds, OnlineAssumption
   DEF OnlineInit, OnlineInv, OnlineTyped, Accepted, NearWake, ExpiryEndsPermission, UnknownStatus,
       Status, AllowRun

LEMMA CheckInv == ASSUME OnlineInv, Check PROVE OnlineInv'
<1>1. PICK a \in Answers :
        /\ Conclude(a) /\ UNCHANGED <<now, running>>
        /\ backoff' = NextBackoff(backoff, CheckSucceeded(a.out, a.ok), BackoffBase, BackoffCap)
        /\ wake' = now + IF backoff' > 0 THEN backoff' ELSE ThreadHeartbeat
  BY DEF Check
<1>2. CheckSucceeded(a.out, a.ok) \in BOOLEAN
  BY DEF CheckSucceeded, Answers
<1>3. backoff' \in 0 .. BackoffCap
  BY <1>1, <1>2, BackoffStays DEF OnlineInv, OnlineTyped
<1>4. wake' \in Nat /\ wake' <= now + Slack
  BY <1>1, <1>3, SlackBounds, OnlineAssumption DEF OnlineInv, OnlineTyped
<1> QED BY <1>1, <1>3, <1>4, Concluded, SlackBounds
        DEF OnlineInv, OnlineTyped, Accepted, NearWake, ExpiryEndsPermission

LEMMA VerifyNowInv == ASSUME OnlineInv, VerifyNow PROVE OnlineInv'
<1>1. PICK a \in Answers : Conclude(a) /\ UNCHANGED <<now, backoff, wake, running>>
  BY DEF VerifyNow
<1> QED BY <1>1, Concluded, SlackBounds
        DEF OnlineInv, OnlineTyped, Accepted, NearWake, ExpiryEndsPermission

LEMMA SleepInv == ASSUME OnlineInv, Sleep PROVE OnlineInv'
<1> USE DEF OnlineInv, OnlineTyped
<1>1. /\ UNCHANGED <<now, status, backoff, running, answer>> /\ status.state = "Valid"
      /\ now < status.next /\ Unexpired(status.expire, now)
      /\ wake' = SmallestOf({status.next} \cup IF status.expire > now THEN {status.expire} ELSE {})
  BY DEF Sleep, Due
<1>2. now < status.expire
  BY <1>1 DEF NearWake, AllowRun, Unexpired
<1>3. wake' = SmallestOf({status.next, status.expire})
  BY <1>1, <1>2
<1>4. \E x \in {status.next, status.expire} : \A y \in {status.next, status.expire} : x <= y
  <2>1. CASE status.next <= status.expire
    BY <2>1
  <2>2. CASE status.expire <= status.next
    BY <2>2
  <2> QED BY <2>1, <2>2
<1>5. wake' \in Nat /\ wake' <= status.next /\ wake' <= status.expire
  BY <1>3, <1>4 DEF SmallestOf
<1> QED BY <1>1, <1>2, <1>5, SlackBounds, OnlineAssumption DEF Accepted, NearWake, ExpiryEndsPermission, AllowRun, Unexpired

LEMMA TickInv == ASSUME OnlineInv, Tick PROVE OnlineInv'
<1>1. now' = now + 1 /\ now < wake /\ UNCHANGED <<status, backoff, wake, running, answer>>
  BY DEF Tick, Awake, OnlineInv, OnlineTyped
<1> QED BY <1>1, SlackBounds, OnlineAssumption
        DEF OnlineInv, OnlineTyped, Accepted, NearWake, ExpiryEndsPermission, Unexpired, AllowRun

LEMMA OnlineStep == ASSUME OnlineInv, [OnlineNext]_onlineVars PROVE OnlineInv'
<1>1. CASE Stop \/ UNCHANGED onlineVars
  <2>1. UNCHANGED <<now, status, backoff, wake, answer>> /\ (running' = running \/ running' = FALSE)
    BY <1>1 DEF Stop, onlineVars
  <2> QED BY <2>1 DEF OnlineInv, OnlineTyped, Accepted, NearWake, ExpiryEndsPermission
<1> QED BY <1>1, CheckInv, VerifyNowInv, SleepInv, TickInv DEF OnlineNext

(* Fail-open of the check cycle and its end, for every lifetime, heartbeat *)
(* and backoff: an outage does not stop what the server has accepted and   *)
(* not refused since, as long as it lasts, and the permission to run ends  *)
(* within one sleep of the thread after the expiry.                        *)
THEOREM OutageBridged == OnlineSpec => []OutageIsBridged
<1>1. OnlineInv => OutageIsBridged
  BY DEF OnlineInv, Accepted, OutageIsBridged, OutageKeepsLicence
<1> QED BY <1>1, OnlineInitInv, OnlineStep, PTL DEF OnlineSpec
=============================================================================
