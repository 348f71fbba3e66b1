------------------------ MODULE AtomicUploadProofs ------------------------
(***************************************************************************)
(* Proofs about AtomicUpload, for any uploads, targets, requests, number   *)
(* of temp names and length of bodies.                                     *)
(***************************************************************************)
EXTENDS AtomicUpload, TLAPS

USE MaxTempsAssumption, MaxLenAssumption, RequestsAssumption,
    FlagsAssumption, NamesAssumption

\* The upload has been given a request.
Requested == \A u \in Uploads : pc[u] # "idle" => req[u] \in Requests

\* No directory, no entries; and the loop index stays a slot.
EmptyWithoutParent ==
  ~parent => /\ \A t \in Targets : files[t] = None
             /\ \A p \in TempPaths : temps[p] = None

\* A temp file is at the temp name of the upload that wrote it, which is
\* still uncommitted; this rules out that two names share an upload's file.
TempsPlaced ==
  \A p \in TempPaths : temps[p] # None =>
    /\ pc[temps[p]] \in {"body", "drop", "killed"}
    /\ ~committed[temps[p]]
    /\ p = TempPath(temps[p])

\* Until its AtomicFile is dropped or committed, an upload has its temp.
HasTemp ==
  \A u \in Uploads :
    pc[u] = "body" \/ (pc[u] = "drop" /\ ~committed[u]) => temps[TempPath(u)] = u

\* While streaming, the three counters agree, bounded by the body.
CountersAgree ==
  \A u \in Uploads :
    /\ pc[u] \in {"idle", "parent", "check", "create"} =>
         data[u] = 0 /\ written[u] = 0 /\ hashed[u] = 0
    /\ pc[u] = "body" => /\ data[u] = written[u] /\ hashed[u] = written[u]
                         /\ written[u] <= req[u].len
                         /\ ~committed[u]
    /\ pc[u] = "xattr" => committed[u]
    /\ committed[u] => pc[u] \in {"xattr", "drop", "done", "killed"}
    /\ committed[u] <=> replaced[u] # "unpublished"

\* A published file is whole and its upload is past the last write.
FilesWhole ==
  \A t \in Targets : files[t] \in Uploads =>
    /\ Whole(files[t])
    /\ committed[files[t]]

\* The inductive invariant of the upload path.
UploadInv ==
  /\ TypeOK
  /\ Requested
  /\ EmptyWithoutParent
  /\ TempsPlaced
  /\ HasTemp
  /\ CountersAgree
  /\ FilesWhole

---------------------------------------------------------------------------
\* The fields of a request have their types.
LEMMA RequestFields ==
  ASSUME NEW r \in Requests
  PROVE  /\ r.target \in Targets
         /\ r.len \in 0 .. MaxLen
         /\ r.size \in {None} \cup (0 .. MaxLen)
         /\ r.sum \in Checksums
         /\ r.fresh \in BOOLEAN
BY DEF Request

\* The initial states satisfy the inductive invariant.
LEMMA InitInv == Init => UploadInv
<1> SUFFICES ASSUME Init PROVE UploadInv
  OBVIOUS
<1>1. TypeOK
  BY DEF Init, TypeOK, Entries, Inodes, Slots, Phases, Replies
<1>2. FilesWhole
  BY DEF Init, FilesWhole, Inodes
<1>3. CountersAgree
  BY DEF Init, CountersAgree
<1>4. Requested /\ EmptyWithoutParent /\ TempsPlaced /\ HasTemp
  BY DEF Init, Requested, EmptyWithoutParent, TempsPlaced, HasTemp
<1> QED
  BY <1>1, <1>2, <1>3, <1>4 DEF UploadInv

\* The request of an upload that has begun, its target and its temp name.
LEMMA Begun ==
  ASSUME TypeOK, Requested, NEW u \in Uploads, pc[u] # "idle"
  PROVE  /\ req[u] \in Requests
         /\ req[u].len \in 0 .. MaxLen
         /\ Target(u) \in Targets
         /\ TempPath(u) \in TempPaths
BY RequestFields DEF TypeOK, Requested, Target, TempPath, TempPaths

\* A DELETE or a MOVE of the directory takes temp files too: none of them is
\* one that an upload under way relies on.
LEMMA TempsTaken ==
  ASSUME UploadInv, SparesTemps, RenameParent \/ \E p \in TempPaths : RemoveTemp(p)
  PROVE  UploadInv'
<1> USE DEF UploadInv
<1>1. UNCHANGED <<sha, uploadVars>>
  BY DEF RenameParent, RemoveTemp
<1>2. /\ parent' \in BOOLEAN
      /\ parent' = parent \/ \A t \in Targets : files'[t] = None
      /\ files' \in [Targets -> Entries]
      /\ \A t \in Targets : files'[t] \in {files[t], None}
      /\ temps' \in [TempPaths -> Uploads \cup {None}]
      /\ \A p \in TempPaths : temps'[p] \in {temps[p], None}
      /\ ~parent' => (~parent \/ \A p \in TempPaths : temps'[p] = None)
  BY DEF RenameParent, RemoveTemp, TypeOK, Entries
<1>3. TypeOK'
  BY <1>1, <1>2 DEF uploadVars, TypeOK
<1>4. \A v \in Uploads : TempPath(v)' = TempPath(v) /\ (Whole(v)' <=> Whole(v))
  BY <1>1 DEF uploadVars, TempPath, Target, Whole, SizeHonest
<1>5. Requested' /\ CountersAgree'
  BY <1>1 DEF uploadVars, Requested, CountersAgree
<1>6. EmptyWithoutParent'
  BY <1>2 DEF EmptyWithoutParent
<1>7. TempsPlaced'
  BY <1>1, <1>2, <1>4 DEF uploadVars, TypeOK, TempsPlaced
<1>8. HasTemp'
  <2> SUFFICES ASSUME NEW v \in Uploads, pc[v] = "body" \/ (pc[v] = "drop" /\ ~committed[v])
               PROVE  temps'[TempPath(v)] = v
    BY <1>1, <1>4 DEF uploadVars, HasTemp
  <2>1. TempPath(v) \in TempPaths /\ temps[TempPath(v)] = v /\ v # None
    BY Begun DEF HasTemp, Inodes
  <2> QED BY <2>1 DEF SparesTemps, Live
<1>9. FilesWhole'
  BY <1>1, <1>2, <1>4 DEF uploadVars, FilesWhole, Inodes
<1> QED
  BY <1>3, <1>5, <1>6, <1>7, <1>8, <1>9

\* Every step preserves the inductive invariant.
LEMMA NextInv == UploadInv /\ [Next]_vars => UploadInv'
<1> SUFFICES ASSUME UploadInv, [Next]_vars PROVE UploadInv'
  OBVIOUS
<1> USE RequestFields DEF UploadInv
<1>1. ASSUME NEW u \in Uploads, NEW r \in Requests, Begin(u, r) PROVE UploadInv'
  <2>1. TypeOK'
    BY <1>1 DEF Begin, fsVars,
       TypeOK, Phases, Replies, Entries, Inodes
  <2>2. Requested'
    BY <1>1 DEF Begin, fsVars,
       TypeOK, Requested
  <2>3. EmptyWithoutParent'
    BY <1>1 DEF Begin, fsVars,
       TypeOK, EmptyWithoutParent, Inodes
  <2>4. TempsPlaced'
    BY <1>1 DEF Begin, fsVars,
       TypeOK, TempsPlaced, HasTemp, Target, TempPath, CountersAgree
  <2>5. HasTemp'
    BY <1>1 DEF Begin, fsVars,
       TypeOK, HasTemp, Target, TempPath, CountersAgree
  <2>6. CountersAgree'
    BY <1>1 DEF Begin, fsVars,
       TypeOK, CountersAgree
  <2>7. FilesWhole'
    BY <1>1 DEF Begin, fsVars,
       TypeOK, FilesWhole, Whole, SizeHonest, CountersAgree, Inodes
  <2> QED
    BY <2>1, <2>2, <2>3, <2>4, <2>5, <2>6, <2>7
<1>2. ASSUME NEW u \in Uploads, EnsureParent(u) PROVE UploadInv'
  <2>0. /\ req[u] \in Requests /\ req[u].len \in 0 .. MaxLen
        /\ Target(u) \in Targets /\ TempPath(u) \in TempPaths
    BY <1>2, Begun DEF EnsureParent
  <2>1. TypeOK'
    BY <1>2, <2>0 DEF EnsureParent, OpenFails,
       TypeOK, Phases, Replies, Entries, Inodes
  <2>2. Requested'
    BY <1>2, <2>0 DEF EnsureParent, OpenFails,
       TypeOK, Requested
  <2>3. EmptyWithoutParent'
    BY <1>2, <2>0 DEF EnsureParent, OpenFails,
       TypeOK, EmptyWithoutParent, Inodes
  <2>4. TempsPlaced'
    BY <1>2, <2>0 DEF EnsureParent, OpenFails,
       TypeOK, TempsPlaced, HasTemp, Target, TempPath, CountersAgree
  <2>5. HasTemp'
    BY <1>2, <2>0 DEF EnsureParent, OpenFails,
       TypeOK, HasTemp, Target, TempPath, CountersAgree
  <2>6. CountersAgree'
    BY <1>2, <2>0 DEF EnsureParent, OpenFails,
       TypeOK, CountersAgree
  <2>7. FilesWhole'
    BY <1>2, <2>0 DEF EnsureParent, OpenFails,
       TypeOK, FilesWhole, Whole, SizeHonest, CountersAgree, Inodes
  <2> QED
    BY <2>1, <2>2, <2>3, <2>4, <2>5, <2>6, <2>7
<1>3. ASSUME NEW u \in Uploads, CheckTarget(u) PROVE UploadInv'
  <2>0. /\ req[u] \in Requests /\ req[u].len \in 0 .. MaxLen
        /\ Target(u) \in Targets /\ TempPath(u) \in TempPaths
    BY <1>3, Begun DEF CheckTarget
  <2>1. TypeOK'
    BY <1>3, <2>0 DEF CheckTarget, OpenFails, fsVars,
       TypeOK, Phases, Replies, Slots
  <2>2. Requested'
    BY <1>3, <2>0 DEF CheckTarget, OpenFails, fsVars,
       TypeOK, Requested
  <2>3. EmptyWithoutParent'
    BY <1>3, <2>0 DEF CheckTarget, OpenFails, fsVars,
       TypeOK, EmptyWithoutParent, Inodes
  <2>4. TempsPlaced'
    BY <1>3, <2>0 DEF CheckTarget, OpenFails, fsVars,
       TypeOK, TempsPlaced, HasTemp, Target, TempPath, CountersAgree
  <2>5. HasTemp'
    BY <1>3, <2>0 DEF CheckTarget, OpenFails, fsVars,
       TypeOK, HasTemp, Target, TempPath, CountersAgree
  <2>6. CountersAgree'
    BY <1>3, <2>0 DEF CheckTarget, OpenFails, fsVars,
       TypeOK, CountersAgree
  <2>7. FilesWhole'
    BY <1>3, <2>0 DEF CheckTarget, OpenFails, fsVars,
       TypeOK, FilesWhole, Whole, SizeHonest, CountersAgree, Inodes
  <2> QED
    BY <2>1, <2>2, <2>3, <2>4, <2>5, <2>6, <2>7
<1>4. ASSUME NEW u \in Uploads, TryTemp(u) PROVE UploadInv'
  <2>0. /\ req[u] \in Requests /\ req[u].len \in 0 .. MaxLen
        /\ Target(u) \in Targets /\ TempPath(u) \in TempPaths
    BY <1>4, Begun DEF TryTemp
  <2>a. /\ pc[u] = "create" /\ pc'[u] \in {"create", "body", "done"}
        /\ pc' = [pc EXCEPT ![u] = pc'[u]]
        /\ UNCHANGED <<req, committed>>
    BY <1>4 DEF TryTemp, TypeOK
  <2>b. \A v \in Uploads : v # u => TempPath(v)' = TempPath(v)
    BY <1>4 DEF TryTemp, TypeOK, Target, TempPath
  <2>c. ASSUME pc'[u] # "body" PROVE TempsPlaced' /\ HasTemp'
    <3>1. temps' = temps
      BY <1>4, <2>c DEF TryTemp, TypeOK
    <3> QED
      BY <2>a, <2>b, <2>c, <3>1 DEF TypeOK, TempsPlaced, HasTemp, CountersAgree
  <2>d. ASSUME pc'[u] = "body" PROVE TempsPlaced' /\ HasTemp'
    <3>1. /\ temps[TempPath(u)] = None
          /\ temps' = [temps EXCEPT ![TempPath(u)] = u]
          /\ TempPath(u)' = TempPath(u)
      BY <1>4, <2>d DEF TryTemp, TypeOK, Target, TempPath
    <3>2. \A v \in Uploads : pc[v] # "idle" => TempPath(v) \in TempPaths
      BY Begun
    <3>3. TempsPlaced'
      BY <2>0, <2>a, <2>b, <2>d, <3>1 DEF TypeOK, TempsPlaced, CountersAgree
    <3>4. HasTemp'
      BY <2>0, <2>a, <2>b, <2>d, <3>1, <3>2 DEF TypeOK, HasTemp, CountersAgree, Inodes
    <3> QED
      BY <3>3, <3>4
  <2>1. TypeOK'
    BY <1>4, <2>0 DEF TryTemp, TypeOK, Slots, Phases, Replies
  <2>2. Requested'
    BY <2>a DEF
       TypeOK, Requested
  <2>3. EmptyWithoutParent'
    BY <1>4, <2>0 DEF TryTemp, TypeOK, EmptyWithoutParent
  <2>4. CountersAgree'
    BY <1>4, <2>0, <2>a DEF TryTemp, TypeOK, CountersAgree
  <2>5. FilesWhole'
    BY <1>4, <2>a DEF TryTemp, TypeOK, FilesWhole, Whole, SizeHonest
  <2> QED
    BY <2>1, <2>2, <2>3, <2>4, <2>5, <2>c, <2>d
<1>5. ASSUME NEW u \in Uploads, WriteChunk(u) PROVE UploadInv'
  <2>0. /\ req[u] \in Requests /\ req[u].len \in 0 .. MaxLen
        /\ Target(u) \in Targets /\ TempPath(u) \in TempPaths
    BY <1>5, Begun DEF WriteChunk
  <2>1. TypeOK'
    BY <1>5, <2>0 DEF WriteChunk, fsVars,
       TypeOK, Phases, Replies, CountersAgree
  <2>2. Requested'
    BY <1>5, <2>0 DEF WriteChunk, fsVars,
       TypeOK, Requested
  <2>3. EmptyWithoutParent'
    BY <1>5, <2>0 DEF WriteChunk, fsVars,
       TypeOK, EmptyWithoutParent, Inodes
  <2>4. TempsPlaced'
    BY <1>5, <2>0 DEF WriteChunk, fsVars,
       TypeOK, TempsPlaced, HasTemp, Target, TempPath, CountersAgree
  <2>5. HasTemp'
    BY <1>5, <2>0 DEF WriteChunk, fsVars,
       TypeOK, HasTemp, Target, TempPath, CountersAgree
  <2>6. CountersAgree'
    BY <1>5, <2>0 DEF WriteChunk, fsVars,
       TypeOK, CountersAgree
  <2>7. FilesWhole'
    BY <1>5, <2>0 DEF WriteChunk, fsVars,
       TypeOK, FilesWhole, Whole, SizeHonest, CountersAgree, Inodes
  <2> QED
    BY <2>1, <2>2, <2>3, <2>4, <2>5, <2>6, <2>7
<1>6. ASSUME NEW u \in Uploads, Abort(u) PROVE UploadInv'
  <2>0. /\ req[u] \in Requests /\ req[u].len \in 0 .. MaxLen
        /\ Target(u) \in Targets /\ TempPath(u) \in TempPaths
    BY <1>6, Begun DEF Abort
  <2>1. TypeOK'
    BY <1>6, <2>0 DEF Abort, fsVars,
       TypeOK, Phases, Replies, Entries, Inodes
  <2>2. Requested'
    BY <1>6, <2>0 DEF Abort, fsVars,
       TypeOK, Requested
  <2>3. EmptyWithoutParent'
    BY <1>6, <2>0 DEF Abort, fsVars,
       TypeOK, EmptyWithoutParent, Inodes
  <2>4. TempsPlaced'
    BY <1>6, <2>0 DEF Abort, fsVars,
       TypeOK, TempsPlaced, HasTemp, Target, TempPath, CountersAgree
  <2>5. HasTemp'
    BY <1>6, <2>0 DEF Abort, fsVars,
       TypeOK, HasTemp, Target, TempPath, CountersAgree
  <2>6. CountersAgree'
    BY <1>6, <2>0 DEF Abort, fsVars,
       TypeOK, CountersAgree
  <2>7. FilesWhole'
    BY <1>6, <2>0 DEF Abort, fsVars,
       TypeOK, FilesWhole, Whole, SizeHonest, CountersAgree, Inodes
  <2> QED
    BY <2>1, <2>2, <2>3, <2>4, <2>5, <2>6, <2>7
<1>7. ASSUME NEW u \in Uploads, Flush(u) PROVE UploadInv'
  <2>0. /\ req[u] \in Requests /\ req[u].len \in 0 .. MaxLen
        /\ Target(u) \in Targets /\ TempPath(u) \in TempPaths
    BY <1>7, Begun DEF Flush
  <2>a. /\ UNCHANGED <<parent, sha, req, slot, data, written, hashed>>
        /\ pc[u] = "body" /\ written[u] = req[u].len
        /\ temps[TempPath(u)] = u
    BY <1>7 DEF Flush, HasTemp
  <2>b. \A v \in Uploads : TempPath(v)' = TempPath(v)
    BY <2>a DEF TempPath, Target
  <2>c. \A v \in Uploads : Whole(v)' <=> Whole(v)
    BY <2>a DEF Whole, SizeHonest
  <2>1. CASE RenameIntoPlace(u) /\ ~ChecksumMismatch(u) /\ ShouldCommit(u)
    <3>0. /\ files' = [files EXCEPT ![Target(u)] = u]
          /\ temps' = [temps EXCEPT ![TempPath(u)] = None]
          /\ committed' = [committed EXCEPT ![u] = TRUE]
          /\ replaced' = [replaced EXCEPT ![u] = files[Target(u)]]
          /\ pc' = [pc EXCEPT ![u] = "xattr"]
          /\ reply' = reply
      BY <2>1, <2>a DEF RenameIntoPlace
    <3>1. Whole(u)
      BY <2>1, <2>a DEF ChecksumMismatch, ShouldCommit, CountersAgree, Whole, SizeHonest
    <3>2. TypeOK'
      BY <2>0, <2>a, <3>0 DEF TypeOK, Entries, Inodes, Phases
    <3>3. Requested'
      BY <2>a, <3>0 DEF TypeOK, Requested
    <3>4. EmptyWithoutParent'
      BY <2>0, <2>a, <3>0 DEF TypeOK, EmptyWithoutParent, Inodes
    <3>5. TempsPlaced'
      BY <2>0, <2>a, <2>b, <3>0 DEF TypeOK, TempsPlaced
    <3>6. HasTemp'
      <4>1. \A v \in Uploads : pc[v] # "idle" => TempPath(v) \in TempPaths
        BY Begun
      <4> QED
        BY <2>0, <2>a, <2>b, <3>0, <4>1 DEF TypeOK, HasTemp
    <3>7. CountersAgree'
      BY <2>0, <2>a, <3>0 DEF TypeOK, CountersAgree, Entries, Inodes
    <3>8. FilesWhole'
      BY <2>0, <2>a, <2>c, <3>0, <3>1 DEF TypeOK, FilesWhole
    <3> QED
      BY <3>2, <3>3, <3>4, <3>5, <3>6, <3>7, <3>8
  <2>2. CASE /\ UNCHANGED <<files, temps, committed, replaced>>
             /\ pc' = [pc EXCEPT ![u] = "drop"]
             /\ \E w \in {"ok", "error"} : reply' = [reply EXCEPT ![u] = w]
    <3>1. TypeOK'
      BY <2>a, <2>2 DEF TypeOK, Phases, Replies
    <3>2. Requested' /\ EmptyWithoutParent'
      BY <2>a, <2>2 DEF TypeOK, Requested, EmptyWithoutParent
    <3>3. TempsPlaced' /\ HasTemp'
      BY <2>a, <2>b, <2>2 DEF TypeOK, TempsPlaced, HasTemp
    <3>4. CountersAgree'
      BY <2>a, <2>2 DEF TypeOK, CountersAgree
    <3>5. FilesWhole'
      BY <2>c, <2>2 DEF TypeOK, FilesWhole
    <3> QED
      BY <3>1, <3>2, <3>3, <3>4, <3>5
  <2> QED
    BY <1>7, <2>1, <2>2 DEF Flush, CommitFails
<1>8. ASSUME NEW u \in Uploads, SetXattr(u) PROVE UploadInv'
  <2>0. /\ req[u] \in Requests /\ req[u].len \in 0 .. MaxLen
        /\ Target(u) \in Targets /\ TempPath(u) \in TempPaths
    BY <1>8, Begun DEF SetXattr
  <2>1. TypeOK'
    BY <1>8, <2>0 DEF SetXattr,
       TypeOK, Phases, Replies, Entries, Inodes
  <2>2. Requested'
    BY <1>8, <2>0 DEF SetXattr,
       TypeOK, Requested
  <2>3. EmptyWithoutParent'
    BY <1>8, <2>0 DEF SetXattr,
       TypeOK, EmptyWithoutParent, Inodes
  <2>4. TempsPlaced'
    BY <1>8, <2>0 DEF SetXattr,
       TypeOK, TempsPlaced, HasTemp, Target, TempPath, CountersAgree
  <2>5. HasTemp'
    BY <1>8, <2>0 DEF SetXattr,
       TypeOK, HasTemp, Target, TempPath, CountersAgree
  <2>6. CountersAgree'
    BY <1>8, <2>0 DEF SetXattr,
       TypeOK, CountersAgree
  <2>7. FilesWhole'
    BY <1>8, <2>0 DEF SetXattr,
       TypeOK, FilesWhole, Whole, SizeHonest, CountersAgree, Inodes
  <2> QED
    BY <2>1, <2>2, <2>3, <2>4, <2>5, <2>6, <2>7
<1>9. ASSUME NEW u \in Uploads, Drop(u) PROVE UploadInv'
  <2>0. /\ req[u] \in Requests /\ req[u].len \in 0 .. MaxLen
        /\ Target(u) \in Targets /\ TempPath(u) \in TempPaths
    BY <1>9, Begun DEF Drop
  <2>1. TypeOK'
    BY <1>9, <2>0 DEF Drop,
       TypeOK, Phases, Replies, Entries, Inodes
  <2>2. Requested'
    BY <1>9, <2>0 DEF Drop,
       TypeOK, Requested
  <2>3. EmptyWithoutParent'
    BY <1>9, <2>0 DEF Drop,
       TypeOK, EmptyWithoutParent, Inodes
  <2>4. TempsPlaced'
    <3>1. \A v \in Uploads : TempPath(v)' = TempPath(v)
      BY <1>9 DEF Drop, TypeOK, Target, TempPath
    <3> QED
      BY <1>9, <2>0, <3>1 DEF Drop, TypeOK, TempsPlaced, HasTemp, CountersAgree
  <2>5. HasTemp'
    <3>1. \A v \in Uploads : TempPath(v)' = TempPath(v)
      BY <1>9 DEF Drop, TypeOK, Target, TempPath
    <3> QED
      BY <1>9, <2>0, <3>1 DEF Drop, TypeOK, TempsPlaced, HasTemp, CountersAgree
  <2>6. CountersAgree'
    BY <1>9, <2>0 DEF Drop,
       TypeOK, CountersAgree
  <2>7. FilesWhole'
    BY <1>9, <2>0 DEF Drop,
       TypeOK, FilesWhole, Whole, SizeHonest, CountersAgree, Inodes
  <2> QED
    BY <2>1, <2>2, <2>3, <2>4, <2>5, <2>6, <2>7
<1>10. ASSUME NEW t \in Targets, Remove(t) PROVE UploadInv'
  <2>1. TypeOK'
    BY <1>10 DEF Remove, uploadVars,
       TypeOK, Phases, Replies, Entries, Inodes
  <2>2. Requested'
    BY <1>10 DEF Remove, uploadVars,
       TypeOK, Requested
  <2>3. EmptyWithoutParent'
    BY <1>10 DEF Remove, uploadVars,
       TypeOK, EmptyWithoutParent, Inodes
  <2>4. TempsPlaced'
    BY <1>10 DEF Remove, uploadVars,
       TypeOK, TempsPlaced, HasTemp, Target, TempPath, CountersAgree
  <2>5. HasTemp'
    BY <1>10 DEF Remove, uploadVars,
       TypeOK, HasTemp, Target, TempPath, CountersAgree
  <2>6. CountersAgree'
    BY <1>10 DEF Remove, uploadVars,
       TypeOK, CountersAgree
  <2>7. FilesWhole'
    BY <1>10 DEF Remove, uploadVars,
       TypeOK, FilesWhole, Whole, SizeHonest, CountersAgree, Inodes
  <2> QED
    BY <2>1, <2>2, <2>3, <2>4, <2>5, <2>6, <2>7
<1>11. ASSUME NEW t \in Targets, CreateDir(t) PROVE UploadInv'
  <2>1. TypeOK'
    BY <1>11 DEF CreateDir, uploadVars,
       TypeOK, Phases, Replies, Entries, Inodes
  <2>2. Requested'
    BY <1>11 DEF CreateDir, uploadVars,
       TypeOK, Requested
  <2>3. EmptyWithoutParent'
    BY <1>11 DEF CreateDir, uploadVars,
       TypeOK, EmptyWithoutParent, Inodes
  <2>4. TempsPlaced'
    BY <1>11 DEF CreateDir, uploadVars,
       TypeOK, TempsPlaced, HasTemp, Target, TempPath, CountersAgree
  <2>5. HasTemp'
    BY <1>11 DEF CreateDir, uploadVars,
       TypeOK, HasTemp, Target, TempPath, CountersAgree
  <2>6. CountersAgree'
    BY <1>11 DEF CreateDir, uploadVars,
       TypeOK, CountersAgree
  <2>7. FilesWhole'
    BY <1>11 DEF CreateDir, uploadVars,
       TypeOK, FilesWhole, Whole, SizeHonest, CountersAgree, Inodes
  <2> QED
    BY <2>1, <2>2, <2>3, <2>4, <2>5, <2>6, <2>7
<1>12. ASSUME NEW s \in Targets, NEW t \in Targets, Rename(s, t) PROVE UploadInv'
  <2>1. TypeOK'
    BY <1>12 DEF Rename, uploadVars,
       TypeOK, Phases, Replies, Entries, Inodes
  <2>2. Requested'
    BY <1>12 DEF Rename, uploadVars,
       TypeOK, Requested
  <2>3. EmptyWithoutParent'
    BY <1>12 DEF Rename, uploadVars,
       TypeOK, EmptyWithoutParent, Inodes
  <2>4. TempsPlaced'
    BY <1>12 DEF Rename, uploadVars,
       TypeOK, TempsPlaced, HasTemp, Target, TempPath, CountersAgree
  <2>5. HasTemp'
    BY <1>12 DEF Rename, uploadVars,
       TypeOK, HasTemp, Target, TempPath, CountersAgree
  <2>6. CountersAgree'
    BY <1>12 DEF Rename, uploadVars,
       TypeOK, CountersAgree
  <2>7. FilesWhole'
    <3>1. \A v \in Uploads : Whole(v)' <=> Whole(v)
      BY <1>12 DEF Rename, uploadVars, Whole, SizeHonest
    <3> QED
      BY <1>12, <3>1 DEF Rename, uploadVars, TypeOK, FilesWhole, Inodes
  <2> QED
    BY <2>1, <2>2, <2>3, <2>4, <2>5, <2>6, <2>7
<1>13. ASSUME RemoveParent PROVE UploadInv'
  <2>1. TypeOK'
    BY <1>13 DEF RemoveParent, uploadVars,
       TypeOK, Phases, Replies, Entries, Inodes
  <2>2. Requested'
    BY <1>13 DEF RemoveParent, uploadVars,
       TypeOK, Requested
  <2>3. EmptyWithoutParent'
    BY <1>13 DEF RemoveParent, uploadVars,
       TypeOK, EmptyWithoutParent, Inodes
  <2>4. TempsPlaced'
    BY <1>13 DEF RemoveParent, uploadVars,
       TypeOK, TempsPlaced, HasTemp, Target, TempPath, CountersAgree
  <2>5. HasTemp'
    BY <1>13 DEF RemoveParent, uploadVars,
       TypeOK, HasTemp, Target, TempPath, CountersAgree
  <2>6. CountersAgree'
    BY <1>13 DEF RemoveParent, uploadVars,
       TypeOK, CountersAgree
  <2>7. FilesWhole'
    BY <1>13 DEF RemoveParent, uploadVars,
       TypeOK, FilesWhole, Whole, SizeHonest, CountersAgree, Inodes
  <2> QED
    BY <2>1, <2>2, <2>3, <2>4, <2>5, <2>6, <2>7
<1>14. ASSUME Crash PROVE UploadInv'
  <2>1. TypeOK'
    BY <1>14 DEF Crash, Live, fsVars,
       TypeOK, Phases, Replies, Entries, Inodes
  <2>2. Requested'
    BY <1>14 DEF Crash, Live, fsVars,
       TypeOK, Requested
  <2>3. EmptyWithoutParent'
    BY <1>14 DEF Crash, Live, fsVars,
       TypeOK, EmptyWithoutParent, Inodes
  <2>4. TempsPlaced'
    BY <1>14 DEF Crash, Live, fsVars,
       TypeOK, TempsPlaced, HasTemp, Target, TempPath, CountersAgree
  <2>5. HasTemp'
    BY <1>14 DEF Crash, Live, fsVars,
       TypeOK, HasTemp, Target, TempPath, CountersAgree
  <2>6. CountersAgree'
    BY <1>14 DEF Crash, Live, fsVars,
       TypeOK, CountersAgree
  <2>7. FilesWhole'
    BY <1>14 DEF Crash, Live, fsVars,
       TypeOK, FilesWhole, Whole, SizeHonest, CountersAgree, Inodes
  <2> QED
    BY <2>1, <2>2, <2>3, <2>4, <2>5, <2>6, <2>7
<1>15. ASSUME UNCHANGED vars PROVE UploadInv'
  <2>1. TypeOK'
    BY <1>15 DEF vars,
       TypeOK, Phases, Replies, Entries, Inodes
  <2>2. Requested'
    BY <1>15 DEF vars,
       TypeOK, Requested
  <2>3. EmptyWithoutParent'
    BY <1>15 DEF vars,
       TypeOK, EmptyWithoutParent, Inodes
  <2>4. TempsPlaced'
    BY <1>15 DEF vars,
       TypeOK, TempsPlaced, HasTemp, Target, TempPath, CountersAgree
  <2>5. HasTemp'
    BY <1>15 DEF vars,
       TypeOK, HasTemp, Target, TempPath, CountersAgree
  <2>6. CountersAgree'
    BY <1>15 DEF vars,
       TypeOK, CountersAgree
  <2>7. FilesWhole'
    BY <1>15 DEF vars,
       TypeOK, FilesWhole, Whole, SizeHonest, CountersAgree, Inodes
  <2> QED
    BY <2>1, <2>2, <2>3, <2>4, <2>5, <2>6, <2>7
<1> QED
  BY <1>1, <1>2, <1>3, <1>4, <1>5, <1>6, <1>7, <1>8, <1>9, <1>10, <1>11, <1>12, <1>13, <1>14, <1>15,
     TempsTaken DEF Next, UploadNext, ServerStep, BodyStep, Clients

\* UploadInv holds in every reachable state.
THEOREM UploadInvariant == Spec => []UploadInv
<1>1. Init => UploadInv
  BY InitInv
<1>2. UploadInv /\ [Next]_vars => UploadInv'
  BY NextInv
<1> QED
  BY <1>1, <1>2, PTL DEF Spec

\* AutoMkcolFs::open and AtomicFile keep the types of their state: in
\* particular create_temp's index never leaves the names it may try.
THEOREM UploadTypes == Spec => []TypeOK
<1>1. UploadInv => TypeOK
  BY DEF UploadInv
<1> QED
  BY <1>1, UploadInvariant, PTL

\* No reader ever finds anything but a whole, verified upload under a target
\* name, whatever interleaving, failed write, lost connection or crash.
THEOREM UploadsWhole == Spec => []TargetWhole
<1>1. UploadInv => TargetWhole
  BY DEF UploadInv, FilesWhole, TargetWhole
<1> QED
  BY <1>1, UploadInvariant, PTL

\* The temp names, unique by O_EXCL alone, are never taken from an upload.
THEOREM TempsNeverStolen == Spec => []OwnTemp
<1>1. UploadInv => OwnTemp
  BY DEF UploadInv, HasTemp, OwnTemp
<1> QED
  BY <1>1, UploadInvariant, PTL

\* Only the death of the process leaves temp files behind.
THEOREM OnlyCrashesLitter == Spec => []NoLitter
<1>1. UploadInv => NoLitter
  BY DEF UploadInv, TempsPlaced, NoLitter
<1> QED
  BY <1>1, UploadInvariant, PTL

---------------------------------------------------------------------------
\* Nobody is answered before the outcome is known, an answer of success
\* without a rename comes only from a wrong declared size, and an error only
\* from an uncommitted AtomicFile.
ReplyInv ==
  \A u \in Uploads :
    /\ pc[u] \notin {"drop", "done", "killed"} => reply[u] = "none"
    /\ reply[u] = "ok" /\ ~committed[u] => ~SizeHonest(u)
    /\ reply[u] \notin {"ok", "none"} => ~committed[u]

\* Every step preserves ReplyInv, given the invariant of the upload path.
LEMMA NextReply == UploadInv /\ ReplyInv /\ [Next]_vars => ReplyInv'
<1> SUFFICES ASSUME UploadInv, ReplyInv, [Next]_vars PROVE ReplyInv'
  OBVIOUS
<1> USE DEF UploadInv, TypeOK, ReplyInv, SizeHonest
<1>1. ASSUME NEW u \in Uploads, NEW r \in Requests, Begin(u, r) PROVE ReplyInv'
  BY <1>1 DEF Begin, CountersAgree
<1>2. ASSUME NEW u \in Uploads, EnsureParent(u) PROVE ReplyInv'
  BY <1>2 DEF EnsureParent, OpenFails, CountersAgree
<1>3. ASSUME NEW u \in Uploads, CheckTarget(u) PROVE ReplyInv'
  BY <1>3 DEF CheckTarget, OpenFails, CountersAgree
<1>4. ASSUME NEW u \in Uploads, TryTemp(u) PROVE ReplyInv'
  BY <1>4 DEF TryTemp, CountersAgree
<1>5. ASSUME NEW u \in Uploads, WriteChunk(u) PROVE ReplyInv'
  BY <1>5 DEF WriteChunk, CountersAgree
<1>6. ASSUME NEW u \in Uploads, Abort(u) PROVE ReplyInv'
  BY <1>6 DEF Abort
<1>7. ASSUME NEW u \in Uploads, Flush(u) PROVE ReplyInv'
  BY <1>7 DEF Flush, CommitFails, RenameIntoPlace, ShouldCommit, CountersAgree
<1>8. ASSUME NEW u \in Uploads, SetXattr(u) PROVE ReplyInv'
  BY <1>8 DEF SetXattr, CountersAgree
<1>9. ASSUME NEW u \in Uploads, Drop(u) PROVE ReplyInv'
  BY <1>9 DEF Drop
<1>10. CASE Clients
  BY <1>10 DEF Clients, Remove, RemoveTemp, CreateDir, Rename, RemoveParent, RenameParent, uploadVars
<1>11. CASE Crash
  BY <1>11 DEF Crash
<1>12. CASE UNCHANGED vars
  BY <1>12 DEF vars
<1> QED
  BY <1>1, <1>2, <1>3, <1>4, <1>5, <1>6, <1>7, <1>8, <1>9, <1>10, <1>11, <1>12
     DEF Next, UploadNext, ServerStep, BodyStep

\* The answer of a PUT tells whether its file was ever put in place.
THEOREM RepliesTruthful == Spec => []ReplyTruthful
<1>1. Init => ReplyInv
  BY DEF Init, ReplyInv
<1>2. UploadInv /\ ReplyInv /\ [Next]_vars => ReplyInv'
  BY NextReply
<1>3. UploadInv /\ ReplyInv => ReplyTruthful
  BY DEF UploadInv, CountersAgree, ReplyInv, ReplyTruthful
<1> QED
  BY <1>1, <1>2, <1>3, UploadInvariant, PTL DEF Spec

---------------------------------------------------------------------------
\* What each place of an upload's handler looks like to its client.
LEMMA StatusValues ==
  ASSUME NEW u \in Uploads
  PROVE  /\ pc[u] = "idle" => Status[u] = "new"
         /\ pc[u] = "killed" => Status[u] = "lost"
         /\ pc[u] = "done" /\ committed[u] => Status[u] = "ok"
         /\ pc[u] = "done" /\ ~committed[u] => Status[u] \in {"failed", "discarded"}
         /\ pc[u] \in Live /\ committed[u] => Status[u] = "stored"
         /\ pc[u] \in Live /\ ~committed[u] => Status[u] = "busy"
BY DEF Status, StatusOf, Live

\* The same in the next state.
LEMMA StatusNext ==
  ASSUME NEW u \in Uploads
  PROVE  /\ pc'[u] = "idle" => Status'[u] = "new"
         /\ pc'[u] = "killed" => Status'[u] = "lost"
         /\ pc'[u] = "done" /\ committed'[u] => Status'[u] = "ok"
         /\ pc'[u] = "done" /\ ~committed'[u] => Status'[u] \in {"failed", "discarded"}
         /\ pc'[u] \in Live /\ committed'[u] => Status'[u] = "stored"
         /\ pc'[u] \in Live /\ ~committed'[u] => Status'[u] = "busy"
BY DEF Status, StatusOf, Live

\* The status is a function on the uploads, now and next.
LEMMA StatusFunction ==
  /\ Status = [u \in Uploads |-> Status[u]]
  /\ Status' = [u \in Uploads |-> Status'[u]]
BY DEF Status

\* A step of one handler changes the status of no other upload.
LEMMA StatusOthers ==
  ASSUME NEW u \in Uploads,
         \A v \in Uploads \ {u} : /\ pc'[v] = pc[v] /\ committed'[v] = committed[v]
                                  /\ reply'[v] = reply[v]
  PROVE  Status' = [Status EXCEPT ![u] = Status'[u]]
<1>1. \A v \in Uploads \ {u} : Status'[v] = Status[v]
  BY DEF Status
<1> QED BY <1>1, StatusFunction

\* Nor does it change its own while it stays before, or after, its rename.
LEMMA StatusKept ==
  ASSUME NEW u \in Uploads, pc[u] \in Live, pc'[u] \in Live, committed'[u] = committed[u],
         committed[u] \in BOOLEAN,
         \A v \in Uploads \ {u} : /\ pc'[v] = pc[v] /\ committed'[v] = committed[v]
                                  /\ reply'[v] = reply[v]
  PROVE  Status' = Status
<1>1. Status'[u] = Status[u]
  BY StatusValues, StatusNext
<1>2. Status' = [Status EXCEPT ![u] = Status'[u]]
  BY StatusOthers
<1> QED BY <1>1, <1>2, StatusFunction

\* The initial states are initial states of the abstract store.
LEMMA InitStore == Init => Store!Init
<1> SUFFICES ASSUME Init PROVE Store!Init
  OBVIOUS
<1>1. \A u \in Uploads : Status[u] = "new"
  BY StatusValues DEF Init
<1>2. Status = [u \in Uploads |-> "new"]
  BY <1>1, StatusFunction
<1> QED BY <1>2 DEF Init, Store!Init

\* Every step is a step of the abstract store, or leaves it as it is.
LEMMA NextStore == UploadInv /\ [Next]_vars => [Store!Next]_(Store!vars)
<1> SUFFICES ASSUME UploadInv, [Next]_vars PROVE [Store!Next]_(Store!vars)
  OBVIOUS
<1> USE DEF UploadInv
<1>0. /\ pc \in [Uploads -> Phases] /\ committed \in [Uploads -> BOOLEAN]
      /\ reply \in [Uploads -> Replies]
  BY DEF TypeOK
<1>a. ASSUME NEW u \in Uploads, pc[u] \in Live, pc'[u] \in Live, committed'[u] = committed[u],
             \A v \in Uploads \ {u} : /\ pc'[v] = pc[v] /\ committed'[v] = committed[v]
                                      /\ reply'[v] = reply[v],
             files' = files
      PROVE  UNCHANGED Store!vars
  BY <1>0, <1>a, StatusKept DEF Store!vars
<1>b. ASSUME NEW u \in Uploads, pc[u] \in Live, ~committed[u], pc'[u] = "done",
             committed' = committed, files' = files,
             \A v \in Uploads \ {u} : pc'[v] = pc[v] /\ reply'[v] = reply[v]
      PROVE  Store!Refuse(u)
  <2>1. Status[u] = "busy" /\ Status'[u] \in {"failed", "discarded"}
    BY <1>b, StatusValues, StatusNext
  <2>2. Status' = [Status EXCEPT ![u] = Status'[u]]
    BY <1>b, StatusOthers
  <2> QED BY <1>b, <2>1, <2>2 DEF Store!Refuse
<1>c. ASSUME pc' = pc, committed' = committed, reply' = reply PROVE Status' = Status
  BY <1>c DEF Status
<1>1. ASSUME NEW u \in Uploads, NEW r \in Requests, Begin(u, r) PROVE Store!Start(u)
  <2>1. Status[u] = "new" /\ Status'[u] = "busy"
    BY <1>0, <1>1, StatusValues, StatusNext DEF Begin, Live, CountersAgree
  <2>2. Status' = [Status EXCEPT ![u] = Status'[u]]
    BY <1>0, <1>1, StatusOthers DEF Begin
  <2> QED BY <1>1, <2>1, <2>2 DEF Store!Start, Begin, fsVars
<1>2. ASSUME NEW u \in Uploads, EnsureParent(u) PROVE [Store!Next]_(Store!vars)
  <2>1. pc[u] \in Live /\ ~committed[u] /\ files' = files /\ committed' = committed
    BY <1>2 DEF EnsureParent, OpenFails, Live, CountersAgree
  <2>2. /\ pc'[u] \in Live \cup {"done"}
        /\ \A v \in Uploads \ {u} : pc'[v] = pc[v] /\ reply'[v] = reply[v]
    BY <1>0, <1>2 DEF EnsureParent, OpenFails, Live
  <2> QED BY <1>a, <1>b, <2>1, <2>2 DEF Store!Next
<1>3. ASSUME NEW u \in Uploads, CheckTarget(u) PROVE [Store!Next]_(Store!vars)
  <2>1. pc[u] \in Live /\ ~committed[u] /\ files' = files /\ committed' = committed
    BY <1>3 DEF CheckTarget, OpenFails, Live, CountersAgree, fsVars
  <2>2. /\ pc'[u] \in Live \cup {"done"}
        /\ \A v \in Uploads \ {u} : pc'[v] = pc[v] /\ reply'[v] = reply[v]
    BY <1>0, <1>3 DEF CheckTarget, OpenFails, Live
  <2> QED BY <1>a, <1>b, <2>1, <2>2 DEF Store!Next
<1>4. ASSUME NEW u \in Uploads, TryTemp(u) PROVE [Store!Next]_(Store!vars)
  <2>1. pc[u] \in Live /\ ~committed[u] /\ files' = files /\ committed' = committed
    BY <1>4 DEF TryTemp, Live, CountersAgree
  <2>2. /\ pc'[u] \in Live \cup {"done"}
        /\ \A v \in Uploads \ {u} : pc'[v] = pc[v] /\ reply'[v] = reply[v]
    BY <1>0, <1>4 DEF TryTemp, Live
  <2> QED BY <1>a, <1>b, <2>1, <2>2 DEF Store!Next
<1>5. ASSUME NEW u \in Uploads, WriteChunk(u) \/ Abort(u) PROVE UNCHANGED Store!vars
  <2>1. pc[u] \in Live /\ files' = files /\ committed' = committed
    BY <1>5 DEF WriteChunk, Abort, Live, fsVars
  <2>2. /\ pc'[u] \in Live
        /\ \A v \in Uploads \ {u} : pc'[v] = pc[v] /\ reply'[v] = reply[v]
    BY <1>0, <1>5 DEF WriteChunk, Abort, Live
  <2> QED BY <1>a, <2>1, <2>2
<1>6. ASSUME NEW u \in Uploads, Flush(u) PROVE [Store!Next]_(Store!vars)
  <2>1. pc[u] = "body" /\ pc[u] \in Live /\ ~committed[u]
    BY <1>6 DEF Flush, Live, CountersAgree
  <2>2. \A v \in Uploads \ {u} : /\ pc'[v] = pc[v] /\ committed'[v] = committed[v]
                                 /\ reply'[v] = reply[v]
    BY <1>0, <1>6 DEF Flush, CommitFails, RenameIntoPlace
  <2>3. CASE RenameIntoPlace(u)
    <3>1. Target(u) \in Targets /\ temps[TempPath(u)] = u
      BY <2>1, Begun DEF HasTemp
    <3>2. Status[u] = "busy" /\ Status'[u] = "stored"
      BY <1>0, <2>1, <2>3, StatusValues, StatusNext DEF RenameIntoPlace, Live
    <3>3. Status' = [Status EXCEPT ![u] = "stored"]
      BY <2>2, <3>2, StatusOthers
    <3>4. Store!Publish(u, Target(u))
      BY <2>3, <3>1, <3>2, <3>3 DEF Store!Publish, RenameIntoPlace
    <3> QED BY <3>1, <3>4 DEF Store!Next
  <2>4. CASE ~RenameIntoPlace(u)
    <3>1. files' = files /\ committed' = committed /\ pc'[u] \in Live
      BY <1>0, <1>6, <2>4 DEF Flush, CommitFails, Live
    <3> QED BY <1>a, <2>1, <2>2, <3>1
  <2> QED BY <2>3, <2>4
<1>7. ASSUME NEW u \in Uploads, SetXattr(u) PROVE UNCHANGED Store!vars
  <2>1. pc[u] \in Live /\ files' = files /\ committed' = committed
    BY <1>7 DEF SetXattr, Live
  <2>2. /\ pc'[u] \in Live
        /\ \A v \in Uploads \ {u} : pc'[v] = pc[v] /\ reply'[v] = reply[v]
    BY <1>0, <1>7 DEF SetXattr, Live
  <2> QED BY <1>a, <2>1, <2>2
<1>8. ASSUME NEW u \in Uploads, Drop(u) PROVE [Store!Next]_(Store!vars)
  <2>1. /\ pc[u] \in Live /\ pc'[u] = "done" /\ files' = files /\ committed' = committed
        /\ reply' = reply /\ \A v \in Uploads \ {u} : pc'[v] = pc[v]
    BY <1>0, <1>8 DEF Drop, Live
  <2>2. CASE committed[u]
    <3>1. Status[u] = "stored" /\ Status'[u] = "ok"
      BY <2>1, <2>2, StatusValues, StatusNext
    <3>2. Status' = [Status EXCEPT ![u] = "ok"]
      BY <2>1, <3>1, StatusOthers
    <3> QED BY <2>1, <3>1, <3>2 DEF Store!Acknowledge, Store!Next
  <2>3. CASE ~committed[u]
    BY <1>b, <2>1, <2>3 DEF Store!Next
  <2> QED BY <2>2, <2>3
<1>9. CASE Clients
  <2>0. UNCHANGED uploadVars
    BY <1>9 DEF Clients, Remove, RemoveTemp, Rename, CreateDir, RemoveParent, RenameParent
  <2>1. Status' = Status
    BY <2>0, <1>c DEF uploadVars
  <2>2. ASSUME NEW t \in Targets, Remove(t) PROVE Store!Remove(t)
    BY <2>1, <2>2 DEF Remove, Store!Remove
  <2>3. ASSUME NEW t \in Targets, CreateDir(t) PROVE Store!MakeCollection(t)
    BY <2>1, <2>3 DEF CreateDir, Store!MakeCollection
  <2>4. ASSUME NEW s \in Targets, NEW t \in Targets, Rename(s, t) PROVE Store!Move(s, t)
    BY <2>1, <2>4 DEF Rename, Store!Move
  <2>5. CASE RemoveParent
    BY <2>1, <2>5 DEF RemoveParent, Store!vars
  <2>6. ASSUME NEW p \in TempPaths, RemoveTemp(p) PROVE UNCHANGED Store!vars
    BY <2>1, <2>6 DEF RemoveTemp, Store!vars
  <2>7. ASSUME RenameParent PROVE Store!MoveAll
    BY <2>1, <2>7 DEF RenameParent, Store!MoveAll
  <2> QED BY <1>9, <2>2, <2>3, <2>4, <2>5, <2>6, <2>7 DEF Clients, Store!Next
<1>10. CASE Crash
  <2>1. ASSUME NEW u \in Uploads
        PROVE  Status'[u] = IF Status[u] \in {"busy", "stored"} THEN "lost" ELSE Status[u]
    <3>1. /\ pc'[u] = IF pc[u] \in Live THEN "killed" ELSE pc[u]
          /\ committed'[u] = committed[u] /\ reply'[u] = reply[u]
      BY <1>0, <1>10 DEF Crash
    <3>2. CASE pc[u] \in Live
      BY <1>0, <3>1, <3>2, StatusValues, StatusNext
    <3>3. CASE pc[u] \notin Live
      <4>1. Status'[u] = Status[u]
        BY <3>1, <3>3 DEF Status
      <4>2. Status[u] \notin {"busy", "stored"}
        BY <1>0, <3>3, StatusValues DEF Live, Phases
      <4> QED BY <4>1, <4>2
    <3> QED BY <3>2, <3>3
  <2>2. Status' = [u \in Uploads |-> IF Status[u] \in {"busy", "stored"} THEN "lost" ELSE Status[u]]
    BY <2>1, StatusFunction
  <2> QED BY <1>10, <2>2 DEF Crash, fsVars, Store!Lose, Store!Next
<1>11. CASE UNCHANGED vars
  BY <1>11, <1>c DEF vars, Store!vars
<1> QED
  BY <1>1, <1>2, <1>3, <1>4, <1>5, <1>6, <1>7, <1>8, <1>9, <1>10, <1>11
     DEF Next, UploadNext, ServerStep, BodyStep, Store!Next

\* To its clients, the upload path with its temp files, retries, destructor
\* and crashes is a store in which a file appears whole, in one step.
THEOREM ImplementsStore == Spec => StoreSpec
<1>1. Init => Store!Init
  BY InitStore
<1>2. UploadInv /\ [Next]_vars => [Store!Next]_(Store!vars)
  BY NextStore
<1> QED
  BY <1>1, <1>2, UploadInvariant, PTL DEF Spec, StoreSpec, Store!Spec
===========================================================================
