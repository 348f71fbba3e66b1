--------------------------- MODULE AtomicUpload ---------------------------
(***************************************************************************)
(* The atomic PUT path of the WebDAV server: AutoMkcolFs::open and the     *)
(* AtomicFile it returns (src/src/autofs.rs).  One directory holds the     *)
(* target files and the temp files of the uploads in flight.  Each upload  *)
(* is one PUT request; the runtime is multi-threaded, so uploads           *)
(* interleave at every system call, with each other, with other clients'   *)
(* DELETE / MOVE / MKCOL, and with the death of the process.               *)
(*                                                                         *)
(* An upload creates one file, and only its own descriptor writes to it:   *)
(* the upload's name therefore also names its inode, and the inode's       *)
(* contents are the number of its body's chunks that are on disk.          *)
(***************************************************************************)
EXTENDS Naturals, FiniteSets

CONSTANTS
  Uploads,        \* PUT requests, each also the inode it creates
  Targets,        \* the file names clients PUT to
  Requests,       \* what a client may ask for: a subset of Request
  MaxTemps,       \* temp names create_temp tries per target (16 in the code)
  MaxLen,         \* bound on the chunks of a body
  CreateParents,  \* --create-parents
  Fsync,          \* --fsync
  None,           \* no directory entry / no Content-Length / no xattr
  Dir,            \* a directory entry that is a collection
  Old             \* the inode of a file that was there before any upload

Slots == 0 .. MaxTemps - 1
TempPaths == Targets \X Slots
Inodes == Uploads \cup {Old}

\* OC-Checksum as parse_sha256_checksum and the comparison in commit class it:
\* absent, of another algorithm or undecodable (skipped), right, or wrong.
Checksums == {"absent", "skipped", "right", "wrong"}

\* One PUT: where to, the chunks of its body, the size it declares
\* (Content-Length, or X-Expected-Entity-Length, which may be off), its
\* OC-Checksum, and whether it carries If-None-Match: * (create_new).
Request == [target : Targets, len : 0 .. MaxLen, size : {None} \cup (0 .. MaxLen),
            sum : Checksums, fresh : BOOLEAN]

ASSUME MaxTempsAssumption == MaxTemps \in Nat \ {0}
ASSUME MaxLenAssumption == MaxLen \in Nat
ASSUME RequestsAssumption == Requests \subseteq Request
ASSUME FlagsAssumption == CreateParents \in BOOLEAN /\ Fsync \in BOOLEAN
ASSUME NamesAssumption ==
  /\ None \notin Inodes \cup {Dir} \cup Nat
  /\ Dir \notin Inodes
  /\ Old \notin Uploads
  /\ "unpublished" \notin Inodes \cup {Dir, None}

VARIABLES
  parent,     \* does the directory exist?
  files,      \* files[t]: what the name t refers to
  temps,      \* temps[<<t, i>>]: what the i-th temp name of t refers to
  sha,        \* sha[i]: the upload whose digest inode i's xattr records
  pc,         \* pc[u]: where the handler of upload u is
  req,        \* req[u]: the request it serves
  slot,       \* slot[u]: the index of create_temp's loop; then u's temp name
  data,       \* data[u]: chunks of u's body in u's inode
  written,    \* written[u]: AtomicFile.written
  hashed,     \* hashed[u]: chunks fed to AtomicFile.hasher
  committed,  \* committed[u]: AtomicFile.committed
  reply,      \* reply[u]: the answer of the PUT
  replaced    \* replaced[u]: history: what u's rename found at its target

fsVars == <<parent, files, temps, sha>>
vars == <<parent, files, temps, sha, pc, req, slot, data, written, hashed,
          committed, reply, replaced>>

\* "parent", "check", "create": inside open; "body": AtomicFile open, body
\* streaming; "xattr": renamed; "drop": AtomicFile going out of scope.
Phases == {"idle", "parent", "check", "create", "body", "xattr", "drop",
           "done", "killed"}
Live == {"parent", "check", "create", "body", "xattr", "drop"}
Replies == {"none", "ok", "exists", "forbidden", "full", "noTempName", "error"}

Entries == Inodes \cup {Dir, None}

TypeOK ==
  /\ parent \in BOOLEAN
  /\ files \in [Targets -> Entries]
  /\ temps \in [TempPaths -> Uploads \cup {None}]
  /\ sha \in [Inodes -> Uploads \cup {None}]
  /\ pc \in [Uploads -> Phases]
  /\ req \in [Uploads -> Requests \cup {None}]
  /\ slot \in [Uploads -> Slots]
  /\ data \in [Uploads -> 0 .. MaxLen]
  /\ written \in [Uploads -> 0 .. MaxLen]
  /\ hashed \in [Uploads -> 0 .. MaxLen]
  /\ committed \in [Uploads -> BOOLEAN]
  /\ reply \in [Uploads -> Replies]
  /\ replaced \in [Uploads -> Entries \cup {"unpublished"}]

\* The server starts on a directory that is missing, empty, or holds files.
Init ==
  /\ parent \in BOOLEAN
  /\ files \in [Targets -> {Old, None}]
  /\ ~parent => files = [t \in Targets |-> None]
  /\ temps = [p \in TempPaths |-> None]
  /\ sha = [i \in Inodes |-> None]
  /\ pc = [u \in Uploads |-> "idle"]
  /\ req = [u \in Uploads |-> None]
  /\ slot = [u \in Uploads |-> 0]
  /\ data = [u \in Uploads |-> 0]
  /\ written = [u \in Uploads |-> 0]
  /\ hashed = [u \in Uploads |-> 0]
  /\ committed = [u \in Uploads |-> FALSE]
  /\ reply = [u \in Uploads |-> "none"]
  /\ replaced = [u \in Uploads |-> "unpublished"]

---------------------------------------------------------------------------
Target(u) == req[u].target
TempPath(u) == <<Target(u), slot[u]>>

\* open returns an error: there is no AtomicFile yet, so nothing is dropped.
OpenFails(u, why) ==
  /\ pc' = [pc EXCEPT ![u] = "done"]
  /\ reply' = [reply EXCEPT ![u] = why]
  /\ UNCHANGED <<req, slot, data, written, hashed, committed, replaced>>

\* The PUT handler of dav-server receives a request.
Begin(u, r) ==
  /\ pc[u] = "idle"
  /\ pc' = [pc EXCEPT ![u] = "parent"]
  /\ req' = [req EXCEPT ![u] = r]
  /\ UNCHANGED <<fsVars, slot, data, written, hashed, committed, reply, replaced>>

\* ensure_parent: create_dir_all on the parent, or nothing at all.
EnsureParent(u) ==
  /\ pc[u] = "parent"
  /\ \/ /\ parent' = (parent \/ CreateParents)
        /\ pc' = [pc EXCEPT ![u] = "check"]
        /\ UNCHANGED <<req, slot, data, written, hashed, committed, reply, replaced>>
     \/ /\ CreateParents
        /\ OpenFails(u, "error")
        /\ UNCHANGED parent
  /\ UNCHANGED <<files, temps, sha>>

\* The three checks of open, in its order: create_new on an existing target,
\* a collection at the target, and (when a size is declared) the free space,
\* which other writers of the disk make unpredictable.
CheckTarget(u) ==
  /\ pc[u] = "check"
  /\ \/ /\ req[u].fresh /\ files[Target(u)] # None
        /\ OpenFails(u, "exists")
     \/ /\ ~(req[u].fresh /\ files[Target(u)] # None)
        /\ files[Target(u)] = Dir
        /\ OpenFails(u, "forbidden")
     \/ /\ files[Target(u)] # Dir
        /\ ~(req[u].fresh /\ files[Target(u)] # None)
        /\ \/ /\ req[u].size # None
              /\ OpenFails(u, "full")
           \/ /\ pc' = [pc EXCEPT ![u] = "create"]
              /\ slot' = [slot EXCEPT ![u] = 0]
              /\ UNCHANGED <<req, data, written, hashed, committed, reply, replaced>>
  /\ UNCHANGED fsVars

\* Slip: the loop's bound is off by one.
TryTempOneTooMany(u) ==
  /\ pc[u] = "create" /\ parent
  /\ \/ /\ temps[TempPath(u)] = None
        /\ temps' = [temps EXCEPT ![TempPath(u)] = u]
        /\ pc' = [pc EXCEPT ![u] = "body"]
        /\ UNCHANGED slot
     \/ /\ temps[TempPath(u)] # None
        /\ slot' = [slot EXCEPT ![u] = @ + 1]
        /\ UNCHANGED <<temps, pc>>
  /\ UNCHANGED <<parent, files, sha, req, data, written, hashed, committed, reply,
                 replaced>>

\* Slip: a taken name is opened and truncated instead of being passed over.
TryTempShared(u) ==
  /\ pc[u] = "create" /\ parent
  /\ temps' = [temps EXCEPT ![TempPath(u)] = u]
  /\ pc' = [pc EXCEPT ![u] = "body"]
  /\ UNCHANGED <<parent, files, sha, req, slot, data, written, hashed, committed,
                 reply, replaced>>

\* Slip: a taken name is tried again for ever.
TryTempSpin(u) ==
  /\ pc[u] = "create" /\ parent
  /\ temps' = [temps EXCEPT ![TempPath(u)] = IF @ = None THEN u ELSE @]
  /\ pc' = [pc EXCEPT ![u] = IF temps[TempPath(u)] = None THEN "body" ELSE @]
  /\ UNCHANGED <<parent, files, sha, req, slot, data, written, hashed, committed,
                 reply, replaced>>

\* One iteration of create_temp's loop: an exclusive create of the i-th name.
TryTemp(u) ==
  /\ pc[u] = "create"
  /\ \/ /\ parent /\ temps[TempPath(u)] = None
        /\ temps' = [temps EXCEPT ![TempPath(u)] = u]
        /\ pc' = [pc EXCEPT ![u] = "body"]
        /\ UNCHANGED <<slot, reply>>
     \/ /\ parent /\ temps[TempPath(u)] # None
        /\ IF slot[u] + 1 < MaxTemps
             THEN /\ slot' = [slot EXCEPT ![u] = @ + 1]
                  /\ UNCHANGED <<pc, reply>>
             ELSE /\ pc' = [pc EXCEPT ![u] = "done"]
                  /\ reply' = [reply EXCEPT ![u] = "noTempName"]
                  /\ UNCHANGED slot
        /\ UNCHANGED temps
     \/ /\ pc' = [pc EXCEPT ![u] = "done"]
        /\ reply' = [reply EXCEPT ![u] = "error"]
        /\ UNCHANGED <<temps, slot>>
  /\ UNCHANGED <<parent, files, sha, req, data, written, hashed, committed, replaced>>

\* write_bytes / write_buf of the next body frame.  A failed write has been
\* counted in `written` all the same, and in the hash when it came through
\* write_bytes; dav-server then gives up.
WriteChunk(u) ==
  /\ pc[u] = "body"
  /\ written[u] < req[u].len
  /\ written' = [written EXCEPT ![u] = @ + 1]
  /\ \/ /\ data' = [data EXCEPT ![u] = @ + 1]
        /\ hashed' = [hashed EXCEPT ![u] = @ + 1]
        /\ UNCHANGED <<pc, reply>>
     \/ /\ hashed' \in {hashed, [hashed EXCEPT ![u] = @ + 1]}
        /\ pc' = [pc EXCEPT ![u] = "drop"]
        /\ reply' = [reply EXCEPT ![u] = "error"]
        /\ UNCHANGED data
  /\ UNCHANGED <<fsVars, req, slot, committed, replaced>>

\* The connection is lost, or the task is cancelled, while a body frame is
\* awaited: the handler's future is dropped and nobody gets an answer.
Abort(u) ==
  /\ pc[u] = "body"
  /\ pc' = [pc EXCEPT ![u] = "drop"]
  /\ UNCHANGED <<fsVars, req, slot, data, written, hashed, committed, reply, replaced>>

\* Slip: the declared size is not compared.
AlwaysCommit(u) == TRUE

ShouldCommit(u) == req[u].size # None => written[u] = req[u].size
ChecksumMismatch(u) == req[u].sum = "wrong"

\* Slip: the error of the rename is swallowed.
CommitFailsSilently(u) ==
  /\ pc' = [pc EXCEPT ![u] = "drop"]
  /\ reply' = [reply EXCEPT ![u] = "ok"]
  /\ UNCHANGED <<files, temps, committed, replaced>>

CommitFails(u) ==
  /\ pc' = [pc EXCEPT ![u] = "drop"]
  /\ reply' = [reply EXCEPT ![u] = "error"]
  /\ UNCHANGED <<files, temps, committed, replaced>>

\* rename(temp, target): whatever file bears the temp name now becomes the
\* target.  It fails when that name is gone or the target is a collection.
CanRename(u) == temps[TempPath(u)] # None /\ files[Target(u)] # Dir

RenameIntoPlace(u) ==
  /\ files' = [files EXCEPT ![Target(u)] = temps[TempPath(u)]]
  /\ temps' = [temps EXCEPT ![TempPath(u)] = None]
  /\ committed' = [committed EXCEPT ![u] = TRUE]
  /\ replaced' = [replaced EXCEPT ![u] = files[Target(u)]]
  /\ pc' = [pc EXCEPT ![u] = "xattr"]
  /\ UNCHANGED reply

\* flush() at the end of the body: commit up to and including its rename.
\* A body of another size than declared is not renamed, yet flush succeeds.
Flush(u) ==
  /\ pc[u] = "body"
  /\ written[u] = req[u].len
  /\ \/ ChecksumMismatch(u) /\ CommitFails(u)
     \/ ~ChecksumMismatch(u) /\ Fsync /\ CommitFails(u)
     \/ ~ChecksumMismatch(u) /\ ShouldCommit(u) /\ CanRename(u) /\ RenameIntoPlace(u)
     \/ ~ChecksumMismatch(u) /\ ShouldCommit(u) /\ ~CanRename(u) /\ CommitFails(u)
     \/ /\ ~ChecksumMismatch(u) /\ ~ShouldCommit(u)
        /\ pc' = [pc EXCEPT ![u] = "drop"]
        /\ reply' = [reply EXCEPT ![u] = "ok"]
        /\ UNCHANGED <<files, temps, committed, replaced>>
  /\ UNCHANGED <<parent, sha, req, slot, data, written, hashed>>

\* set_xattr_sha256(target_path): by name, after the rename, best effort.
SetXattr(u) ==
  /\ pc[u] = "xattr"
  /\ sha' = IF files[Target(u)] \in Inodes
              THEN [sha EXCEPT ![files[Target(u)]] = u] ELSE sha
  /\ pc' = [pc EXCEPT ![u] = "drop"]
  /\ reply' = [reply EXCEPT ![u] = "ok"]
  /\ UNCHANGED <<parent, files, temps, req, slot, data, written, hashed,
                 committed, replaced>>

\* Slip: no destructor.
DropForgets(u) ==
  /\ pc[u] = "drop"
  /\ pc' = [pc EXCEPT ![u] = "done"]
  /\ UNCHANGED <<fsVars, req, slot, data, written, hashed, committed, reply, replaced>>

\* Slip: the destructor does not look at `committed`.
DropAlways(u) ==
  /\ pc[u] = "drop"
  /\ temps' = [temps EXCEPT ![TempPath(u)] = None]
  /\ pc' = [pc EXCEPT ![u] = "done"]
  /\ UNCHANGED <<parent, files, sha, req, slot, data, written, hashed,
                 committed, reply, replaced>>

\* Drop for AtomicFile: remove the temp, by name, unless committed.
Drop(u) ==
  /\ pc[u] = "drop"
  /\ temps' = IF committed[u] THEN temps ELSE [temps EXCEPT ![TempPath(u)] = None]
  /\ pc' = [pc EXCEPT ![u] = "done"]
  /\ UNCHANGED <<parent, files, sha, req, slot, data, written, hashed,
                 committed, reply, replaced>>

\* What the handler of upload u does of itself, once its request is there.
ServerStep(u) ==
  \/ EnsureParent(u) \/ CheckTarget(u) \/ TryTemp(u) \/ SetXattr(u) \/ Drop(u)

\* What it does when the body goes on, is over, or is broken off.
BodyStep(u) == WriteChunk(u) \/ Abort(u) \/ Flush(u)

---------------------------------------------------------------------------
\* The other requests of WebDAV clients, on the target names.

uploadVars == <<pc, req, slot, data, written, hashed, committed, reply, replaced>>

\* DELETE of a file or of an (empty) collection at a target name, alone or in
\* the course of a DELETE of the whole directory, which removes its entries
\* one by one.
Remove(t) ==
  /\ files[t] # None
  /\ files' = [files EXCEPT ![t] = None]
  /\ UNCHANGED <<parent, temps, sha, uploadVars>>

\* The same for an entry that is a temp file.
RemoveTemp(p) ==
  /\ temps[p] # None
  /\ temps' = [temps EXCEPT ![p] = None]
  /\ UNCHANGED <<parent, files, sha, uploadVars>>

\* MOVE of one target name over another.
Rename(s, t) ==
  /\ s # t /\ files[s] # None
  /\ files[t] # None => (files[s] = Dir <=> files[t] = Dir)
  /\ files' = [files EXCEPT ![t] = files[s], ![s] = None]
  /\ UNCHANGED <<parent, temps, sha, uploadVars>>

\* MKCOL: create_dir makes the missing parent, then the collection itself.
CreateDir(t) ==
  /\ parent \/ CreateParents
  /\ files[t] = None
  /\ parent' = TRUE
  /\ files' = [files EXCEPT ![t] = Dir]
  /\ UNCHANGED <<temps, sha, uploadVars>>

\* remove_dir of the directory itself: only an empty one can go.
RemoveParent ==
  /\ parent
  /\ files = [t \in Targets |-> None]
  /\ temps = [p \in TempPaths |-> None]
  /\ parent' = FALSE
  /\ UNCHANGED <<files, temps, sha, uploadVars>>

\* MOVE of the directory: all of its entries go at once.
RenameParent ==
  /\ parent
  /\ parent' = FALSE
  /\ files' = [t \in Targets |-> None]
  /\ temps' = [p \in TempPaths |-> None]
  /\ UNCHANGED <<sha, uploadVars>>

\* The process dies (power, SIGKILL, end of the grace period's 35 s): no
\* destructor runs, the files stay.  A restarted server serves new uploads.
Crash ==
  /\ \E u \in Uploads : pc[u] \in Live
  /\ pc' = [u \in Uploads |-> IF pc[u] \in Live THEN "killed" ELSE pc[u]]
  /\ UNCHANGED <<fsVars, req, slot, data, written, hashed, committed, reply, replaced>>

Clients ==
  \/ \E t \in Targets : Remove(t) \/ CreateDir(t)
  \/ \E s, t \in Targets : Rename(s, t)
  \/ \E p \in TempPaths : RemoveTemp(p)
  \/ RemoveParent
  \/ RenameParent

\* The temp names are ordinary names of the share.  Assumption: clients leave
\* those of running uploads where they are, the ones in a directory that they
\* delete or move included.
SparesTemps ==
  \A p \in TempPaths :
    temps[p] # None /\ pc[temps[p]] \in Live => temps'[p] = temps[p]

UploadNext ==
  \E u \in Uploads : ServerStep(u) \/ BodyStep(u) \/ \E r \in Requests : Begin(u, r)

Next == UploadNext \/ (Clients /\ SparesTemps) \/ Crash

Spec == Init /\ [][Next]_vars

\* A handler that can run does: it is a task of the runtime.  Nothing is asked
\* of the clients: the server waits for a body as long as the connection is up.
FairSpec == Spec /\ \A u \in Uploads : WF_vars(ServerStep(u))

---------------------------------------------------------------------------
\* The inode holds what the upload's client meant to store, to the last
\* chunk, and the hash was taken over exactly those bytes.
SizeHonest(u) == req[u].size = None \/ req[u].size = req[u].len

Whole(u) ==
  /\ data[u] = req[u].len
  /\ hashed[u] = data[u]
  /\ SizeHonest(u)
  /\ req[u].sum # "wrong"

\* A name a client can read refers to an upload's file only when that file
\* holds the whole body, of the declared size, not contradicted by its
\* checksum: "either the old file or the new file, never a half-written one".
TargetWhole == \A t \in Targets : files[t] \in Uploads => Whole(files[t])

\* While the body streams, the upload's temp name refers to its own file:
\* no other upload's rename or destructor, all of which go by name, takes it.
OwnTemp == \A u \in Uploads : pc[u] = "body" => temps[TempPath(u)] = u

\* A temp file on disk belongs to the running upload that will remove or
\* rename it, or to one that died with the process: nothing else leaks one.
NoLitter ==
  \A p \in TempPaths : temps[p] # None =>
    \/ pc[temps[p]] = "killed"
    \/ pc[temps[p]] \in {"body", "drop"} /\ p = TempPath(temps[p])

\* The answer tells the truth: success means the file was renamed into place
\* (a body that is not of the declared size is the exception the code makes),
\* an error means that the target never changed on account of this upload.
ReplyTruthful ==
  \A u \in Uploads :
    /\ reply[u] = "ok" /\ SizeHonest(u) => replaced[u] # "unpublished"
    /\ reply[u] \notin {"ok", "none"} => replaced[u] = "unpublished"

\* Every PUT that began comes to an end, answered or not, if its own client
\* goes on sending or goes away: no loop over the temp names holds it up for
\* ever, nor does another upload, whose client may have fallen silent.
UploadEnds ==
  \A u \in Uploads :
    WF_vars(BodyStep(u)) => (pc[u] \in Live ~> pc[u] \in {"done", "killed"})

\* How far a PUT is for its client, for the abstract store: from where its
\* handler is, whether it has renamed its file, and its answer.
StatusOf(at, renamed, answer) ==
  CASE at = "idle" -> "new"
    [] at = "killed" -> "lost"
    [] at = "done" /\ renamed -> "ok"
    [] at = "done" /\ ~renamed -> IF answer = "ok" THEN "discarded" ELSE "failed"
    [] at \in Live -> IF renamed THEN "stored" ELSE "busy"

Status == [u \in Uploads |-> StatusOf(pc[u], committed[u], reply[u])]

Store == INSTANCE AtomicStore WITH store <- files, status <- Status

\* The temp files, the retries and the destructor are invisible to clients:
\* every behaviour of the upload path is one of the abstract store.
StoreSpec == Store!Spec

---------------------------------------------------------------------------
\* "Every upload's SHA-256 is recorded on the file": once no upload is under
\* way and none was cut short, each uploaded file bears its own digest.
ShaRecorded ==
  (\A u \in Uploads : pc[u] \in {"idle", "done"}) =>
    \A t \in Targets : files[t] \in Uploads => sha[files[t]] = files[t]
===========================================================================
