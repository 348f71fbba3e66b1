------------------------------ MODULE Mover -------------------------------
(***************************************************************************)
(* The background jobs of the file-mover daemon                            *)
(* (src/src/bin/file-mover.rs): the requests that register a move, a copy  *)
(* or a delete, the job registry they share, and run_job / run_delete_job  *)
(* with their pools of worker threads, over a file system of directories,  *)
(* names and inodes that several jobs and other writers use at once.       *)
(*                                                                         *)
(* A path is a sequence of names, the device it is on first.  A file's     *)
(* contents are the path it was first stored under (its "blob"), or        *)
(* Partial while a copy is being written.                                  *)
(***************************************************************************)
EXTENDS PathNames

CONSTANTS
  Paths,           \* the paths of the model, closed under parents
  InitFiles,       \* files at the start ...
  InitDirs,        \* ... and directories
  Calls,           \* requests to the daemon; an accepted one is a job id
  Requests,        \* what a call may ask for
  Workers,         \* the threads of a job's pool (1 to 8 in the code)
  Arrivals,        \* paths other writers may still store a file at ...
  DirArrivals,     \* ... or make a directory at
  Drive(_),        \* Drive(h): what path_drive makes of a path on device h
  Numbered(_, _),  \* Numbered(p, i): p with _i appended to its stem
  LastNumber,      \* the largest number free_dst tries (999 in the code)
  MaxInodes,       \* bound on the inodes in use at one time
  MaxFaults,       \* bound on injected I/O errors
  None, Dir        \* no entry, a directory

Ops == {"move", "copy", "delete"}
Request == [op : Ops, src : Paths, dst : Paths, strategy : {"", "merge", "rename"}]
Inodes == 1 .. MaxInodes
Partial == <<>>
Blobs == InitFiles \cup Arrivals

ASSUME CallsAssumption == Calls \subseteq Nat
ASSUME RequestsAssumption == Requests \subseteq Request
ASSUME FilesAssumption ==
  /\ IsFiniteSet(Paths) /\ InitFiles \subseteq Paths /\ DirArrivals \subseteq Paths
  /\ Cardinality(InitFiles) <= MaxInodes
\* Paths holds every destination that a request may be resolved to.
ASSUME DestinationsAssumption ==
  \A r \in Requests : r.op # "delete" =>
    \A d \in {r.dst, Append(r.dst, Name(r.src))} :
      d \in Paths /\ (r.strategy = "rename" => \A i \in 2 .. LastNumber : Numbered(d, i) \in Paths)
ASSUME BoundsAssumption == LastNumber \in Nat \ {0, 1} /\ MaxInodes \in Nat /\ MaxFaults \in Nat
ASSUME NamesAssumption == None # Dir /\ None \notin Inodes /\ Dir \notin Inodes
ASSUME WorkersAssumption == IsFiniteSet(Workers) /\ Workers # {}

VARIABLES
  fs,      \* fs[p]: what path p refers to
  data,    \* data[i]: the contents of inode i
  call,    \* call[c]: where the handler of call c is, or its answer
  rq,      \* rq[c]: its request, dst resolved to the final destination
  status,  \* status[c]: Job.status, "none" when not in the registry
  total,   \* total[c]: Job.total_files
  done,    \* done[c]: Job.done_files
  errs,    \* errs[c]: Job.error is set
  failed,  \* failed[c]: run_job's failure counter
  phase,   \* phase[c]: where run_job is
  files,   \* files[c]: the files walked, relative to the source
  dirs,    \* dirs[c]: the directories walked, relative to the source
  next,    \* next[c]: the shared index of the pool
  wk,      \* wk[c][w]: worker w of job c
  arrived, \* history: the blobs other writers have stored
  faults   \* I/O errors injected so far

fsVars == <<fs, data, arrived>>
regVars == <<call, rq, status>>
jobVars == <<total, done, errs, failed, phase, files, dirs, next, wk>>
vars == <<fs, data, call, rq, status, total, done, errs, failed, phase, files,
          dirs, next, wk, arrived, faults>>

Active == {"queued", "running"}
Idle == [at |-> "free", idx |-> 0, from |-> 0, to |-> 0]

Exists(p) == fs[p] # None
IsDir(p) == fs[p] = Dir
IsFile(p) == fs[p] \in Inodes
ParentIsDir(p) == Len(p) = 1 \/ IsDir(Parent(p))

\* The inodes that no name and no open descriptor refers to; NewInode is
\* taken only when there is one.
FreeInodes ==
  {i \in Inodes :
     /\ \A p \in Paths : fs[p] # i
     /\ \A c \in Calls, w \in Workers : wk[c][w].from # i /\ wk[c][w].to # i}
NewInode == CHOOSE i \in FreeInodes : TRUE

Init ==
  /\ LET order == Listing(InitFiles)
     IN  /\ fs = [p \in Paths |->
                    IF p \in InitDirs THEN Dir
                    ELSE IF p \in InitFiles
                      THEN CHOOSE i \in DOMAIN order : order[i] = p
                      ELSE None]
         /\ data = [i \in Inodes |-> IF i \in DOMAIN order THEN order[i] ELSE Partial]
  /\ call = [c \in Calls |-> "idle"]
  /\ rq = [c \in Calls |-> None]
  /\ status = [c \in Calls |-> "none"]
  /\ total = [c \in Calls |-> 0]
  /\ done = [c \in Calls |-> 0]
  /\ errs = [c \in Calls |-> FALSE]
  /\ failed = [c \in Calls |-> 0]
  /\ phase = [c \in Calls |-> "none"]
  /\ files = [c \in Calls |-> <<>>]
  /\ dirs = [c \in Calls |-> {}]
  /\ next = [c \in Calls |-> 1]
  /\ wk = [c \in Calls |-> [w \in Workers |-> Idle]]
  /\ arrived = {}
  /\ faults = 0

---------------------------------------------------------------------------
\* Handling a request.

dest_for(src, dst) == IF IsDir(dst) THEN Append(dst, Name(src)) ELSE dst

free_dst(dst) ==
  LET free == {i \in 2 .. LastNumber : ~Exists(Numbered(dst, i))}
  IN  IF ~Exists(dst) THEN dst
      ELSE IF free = {} THEN Numbered(dst, LastNumber)
      ELSE Numbered(dst, CHOOSE i \in free : \A k \in free : i <= k)

\* handle_move_copy up to the registry: resolve the destination, refuse what
\* cannot be done, and settle a conflict the way the user chose.
CheckMoveCopy(c, r) ==
  LET final == dest_for(r.src, r.dst)
      Answer(a) == call' = [call EXCEPT ![c] = a] /\ UNCHANGED rq
      Proceed(d) == /\ call' = [call EXCEPT ![c] = "register"]
                    /\ rq' = [rq EXCEPT ![c] = [r EXCEPT !.dst = d]]
  IN  /\ call[c] = "idle" /\ r.op # "delete"
      /\ \/ r.src = final /\ Answer("bad request")
         \/ r.src # final /\ ~Exists(r.src) /\ Answer("not found")
         \/ /\ r.src # final /\ Exists(r.src) /\ Exists(final) /\ r.strategy = ""
            /\ Answer("conflict")
         \/ /\ r.src # final /\ Exists(r.src) /\ Exists(final) /\ r.strategy = "rename"
            /\ Proceed(free_dst(final))
         \/ /\ r.src # final /\ Exists(r.src)
            /\ Exists(final) => r.strategy = "merge"
            /\ Proceed(final)
      /\ UNCHANGED <<fsVars, status, jobVars, faults>>

\* handle_delete up to the registry.
CheckDelete(c, r) ==
  /\ call[c] = "idle" /\ r.op = "delete"
  /\ \/ ~Exists(r.src) /\ call' = [call EXCEPT ![c] = "not found"] /\ UNCHANGED rq
     \/ /\ Exists(r.src)
        /\ call' = [call EXCEPT ![c] = "register"]
        /\ rq' = [rq EXCEPT ![c] = r]
  /\ UNCHANGED <<fsVars, status, jobVars, faults>>

\* Slip: only queued jobs are looked at.
DuplicateQueued(c) ==
  {d \in Calls : /\ status[d] = "queued"
                 /\ rq[c].op \in {"move", "copy"} /\ rq[d].op = rq[c].op
                 /\ rq[d].src = rq[c].src
                 /\ rq[c].op = "move" \/ rq[d].dst = rq[c].dst}

\* The job that already does what call c asks for, if any.
Duplicates(c) ==
  {d \in Calls : /\ status[d] \in Active
                 /\ rq[c].op \in {"move", "copy"} /\ rq[d].op = rq[c].op
                 /\ rq[d].src = rq[c].src
                 /\ rq[c].op = "move" \/ rq[d].dst = rq[c].dst}

\* The job enters the registry and is spawned.
Enter(c) ==
  /\ call' = [call EXCEPT ![c] = "accepted"]
  /\ status' = [status EXCEPT ![c] = "queued"]
  /\ phase' = [phase EXCEPT ![c] = "start"]

\* Look-up and insert are one step under the registry's lock.
Register(c) ==
  /\ call[c] = "register" /\ rq[c].op # "delete"
  /\ \/ /\ Duplicates(c) # {}
        /\ call' = [call EXCEPT ![c] = "deduped"]
        /\ UNCHANGED <<status, phase>>
     \/ Duplicates(c) = {} /\ Enter(c)
  /\ UNCHANGED <<fsVars, rq, total, done, errs, failed, files, dirs, next, wk, faults>>

\* handle_delete looks for no other job.
RegisterDelete(c) ==
  /\ call[c] = "register" /\ rq[c].op = "delete" /\ Enter(c)
  /\ UNCHANGED <<fsVars, rq, total, done, errs, failed, files, dirs, next, wk, faults>>

---------------------------------------------------------------------------
\* run_job and run_delete_job.

\* path_drive: the first component below either mount, whichever it is, and
\* nothing outside them: two devices may pass for one drive.
SameDrive(c) == Drive(Head(rq[c].src)) = Drive(Head(rq[c].dst))

Below(p) == {q \in Paths : Under(p, q) /\ Exists(q)}

\* walk_files / walk_delete: the tree as it is now.
WalkedFiles(src) == {Rel(src, q) : q \in {p \in Below(src) : ~IsDir(p)}}
WalkedDirs(src) == {Rel(src, q) : q \in {p \in Below(src) : IsDir(p)}}

\* The job's thread starts: status "running", the walk, the totals; a source
\* that is gone or cannot be read is an error.  A move that stays on its drive tries the whole
\* tree's rename next, if its destination is free now.
StartJob(c) ==
  /\ phase[c] = "start" /\ rq[c].op # "delete"
  /\ \/ /\ Exists(rq[c].src)
        /\ files' = [files EXCEPT ![c] = Listing(WalkedFiles(rq[c].src))]
        /\ dirs' = [dirs EXCEPT ![c] = WalkedDirs(rq[c].src)]
        /\ total' = [total EXCEPT ![c] = Cardinality(WalkedFiles(rq[c].src))]
        /\ status' = [status EXCEPT ![c] = "running"]
        /\ phase' = [phase EXCEPT ![c] =
             IF rq[c].op = "move" /\ SameDrive(c) /\ ~Exists(rq[c].dst)
               THEN "rename" ELSE "mkdirs"]
        /\ UNCHANGED <<errs, faults>>
     \/ /\ \/ ~Exists(rq[c].src) /\ UNCHANGED faults
           \/ faults < MaxFaults /\ faults' = faults + 1
        /\ status' = [status EXCEPT ![c] = "error"]
        /\ errs' = [errs EXCEPT ![c] = TRUE]
        /\ phase' = [phase EXCEPT ![c] = "end"]
        /\ UNCHANGED <<files, dirs, total>>
  /\ UNCHANGED <<fsVars, call, rq, done, failed, next, wk>>

\* rename(2): within a device, not below itself, over nothing, over a file
\* (by a file) or over an empty directory (by a directory).
RenameOk(s, d) ==
  /\ Exists(s) /\ ~Under(s, d) /\ ParentIsDir(d) /\ Head(s) = Head(d)
  /\ \/ ~Exists(d)
     \/ ~IsDir(s) /\ ~IsDir(d)
     \/ IsDir(s) /\ IsDir(d) /\ Below(d) = {d}

Renamed(s, d) ==
  [p \in Paths |->
     IF Under(d, p) THEN IF s \o Rel(d, p) \in Paths THEN fs[s \o Rel(d, p)] ELSE None
     ELSE IF Under(s, p) THEN None ELSE fs[p]]

\* The fast path of a move: the whole source renamed at once.  Any error
\* falls through to the file-by-file path.
RenameTree(c) ==
  /\ phase[c] = "rename"
  /\ \/ /\ RenameOk(rq[c].src, rq[c].dst)
        /\ fs' = Renamed(rq[c].src, rq[c].dst)
        /\ done' = [done EXCEPT ![c] = total[c]]
        /\ status' = [status EXCEPT ![c] = "done"]
        /\ phase' = [phase EXCEPT ![c] = "end"]
        /\ UNCHANGED faults
     \/ /\ ~RenameOk(rq[c].src, rq[c].dst)
        /\ phase' = [phase EXCEPT ![c] = "mkdirs"]
        /\ UNCHANGED <<fs, done, status, faults>>
     \/ /\ RenameOk(rq[c].src, rq[c].dst) /\ faults < MaxFaults
        /\ faults' = faults + 1
        /\ phase' = [phase EXCEPT ![c] = "mkdirs"]
        /\ UNCHANGED <<fs, done, status>>
  /\ UNCHANGED <<data, arrived, call, rq, total, errs, failed, files, dirs, next, wk>>

target_path(c, rel) == rq[c].dst \o rel

\* create_dir_all for every walked directory; failures are ignored.
MakeDirs(c) ==
  LET Wanted == {target_path(c, rel) : rel \in dirs[c]}
      Makeable == {d \in Wanted : \A p \in Paths : Under(p, d) => ~IsFile(p)}
  IN  /\ phase[c] = "mkdirs"
      /\ fs' = [p \in Paths |->
                  IF ~Exists(p) /\ \E d \in Makeable : Under(p, d) THEN Dir ELSE fs[p]]
      /\ phase' = [phase EXCEPT ![c] = "work"]
      /\ UNCHANGED <<data, arrived, regVars, total, done, errs, failed, files, dirs, next, wk, faults>>

Source(c, w) == rq[c].src \o files[c][wk[c][w].idx]
Target(c, w) == target_path(c, files[c][wk[c][w].idx])

\* Slip: a failed file is counted as done and forgotten.
FinishQuietly(c, w, ok) ==
  /\ wk' = [wk EXCEPT ![c][w] = Idle]
  /\ done' = [done EXCEPT ![c] = @ + 1]
  /\ UNCHANGED <<failed, errs>>

\* A worker is through with its file: the counters, and back for another.
Finish(c, w, ok) ==
  /\ wk' = [wk EXCEPT ![c][w] = Idle]
  /\ failed' = [failed EXCEPT ![c] = IF ok THEN @ ELSE @ + 1]
  /\ errs' = [errs EXCEPT ![c] = @ \/ ~ok]
  /\ done' = [done EXCEPT ![c] = IF ok \/ rq[c].op # "delete" THEN @ + 1 ELSE @]

Go(c, w, at) ==
  /\ wk' = [wk EXCEPT ![c][w].at = at]
  /\ UNCHANGED <<failed, errs, done>>

\* Slip: the index is read and written back in two steps; a second worker
\* that reads in between gets the same file.
TakeTwice(c, w) ==
  /\ phase[c] = "work" /\ wk[c][w].at = "free"
  /\ wk' = [wk EXCEPT ![c][w] =
       IF next[c] <= Len(files[c]) THEN [Idle EXCEPT !.at = "have", !.idx = next[c]]
                                   ELSE [Idle EXCEPT !.at = "out"]]
  /\ next' \in {next, [next EXCEPT ![c] = @ + 1]}
  /\ UNCHANGED <<fsVars, regVars, total, done, errs, failed, phase, files, dirs, faults>>

\* Slip: the bound of the file list is off by one.
TakeTooMany(c, w) ==
  /\ phase[c] = "work" /\ wk[c][w].at = "free"
  /\ wk' = [wk EXCEPT ![c][w] = [Idle EXCEPT !.at = "have", !.idx = next[c]]]
  /\ next' = [next EXCEPT ![c] = @ + 1]
  /\ UNCHANGED <<fsVars, regVars, total, done, errs, failed, phase, files, dirs, faults>>

\* Slip: a thread that finds no file left asks again instead of leaving.
TakeForever(c, w) ==
  /\ phase[c] = "work" /\ wk[c][w].at = "free" /\ next[c] <= Len(files[c])
  /\ wk' = [wk EXCEPT ![c][w] = [Idle EXCEPT !.at = "have", !.idx = next[c]]]
  /\ next' = [next EXCEPT ![c] = @ + 1]
  /\ UNCHANGED <<fsVars, regVars, total, done, errs, failed, phase, files, dirs, faults>>

\* next.fetch_add(1): a distinct file for each worker, until none is left.
Take(c, w) ==
  /\ phase[c] = "work" /\ wk[c][w].at = "free"
  /\ wk' = [wk EXCEPT ![c][w] =
       IF next[c] <= Len(files[c]) THEN [Idle EXCEPT !.at = "have", !.idx = next[c]]
                                   ELSE [Idle EXCEPT !.at = "out"]]
  /\ next' = [next EXCEPT ![c] = IF @ <= Len(files[c]) THEN @ + 1 ELSE @]
  /\ UNCHANGED <<fsVars, regVars, total, done, errs, failed, phase, files, dirs, faults>>

\* EXDEV: rename(2) reports it before it looks at the two entries.
OtherDevice(s, d) == Head(s) # Head(d) /\ ParentIsDir(s) /\ ParentIsDir(d)

\* A move on one drive renames the file; EXDEV or EIO turn to a copy, any
\* other error is a failure.
RenameFile(c, w) ==
  /\ wk[c][w].at = "have" /\ rq[c].op = "move" /\ SameDrive(c)
  /\ \/ /\ RenameOk(Source(c, w), Target(c, w))
        /\ fs' = Renamed(Source(c, w), Target(c, w))
        /\ Finish(c, w, TRUE) /\ UNCHANGED faults
     \/ /\ OtherDevice(Source(c, w), Target(c, w))
        /\ Go(c, w, "copy") /\ UNCHANGED <<fs, faults>>
     \/ /\ ~RenameOk(Source(c, w), Target(c, w)) /\ ~OtherDevice(Source(c, w), Target(c, w))
        /\ Finish(c, w, FALSE) /\ UNCHANGED <<fs, faults>>
     \/ /\ RenameOk(Source(c, w), Target(c, w)) /\ faults < MaxFaults
        /\ faults' = faults + 1
        /\ Go(c, w, "copy") \/ Finish(c, w, FALSE)
        /\ UNCHANGED fs
  /\ UNCHANGED <<data, arrived, regVars, total, phase, files, dirs, next>>

\* copy_file opens the source, even one that has become a directory (from is
\* then 0) ...
OpenSource(c, w) ==
  LET s == Source(c, w)
  IN  /\ \/ wk[c][w].at = "copy"
         \/ wk[c][w].at = "have" /\ (rq[c].op = "copy" \/ (rq[c].op = "move" /\ ~SameDrive(c)))
      /\ IF Exists(s)
           THEN /\ wk' = [wk EXCEPT ![c][w].at = "opened",
                                   ![c][w].from = IF IsFile(s) THEN fs[s] ELSE 0]
                /\ UNCHANGED <<failed, errs, done>>
           ELSE Finish(c, w, FALSE)
      /\ UNCHANGED <<fsVars, regVars, total, phase, files, dirs, next, faults>>

\* ... and then creates the target, truncating what is there.
CreateTarget(c, w) ==
  LET d == Target(c, w)
      to == IF IsFile(d) THEN fs[d] ELSE NewInode
  IN  /\ wk[c][w].at = "opened"
      /\ \/ /\ ParentIsDir(d) /\ ~IsDir(d)
            /\ IsFile(d) \/ FreeInodes # {}
            /\ fs' = [fs EXCEPT ![d] = to]
            /\ data' = [data EXCEPT ![to] = Partial]
            /\ wk' = [wk EXCEPT ![c][w].at = "copying", ![c][w].to = to]
            /\ UNCHANGED <<failed, errs, done>>
         \/ /\ ~ParentIsDir(d) \/ IsDir(d)
            /\ Finish(c, w, FALSE) /\ UNCHANGED <<fs, data>>
      /\ UNCHANGED <<arrived, regVars, total, phase, files, dirs, next, faults>>

\* The loop of copy_file: everything arrives, or an error leaves a stump; a
\* directory cannot be read.
WriteCopy(c, w) ==
  /\ wk[c][w].at = "copying"
  /\ \/ /\ wk[c][w].from # 0
        /\ data' = [data EXCEPT ![wk[c][w].to] = data[wk[c][w].from]]
        /\ IF rq[c].op = "move" THEN Go(c, w, "unlink") ELSE Finish(c, w, TRUE)
        /\ UNCHANGED faults
     \/ /\ \/ wk[c][w].from = 0 /\ UNCHANGED faults
           \/ wk[c][w].from # 0 /\ faults < MaxFaults /\ faults' = faults + 1
        /\ Finish(c, w, FALSE) /\ UNCHANGED data
  /\ UNCHANGED <<fs, arrived, regVars, total, phase, files, dirs, next>>

\* remove_file on the source.
RemoveSource(c, w) ==
  /\ \/ /\ IsFile(Source(c, w))
        /\ fs' = [fs EXCEPT ![Source(c, w)] = None]
        /\ Finish(c, w, TRUE) /\ UNCHANGED faults
     \/ /\ \/ ~IsFile(Source(c, w)) /\ UNCHANGED faults
           \/ faults < MaxFaults /\ faults' = faults + 1
        /\ Finish(c, w, FALSE) /\ UNCHANGED fs
  /\ UNCHANGED <<data, arrived, regVars, total, phase, files, dirs, next>>

\* A move has copied the file, and a delete removes each file it walked.
Unlink(c, w) == wk[c][w].at = "unlink" /\ RemoveSource(c, w)
DeleteFile(c, w) == wk[c][w].at = "have" /\ rq[c].op = "delete" /\ RemoveSource(c, w)

PoolDone(c) == phase[c] = "work" /\ \A w \in Workers : wk[c][w].at = "out"

\* Slip: the failure counter is not looked at.
EndJobAnyway(c) ==
  /\ PoolDone(c) /\ rq[c].op # "delete"
  /\ fs' = IF rq[c].op = "move" /\ IsDir(rq[c].src)
             THEN [p \in Paths |-> IF Under(rq[c].src, p) THEN None ELSE fs[p]] ELSE fs
  /\ status' = [status EXCEPT ![c] = "done"]
  /\ phase' = [phase EXCEPT ![c] = "end"]
  /\ UNCHANGED <<data, arrived, call, rq, total, done, errs, failed, files, dirs, next, wk, faults>>

\* What a remove_dir_all that fails half-way may have removed below p: with an
\* entry everything under it.
Removals(p) == {S \in SUBSET Below(p) : \A q \in S : Below(q) \subseteq S}

Without(S) == [p \in Paths |-> IF p \in S THEN None ELSE fs[p]]

\* The pool has joined: a move without failures removes its source tree (an
\* error is ignored), and the job is "done" whatever failed.
EndJob(c) ==
  /\ PoolDone(c) /\ rq[c].op # "delete"
  /\ IF rq[c].op = "move" /\ failed[c] = 0 /\ IsDir(rq[c].src)
       THEN \/ fs' = Without(Below(rq[c].src)) /\ UNCHANGED faults
            \/ /\ faults < MaxFaults /\ faults' = faults + 1
               /\ \E S \in Removals(rq[c].src) : fs' = Without(S)
       ELSE UNCHANGED <<fs, faults>>
  /\ status' = [status EXCEPT ![c] = "done"]
  /\ phase' = [phase EXCEPT ![c] = "end"]
  /\ UNCHANGED <<data, arrived, call, rq, total, done, errs, failed, files, dirs, next, wk>>

---------------------------------------------------------------------------
\* run_delete_job: a tree is walked, a single file removed at once; a source
\* that is gone, cannot be walked or cannot be removed is an error.
StartDelete(c) ==
  /\ phase[c] = "start" /\ rq[c].op = "delete"
  /\ \/ /\ IsDir(rq[c].src)
        /\ files' = [files EXCEPT ![c] = Listing(WalkedFiles(rq[c].src))]
        /\ dirs' = [dirs EXCEPT ![c] = WalkedDirs(rq[c].src)]
        /\ total' = [total EXCEPT ![c] = Cardinality(WalkedFiles(rq[c].src))]
        /\ status' = [status EXCEPT ![c] = "running"]
        /\ phase' = [phase EXCEPT ![c] = "work"]
        /\ UNCHANGED <<fs, done, errs, faults>>
     \/ /\ IsFile(rq[c].src)
        /\ fs' = Without({rq[c].src})
        /\ total' = [total EXCEPT ![c] = 1]
        /\ done' = [done EXCEPT ![c] = 1]
        /\ status' = [status EXCEPT ![c] = "done"]
        /\ phase' = [phase EXCEPT ![c] = "end"]
        /\ UNCHANGED <<errs, files, dirs, faults>>
     \/ /\ \/ ~Exists(rq[c].src) /\ UNCHANGED faults
           \/ Exists(rq[c].src) /\ faults < MaxFaults /\ faults' = faults + 1
        /\ errs' = [errs EXCEPT ![c] = TRUE]
        /\ status' = [status EXCEPT ![c] = "error"]
        /\ phase' = [phase EXCEPT ![c] = "end"]
        /\ UNCHANGED <<fs, total, done, files, dirs>>
  /\ UNCHANGED <<data, arrived, call, rq, failed, next, wk>>

\* The walked directories, deepest first: each goes if nothing is left in it
\* and its removal does not fail.
EndDelete(c) ==
  LET Walked == {rq[c].src \o rel : rel \in dirs[c]}
      Removable == {d \in Walked : IsDir(d) /\ Below(d) \subseteq {p \in Walked : IsDir(p)}}
  IN  /\ PoolDone(c) /\ rq[c].op = "delete"
      /\ \E stuck \in SUBSET Removable, n \in 0 .. MaxFaults - faults :
           LET Gone == {d \in Removable : \A k \in stuck : ~Under(d, k)}
           IN  /\ n = Cardinality(stuck) /\ faults' = faults + n
               /\ fs' = Without(Gone)
               /\ status' = [status EXCEPT ![c] =
                    IF failed[c] = 0 /\ Gone = Walked THEN "done" ELSE "error"]
      /\ phase' = [phase EXCEPT ![c] = "end"]
      /\ UNCHANGED <<data, arrived, call, rq, total, done, errs, failed, files, dirs, next, wk>>

---------------------------------------------------------------------------
\* Another writer of the share stores a new file.
Arrive(p) ==
  /\ p \notin arrived /\ fs[p] = None /\ ParentIsDir(p) /\ FreeInodes # {}
  /\ arrived' = arrived \cup {p}
  /\ fs' = [fs EXCEPT ![p] = NewInode]
  /\ data' = [data EXCEPT ![NewInode] = p]
  /\ UNCHANGED <<regVars, jobVars, faults>>

\* Another writer makes a directory.
ArriveDir(p) ==
  /\ fs[p] = None /\ ParentIsDir(p)
  /\ fs' = [fs EXCEPT ![p] = Dir]
  /\ UNCHANGED <<data, arrived, regVars, jobVars, faults>>

\* The daemon is restarted (its own self-update, or a crash): the registry
\* and the threads are gone, the files stay as they are.
Restart ==
  /\ \E c \in Calls : phase[c] \notin {"none", "end", "gone"}
  /\ status' = [c \in Calls |-> "none"]
  /\ phase' = [c \in Calls |-> IF phase[c] = "none" THEN "none" ELSE "gone"]
  /\ call' = [c \in Calls |-> IF call[c] = "idle" THEN "idle" ELSE "gone"]
  /\ wk' = [c \in Calls |-> [w \in Workers |-> Idle]]
  /\ UNCHANGED <<fsVars, rq, total, done, errs, failed, files, dirs, next, faults>>

Handle(c) ==
  \/ \E r \in Requests : CheckMoveCopy(c, r) \/ CheckDelete(c, r)
  \/ Register(c) \/ RegisterDelete(c)

JobStep(c) ==
  \/ StartJob(c) \/ RenameTree(c) \/ MakeDirs(c) \/ EndJob(c)
  \/ StartDelete(c) \/ EndDelete(c)
  \/ \E w \in Workers : \/ Take(c, w) \/ RenameFile(c, w) \/ OpenSource(c, w)
                        \/ CreateTarget(c, w) \/ WriteCopy(c, w) \/ Unlink(c, w)
                        \/ DeleteFile(c, w)

Next ==
  \/ \E c \in Calls : Handle(c) \/ JobStep(c)
  \/ \E p \in Arrivals : Arrive(p)
  \/ \E p \in DirArrivals : ArriveDir(p)
  \/ Restart

Spec == Init /\ [][Next]_vars

\* The blocking pool runs every spawned job, and the system its threads.
FairSpec == Spec /\ \A c \in Calls : WF_vars(JobStep(c))

---------------------------------------------------------------------------
Answers == {"bad request", "not found", "conflict", "deduped", "accepted"}
Stages == {"free", "have", "copy", "opened", "copying", "unlink", "out"}
Phases == {"none", "start", "rename", "mkdirs", "work", "end", "gone"}
WorkerState == [at : Stages, idx : Nat, from : 0 .. MaxInodes, to : 0 .. MaxInodes]

TypeOK ==
  /\ fs \in [Paths -> Inodes \cup {None, Dir}]
  /\ data \in [Inodes -> Blobs \cup {Partial}]
  /\ call \in [Calls -> {"idle", "register", "gone"} \cup Answers]
  /\ rq \in [Calls -> Request \cup {None}]
  /\ \A c \in Calls : phase[c] # "none" => rq[c] \in Request
  /\ status \in [Calls -> Active \cup {"none", "done", "error"}]
  /\ total \in [Calls -> Nat] /\ done \in [Calls -> Nat] /\ failed \in [Calls -> Nat]
  /\ errs \in [Calls -> BOOLEAN]
  /\ phase \in [Calls -> Phases]
  /\ \A c \in Calls : next[c] \in 1 .. Len(files[c]) + 1
  /\ wk \in [Calls -> [Workers -> WorkerState]]
  /\ \A c \in Calls, w \in Workers : wk[c][w].idx <= Len(files[c])
  /\ arrived \subseteq Arrivals
  /\ faults \in 0 .. MaxFaults

\* "two concurrent requests for the same src can NEVER both slip past the
\* check and register two jobs": at most one active move consumes a source,
\* at most one active copy writes a source's copy to a destination.
OneJobPerSource ==
  \A c, d \in Calls :
    /\ status[c] \in Active /\ status[d] \in Active
    /\ rq[c].op = rq[d].op /\ rq[c].op \in {"move", "copy"}
    /\ rq[c].src = rq[d].src
    /\ rq[c].op = "move" \/ rq[c].dst = rq[d].dst
    => c = d

\* No two threads of a job ever work on the same file.
DistinctFiles ==
  \A c \in Calls : \A v, w \in Workers :
    wk[c][v].idx # 0 /\ wk[c][v].idx = wk[c][w].idx => v = w

\* Was blob b in a tree the user asked to delete?
DeleteRequested(b) ==
  \E c \in Calls : rq[c] # None /\ rq[c].op = "delete" /\ Under(rq[c].src, b)

\* Whatever jobs run, fail half-way or are cut off by a restart, every file
\* that nobody asked to delete is whole under some name: a move gives up the
\* source only for a complete copy.
NothingLost ==
  \A b \in InitFiles \cup arrived :
    ~DeleteRequested(b) => \E p \in Paths : IsFile(p) /\ data[fs[p]] = b

\* The progress shown never exceeds the walked total, and reaches it exactly
\* when the job is reported done.
ProgressExact ==
  \A c \in Calls :
    /\ done[c] <= total[c]
    /\ status[c] = "done" => done[c] = total[c]

\* A job that turns to "done" without an error has delivered every walked
\* file whole, and a move has left none of them behind, except for files the
\* user asked to delete meanwhile.
DoneMeansDelivered ==
  [][\A c \in Calls :
       /\ status[c] = "running" /\ status'[c] = "done"
       /\ ~errs'[c] /\ rq[c].op # "delete"
       => \A i \in DOMAIN files[c] :
            LET t == target_path(c, files[c][i])
                s == rq[c].src \o files[c][i]
            IN  DeleteRequested(s) \/
                /\ fs'[t] \in Inodes /\ data'[fs'[t]] # Partial
                /\ rq[c].op = "move" => fs'[s] = None]_vars

\* Every job that was accepted ends (or dies with the daemon): the pool's
\* threads run out of files and nothing waits on another job.
JobEnds == \A c \in Calls : call[c] = "accepted" ~> phase[c] \in {"end", "gone"}
===========================================================================
