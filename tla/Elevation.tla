---------------------------- MODULE Elevation -----------------------------
(***************************************************************************)
(* What the file-mover daemon does in the handler itself rather than in a  *)
(* background job: put, mkdir and rename (src/src/bin/file-mover.rs), and  *)
(* every operation it hands to the helper that sudo runs as root           *)
(* (src/src/bin/file-mover-sudo.rs), in a process of its own for each      *)
(* request.                                                                *)
(*                                                                         *)
(* A file's contents are chunks, each of some blob: the path at which the  *)
(* file was at the start, or the temp file that a put received.            *)
(***************************************************************************)
EXTENDS PathNames

CONSTANTS
  Names,           \* the names of drives, directories and files
  Paths,           \* the paths the drives can hold; a system call refuses others
  InitFiles,       \* files at the start ...
  InitDirs,        \* ... and directories
  Protected,       \* directories below which only root may write
  Calls,           \* requests to the daemon
  Requests,        \* what a call may ask for
  Tmp(_),          \* Tmp(c): the temp file of a put
  Numbered(_, _),  \* Numbered(p, i): p with _i appended to its stem
  LastNumber,      \* the largest number free_dst tries (999 in the code)
  Chunks,          \* the length of every file
  MaxFaults,       \* bound on I/O errors and restarts
  None, Dir        \* no entry, a directory

Ops == {"put", "mkdir", "rename", "move", "copy", "delete"}

\* dst of a rename is the new name beside the source; where an operation has
\* one path only, src and dst are that path.  "good" and "bad" are the
\* passwords that sudo accepts and does not.
Request == [op : Ops, src : Paths, dst : Paths, strategy : {"", "merge", "rename"},
            pass : {"none", "good", "bad"}]

\* What Resolve and free_dst can make of a destination p for a source named n;
\* and where a request can end, since the helper does what the daemon has done.
Settled(p, n) ==
  LET two == {p, Append(p, n)}
  IN  two \cup {Numbered(q, i) : q \in two, i \in 2 .. LastNumber}
Destinations(r) ==
  IF r.op \in {"move", "copy"}
  THEN UNION {Settled(p, Name(r.src)) : p \in Settled(r.dst, Name(r.src))}
  ELSE {r.dst}

Users == {"user", "root"}
Temps == {Tmp(c) : c \in Calls}
Hole == <<>>
Blobs == InitFiles \cup Temps

\* Who created a file, in which call (0: before) and at which path.
Inodes == [by : Users, call : Calls \cup {0}, path : Paths]
Start(p) == [by |-> IF \E q \in Protected : Under(q, p) THEN "root" ELSE "user",
             call |-> 0, path |-> p]

ASSUME CallsAssumption == Calls \subseteq Nat \ {0}
ASSUME BoundsAssumption ==
  Chunks \in Nat \ {0} /\ LastNumber \in Nat \ {0, 1} /\ MaxFaults \in Nat
ASSUME NamesAssumption == None # Dir /\ None \notin Inodes /\ Dir \notin Inodes
ASSUME PathsAssumption ==
  Paths \subseteq Seq(Names) \ {<<>>} /\ \A p \in Paths : Prefixes(p) \subseteq Paths
\* What is there at the start lies in directories.
ASSUME TreeAssumption ==
  /\ InitFiles \cup InitDirs \subseteq Paths /\ InitFiles \cap InitDirs = {}
  /\ \A p \in InitFiles \cup InitDirs : Len(p) = 1 \/ Parent(p) \in InitDirs
  /\ Protected \subseteq InitDirs
\* Temp files have names of their own in a directory that is there.
ASSUME TempsAssumption ==
  /\ Temps \subseteq Paths \ (InitFiles \cup InitDirs)
  /\ \A c \in Calls : Len(Tmp(c)) = 1 \/ Parent(Tmp(c)) \in InitDirs
  /\ \A c, d \in Calls : Overlap(Tmp(c), Tmp(d)) => c = d
\* Moves, copies and deletes without a password are jobs (module Mover); no
\* request takes a protected directory itself away, and none works on the
\* temp files or a directory above them: they are outside the two drives.
ASSUME RequestsAssumption ==
  /\ Requests \subseteq Request
  /\ \A r \in Requests :
       /\ r.op \in {"move", "copy", "delete"} => r.pass # "none"
       /\ r.op \in {"rename", "move", "delete"} => \A q \in Protected : ~Under(r.src, q)
       /\ Destinations(r) \subseteq Seq(Names)
       /\ \A p \in {r.src} \cup Destinations(r), t \in Temps : ~Overlap(p, t)

VARIABLES
  fs,      \* fs[p]: what path p refers to
  data,    \* data[i]: the chunks of inode i
  at,      \* at[c]: where the handler of call c is, or its answer
  rq,      \* rq[c]: its request
  final,   \* final[c]: the destination the daemon resolved
  hp,      \* hp[c]: where its helper is, or how that ended
  goal,    \* goal[c]: the destination the helper resolved
  todo,    \* todo[c]: what copy_recursive has still to visit in the directories it is in
  cp,      \* cp[c]: the copy of a file under way
  faults   \* I/O errors and restarts so far

vars == <<fs, data, at, rq, final, hp, goal, todo, cp, faults>>
files == <<fs, data>>
request == <<rq, final>>
helper == <<hp, goal, todo>>

Answers == {"ok", "denied", "elevation", "conflict", "not found", "bad request", "error"}
Over == Answers \cup {"gone"}
HelperOver == {"ok", "error", "conflict", "refused", "killed"}
NoCopy == [from |-> None, to |-> None, pos |-> 0]

Exists(p) == p \in DOMAIN fs /\ fs[p] # None
IsDir(p) == p \in DOMAIN fs /\ fs[p] = Dir
IsFile(p) == p \in DOMAIN fs /\ fs[p] \notin {None, Dir}
ParentIsDir(p) == Len(p) = 1 \/ IsDir(Parent(p))
Whole(blob) == [k \in 1 .. Chunks |-> blob]
Empty == Whole(Hole)

Init ==
  /\ fs = [p \in Paths |-> IF p \in InitDirs THEN Dir
                           ELSE IF p \in InitFiles THEN Start(p) ELSE None]
  /\ data = [i \in {Start(p) : p \in InitFiles} |-> Whole(i.path)]
  /\ at = [c \in Calls |-> "idle"]
  /\ rq = [c \in Calls |-> None]
  /\ final = [c \in Calls |-> <<>>]
  /\ hp = [c \in Calls |-> "none"]
  /\ goal = [c \in Calls |-> <<>>]
  /\ todo = [c \in Calls |-> {}]
  /\ cp = [c \in Calls |-> NoCopy]
  /\ faults = 0

---------------------------------------------------------------------------
\* System calls: what they return to a user, and the tree they leave.

Denied(who, p) == who = "user" /\ \E q \in Protected : Under(q, Parent(p))

\* The paths can hold what is at s when it is moved to d.
Fits(s, d) == \A q \in Paths : Under(s, q) /\ Exists(q) => d \o Rel(s, q) \in Paths

RenameResult(who, s, d) ==
  IF d \notin Paths \/ ~ParentIsDir(s) \/ ~ParentIsDir(d) THEN "error"
  ELSE IF Head(s) # Head(d) THEN "other device"
  ELSE IF ~Exists(s) \/ (Overlap(s, d) /\ s # d) \/ ~Fits(s, d) THEN "error"
  ELSE IF s = d THEN "ok"
  ELSE IF Denied(who, s) \/ Denied(who, d) THEN "denied"
  ELSE IF Exists(d) /\ IsDir(s) # IsDir(d) THEN "error"
  ELSE IF IsDir(d) /\ \E q \in Paths : Under(d, q) /\ q # d /\ Exists(q) THEN "error"
  ELSE "ok"

\* File::create: truncates a file that is there and that one may write.
CreateResult(who, p) ==
  IF p \notin Paths \/ ~ParentIsDir(p) \/ IsDir(p) THEN "error"
  ELSE IF IsFile(p) THEN IF who = "user" /\ fs[p].by = "root" THEN "denied" ELSE "ok"
  ELSE IF Denied(who, p) THEN "denied" ELSE "ok"

\* create_dir_all
MkdirResult(who, p) ==
  IF \E q \in Prefixes(p) : q \notin Paths \/ IsFile(q) THEN "error"
  ELSE IF \E q \in Prefixes(p) : ~Exists(q) /\ Denied(who, q) THEN "denied"
  ELSE "ok"

WithDirs(p) == [q \in Paths |-> IF q \in Prefixes(p) THEN Dir ELSE fs[q]]

\* Slip: the entries below a directory stay.
RemovedTop(p) == [fs EXCEPT ![p] = None]

Removed(p) == [q \in Paths |-> IF Under(p, q) THEN None ELSE fs[q]]

\* What a remove_dir_all that is cut off may have removed below p: with an
\* entry everything under it.
Removals(p) ==
  {S \in SUBSET {q \in Paths : Under(p, q) /\ Exists(q)} :
     \A q \in S, o \in Paths : Under(q, o) /\ Exists(o) => o \in S}
Without(S) == [q \in Paths |-> IF q \in S THEN None ELSE fs[q]]

Renamed(s, d) ==
  [q \in Paths |-> IF Under(d, q) THEN LET o == s \o Rel(d, q)
                                       IN  IF o \in Paths THEN fs[o] ELSE None
                   ELSE IF Under(s, q) THEN None ELSE fs[q]]

\* The file that create opens, the file system with it, and its contents.
Created(who, c, p) == IF IsFile(p) THEN fs[p] ELSE [by |-> who, call |-> c, path |-> p]
Create(who, c, p, contents) ==
  LET i == Created(who, c, p)
  IN  /\ fs' = [fs EXCEPT ![p] = i]
      /\ data' = [j \in DOMAIN data \cup {i} |-> IF j = i THEN contents ELSE data[j]]

Resolve(src, dst) == IF IsDir(dst) THEN Append(dst, Name(src)) ELSE dst

free_dst(dst) ==
  LET free == {i \in 2 .. LastNumber : ~Exists(Numbered(dst, i))}
  IN  IF ~Exists(dst) THEN dst
      ELSE IF free = {} THEN Numbered(dst, LastNumber)
      ELSE Numbered(dst, CHOOSE i \in free : \A k \in free : i <= k)

\* copy_file: open the source, create (truncate) the target ...
OpenCopy(who, c, s, d) ==
  /\ Create(who, c, d, Empty)
  /\ cp' = [cp EXCEPT ![c] = [from |-> fs[s], to |-> Created(who, c, d), pos |-> 1]]

\* ... and write it chunk by chunk.
CopyChunk(c) ==
  LET i == cp[c].to  k == cp[c].pos
  IN  /\ data' = [data EXCEPT ![i][k] = data[cp[c].from][k]]
      /\ cp' = [cp EXCEPT ![c] = IF k = Chunks THEN NoCopy ELSE [@ EXCEPT !.pos = k + 1]]

Fault == faults < MaxFaults /\ faults' = faults + 1

---------------------------------------------------------------------------
\* The handlers, with the rights of the daemon's user.

Go(c, place) == at' = [at EXCEPT ![c] = place]

\* remove_file(tmp), its result ignored.
DropTmp(c) == fs' = [fs EXCEPT ![Tmp(c)] = None]

First(op) == CASE op = "put" -> "parent" [] op = "mkdir" -> "mkdir" [] op = "delete" -> "delete"
               [] OTHER -> "check"

\* A request arrives, its body (but that of a put) complete.
Arrive(c, r) ==
  /\ at[c] = "idle"
  /\ Go(c, IF r.op = "put" THEN "receive" ELSE First(r.op))
  /\ rq' = [rq EXCEPT ![c] = r]
  /\ final' = [final EXCEPT ![c] = r.dst]
  /\ UNCHANGED <<files, helper, cp, faults>>

\* sudo_run: start the helper and wait for it.
RunSudo(c, d) ==
  /\ hp' = [hp EXCEPT ![c] = "sudo"]
  /\ final' = [final EXCEPT ![c] = d]
  /\ goal' = [goal EXCEPT ![c] = d]
  /\ Go(c, "waiting")
  /\ UNCHANGED <<rq, todo>>

\* Slip: the temp file is left to the user who has to type the password.
ElevateKeepsTmp(c) ==
  \/ /\ rq[c].pass # "none" /\ RunSudo(c, rq[c].dst) /\ UNCHANGED fs
  \/ /\ rq[c].pass = "none" /\ Go(c, "elevation") /\ UNCHANGED <<fs, request, helper>>

\* Permission denied, or a device that one cannot write to: ask for a
\* password, or use the one that came with the request.
Elevate(c) ==
  \/ /\ rq[c].pass # "none" /\ RunSudo(c, rq[c].dst) /\ UNCHANGED fs
  \/ /\ rq[c].pass = "none" /\ Go(c, "elevation")
     /\ IF rq[c].op = "put" THEN DropTmp(c) ELSE UNCHANGED fs
     /\ UNCHANGED <<request, helper>>

\* handle_put creates the temp file ...
PutCreate(c) ==
  /\ at[c] = "receive"
  /\ \/ Create("user", c, Tmp(c), Empty) /\ Go(c, "body") /\ UNCHANGED faults
     \/ Fault /\ Go(c, "error") /\ UNCHANGED files
  /\ UNCHANGED <<request, helper, cp>>

\* ... and writes the body to it as it comes in; an error removes it.
PutBody(c) ==
  /\ at[c] = "body"
  /\ \/ Create("user", c, Tmp(c), Whole(Tmp(c))) /\ Go(c, "parent") /\ UNCHANGED faults
     \/ Fault /\ DropTmp(c) /\ Go(c, "error") /\ UNCHANGED data
  /\ UNCHANGED <<request, helper, cp>>

\* The parent of the destination, made if it can be.
PutParent(c) ==
  LET p == Parent(rq[c].dst)
  IN  /\ at[c] = "parent"
      /\ fs' = IF MkdirResult("user", p) = "ok" THEN WithDirs(p) ELSE fs
      /\ Go(c, "place")
      /\ UNCHANGED <<data, request, helper, cp, faults>>

PutFails(c) == DropTmp(c) /\ Go(c, "error") /\ UNCHANGED <<request, helper>>

\* The temp file renamed into place; to another device it is copied.
PutPlace(c) ==
  LET result == RenameResult("user", Tmp(c), rq[c].dst)
  IN  /\ at[c] = "place"
      /\ \/ /\ result = "ok"
            /\ fs' = Renamed(Tmp(c), rq[c].dst)
            /\ Go(c, "ok") /\ UNCHANGED <<request, helper>>
         \/ /\ result = "other device"
            /\ Go(c, "create") /\ UNCHANGED <<fs, request, helper>>
         \/ result = "denied" /\ Elevate(c)
         \/ result = "error" /\ PutFails(c)
      /\ UNCHANGED <<data, cp, faults>>

PutCreateTarget(c) ==
  LET result == CreateResult("user", rq[c].dst)
  IN  /\ at[c] = "create"
      /\ \/ /\ result = "ok" /\ OpenCopy("user", c, Tmp(c), rq[c].dst)
            /\ Go(c, "copying") /\ UNCHANGED <<request, helper>>
         \/ result = "denied" /\ Elevate(c) /\ UNCHANGED <<data, cp>>
         \/ result = "error" /\ PutFails(c) /\ UNCHANGED <<data, cp>>
      /\ UNCHANGED faults

\* The copy, after which (or after an error in which) the temp file goes.
PutCopy(c) ==
  /\ at[c] = "copying"
  /\ \/ /\ cp[c] # NoCopy
        /\ CopyChunk(c) /\ UNCHANGED <<fs, at, request, helper, faults>>
     \/ /\ cp[c] # NoCopy /\ Fault
        /\ cp' = [cp EXCEPT ![c] = NoCopy]
        /\ PutFails(c) /\ UNCHANGED data
     \/ /\ cp[c] = NoCopy
        /\ DropTmp(c) /\ Go(c, "ok") /\ UNCHANGED <<data, request, helper, cp, faults>>

\* handle_mkdir
Mkdir(c) ==
  LET result == MkdirResult("user", rq[c].dst)
  IN  /\ at[c] = "mkdir"
      /\ \/ /\ result = "ok" /\ fs' = WithDirs(rq[c].dst)
            /\ Go(c, "ok") /\ UNCHANGED <<request, helper>>
         \/ result = "denied" /\ Elevate(c)
         \/ result = "error" /\ Go(c, "error") /\ UNCHANGED <<fs, request, helper>>
      /\ UNCHANGED <<data, cp, faults>>

\* handle_rename looks whether the name is free ...
RenameCheck(c) ==
  /\ at[c] = "check" /\ rq[c].op = "rename"
  /\ Go(c, IF Exists(rq[c].dst) THEN "conflict" ELSE "rename")
  /\ UNCHANGED <<files, request, helper, cp, faults>>

\* ... and takes it.
Rename(c) ==
  LET result == RenameResult("user", rq[c].src, rq[c].dst)
  IN  /\ at[c] = "rename"
      /\ \/ /\ result = "ok" /\ fs' = Renamed(rq[c].src, rq[c].dst)
            /\ Go(c, "ok") /\ UNCHANGED <<request, helper>>
         \/ result = "denied" /\ Elevate(c)
         \/ result = "error" /\ Go(c, "error") /\ UNCHANGED <<fs, request, helper>>
      /\ UNCHANGED <<data, cp, faults>>

\* handle_delete with a password
Delete(c) ==
  /\ at[c] = "delete"
  /\ \/ Exists(rq[c].src) /\ RunSudo(c, rq[c].dst)
     \/ ~Exists(rq[c].src) /\ Go(c, "not found") /\ UNCHANGED <<request, helper>>
  /\ UNCHANGED <<files, cp, faults>>

\* handle_move_copy with a password: resolve the destination, refuse what
\* cannot be done, settle a conflict the way the user chose.
MoveCheck(c) ==
  LET r == rq[c]
      d == Resolve(r.src, r.dst)
      Refuse(answer) == Go(c, answer) /\ UNCHANGED <<request, helper>>
  IN  /\ at[c] = "check" /\ r.op \in {"move", "copy"}
      /\ \/ r.src = d /\ Refuse("bad request")
         \/ r.src # d /\ ~Exists(r.src) /\ Refuse("not found")
         \/ /\ r.src # d /\ Exists(r.src)
            /\ \/ Exists(d) /\ r.strategy = "" /\ Refuse("conflict")
               \/ Exists(d) /\ r.strategy = "rename" /\ RunSudo(c, free_dst(d))
               \/ (Exists(d) => r.strategy = "merge") /\ RunSudo(c, d)
      /\ UNCHANGED <<files, cp, faults>>

\* Slip: exit code 0 is enough for every operation.
ExitCodeOk(c) == hp[c] \in {"ok", "error", "conflict"}

\* What the handler makes of the helper's exit code and output.  The helper
\* exits with 0 unless sudo refuses it or it is killed; put and mkdir ask no
\* more, and for a move or a copy any output with a "dst" is success.
Succeeded(c) ==
  \/ hp[c] = "ok"
  \/ hp[c] = "conflict"
  \/ hp[c] = "error" /\ rq[c].op \in {"put", "mkdir"}

\* Slip: a helper that died is waited for.
CollectOnlyExits(c) ==
  /\ at[c] = "waiting" /\ hp[c] \in HelperOver \ {"killed"}
  /\ Go(c, IF Succeeded(c) THEN "ok" ELSE "denied")
  /\ IF rq[c].op = "put" /\ ~Succeeded(c) THEN DropTmp(c) ELSE UNCHANGED fs
  /\ UNCHANGED <<data, request, helper, cp, faults>>

Collect(c) ==
  /\ at[c] = "waiting" /\ hp[c] \in HelperOver
  /\ Go(c, IF Succeeded(c) THEN "ok" ELSE "denied")
  /\ IF rq[c].op = "put" /\ ~Succeeded(c) THEN DropTmp(c) ELSE UNCHANGED fs
  /\ UNCHANGED <<data, request, helper, cp, faults>>

\* The client goes away while the handler awaits its body or the helper: the
\* future is dropped.  The helper goes on, unless its password is unsent.
Abort(c) ==
  /\ at[c] \in {"body", "waiting"}
  /\ Go(c, "gone")
  /\ hp' \in {hp, [hp EXCEPT ![c] = IF @ = "sudo" THEN "refused" ELSE @]}
  /\ UNCHANGED <<files, request, goal, todo, cp, faults>>

\* The daemon dies with its handlers; its service manager may kill the
\* helpers with it or not.
Restart ==
  LET Cut(c) == at[c] \notin Over \cup {"idle"}
      Running == {c \in Calls : hp[c] \notin HelperOver \cup {"none"}}
  IN  /\ Fault /\ \E c \in Calls : Cut(c)
      /\ at' = [c \in Calls |-> IF Cut(c) THEN "gone" ELSE at[c]]
      /\ \E K \in {{}, Running} :
           /\ hp' = [c \in Calls |-> IF c \in K THEN "killed" ELSE hp[c]]
           /\ cp' = [c \in Calls |-> IF c \in K \/ at[c] = "copying" THEN NoCopy ELSE cp[c]]
      /\ UNCHANGED <<files, request, goal, todo>>

---------------------------------------------------------------------------
\* The helper, with the rights of root.

Become(c, place) == hp' = [hp EXCEPT ![c] = place]
FailIf(c, bad, place) == Become(c, IF bad THEN "error" ELSE place)

\* sudo reads the password and starts the helper, or fails.
Sudo(c) ==
  /\ hp[c] = "sudo"
  /\ Become(c, IF rq[c].pass = "good" THEN First(rq[c].op) ELSE "refused")
  /\ UNCHANGED <<files, goal, todo, cp, faults>>

HelperMkdir(c) ==
  LET result == MkdirResult("root", rq[c].dst)
  IN  /\ hp[c] = "mkdir"
      /\ fs' = IF result = "ok" THEN WithDirs(rq[c].dst) ELSE fs
      /\ FailIf(c, result # "ok", "ok")
      /\ UNCHANGED <<data, goal, todo, cp, faults>>

\* remove_recursive: the source goes, or part of it before an error or the
\* death of the helper.
RemoveSource(c) ==
  LET s == rq[c].src
  IN  \/ fs' = Removed(s) /\ FailIf(c, ~Exists(s), "ok") /\ UNCHANGED faults
      \/ /\ Fault
         /\ \E S \in Removals(s) :
              /\ fs' = Without(S)
              /\ Become(c, "killed") \/ (s \notin S /\ Become(c, "error"))

HelperDelete(c) ==
  /\ hp[c] = "delete"
  /\ RemoveSource(c)
  /\ UNCHANGED <<data, goal, todo, cp>>

\* put: the parent, then copy_file from the temp file.
HelperParent(c) ==
  LET p == Parent(rq[c].dst)
      result == MkdirResult("root", p)
  IN  /\ hp[c] = "parent"
      /\ fs' = IF result = "ok" THEN WithDirs(p) ELSE fs
      /\ FailIf(c, result # "ok", "copy")
      /\ todo' = [todo EXCEPT ![c] = {[from |-> Tmp(c), to |-> rq[c].dst]}]
      /\ UNCHANGED <<data, goal, cp, faults>>

HelperRenameCheck(c) ==
  /\ hp[c] = "check" /\ rq[c].op = "rename"
  /\ FailIf(c, Exists(rq[c].dst), "rename")
  /\ UNCHANGED <<files, goal, todo, cp, faults>>

\* move and copy: the destination, already resolved by the daemon, is
\* resolved once more.
HelperMoveCheck(c) ==
  LET d == Resolve(rq[c].src, final[c])
      conflict == Exists(d) /\ rq[c].strategy = ""
      g == IF Exists(d) /\ rq[c].strategy = "rename" THEN free_dst(d) ELSE d
  IN  /\ hp[c] = "check" /\ rq[c].op \in {"move", "copy"}
      /\ \/ conflict /\ Become(c, "conflict") /\ UNCHANGED <<goal, todo>>
         \/ /\ ~conflict
            /\ goal' = [goal EXCEPT ![c] = g]
            /\ todo' = [todo EXCEPT ![c] = {[from |-> rq[c].src, to |-> g]}]
            /\ Become(c, IF rq[c].op = "move" THEN "rename" ELSE "copy")
      /\ UNCHANGED <<files, cp, faults>>

\* rename(2), which for a move to another device becomes a copy.
HelperRename(c) ==
  LET result == RenameResult("root", rq[c].src, goal[c])
  IN  /\ hp[c] = "rename"
      /\ fs' = IF result = "ok" THEN Renamed(rq[c].src, goal[c]) ELSE fs
      /\ Become(c, IF result = "ok" THEN "ok"
                   ELSE IF result = "other device" /\ rq[c].op = "move" THEN "copy"
                   ELSE "error")
      /\ UNCHANGED <<data, goal, todo, cp, faults>>

\* What read_dir(p) finds once the directories in made are there.
Entries(p, made) ==
  {q \in Paths : Len(q) = Len(p) + 1 /\ Under(p, q) /\ (Exists(q) \/ q \in made)}

\* The entries of the directory that copy_recursive is in, in any order.
Deepest(S) == {e \in S : \A o \in S : Len(o.from) <= Len(e.from)}

\* copy_recursive turns to a directory: makes its counterpart, reads it.
CopyDir(c, e) ==
  LET result == MkdirResult("root", e.to)
      inside == {[from |-> q, to |-> Append(e.to, Name(q))] : q \in Entries(e.from, Prefixes(e.to))}
  IN  /\ hp[c] = "copy" /\ cp[c] = NoCopy /\ IsDir(e.from)
      /\ fs' = IF result = "ok" THEN WithDirs(e.to) ELSE fs
      /\ FailIf(c, result # "ok", "copy")
      /\ todo' = [todo EXCEPT ![c] = (@ \ {e}) \cup inside]
      /\ UNCHANGED <<data, goal, cp, faults>>

\* copy_recursive turns to a file.
CopyFile(c, e) ==
  LET can == IsFile(e.from) /\ CreateResult("root", e.to) = "ok"
  IN  /\ hp[c] = "copy" /\ cp[c] = NoCopy /\ ~IsDir(e.from)
      /\ IF can THEN OpenCopy("root", c, e.from, e.to) ELSE UNCHANGED <<files, cp>>
      /\ FailIf(c, ~can, "copy")
      /\ todo' = [todo EXCEPT ![c] = @ \ {e}]
      /\ UNCHANGED <<goal, faults>>

\* Slip: the copy's error is dropped and the next file taken.
WriteFileQuietly(c) ==
  /\ hp[c] = "copy" /\ cp[c] # NoCopy
  /\ \/ CopyChunk(c) /\ UNCHANGED <<hp, faults>>
     \/ /\ Fault /\ UNCHANGED hp
        /\ cp' = [cp EXCEPT ![c] = NoCopy] /\ UNCHANGED data
  /\ UNCHANGED <<fs, goal, todo>>

WriteFile(c) ==
  /\ hp[c] = "copy" /\ cp[c] # NoCopy
  /\ \/ CopyChunk(c) /\ UNCHANGED <<hp, faults>>
     \/ /\ Fault /\ Become(c, "error")
        /\ cp' = [cp EXCEPT ![c] = NoCopy] /\ UNCHANGED data
  /\ UNCHANGED <<fs, goal, todo>>

\* All is copied: a put drops the temp file, a move removes its source.
Copied(c) ==
  /\ hp[c] = "copy" /\ cp[c] = NoCopy /\ todo[c] = {}
  /\ \/ rq[c].op = "put" /\ DropTmp(c) /\ Become(c, "ok") /\ UNCHANGED faults
     \/ rq[c].op = "copy" /\ Become(c, "ok") /\ UNCHANGED <<fs, faults>>
     \/ rq[c].op = "move" /\ RemoveSource(c)
  /\ UNCHANGED <<data, goal, todo, cp>>

\* The helper dies on the way.
Killed(c) ==
  /\ hp[c] \notin HelperOver \cup {"none"} /\ Fault
  /\ Become(c, "killed")
  /\ cp' = [cp EXCEPT ![c] = NoCopy]
  /\ UNCHANGED <<files, at, request, goal, todo>>

---------------------------------------------------------------------------
Helper(c) ==
  /\ \/ Sudo(c) \/ HelperMkdir(c) \/ HelperDelete(c) \/ HelperParent(c)
     \/ HelperRenameCheck(c) \/ HelperMoveCheck(c) \/ HelperRename(c)
     \/ \E e \in Deepest(todo[c]) : CopyDir(c, e) \/ CopyFile(c, e)
     \/ WriteFile(c) \/ Copied(c)
  /\ UNCHANGED <<at, request>>

\* What a handler does without waiting for its client.
Handler(c) ==
  \/ PutCreate(c) \/ PutParent(c) \/ PutPlace(c) \/ PutCreateTarget(c) \/ PutCopy(c)
  \/ Mkdir(c) \/ RenameCheck(c) \/ Rename(c) \/ Delete(c) \/ MoveCheck(c) \/ Collect(c)

Next ==
  \/ \E c \in Calls : \/ \E r \in Requests : Arrive(c, r)
                      \/ Handler(c) \/ PutBody(c) \/ Helper(c)
                      \/ Abort(c) \/ Killed(c)
  \/ Restart

Spec == Init /\ [][Next]_vars

\* Handlers are tasks of a running runtime, and helpers are processes whose
\* system calls return.  Nothing is asked of clients.
FairSpec ==
  Spec /\ \A c \in Calls : WF_vars(Handler(c)) /\ WF_vars(Helper(c))

---------------------------------------------------------------------------
Begun == {c \in Calls : at[c] # "idle"}
Targets(c) == {final[c]} \cup (IF goal[c] = <<>> THEN {} ELSE {goal[c]})
Touched(c) == {rq[c].src, rq[c].dst} \cup Targets(c)
Meet(P, Q) == \E p \in P, q \in Q : Overlap(p, q)

\* Another call that has begun works on the same part of the tree.
Disturbed(c) == \E d \in Begun \ {c} : Meet(Touched(c), Touched(d))

Holds(p, blob) == IsFile(p) /\ data[fs[p]] = Whole(blob)

Places == Over \cup {"idle", "receive", "body", "parent", "place", "create", "copying",
                     "mkdir", "check", "rename", "delete", "waiting"}
HelperPlaces == HelperOver \cup {"none", "sudo", "parent", "mkdir", "delete", "check", "rename",
                                 "copy"}

\* The variables have their types, and what exists lies in a directory: no
\* operation, of the user or of root, leaves entries without their parent.
TypeOK ==
  /\ fs \in [Paths -> {None, Dir} \cup Inodes]
  /\ \A p \in Paths : Exists(p) => ParentIsDir(p)
  /\ DOMAIN data \subseteq Inodes /\ \A p \in Paths : IsFile(p) => fs[p] \in DOMAIN data
  /\ \A i \in DOMAIN data : data[i] \in [1 .. Chunks -> Blobs \cup {Hole}]
  /\ at \in [Calls -> Places] /\ hp \in [Calls -> HelperPlaces]
  /\ rq \in [Calls -> Requests \cup {None}]
  /\ final \in [Calls -> Seq(Names)] /\ goal \in [Calls -> Seq(Names)]
  /\ todo \in [Calls -> SUBSET [from : Paths, to : Seq(Names)]]
  /\ cp \in [Calls -> {NoCopy} \cup [from : DOMAIN data, to : DOMAIN data, pos : 1 .. Chunks]]
  /\ faults \in 0 .. MaxFaults

\* Call c may put something else in the place of file f.
Replaces(c, f) ==
  \/ rq[c].op = "put" /\ f = rq[c].dst
  \/ rq[c].op = "delete" /\ Under(rq[c].src, f)
  \/ rq[c].strategy = "merge" /\ Under(final[c], f)

\* A file that was there at the start is whole somewhere, unless a call was
\* to replace or delete it, or a second call stored something where the first
\* one took it from or put it: an elevated move removes its source only when
\* all of it has been copied, also when a write fails, the daemon restarts, the helper is
\* killed, or others read or move the same files.
FilesKept ==
  \A f \in InitFiles :
    \/ \E p \in Paths : Holds(p, f)
    \/ \E c \in Begun :
         \/ Replaces(c, f)
         \/ /\ Meet({f}, Touched(c))
            /\ \E d \in Begun \ {c} : Meet(Targets(d), Touched(c))

\* A put that has been answered has no temp file left, but for the one case
\* in which the helper fails after it was started.
NoTmpLeft ==
  \A c \in Begun :
    rq[c].op = "put" /\ at[c] \in Answers /\ hp[c] # "error" => ~Exists(Tmp(c))

\* The effect that success of call c reports.
Done(c) ==
  LET r == rq[c]
      Landed == \A f \in InitFiles : Under(r.src, f) => Holds(goal[c] \o Rel(r.src, f), f)
  IN  CASE r.op = "put" -> Holds(r.dst, Tmp(c))
        [] r.op = "mkdir" -> IsDir(r.dst)
        [] r.op = "delete" -> ~Exists(r.src)
        [] r.op = "rename" -> ~Exists(r.src) /\ Exists(r.dst)
        [] r.op = "move" -> ~Exists(r.src) /\ Landed
        [] r.op = "copy" -> Exists(r.src) /\ Landed

\* The helper exits with 0 after the error of a put or mkdir and the conflict
\* of a move or copy, and the daemon takes that for success.
ToldWrongly(c) ==
  \/ hp[c] = "error" /\ rq[c].op \in {"put", "mkdir"}
  \/ hp[c] = "conflict" /\ rq[c].op \in {"move", "copy"}

\* The second resolution of the destination ends at the source or above it.
OntoItself(c) == rq[c].op \in {"move", "copy"} /\ Under(goal[c], rq[c].src)

\* Success is answered for what was done, as root or not, at the path the
\* answer names, except in these cases.
OkMeansDone ==
  \A c \in Begun :
    at[c] = "ok" /\ ~ToldWrongly(c) /\ ~OntoItself(c) /\ ~Disturbed(c) => Done(c)

\* A call whose body has arrived is answered (or its client goes away),
\* whatever becomes of its helper.
CallsEnd ==
  \A c \in Calls : at[c] \notin Over \cup {"idle", "body"} ~> at[c] \in Over \cup {"body"}
===========================================================================
