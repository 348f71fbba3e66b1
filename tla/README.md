# A TLA+ development of WebDavsZK

This directory holds TLA+ modules that model the concurrent core of WebDavsZK,
TLC configurations that check them on small instances, and TLAPS proofs. All
source references are to the repository (`src/src/autofs.rs` is the file
`src/autofs.rs` of the crate, and so on).

## The system

WebDavsZK is two programs that share a repository.

**nzk-webdavs**, the WebDAV server:

| part | source | state | operations |
|---|---|---|---|
| atomic uploads | `autofs.rs` | the served directory: target files, `*.uploading.nzk_webdavs[.i]` temp files, the SHA-256 xattr; per upload an `AtomicFile` | `open` (parent, checks, temp), `write_bytes`/`write_buf`, `flush` = `commit`, `Drop`; `create_dir`, `remove_*`, `rename` |
| accept loop | `server.rs` `serve`, `shutdown_signal` | the listener, a `JoinSet` of connection tasks | accept, spawn, shutdown signal, drain for 30 s |
| connections | `server.rs` `serve_conn` | none of their own | webhook, authentication, the WebDAV handler |
| authentication, TLS, configuration, logging, start-up | `auth.rs`, `tls.rs`, `config.rs`, `logging.rs`, `main.rs` | none that changes while serving | sequential |

**file-mover**, a daemon with a two-panel web UI on top of the mounted drives:

| part | source | state | operations |
|---|---|---|---|
| jobs | `bin/file-mover.rs` | the registry `JOBS`, the file trees of the drives | move, copy, delete: resolve and check, dedupe and register, walk, whole-tree rename, pool of threads, clean-up; status |
| search | `bin/file-mover.rs` | the registry `SEARCHES` | start, walk, poll |
| small handlers | `bin/file-mover.rs` | the file trees | ls, mkdir, put, rename |
| sudo helper | `bin/file-mover-sudo.rs`, `sudo_run` | the file trees | the same operations as root, in a process per request |
| web UI | `tools/file-mover/index.html` | panels, poll timers, the active search | drives all of the above |
| self-update | `POST /api/update`, the server's webhook, `update.sh`, `check-update.sh`, `scripts/`, `install-server.sh` | the checkout, the binaries, the copy in `/usr/local/bin`, the running code | pull, build, install, restart; the tab that watches the daemon's commit |

How they interact. Clients of the server send requests on several connections
at once; each runs as its own task, so two requests interleave at every system
call, and the only state they share is the file system (and `dav-server`'s
lock table). systemd starts and stops the server with SIGTERM, and SIGKILL
after `TimeoutStopSec`. The UI talks to the daemon over HTTP; every job runs on
a blocking thread with a pool of up to eight more, shares the registry with
the handlers under a mutex, and shares the drives with everybody. The drives
are usually mounts of WebDAV servers, so other writers are always about.

What is hard here: file-system operations go by *name*, while other tasks
change what names refer to; checks (`exists`) and the acts that rely on them
are separate calls; crashes and restarts run no destructors; a signal and an
accepted connection race in one `select!`; a job is a long run of small steps
over a snapshot that grows stale.

What makes each part correct:

- *Uploads.* A reader finds an old file or a whole new one. An upload never
  touches another one's temp file, and leaves none behind unless the process
  dies. The answer is true. Every upload ends whose client goes on sending or
  goes away.
- *Shutdown.* What was under way at SIGTERM and fits the grace period is not
  cut; the drain ends, and it ends before systemd loses patience.
- *Jobs.* No file is lost, whatever fails, restarts or races. The registry
  never runs one move twice. No two threads work on one file. Progress and
  "done" mean what they say. Every job ends.
- *Search.* Below the cap nothing is missing; a list marked as truncated is;
  the page stops polling, and shows a search to its end.
- *Elevation.* Whatever becomes of the helper and of the client, no file is
  lost that was not to be replaced; a put cleans up after itself; success is
  answered for what was done; every call is answered.
- *Self-update.* What reports a commit is of that commit (or of the newer files of a
  pull under way); nothing goes back to an older version; what was asked for is
  built, and runs; the tab follows.

## The modules

| module | models |
|---|---|
| `AtomicUpload` | `autofs.rs`: PUTs, and the DELETE, MOVE and MKCOL of other clients |
| `AtomicStore` | the abstract specification of the above: names refer to whole files, a PUT takes effect in one step |
| `ServeLoop` | `serve`, `shutdown_signal`, and systemd's stop sequence |
| `Mover` | `handle_move_copy`, `handle_delete`, `run_job`, `run_delete_job` |
| `Elevation` | put, mkdir and rename of the daemon, and every operation of `file-mover-sudo.rs` |
| `Search` | `walk_search` to `handle_search`, and the search box of the page; which entries a query matches (`parse_search_query`) is the constant `Matching` |
| `SelfUpdate` | the update scripts, the services they restart, and the tab that waits |
| `PathNames` | paths as sequences of names, for `Mover`, `Elevation` and `Search` |
| `AtomicUploadProofs`, `ServeLoopProofs`, `MoverProofs`, `ElevationProofs`, `SearchProofs`, `SelfUpdateProofs` | the theorems about the module of that name |
| `ElevationDone` | the theorems about what `Elevation` answers and which files it keeps, on top of `ElevationProofs` |
| `PathProofs` | lemmas about the operators of `PathNames`, for the proofs of the three modules that use it |
| `MCAtomicUpload`, `MCServeLoop`, `MCMover`, `MCElevation`, `MCSearch` | small instances for TLC |

Operators whose comment begins with "Slip:" are not part of a specification.
Each is what one definition would be after a plausible mistake, and serves to
show that the property it is paired with in `PROJECT.json` notices.

### AtomicUpload

One directory, its target names (`files`) and, per target, the temp names
`create_temp` tries (`temps`). An upload creates one file that only its own
descriptor writes, so the upload also names the inode; `data` counts the
chunks in it. `written`, `hashed` and `committed` are the fields of
`AtomicFile`, `slot` is the loop index of `create_temp` and afterwards stands
for `temp_path`; `pc` says which part of the handler comes next:

| action | code |
|---|---|
| `EnsureParent`, `CheckTarget` | `open`, lines 95-127; the checks are one step because nothing after them relies on their order with other tasks, only on how long they are out of date at the rename |
| `TryTemp` | one iteration of `create_temp`; an exclusive create decides |
| `WriteChunk` | `write_bytes` and `write_buf`: a failed write still counts in `written` |
| `Flush` | `commit` to the end of its blocking closure: checksum, fsync, size, rename |
| `SetXattr` | `set_xattr_sha256`, by name, after the rename |
| `Drop` | `Drop for AtomicFile`, by name |
| `Abort` | the client goes away: the handler's future is dropped while it waits for a body frame |
| `Remove`, `Rename`, `CreateDir` | requests of other clients on the target names, each a system call or two of `LocalFs` |
| `RemoveTemp`, `RemoveParent`, `RenameParent` | DELETE of the directory itself, which removes its entries one by one (targets by `Remove`, temp files by `RemoveTemp`) and then the empty directory, and its MOVE, which takes all at once |
| `Crash` | the process dies; a restarted server serves the uploads still to come |

The steps of a handler are divided into those that wait for nobody (`ServerStep`)
and those that wait for the client's body (`BodyStep`). What other clients do is
constrained by `SparesTemps`: they leave the temp names of running uploads
alone (see the assumptions), also as part of a directory; stale ones are theirs to
remove.

The free-space check can come out either way, since other writers use the
disk. A request declares no size, the right one or a wrong one
(`X-Expected-Entity-Length`), and a checksum that is absent, skipped, right or
wrong: nothing else of a body's contents matters.

`AtomicStore` has neither temp names nor retries nor destructors. The refinement maps
`files` to `store` and the phases of an upload to what its client can know;
`StoreSpec` is then a property of `AtomicUpload`.

### ServeLoop

Time passes in ticks of five seconds, and what the runtime can do at once it does before the
next tick (`Urgent`). `notified` is the pending `shutdown_signal()` future
having seen a signal: the future is created anew in every iteration, so it is
reset by `Accept`, and a signal outside `select!` reaches nobody. `owed` is a
history variable: what a request under way at SIGTERM still needs, if that
fits the grace period.

### Mover

The file system maps paths (sequences of names, the drive first) to nothing,
a directory or an inode; an inode holds a "blob" (the path under which the
file first appeared) or `Partial`, while a copy is being written. Jobs are
identified by the call that started them. `call` follows the handler,
`phase` follows `run_job`, `wk` each thread of its pool, `next` is the shared
index, `files` and `dirs` the walked snapshot; `status`, `total`, `done` and
`errs` are the fields of `Job`.

Steps are system calls where others can come between them: the walk, the
`exists` test and the whole-tree rename, making the directories, taking an
index, a rename, opening the source, creating (truncating) the target, writing
it (`WriteCopy`), removing the source (`Unlink`; `DeleteFile` in a delete), and the
final `remove_dir_all` or bottom-up `remove_dir`s. The walk, the making of the
directories and the removal of a tree are one step each for other calls: they are
loops of idempotent calls, and the races that matter are those before and after
them. A removal can fail half-way all the same: `Removals` are the parts of a tree
that can then be gone, and `stuck` in `EndDelete` the directories that will not
go. `copy_file` opens its source and only then creates the target; the open
succeeds for a directory too (`from` is 0), whose read then fails and leaves a
stump. `Drive` stands for `path_drive`, which compares names below the mounts
and does not see which mount it is: where two devices pass for one drive, a rename is
tried and ends with EXDEV (`OtherDevice`). `Arrive` and `ArriveDir` are other
writers of the share. `faults` bounds I/O errors; `Restart` loses the registry
and the threads and keeps the files.

### Search

The daemon's half: `searches` is the registry, and `walk` the recursion of
`walk_search` as the set of entries that the directories on the way have still
to visit; those of the innermost one, the longest paths, come first, in any
order (`Deepest`). `Visit` is one turn of the loop, in which the cap is met in two
ways: a match beyond it marks the record and ends its directory, and a
directory entered at the cap is skipped in silence (`Frame`). The page's half: a
call of `doSearch` is a POST (`post`), the object that `activeSearch` may refer
to, and a chain of polls (`poll`); a chain keeps the object it asked for (`of`)
across its `await`, and takes up whatever is active when its timer fires.
Answers arrive in any order. `over` is a history variable: the calls the user
has turned away from, or that failed. A restarted daemon numbers its searches from
1 again.

### Elevation

The file system of `Mover` with owners and contents: an inode is named by who
created it, in which call and where; `data` gives its chunks, each of the blob
it came from. Below a directory in `Protected` only root may create, rename or
remove, and only root may truncate what root created. A call is a handler
(`at`, with its place or its answer) and, where the password comes with the
request, a helper process (`hp`); the two know nothing of each other but the exit code
and the output.

| action | code |
|---|---|
| `PutCreate`, `PutBody` | the temp file in /tmp, which an error of the body removes and a vanished client does not (`Abort`) |
| `PutParent`, `PutPlace` | `create_dir_all` with its result ignored, then the rename |
| `PutCreateTarget`, `PutCopy` | on another device the target is truncated and written chunk by chunk |
| `Elevate` | the refusal with `elevation`, or `sudo_run` |
| `Mkdir`, `RenameCheck`, `Rename`, `Delete`, `MoveCheck` | the other handlers: checks and system calls apart |
| `Collect` | what the handler makes of the helper's end (`Succeeded`) |
| `Sudo` | the password accepted or not |
| `HelperMkdir` to `Copied` | `run` of the helper, with the rename that becomes a copy on another device, `copy_recursive` as the set of what it has still to visit (`todo`), the innermost directory's entries first, and the removal of the source at the end (`RemoveSource`), whole, or in part before an error or the helper's death |
| `Abort`, `Killed`, `Restart` | the client goes away, the helper dies, the daemon dies with its helpers or without them |

`create_dir_all` is one step, and so is a `remove_dir_all` for the other calls; it can
end with a part of the tree gone (`Removals`), in an error or with the helper's
death. `Paths` is
what the drives can hold: a system call that would make any other path fails,
as it does for a name that is too long. Requests are the ones the page sends:
names without slashes, no protected directory itself, and nothing in the temp
directory (`Destinations` is where a request can end, after the daemon and the
helper have resolved it). Moves, copies and deletes without a password are jobs.

### SelfUpdate

Commits are numbers. The one checkout that all scripts share has its `head` and its
files (`tree`, as the newest commit any of them is from); `bin` are the binaries in
`target/release` (the code compiled in, and the GIT_COMMIT it was compiled with),
`copy` is the server's in `/usr/local/bin`, `run` what runs. A run of a script moves
through `before` (HEAD noted), `pull`, `pulling`, `compare` or `label`, `build`,
`building`, `restart`. A pull takes two steps: it fetches the remote's commit
(`fetched`) and starts to write files (`Pull`), and sets HEAD when all are written
(`Pulled`), or fails in between and leaves git's lock behind. A build holds cargo's
lock on the target directory and reads `tree`, any state of it while the build runs,
those inside a pull included. A script that a service started lives in its cgroup
and dies when the service stops; the one that asked for the stop has nothing left to
do but print. The tab has the commit its page was served with (`html`), the one it
compares with (`known`), the count of `waitForServer`, and a pending reload. `asked`
is a history variable: the commit at the remote when the latest update of the server
was started.

## The runs

| run | expected | shows |
|---|---|---|
| `upload_safety` | holds | `TargetWhole`, `OwnTemp`, `NoLitter`, `ReplyTruthful`, and the refinement of `AtomicStore`: two uploads, two targets, two temp names, and DELETE and MOVE of the directory |
| `upload_ends` | holds | `UploadEnds` (and the types), of every upload whose own client goes on or goes away, whatever another one's does; with `--create-parents` off, fsync off and a single temp name, so that uploads are refused for want of one |
| `upload_sha` | violated | "Every upload's SHA-256 is recorded on the file" (README) is not so for two PUTs of one name |
| `mover_jobs` | holds | two of six requests at once on two drives and on a device that passes for one of them, with an I/O error and restarts: `OneJobPerSource`, `DistinctFiles`, `NothingLost`, `ProgressExact`, `DoneMeansDelivered` |
| `mover_obstacles` | holds | `NothingLost` and `DoneMeansDelivered` with deletes under a running move, a directory in the place of a file, a file where a directory must go or that arrives too late for the check, a numbered copy; and `JobEnds` |
| `mover_nested` | violated | a folder moved into its own subfolder is lost |
| `serve_drain` | holds | `GraceKept`, `DrainBeatsKill`, `DrainEnds`, with the 30 s of the code and the 35 s of the unit in ticks of five seconds |
| `serve_lost` | violated | a SIGTERM that meets an accept is forgotten, and systemd has to kill the server |
| `search_shown` | holds | `CompleteBelowCap`, `TruncatedMeansMore`, `PollingStops`, `AloneShown`: two searches, of queries with more, as many and fewer results than the cap, a directory that cannot be read, one lost request or restart |
| `elevate` | holds | any two of nineteen requests, one fault, which may cut off a removal half-way: `FilesKept`, `NoTmpLeft`, `OkMeansDone`, and `CallsEnd` |
| `self_update` | holds | two runs of the scripts, whose pulls take two steps, two commits, one fault, a tab: `UpToDateMeansSo`, `NeverOlder`, `UpdateBuilt`, `TabKeepsUp`, `OverlayEnds` |
| `update_lost` | violated | `update.sh` builds the new server and restarts the old one, which the service starts from `/usr/local/bin` |

The violated properties are statements of the repository's comments and README;
`PROJECT.json` quotes each one with its line.

**Bounds.** Two uploads are the smallest number that race, and every hazard of the
upload path is one of two: a commit against a destructor, a commit against a commit,
an upload against what a crashed one left. Two targets let a MOVE exchange files.
Two temp names (16 in the code) make the loop of `create_temp` pass over a name that
another upload holds or a crash has left; a single one, in `upload_ends`, makes it
give up. Two chunks give a body a middle. In `Mover`, two jobs, two threads and
trees of two files are the least with which threads share work, finish in either
order and leave a tree half moved; one fault is put at every place, inside a removal
too. A third device, `lda`, stands for `sda` by way of the other mount. `MaxInodes`
is large enough that an inode is always to be had: at any time fewer are in use than
there are paths that hold files plus two for each thread; when none is left, `Mover`
does not take the step that needs one. In `ServeLoop`, a tick is five seconds: a
grace period of six ticks, a stop time-out of seven and requests of one to seven
ticks give requests that fit, just fit and do not fit the 30 s of the code. In
`Search`, one query has more matches than the cap of two, one as many, and one fewer
and a match that cannot be reached, in a tree with a directory that matches and one
that cannot be read; two calls are the least that disturb each other. In
`Elevation`, two calls, two drives with a directory of root's on each, two chunks
and one fault put every step of one request between any two of another, and the
failure at every place; the tree of two files, moved to the other drive, can be half
copied when it happens. In `SelfUpdate`, two runs of scripts race for the checkout,
for cargo's lock and for the restart, and two commits let one script pull what
another one is building; `Tries` is 1 (60 in the code), so that the tab gives up as
well. The theorems below lift all of these bounds for the safety properties they
state.

**Fairness.** `AtomicUpload!FairSpec` asks for weak fairness of what an upload's handler
does of itself (`ServerStep`): it is a task of a multi-threaded runtime, and its
file operations are blocking calls that return. Nothing is asked of the client, because the
server does not limit the time of a body, an idle connection or a write
(src/src/server.rs:12-16, src/README.md:29): a client that stays connected and
silent holds its upload for ever, and TCP keep-alive ends dead peers only. That the
client goes on or goes away (`WF_vars(BodyStep(u))`) is therefore a hypothesis of
`UploadEnds`, for the one upload it speaks of. `Mover!FairSpec` asks that the threads
of a job keep running; nothing is assumed of the handlers or of other writers.
`ServeLoop!FairSpec` asks that the server does what it can, that systemd does
send SIGKILL, and that time passes. `Search!FairSpec` asks that walks go on,
that requests which are not lost are answered, and that the browser runs the
callbacks; nothing is asked of the user. `Elevation!FairSpec` asks that handlers
and helpers, which are tasks and processes of a running system, go on where
they do not wait for a client. `SelfUpdate!FairSpec` asks that scripts go on
and that the browser runs its timers; a service need not come up
again, and nobody has to push, update or look. No strong fairness is used.

`CHECK_DEADLOCK FALSE` appears where the system really stops: the process has
exited, or every request of the small instance has been answered.

## What is proved

The theorems hold for every value of the constants that satisfies the
assumptions the modules state: the special values (`None`, `Dir`, `Unknown`)
are none of the values they stand beside, bounds are numbers, the trees at the
start are trees, requests are requests. Further assumptions are named below.
TLC evaluates all of them in every run. Each safety property has an inductive
invariant, which a run of TLC was made to check before it was proved; the proofs
have one step or lemma per action, and each leaf cites the conjuncts it uses.

| module | theorem | states |
|---|---|---|
| `AtomicUploadProofs` | `UploadTypes`, `UploadsWhole`, `TempsNeverStolen`, `OnlyCrashesLitter`, `RepliesTruthful` | `Spec => []P` for `TypeOK`, `TargetWhole`, `OwnTemp`, `NoLitter`, `ReplyTruthful` |
| | `ImplementsStore` | `Spec => StoreSpec`, the refinement of `AtomicStore` |
| `ServeLoopProofs` | `ServeTypes`, `TransfersGetTheirGrace`, `DrainEndsBeforeKill` | `TypeOK`, `GraceKept`, `DrainBeatsKill` |
| `MoverProofs` | `MoverTypes`, `OneJobEach`, `FilesTakenOnce`, `ProgressIsExact` | `TypeOK`, `OneJobPerSource`, `DistinctFiles`, `ProgressExact` |
| `SearchProofs` | `SearchTypes`, `SearchIsComplete`, `TruncatedIsTrue` | `TypeOK`, `CompleteBelowCap`, `TruncatedMeansMore` |
| `ElevationProofs` | `ElevationTypes`, `NoTmpStays` | `TypeOK`, `NoTmpLeft` |
| `ElevationDone` | `OkTold`, `FilesKeptApart`, `FilesOutOfReach` | `OkMeansDone`, `KeptApart` (`FilesKept` of the files on which one call works at a time), `OutOfReach` |
| `SelfUpdateProofs` | `UpdateTypes`, `ReportedMeansRunning`, `NothingGoesBack`, `AskedIsBuilt` | `TypeOK`, `UpToDateMeansSo`, `NeverOlder` (an action property), `UpdateBuilt` |

**AtomicUpload.** None of its properties is inductive. `TargetWhole` says what a
file under a target name holds, and the rename takes it from a temp *name*: that
the name still refers to the upload's own file is what must be known. The
inductive invariant `UploadInv` therefore says, of each upload: while it is past
`create_temp` and uncommitted, its temp name refers to its own file (`HasTemp`);
a temp file lies under a temp name of its own target, at its own index, and its
upload is past creation and uncommitted (`TempsPlaced`); as long as no write has
failed, the chunks on disk, the chunks counted and the chunks hashed agree
(`CountersAgree`); and the file under a target name is whole (`FilesWhole`).
`Requested` and `EmptyWithoutParent` add that a running upload has a request
and that a missing directory is empty. `TempsPlaced` gives that no two uploads
share a temp name, so that a rename or a removal by name hits the upload's own
file. `ReplyInv` adds what answers have to do with `replaced` and is preserved
on top of `UploadInv`. For the refinement, each action is shown to be, under the
mapping of `files` and `Status`, one step of the store or none: only the rename
of `Flush` publishes, only the destructor of a committed upload acknowledges,
and a crash loses the answer of those under way; that the published file is the
upload's own is `HasTemp` once more.

**ServeLoop.** `ServeInv` says that what a request owed grace still needs, added
to the time since SIGTERM, never exceeds the grace period (`DebtFits`), and that
a drain begins in the tick of the signal or not at all (`DrainsAtOnce`), because a
future that has seen the signal is acted upon before time passes. So nobody is
owed anything when the deadline comes, and the deadline lies before SIGKILL if
the grace period is the shorter one of the two. Nothing in the code relates the
two numbers, so `GraceFits` is a hypothesis of `TransfersGetTheirGrace` and
`DrainEndsBeforeKill`, not an assumption of the module; the run has the numbers of
the two files, and fails with a `StopTimeout` of six ticks. What the two theorems say
is no more than this: `GraceKept` is about the requests under way at
SIGTERM that fit the grace period, while no accept fails; `DrainBeatsKill` is about a
drain that has begun, which it need not (`serve_lost`).

**Mover.** `MoverInv` says that a call is in the registry only after the check
that one lock makes one step with its registration (`Registered`,
`OneJobPerSource`), and keeps the pool's books (`WorkersPlaced`, `Accounts`): of
the indices a pool has handed out, each is held by exactly one thread or has been
counted, so that with as many as the list is long, none held and all threads out,
`done_files` is the total. A listing of a finite set has every element once
(`ListingProps`); the destinations a request can be resolved to are assumed to be
paths of the model.

**Search.** `RunInv` relates what a record holds to what its walk has still to
visit: below the cap, every reachable match that is not recorded lies at or
below a pending entry; no pending entry lies below another one or above a
recorded match, so nothing is recorded twice; a record is marked only at the cap with a
match left out. The theorem is about every tree, every order of its entries, and
directories that cannot be read.

**Elevation.** A call works under the destinations that its request can be
resolved to (`CallInv`: the one the daemon took, the one the helper took, the
targets of all that is still to copy), and `RequestsAssumption` keeps those off
the temp files. So a temp file is made and removed by its own call only, lies in
a directory that stays (`TmpsPlaced`), and is there as long as the handler
needs it (`TmpInv`). And a helper runs only while its handler waits for it or is
gone, so that nothing happens once the call is answered. `TypeOK` contains the
part that is not about types: every entry lies in a directory. `DirsMade`,
`TreeRemoved`, `TreeRenamed` and `FileCreated` show that each system call keeps
this; for a rename, that the parent of what is moved is moved with it
(`Grafted`, about paths alone).

`ElevationDone` puts `DoneInv` on top of this. Contents go through names and through
inodes, so that it does not suffice to know what a call does to paths. The *reach* of a
call is its temp file and whatever lies at or below the paths it works on; `Local` says
what one step of a call may do: change the tree within its reach, or make directories
above it; and write to a file only that it made, found within its reach or was
copying to already. Every action is shown to be such a step. So files that are not
where they were lie within the reach of some call (`FilesPlaced`), copies go to such files
only (`CopiesTraced`), and a file out of everybody's reach is whole (`OutOfReach`,
which is the theorem `FilesOutOfReach`). The reach of a call that nobody disturbs meets no
other one's; hence the files there are its own, and no other call writes to them (`OwnFiles`).
What remains is about one call alone. `Progress` and `FreeName` say how far handler and helper have
come; `Kept` that the sources are there until the last step takes them; `CopyInv` that every
file of the source has been copied, is being copied, or lies below something still
to visit, so that with nothing left to visit all of it has been copied; `InPlace` that
no two names stand for one file before a rename, so that a copy does not truncate its
source. `FinishedDone` is the property, from the moment the work is over instead of
the answer. A directory copied into itself needs care: `CopyInv` would be false, but such a
copy always has more to visit and so never finishes (last line of `Progress`).

`SafeInv`, on top of `DoneInv`, is about the files that a call which nobody disturbs
is not to replace, and leads to `FilesKeptApart`. Until a move or a copy has settled its
destination, all files within its reach are in place (`NothingYet`): so the look of
`free_dst` and of the helper for what is there sees what was there at the start, and
at or below the destination that it settles on lies nothing but what the call is to
replace (`GoalChecked`). What is copied is copied there only (`WritesThere`). So any other
file within the reach is in place as long as the call works (`Intact`); and where the
last step renames or removes the source, each file of it has come with the rename, or
`CopyInv` says that it has been copied. The removal may be cut off, so that the call ends
(`Ended`) with an error or a dead helper and a part of its source gone: then too every
file is whole, at its source or at its copy. `Overwrites` adds one case to
what the user asked for: `free_dst` returns the last name also when that one is taken.

**SelfUpdate.** `UpdateInv` puts every code in use on a chain (`Chain`): running,
installed, built, read by a build under way, in the files of the checkout, each not
newer than the next, and HEAD not newer than those files. A build may end with any
state of the files it was there for, so `NeverOlder` needs that it began with one
not older than what is built, and this holds because cargo's lock lets only one
build write binaries at a time (in `TypeOK`). `LabelsOld` says that a GIT_COMMIT is
not newer than the code it comes with, because it is read before the sources are;
when it equals the checkout's HEAD, the chain leaves the code no choice but HEAD or
the files of an unfinished pull. For `UpdateBuilt`, `BuildInv` adds that, as long as
all scripts are updates of the server and none is cut short, what is checked out is
built or some script is still to build it (`HeadCovered`), and what was asked for is
checked out or some script is still to pull it (`AskedCovered`).

Only model-checked:

- the liveness properties (`UploadEnds`, `DrainEnds`, `JobEnds`, `PollingStops`,
  `AloneShown`, `CallsEnd`, `TabKeepsUp`, `OverlayEnds`): reasoning about fairness
  and ENABLED is not in the prover's reach;
- `NothingLost` and `DoneMeansDelivered` of `Mover`, `FilesKept` of `Elevation`: they
  follow contents through trees that several calls work on.
  `NothingLost` is not true of all requests (the run `mover_nested`), nor is
  `FilesKept` of more than two calls or when numbers run out (see below), so
  that a theorem needs hypotheses that describe which requests meet. `FilesOutOfReach`
  and `FilesKeptApart` are the part of `FilesKept` that holds for any number of calls: the
  files that no request can reach, and those on which one call works at a time. They
  say nothing of a file on which two calls work; there
  `FilesKept` says more, of two calls: that one of them must store something where the
  other works (`Targets`) before a file can be lost.

## Assumptions and limits

- Clients leave the temp names alone. They are ordinary names of the share; if
  a client deletes or moves the temp name of an upload under way, a second
  upload of the same target can create its own temp under that name, and the
  first one's rename publishes a half-written file. `TargetWhole` and
  `OwnTemp` do not hold without the assumption (`SparesTemps`). It covers the DELETE
  and the MOVE of a whole directory in which an upload is running, which take its temp
  file too; temps that a crash has left may go either way.
- A client that stays connected and falls silent in the middle of a body holds its
  upload, with its temp name, for ever; `UploadEnds` is about the others.
- A stale temp of a crash is never removed. When all 16 names of a target are
  taken, uploads to it are refused; they are refused truthfully, and the model
  shows nothing worse.
- `rename(2)` is atomic and a crash of the process loses nothing that was
  written. Power loss and the role of `fsync` are not modelled: with fsync the
  model only adds one more way for `commit` to fail.
- The whole directory is on one file system, so a temp and its target are.
- A removal that succeeds is one step for other calls, in `Mover` and `Elevation`: what
  another call adds to a tree while it is being removed is not modelled.
- No request of the runs of `Mover` moves a file out of a tree between its walk and the
  rename of the whole tree; deletes, merges and arrivals in between are checked.
- `Mover` lets other writers store files at destinations, not in a tree that is
  being moved to another drive: such a file, added after the walk, goes with the source tree
  (`remove_dir_all`), and `NothingLost` does not hold.
- The tree does not change during a search, and a search that reaches its cap
  may be incomplete without saying so: `TruncatedMeansMore` is one direction only.
- Accept errors end the server (`AcceptFails`): `GraceKept` excludes them,
  because nothing is drained then at all.
- `If-None-Match: *` is decided when an upload begins: of two such PUTs of one
  name both can be answered with success, and the second file stays.
- Two moves of equally named files into one folder can both find the name
  free; the second rename replaces the first file. Two copies with one target
  write one inode at once.
- With two searches under way, the answer to an old poll can make the page
  forget the new one, whose list then stays unfinished; `AloneShown` speaks of
  searches that no other one disturbs.
- A client that goes away during a put leaves its temp file in /tmp. So does a
  helper that fails after it was started (`NoTmpLeft` exempts it), although it
  leaves the only whole copy of the body there.
- The helper exits with 0 after an error, and its conflict answer has a "dst".
  put and mkdir answer success after an error, move and copy after a conflict
  that arose between the daemon's check and the helper's (`ToldWrongly`).
- The helper resolves a destination that the daemon has resolved: an elevated merge
  of a folder into an existing one makes `dst/name/name`. No request of `elevate`
  merges into a folder that was there before, so that the run does not show it. The
  second resolution can end at the source or at a directory above it, as when
  `a/n/n` is merged into the directory of `a`, which has an `n`: the helper then
  copies the file onto itself, which truncates it, or renames it to itself, and
  exits with 0. `OkMeansDone` exempts this (`OntoItself`).
- A put to another device truncates the old file first; when the copy fails,
  the old file is gone and the new one incomplete. `FilesKept` lets a put replace its
  target.
- Two elevated operations are not kept apart by any registry; `FilesKept` and
  `OkMeansDone` do not speak of calls that store something where another one
  works. `FilesKept` is about two calls: of three, one can rename a file, the second
  rename it again, and the third replace it under its last name, which is what
  was asked for but meets none of the exemptions.
- `free_dst` gives up after 999 and returns a name that is taken: an elevated copy
  with the strategy "rename" then truncates that file. The instance has a free number.
- No request works on temp files of puts (in /tmp), or on a directory above
  them.
- `update.sh` is taken to be what the webhook is set to run, with the rights to
  build and to restart; the default of the option, `scripts/update.sh`, does not exist.
  When the file mover's scripts have pulled a commit, `update.sh` finds nothing new and
  never builds it, likewise after a failed build: `UpdateBuilt` is about runs of
  `update.sh` alone.
- A build during a pull reads files newer than HEAD, so that a daemon can be newer
  than the commit it reports until that pull is through, or for good if it fails;
  `UpToDateMeansSo` says so.
- The tab takes the answer of a daemon that has not been stopped yet for
  "back online" and reloads the old page; it reloads again (`TabKeepsUp`)
  when it sees the new commit. A daemon that is replaced between a reload and the page's first
  question is not noticed: the page then takes the new commit for its own.
- `systemctl restart` of a file mover that is down starts it; in the model it
  is started by `Boot`, which may happen at any time.

Not modelled, and why: partial PUTs, COPY and `--atomic-writes=false`
(`LocalFs` of `dav-server` writes in place and promises nothing of the kind);
the lock table of `dav-server` (a library); authentication, TLS, configuration
and logging (sequential, without shared state); symbolic links in `Mover`
(planned); directory and byte counters and the list of current files (display);
`launch.sh`, which pulls and builds before it starts a server in the foreground,
and the first installation (sequential, run by hand); ls and status (they read).

## Plan

Done: all modules of the first plan, and the theorems above. Next, in this
order:

1. `Mover`: `DoneMeansDelivered` for jobs whose trees no other job touches,
   along the lines of `ElevationDone`: what a thread writes lies within the reach of its job.
2. `Mover` extended with symbolic links and with copies that meet in one target.
3. The calendar arithmetic of `logging.rs` against a reference definition.
