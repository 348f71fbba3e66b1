---------------------------- MODULE SelfUpdate ----------------------------
(***************************************************************************)
(* How the two programs are replaced by newer ones: update.sh, started by  *)
(* the webhook of the server, by the timer or by hand; the file mover's    *)
(* scripts/update-file-mover.sh, started by its POST /api/update; and      *)
(* check-update.sh.  They share one checkout and its target directory, and *)
(* end in a restart of a service.  The server's service runs a copy that   *)
(* install-server.sh puts into /usr/local/bin, the file mover's runs the   *)
(* binary where it was built.  A browser tab of the file mover watches the *)
(* commit that the daemon reports.                                         *)
(*                                                                         *)
(* Commits are numbers in the order of the branch.                         *)
(***************************************************************************)
EXTENDS Naturals

CONSTANTS
  Scripts,    \* runs of the scripts
  Pushes,     \* bound on the commits pushed
  Tries,      \* how often the tab polls for the daemon (60 in the code)
  MaxFaults,  \* bound on failed commands and crashes
  None,       \* nothing there
  Unknown     \* the commit of a build without GIT_COMMIT

Programs == {"server", "mover"}
Kinds == {"update", "deploy", "check"}
Commits == 0 .. Pushes
Program(kind) == IF kind = "update" THEN "server" ELSE "mover"

ASSUME NoneAssumption == None # Unknown /\ None \notin Nat \cup Scripts /\ Unknown \notin Nat
ASSUME BoundsAssumption == Pushes \in Nat /\ Tries \in Nat /\ MaxFaults \in Nat

VARIABLES
  remote,  \* the branch at the remote
  head,    \* HEAD of the checkout
  tree,    \* the commit its files are of: during a pull, or after one that was
           \* cut off, this may be one between HEAD and what was fetched
  fetched, \* FETCH_HEAD of the latest pull
  bin,     \* bin[p]: the code in p's binary in target/release, and its GIT_COMMIT
  copy,    \* the server's binary in /usr/local/bin
  run,     \* run[p]: the same of the running, or last running, process
  up,      \* up[p]: the process runs
  script,  \* script[s]: a run of a script
  lock,    \* who holds cargo's lock of the target directory
  tab,     \* the browser tab
  asked,   \* history: the commit the latest accepted server update was for
  faults   \* failed commands and crashes so far

vars == <<remote, head, tree, fetched, bin, copy, run, up, script, lock, tab, asked, faults>>
checkout == <<head, tree, fetched>>
processes == <<bin, copy, run, up>>

Over == {"done", "same", "failed", "killed"}
Alive(s) == script[s].at \notin Over \cup {"unused"}
Unused == [at |-> "unused", kind |-> "check", in |-> "none", saw |-> 0, label |-> Unknown, from |-> 0]
NewTab(commit) == [html |-> commit, known |-> None, wait |-> None, reload |-> FALSE]

Init ==
  /\ remote = 0 /\ head = 0 /\ tree = 0 /\ fetched = 0
  /\ bin = [p \in Programs |-> [code |-> 0, label |-> 0]]
  /\ copy = bin["server"]
  /\ run = bin
  /\ up = [p \in Programs |-> TRUE]
  /\ script = [s \in Scripts |-> Unused]
  /\ lock = None
  /\ tab = NewTab(0)
  /\ asked = 0
  /\ faults = 0

Fault == faults < MaxFaults /\ faults' = faults + 1

---------------------------------------------------------------------------
\* Who starts a script.

Push ==
  /\ remote < Pushes /\ remote' = remote + 1
  /\ UNCHANGED <<checkout, processes, script, lock, tab, asked, faults>>

Launch(s, kind, cgroup, first) ==
  /\ script[s].at = "unused"
  /\ script' = [script EXCEPT ![s] = [Unused EXCEPT !.at = first, !.kind = kind, !.in = cgroup]]

\* The webhook, or the timer (also: an administrator).  A script the server starts
\* stays in the cgroup of its service.
StartUpdate(s) ==
  /\ \/ up["server"] /\ Launch(s, "update", "server", "before")
     \/ Launch(s, "update", "none", "before")
  /\ asked' = remote
  /\ UNCHANGED <<remote, checkout, processes, lock, tab, faults>>

\* The tab's button: POST /api/update, and the overlay that waits.
Button(s) ==
  /\ up["mover"] /\ tab.html # None /\ tab.wait = None /\ ~tab.reload
  /\ Launch(s, "deploy", "mover", "pull")
  /\ tab' = [tab EXCEPT !.wait = 0]
  /\ UNCHANGED <<remote, checkout, processes, lock, asked, faults>>

\* check-update.sh by hand; it ends at once when the daemon is down or
\* reports the commit that is checked out.
Check(s) ==
  /\ Launch(s, "check", "none",
            IF ~up["mover"] THEN "failed" ELSE IF run["mover"].label = head THEN "same" ELSE "pull")
  /\ UNCHANGED <<remote, checkout, processes, lock, tab, asked, faults>>

---------------------------------------------------------------------------
\* The scripts.

Step(s, place) == script' = [script EXCEPT ![s].at = place]

\* Slip: the remote's commit is noted, not the one checked out.
BeforeLate(s) ==
  /\ script[s].at = "before"
  /\ script' = [script EXCEPT ![s].at = "pull", ![s].saw = remote]
  /\ UNCHANGED <<remote, checkout, processes, lock, tab, asked, faults>>

\* update.sh notes HEAD before it pulls.
Before(s) ==
  /\ script[s].at = "before"
  /\ script' = [script EXCEPT ![s].at = "pull", ![s].saw = head]
  /\ UNCHANGED <<remote, checkout, processes, lock, tab, asked, faults>>

\* git pull fetches the branch and writes the files one by one; it fails where
\* another pull is writing, or has left git's lock behind ...
Pull(s) ==
  /\ script[s].at = "pull"
  /\ \/ /\ \A t \in Scripts : script[t].at # "pulling"
        /\ fetched' = remote /\ tree' \in tree .. remote
        /\ Step(s, "pulling")
     \/ tree # head /\ Step(s, "failed") /\ UNCHANGED <<tree, fetched>>
  /\ UNCHANGED <<remote, head, processes, lock, tab, asked, faults>>

\* ... and HEAD is set to the commit when all are, unless it fails before.
Pulled(s) ==
  /\ script[s].at = "pulling"
  /\ \/ /\ tree' = fetched /\ head' = fetched
        /\ Step(s, IF script[s].kind = "update" THEN "compare" ELSE "label")
        /\ UNCHANGED faults
     \/ Fault /\ Step(s, "failed") /\ UNCHANGED <<head, tree>>
  /\ UNCHANGED <<remote, fetched, processes, lock, tab, asked>>

\* update.sh is done when its own pull brought nothing.  (Here and in Built the
\* script forgets what it has no more use for.)
Compare(s) ==
  /\ script[s].at = "compare"
  /\ script' = [script EXCEPT ![s].at = IF head = script[s].saw THEN "same" ELSE "build",
                              ![s].saw = 0]
  /\ UNCHANGED <<remote, checkout, processes, lock, tab, asked, faults>>

\* deploy-file-mover.sh evaluates GIT_COMMIT, then runs cargo.
Label(s) ==
  /\ script[s].at = "label"
  /\ script' = [script EXCEPT ![s].at = "build", ![s].label = head]
  /\ UNCHANGED <<remote, checkout, processes, lock, tab, asked, faults>>

\* Slip: each build has a target directory of its own.
BuildAtOnce(s) ==
  /\ script[s].at = "build"
  /\ lock' = s
  /\ script' = [script EXCEPT ![s].at = "building", ![s].from = tree]
  /\ UNCHANGED <<remote, checkout, processes, tab, asked, faults>>

\* cargo waits for the target directory, then reads the sources ...
Build(s) ==
  /\ script[s].at = "build" /\ lock = None
  /\ lock' = s
  /\ script' = [script EXCEPT ![s].at = "building", ![s].from = tree]
  /\ UNCHANGED <<remote, checkout, processes, tab, asked, faults>>

\* Slip: the commit is read when the binary is written.
LabelOf(s) == head

\* The GIT_COMMIT that is compiled in.
Embedded(s) == script[s].label

\* ... while they may change, and writes the binaries: build.sh those of both
\* programs, without GIT_COMMIT, deploy-file-mover.sh those of the mover.
Built(s) ==
  /\ script[s].at = "building" /\ lock' = None
  /\ \/ /\ script' = [script EXCEPT ![s].at = "restart", ![s].label = Unknown, ![s].from = 0]
        /\ \E c \in script[s].from .. tree :
             bin' = [p \in Programs |->
                       IF p = "server" /\ script[s].kind # "update" THEN bin[p]
                       ELSE [code |-> c, label |-> Embedded(s)]]
        /\ UNCHANGED faults
     \/ Fault /\ Step(s, "failed") /\ UNCHANGED bin
  /\ UNCHANGED <<remote, checkout, copy, run, up, tab, asked>>

\* systemd stops a service: every process of its cgroup is killed.  s is the
\* script that asked for it, if any: systemd goes on without it.
Stop(p, s) ==
  LET cut == {t \in Scripts : Alive(t) /\ script[t].in = p /\ t # s}
  IN  /\ up' = [up EXCEPT ![p] = FALSE]
      /\ script' = [t \in Scripts |-> IF t \in cut THEN [script[t] EXCEPT !.at = "killed"]
                                      ELSE IF t = s THEN [script[t] EXCEPT !.at = "done"]
                                      ELSE script[t]]
      /\ lock' = IF lock \in cut THEN None ELSE lock

\* update.sh restarts the server only when it is active.
Restart(s) ==
  /\ script[s].at = "restart"
  /\ \/ up[Program(script[s].kind)] /\ Stop(Program(script[s].kind), s)
     \/ ~up[Program(script[s].kind)] /\ Step(s, "done") /\ UNCHANGED <<up, lock>>
  /\ UNCHANGED <<remote, checkout, bin, copy, run, tab, asked, faults>>

\* install-server.sh --skip-build, by hand: it restarts nothing.
Install ==
  /\ copy' = bin["server"]
  /\ UNCHANGED <<remote, checkout, bin, run, up, script, lock, tab, asked, faults>>

\* What the ExecStart of p's service names.
Installed(p) == IF p = "server" THEN copy ELSE bin[p]

\* systemd starts p.
Boot(p) ==
  /\ ~up[p]
  /\ up' = [up EXCEPT ![p] = TRUE]
  /\ run' = [run EXCEPT ![p] = Installed(p)]
  /\ UNCHANGED <<remote, checkout, bin, copy, script, lock, tab, asked, faults>>

\* A program fails; its service starts it again (Restart=on-failure).
Crash(p) ==
  /\ up[p] /\ Fault /\ Stop(p, None)
  /\ UNCHANGED <<remote, checkout, bin, copy, run, tab, asked>>

---------------------------------------------------------------------------
\* The tab.

\* Slip: the new commit is remembered and nothing else done.
SeenQuietly == [tab EXCEPT !.known = run["mover"].label]

\* fetchVersion with an answer: a commit other than the first one reloads.
Seen ==
  IF tab.known \notin {None, run["mover"].label} THEN [tab EXCEPT !.reload = TRUE]
  ELSE [tab EXCEPT !.known = run["mover"].label]

\* Every 30 seconds.
FetchVersion ==
  /\ up["mover"] /\ tab.html # None /\ ~tab.reload
  /\ tab' = Seen
  /\ UNCHANGED <<remote, checkout, processes, script, lock, asked, faults>>

\* Slip: the poll is repeated without end.
LaterForever == tab

\* No answer: again after two seconds, 60 times.
Later == [tab EXCEPT !.wait = IF @ < Tries THEN @ + 1 ELSE None]

\* waitForServer: any answer reloads.
WaitForServer ==
  /\ tab.wait # None /\ ~tab.reload
  /\ \/ up["mover"] /\ tab' = [Seen EXCEPT !.reload = TRUE]
     \/ ~up["mover"] /\ tab' = Later
  /\ UNCHANGED <<remote, checkout, processes, script, lock, asked, faults>>

\* location.reload(): the page the daemon serves, or the browser's error page.
Reload ==
  /\ tab.reload
  /\ tab' = NewTab(IF up["mover"] THEN run["mover"].label ELSE None)
  /\ UNCHANGED <<remote, checkout, processes, script, lock, asked, faults>>

\* The user tries again.
Visit ==
  /\ tab.html = None /\ up["mover"]
  /\ tab' = NewTab(run["mover"].label)
  /\ UNCHANGED <<remote, checkout, processes, script, lock, asked, faults>>

---------------------------------------------------------------------------
Work(s) == Before(s) \/ Pull(s) \/ Pulled(s) \/ Compare(s) \/ Label(s) \/ Build(s) \/ Built(s) \/ Restart(s)

Next ==
  \/ Push \/ Install
  \/ \E s \in Scripts : StartUpdate(s) \/ Button(s) \/ Check(s) \/ Work(s)
  \/ \E p \in Programs : Boot(p) \/ Crash(p)
  \/ FetchVersion \/ WaitForServer \/ Reload \/ Visit

Spec == Init /\ [][Next]_vars

\* Scripts run, and the browser runs its timers.  That a service comes up
\* again is not assumed: what was built may not start.
FairSpec ==
  /\ Spec
  /\ \A s \in Scripts : WF_vars(Work(s))
  /\ WF_vars(FetchVersion) /\ WF_vars(WaitForServer) /\ WF_vars(Reload)

---------------------------------------------------------------------------
Labels == Commits \cup {Unknown}
Binary == [code : Commits, label : Labels]
Places == Over \cup {"unused", "before", "pull", "pulling", "compare", "label", "build", "building", "restart"}
Script == [at : Places, kind : Kinds, in : Programs \cup {"none"}, saw : Commits, label : Labels,
           from : Commits]
Tab == [html : Labels \cup {None}, known : Labels \cup {None}, wait : (0 .. Tries) \cup {None},
        reload : BOOLEAN]

\* The variables have their types; cargo's lock is held by the one script that
\* builds.
TypeOK ==
  /\ remote \in Commits /\ fetched \in 0 .. remote /\ tree \in 0 .. fetched /\ head \in 0 .. tree
  /\ asked \in 0 .. remote
  /\ bin \in [Programs -> Binary] /\ run \in [Programs -> Binary] /\ copy \in Binary
  /\ up \in [Programs -> BOOLEAN]
  /\ script \in [Scripts -> Script]
  /\ lock \in Scripts \cup {None}
  /\ \A s \in Scripts : script[s].at = "building" <=> lock = s
  /\ tab \in Tab
  /\ faults \in 0 .. MaxFaults

\* A daemon that reports the commit that is checked out runs its code, which
\* is what check-update.sh concludes: GIT_COMMIT is read before the sources,
\* so pulls and builds of other scripts can only make the label too old.  Its
\* code is newer only where a pull has written files and not yet, or never, set
\* HEAD.
UpToDateMeansSo ==
  up["mover"] /\ run["mover"].label = head => run["mover"].code \in head .. tree

\* No script puts an older program in the place of a newer one, whichever
\* way pulls, builds and restarts of several scripts mix.
NeverOlder == [][\A p \in Programs : run'[p].code >= run[p].code]_vars

Quiet == up["server"] /\ \A s \in Scripts : ~Alive(s)

NoneCut == \A s \in Scripts : script[s].at \notin {"failed", "killed"}

\* When all is quiet, and every script was an update of the server that was
\* neither killed nor failed, the commit the latest was started for is built:
\* one that found its commit pulled already may stop, since another one is
\* still to build it.
UpdateBuilt ==
  Quiet /\ NoneCut /\ (\A s \in Scripts : script[s].at = "unused" \/ script[s].kind = "update")
    => bin["server"].code >= asked

\* What push.sh promises: the server runs that commit.
PushServed == Quiet /\ NoneCut => run["server"].code >= asked

\* A tab that knows which commit its page is of does not stay with it while
\* the daemon runs another one.
TabKeepsUp ==
  \A c \in Commits \cup {Unknown} :
    tab.html = c /\ tab.known = c /\ run["mover"].label # c
      ~> tab.html # c \/ run["mover"].label = c \/ ~up["mover"]

\* The overlay of an update goes away, also when the daemon does not come back.
OverlayEnds == tab.wait # None ~> tab.wait = None
===========================================================================
