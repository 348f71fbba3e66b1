---------------------------- MODULE ServeLoop -----------------------------
(***************************************************************************)
(* The accept loop of the WebDAV server and its shutdown (serve,           *)
(* serve_conn and shutdown_signal in src/src/server.rs), under a service   *)
(* manager that sends SIGTERM and, TimeoutStopSec later, SIGKILL           *)
(* (src/deploy/nzk-webdavs.service).                                       *)
(*                                                                         *)
(* Time passes in ticks; everything the runtime can do at once it does     *)
(* before the next tick.  Connections run in tasks of their own and hold a *)
(* request for any number of ticks: there is no read or write timeout.     *)
(***************************************************************************)
EXTENDS Naturals

CONSTANTS
  Conns,        \* client connections
  MaxRequest,   \* bound on the ticks a request takes
  Grace,        \* the drain's grace period (30 s)
  StopTimeout   \* TimeoutStopSec (35 s)

ASSUME GraceAssumption == Grace \in Nat /\ StopTimeout \in Nat
ASSUME RequestAssumption == MaxRequest \in Nat \ {0}

\* The two limits are set in two files, server.rs and nzk-webdavs.service, and
\* nothing in the code relates them: what needs this says so.
GraceFits == Grace < StopTimeout

VARIABLES
  loop,      \* where serve is
  notified,  \* the pending shutdown_signal future has seen a signal
  conn,      \* conn[c]: the state of connection c
  left,      \* left[c]: ticks its current request still needs, 0 if idle
  owed,      \* owed[c]: history: of those, what a request running at SIGTERM
             \*   needs, if it fits the grace period
  term,      \* SIGTERM has been sent
  since,     \* ticks since SIGTERM
  drainAt    \* `since` at the start of the drain

vars == <<loop, notified, conn, left, owed, term, since, drainAt>>

TypeOK ==
  /\ loop \in {"select", "handling", "drain", "exited", "failed", "killed"}
  /\ notified \in BOOLEAN
  /\ conn \in [Conns -> {"none", "backlog", "open", "closed", "cut"}]
  /\ left \in [Conns -> 0 .. MaxRequest]
  /\ owed \in [Conns -> 0 .. Grace]
  /\ term \in BOOLEAN
  /\ since \in 0 .. StopTimeout
  /\ drainAt \in 0 .. StopTimeout

Init ==
  /\ loop = "select"
  /\ notified = FALSE
  /\ conn = [c \in Conns |-> "none"]
  /\ left = [c \in Conns |-> 0]
  /\ owed = [c \in Conns |-> 0]
  /\ term = FALSE
  /\ since = 0
  /\ drainAt = 0

Running == loop \in {"select", "handling", "drain"}
Open == {c \in Conns : conn[c] = "open"}

---------------------------------------------------------------------------
\* Clients.  The kernel completes connections while the listener exists, and
\* a kept-alive connection takes a new request at any time, drain or not.
Connect(c) ==
  /\ Running /\ conn[c] = "none"
  /\ conn' = [conn EXCEPT ![c] = "backlog"]
  /\ UNCHANGED <<loop, notified, left, owed, term, since, drainAt>>

\* Slip: a connection takes a second request before it has answered the first.
PipelineRequest(c, n) ==
  /\ Running /\ conn[c] = "open"
  /\ left' = [left EXCEPT ![c] = @ + n]
  /\ UNCHANGED <<loop, notified, conn, owed, term, since, drainAt>>

BeginRequest(c, n) ==
  /\ Running /\ conn[c] = "open" /\ left[c] = 0
  /\ left' = [left EXCEPT ![c] = n]
  /\ UNCHANGED <<loop, notified, conn, owed, term, since, drainAt>>

\* The peer goes away, in the middle of a request or between requests.
Disconnect(c) ==
  /\ Running /\ conn[c] = "open"
  /\ conn' = [conn EXCEPT ![c] = "closed"]
  /\ left' = [left EXCEPT ![c] = 0]
  /\ owed' = [owed EXCEPT ![c] = 0]
  /\ UNCHANGED <<loop, notified, term, since, drainAt>>

\* SIGTERM from the service manager.  Only a future that waits is told.
Terminate ==
  /\ Running /\ ~term
  /\ term' = TRUE
  /\ notified' = (loop = "select")
  /\ owed' = [c \in Conns |-> IF left[c] <= Grace THEN left[c] ELSE 0]
  /\ UNCHANGED <<loop, conn, left, since, drainAt>>

---------------------------------------------------------------------------
\* select! takes the accept branch: the other branch's future is dropped, and
\* what it had been told is forgotten.  The connection's task is spawned.
Accept(c) ==
  /\ loop = "select" /\ conn[c] = "backlog"
  /\ conn' = [conn EXCEPT ![c] = "open"]
  /\ loop' = "handling"
  /\ notified' = FALSE
  /\ UNCHANGED <<left, owed, term, since, drainAt>>

\* Back to the top of the loop, with a new shutdown_signal future.
NextIteration ==
  /\ loop = "handling"
  /\ loop' = "select"
  /\ UNCHANGED <<notified, conn, left, owed, term, since, drainAt>>

\* Returning from main drops the runtime and with it the tasks.
CutOpen ==
  /\ conn' = [c \in Conns |-> IF conn[c] \in {"open", "backlog"} THEN "cut" ELSE conn[c]]
  /\ UNCHANGED <<left, owed>>

\* `accepted?`: an error of accept() (an aborted peer, too many open files)
\* leaves serve at once, and the process fails.
AcceptFails ==
  /\ loop = "select"
  /\ loop' = "failed"
  /\ CutOpen
  /\ UNCHANGED <<notified, term, since, drainAt>>

\* select! takes the shutdown branch.
Shutdown ==
  /\ loop = "select" /\ notified
  /\ loop' = "drain"
  /\ drainAt' = since
  /\ UNCHANGED <<notified, conn, left, owed, term, since>>

Drained == Open = {}

\* Every connection task has been joined.
DrainDone ==
  /\ loop = "drain" /\ Drained
  /\ loop' = "exited"
  /\ CutOpen
  /\ UNCHANGED <<notified, term, since, drainAt>>

\* Slip: the grace period is over a tick early.
GraceOverEarly == since + 1 = drainAt + Grace

\* Slip: the grace period never ends.
GraceNeverOver == FALSE

GraceOver == since = drainAt + Grace

\* timeout(grace, ...) elapses: exit with connections still active.
DrainTimeout ==
  /\ loop = "drain" /\ ~Drained /\ GraceOver
  /\ loop' = "exited"
  /\ CutOpen
  /\ UNCHANGED <<notified, term, since, drainAt>>

\* SIGKILL from the service manager.
Kill ==
  /\ Running /\ term /\ since = StopTimeout
  /\ loop' = "killed"
  /\ CutOpen
  /\ UNCHANGED <<notified, term, since, drainAt>>

\* What the runtime does at once keeps the clock from advancing.
Urgent ==
  \/ loop = "handling"
  \/ loop = "select" /\ (notified \/ \E c \in Conns : conn[c] = "backlog")
  \/ loop = "drain" /\ (Drained \/ GraceOver)
  \/ term /\ since = StopTimeout

\* A tick: the requests under way make progress side by side.
Tick ==
  /\ Running /\ ~Urgent
  /\ left' = [c \in Conns |-> IF left[c] > 0 THEN left[c] - 1 ELSE 0]
  /\ owed' = [c \in Conns |-> IF owed[c] > 0 THEN owed[c] - 1 ELSE 0]
  /\ since' = IF term THEN since + 1 ELSE since
  /\ UNCHANGED <<loop, notified, conn, term, drainAt>>

Server ==
  \/ \E c \in Conns : Accept(c)
  \/ NextIteration \/ Shutdown \/ DrainDone \/ DrainTimeout \/ AcceptFails

Clients ==
  \/ \E c \in Conns : \/ Connect(c) \/ Disconnect(c)
                      \/ \E n \in 1 .. MaxRequest : BeginRequest(c, n)

Next == Server \/ Clients \/ Terminate \/ Kill \/ Tick

Spec == Init /\ [][Next]_vars

\* The runtime runs what is ready, and time passes.
FairSpec == Spec /\ WF_vars(Server) /\ WF_vars(Kill) /\ WF_vars(Tick)

---------------------------------------------------------------------------
\* "on SIGTERM/SIGINT in-flight transfers get up to 30 s to finish instead of
\* being truncated": no request that was under way at SIGTERM and needs no
\* more than the grace period is cut, by the drain's timeout, by the process
\* exiting or by the service manager; only an accept error cuts it.
GraceKept == loop # "failed" => \A c \in Conns : conn[c] = "cut" => owed[c] = 0

\* A drain that has begun is over when its own grace period is, and before the
\* service manager's SIGKILL.  (One may never begin: see StopsItself.)
DrainBeatsKill == loop = "drain" => since <= drainAt + Grace /\ since < StopTimeout

\* A drain ends with the process exiting by itself, however long clients
\* keep their connections open or busy.
DrainEnds == loop = "drain" ~> loop = "exited"

\* "... then drain in-flight connections": after a SIGTERM the server drains
\* and exits; the service manager never has to kill it.
StopsItself == loop # "killed"
===========================================================================
