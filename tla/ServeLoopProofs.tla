-------------------------- MODULE ServeLoopProofs --------------------------
(***************************************************************************)
(* What the shutdown of ServeLoop promises for any number of connections,  *)
(* any lengths of requests, any grace period and any time-out of the       *)
(* service manager.                                                        *)
(*                                                                         *)
(* The argument: what a request running at SIGTERM still needs, added to   *)
(* the time since, never exceeds the grace period, and the drain begins in *)
(* the tick of the SIGTERM or not at all.  So its deadline lies at the     *)
(* grace period's end, where nothing is owed any more; and before SIGKILL, *)
(* if the grace period is the shorter one of the two (GraceFits).          *)
(***************************************************************************)
EXTENDS ServeLoop, TLAPS

USE GraceAssumption, RequestAssumption

\* Nothing is owed before SIGTERM, and later no more than what is left of the
\* grace period.
DebtFits ==
  /\ ~term => since = 0
  /\ \A c \in Conns : owed[c] > 0 => term /\ owed[c] + since <= Grace

\* A connection has a request under way only once it has been accepted.
AcceptedFirst ==
  \A c \in Conns : conn[c] \in {"none", "backlog"} => left[c] = 0 /\ owed[c] = 0

\* A signal that the pending future has seen is acted upon at once, so that a
\* drain always begins in the tick of the signal.
DrainsAtOnce ==
  /\ notified => term /\ loop # "handling"
  /\ notified /\ loop = "select" => since = 0
  /\ loop = "drain" => term /\ drainAt = 0 /\ since <= Grace

\* Connections are cut only by the end of the process, and those that were
\* owed something only by an error of accept, or because SIGKILL comes first.
CutOnlyAtEnd ==
  /\ Running => \A c \in Conns : conn[c] # "cut"
  /\ GraceFits => GraceKept

ServeInv == TypeOK /\ DebtFits /\ AcceptedFirst /\ DrainsAtOnce /\ CutOnlyAtEnd

---------------------------------------------------------------------------
\* The initial state satisfies the inductive invariant.
LEMMA InitInv == Init => ServeInv
<1> SUFFICES ASSUME Init PROVE ServeInv
  OBVIOUS
<1>1. TypeOK
  <2>1. 0 \in 0 .. MaxRequest /\ 0 \in 0 .. Grace /\ 0 \in 0 .. StopTimeout
    OBVIOUS
  <2>2. left \in [Conns -> 0 .. MaxRequest] /\ owed \in [Conns -> 0 .. Grace]
    BY <2>1 DEF Init
  <2>3. conn \in [Conns -> {"none", "backlog", "open", "closed", "cut"}]
    BY DEF Init
  <2> QED BY <2>1, <2>2, <2>3 DEF Init, TypeOK
<1>2. DebtFits /\ AcceptedFirst /\ DrainsAtOnce /\ CutOnlyAtEnd
  BY DEF Init, DebtFits, AcceptedFirst, DrainsAtOnce, CutOnlyAtEnd, GraceKept
<1> QED BY <1>1, <1>2 DEF ServeInv

\* Leaving `serve` keeps the invariant if, of those still connected, nobody
\* is owed anything or an error of accept is the reason.
LEMMA EndKeeps ==
  ASSUME ServeInv, CutOpen, Running, UNCHANGED <<notified, term, since, drainAt>>,
         loop' \in {"exited", "failed", "killed"},
         GraceFits /\ loop' # "failed" =>
           \A c \in Conns : conn[c] \in {"open", "backlog"} => owed[c] = 0
  PROVE  ServeInv'
<1> USE DEF ServeInv, CutOpen
<1>1. TypeOK' /\ DebtFits'
  BY DEF TypeOK, DebtFits
<1>2. AcceptedFirst'
  BY DEF TypeOK, AcceptedFirst
<1>3. DrainsAtOnce'
  BY DEF DrainsAtOnce
<1>4. CutOnlyAtEnd'
  BY DEF TypeOK, CutOnlyAtEnd, GraceKept, Running
<1> QED BY <1>1, <1>2, <1>3, <1>4

\* Every step of the server, its clients, the service manager and the clock
\* preserves the inductive invariant.
LEMMA NextInv == ServeInv /\ [Next]_vars => ServeInv'
<1> SUFFICES ASSUME ServeInv, [Next]_vars PROVE ServeInv'
  OBVIOUS
<1> USE DEF ServeInv
<1>0. /\ left \in [Conns -> 0 .. MaxRequest] /\ owed \in [Conns -> 0 .. Grace]
      /\ since \in Nat /\ Grace \in Nat
  BY DEF TypeOK
<1>1. ASSUME NEW c \in Conns, Connect(c) PROVE ServeInv'
  BY <1>1 DEF Connect, TypeOK, DebtFits, AcceptedFirst, DrainsAtOnce, CutOnlyAtEnd, GraceKept, Running
<1>2. ASSUME NEW c \in Conns, NEW n \in 1 .. MaxRequest, BeginRequest(c, n) PROVE ServeInv'
  BY <1>2 DEF BeginRequest, TypeOK, DebtFits, AcceptedFirst, DrainsAtOnce, CutOnlyAtEnd, GraceKept,
              Running
<1>3. ASSUME NEW c \in Conns, Disconnect(c) PROVE ServeInv'
  BY <1>3 DEF Disconnect, TypeOK, DebtFits, AcceptedFirst, DrainsAtOnce, CutOnlyAtEnd, GraceKept,
              Running
<1>4. CASE Terminate
  <2>1. \A c \in Conns : owed'[c] \in 0 .. Grace /\ (left[c] = 0 => owed'[c] = 0)
    BY <1>0, <1>4 DEF Terminate
  <2>2. TypeOK'
    BY <1>4, <2>1 DEF Terminate, TypeOK
  <2>3. DebtFits'
    BY <1>0, <1>4, <2>1 DEF Terminate, DebtFits
  <2>4. AcceptedFirst'
    BY <1>4, <2>1 DEF Terminate, AcceptedFirst
  <2>5. DrainsAtOnce'
    BY <1>4 DEF Terminate, DebtFits, DrainsAtOnce
  <2>6. CutOnlyAtEnd'
    BY <1>4 DEF Terminate, CutOnlyAtEnd, GraceKept, Running
  <2> QED BY <2>2, <2>3, <2>4, <2>5, <2>6
<1>5. ASSUME NEW c \in Conns, Accept(c) PROVE ServeInv'
  BY <1>5 DEF Accept, TypeOK, DebtFits, AcceptedFirst, DrainsAtOnce, CutOnlyAtEnd, GraceKept, Running
<1>6. CASE NextIteration
  BY <1>6 DEF NextIteration, TypeOK, DebtFits, AcceptedFirst, DrainsAtOnce, CutOnlyAtEnd, GraceKept,
              Running
<1>7. CASE AcceptFails
  BY <1>7, EndKeeps DEF AcceptFails, Running
<1>8. CASE Shutdown
  BY <1>8 DEF Shutdown, TypeOK, DebtFits, AcceptedFirst, DrainsAtOnce, CutOnlyAtEnd, GraceKept, Running
<1>9. CASE DrainDone
  <2>1. \A c \in Conns : conn[c] \in {"open", "backlog"} => owed[c] = 0
    BY <1>9 DEF DrainDone, Drained, Open, AcceptedFirst
  <2> QED BY <1>9, <2>1, EndKeeps DEF DrainDone, Running
<1>10. CASE DrainTimeout
  <2>1. since = Grace
    BY <1>10, <1>0 DEF DrainTimeout, GraceOver, DrainsAtOnce
  <2>2. \A c \in Conns : owed[c] = 0
    BY <1>0, <2>1 DEF DebtFits
  <2> QED BY <1>10, <2>2, EndKeeps DEF DrainTimeout, Running
<1>11. CASE Kill
  <2>1. GraceFits => since > Grace
    BY <1>11 DEF Kill, GraceFits
  <2>2. GraceFits => \A c \in Conns : owed[c] = 0
    BY <1>0, <2>1 DEF DebtFits
  <2> QED BY <1>11, <2>2, EndKeeps DEF Kill
<1>12. CASE Tick
  <2>1. /\ left' \in [Conns -> 0 .. MaxRequest] /\ owed' \in [Conns -> 0 .. Grace]
        /\ \A c \in Conns : /\ left[c] = 0 => left'[c] = 0
                            /\ owed'[c] = IF owed[c] > 0 THEN owed[c] - 1 ELSE 0
    BY <1>0, <1>12 DEF Tick
  <2>2. since' \in 0 .. StopTimeout /\ (~term => since' = since) /\ since' <= since + 1
    BY <1>0, <1>12 DEF Tick, Urgent, TypeOK
  <2>3. TypeOK'
    BY <1>12, <2>1, <2>2 DEF Tick, TypeOK
  <2>4. DebtFits'
    BY <1>0, <1>12, <2>1, <2>2 DEF Tick, DebtFits
  <2>5. AcceptedFirst'
    BY <1>0, <1>12, <2>1 DEF Tick, AcceptedFirst
  <2>6. DrainsAtOnce'
    BY <1>0, <1>12, <2>2 DEF Tick, Urgent, GraceOver, DrainsAtOnce
  <2>7. CutOnlyAtEnd'
    BY <1>12 DEF Tick, CutOnlyAtEnd, GraceKept, Running
  <2> QED BY <2>3, <2>4, <2>5, <2>6, <2>7
<1>13. CASE UNCHANGED vars
  BY <1>13 DEF vars, TypeOK, DebtFits, AcceptedFirst, DrainsAtOnce, CutOnlyAtEnd, GraceKept, Running
<1> QED
  BY <1>1, <1>2, <1>3, <1>4, <1>5, <1>6, <1>7, <1>8, <1>9, <1>10, <1>11, <1>12, <1>13
     DEF Next, Server, Clients

---------------------------------------------------------------------------
\* The inductive invariant holds in every reachable state.
THEOREM ServeInvariant == Spec => []ServeInv
BY InitInv, NextInv, PTL DEF Spec

\* The variables of serve and of its surroundings have their types; in
\* particular time never passes the service manager's SIGKILL.
THEOREM ServeTypes == Spec => []TypeOK
<1>1. ServeInv => TypeOK
  BY DEF ServeInv
<1> QED BY <1>1, ServeInvariant, PTL

\* "in-flight transfers get up to 30 s to finish instead of being truncated":
\* of the requests under way at SIGTERM, one that fits the grace period is not
\* cut, also when the signal is lost to the accept branch.  An error of accept
\* ends the server without a drain and is excepted.
THEOREM TransfersGetTheirGrace == GraceFits => (Spec => []GraceKept)
<1> SUFFICES ASSUME GraceFits PROVE Spec => []GraceKept
  OBVIOUS
<1>1. ServeInv => GraceKept
  BY DEF ServeInv, CutOnlyAtEnd
<1> QED BY <1>1, ServeInvariant, PTL

\* A drain that has begun is over before the service manager's SIGKILL,
\* whenever the connections end, when its 30 s are less than TimeoutStopSec.
THEOREM DrainEndsBeforeKill == GraceFits => (Spec => []DrainBeatsKill)
<1> SUFFICES ASSUME GraceFits PROVE Spec => []DrainBeatsKill
  OBVIOUS
<1>1. ServeInv => DrainBeatsKill
  BY DEF ServeInv, TypeOK, DrainsAtOnce, DrainBeatsKill, GraceFits
<1> QED BY <1>1, ServeInvariant, PTL
===========================================================================
