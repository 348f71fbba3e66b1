--------------------------- MODULE AtomicStore ----------------------------
(***************************************************************************)
(* What the atomic PUT path promises its clients, without directories of   *)
(* temp files: a name refers to nothing, to a collection or to one whole   *)
(* file, and a PUT installs its file in a single step that happens before  *)
(* it is acknowledged, or not at all when it is refused.                   *)
(***************************************************************************)
CONSTANTS Uploads, Targets, None, Dir, Old

VARIABLES
  store,   \* store[t]: what a reader of name t finds
  status   \* status[u]: how far the PUT u is, as its client can tell

vars == <<store, status>>

Init ==
  /\ store \in [Targets -> {Old, None}]
  /\ status = [u \in Uploads |-> "new"]

Start(u) ==
  /\ status[u] = "new"
  /\ status' = [status EXCEPT ![u] = "busy"]
  /\ UNCHANGED store

\* The whole body appears under the target's name at once.
Publish(u, t) ==
  /\ status[u] = "busy"
  /\ store' = [store EXCEPT ![t] = u]
  /\ status' = [status EXCEPT ![u] = "stored"]

Acknowledge(u) ==
  /\ status[u] = "stored"
  /\ status' = [status EXCEPT ![u] = "ok"]
  /\ UNCHANGED store

\* An error answer, an aborted transfer, or a body that is not of the
\* declared size ("discarded"): the store is as if the PUT had not been.
Refuse(u) ==
  /\ status[u] = "busy"
  /\ \E s \in {"failed", "discarded"} : status' = [status EXCEPT ![u] = s]
  /\ UNCHANGED store

\* The server dies: the clients of the PUTs under way learn nothing.
Lose ==
  /\ status' = [u \in Uploads |-> IF status[u] \in {"busy", "stored"}
                                    THEN "lost" ELSE status[u]]
  /\ UNCHANGED store

Remove(t) ==
  /\ store' = [store EXCEPT ![t] = None]
  /\ UNCHANGED status

Move(s, t) ==
  /\ store' = [store EXCEPT ![t] = store[s], ![s] = None]
  /\ UNCHANGED status

MakeCollection(t) ==
  /\ store[t] = None
  /\ store' = [store EXCEPT ![t] = Dir]
  /\ UNCHANGED status

\* The collection that holds all of the names is moved elsewhere.
MoveAll ==
  /\ store' = [t \in Targets |-> None]
  /\ UNCHANGED status

Next ==
  \/ \E u \in Uploads : Start(u) \/ Acknowledge(u) \/ Refuse(u)
                          \/ \E t \in Targets : Publish(u, t)
  \/ Lose \/ MoveAll
  \/ \E t \in Targets : Remove(t) \/ MakeCollection(t)
  \/ \E s, t \in Targets : Move(s, t)

Spec == Init /\ [][Next]_vars
===========================================================================
