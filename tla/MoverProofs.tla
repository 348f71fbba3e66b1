---------------------------- MODULE MoverProofs ----------------------------
(***************************************************************************)
(* What the registry and the worker pools of Mover promise for any number  *)
(* of calls, workers, files and faults, and any requests.                  *)
(*                                                                         *)
(* The argument: a call is in the registry only after its check, which the *)
(* lock makes one step with its registration; and of the files that a pool *)
(* has taken, each is held by exactly one worker or has been counted.      *)
(***************************************************************************)
EXTENDS Mover, PathProofs, FiniteSetTheorems, TLAPS

USE RequestsAssumption, FilesAssumption, BoundsAssumption, NamesAssumption, WorkersAssumption

Rels == {Rel(p[1], p[2]) : p \in Paths \X Paths}

\* The workers of call c that hold a file, and the files c is through with.
Busy(c) == {w \in Workers : wk[c][w].idx # 0}
Counted(c) == IF rq[c].op = "delete" THEN done[c] + failed[c] ELSE done[c]

\* A call that has not been registered has no job, and one that is in the
\* registry has a request.
Registered ==
  \A c \in Calls :
    /\ call[c] \in {"idle", "register"} => phase[c] = "none"
    /\ call[c] = "register" => rq[c] \in Request
    /\ phase[c] = "none" => status[c] = "none"
    /\ status[c] = "done" => phase[c] = "end"
    /\ phase[c] \in {"start", "rename", "mkdirs", "work"} => status[c] \in Active

\* What the job has walked is a list, and its total is that list's length.
FilesListed ==
  /\ files \in [Calls -> Seq(Rels)] /\ next \in [Calls -> Nat]
  /\ \A c \in Calls : phase[c] \in {"rename", "mkdirs", "work"} => total[c] = Len(files[c])

\* A worker holds a file that has been taken, or waits for one, or has found
\* that none is left; no other worker of its job holds the same one.
WorkersPlaced ==
  /\ \A c \in Calls, w \in Workers :
       /\ wk[c][w].idx = 0 <=> wk[c][w].at \in {"free", "out"}
       /\ wk[c][w].idx < next[c]
       /\ wk[c][w].at = "out" => next[c] = Len(files[c]) + 1
       /\ wk[c][w].at = "copying" => wk[c][w].to \in Inodes
  /\ DistinctFiles

\* Before the pool starts nothing has been taken; while it works, every file
\* taken has been counted or is held; afterwards none is held.
Accounts ==
  /\ \A c \in Calls :
       /\ phase[c] \in {"none", "start", "rename", "mkdirs"} =>
            /\ done[c] = 0 /\ failed[c] = 0 /\ next[c] = 1
            /\ \A w \in Workers : wk[c][w] = Idle
       /\ phase[c] = "work" => Counted(c) + Cardinality(Busy(c)) + 1 = next[c]
       /\ phase[c] # "work" => Busy(c) = {}
  /\ ProgressExact

MoverInv ==
  TypeOK /\ Registered /\ OneJobPerSource /\ FilesListed /\ WorkersPlaced /\ Accounts

---------------------------------------------------------------------------
\* A listing of a finite set is a sequence of its elements, as many as there
\* are, and leaves none out.
LEMMA ListingProps ==
  ASSUME NEW S, IsFiniteSet(S)
  PROVE  /\ Cardinality(S) \in Nat
         /\ Listing(S) \in Seq(S) /\ Len(Listing(S)) = Cardinality(S)
         /\ Listing(S) \in [1 .. Cardinality(S) -> S]
         /\ \A x \in S : \E i \in 1 .. Cardinality(S) : Listing(S)[i] = x
<1>1. Cardinality(S) \in Nat /\ ExistsBijection(1 .. Cardinality(S), S)
  BY FS_CardinalityType
<1>2. PICK f \in [1 .. Cardinality(S) -> S] :
        \A x \in S : \E i \in 1 .. Cardinality(S) : f[i] = x
  BY <1>1 DEF ExistsBijection, Bijection, Surjection
<1>3. /\ Listing(S) \in [1 .. Cardinality(S) -> S]
      /\ \A x \in S : \E i \in DOMAIN Listing(S) : Listing(S)[i] = x
  <2> DEFINE Lists(s) == \A x \in S : \E i \in DOMAIN s : s[i] = x
  <2>1. f \in [1 .. Cardinality(S) -> S] /\ Lists(f)
    BY <1>2
  <2>2. Listing(S) = CHOOSE s \in [1 .. Cardinality(S) -> S] : Lists(s)
    BY DEF Listing
  <2> HIDE DEF Lists
  <2>3. Listing(S) \in [1 .. Cardinality(S) -> S] /\ Lists(Listing(S))
    BY <2>1, <2>2
  <2> QED BY <2>3 DEF Lists
<1>4. Listing(S) \in Seq(S) /\ Len(Listing(S)) = Cardinality(S)
  BY <1>1, <1>3
<1> QED BY <1>1, <1>3, <1>4

\* What a walk of a path finds is finite and made of relative paths.
LEMMA WalkedProps ==
  ASSUME NEW src \in Paths
  PROVE  IsFiniteSet(WalkedFiles(src)) /\ WalkedFiles(src) \subseteq Rels
<1> DEFINE F == {p \in Below(src) : ~IsDir(p)}
           rel == [p \in F |-> Rel(src, p)]
<1>1. F \subseteq Paths /\ IsFiniteSet(F)
  BY FS_Subset DEF Below
<1>2. rel \in Surjection(F, WalkedFiles(src))
  BY DEF Surjection, WalkedFiles
<1>3. IsFiniteSet(WalkedFiles(src))
  BY <1>1, <1>2, FS_Surjection
<1>4. WalkedFiles(src) \subseteq Rels
  <2> SUFFICES ASSUME NEW q \in F PROVE Rel(src, q) \in Rels
    BY DEF WalkedFiles
  <2>1. <<src, q>> \in Paths \X Paths
    BY <1>1
  <2> QED BY <2>1 DEF Rels
<1> QED BY <1>3, <1>4

\* A new inode is an inode, when one is free.
LEMMA NewInodeFree == FreeInodes # {} => NewInode \in Inodes
BY DEF FreeInodes, NewInode

\* The requests that calls make are of a known kind and for known paths.
LEMMA RequestFields ==
  ASSUME NEW r \in Request
  PROVE  r.op \in Ops /\ r.src \in Paths /\ r.dst \in Paths
BY DEF Request

\* The destination that a request is resolved to is a known path.
LEMMA Destinations ==
  ASSUME NEW r \in Requests, r.op # "delete"
  PROVE  /\ dest_for(r.src, r.dst) \in Paths
         /\ r.strategy = "rename" => free_dst(dest_for(r.src, r.dst)) \in Paths
<1> DEFINE final == dest_for(r.src, r.dst)
<1>1. final \in {r.dst, Append(r.dst, Name(r.src))}
  BY DEF dest_for
<1>2. final \in Paths /\ (r.strategy = "rename" => \A i \in 2 .. LastNumber : Numbered(final, i) \in Paths)
  BY <1>1, DestinationsAssumption
<1>3. ASSUME r.strategy = "rename" PROVE free_dst(final) \in Paths
  <2> DEFINE free == {i \in 2 .. LastNumber : ~Exists(Numbered(final, i))}
             n == CHOOSE i \in free : \A k \in free : i <= k
  <2> HIDE DEF final
  <2>1. LastNumber \in 2 .. LastNumber
    OBVIOUS
  <2>2. free_dst(final) =
          IF ~Exists(final) THEN final
          ELSE IF free = {} THEN Numbered(final, LastNumber) ELSE Numbered(final, n)
    BY DEF free_dst
  <2>3. free # {} => n \in free
    <3> SUFFICES ASSUME free # {} PROVE n \in free
      OBVIOUS
    <3>1. free \in SUBSET Nat
      OBVIOUS
    <3>2. \E i \in free : \A k \in free : i <= k
      BY <3>1, Least
    <3> HIDE DEF free
    <3> QED BY <3>2
  <2> HIDE DEF n
  <2>4. free \subseteq 2 .. LastNumber
    OBVIOUS
  <2> HIDE DEF free
  <2> QED BY <1>2, <1>3, <2>1, <2>2, <2>3, <2>4
<1> QED BY <1>2, <1>3

---------------------------------------------------------------------------
\* The initial state satisfies the inductive invariant.
LEMMA InitInv == Init => MoverInv
<1> SUFFICES ASSUME Init PROVE MoverInv
  OBVIOUS
<1> DEFINE order == Listing(InitFiles)
<1>1. /\ Cardinality(InitFiles) \in Nat /\ order \in [1 .. Cardinality(InitFiles) -> InitFiles]
      /\ \A p \in InitFiles : \E i \in 1 .. Cardinality(InitFiles) : order[i] = p
  BY ListingProps, FS_Subset
<1>2. fs \in [Paths -> Inodes \cup {None, Dir}]
  <2>1. \A p \in InitFiles : (CHOOSE i \in DOMAIN order : order[i] = p) \in Inodes
    BY <1>1 DEF Inodes
  <2> QED BY <2>1 DEF Init
<1>3. data \in [Inodes -> Blobs \cup {Partial}]
  BY <1>1 DEF Init, Blobs
<1>4. wk \in [Calls -> [Workers -> WorkerState]]
  BY DEF Init, Idle, WorkerState, Stages
<1>5. \A c \in Calls : Len(files[c]) = 0 /\ files[c] \in Seq(Rels)
  BY DEF Init
<1>6. TypeOK
  <2>1. call \in [Calls -> {"idle", "register", "gone"} \cup Answers]
    BY DEF Init
  <2>2. /\ status \in [Calls -> Active \cup {"none", "done", "error"}]
        /\ phase \in [Calls -> Phases]
    BY DEF Init, Phases
  <2>3. /\ total \in [Calls -> Nat] /\ done \in [Calls -> Nat] /\ failed \in [Calls -> Nat]
        /\ errs \in [Calls -> BOOLEAN]
    BY DEF Init
  <2>4. /\ \A c \in Calls : next[c] \in 1 .. Len(files[c]) + 1
        /\ \A c \in Calls, w \in Workers : wk[c][w].idx <= Len(files[c])
    BY <1>5 DEF Init, Idle
  <2>5. rq \in [Calls -> Request \cup {None}] /\ \A c \in Calls : phase[c] = "none"
    BY DEF Init
  <2>6. arrived \subseteq Arrivals /\ faults \in 0 .. MaxFaults
    BY DEF Init
  <2> QED BY <1>2, <1>3, <1>4, <2>1, <2>2, <2>3, <2>4, <2>5, <2>6 DEF TypeOK
<1>7. Registered /\ OneJobPerSource
  BY DEF Init, Registered, OneJobPerSource, Active
<1>8. FilesListed
  BY <1>5 DEF Init, FilesListed
<1>9. WorkersPlaced /\ Accounts
  BY DEF Init, Idle, WorkersPlaced, DistinctFiles, Accounts, ProgressExact, Busy
<1> QED BY <1>6, <1>7, <1>8, <1>9 DEF MoverInv

---------------------------------------------------------------------------
\* What a step leaves alone of the jobs keeps what is said of them.
LEMMA JobsKept ==
  ASSUME MoverInv, UNCHANGED <<total, done, failed, files, next, wk>>,
         \A c \in Calls : /\ phase'[c] = phase[c] \/ (phase[c] = "none" /\ phase'[c] = "start")
                          /\ phase[c] # "none" => rq'[c] = rq[c]
                          /\ status'[c] = "done" => status[c] = "done"
  PROVE  FilesListed' /\ WorkersPlaced' /\ Accounts'
<1> USE DEF MoverInv
<1>1. FilesListed'
  BY DEF FilesListed
<1>2. WorkersPlaced'
  BY DEF WorkersPlaced, DistinctFiles
<1>3. \A c \in Calls : /\ Busy(c)' = Busy(c)
                       /\ phase[c] # "none" => Counted(c)' = Counted(c)
  BY DEF Busy, Counted
<1>4. Accounts'
  BY <1>3 DEF Accounts, ProgressExact
<1> QED BY <1>1, <1>2, <1>4

\* The check of a request that is not resolved to be registered.
LEMMA AnswerKeeps ==
  ASSUME MoverInv, NEW c \in Calls, call[c] = "idle",
         NEW a \in {"bad request", "not found", "conflict"},
         call' = [call EXCEPT ![c] = a], UNCHANGED <<rq, fsVars, status, jobVars, faults>>
  PROVE  MoverInv'
<1> USE DEF MoverInv
<1>1. TypeOK'
  BY DEF fsVars, jobVars, TypeOK, Answers
<1>2. Registered' /\ OneJobPerSource'
  BY DEF jobVars, TypeOK, Registered, OneJobPerSource
<1>3. FilesListed' /\ WorkersPlaced' /\ Accounts'
  BY JobsKept DEF jobVars
<1> QED BY <1>1, <1>2, <1>3

\* A request that is to be registered, with its destination resolved.
LEMMA ProceedKeeps ==
  ASSUME MoverInv, NEW c \in Calls, call[c] = "idle", NEW r \in Request,
         call' = [call EXCEPT ![c] = "register"], rq' = [rq EXCEPT ![c] = r],
         UNCHANGED <<fsVars, status, jobVars, faults>>
  PROVE  MoverInv'
<1> USE DEF MoverInv
<1>1. /\ \A d \in Calls : rq'[d] = IF d = c THEN r ELSE rq[d]
      /\ rq' \in [Calls -> Request \cup {None}]
  BY DEF TypeOK
<1>2. phase[c] = "none" /\ status[c] = "none"
  BY DEF Registered
<1>3. TypeOK'
  <2>1. \A d \in Calls : phase'[d] # "none" => rq'[d] \in Request
    BY <1>1, <1>2 DEF jobVars, TypeOK
  <2>2. call' \in [Calls -> {"idle", "register", "gone"} \cup Answers]
    BY DEF TypeOK
  <2> QED BY <1>1, <2>1, <2>2 DEF fsVars, jobVars, TypeOK
<1>4. Registered' /\ OneJobPerSource'
  BY <1>1, <1>2 DEF jobVars, TypeOK, Registered, OneJobPerSource, Active
<1>5. FilesListed' /\ WorkersPlaced' /\ Accounts'
  BY <1>1, <1>2, JobsKept DEF jobVars
<1> QED BY <1>3, <1>4, <1>5

\* The daemon's handlers: the check of a request, and its registration.
LEMMA HandleKeeps ==
  ASSUME MoverInv, NEW c \in Calls, Handle(c)
  PROVE  MoverInv'
<1>1. ASSUME NEW r \in Requests, CheckMoveCopy(c, r) PROVE MoverInv'
  <2> DEFINE final == dest_for(r.src, r.dst)
  <2>0. /\ call[c] = "idle" /\ r \in Request /\ r.op # "delete"
        /\ UNCHANGED <<fsVars, status, jobVars, faults>>
    BY <1>1 DEF CheckMoveCopy
  <2>1. \/ \E a \in {"bad request", "not found", "conflict"} :
             call' = [call EXCEPT ![c] = a] /\ UNCHANGED rq
        \/ /\ call' = [call EXCEPT ![c] = "register"]
           /\ \/ rq' = [rq EXCEPT ![c] = [r EXCEPT !.dst = final]]
              \/ /\ r.strategy = "rename"
                 /\ rq' = [rq EXCEPT ![c] = [r EXCEPT !.dst = free_dst(final)]]
    BY <1>1 DEF CheckMoveCopy
  <2>2. ASSUME NEW d \in Paths PROVE [r EXCEPT !.dst = d] \in Request
    BY <2>0 DEF Request
  <2>3. final \in Paths /\ (r.strategy = "rename" => free_dst(final) \in Paths)
    BY <2>0, Destinations
  <2> HIDE DEF final
  <2> QED BY <2>0, <2>1, <2>2, <2>3, AnswerKeeps, ProceedKeeps
<1>2. ASSUME NEW r \in Requests, CheckDelete(c, r) PROVE MoverInv'
  <2>1. call[c] = "idle" /\ r \in Request /\ UNCHANGED <<fsVars, status, jobVars, faults>>
    BY <1>2 DEF CheckDelete
  <2>2. \/ call' = [call EXCEPT ![c] = "not found"] /\ UNCHANGED rq
        \/ call' = [call EXCEPT ![c] = "register"] /\ rq' = [rq EXCEPT ![c] = r]
    BY <1>2 DEF CheckDelete
  <2> QED BY <2>1, <2>2, AnswerKeeps, ProceedKeeps
<1>3. CASE Register(c) \/ RegisterDelete(c)
  <2> USE DEF MoverInv
  <2>0. /\ call[c] = "register" /\ phase[c] = "none" /\ status[c] = "none" /\ rq[c] \in Request
        /\ UNCHANGED <<fsVars, rq, total, done, errs, failed, files, dirs, next, wk, faults>>
    BY <1>3 DEF Register, RegisterDelete, Registered
  <2>1. CASE /\ Duplicates(c) # {} /\ call' = [call EXCEPT ![c] = "deduped"]
             /\ UNCHANGED <<status, phase>>
    <3>1. TypeOK'
      BY <2>0, <2>1 DEF fsVars, TypeOK, Answers
    <3>2. Registered' /\ OneJobPerSource'
      BY <2>0, <2>1 DEF TypeOK, Registered, OneJobPerSource
    <3>3. FilesListed' /\ WorkersPlaced' /\ Accounts'
      BY <2>0, <2>1, JobsKept
    <3> QED BY <3>1, <3>2, <3>3
  <2>2. CASE (rq[c].op = "delete" \/ Duplicates(c) = {}) /\ Enter(c)
    <3>0. /\ \A d \in Calls \ {c} : status'[d] = status[d] /\ phase'[d] = phase[d] /\ call'[d] = call[d]
          /\ status'[c] = "queued" /\ phase'[c] = "start" /\ call'[c] = "accepted"
          /\ rq' = rq
      BY <2>0, <2>2 DEF Enter, TypeOK
    <3>1. TypeOK'
      <4>1. /\ call' \in [Calls -> {"idle", "register", "gone"} \cup Answers]
            /\ status' \in [Calls -> Active \cup {"none", "done", "error"}]
            /\ phase' \in [Calls -> Phases]
        BY <2>2 DEF Enter, TypeOK, Answers, Active, Phases
      <4>2. \A d \in Calls : phase'[d] # "none" => rq'[d] \in Request
        BY <2>0, <3>0 DEF TypeOK
      <4> QED BY <2>0, <4>1, <4>2 DEF fsVars, TypeOK
    <3>2. Registered'
      BY <2>0, <3>0 DEF Registered, Active
    <3>3. OneJobPerSource'
      <4>1. \A d \in Calls : /\ status[d] \in Active
                             /\ rq[c].op = rq[d].op /\ rq[c].op \in {"move", "copy"}
                             /\ rq[c].src = rq[d].src
                             /\ rq[c].op = "move" \/ rq[c].dst = rq[d].dst
                             => FALSE
        BY <2>2 DEF Duplicates
      <4> QED BY <3>0, <4>1 DEF OneJobPerSource
    <3>4. FilesListed' /\ WorkersPlaced' /\ Accounts'
      BY <2>0, <3>0, JobsKept
    <3> QED BY <3>1, <3>2, <3>3, <3>4
  <2> QED BY <1>3, <2>1, <2>2 DEF Register, RegisterDelete
<1> QED BY <1>1, <1>2, <1>3 DEF Handle

---------------------------------------------------------------------------
\* The files that a pool has taken are counted exactly.
LEMMA BusyFinite ==
  ASSUME NEW c \in Calls
  PROVE  IsFiniteSet(Busy(c)) /\ Cardinality(Busy(c)) \in Nat
BY FS_Subset, FS_CardinalityType DEF Busy

\* What a worker with a file does next: it goes on with that file, or is
\* through with it and counts it.
LEMMA WorkerKeeps ==
  ASSUME MoverInv, NEW c \in Calls, NEW w \in Workers, wk[c][w].idx # 0,
         \/ \E ok \in BOOLEAN : Finish(c, w, ok)
         \/ \E k \in WorkerState :
              /\ wk' = [wk EXCEPT ![c][w] = k] /\ k.idx = wk[c][w].idx
              /\ k.at \notin {"free", "out"}
              /\ k.at = "copying" => k.to \in Inodes
              /\ UNCHANGED <<failed, errs, done>>,
         fs' \in [Paths -> Inodes \cup {None, Dir}], data' \in [Inodes -> Blobs \cup {Partial}],
         faults' \in 0 .. MaxFaults,
         UNCHANGED <<arrived, regVars, total, phase, files, dirs, next>>
  PROVE  MoverInv'
<1> USE DEF MoverInv
<1>0. UNCHANGED <<arrived, call, rq, status, total, phase, files, dirs, next>>
  BY DEF regVars
<1>1. phase[c] = "work"
  BY DEF Accounts, Busy
<1>2. /\ done \in [Calls -> Nat] /\ failed \in [Calls -> Nat] /\ errs \in [Calls -> BOOLEAN]
      /\ wk \in [Calls -> [Workers -> WorkerState]] /\ next \in [Calls -> Nat]
      /\ total \in [Calls -> Nat]
  BY DEF TypeOK, FilesListed
<1>3. ASSUME NEW d \in Calls PROVE Counted(d) \in Nat
  BY <1>2 DEF Counted
<1>4. CASE \E ok \in BOOLEAN : Finish(c, w, ok)
  <2>1. PICK ok \in BOOLEAN : Finish(c, w, ok)
    BY <1>4
  <2>2. \A d \in Calls, v \in Workers : wk'[d][v] = IF d = c /\ v = w THEN Idle ELSE wk[d][v]
    BY <1>2, <2>1 DEF Finish
  <2>3. /\ done' \in [Calls -> Nat] /\ failed' \in [Calls -> Nat] /\ errs' \in [Calls -> BOOLEAN]
        /\ \A d \in Calls \ {c} : done'[d] = done[d] /\ failed'[d] = failed[d]
        /\ done'[c] \in {done[c], done[c] + 1}
    BY <1>2, <2>1 DEF Finish
  <2>4. Counted(c)' = Counted(c) + 1
    BY <1>0, <1>2, <2>1 DEF Counted, Finish
  <2>5. wk' \in [Calls -> [Workers -> WorkerState]]
    <3>1. Idle \in WorkerState
      BY DEF Idle, WorkerState, Stages
    <3>2. wk' = [wk EXCEPT ![c][w] = Idle]
      BY <2>1 DEF Finish
    <3> QED BY <1>2, <3>1, <3>2
  <2>6. TypeOK'
    <3>1. \A d \in Calls, v \in Workers : wk'[d][v].idx <= Len(files[d])
      <4>1. \A d \in Calls : Len(files[d]) \in Nat
        BY DEF FilesListed
      <4>2. \A d \in Calls, v \in Workers : wk[d][v].idx <= Len(files[d])
        BY DEF TypeOK
      <4>3. Idle.idx = 0
        BY DEF Idle
      <4> QED BY <2>2, <4>1, <4>2, <4>3
    <3> QED BY <1>0, <2>3, <2>5, <3>1 DEF TypeOK
  <2>7. FilesListed' /\ Registered' /\ OneJobPerSource'
    BY <1>0 DEF FilesListed, Registered, OneJobPerSource
  <2>8. WorkersPlaced'
    <3>1. \A d \in Calls : next[d] > 0
      BY <1>2 DEF TypeOK
    <3> QED BY <1>0, <2>2, <3>1 DEF WorkersPlaced, DistinctFiles, Idle
  <2>9. Accounts'
    <3>1. Busy(c)' = Busy(c) \ {w} /\ w \in Busy(c)
      BY <2>2 DEF Busy, Idle
    <3>2. Cardinality(Busy(c)') = Cardinality(Busy(c)) - 1
      BY <3>1, BusyFinite, FS_RemoveElement
    <3>3. \A d \in Calls \ {c} : Busy(d)' = Busy(d) /\ Counted(d)' = Counted(d)
      BY <1>0, <2>2, <2>3 DEF Busy, Counted
    <3>4. Counted(c) + Cardinality(Busy(c)) + 1 = next[c]
      BY <1>1 DEF Accounts
    <3>5. Counted(c)' + Cardinality(Busy(c)') + 1 = next[c]
      BY <1>2, <1>3, <2>4, <3>2, <3>4, BusyFinite
    <3>6. done'[c] <= total[c] /\ (status[c] = "done" => done'[c] = total[c])
      <4>1. next[c] <= Len(files[c]) + 1 /\ total[c] = Len(files[c])
        BY <1>1 DEF TypeOK, FilesListed
      <4>2. Cardinality(Busy(c)') \in Nat
        <5>1. IsFiniteSet(Busy(c)')
          BY <3>1, BusyFinite, FS_RemoveElement
        <5> QED BY <5>1, FS_CardinalityType
      <4>3. done'[c] <= Counted(c)'
        BY <1>0, <2>3 DEF Counted
      <4>4. status[c] # "done"
        BY <1>1 DEF Registered
      <4>5. Counted(c)' \in Nat
        BY <1>3, <2>4
      <4>6. done'[c] \in Nat /\ total[c] \in Nat /\ next[c] \in Nat
        BY <1>2, <2>3
      <4> QED BY <3>5, <4>1, <4>2, <4>3, <4>4, <4>5, <4>6
    <3>7. ProgressExact'
      BY <1>0, <2>3, <3>6 DEF Accounts, ProgressExact
    <3>8. \A d \in Calls \ {c} :
            /\ phase[d] \in {"none", "start", "rename", "mkdirs"} =>
                 /\ done'[d] = 0 /\ failed'[d] = 0 /\ next[d] = 1
                 /\ \A v \in Workers : wk'[d][v] = Idle
            /\ phase[d] = "work" => Counted(d)' + Cardinality(Busy(d)') + 1 = next[d]
            /\ phase[d] # "work" => Busy(d)' = {}
      BY <2>2, <2>3, <3>3 DEF Accounts
    <3> QED BY <1>0, <1>1, <3>5, <3>7, <3>8 DEF Accounts
  <2> QED BY <2>6, <2>7, <2>8, <2>9
<1>5. ASSUME NEW k \in WorkerState, wk' = [wk EXCEPT ![c][w] = k], k.idx = wk[c][w].idx,
             k.at \notin {"free", "out"},
             k.at = "copying" => k.to \in Inodes,
             UNCHANGED <<failed, errs, done>>
      PROVE  MoverInv'
  <2>1. /\ \A d \in Calls, v \in Workers : wk'[d][v] = IF d = c /\ v = w THEN k ELSE wk[d][v]
        /\ wk' \in [Calls -> [Workers -> WorkerState]]
    BY <1>2, <1>5
  <2>2. \A d \in Calls, v \in Workers : wk'[d][v].idx = wk[d][v].idx
    BY <1>5, <2>1
  <2>3. TypeOK'
    BY <1>0, <1>5, <2>1, <2>2 DEF TypeOK
  <2>4. FilesListed' /\ Registered' /\ OneJobPerSource'
    BY <1>0, <1>5 DEF FilesListed, Registered, OneJobPerSource
  <2>5. WorkersPlaced'
    BY <1>0, <1>5, <2>1, <2>2 DEF WorkersPlaced, DistinctFiles
  <2>6. Accounts'
    <3>1. \A d \in Calls : Busy(d)' = Busy(d) /\ Counted(d)' = Counted(d)
      BY <1>0, <1>5, <2>2 DEF Busy, Counted
    <3>2. \A d \in Calls \ {c} : \A v \in Workers : wk'[d][v] = wk[d][v]
      BY <2>1
    <3> QED BY <1>0, <1>1, <1>5, <3>1, <3>2 DEF Accounts, ProgressExact
  <2> QED BY <2>3, <2>4, <2>5, <2>6
<1> QED BY <1>4, <1>5

\* A worker asks for the next file.
LEMMA TakeKeeps ==
  ASSUME MoverInv, NEW c \in Calls, NEW w \in Workers, Take(c, w)
  PROVE  MoverInv'
<1> USE DEF MoverInv
<1> DEFINE more == next[c] <= Len(files[c])
           k == IF more THEN [Idle EXCEPT !.at = "have", !.idx = next[c]]
                        ELSE [Idle EXCEPT !.at = "out"]
<1>0. /\ UNCHANGED <<fs, data, arrived, call, rq, status, total, done, errs, failed, phase,
                     files, dirs, faults>>
      /\ phase[c] = "work" /\ wk[c][w].at = "free" /\ wk' = [wk EXCEPT ![c][w] = k]
      /\ next' = [next EXCEPT ![c] = IF more THEN @ + 1 ELSE @]
  BY DEF Take, fsVars, regVars
<1>1. /\ wk \in [Calls -> [Workers -> WorkerState]] /\ next \in [Calls -> Nat]
      /\ \A d \in Calls : Len(files[d]) \in Nat /\ next[d] \in 1 .. Len(files[d]) + 1
      /\ wk[c][w].idx = 0
  BY <1>0 DEF TypeOK, FilesListed, WorkersPlaced
<1>2. /\ k \in WorkerState /\ k.at \in {"have", "out"}
      /\ more => k.at = "have" /\ k.idx = next[c] /\ next'[c] = next[c] + 1
      /\ ~more => k.at = "out" /\ k.idx = 0 /\ next'[c] = next[c] /\ next[c] = Len(files[c]) + 1
  <2>1. Idle \in WorkerState /\ Idle.idx = 0
    BY DEF Idle, WorkerState, Stages
  <2>2. CASE more
    BY <1>0, <1>1, <2>1, <2>2 DEF WorkerState, Stages
  <2>3. CASE ~more
    <3>1. next[c] = Len(files[c]) + 1
      BY <1>1, <2>3
    <3>2. k = [Idle EXCEPT !.at = "out"] /\ next'[c] = next[c]
      BY <1>0, <1>1, <2>3
    <3>3. k \in WorkerState /\ k.at = "out" /\ k.idx = 0
      BY <2>1, <3>2 DEF WorkerState, Stages
    <3> QED BY <2>3, <3>1, <3>2, <3>3
  <2> QED BY <2>2, <2>3
<1> HIDE DEF k
<1>3. /\ \A d \in Calls, v \in Workers : wk'[d][v] = IF d = c /\ v = w THEN k ELSE wk[d][v]
      /\ wk' \in [Calls -> [Workers -> WorkerState]]
  BY <1>0, <1>1, <1>2
<1>4. /\ next' \in [Calls -> Nat] /\ \A d \in Calls \ {c} : next'[d] = next[d]
      /\ next'[c] >= next[c] /\ next'[c] \in 1 .. Len(files[c]) + 1
  BY <1>0, <1>1
<1>5. \A d \in Calls, v \in Workers : wk[d][v].idx <= Len(files[d]) /\ wk[d][v].idx \in Nat
  BY <1>1 DEF TypeOK, WorkerState
<1>6. TypeOK'
  <2>1. \A d \in Calls, v \in Workers : wk'[d][v].idx <= Len(files[d])
    BY <1>1, <1>2, <1>3, <1>5
  <2>2. \A d \in Calls : next'[d] \in 1 .. Len(files[d]) + 1
    BY <1>1, <1>4
  <2> QED BY <1>0, <1>3, <2>1, <2>2 DEF TypeOK
<1>7. FilesListed' /\ Registered' /\ OneJobPerSource'
  BY <1>0, <1>4 DEF FilesListed, Registered, OneJobPerSource
<1>8. WorkersPlaced'
  <2>1. \A d \in Calls, v \in Workers : wk[d][v].idx < next[d]
    BY DEF WorkersPlaced
  <2>2. \A d \in Calls, v \in Workers : wk'[d][v].idx < next'[d]
    <3> SUFFICES ASSUME NEW d \in Calls, NEW v \in Workers PROVE wk'[d][v].idx < next'[d]
      OBVIOUS
    <3>1. CASE d = c /\ v = w
      BY <1>1, <1>2, <1>3, <3>1
    <3>2. CASE d = c /\ v # w
      BY <1>1, <1>3, <1>4, <1>5, <2>1, <3>2
    <3>3. CASE d # c
      BY <1>3, <1>4, <2>1, <3>3
    <3> QED BY <3>1, <3>2, <3>3
  <2>3. \A d \in Calls, v \in Workers :
          /\ wk'[d][v].idx = 0 <=> wk'[d][v].at \in {"free", "out"}
          /\ wk'[d][v].at = "copying" => wk'[d][v].to \in Inodes
    <3>1. k.idx = 0 <=> k.at = "out"
      BY <1>1, <1>2
    <3> QED BY <1>2, <1>3, <3>1 DEF WorkersPlaced
  <2>4. \A d \in Calls, v \in Workers : wk'[d][v].at = "out" => next'[d] = Len(files[d]) + 1
    <3>1. \A v \in Workers : wk[c][v].at = "out" => ~more
      BY <1>1 DEF WorkersPlaced
    <3> QED BY <1>2, <1>3, <1>4, <3>1 DEF WorkersPlaced
  <2>5. DistinctFiles'
    <3>1. \A v \in Workers : wk[c][v].idx # next[c]
      BY <1>1, <1>5, <2>1
    <3>2. k.idx \in {0, next[c]}
      BY <1>2
    <3> QED BY <1>3, <3>1, <3>2 DEF WorkersPlaced, DistinctFiles
  <2> QED BY <1>0, <2>2, <2>3, <2>4, <2>5 DEF WorkersPlaced
<1>9. Accounts'
  <2>1. \A d \in Calls \ {c} : /\ Busy(d)' = Busy(d) /\ \A v \in Workers : wk'[d][v] = wk[d][v]
    BY <1>3 DEF Busy
  <2>2. \A d \in Calls : Counted(d)' = Counted(d)
    BY <1>0 DEF Counted
  <2>3. Counted(c) + Cardinality(Busy(c)) + 1 = next[c] /\ Counted(c) \in Nat
    BY <1>0 DEF Accounts, Counted, TypeOK
  <2>4. Cardinality(Busy(c)') = IF more THEN Cardinality(Busy(c)) + 1 ELSE Cardinality(Busy(c))
    <3>1. CASE more
      <4>1. Busy(c)' = Busy(c) \cup {w} /\ w \notin Busy(c)
        BY <1>1, <1>2, <1>3, <3>1 DEF Busy
      <4> QED BY <3>1, <4>1, BusyFinite, FS_AddElement
    <3>2. CASE ~more
      <4>1. Busy(c)' = Busy(c)
        BY <1>1, <1>2, <1>3, <3>2 DEF Busy
      <4> QED BY <3>2, <4>1
    <3> QED BY <3>1, <3>2
  <2>5. Counted(c)' + Cardinality(Busy(c)') + 1 = next'[c]
    BY <1>1, <1>2, <2>2, <2>3, <2>4, BusyFinite
  <2> QED BY <1>0, <1>4, <2>1, <2>2, <2>5 DEF Accounts, ProgressExact
<1> QED BY <1>6, <1>7, <1>8, <1>9

\* The steps of a worker with a file are steps of the kind described above.
LEMMA WorkKeeps ==
  ASSUME MoverInv, NEW c \in Calls, NEW w \in Workers,
         \/ RenameFile(c, w) \/ OpenSource(c, w) \/ CreateTarget(c, w)
         \/ WriteCopy(c, w) \/ Unlink(c, w) \/ DeleteFile(c, w)
  PROVE  MoverInv'
<1> USE DEF MoverInv
<1>0. /\ fs \in [Paths -> Inodes \cup {None, Dir}] /\ data \in [Inodes -> Blobs \cup {Partial}]
      /\ wk \in [Calls -> [Workers -> WorkerState]] /\ wk[c][w] \in WorkerState
      /\ faults \in 0 .. MaxFaults
  BY DEF TypeOK
<1>1. wk[c][w].at \notin {"free", "out"} => wk[c][w].idx # 0
  BY DEF WorkersPlaced
<1>2. ASSUME NEW at \in {"copy", "unlink"}, Go(c, w, at)
      PROVE  \E k \in WorkerState :
              /\ wk' = [wk EXCEPT ![c][w] = k] /\ k.idx = wk[c][w].idx /\ k.at = at
              /\ UNCHANGED <<failed, errs, done>>
  <2>1. [wk[c][w] EXCEPT !.at = at] \in WorkerState
    BY <1>0 DEF WorkerState, Stages
  <2>2. wk' = [wk EXCEPT ![c][w] = [wk[c][w] EXCEPT !.at = at]]
    BY <1>2, <1>0 DEF Go
  <2>3. [wk[c][w] EXCEPT !.at = at].at = at /\ [wk[c][w] EXCEPT !.at = at].idx = wk[c][w].idx
    BY <1>0 DEF WorkerState
  <2> QED BY <1>2, <2>1, <2>2, <2>3 DEF Go
<1>3. CASE RenameFile(c, w)
  <2>1. wk[c][w].idx # 0
    BY <1>1, <1>3 DEF RenameFile
  <2>2. (\E ok \in BOOLEAN : Finish(c, w, ok)) \/ Go(c, w, "copy")
    BY <1>3 DEF RenameFile
  <2>3. fs' \in [Paths -> Inodes \cup {None, Dir}]
    BY <1>0, <1>3 DEF RenameFile, Renamed
  <2>4. data' = data /\ faults' \in 0 .. MaxFaults
    <3>1.  data' = data
      BY <1>3 DEF RenameFile
    <3>2. faults' = faults \/ (faults < MaxFaults /\ faults' = faults + 1)
      BY <1>3 DEF RenameFile
    <3> QED BY <1>0, <3>1, <3>2
  <2>5. UNCHANGED <<arrived, regVars, total, phase, files, dirs, next>>
    BY <1>3 DEF RenameFile
  <2> QED BY <1>0, <1>2, <2>1, <2>2, <2>3, <2>4, <2>5, WorkerKeeps
<1>4. CASE OpenSource(c, w)
  <2>1. wk[c][w].idx # 0
    BY <1>1, <1>4 DEF OpenSource
  <2>2. UNCHANGED <<fs, data, arrived, regVars, total, phase, files, dirs, next, faults>>
    BY <1>4 DEF OpenSource, fsVars
  <2> DEFINE s == Source(c, w)
             from == IF IsFile(s) THEN fs[s] ELSE 0
             k == [wk[c][w] EXCEPT !.at = "opened", !.from = from]
  <2>3. CASE Exists(s)
    <3>1. from \in 0 .. MaxInodes
      BY DEF IsFile, Inodes
    <3>2. wk' = [wk EXCEPT ![c][w].at = "opened", ![c][w].from = from]
          /\ UNCHANGED <<failed, errs, done>>
      BY <1>4, <2>3 DEF OpenSource
    <3> HIDE DEF from
    <3>3. k \in WorkerState /\ k.at = "opened" /\ k.idx = wk[c][w].idx
      BY <1>0, <3>1 DEF WorkerState, Stages
    <3>4. wk' = [wk EXCEPT ![c][w] = k]
      BY <1>0, <3>2
    <3> HIDE DEF k
    <3>5. \E n \in WorkerState :
            /\ wk' = [wk EXCEPT ![c][w] = n] /\ n.idx = wk[c][w].idx
            /\ n.at \notin {"free", "out"}
            /\ n.at = "copying" => n.to \in Inodes
            /\ UNCHANGED <<failed, errs, done>>
      BY <3>2, <3>3, <3>4
    <3>6. fs' = fs /\ data' = data /\ faults' = faults
      BY <2>2
    <3> QED BY <1>0, <2>1, <2>2, <3>5, <3>6, WorkerKeeps
  <2>4. CASE ~Exists(s)
    BY <1>0, <1>4, <2>1, <2>2, <2>4, WorkerKeeps DEF OpenSource
  <2> QED BY <2>3, <2>4
<1>5. CASE CreateTarget(c, w)
  <2>1. wk[c][w].idx # 0 /\ wk[c][w].at = "opened"
    BY <1>1, <1>5 DEF CreateTarget
  <2>2. UNCHANGED <<arrived, regVars, total, phase, files, dirs, next, faults>>
    BY <1>5 DEF CreateTarget
  <2> DEFINE d == Target(c, w)
             to == IF IsFile(d) THEN fs[d] ELSE NewInode
             k == [wk[c][w] EXCEPT !.at = "copying", !.to = to]
  <2>3. CASE /\ IsFile(d) \/ FreeInodes # {}
             /\ fs' = [fs EXCEPT ![d] = to] /\ data' = [data EXCEPT ![to] = Partial]
             /\ wk' = [wk EXCEPT ![c][w].at = "copying", ![c][w].to = to]
             /\ UNCHANGED <<failed, errs, done>>
    <3>1. to \in Inodes
      BY <2>3, NewInodeFree DEF IsFile
    <3> HIDE DEF to
    <3>2. k \in WorkerState /\ k.at = "copying" /\ k.to = to /\ k.idx = wk[c][w].idx
      <4>1. to \in 0 .. MaxInodes
        BY <3>1 DEF Inodes
      <4> QED BY <1>0, <4>1 DEF WorkerState, Stages
    <3>3. wk' = [wk EXCEPT ![c][w] = k]
      BY <1>0, <2>3
    <3>4. fs' \in [Paths -> Inodes \cup {None, Dir}] /\ data' \in [Inodes -> Blobs \cup {Partial}]
      BY <1>0, <2>3, <3>1
    <3> HIDE DEF k
    <3>5. \E n \in WorkerState :
            /\ wk' = [wk EXCEPT ![c][w] = n] /\ n.idx = wk[c][w].idx
            /\ n.at \notin {"free", "out"}
            /\ n.at = "copying" => n.to \in Inodes
            /\ UNCHANGED <<failed, errs, done>>
      <4>1. k.at \notin {"free", "out"} /\ k.to \in Inodes
        BY <3>1, <3>2
      <4> QED BY <2>3, <3>2, <3>3, <4>1
    <3>6. faults' \in 0 .. MaxFaults
      BY <1>0, <2>2
    <3> QED BY <2>1, <2>2, <3>4, <3>5, <3>6, WorkerKeeps
  <2>4. CASE Finish(c, w, FALSE) /\ UNCHANGED <<fs, data>>
    BY <1>0, <2>1, <2>2, <2>4, WorkerKeeps
  <2> QED BY <1>5, <2>3, <2>4 DEF CreateTarget
<1>6. CASE WriteCopy(c, w)
  <2>1. /\ wk[c][w].idx # 0 /\ wk[c][w].to \in Inodes
        /\ wk[c][w].from # 0 => wk[c][w].from \in Inodes
    <3>1. wk[c][w].from \in 0 .. MaxInodes
      BY <1>0 DEF WorkerState
    <3> QED BY <1>1, <1>6, <3>1 DEF WriteCopy, WorkersPlaced, Inodes
  <2>2. (\E ok \in BOOLEAN : Finish(c, w, ok)) \/ Go(c, w, "unlink")
    BY <1>6 DEF WriteCopy
  <2>3. data' \in [Inodes -> Blobs \cup {Partial}]
    <3>1. CASE wk[c][w].from # 0 /\ data' = [data EXCEPT ![wk[c][w].to] = data[wk[c][w].from]]
      <4>1. data[wk[c][w].from] \in Blobs \cup {Partial}
        BY <1>0, <2>1, <3>1
      <4> QED BY <1>0, <2>1, <3>1, <4>1
    <3>2. CASE data' = data
      BY <1>0, <3>2
    <3> QED BY <1>6, <3>1, <3>2 DEF WriteCopy
  <2>4. fs' = fs /\ faults' \in 0 .. MaxFaults
    <3>1.  fs' = fs
      BY <1>6 DEF WriteCopy
    <3>2. faults' = faults \/ (faults < MaxFaults /\ faults' = faults + 1)
      BY <1>6 DEF WriteCopy
    <3> QED BY <1>0, <3>1, <3>2
  <2>5. UNCHANGED <<arrived, regVars, total, phase, files, dirs, next>>
    BY <1>6 DEF WriteCopy
  <2> QED BY <1>0, <1>2, <2>1, <2>2, <2>3, <2>4, <2>5, WorkerKeeps
<1>7. CASE Unlink(c, w) \/ DeleteFile(c, w)
  <2>1. wk[c][w].idx # 0
    BY <1>1, <1>7 DEF Unlink, DeleteFile
  <2> RemoveSource(c, w)
    BY <1>7 DEF Unlink, DeleteFile
  <2>2. \E ok \in BOOLEAN : Finish(c, w, ok)
    BY DEF RemoveSource
  <2>3. fs' \in [Paths -> Inodes \cup {None, Dir}]
    BY <1>0 DEF RemoveSource
  <2>4. data' = data /\ faults' \in 0 .. MaxFaults
    <3>1.  data' = data
      BY DEF RemoveSource
    <3>2. faults' = faults \/ (faults < MaxFaults /\ faults' = faults + 1)
      BY DEF RemoveSource
    <3> QED BY <1>0, <3>1, <3>2
  <2>5. UNCHANGED <<arrived, regVars, total, phase, files, dirs, next>>
    BY DEF RemoveSource
  <2> QED BY <1>0, <2>1, <2>2, <2>3, <2>4, <2>5, WorkerKeeps
<1> QED BY <1>3, <1>4, <1>5, <1>6, <1>7

---------------------------------------------------------------------------
\* The job's own thread goes from one phase to a later one.
LEMMA PhaseKeeps ==
  ASSUME MoverInv, NEW c \in Calls, phase[c] \in {"start", "rename", "mkdirs", "work"},
         NEW ph \in {"rename", "mkdirs", "work", "end"}, phase' = [phase EXCEPT ![c] = ph],
         NEW st \in {"queued", "running", "done", "error"}, status' = [status EXCEPT ![c] = st],
         st \in Active <=> ph # "end",
         fs' \in [Paths -> Inodes \cup {None, Dir}], faults' \in 0 .. MaxFaults,
         UNCHANGED <<data, arrived, call, rq, failed, next, wk>>,
         errs' \in [Calls -> BOOLEAN], files' \in [Calls -> Seq(Rels)],
         total' \in [Calls -> Nat], done' \in [Calls -> Nat],
         \A d \in Calls \ {c} :
           files'[d] = files[d] /\ total'[d] = total[d] /\ done'[d] = done[d],
         files'[c] = files[c] \/ phase[c] = "start",
         ph # "end" => /\ phase[c] # "work"
                       /\ total'[c] = Len(files'[c]) /\ done'[c] = 0,
         ph = "end" => /\ Busy(c) = {} /\ done'[c] <= total'[c]
                       /\ st = "done" => done'[c] = total'[c]
  PROVE  MoverInv'
<1> USE DEF MoverInv
<1>1. /\ phase' \in [Calls -> Phases] /\ status' \in [Calls -> Active \cup {"none", "done", "error"}]
      /\ \A d \in Calls : phase'[d] = IF d = c THEN ph ELSE phase[d]
      /\ \A d \in Calls : status'[d] = IF d = c THEN st ELSE status[d]
  BY DEF TypeOK, Phases, Active
<1>2. /\ phase[c] # "work" =>
           /\ done[c] = 0 /\ failed[c] = 0 /\ next[c] = 1
           /\ \A w \in Workers : wk[c][w] = Idle
      /\ Idle.idx = 0 /\ Idle.at = "free"
  BY DEF Accounts, Idle
<1>3. \A d \in Calls : Len(files[d]) \in Nat /\ Len(files'[d]) \in Nat
  BY DEF FilesListed
<1>4. \A d \in Calls \ {c} : Busy(d)' = Busy(d) /\ Counted(d)' = Counted(d)
  BY DEF Busy, Counted
<1>11. \A d \in Calls : \/ files'[d] = files[d]
                        \/ next[d] = 1 /\ \A w \in Workers : wk[d][w] = Idle
  BY <1>2
<1>5. TypeOK'
  <2>1. \A d \in Calls : phase'[d] # "none" => rq'[d] \in Request
    BY <1>1 DEF TypeOK
  <2>2. \A d \in Calls : next'[d] \in 1 .. Len(files'[d]) + 1
    <3>1. \A d \in Calls : next[d] \in 1 .. Len(files[d]) + 1
      BY DEF TypeOK
    <3>2. UNCHANGED next
      OBVIOUS
    <3>3. ASSUME NEW d \in Calls PROVE next[d] \in 1 .. Len(files'[d]) + 1
      <4>1. CASE files'[d] = files[d]
        BY <3>1, <4>1
      <4>2. CASE next[d] = 1
        <5>1. Len(files'[d]) \in Nat
          BY <1>3
        <5> QED BY <4>2, <5>1
      <4> QED BY <1>11, <4>1, <4>2
    <3> QED BY <3>2, <3>3
  <2>3. \A d \in Calls, w \in Workers : wk'[d][w].idx <= Len(files'[d])
    <3>1. \A d \in Calls, w \in Workers : wk[d][w].idx <= Len(files[d])
      BY DEF TypeOK
    <3>2. UNCHANGED wk
      OBVIOUS
    <3>3. ASSUME NEW d \in Calls, NEW w \in Workers PROVE wk[d][w].idx <= Len(files'[d])
      <4>1. CASE files'[d] = files[d]
        BY <3>1, <4>1
      <4>2. CASE wk[d][w] = Idle
        <5>1. Len(files'[d]) \in Nat
          BY <1>3
        <5> QED BY <1>2, <4>2, <5>1
      <4> QED BY <1>11, <4>1, <4>2
    <3> QED BY <3>2, <3>3
  <2> QED BY <1>1, <2>1, <2>2, <2>3 DEF TypeOK
<1>6. Registered'
  BY <1>1 DEF Registered, Active
<1>7. OneJobPerSource'
  <2>1. \A d \in Calls : status'[d] \in Active => status[d] \in Active
    BY <1>1 DEF Registered
  <2> QED BY <2>1 DEF OneJobPerSource
<1>8. FilesListed'
  <2>1. \A d \in Calls : phase'[d] \in {"rename", "mkdirs", "work"} => total'[d] = Len(files'[d])
    <3> TAKE d \in Calls
    <3>1. CASE d = c
      BY <1>1, <3>1
    <3>2. CASE d # c
      <4>1. phase'[d] = phase[d] /\ total'[d] = total[d] /\ files'[d] = files[d]
        BY <1>1, <3>2
      <4> QED BY <4>1 DEF FilesListed
    <3> QED BY <3>1, <3>2
  <2>2. next' \in [Calls -> Nat]
    BY DEF FilesListed
  <2> QED BY <2>1, <2>2 DEF FilesListed
<1>9. WorkersPlaced'
  <2>1. \A d \in Calls, w \in Workers : wk[d][w].at = "out" => files'[d] = files[d]
    BY <1>2, <1>11
  <2>2. UNCHANGED <<wk, next>>
    OBVIOUS
  <2>3. \A d \in Calls, w \in Workers : wk[d][w].at = "out" => next[d] = Len(files'[d]) + 1
    BY <2>1 DEF WorkersPlaced
  <2> QED BY <2>2, <2>3 DEF WorkersPlaced, DistinctFiles
<1>10. Accounts'
  <2>1. ProgressExact'
    BY <1>1, <1>2, <1>3 DEF Accounts, ProgressExact, TypeOK, Active
  <2>2. ph = "work" => Counted(c)' + Cardinality(Busy(c)') + 1 = next'[c]
    <3> SUFFICES ASSUME ph = "work" PROVE Counted(c)' + Cardinality(Busy(c)') + 1 = next'[c]
      OBVIOUS
    <3>1. Busy(c)' = {} /\ Counted(c)' = 0 /\ next'[c] = 1
      BY <1>2 DEF Busy, Counted
    <3> QED BY <3>1, FS_EmptySet
  <2>3. /\ ph \in {"rename", "mkdirs"} =>
             /\ done'[c] = 0 /\ failed'[c] = 0 /\ next'[c] = 1
             /\ \A w \in Workers : wk'[c][w] = Idle
        /\ ph # "work" => Busy(c)' = {}
    <3>1. UNCHANGED <<failed, next, wk>>
      OBVIOUS
    <3>2. Busy(c)' = Busy(c)
      BY <3>1 DEF Busy
    <3>3. ph # "end" => Busy(c) = {}
      BY DEF Accounts
    <3>4. ph # "work" => Busy(c)' = {}
      BY <3>2, <3>3
    <3>5. ASSUME ph \in {"rename", "mkdirs"}
          PROVE  /\ done'[c] = 0 /\ failed'[c] = 0 /\ next'[c] = 1
                 /\ \A w \in Workers : wk'[c][w] = Idle
      <4>1. phase[c] # "work" /\ done'[c] = 0
        BY <3>5
      <4> QED BY <1>2, <3>1, <4>1
    <3> QED BY <3>4, <3>5
  <2>4. /\ UNCHANGED <<failed, next, wk>>
        /\ \A d \in Calls \ {c} : phase'[d] = phase[d] /\ done'[d] = done[d]
        /\ phase'[c] = ph
    BY <1>1
  <2>5. \A d \in Calls \ {c} :
          /\ phase'[d] \in {"none", "start", "rename", "mkdirs"} =>
               /\ done'[d] = 0 /\ failed'[d] = 0 /\ next'[d] = 1
               /\ \A w \in Workers : wk'[d][w] = Idle
          /\ phase'[d] = "work" => Counted(d)' + Cardinality(Busy(d)') + 1 = next'[d]
          /\ phase'[d] # "work" => Busy(d)' = {}
    <3> SUFFICES ASSUME NEW d \in Calls \ {c}
                 PROVE  /\ phase'[d] \in {"none", "start", "rename", "mkdirs"} =>
                             /\ done'[d] = 0 /\ failed'[d] = 0 /\ next'[d] = 1
                             /\ \A w \in Workers : wk'[d][w] = Idle
                        /\ phase'[d] = "work" =>
                             Counted(d)' + Cardinality(Busy(d)') + 1 = next'[d]
                        /\ phase'[d] # "work" => Busy(d)' = {}
      OBVIOUS
    <3>1. /\ phase[d] \in {"none", "start", "rename", "mkdirs"} =>
               /\ done[d] = 0 /\ failed[d] = 0 /\ next[d] = 1
               /\ \A w \in Workers : wk[d][w] = Idle
          /\ phase[d] = "work" => Counted(d) + Cardinality(Busy(d)) + 1 = next[d]
          /\ phase[d] # "work" => Busy(d) = {}
      BY DEF Accounts
    <3>2. /\ phase'[d] = phase[d] /\ done'[d] = done[d] /\ failed'[d] = failed[d]
          /\ next'[d] = next[d] /\ wk'[d] = wk[d]
          /\ Counted(d)' = Counted(d) /\ Busy(d)' = Busy(d)
      BY <1>4, <2>4
    <3> QED BY <3>1, <3>2
  <2>6. /\ phase'[c] \in {"none", "start", "rename", "mkdirs"} =>
             /\ done'[c] = 0 /\ failed'[c] = 0 /\ next'[c] = 1
             /\ \A w \in Workers : wk'[c][w] = Idle
        /\ phase'[c] = "work" => Counted(c)' + Cardinality(Busy(c)') + 1 = next'[c]
        /\ phase'[c] # "work" => Busy(c)' = {}
    BY <2>2, <2>3, <2>4
  <2> QED BY <2>1, <2>5, <2>6 DEF Accounts
<1> QED BY <1>5, <1>6, <1>7, <1>8, <1>9, <1>10

\* When the pool has joined, every walked file has been counted once.
LEMMA PoolDoneCounts ==
  ASSUME MoverInv, NEW c \in Calls, PoolDone(c)
  PROVE  /\ phase[c] = "work" /\ Busy(c) = {}
         /\ Counted(c) = total[c] /\ done[c] <= total[c]
<1> USE DEF MoverInv
<1>1. phase[c] = "work" /\ \A w \in Workers : wk[c][w].at = "out"
  BY DEF PoolDone
<1>2. Busy(c) = {}
  BY <1>1 DEF WorkersPlaced, Busy
<1>3. next[c] = Len(files[c]) + 1 /\ total[c] = Len(files[c])
  BY <1>1 DEF WorkersPlaced, FilesListed
<1>4. Counted(c) + 0 + 1 = next[c]
  BY <1>1, <1>2, FS_EmptySet DEF Accounts
<1>5. Counted(c) \in Nat /\ Len(files[c]) \in Nat /\ done[c] <= total[c]
  BY DEF Counted, TypeOK, FilesListed, Accounts, ProgressExact
<1> QED BY <1>1, <1>2, <1>3, <1>4, <1>5

\* The start of a move or a copy, of a delete, and the steps before the pool.
LEMMA StartKeeps ==
  ASSUME MoverInv, NEW c \in Calls,
         StartJob(c) \/ StartDelete(c) \/ RenameTree(c) \/ MakeDirs(c)
  PROVE  MoverInv'
<1> USE DEF MoverInv
<1>0. /\ fs \in [Paths -> Inodes \cup {None, Dir}] /\ faults \in 0 .. MaxFaults
      /\ total \in [Calls -> Nat] /\ done \in [Calls -> Nat] /\ failed \in [Calls -> Nat]
      /\ errs \in [Calls -> BOOLEAN] /\ files \in [Calls -> Seq(Rels)]
      /\ status \in [Calls -> Active \cup {"none", "done", "error"}]
      /\ 0 \in Nat /\ 1 \in Nat
  BY DEF TypeOK, FilesListed
<1>1. phase[c] \in {"start", "rename", "mkdirs"} =>
        /\ rq[c] \in Request /\ rq[c].src \in Paths
        /\ Busy(c) = {} /\ done[c] = 0 /\ status[c] \in Active
  BY RequestFields DEF TypeOK, Accounts, Registered
<1> DEFINE walked == WalkedFiles(rq[c].src)
<1>2. ASSUME phase[c] = "start" PROVE
        /\ Cardinality(walked) \in Nat
        /\ Listing(walked) \in Seq(Rels) /\ Len(Listing(walked)) = Cardinality(walked)
  <2>1. IsFiniteSet(walked) /\ walked \subseteq Rels
    BY <1>1, <1>2, WalkedProps
  <2> HIDE DEF walked
  <2>2. /\ Cardinality(walked) \in Nat
        /\ Listing(walked) \in Seq(walked) /\ Len(Listing(walked)) = Cardinality(walked)
    BY <2>1, ListingProps
  <2> QED BY <2>1, <2>2
<1> HIDE DEF walked
<1>3. CASE StartJob(c)
  <2>0. phase[c] = "start" /\ UNCHANGED <<fs, data, arrived, call, rq, done, failed, next, wk>>
    BY <1>3 DEF StartJob, fsVars
  <2>1. CASE /\ files' = [files EXCEPT ![c] = Listing(walked)]
             /\ total' = [total EXCEPT ![c] = Cardinality(walked)]
             /\ status' = [status EXCEPT ![c] = "running"]
             /\ \E ph \in {"rename", "mkdirs"} : phase' = [phase EXCEPT ![c] = ph]
             /\ UNCHANGED <<errs, faults>>
    <3>1. PICK ph \in {"rename", "mkdirs"} : phase' = [phase EXCEPT ![c] = ph]
      BY <2>1
    <3>2. /\ files' \in [Calls -> Seq(Rels)] /\ total' \in [Calls -> Nat]
          /\ files'[c] = Listing(walked) /\ total'[c] = Cardinality(walked)
          /\ \A d \in Calls \ {c} : files'[d] = files[d] /\ total'[d] = total[d]
      BY <1>0, <1>2, <2>0, <2>1
    <3>3. total'[c] = Len(files'[c])
      BY <1>2, <2>0, <3>2
    <3>4. "running" \in Active
      BY DEF Active
    <3> QED BY <1>0, <1>1, <2>0, <2>1, <3>1, <3>2, <3>3, <3>4, PhaseKeeps
  <2>2. CASE /\ faults' \in 0 .. MaxFaults
             /\ status' = [status EXCEPT ![c] = "error"]
             /\ errs' = [errs EXCEPT ![c] = TRUE]
             /\ phase' = [phase EXCEPT ![c] = "end"]
             /\ UNCHANGED <<files, total>>
    <3>1. errs' \in [Calls -> BOOLEAN]
      BY <1>0, <2>2
    <3>2. "error" \notin Active
      BY DEF Active
    <3>3. done'[c] <= total'[c]
      BY <1>0, <1>1, <2>0, <2>2
    <3> QED BY <1>0, <1>1, <2>0, <2>2, <3>1, <3>2, <3>3, PhaseKeeps
  <2>3. faults' = faults \/ (faults < MaxFaults /\ faults' = faults + 1)
    BY <1>3 DEF StartJob
  <2>4. faults' \in 0 .. MaxFaults
    BY <1>0, <2>3
  <2> QED BY <1>3, <2>1, <2>2, <2>4 DEF StartJob, walked
<1>4. CASE StartDelete(c)
  <2>0. phase[c] = "start" /\ UNCHANGED <<data, arrived, call, rq, failed, next, wk>>
    BY <1>4 DEF StartDelete
  <2>1. CASE /\ files' = [files EXCEPT ![c] = Listing(walked)]
             /\ total' = [total EXCEPT ![c] = Cardinality(walked)]
             /\ status' = [status EXCEPT ![c] = "running"]
             /\ phase' = [phase EXCEPT ![c] = "work"]
             /\ UNCHANGED <<fs, done, errs, faults>>
    <3>1. /\ files' \in [Calls -> Seq(Rels)] /\ total' \in [Calls -> Nat]
          /\ files'[c] = Listing(walked) /\ total'[c] = Cardinality(walked)
          /\ \A d \in Calls \ {c} : files'[d] = files[d] /\ total'[d] = total[d]
      BY <1>0, <1>2, <2>0, <2>1
    <3>2. total'[c] = Len(files'[c])
      BY <1>2, <2>0, <3>1
    <3>3. "running" \in Active
      BY DEF Active
    <3> QED BY <1>0, <1>1, <2>0, <2>1, <3>1, <3>2, <3>3, PhaseKeeps
  <2>2. CASE /\ fs' = Without({rq[c].src})
             /\ total' = [total EXCEPT ![c] = 1]
             /\ done' = [done EXCEPT ![c] = 1]
             /\ status' = [status EXCEPT ![c] = "done"]
             /\ phase' = [phase EXCEPT ![c] = "end"]
             /\ UNCHANGED <<errs, files, faults>>
    <3>1. fs' \in [Paths -> Inodes \cup {None, Dir}]
      BY <1>0, <2>2 DEF Without
    <3>2. /\ total' \in [Calls -> Nat] /\ done' \in [Calls -> Nat]
          /\ \A d \in Calls \ {c} : total'[d] = total[d] /\ done'[d] = done[d]
          /\ total'[c] = 1 /\ done'[c] = 1
      BY <1>0, <2>2
    <3>3. "done" \notin Active
      BY DEF Active
    <3>4. done'[c] <= total'[c] /\ done'[c] = total'[c]
      BY <3>2
    <3> QED BY <1>0, <1>1, <2>0, <2>2, <3>1, <3>2, <3>3, <3>4, PhaseKeeps
  <2>3. CASE /\ faults' \in 0 .. MaxFaults
             /\ errs' = [errs EXCEPT ![c] = TRUE]
             /\ status' = [status EXCEPT ![c] = "error"]
             /\ phase' = [phase EXCEPT ![c] = "end"]
             /\ UNCHANGED <<fs, total, done, files>>
    <3>1. errs' \in [Calls -> BOOLEAN]
      BY <1>0, <2>3
    <3>2. "error" \notin Active
      BY DEF Active
    <3>3. done'[c] <= total'[c]
      BY <1>0, <1>1, <2>0, <2>3
    <3> QED BY <1>0, <1>1, <2>0, <2>3, <3>1, <3>2, <3>3, PhaseKeeps
  <2>4. faults' = faults \/ (faults < MaxFaults /\ faults' = faults + 1)
    BY <1>4 DEF StartDelete
  <2>5. faults' \in 0 .. MaxFaults
    BY <1>0, <2>4
  <2> QED BY <1>4, <2>1, <2>2, <2>3, <2>5 DEF StartDelete, walked
<1>5. CASE RenameTree(c)
  <2>0. phase[c] = "rename"
        /\ UNCHANGED <<data, arrived, call, rq, total, errs, failed, files, next, wk>>
    BY <1>5 DEF RenameTree
  <2>1. total[c] = Len(files[c])
    BY <2>0 DEF FilesListed
  <2>2. CASE /\ fs' = Renamed(rq[c].src, rq[c].dst)
             /\ done' = [done EXCEPT ![c] = total[c]]
             /\ status' = [status EXCEPT ![c] = "done"]
             /\ phase' = [phase EXCEPT ![c] = "end"]
             /\ UNCHANGED faults
    <3>1. fs' \in [Paths -> Inodes \cup {None, Dir}]
      BY <1>0, <2>2 DEF Renamed
    <3>2. done' \in [Calls -> Nat] /\ done'[c] = total[c] /\ \A d \in Calls \ {c} : done'[d] = done[d]
      BY <1>0, <2>2
    <3>3. "done" \notin Active
      BY DEF Active
    <3>4. done'[c] <= total'[c] /\ done'[c] = total'[c]
      BY <1>0, <2>0, <3>2
    <3> QED BY <1>0, <1>1, <2>0, <2>2, <3>1, <3>2, <3>3, <3>4, PhaseKeeps
  <2>3. CASE /\ phase' = [phase EXCEPT ![c] = "mkdirs"]
             /\ UNCHANGED <<fs, done, status>>
    <3>1. PICK st \in {"queued", "running"} : status' = [status EXCEPT ![c] = st]
      BY <1>0, <1>1, <2>0, <2>3 DEF Active
    <3>2. faults' = faults \/ (faults < MaxFaults /\ faults' = faults + 1)
      BY <1>5 DEF RenameTree
    <3>3. faults' \in 0 .. MaxFaults
      BY <1>0, <3>2
    <3>4. st \in Active
      BY DEF Active
    <3>5. files' = files /\ total' = total /\ done' = done /\ done[c] = 0 /\ fs' = fs
      BY <1>0, <1>1, <2>0, <2>3
    <3>6. /\ fs' \in [Paths -> Inodes \cup {None, Dir}] /\ errs' \in [Calls -> BOOLEAN]
          /\ files' \in [Calls -> Seq(Rels)] /\ total' \in [Calls -> Nat] /\ done' \in [Calls -> Nat]
          /\ total'[c] = Len(files'[c]) /\ done'[c] = 0
      BY <1>0, <2>0, <2>1, <3>5
    <3>7. /\ phase' = [phase EXCEPT ![c] = "mkdirs"] /\ phase[c] = "rename"
          /\ UNCHANGED <<data, arrived, call, rq, failed, next, wk>>
      BY <2>0, <2>3
    <3> QED BY <3>1, <3>3, <3>4, <3>5, <3>6, <3>7, PhaseKeeps
  <2> QED BY <1>5, <2>2, <2>3 DEF RenameTree
<1>6. CASE MakeDirs(c)
  <2>0. /\ phase[c] = "mkdirs" /\ phase' = [phase EXCEPT ![c] = "work"]
        /\ UNCHANGED <<data, arrived, call, rq, status, total, done, errs, failed, files, next, wk, faults>>
    BY <1>6 DEF MakeDirs, regVars
  <2>1. total[c] = Len(files[c])
    BY <2>0 DEF FilesListed
  <2>2. fs' \in [Paths -> Inodes \cup {None, Dir}]
    BY <1>0, <1>6 DEF MakeDirs
  <2>3. PICK st \in {"queued", "running"} : status' = [status EXCEPT ![c] = st]
    BY <1>0, <1>1, <2>0 DEF Active
  <2>4. st \in Active
    BY DEF Active
  <2>5. files' = files /\ total' = total /\ done' = done /\ done[c] = 0 /\ faults' = faults
    BY <1>1, <2>0
  <2>6. /\ faults' \in 0 .. MaxFaults /\ errs' \in [Calls -> BOOLEAN]
        /\ files' \in [Calls -> Seq(Rels)] /\ total' \in [Calls -> Nat] /\ done' \in [Calls -> Nat]
        /\ total'[c] = Len(files'[c]) /\ done'[c] = 0
    BY <1>0, <2>0, <2>1, <2>5
  <2> QED BY <1>0, <2>0, <2>2, <2>3, <2>4, <2>5, <2>6, PhaseKeeps
<1> QED BY <1>3, <1>4, <1>5, <1>6

\* The pool has joined: the end of a move or a copy, and of a delete.
LEMMA EndKeeps ==
  ASSUME MoverInv, NEW c \in Calls, EndJob(c) \/ EndDelete(c)
  PROVE  MoverInv'
<1> USE DEF MoverInv
<1>1. PoolDone(c)
  BY DEF EndJob, EndDelete
<1>2. /\ phase[c] = "work" /\ Busy(c) = {} /\ done[c] <= total[c]
      /\ Counted(c) = total[c] /\ done[c] \in Nat
  BY <1>1, PoolDoneCounts DEF TypeOK
<1>3. /\ UNCHANGED <<data, arrived, call, rq, total, done, errs, failed, files, next, wk>>
      /\ phase' = [phase EXCEPT ![c] = "end"]
  BY DEF EndJob, EndDelete
<1> DEFINE Walked == {rq[c].src \o rel : rel \in dirs[c]}
           Removable == {d \in Walked : IsDir(d) /\ Below(d) \subseteq {p \in Walked : IsDir(p)}}
           Gone(stuck) == {d \in Removable : \A k \in stuck : ~Under(d, k)}
<1>4. ASSUME EndDelete(c)
      PROVE  \E stuck \in SUBSET Removable, n \in 0 .. MaxFaults - faults :
               /\ n = Cardinality(stuck) /\ faults' = faults + n
               /\ fs' = Without(Gone(stuck))
               /\ status' = [status EXCEPT ![c] =
                    IF failed[c] = 0 /\ Gone(stuck) = Walked THEN "done" ELSE "error"]
  BY <1>4, Zenon DEF EndDelete
<1> HIDE DEF Walked, Removable, Gone
<1>5. fs' \in [Paths -> Inodes \cup {None, Dir}]
  <2>1. fs \in [Paths -> Inodes \cup {None, Dir}]
    BY DEF TypeOK
  <2>2. \A S : Without(S) \in [Paths -> Inodes \cup {None, Dir}]
    BY <2>1 DEF Without
  <2>3. fs' = fs \/ \E S : fs' = Without(S)
    BY <1>4 DEF EndJob
  <2> QED BY <2>1, <2>2, <2>3
<1>6. \E st \in {"done", "error"} :
        status' = [status EXCEPT ![c] = st] /\ (st = "done" => done[c] = total[c])
  <2>1. CASE EndJob(c)
    BY <1>2, <2>1 DEF EndJob, Counted
  <2>2. CASE EndDelete(c)
    <3>1. \/ failed[c] = 0 /\ status' = [status EXCEPT ![c] = "done"]
          \/ status' = [status EXCEPT ![c] = "error"]
      BY <1>4, <2>2
    <3>2. failed[c] = 0 => done[c] = total[c]
      BY <1>2 DEF Counted
    <3> QED BY <3>1, <3>2
  <2> QED BY <2>1, <2>2
<1>7. PICK st \in {"done", "error"} :
        status' = [status EXCEPT ![c] = st] /\ (st = "done" => done[c] = total[c])
  BY <1>6
<1>8. st \notin Active
  BY DEF Active
<1>9. /\ faults \in 0 .. MaxFaults /\ errs \in [Calls -> BOOLEAN] /\ files \in [Calls -> Seq(Rels)]
      /\ total \in [Calls -> Nat] /\ done \in [Calls -> Nat]
  BY DEF TypeOK, FilesListed
<1>10. faults' \in 0 .. MaxFaults
  <2>1. CASE EndJob(c)
    <3>1. faults' = faults \/ (faults < MaxFaults /\ faults' = faults + 1)
      BY <2>1 DEF EndJob
    <3> QED BY <1>9, <3>1
  <2>2. CASE EndDelete(c)
    <3>1. \E n \in 0 .. MaxFaults - faults : faults' = faults + n
      BY <1>4, <2>2
    <3> QED BY <1>9, <3>1
  <2> QED BY <2>1, <2>2
<1> QED BY <1>2, <1>3, <1>5, <1>7, <1>8, <1>9, <1>10, PhaseKeeps

\* Other writers do not touch the jobs, whether they store a file ...
LEMMA ArriveKeeps ==
  ASSUME MoverInv, NEW p \in Arrivals, Arrive(p)
  PROVE  MoverInv'
<1> USE DEF MoverInv
<1>1. /\ arrived' = arrived \cup {p} /\ fs' = [fs EXCEPT ![p] = NewInode]
      /\ data' = [data EXCEPT ![NewInode] = p] /\ NewInode \in Inodes
  BY NewInodeFree DEF Arrive
<1>2. UNCHANGED <<call, rq, status, total, done, errs, failed, phase, files, dirs, next, wk, faults>>
  BY DEF Arrive, regVars, jobVars
<1>3. /\ fs' \in [Paths -> Inodes \cup {None, Dir}] /\ data' \in [Inodes -> Blobs \cup {Partial}]
      /\ arrived' \subseteq Arrivals
  BY <1>1 DEF TypeOK, Blobs
<1>4. TypeOK'
  BY <1>2, <1>3 DEF TypeOK
<1>5. Registered' /\ OneJobPerSource'
  BY <1>2 DEF Registered, OneJobPerSource
<1>6. FilesListed' /\ WorkersPlaced' /\ Accounts'
  BY <1>2, JobsKept
<1> QED BY <1>4, <1>5, <1>6

\* ... or make a directory.
LEMMA ArriveDirKeeps ==
  ASSUME MoverInv, NEW p \in DirArrivals, ArriveDir(p)
  PROVE  MoverInv'
<1> USE DEF MoverInv
<1>1. /\ fs' = [fs EXCEPT ![p] = Dir]
      /\ UNCHANGED <<data, arrived, call, rq, status, total, done, errs, failed, phase, files,
                     dirs, next, wk, faults>>
  BY DEF ArriveDir, regVars, jobVars
<1>2. fs' \in [Paths -> Inodes \cup {None, Dir}]
  BY <1>1 DEF TypeOK
<1>3. TypeOK'
  BY <1>1, <1>2 DEF TypeOK
<1>4. Registered' /\ OneJobPerSource'
  BY <1>1 DEF Registered, OneJobPerSource
<1>5. FilesListed' /\ WorkersPlaced' /\ Accounts'
  BY <1>1, JobsKept
<1> QED BY <1>3, <1>4, <1>5

\* A restart forgets the jobs and their threads.
LEMMA RestartKeeps ==
  ASSUME MoverInv, Restart
  PROVE  MoverInv'
<1> USE DEF MoverInv
<1>1. /\ \A c \in Calls : /\ status'[c] = "none"
                          /\ phase'[c] = IF phase[c] = "none" THEN "none" ELSE "gone"
                          /\ call'[c] = IF call[c] = "idle" THEN "idle" ELSE "gone"
                          /\ \A w \in Workers : wk'[c][w] = Idle
      /\ UNCHANGED <<fs, data, arrived, rq, total, done, errs, failed, files, dirs, next, faults>>
  BY DEF Restart, fsVars
<1>2. /\ status' \in [Calls -> Active \cup {"none", "done", "error"}]
      /\ phase' \in [Calls -> Phases]
      /\ call' \in [Calls -> {"idle", "register", "gone"} \cup Answers]
  BY DEF Restart, Phases
<1>3. wk' \in [Calls -> [Workers -> WorkerState]]
  <2>1. Idle \in WorkerState
    BY DEF Idle, WorkerState, Stages
  <2> QED BY <2>1 DEF Restart
<1>4. Idle.idx = 0 /\ Idle.at = "free"
  BY DEF Idle
<1>5. \A c \in Calls : Len(files[c]) \in Nat /\ next[c] \in 1 .. Len(files[c]) + 1
  BY DEF FilesListed, TypeOK
<1>6. TypeOK'
  <2>1. \A c \in Calls : phase'[c] # "none" => rq'[c] \in Request
    BY <1>1 DEF TypeOK
  <2>2. \A c \in Calls, w \in Workers : wk'[c][w].idx <= Len(files'[c])
    BY <1>1, <1>4, <1>5
  <2>3. \A c \in Calls : next'[c] \in 1 .. Len(files'[c]) + 1
    BY <1>1, <1>5
  <2> QED BY <1>1, <1>2, <1>3, <2>1, <2>2, <2>3 DEF TypeOK
<1>7. Registered' /\ OneJobPerSource'
  BY <1>1 DEF Registered, OneJobPerSource, Active
<1>8. FilesListed' /\ WorkersPlaced'
  <2>1. \A c \in Calls, w \in Workers : wk'[c][w].idx < next'[c]
    BY <1>1, <1>4, <1>5
  <2> QED BY <1>1, <1>4, <2>1 DEF FilesListed, WorkersPlaced, DistinctFiles
<1>9. Accounts'
  <2>1. \A c \in Calls : Busy(c)' = {}
    BY <1>1, <1>4 DEF Busy
  <2>2. ProgressExact'
    BY <1>1 DEF Accounts, ProgressExact
  <2> QED BY <1>1, <2>1, <2>2 DEF Accounts
<1> QED BY <1>6, <1>7, <1>8, <1>9

---------------------------------------------------------------------------
\* Every step keeps the inductive invariant.
LEMMA NextInv == MoverInv /\ [Next]_vars => MoverInv'
<1> SUFFICES ASSUME MoverInv, [Next]_vars PROVE MoverInv'
  OBVIOUS
<1>1. ASSUME NEW c \in Calls, Handle(c) PROVE MoverInv'
  BY <1>1, HandleKeeps
<1>2. ASSUME NEW c \in Calls, JobStep(c) PROVE MoverInv'
  BY <1>2, StartKeeps, EndKeeps, TakeKeeps, WorkKeeps DEF JobStep
<1>3. ASSUME NEW p \in Arrivals, Arrive(p) PROVE MoverInv'
  BY <1>3, ArriveKeeps
<1>4. CASE Restart
  BY <1>4, RestartKeeps
<1>5. ASSUME NEW p \in DirArrivals, ArriveDir(p) PROVE MoverInv'
  BY <1>5, ArriveDirKeeps
<1>6. CASE UNCHANGED vars
  <2> USE <1>6 DEF MoverInv
  <2>1. TypeOK'
    BY DEF vars, TypeOK
  <2>2. Registered' /\ OneJobPerSource' /\ FilesListed' /\ WorkersPlaced'
    BY DEF vars, Registered, OneJobPerSource, FilesListed, WorkersPlaced, DistinctFiles
  <2>3. \A c \in Calls : Busy(c)' = Busy(c) /\ Counted(c)' = Counted(c)
    BY DEF vars, Busy, Counted
  <2>4. Accounts'
    BY <2>3 DEF vars, Accounts, ProgressExact
  <2> QED BY <2>1, <2>2, <2>4
<1> QED BY <1>1, <1>2, <1>3, <1>4, <1>5, <1>6 DEF Next

\* The registry, the pools' indices and the counters of every job agree,
\* whatever requests, jobs, worker threads, other writers, I/O errors and
\* restarts interleave: the inductive invariant behind the theorems below.
THEOREM MoverInvariant == Spec => []MoverInv
<1>1. Init => MoverInv
  BY InitInv
<1>2. MoverInv /\ [Next]_vars => MoverInv'
  BY NextInv
<1> QED BY <1>1, <1>2, PTL DEF Spec

\* The file system maps names to inodes, directories or nothing, a worker's
\* index stays within its job's list of files, and a job that runs has a
\* request.
THEOREM MoverTypes == Spec => []TypeOK
<1>1. MoverInv => TypeOK
  BY DEF MoverInv
<1> QED BY <1>1, MoverInvariant, PTL

\* The look-up and the insertion of a job are one step under the registry's
\* lock, so no two active moves ever have the same source, and no two active
\* copies the same source and destination (handle_move_copy), however many
\* requests race.
THEOREM OneJobEach == Spec => []OneJobPerSource
<1>1. MoverInv => OneJobPerSource
  BY DEF MoverInv
<1> QED BY <1>1, MoverInvariant, PTL

\* next.fetch_add(1) hands every file of a job to one worker thread only
\* (run_job, run_delete_job), however many threads the pool has.
THEOREM FilesTakenOnce == Spec => []DistinctFiles
<1>1. MoverInv => DistinctFiles
  BY DEF MoverInv, WorkersPlaced
<1> QED BY <1>1, MoverInvariant, PTL

\* done_files never passes total_files, and a job whose status is "done" has
\* counted every file it walked, whichever way its threads went through them.
THEOREM ProgressIsExact == Spec => []ProgressExact
<1>1. MoverInv => ProgressExact
  BY DEF MoverInv, Accounts
<1> QED BY <1>1, MoverInvariant, PTL
===========================================================================
