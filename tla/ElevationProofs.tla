-------------------------- MODULE ElevationProofs ---------------------------
(***************************************************************************)
(* What Elevation promises for any number of calls, any requests, trees,   *)
(* chunks and faults.                                                      *)
(*                                                                         *)
(* The argument: a call works under the destinations that its request can  *)
(* be resolved to, and none of them overlaps a temp file; so a temp file   *)
(* is made and removed by its own call only.  And a helper runs only while *)
(* its handler waits for it, or is gone, so that nothing happens to the    *)
(* temp file once the call is answered.                                    *)
(***************************************************************************)
EXTENDS Elevation, PathProofs, TLAPS

\* What a handler and its helper do fits the request.
FitsOp(a, h, op) ==
  /\ a \in {"receive", "body", "parent", "place", "create", "copying"} => op = "put"
  /\ a \in {"mkdir", "rename", "delete"} => op = a
  /\ a = "check" => op \in {"rename", "move", "copy"}
  /\ h = "parent" => op = "put"
  /\ h \in {"mkdir", "delete"} => op = h
  /\ h = "check" => op \in {"rename", "move", "copy"}
  /\ h = "rename" => op \in {"rename", "move"}
  /\ h = "copy" => op \in {"put", "move", "copy"}
  /\ h = "conflict" => op \in {"move", "copy"}

Running(h) == h \notin HelperOver \cup {"none"}

\* What is known of one call, whatever the others do.
CallInv(c) ==
  /\ c \in Begun => /\ rq[c] \in Requests
                    /\ final[c] \in Settled(rq[c].dst, Name(rq[c].src))
                    /\ FitsOp(at[c], hp[c], rq[c].op)
  /\ hp[c] # "none" => at[c] \in Over \cup {"waiting"} /\ goal[c] \in Destinations(rq[c])
  /\ Running(hp[c]) => at[c] \in {"waiting", "gone"}
  /\ todo[c] # {} => hp[c] # "none"
  /\ \A e \in todo[c] : \E g \in Destinations(rq[c]) : Under(g, e.to)

\* Temp files lie in a directory that stays, and are no directories.
TmpsPlaced ==
  \A c \in Calls : ~IsDir(Tmp(c)) /\ (Len(Tmp(c)) = 1 \/ IsDir(Parent(Tmp(c))))

\* A call has no temp file before it makes one and none after its answer, but
\* has it as long as the handler itself needs it.
Holding == {"body", "parent", "place", "create", "copying"}
TmpInv(c) ==
  /\ at[c] \in {"idle", "receive"} => ~Exists(Tmp(c))
  /\ at[c] \in Holding => Exists(Tmp(c))
  /\ c \in Begun /\ rq[c].op = "put" =>
       /\ at[c] \in Answers /\ hp[c] # "error" => ~Exists(Tmp(c))
       /\ hp[c] = "ok" => ~Exists(Tmp(c))
TmpsInv == \A c \in Calls : TmpInv(c)

CallsTyped ==
  /\ at \in [Calls -> Places] /\ hp \in [Calls -> HelperPlaces]
  /\ rq \in [Calls -> Requests \cup {None}]
  /\ final \in [Calls -> Seq(Names)] /\ goal \in [Calls -> Seq(Names)]
  /\ todo \in [Calls -> SUBSET [from : Paths, to : Seq(Names)]]

CallsInv == CallsTyped /\ \A c \in Calls : CallInv(c)

FilesTyped ==
  /\ fs \in [Paths -> {None, Dir} \cup Inodes]
  /\ \A p \in Paths : Exists(p) => ParentIsDir(p)
  /\ DOMAIN data \subseteq Inodes /\ \A p \in Paths : IsFile(p) => fs[p] \in DOMAIN data
  /\ \A i \in DOMAIN data : data[i] \in [1 .. Chunks -> Blobs \cup {Hole}]

FilesInv == FilesTyped /\ TmpsPlaced

CopiesTyped ==
  cp \in [Calls -> {NoCopy} \cup [from : DOMAIN data, to : DOMAIN data, pos : 1 .. Chunks]]

ElevationInv == TypeOK /\ CallsInv /\ TmpsPlaced /\ TmpsInv

---------------------------------------------------------------------------
\* The constants.

\* Paths are sequences of names, with all paths above them.
LEMMA PathFacts ==
  ASSUME NEW p \in Paths
  PROVE  /\ p \in Seq(Names) /\ Len(p) \in Nat /\ Len(p) # 0
         /\ \A q \in Prefixes(p) : q \in Paths
         /\ Len(p) # 1 => Parent(p) \in Paths
<1>1. p \in Seq(Names) /\ Len(p) \in Nat /\ Len(p) # 0
  <2>1. p \in Seq(Names) /\ p # <<>>
    BY PathsAssumption
  <2> QED BY <2>1, EmptySeq
<1>2. \A q \in Prefixes(p) : q \in Paths
  BY PathsAssumption
<1>3. Len(p) # 1 => Parent(p) \in Paths
  <2>1. Parent(p) \in Seq(Names) /\ Len(Parent(p)) = Len(p) - 1 /\ Under(Parent(p), p)
    BY <1>1, ParentAbove
  <2>2. Len(p) # 1 => Len(Parent(p)) # 0
    BY <1>1, <2>1
  <2>3. Len(p) # 1 => Parent(p) \in Prefixes(p)
    BY <1>1, <2>1, <2>2, PrefixesAbove
  <2> QED BY <1>2, <2>3
<1> QED BY <1>1, <1>2, <1>3

\* A temp file is a path, and lies under the temp file of no other call.
LEMMA TmpFacts ==
  ASSUME NEW c \in Calls
  PROVE  /\ Tmp(c) \in Paths /\ Tmp(c) \in Blobs
         /\ \A d \in Calls : Under(Tmp(c), Tmp(d)) => c = d
BY TempsAssumption DEF Temps, Blobs, Overlap

\* A request's source and where it can end are paths off the temp files.
LEMMA RequestFacts ==
  ASSUME NEW r \in Requests
  PROVE  /\ r.op \in Ops /\ r.src \in Paths /\ r.dst \in Paths
         /\ r.dst \in Settled(r.dst, Name(r.src)) /\ r.dst \in Destinations(r)
         /\ r.op \in {"move", "copy"} =>
              \A d \in Settled(r.dst, Name(r.src)) :
                d \in Destinations(r) /\ Settled(d, Name(r.src)) \subseteq Destinations(r)
         /\ \A g \in Destinations(r) : g \in Seq(Names)
         /\ \A p \in {r.src} \cup Destinations(r), c \in Calls : ~Overlap(p, Tmp(c))
<1>1. r.op \in Ops /\ r.src \in Paths /\ r.dst \in Paths
  BY RequestsAssumption DEF Request
<1>2. \A p : \A n : p \in Settled(p, n)
  BY DEF Settled
<1> DEFINE n == Name(r.src)
<1>3. r.op \in {"move", "copy"} => Destinations(r) = UNION {Settled(p, n) : p \in Settled(r.dst, n)}
  BY DEF Destinations
<1>4. r.op \in {"move", "copy"} =>
        \A d \in Settled(r.dst, n) : d \in Destinations(r) /\ Settled(d, n) \subseteq Destinations(r)
  BY <1>2, <1>3
<1>5. r.dst \in Destinations(r)
  <2>1. CASE r.op \in {"move", "copy"}
    BY <1>2, <1>4, <2>1
  <2>2. CASE r.op \notin {"move", "copy"}
    BY <2>2 DEF Destinations
  <2> QED BY <2>1, <2>2
<1>6. /\ \A g \in Destinations(r) : g \in Seq(Names)
      /\ \A p \in {r.src} \cup Destinations(r), c \in Calls : ~Overlap(p, Tmp(c))
  BY RequestsAssumption DEF Temps
<1> QED BY <1>1, <1>2, <1>4, <1>5, <1>6

\* A path at or below a destination is at or below no temp file and above none.
LEMMA BelowGoal ==
  ASSUME NEW r \in Requests, NEW g \in Destinations(r), NEW p \in Seq(Names), Under(g, p),
         NEW c \in Calls
  PROVE  ~Overlap(p, Tmp(c))
<1>1. g \in Seq(Names) /\ Tmp(c) \in Seq(Names) /\ ~Overlap(g, Tmp(c))
  BY RequestFacts, TmpFacts, PathFacts
<1>2. ~Under(p, Tmp(c))
  BY <1>1, UnderOrder DEF Overlap
<1>3. ~Under(Tmp(c), p)
  BY <1>1, AboveOverlap
<1> QED BY <1>2, <1>3 DEF Overlap

\* The least number that leaves the name free, or the last one.
LEMMA FreeDst ==
  ASSUME NEW n, NEW p
  PROVE  /\ free_dst(p) \in {p} \cup {Numbered(p, i) : i \in 2 .. LastNumber}
         /\ Resolve(n, p) \in {p, Append(p, Name(n))}
<1> DEFINE free == {i \in 2 .. LastNumber : ~Exists(Numbered(p, i))}
<1>1. CASE free # {}
  <2>1. PICK m \in free : \A k \in free : m <= k
    <3>1. free \subseteq Nat
      BY BoundsAssumption
    <3> HIDE DEF free
    <3> QED BY <1>1, <3>1, Least
  <2>2. (CHOOSE i \in free : \A k \in free : i <= k) \in free
    <3> HIDE DEF free
    <3> QED BY <2>1
  <2> QED BY <1>1, <2>2 DEF free_dst, Resolve
<1>2. CASE free = {}
  <2>1. LastNumber \in 2 .. LastNumber
    BY BoundsAssumption
  <2> QED BY <1>2, <2>1 DEF free_dst, Resolve
<1> QED BY <1>1, <1>2

---------------------------------------------------------------------------
\* The file system.

LEMMA Entry ==
  ASSUME FilesTyped
  PROVE  /\ \A p : Exists(p) <=> p \in Paths /\ fs[p] # None
         /\ \A p : IsDir(p) <=> p \in Paths /\ fs[p] = Dir
         /\ \A p : IsFile(p) <=> p \in Paths /\ fs[p] \in Inodes
BY NamesAssumption DEF FilesTyped, Exists, IsDir, IsFile

\* What makes a new tree one: entries of the right kind, each in a directory,
\* and the temp files where they belong.
LEMMA NewTree ==
  ASSUME fs' \in [Paths -> {None, Dir} \cup Inodes],
         DOMAIN data' \subseteq Inodes,
         \A i \in DOMAIN data' : data'[i] \in [1 .. Chunks -> Blobs \cup {Hole}],
         \A p \in Paths : fs'[p] \in Inodes => fs'[p] \in DOMAIN data',
         \A p \in Paths : fs'[p] # None /\ Len(p) # 1 => fs'[Parent(p)] = Dir,
         \A c \in Calls : fs'[Tmp(c)] # Dir,
         \A c \in Calls : Len(Tmp(c)) # 1 => fs'[Parent(Tmp(c))] = Dir
  PROVE  FilesInv'
<1>1. /\ \A p : Exists(p)' <=> p \in Paths /\ fs'[p] # None
      /\ \A p : IsDir(p)' <=> p \in Paths /\ fs'[p] = Dir
      /\ \A p : IsFile(p)' <=> p \in Paths /\ fs'[p] \in Inodes
  BY NamesAssumption DEF Exists, IsDir, IsFile
<1>2. \A p \in Paths : Exists(p)' => ParentIsDir(p)'
  BY <1>1, PathFacts DEF ParentIsDir
<1>3. FilesTyped'
  BY <1>1, <1>2 DEF FilesTyped
<1>4. TmpsPlaced'
  BY <1>1, TmpFacts, PathFacts DEF TmpsPlaced
<1> QED BY <1>3, <1>4 DEF FilesInv

LEMMA NewFiles ==
  ASSUME FilesInv, fs' \in [Paths -> {None, Dir} \cup Inodes], data' = data,
         \A p \in Paths : fs'[p] \in Inodes => fs'[p] \in DOMAIN data,
         \A p \in Paths : fs'[p] # None /\ Len(p) # 1 => fs'[Parent(p)] = Dir,
         \A c \in Calls : fs'[Tmp(c)] # Dir,
         \A c \in Calls : Len(Tmp(c)) # 1 => fs'[Parent(Tmp(c))] = Dir
  PROVE  FilesInv'
<1>1. /\ DOMAIN data' \subseteq Inodes
      /\ \A i \in DOMAIN data' : data'[i] \in [1 .. Chunks -> Blobs \cup {Hole}]
      /\ \A p \in Paths : fs'[p] \in Inodes => fs'[p] \in DOMAIN data'
  BY DEF FilesInv, FilesTyped
<1> QED BY <1>1, NewTree

\* What FilesInv says of the entries.
LEMMA OldFiles ==
  ASSUME FilesInv
  PROVE  /\ fs \in [Paths -> {None, Dir} \cup Inodes]
         /\ \A p \in Paths : fs[p] \in Inodes => fs[p] \in DOMAIN data
         /\ \A p \in Paths : fs[p] # None /\ Len(p) # 1 => fs[Parent(p)] = Dir
         /\ \A c \in Calls : fs[Tmp(c)] # Dir
         /\ \A c \in Calls : Len(Tmp(c)) # 1 => fs[Parent(Tmp(c))] = Dir
<1>1. FilesTyped /\ TmpsPlaced
  BY DEF FilesInv
<1> QED BY <1>1, Entry, PathFacts, TmpFacts DEF FilesTyped, TmpsPlaced, ParentIsDir

\* create_dir_all keeps the tree, and the temp files as they are.
LEMMA DirsMade ==
  ASSUME FilesInv, NEW who, NEW p \in Seq(Names), MkdirResult(who, p) = "ok",
         \A c \in Calls : ~Under(Tmp(c), p),
         fs' = WithDirs(p), data' = data
  PROVE  FilesInv' /\ \A c \in Calls : fs'[Tmp(c)] = fs[Tmp(c)]
<1>1. \A q \in Prefixes(p) : q \in Paths /\ fs[q] \in {None, Dir}
  BY Entry, OldFiles DEF MkdirResult, FilesInv
<1>2. \A q \in Paths : fs'[q] = IF q \in Prefixes(p) THEN Dir ELSE fs[q]
  BY DEF WithDirs
<1>3. fs' \in [Paths -> {None, Dir} \cup Inodes]
  BY <1>2, OldFiles DEF WithDirs
<1>4. \A q \in Paths : fs'[q] \in Inodes => fs'[q] \in DOMAIN data
  BY <1>2, OldFiles, NamesAssumption
<1>5. ASSUME NEW q \in Paths, fs'[q] # None, Len(q) # 1 PROVE fs'[Parent(q)] = Dir
  <2>0. Parent(q) \in Paths /\ q \in Seq(Names) /\ Len(q) \in Nat /\ Len(q) # 0
    BY <1>5, PathFacts
  <2>1. CASE q \in Prefixes(p)
    <3>0. Under(q, p)
      BY <2>1, PrefixesAbove
    <3>1. Parent(q) \in Seq(Names) /\ Under(Parent(q), q) /\ Len(Parent(q)) # 0
      <4>1. Parent(q) \in Seq(Names) /\ Len(Parent(q)) # 0
        BY <2>0, PathFacts
      <4>2. Under(Parent(q), q)
        BY <2>0, ParentAbove
      <4> QED BY <4>1, <4>2
    <3>2. Under(Parent(q), p)
      BY <2>0, <3>0, <3>1, UnderOrder
    <3>3. Parent(q) \in Prefixes(p)
      BY <3>1, <3>2, PrefixesAbove
    <3> QED BY <1>2, <2>0, <3>3
  <2>2. CASE q \notin Prefixes(p)
    BY <1>2, <1>5, <2>0, <2>2, OldFiles
  <2> QED BY <2>1, <2>2
<1>6. ASSUME NEW c \in Calls PROVE fs'[Tmp(c)] = fs[Tmp(c)]
  BY <1>2, PrefixesAbove, TmpFacts
<1>7. \A c \in Calls : fs'[Tmp(c)] # Dir
  BY <1>6, OldFiles
<1>8. \A c \in Calls : Len(Tmp(c)) # 1 => fs'[Parent(Tmp(c))] = Dir
  BY <1>2, OldFiles, TmpFacts, PathFacts
<1> QED BY <1>3, <1>4, <1>5, <1>6, <1>7, <1>8, NewFiles

\* So does the removal of a tree that holds no temp file.
LEMMA TreeRemoved ==
  ASSUME FilesInv, NEW p \in Seq(Names), \A c \in Calls : ~Under(p, Tmp(c)),
         fs' = Removed(p), data' = data
  PROVE  FilesInv' /\ \A c \in Calls : fs'[Tmp(c)] = fs[Tmp(c)]
<1>1. \A q \in Paths : fs'[q] = IF Under(p, q) THEN None ELSE fs[q]
  BY DEF Removed
<1>2. fs' \in [Paths -> {None, Dir} \cup Inodes]
  BY <1>1, OldFiles DEF Removed
<1>3. \A q \in Paths : fs'[q] \in Inodes => fs'[q] \in DOMAIN data
  BY <1>1, OldFiles, NamesAssumption
<1>4. ASSUME NEW q \in Paths, ~Under(p, q), Len(q) # 1
      PROVE  Parent(q) \in Paths /\ ~Under(p, Parent(q))
  BY <1>4, PathFacts, ParentAbove
<1>5. \A q \in Paths : fs'[q] # None /\ Len(q) # 1 => fs'[Parent(q)] = Dir
  BY <1>1, <1>4, OldFiles
<1>6. \A c \in Calls : fs'[Tmp(c)] = fs[Tmp(c)]
  BY <1>1, TmpFacts
<1>7. \A c \in Calls : fs'[Tmp(c)] # Dir
  BY <1>6, OldFiles
<1>8. \A c \in Calls : Len(Tmp(c)) # 1 => fs'[Parent(Tmp(c))] = Dir
  BY <1>1, <1>4, OldFiles, TmpFacts
<1> QED BY <1>2, <1>3, <1>5, <1>6, <1>7, <1>8, NewFiles

\* And the removal of part of it that leaves nothing without its directory.
LEMMA PartRemoved ==
  ASSUME FilesInv, NEW p \in Seq(Names), \A c \in Calls : ~Under(p, Tmp(c)),
         NEW S \in Removals(p), fs' = Without(S), data' = data
  PROVE  FilesInv' /\ \A c \in Calls : fs'[Tmp(c)] = fs[Tmp(c)]
<1>1. \A q \in Paths : fs'[q] = IF q \in S THEN None ELSE fs[q]
  BY DEF Without
<1>2. fs' \in [Paths -> {None, Dir} \cup Inodes]
  BY <1>1, OldFiles DEF Without
<1>3. \A q \in Paths : fs'[q] \in Inodes => fs'[q] \in DOMAIN data
  BY <1>1, OldFiles, NamesAssumption
<1>4. /\ \A q \in S : q \in Paths /\ Under(p, q)
      /\ \A q \in S, o \in Paths : Under(q, o) /\ Exists(o) => o \in S
  BY DEF Removals
<1>5. ASSUME NEW q \in Paths, fs'[q] # None, Len(q) # 1 PROVE fs'[Parent(q)] = Dir
  <2>1. fs[q] # None /\ q \notin S /\ Exists(q)
    BY <1>1, <1>5, OldFiles DEF Exists
  <2>2. Parent(q) \in Paths /\ Under(Parent(q), q) /\ fs[Parent(q)] = Dir
    BY <1>5, <2>1, PathFacts, ParentAbove, OldFiles
  <2> QED BY <1>1, <1>4, <2>1, <2>2
<1>6. \A c \in Calls : fs'[Tmp(c)] = fs[Tmp(c)]
  BY <1>1, <1>4, TmpFacts
<1>7. \A c \in Calls : fs'[Tmp(c)] # Dir
  BY <1>6, OldFiles
<1>8. ASSUME NEW c \in Calls, Len(Tmp(c)) # 1 PROVE fs'[Parent(Tmp(c))] = Dir
  <2>1. Parent(Tmp(c)) \in Paths /\ Under(Parent(Tmp(c)), Tmp(c)) /\ fs[Parent(Tmp(c))] = Dir
    BY <1>8, TmpFacts, PathFacts, ParentAbove, OldFiles
  <2>2. Parent(Tmp(c)) \notin S
    <3>1. Under(p, Parent(Tmp(c))) => Under(p, Tmp(c))
      BY <1>8, <2>1, TmpFacts, PathFacts, UnderOrder
    <3> QED BY <1>4, <3>1
  <2> QED BY <1>1, <2>1, <2>2
<1> QED BY <1>2, <1>3, <1>5, <1>6, <1>7, <1>8, NewFiles

\* A temp file goes, and no other one.
LEMMA TmpDropped ==
  ASSUME FilesInv, NEW c \in Calls, DropTmp(c), data' = data
  PROVE  /\ FilesInv' /\ fs'[Tmp(c)] = None
         /\ \A d \in Calls \ {c} : fs'[Tmp(d)] = fs[Tmp(d)]
<1>0. fs' = [fs EXCEPT ![Tmp(c)] = None] /\ Tmp(c) \in Paths
  BY TmpFacts DEF DropTmp
<1>1. /\ \A q \in Paths : fs'[q] = IF q = Tmp(c) THEN None ELSE fs[q]
      /\ fs' \in [Paths -> {None, Dir} \cup Inodes]
  BY <1>0, OldFiles
<1>3. \A q \in Paths : fs'[q] \in Inodes => fs'[q] \in DOMAIN data
  BY <1>1, OldFiles, NamesAssumption
<1>5. \A q \in Paths : fs'[q] # None /\ Len(q) # 1 => fs'[Parent(q)] = Dir
  BY <1>1, OldFiles, PathFacts
<1>6. \A d \in Calls \ {c} : fs'[Tmp(d)] = fs[Tmp(d)]
  <2>1. \A d \in Calls \ {c} : Tmp(d) # Tmp(c)
    BY TempsAssumption, TmpFacts, PathFacts, UnderOrder DEF Overlap
  <2> QED BY <1>1, <2>1, TmpFacts
<1>7. \A d \in Calls : fs'[Tmp(d)] # Dir
  BY <1>1, OldFiles, TmpFacts, NamesAssumption
<1>8. \A d \in Calls : Len(Tmp(d)) # 1 => fs'[Parent(Tmp(d))] = Dir
  BY <1>1, OldFiles, TmpFacts, PathFacts
<1>9. fs'[Tmp(c)] = None
  BY <1>0, <1>1
<1> QED BY <1>1, <1>3, <1>5, <1>6, <1>7, <1>8, <1>9, NewFiles

\* The files are left alone.
LEMMA FilesStay ==
  ASSUME FilesInv, UNCHANGED files
  PROVE  FilesInv' /\ (\A d \in Calls : fs'[Tmp(d)] = fs[Tmp(d)]) /\ (CopiesTyped /\ cp' = cp => CopiesTyped')
<1>1. fs' = fs /\ data' = data
  BY DEF files
<1> QED BY <1>1 DEF FilesInv, FilesTyped, TmpsPlaced, CopiesTyped, Exists, IsFile, IsDir, ParentIsDir

\* A rename keeps the tree; it takes a temp file away only as its source.
LEMMA TreeRenamedAway ==
  ASSUME FilesInv, NEW who, NEW s \in Paths, NEW d \in Seq(Names),
         RenameResult(who, s, d) = "ok", s # d,
         \A c \in Calls : ~Overlap(d, Tmp(c)),
         \A c \in Calls : Under(s, Tmp(c)) => s = Tmp(c),
         fs' = Renamed(s, d), data' = data
  PROVE  /\ FilesInv'
         /\ \A c \in Calls : fs'[Tmp(c)] = IF s = Tmp(c) THEN None ELSE fs[Tmp(c)]
<1>0. /\ d \in Paths /\ ParentIsDir(s) /\ ParentIsDir(d) /\ Exists(s) /\ ~Overlap(s, d)
      /\ s \in Seq(Names) /\ Len(s) # 0 /\ Len(d) # 0 /\ Len(d) \in Nat
  BY PathFacts DEF RenameResult
<1> DEFINE from(q) == s \o Rel(d, q)
<1>1. \A q \in Paths :
        fs'[q] = IF Under(d, q) THEN IF from(q) \in Paths THEN fs[from(q)] ELSE None
                 ELSE IF Under(s, q) THEN None ELSE fs[q]
  BY DEF Renamed
<1>2. fs' \in [Paths -> {None, Dir} \cup Inodes]
  <2>1. fs' = [q \in Paths |-> fs'[q]]
    BY DEF Renamed
  <2>2. \A q \in Paths : fs'[q] \in {None, Dir} \cup Inodes
    <3> HIDE DEF from
    <3> QED BY <1>1, OldFiles
  <2> QED BY <2>1, <2>2
<1>3. \A q \in Paths : fs'[q] \in Inodes => fs'[q] \in DOMAIN data
  <2> HIDE DEF from
  <2> QED BY <1>1, OldFiles, NamesAssumption
<1>4. ASSUME NEW q \in Paths, fs'[q] # None, Len(q) # 1 PROVE fs'[Parent(q)] = Dir
  <2>0. /\ q \in Seq(Names) /\ Len(q) \in Nat /\ Len(q) # 0
        /\ Parent(q) \in Paths /\ Parent(q) \in Seq(Names)
        /\ Under(Parent(q), q)
        /\ \A r \in Seq(Names) : Under(r, q) /\ r # q => Under(r, Parent(q))
        /\ \A r \in Seq(Names) : Under(r, Parent(q)) => Under(r, q) /\ r # q
    BY <1>4, PathFacts, ParentAbove
  <2>1. CASE ~Under(d, q)
    <3>1. ~Under(s, q) /\ fs[q] # None
      BY <1>1, <1>4, <2>1
    <3>2. ~Under(d, Parent(q)) /\ ~Under(s, Parent(q))
      BY <1>0, <2>0, <2>1, <3>1
    <3> QED BY <1>1, <1>4, <2>0, <3>1, <3>2, OldFiles
  <2>2. CASE q = d
    <3>1. fs[Parent(d)] = Dir
      BY <1>0, <1>4, <2>2, Entry DEF ParentIsDir, FilesInv
    <3>2. ~Under(d, Parent(q)) /\ ~Under(s, Parent(q))
      BY <1>0, <2>0, <2>2 DEF Overlap
    <3> QED BY <1>1, <2>0, <2>2, <3>1, <3>2
  <2>3. CASE Under(d, q) /\ q # d
    <3>1. from(q) \in Paths /\ fs[from(q)] # None
      BY <1>1, <1>4, <2>3
    <3>2. /\ Len(from(q)) = Len(s) + Len(q) - Len(d) /\ Len(d) <= Len(q) - 1
          /\ Parent(from(q)) = from(Parent(q))
      <4>1. s \in Seq(Names) /\ d \in Seq(Names) /\ q \in Seq(Names) /\ Under(d, q) /\ Len(s) # 0
        BY <1>0, <2>0, <2>3
      <4>2. /\ Len(s \o Rel(d, q)) = Len(s) + Len(q) - Len(d)
            /\ q # d => /\ Len(q) # 0 /\ Len(d) <= Len(q) - 1
                        /\ Parent(s \o Rel(d, q)) = s \o Rel(d, Parent(q))
        BY <4>1, Grafted
      <4> QED BY <2>3, <4>2
    <3>3. Len(from(q)) # 1
      <4>1. Len(s) \in Nat /\ Len(d) \in Nat /\ Len(q) \in Nat
        BY <1>0, <2>0
      <4> QED BY <1>0, <3>2, <4>1
    <3>4. fs[from(Parent(q))] = Dir /\ from(Parent(q)) \in Paths
      <4> HIDE DEF from
      <4> QED BY <3>1, <3>2, <3>3, OldFiles, PathFacts
    <3>5. Under(d, Parent(q))
      BY <1>0, <2>0, <2>3, PathFacts
    <3> QED BY <1>1, <2>0, <3>4, <3>5
  <2> QED BY <2>1, <2>2, <2>3
<1>5. ASSUME NEW c \in Calls PROVE fs'[Tmp(c)] = IF s = Tmp(c) THEN None ELSE fs[Tmp(c)]
  <2>1. Tmp(c) \in Paths /\ ~Under(d, Tmp(c)) /\ Under(s, s)
    BY <1>0, TmpFacts, UnderOrder DEF Overlap
  <2> QED BY <1>1, <2>1
<1>6. ASSUME NEW c \in Calls, Len(Tmp(c)) # 1 PROVE fs'[Parent(Tmp(c))] = Dir
  <2>1. /\ Tmp(c) \in Paths /\ Tmp(c) \in Seq(Names) /\ Len(Tmp(c)) # 0
        /\ Parent(Tmp(c)) \in Paths
    BY <1>6, TmpFacts, PathFacts
  <2>2. ~Under(d, Parent(Tmp(c)))
    BY <1>0, <2>1, ParentAbove DEF Overlap
  <2>3. ~Under(s, Parent(Tmp(c)))
    BY <1>0, <2>1, ParentAbove
  <2> QED BY <1>1, <1>6, <2>1, <2>2, <2>3, OldFiles
<1>7. \A c \in Calls : fs'[Tmp(c)] # Dir
  BY <1>5, OldFiles, NamesAssumption
<1> QED BY <1>2, <1>3, <1>4, <1>5, <1>6, <1>7, NewFiles

\* ... and a rename to the same name changes nothing.
LEMMA RenamedToItself ==
  ASSUME FilesTyped, NEW s \in Paths, fs' = Renamed(s, s)
  PROVE  fs' = fs
<1>1. \A q \in Paths : Under(s, q) => s \o Rel(s, q) = q
  BY PathFacts, GraftBack
<1>2. \A q \in Paths : fs'[q] = fs[q]
  BY <1>1 DEF Renamed
<1>3. fs' = [q \in Paths |-> fs'[q]] /\ fs = [q \in Paths |-> fs[q]]
  BY DEF Renamed, FilesTyped
<1> QED BY <1>2, <1>3

LEMMA TreeRenamed ==
  ASSUME FilesInv, NEW who, NEW s \in Paths, NEW d \in Seq(Names),
         RenameResult(who, s, d) = "ok",
         \A c \in Calls : ~Overlap(d, Tmp(c)),
         \A c \in Calls : Under(s, Tmp(c)) => s = Tmp(c),
         fs' = Renamed(s, d), data' = data
  PROVE  /\ FilesInv'
         /\ \A c \in Calls : fs'[Tmp(c)] = IF s = Tmp(c) THEN None ELSE fs[Tmp(c)]
<1>1. CASE s # d
  BY <1>1, TreeRenamedAway
<1>2. CASE s = d
  <2>1. fs' = fs
    BY <1>2, RenamedToItself DEF FilesInv
  <2>2. FilesInv'
    BY <2>1, FilesStay DEF files
  <2>3. \A c \in Calls : s # Tmp(c)
    BY <1>2, PathFacts, UnderOrder DEF Overlap
  <2> QED BY <2>1, <2>2, <2>3
<1> QED BY <1>1, <1>2

\* A file is created or truncated where no directory is, in one that is there.
LEMMA FileCreated ==
  ASSUME FilesInv, NEW who \in Users, NEW c \in Calls, NEW p \in Paths,
         ~IsDir(p), ParentIsDir(p),
         NEW contents \in [1 .. Chunks -> Blobs \cup {Hole}], Create(who, c, p, contents)
  PROVE  /\ FilesInv'
         /\ DOMAIN data \subseteq DOMAIN data' /\ Created(who, c, p) \in DOMAIN data'
         /\ fs'[p] \in Inodes /\ \A q \in Paths : q # p => fs'[q] = fs[q]
<1> DEFINE i == Created(who, c, p)
<1>1. i \in Inodes
  <2>1. [by |-> who, call |-> c, path |-> p] \in Inodes
    BY DEF Inodes
  <2> QED BY <2>1, Entry DEF Created, FilesInv
<1>2. /\ fs' = [fs EXCEPT ![p] = i]
      /\ data' = [j \in DOMAIN data \cup {i} |-> IF j = i THEN contents ELSE data[j]]
  BY DEF Create
<1> HIDE DEF i
<1>3. /\ fs' \in [Paths -> {None, Dir} \cup Inodes]
      /\ \A q \in Paths : fs'[q] = IF q = p THEN i ELSE fs[q]
  BY <1>1, <1>2, OldFiles
<1>4. /\ DOMAIN data' = DOMAIN data \cup {i}
      /\ DOMAIN data' \subseteq Inodes
      /\ \A j \in DOMAIN data' : data'[j] \in [1 .. Chunks -> Blobs \cup {Hole}]
  BY <1>1, <1>2 DEF FilesInv, FilesTyped
<1>5. \A q \in Paths : fs'[q] \in Inodes => fs'[q] \in DOMAIN data'
  BY <1>3, <1>4, OldFiles
<1>6. fs[p] # Dir /\ (Len(p) # 1 => fs[Parent(p)] = Dir)
  BY Entry DEF FilesInv, ParentIsDir
<1>7. \A q \in Paths : fs'[q] # None /\ Len(q) # 1 => fs'[Parent(q)] = Dir
  BY <1>3, <1>6, OldFiles, PathFacts
<1>8. \A d \in Calls : fs'[Tmp(d)] # Dir
  BY <1>1, <1>3, OldFiles, TmpFacts, NamesAssumption
<1>9. \A d \in Calls : Len(Tmp(d)) # 1 => fs'[Parent(Tmp(d))] = Dir
  BY <1>3, <1>6, OldFiles, TmpFacts, PathFacts
<1>10. FilesInv'
  BY <1>3, <1>4, <1>5, <1>7, <1>8, <1>9, NewTree
<1> QED BY <1>1, <1>3, <1>4, <1>10 DEF i

\* The temp file of a put is created, whatever is there under its name.
LEMMA TmpCreated ==
  ASSUME FilesInv, NEW c \in Calls, NEW contents \in [1 .. Chunks -> Blobs \cup {Hole}],
         Create("user", c, Tmp(c), contents)
  PROVE  /\ FilesInv' /\ DOMAIN data \subseteq DOMAIN data' /\ Exists(Tmp(c))'
         /\ \A d \in Calls \ {c} : fs'[Tmp(d)] = fs[Tmp(d)]
<1>1. Tmp(c) \in Paths /\ ~IsDir(Tmp(c)) /\ ParentIsDir(Tmp(c)) /\ "user" \in Users
  BY TmpFacts DEF FilesInv, TmpsPlaced, ParentIsDir, Users
<1>2. \A d \in Calls \ {c} : Tmp(d) \in Paths /\ Tmp(d) # Tmp(c)
  BY TempsAssumption, TmpFacts, PathFacts, UnderOrder DEF Overlap
<1>3. /\ FilesInv' /\ DOMAIN data \subseteq DOMAIN data' /\ fs'[Tmp(c)] \in Inodes
      /\ \A q \in Paths : q # Tmp(c) => fs'[q] = fs[q]
  BY <1>1, FileCreated
<1>4. Exists(Tmp(c))'
  BY <1>1, <1>3, NamesAssumption DEF FilesInv, FilesTyped, Exists
<1> QED BY <1>2, <1>3, <1>4

\* A file under a destination is opened for a copy.
LEMMA CopyOpened ==
  ASSUME FilesInv, CopiesTyped, NEW who \in Users, NEW c \in Calls, NEW s \in Paths, NEW d \in Seq(Names),
         IsFile(s), CreateResult(who, d) = "ok", OpenCopy(who, c, s, d),
         \A t \in Calls : d # Tmp(t)
  PROVE  FilesInv' /\ CopiesTyped' /\ \A t \in Calls : fs'[Tmp(t)] = fs[Tmp(t)]
<1>1. d \in Paths /\ ParentIsDir(d) /\ ~IsDir(d)
  BY DEF CreateResult
<1>2. Empty \in [1 .. Chunks -> Blobs \cup {Hole}]
  BY DEF Empty, Whole
<1>3. /\ FilesInv' /\ DOMAIN data \subseteq DOMAIN data' /\ Created(who, c, d) \in DOMAIN data'
      /\ \A q \in Paths : q # d => fs'[q] = fs[q]
  BY <1>1, <1>2, FileCreated DEF OpenCopy
<1>4. fs[s] \in DOMAIN data
  BY Entry, OldFiles DEF FilesInv
<1>5. CopiesTyped'
  <2>1. 1 \in 1 .. Chunks
    BY BoundsAssumption
  <2>2. cp' = [cp EXCEPT ![c] = [from |-> fs[s], to |-> Created(who, c, d), pos |-> 1]]
    BY DEF OpenCopy
  <2>3. [from |-> fs[s], to |-> Created(who, c, d), pos |-> 1]
          \in [from : DOMAIN data', to : DOMAIN data', pos : 1 .. Chunks]
    BY <1>3, <1>4, <2>1
  <2>4. \A t \in Calls :
          cp[t] \in {NoCopy} \cup [from : DOMAIN data', to : DOMAIN data', pos : 1 .. Chunks]
    BY <1>3 DEF CopiesTyped
  <2> QED BY <2>2, <2>3, <2>4 DEF CopiesTyped
<1> QED BY <1>3, <1>5, TmpFacts

\* One chunk is copied.
LEMMA ChunkCopied ==
  ASSUME FilesInv, CopiesTyped, NEW c \in Calls, cp[c] # NoCopy, CopyChunk(c), fs' = fs
  PROVE  FilesInv' /\ CopiesTyped'
<1> DEFINE i == cp[c].to  k == cp[c].pos
<1>1. cp[c] \in [from : DOMAIN data, to : DOMAIN data, pos : 1 .. Chunks]
  BY DEF CopiesTyped
<1>2. i \in DOMAIN data /\ k \in 1 .. Chunks /\ cp[c].from \in DOMAIN data
  BY <1>1
<1>3. /\ data' = [data EXCEPT ![i] = [data[i] EXCEPT ![k] = data[cp[c].from][k]]]
      /\ cp' = [cp EXCEPT ![c] = IF k = Chunks THEN NoCopy ELSE [cp[c] EXCEPT !.pos = k + 1]]
  BY DEF CopyChunk
<1>4. \A j \in DOMAIN data : data[j] \in [1 .. Chunks -> Blobs \cup {Hole}]
  BY DEF FilesInv, FilesTyped
<1>5. /\ DOMAIN data' = DOMAIN data
      /\ \A j \in DOMAIN data' : data'[j] \in [1 .. Chunks -> Blobs \cup {Hole}]
  <2>1. data[cp[c].from][k] \in Blobs \cup {Hole} /\ data[i] \in [1 .. Chunks -> Blobs \cup {Hole}]
    BY <1>2, <1>4
  <2> HIDE DEF i, k
  <2> DEFINE new == [data[i] EXCEPT ![k] = data[cp[c].from][k]]
  <2>2. new \in [1 .. Chunks -> Blobs \cup {Hole}]
    BY <2>1
  <2>3. data' = [data EXCEPT ![i] = new]
    BY <1>3
  <2> HIDE DEF new
  <2> QED BY <1>4, <2>2, <2>3
<1>6. FilesInv'
  BY <1>5, OldFiles, NewTree DEF FilesInv, FilesTyped
<1>7. CopiesTyped'
  <2>1. k # Chunks => [cp[c] EXCEPT !.pos = k + 1]
                        \in [from : DOMAIN data, to : DOMAIN data, pos : 1 .. Chunks]
    <3>1. k # Chunks => k + 1 \in 1 .. Chunks
      BY <1>2, BoundsAssumption
    <3> QED BY <1>1, <3>1
  <2> HIDE DEF k
  <2> QED BY <1>3, <1>5, <2>1 DEF CopiesTyped
<1> QED BY <1>6, <1>7

\* A copy under way is over.
LEMMA CopyOver ==
  ASSUME CopiesTyped, NEW c \in Calls, cp' = [cp EXCEPT ![c] = NoCopy], data' = data
  PROVE  CopiesTyped'
BY DEF CopiesTyped

---------------------------------------------------------------------------
\* The calls.

\* All that a step of one call changes of the others is the files.
OthersWait(c) ==
  \A d \in Calls \ {c} :
    /\ at'[d] = at[d] /\ hp'[d] = hp[d] /\ rq'[d] = rq[d]
    /\ final'[d] = final[d] /\ goal'[d] = goal[d] /\ todo'[d] = todo[d]

LEMMA OneCall ==
  ASSUME CallsInv, NEW c \in Calls, CallsTyped', OthersWait(c), CallInv(c)'
  PROVE  CallsInv'
<1>1. ASSUME NEW d \in Calls \ {c} PROVE CallInv(d)'
  <2>1. CallInv(d)
    BY DEF CallsInv
  <2>2. /\ at'[d] = at[d] /\ hp'[d] = hp[d] /\ rq'[d] = rq[d]
        /\ final'[d] = final[d] /\ goal'[d] = goal[d] /\ todo'[d] = todo[d]
    BY DEF OthersWait
  <2> QED BY <2>1, <2>2 DEF CallInv, Begun
<1> QED BY <1>1 DEF CallsInv

\* A handler goes on, alone or after its helper has ended.
LEMMA Goes ==
  ASSUME CallsInv, NEW c \in Calls, c \in Begun,
         NEW place \in Places \ {"idle"}, Go(c, place), UNCHANGED <<request, helper>>,
         hp[c] # "none" => place \in Over \cup {"waiting"},
         Running(hp[c]) => place \in {"waiting", "gone"},
         FitsOp(place, hp[c], rq[c].op)
  PROVE  CallsInv' /\ OthersWait(c)
<1>1. at \in [Calls -> Places] /\ CallsTyped /\ CallInv(c)
  BY DEF CallsInv, CallsTyped
<1>2. at'[c] = place /\ at' \in [Calls -> Places] /\ \A d \in Calls \ {c} : at'[d] = at[d]
  BY <1>1 DEF Go
<1>3. hp' = hp /\ rq' = rq /\ final' = final /\ goal' = goal /\ todo' = todo
  BY DEF request, helper
<1>4. CallsTyped' /\ OthersWait(c)
  BY <1>1, <1>2, <1>3 DEF CallsTyped, OthersWait
<1>5. CallInv(c)'
  BY <1>1, <1>2, <1>3 DEF CallInv, Begun
<1> QED BY <1>4, <1>5, OneCall

\* A handler starts its helper.
LEMMA Sudoed ==
  ASSUME CallsInv, NEW c \in Calls, c \in Begun, NEW d, RunSudo(c, d),
         d \in Settled(rq[c].dst, Name(rq[c].src)), d \in Destinations(rq[c])
  PROVE  CallsInv' /\ OthersWait(c) /\ at'[c] = "waiting" /\ hp'[c] = "sudo"
<1>1. CallsTyped /\ CallInv(c)
  BY DEF CallsInv
<1>2. d \in Seq(Names) /\ rq[c] \in Requests
  BY <1>1, RequestFacts DEF CallInv
<1>3. /\ at'[c] = "waiting" /\ hp'[c] = "sudo" /\ final'[c] = d /\ goal'[c] = d
      /\ rq' = rq /\ todo' = todo
      /\ \A k \in Calls \ {c} :
           at'[k] = at[k] /\ hp'[k] = hp[k] /\ final'[k] = final[k] /\ goal'[k] = goal[k]
  BY <1>1 DEF RunSudo, Go, CallsTyped
<1>4. CallsTyped'
  BY <1>1, <1>2 DEF RunSudo, Go, CallsTyped, Places, HelperPlaces
<1>5. OthersWait(c)
  BY <1>3 DEF OthersWait
<1>6. CallInv(c)'
  BY <1>1, <1>2, <1>3 DEF CallInv, Begun, FitsOp, Running
<1> QED BY <1>3, <1>4, <1>5, <1>6, OneCall

\* A helper goes on, within the destinations of its request.
LEMMA Becomes ==
  ASSUME CallsInv, NEW c \in Calls, Running(hp[c]),
         NEW place \in HelperPlaces \ {"none"}, Become(c, place), UNCHANGED <<at, request>>,
         FitsOp(at[c], place, rq[c].op),
         goal' \in [Calls -> Seq(Names)], goal'[c] \in Destinations(rq[c]),
         todo' \in [Calls -> SUBSET [from : Paths, to : Seq(Names)]],
         \A e \in todo'[c] : \E g \in Destinations(rq[c]) : Under(g, e.to),
         \A d \in Calls \ {c} : goal'[d] = goal[d] /\ todo'[d] = todo[d]
  PROVE  CallsInv' /\ OthersWait(c)
<1>1. CallsTyped /\ CallInv(c)
  BY DEF CallsInv
<1>2. hp'[c] = place /\ hp' \in [Calls -> HelperPlaces] /\ \A d \in Calls \ {c} : hp'[d] = hp[d]
  BY <1>1 DEF Become, CallsTyped
<1>3. at' = at /\ rq' = rq /\ final' = final
  BY DEF request
<1>4. CallsTyped' /\ OthersWait(c)
  BY <1>1, <1>2, <1>3 DEF CallsTyped, OthersWait
<1>5. CallInv(c)'
  BY <1>1, <1>2, <1>3 DEF CallInv, Begun, Running
<1> QED BY <1>4, <1>5, OneCall

\* ... without a new destination or another entry to visit.
LEMMA Stays ==
  ASSUME CallsInv, NEW c \in Calls, Running(hp[c]),
         NEW place \in HelperPlaces \ {"none"}, Become(c, place), UNCHANGED <<at, request>>,
         UNCHANGED <<goal, todo>>, FitsOp(at[c], place, rq[c].op)
  PROVE  CallsInv' /\ OthersWait(c)
<1>1. CallsTyped /\ CallInv(c)
  BY DEF CallsInv
<1>2. hp[c] # "none"
  BY DEF Running
<1>3. goal[c] \in Destinations(rq[c]) /\ goal' = goal /\ todo' = todo
  BY <1>1, <1>2 DEF CallInv
<1>4. goal \in [Calls -> Seq(Names)] /\ todo \in [Calls -> SUBSET [from : Paths, to : Seq(Names)]]
  BY <1>1 DEF CallsTyped
<1>5. \A e \in todo[c] : \E g \in Destinations(rq[c]) : Under(g, e.to)
  BY <1>1 DEF CallInv
<1> QED BY <1>3, <1>4, <1>5, Becomes

---------------------------------------------------------------------------
\* The steps.

\* What every step of a call does.
Keeps(c) ==
  /\ CallsInv' /\ OthersWait(c)
  /\ FilesInv' /\ CopiesTyped' /\ faults' \in 0 .. MaxFaults
  /\ \A d \in Calls \ {c} : fs'[Tmp(d)] = fs[Tmp(d)]
  /\ TmpInv(c)'

\* What ElevationInv says, as the lemmas need it.
LEMMA Parts ==
  ASSUME ElevationInv
  PROVE  /\ CallsInv /\ CallsTyped /\ FilesInv /\ FilesTyped /\ CopiesTyped
         /\ faults \in 0 .. MaxFaults
         /\ \A c \in Calls : CallInv(c) /\ TmpInv(c)
BY DEF ElevationInv, TypeOK, CallsInv, CallsTyped, FilesInv, FilesTyped, CopiesTyped, TmpsInv

LEMMA StepKeeps ==
  ASSUME ElevationInv, NEW c \in Calls, Keeps(c)
  PROVE  ElevationInv'
<1>1. /\ CallsTyped' /\ CallsInv' /\ OthersWait(c) /\ FilesTyped' /\ TmpsPlaced' /\ CopiesTyped'
      /\ faults' \in 0 .. MaxFaults /\ TmpInv(c)'
      /\ \A d \in Calls \ {c} : fs'[Tmp(d)] = fs[Tmp(d)]
  BY DEF Keeps, CallsInv, FilesInv
<1>2. ASSUME NEW d \in Calls \ {c} PROVE TmpInv(d)'
  <2>1. Exists(Tmp(d))' <=> Exists(Tmp(d))
    <3>1. Tmp(d) \in DOMAIN fs /\ Tmp(d) \in DOMAIN fs'
      BY <1>1, Parts, TmpFacts DEF FilesTyped
    <3> QED BY <1>1, <3>1 DEF Exists
  <2>2. TmpInv(d) /\ at'[d] = at[d] /\ hp'[d] = hp[d] /\ rq'[d] = rq[d]
    BY <1>1, Parts DEF OthersWait
  <2> QED BY <2>1, <2>2 DEF TmpInv, Begun
<1>3. TypeOK'
  BY <1>1 DEF TypeOK, CallsTyped, FilesTyped, CopiesTyped
<1> QED BY <1>1, <1>2, <1>3 DEF ElevationInv, TmpsInv

\* The copies are left alone, with the contents of the same files.
LEMMA CopiesStay ==
  ASSUME CopiesTyped, cp' = cp, DOMAIN data \subseteq DOMAIN data'
  PROVE  CopiesTyped'
<1>1. \A c \in Calls :
        cp[c] \in {NoCopy} \cup [from : DOMAIN data', to : DOMAIN data', pos : 1 .. Chunks]
  BY DEF CopiesTyped
<1> QED BY <1>1 DEF CopiesTyped

\* A handler that needs its temp file still has it.
LEMMA TmpStill ==
  ASSUME ElevationInv, NEW c \in Calls, at[c] \in Holding, FilesInv', fs'[Tmp(c)] = fs[Tmp(c)]
  PROVE  Exists(Tmp(c))'
<1>1. Exists(Tmp(c))
  BY Parts DEF TmpInv
<1>2. DOMAIN fs = Paths /\ DOMAIN fs' = Paths
  BY Parts DEF FilesInv, FilesTyped
<1> QED BY <1>1, <1>2 DEF Exists

LEMMA Faulty ==
  ASSUME faults \in 0 .. MaxFaults, Fault
  PROVE  faults' \in 0 .. MaxFaults
BY BoundsAssumption DEF Fault

\* Before its helper is asked for, a handler works alone.
LEMMA Alone ==
  ASSUME ElevationInv, NEW c \in Calls, at[c] \notin Over \cup {"idle", "waiting"}
  PROVE  /\ c \in Begun /\ hp[c] = "none" /\ rq[c] \in Requests
         /\ FitsOp(at[c], hp[c], rq[c].op)
         /\ \A t \in Calls : ~Overlap(rq[c].src, Tmp(t)) /\ ~Overlap(rq[c].dst, Tmp(t))
         /\ rq[c].src \in Paths /\ rq[c].dst \in Paths
<1>1. c \in Begun /\ CallInv(c)
  BY Parts DEF Begun
<1>2. rq[c] \in Requests /\ FitsOp(at[c], hp[c], rq[c].op) /\ hp[c] = "none"
  BY <1>1 DEF CallInv
<1> QED BY <1>1, <1>2, RequestFacts

LEMMA ArriveKeeps ==
  ASSUME ElevationInv, NEW c \in Calls, NEW r \in Requests, Arrive(c, r)
  PROVE  Keeps(c)
<1> DEFINE place == IF r.op = "put" THEN "receive" ELSE First(r.op)
<1>1. /\ at[c] = "idle" /\ at' = [at EXCEPT ![c] = place]
      /\ rq' = [rq EXCEPT ![c] = r] /\ final' = [final EXCEPT ![c] = r.dst]
      /\ fs' = fs /\ data' = data /\ hp' = hp /\ goal' = goal /\ todo' = todo
      /\ cp' = cp /\ faults' = faults
  BY DEF Arrive, Go, files, helper
<1>2. CallsTyped /\ CallInv(c) /\ TmpInv(c)
  BY Parts
<1>3. hp[c] = "none" /\ todo[c] = {}
  <2>1. "idle" \notin Over \cup {"waiting"}
    BY DEF Over, Answers
  <2> QED BY <1>1, <1>2, <2>1 DEF CallInv
<1>4. r.op \in Ops /\ r.dst \in Seq(Names) /\ r.dst \in Settled(r.dst, Name(r.src))
  BY RequestFacts, PathFacts
<1>5. /\ place \in {"receive", "mkdir", "delete", "check"}
      /\ FitsOp(place, "none", r.op)
  BY <1>4 DEF FitsOp, First, Ops
<1> HIDE DEF place
<1>6. /\ at'[c] = place /\ rq'[c] = r /\ final'[c] = r.dst
      /\ \A d \in Calls \ {c} : at'[d] = at[d] /\ rq'[d] = rq[d] /\ final'[d] = final[d]
  BY <1>1, <1>2 DEF CallsTyped
<1>7. CallsTyped'
  BY <1>1, <1>2, <1>4, <1>5 DEF CallsTyped, Places
<1>8. OthersWait(c)
  BY <1>1, <1>6 DEF OthersWait
<1>9. CallInv(c)'
  BY <1>1, <1>3, <1>4, <1>5, <1>6 DEF CallInv, Begun, Running
<1>10. CallsInv'
  BY <1>7, <1>8, <1>9, Parts, OneCall
<1>11. FilesInv' /\ CopiesTyped' /\ \A d \in Calls : fs'[Tmp(d)] = fs[Tmp(d)]
  BY <1>1, Parts, FilesStay DEF files
<1>12. TmpInv(c)'
  <2>1. ~Exists(Tmp(c)) /\ (Exists(Tmp(c))' <=> Exists(Tmp(c)))
    BY <1>1, <1>2 DEF TmpInv, Exists
  <2>2. at'[c] \notin Holding /\ at'[c] \notin Answers /\ hp'[c] # "ok"
    BY <1>1, <1>3, <1>5, <1>6 DEF Holding, Answers
  <2> QED BY <2>1, <2>2 DEF TmpInv
<1>13. faults' \in 0 .. MaxFaults
  BY <1>1, Parts
<1> QED BY <1>8, <1>10, <1>11, <1>12, <1>13 DEF Keeps

\* A handler alone goes on to its next step, or to an answer after which
\* there is no temp file.
LEMMA AloneGoes ==
  ASSUME ElevationInv, NEW c \in Calls, at[c] \notin Over \cup {"idle", "waiting"},
         NEW place \in Places \ {"idle", "receive"}, Go(c, place), UNCHANGED <<request, helper>>,
         FitsOp(place, "none", rq[c].op),
         rq[c].op = "put" /\ place \in Answers => ~Exists(Tmp(c))',
         place \in Holding => Exists(Tmp(c))'
  PROVE  CallsInv' /\ OthersWait(c) /\ TmpInv(c)'
<1>1. c \in Begun /\ hp[c] = "none" /\ FitsOp(at[c], hp[c], rq[c].op)
  BY Alone
<1>2. FitsOp(place, hp[c], rq[c].op) /\ ~Running(hp[c])
  BY <1>1 DEF Running
<1>3. CallsInv' /\ OthersWait(c)
  BY <1>1, <1>2, Parts, Goes
<1>4. at'[c] = place /\ rq' = rq /\ hp' = hp
  BY Parts DEF Go, request, helper, CallsTyped
<1> QED BY <1>1, <1>3, <1>4 DEF TmpInv, Begun

\* Success, or an answer without a temp file, as Elevate and PutFails end.
LEMMA ElevateKeeps ==
  ASSUME ElevationInv, NEW c \in Calls, at[c] \notin Over \cup {"idle", "waiting"},
         Elevate(c), UNCHANGED <<data, cp, faults>>
  PROVE  Keeps(c)
<1>1. /\ c \in Begun /\ hp[c] = "none" /\ FitsOp(at[c], hp[c], rq[c].op) /\ rq[c] \in Requests
      /\ rq[c].dst \in Settled(rq[c].dst, Name(rq[c].src)) /\ rq[c].dst \in Destinations(rq[c])
  BY Alone, RequestFacts
<1>2. CASE rq[c].pass # "none" /\ RunSudo(c, rq[c].dst) /\ UNCHANGED fs
  <2>1. CallsInv' /\ OthersWait(c) /\ at'[c] = "waiting" /\ hp'[c] = "sudo"
    BY <1>1, <1>2, Parts, Sudoed
  <2>2. TmpInv(c)'
    BY <2>1 DEF TmpInv, Answers, Holding
  <2>3. FilesInv' /\ CopiesTyped' /\ \A d \in Calls : fs'[Tmp(d)] = fs[Tmp(d)]
    BY <1>2, Parts, FilesStay DEF files
  <2> QED BY <2>1, <2>2, <2>3, Parts DEF Keeps
<1>3. CASE /\ rq[c].pass = "none" /\ Go(c, "elevation")
           /\ IF rq[c].op = "put" THEN DropTmp(c) ELSE UNCHANGED fs
           /\ UNCHANGED <<request, helper>>
  <2>1. /\ FilesInv' /\ \A d \in Calls \ {c} : fs'[Tmp(d)] = fs[Tmp(d)]
        /\ rq[c].op = "put" => fs'[Tmp(c)] = None
    <3>1. CASE rq[c].op = "put"
      BY <1>3, <3>1, Parts, TmpDropped
    <3>2. CASE rq[c].op # "put"
      BY <1>3, <3>2, Parts, FilesStay DEF files
    <3> QED BY <3>1, <3>2
  <2>2. CopiesTyped'
    BY Parts, CopiesStay
  <2>3. rq[c].op = "put" => ~Exists(Tmp(c))'
    BY <2>1 DEF Exists
  <2>4. /\ FitsOp("elevation", "none", rq[c].op) /\ "elevation" \in Places \ {"idle", "receive"}
        /\ "elevation" \notin Holding
    BY DEF FitsOp, Places, Over, Answers, Holding
  <2>5. CallsInv' /\ OthersWait(c) /\ TmpInv(c)'
    BY <1>3, <2>3, <2>4, AloneGoes
  <2> QED BY <2>1, <2>2, <2>5, Parts DEF Keeps
<1> QED BY <1>2, <1>3 DEF Elevate

\* The temp file is dropped with the answer.
LEMMA DropKeeps ==
  ASSUME ElevationInv, NEW c \in Calls, at[c] \notin Over \cup {"idle", "waiting"},
         NEW answer \in Answers, DropTmp(c), Go(c, answer), UNCHANGED <<request, helper>>,
         UNCHANGED data, CopiesTyped', faults' \in 0 .. MaxFaults
  PROVE  Keeps(c)
<1>1. /\ FilesInv' /\ fs'[Tmp(c)] = None
      /\ \A d \in Calls \ {c} : fs'[Tmp(d)] = fs[Tmp(d)]
  BY Parts, TmpDropped
<1>2. /\ FitsOp(answer, "none", rq[c].op) /\ answer \in Places \ {"idle", "receive"}
      /\ answer \notin Holding
  BY DEF FitsOp, Places, Over, Answers, Holding
<1>3. ~Exists(Tmp(c))'
  BY <1>1 DEF Exists
<1>4. CallsInv' /\ OthersWait(c) /\ TmpInv(c)'
  BY <1>2, <1>3, AloneGoes
<1> QED BY <1>1, <1>4 DEF Keeps

---------------------------------------------------------------------------
\* The handlers' steps.

LEMMA PutCreateKeeps ==
  ASSUME ElevationInv, NEW c \in Calls, PutCreate(c)
  PROVE  Keeps(c)
<1>1. /\ at[c] = "receive" /\ UNCHANGED <<request, helper>> /\ cp' = cp
      /\ at[c] \notin Over \cup {"idle", "waiting"}
  BY DEF PutCreate, Over, Answers
<1>2. rq[c].op = "put"
  BY <1>1, Alone DEF FitsOp
<1>3. CASE Create("user", c, Tmp(c), Empty) /\ Go(c, "body") /\ UNCHANGED faults
  <2>1. Empty \in [1 .. Chunks -> Blobs \cup {Hole}]
    BY DEF Empty, Whole
  <2>2. /\ FilesInv' /\ DOMAIN data \subseteq DOMAIN data'
        /\ Exists(Tmp(c))' /\ \A d \in Calls \ {c} : fs'[Tmp(d)] = fs[Tmp(d)]
    BY <1>3, <2>1, Parts, TmpCreated
  <2>3. CopiesTyped'
    BY <1>1, <2>2, Parts, CopiesStay
  <2>4. /\ FitsOp("body", "none", rq[c].op) /\ "body" \in Places \ {"idle", "receive"}
        /\ "body" \notin Answers
    BY <1>2 DEF FitsOp, Places, Answers
  <2>5. CallsInv' /\ OthersWait(c) /\ TmpInv(c)'
    BY <1>1, <1>3, <2>2, <2>4, AloneGoes
  <2> QED BY <1>3, <2>2, <2>3, <2>5, Parts DEF Keeps
<1>4. CASE Fault /\ Go(c, "error") /\ UNCHANGED files
  <2>1. /\ FilesInv' /\ CopiesTyped' /\ \A d \in Calls : fs'[Tmp(d)] = fs[Tmp(d)]
    BY <1>1, <1>4, Parts, FilesStay
  <2>2. ~Exists(Tmp(c))'
    BY <1>1, <1>4, Parts DEF TmpInv, Exists, files
  <2>3. /\ FitsOp("error", "none", rq[c].op) /\ "error" \in Places \ {"idle", "receive"}
        /\ "error" \notin Holding
    BY <1>2 DEF FitsOp, Places, Over, Answers, Holding
  <2>4. CallsInv' /\ OthersWait(c) /\ TmpInv(c)'
    BY <1>1, <1>4, <2>2, <2>3, AloneGoes
  <2> QED BY <1>4, <2>1, <2>4, Parts, Faulty DEF Keeps
<1> QED BY <1>3, <1>4 DEF PutCreate

LEMMA PutBodyKeeps ==
  ASSUME ElevationInv, NEW c \in Calls, PutBody(c)
  PROVE  Keeps(c)
<1>1. /\ at[c] = "body" /\ UNCHANGED <<request, helper>> /\ cp' = cp
      /\ at[c] \notin Over \cup {"idle", "waiting"}
  BY DEF PutBody, Over, Answers
<1>2. rq[c].op = "put"
  BY <1>1, Alone DEF FitsOp
<1>3. CASE Create("user", c, Tmp(c), Whole(Tmp(c))) /\ Go(c, "parent") /\ UNCHANGED faults
  <2>1. Whole(Tmp(c)) \in [1 .. Chunks -> Blobs \cup {Hole}]
    BY TmpFacts DEF Whole
  <2>2. /\ FilesInv' /\ DOMAIN data \subseteq DOMAIN data'
        /\ Exists(Tmp(c))' /\ \A d \in Calls \ {c} : fs'[Tmp(d)] = fs[Tmp(d)]
    BY <1>3, <2>1, Parts, TmpCreated
  <2>3. CopiesTyped'
    BY <1>1, <2>2, Parts, CopiesStay
  <2>4. /\ FitsOp("parent", "none", rq[c].op) /\ "parent" \in Places \ {"idle", "receive"}
        /\ "parent" \notin Answers
    BY <1>2 DEF FitsOp, Places, Answers
  <2>5. CallsInv' /\ OthersWait(c) /\ TmpInv(c)'
    BY <1>1, <1>3, <2>2, <2>4, AloneGoes
  <2> QED BY <1>3, <2>2, <2>3, <2>5, Parts DEF Keeps
<1>4. CASE Fault /\ DropTmp(c) /\ Go(c, "error") /\ UNCHANGED data
  <2>1. CopiesTyped' /\ faults' \in 0 .. MaxFaults
    BY <1>1, <1>4, Parts, CopiesStay, Faulty
  <2>2. "error" \in Answers
    BY DEF Answers
  <2> QED BY <1>1, <1>4, <2>1, <2>2, DropKeeps
<1> QED BY <1>3, <1>4 DEF PutBody

\* A path above a destination, made by create_dir_all, is above no temp file's ...
LEMMA ParentOff ==
  ASSUME NEW r \in Requests, NEW t \in Calls
  PROVE  Parent(r.dst) \in Seq(Names) /\ ~Under(Tmp(t), Parent(r.dst)) /\ ~Under(Tmp(t), r.dst)
<1>1. r.dst \in Paths /\ r.dst \in Seq(Names) /\ Len(r.dst) # 0 /\ Tmp(t) \in Seq(Names)
  BY RequestFacts, PathFacts, TmpFacts
<1>2. ~Under(Tmp(t), r.dst)
  BY RequestFacts DEF Overlap
<1> QED BY <1>1, <1>2, ParentAbove

LEMMA PutParentKeeps ==
  ASSUME ElevationInv, NEW c \in Calls, PutParent(c)
  PROVE  Keeps(c)
<1> DEFINE p == Parent(rq[c].dst)
<1>1. /\ at[c] = "parent" /\ UNCHANGED <<request, helper>> /\ cp' = cp /\ data' = data
      /\ faults' = faults /\ Go(c, "place")
      /\ fs' = IF MkdirResult("user", p) = "ok" THEN WithDirs(p) ELSE fs
      /\ at[c] \notin Over \cup {"idle", "waiting"}
  BY DEF PutParent, Over, Answers
<1>2. rq[c].op = "put" /\ rq[c] \in Requests
  BY <1>1, Alone DEF FitsOp
<1>3. p \in Seq(Names) /\ \A t \in Calls : ~Under(Tmp(t), p)
  BY <1>2, ParentOff
<1> HIDE DEF p
<1>4. FilesInv' /\ \A d \in Calls : fs'[Tmp(d)] = fs[Tmp(d)]
  <2>1. CASE MkdirResult("user", p) = "ok"
    BY <1>1, <1>3, <2>1, Parts, DirsMade
  <2>2. CASE MkdirResult("user", p) # "ok"
    BY <1>1, <2>2, Parts, FilesStay DEF files
  <2> QED BY <2>1, <2>2
<1>5. CopiesTyped'
  BY <1>1, Parts, CopiesStay
<1>6. /\ FitsOp("place", "none", rq[c].op) /\ "place" \in Places \ {"idle", "receive"}
      /\ "place" \notin Answers
  BY <1>2 DEF FitsOp, Places, Answers
<1>7. CallsInv' /\ OthersWait(c) /\ TmpInv(c)'
  <2>1. Exists(Tmp(c))'
    BY <1>1, <1>4, TmpStill DEF Holding
  <2> QED BY <1>1, <1>6, <2>1, AloneGoes
<1> QED BY <1>1, <1>4, <1>5, <1>7, Parts DEF Keeps

LEMMA PutPlaceKeeps ==
  ASSUME ElevationInv, NEW c \in Calls, PutPlace(c)
  PROVE  Keeps(c)
<1> DEFINE result == RenameResult("user", Tmp(c), rq[c].dst)
<1>1. /\ at[c] = "place" /\ data' = data /\ cp' = cp /\ faults' = faults
      /\ at[c] \notin Over \cup {"idle", "waiting"}
  BY DEF PutPlace, Over, Answers
<1>2. rq[c].op = "put" /\ rq[c] \in Requests /\ rq[c].dst \in Paths /\ rq[c].dst \in Seq(Names)
  BY <1>1, Alone, PathFacts DEF FitsOp
<1>3. CopiesTyped'
  BY <1>1, Parts, CopiesStay
<1>4. CASE result = "ok" /\ fs' = Renamed(Tmp(c), rq[c].dst) /\ Go(c, "ok") /\ UNCHANGED <<request, helper>>
  <2>1. Tmp(c) \in Paths /\ \A d \in Calls : Under(Tmp(c), Tmp(d)) => Tmp(c) = Tmp(d)
    BY TmpFacts
  <2>2. /\ FilesInv'
        /\ \A d \in Calls : fs'[Tmp(d)] = IF Tmp(c) = Tmp(d) THEN None ELSE fs[Tmp(d)]
    <3>1. \A d \in Calls : ~Overlap(rq[c].dst, Tmp(d))
      BY <1>1, Alone
    <3> QED BY <1>1, <1>2, <1>4, <2>1, <3>1, Parts, TreeRenamed
  <2>3. \A d \in Calls \ {c} : Tmp(d) # Tmp(c)
    BY TmpFacts, PathFacts, UnderOrder
  <2>4. ~Exists(Tmp(c))'
    BY <2>2 DEF Exists
  <2>5. /\ FitsOp("ok", "none", rq[c].op) /\ "ok" \in Places \ {"idle", "receive"}
        /\ "ok" \notin Holding
    BY DEF FitsOp, Places, Over, Answers, Holding
  <2>6. CallsInv' /\ OthersWait(c) /\ TmpInv(c)'
    BY <1>1, <1>4, <2>4, <2>5, AloneGoes
  <2> QED BY <1>1, <1>3, <2>2, <2>3, <2>6, Parts DEF Keeps
<1>5. CASE Go(c, "create") /\ UNCHANGED <<fs, request, helper>>
  <2>1. FilesInv' /\ \A d \in Calls : fs'[Tmp(d)] = fs[Tmp(d)]
    BY <1>1, <1>5, Parts, FilesStay DEF files
  <2>2. /\ FitsOp("create", "none", rq[c].op) /\ "create" \in Places \ {"idle", "receive"}
        /\ "create" \notin Answers
    BY <1>2 DEF FitsOp, Places, Answers
  <2>3. CallsInv' /\ OthersWait(c) /\ TmpInv(c)'
    <3>1. Exists(Tmp(c))'
      BY <1>1, <2>1, TmpStill DEF Holding
    <3> QED BY <1>1, <1>5, <2>2, <3>1, AloneGoes
  <2> QED BY <1>1, <1>3, <2>1, <2>3, Parts DEF Keeps
<1>6. CASE Elevate(c)
  BY <1>1, <1>6, ElevateKeeps
<1>7. CASE PutFails(c)
  <2>1. "error" \in Answers
    BY DEF Answers
  <2> QED BY <1>1, <1>3, <1>7, <2>1, Parts, DropKeeps DEF PutFails
<1> QED BY <1>4, <1>5, <1>6, <1>7 DEF PutPlace

LEMMA PutCreateTargetKeeps ==
  ASSUME ElevationInv, NEW c \in Calls, PutCreateTarget(c)
  PROVE  Keeps(c)
<1> DEFINE result == CreateResult("user", rq[c].dst)
<1>1. at[c] = "create" /\ faults' = faults /\ at[c] \notin Over \cup {"idle", "waiting"}
  BY DEF PutCreateTarget, Over, Answers
<1>2. rq[c].op = "put" /\ rq[c] \in Requests /\ rq[c].dst \in Paths /\ rq[c].dst \in Seq(Names)
  BY <1>1, Alone, PathFacts DEF FitsOp
<1>3. \A t \in Calls : rq[c].dst # Tmp(t)
  BY <1>1, <1>2, Alone, UnderOrder DEF Overlap
<1>4. CASE /\ result = "ok" /\ OpenCopy("user", c, Tmp(c), rq[c].dst)
           /\ Go(c, "copying") /\ UNCHANGED <<request, helper>>
  <2>1. IsFile(Tmp(c))
    BY <1>1, Parts DEF TmpInv, Holding, FilesInv, TmpsPlaced, Exists, IsFile, IsDir
  <2>2. FilesInv' /\ CopiesTyped' /\ \A d \in Calls : fs'[Tmp(d)] = fs[Tmp(d)]
    BY <1>2, <1>3, <1>4, <2>1, Parts, TmpFacts, CopyOpened DEF Users
  <2>3. Exists(Tmp(c))'
    BY <1>1, <2>2, TmpStill DEF Holding
  <2>4. /\ FitsOp("copying", "none", rq[c].op) /\ "copying" \in Places \ {"idle", "receive"}
        /\ "copying" \notin Answers
    BY <1>2 DEF FitsOp, Places, Answers
  <2>5. CallsInv' /\ OthersWait(c) /\ TmpInv(c)'
    BY <1>1, <1>4, <2>3, <2>4, AloneGoes
  <2> QED BY <1>1, <2>2, <2>5, Parts DEF Keeps
<1>5. CASE Elevate(c) /\ UNCHANGED <<data, cp>>
  BY <1>1, <1>5, ElevateKeeps
<1>6. CASE PutFails(c) /\ UNCHANGED <<data, cp>>
  <2>1. "error" \in Answers /\ CopiesTyped'
    BY <1>6, Parts, CopiesStay DEF Answers
  <2> QED BY <1>1, <1>6, <2>1, Parts, DropKeeps DEF PutFails
<1> QED BY <1>4, <1>5, <1>6 DEF PutCreateTarget

LEMMA PutCopyKeeps ==
  ASSUME ElevationInv, NEW c \in Calls, PutCopy(c)
  PROVE  Keeps(c)
<1>1. at[c] = "copying" /\ at[c] \notin Over \cup {"idle", "waiting"}
  BY DEF PutCopy, Over, Answers
<1>2. rq[c].op = "put" /\ "error" \in Answers /\ "ok" \in Answers
  BY <1>1, Alone DEF FitsOp, Answers
<1>3. CASE cp[c] # NoCopy /\ CopyChunk(c) /\ UNCHANGED <<fs, at, request, helper, faults>>
  <2>1. FilesInv' /\ CopiesTyped' /\ \A d \in Calls : fs'[Tmp(d)] = fs[Tmp(d)]
    BY <1>3, Parts, ChunkCopied
  <2>2. Exists(Tmp(c))'
    BY <1>1, <2>1, TmpStill DEF Holding
  <2>3. Go(c, "copying")
    BY <1>1, <1>3, Parts DEF Go, CallsTyped
  <2>4. /\ FitsOp("copying", "none", rq[c].op) /\ "copying" \in Places \ {"idle", "receive"}
        /\ "copying" \notin Answers
    BY <1>2 DEF FitsOp, Places, Answers
  <2>5. CallsInv' /\ OthersWait(c) /\ TmpInv(c)'
    BY <1>1, <1>3, <2>2, <2>3, <2>4, AloneGoes
  <2> QED BY <1>3, <2>1, <2>5, Parts DEF Keeps
<1>4. CASE /\ cp[c] # NoCopy /\ Fault /\ cp' = [cp EXCEPT ![c] = NoCopy]
           /\ PutFails(c) /\ UNCHANGED data
  <2>1. CopiesTyped' /\ faults' \in 0 .. MaxFaults
    BY <1>4, Parts, CopyOver, Faulty
  <2> QED BY <1>1, <1>2, <1>4, <2>1, DropKeeps DEF PutFails
<1>5. CASE DropTmp(c) /\ Go(c, "ok") /\ UNCHANGED <<data, request, helper, cp, faults>>
  <2>1. CopiesTyped' /\ faults' \in 0 .. MaxFaults
    BY <1>5, Parts, CopiesStay
  <2> QED BY <1>1, <1>2, <1>5, <2>1, DropKeeps
<1> QED BY <1>3, <1>4, <1>5 DEF PutCopy

\* A step that is not one of a put, and leaves the temp files alone.
LEMMA OtherGoes ==
  ASSUME ElevationInv, NEW c \in Calls, at[c] \notin Over \cup {"idle", "waiting"},
         rq[c].op # "put", NEW place \in Answers \cup {"rename"}, Go(c, place),
         FitsOp(place, "none", rq[c].op), UNCHANGED <<request, helper, data, cp, faults>>,
         FilesInv', \A d \in Calls : fs'[Tmp(d)] = fs[Tmp(d)]
  PROVE  Keeps(c)
<1>1. place \in Places \ {"idle", "receive"} /\ place \notin Holding
  BY DEF Places, Over, Answers, Holding
<1>2. CallsInv' /\ OthersWait(c) /\ TmpInv(c)'
  BY <1>1, AloneGoes
<1>3. CopiesTyped' /\ faults' \in 0 .. MaxFaults
  BY Parts, CopiesStay
<1> QED BY <1>2, <1>3 DEF Keeps

LEMMA MkdirKeeps ==
  ASSUME ElevationInv, NEW c \in Calls, Mkdir(c)
  PROVE  Keeps(c)
<1>1. /\ at[c] = "mkdir" /\ UNCHANGED <<data, cp, faults>>
      /\ at[c] \notin Over \cup {"idle", "waiting"}
  BY DEF Mkdir, Over, Answers
<1>2. rq[c].op = "mkdir" /\ rq[c] \in Requests /\ rq[c].dst \in Seq(Names)
  BY <1>1, Alone, PathFacts DEF FitsOp
<1>3. \A op : FitsOp("ok", "none", op) /\ FitsOp("error", "none", op)
  BY DEF FitsOp
<1>4. CASE /\ MkdirResult("user", rq[c].dst) = "ok" /\ fs' = WithDirs(rq[c].dst)
           /\ Go(c, "ok") /\ UNCHANGED <<request, helper>>
  <2>1. FilesInv' /\ \A d \in Calls : fs'[Tmp(d)] = fs[Tmp(d)]
    BY <1>1, <1>2, <1>4, Parts, ParentOff, DirsMade
  <2> QED BY <1>1, <1>2, <1>3, <1>4, <2>1, OtherGoes DEF Answers
<1>5. CASE Elevate(c)
  BY <1>1, <1>5, ElevateKeeps
<1>6. CASE Go(c, "error") /\ UNCHANGED <<fs, request, helper>>
  <2>1. FilesInv' /\ \A d \in Calls : fs'[Tmp(d)] = fs[Tmp(d)]
    BY <1>1, <1>6, Parts, FilesStay DEF files
  <2> QED BY <1>1, <1>2, <1>3, <1>6, <2>1, OtherGoes DEF Answers
<1> QED BY <1>4, <1>5, <1>6 DEF Mkdir

LEMMA RenameCheckKeeps ==
  ASSUME ElevationInv, NEW c \in Calls, RenameCheck(c)
  PROVE  Keeps(c)
<1> DEFINE place == IF Exists(rq[c].dst) THEN "conflict" ELSE "rename"
<1>1. /\ at[c] = "check" /\ rq[c].op = "rename" /\ Go(c, place)
      /\ UNCHANGED <<files, request, helper, cp, faults>>
      /\ at[c] \notin Over \cup {"idle", "waiting"}
  BY DEF RenameCheck, Over, Answers
<1>2. FilesInv' /\ (\A d \in Calls : fs'[Tmp(d)] = fs[Tmp(d)]) /\ data' = data
  BY <1>1, Parts, FilesStay DEF files
<1>3. place \in Answers \cup {"rename"} /\ FitsOp(place, "none", rq[c].op)
  BY <1>1 DEF Answers, FitsOp
<1> HIDE DEF place
<1> QED BY <1>1, <1>2, <1>3, OtherGoes

\* The source of a request is not a temp file, nor above one.
LEMMA RenameKeeps ==
  ASSUME ElevationInv, NEW c \in Calls, Rename(c)
  PROVE  Keeps(c)
<1>1. /\ at[c] = "rename" /\ UNCHANGED <<data, cp, faults>>
      /\ at[c] \notin Over \cup {"idle", "waiting"}
  BY DEF Rename, Over, Answers
<1>2. /\ rq[c].op = "rename" /\ rq[c] \in Requests /\ rq[c].dst \in Seq(Names)
      /\ rq[c].src \in Paths /\ rq[c].src \in Seq(Names)
  BY <1>1, Alone, PathFacts DEF FitsOp
<1>3. \A op : FitsOp("ok", "none", op) /\ FitsOp("error", "none", op)
  BY DEF FitsOp
<1>4. CASE /\ RenameResult("user", rq[c].src, rq[c].dst) = "ok"
           /\ fs' = Renamed(rq[c].src, rq[c].dst) /\ Go(c, "ok") /\ UNCHANGED <<request, helper>>
  <2>1. \A t \in Calls : /\ ~Under(rq[c].src, Tmp(t)) /\ ~Overlap(rq[c].dst, Tmp(t))
                         /\ rq[c].src # Tmp(t)
    BY <1>1, <1>2, Alone, UnderOrder DEF Overlap
  <2>2. FilesInv' /\ \A t \in Calls : fs'[Tmp(t)] = fs[Tmp(t)]
    BY <1>1, <1>2, <1>4, <2>1, Parts, TreeRenamed
  <2> QED BY <1>1, <1>2, <1>3, <1>4, <2>2, OtherGoes DEF Answers
<1>5. CASE Elevate(c)
  BY <1>1, <1>5, ElevateKeeps
<1>6. CASE Go(c, "error") /\ UNCHANGED <<fs, request, helper>>
  <2>1. FilesInv' /\ \A d \in Calls : fs'[Tmp(d)] = fs[Tmp(d)]
    BY <1>1, <1>6, Parts, FilesStay DEF files
  <2> QED BY <1>1, <1>2, <1>3, <1>6, <2>1, OtherGoes DEF Answers
<1> QED BY <1>4, <1>5, <1>6 DEF Rename

\* A helper is started for what the handler has resolved.
LEMMA RunSudoKeeps ==
  ASSUME ElevationInv, NEW c \in Calls, at[c] \notin Over \cup {"idle", "waiting"},
         NEW d \in Settled(rq[c].dst, Name(rq[c].src)), d \in Destinations(rq[c]), RunSudo(c, d),
         UNCHANGED <<files, cp, faults>>
  PROVE  Keeps(c)
<1>1. CallsInv' /\ OthersWait(c) /\ at'[c] = "waiting" /\ hp'[c] = "sudo"
  BY Alone, Parts, Sudoed
<1>2. TmpInv(c)'
  BY <1>1 DEF TmpInv, Answers, Holding
<1>3. FilesInv' /\ CopiesTyped' /\ \A t \in Calls : fs'[Tmp(t)] = fs[Tmp(t)]
  BY Parts, FilesStay
<1> QED BY <1>1, <1>2, <1>3, Parts DEF Keeps

LEMMA DeleteKeeps ==
  ASSUME ElevationInv, NEW c \in Calls, Delete(c)
  PROVE  Keeps(c)
<1>1. /\ at[c] = "delete" /\ UNCHANGED <<files, cp, faults>>
      /\ at[c] \notin Over \cup {"idle", "waiting"}
  BY DEF Delete, Over, Answers
<1>2. rq[c].op = "delete" /\ rq[c] \in Requests
  BY <1>1, Alone DEF FitsOp
<1>3. CASE RunSudo(c, rq[c].dst)
  BY <1>1, <1>2, <1>3, RequestFacts, RunSudoKeeps
<1>4. CASE Go(c, "not found") /\ UNCHANGED <<request, helper>>
  <2>1. FilesInv' /\ (\A d \in Calls : fs'[Tmp(d)] = fs[Tmp(d)]) /\ data' = data
    BY <1>1, Parts, FilesStay DEF files
  <2>2. "not found" \in Answers /\ FitsOp("not found", "none", rq[c].op)
    BY DEF Answers, FitsOp
  <2> QED BY <1>1, <1>2, <1>4, <2>1, <2>2, OtherGoes
<1> QED BY <1>3, <1>4 DEF Delete

\* What the daemon or the helper makes of a destination.
LEMMA Resolved ==
  ASSUME NEW n, NEW p
  PROVE  LET d == Resolve(n, p)
         IN  d \in Settled(p, Name(n)) /\ free_dst(d) \in Settled(p, Name(n))
<1> DEFINE d == Resolve(n, p)
           two == {p, Append(p, Name(n))}
           numbers == 2 .. LastNumber
           numbered == {Numbered(q, k) : q \in two, k \in numbers}
<1>1. d \in two /\ free_dst(d) \in {d} \cup {Numbered(d, i) : i \in 2 .. LastNumber}
  BY FreeDst
<1>2. Settled(p, Name(n)) = two \cup numbered
  BY DEF Settled
<1> HIDE DEF d, two, numbers
<1>3. \A q \in two : \A k \in numbers : Numbered(q, k) \in numbered
  OBVIOUS
<1> HIDE DEF numbered
<1> USE DEF numbers
<1>4. \A i \in 2 .. LastNumber : Numbered(d, i) \in numbered
  BY <1>1, <1>3
<1>5. free_dst(d) \in {d} \cup numbered
  BY <1>1, <1>4
<1>6. d \in Settled(p, Name(n)) /\ free_dst(d) \in Settled(p, Name(n))
  BY <1>1, <1>2, <1>5
<1> QED BY <1>6 DEF d

LEMMA MoveCheckKeeps ==
  ASSUME ElevationInv, NEW c \in Calls, MoveCheck(c)
  PROVE  Keeps(c)
<1> DEFINE r == rq[c]
           d == Resolve(r.src, r.dst)
<1>1. /\ at[c] = "check" /\ r.op \in {"move", "copy"} /\ UNCHANGED <<files, cp, faults>>
      /\ at[c] \notin Over \cup {"idle", "waiting"}
  BY DEF MoveCheck, Over, Answers
<1>2. r \in Requests
  BY <1>1, Alone
<1>3. d \in Settled(r.dst, Name(r.src)) /\ free_dst(d) \in Settled(r.dst, Name(r.src))
  BY Resolved
<1>4. \A g \in Settled(r.dst, Name(r.src)) : g \in Destinations(r)
  BY <1>1, <1>2, RequestFacts
<1>5. ASSUME NEW answer \in {"bad request", "not found", "conflict"},
             Go(c, answer), UNCHANGED <<request, helper>>
      PROVE  Keeps(c)
  <2>1. FilesInv' /\ (\A t \in Calls : fs'[Tmp(t)] = fs[Tmp(t)]) /\ data' = data
    BY <1>1, Parts, FilesStay DEF files
  <2>2. answer \in Answers /\ FitsOp(answer, "none", rq[c].op)
    BY DEF Answers, FitsOp
  <2> QED BY <1>1, <1>5, <2>1, <2>2, OtherGoes
<1>6. CASE RunSudo(c, d) \/ RunSudo(c, free_dst(d))
  BY <1>1, <1>3, <1>4, <1>6, RunSudoKeeps
<1> QED BY <1>5, <1>6 DEF MoveCheck

LEMMA CollectKeeps ==
  ASSUME ElevationInv, NEW c \in Calls, Collect(c)
  PROVE  Keeps(c)
<1> DEFINE answer == IF Succeeded(c) THEN "ok" ELSE "denied"
<1>1. /\ at[c] = "waiting" /\ hp[c] \in HelperOver /\ Go(c, answer)
      /\ UNCHANGED <<data, request, helper, cp, faults>>
      /\ IF rq[c].op = "put" /\ ~Succeeded(c) THEN DropTmp(c) ELSE UNCHANGED fs
  BY DEF Collect
<1>2. c \in Begun /\ ~Running(hp[c]) /\ FitsOp(at[c], hp[c], rq[c].op) /\ TmpInv(c)
  BY <1>1, Parts DEF CallInv, Begun, Running
<1>3. answer \in {"ok", "denied"}
  OBVIOUS
<1> HIDE DEF answer
<1>4. /\ FitsOp(answer, hp[c], rq[c].op) /\ answer \in Over \cup {"waiting"}
      /\ answer \in Places \ {"idle"} /\ answer \in Answers
      /\ answer \notin Holding \cup {"idle", "receive"}
  BY <1>2, <1>3 DEF FitsOp, Places, Over, Answers, Holding
<1>5. CallsInv' /\ OthersWait(c)
  BY <1>1, <1>2, <1>4, Parts, Goes
<1>6. CopiesTyped' /\ faults' \in 0 .. MaxFaults
  BY <1>1, Parts, CopiesStay
<1>7. at'[c] = answer /\ rq' = rq /\ hp' = hp
  BY <1>1, Parts DEF Go, request, helper, CallsTyped
<1>8. CASE rq[c].op = "put" /\ ~Succeeded(c)
  <2>1. /\ FilesInv' /\ fs'[Tmp(c)] = None
        /\ \A d \in Calls \ {c} : fs'[Tmp(d)] = fs[Tmp(d)]
    BY <1>1, <1>8, Parts, TmpDropped
  <2>2. TmpInv(c)'
    BY <1>4, <1>7, <2>1 DEF TmpInv, Exists
  <2> QED BY <1>5, <1>6, <2>1, <2>2 DEF Keeps
<1>9. CASE ~(rq[c].op = "put" /\ ~Succeeded(c))
  <2>1. fs' = fs /\ FilesInv' /\ \A d \in Calls : fs'[Tmp(d)] = fs[Tmp(d)]
    BY <1>1, <1>9, Parts, FilesStay DEF files
  <2>2. rq[c].op = "put" /\ hp[c] # "error" => hp[c] = "ok"
    BY <1>2, <1>9 DEF Succeeded, FitsOp
  <2>3. rq[c].op = "put" /\ hp[c] # "error" => ~Exists(Tmp(c))
    BY <1>2, <2>2 DEF TmpInv
  <2>4. Exists(Tmp(c))' <=> Exists(Tmp(c))
    BY <2>1 DEF Exists
  <2>5. TmpInv(c)'
    BY <1>4, <1>7, <2>3, <2>4 DEF TmpInv
  <2> QED BY <1>5, <1>6, <2>1, <2>5 DEF Keeps
<1> QED BY <1>8, <1>9

LEMMA AbortKeeps ==
  ASSUME ElevationInv, NEW c \in Calls, Abort(c)
  PROVE  Keeps(c)
<1>1. /\ at[c] \in {"body", "waiting"} /\ at' = [at EXCEPT ![c] = "gone"]
      /\ fs' = fs /\ data' = data /\ rq' = rq /\ final' = final
      /\ goal' = goal /\ todo' = todo /\ cp' = cp /\ faults' = faults
  BY DEF Abort, Go, files, request
<1>2. CallsTyped /\ CallInv(c) /\ TmpInv(c)
  BY Parts
<1>3. /\ hp' \in [Calls -> HelperPlaces]
      /\ hp'[c] = hp[c] \/ (hp[c] = "sudo" /\ hp'[c] = "refused")
      /\ \A d \in Calls \ {c} : hp'[d] = hp[d]
  BY <1>2 DEF Abort, CallsTyped, HelperPlaces, HelperOver
<1>4. at'[c] = "gone" /\ at' \in [Calls -> Places] /\ \A d \in Calls \ {c} : at'[d] = at[d]
  BY <1>1, <1>2 DEF CallsTyped, Places, Over
<1>5. CallsTyped' /\ OthersWait(c)
  BY <1>1, <1>2, <1>3, <1>4 DEF CallsTyped, OthersWait
<1>6. CallInv(c)'
  BY <1>1, <1>2, <1>3, <1>4 DEF CallInv, Begun, FitsOp, Running, Over, HelperOver
<1>7. CallsInv'
  BY <1>5, <1>6, Parts, OneCall
<1>8. FilesInv' /\ CopiesTyped' /\ \A d \in Calls : fs'[Tmp(d)] = fs[Tmp(d)]
  BY <1>1, Parts, FilesStay DEF files
<1>9. Exists(Tmp(c))' <=> Exists(Tmp(c))
  BY <1>1 DEF Exists
<1>10. TmpInv(c)'
  BY <1>1, <1>2, <1>3, <1>4, <1>9 DEF TmpInv, Begun, Answers, Holding
<1> QED BY <1>1, <1>5, <1>7, <1>8, <1>10, Parts DEF Keeps

\* The daemon restarts: its handlers are gone, and their helpers go on or not.
LEMMA RestartKeeps ==
  ASSUME ElevationInv, Restart
  PROVE  ElevationInv'
<1> DEFINE cut(c) == at[c] \notin Over \cup {"idle"}
<1>1. PICK K \in {{}, {c \in Calls : Running(hp[c])}} :
        /\ hp' = [c \in Calls |-> IF c \in K THEN "killed" ELSE hp[c]]
        /\ cp' = [c \in Calls |-> IF c \in K \/ at[c] = "copying" THEN NoCopy ELSE cp[c]]
  BY DEF Restart, Running
<1>2. /\ at' = [c \in Calls |-> IF cut(c) THEN "gone" ELSE at[c]] /\ Fault
      /\ fs' = fs /\ data' = data /\ rq' = rq /\ final' = final /\ goal' = goal /\ todo' = todo
  BY DEF Restart, files, request
<1>3. \A c \in K : c \in Calls /\ Running(hp[c])
  BY <1>1
<1>4. CallsTyped'
  <2>1. at' \in [Calls -> Places] /\ hp' \in [Calls -> HelperPlaces]
    BY <1>1, <1>2, Parts DEF CallsTyped, Places, Over, HelperPlaces, HelperOver
  <2> QED BY <1>2, <2>1, Parts DEF CallsTyped
<1>5. ASSUME NEW c \in Calls PROVE CallInv(c)' /\ TmpInv(c)'
  <2>1. CallInv(c) /\ TmpInv(c)
    BY Parts
  <2>2. /\ at'[c] = IF cut(c) THEN "gone" ELSE at[c]
        /\ hp'[c] = IF c \in K THEN "killed" ELSE hp[c]
    BY <1>1, <1>2
  <2>3. CallInv(c)'
    BY <1>2, <1>3, <2>1, <2>2 DEF CallInv, Begun, FitsOp, Running, Over, HelperOver
  <2>4. Exists(Tmp(c))' <=> Exists(Tmp(c))
    BY <1>2 DEF Exists
  <2>5. at'[c] \in Answers => at[c] = at'[c] /\ hp'[c] = hp[c]
    BY <1>3, <2>1, <2>2 DEF CallInv, Answers
  <2>6. TmpInv(c)'
    BY <1>2, <2>1, <2>2, <2>4, <2>5 DEF TmpInv, Begun, Over, Answers, Holding
  <2> QED BY <2>3, <2>6
<1>6. FilesInv' /\ faults' \in 0 .. MaxFaults
  BY <1>2, Parts, FilesStay, Faulty DEF files
<1>7. CopiesTyped'
  BY <1>1, <1>2, Parts DEF CopiesTyped
<1>8. TypeOK'
  BY <1>4, <1>6, <1>7 DEF TypeOK, CallsTyped, FilesInv, FilesTyped, CopiesTyped
<1> QED BY <1>4, <1>5, <1>6, <1>8 DEF ElevationInv, CallsInv, TmpsInv, FilesInv

---------------------------------------------------------------------------
\* The helpers' steps.

\* A helper works on a request of a call that has begun and is not answered.
LEMMA HelperRuns ==
  ASSUME ElevationInv, NEW c \in Calls, Running(hp[c])
  PROVE  /\ c \in Begun /\ at[c] \in {"waiting", "gone"} /\ rq[c] \in Requests
         /\ FitsOp("gone", hp[c], rq[c].op)
         /\ rq[c].src \in Paths /\ rq[c].src \in Seq(Names)
         /\ rq[c].dst \in Paths /\ rq[c].dst \in Seq(Names)
         /\ goal[c] \in Seq(Names) /\ goal[c] \in Destinations(rq[c])
         /\ \A t \in Calls : /\ ~Overlap(rq[c].src, Tmp(t)) /\ rq[c].src # Tmp(t)
                             /\ ~Overlap(rq[c].dst, Tmp(t)) /\ rq[c].dst # Tmp(t)
                             /\ ~Overlap(goal[c], Tmp(t))
<1>1. /\ c \in Begun /\ at[c] \in {"waiting", "gone"} /\ rq[c] \in Requests
      /\ FitsOp("gone", hp[c], rq[c].op) /\ goal[c] \in Destinations(rq[c])
  BY Parts DEF CallInv, Running, Begun, FitsOp
<1>2. /\ rq[c].src \in Paths /\ rq[c].src \in Seq(Names)
      /\ rq[c].dst \in Paths /\ rq[c].dst \in Seq(Names) /\ goal[c] \in Seq(Names)
      /\ \A t \in Calls : /\ ~Overlap(rq[c].src, Tmp(t)) /\ ~Overlap(rq[c].dst, Tmp(t))
                          /\ ~Overlap(goal[c], Tmp(t))
  BY <1>1, RequestFacts, PathFacts
<1>3. \A t \in Calls : rq[c].src # Tmp(t) /\ rq[c].dst # Tmp(t)
  BY <1>2, UnderOrder DEF Overlap
<1> QED BY <1>1, <1>2, <1>3

\* A helper's step keeps the invariant if it ends a put without a temp file.
LEMMA HelperGoes ==
  ASSUME ElevationInv, NEW c \in Calls, Running(hp[c]), UNCHANGED <<at, request>>,
         NEW place, Become(c, place), CallsInv', OthersWait(c),
         rq[c].op = "put" /\ place = "ok" => ~Exists(Tmp(c))',
         FilesInv', CopiesTyped', faults' \in 0 .. MaxFaults,
         \A d \in Calls \ {c} : fs'[Tmp(d)] = fs[Tmp(d)]
  PROVE  Keeps(c)
<1>1. at' = at /\ rq' = rq /\ hp'[c] = place
  BY Parts DEF request, Become, CallsTyped
<1>2. at[c] \notin Answers \cup Holding \cup {"idle", "receive"}
  BY HelperRuns DEF Answers, Holding
<1>3. TmpInv(c)'
  BY <1>1, <1>2 DEF TmpInv
<1> QED BY <1>3 DEF Keeps

\* ... also one without a new destination or entry, or any change to a temp file.
LEMMA HelperStays ==
  ASSUME ElevationInv, NEW c \in Calls, Running(hp[c]), UNCHANGED <<at, request, goal, todo>>,
         NEW place \in HelperPlaces \ {"none"}, Become(c, place),
         FitsOp("gone", place, rq[c].op), rq[c].op # "put" \/ place # "ok",
         FilesInv', CopiesTyped', faults' \in 0 .. MaxFaults,
         \A d \in Calls : fs'[Tmp(d)] = fs[Tmp(d)]
  PROVE  Keeps(c)
<1>1. FitsOp(at[c], place, rq[c].op)
  BY HelperRuns DEF FitsOp
<1>2. CallsInv' /\ OthersWait(c)
  BY <1>1, Parts, Stays
<1> QED BY <1>2, HelperGoes

LEMMA SudoKeeps ==
  ASSUME ElevationInv, NEW c \in Calls, Sudo(c), UNCHANGED <<at, request>>
  PROVE  Keeps(c)
<1> DEFINE place == IF rq[c].pass = "good" THEN First(rq[c].op) ELSE "refused"
<1>1. hp[c] = "sudo" /\ Become(c, place) /\ UNCHANGED <<files, goal, todo, cp, faults>>
  BY DEF Sudo
<1>2. Running(hp[c])
  BY <1>1 DEF Running, HelperOver
<1>3. rq[c].op \in Ops
  BY <1>2, HelperRuns, RequestFacts
<1>4. /\ place \in {"refused", "parent", "mkdir", "delete", "check"}
      /\ FitsOp("gone", place, rq[c].op)
  BY <1>3 DEF FitsOp, First, Ops
<1> HIDE DEF place
<1>5. place \in HelperPlaces \ {"none"} /\ place # "ok"
  BY <1>4 DEF HelperPlaces, HelperOver
<1>6. FilesInv' /\ CopiesTyped' /\ \A d \in Calls : fs'[Tmp(d)] = fs[Tmp(d)]
  BY <1>1, Parts, FilesStay
<1> QED BY <1>1, <1>2, <1>4, <1>5, <1>6, Parts, HelperStays

LEMMA HelperMkdirKeeps ==
  ASSUME ElevationInv, NEW c \in Calls, HelperMkdir(c), UNCHANGED <<at, request>>
  PROVE  Keeps(c)
<1> DEFINE result == MkdirResult("root", rq[c].dst)
           place == IF result # "ok" THEN "error" ELSE "ok"
<1>1. /\ hp[c] = "mkdir" /\ Become(c, place) /\ UNCHANGED <<data, goal, todo, cp, faults>>
      /\ fs' = IF result = "ok" THEN WithDirs(rq[c].dst) ELSE fs
  BY DEF HelperMkdir, FailIf
<1>2. Running(hp[c])
  BY <1>1 DEF Running, HelperOver
<1>3. rq[c].op = "mkdir"
  BY <1>1, <1>2, HelperRuns DEF FitsOp
<1>4. FilesInv' /\ \A d \in Calls : fs'[Tmp(d)] = fs[Tmp(d)]
  <2>1. CASE result = "ok"
    BY <1>1, <1>2, <2>1, Parts, HelperRuns, DirsMade DEF Overlap
  <2>2. CASE result # "ok"
    BY <1>1, <2>2, Parts, FilesStay DEF files
  <2> QED BY <2>1, <2>2
<1>5. CopiesTyped'
  BY <1>1, Parts, CopiesStay
<1>6. place \in HelperPlaces \ {"none"} /\ FitsOp("gone", place, rq[c].op)
  BY DEF HelperPlaces, HelperOver, FitsOp
<1> HIDE DEF place
<1> QED BY <1>1, <1>2, <1>3, <1>4, <1>5, <1>6, Parts, HelperStays

\* A source is removed, or part of it.
LEMMA SourceRemoved ==
  ASSUME ElevationInv, NEW c \in Calls, Running(hp[c]), RemoveSource(c), data' = data
  PROVE  /\ FilesInv' /\ \A d \in Calls : fs'[Tmp(d)] = fs[Tmp(d)]
         /\ faults' \in 0 .. MaxFaults
         /\ \E place \in {"ok", "error", "killed"} : Become(c, place)
<1>1. /\ rq[c].src \in Seq(Names) /\ FilesInv /\ faults \in 0 .. MaxFaults
      /\ \A d \in Calls : ~Under(rq[c].src, Tmp(d))
  BY HelperRuns, Parts, PathFacts DEF Overlap
<1>2. CASE fs' = Removed(rq[c].src) /\ FailIf(c, ~Exists(rq[c].src), "ok") /\ UNCHANGED faults
  BY <1>1, <1>2, TreeRemoved DEF FailIf
<1>3. ASSUME NEW S \in Removals(rq[c].src), fs' = Without(S), Fault,
             Become(c, "killed") \/ Become(c, "error")
      PROVE  /\ FilesInv' /\ \A d \in Calls : fs'[Tmp(d)] = fs[Tmp(d)]
             /\ faults' \in 0 .. MaxFaults
             /\ \E place \in {"ok", "error", "killed"} : Become(c, place)
  BY <1>1, <1>3, PartRemoved, Faulty
<1> QED BY <1>2, <1>3 DEF RemoveSource

LEMMA HelperDeleteKeeps ==
  ASSUME ElevationInv, NEW c \in Calls, HelperDelete(c), UNCHANGED <<at, request>>
  PROVE  Keeps(c)
<1>1. hp[c] = "delete" /\ RemoveSource(c) /\ UNCHANGED <<data, goal, todo, cp>>
  BY DEF HelperDelete
<1>2. Running(hp[c])
  BY <1>1 DEF Running, HelperOver
<1>3. rq[c].op = "delete"
  BY <1>1, <1>2, HelperRuns DEF FitsOp
<1>4. /\ FilesInv' /\ \A d \in Calls : fs'[Tmp(d)] = fs[Tmp(d)]
      /\ faults' \in 0 .. MaxFaults
  BY <1>1, <1>2, SourceRemoved
<1>5. CopiesTyped'
  BY <1>1, Parts DEF CopiesTyped
<1>6. PICK place \in {"ok", "error", "killed"} : Become(c, place)
  BY <1>1, <1>2, SourceRemoved
<1>7. place \in HelperPlaces \ {"none"} /\ FitsOp("gone", place, rq[c].op)
  BY DEF HelperPlaces, HelperOver, FitsOp
<1> QED BY <1>1, <1>2, <1>3, <1>4, <1>5, <1>6, <1>7, Parts, HelperStays

LEMMA HelperParentKeeps ==
  ASSUME ElevationInv, NEW c \in Calls, HelperParent(c), UNCHANGED <<at, request>>
  PROVE  Keeps(c)
<1> DEFINE p == Parent(rq[c].dst)
           result == MkdirResult("root", p)
           place == IF result # "ok" THEN "error" ELSE "copy"
           T == {[from |-> Tmp(c), to |-> rq[c].dst]}
<1>1. /\ hp[c] = "parent" /\ Become(c, place) /\ UNCHANGED <<data, goal, cp, faults>>
      /\ fs' = IF result = "ok" THEN WithDirs(p) ELSE fs
      /\ todo' = [todo EXCEPT ![c] = T]
  BY DEF HelperParent, FailIf
<1>2. Running(hp[c])
  BY <1>1 DEF Running, HelperOver
<1>3. /\ rq[c].op = "put" /\ rq[c] \in Requests /\ rq[c].dst \in Seq(Names)
      /\ goal[c] \in Destinations(rq[c]) /\ at[c] \in {"waiting", "gone"}
  BY <1>1, <1>2, HelperRuns DEF FitsOp
<1>4. p \in Seq(Names) /\ \A t \in Calls : ~Under(Tmp(t), p)
  BY <1>3, ParentOff
<1>5. FilesInv' /\ \A d \in Calls : fs'[Tmp(d)] = fs[Tmp(d)]
  <2>1. CASE result = "ok"
    BY <1>1, <1>4, <2>1, Parts, DirsMade
  <2>2. CASE result # "ok"
    BY <1>1, <2>2, Parts, FilesStay DEF files
  <2> QED BY <2>1, <2>2
<1>6. CopiesTyped'
  BY <1>1, Parts, CopiesStay
<1>7. /\ place \in HelperPlaces \ {"none"} /\ place # "ok" /\ FitsOp(at[c], place, rq[c].op)
  BY <1>3 DEF HelperPlaces, HelperOver, FitsOp
<1>8. T \in SUBSET [from : Paths, to : Seq(Names)] /\ \A e \in T : Under(rq[c].dst, e.to)
  BY <1>3, TmpFacts, UnderOrder
<1>9. rq[c].dst \in Destinations(rq[c])
  BY <1>3, RequestFacts
<1> HIDE DEF place, T
<1>10. /\ todo' \in [Calls -> SUBSET [from : Paths, to : Seq(Names)]] /\ todo'[c] = T
       /\ \A d \in Calls \ {c} : todo'[d] = todo[d]
       /\ goal' \in [Calls -> Seq(Names)] /\ goal' = goal
  BY <1>1, <1>8, Parts DEF CallsTyped
<1>11. CallsInv' /\ OthersWait(c)
  BY <1>1, <1>2, <1>3, <1>7, <1>8, <1>9, <1>10, Parts, Becomes
<1> QED BY <1>1, <1>2, <1>5, <1>6, <1>7, <1>11, Parts, HelperGoes

LEMMA HelperRenameCheckKeeps ==
  ASSUME ElevationInv, NEW c \in Calls, HelperRenameCheck(c), UNCHANGED <<at, request>>
  PROVE  Keeps(c)
<1> DEFINE place == IF Exists(rq[c].dst) THEN "error" ELSE "rename"
<1>1. /\ hp[c] = "check" /\ rq[c].op = "rename" /\ Become(c, place)
      /\ UNCHANGED <<files, goal, todo, cp, faults>>
  BY DEF HelperRenameCheck, FailIf
<1>2. Running(hp[c])
  BY <1>1 DEF Running, HelperOver
<1>3. FilesInv' /\ CopiesTyped' /\ \A d \in Calls : fs'[Tmp(d)] = fs[Tmp(d)]
  BY <1>1, Parts, FilesStay
<1>4. place \in HelperPlaces \ {"none"} /\ FitsOp("gone", place, rq[c].op)
  BY <1>1 DEF HelperPlaces, HelperOver, FitsOp
<1> HIDE DEF place
<1> QED BY <1>1, <1>2, <1>3, <1>4, Parts, HelperStays

LEMMA HelperMoveCheckKeeps ==
  ASSUME ElevationInv, NEW c \in Calls, HelperMoveCheck(c), UNCHANGED <<at, request>>
  PROVE  Keeps(c)
<1> DEFINE r == rq[c]
           d == Resolve(r.src, final[c])
<1>1. /\ hp[c] = "check" /\ r.op \in {"move", "copy"} /\ UNCHANGED <<files, cp, faults>>
      /\ at' = at
  BY DEF HelperMoveCheck
<1>2. Running(hp[c])
  BY <1>1 DEF Running, HelperOver
<1>3. /\ c \in Begun /\ r \in Requests /\ at[c] \in {"waiting", "gone"}
      /\ r.src \in Paths /\ CallInv(c)
  BY <1>2, HelperRuns, Parts
<1>4. FilesInv' /\ CopiesTyped' /\ \A t \in Calls : fs'[Tmp(t)] = fs[Tmp(t)]
  BY <1>1, Parts, FilesStay
<1>5. d \in Destinations(r) /\ free_dst(d) \in Destinations(r)
  <2>1. final[c] \in Settled(r.dst, Name(r.src))
    BY <1>3 DEF CallInv
  <2>2. Settled(final[c], Name(r.src)) \subseteq Destinations(r)
    BY <1>1, <1>3, <2>1, RequestFacts
  <2> QED BY <2>2, Resolved
<1>6. CASE Become(c, "conflict") /\ UNCHANGED <<goal, todo>>
  <2>1. "conflict" \in HelperPlaces \ {"none"} /\ FitsOp("gone", "conflict", r.op)
    BY <1>1 DEF HelperPlaces, HelperOver, FitsOp
  <2> QED BY <1>1, <1>2, <1>4, <1>6, <2>1, Parts, HelperStays
<1>7. ASSUME NEW g \in Destinations(r),
             goal' = [goal EXCEPT ![c] = g],
             todo' = [todo EXCEPT ![c] = {[from |-> r.src, to |-> g]}],
             Become(c, IF r.op = "move" THEN "rename" ELSE "copy")
      PROVE  Keeps(c)
  <2> DEFINE place == IF r.op = "move" THEN "rename" ELSE "copy"
             T == {[from |-> r.src, to |-> g]}
  <2>1. g \in Seq(Names) /\ Under(g, g)
    BY <1>3, RequestFacts, UnderOrder
  <2>2. T \in SUBSET [from : Paths, to : Seq(Names)] /\ \A e \in T : Under(g, e.to)
    BY <1>3, <2>1
  <2>3. place \in HelperPlaces \ {"none"} /\ place # "ok" /\ FitsOp(at[c], place, r.op)
    BY <1>1, <1>3 DEF HelperPlaces, HelperOver, FitsOp
  <2>4. Become(c, place)
    BY <1>7
  <2> HIDE DEF place, T
  <2>5. /\ todo' \in [Calls -> SUBSET [from : Paths, to : Seq(Names)]] /\ todo'[c] = T
        /\ \A t \in Calls \ {c} : todo'[t] = todo[t]
    BY <1>7, <2>2, Parts DEF CallsTyped, T
  <2>6. /\ goal' \in [Calls -> Seq(Names)] /\ goal'[c] = g
        /\ \A t \in Calls \ {c} : goal'[t] = goal[t]
    BY <1>7, <2>1, Parts DEF CallsTyped
  <2>7. CallsInv' /\ OthersWait(c)
    BY <1>2, <2>2, <2>3, <2>4, <2>5, <2>6, Parts, Becomes
  <2> QED BY <1>1, <1>2, <1>4, <2>3, <2>4, <2>7, Parts, HelperGoes
<1> QED BY <1>5, <1>6, <1>7 DEF HelperMoveCheck

LEMMA HelperRenameKeeps ==
  ASSUME ElevationInv, NEW c \in Calls, HelperRename(c), UNCHANGED <<at, request>>
  PROVE  Keeps(c)
<1> DEFINE result == RenameResult("root", rq[c].src, goal[c])
           place == IF result = "ok" THEN "ok"
                    ELSE IF result = "other device" /\ rq[c].op = "move" THEN "copy" ELSE "error"
<1>1. /\ hp[c] = "rename" /\ Become(c, place) /\ UNCHANGED <<data, goal, todo, cp, faults>>
      /\ fs' = IF result = "ok" THEN Renamed(rq[c].src, goal[c]) ELSE fs
  BY DEF HelperRename
<1>2. Running(hp[c])
  BY <1>1 DEF Running, HelperOver
<1>3. rq[c].op \in {"rename", "move"}
  BY <1>1, <1>2, HelperRuns DEF FitsOp
<1>4. FilesInv' /\ \A d \in Calls : fs'[Tmp(d)] = fs[Tmp(d)]
  <2>1. CASE result = "ok"
    <3>1. \A t \in Calls : /\ ~Under(rq[c].src, Tmp(t)) /\ ~Overlap(goal[c], Tmp(t))
                           /\ rq[c].src # Tmp(t)
      BY <1>2, HelperRuns DEF Overlap
    <3>2. rq[c].src \in Paths /\ goal[c] \in Seq(Names)
      BY <1>2, HelperRuns
    <3> QED BY <1>1, <2>1, <3>1, <3>2, Parts, TreeRenamed
  <2>2. CASE result # "ok"
    BY <1>1, <2>2, Parts, FilesStay DEF files
  <2> QED BY <2>1, <2>2
<1>5. CopiesTyped'
  BY <1>1, Parts, CopiesStay
<1>6. place \in HelperPlaces \ {"none"} /\ FitsOp("gone", place, rq[c].op)
  BY <1>3 DEF HelperPlaces, HelperOver, FitsOp
<1> HIDE DEF place
<1> QED BY <1>1, <1>2, <1>3, <1>4, <1>5, <1>6, Parts, HelperStays

\* An entry that is still to visit goes to a path under a destination.
LEMMA ToVisit ==
  ASSUME ElevationInv, NEW c \in Calls, Running(hp[c]), NEW e \in todo[c]
  PROVE  /\ e.from \in Paths /\ e.to \in Seq(Names)
         /\ \E g \in Destinations(rq[c]) : Under(g, e.to)
         /\ \A t \in Calls : ~Overlap(e.to, Tmp(t))
<1>1. e \in [from : Paths, to : Seq(Names)]
  BY Parts DEF CallsTyped
<1>2. PICK g \in Destinations(rq[c]) : Under(g, e.to)
  BY Parts DEF CallInv
<1>3. rq[c] \in Requests
  BY HelperRuns
<1>4. \A t \in Calls : ~Overlap(e.to, Tmp(t))
  BY <1>1, <1>2, <1>3, BelowGoal
<1> QED BY <1>1, <1>2, <1>4

LEMMA CopyDirKeeps ==
  ASSUME ElevationInv, NEW c \in Calls, NEW e \in todo[c], CopyDir(c, e), UNCHANGED <<at, request>>
  PROVE  Keeps(c)
<1> DEFINE result == MkdirResult("root", e.to)
           found == Entries(e.from, Prefixes(e.to))
           inside == {[from |-> q, to |-> Append(e.to, Name(q))] : q \in found}
           place == IF result # "ok" THEN "error" ELSE "copy"
           T == (todo[c] \ {e}) \cup inside
<1>1. /\ hp[c] = "copy" /\ Become(c, place) /\ UNCHANGED <<data, goal, cp, faults>>
      /\ fs' = IF result = "ok" THEN WithDirs(e.to) ELSE fs
      /\ todo' = [todo EXCEPT ![c] = T]
  BY DEF CopyDir, FailIf
<1>2. Running(hp[c])
  BY <1>1 DEF Running, HelperOver
<1>3. /\ rq[c] \in Requests /\ rq[c].op \in {"put", "move", "copy"}
      /\ at[c] \in {"waiting", "gone"} /\ goal[c] \in Destinations(rq[c])
  BY <1>1, <1>2, HelperRuns DEF FitsOp
<1>4. /\ e.to \in Seq(Names) /\ \A t \in Calls : ~Under(Tmp(t), e.to)
  BY <1>2, ToVisit DEF Overlap
<1>5. PICK g \in Destinations(rq[c]) : Under(g, e.to)
  BY <1>2, ToVisit
<1>6. FilesInv' /\ \A d \in Calls : fs'[Tmp(d)] = fs[Tmp(d)]
  <2>1. CASE result = "ok"
    BY <1>1, <1>4, <2>1, Parts, DirsMade
  <2>2. CASE result # "ok"
    BY <1>1, <2>2, Parts, FilesStay DEF files
  <2> QED BY <2>1, <2>2
<1>7. CopiesTyped'
  BY <1>1, Parts, CopiesStay
<1>8. ASSUME NEW q \in found
      PROVE  q \in Paths /\ Append(e.to, Name(q)) \in Seq(Names) /\ Under(g, Append(e.to, Name(q)))
  <2>1. q \in Paths /\ q \in Seq(Names) /\ Len(q) # 0 /\ Len(q) \in Nat
    BY PathFacts DEF Entries
  <2>2. Name(q) \in Names
    BY <2>1 DEF Name
  <2>3. Append(e.to, Name(q)) \in Seq(Names) /\ Under(e.to, Append(e.to, Name(q)))
    BY <1>4, <2>2, AppendUnder
  <2>4. g \in Seq(Names)
    BY <1>3, RequestFacts
  <2> DEFINE below == Append(e.to, Name(q))
  <2> HIDE DEF below
  <2>5. below \in Seq(Names) /\ Under(e.to, below)
    BY <2>3 DEF below
  <2>6. Under(g, below)
    BY <1>4, <1>5, <2>4, <2>5, UnderOrder
  <2> QED BY <2>1, <2>5, <2>6 DEF below
<1>9. /\ todo[c] \in SUBSET [from : Paths, to : Seq(Names)]
      /\ \A o \in todo[c] : \E h \in Destinations(rq[c]) : Under(h, o.to)
  BY Parts DEF CallsTyped, CallInv
<1> HIDE DEF found, place
<1>10. /\ T \in SUBSET [from : Paths, to : Seq(Names)]
       /\ \A o \in T : \E h \in Destinations(rq[c]) : Under(h, o.to)
  <2>1. ASSUME NEW o \in inside
        PROVE  o \in [from : Paths, to : Seq(Names)] /\ Under(g, o.to)
    <3>1. PICK q \in found : o = [from |-> q, to |-> Append(e.to, Name(q))]
      OBVIOUS
    <3>2. q \in Paths /\ Append(e.to, Name(q)) \in Seq(Names) /\ Under(g, Append(e.to, Name(q)))
      BY <1>8
    <3> QED BY <3>1, <3>2
  <2> HIDE DEF inside
  <2> QED BY <1>5, <1>9, <2>1
<1>11. place \in HelperPlaces \ {"none"} /\ place # "ok" /\ FitsOp(at[c], place, rq[c].op)
  BY <1>3 DEF HelperPlaces, HelperOver, FitsOp, place
<1> HIDE DEF T
<1>12. /\ todo' \in [Calls -> SUBSET [from : Paths, to : Seq(Names)]] /\ todo'[c] = T
       /\ \A d \in Calls \ {c} : todo'[d] = todo[d]
       /\ goal' \in [Calls -> Seq(Names)] /\ goal' = goal
  BY <1>1, <1>10, Parts DEF CallsTyped
<1>13. CallsInv' /\ OthersWait(c)
  BY <1>1, <1>2, <1>3, <1>10, <1>11, <1>12, Parts, Becomes
<1> QED BY <1>1, <1>2, <1>6, <1>7, <1>11, <1>13, Parts, HelperGoes

LEMMA CopyFileKeeps ==
  ASSUME ElevationInv, NEW c \in Calls, NEW e \in todo[c], CopyFile(c, e), UNCHANGED <<at, request>>
  PROVE  Keeps(c)
<1> DEFINE can == IsFile(e.from) /\ CreateResult("root", e.to) = "ok"
           place == IF ~can THEN "error" ELSE "copy"
           T == todo[c] \ {e}
<1>1. /\ hp[c] = "copy" /\ Become(c, place) /\ UNCHANGED <<goal, faults>>
      /\ IF can THEN OpenCopy("root", c, e.from, e.to) ELSE UNCHANGED <<files, cp>>
      /\ todo' = [todo EXCEPT ![c] = T]
  BY DEF CopyFile, FailIf
<1>2. Running(hp[c])
  BY <1>1 DEF Running, HelperOver
<1>3. /\ rq[c].op \in {"put", "move", "copy"}
      /\ at[c] \in {"waiting", "gone"} /\ goal[c] \in Destinations(rq[c])
  BY <1>1, <1>2, HelperRuns DEF FitsOp
<1>4. /\ e.from \in Paths /\ e.to \in Seq(Names) /\ \A t \in Calls : e.to # Tmp(t)
  BY <1>2, ToVisit, UnderOrder DEF Overlap
<1>5. FilesInv' /\ CopiesTyped' /\ \A d \in Calls : fs'[Tmp(d)] = fs[Tmp(d)]
  <2>1. CASE can
    BY <1>1, <1>4, <2>1, Parts, CopyOpened DEF Users
  <2>2. CASE ~can
    BY <1>1, <2>2, Parts, FilesStay
  <2> QED BY <2>1, <2>2
<1>6. /\ T \in SUBSET [from : Paths, to : Seq(Names)]
      /\ \A o \in T : \E h \in Destinations(rq[c]) : Under(h, o.to)
  BY Parts DEF CallsTyped, CallInv
<1>7. place \in HelperPlaces \ {"none"} /\ place # "ok" /\ FitsOp(at[c], place, rq[c].op)
  BY <1>3 DEF HelperPlaces, HelperOver, FitsOp
<1> HIDE DEF place, T
<1>8. /\ todo' \in [Calls -> SUBSET [from : Paths, to : Seq(Names)]] /\ todo'[c] = T
      /\ \A d \in Calls \ {c} : todo'[d] = todo[d]
      /\ goal' \in [Calls -> Seq(Names)] /\ goal' = goal
  BY <1>1, <1>6, Parts DEF CallsTyped
<1>9. CallsInv' /\ OthersWait(c)
  BY <1>1, <1>2, <1>3, <1>6, <1>7, <1>8, Parts, Becomes
<1> QED BY <1>1, <1>2, <1>5, <1>7, <1>9, Parts, HelperGoes

LEMMA WriteFileKeeps ==
  ASSUME ElevationInv, NEW c \in Calls, WriteFile(c), UNCHANGED <<at, request>>
  PROVE  Keeps(c)
<1>1. hp[c] = "copy" /\ cp[c] # NoCopy /\ UNCHANGED <<fs, goal, todo>>
  BY DEF WriteFile
<1>2. Running(hp[c])
  BY <1>1 DEF Running, HelperOver
<1>3. rq[c].op \in {"put", "move", "copy"}
  BY <1>1, <1>2, HelperRuns DEF FitsOp
<1>4. CASE CopyChunk(c) /\ UNCHANGED <<hp, faults>>
  <2>1. FilesInv' /\ CopiesTyped'
    BY <1>1, <1>4, Parts, ChunkCopied
  <2>2. Become(c, "copy")
    BY <1>1, <1>4, Parts DEF Become, CallsTyped
  <2>3. "copy" \in HelperPlaces \ {"none"} /\ FitsOp("gone", "copy", rq[c].op)
    BY <1>3 DEF HelperPlaces, HelperOver, FitsOp
  <2> QED BY <1>1, <1>2, <1>4, <2>1, <2>2, <2>3, Parts, HelperStays
<1>5. CASE Fault /\ Become(c, "error") /\ cp' = [cp EXCEPT ![c] = NoCopy] /\ UNCHANGED data
  <2>1. FilesInv' /\ CopiesTyped' /\ faults' \in 0 .. MaxFaults
    BY <1>1, <1>5, Parts, FilesStay, CopyOver, Faulty DEF files
  <2>2. "error" \in HelperPlaces \ {"none"} /\ FitsOp("gone", "error", rq[c].op)
    BY DEF HelperPlaces, HelperOver, FitsOp
  <2> QED BY <1>1, <1>2, <1>5, <2>1, <2>2, HelperStays
<1> QED BY <1>4, <1>5 DEF WriteFile

LEMMA CopiedKeeps ==
  ASSUME ElevationInv, NEW c \in Calls, Copied(c), UNCHANGED <<at, request>>
  PROVE  Keeps(c)
<1>1. hp[c] = "copy" /\ UNCHANGED <<data, goal, todo, cp>>
  BY DEF Copied
<1>2. Running(hp[c])
  BY <1>1 DEF Running, HelperOver
<1>3. CopiesTyped' /\ (UNCHANGED faults => faults' \in 0 .. MaxFaults)
  BY <1>1, Parts DEF CopiesTyped
<1>4. \A place \in {"ok", "error", "killed"} :
        place \in HelperPlaces \ {"none"} /\ \A op : FitsOp("gone", place, op)
  BY DEF HelperPlaces, HelperOver, FitsOp
<1>5. CASE rq[c].op = "put" /\ DropTmp(c) /\ Become(c, "ok") /\ UNCHANGED faults
  <2>1. /\ FilesInv' /\ fs'[Tmp(c)] = None
        /\ \A d \in Calls \ {c} : fs'[Tmp(d)] = fs[Tmp(d)]
    BY <1>1, <1>5, Parts, TmpDropped
  <2>2. ~Exists(Tmp(c))'
    BY <2>1 DEF Exists
  <2>3. FitsOp(at[c], "ok", rq[c].op)
    BY <1>2, HelperRuns DEF FitsOp
  <2>4. CallsInv' /\ OthersWait(c)
    BY <1>1, <1>2, <1>4, <1>5, <2>3, Parts, Stays
  <2> QED BY <1>2, <1>3, <1>5, <2>1, <2>2, <2>4, HelperGoes
<1>6. CASE rq[c].op = "copy" /\ Become(c, "ok") /\ UNCHANGED <<fs, faults>>
  <2>1. FilesInv' /\ \A d \in Calls : fs'[Tmp(d)] = fs[Tmp(d)]
    BY <1>1, <1>6, Parts, FilesStay DEF files
  <2> QED BY <1>1, <1>2, <1>3, <1>4, <1>6, <2>1, HelperStays
<1>7. CASE rq[c].op = "move" /\ RemoveSource(c)
  <2>1. /\ FilesInv' /\ \A d \in Calls : fs'[Tmp(d)] = fs[Tmp(d)]
        /\ faults' \in 0 .. MaxFaults
    BY <1>1, <1>2, <1>7, SourceRemoved
  <2>2. PICK place \in {"ok", "error", "killed"} : Become(c, place)
    BY <1>1, <1>2, <1>7, SourceRemoved
  <2> QED BY <1>1, <1>2, <1>3, <1>4, <1>7, <2>1, <2>2, HelperStays
<1> QED BY <1>5, <1>6, <1>7 DEF Copied

LEMMA KilledKeeps ==
  ASSUME ElevationInv, NEW c \in Calls, Killed(c)
  PROVE  Keeps(c)
<1>1. /\ Running(hp[c]) /\ Fault /\ Become(c, "killed") /\ cp' = [cp EXCEPT ![c] = NoCopy]
      /\ UNCHANGED <<files, at, request, goal, todo>>
  BY DEF Killed, Running
<1>2. FilesInv' /\ \A d \in Calls : fs'[Tmp(d)] = fs[Tmp(d)]
  BY <1>1, Parts, FilesStay
<1>3. CopiesTyped' /\ faults' \in 0 .. MaxFaults
  BY <1>1, Parts, CopyOver, Faulty DEF files
<1>4. "killed" \in HelperPlaces \ {"none"} /\ FitsOp("gone", "killed", rq[c].op)
  BY DEF HelperPlaces, HelperOver, FitsOp
<1> QED BY <1>1, <1>2, <1>3, <1>4, HelperStays

---------------------------------------------------------------------------
\* The specification.

LEMMA InitKeeps == Init => ElevationInv
<1> SUFFICES ASSUME Init PROVE ElevationInv
  OBVIOUS
<1>1. /\ at = [c \in Calls |-> "idle"] /\ rq = [c \in Calls |-> None]
      /\ final = [c \in Calls |-> <<>>] /\ hp = [c \in Calls |-> "none"]
      /\ goal = [c \in Calls |-> <<>>] /\ todo = [c \in Calls |-> {}]
      /\ cp = [c \in Calls |-> NoCopy] /\ faults = 0
  BY DEF Init
<1>2. CallsTyped /\ CopiesTyped /\ faults \in 0 .. MaxFaults
  <2>1. <<>> \in Seq(Names)
    BY EmptySeq
  <2>2. faults \in 0 .. MaxFaults
    BY <1>1, BoundsAssumption
  <2> QED BY <1>1, <2>1, <2>2 DEF CallsTyped, CopiesTyped, Places, HelperPlaces
<1>3. \A c \in Calls : CallInv(c)
  BY <1>1 DEF CallInv, Begun, Running
<1>4. /\ \A p \in Paths : fs[p] = IF p \in InitDirs THEN Dir
                                 ELSE IF p \in InitFiles THEN Start(p) ELSE None
      /\ DOMAIN fs = Paths
  BY DEF Init
<1>5. \A p \in InitFiles : Start(p) \in Inodes
  BY TreeAssumption DEF Start, Inodes, Users
<1>6. fs \in [Paths -> {None, Dir} \cup Inodes]
  BY <1>5 DEF Init
<1>7. /\ \A p : Exists(p) <=> p \in Paths /\ fs[p] # None
      /\ \A p : IsDir(p) <=> p \in Paths /\ fs[p] = Dir
      /\ \A p : IsFile(p) <=> p \in Paths /\ fs[p] \in Inodes
  BY <1>6, NamesAssumption DEF Exists, IsDir, IsFile
<1>8. \A p \in Paths : Exists(p) => ParentIsDir(p)
  <2>1. \A p \in Paths : Exists(p) => p \in InitFiles \cup InitDirs
    BY <1>4, <1>7
  <2>2. \A p \in InitDirs : IsDir(p)
    BY <1>4, <1>7, TreeAssumption
  <2> QED BY <2>1, <2>2, TreeAssumption DEF ParentIsDir
<1>9. /\ DOMAIN data = {Start(p) : p \in InitFiles}
      /\ \A i \in DOMAIN data : data[i] = Whole(i.path)
  BY DEF Init
<1>10. /\ DOMAIN data \subseteq Inodes
       /\ \A p \in Paths : IsFile(p) => fs[p] \in DOMAIN data
       /\ \A i \in DOMAIN data : data[i] \in [1 .. Chunks -> Blobs \cup {Hole}]
  <2>1. DOMAIN data \subseteq Inodes
    BY <1>5, <1>9
  <2>2. \A p \in Paths : IsFile(p) => p \in InitFiles /\ fs[p] = Start(p)
    BY <1>4, <1>7, NamesAssumption
  <2>3. \A p \in Paths : IsFile(p) => fs[p] \in DOMAIN data
    BY <1>9, <2>2
  <2>4. ASSUME NEW i \in DOMAIN data PROVE data[i] \in [1 .. Chunks -> Blobs \cup {Hole}]
    <3>1. PICK p \in InitFiles : i = Start(p)
      BY <1>9
    <3>2. i.path \in Blobs
      BY <3>1 DEF Start, Blobs
    <3> QED BY <1>9, <3>2 DEF Whole
  <2> QED BY <2>1, <2>3, <2>4
<1>11. TmpsPlaced /\ TmpsInv
  <2>1. \A c \in Calls : ~Exists(Tmp(c)) /\ ~IsDir(Tmp(c))
    BY <1>4, <1>7, TempsAssumption, NamesAssumption DEF Temps
  <2>2. \A c \in Calls : Len(Tmp(c)) = 1 \/ IsDir(Parent(Tmp(c)))
    BY <1>4, <1>7, TempsAssumption, TreeAssumption
  <2>3. \A c \in Calls : TmpInv(c)
    BY <1>1, <2>1 DEF TmpInv, Begun, Holding
  <2> QED BY <2>1, <2>2, <2>3 DEF TmpsPlaced, TmpsInv
<1>12. TypeOK
  BY <1>2, <1>6, <1>8, <1>10 DEF TypeOK, CallsTyped, CopiesTyped
<1> QED BY <1>2, <1>3, <1>11, <1>12 DEF ElevationInv, CallsInv

LEMMA NextKeeps == ElevationInv /\ [Next]_vars => ElevationInv'
<1> SUFFICES ASSUME ElevationInv, [Next]_vars PROVE ElevationInv'
  OBVIOUS
<1>1. ASSUME NEW c \in Calls, NEW r \in Requests, Arrive(c, r) PROVE ElevationInv'
  BY <1>1, ArriveKeeps, StepKeeps
<1>2. ASSUME NEW c \in Calls, Handler(c) \/ PutBody(c) \/ Abort(c) PROVE ElevationInv'
  <2>1. Keeps(c)
    BY <1>2, PutCreateKeeps, PutBodyKeeps, PutParentKeeps, PutPlaceKeeps, PutCreateTargetKeeps,
       PutCopyKeeps, MkdirKeeps, RenameCheckKeeps, RenameKeeps, DeleteKeeps, MoveCheckKeeps,
       CollectKeeps, AbortKeeps DEF Handler
  <2> QED BY <2>1, StepKeeps
<1>3. ASSUME NEW c \in Calls, Helper(c) PROVE ElevationInv'
  <2>1. UNCHANGED <<at, request>> /\ \A e \in Deepest(todo[c]) : e \in todo[c]
    BY <1>3 DEF Helper, Deepest
  <2>2. Keeps(c)
    BY <1>3, <2>1, SudoKeeps, HelperMkdirKeeps, HelperDeleteKeeps, HelperParentKeeps,
       HelperRenameCheckKeeps, HelperMoveCheckKeeps, HelperRenameKeeps, CopyDirKeeps,
       CopyFileKeeps, WriteFileKeeps, CopiedKeeps DEF Helper
  <2> QED BY <2>2, StepKeeps
<1>4. ASSUME NEW c \in Calls, Killed(c) PROVE ElevationInv'
  BY <1>4, KilledKeeps, StepKeeps
<1>5. CASE Restart
  BY <1>5, RestartKeeps
<1>6. CASE UNCHANGED vars
  BY <1>6 DEF vars, ElevationInv, TypeOK, CallsInv, CallsTyped, CallInv, Begun, TmpsPlaced,
              TmpsInv, TmpInv, Exists, IsDir, IsFile, ParentIsDir
<1> QED BY <1>1, <1>2, <1>3, <1>4, <1>5, <1>6 DEF Next

\* Whatever users ask for, and whatever becomes of handlers and helpers, a call
\* works under the destinations of its request and its temp file is its own.
THEOREM ElevationInvariant == Spec => []ElevationInv
BY InitKeeps, NextKeeps, PTL DEF Spec

\* No operation, of the user or of root, leaves an entry without its parent
\* directory, a file without contents or a variable without its type
\* (create_dir_all, rename, copy_recursive, remove_dir_all, File::create).
THEOREM ElevationTypes == Spec => []TypeOK
<1>1. ElevationInv => TypeOK
  BY DEF ElevationInv
<1> QED BY <1>1, ElevationInvariant, PTL

\* A put that has been answered has no temp file left, unless its helper failed
\* after it was started (handle_put's remove_file calls, the helper's own).
THEOREM NoTmpStays == Spec => []NoTmpLeft
<1>1. ElevationInv => NoTmpLeft
  BY DEF ElevationInv, TmpsInv, TmpInv, NoTmpLeft, Begun
<1> QED BY <1>1, ElevationInvariant, PTL
=============================================================================
