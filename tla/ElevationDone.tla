--------------------------- MODULE ElevationDone ----------------------------
(***************************************************************************)
(* That Elevation answers with success only for what was done, and loses   *)
(* no file that it was not to replace, for any number of calls, any        *)
(* requests, trees, chunks and faults.                                     *)
(*                                                                         *)
(* The argument: a step of a call changes the tree only within its reach,  *)
(* the paths at or below those it works on and its temp file, and writes   *)
(* to files only that it made or that lay there.  So the files within the  *)
(* reach of a call that no other call disturbs are its own, and none of    *)
(* its own lies elsewhere; what it has read of them, copied and found in   *)
(* place is there until it answers, and after.                             *)
(***************************************************************************)
EXTENDS ElevationProofs

\* The paths a call works on, or below.
Reach(c) == Touched(c) \cup {Tmp(c)}
Within(c, q) == \E t \in Reach(c) : Under(t, q)

\* A file that has been at its path from the start, and one that a call made
\* or may have moved.
Original(q) == fs[q].call = 0 /\ fs[q].path = q
Traced(i) == i.call \in Begun \/ (i.call = 0 /\ \E e \in Begun : Within(e, i.path))

\* Files that are not where they were lie within the reach of some call, and
\* such files only are written to.
FilesPlaced ==
  \A q \in Paths :
    IsFile(q) => Original(q) \/ (Traced(fs[q]) /\ \E e \in Begun : Within(e, q))
CopiesTraced == \A c \in Calls : cp[c] # NoCopy => Traced(cp[c].to)

\* What was there at the start is there, whole, unless a call works on it.
OutOfReach == \A f \in InitFiles : Holds(f, f) \/ \E e \in Begun : Within(e, f)

\* The files of a call are those it made and those it found within its reach.
\* Where nobody disturbs it, they are the ones that lie there, and nobody else
\* writes to them.
Mine(c, i) == i.call = c \/ (i.call = 0 /\ Within(c, i.path))
OwnFiles(c) ==
  /\ \A q \in Paths : IsFile(q) => (Mine(c, fs[q]) <=> Within(c, q))
  /\ \A d \in Calls \ {c} : cp[d] # NoCopy => ~Mine(c, cp[d].to)

\* What a put, a move or a copy takes to where.
Root(c) == IF rq[c].op = "put" THEN Tmp(c) ELSE rq[c].src
Dest(c) == IF rq[c].op = "put" THEN rq[c].dst ELSE goal[c]

\* How far handler and helper have come, whatever the others do.  A directory
\* that is copied into itself is never copied: there is always more to visit.
Progress(c) ==
  /\ hp[c] = "none" => goal[c] = <<>>
  /\ cp[c] # NoCopy => at[c] = "copying" \/ hp[c] = "copy"
  /\ c \in Begun =>
       /\ Touched(c) \subseteq {rq[c].src} \cup Destinations(rq[c])
       /\ hp[c] = "none" => final[c] = rq[c].dst
       /\ hp[c] \in {"sudo", "check"} => goal[c] = final[c]
       /\ at[c] = "ok" => IF hp[c] = "none" THEN rq[c].op \in {"put", "mkdir", "rename"}
                          ELSE Succeeded(c)
       /\ hp[c] = "rename" /\ rq[c].op = "move" =>
            todo[c] = {[from |-> rq[c].src, to |-> goal[c]]}
       /\ hp[c] = "copy" => \A e \in todo[c] : Under(Dest(c), e.to)
       /\ hp[c] = "copy" /\ rq[c].op # "put" /\ Under(rq[c].src, goal[c]) /\ rq[c].src # goal[c] =>
            \E e \in todo[c] : e.from # e.to /\ Under(e.from, e.to)

\* The place that q is copied to, and the files that are copied.
Image(c, q) == Dest(c) \o Rel(Root(c), q)
Sources(c) ==
  IF rq[c].op = "put" THEN {Tmp(c)}
  ELSE IF rq[c].op \in {"move", "copy"} THEN {f \in InitFiles : Under(rq[c].src, f)} ELSE {}

\* The call's work is over; files are copied from one place to another; the
\* sources are complete and have not been taken away.
Finished(c) == hp[c] = "ok" \/ (hp[c] = "none" /\ at[c] = "ok")
Copying(c) == (hp[c] = "copy" /\ ~Overlap(Root(c), Dest(c))) \/ at[c] = "copying"
Held(c) ==
  IF rq[c].op = "put"
  THEN at[c] \in {"parent", "place", "create", "copying"} \/ hp[c] \in {"sudo", "parent", "copy"}
  ELSE hp[c] \in {"none", "sudo", "check", "rename"} \/ Copying(c)

\* Until a rename every file is at the path it was made for; so no two names
\* stand for one file, and what is written to a copy is not its source.
InPlace(c) == ~Finished(c) => \A q \in Paths : Within(c, q) /\ IsFile(q) => fs[q].path = q

Kept(c) ==
  /\ Held(c) => \A f \in Sources(c) : Holds(f, f)
  /\ Held(c) /\ hp[c] # "none" /\ rq[c].op \in {"move", "copy"} => Exists(rq[c].src)

\* Each file has been copied, is being copied or is still to be visited.
ToCopy(c) == \A e \in todo[c] : Under(Root(c), e.from) /\ e.to = Image(c, e.from)
BeingCopied(c) ==
  cp[c] # NoCopy =>
    \E q \in Paths :
      /\ Under(Root(c), q) /\ IsFile(q) /\ cp[c].from = fs[q]
      /\ IsFile(Image(c, q)) /\ cp[c].to = fs[Image(c, q)]
      /\ q \in Sources(c) => \A k \in 1 .. cp[c].pos - 1 : data[cp[c].to][k] = q
Covered(c) ==
  \A f \in Sources(c) :
    \/ Holds(Image(c, f), f)
    \/ \E e \in todo[c] : Under(e.from, f)
    \/ cp[c] # NoCopy /\ cp[c].from = fs[f]
CopyInv(c) == Copying(c) => ToCopy(c) /\ BeingCopied(c) /\ Covered(c)

\* The name that a rename found free is free.
FreeName(c) == rq[c].op = "rename" /\ (at[c] = "rename" \/ hp[c] = "rename") => ~Exists(rq[c].dst)

FinishedDone(c) == Finished(c) /\ ~OntoItself(c) => Done(c)

Good(c) == InPlace(c) /\ Kept(c) /\ CopyInv(c) /\ FreeName(c) /\ FinishedDone(c)

DoneInv ==
  /\ FilesPlaced /\ CopiesTraced /\ OutOfReach
  /\ \A c \in Calls : Progress(c)
  /\ \A c \in Begun : ~Disturbed(c) => OwnFiles(c) /\ Good(c)

---------------------------------------------------------------------------
\* What one step of call d may do: its files are new, or lay within its reach,
\* or it was copying to them; a directory it makes lies above what it works on.
Found(d, i) == \E o \in Paths : fs[o] = i /\ Within(d, o)'

Local(d) ==
  /\ OthersWait(d) /\ \A e \in Calls \ {d} : cp'[e] = cp[e]
  /\ d \in Begun' /\ (d \in Begun => rq'[d] = rq[d] /\ Touched(d) \subseteq Touched(d)')
  /\ \A q \in Paths :
       \/ fs'[q] = fs[q]
       \/ Within(d, q)'
       \/ fs[q] = None /\ fs'[q] = Dir /\ \E t \in Reach(d)' : Under(q, t)
  /\ \A q \in Paths :
       fs'[q] \in Inodes /\ fs'[q] # fs[q] => fs'[q].call = d \/ Found(d, fs'[q])
  /\ DOMAIN data \subseteq DOMAIN data'
  /\ \A i \in DOMAIN data :
       data'[i] = data[i] \/ i.call = d \/ Found(d, i) \/ (cp[d] # NoCopy /\ i = cp[d].to)
  /\ cp'[d] # NoCopy =>
       \/ cp'[d].to.call = d \/ Found(d, cp'[d].to)
       \/ cp[d] # NoCopy /\ cp'[d].to = cp[d].to

---------------------------------------------------------------------------
\* Calls that do not disturb each other.

\* The paths of a request are no temp files, nor above or below one.
LEMMA RequestApart ==
  ASSUME NEW r \in Requests, NEW S \in SUBSET ({r.src} \cup Destinations(r))
  PROVE  /\ S \subseteq Seq(Names)
         /\ \A p \in S, c \in Calls : ~Overlap(p, Tmp(c))
BY RequestFacts, PathFacts

\* Requests that do not meet are apart also with their temp files.
LEMMA Apart ==
  ASSUME NEW c \in Calls, NEW d \in Calls, c # d, NEW r \in Requests, NEW s \in Requests,
         NEW S \in SUBSET ({r.src} \cup Destinations(r)),
         NEW T \in SUBSET ({s.src} \cup Destinations(s)), ~Meet(S, T),
         NEW q \in Seq(Names), NEW p \in S \cup {Tmp(c)}, Under(p, q)
  PROVE  \A u \in T \cup {Tmp(d)} : ~Under(u, q) /\ ~Under(q, u)
<1>1. /\ S \subseteq Seq(Names) /\ T \subseteq Seq(Names)
      /\ \A t \in S \cup T, e \in Calls : ~Overlap(t, Tmp(e))
  <2>1. S \subseteq Seq(Names) /\ \A t \in S, e \in Calls : ~Overlap(t, Tmp(e))
    BY RequestApart
  <2>2. T \subseteq Seq(Names) /\ \A t \in T, e \in Calls : ~Overlap(t, Tmp(e))
    BY RequestApart
  <2> QED BY <2>1, <2>2
<1>2. Tmp(c) \in Seq(Names) /\ Tmp(d) \in Seq(Names) /\ ~Overlap(Tmp(c), Tmp(d))
  BY TmpFacts, PathFacts, TempsAssumption
<1>3. ASSUME NEW u \in T \cup {Tmp(d)} PROVE ~Under(u, q) /\ ~Under(q, u)
  <2>1. p \in Seq(Names) /\ u \in Seq(Names)
    BY <1>1, <1>2
  <2>2. ~Overlap(p, u) 
    BY <1>1, <1>2 DEF Meet, Overlap
  <2>3. ~Under(u, q)
    BY <2>1, <2>2, AboveOverlap
  <2>4. ~Under(q, u)
    BY <2>1, <2>2, UnderOrder DEF Overlap
  <2> QED BY <2>3, <2>4
<1> QED BY <1>3

\* What lies within the reach of a call that is not disturbed is out of the
\* reach of the others, and not above it either; now ...
LEMMA Strangers ==
  ASSUME \A e \in Calls : CallInv(e) /\ Progress(e),
         NEW c \in Begun, ~Disturbed(c), NEW d \in Begun \ {c},
         NEW q \in Seq(Names), Within(c, q)
  PROVE  ~Within(d, q) /\ \A u \in Reach(d) : ~Under(q, u)
<1>1. c \in Calls /\ d \in Calls /\ ~Meet(Touched(c), Touched(d))
  BY DEF Begun, Disturbed
<1>2. ASSUME NEW e \in Begun
      PROVE  rq[e] \in Requests /\ Touched(e) \in SUBSET ({rq[e].src} \cup Destinations(rq[e]))
  BY DEF CallInv, Progress, Begun
<1>3. PICK p \in Touched(c) \cup {Tmp(c)} : Under(p, q)
  BY DEF Within, Reach
<1>4. \A u \in Touched(d) \cup {Tmp(d)} : ~Under(u, q) /\ ~Under(q, u)
  BY <1>1, <1>2, <1>3, Apart
<1> QED BY <1>4 DEF Within, Reach

\* ... and after a step.
LEMMA StrangersNext ==
  ASSUME \A e \in Calls : CallInv(e)' /\ Progress(e)',
         NEW c \in Begun', ~Disturbed(c)', NEW d \in Begun' \ {c},
         NEW q \in Seq(Names), Within(c, q)'
  PROVE  ~Within(d, q)' /\ \A u \in Reach(d)' : ~Under(q, u)
<1>1. c \in Calls /\ d \in Calls /\ ~Meet(Touched(c)', Touched(d)')
  BY DEF Begun, Disturbed
<1>2. ASSUME NEW e \in Begun'
      PROVE  rq'[e] \in Requests /\ Touched(e)' \in SUBSET ({rq'[e].src} \cup Destinations(rq'[e]))
  BY DEF CallInv, Progress, Begun
<1>3. PICK p \in Touched(c)' \cup {Tmp(c)} : Under(p, q)
  BY DEF Within, Reach
<1>4. \A u \in Touched(d)' \cup {Tmp(d)} : ~Under(u, q) /\ ~Under(q, u)
  BY <1>1, <1>2, <1>3, Apart
<1> QED BY <1>4 DEF Within, Reach

\* Calls that have begun stay so, and what is within their reach.
LEMMA Grows ==
  ASSUME NEW d \in Calls, Local(d)
  PROVE  /\ Begun' = Begun \cup {d}
         /\ \A e \in Begun : \A q : Within(e, q) => Within(e, q)'
         /\ \A e \in Begun \ {d} : \A q : Within(e, q)' => Within(e, q)
         /\ \A e \in Begun : ~Disturbed(e)' => ~Disturbed(e)
<1>1. Begun' = Begun \cup {d}
  BY DEF Local, OthersWait, Begun
<1>2. \A e \in Begun \ {d} : Touched(e)' = Touched(e)
  BY DEF Local, OthersWait, Begun, Touched, Targets
<1>3. \A e \in Begun : Touched(e) \subseteq Touched(e)'
  BY <1>2 DEF Local
<1>4. \A e \in Begun : ~Disturbed(e)' => ~Disturbed(e)
  BY <1>1, <1>3 DEF Disturbed, Meet
<1> QED BY <1>1, <1>2, <1>3, <1>4 DEF Within, Reach

LEMMA EntryNext ==
  ASSUME FilesTyped'
  PROVE  /\ \A p : Exists(p)' <=> p \in Paths /\ fs'[p] # None
         /\ \A p : IsDir(p)' <=> p \in Paths /\ fs'[p] = Dir
         /\ \A p : IsFile(p)' <=> p \in Paths /\ fs'[p] \in Inodes
BY NamesAssumption DEF FilesTyped, Exists, IsDir, IsFile

LEMMA InodeFacts ==
  ASSUME NEW i \in Inodes
  PROVE  (i.call \in Calls \/ i.call = 0) /\ i.path \in Paths /\ 0 \notin Calls
BY CallsAssumption DEF Inodes

\* What a step of a call may do keeps files where the invariant says.
LEMMA PlacesKept ==
  ASSUME FilesTyped, FilesTyped', CopiesTyped, CopiesTyped', FilesPlaced, CopiesTraced,
         NEW d \in Calls, Local(d)
  PROVE  FilesPlaced' /\ CopiesTraced'
<1>1. /\ Begun' = Begun \cup {d}
      /\ \A e \in Begun : \A q : Within(e, q) => Within(e, q)'
  BY Grows
<1>2. \A i : Traced(i) => Traced(i)'
  BY <1>1 DEF Traced
<1>3. ASSUME NEW i \in Inodes, i.call = d \/ Found(d, i) PROVE Traced(i)'
  <2>1. CASE i.call = d
    BY <1>1, <2>1 DEF Traced
  <2>2. CASE Found(d, i)
    <3>1. PICK o \in Paths : fs[o] = i /\ Within(d, o)'
      BY <2>2 DEF Found
    <3>2. (i.call = 0 /\ i.path = o) \/ Traced(i)
      BY <3>1, Entry DEF FilesPlaced, Original
    <3> QED BY <1>1, <1>2, <3>1, <3>2 DEF Traced
  <2> QED BY <1>3, <2>1, <2>2
<1>4. ASSUME NEW q \in Paths, NEW i \in Inodes, fs'[q] = i
      PROVE  Original(q)' \/ (Traced(i)' /\ \E e \in Begun' : Within(e, q)')
  <2>1. CASE fs[q] = i
    <3>1. Original(q) \/ (Traced(i) /\ \E e \in Begun : Within(e, q))
      BY <2>1, Entry DEF FilesPlaced
    <3>2. Original(q) => Original(q)'
      BY <1>4, <2>1 DEF Original
    <3> QED BY <1>1, <1>2, <3>1, <3>2
  <2>2. CASE fs[q] # i
    <3>1. Within(d, q)' /\ (i.call = d \/ Found(d, i))
      BY <1>4, <2>2, NamesAssumption DEF Local
    <3> QED BY <1>1, <1>3, <3>1
  <2> QED BY <2>1, <2>2
<1>5. FilesPlaced'
  <2> SUFFICES ASSUME NEW q \in Paths, IsFile(q)'
               PROVE  (Original(q) \/ (Traced(fs[q]) /\ \E e \in Begun : Within(e, q)))'
    BY DEF FilesPlaced
  <2>1. PICK i \in Inodes : fs'[q] = i
    BY EntryNext
  <2>2. Traced(i)' => Traced(fs[q])'
    BY <2>1 DEF Traced
  <2> QED BY <1>4, <2>1, <2>2
<1>6. ASSUME NEW e \in Calls, NEW i, cp'[e] # NoCopy, i = cp'[e].to PROVE Traced(i)'
  <2>0. i \in Inodes
    BY <1>6 DEF CopiesTyped, FilesTyped
  <2>1. CASE cp[e] # NoCopy /\ cp[e].to = i
    BY <1>2, <2>1 DEF CopiesTraced
  <2>2. CASE i.call = d \/ Found(d, i)
    BY <1>3, <2>0, <2>2
  <2> QED BY <1>6, <2>1, <2>2 DEF Local
<1>7. CopiesTraced'
  <2> SUFFICES ASSUME NEW e \in Calls, cp'[e] # NoCopy PROVE Traced(cp[e].to)'
    BY DEF CopiesTraced, NoCopy
  <2> QED BY <1>6 DEF Traced
<1> QED BY <1>5, <1>7

LEMMA OutOfReachKept ==
  ASSUME FilesTyped, FilesTyped', CopiesTyped, FilesPlaced, CopiesTraced, OutOfReach,
         NEW d \in Calls, Local(d)
  PROVE  OutOfReach'
<1>1. /\ Begun' = Begun \cup {d}
      /\ \A e \in Begun : \A q : Within(e, q) => Within(e, q)'
  BY Grows
<1>2. ASSUME NEW f \in InitFiles, ~\E e \in Begun' : Within(e, f)' PROVE Holds(f, f)'
  <2>1. Holds(f, f) /\ (~\E e \in Begun : Within(e, f)) /\ ~Within(d, f)' /\ f \in Paths
    BY <1>1, <1>2, TreeAssumption DEF OutOfReach
  <2>2. fs[f] \in Inodes /\ fs[f] \in DOMAIN data /\ data[fs[f]] = Whole(f)
    BY <2>1, Entry DEF Holds, FilesTyped
  <2>3. fs'[f] = fs[f]
    BY <2>1, <2>2, NamesAssumption DEF Local
  <2>4. fs[f].call = 0 /\ fs[f].path = f /\ 0 \notin Calls /\ ~Traced(fs[f])
    <3>1. fs[f].call = 0 /\ fs[f].path = f
      BY <2>1, <2>2, Entry DEF FilesPlaced, Original
    <3> QED BY <2>1, <2>2, <3>1, InodeFacts DEF Traced, Begun
  <2>5. ~Found(d, fs[f])
    <3> SUFFICES ASSUME NEW o \in Paths, fs[o] = fs[f], Within(d, o)' PROVE FALSE
      BY DEF Found
    <3>1. Original(o) \/ Traced(fs[o])
      BY <2>2, Entry DEF FilesPlaced
    <3> QED BY <2>1, <2>4, <3>1 DEF Original
  <2>6. data'[fs[f]] = data[fs[f]]
    BY <2>2, <2>4, <2>5 DEF Local, CopiesTraced
  <2> QED BY <2>1, <2>2, <2>3, <2>6, EntryNext DEF Holds
<1> QED BY <1>2 DEF OutOfReach

\* What DoneInv and the types say, as the lemmas need it.
Known ==
  /\ FilesTyped /\ CopiesTyped /\ FilesPlaced /\ CopiesTraced
  /\ \A c \in Calls : CallInv(c) /\ Progress(c)
  /\ \A c \in Begun : ~Disturbed(c) => OwnFiles(c)

\* A file that was there or that another call wrote to is none of a call's own
\* if nobody disturbs it, unless it was.
LEMMA NotMine ==
  ASSUME Known, NEW d \in Calls, Local(d), \A e \in Calls : CallInv(e)' /\ Progress(e)',
         NEW c \in Begun', ~Disturbed(c)',
         NEW i \in Inodes, Traced(i), c \in Begun => ~Mine(c, i)
  PROVE  ~Mine(c, i)'
<1>1. /\ Begun' = Begun \cup {d} /\ Begun \subseteq Calls /\ c \in Calls
      /\ \A e \in Begun : \A q : Within(e, q) => Within(e, q)'
      /\ (i.call \in Calls \/ i.call = 0) /\ i.path \in Paths /\ 0 \notin Calls
  BY Grows, InodeFacts DEF Begun
<1>2. i.call # c
  BY <1>1 DEF Mine, Traced
<1>3. ASSUME i.call = 0 PROVE ~Within(c, i.path)'
  <2>1. PICK e \in Begun : Within(e, i.path)
    BY <1>1, <1>3 DEF Traced
  <2>2. e # c
    BY <1>3, <2>1 DEF Mine
  <2>3. Within(e, i.path)' /\ e \in Begun' \ {c} /\ i.path \in Seq(Names)
    BY <1>1, <2>1, <2>2, PathFacts
  <2> QED BY <2>3, StrangersNext
<1> QED BY <1>2, <1>3 DEF Mine

\* What a step of d makes or moves is not c's.
LEMMA MadeByOther ==
  ASSUME Known, NEW d \in Calls, Local(d), \A e \in Calls : CallInv(e)' /\ Progress(e)',
         NEW c \in Begun \ {d}, ~Disturbed(c)',
         NEW i \in Inodes, i.call = d \/ Found(d, i)
  PROVE  ~Mine(c, i)
<1>1. /\ c \in Begun' /\ d \in Begun' /\ c \in Calls /\ 0 \notin Calls /\ OwnFiles(c)
      /\ \A q : Within(c, q) => Within(c, q)'
  BY Grows, InodeFacts DEF Known, Begun
<1>2. CASE i.call = d
  BY <1>1, <1>2 DEF Mine
<1>3. CASE Found(d, i)
  <2>1. PICK o \in Paths : fs[o] = i /\ Within(d, o)'
    BY <1>3 DEF Found
  <2>2. ~Within(c, o)
    BY <1>1, <2>1, PathFacts, StrangersNext
  <2>3. IsFile(o)
    BY <2>1, Entry DEF Known
  <2> QED BY <1>1, <2>1, <2>2, <2>3 DEF OwnFiles
<1> QED BY <1>2, <1>3

LEMMA OthersFilesKept ==
  ASSUME Known, NEW d \in Calls, Local(d), \A e \in Calls : CallInv(e)' /\ Progress(e)',
         FilesTyped', CopiesTyped', NEW c \in Begun \ {d}, ~Disturbed(c)'
  PROVE  OwnFiles(c)'
<1>1. /\ c \in Begun' /\ d \in Begun' /\ c \in Calls /\ OwnFiles(c) 
      /\ \A q : Within(c, q) <=> Within(c, q)'
  BY Grows DEF Known, Begun
<1>2. \A i : Mine(c, i)' <=> Mine(c, i)
  BY <1>1 DEF Mine
<1>3. ASSUME NEW q \in Paths, NEW i \in Inodes, fs'[q] = i PROVE Mine(c, i) <=> Within(c, q)
  <2>1. CASE fs[q] = i
    BY <1>1, <2>1, Entry DEF Known, OwnFiles
  <2>2. CASE fs[q] # i
    <3>1. Within(d, q)' /\ (i.call = d \/ Found(d, i))
      BY <1>3, <2>2, NamesAssumption DEF Local
    <3>2. ~Within(c, q)
      BY <1>1, <3>1, PathFacts, StrangersNext
    <3> QED BY <3>1, <3>2, MadeByOther
  <2> QED BY <2>1, <2>2
<1>4. ASSUME NEW e \in Calls \ {c}, NEW i, cp'[e] # NoCopy, cp'[e].to = i PROVE ~Mine(c, i)
  <2>0. i \in Inodes
    BY <1>4 DEF CopiesTyped, FilesTyped
  <2>1. CASE cp[e] # NoCopy /\ cp[e].to = i
    BY <1>1, <2>1 DEF OwnFiles
  <2>2. CASE i.call = d \/ Found(d, i)
    BY <2>0, <2>2, MadeByOther
  <2> QED BY <1>4, <2>1, <2>2 DEF Local
<1>5. \A q \in Paths : IsFile(q)' => (Mine(c, fs[q]) <=> Within(c, q))'
  <2> SUFFICES ASSUME NEW q \in Paths, IsFile(q)' PROVE (Mine(c, fs[q]) <=> Within(c, q))'
    OBVIOUS
  <2>1. PICK i \in Inodes : fs'[q] = i
    BY EntryNext
  <2>2. Mine(c, fs[q])' <=> Mine(c, i)'
    BY <2>1 DEF Mine
  <2> QED BY <1>1, <1>2, <1>3, <2>1, <2>2
<1>6. \A e \in Calls \ {c} : cp'[e] # NoCopy => ~Mine(c, cp[e].to)'
  <2> SUFFICES ASSUME NEW e \in Calls \ {c}, cp'[e] # NoCopy PROVE ~Mine(c, cp[e].to)'
    OBVIOUS
  <2>1. Mine(c, cp[e].to)' => \E i : i = cp'[e].to /\ Mine(c, i)'
    BY DEF Mine
  <2> QED BY <1>2, <1>4, <2>1
<1> QED BY <1>5, <1>6 DEF OwnFiles, NoCopy

LEMMA NewFilesMine ==
  ASSUME Known, NEW d \in Calls, Local(d), \A e \in Calls : CallInv(e)' /\ Progress(e)',
         FilesTyped', CopiesTyped', ~Disturbed(d)'
  PROVE  OwnFiles(d)'
<1>1. /\ d \in Begun' /\ Begun' = Begun \cup {d} /\ 0 \notin Calls /\ Begun \subseteq Calls
      /\ d \in Begun => OwnFiles(d)
      /\ \A e \in Begun : \A q : Within(e, q) => Within(e, q)'
  BY Grows, CallsAssumption DEF Known, Begun
<1>2. \A i : d \in Begun /\ Mine(d, i) => Mine(d, i)'
  BY <1>1 DEF Mine
<1>3. ASSUME NEW q \in Paths, NEW i \in Inodes, fs[q] = i PROVE Mine(d, i)' <=> Within(d, q)'
  <2>1. (i.call = 0 /\ i.path = q) \/ (Traced(i) /\ \E e \in Begun : Within(e, q))
    BY <1>3, Entry DEF Known, FilesPlaced, Original
  <2>2. CASE i.call = 0 /\ i.path = q
    BY <1>1, <2>2 DEF Mine
  <2>3. CASE Traced(i) /\ d \in Begun /\ Within(d, q)
    BY <1>1, <1>2, <1>3, <2>3, Entry DEF Known, OwnFiles
  <2>4. CASE Traced(i) /\ ~(d \in Begun /\ Within(d, q)) /\ \E e \in Begun : Within(e, q)
    <3>1. PICK e \in Begun \ {d} : Within(e, q)'
      BY <1>1, <2>4
    <3>2. ~Within(d, q)'
      BY <1>1, <3>1, PathFacts, StrangersNext
    <3>3. d \in Begun => ~Mine(d, i)
      BY <1>1, <1>3, <2>4, Entry DEF Known, OwnFiles
    <3>4. ~Mine(d, i)'
      BY <1>1, <2>4, <3>3, NotMine
    <3> QED BY <3>2, <3>4
  <2> QED BY <2>1, <2>2, <2>3, <2>4
<1>4. ASSUME NEW q \in Paths, NEW i \in Inodes, fs'[q] = i PROVE Mine(d, i)' <=> Within(d, q)'
  <2>1. CASE fs[q] = i
    BY <1>3, <2>1
  <2>2. CASE fs[q] # i
    <3>1. Within(d, q)' /\ (i.call = d \/ Found(d, i))
      BY <1>4, <2>2, NamesAssumption DEF Local
    <3>2. Found(d, i) => Mine(d, i)'
      BY <1>3 DEF Found
    <3>3. i.call = d => Mine(d, i)'
      BY DEF Mine
    <3> QED BY <3>1, <3>2, <3>3
  <2> QED BY <2>1, <2>2
<1>5. ASSUME NEW e \in Calls \ {d}, NEW i, cp'[e] # NoCopy, cp'[e].to = i PROVE ~Mine(d, i)'
  <2>1. cp[e] # NoCopy /\ cp[e].to = i
    BY <1>5 DEF Local
  <2>2. i \in Inodes /\ Traced(i) /\ (d \in Begun => ~Mine(d, i))
    BY <1>1, <2>1 DEF Known, CopiesTyped, FilesTyped, CopiesTraced, OwnFiles
  <2> QED BY <1>1, <2>2, NotMine
<1>6. \A q \in Paths : IsFile(q)' => (Mine(d, fs[q]) <=> Within(d, q))'
  <2> SUFFICES ASSUME NEW q \in Paths, IsFile(q)' PROVE (Mine(d, fs[q]) <=> Within(d, q))'
    OBVIOUS
  <2>1. PICK i \in Inodes : fs'[q] = i
    BY EntryNext
  <2>2. Mine(d, fs[q])' <=> Mine(d, i)'
    BY <2>1 DEF Mine
  <2> QED BY <1>4, <2>1, <2>2
<1>7. \A e \in Calls \ {d} : cp'[e] # NoCopy => ~Mine(d, cp[e].to)'
  <2> SUFFICES ASSUME NEW e \in Calls \ {d}, cp'[e] # NoCopy PROVE ~Mine(d, cp[e].to)'
    OBVIOUS
  <2>1. Mine(d, cp[e].to)' => \E i : i = cp'[e].to /\ Mine(d, i)'
    BY DEF Mine
  <2> QED BY <1>5, <2>1
<1> QED BY <1>6, <1>7 DEF OwnFiles, NoCopy

---------------------------------------------------------------------------
\* What lies within the reach of a call.

\* A destination is a path.
LEMMA GoalIsPath ==
  ASSUME NEW r \in Requests, NEW g \in Destinations(r), NEW c \in Calls
  PROVE  g \in Seq(Names) /\ g # <<>>
<1>1. g \in Seq(Names) /\ Tmp(c) \in Seq(Names) /\ ~Overlap(g, Tmp(c))
  BY RequestFacts, TmpFacts, PathFacts
<1>2. ASSUME g = <<>> PROVE FALSE
  <2>1. Len(g) = 0 /\ Len(Tmp(c)) \in Nat
    BY <1>1, <1>2
  <2>2. Len(g) <= Len(Tmp(c)) /\ \A i \in 1 .. Len(g) : g[i] = Tmp(c)[i]
    BY <2>1
  <2>3. Under(g, Tmp(c))
    BY <1>1, <2>2, UnderMeans
  <2> QED BY <1>1, <2>3 DEF Overlap
<1> QED BY <1>1, <1>2

LEMMA WithinFacts ==
  ASSUME NEW c \in Begun, CallInv(c), Progress(c)
  PROVE  /\ c \in Calls /\ rq[c] \in Requests /\ rq[c].src \in Paths /\ rq[c].dst \in Paths
         /\ rq[c].op \in Ops
         /\ \A q : Under(rq[c].src, q) \/ Under(rq[c].dst, q) \/ Under(Tmp(c), q) => Within(c, q)
         /\ Within(c, rq[c].src) /\ Within(c, rq[c].dst) /\ Within(c, Tmp(c))
         /\ hp[c] # "none" =>
              goal[c] \in Seq(Names) /\ goal[c] \in Destinations(rq[c]) /\ \A q : Under(goal[c], q) => Within(c, q)
<1>1. c \in Calls /\ rq[c] \in Requests
  BY DEF CallInv, Begun
<1>2. rq[c].src \in Paths /\ rq[c].dst \in Paths /\ rq[c].op \in Ops
  BY <1>1, RequestFacts
<1>3. hp[c] # "none" => goal[c] \in Destinations(rq[c]) /\ goal[c] # <<>> /\ goal[c] \in Seq(Names)
  BY <1>1, GoalIsPath DEF CallInv
<1>4. \A q : Under(rq[c].src, q) \/ Under(rq[c].dst, q) \/ Under(Tmp(c), q) => Within(c, q)
  BY DEF Within, Reach, Touched
<1>5. hp[c] # "none" => \A q : Under(goal[c], q) => Within(c, q)
  BY <1>3 DEF Within, Reach, Touched, Targets
<1>6. \A q \in Paths : Under(q, q)
  BY PathFacts, UnderOrder
<1> QED BY <1>1, <1>2, <1>3, <1>4, <1>5, <1>6, TmpFacts

\* What a put, a move or a copy takes and where it takes it do not overlap.
Separate(c) == rq[c].op = "put" \/ (hp[c] # "none" /\ ~Overlap(Root(c), Dest(c)))

\* The place that a copy of q goes to.
LEMMA ImageFacts ==
  ASSUME NEW c \in Begun, CallInv(c), Progress(c), Separate(c)
  PROVE  /\ Root(c) \in Paths /\ Dest(c) \in Seq(Names) /\ ~Overlap(Root(c), Dest(c))
         /\ \A q \in Seq(Names) : Under(Root(c), q) =>
              /\ Image(c, q) \in Seq(Names) /\ Under(Dest(c), Image(c, q))
              /\ Within(c, q) /\ Within(c, Image(c, q)) /\ ~Under(Root(c), Image(c, q))
              /\ Root(c) \o Rel(Dest(c), Image(c, q)) = q
         /\ \A f \in Sources(c) : f \in Paths /\ Under(Root(c), f) /\ Whole(f) \in [1 .. Chunks -> Blobs]
<1>0. /\ c \in Calls /\ rq[c] \in Requests /\ rq[c].src \in Paths /\ rq[c].dst \in Paths
      /\ \A q : Under(rq[c].src, q) \/ Under(rq[c].dst, q) \/ Under(Tmp(c), q) => Within(c, q)
      /\ hp[c] # "none" => goal[c] \in Seq(Names) /\ \A q : Under(goal[c], q) => Within(c, q)
  BY WithinFacts
<1>1. /\ Root(c) \in Paths /\ Root(c) \in Seq(Names) /\ Dest(c) \in Seq(Names) /\ ~Overlap(Root(c), Dest(c))
      /\ \A q : Under(Root(c), q) \/ Under(Dest(c), q) => Within(c, q)
  <2>1. CASE rq[c].op = "put"
    <3>1. Root(c) = Tmp(c) /\ Dest(c) = rq[c].dst
      BY <2>1 DEF Root, Dest
    <3>2. ~Overlap(rq[c].dst, Tmp(c)) /\ Tmp(c) \in Paths
      BY <1>0, RequestFacts, TmpFacts
    <3> QED BY <1>0, <3>1, <3>2, PathFacts DEF Overlap
  <2>2. CASE rq[c].op # "put"
    <3>1. Root(c) = rq[c].src /\ Dest(c) = goal[c]
      BY <2>2 DEF Root, Dest
    <3>2. hp[c] # "none" /\ ~Overlap(Root(c), Dest(c))
      BY <2>2 DEF Separate
    <3> QED BY <1>0, <3>1, <3>2, PathFacts
  <2> QED BY <2>1, <2>2
<1>2. ASSUME NEW q \in Seq(Names), Under(Root(c), q)
      PROVE  /\ Image(c, q) \in Seq(Names) /\ Under(Dest(c), Image(c, q))
             /\ Root(c) \o Rel(Dest(c), Image(c, q)) = q
  BY <1>1, <1>2, GraftBack DEF Image
<1>3. ASSUME NEW q \in Seq(Names), Under(Root(c), q) PROVE ~Under(Root(c), Image(c, q))
  BY <1>1, <1>2, <1>3, AboveOverlap
<1>4. ASSUME NEW f \in Sources(c)
      PROVE  f \in Paths /\ Under(Root(c), f) /\ Whole(f) \in [1 .. Chunks -> Blobs]
  <2>1. CASE rq[c].op = "put"
    <3>1. f = Tmp(c) /\ Root(c) = Tmp(c)
      BY <2>1 DEF Sources, Root
    <3> QED BY <1>0, <1>1, <3>1, TmpFacts, UnderOrder DEF Whole
  <2>2. CASE rq[c].op # "put"
    <3>1. f \in InitFiles /\ Under(rq[c].src, f) /\ Root(c) = rq[c].src
      BY <2>2 DEF Sources, Root
    <3> QED BY <3>1, TreeAssumption DEF Whole, Blobs
  <2> QED BY <2>1, <2>2
<1> QED BY <1>1, <1>2, <1>3, <1>4

LEMMA CopyingApart ==
  ASSUME NEW c \in Begun, CallInv(c), Copying(c)
  PROVE  Separate(c)
BY DEF CallInv, Copying, FitsOp, Separate

---------------------------------------------------------------------------
\* What a call is doing is not disturbed.

\* The files within the reach of c stay, whatever directories are made there;
\* nothing changes there at all, as in a step of another call.
SameFiles(c) ==
  \A q \in Paths :
    Within(c, q) => /\ fs'[q] = fs[q] \/ (fs[q] = None /\ fs'[q] = Dir)
                    /\ fs[q] \in Inodes => data'[fs[q]] = data[fs[q]]
Same(c) == SameFiles(c) /\ \A q \in Paths : Within(c, q) => fs'[q] = fs[q]

LEMMA OthersSame ==
  ASSUME Known, NEW d \in Calls, Local(d), \A e \in Calls : CallInv(e)' /\ Progress(e)',
         NEW c \in Begun \ {d}, ~Disturbed(c)'
  PROVE  Same(c)
<1>1. /\ c \in Begun' /\ d \in Begun' /\ c \in Calls /\ OwnFiles(c)
      /\ \A q : Within(c, q) <=> Within(c, q)'
  BY Grows DEF Known, Begun
<1>2. ASSUME NEW q \in Paths, Within(c, q) PROVE fs'[q] = fs[q]
  <2>1. ~Within(d, q)' /\ \A u \in Reach(d)' : ~Under(q, u)
    BY <1>1, <1>2, PathFacts, StrangersNext
  <2> QED BY <2>1 DEF Local
<1>3. ASSUME NEW q \in Paths, Within(c, q), NEW i \in Inodes, fs[q] = i PROVE data'[i] = data[i]
  <2>1. i \in DOMAIN data /\ Mine(c, i)
    BY <1>1, <1>3, Entry DEF Known, FilesTyped, OwnFiles
  <2>2. ~(i.call = d \/ Found(d, i))
    BY <2>1, MadeByOther
  <2>3. ~(cp[d] # NoCopy /\ i = cp[d].to)
    BY <1>1, <2>1 DEF OwnFiles
  <2> QED BY <2>1, <2>2, <2>3 DEF Local
<1> QED BY <1>2, <1>3 DEF Same, SameFiles

LEMMA SameEntry ==
  ASSUME FilesTyped, FilesTyped', NEW c \in Calls, SameFiles(c), NEW q, Within(c, q)
  PROVE  /\ IsFile(q)' <=> IsFile(q)
         /\ Exists(q) => Exists(q)'
         /\ IsDir(q) => IsDir(q)'
         /\ IsFile(q) => fs'[q] = fs[q] /\ data'[fs[q]] = data[fs[q]]
         /\ \A b : Holds(q, b)' <=> Holds(q, b)
         /\ Same(c) => (Exists(q)' <=> Exists(q))
<1>1. /\ IsFile(q)' <=> IsFile(q)
      /\ Exists(q) => Exists(q)'
      /\ IsDir(q) => IsDir(q)'
      /\ Same(c) => (Exists(q)' <=> Exists(q))
  BY Entry, EntryNext, NamesAssumption DEF Same, SameFiles
<1>2. IsFile(q) => fs'[q] = fs[q] /\ data'[fs[q]] = data[fs[q]]
  BY Entry, NamesAssumption DEF SameFiles
<1> QED BY <1>1, <1>2 DEF Holds

\* A step that neither starts another part of the call's work nor brings it back.
Quiet(c) == rq'[c] = rq[c] /\ final'[c] = final[c] /\ goal'[c] = goal[c]
Later(c) ==
  /\ Held(c)' => Held(c) /\ (hp'[c] # "none" => hp[c] # "none")
  /\ Copying(c)' => Copying(c) /\ todo'[c] = todo[c] /\ cp'[c] = cp[c]
  /\ Finished(c) => Finished(c)'

LEMMA QuietReach ==
  ASSUME NEW c \in Begun, Quiet(c)
  PROVE  /\ \A q : Within(c, q)' <=> Within(c, q)
         /\ Reach(c)' = Reach(c) /\ Touched(c)' = Touched(c)
         /\ Root(c)' = Root(c) /\ Dest(c)' = Dest(c)
         /\ Sources(c)' = Sources(c) /\ \A q : Image(c, q)' = Image(c, q)
BY DEF Quiet, Within, Reach, Touched, Targets, Root, Dest, Sources, Image

LEMMA InPlaceStays ==
  ASSUME FilesTyped, FilesTyped', NEW c \in Begun, Quiet(c), SameFiles(c), InPlace(c),
         Finished(c) => Finished(c)'
  PROVE  InPlace(c)'
<1>1. ASSUME NEW q \in Paths, ~Finished(c)', Within(c, q)', IsFile(q)' PROVE fs'[q].path = q
  <2>1. Within(c, q) /\ c \in Calls /\ ~Finished(c)
    BY <1>1, QuietReach DEF Begun
  <2>2. IsFile(q) /\ fs'[q] = fs[q]
    BY <1>1, <2>1, SameEntry
  <2> QED BY <2>1, <2>2 DEF InPlace
<1> QED BY <1>1 DEF InPlace

LEMMA KeptStays ==
  ASSUME FilesTyped, FilesTyped', NEW c \in Begun, CallInv(c), Progress(c),
         Quiet(c), SameFiles(c), Kept(c),
         Held(c)' => Held(c) /\ (hp'[c] # "none" => hp[c] # "none")
  PROVE  Kept(c)'
<1>0. /\ c \in Calls /\ Within(c, rq[c].src) /\ rq'[c] = rq[c]
      /\ \A f \in Sources(c) : Within(c, f)
  <2>1. /\ Within(c, rq[c].src) /\ Within(c, Tmp(c)) /\ c \in Calls
        /\ \A f \in InitFiles : Under(rq[c].src, f) => Within(c, f)
    BY WithinFacts
  <2> QED BY <2>1 DEF Sources, Quiet
<1>1. ASSUME Held(c)', NEW f \in Sources(c)' PROVE Holds(f, f)'
  <2>1. f \in Sources(c) /\ Holds(f, f) /\ Within(c, f)
    BY <1>0, <1>1, QuietReach DEF Kept
  <2> QED BY <1>0, <2>1, SameEntry
<1>2. ASSUME Held(c)', hp'[c] # "none", rq[c].op \in {"move", "copy"} PROVE Exists(rq[c].src)'
  <2>1. PICK s : s = rq[c].src
    OBVIOUS
  <2>2. Exists(s) /\ Within(c, s)
    BY <1>0, <1>2, <2>1 DEF Kept
  <2>3. Exists(s)'
    BY <1>0, <2>2, SameEntry
  <2> QED BY <1>0, <2>1, <2>3
<1> QED BY <1>0, <1>1, <1>2 DEF Kept

\* Whose source is being copied, and is covered, as said of a given place.
LEMMA CopyStays ==
  ASSUME FilesTyped, FilesTyped', NEW c \in Begun, CallInv(c), Progress(c),
         Quiet(c), SameFiles(c), Copying(c), CopyInv(c), cp'[c] = cp[c]
  PROVE  /\ todo'[c] = todo[c] => ToCopy(c)'
         /\ BeingCopied(c)'
         /\ \A f \in Sources(c) :
              \/ Holds(Image(c, f), f)'
              \/ \E e \in todo[c] : Under(e.from, f)
              \/ cp[c] # NoCopy /\ cp[c].from = fs'[f]
<1>0. /\ c \in Calls /\ ToCopy(c) /\ BeingCopied(c) /\ Covered(c)
      /\ \A q \in Paths : Under(Root(c), q) => Within(c, q) /\ Within(c, Image(c, q))
      /\ \A f \in Sources(c) : f \in Paths /\ Under(Root(c), f)
      /\ Root(c)' = Root(c) /\ Sources(c)' = Sources(c) /\ \A q : Image(c, q)' = Image(c, q)
  BY CopyingApart, ImageFacts, QuietReach, PathFacts DEF Begun, CopyInv
<1>1. todo'[c] = todo[c] => ToCopy(c)'
  <2>1. ASSUME todo'[c] = todo[c], NEW e \in todo[c] PROVE Under(Root(c), e.from)' /\ (e.to = Image(c, e.from))'
    BY <1>0, <2>1 DEF ToCopy, Image, Root, Dest, Quiet
  <2> QED BY <2>1 DEF ToCopy
<1>2. BeingCopied(c)'
  <2> SUFFICES ASSUME cp[c] # NoCopy PROVE BeingCopied(c)'
    BY DEF BeingCopied, NoCopy
  <2>1. PICK q \in Paths :
          /\ Under(Root(c), q) /\ IsFile(q) /\ cp[c].from = fs[q]
          /\ IsFile(Image(c, q)) /\ cp[c].to = fs[Image(c, q)]
          /\ q \in Sources(c) => \A k \in 1 .. cp[c].pos - 1 : data[cp[c].to][k] = q
    BY <1>0 DEF BeingCopied
  <2>2. PICK p : p = Image(c, q)
    OBVIOUS
  <2>3. Within(c, q) /\ Within(c, p) /\ IsFile(p)
    BY <1>0, <2>1, <2>2
  <2>4. IsFile(q)' /\ fs'[q] = fs[q]
    BY <1>0, <2>1, <2>3, SameEntry
  <2>5. IsFile(p)' /\ fs'[p] = fs[p] /\ data'[fs[p]] = data[fs[p]]
    BY <1>0, <2>3, SameEntry
  <2>6. Image(c, q)' = p /\ Under(Root(c)', q)
    BY <1>0, <2>1, <2>2
  <2>7. IsFile(Image(c, q))' /\ cp'[c].to = (fs[Image(c, q)])'
    BY <2>1, <2>2, <2>5, <2>6 DEF IsFile
  <2>8. q \in Sources(c)' => \A k \in 1 .. cp'[c].pos - 1 : data'[cp'[c].to][k] = q
    BY <1>0, <2>1, <2>2, <2>5
  <2> QED BY <2>1, <2>4, <2>6, <2>7, <2>8 DEF BeingCopied
<1>3. ASSUME NEW f \in Sources(c), Holds(Image(c, f), f) PROVE Holds(Image(c, f), f)'
  <2>1. PICK p : p = Image(c, f)
    OBVIOUS
  <2>2. Within(c, p) /\ Image(c, f)' = p /\ Holds(p, f)
    BY <1>0, <1>3, <2>1
  <2>3. Holds(p, f)'
    BY <1>0, <2>2, SameEntry
  <2> QED BY <2>2, <2>3 DEF Holds, IsFile
<1>4. ASSUME NEW f \in Sources(c), cp[c] # NoCopy, cp[c].from = fs[f] PROVE cp[c].from = fs'[f]
  <2>1. PICK q \in Paths : Under(Root(c), q) /\ IsFile(q) /\ fs[f] = fs[q]
    BY <1>0, <1>4 DEF BeingCopied
  <2>2. f \in Paths /\ IsFile(f) /\ Within(c, f)
    BY <1>0, <2>1, Entry
  <2> QED BY <1>0, <1>4, <2>2, SameEntry
<1> QED BY <1>0, <1>1, <1>2, <1>3, <1>4 DEF Covered

\* A call that has taken a source elsewhere has a place for it.
LEMMA Landing ==
  ASSUME NEW c \in Begun, CallInv(c), Progress(c), rq[c].op \in {"move", "copy"},
         hp[c] # "none", NEW f \in InitFiles, Under(rq[c].src, f)
  PROVE  Within(c, goal[c] \o Rel(rq[c].src, f)) /\ goal[c] \o Rel(rq[c].src, f) \in Seq(Names)
<1>1. /\ rq[c].src \in Seq(Names) /\ f \in Seq(Names) /\ goal[c] \in Seq(Names)
      /\ \A q : Under(goal[c], q) => Within(c, q)
  BY WithinFacts, PathFacts, TreeAssumption
<1> QED BY <1>1, GraftBack

LEMMA DoneStays ==
  ASSUME FilesTyped, FilesTyped', NEW c \in Begun, CallInv(c), Progress(c),
         Quiet(c), Same(c), Finished(c), Done(c)
  PROVE  Done(c)'
<1>0. /\ c \in Calls /\ rq'[c] = rq[c] /\ goal'[c] = goal[c] /\ SameFiles(c)
      /\ Within(c, rq[c].src) /\ Within(c, rq[c].dst)
      /\ rq[c].op \in Ops
  BY WithinFacts DEF Quiet, Same
<1>1. PICK s, d : s = rq[c].src /\ d = rq[c].dst
  OBVIOUS
<1>2. /\ Exists(s)' <=> Exists(s)
      /\ Exists(d)' <=> Exists(d)
      /\ IsDir(d) => IsDir(d)'
      /\ \A b : Holds(d, b)' <=> Holds(d, b)
  BY <1>0, <1>1, SameEntry
<1>3. ASSUME rq[c].op \in {"move", "copy"}, NEW f \in InitFiles, Under(rq[c].src, f),
             Holds(goal[c] \o Rel(rq[c].src, f), f)
      PROVE  Holds(goal[c] \o Rel(rq[c].src, f), f)'
  <2>1. hp[c] # "none"
    BY <1>3 DEF Finished, Progress
  <2>2. PICK p : p = goal[c] \o Rel(rq[c].src, f)
    OBVIOUS
  <2>3. Within(c, p) /\ Holds(p, f)
    BY <1>3, <2>1, <2>2, Landing
  <2>4. Holds(p, f)'
    BY <1>0, <2>3, SameEntry
  <2> QED BY <1>0, <2>2, <2>4
<1>4. CASE rq[c].op = "put"
  BY <1>0, <1>1, <1>2, <1>4 DEF Done
<1>5. CASE rq[c].op = "mkdir"
  BY <1>0, <1>1, <1>2, <1>5 DEF Done
<1>6. CASE rq[c].op = "delete"
  BY <1>0, <1>1, <1>2, <1>6 DEF Done
<1>7. CASE rq[c].op = "rename"
  BY <1>0, <1>1, <1>2, <1>7 DEF Done
<1>8. CASE rq[c].op = "move"
  BY <1>0, <1>1, <1>2, <1>3, <1>8 DEF Done
<1>9. CASE rq[c].op = "copy"
  BY <1>0, <1>1, <1>2, <1>3, <1>9 DEF Done
<1> QED BY <1>0, <1>4, <1>5, <1>6, <1>7, <1>8, <1>9 DEF Ops

\* Nothing changes within the reach of a call whose work does not go on.
LEMMA GoodStays ==
  ASSUME FilesTyped, FilesTyped', NEW c \in Begun, CallInv(c), Progress(c), Good(c),
         Quiet(c), Same(c), Later(c), Finished(c)' => Finished(c),
         rq[c].op = "rename" /\ (at'[c] = "rename" \/ hp'[c] = "rename") =>
           at[c] = "rename" \/ hp[c] = "rename" \/ ~Exists(rq[c].dst)
  PROVE  Good(c)'
<1>0. c \in Calls /\ rq'[c] = rq[c] /\ SameFiles(c)
  BY DEF Begun, Quiet, Same
<1>1. InPlace(c)' /\ Kept(c)'
  BY <1>0, InPlaceStays, KeptStays DEF Good, Later
<1>2. CopyInv(c)'
  <2> SUFFICES ASSUME Copying(c)' PROVE (ToCopy(c) /\ BeingCopied(c) /\ Covered(c))'
    BY DEF CopyInv
  <2>1. Copying(c) /\ todo'[c] = todo[c] /\ cp'[c] = cp[c] /\ CopyInv(c)
    BY DEF Later, Good
  <2>2. /\ ToCopy(c)' /\ BeingCopied(c)'
        /\ \A f \in Sources(c) :
             \/ Holds(Image(c, f), f)'
             \/ \E e \in todo[c] : Under(e.from, f)
             \/ cp[c] # NoCopy /\ cp[c].from = fs'[f]
    BY <1>0, <2>1, CopyStays
  <2>3. Sources(c)' = Sources(c)
    BY QuietReach
  <2> QED BY <2>1, <2>2, <2>3 DEF Covered, NoCopy
<1>3. FreeName(c)'
  <2> SUFFICES ASSUME rq[c].op = "rename", at'[c] = "rename" \/ hp'[c] = "rename"
               PROVE  ~Exists(rq[c].dst)'
    BY <1>0 DEF FreeName
  <2>1. PICK d : d = rq[c].dst
    OBVIOUS
  <2>2. ~Exists(d) /\ Within(c, d)
    BY <2>1, WithinFacts DEF Good, FreeName
  <2>3. ~Exists(d)'
    BY <1>0, <2>2, SameEntry
  <2> QED BY <1>0, <2>1, <2>3
<1>4. FinishedDone(c)'
  <2> SUFFICES ASSUME Finished(c)', ~OntoItself(c)' PROVE Done(c)'
    BY DEF FinishedDone
  <2>1. ~OntoItself(c)
    BY DEF OntoItself, Quiet
  <2> QED BY <2>1, DoneStays DEF Good, FinishedDone
<1> QED BY <1>1, <1>2, <1>3, <1>4 DEF Good

---------------------------------------------------------------------------
\* The steps of one call.

\* What every step of a call does.
Advances(c) == Local(c) /\ Progress(c)' /\ (~Disturbed(c)' => Good(c)')

\* What the invariants say, as the lemmas need it.
LEMMA KnownFrom ==
  ASSUME ElevationInv, DoneInv
  PROVE  Known /\ \A c \in Begun : ~Disturbed(c) => Good(c)
BY Parts DEF DoneInv, Known

LEMMA OthersProgress ==
  ASSUME NEW c \in Calls, Local(c), NEW d \in Calls \ {c}, Progress(d)
  PROVE  Progress(d)'
BY DEF Local, OthersWait, Progress, Begun, Touched, Targets, Succeeded, Dest

LEMMA AdvanceKeeps ==
  ASSUME ElevationInv, DoneInv, ElevationInv', NEW c \in Calls, Advances(c)
  PROVE  DoneInv'
<1>1. /\ FilesTyped /\ CopiesTyped /\ Known /\ FilesPlaced /\ CopiesTraced /\ OutOfReach
      /\ \A e \in Calls : CallInv(e) /\ Progress(e)
  BY KnownFrom, Parts DEF DoneInv
<1>2. FilesTyped' /\ CopiesTyped' /\ \A e \in Calls : CallInv(e)'
  BY DEF ElevationInv, TypeOK, FilesTyped, CopiesTyped, CallsInv
<1>3. \A e \in Calls : Progress(e)'
  BY <1>1, OthersProgress DEF Advances
<1>4. FilesPlaced' /\ CopiesTraced'
  BY <1>1, <1>2, PlacesKept DEF Advances
<1>5. OutOfReach'
  BY <1>1, <1>2, OutOfReachKept DEF Advances
<1>6. ASSUME ~Disturbed(c)' PROVE OwnFiles(c)' /\ Good(c)'
  BY <1>1, <1>2, <1>3, <1>6, NewFilesMine DEF Advances
<1>7. ASSUME NEW d \in Begun' \ {c}, ~Disturbed(d)' PROVE OwnFiles(d)' /\ Good(d)'
  <2>1. d \in Begun \ {c} /\ ~Disturbed(d) /\ d \in Calls \ {c}
    BY <1>7, Grows DEF Advances, Begun
  <2>2. OwnFiles(d)' /\ Same(d)
    BY <1>1, <1>2, <1>3, <1>7, <2>1, OthersFilesKept, OthersSame DEF Advances
  <2>3. Good(d)
    BY <2>1, KnownFrom
  <2>4. /\ rq'[d] = rq[d] /\ final'[d] = final[d] /\ goal'[d] = goal[d] /\ at'[d] = at[d]
        /\ hp'[d] = hp[d] /\ todo'[d] = todo[d] /\ cp'[d] = cp[d]
    BY <2>1 DEF Advances, Local, OthersWait
  <2>5. Quiet(d)
    BY <2>4 DEF Quiet
  <2>6. Later(d) /\ (Finished(d)' => Finished(d))
    BY <2>4 DEF Later, Held, Copying, Finished, Root, Dest
  <2>7. Good(d)'
    BY <1>1, <1>2, <2>1, <2>2, <2>3, <2>4, <2>5, <2>6, GoodStays
  <2> QED BY <2>2, <2>7
<1> QED BY <1>3, <1>4, <1>5, <1>6, <1>7 DEF DoneInv

---------------------------------------------------------------------------
\* What the steps do to the files is local.

\* A step that leaves the call its paths.
Own(c) ==
  /\ c \in Begun /\ at'[c] # "idle" /\ Quiet(c) /\ OthersWait(c)
  /\ \A e \in Calls \ {c} : cp'[e] = cp[e]

LEMMA OwnReach ==
  ASSUME NEW c \in Calls, Own(c)
  PROVE  /\ c \in Begun' /\ rq'[c] = rq[c] /\ Touched(c)' = Touched(c) /\ Reach(c)' = Reach(c)
         /\ \A q : Within(c, q)' <=> Within(c, q)
BY QuietReach DEF Own, Begun, Quiet

LEMMA LocalStays ==
  ASSUME NEW c \in Calls, Own(c), fs' = fs, data' = data, cp'[c] = cp[c] \/ cp'[c] = NoCopy
  PROVE  Local(c)
BY OwnReach DEF Local, Own

\* Files are removed.
LEMMA LocalGone ==
  ASSUME NEW c \in Calls, Own(c), data' = data, cp'[c] = cp[c] \/ cp'[c] = NoCopy,
         \A q \in Paths : fs'[q] = fs[q] \/ (fs'[q] = None /\ Within(c, q))
  PROVE  Local(c)
BY OwnReach, NamesAssumption DEF Local, Own

\* A file is created or truncated.
LEMMA LocalCreate ==
  ASSUME FilesTyped, NEW c \in Calls, Own(c), NEW who, NEW p \in Paths, Within(c, p),
         NEW contents, Create(who, c, p, contents),
         cp'[c] = cp[c] \/ cp'[c].to = Created(who, c, p)
  PROVE  Local(c)
<1> DEFINE i == Created(who, c, p)
<1>1. /\ \A q \in Paths : fs'[q] = IF q = p THEN i ELSE fs[q]
      /\ DOMAIN data' = DOMAIN data \cup {i}
      /\ \A j \in DOMAIN data : j # i => data'[j] = data[j]
  BY DEF Create, FilesTyped
<1>2. i.call = c \/ Found(c, i)
  <2>1. CASE IsFile(p)
    BY <2>1, OwnReach DEF Created, Found
  <2>2. CASE ~IsFile(p)
    BY <2>2 DEF Created
  <2> QED BY <2>1, <2>2
<1> HIDE DEF i
<1>3. \A q \in Paths : fs'[q] = fs[q] \/ Within(c, q)'
  BY <1>1, OwnReach
<1>4. \A q \in Paths : fs'[q] \in Inodes /\ fs'[q] # fs[q] => fs'[q].call = c \/ Found(c, fs'[q])
  <2> SUFFICES ASSUME NEW q \in Paths, fs'[q] # fs[q] PROVE fs'[q].call = c \/ Found(c, fs'[q])
    OBVIOUS
  <2>1. fs'[q] = i
    BY <1>1
  <2> QED BY <1>2, <2>1
<1>5. \A j \in DOMAIN data : data'[j] = data[j] \/ j.call = c \/ Found(c, j)
  BY <1>1, <1>2
<1>6. cp'[c] # NoCopy =>
        \/ cp'[c].to.call = c \/ Found(c, cp'[c].to)
        \/ cp[c] # NoCopy /\ cp'[c].to = cp[c].to
  BY <1>2 DEF i
<1> QED BY <1>1, <1>3, <1>4, <1>5, <1>6, OwnReach DEF Local, Own

\* Directories are made: the ones above what the call works on, or below it.
LEMMA LocalDirs ==
  ASSUME FilesTyped, NEW c \in Calls, Own(c), NEW who, NEW p \in Seq(Names),
         MkdirResult(who, p) = "ok",
         NEW t \in Reach(c), t \in Seq(Names), Overlap(p, t),
         fs' = WithDirs(p), data' = data, cp'[c] = cp[c]
  PROVE  Local(c)
<1>1. \A q \in Paths : fs'[q] = IF q \in Prefixes(p) THEN Dir ELSE fs[q]
  BY DEF WithDirs
<1>2. \A q \in Prefixes(p) : fs[q] \in {None, Dir}
  BY Entry DEF MkdirResult, FilesTyped
<1>3. ASSUME NEW q \in Prefixes(p), ~Within(c, q) PROVE Under(q, t)
  <2>1. q \in Seq(Names) /\ Under(q, p) /\ ~Under(t, q)
    BY <1>3, PrefixesAbove DEF Within
  <2>2. CASE Under(t, p)
    BY <2>1, <2>2, AboveOverlap DEF Overlap
  <2>3. CASE Under(p, t)
    BY <2>1, <2>3, UnderOrder
  <2> QED BY <2>2, <2>3 DEF Overlap
<1>4. \A q \in Paths :
        \/ fs'[q] = fs[q]
        \/ Within(c, q)'
        \/ fs[q] = None /\ fs'[q] = Dir /\ \E u \in Reach(c)' : Under(q, u)
  BY <1>1, <1>2, <1>3, OwnReach
<1>5. \A q \in Paths : fs'[q] \in Inodes => fs'[q] = fs[q]
  BY <1>1, NamesAssumption
<1> QED BY <1>4, <1>5, OwnReach DEF Local, Own

\* A tree is renamed.
LEMMA LocalRenamed ==
  ASSUME FilesTyped, NEW c \in Calls, Own(c), NEW s \in Paths, NEW d \in Seq(Names),
         s \in Reach(c), d \in Reach(c), fs' = Renamed(s, d), data' = data, cp'[c] = cp[c]
  PROVE  Local(c)
<1>1. \A q \in Paths :
        fs'[q] = IF Under(d, q) THEN LET o == s \o Rel(d, q)
                                     IN  IF o \in Paths THEN fs[o] ELSE None
                 ELSE IF Under(s, q) THEN None ELSE fs[q]
  BY DEF Renamed
<1>2. \A q \in Paths : fs'[q] = fs[q] \/ Within(c, q)'
  BY <1>1, OwnReach DEF Within
<1>3. ASSUME NEW q \in Paths, fs'[q] \in Inodes, fs'[q] # fs[q] PROVE Found(c, fs'[q])
  <2>1. Under(d, q) /\ s \o Rel(d, q) \in Paths /\ fs'[q] = fs[s \o Rel(d, q)]
    BY <1>1, <1>3, NamesAssumption
  <2>2. Under(s, s \o Rel(d, q))
    BY <2>1, PathFacts, Grafted
  <2>3. \A o : Under(s, o) => Within(c, o)'
    BY OwnReach DEF Within
  <2> QED BY <2>1, <2>2, <2>3 DEF Found
<1> QED BY <1>2, <1>3, OwnReach DEF Local, Own

\* A chunk is copied.
LEMMA LocalChunk ==
  ASSUME CopiesTyped, NEW c \in Calls, Own(c), cp[c] # NoCopy, CopyChunk(c), fs' = fs
  PROVE  Local(c)
<1>1. /\ DOMAIN data' = DOMAIN data
      /\ \A i \in DOMAIN data : i # cp[c].to => data'[i] = data[i]
  BY DEF CopyChunk
<1>2. cp'[c] # NoCopy => cp'[c].to = cp[c].to
  <2>1. cp[c] \in [from : DOMAIN data, to : DOMAIN data, pos : 1 .. Chunks]
    BY DEF CopiesTyped
  <2>2. cp'[c] = IF cp[c].pos = Chunks THEN NoCopy ELSE [cp[c] EXCEPT !.pos = cp[c].pos + 1]
    BY DEF CopyChunk, CopiesTyped
  <2> QED BY <2>1, <2>2
<1> QED BY <1>1, <1>2, OwnReach DEF Local, Own

---------------------------------------------------------------------------
\* How far a call has come after its step.

LEMMA OwnProgress ==
  ASSUME NEW c \in Calls, Progress(c), Own(c),
         hp'[c] = "none" => hp[c] = "none",
         hp'[c] \in {"sudo", "check"} => hp[c] \in {"sudo", "check"},
         cp'[c] # NoCopy => at'[c] = "copying" \/ hp'[c] = "copy",
         at'[c] = "ok" => IF hp'[c] = "none" THEN rq[c].op \in {"put", "mkdir", "rename"}
                          ELSE Succeeded(c)',
         hp'[c] = "rename" /\ rq[c].op = "move" =>
           todo'[c] = {[from |-> rq[c].src, to |-> goal[c]]},
         hp'[c] = "copy" => \A e \in todo'[c] : Under(Dest(c), e.to),
         hp'[c] = "copy" /\ rq[c].op # "put" /\ Under(rq[c].src, goal[c]) /\ rq[c].src # goal[c] =>
           \E e \in todo'[c] : e.from # e.to /\ Under(e.from, e.to)
  PROVE  Progress(c)'
<1>1. /\ c \in Begun /\ rq'[c] = rq[c] /\ final'[c] = final[c] /\ goal'[c] = goal[c]
      /\ Touched(c)' = Touched(c) /\ Dest(c)' = Dest(c)
  BY OwnReach DEF Own, Quiet, Dest
<1> QED BY <1>1 DEF Progress, NoCopy

\* A handler without a helper.
LEMMA HandlerProgress ==
  ASSUME NEW c \in Calls, Progress(c), Own(c), hp[c] = "none", hp'[c] = "none",
         cp'[c] # NoCopy => at'[c] = "copying",
         at'[c] = "ok" => rq[c].op \in {"put", "mkdir", "rename"}
  PROVE  Progress(c)'
BY OwnProgress

\* A helper, which the handler does not see.
LEMMA HelperProgress ==
  ASSUME NEW c \in Calls, Progress(c), Own(c), at'[c] # "ok", at'[c] # "copying", hp'[c] # "none",
         hp'[c] \in {"sudo", "check"} => hp[c] \in {"sudo", "check"},
         cp'[c] # NoCopy => hp'[c] = "copy",
         hp'[c] = "rename" /\ rq[c].op = "move" =>
           todo'[c] = {[from |-> rq[c].src, to |-> goal[c]]},
         hp'[c] = "copy" => \A e \in todo'[c] : Under(Dest(c), e.to),
         hp'[c] = "copy" /\ rq[c].op # "put" /\ Under(rq[c].src, goal[c]) /\ rq[c].src # goal[c] =>
           \E e \in todo'[c] : e.from # e.to /\ Under(e.from, e.to)
  PROVE  Progress(c)'
BY OwnProgress

---------------------------------------------------------------------------
\* What becomes of a call's own work in its steps.

LEMMA SameStays ==
  ASSUME FilesTyped, NEW c \in Calls, fs' = fs, data' = data
  PROVE  Same(c) /\ SameFiles(c)
BY DEF Same, SameFiles

\* The work is given up, and files may be removed.
LEMMA GoodGivenUp ==
  ASSUME FilesTyped, FilesTyped', NEW c \in Begun, Quiet(c), InPlace(c), ~Finished(c),
         \A q \in Paths : fs'[q] = fs[q] \/ fs'[q] = None,
         Held(c)' => rq[c].op \notin {"put", "move", "copy"}, ~Copying(c)', ~Finished(c)',
         rq[c].op = "rename" => at'[c] # "rename" /\ hp'[c] # "rename"
  PROVE  Good(c)'
<1>1. rq'[c] = rq[c] /\ \A q : Within(c, q)' <=> Within(c, q)
  BY QuietReach DEF Quiet
<1>2. InPlace(c)'
  <2>1. ASSUME NEW q \in Paths, IsFile(q)' PROVE IsFile(q) /\ fs'[q] = fs[q]
    BY <2>1, Entry, EntryNext, NamesAssumption
  <2> QED BY <1>1, <2>1 DEF InPlace
<1>3. Held(c)' => Sources(c)' = {}
  BY <1>1 DEF Sources
<1>4. Kept(c)'
  BY <1>1, <1>3 DEF Kept
<1> QED BY <1>1, <1>2, <1>4 DEF Good, CopyInv, FreeName, FinishedDone

\* The work is done.
LEMMA GoodFinished ==
  ASSUME NEW c \in Begun, rq'[c] = rq[c], Finished(c)', OntoItself(c)' \/ Done(c)',
         Held(c)' => rq[c].op \notin {"put", "move", "copy"}, ~Copying(c)',
         at'[c] # "rename", hp'[c] # "rename"
  PROVE  Good(c)'
<1>1. Held(c)' => Sources(c)' = {}
  BY DEF Sources
<1>2. Kept(c)'
  BY <1>1 DEF Kept
<1> QED BY <1>2 DEF Good, InPlace, CopyInv, FreeName, FinishedDone

\* The work goes on, with directories made for it.
LEMMA GoodGoesOn ==
  ASSUME FilesTyped, FilesTyped', NEW c \in Begun, CallInv(c), Progress(c), Good(c),
         Quiet(c), SameFiles(c), ~Finished(c), ~Finished(c)', ~Copying(c)',
         Held(c)' => Held(c) /\ (hp'[c] # "none" => hp[c] # "none"),
         rq[c].op = "rename" => at'[c] # "rename" /\ hp'[c] # "rename"
  PROVE  Good(c)'
<1>1. InPlace(c)' /\ Kept(c)' /\ rq'[c] = rq[c]
  BY InPlaceStays, KeptStays DEF Good, Quiet
<1> QED BY <1>1 DEF Good, CopyInv, FreeName, FinishedDone

\* The copy starts at the root.
LEMMA RootStays ==
  ASSUME NEW c \in Begun, CallInv(c), Progress(c), rq'[c] = rq[c]
  PROVE  /\ Root(c)' = Root(c) /\ Sources(c)' = Sources(c) /\ Root(c) \in Paths
         /\ \A f \in Sources(c) : f \in Paths /\ Under(Root(c), f)
<1>1. Root(c)' = Root(c) /\ Sources(c)' = Sources(c)
  BY DEF Root, Sources
<1>2. c \in Calls /\ rq[c].src \in Paths /\ Tmp(c) \in Paths /\ Under(Tmp(c), Tmp(c))
  <2>1. c \in Calls /\ rq[c].src \in Paths
    BY WithinFacts
  <2>2. PICK t : t = Tmp(c)
    OBVIOUS
  <2>3. t \in Paths
    BY <2>1, <2>2, TmpFacts
  <2>4. t \in Seq(Names)
    BY <2>3, PathFacts
  <2>5. Under(t, t)
    BY <2>4, UnderOrder
  <2> QED BY <2>1, <2>2, <2>3, <2>5
<1>3. Root(c) \in Paths
  BY <1>2 DEF Root
<1>4. ASSUME NEW f \in Sources(c) PROVE f \in Paths /\ Under(Root(c), f)
  <2>1. CASE rq[c].op = "put"
    BY <1>2, <1>4, <2>1 DEF Root, Sources
  <2>2. CASE rq[c].op # "put"
    <3>1. f \in InitFiles /\ Under(rq[c].src, f)
      BY <1>4, <2>2 DEF Sources
    <3> QED BY <2>2, <3>1, TreeAssumption DEF Root
  <2> QED BY <2>1, <2>2
<1> QED BY <1>1, <1>3, <1>4

LEMMA CopyStarts ==
  ASSUME NEW c \in Begun, CallInv(c), Progress(c), rq'[c] = rq[c],
         NEW D \in Seq(Names), Dest(c)' = D,
         todo'[c] = {[from |-> Root(c), to |-> D]}, cp'[c] = NoCopy
  PROVE  CopyInv(c)'
<1>1. /\ Root(c)' = Root(c) /\ Sources(c)' = Sources(c) /\ Root(c) \in Seq(Names)
      /\ \A f \in Sources(c) : f \in Paths /\ Under(Root(c), f)
  BY RootStays, PathFacts
<1>2. D \o Rel(Root(c), Root(c)) = D /\ Under(Root(c), Root(c))
  BY <1>1, GraftRoot, UnderOrder
<1>3. ToCopy(c)'
  BY <1>1, <1>2 DEF ToCopy, Image
<1>4. Covered(c)'
  <2>1. \E e \in todo'[c] : e.from = Root(c)
    OBVIOUS
  <2> QED BY <1>1, <2>1 DEF Covered
<1> QED BY <1>3, <1>4 DEF CopyInv, BeingCopied, NoCopy

\* A file is created, or one that is there is truncated.
LEMMA CreatedHere ==
  ASSUME FilesTyped, FilesTyped', NEW c \in Begun, InPlace(c), ~Finished(c), Quiet(c),
         NEW who \in Users, NEW p \in Paths, Within(c, p), NEW contents, Create(who, c, p, contents)
  PROVE  /\ InPlace(c)' /\ IsFile(p)' /\ fs'[p] = Created(who, c, p)
         /\ data'[fs'[p]] = contents
         /\ \A q \in Paths : q # p => fs'[q] = fs[q]
         /\ \A q \in Paths : q # p /\ Within(c, q) /\ IsFile(q) =>
              fs[q] # Created(who, c, p) /\ data'[fs[q]] = data[fs[q]]
         /\ \A q \in Paths : q # p /\ Within(c, q) => \A b : Holds(q, b) => Holds(q, b)'
<1> DEFINE i == Created(who, c, p)
<1>1. /\ \A q \in Paths : fs'[q] = IF q = p THEN i ELSE fs[q]
      /\ data' = [j \in DOMAIN data \cup {i} |-> IF j = i THEN contents ELSE data[j]]
  BY DEF Create, FilesTyped
<1>2. i.path = p /\ IsFile(p)'
  <2>1. i.path = p
    BY DEF Created, InPlace
  <2>2. fs'[p] = i /\ i \in Inodes
    <3>1. CASE IsFile(p)
      BY <1>1, <3>1, Entry DEF Created
    <3>2. CASE ~IsFile(p)
      BY <1>1, <3>2 DEF Created, Inodes, Begun
    <3> QED BY <3>1, <3>2
  <2> QED BY <2>1, <2>2, EntryNext
<1> HIDE DEF i
<1>3. ASSUME NEW q \in Paths, q # p, Within(c, q), IsFile(q)
      PROVE  fs[q] # i /\ fs[q] \in DOMAIN data /\ data'[fs[q]] = data[fs[q]]
  <2>1. fs[q].path = q /\ fs[q] \in DOMAIN data
    BY <1>3, Entry DEF InPlace, FilesTyped
  <2> QED BY <1>1, <1>2, <1>3, <2>1
<1>4. \A q \in Paths : q # p => (IsFile(q)' <=> IsFile(q)) /\ fs'[q] = fs[q]
  BY <1>1, Entry, EntryNext
<1>5. InPlace(c)'
  <2>1. \A q : Within(c, q)' <=> Within(c, q)
    BY QuietReach
  <2> QED BY <1>1, <1>2, <1>4, <2>1 DEF InPlace
<1>6. data'[fs'[p]] = contents
  BY <1>1
<1>7. \A q \in Paths : q # p /\ Within(c, q) => \A b : Holds(q, b) => Holds(q, b)'
  BY <1>3, <1>4 DEF Holds
<1> QED BY <1>1, <1>2, <1>3, <1>4, <1>5, <1>6, <1>7 DEF i

\* A source is opened, and its copy created.
LEMMA GoodOpened ==
  ASSUME FilesTyped, FilesTyped', CopiesTyped, NEW c \in Begun, CallInv(c), Progress(c),
         Quiet(c), InPlace(c), Separate(c), ~Finished(c), ~Finished(c)',
         NEW who \in Users, NEW s \in Paths, IsFile(s), Under(Root(c), s),
         NEW d \in Paths, d = Image(c, s), OpenCopy(who, c, s, d),
         \A f \in Sources(c) : Holds(f, f),
         rq[c].op \in {"move", "copy"} => Exists(rq[c].src), rq[c].op # "rename",
         \A e \in todo'[c] : Under(Root(c), e.from) /\ e.to = Image(c, e.from),
         \A f \in Sources(c) :
           f = s \/ Holds(Image(c, f), f) \/ \E e \in todo'[c] : Under(e.from, f)
  PROVE  Good(c)'
<1>1. /\ c \in Calls /\ rq'[c] = rq[c] /\ rq[c].src \in Paths
      /\ Root(c)' = Root(c) /\ Sources(c)' = Sources(c) /\ \A q : Image(c, q)' = Image(c, q)
  BY WithinFacts, QuietReach DEF Quiet
<1>2. /\ Root(c) \in Paths
      /\ \A q \in Paths : Under(Root(c), q) =>
           /\ Within(c, q) /\ Within(c, Image(c, q)) /\ ~Under(Root(c), Image(c, q))
           /\ Root(c) \o Rel(Dest(c), Image(c, q)) = q
      /\ \A f \in Sources(c) : f \in Paths /\ Under(Root(c), f)
  BY ImageFacts, PathFacts
<1>3. Within(c, d) /\ ~Under(Root(c), d)
  BY <1>2
<1> DEFINE i == Created(who, c, d)
<1>4. /\ InPlace(c)' /\ IsFile(d)' /\ fs'[d] = i
      /\ \A q \in Paths : q # d => fs'[q] = fs[q]
      /\ \A q \in Paths : q # d /\ Within(c, q) => \A b : Holds(q, b) => Holds(q, b)'
  BY <1>3, CreatedHere DEF OpenCopy
<1>5. cp'[c] = [from |-> fs[s], to |-> i, pos |-> 1]
  BY <1>1 DEF OpenCopy, CopiesTyped
<1>6. cp'[c] # NoCopy
  BY <1>5, Entry, NamesAssumption DEF NoCopy
<1> HIDE DEF i
<1>7. ASSUME NEW f \in Sources(c) PROVE Holds(f, f)'
  BY <1>2, <1>3, <1>4
<1>8. rq[c].op \in {"move", "copy"} => Exists(rq[c].src)'
  <2> SUFFICES ASSUME rq[c].op \in {"move", "copy"} PROVE Exists(rq[c].src)'
    OBVIOUS
  <2>1. rq[c].src = Root(c) /\ rq[c].src # d
    BY <1>2, <1>3, PathFacts, UnderOrder DEF Root
  <2>2. fs'[rq[c].src] = fs[rq[c].src]
    BY <1>1, <1>4, <2>1
  <2> QED BY <1>1, <2>2, Entry, EntryNext
<1>9. Kept(c)'
  BY <1>1, <1>7, <1>8 DEF Kept
<1>10. BeingCopied(c)'
  <2>1. fs'[s] = fs[s] /\ IsFile(s)'
    BY <1>3, <1>4, Entry, EntryNext
  <2>2. \A k \in 1 .. cp'[c].pos - 1 : FALSE
    BY <1>5
  <2>3. Image(c, s)' = d /\ Under(Root(c)', s)
    BY <1>1
  <2>4. cp'[c].to = (fs[Image(c, s)])' /\ IsFile(Image(c, s))'
    BY <1>4, <1>5, <2>3 DEF IsFile
  <2> QED BY <1>5, <2>1, <2>2, <2>3, <2>4 DEF BeingCopied
<1>11. ToCopy(c)'
  BY <1>1 DEF ToCopy, Image
<1>12. ASSUME NEW f \in Sources(c), f # s, Holds(Image(c, f), f) PROVE Holds(Image(c, f), f)'
  <2>1. PICK p : p = Image(c, f)
    OBVIOUS
  <2>2. p # d /\ Within(c, p) /\ p \in Paths /\ Holds(p, f)
    BY <1>2, <1>12, <2>1, Entry DEF Holds
  <2>3. Holds(p, f)' /\ Image(c, f)' = p
    BY <1>1, <1>4, <2>1, <2>2
  <2> QED BY <2>3 DEF Holds, IsFile
<1>13. Covered(c)'
  <2>1. cp'[c].from = fs'[s]
    BY <1>3, <1>4, <1>5
  <2> QED BY <1>1, <1>6, <1>12, <2>1 DEF Covered, NoCopy
<1> QED BY <1>1, <1>4, <1>9, <1>10, <1>11, <1>13 DEF Good, CopyInv, FreeName, FinishedDone

\* A chunk of a source is copied.
LEMMA GoodChunk ==
  ASSUME FilesTyped, FilesTyped', CopiesTyped, NEW c \in Begun, CallInv(c), Progress(c),
         Quiet(c), Good(c), Copying(c), Held(c), ~Finished(c), ~Finished(c)',
         cp[c] # NoCopy, CopyChunk(c), fs' = fs, todo'[c] = todo[c],
         hp'[c] # "none" => hp[c] # "none", rq[c].op # "rename"
  PROVE  Good(c)'
<1>1. /\ c \in Calls /\ rq'[c] = rq[c]
      /\ Root(c)' = Root(c) /\ Sources(c)' = Sources(c) /\ \A q : Image(c, q)' = Image(c, q)
      /\ \A q : Within(c, q)' <=> Within(c, q)
  BY QuietReach DEF Quiet, Begun
<1>2. /\ Root(c) \in Paths
      /\ \A q \in Paths : Under(Root(c), q) =>
           /\ Within(c, q) /\ Within(c, Image(c, q)) /\ ~Under(Root(c), Image(c, q))
           /\ Root(c) \o Rel(Dest(c), Image(c, q)) = q
      /\ \A f \in Sources(c) : f \in Paths /\ Under(Root(c), f)
  BY CopyingApart, ImageFacts, PathFacts
<1>3. /\ InPlace(c) /\ ToCopy(c) /\ BeingCopied(c) /\ Covered(c)
      /\ \A f \in Sources(c) : Holds(f, f)
      /\ rq[c].op \in {"move", "copy"} /\ hp[c] # "none" => Exists(rq[c].src)
  BY DEF Good, CopyInv, Kept
<1>4. PICK q \in Paths :
        /\ Under(Root(c), q) /\ IsFile(q) /\ cp[c].from = fs[q]
        /\ IsFile(Image(c, q)) /\ cp[c].to = fs[Image(c, q)]
        /\ q \in Sources(c) => \A k \in 1 .. cp[c].pos - 1 : data[cp[c].to][k] = q
  BY <1>3 DEF BeingCopied
<1>5. PICK p, i, b, k : p = Image(c, q) /\ i = cp[c].to /\ b = cp[c].from /\ k = cp[c].pos
  OBVIOUS
<1>6. /\ p \in Paths /\ IsFile(p) /\ fs[p] = i /\ fs[q] = b /\ Within(c, p) /\ Within(c, q)
      /\ ~Under(Root(c), p)
      /\ \A r \in Paths : Within(c, r) /\ IsFile(r) => fs[r].path = r
  BY <1>2, <1>3, <1>4, <1>5, Entry DEF InPlace
<1>7. cp[c] \in [from : DOMAIN data, to : DOMAIN data, pos : 1 .. Chunks]
  BY <1>1 DEF CopiesTyped
<1>8. i \in DOMAIN data /\ b \in DOMAIN data /\ k \in 1 .. Chunks
  BY <1>5, <1>7
<1>9. /\ data' = [data EXCEPT ![i] = [data[i] EXCEPT ![k] = data[b][k]]]
      /\ cp'[c] = IF k = Chunks THEN NoCopy ELSE [cp[c] EXCEPT !.pos = k + 1]
  BY <1>1, <1>5 DEF CopyChunk, CopiesTyped
<1>10. data[i] \in [1 .. Chunks -> Blobs \cup {Hole}]
  BY <1>8 DEF FilesTyped
<1>11. /\ data'[i] \in [1 .. Chunks -> Blobs \cup {Hole, data[b][k]}]
       /\ data'[i][k] = data[b][k] /\ \A j \in 1 .. Chunks : j # k => data'[i][j] = data[i][j]
  BY <1>8, <1>9, <1>10
<1>12. ASSUME NEW r \in Paths, Within(c, r), r # p, NEW x, Holds(r, x) PROVE Holds(r, x)'
  <2>1. fs[r] # i /\ fs[r] \in DOMAIN data
    BY <1>6, <1>12, Entry DEF Holds, FilesTyped
  <2>2. data'[fs[r]] = data[fs[r]]
    BY <1>9, <2>1
  <2> QED BY <1>12, <2>2 DEF Holds, IsFile
<1>13. ASSUME q \in Sources(c) PROVE \A j \in 1 .. k : data'[i][j] = q
  <2>1. data[b] = Whole(q)
    BY <1>3, <1>6, <1>13 DEF Holds
  <2>2. data[b][k] = q
    BY <1>8, <2>1 DEF Whole
  <2>3. \A j \in 1 .. k - 1 : data[i][j] = q
    BY <1>4, <1>5, <1>13
  <2>4. \A j \in 1 .. k : j = k \/ (j \in 1 .. k - 1 /\ j \in 1 .. Chunks)
    BY <1>8, BoundsAssumption
  <2> QED BY <1>11, <2>2, <2>3, <2>4
<1>14. ASSUME q \in Sources(c), Holds(p, q) PROVE \A j \in 1 .. Chunks : data'[i][j] = q
  <2>1. data[b] = Whole(q) /\ data[i] = Whole(q)
    BY <1>3, <1>6, <1>14 DEF Holds
  <2>2. data[b][k] = q /\ \A j \in 1 .. Chunks : data[i][j] = q
    BY <1>8, <2>1 DEF Whole
  <2> QED BY <1>11, <2>2
<1>15. ASSUME \A j \in 1 .. Chunks : data'[i][j] = q PROVE Holds(p, q)'
  <2>1. data'[i] = Whole(q)
    BY <1>11, <1>15 DEF Whole
  <2>2. IsFile(p)' /\ fs'[p] = i
    BY <1>6 DEF IsFile
  <2> QED BY <2>1, <2>2 DEF Holds
<1>16. ASSUME NEW f \in Sources(c)
       PROVE  \/ Holds(Image(c, f), f)'
              \/ \E e \in todo[c] : Under(e.from, f)
              \/ k # Chunks /\ b = fs[f]
  <2>1. f \in Paths /\ IsFile(f) /\ Within(c, f) /\ Within(c, Image(c, f))
    BY <1>2, <1>3 DEF Holds
  <2>2. CASE Holds(Image(c, f), f) /\ f # q
    <3>1. PICK r : r = Image(c, f)
      OBVIOUS
    <3>2. r # p
      BY <1>2, <1>4, <1>5, <2>1, <2>2, <3>1
    <3>3. Holds(r, f)' /\ Image(c, f)' = r
      BY <1>1, <1>12, <2>1, <2>2, <3>1, <3>2, Entry DEF Holds
    <3> QED BY <3>3 DEF Holds, IsFile
  <2>3. CASE f = q /\ (Holds(p, q) \/ k = Chunks)
    <3>1. Holds(p, q)'
      BY <1>13, <1>14, <1>15, <2>3
    <3>2. Image(c, f)' = p
      BY <1>1, <1>5, <2>3
    <3> QED BY <2>3, <3>1, <3>2 DEF Holds, IsFile
  <2>4. CASE b = fs[f] /\ ~(f = q /\ k = Chunks)
    <3>1. f = q
      BY <1>4, <1>6, <2>1, <2>4
    <3> QED BY <2>4, <3>1
  <2>5. Holds(Image(c, f), f) \/ (\E e \in todo[c] : Under(e.from, f)) \/ b = fs[f]
    BY <1>3, <1>5 DEF Covered
  <2> QED BY <1>5, <2>2, <2>3, <2>4, <2>5
<1>17. InPlace(c)'
  BY <1>1, <1>3 DEF InPlace, IsFile
<1>18. Kept(c)'
  <2>1. \A f \in Sources(c) : Holds(f, f)'
    BY <1>2, <1>3, <1>6, <1>12
  <2>2. rq[c].op \in {"move", "copy"} /\ hp[c] # "none" => Exists(rq[c].src)'
    BY <1>1, <1>3 DEF Exists
  <2> QED BY <1>1, <2>1, <2>2 DEF Kept
<1>19. CopyInv(c)'
  <2>1. ToCopy(c)'
    BY <1>1, <1>3 DEF ToCopy, Image, Root, Dest, Quiet
  <2>2. CASE k = Chunks
    <3>1. cp'[c] = NoCopy
      BY <1>9, <2>2
    <3>2. Covered(c)'
      BY <1>1, <1>16, <2>2 DEF Covered
    <3> QED BY <2>1, <3>1, <3>2 DEF CopyInv, BeingCopied, NoCopy
  <2>3. CASE k # Chunks
    <3>1. cp'[c].from = b /\ cp'[c].to = i /\ cp'[c].pos = k + 1
      BY <1>5, <1>7, <1>9, <2>3
    <3>2. Covered(c)'
      <4>1. b \in Inodes
        BY <1>8 DEF FilesTyped
      <4>2. cp'[c] # NoCopy
        BY <3>1, <4>1, NamesAssumption DEF NoCopy
      <4> QED BY <1>1, <1>16, <3>1, <4>2 DEF Covered, NoCopy
    <3>3. BeingCopied(c)'
      <4>1. Image(c, q)' = p /\ Under(Root(c)', q) /\ IsFile(q)' /\ IsFile(p)'
        BY <1>1, <1>4, <1>5, <1>6 DEF IsFile
      <4>2. cp'[c].from = fs'[q] /\ cp'[c].to = (fs[Image(c, q)])' /\ IsFile(Image(c, q))'
        BY <1>6, <3>1, <4>1 DEF IsFile
      <4>3. cp'[c].pos - 1 = k
        BY <1>8, <3>1
      <4>4. q \in Sources(c)' => \A j \in 1 .. cp'[c].pos - 1 : data'[cp'[c].to][j] = q
        BY <1>1, <1>13, <3>1, <4>3
      <4> QED BY <4>1, <4>2, <4>4 DEF BeingCopied
    <3> QED BY <2>1, <3>2, <3>3 DEF CopyInv
  <2> QED BY <2>2, <2>3
<1> QED BY <1>1, <1>17, <1>18, <1>19 DEF Good, FreeName, FinishedDone

---------------------------------------------------------------------------
\* The handlers' steps.

\* What is known before and after each step of a call.
Around(c) ==
  /\ FilesTyped /\ FilesTyped' /\ CopiesTyped /\ CallsTyped
  /\ CallInv(c) /\ Progress(c) /\ OthersWait(c)

LEMMA StepFrom ==
  ASSUME ElevationInv, DoneInv, NEW c \in Calls, Keeps(c)
  PROVE  Around(c)
BY Parts DEF Keeps, DoneInv, Around, FilesInv

\* A call that is not disturbed was not either.
LEMMA WasGood ==
  ASSUME DoneInv, NEW c \in Begun, Local(c), ~Disturbed(c)'
  PROVE  /\ Good(c) /\ InPlace(c) /\ Kept(c) /\ CopyInv(c) /\ FreeName(c) /\ FinishedDone(c)
<1>1. c \in Calls /\ ~Disturbed(c)
  BY Grows DEF Begun
<1> QED BY <1>1 DEF DoneInv, Good

\* A handler that goes on without a helper.
LEMMA HandlerRuns ==
  ASSUME ElevationInv, DoneInv, NEW c \in Calls, Keeps(c),
         at[c] \notin Over \cup {"idle", "waiting"},
         NEW place, place # "idle", at'[c] = place, UNCHANGED <<request, helper>>,
         \A e \in Calls \ {c} : cp'[e] = cp[e]
  PROVE  /\ Around(c) /\ c \in Begun /\ Own(c) /\ Quiet(c) /\ ~Finished(c)
         /\ hp[c] = "none" /\ hp'[c] = "none" /\ rq'[c] = rq[c]
         /\ todo[c] = {} /\ todo'[c] = todo[c]
         /\ rq[c] \in Requests /\ rq[c].src \in Paths /\ rq[c].dst \in Paths
         /\ FitsOp(at[c], "none", rq[c].op)
         /\ Within(c, rq[c].src) /\ Within(c, rq[c].dst) /\ Within(c, Tmp(c))
<1>1. /\ Around(c) /\ c \in Begun /\ hp[c] = "none" /\ rq[c] \in Requests
      /\ FitsOp(at[c], hp[c], rq[c].op) /\ rq[c].src \in Paths /\ rq[c].dst \in Paths
  BY StepFrom, Alone
<1>2. rq' = rq /\ final' = final /\ goal' = goal /\ hp' = hp /\ todo' = todo
  BY DEF request, helper
<1>3. todo[c] = {}
  BY <1>1 DEF Around, CallInv
<1>4. ~Finished(c)
  BY <1>1 DEF Finished, Over, Answers
<1>5. Quiet(c) /\ Own(c)
  BY <1>1, <1>2 DEF Quiet, Own, Around
<1>6. Within(c, rq[c].src) /\ Within(c, rq[c].dst) /\ Within(c, Tmp(c))
  BY <1>1, WithinFacts DEF Around
<1> QED BY <1>1, <1>2, <1>3, <1>4, <1>5, <1>6

\* ... and refuses, or answers with an error or the request for a password.
LEMMA HandlerGivesUp ==
  ASSUME ElevationInv, DoneInv, NEW c \in Calls, Keeps(c),
         at[c] \notin Over \cup {"idle", "waiting"},
         NEW answer \in Answers \ {"ok"}, Go(c, answer), UNCHANGED <<request, helper>>,
         data' = data, cp'[c] \in {cp[c], NoCopy}, cp'[c] # NoCopy => at[c] # "copying",
         \A e \in Calls \ {c} : cp'[e] = cp[e],
         fs' = fs \/ (rq[c].op = "put" /\ DropTmp(c))
  PROVE  Advances(c)
<1>0. at'[c] = answer /\ answer # "idle" /\ answer # "copying" /\ answer # "rename"
  BY StepFrom DEF Go, Around, CallsTyped, Answers
<1>1. /\ Around(c) /\ c \in Begun /\ Own(c) /\ Quiet(c) /\ ~Finished(c)
      /\ hp[c] = "none" /\ hp'[c] = "none" /\ rq'[c] = rq[c] /\ Within(c, Tmp(c))
  BY <1>0, HandlerRuns
<1>2. \A q \in Paths : fs'[q] = fs[q] \/ (fs'[q] = None /\ rq[c].op = "put" /\ q = Tmp(c))
  BY <1>1 DEF DropTmp, Around, FilesTyped
<1>3. Local(c)
  BY <1>1, <1>2, LocalGone
<1>4. cp'[c] = NoCopy
  BY <1>1 DEF Around, Progress
<1>5. Progress(c)'
  BY <1>0, <1>1, <1>4, HandlerProgress DEF Around
<1>6. ASSUME ~Disturbed(c)' PROVE Good(c)'
  <2>1. InPlace(c) /\ Good(c)
    BY <1>1, <1>3, <1>6, WasGood
  <2>2. ~Copying(c)' /\ ~Finished(c)'
    BY <1>0, <1>1 DEF Copying, Finished
  <2>3. CASE rq[c].op = "put"
    <3>1. ~Held(c)'
      BY <1>0, <1>1, <2>3 DEF Held, Answers
    <3> QED BY <1>0, <1>1, <1>2, <2>1, <2>2, <2>3, <3>1, GoodGivenUp DEF Around
  <2>4. CASE rq[c].op # "put"
    <3>1. fs' = fs /\ Same(c)
      BY <1>1, <2>4, SameStays DEF Around
    <3>2. Held(c)' => Held(c)
      BY <1>1, <2>2, <2>4 DEF Held
    <3>3. Later(c)
      BY <1>1, <2>2, <3>2 DEF Later
    <3> QED BY <1>0, <1>1, <2>1, <2>2, <3>1, <3>3, GoodStays DEF Around
  <2> QED BY <2>3, <2>4
<1> QED BY <1>3, <1>5, <1>6 DEF Advances

\* What comes within the reach of a call that is not disturbed has been there
\* from the start.
LEMMA InPlaceGrows ==
  ASSUME ElevationInv, ElevationInv', DoneInv, NEW c \in Calls, Local(c), Progress(c)',
         ~Disturbed(c)', fs' = fs, c \in Begun => InPlace(c) /\ ~Finished(c)
  PROVE  InPlace(c)'
<1>1. /\ FilesTyped /\ FilesPlaced /\ c \in Begun' /\ Begun \subseteq Calls
      /\ \A e \in Begun : \A q : Within(e, q) => Within(e, q)'
      /\ Begun \subseteq Begun'
  BY Parts, Grows DEF DoneInv, Local, Begun
<1>2. \A e \in Calls : CallInv(e)' /\ Progress(e)'
  BY OthersProgress DEF ElevationInv, CallsInv, DoneInv
<1>3. ASSUME NEW q \in Paths, Within(c, q)', IsFile(q) PROVE fs[q].path = q
  <2>1. CASE Original(q)
    BY <2>1 DEF Original
  <2>2. CASE ~Original(q)
    <3>1. PICK e \in Begun : Within(e, q)
      BY <1>1, <1>3, <2>2 DEF FilesPlaced
    <3>2. e = c
      BY <1>1, <1>2, <1>3, <3>1, PathFacts, StrangersNext
    <3> QED BY <1>3, <3>1, <3>2 DEF InPlace
  <2> QED BY <2>1, <2>2
<1> QED BY <1>3 DEF InPlace, IsFile

\* A handler starts its helper, with what it holds.
LEMMA SudoAdvances ==
  ASSUME ElevationInv, ElevationInv', DoneInv, NEW c \in Calls, Keeps(c),
         at[c] \notin Over \cup {"idle", "waiting", "copying"},
         NEW d \in Destinations(rq[c]), RunSudo(c, d),
         fs' = fs, data' = data, cp' = cp,
         rq[c].op = "put" => at[c] \in {"place", "create"},
         rq[c].op \in {"move", "copy"} => Exists(rq[c].src)
  PROVE  Advances(c)
<1>1. /\ Around(c) /\ c \in Begun /\ hp[c] = "none" /\ rq[c] \in Requests
      /\ rq[c].src \in Paths /\ rq[c].dst \in Destinations(rq[c])
  BY StepFrom, Alone, RequestFacts
<1>2. /\ at'[c] = "waiting" /\ hp'[c] = "sudo" /\ final'[c] = d /\ goal'[c] = d
      /\ rq' = rq /\ todo' = todo
  BY <1>1 DEF RunSudo, Go, Around, CallsTyped
<1>3. goal[c] = <<>> /\ final[c] = rq[c].dst /\ cp[c] = NoCopy
  BY <1>1 DEF Around, Progress
<1>4. c \in Begun' /\ Touched(c) \subseteq Touched(c)' /\ Touched(c)' = {rq[c].src, rq[c].dst, d}
  BY <1>1, <1>2, <1>3, GoalIsPath DEF Begun, Touched, Targets
<1>5. Local(c)
  BY <1>1, <1>2, <1>3, <1>4 DEF Local, Around
<1>6. Progress(c)'
  BY <1>1, <1>2, <1>3, <1>4 DEF Progress
<1>7. ASSUME ~Disturbed(c)' PROVE Good(c)'
  <2>1. InPlace(c) /\ Kept(c) /\ ~Finished(c)
    BY <1>1, <1>5, <1>7, WasGood DEF Finished, Over, Answers
  <2>2. InPlace(c)'
    BY <1>5, <1>6, <1>7, <2>1, InPlaceGrows
  <2>3. ~Copying(c)' /\ ~Finished(c)' /\ Sources(c)' = Sources(c)
    BY <1>2 DEF Copying, Finished, Sources
  <2>4. Held(c) \/ rq[c].op = "put"
    BY <1>1 DEF Held
  <2>5. Held(c)
    BY <1>1, <2>4 DEF Held
  <2>6. Kept(c)'
    BY <1>2, <2>1, <2>3, <2>5 DEF Kept, Holds, IsFile, Exists
  <2> QED BY <1>2, <2>2, <2>3, <2>6 DEF Good, CopyInv, FreeName, FinishedDone
<1> QED BY <1>5, <1>6, <1>7 DEF Advances

\* Elevate asks for a password, or uses the one it has.
LEMMA ElevateAdvances ==
  ASSUME ElevationInv, ElevationInv', DoneInv, NEW c \in Calls, Keeps(c),
         at[c] \in {"place", "create", "mkdir", "rename"},
         Elevate(c), data' = data, cp' = cp
  PROVE  Advances(c)
<1>1. /\ at[c] \notin Over \cup {"idle", "waiting", "copying"}
      /\ rq[c] \in Requests /\ FitsOp(at[c], hp[c], rq[c].op)
      /\ cp[c] = NoCopy
  <2>1. at[c] \notin Over \cup {"idle", "waiting", "copying"}
    BY DEF Over, Answers
  <2> QED BY <2>1, Alone DEF DoneInv, Progress
<1>2. CASE rq[c].pass # "none" /\ RunSudo(c, rq[c].dst) /\ UNCHANGED fs
  <2>1. rq[c].dst \in Destinations(rq[c])
    BY <1>1, RequestFacts
  <2>2. rq[c].op = "put" => at[c] \in {"place", "create"}
    BY <1>1 DEF FitsOp
  <2>3. rq[c].op \notin {"move", "copy"}
    BY <1>1 DEF FitsOp
  <2> QED BY <1>1, <1>2, <2>1, <2>2, <2>3, SudoAdvances
<1>3. CASE /\ rq[c].pass = "none" /\ Go(c, "elevation")
           /\ IF rq[c].op = "put" THEN DropTmp(c) ELSE UNCHANGED fs
           /\ UNCHANGED <<request, helper>>
  <2>1. "elevation" \in Answers \ {"ok"}
    BY DEF Answers
  <2> QED BY <1>1, <1>3, <2>1, HandlerGivesUp
<1> QED BY <1>2, <1>3 DEF Elevate

\* A request arrives: what it is to work on has not been touched, unless another
\* call works on it.
LEMMA ArriveAdvances ==
  ASSUME ElevationInv, ElevationInv', DoneInv, NEW c \in Calls, NEW r \in Requests, Arrive(c, r)
  PROVE  Advances(c)
<1>1. Keeps(c) /\ Around(c)
  BY ArriveKeeps, StepFrom
<1> DEFINE place == IF r.op = "put" THEN "receive" ELSE First(r.op)
<1>2. /\ at[c] = "idle" /\ at'[c] = place /\ rq'[c] = r /\ final'[c] = r.dst
      /\ fs' = fs /\ data' = data /\ hp' = hp /\ goal' = goal /\ cp' = cp
  BY <1>1 DEF Arrive, Go, files, helper, Around, CallsTyped
<1>3. place \in {"receive", "mkdir", "delete", "check"} /\ (r.op = "put" => place = "receive")
  BY DEF First
<1> HIDE DEF place
<1>4. hp[c] = "none" /\ goal[c] = <<>> /\ cp[c] = NoCopy /\ c \notin Begun
  <2>1. "idle" \notin Over \cup {"waiting"}
    BY DEF Over, Answers
  <2>2. hp[c] = "none"
    BY <1>1, <1>2, <2>1 DEF Around, CallInv
  <2> QED BY <1>1, <1>2, <2>2 DEF Around, Progress, Begun
<1>5. c \in Begun' /\ Touched(c)' = {r.src, r.dst}
  BY <1>2, <1>3, <1>4 DEF Begun, Touched, Targets
<1>6. Local(c)
  BY <1>1, <1>2, <1>4, <1>5 DEF Local, Around
<1>7. Progress(c)'
  <2>1. Touched(c)' \subseteq {r.src} \cup Destinations(r)
    BY <1>5, RequestFacts
  <2> QED BY <1>2, <1>3, <1>4, <2>1 DEF Progress
<1>8. ASSUME ~Disturbed(c)' PROVE Good(c)'
  <2>1. InPlace(c)'
    BY <1>2, <1>4, <1>6, <1>7, <1>8, InPlaceGrows
  <2>2. ~Copying(c)' /\ ~Finished(c)'
    BY <1>2, <1>3, <1>4 DEF Copying, Finished
  <2>3. ASSUME Held(c)', NEW f \in Sources(c)' PROVE Holds(f, f)
    <3>1. f \in InitFiles /\ f \in Seq(Names) /\ Under(r.src, f)
      BY <1>2, <1>3, <1>4, <2>3, PathFacts, TreeAssumption DEF Held, Sources
    <3>2. Within(c, f)'
      BY <1>5, <3>1 DEF Within, Reach
    <3>3. \A e \in Calls : CallInv(e)' /\ Progress(e)'
      BY <1>6, <1>7, OthersProgress DEF ElevationInv, CallsInv, DoneInv
    <3>4. \A e \in Begun : e \in Begun' \ {c} /\ \A q : Within(e, q) => Within(e, q)'
      BY <1>4, <1>6, Grows
    <3>5. ~\E e \in Begun : Within(e, f)
      BY <1>5, <1>8, <3>1, <3>2, <3>3, <3>4, StrangersNext
    <3> QED BY <3>1, <3>5 DEF DoneInv, OutOfReach
  <2>4. Kept(c)'
    BY <1>2, <1>4, <2>3 DEF Kept, Holds, IsFile
  <2> QED BY <1>2, <1>3, <1>4, <2>1, <2>2, <2>4 DEF Good, CopyInv, FreeName, FinishedDone
<1> QED BY <1>6, <1>7, <1>8 DEF Advances

\* The temp file is created ...
LEMMA PutCreateAdvances ==
  ASSUME ElevationInv, ElevationInv', DoneInv, NEW c \in Calls, PutCreate(c)
  PROVE  Advances(c)
<1>1. Keeps(c) /\ at[c] = "receive" /\ at[c] \notin Over \cup {"idle", "waiting"} /\ CallsTyped
  BY PutCreateKeeps, Parts DEF PutCreate, Over, Answers
<1>2. UNCHANGED <<request, helper>> /\ cp' = cp
  BY DEF PutCreate
<1>3. CASE Create("user", c, Tmp(c), Empty) /\ Go(c, "body")
  <2>0. at'[c] = "body"
    BY <1>1, <1>3 DEF Go, CallsTyped
  <2>1. /\ Around(c) /\ c \in Begun /\ Own(c) /\ Quiet(c) /\ ~Finished(c)
        /\ hp[c] = "none" /\ hp'[c] = "none" /\ rq'[c] = rq[c] /\ rq[c].op = "put"
        /\ Within(c, Tmp(c)) /\ Tmp(c) \in Paths
    BY <1>1, <1>2, <2>0, HandlerRuns, TmpFacts DEF FitsOp
  <2>2. Local(c)
    BY <1>2, <1>3, <2>1, LocalCreate DEF Around
  <2>3. Progress(c)'
    BY <1>1, <1>2, <2>0, <2>1, HandlerProgress DEF Around, Progress
  <2>4. ASSUME ~Disturbed(c)' PROVE Good(c)'
    <3>1. InPlace(c)'
      BY <1>3, <2>1, <2>2, <2>4, WasGood, CreatedHere DEF Around, Users
    <3>2. ~Held(c)' /\ ~Copying(c)' /\ ~Finished(c)'
      BY <2>0, <2>1 DEF Held, Copying, Finished
    <3> QED BY <2>1, <3>1, <3>2 DEF Good, Kept, CopyInv, FreeName, FinishedDone
  <2> QED BY <2>2, <2>3, <2>4 DEF Advances
<1>4. CASE Go(c, "error") /\ UNCHANGED files
  <2>1. "error" \in Answers \ {"ok"} /\ fs' = fs /\ data' = data
    BY <1>4 DEF Answers, files
  <2> QED BY <1>1, <1>2, <1>4, <2>1, HandlerGivesUp
<1> QED BY <1>3, <1>4 DEF PutCreate

\* ... and has what the put received.
LEMMA PutBodyAdvances ==
  ASSUME ElevationInv, ElevationInv', DoneInv, NEW c \in Calls, PutBody(c)
  PROVE  Advances(c)
<1>1. Keeps(c) /\ at[c] = "body" /\ at[c] \notin Over \cup {"idle", "waiting"} /\ CallsTyped
  BY PutBodyKeeps, Parts DEF PutBody, Over, Answers
<1>2. UNCHANGED <<request, helper>> /\ cp' = cp
  BY DEF PutBody
<1>3. /\ c \in Begun /\ rq[c].op = "put" /\ hp[c] = "none"
  BY <1>1, Alone DEF FitsOp
<1>4. CASE Create("user", c, Tmp(c), Whole(Tmp(c))) /\ Go(c, "parent")
  <2>0. at'[c] = "parent"
    BY <1>1, <1>4 DEF Go, CallsTyped
  <2>1. /\ Around(c) /\ Own(c) /\ Quiet(c) /\ ~Finished(c) /\ hp'[c] = "none" /\ rq'[c] = rq[c]
        /\ Within(c, Tmp(c)) /\ Tmp(c) \in Paths
    BY <1>1, <1>2, <2>0, HandlerRuns, TmpFacts
  <2>2. Local(c)
    BY <1>2, <1>4, <2>1, LocalCreate DEF Around
  <2>3. Progress(c)'
    BY <1>1, <1>2, <1>3, <2>0, <2>1, HandlerProgress DEF Around, Progress
  <2>4. ASSUME ~Disturbed(c)' PROVE Good(c)'
    <3>1. InPlace(c)' /\ IsFile(Tmp(c))' /\ data'[fs'[Tmp(c)]] = Whole(Tmp(c))
      BY <1>3, <1>4, <2>1, <2>2, <2>4, WasGood, CreatedHere DEF Around, Users
    <3>2. ~Copying(c)' /\ ~Finished(c)'
      BY <2>0, <2>1 DEF Copying, Finished
    <3>3. \A f \in Sources(c)' : f = Tmp(c)
      BY <1>3, <2>1 DEF Sources
    <3>4. Holds(Tmp(c), Tmp(c))'
      BY <3>1 DEF Holds
    <3>5. Kept(c)'
      BY <1>3, <2>1, <3>3, <3>4 DEF Kept
    <3> QED BY <1>3, <2>1, <3>1, <3>2, <3>5 DEF Good, CopyInv, FreeName, FinishedDone
  <2> QED BY <2>2, <2>3, <2>4 DEF Advances
<1>5. CASE DropTmp(c) /\ Go(c, "error") /\ UNCHANGED data
  <2>1. "error" \in Answers \ {"ok"}
    BY DEF Answers
  <2> QED BY <1>1, <1>2, <1>3, <1>5, <2>1, HandlerGivesUp
<1> QED BY <1>4, <1>5 DEF PutBody

\* Directories that can be made hide no file.
LEMMA DirsSame ==
  ASSUME FilesTyped, NEW c \in Calls, NEW who, NEW p, MkdirResult(who, p) = "ok",
         fs' = WithDirs(p), data' = data
  PROVE  SameFiles(c)
<1>1. \A q \in Paths : fs'[q] = IF q \in Prefixes(p) THEN Dir ELSE fs[q]
  BY DEF WithDirs
<1>2. \A q \in Prefixes(p) : q \in Paths => fs[q] \in {None, Dir}
  BY Entry DEF MkdirResult, FilesTyped
<1> QED BY <1>1, <1>2 DEF SameFiles

\* The parent of the destination is made, if it can be.
LEMMA PutParentAdvances ==
  ASSUME ElevationInv, ElevationInv', DoneInv, NEW c \in Calls, PutParent(c)
  PROVE  Advances(c)
<1> DEFINE p == Parent(rq[c].dst)
<1>1. Keeps(c) /\ at[c] = "parent" /\ at[c] \notin Over \cup {"idle", "waiting"} /\ CallsTyped
  BY PutParentKeeps, Parts DEF PutParent, Over, Answers
<1>2. /\ UNCHANGED <<request, helper>> /\ cp' = cp /\ data' = data /\ Go(c, "place")
      /\ fs' = IF MkdirResult("user", p) = "ok" THEN WithDirs(p) ELSE fs
  BY DEF PutParent
<1>3. at'[c] = "place"
  BY <1>1, <1>2 DEF Go, CallsTyped
<1>4. /\ Around(c) /\ c \in Begun /\ Own(c) /\ Quiet(c) /\ ~Finished(c) /\ rq'[c] = rq[c]
      /\ hp[c] = "none" /\ hp'[c] = "none" /\ rq[c] \in Requests /\ rq[c].op = "put"
      /\ rq[c].dst \in Paths
  BY <1>1, <1>2, <1>3, HandlerRuns DEF FitsOp
<1>5. /\ p \in Seq(Names) /\ rq[c].dst \in Seq(Names) /\ Overlap(p, rq[c].dst)
      /\ rq[c].dst \in Reach(c)
  BY <1>4, PathFacts, ParentAbove DEF Overlap, Reach, Touched
<1> HIDE DEF p
<1>6. Local(c) /\ SameFiles(c)
  <2>1. CASE MkdirResult("user", p) = "ok"
    BY <1>2, <1>4, <1>5, <2>1, LocalDirs, DirsSame DEF Around
  <2>2. CASE MkdirResult("user", p) # "ok"
    BY <1>2, <1>4, <2>2, LocalStays, SameStays DEF Around
  <2> QED BY <2>1, <2>2
<1>7. Progress(c)'
  BY <1>1, <1>2, <1>3, <1>4, HandlerProgress DEF Around, Progress
<1>8. ASSUME ~Disturbed(c)' PROVE Good(c)'
  <2>1. Good(c)
    BY <1>4, <1>6, <1>8, WasGood
  <2>2. ~Finished(c)' /\ ~Copying(c)' /\ Held(c)
    BY <1>1, <1>3, <1>4 DEF Finished, Copying, Held
  <2> QED BY <1>4, <1>6, <2>1, <2>2, GoodGoesOn DEF Around
<1> QED BY <1>6, <1>7, <1>8 DEF Advances

\* The temp file is renamed into place.
LEMMA PutPlaceAdvances ==
  ASSUME ElevationInv, ElevationInv', DoneInv, NEW c \in Calls, PutPlace(c)
  PROVE  Advances(c)
<1>1. Keeps(c) /\ at[c] = "place" /\ at[c] \notin Over \cup {"idle", "waiting"} /\ CallsTyped
  BY PutPlaceKeeps, Parts DEF PutPlace, Over, Answers
<1>2. cp' = cp /\ data' = data
  BY DEF PutPlace
<1>3. c \in Begun /\ rq[c].op = "put" /\ hp[c] = "none"
  BY <1>1, Alone DEF FitsOp
<1>4. CASE /\ RenameResult("user", Tmp(c), rq[c].dst) = "ok"
           /\ fs' = Renamed(Tmp(c), rq[c].dst)
           /\ Go(c, "ok") /\ UNCHANGED <<request, helper>>
  <2>1. at'[c] = "ok"
    BY <1>1, <1>4 DEF Go, CallsTyped
  <2>2. /\ Around(c) /\ Own(c) /\ hp'[c] = "none" /\ rq'[c] = rq[c]
        /\ rq[c].dst \in Paths /\ Tmp(c) \in Paths
        /\ rq[c].dst \in Seq(Names) /\ Tmp(c) \in Seq(Names)
        /\ rq[c].dst \in Reach(c) /\ Tmp(c) \in Reach(c)
    <3>1. /\ Around(c) /\ Own(c) /\ hp'[c] = "none" /\ rq'[c] = rq[c] /\ rq[c].dst \in Paths
      BY <1>1, <1>2, <1>4, <2>1, HandlerRuns
    <3> QED BY <3>1, TmpFacts, PathFacts DEF Reach, Touched
  <2>3. Local(c)
    BY <1>2, <1>4, <2>2, LocalRenamed DEF Around
  <2>4. Progress(c)'
    BY <1>1, <1>2, <1>3, <2>1, <2>2, HandlerProgress DEF Around, Progress
  <2>5. ASSUME ~Disturbed(c)' PROVE Good(c)'
    <3>1. Kept(c)
      BY <1>3, <2>3, <2>5, WasGood
    <3>2. Holds(Tmp(c), Tmp(c))
      BY <1>1, <1>3, <3>1 DEF Kept, Held, Sources
    <3>3. Tmp(c) \o Rel(rq[c].dst, rq[c].dst) = Tmp(c) /\ Under(rq[c].dst, rq[c].dst)
      BY <2>2, GraftRoot, UnderOrder
    <3>4. fs'[rq[c].dst] = fs[Tmp(c)]
      BY <1>4, <2>2, <3>3 DEF Renamed
    <3>5. Done(c)'
      <4>1. PICK d : d = rq[c].dst
        OBVIOUS
      <4>2. IsFile(d)' /\ fs'[d] = fs[Tmp(c)]
        BY <2>2, <3>2, <3>4, <4>1, Entry, EntryNext DEF Around, Holds
      <4>3. Holds(d, Tmp(c))'
        BY <1>2, <3>2, <4>2 DEF Holds
      <4> QED BY <1>3, <2>2, <4>1, <4>3 DEF Done
    <3>6. Finished(c)' /\ ~Copying(c)' /\ ~Held(c)'
      BY <1>3, <2>1, <2>2 DEF Finished, Copying, Held
    <3> QED BY <1>3, <2>1, <2>2, <3>5, <3>6, GoodFinished
  <2> QED BY <2>3, <2>4, <2>5 DEF Advances
<1>5. CASE Go(c, "create") /\ UNCHANGED <<fs, request, helper>>
  <2>1. at'[c] = "create"
    BY <1>1, <1>5 DEF Go, CallsTyped
  <2>2. /\ Around(c) /\ Own(c) /\ Quiet(c) /\ ~Finished(c) /\ hp'[c] = "none" /\ rq'[c] = rq[c]
    BY <1>1, <1>2, <1>5, <2>1, HandlerRuns
  <2>3. Local(c)
    BY <1>2, <1>5, <2>2, LocalStays
  <2>4. Progress(c)'
    BY <1>1, <1>2, <1>3, <2>1, <2>2, HandlerProgress DEF Around, Progress
  <2>5. ASSUME ~Disturbed(c)' PROVE Good(c)'
    <3>1. Good(c) /\ Same(c)
      BY <1>2, <1>3, <1>5, <2>2, <2>3, <2>5, WasGood, SameStays DEF Around
    <3>2. Later(c) /\ ~Finished(c)'
      BY <1>1, <1>3, <2>1, <2>2 DEF Later, Finished, Copying, Held
    <3> QED BY <1>3, <2>2, <3>1, <3>2, GoodStays DEF Around
  <2> QED BY <2>3, <2>4, <2>5 DEF Advances
<1>6. CASE Elevate(c)
  BY <1>1, <1>2, <1>6, ElevateAdvances
<1>7. CASE PutFails(c)
  <2>1. "error" \in Answers \ {"ok"}
    BY DEF Answers
  <2> QED BY <1>1, <1>2, <1>3, <1>7, <2>1, HandlerGivesUp DEF PutFails
<1> QED BY <1>4, <1>5, <1>6, <1>7 DEF PutPlace

\* Where a put's temp file is copied to.
LEMMA PutImage ==
  ASSUME NEW c \in Calls, rq[c].op = "put", rq[c].dst \in Paths
  PROVE  /\ Root(c) = Tmp(c) /\ Image(c, Tmp(c)) = rq[c].dst /\ Under(Tmp(c), Tmp(c))
         /\ Sources(c) = {Tmp(c)} /\ Separate(c)
<1>1. Root(c) = Tmp(c) /\ Dest(c) = rq[c].dst
  BY DEF Root, Dest
<1>2. Tmp(c) \in Seq(Names) /\ rq[c].dst \in Seq(Names)
  BY TmpFacts, PathFacts
<1>3. Image(c, Tmp(c)) = rq[c].dst /\ Under(Tmp(c), Tmp(c))
  BY <1>1, <1>2, GraftRoot, UnderOrder DEF Image
<1> QED BY <1>1, <1>3 DEF Sources, Separate

\* On another device, the target is created and the temp file copied to it.
LEMMA PutCreateTargetAdvances ==
  ASSUME ElevationInv, ElevationInv', DoneInv, NEW c \in Calls, PutCreateTarget(c)
  PROVE  Advances(c)
<1>1. Keeps(c) /\ at[c] = "create" /\ at[c] \notin Over \cup {"idle", "waiting"} /\ CallsTyped
  BY PutCreateTargetKeeps, Parts DEF PutCreateTarget, Over, Answers
<1>2. c \in Begun /\ rq[c].op = "put" /\ hp[c] = "none"
  BY <1>1, Alone DEF FitsOp
<1>3. CASE /\ CreateResult("user", rq[c].dst) = "ok" /\ OpenCopy("user", c, Tmp(c), rq[c].dst)
           /\ Go(c, "copying") /\ UNCHANGED <<request, helper>>
  <2>1. /\ at'[c] = "copying" /\ Create("user", c, rq[c].dst, Empty)
        /\ \A e \in Calls \ {c} : cp'[e] = cp[e]
        /\ cp'[c].to = Created("user", c, rq[c].dst)
    BY <1>1, <1>3, Parts DEF Go, CallsTyped, OpenCopy, CopiesTyped
  <2>2. /\ Around(c) /\ Own(c) /\ Quiet(c) /\ ~Finished(c) /\ hp'[c] = "none" /\ rq'[c] = rq[c]
        /\ todo'[c] = {} /\ rq[c].dst \in Paths /\ Within(c, rq[c].dst)
    BY <1>1, <1>3, <2>1, HandlerRuns
  <2>3. Local(c)
    BY <2>1, <2>2, LocalCreate DEF Around
  <2>4. Progress(c)'
    BY <1>2, <2>1, <2>2, HandlerProgress DEF Around
  <2>5. ASSUME ~Disturbed(c)' PROVE Good(c)'
    <3>1. InPlace(c) /\ Kept(c)
      BY <1>2, <2>3, <2>5, WasGood
    <3>2. Holds(Tmp(c), Tmp(c)) /\ IsFile(Tmp(c)) /\ Tmp(c) \in Paths
      BY <1>1, <1>2, <3>1, TmpFacts DEF Kept, Held, Sources, Holds
    <3>3. /\ Under(Root(c), Tmp(c)) /\ rq[c].dst = Image(c, Tmp(c)) /\ Separate(c)
          /\ \A f \in Sources(c) : f = Tmp(c)
      BY <1>2, <2>2, PutImage
    <3>4. ~Finished(c)'
      BY <2>1, <2>2 DEF Finished
    <3> QED BY <1>2, <1>3, <2>2, <3>1, <3>2, <3>3, <3>4, GoodOpened DEF Around, Users
  <2> QED BY <2>3, <2>4, <2>5 DEF Advances
<1>4. CASE Elevate(c) /\ UNCHANGED <<data, cp>>
  BY <1>1, <1>4, ElevateAdvances
<1>5. CASE PutFails(c) /\ UNCHANGED <<data, cp>>
  <2>1. "error" \in Answers \ {"ok"}
    BY DEF Answers
  <2> QED BY <1>1, <1>2, <1>5, <2>1, HandlerGivesUp DEF PutFails
<1> QED BY <1>3, <1>4, <1>5 DEF PutCreateTarget

LEMMA PutCopyAdvances ==
  ASSUME ElevationInv, ElevationInv', DoneInv, NEW c \in Calls, PutCopy(c)
  PROVE  Advances(c)
<1>1. /\ Keeps(c) /\ at[c] = "copying" /\ at[c] \notin Over \cup {"idle", "waiting"}
      /\ CallsTyped /\ CopiesTyped
  BY PutCopyKeeps, Parts DEF PutCopy, Over, Answers
<1>2. /\ c \in Begun /\ rq[c].op = "put" /\ hp[c] = "none" /\ Around(c)
      /\ Copying(c) /\ Held(c)
  BY <1>1, Alone, StepFrom DEF FitsOp, Copying, Held
<1>3. CASE cp[c] # NoCopy /\ CopyChunk(c) /\ UNCHANGED <<fs, at, request, helper, faults>>
  <2>1. at'[c] = "copying" /\ \A e \in Calls \ {c} : cp'[e] = cp[e]
    BY <1>1, <1>3 DEF CopyChunk, CopiesTyped
  <2>2. /\ Own(c) /\ Quiet(c) /\ ~Finished(c) /\ hp'[c] = "none" /\ rq'[c] = rq[c]
        /\ todo'[c] = todo[c]
    BY <1>1, <1>3, <2>1, HandlerRuns
  <2>3. Local(c)
    BY <1>1, <1>3, <2>2, LocalChunk
  <2>4. Progress(c)'
    BY <1>2, <2>1, <2>2, HandlerProgress DEF Around
  <2>5. ASSUME ~Disturbed(c)' PROVE Good(c)'
    <3>1. Good(c)
      BY <1>2, <2>3, <2>5, WasGood
    <3>2. ~Finished(c)'
      BY <2>1, <2>2 DEF Finished
    <3> QED BY <1>2, <1>3, <2>2, <3>1, <3>2, GoodChunk DEF Around
  <2> QED BY <2>3, <2>4, <2>5 DEF Advances
<1>4. CASE cp[c] # NoCopy /\ cp' = [cp EXCEPT ![c] = NoCopy] /\ PutFails(c) /\ UNCHANGED data
  <2>1. "error" \in Answers \ {"ok"} /\ cp'[c] = NoCopy /\ \A e \in Calls \ {c} : cp'[e] = cp[e]
    BY <1>1, <1>4 DEF Answers, CopiesTyped
  <2> QED BY <1>1, <1>2, <1>4, <2>1, HandlerGivesUp DEF PutFails
<1>5. CASE cp[c] = NoCopy /\ DropTmp(c) /\ Go(c, "ok") /\ UNCHANGED <<data, request, helper, cp>>
  <2>1. at'[c] = "ok"
    BY <1>1, <1>5 DEF Go, CallsTyped
  <2>2. /\ Own(c) /\ Quiet(c) /\ hp'[c] = "none" /\ rq'[c] = rq[c] /\ todo[c] = {}
        /\ rq[c] \in Requests /\ rq[c].dst \in Paths /\ Within(c, Tmp(c)) /\ Tmp(c) \in Paths
    BY <1>1, <1>5, <2>1, HandlerRuns, TmpFacts
  <2>3. \A q \in Paths : fs'[q] = IF q = Tmp(c) THEN None ELSE fs[q]
    BY <1>2, <1>5, <2>2 DEF DropTmp, Around, FilesTyped
  <2>4. Local(c)
    BY <1>5, <2>2, <2>3, LocalGone
  <2>5. Progress(c)'
    BY <1>2, <1>5, <2>1, <2>2, HandlerProgress DEF Around
  <2>6. ASSUME ~Disturbed(c)' PROVE Good(c)'
    <3>1. Covered(c)
      BY <1>2, <2>4, <2>6, WasGood DEF CopyInv
    <3>2. Holds(rq[c].dst, Tmp(c))
      BY <1>2, <1>5, <2>2, <3>1, PutImage DEF Covered
    <3>3. rq[c].dst # Tmp(c)
      BY <2>2, RequestFacts, PathFacts, UnderOrder DEF Overlap
    <3>4. Done(c)'
      <4>1. PICK d : d = rq[c].dst
        OBVIOUS
      <4>2. IsFile(d)' /\ fs'[d] = fs[d]
        BY <1>2, <2>2, <2>3, <3>2, <3>3, <4>1, Entry, EntryNext DEF Around, Holds
      <4>3. Holds(d, Tmp(c))'
        BY <1>5, <3>2, <4>1, <4>2 DEF Holds
      <4> QED BY <1>2, <2>2, <4>1, <4>3 DEF Done
    <3>5. Finished(c)' /\ ~Copying(c)' /\ ~Held(c)'
      BY <1>2, <2>1, <2>2 DEF Finished, Copying, Held
    <3> QED BY <1>2, <2>1, <2>2, <3>4, <3>5, GoodFinished
  <2> QED BY <2>4, <2>5, <2>6 DEF Advances
<1> QED BY <1>3, <1>4, <1>5 DEF PutCopy

\* A directory and those above it are made.
LEMMA MkdirAdvances ==
  ASSUME ElevationInv, ElevationInv', DoneInv, NEW c \in Calls, Mkdir(c)
  PROVE  Advances(c)
<1>1. /\ Keeps(c) /\ at[c] = "mkdir" /\ at[c] \notin Over \cup {"idle", "waiting", "copying"}
      /\ CallsTyped /\ cp' = cp /\ data' = data
  BY MkdirKeeps, Parts DEF Mkdir, Over, Answers
<1>2. CASE /\ MkdirResult("user", rq[c].dst) = "ok" /\ fs' = WithDirs(rq[c].dst)
           /\ Go(c, "ok") /\ UNCHANGED <<request, helper>>
  <2>1. at'[c] = "ok"
    BY <1>1, <1>2 DEF Go, CallsTyped
  <2>2. /\ Around(c) /\ c \in Begun /\ Own(c) /\ hp'[c] = "none" /\ rq'[c] = rq[c] /\ hp[c] = "none"
        /\ rq[c].op = "mkdir" /\ rq[c].dst \in Paths
    BY <1>1, <1>2, <2>1, HandlerRuns DEF FitsOp
  <2>3. /\ rq[c].dst \in Seq(Names) /\ Overlap(rq[c].dst, rq[c].dst)
        /\ rq[c].dst \in Reach(c) /\ rq[c].dst \in Prefixes(rq[c].dst)
    BY <2>2, PathFacts, UnderOrder, PrefixesAbove DEF Overlap, Reach, Touched
  <2>4. Local(c)
    BY <1>1, <1>2, <2>2, <2>3, LocalDirs DEF Around
  <2>5. Progress(c)'
    BY <1>1, <2>1, <2>2, HandlerProgress DEF Around, Progress
  <2>6. Done(c)'
    <3>1. PICK d : d = rq[c].dst
      OBVIOUS
    <3>2. IsDir(d)'
      BY <1>2, <2>2, <2>3, <3>1, EntryNext DEF WithDirs, Around
    <3> QED BY <2>2, <3>1, <3>2 DEF Done
  <2>7. Finished(c)' /\ ~Copying(c)'
    BY <2>1, <2>2 DEF Finished, Copying
  <2>8. Good(c)'
    BY <2>1, <2>2, <2>6, <2>7, GoodFinished
  <2> QED BY <2>4, <2>5, <2>8 DEF Advances
<1>3. CASE Elevate(c)
  BY <1>1, <1>3, ElevateAdvances
<1>4. CASE Go(c, "error") /\ UNCHANGED <<fs, request, helper>>
  <2>1. "error" \in Answers \ {"ok"}
    BY DEF Answers
  <2> QED BY <1>1, <1>4, <2>1, HandlerGivesUp
<1> QED BY <1>2, <1>3, <1>4 DEF Mkdir

\* The new name is looked up ...
LEMMA RenameCheckAdvances ==
  ASSUME ElevationInv, ElevationInv', DoneInv, NEW c \in Calls, RenameCheck(c)
  PROVE  Advances(c)
<1>1. /\ Keeps(c) /\ at[c] = "check" /\ at[c] \notin Over \cup {"idle", "waiting", "copying"}
      /\ CallsTyped /\ rq[c].op = "rename"
  BY RenameCheckKeeps, Parts DEF RenameCheck, Over, Answers
<1>2. /\ cp' = cp /\ data' = data /\ fs' = fs /\ UNCHANGED <<request, helper>>
      /\ Go(c, IF Exists(rq[c].dst) THEN "conflict" ELSE "rename")
  BY DEF RenameCheck, files
<1>3. CASE Exists(rq[c].dst)
  <2>1. "conflict" \in Answers \ {"ok"} /\ Go(c, "conflict")
    BY <1>2, <1>3 DEF Answers
  <2> QED BY <1>1, <1>2, <2>1, HandlerGivesUp
<1>4. CASE ~Exists(rq[c].dst)
  <2>1. at'[c] = "rename"
    BY <1>1, <1>2, <1>4 DEF Go, CallsTyped
  <2>2. /\ Around(c) /\ c \in Begun /\ Own(c) /\ Quiet(c) /\ ~Finished(c)
        /\ hp[c] = "none" /\ hp'[c] = "none" /\ rq'[c] = rq[c]
    BY <1>1, <1>2, <2>1, HandlerRuns
  <2>3. Local(c)
    BY <1>2, <2>2, LocalStays
  <2>4. Progress(c)'
    BY <1>1, <1>2, <2>1, <2>2, HandlerProgress DEF Around, Progress
  <2>5. ASSUME ~Disturbed(c)' PROVE Good(c)'
    <3>1. Good(c) /\ Same(c)
      BY <1>2, <2>2, <2>3, <2>5, WasGood, SameStays DEF Around
    <3>2. Later(c) /\ ~Finished(c)'
      BY <1>1, <2>1, <2>2 DEF Later, Finished, Copying, Held
    <3> QED BY <1>4, <2>2, <3>1, <3>2, GoodStays DEF Around
  <2> QED BY <2>3, <2>4, <2>5 DEF Advances
<1> QED BY <1>3, <1>4

\* What a rename to another name leaves.
LEMMA RenamedAway ==
  ASSUME FilesTyped, FilesTyped', NEW who, NEW s \in Paths, NEW d \in Seq(Names), s # d,
         RenameResult(who, s, d) = "ok", fs' = Renamed(s, d)
  PROVE  /\ d \in Paths /\ Exists(s) /\ ~Overlap(s, d) /\ ~Exists(s)' /\ Exists(d)'
         /\ \A q \in Paths : Under(s, q) /\ Exists(q) => fs'[d \o Rel(s, q)] = fs[q] /\ d \o Rel(s, q) \in Paths
<1>1. d \in Paths /\ Exists(s) /\ ~Overlap(s, d) /\ Fits(s, d)
  BY DEF RenameResult
<1>2. \A q \in Paths :
        fs'[q] = IF Under(d, q) THEN LET o == s \o Rel(d, q)
                                     IN  IF o \in Paths THEN fs[o] ELSE None
                 ELSE IF Under(s, q) THEN None ELSE fs[q]
  BY DEF Renamed
<1>3. s \in Seq(Names) /\ Under(s, s) /\ ~Under(d, s)
  BY <1>1, PathFacts, UnderOrder DEF Overlap
<1>4. ~Exists(s)'
  BY <1>2, <1>3, EntryNext
<1>5. ASSUME NEW q \in Paths, Under(s, q), Exists(q)
      PROVE  fs'[d \o Rel(s, q)] = fs[q] /\ d \o Rel(s, q) \in Paths
  <2>1. d \o Rel(s, q) \in Paths
    BY <1>1, <1>5 DEF Fits
  <2>2. q \in Seq(Names)
    BY PathFacts
  <2>3. Under(d, d \o Rel(s, q)) /\ s \o Rel(d, d \o Rel(s, q)) = q
    BY <1>3, <1>5, <2>2, GraftBack
  <2> QED BY <1>2, <2>1, <2>3
<1>6. Exists(d)'
  <2>1. d \o Rel(s, s) = d
    BY <1>3, GraftRoot
  <2>2. fs'[d] = fs[s]
    BY <1>1, <1>3, <1>5, <2>1
  <2> QED BY <1>1, <2>2, Entry, EntryNext
<1> QED BY <1>1, <1>4, <1>5, <1>6

\* ... and taken.
LEMMA RenameAdvances ==
  ASSUME ElevationInv, ElevationInv', DoneInv, NEW c \in Calls, Rename(c)
  PROVE  Advances(c)
<1>1. /\ Keeps(c) /\ at[c] = "rename" /\ at[c] \notin Over \cup {"idle", "waiting", "copying"}
      /\ CallsTyped /\ cp' = cp /\ data' = data
  BY RenameKeeps, Parts DEF Rename, Over, Answers
<1>2. CASE /\ RenameResult("user", rq[c].src, rq[c].dst) = "ok"
           /\ fs' = Renamed(rq[c].src, rq[c].dst)
           /\ Go(c, "ok") /\ UNCHANGED <<request, helper>>
  <2>1. at'[c] = "ok"
    BY <1>1, <1>2 DEF Go, CallsTyped
  <2>2. /\ Around(c) /\ c \in Begun /\ Own(c) /\ hp'[c] = "none" /\ rq'[c] = rq[c] /\ hp[c] = "none"
        /\ rq[c].op = "rename" /\ rq[c].src \in Paths /\ rq[c].dst \in Paths
    BY <1>1, <1>2, <2>1, HandlerRuns DEF FitsOp
  <2>3. /\ rq[c].dst \in Seq(Names) /\ rq[c].dst \in Reach(c) /\ rq[c].src \in Reach(c)
    BY <2>2, PathFacts DEF Reach, Touched
  <2>4. Local(c)
    BY <1>1, <1>2, <2>2, <2>3, LocalRenamed DEF Around
  <2>5. Progress(c)'
    BY <1>1, <2>1, <2>2, HandlerProgress DEF Around, Progress
  <2>6. ASSUME ~Disturbed(c)' PROVE Good(c)'
    <3>1. ~Exists(rq[c].dst)
      BY <1>1, <2>2, <2>4, <2>6, WasGood DEF FreeName
    <3>2. PICK s, d : s = rq[c].src /\ d = rq[c].dst
      OBVIOUS
    <3>3. s = d => Exists(s)
      BY <1>2, <3>2 DEF RenameResult
    <3>4. ~Exists(s)' /\ Exists(d)'
      BY <1>2, <2>2, <2>3, <3>1, <3>2, <3>3, RenamedAway DEF Around
    <3>5. Done(c)'
      BY <2>2, <3>2, <3>4 DEF Done
    <3>6. Finished(c)' /\ ~Copying(c)'
      BY <2>1, <2>2 DEF Finished, Copying
    <3> QED BY <2>1, <2>2, <3>5, <3>6, GoodFinished
  <2> QED BY <2>4, <2>5, <2>6 DEF Advances
<1>3. CASE Elevate(c)
  BY <1>1, <1>3, ElevateAdvances
<1>4. CASE Go(c, "error") /\ UNCHANGED <<fs, request, helper>>
  <2>1. "error" \in Answers \ {"ok"}
    BY DEF Answers
  <2> QED BY <1>1, <1>4, <2>1, HandlerGivesUp
<1> QED BY <1>2, <1>3, <1>4 DEF Rename

\* What is not there is not deleted.
LEMMA DeleteAdvances ==
  ASSUME ElevationInv, ElevationInv', DoneInv, NEW c \in Calls, Delete(c)
  PROVE  Advances(c)
<1>1. /\ Keeps(c) /\ at[c] = "delete" /\ at[c] \notin Over \cup {"idle", "waiting", "copying"}
      /\ cp' = cp /\ data' = data /\ fs' = fs
  BY DeleteKeeps DEF Delete, Over, Answers, files
<1>2. rq[c] \in Requests /\ rq[c].op = "delete" /\ rq[c].dst \in Destinations(rq[c])
  BY <1>1, Alone, RequestFacts DEF FitsOp
<1>3. CASE RunSudo(c, rq[c].dst)
  BY <1>1, <1>2, <1>3, SudoAdvances
<1>4. CASE Go(c, "not found") /\ UNCHANGED <<request, helper>>
  <2>1. "not found" \in Answers \ {"ok"}
    BY DEF Answers
  <2> QED BY <1>1, <1>4, <2>1, HandlerGivesUp
<1> QED BY <1>3, <1>4 DEF Delete

\* The destination of a move or a copy is resolved, and the source is there.
LEMMA MoveCheckAdvances ==
  ASSUME ElevationInv, ElevationInv', DoneInv, NEW c \in Calls, MoveCheck(c)
  PROVE  Advances(c)
<1> DEFINE d == Resolve(rq[c].src, rq[c].dst)
<1>1. /\ Keeps(c) /\ at[c] = "check" /\ at[c] \notin Over \cup {"idle", "waiting", "copying"}
      /\ cp' = cp /\ data' = data /\ fs' = fs /\ rq[c].op \in {"move", "copy"}
  BY MoveCheckKeeps DEF MoveCheck, Over, Answers, files
<1>2. d \in Destinations(rq[c]) /\ free_dst(d) \in Destinations(rq[c])
  BY <1>1, Alone, RequestFacts, Resolved
<1>3. CASE Exists(rq[c].src) /\ (RunSudo(c, d) \/ RunSudo(c, free_dst(d)))
  BY <1>1, <1>2, <1>3, SudoAdvances
<1>4. ASSUME NEW answer \in {"bad request", "not found", "conflict"},
             Go(c, answer), UNCHANGED <<request, helper>>
      PROVE  Advances(c)
  <2>1. answer \in Answers \ {"ok"}
    BY DEF Answers
  <2> QED BY <1>1, <1>4, <2>1, HandlerGivesUp
<1> QED BY <1>3, <1>4 DEF MoveCheck

\* The handler answers when its helper has ended.
LEMMA CollectAdvances ==
  ASSUME ElevationInv, ElevationInv', DoneInv, NEW c \in Calls, Collect(c)
  PROVE  Advances(c)
<1>1. /\ Keeps(c) /\ Around(c) /\ at[c] = "waiting" /\ hp[c] \in HelperOver /\ CallsTyped
      /\ cp' = cp /\ data' = data
  BY CollectKeeps, StepFrom, Parts DEF Collect
<1>2. /\ at'[c] = IF Succeeded(c) THEN "ok" ELSE "denied"
      /\ rq' = rq /\ final' = final /\ hp' = hp /\ goal' = goal /\ todo' = todo
  BY <1>1 DEF Collect, Go, CallsTyped, request, helper
<1>3. c \in Begun /\ Own(c) /\ Quiet(c) /\ cp[c] = NoCopy
  BY <1>1, <1>2 DEF Begun, Own, Quiet, Around, Progress, HelperOver
<1>4. \A q \in Paths :
        fs'[q] = fs[q] \/ (fs'[q] = None /\ q = Tmp(c) /\ rq[c].op = "put" /\ ~Succeeded(c))
  BY <1>1 DEF Collect, DropTmp, Around, FilesTyped
<1>5. Within(c, Tmp(c))
  BY <1>1, <1>3, WithinFacts DEF Around
<1>6. Local(c)
  BY <1>1, <1>3, <1>4, <1>5, LocalGone
<1>7. hp[c] \notin {"none", "sudo", "check", "rename", "copy", "parent"} /\ at'[c] \in {"ok", "denied"}
  BY <1>1, <1>2 DEF HelperOver
<1>8. Progress(c)'
  BY <1>1, <1>2, <1>3, <1>7, OwnProgress DEF Around, Succeeded
<1>9. ASSUME ~Disturbed(c)' PROVE Good(c)'
  <2>1. Good(c) /\ InPlace(c)
    BY <1>3, <1>6, <1>9, WasGood
  <2>2. ~Copying(c)' /\ ~Held(c)'
    BY <1>2, <1>7 DEF Copying, Held
  <2>3. Finished(c)' <=> Finished(c)
    BY <1>2, <1>7 DEF Finished
  <2>4. CASE rq[c].op = "put" /\ ~Succeeded(c)
    <3>1. ~Finished(c)
      BY <1>7, <2>4 DEF Finished, Succeeded
    <3> QED BY <1>1, <1>3, <1>4, <2>1, <2>2, <2>3, <2>4, <3>1, GoodGivenUp DEF Around
  <2>5. CASE ~(rq[c].op = "put" /\ ~Succeeded(c))
    <3>1. fs' = fs
      BY <2>5 DEF Collect
    <3>2. Same(c) /\ Later(c)
      BY <1>1, <1>2, <2>2, <2>3, <3>1, SameStays DEF Later, Around
    <3> QED BY <1>1, <1>2, <1>3, <1>7, <2>1, <2>3, <3>2, GoodStays DEF Around
  <2> QED BY <2>4, <2>5
<1> QED BY <1>6, <1>8, <1>9 DEF Advances

\* A step in which handler and helper stop or go on with what they were doing.
LEMMA StopAdvances ==
  ASSUME ElevationInv, DoneInv, NEW c \in Calls, Keeps(c), c \in Begun,
         at'[c] \in {"waiting", "gone"}, at[c] # "ok",
         fs' = fs, data' = data, UNCHANGED <<request, goal, todo>>,
         cp'[c] = NoCopy \/ (cp'[c] = cp[c] /\ hp'[c] = "copy"),
         \A e \in Calls \ {c} : cp'[e] = cp[e],
         hp'[c] = hp[c] \/ hp'[c] \in {"refused", "killed"},
         hp'[c] = "copy" => cp'[c] = cp[c],
         hp[c] = "ok" => hp'[c] = "ok"
  PROVE  Advances(c)
<1>1. /\ Around(c) /\ Own(c) /\ Quiet(c) /\ rq'[c] = rq[c] /\ todo'[c] = todo[c] /\ goal'[c] = goal[c]
  BY StepFrom DEF Own, Quiet, Around, request
<1>2. Local(c)
  BY <1>1, LocalStays
<1>3. Progress(c)'
  BY <1>1, OwnProgress DEF Around, Progress
<1>4. ASSUME ~Disturbed(c)' PROVE Good(c)'
  <2>1. Good(c) /\ Same(c)
    BY <1>1, <1>2, <1>4, WasGood, SameStays DEF Around
  <2>2. Finished(c)' <=> Finished(c)
    BY DEF Finished
  <2>3. Copying(c)' => Copying(c) /\ todo'[c] = todo[c] /\ cp'[c] = cp[c]
    BY <1>1 DEF Copying, Root, Dest
  <2>4. Held(c)' => Held(c) /\ (hp'[c] # "none" => hp[c] # "none")
    <3>1. CASE rq[c].op = "put"
      BY <1>1, <3>1 DEF Held
    <3>2. CASE rq[c].op # "put"
      <4>1. ASSUME Copying(c)' PROVE Held(c) /\ hp[c] # "none"
        BY <2>3, <3>2, <4>1 DEF Held, Copying
      <4>2. ASSUME hp'[c] \in {"none", "sudo", "check", "rename"}
            PROVE  Held(c) /\ hp'[c] = hp[c]
        BY <3>2, <4>2 DEF Held
      <4>3. Held(c)' => hp'[c] \in {"none", "sudo", "check", "rename"} \/ Copying(c)'
        BY <1>1, <3>2 DEF Held
      <4> QED BY <4>1, <4>2, <4>3
    <3> QED BY <3>1, <3>2
  <2> QED BY <1>1, <2>1, <2>2, <2>3, <2>4, GoodStays DEF Around, Later
<1> QED BY <1>2, <1>3, <1>4 DEF Advances

\* The client goes away.
LEMMA AbortAdvances ==
  ASSUME ElevationInv, ElevationInv', DoneInv, NEW c \in Calls, Abort(c)
  PROVE  Advances(c)
<1>1. /\ Keeps(c) /\ Around(c) /\ at[c] \in {"body", "waiting"} /\ c \in Begun
      /\ cp' = cp /\ data' = data /\ fs' = fs /\ UNCHANGED <<request, goal, todo>>
  BY AbortKeeps, StepFrom DEF Abort, files, Begun
<1>2. at'[c] = "gone" /\ (hp'[c] = hp[c] \/ (hp[c] = "sudo" /\ hp'[c] = "refused"))
  BY <1>1 DEF Abort, Go, Around, CallsTyped
<1>3. cp[c] # NoCopy => hp[c] = "copy"
  BY <1>1 DEF Around, Progress
<1> QED BY <1>1, <1>2, <1>3, StopAdvances

---------------------------------------------------------------------------
\* The helpers' steps.

\* A helper at work, as its step leaves it.
LEMMA HelperWorks ==
  ASSUME ElevationInv, DoneInv, NEW c \in Calls, Keeps(c), Running(hp[c]), UNCHANGED <<at, request>>,
         NEW place, hp'[c] = place, \A e \in Calls \ {c} : cp'[e] = cp[e]
  PROVE  /\ Around(c) /\ c \in Begun /\ ~Finished(c)
         /\ at'[c] = at[c] /\ at[c] \in {"waiting", "gone"} /\ hp[c] # "none"
         /\ rq'[c] = rq[c] /\ final'[c] = final[c] /\ rq[c] \in Requests
         /\ goal'[c] = goal[c] => Quiet(c) /\ Own(c)
         /\ FitsOp("gone", hp[c], rq[c].op)
         /\ rq[c].src \in Paths /\ rq[c].dst \in Paths
         /\ goal[c] \in Seq(Names) /\ goal[c] \in Destinations(rq[c])
         /\ Within(c, rq[c].src) /\ Within(c, rq[c].dst) /\ Within(c, Tmp(c))
         /\ \A q : Under(rq[c].src, q) => Within(c, q)
         /\ {rq[c].src, rq[c].dst, goal[c], Tmp(c)} \subseteq Reach(c)
         /\ cp[c] # NoCopy => hp[c] = "copy"
<1>1. /\ c \in Begun /\ at[c] \in {"waiting", "gone"} /\ rq[c] \in Requests
      /\ FitsOp("gone", hp[c], rq[c].op) /\ rq[c].src \in Paths /\ rq[c].dst \in Paths
      /\ goal[c] \in Seq(Names) /\ goal[c] \in Destinations(rq[c])
  BY HelperRuns
<1>2. Around(c) /\ hp[c] \notin {"none", "ok"}
  BY StepFrom DEF Running, HelperOver
<1>3. ~Finished(c)
  BY <1>2 DEF Finished
<1>4. at' = at /\ rq' = rq /\ final' = final
  BY DEF request
<1>5. goal'[c] = goal[c] => Quiet(c) /\ Own(c)
  BY <1>1, <1>2, <1>4 DEF Quiet, Own, Around
<1>6. /\ Within(c, rq[c].src) /\ Within(c, rq[c].dst) /\ Within(c, Tmp(c))
      /\ \A q : Under(rq[c].src, q) => Within(c, q)
  BY <1>1, <1>2, WithinFacts DEF Around
<1>7. {rq[c].src, rq[c].dst, goal[c], Tmp(c)} \subseteq Reach(c)
  BY <1>1, GoalIsPath DEF Reach, Touched, Targets
<1>8. cp[c] # NoCopy => hp[c] = "copy"
  BY <1>1, <1>2 DEF Around, Progress
<1> QED BY <1>1, <1>2, <1>3, <1>4, <1>5, <1>6, <1>7, <1>8

\* It fails.
LEMMA HelperGivesUp ==
  ASSUME ElevationInv, DoneInv, NEW c \in Calls, Keeps(c), Running(hp[c]), UNCHANGED <<at, request>>,
         NEW place \in {"error", "refused", "conflict", "killed"}, hp'[c] = place,
         \A e \in Calls \ {c} : cp'[e] = cp[e], cp'[c] = NoCopy,
         data' = data, goal'[c] = goal[c],
         \A q \in Paths : fs'[q] = fs[q] \/ (fs'[q] = None /\ Within(c, q))
  PROVE  Advances(c)
<1>1. /\ Around(c) /\ c \in Begun /\ ~Finished(c) /\ Quiet(c) /\ Own(c)
      /\ at'[c] = at[c] /\ at[c] \in {"waiting", "gone"} /\ rq'[c] = rq[c]
  BY HelperWorks
<1>2. Local(c)
  BY <1>1, LocalGone
<1>3. Progress(c)'
  BY <1>1, HelperProgress DEF Around
<1>4. ASSUME ~Disturbed(c)' PROVE Good(c)'
  <2>1. InPlace(c)
    BY <1>1, <1>2, <1>4, WasGood
  <2>2. ~Held(c)' /\ ~Copying(c)' /\ ~Finished(c)'
    BY <1>1 DEF Held, Copying, Finished
  <2> QED BY <1>1, <2>1, <2>2, GoodGivenUp DEF Around
<1> QED BY <1>2, <1>3, <1>4 DEF Advances

\* remove_recursive takes the source away, or fails with a part of it gone.
LEMMA SourceGoes ==
  ASSUME CallsTyped, NEW c \in Calls, RemoveSource(c)
  PROVE  \/ /\ \A q \in Paths : fs'[q] = IF Under(rq[c].src, q) THEN None ELSE fs[q]
            /\ hp'[c] = IF ~Exists(rq[c].src) THEN "error" ELSE "ok"
         \/ /\ \A q \in Paths :
                 fs'[q] = fs[q] \/ (fs'[q] = None /\ Under(rq[c].src, q))
            /\ hp'[c] \in {"error", "killed"}
<1>1. CASE fs' = Removed(rq[c].src) /\ FailIf(c, ~Exists(rq[c].src), "ok")
  BY <1>1 DEF Removed, FailIf, Become, CallsTyped
<1>2. ASSUME NEW S \in Removals(rq[c].src), fs' = Without(S),
             Become(c, "killed") \/ Become(c, "error")
      PROVE  /\ \A q \in Paths :
                  fs'[q] = fs[q] \/ (fs'[q] = None /\ Under(rq[c].src, q))
             /\ hp'[c] \in {"error", "killed"}
  BY <1>2 DEF Without, Removals, Become, CallsTyped
<1> QED BY <1>1, <1>2 DEF RemoveSource

\* sudo starts it, or does not.
LEMMA SudoStepAdvances ==
  ASSUME ElevationInv, ElevationInv', DoneInv, NEW c \in Calls, Sudo(c), UNCHANGED <<at, request>>
  PROVE  Advances(c)
<1>1. /\ Keeps(c) /\ hp[c] = "sudo" /\ Running(hp[c]) /\ CallsTyped
      /\ cp' = cp /\ data' = data /\ fs' = fs /\ goal' = goal /\ todo' = todo
  BY SudoKeeps, Parts DEF Sudo, Running, HelperOver, files
<1>2. hp'[c] \in {"refused", "parent", "mkdir", "delete", "check"}
  BY <1>1 DEF Sudo, Become, First, CallsTyped
<1>3. /\ Around(c) /\ c \in Begun /\ ~Finished(c) /\ Quiet(c) /\ Own(c)
      /\ at'[c] = at[c] /\ at[c] \in {"waiting", "gone"} /\ rq'[c] = rq[c] /\ cp[c] = NoCopy
  BY <1>1, <1>2, HelperWorks
<1>4. Local(c)
  BY <1>1, <1>3, LocalStays
<1>5. Progress(c)'
  BY <1>1, <1>2, <1>3, HelperProgress DEF Around
<1>6. ASSUME ~Disturbed(c)' PROVE Good(c)'
  <2>1. Good(c) /\ Same(c)
    BY <1>1, <1>3, <1>4, <1>6, WasGood, SameStays DEF Around
  <2>2. Later(c) /\ ~Finished(c)'
    BY <1>1, <1>2, <1>3 DEF Later, Finished, Copying, Held
  <2> QED BY <1>2, <1>3, <2>1, <2>2, GoodStays DEF Around
<1> QED BY <1>4, <1>5, <1>6 DEF Advances

LEMMA HelperMkdirAdvances ==
  ASSUME ElevationInv, ElevationInv', DoneInv, NEW c \in Calls, HelperMkdir(c), UNCHANGED <<at, request>>
  PROVE  Advances(c)
<1>1. /\ Keeps(c) /\ hp[c] = "mkdir" /\ Running(hp[c]) /\ CallsTyped
      /\ cp' = cp /\ data' = data /\ goal' = goal /\ todo' = todo
  BY HelperMkdirKeeps, Parts DEF HelperMkdir, Running, HelperOver
<1>2. CASE MkdirResult("root", rq[c].dst) = "ok"
  <2>1. hp'[c] = "ok" /\ fs' = WithDirs(rq[c].dst)
    BY <1>1, <1>2 DEF HelperMkdir, FailIf, Become, CallsTyped
  <2>2. /\ Around(c) /\ c \in Begun /\ Own(c) /\ rq'[c] = rq[c] /\ cp[c] = NoCopy
        /\ at'[c] = at[c] /\ at[c] \in {"waiting", "gone"}
        /\ rq[c].op = "mkdir" /\ rq[c].dst \in Paths /\ rq[c].dst \in Reach(c)
    BY <1>1, <2>1, HelperWorks DEF FitsOp
  <2>3. /\ rq[c].dst \in Seq(Names) /\ Overlap(rq[c].dst, rq[c].dst)
        /\ rq[c].dst \in Prefixes(rq[c].dst)
    BY <2>2, PathFacts, UnderOrder, PrefixesAbove DEF Overlap
  <2>4. Local(c)
    BY <1>1, <1>2, <2>1, <2>2, <2>3, LocalDirs DEF Around
  <2>5. Progress(c)'
    BY <1>1, <2>1, <2>2, HelperProgress DEF Around
  <2>6. Done(c)'
    <3>1. PICK d : d = rq[c].dst
      OBVIOUS
    <3>2. IsDir(d)'
      BY <2>1, <2>2, <2>3, <3>1, EntryNext DEF WithDirs, Around
    <3> QED BY <2>2, <3>1, <3>2 DEF Done
  <2>7. Finished(c)' /\ ~Copying(c)'
    BY <2>1, <2>2 DEF Finished, Copying
  <2>8. Good(c)'
    BY <2>1, <2>2, <2>6, <2>7, GoodFinished
  <2> QED BY <2>4, <2>5, <2>8 DEF Advances
<1>3. CASE MkdirResult("root", rq[c].dst) # "ok"
  <2>1. hp'[c] = "error" /\ fs' = fs
    BY <1>1, <1>3 DEF HelperMkdir, FailIf, Become, CallsTyped
  <2>2. cp[c] = NoCopy
    BY <1>1, <2>1, HelperWorks
  <2> QED BY <1>1, <2>1, <2>2, HelperGivesUp DEF HelperMkdir
<1> QED BY <1>2, <1>3

LEMMA HelperDeleteAdvances ==
  ASSUME ElevationInv, ElevationInv', DoneInv, NEW c \in Calls, HelperDelete(c), UNCHANGED <<at, request>>
  PROVE  Advances(c)
<1>1. /\ Keeps(c) /\ hp[c] = "delete" /\ Running(hp[c]) /\ CallsTyped /\ RemoveSource(c)
      /\ cp' = cp /\ data' = data /\ goal' = goal /\ todo' = todo
  BY HelperDeleteKeeps, Parts DEF HelperDelete, Running, HelperOver
<1>2. PICK s, place : s = rq[c].src /\ place = hp'[c]
  OBVIOUS
<1>3. /\ Around(c) /\ c \in Begun /\ Own(c) /\ rq'[c] = rq[c] /\ cp[c] = NoCopy
      /\ at'[c] = at[c] /\ at[c] \in {"waiting", "gone"} /\ rq[c].op = "delete" /\ s \in Paths
      /\ \A q : Under(s, q) => Within(c, q)
  BY <1>1, <1>2, HelperWorks DEF FitsOp
<1>4. CASE /\ \A q \in Paths : fs'[q] = IF Under(s, q) THEN None ELSE fs[q]
           /\ place = "ok"
  <2>1. Local(c)
    BY <1>1, <1>2, <1>3, <1>4, LocalGone
  <2>2. Progress(c)'
    BY <1>1, <1>2, <1>3, <1>4, HelperProgress DEF Around
  <2>3. Done(c)'
    <3>1. fs'[s] = None
      BY <1>3, <1>4, PathFacts, UnderOrder
    <3>2. ~Exists(s)'
      BY <1>3, <3>1, EntryNext DEF Around
    <3> QED BY <1>2, <1>3, <3>2 DEF Done
  <2>4. Finished(c)' /\ ~Copying(c)'
    BY <1>2, <1>3, <1>4 DEF Finished, Copying
  <2>5. Good(c)'
    BY <1>2, <1>3, <1>4, <2>3, <2>4, GoodFinished
  <2> QED BY <2>1, <2>2, <2>5 DEF Advances
<1>5. CASE /\ \A q \in Paths : fs'[q] = fs[q] \/ (fs'[q] = None /\ Under(s, q))
           /\ place \in {"error", "killed"}
  BY <1>1, <1>2, <1>3, <1>5, HelperGivesUp
<1> QED BY <1>1, <1>2, <1>4, <1>5, SourceGoes

\* The copy of a put's temp file is prepared.
LEMMA HelperParentAdvances ==
  ASSUME ElevationInv, ElevationInv', DoneInv, NEW c \in Calls, HelperParent(c), UNCHANGED <<at, request>>
  PROVE  Advances(c)
<1> DEFINE p == Parent(rq[c].dst)
<1>1. /\ Keeps(c) /\ hp[c] = "parent" /\ Running(hp[c]) /\ CallsTyped
      /\ cp' = cp /\ data' = data /\ goal' = goal
      /\ todo'[c] = {[from |-> Tmp(c), to |-> rq[c].dst]}
      /\ fs' = IF MkdirResult("root", p) = "ok" THEN WithDirs(p) ELSE fs
      /\ hp'[c] = IF MkdirResult("root", p) # "ok" THEN "error" ELSE "copy"
  BY HelperParentKeeps, Parts DEF HelperParent, Running, HelperOver, FailIf, Become, CallsTyped
<1>2. /\ Around(c) /\ c \in Begun /\ Own(c) /\ Quiet(c) /\ ~Finished(c) /\ rq'[c] = rq[c] /\ cp[c] = NoCopy
      /\ at'[c] = at[c] /\ at[c] \in {"waiting", "gone"} /\ rq[c].op = "put" /\ rq[c].dst \in Paths
      /\ rq[c].dst \in Reach(c)
  BY <1>1, HelperWorks DEF FitsOp
<1>3. p \in Seq(Names) /\ rq[c].dst \in Seq(Names) /\ Overlap(p, rq[c].dst)
  BY <1>2, PathFacts, ParentAbove DEF Overlap
<1> HIDE DEF p
<1>4. CASE MkdirResult("root", p) = "ok"
  <2>1. Local(c) /\ SameFiles(c)
    BY <1>1, <1>2, <1>3, <1>4, LocalDirs, DirsSame DEF Around
  <2>2. Under(rq[c].dst, rq[c].dst) /\ Dest(c) = rq[c].dst
    BY <1>2, <1>3, UnderOrder DEF Dest
  <2>3. Progress(c)'
    BY <1>1, <1>2, <1>4, <2>2, HelperProgress DEF Around
  <2>4. ASSUME ~Disturbed(c)' PROVE Good(c)'
    <3>1. InPlace(c) /\ Kept(c)
      BY <1>2, <2>1, <2>4, WasGood
    <3>2. Held(c) /\ hp[c] # "none" /\ ~Finished(c)'
      BY <1>1, <1>2, <1>4 DEF Held, Finished
    <3>3. InPlace(c)' /\ Kept(c)'
      BY <1>2, <2>1, <3>1, <3>2, InPlaceStays, KeptStays DEF Around
    <3>4. Root(c) = Tmp(c) /\ Dest(c)' = rq[c].dst
      BY <1>2 DEF Root, Dest
    <3>5. CopyInv(c)'
      BY <1>1, <1>2, <1>3, <3>4, CopyStarts DEF Around
    <3> QED BY <1>2, <3>2, <3>3, <3>5 DEF Good, FreeName, FinishedDone
  <2> QED BY <2>1, <2>3, <2>4 DEF Advances
<1>5. CASE MkdirResult("root", p) # "ok"
  BY <1>1, <1>2, <1>5, HelperGivesUp
<1> QED BY <1>4, <1>5

LEMMA HelperRenameCheckAdvances ==
  ASSUME ElevationInv, ElevationInv', DoneInv, NEW c \in Calls, HelperRenameCheck(c), UNCHANGED <<at, request>>
  PROVE  Advances(c)
<1>1. /\ Keeps(c) /\ hp[c] = "check" /\ Running(hp[c]) /\ CallsTyped /\ rq[c].op = "rename"
      /\ cp' = cp /\ data' = data /\ fs' = fs /\ goal' = goal /\ todo' = todo
      /\ hp'[c] = IF Exists(rq[c].dst) THEN "error" ELSE "rename"
  BY HelperRenameCheckKeeps, Parts
     DEF HelperRenameCheck, Running, HelperOver, FailIf, Become, CallsTyped, files
<1>2. /\ Around(c) /\ c \in Begun /\ Own(c) /\ Quiet(c) /\ ~Finished(c) /\ rq'[c] = rq[c] /\ cp[c] = NoCopy
      /\ at'[c] = at[c] /\ at[c] \in {"waiting", "gone"}
  BY <1>1, HelperWorks
<1>3. CASE ~Exists(rq[c].dst)
  <2>1. Local(c)
    BY <1>1, <1>2, LocalStays
  <2>2. Progress(c)'
    BY <1>1, <1>2, <1>3, HelperProgress DEF Around
  <2>3. ASSUME ~Disturbed(c)' PROVE Good(c)'
    <3>1. Good(c) /\ Same(c)
      BY <1>1, <1>2, <2>1, <2>3, WasGood, SameStays DEF Around
    <3>2. Later(c) /\ ~Finished(c)'
      BY <1>1, <1>2, <1>3 DEF Later, Finished, Copying, Held
    <3> QED BY <1>2, <1>3, <3>1, <3>2, GoodStays DEF Around
  <2> QED BY <2>1, <2>2, <2>3 DEF Advances
<1>4. CASE Exists(rq[c].dst)
  BY <1>1, <1>2, <1>4, HelperGivesUp
<1> QED BY <1>3, <1>4

\* The destination is resolved once more, and the move or the copy prepared.
LEMMA HelperMoveCheckAdvances ==
  ASSUME ElevationInv, ElevationInv', DoneInv, NEW c \in Calls, HelperMoveCheck(c), UNCHANGED <<at, request>>
  PROVE  Advances(c)
<1>1. /\ Keeps(c) /\ hp[c] = "check" /\ Running(hp[c]) /\ CallsTyped /\ rq[c].op \in {"move", "copy"}
      /\ cp' = cp /\ data' = data /\ fs' = fs
  BY HelperMoveCheckKeeps, Parts DEF HelperMoveCheck, Running, HelperOver, files
<1>2. /\ Around(c) /\ c \in Begun /\ ~Finished(c) /\ rq'[c] = rq[c] /\ cp[c] = NoCopy
      /\ at'[c] = at[c] /\ at[c] \in {"waiting", "gone"} /\ final'[c] = final[c]
      /\ rq[c].src \in Paths /\ goal[c] = final[c] /\ goal[c] # <<>>
      /\ Touched(c) \subseteq {rq[c].src} \cup Destinations(rq[c])
  <2>1. PICK place : place = hp'[c]
    OBVIOUS
  <2>2. /\ Around(c) /\ c \in Begun /\ ~Finished(c) /\ rq'[c] = rq[c] /\ (cp[c] # NoCopy => hp[c] = "copy")
        /\ at'[c] = at[c] /\ at[c] \in {"waiting", "gone"} /\ final'[c] = final[c]
        /\ rq[c].src \in Paths /\ goal[c] \in Destinations(rq[c]) /\ rq[c] \in Requests
    BY <1>1, <2>1, HelperWorks
  <2> QED BY <1>1, <2>2, GoalIsPath DEF Around, Progress
<1>3. CASE Become(c, "conflict") /\ UNCHANGED <<goal, todo>>
  <2>1. hp'[c] = "conflict" /\ goal'[c] = goal[c]
    BY <1>1, <1>3 DEF Become, CallsTyped
  <2> QED BY <1>1, <1>2, <2>1, HelperGivesUp
<1>4. ASSUME NEW g, goal' = [goal EXCEPT ![c] = g],
             todo' = [todo EXCEPT ![c] = {[from |-> rq[c].src, to |-> g]}],
             Become(c, IF rq[c].op = "move" THEN "rename" ELSE "copy")
      PROVE  Advances(c)
  <2>1. /\ goal'[c] = g /\ todo'[c] = {[from |-> rq[c].src, to |-> g]}
        /\ hp'[c] = IF rq[c].op = "move" THEN "rename" ELSE "copy"
    BY <1>1, <1>4 DEF Become, CallsTyped
  <2>2. g \in Destinations(rq[c]) /\ g \in Seq(Names) /\ Under(g, g)
    <3>1. CallInv(c)'
      BY DEF ElevationInv, CallsInv
    <3>2. g \in Destinations(rq[c])
      BY <1>2, <2>1, <3>1 DEF CallInv
    <3> QED BY <1>2, <3>2, RequestFacts, UnderOrder DEF Around, CallInv
  <2>3. /\ c \in Begun' /\ Touched(c) \subseteq Touched(c)'
        /\ Touched(c)' \subseteq {rq[c].src} \cup Destinations(rq[c])
    BY <1>2, <2>1, <2>2 DEF Touched, Targets, Begun
  <2>4. Local(c)
    BY <1>1, <1>2, <2>3 DEF Local, Around
  <2>5. Dest(c)' = g /\ Root(c) = rq[c].src /\ Root(c)' = Root(c)
    BY <1>1, <1>2, <2>1 DEF Dest, Root
  <2>6. Progress(c)'
    <3>1. \A e \in todo'[c] : Under(Dest(c)', e.to)
      BY <2>1, <2>2, <2>5
    <3>2. Under(rq[c].src, g) /\ rq[c].src # g =>
            \E e \in todo'[c] : e.from # e.to /\ Under(e.from, e.to)
      BY <2>1
    <3> QED BY <1>1, <1>2, <2>1, <2>3, <3>1, <3>2 DEF Progress
  <2>7. ASSUME ~Disturbed(c)' PROVE Good(c)'
    <3>1. InPlace(c) /\ Kept(c)
      BY <1>2, <2>4, <2>7, WasGood
    <3>2. InPlace(c)'
      BY <1>1, <1>2, <2>4, <2>6, <2>7, <3>1, InPlaceGrows
    <3>3. ~Finished(c)' /\ Held(c) /\ Sources(c)' = Sources(c)
      BY <1>1, <1>2, <2>1 DEF Finished, Held, Sources
    <3>4. Kept(c)'
      BY <1>1, <1>2, <3>1, <3>3 DEF Kept, Holds, IsFile, Exists
    <3>5. CopyInv(c)'
      BY <1>1, <1>2, <2>1, <2>2, <2>5, CopyStarts DEF Around
    <3> QED BY <1>1, <1>2, <3>2, <3>3, <3>4, <3>5 DEF Good, FreeName, FinishedDone
  <2> QED BY <2>4, <2>6, <2>7 DEF Advances
<1> QED BY <1>3, <1>4 DEF HelperMoveCheck

\* The rename, or the copy that takes its place.
LEMMA HelperRenameAdvances ==
  ASSUME ElevationInv, ElevationInv', DoneInv, NEW c \in Calls, HelperRename(c), UNCHANGED <<at, request>>
  PROVE  Advances(c)
<1> DEFINE result == RenameResult("root", rq[c].src, goal[c])
<1>1. /\ Keeps(c) /\ hp[c] = "rename" /\ Running(hp[c]) /\ CallsTyped
      /\ cp' = cp /\ data' = data /\ goal' = goal /\ todo' = todo
      /\ fs' = IF result = "ok" THEN Renamed(rq[c].src, goal[c]) ELSE fs
      /\ hp'[c] = IF result = "ok" THEN "ok"
                  ELSE IF result = "other device" /\ rq[c].op = "move" THEN "copy" ELSE "error"
  BY HelperRenameKeeps, Parts DEF HelperRename, Running, HelperOver, Become, CallsTyped
<1>2. /\ Around(c) /\ c \in Begun /\ Own(c) /\ Quiet(c) /\ ~Finished(c) /\ cp[c] = NoCopy
      /\ rq'[c] = rq[c] /\ goal'[c] = goal[c]
      /\ at'[c] = at[c] /\ at[c] \in {"waiting", "gone"} /\ rq[c].op \in {"rename", "move"}
      /\ rq[c] \in Requests /\ rq[c].src \in Paths /\ rq[c].src \in Reach(c) /\ goal[c] \in Reach(c)
      /\ goal[c] \in Seq(Names) /\ goal[c] \in Destinations(rq[c])
  BY <1>1, HelperWorks DEF FitsOp
<1>3. CASE result = "ok"
  <2>1. hp'[c] = "ok" /\ fs' = Renamed(rq[c].src, goal[c])
    BY <1>1, <1>3
  <2>2. Local(c)
    BY <1>1, <1>2, <2>1, LocalRenamed DEF Around
  <2>3. Progress(c)'
    BY <1>2, <2>1, <1>1, HelperProgress DEF Around
  <2>4. ASSUME ~Disturbed(c)' PROVE Good(c)'
    <3>1. Kept(c) /\ FreeName(c)
      BY <1>2, <2>2, <2>4, WasGood
    <3>2. PICK s, d : s = rq[c].src /\ d = goal[c]
      OBVIOUS
    <3>3. s = d => Exists(s)
      BY <1>3, <3>2 DEF RenameResult
    <3>4. s # d => /\ ~Exists(s)' /\ Exists(d)'
                   /\ \A q \in Paths : Under(s, q) /\ Exists(q) =>
                        fs'[d \o Rel(s, q)] = fs[q] /\ d \o Rel(s, q) \in Paths
      <4>1. /\ s \in Paths /\ d \in Seq(Names) /\ FilesTyped /\ FilesTyped'
            /\ RenameResult("root", s, d) = "ok" /\ fs' = Renamed(s, d)
        BY <1>2, <1>3, <2>1, <3>2 DEF Around
      <4> QED BY <4>1, RenamedAway
    <3>5. OntoItself(c)' \/ Done(c)'
      <4>1. CASE rq[c].op = "rename"
        <5>1. d = rq[c].dst /\ ~Exists(d)
          BY <1>1, <1>2, <3>1, <3>2, <4>1 DEF Destinations, FreeName
        <5>2. ~Exists(s)' /\ Exists(d)'
          BY <3>3, <3>4, <5>1
        <5> QED BY <1>2, <3>2, <4>1, <5>1, <5>2 DEF Done
      <4>2. CASE rq[c].op = "move" /\ s = d
        <5>1. Under(d, s)
          BY <1>2, <3>2, <4>2, UnderOrder
        <5> QED BY <1>2, <3>2, <4>2, <5>1 DEF OntoItself
      <4>3. CASE rq[c].op = "move" /\ s # d
        <5>1. ASSUME NEW f \in InitFiles, Under(s, f) PROVE Holds(d \o Rel(s, f), f)'
          <6>1. Holds(f, f) /\ f \in Paths
            BY <1>1, <3>1, <3>2, <4>3, <5>1, TreeAssumption DEF Kept, Held, Sources
          <6>2. PICK p : p = d \o Rel(s, f)
            OBVIOUS
          <6>3. Exists(f) /\ fs[f] \in Inodes /\ data[fs[f]] = Whole(f)
            BY <1>2, <6>1, Entry, NamesAssumption DEF Holds, Around
          <6>4. p \in Paths /\ fs'[p] = fs[f]
            BY <3>4, <4>3, <5>1, <6>1, <6>2, <6>3
          <6>5. IsFile(p)'
            BY <1>2, <6>3, <6>4, EntryNext DEF Around
          <6>6. Holds(p, f)'
            BY <1>1, <6>3, <6>4, <6>5 DEF Holds
          <6> QED BY <6>2, <6>6
        <5>2. ~Exists(s)'
          BY <3>4, <4>3
        <5> QED BY <1>2, <3>2, <4>3, <5>1, <5>2 DEF Done
      <4> QED BY <1>2, <4>1, <4>2, <4>3
    <3>6. Finished(c)' /\ ~Copying(c)' /\ (Held(c)' => rq[c].op \notin {"put", "move", "copy"})
      BY <1>2, <2>1 DEF Finished, Copying, Held
    <3> QED BY <1>2, <2>1, <3>5, <3>6, GoodFinished
  <2> QED BY <2>2, <2>3, <2>4 DEF Advances
<1>4. CASE result = "other device" /\ rq[c].op = "move"
  <2>1. hp'[c] = "copy" /\ fs' = fs
    BY <1>1, <1>4
  <2>2. Local(c)
    BY <1>1, <1>2, <2>1, LocalStays
  <2>3. todo'[c] = {[from |-> rq[c].src, to |-> goal[c]]} /\ todo'[c] = todo[c]
    BY <1>1, <1>2, <1>4 DEF Around, Progress
  <2>4. Dest(c) = goal[c] /\ Dest(c)' = goal[c] /\ Root(c) = rq[c].src /\ Under(goal[c], goal[c])
    <3>1. Dest(c) = goal[c] /\ Dest(c)' = goal[c] /\ Root(c) = rq[c].src
      BY <1>2, <1>4 DEF Dest, Root
    <3>2. Under(goal[c], goal[c])
      BY <1>2, UnderOrder
    <3> QED BY <3>1, <3>2
  <2>5. Progress(c)'
    <3>1. \A e \in todo'[c] : Under(Dest(c), e.to)
      BY <2>3, <2>4
    <3>2. Under(rq[c].src, goal[c]) /\ rq[c].src # goal[c] =>
            \E e \in todo'[c] : e.from # e.to /\ Under(e.from, e.to)
      BY <2>3
    <3> QED BY <1>1, <1>2, <2>1, <3>1, <3>2, HelperProgress DEF Around
  <2>6. ASSUME ~Disturbed(c)' PROVE Good(c)'
    <3>1. InPlace(c) /\ Kept(c)
      BY <1>2, <2>2, <2>6, WasGood
    <3>2. Held(c) /\ hp[c] # "none" /\ ~Finished(c)' /\ SameFiles(c)
      BY <1>1, <1>2, <1>4, <2>1, SameStays DEF Held, Finished, Around
    <3>3. InPlace(c)' /\ Kept(c)'
      BY <1>2, <3>1, <3>2, InPlaceStays, KeptStays DEF Around
    <3>4. CopyInv(c)'
      BY <1>1, <1>2, <2>3, <2>4, CopyStarts DEF Around
    <3> QED BY <1>2, <1>4, <3>2, <3>3, <3>4 DEF Good, FreeName, FinishedDone
  <2> QED BY <2>2, <2>5, <2>6 DEF Advances
<1>5. CASE result # "ok" /\ ~(result = "other device" /\ rq[c].op = "move")
  <2>1. hp'[c] = "error" /\ fs' = fs
    BY <1>1, <1>5
  <2> QED BY <1>1, <1>2, <2>1, HelperGivesUp
<1> QED BY <1>3, <1>4, <1>5

\* Above what exists there are directories only.
LEMMA AboveExists ==
  ASSUME FilesTyped, NEW p \in Paths, Exists(p), NEW q \in Seq(Names), Under(q, p), Len(q) # 0
  PROVE  q \in Paths /\ Exists(q) /\ (q # p => IsDir(q))
<1>1. p \in Seq(Names) /\ Len(p) \in Nat /\ Len(p) # 0 /\ Len(q) \in Nat /\ Len(q) <= Len(p)
  BY PathFacts DEF Under
<1> DEFINE At(k) == SubSeq(p, 1, Len(p) - k)
<1>2. ASSUME NEW k \in 0 .. Len(p) - 1
      PROVE  /\ At(k) \in Paths /\ At(k) \in Seq(Names) /\ Len(At(k)) = Len(p) - k /\ Len(At(k)) # 0
  <2>1. Len(p) - k \in 0 .. Len(p) /\ Len(p) - k # 0
    BY <1>1
  <2>2. At(k) \in Seq(Names) /\ Len(At(k)) = Len(p) - k /\ Under(At(k), p)
    BY <1>1, <2>1, PrefixUnder
  <2>3. At(k) \in Prefixes(p)
    BY <1>1, <2>1, <2>2, PrefixesAbove
  <2> QED BY <2>1, <2>2, <2>3, PathFacts
<1>3. ASSUME NEW k \in 1 .. Len(p) - 1, Exists(At(k - 1)) PROVE IsDir(At(k))
  <2>1. k - 1 \in 0 .. Len(p) - 1 /\ k \in 0 .. Len(p) - 1
    BY <1>1
  <2>2. PICK a, b : a = At(k - 1) /\ b = At(k)
    OBVIOUS
  <2>3. /\ a \in Paths /\ a \in Seq(Names) /\ Len(a) = Len(p) - (k - 1) /\ Under(a, p)
        /\ b \in Seq(Names) /\ Len(b) = Len(p) - k /\ Len(b) # 0 /\ Under(b, p) /\ Exists(a)
    <3>1. Len(p) - k \in 0 .. Len(p) /\ Len(p) - (k - 1) \in 0 .. Len(p)
      BY <1>1
    <3>2. Under(a, p) /\ Under(b, p)
      BY <1>1, <2>2, <3>1, PrefixUnder
    <3> QED BY <1>2, <1>3, <2>1, <2>2, <3>2
  <2>4. Len(a) # 1 /\ Len(b) = Len(a) - 1 /\ Len(b) <= Len(a) /\ Len(a) # 0 /\ a # b
    BY <1>1, <2>3
  <2>5. Under(b, a)
    BY <1>1, <2>3, <2>4, UnderOrder
  <2>6. Under(b, Parent(a)) /\ Parent(a) \in Seq(Names) /\ Len(Parent(a)) = Len(a) - 1
    BY <2>3, <2>4, <2>5, ParentAbove
  <2>7. b = Parent(a)
    BY <2>3, <2>4, <2>6, UnderOrder
  <2> QED BY <2>2, <2>3, <2>4, <2>7 DEF FilesTyped, ParentIsDir
<1>4. At(0) = p
  <2>1. Len(p) - 0 = Len(p) /\ Len(p) \in 0 .. Len(p)
    BY <1>1
  <2>2. At(0) \in Seq(Names) /\ Len(At(0)) = Len(p) /\ Under(At(0), p)
    BY <1>1, <2>1, PrefixUnder
  <2> QED BY <1>1, <2>2, UnderOrder
<1> DEFINE T == {k \in 0 .. Len(p) - 1 : ~Exists(At(k))}
<1>5. T = {}
  <2> SUFFICES ASSUME T # {} PROVE FALSE
    OBVIOUS
  <2>1. T \in SUBSET Nat
    BY <1>1
  <2>2. PICK i \in T : \A k \in T : i <= k
    BY <2>1, Least
  <2>3. i \in 0 .. Len(p) - 1 /\ ~Exists(At(i))
    BY <2>2
  <2>4. i # 0
    BY <1>4, <2>3
  <2>5. i \in 1 .. Len(p) - 1 /\ i - 1 \in 0 .. Len(p) - 1 /\ ~(i <= i - 1)
    BY <1>1, <2>3, <2>4
  <2>6. Exists(At(i - 1))
    BY <2>2, <2>5
  <2>7. Exists(At(i))
    BY <1>3, <2>5, <2>6, Entry, NamesAssumption
  <2> QED BY <2>3, <2>7
<1>6. PICK m \in 0 .. Len(p) - 1 : m = Len(p) - Len(q)
  <2>1. Len(p) - Len(q) \in 0 .. Len(p) - 1
    BY <1>1
  <2> QED BY <2>1, Zenon
<1>7. Len(p) - m = Len(q)
  BY <1>1, <1>6
<1>8. q = At(m)
  BY <1>7 DEF Under
<1>9. Exists(q) /\ q \in Paths
  BY <1>2, <1>5, <1>8
<1>10. ASSUME q # p PROVE IsDir(q)
  <2>1. m # 0
    BY <1>4, <1>8, <1>10
  <2>2. m \in 1 .. Len(p) - 1 /\ m - 1 \in 0 .. Len(p) - 1
    BY <1>1, <2>1
  <2> QED BY <1>3, <1>5, <1>8, <2>2
<1> QED BY <1>9, <1>10

\* The next path on the way from p down to t.
LEMMA ChildToward ==
  ASSUME NEW N, NEW p \in Seq(N), NEW t \in Seq(N), Under(p, t), p # t
  PROVE  \E q \in Prefixes(t) :
           q \in Seq(N) /\ Len(q) = Len(p) + 1 /\ Under(p, q) /\ Under(q, t)
<1>1. Len(p) \in Nat /\ Len(t) \in Nat /\ Len(p) <= Len(t)
  BY DEF Under
<1>2. Len(p) # Len(t)
  BY UnderOrder
<1>3. Len(p) + 1 \in 0 .. Len(t)
  BY <1>1, <1>2
<1>4. PICK q : q = SubSeq(t, 1, Len(p) + 1)
  OBVIOUS
<1>5. q \in Seq(N) /\ Len(q) = Len(p) + 1 /\ Under(q, t)
  BY <1>3, <1>4, PrefixUnder
<1>6. Len(q) # 0 /\ Len(p) <= Len(q)
  BY <1>1, <1>5
<1>7. Under(p, q) /\ q \in Prefixes(t)
  BY <1>5, <1>6, UnderOrder, PrefixesAbove
<1> QED BY <1>5, <1>7

\* An entry that is still to be visited.
LEMMA Visited ==
  ASSUME ElevationInv, DoneInv, NEW c \in Calls, hp[c] = "copy", NEW e \in todo[c]
  PROVE  /\ e.from \in Paths /\ e.from \in Seq(Names) /\ Len(e.from) # 0 /\ e.to \in Seq(Names)
         /\ Dest(c) \in Seq(Names) /\ Dest(c) \in Reach(c) /\ Under(Dest(c), e.to)
         /\ Within(c, e.to) /\ (rq[c].op # "put" => Root(c) = rq[c].src /\ Dest(c) = goal[c])
<1>1. Running(hp[c])
  BY DEF Running, HelperOver
<1>2. /\ c \in Begun /\ rq[c].dst \in Seq(Names) /\ goal[c] \in Seq(Names)
      /\ rq[c] \in Requests /\ goal[c] \in Destinations(rq[c])
  BY <1>1, HelperRuns
<1>3. e.from \in Paths /\ e.to \in Seq(Names)
  BY <1>1, ToVisit
<1>4. e.from \in Seq(Names) /\ Len(e.from) # 0
  BY <1>3, PathFacts
<1>5. Dest(c) \in Seq(Names) /\ Dest(c) \in Reach(c)
  BY <1>2, GoalIsPath DEF Dest, Reach, Touched, Targets
<1>6. Under(Dest(c), e.to)
  BY <1>2 DEF DoneInv, Progress
<1>7. Within(c, e.to)
  BY <1>5, <1>6 DEF Within
<1>8. rq[c].op # "put" => Root(c) = rq[c].src /\ Dest(c) = goal[c]
  BY DEF Root, Dest
<1> QED BY <1>3, <1>4, <1>5, <1>6, <1>7, <1>8

\* A directory's counterpart is made, and its entries are to be visited.
LEMMA CopyDirAdvances ==
  ASSUME ElevationInv, ElevationInv', DoneInv, NEW c \in Calls, NEW e \in todo[c], CopyDir(c, e),
         UNCHANGED <<at, request>>
  PROVE  Advances(c)
<1> DEFINE result == MkdirResult("root", e.to)
           found == Entries(e.from, Prefixes(e.to))
           inside == {[from |-> q, to |-> Append(e.to, Name(q))] : q \in found}
<1>1. /\ Keeps(c) /\ hp[c] = "copy" /\ Running(hp[c]) /\ CallsTyped /\ cp[c] = NoCopy /\ IsDir(e.from)
      /\ cp' = cp /\ data' = data /\ goal' = goal
      /\ fs' = IF result = "ok" THEN WithDirs(e.to) ELSE fs
      /\ hp'[c] = IF result # "ok" THEN "error" ELSE "copy"
      /\ todo'[c] = (todo[c] \ {e}) \cup inside
  BY CopyDirKeeps, Parts DEF CopyDir, Running, HelperOver, FailIf, Become, CallsTyped
<1>2. /\ Around(c) /\ c \in Begun /\ Own(c) /\ Quiet(c) /\ ~Finished(c)
      /\ rq'[c] = rq[c] /\ goal'[c] = goal[c]
      /\ at'[c] = at[c] /\ at[c] \in {"waiting", "gone"} /\ rq[c].op \in {"put", "move", "copy"}
  BY <1>1, HelperWorks DEF FitsOp
<1>3. /\ e.from \in Paths /\ e.from \in Seq(Names) /\ Len(e.from) # 0 /\ e.to \in Seq(Names)
      /\ Dest(c) \in Seq(Names) /\ Dest(c) \in Reach(c) /\ Under(Dest(c), e.to)
      /\ (rq[c].op # "put" => Root(c) = rq[c].src /\ Dest(c) = goal[c])
  BY <1>1, Visited
<1>4. ASSUME NEW q \in found
      PROVE  /\ q \in Paths /\ q \in Seq(Names) /\ Len(q) = Len(e.from) + 1 /\ Under(e.from, q)
             /\ Name(q) \in Names /\ Parent(q) = e.from /\ q # e.from
  <2>1. q \in Paths /\ q \in Seq(Names) /\ Len(q) = Len(e.from) + 1 /\ Under(e.from, q) /\ Len(q) # 0
    BY PathFacts DEF Entries
  <2>2. Name(q) \in Names
    BY <2>1, ParentAndName
  <2>3. /\ Parent(q) \in Seq(Names) /\ Len(Parent(q)) = Len(q) - 1 /\ Len(e.from) \in Nat
        /\ q # e.from
    BY <1>3, <2>1, ParentAbove
  <2>4. Under(e.from, Parent(q))
    BY <1>3, <2>1, <2>3, ParentAbove
  <2>5. Len(e.from) = Len(Parent(q))
    BY <2>1, <2>3
  <2>6. Parent(q) = e.from
    BY <1>3, <2>3, <2>4, <2>5, UnderOrder
  <2> QED BY <2>1, <2>2, <2>3, <2>6
<1>5. ASSUME NEW x \in inside
      PROVE  \E q \in found : /\ x.from = q /\ x.to = Append(e.to, Name(q)) /\ x.to \in Seq(Names)
                              /\ Under(e.to, x.to) /\ Under(Dest(c), x.to)
  <2>1. PICK q \in found : x = [from |-> q, to |-> Append(e.to, Name(q))]
    OBVIOUS
  <2>2. PICK a, b, D : a = Append(e.to, Name(q)) /\ b = e.to /\ D = Dest(c)
    OBVIOUS
  <2>3. a \in Seq(Names) /\ Under(b, a) /\ b \in Seq(Names) /\ D \in Seq(Names) /\ Under(D, b)
    BY <1>3, <1>4, <2>2, AppendUnder
  <2>4. Under(D, a)
    BY <2>3, UnderOrder
  <2> QED BY <2>1, <2>2, <2>3, <2>4
<1>6. ASSUME NEW q \in found PROVE \E x \in inside : x.from = q /\ x.to = Append(e.to, Name(q))
  <2>1. [from |-> q, to |-> Append(e.to, Name(q))] \in inside
    OBVIOUS
  <2> QED BY <2>1
<1> HIDE DEF inside
<1>7. CASE result = "ok"
  <2>1. Overlap(e.to, Dest(c))
    BY <1>3 DEF Overlap
  <2>2. Local(c) /\ SameFiles(c)
    BY <1>1, <1>2, <1>3, <1>7, <2>1, LocalDirs, DirsSame DEF Around
  <2>3. \A x \in todo'[c] : Under(Dest(c), x.to)
    BY <1>1, <1>2, <1>5 DEF Around, Progress
  <2>4. ASSUME rq[c].op # "put", Under(rq[c].src, goal[c]), rq[c].src # goal[c]
        PROVE  \E x \in todo'[c] : x.from # x.to /\ Under(x.from, x.to)
    <3>1. PICK x \in todo[c] : x.from # x.to /\ Under(x.from, x.to)
      BY <1>1, <1>2, <2>4 DEF Around, Progress
    <3>2. CASE x = e
      <4>1. PICK q \in Prefixes(e.to) :
              q \in Seq(Names) /\ Len(q) = Len(e.from) + 1 /\ Under(e.from, q) /\ Under(q, e.to)
        BY <1>3, <3>1, <3>2, ChildToward
      <4>2. q \in found
        BY <1>7, <4>1 DEF Entries, MkdirResult
      <4>3. PICK y \in inside : y.from = q /\ y.to = Append(e.to, Name(q))
        BY <1>6, <4>2
      <4>4. y.to \in Seq(Names) /\ Under(e.to, y.to)
        BY <1>3, <1>4, <4>2, <4>3, AppendUnder
      <4>5. Under(y.from, y.to)
        <5>1. PICK a, b : a = y.to /\ b = e.to
          OBVIOUS
        <5>2. a \in Seq(Names) /\ b \in Seq(Names) /\ Under(q, b) /\ Under(b, a)
          BY <1>3, <4>1, <4>4, <5>1
        <5>3. Under(q, a)
          BY <4>1, <5>2, UnderOrder
        <5> QED BY <4>3, <5>1, <5>3
      <4>6. y.from # y.to
        <5>1. Len(y.to) = Len(e.to) + 1 /\ Len(e.to) \in Nat
          BY <1>3, <1>4, <4>2, <4>3
        <5>2. Len(y.from) <= Len(e.to)
          BY <4>1, <4>3 DEF Under
        <5> QED BY <5>1, <5>2
      <4> QED BY <1>1, <4>3, <4>5, <4>6
    <3> QED BY <1>1, <3>1, <3>2
  <2>5. Progress(c)'
    BY <1>1, <1>2, <1>7, <2>3, <2>4, HelperProgress DEF Around
  <2>6. ASSUME ~Disturbed(c)' PROVE Good(c)'
    <3>1. InPlace(c) /\ Kept(c) /\ CopyInv(c)
      BY <1>2, <2>2, <2>6, WasGood
    <3>2. ~Finished(c)' /\ (Copying(c)' <=> Copying(c)) /\ (Held(c)' => Held(c)) /\ hp[c] # "none"
      <4>1. ~Finished(c)' /\ (Copying(c)' <=> Copying(c)) /\ hp[c] # "none"
        BY <1>1, <1>2, <1>7, QuietReach DEF Finished, Copying
      <4>2. Held(c)' => Held(c)
        BY <1>1, <1>2, <1>7, <4>1 DEF Held
      <4> QED BY <4>1, <4>2
    <3>3. InPlace(c)' /\ Kept(c)'
      BY <1>2, <2>2, <3>1, <3>2, InPlaceStays, KeptStays DEF Around
    <3>4. ASSUME Copying(c) PROVE CopyInv(c)'
      <4>1. /\ ToCopy(c) /\ Held(c) /\ Separate(c)
            /\ \A f \in Sources(c) : Holds(f, f)
        BY <1>1, <1>2, <3>1, <3>4, CopyingApart DEF Held, Kept, CopyInv, Around
      <4>2. /\ Root(c) \in Paths /\ Root(c) \in Seq(Names) /\ Under(Root(c), e.from)
            /\ e.to = Image(c, e.from)
            /\ \A f \in Sources(c) : f \in Paths /\ f \in Seq(Names) /\ Under(Root(c), f)
        BY <1>2, <4>1, ImageFacts, PathFacts DEF Around, ToCopy
      <4>3. /\ Root(c)' = Root(c) /\ Sources(c)' = Sources(c) /\ \A q : Image(c, q)' = Image(c, q)
        BY <1>2, QuietReach
      <4>4. /\ BeingCopied(c)'
            /\ \A f \in Sources(c) :
                 Holds(Image(c, f), f)' \/ \E x \in todo[c] : Under(x.from, f)
        BY <1>1, <1>2, <2>2, <3>1, <3>4, CopyStays DEF Around
      <4>5. ASSUME NEW x \in todo'[c]
            PROVE  Under(Root(c), x.from) /\ x.to = Image(c, x.from)
        <5>1. CASE x \in todo[c]
          BY <4>1, <5>1 DEF ToCopy
        <5>2. CASE x \in inside
          <6>1. PICK q \in found : x.from = q /\ x.to = Append(e.to, Name(q))
            BY <1>5, <5>2
          <6>2. /\ q \in Seq(Names) /\ Under(e.from, q) /\ Parent(q) = e.from
                /\ Len(q) = Len(e.from) + 1 /\ Len(e.from) \in Nat
            BY <1>3, <1>4
          <6>3. Under(Root(c), q)
            BY <1>3, <4>2, <6>2, UnderOrder
          <6>4. q # Root(c)
            BY <4>2, <6>2 DEF Under
          <6>5. Len(Dest(c)) # 0
            BY <1>2, <1>3, RequestFacts, PathFacts, GoalIsPath, HelperRuns, <1>1, EmptySeq DEF Dest
          <6>6. Image(c, q) = Append(Image(c, e.from), Name(q))
            <7>1. PICK D, R : D = Dest(c) /\ R = Root(c)
              OBVIOUS
            <7>2. D \in Seq(Names) /\ R \in Seq(Names) /\ Under(R, q) /\ q # R /\ Len(D) # 0
              BY <1>3, <4>2, <6>3, <6>4, <6>5, <7>1
            <7>3. D \o Rel(R, q) = Append(D \o Rel(R, Parent(q)), Name(q))
              BY <6>2, <7>2, GraftedEntry
            <7> QED BY <6>2, <7>1, <7>3 DEF Image
          <6> QED BY <4>2, <6>1, <6>3, <6>6
        <5> QED BY <1>1, <5>1, <5>2
      <4>6. ASSUME NEW f \in Sources(c), NEW x \in todo[c], Under(x.from, f)
            PROVE  \E y \in todo'[c] : Under(y.from, f)
        <5>1. CASE x = e
          <6>1. f \in Paths /\ f \in Seq(Names) /\ Exists(f) /\ f # e.from
            BY <1>1, <1>2, <4>1, <4>2, Entry, NamesAssumption DEF Holds, Around
          <6>2. PICK q \in Prefixes(f) :
                  q \in Seq(Names) /\ Len(q) = Len(e.from) + 1 /\ Under(e.from, q) /\ Under(q, f)
            BY <1>3, <4>6, <5>1, <6>1, ChildToward
          <6>3. Len(q) # 0
            BY <1>3, <6>2
          <6>4. q \in Paths /\ Exists(q)
            BY <1>2, <6>1, <6>2, <6>3, AboveExists DEF Around
          <6>5. q \in found
            BY <6>2, <6>4 DEF Entries
          <6> QED BY <1>1, <1>6, <6>2, <6>5
        <5> QED BY <1>1, <4>6, <5>1
      <4>7. ToCopy(c)'
        BY <4>3, <4>5 DEF ToCopy, Image
      <4>8. Covered(c)'
        BY <4>3, <4>4, <4>6 DEF Covered
      <4> QED BY <4>4, <4>7, <4>8 DEF CopyInv
    <3>5. CopyInv(c)'
      BY <3>2, <3>4 DEF CopyInv
    <3> QED BY <1>2, <3>2, <3>3, <3>5 DEF Good, FreeName, FinishedDone
  <2> QED BY <2>2, <2>5, <2>6 DEF Advances
<1>8. CASE result # "ok"
  BY <1>1, <1>2, <1>8, HelperGivesUp
<1> QED BY <1>7, <1>8

\* A file's target is created, in the file's place if one is there.
LEMMA CopyFileAdvances ==
  ASSUME ElevationInv, ElevationInv', DoneInv, NEW c \in Calls, NEW e \in todo[c], CopyFile(c, e),
         UNCHANGED <<at, request>>
  PROVE  Advances(c)
<1> DEFINE can == IsFile(e.from) /\ CreateResult("root", e.to) = "ok"
<1>1. /\ Keeps(c) /\ hp[c] = "copy" /\ Running(hp[c]) /\ CallsTyped /\ CopiesTyped
      /\ cp[c] = NoCopy /\ ~IsDir(e.from) /\ goal' = goal
      /\ IF can THEN OpenCopy("root", c, e.from, e.to) ELSE UNCHANGED <<files, cp>>
      /\ hp'[c] = IF ~can THEN "error" ELSE "copy"
      /\ todo'[c] = todo[c] \ {e}
  BY CopyFileKeeps, Parts DEF CopyFile, Running, HelperOver, FailIf, Become, CallsTyped
<1>2. CASE ~can
  BY <1>1, <1>2, HelperGivesUp DEF files
<1>3. CASE can
  <2>1. /\ OpenCopy("root", c, e.from, e.to) /\ Create("root", c, e.to, Empty) /\ hp'[c] = "copy"
        /\ \A d \in Calls \ {c} : cp'[d] = cp[d]
        /\ cp'[c].to = Created("root", c, e.to)
    BY <1>1, <1>3 DEF OpenCopy, CopiesTyped
  <2>2. /\ Around(c) /\ c \in Begun /\ Own(c) /\ Quiet(c) /\ ~Finished(c)
        /\ rq'[c] = rq[c] /\ goal'[c] = goal[c] /\ rq[c] \in Requests
        /\ at'[c] = at[c] /\ at[c] \in {"waiting", "gone"} /\ rq[c].op \in {"put", "move", "copy"}
    BY <1>1, <2>1, HelperWorks DEF FitsOp
  <2>3. /\ e.from \in Paths /\ e.from \in Seq(Names) /\ Len(e.from) # 0 /\ e.to \in Seq(Names)
        /\ Within(c, e.to) /\ e.to \in Paths /\ ParentIsDir(e.to) /\ IsFile(e.from)
    BY <1>1, <1>3, Visited DEF CreateResult
  <2>4. Local(c)
    BY <2>1, <2>2, <2>3, LocalCreate DEF Around
  <2>5. ASSUME e.from # e.to, Under(e.from, e.to) PROVE FALSE
    <3>1. PICK t : t = e.to
      OBVIOUS
    <3>2. t \in Seq(Names) /\ Len(t) \in Nat /\ Len(t) # 0 /\ t \in Paths
      BY <2>3, <3>1, PathFacts
    <3>3. PICK p : p = Parent(t)
      OBVIOUS
    <3>4. p \in Seq(Names) /\ Len(p) = Len(t) - 1 /\ Under(e.from, p)
      BY <2>3, <2>5, <3>1, <3>2, <3>3, ParentAbove
    <3>5. Len(t) # 1
      <4>1. PICK f : f = e.from
        OBVIOUS
      <4>2. f \in Seq(Names) /\ Len(f) # 0 /\ Under(f, p)
        BY <2>3, <3>4, <4>1
      <4>3. Len(f) \in Nat /\ Len(f) <= Len(p)
        BY <4>2 DEF Under
      <4> QED BY <3>2, <3>4, <4>2, <4>3
    <3>6. IsDir(p) /\ p \in Paths /\ Exists(p)
      <4>1. FilesTyped /\ IsDir(p)
        BY <2>2, <2>3, <3>1, <3>3, <3>5 DEF ParentIsDir, Around
      <4>2. p \in Paths /\ fs[p] = Dir
        BY <4>1, Entry
      <4>3. Exists(p)
        BY <4>1, <4>2, Entry, NamesAssumption
      <4> QED BY <4>1, <4>2, <4>3
    <3>7. ASSUME e.from # p PROVE IsDir(e.from)
      <4>1. PICK f : f = e.from
        OBVIOUS
      <4>2. FilesTyped /\ f \in Seq(Names) /\ Under(f, p) /\ Len(f) # 0
        BY <2>2, <2>3, <3>4, <4>1 DEF Around
      <4>3. f # p => IsDir(f)
        BY <3>6, <4>2, AboveExists
      <4> QED BY <3>7, <4>1, <4>3
    <3>8. ~IsDir(e.from)
      BY <1>1
    <3>9. e.from = p
      BY <3>7, <3>8
    <3> QED BY <3>6, <3>8, <3>9
  <2>6. Progress(c)'
    <3>1. \A x \in todo'[c] : Under(Dest(c), x.to)
      BY <1>1, <2>2 DEF Around, Progress
    <3>2. ASSUME rq[c].op # "put", Under(rq[c].src, goal[c]), rq[c].src # goal[c]
          PROVE  \E x \in todo'[c] : x.from # x.to /\ Under(x.from, x.to)
      <4>1. PICK x \in todo[c] : x.from # x.to /\ Under(x.from, x.to)
        BY <1>1, <2>2, <3>2 DEF Around, Progress
      <4> QED BY <1>1, <2>5, <4>1
    <3> QED BY <1>1, <2>1, <2>2, <3>1, <3>2, HelperProgress DEF Around
  <2>7. ASSUME ~Disturbed(c)' PROVE Good(c)'
    <3>1. InPlace(c) /\ Kept(c) /\ CopyInv(c)
      BY <2>2, <2>4, <2>7, WasGood
    <3>2. ~Finished(c)' /\ (Copying(c)' <=> Copying(c))
      BY <1>1, <2>1, <2>2, QuietReach DEF Finished, Copying
    <3>3. CASE Copying(c)
      <4>1. /\ ToCopy(c) /\ Covered(c) /\ Held(c) /\ Separate(c)
            /\ \A f \in Sources(c) : Holds(f, f)
            /\ rq[c].op \in {"move", "copy"} => Exists(rq[c].src)
        BY <1>1, <2>2, <3>1, <3>3, CopyingApart DEF Held, Kept, CopyInv, Around
      <4>2. ASSUME NEW f \in Sources(c)
            PROVE  f = e.from \/ Holds(Image(c, f), f) \/ \E x \in todo'[c] : Under(x.from, f)
        <5>1. f \in Paths /\ Exists(f) /\ f \in Seq(Names)
          BY <2>2, <4>1, ImageFacts, PathFacts, Entry, NamesAssumption DEF Holds, Around
        <5>2. Under(e.from, f) => f = e.from
          BY <1>1, <2>2, <2>3, <5>1, AboveExists DEF Around
        <5> QED BY <1>1, <4>1, <5>2 DEF Covered
      <4>3. \A x \in todo'[c] : Under(Root(c), x.from) /\ x.to = Image(c, x.from)
        BY <1>1, <4>1 DEF ToCopy
      <4>4. Under(Root(c), e.from) /\ e.to = Image(c, e.from)
        BY <4>1 DEF ToCopy
      <4>5. PICK s, d : s = e.from /\ d = e.to
        OBVIOUS
      <4>6. /\ s \in Paths /\ IsFile(s) /\ Under(Root(c), s) /\ d \in Paths /\ d = Image(c, s)
            /\ OpenCopy("root", c, s, d) /\ "root" \in Users
        BY <2>1, <2>3, <4>4, <4>5 DEF Users
      <4>7. \A f \in Sources(c) :
              f = s \/ Holds(Image(c, f), f) \/ \E x \in todo'[c] : Under(x.from, f)
        BY <4>2, <4>5
      <4> QED BY <2>2, <3>1, <3>2, <4>1, <4>3, <4>6, <4>7, GoodOpened DEF Around
    <3>4. CASE ~Copying(c)
      <4>1. rq[c].op # "put"
        <5>1. ~Overlap(rq[c].dst, Tmp(c))
          BY <2>2, RequestFacts
        <5> QED BY <1>1, <3>4, <5>1 DEF Copying, Root, Dest, Overlap
      <4>2. InPlace(c)'
        BY <2>1, <2>2, <2>3, <3>1, CreatedHere DEF Around, Users
      <4>3. ~Held(c)' /\ ~Copying(c)' /\ rq'[c].op # "rename"
        BY <2>1, <2>2, <3>2, <3>4, <4>1 DEF Held
      <4> QED BY <3>2, <4>2, <4>3 DEF Good, Kept, CopyInv, FreeName, FinishedDone
    <3> QED BY <3>3, <3>4
  <2> QED BY <2>4, <2>6, <2>7 DEF Advances
<1> QED BY <1>2, <1>3

\* A chunk of it is written, or cannot be.
LEMMA WriteFileAdvances ==
  ASSUME ElevationInv, ElevationInv', DoneInv, NEW c \in Calls, WriteFile(c), UNCHANGED <<at, request>>
  PROVE  Advances(c)
<1>1. /\ Keeps(c) /\ hp[c] = "copy" /\ Running(hp[c]) /\ CallsTyped /\ CopiesTyped
      /\ cp[c] # NoCopy /\ fs' = fs /\ goal' = goal /\ todo' = todo
  BY WriteFileKeeps, Parts DEF WriteFile, Running, HelperOver
<1>2. CASE CopyChunk(c) /\ UNCHANGED <<hp, faults>>
  <2>1. hp'[c] = "copy" /\ \A d \in Calls \ {c} : cp'[d] = cp[d]
    BY <1>1, <1>2 DEF CopyChunk, CopiesTyped
  <2>2. /\ Around(c) /\ c \in Begun /\ Own(c) /\ Quiet(c) /\ ~Finished(c)
        /\ rq'[c] = rq[c] /\ goal'[c] = goal[c] /\ todo'[c] = todo[c]
        /\ at'[c] = at[c] /\ at[c] \in {"waiting", "gone"} /\ rq[c].op \in {"put", "move", "copy"}
    BY <1>1, <2>1, HelperWorks DEF FitsOp
  <2>3. Local(c)
    BY <1>1, <1>2, <2>2, LocalChunk
  <2>4. Progress(c)'
    <3>1. \A x \in todo'[c] : Under(Dest(c), x.to)
      BY <1>1, <2>2 DEF Around, Progress
    <3>2. rq[c].op # "put" /\ Under(rq[c].src, goal[c]) /\ rq[c].src # goal[c] =>
            \E x \in todo'[c] : x.from # x.to /\ Under(x.from, x.to)
      BY <1>1, <2>2 DEF Around, Progress
    <3> QED BY <2>1, <2>2, <3>1, <3>2, HelperProgress DEF Around
  <2>5. ASSUME ~Disturbed(c)' PROVE Good(c)'
    <3>1. Good(c) /\ InPlace(c)
      BY <2>2, <2>3, <2>5, WasGood
    <3>2. ~Finished(c)' /\ (Copying(c)' <=> Copying(c))
      BY <1>1, <2>1, <2>2, QuietReach DEF Finished, Copying
    <3>3. CASE Copying(c)
      <4>1. Held(c)
        BY <1>1, <2>2, <3>3 DEF Held
      <4> QED BY <1>1, <1>2, <2>1, <2>2, <3>1, <3>2, <3>3, <4>1, GoodChunk DEF Around
    <3>4. CASE ~Copying(c)
      <4>1. rq[c].op # "put"
        <5>1. ~Overlap(rq[c].dst, Tmp(c))
          BY <2>2, HelperWorks, <1>1, <2>1, RequestFacts
        <5> QED BY <1>1, <3>4, <5>1 DEF Copying, Root, Dest, Overlap
      <4>2. ~Held(c)' /\ ~Copying(c)'
        BY <2>1, <2>2, <3>2, <3>4, <4>1 DEF Held
      <4> QED BY <1>1, <2>1, <2>2, <3>1, <3>2, <4>2, GoodGivenUp DEF Around
    <3> QED BY <3>3, <3>4
  <2> QED BY <2>3, <2>4, <2>5 DEF Advances
<1>3. CASE Become(c, "error") /\ cp' = [cp EXCEPT ![c] = NoCopy] /\ UNCHANGED data
  <2>1. hp'[c] = "error" /\ cp'[c] = NoCopy /\ \A d \in Calls \ {c} : cp'[d] = cp[d]
    BY <1>1, <1>3 DEF Become, CallsTyped, CopiesTyped
  <2> QED BY <1>1, <1>3, <2>1, HelperGivesUp
<1> QED BY <1>2, <1>3 DEF WriteFile

\* What a move or a copy has to take has been copied.
LEMMA CopiedThere ==
  ASSUME NEW c \in Begun, Around(c), hp[c] = "copy", cp[c] = NoCopy, todo[c] = {},
         rq[c].op \in {"move", "copy"}, ~OntoItself(c), Kept(c), CopyInv(c)
  PROVE  /\ Exists(rq[c].src)
         /\ \A f \in InitFiles : Under(rq[c].src, f) =>
              \E p : /\ p = goal[c] \o Rel(rq[c].src, f) /\ Holds(p, f)
                    /\ Within(c, p) /\ ~Under(rq[c].src, p)
<1>1. Copying(c)
  <2>1. ~Under(goal[c], rq[c].src)
    BY DEF OntoItself
  <2>2. Under(rq[c].src, goal[c]) => rq[c].src = goal[c]
    BY DEF Around, Progress
  <2>3. ~Under(rq[c].src, goal[c])
    BY <2>1, <2>2
  <2> QED BY <2>1, <2>3 DEF Copying, Root, Dest, Overlap
<1>2. Exists(rq[c].src) /\ Covered(c) /\ Separate(c)
  BY <1>1, CopyingApart DEF Held, Kept, CopyInv, Around
<1>3. Root(c) = rq[c].src /\ Dest(c) = goal[c]
  BY DEF Root, Dest
<1>4. ASSUME NEW f \in InitFiles, Under(rq[c].src, f)
      PROVE  \E p : /\ p = goal[c] \o Rel(rq[c].src, f) /\ Holds(p, f)
                    /\ Within(c, p) /\ ~Under(rq[c].src, p)
  <2>1. f \in Sources(c) /\ f \in Paths /\ f \in Seq(Names)
    BY <1>4, TreeAssumption, PathFacts DEF Sources
  <2>2. Holds(Image(c, f), f)
    BY <1>2, <2>1 DEF Covered
  <2>3. ~Under(Root(c), Image(c, f)) /\ Within(c, Image(c, f))
    BY <1>2, <1>3, <1>4, <2>1, ImageFacts DEF Around
  <2> QED BY <1>3, <2>2, <2>3 DEF Image
<1> QED BY <1>2, <1>4

\* All is copied.
LEMMA CopiedAdvances ==
  ASSUME ElevationInv, ElevationInv', DoneInv, NEW c \in Calls, Copied(c), UNCHANGED <<at, request>>
  PROVE  Advances(c)
<1>1. /\ Keeps(c) /\ hp[c] = "copy" /\ Running(hp[c]) /\ CallsTyped
      /\ cp[c] = NoCopy /\ todo[c] = {} /\ data' = data /\ goal' = goal /\ cp' = cp /\ todo' = todo
  BY CopiedKeeps, Parts DEF Copied, Running, HelperOver
<1>2. PICK place : hp'[c] = place
  OBVIOUS
<1>3. /\ Around(c) /\ c \in Begun /\ Own(c) /\ Quiet(c) /\ ~Finished(c)
      /\ rq'[c] = rq[c] /\ goal'[c] = goal[c] /\ rq[c] \in Requests
      /\ at'[c] = at[c] /\ at[c] \in {"waiting", "gone"} /\ rq[c].op \in {"put", "move", "copy"}
      /\ rq[c].src \in Paths /\ rq[c].dst \in Paths /\ goal[c] \in Seq(Names)
      /\ Within(c, Tmp(c)) /\ \A q : Under(rq[c].src, q) => Within(c, q)
  BY <1>1, <1>2, HelperWorks DEF FitsOp
<1>4. ASSUME hp'[c] = "ok", \A q \in Paths : fs'[q] = fs[q] \/ (fs'[q] = None /\ Within(c, q)),
             ~Disturbed(c)' => OntoItself(c)' \/ Done(c)'
      PROVE  Advances(c)
  <2>1. Local(c)
    BY <1>1, <1>3, <1>4, LocalGone
  <2>2. Progress(c)'
    BY <1>1, <1>3, <1>4, HelperProgress DEF Around
  <2>3. ASSUME ~Disturbed(c)' PROVE Good(c)'
    <3>1. Finished(c)' /\ ~Copying(c)' /\ ~Held(c)'
      BY <1>3, <1>4 DEF Finished, Copying, Held
    <3> QED BY <1>3, <1>4, <2>3, <3>1, GoodFinished
  <2> QED BY <2>1, <2>2, <2>3 DEF Advances
<1>5. CASE rq[c].op = "put" /\ DropTmp(c) /\ Become(c, "ok")
  <2>1. hp'[c] = "ok" /\ Tmp(c) \in Paths
    BY <1>1, <1>5, TmpFacts DEF Become, CallsTyped
  <2>2. \A q \in Paths : fs'[q] = IF q = Tmp(c) THEN None ELSE fs[q]
    BY <1>3, <1>5, <2>1 DEF DropTmp, Around, FilesTyped
  <2>3. Local(c)
    BY <1>1, <1>3, <2>2, LocalGone
  <2>4. ASSUME ~Disturbed(c)' PROVE Done(c)'
    <3>1. ~Overlap(rq[c].dst, Tmp(c))
      BY <1>3, RequestFacts
    <3>2. Copying(c)
      BY <1>1, <1>5, <3>1 DEF Copying, Root, Dest, Overlap
    <3>3. Covered(c)
      BY <1>3, <2>3, <2>4, <3>2, WasGood DEF CopyInv
    <3>4. PICK d : d = rq[c].dst
      OBVIOUS
    <3>5. Holds(d, Tmp(c))
      BY <1>1, <1>3, <1>5, <3>3, <3>4, PutImage DEF Covered
    <3>6. d # Tmp(c)
      BY <1>3, <3>1, <3>4, PathFacts, UnderOrder DEF Overlap
    <3>7. IsFile(d)' /\ fs'[d] = fs[d]
      BY <1>3, <2>2, <3>5, <3>6, Entry, EntryNext DEF Around, Holds
    <3>8. Holds(d, Tmp(c))'
      BY <1>1, <3>5, <3>7 DEF Holds
    <3> QED BY <1>3, <1>5, <3>4, <3>8 DEF Done
  <2> QED BY <1>3, <1>4, <2>1, <2>2, <2>4
<1>6. ASSUME rq[c].op \in {"move", "copy"}, ~OntoItself(c), Local(c), ~Disturbed(c)'
      PROVE  /\ Exists(rq[c].src)
             /\ \A f \in InitFiles : Under(rq[c].src, f) =>
                  \E p : p = goal[c] \o Rel(rq[c].src, f) /\ Holds(p, f) /\ ~Under(rq[c].src, p)
  <2>1. Kept(c) /\ CopyInv(c)
    BY <1>3, <1>6, WasGood
  <2> QED BY <1>1, <1>3, <1>6, <2>1, CopiedThere
<1>7. CASE rq[c].op = "copy" /\ Become(c, "ok") /\ UNCHANGED fs
  <2>1. hp'[c] = "ok" /\ fs' = fs
    BY <1>1, <1>7 DEF Become, CallsTyped
  <2>2. Local(c)
    BY <1>1, <1>3, <2>1, LocalGone
  <2>3. ASSUME ~Disturbed(c)', ~OntoItself(c)' PROVE Done(c)'
    <3>1. ~OntoItself(c)
      BY <1>3, <2>3 DEF OntoItself
    <3>2. PICK s, g : s = rq[c].src /\ g = goal[c]
      OBVIOUS
    <3>3. Exists(s) /\ \A f \in InitFiles : Under(s, f) => Holds(g \o Rel(s, f), f)
      BY <1>6, <1>7, <2>2, <2>3, <3>1, <3>2
    <3>4. Exists(s)' /\ \A f \in InitFiles : Under(s, f) => Holds(g \o Rel(s, f), f)'
      BY <1>1, <2>1, <3>3 DEF Exists, Holds, IsFile
    <3> QED BY <1>3, <1>7, <3>2, <3>4 DEF Done
  <2> QED BY <1>3, <1>4, <2>1, <2>3
<1>8. CASE rq[c].op = "move" /\ RemoveSource(c)
  <2>1. PICK s, g : s = rq[c].src /\ g = goal[c]
    OBVIOUS
  <2>2. CASE /\ \A q \in Paths : fs'[q] = fs[q] \/ (fs'[q] = None /\ Under(s, q))
             /\ place \in {"error", "killed"}
    BY <1>1, <1>2, <1>3, <2>1, <2>2, HelperGivesUp
  <2>3. CASE /\ \A q \in Paths : fs'[q] = IF Under(s, q) THEN None ELSE fs[q]
             /\ place = "ok"
    <3>1. \A q \in Paths : fs'[q] = fs[q] \/ (fs'[q] = None /\ Within(c, q))
      BY <1>3, <2>1, <2>3
    <3>2. Local(c)
      BY <1>1, <1>3, <3>1, LocalGone
    <3>3. ASSUME ~Disturbed(c)', ~OntoItself(c)' PROVE Done(c)'
      <4>1. ~OntoItself(c)
        BY <1>3, <3>3 DEF OntoItself
      <4>2. \A f \in InitFiles : Under(s, f) =>
              \E p : p = g \o Rel(s, f) /\ Holds(p, f) /\ ~Under(s, p)
        BY <1>6, <1>8, <2>1, <3>2, <3>3, <4>1
      <4>3. ASSUME NEW f \in InitFiles, Under(s, f) PROVE Holds(g \o Rel(s, f), f)'
        <5>1. PICK p : p = g \o Rel(s, f) /\ Holds(p, f) /\ ~Under(s, p)
          BY <4>2, <4>3
        <5>2. p \in Paths /\ fs[p] \in Inodes /\ data[fs[p]] = Whole(f)
          BY <1>3, <5>1, Entry DEF Holds, Around
        <5>3. fs'[p] = fs[p]
          BY <2>3, <5>1, <5>2
        <5>4. IsFile(p)'
          BY <1>3, <5>2, <5>3, EntryNext DEF Around
        <5>5. Holds(p, f)'
          BY <1>1, <5>2, <5>3, <5>4 DEF Holds
        <5> QED BY <5>1, <5>5
      <4>4. ~Exists(s)'
        <5>1. s \in Paths /\ Under(s, s)
          BY <1>3, <2>1, PathFacts, UnderOrder
        <5>2. fs'[s] = None
          BY <2>3, <5>1
        <5> QED BY <1>3, <5>1, <5>2, EntryNext DEF Around
      <4> QED BY <1>3, <1>8, <2>1, <4>3, <4>4 DEF Done
    <3> QED BY <1>2, <1>3, <1>4, <2>3, <3>1, <3>3
  <2> QED BY <1>1, <1>2, <1>8, <2>1, <2>2, <2>3, SourceGoes
<1> QED BY <1>5, <1>7, <1>8 DEF Copied

\* It dies on the way.
LEMMA KilledAdvances ==
  ASSUME ElevationInv, ElevationInv', DoneInv, NEW c \in Calls, Killed(c)
  PROVE  Advances(c)
<1>1. /\ Keeps(c) /\ Running(hp[c]) /\ CallsTyped /\ CopiesTyped
      /\ Become(c, "killed") /\ cp' = [cp EXCEPT ![c] = NoCopy]
      /\ fs' = fs /\ data' = data /\ at' = at /\ UNCHANGED <<request, goal, todo>>
  BY KilledKeeps, Parts DEF Killed, Running, files
<1>2. /\ hp'[c] = "killed" /\ cp'[c] = NoCopy /\ \A e \in Calls \ {c} : cp'[e] = cp[e]
  BY <1>1 DEF Become, CallsTyped, CopiesTyped
<1>3. c \in Begun /\ at[c] \in {"waiting", "gone"} /\ hp[c] # "ok"
  BY <1>1, HelperRuns DEF Running, HelperOver
<1> QED BY <1>1, <1>2, <1>3, StopAdvances

---------------------------------------------------------------------------
\* The specification.

\* The daemon restarts: its handlers are gone, and their helpers go on or not.
LEMMA RestartDone ==
  ASSUME ElevationInv, ElevationInv', DoneInv, Restart
  PROVE  DoneInv'
<1> DEFINE cut(c) == at[c] \notin Over \cup {"idle"}
<1>1. PICK K \in {{}, {c \in Calls : Running(hp[c])}} :
        /\ hp' = [c \in Calls |-> IF c \in K THEN "killed" ELSE hp[c]]
        /\ cp' = [c \in Calls |-> IF c \in K \/ at[c] = "copying" THEN NoCopy ELSE cp[c]]
  BY DEF Restart, Running
<1>2. /\ at' = [c \in Calls |-> IF cut(c) THEN "gone" ELSE at[c]]
      /\ fs' = fs /\ data' = data /\ rq' = rq /\ final' = final /\ goal' = goal /\ todo' = todo
  BY DEF Restart, files, request
<1>3. /\ FilesTyped /\ FilesTyped' /\ CallsTyped
      /\ \A c \in Calls : CallInv(c) /\ Progress(c)
  BY Parts DEF DoneInv, ElevationInv, TypeOK, FilesTyped
<1>4. ASSUME NEW c \in Calls
      PROVE  /\ at'[c] = at[c] \/ (at[c] \notin Over \cup {"idle"} /\ at'[c] = "gone")
             /\ hp'[c] = hp[c] \/ (Running(hp[c]) /\ hp'[c] = "killed")
             /\ cp'[c] = cp[c] \/ cp'[c] = NoCopy
             /\ at'[c] # "copying" \/ cp'[c] = NoCopy
             /\ hp'[c] = "killed" /\ hp[c] # "killed" => cp'[c] = NoCopy
             /\ hp'[c] = "copy" /\ at[c] # "copying" => cp'[c] = cp[c]
             /\ at'[c] # "copying" /\ (at[c] = "copying" => cp'[c] = NoCopy)
  BY <1>1, <1>2, <1>4 DEF Running, HelperOver, Over, Answers
<1>5. Begun' = Begun
  BY <1>4 DEF Begun, Over
<1>6. /\ \A c : Touched(c)' = Touched(c) /\ Reach(c)' = Reach(c)
      /\ \A c, q : Within(c, q)' <=> Within(c, q)
      /\ \A c : Disturbed(c)' <=> Disturbed(c)
  BY <1>2, <1>5 DEF Touched, Targets, Reach, Within, Disturbed, Meet
<1>7. FilesPlaced' /\ OutOfReach'
  BY <1>2, <1>5, <1>6 DEF DoneInv, FilesPlaced, OutOfReach, Original, Traced, Holds, IsFile
<1>8. CopiesTraced'
  <2> SUFFICES ASSUME NEW c \in Calls, cp'[c] # NoCopy PROVE Traced(cp[c].to)'
    BY DEF CopiesTraced, NoCopy
  <2>1. cp'[c] = cp[c] /\ Traced(cp[c].to)
    BY <1>4 DEF DoneInv, CopiesTraced
  <2> QED BY <1>5, <1>6, <2>1 DEF Traced
<1>9. ASSUME NEW c \in Calls PROVE Progress(c)'
  <2>1. CallInv(c) /\ Progress(c) /\ (c \in Begun' <=> c \in Begun) /\ Touched(c)' = Touched(c)
    BY <1>3, <1>5, <1>6
  <2>2. at'[c] = "ok" => at[c] = "ok" /\ hp'[c] = hp[c]
    BY <1>4, <2>1 DEF CallInv
  <2>3. cp'[c] # NoCopy => hp'[c] = "copy"
    BY <1>4, <2>1 DEF Progress
  <2> QED BY <1>2, <1>4, <2>1, <2>2, <2>3 DEF Progress, Succeeded, Dest
<1>10. ASSUME NEW c \in Begun, ~Disturbed(c) PROVE OwnFiles(c)' /\ Good(c)'
  <2>1. c \in Calls /\ OwnFiles(c) /\ Good(c) /\ Quiet(c) /\ Same(c)
    BY <1>2, <1>3, <1>10, SameStays DEF DoneInv, Begun, Quiet
  <2>2. OwnFiles(c)'
    <3>1. \A i : Mine(c, i)' <=> Mine(c, i)
      BY <1>6 DEF Mine
    <3>2. \A q \in Paths : IsFile(q)' => (Mine(c, fs[q]) <=> Within(c, q))'
      BY <1>2, <1>6, <2>1 DEF OwnFiles, IsFile, Mine
    <3>3. ASSUME NEW d \in Calls \ {c}, cp'[d] # NoCopy PROVE ~Mine(c, cp[d].to)'
      <4>1. cp'[d] = cp[d] /\ ~Mine(c, cp[d].to)
        BY <1>4, <2>1, <3>3 DEF OwnFiles
      <4> QED BY <1>6, <4>1 DEF Mine
    <3> QED BY <3>2, <3>3 DEF OwnFiles, NoCopy
  <2>3. Finished(c)' <=> Finished(c)
    BY <1>3, <1>4, <2>1 DEF Finished, CallInv, Running, HelperOver, Over, Answers
  <2>4. Copying(c)' => Copying(c) /\ todo'[c] = todo[c] /\ cp'[c] = cp[c]
    <3>1. Root(c)' = Root(c) /\ Dest(c)' = Dest(c)
      BY <1>2 DEF Root, Dest
    <3>2. hp'[c] = "copy" => hp[c] = "copy" /\ at[c] # "copying"
      BY <1>3, <1>4, <2>1 DEF CallInv, Over, Answers
    <3> QED BY <1>2, <1>4, <2>1, <3>1, <3>2 DEF Copying
  <2>5. Held(c)' => Held(c) /\ (hp'[c] # "none" => hp[c] # "none")
    <3>1. CASE rq[c].op = "put"
      BY <1>2, <1>4, <2>1, <3>1 DEF Held, Running
    <3>2. CASE rq[c].op # "put"
      <4>1. Held(c)' => hp'[c] \in {"none", "sudo", "check", "rename"} \/ Copying(c)'
        BY <1>2, <3>2 DEF Held
      <4>2. hp'[c] \in {"none", "sudo", "check", "rename"} => Held(c) /\ hp'[c] = hp[c]
        BY <1>4, <2>1, <3>2 DEF Held
      <4>3. Copying(c)' => Held(c)
        BY <2>4, <3>2 DEF Held
      <4> QED BY <1>4, <2>1, <4>1, <4>2, <4>3 DEF Running
    <3> QED BY <3>1, <3>2
  <2>6. at'[c] = "rename" \/ hp'[c] = "rename" => at[c] = "rename" \/ hp[c] = "rename"
    BY <1>4, <2>1
  <2>7. Good(c)'
    BY <1>3, <2>1, <2>3, <2>4, <2>5, <2>6, GoodStays DEF Later
  <2> QED BY <2>2, <2>7
<1> QED BY <1>5, <1>6, <1>7, <1>8, <1>9, <1>10 DEF DoneInv

LEMMA InitDone == Init => DoneInv
<1> SUFFICES ASSUME Init PROVE DoneInv
  OBVIOUS
<1>1. Begun = {} /\ \A c \in Calls : Progress(c) /\ cp[c] = NoCopy
  BY DEF Init, Begun, Progress
<1>2. /\ FilesTyped /\ \A q \in Paths : fs[q] = IF q \in InitDirs THEN Dir
                                               ELSE IF q \in InitFiles THEN Start(q) ELSE None
      /\ data = [i \in {Start(p) : p \in InitFiles} |-> Whole(i.path)]
  BY InitKeeps, Parts DEF Init
<1>3. \A q : Start(q).call = 0 /\ Start(q).path = q
  BY DEF Start
<1>4. \A q \in InitFiles : q \in Paths /\ q \notin InitDirs
  BY TreeAssumption
<1>5. FilesPlaced
  <2>1. ASSUME NEW q \in Paths, IsFile(q) PROVE Original(q)
    <3>1. fs[q] = Start(q)
      BY <1>2, <2>1 DEF IsFile
    <3> QED BY <1>3, <3>1 DEF Original
  <2> QED BY <2>1 DEF FilesPlaced
<1>6. OutOfReach
  <2>1. ASSUME NEW f \in InitFiles PROVE Holds(f, f)
    <3>1. PICK i : i = Start(f)
      OBVIOUS
    <3>2. fs[f] = i /\ i \in Inodes /\ data[i] = Whole(i.path) /\ i.path = f
      <4>1. fs[f] = i /\ data[i] = Whole(i.path) /\ i.path = f
        BY <1>2, <1>3, <1>4, <3>1
      <4>2. i \in Inodes
        BY <1>4, <3>1 DEF Start, Inodes, Users
      <4> QED BY <4>1, <4>2
    <3>3. IsFile(f)
      BY <1>2, <1>4, <3>2, Entry
    <3> QED BY <3>2, <3>3 DEF Holds
  <2> QED BY <2>1 DEF OutOfReach
<1> QED BY <1>1, <1>5, <1>6 DEF DoneInv, CopiesTraced

\* The steps of one call, and what they all do.
Step(c) ==
  \/ \E r \in Requests : Arrive(c, r)
  \/ Handler(c) \/ PutBody(c) \/ Helper(c) \/ Abort(c) \/ Killed(c)

LEMMA StepAdvances ==
  ASSUME ElevationInv, ElevationInv', DoneInv, NEW c \in Calls, Step(c)
  PROVE  Advances(c)
<1>1. ASSUME NEW r \in Requests, Arrive(c, r) PROVE Advances(c)
  BY <1>1, ArriveAdvances
<1>2. CASE Handler(c) \/ PutBody(c) \/ Abort(c) \/ Killed(c)
  BY <1>2, PutCreateAdvances, PutBodyAdvances, PutParentAdvances, PutPlaceAdvances,
     PutCreateTargetAdvances, PutCopyAdvances, MkdirAdvances, RenameCheckAdvances,
     RenameAdvances, DeleteAdvances, MoveCheckAdvances, CollectAdvances, AbortAdvances,
     KilledAdvances DEF Handler
<1>3. CASE Helper(c)
  <2>1. UNCHANGED <<at, request>> /\ \A e \in Deepest(todo[c]) : e \in todo[c]
    BY <1>3 DEF Helper, Deepest
  <2> QED BY <1>3, <2>1, SudoStepAdvances, HelperMkdirAdvances, HelperDeleteAdvances,
             HelperParentAdvances, HelperRenameCheckAdvances, HelperMoveCheckAdvances,
             HelperRenameAdvances, CopyDirAdvances, CopyFileAdvances, WriteFileAdvances,
             CopiedAdvances DEF Helper
<1> QED BY <1>1, <1>2, <1>3 DEF Step

LEMMA NextDone == ElevationInv /\ ElevationInv' /\ DoneInv /\ [Next]_vars => DoneInv'
<1> SUFFICES ASSUME ElevationInv, ElevationInv', DoneInv, [Next]_vars PROVE DoneInv'
  OBVIOUS
<1>1. ASSUME NEW c \in Calls, Step(c) PROVE DoneInv'
  BY <1>1, StepAdvances, AdvanceKeeps
<1>2. CASE Restart
  BY <1>2, RestartDone
<1>3. CASE UNCHANGED vars
  <2>1. /\ fs' = fs /\ data' = data /\ at' = at /\ rq' = rq /\ final' = final
        /\ hp' = hp /\ goal' = goal /\ todo' = todo /\ cp' = cp
    BY <1>3 DEF vars
  <2>2. /\ Begun' = Begun /\ \A c : Touched(c)' = Touched(c) /\ Reach(c)' = Reach(c)
        /\ \A c, q : Within(c, q)' <=> Within(c, q)
    BY <2>1 DEF Begun, Touched, Targets, Reach, Within
  <2>3. /\ \A q : IsFile(q)' <=> IsFile(q)
        /\ \A q : Exists(q)' <=> Exists(q)
        /\ \A q : IsDir(q)' <=> IsDir(q)
        /\ \A q, b : Holds(q, b)' <=> Holds(q, b)
    BY <2>1 DEF IsFile, IsDir, Exists, Holds
  <2>4. FilesPlaced' /\ CopiesTraced' /\ OutOfReach'
    BY <2>1, <2>2, <2>3 DEF DoneInv, FilesPlaced, CopiesTraced, OutOfReach, Original, Traced
  <2>5. ASSUME NEW c \in Calls PROVE Progress(c)'
    BY <2>1, <2>2 DEF DoneInv, Progress, Succeeded, Dest
  <2>6. \A c \in Begun : ~Disturbed(c)' => ~Disturbed(c)
    BY <2>2 DEF Disturbed, Meet
  <2>7. ASSUME NEW c \in Begun, ~Disturbed(c) PROVE OwnFiles(c)' /\ Good(c)'
    <3>1. c \in Calls /\ CallInv(c) /\ Progress(c) /\ FilesTyped /\ FilesTyped'
      BY Parts DEF Begun, DoneInv, ElevationInv, TypeOK, FilesTyped
    <3>2. OwnFiles(c) /\ Good(c) /\ Quiet(c) /\ Same(c)
      BY <2>1, <2>7, <3>1, SameStays DEF DoneInv, Quiet
    <3>3. OwnFiles(c)'
      BY <2>1, <2>2, <2>3, <3>2 DEF OwnFiles, Mine
    <3>4. Root(c)' = Root(c) /\ Dest(c)' = Dest(c)
      BY <2>1 DEF Root, Dest
    <3>5. (Finished(c)' <=> Finished(c)) /\ (Copying(c)' <=> Copying(c)) /\ (Held(c)' <=> Held(c))
      BY <2>1, <3>4 DEF Finished, Copying, Held
    <3> QED BY <2>1, <3>1, <3>2, <3>3, <3>5, GoodStays DEF Later
  <2> QED BY <2>2, <2>4, <2>5, <2>6, <2>7 DEF DoneInv
<1> QED BY <1>1, <1>2, <1>3 DEF Next, Step

\* What calls that nobody disturbs have read, copied and put in place is theirs
\* from their arrival to their answer and after, in the daemon's handlers and
\* in the helper, whatever fails on the way.
THEOREM ElevationDoneInvariant == Spec => []DoneInv
<1>1. Init => ElevationInv /\ DoneInv
  BY InitKeeps, InitDone
<1>2. ElevationInv /\ DoneInv /\ [Next]_vars => ElevationInv' /\ DoneInv'
  BY NextKeeps, NextDone
<1> QED BY <1>1, <1>2, PTL DEF Spec

\* Success is answered for what was done, at the path the answer names: by the
\* handlers themselves (handle_put, handle_mkdir, handle_rename), and for a
\* helper's exit (sudo_run) but for the two cases in which it exits with 0
\* after a failure, and the one in which it resolves the destination to the
\* source or above it.
THEOREM OkTold == Spec => []OkMeansDone
<1>1. ElevationInv /\ DoneInv => OkMeansDone
  <2> SUFFICES ASSUME ElevationInv, DoneInv, NEW c \in Begun,
                      at[c] = "ok", ~ToldWrongly(c), ~OntoItself(c), ~Disturbed(c)
               PROVE  Done(c)
    BY DEF OkMeansDone
  <2>1. c \in Calls /\ CallInv(c) /\ Progress(c) /\ Good(c)
    BY Parts DEF DoneInv, Begun
  <2>2. hp[c] # "none" => hp[c] = "ok"
    BY <2>1 DEF Progress, Succeeded, ToldWrongly, CallInv, FitsOp
  <2>3. Finished(c)
    BY <2>2 DEF Finished
  <2> QED BY <2>1, <2>3 DEF Good, FinishedDone
<1> QED BY <1>1, ElevationInvariant, ElevationDoneInvariant, PTL

\* A file that no request names, directly or by a directory above it or a
\* destination that its request can resolve to, stays whole at its path: the
\* temp files, the numbered names (free_dst) and the directories made on the
\* way (create_dir_all) touch nothing else, also as root.
THEOREM FilesOutOfReach == Spec => []OutOfReach
<1>1. DoneInv => OutOfReach
  BY DEF DoneInv
<1> QED BY <1>1, ElevationDoneInvariant, PTL

---------------------------------------------------------------------------
\* What becomes of the files that a call is not to replace.

\* Also replaced is what has the last number, when all are taken (free_dst).
Overwrites(c, f) ==
  Replaces(c, f) \/ (rq[c].strategy = "rename" /\ hp[c] # "none" /\ Under(goal[c], f))

\* Until a move or a copy has settled its destination nothing has changed; where
\* it then puts something, there is nothing but what it is to replace; a copy
\* writes there only.
NothingYet(c) ==
  rq[c].op \in {"move", "copy"} /\ hp[c] \in {"none", "sudo", "check"} =>
    \A f \in InitFiles : Within(c, f) => Holds(f, f)
GoalChecked(c) ==
  rq[c].op \in {"move", "copy"} /\ hp[c] \in {"rename", "copy"} =>
    \A f \in InitFiles : Under(goal[c], f) => Overwrites(c, f)
WritesThere(c) ==
  cp[c] # NoCopy =>
    IF rq[c].op = "put" THEN cp[c].to.path = rq[c].dst ELSE Under(goal[c], cp[c].to.path)

\* A call that has succeeded, or whose helper failed in a move: its source may
\* be gone, or part of it.
Ended(c) == Finished(c) \/ (rq[c].op = "move" /\ hp[c] \in {"error", "killed"})

\* Any other file stays where it is, until it has been renamed or copied.
Intact(c) ==
  \A f \in InitFiles :
    Within(c, f) /\ ~Overwrites(c, f) =>
      \/ Holds(f, f)
      \/ Ended(c) /\ \E p \in Paths : Within(c, p) /\ Holds(p, f)

Safe(c) == NothingYet(c) /\ GoalChecked(c) /\ WritesThere(c) /\ Intact(c)
SafeInv == \A c \in Begun : ~Disturbed(c) => Safe(c)

LEMMA WasSafe ==
  ASSUME DoneInv, SafeInv, NEW c \in Begun, Local(c), ~Disturbed(c)'
  PROVE  Safe(c) /\ InPlace(c) /\ Good(c)
<1>1. c \in Calls /\ ~Disturbed(c)
  BY Grows DEF Begun
<1> QED BY <1>1 DEF DoneInv, SafeInv, Good

\* What a call may still replace does not become less when it goes on.
Onward(c) ==
  /\ Quiet(c) /\ (Ended(c) => Ended(c)')
  /\ hp[c] # "none" => hp'[c] # "none"
  /\ rq[c].op \in {"move", "copy"} =>
       /\ hp'[c] \in {"none", "sudo", "check"} => hp[c] \in {"none", "sudo", "check"}
       /\ hp'[c] \in {"rename", "copy"} => hp[c] \in {"rename", "copy"}

LEMMA OnwardFacts ==
  ASSUME NEW c \in Begun, Onward(c)
  PROVE  /\ c \in Calls /\ rq'[c] = rq[c] /\ goal'[c] = goal[c]
         /\ \A q : Within(c, q)' <=> Within(c, q)
         /\ \A f : Overwrites(c, f) => Overwrites(c, f)'
<1>1. \A q : Within(c, q)' <=> Within(c, q)
  BY QuietReach DEF Onward
<1> QED BY <1>1 DEF Onward, Quiet, Overwrites, Replaces, Begun

\* The files within the reach of a call stay as they are.
LEMMA SafeStays ==
  ASSUME FilesTyped, FilesTyped', NEW c \in Begun, Onward(c), SameFiles(c), Safe(c),
         cp'[c] = cp[c] \/ cp'[c] = NoCopy
  PROVE  Safe(c)'
<1>1. /\ c \in Calls /\ rq'[c] = rq[c] /\ goal'[c] = goal[c]
      /\ \A q : Within(c, q)' <=> Within(c, q)
      /\ \A f : Overwrites(c, f) => Overwrites(c, f)'
  BY OnwardFacts
<1>2. \A q \in Paths : \A f : Within(c, q) => (Holds(q, f)' <=> Holds(q, f))
  BY <1>1, SameEntry
<1>3. \A f \in InitFiles : f \in Paths
  BY TreeAssumption
<1>4. NothingYet(c)'
  BY <1>1, <1>2, <1>3 DEF Safe, NothingYet, Onward
<1>5. GoalChecked(c)'
  BY <1>1 DEF Safe, GoalChecked, Onward
<1>6. WritesThere(c)'
  BY <1>1 DEF Safe, WritesThere, NoCopy
<1>7. Intact(c)'
  <2> SUFFICES ASSUME NEW f \in InitFiles, Within(c, f)', ~Overwrites(c, f)'
               PROVE  (Holds(f, f) \/ (Ended(c) /\ \E p \in Paths : Within(c, p) /\ Holds(p, f)))'
    BY DEF Intact
  <2>1. Within(c, f) /\ ~Overwrites(c, f) /\ f \in Paths
    BY <1>1, <1>3
  <2>2. CASE Holds(f, f)
    BY <1>2, <2>1, <2>2
  <2>3. CASE Ended(c) /\ \E p \in Paths : Within(c, p) /\ Holds(p, f)
    BY <1>1, <1>2, <2>3 DEF Onward
  <2> QED BY <2>1, <2>2, <2>3 DEF Safe, Intact
<1> QED BY <1>4, <1>5, <1>6, <1>7 DEF Safe

\* A step that changes files of the tree, but leaves each that is not to be
\* replaced, or takes it elsewhere as the end of the work.
Spares(c) ==
  \A f \in InitFiles :
    Within(c, f) /\ ~Overwrites(c, f) /\ Holds(f, f) =>
      Holds(f, f)' \/ (Ended(c)' /\ \E p \in Paths : Within(c, p) /\ Holds(p, f)')

LEMMA SafeSpares ==
  ASSUME NEW c \in Begun, Onward(c), Safe(c), ~Ended(c), Spares(c), WritesThere(c)',
         rq[c].op \in {"move", "copy"} => hp'[c] \notin {"none", "sudo", "check"}
  PROVE  Safe(c)'
<1>1. /\ c \in Calls /\ rq'[c] = rq[c] /\ goal'[c] = goal[c]
      /\ \A q : Within(c, q)' <=> Within(c, q)
      /\ \A f : Overwrites(c, f) => Overwrites(c, f)'
  BY OnwardFacts
<1>2. NothingYet(c)'
  BY <1>1 DEF NothingYet
<1>3. GoalChecked(c)'
  BY <1>1 DEF Safe, GoalChecked, Onward
<1>4. Intact(c)'
  <2> SUFFICES ASSUME NEW f \in InitFiles, Within(c, f)', ~Overwrites(c, f)'
               PROVE  (Holds(f, f) \/ (Ended(c) /\ \E p \in Paths : Within(c, p) /\ Holds(p, f)))'
    BY DEF Intact
  <2>1. Within(c, f) /\ ~Overwrites(c, f)
    BY <1>1
  <2>2. Holds(f, f)
    BY <2>1 DEF Safe, Intact
  <2> QED BY <1>1, <2>1, <2>2 DEF Spares
<1> QED BY <1>2, <1>3, <1>4 DEF Safe

LEMMA SparesStay ==
  ASSUME FilesTyped, FilesTyped', NEW c \in Begun, data' = data,
         \A f \in InitFiles : Within(c, f) /\ ~Overwrites(c, f) /\ Holds(f, f) => fs'[f] = fs[f]
  PROVE  Spares(c)
<1> SUFFICES ASSUME NEW f \in InitFiles, Within(c, f), ~Overwrites(c, f), Holds(f, f)
             PROVE  Holds(f, f)'
  BY DEF Spares
<1>1. fs'[f] = fs[f] /\ f \in Paths /\ fs[f] \in Inodes
  BY TreeAssumption, Entry DEF Holds
<1>2. IsFile(f)'
  BY <1>1, EntryNext
<1> QED BY <1>1, <1>2 DEF Holds

\* A file is created, or one truncated that may be replaced.
LEMMA SparesCreate ==
  ASSUME FilesTyped, FilesTyped', NEW c \in Begun, InPlace(c), ~Finished(c), Quiet(c),
         NEW who \in Users, NEW p \in Paths, Within(c, p), NEW contents,
         Create(who, c, p, contents), p \in InitFiles => Overwrites(c, p)
  PROVE  Spares(c)
<1>1. \A q \in Paths : q # p /\ Within(c, q) => \A b : Holds(q, b) => Holds(q, b)'
  BY CreatedHere
<1>2. \A f \in InitFiles : f \in Paths
  BY TreeAssumption
<1> QED BY <1>1, <1>2 DEF Spares

\* A chunk is written to it.
LEMMA SparesChunk ==
  ASSUME FilesTyped, FilesTyped', CopiesTyped, NEW c \in Begun, InPlace(c), ~Finished(c),
         cp[c] # NoCopy, CopyChunk(c), fs' = fs,
         cp[c].to.path \in InitFiles => Overwrites(c, cp[c].to.path)
  PROVE  Spares(c)
<1> SUFFICES ASSUME NEW f \in InitFiles, Within(c, f), ~Overwrites(c, f), Holds(f, f)
             PROVE  Holds(f, f)'
  BY DEF Spares
<1>1. f \in Paths /\ IsFile(f) /\ fs[f] \in DOMAIN data /\ fs[f].path = f
  BY TreeAssumption DEF Holds, FilesTyped, InPlace
<1>2. fs[f] # cp[c].to
  BY <1>1
<1>3. data'[fs[f]] = data[fs[f]]
  BY <1>1, <1>2 DEF CopyChunk
<1>4. IsFile(f)'
  BY <1>1 DEF IsFile
<1> QED BY <1>3, <1>4 DEF Holds

\* A tree is renamed to where nothing is but what may be replaced.
LEMMA SparesRenamed ==
  ASSUME FilesTyped, FilesTyped', NEW c \in Begun, Finished(c)', NEW who,
         NEW s \in Paths, NEW d \in Seq(Names), d \in Reach(c),
         RenameResult(who, s, d) = "ok", fs' = Renamed(s, d), data' = data,
         \A f \in InitFiles : Under(d, f) /\ Holds(f, f) => Overwrites(c, f)
  PROVE  Spares(c)
<1> SUFFICES ASSUME NEW f \in InitFiles, ~Overwrites(c, f), Holds(f, f)
             PROVE  Holds(f, f)' \/ \E p \in Paths : Within(c, p) /\ Holds(p, f)'
  BY DEF Spares, Ended
<1>1. /\ f \in Paths /\ f \in Seq(Names) /\ s \in Seq(Names)
      /\ IsFile(f) /\ Exists(f) /\ fs[f] \in Inodes /\ data[fs[f]] = Whole(f)
  <2>1. f \in Paths
    BY TreeAssumption
  <2>2. IsFile(f) /\ fs[f] \in Inodes /\ data[fs[f]] = Whole(f)
    BY <2>1, Entry DEF Holds
  <2> QED BY <2>1, <2>2, PathFacts, Entry, NamesAssumption
<1>2. ASSUME NEW q \in Paths, fs'[q] = fs[f] PROVE Holds(q, f)'
  <2>1. IsFile(q)'
    BY <1>1, <1>2, EntryNext
  <2> QED BY <1>1, <1>2, <2>1 DEF Holds
<1>3. CASE s = d
  <2>1. s \o Rel(s, f) = f \/ ~Under(s, f)
    BY <1>1, GraftBack
  <2>2. fs'[f] = fs[f]
    BY <1>1, <1>3, <2>1 DEF Renamed
  <2> QED BY <1>1, <1>2, <2>2
<1>4. CASE s # d /\ Under(s, f)
  <2>1. PICK p : p = d \o Rel(s, f)
    OBVIOUS
  <2>2. p \in Paths /\ fs'[p] = fs[f]
    BY <1>1, <1>4, <2>1, RenamedAway
  <2>3. Under(d, p)
    BY <1>1, <1>4, <2>1, GraftBack
  <2>4. Within(c, p)
    BY <2>3 DEF Within
  <2> QED BY <1>2, <2>2, <2>4
<1>5. CASE ~Under(s, f)
  <2>1. ~Under(d, f)
    OBVIOUS
  <2>2. fs'[f] = fs[f]
    BY <1>1, <1>5, <2>1 DEF Renamed
  <2> QED BY <1>1, <1>2, <2>2
<1> QED BY <1>3, <1>4, <1>5

\* What a call that is not disturbed has come to work on only now is as it was
\* at the start.
LEMMA NewlyWithin ==
  ASSUME ElevationInv', DoneInv, NEW c \in Calls, Local(c), Progress(c)', ~Disturbed(c)',
         NEW f \in InitFiles, Within(c, f)', c \in Begun => ~Within(c, f)
  PROVE  Holds(f, f)
<1>1. f \in Seq(Names)
  BY TreeAssumption, PathFacts
<1>2. \A e \in Calls : CallInv(e)' /\ Progress(e)'
  BY OthersProgress DEF ElevationInv, CallsInv, DoneInv
<1>3. c \in Begun' /\ Begun \subseteq Begun' /\ \A e \in Begun : \A q : Within(e, q) => Within(e, q)'
  BY Grows
<1>4. ASSUME NEW e \in Begun, Within(e, f) PROVE FALSE
  <2>1. e \in Begun' \ {c} /\ Within(e, f)'
    BY <1>3, <1>4
  <2> QED BY <1>1, <1>2, <1>3, <2>1, StrangersNext
<1> QED BY <1>4 DEF DoneInv, OutOfReach

\* A request arrives.
LEMMA ArriveSafe ==
  ASSUME ElevationInv, ElevationInv', DoneInv, NEW c \in Calls, NEW r \in Requests, Arrive(c, r),
         ~Disturbed(c)'
  PROVE  Safe(c)'
<1>1. /\ at[c] = "idle" /\ fs' = fs /\ data' = data /\ hp' = hp /\ cp' = cp /\ c \notin Begun
  BY DEF Arrive, files, helper, Begun
<1>2. Advances(c)
  BY ArriveAdvances
<1>3. hp[c] = "none" /\ cp[c] = NoCopy
  <2>1. CallInv(c) /\ Progress(c)
    BY Parts DEF DoneInv
  <2>2. hp[c] = "none"
    BY <1>1, <2>1 DEF CallInv, Over, Answers
  <2> QED BY <1>1, <2>1, <2>2 DEF Progress
<1>4. \A f \in InitFiles : Within(c, f)' => Holds(f, f)
  BY <1>1, <1>2, NewlyWithin DEF Advances
<1>5. \A f : Holds(f, f) => Holds(f, f)'
  BY <1>1 DEF Holds, IsFile
<1>6. NothingYet(c)'
  BY <1>4, <1>5 DEF NothingYet
<1>7. Intact(c)'
  BY <1>4, <1>5 DEF Intact
<1> QED BY <1>1, <1>3, <1>6, <1>7 DEF Safe, GoalChecked, WritesThere

\* A handler starts its helper: nothing of a move or a copy has been done.
LEMMA SudoSafe ==
  ASSUME ElevationInv, ElevationInv', DoneInv, SafeInv, NEW c \in Calls, Keeps(c), Advances(c),
         ~Disturbed(c)', at[c] \notin Over \cup {"idle", "waiting", "copying"},
         NEW d \in Destinations(rq[c]), RunSudo(c, d), fs' = fs, data' = data, cp' = cp
  PROVE  Safe(c)'
<1>1. /\ Around(c) /\ c \in Begun /\ hp[c] = "none" /\ rq[c] \in Requests
  BY StepFrom, Alone
<1>2. /\ hp'[c] = "sudo" /\ final'[c] = d /\ goal'[c] = d /\ rq' = rq
  BY <1>1 DEF RunSudo, Around, CallsTyped
<1>3. /\ final[c] = rq[c].dst /\ cp[c] = NoCopy /\ ~Finished(c)
      /\ (rq[c].op \notin {"move", "copy"} => d = rq[c].dst)
  BY <1>1 DEF Around, Progress, Finished, Over, Answers, Destinations
<1>4. Safe(c)
  BY <1>1, WasSafe DEF Advances
<1>5. ASSUME NEW f \in InitFiles, Within(c, f)', rq[c].op \in {"move", "copy"} \/ ~Overwrites(c, f)'
      PROVE  Holds(f, f)
  <2>1. CASE ~Within(c, f)
    BY <1>5, <2>1, NewlyWithin DEF Advances
  <2>2. CASE Within(c, f) /\ rq[c].op \in {"move", "copy"}
    BY <1>1, <1>4, <2>2 DEF Safe, NothingYet
  <2>3. CASE Within(c, f) /\ rq[c].op \notin {"move", "copy"}
    <3>1. ~Overwrites(c, f)
      BY <1>1, <1>2, <1>3, <1>5, <2>3 DEF Overwrites, Replaces
    <3> QED BY <1>1, <1>3, <1>4, <2>3, <3>1 DEF Safe, Intact, Ended
  <2> QED BY <2>1, <2>2, <2>3
<1>6. \A f : Holds(f, f) => Holds(f, f)'
  BY DEF Holds, IsFile
<1>7. NothingYet(c)'
  BY <1>2, <1>5, <1>6 DEF NothingYet
<1>8. Intact(c)'
  BY <1>2, <1>5, <1>6 DEF Intact
<1> QED BY <1>2, <1>3, <1>7, <1>8 DEF Safe, GoalChecked, WritesThere

\* A handler goes on without one, and leaves what is there.
LEMMA HandlerSafe ==
  ASSUME ElevationInv, DoneInv, SafeInv, NEW c \in Calls, Keeps(c), Advances(c), ~Disturbed(c)',
         at[c] \notin Over \cup {"idle", "waiting"},
         NEW place, place # "idle", at'[c] = place, UNCHANGED <<request, helper>>,
         \A e \in Calls \ {c} : cp'[e] = cp[e], cp'[c] = cp[c] \/ cp'[c] = NoCopy, SameFiles(c)
  PROVE  Safe(c)'
<1>1. /\ Around(c) /\ c \in Begun /\ Quiet(c) /\ ~Finished(c) /\ hp[c] = "none" /\ hp'[c] = "none"
  BY HandlerRuns
<1>2. Safe(c) /\ Onward(c) /\ ~Ended(c)
  BY <1>1, WasSafe DEF Advances, Onward, Ended
<1> QED BY <1>1, <1>2, SafeStays DEF Around

\* It changes what may be replaced.
LEMMA HandlerSpares ==
  ASSUME ElevationInv, DoneInv, SafeInv, NEW c \in Calls, Keeps(c), Advances(c), ~Disturbed(c)',
         at[c] \notin Over \cup {"idle", "waiting"},
         NEW place, place # "idle", at'[c] = place, UNCHANGED <<request, helper>>,
         \A e \in Calls \ {c} : cp'[e] = cp[e],
         rq[c].op \notin {"move", "copy"}, WritesThere(c)', Spares(c)
  PROVE  Safe(c)'
<1>1. /\ Around(c) /\ c \in Begun /\ Quiet(c) /\ ~Finished(c) /\ hp[c] = "none" /\ hp'[c] = "none"
  BY HandlerRuns
<1>2. Safe(c) /\ Onward(c) /\ ~Ended(c)
  BY <1>1, WasSafe DEF Advances, Onward, Ended
<1> QED BY <1>1, <1>2, SafeSpares

\* The temp file goes.
LEMMA SparesTmp ==
  ASSUME FilesTyped, FilesTyped', NEW c \in Begun, data' = data, DropTmp(c)
  PROVE  Spares(c)
<1>1. c \in Calls /\ \A f \in InitFiles : f \in Paths /\ f # Tmp(c)
  BY TreeAssumption, TempsAssumption DEF Begun, Temps
<1>2. \A f \in InitFiles : fs'[f] = fs[f]
  BY <1>1 DEF DropTmp, FilesTyped
<1> QED BY <1>2, SparesStay

\* It refuses, or answers with an error or the request for a password.
LEMMA RefusalSafe ==
  ASSUME ElevationInv, DoneInv, SafeInv, NEW c \in Calls, Keeps(c), Advances(c), ~Disturbed(c)',
         at[c] \notin Over \cup {"idle", "waiting"},
         NEW answer \in Answers \ {"ok"}, Go(c, answer), UNCHANGED <<request, helper>>,
         data' = data, cp'[c] \in {cp[c], NoCopy},
         \A e \in Calls \ {c} : cp'[e] = cp[e],
         fs' = fs \/ (rq[c].op = "put" /\ DropTmp(c))
  PROVE  Safe(c)'
<1>1. at'[c] = answer /\ answer # "idle"
  BY StepFrom DEF Go, Around, CallsTyped, Answers
<1>2. Around(c) /\ c \in Begun /\ rq'[c] = rq[c]
  BY <1>1, HandlerRuns
<1>3. CASE fs' = fs
  BY <1>1, <1>2, <1>3, SameStays, HandlerSafe DEF Around
<1>4. CASE rq[c].op = "put" /\ DropTmp(c)
  <2>1. WritesThere(c)
    BY <1>2, WasSafe DEF Advances, Safe
  <2>2. WritesThere(c)'
    BY <1>2, <1>4, <2>1 DEF WritesThere, NoCopy
  <2>3. Spares(c)
    BY <1>2, <1>4, SparesTmp DEF Around
  <2> QED BY <1>1, <1>4, <2>2, <2>3, HandlerSpares
<1> QED BY <1>3, <1>4

\* Elevate asks for a password, or uses the one it has.
LEMMA ElevateSafe ==
  ASSUME ElevationInv, ElevationInv', DoneInv, SafeInv, NEW c \in Calls, Keeps(c), Advances(c),
         ~Disturbed(c)', at[c] \in {"place", "create", "mkdir", "rename"},
         Elevate(c), data' = data, cp' = cp
  PROVE  Safe(c)'
<1>1. /\ at[c] \notin Over \cup {"idle", "waiting", "copying"}
      /\ rq[c] \in Requests /\ FitsOp(at[c], hp[c], rq[c].op)
  <2>1. at[c] \notin Over \cup {"idle", "waiting", "copying"}
    BY DEF Over, Answers
  <2> QED BY <2>1, Alone
<1>2. CASE RunSudo(c, rq[c].dst) /\ UNCHANGED fs
  <2>1. rq[c].dst \in Destinations(rq[c])
    BY <1>1, RequestFacts
  <2> QED BY <1>1, <1>2, <2>1, SudoSafe
<1>3. CASE /\ Go(c, "elevation") /\ UNCHANGED <<request, helper>>
           /\ IF rq[c].op = "put" THEN DropTmp(c) ELSE UNCHANGED fs
  <2>1. "elevation" \in Answers \ {"ok"}
    BY DEF Answers
  <2> QED BY <1>1, <1>3, <2>1, RefusalSafe
<1> QED BY <1>2, <1>3 DEF Elevate

\* A file is renamed to no directory that has something in it.
LEMMA FileOnto ==
  ASSUME FilesTyped, NEW who, NEW s \in Paths, IsFile(s), NEW d \in Paths, s # d,
         RenameResult(who, s, d) = "ok", NEW f \in Paths, Under(d, f), Exists(f)
  PROVE  f = d
<1>1. d \in Seq(Names) /\ Len(d) # 0 /\ ~IsDir(s)
  BY PathFacts, Entry, NamesAssumption
<1>2. ASSUME f # d PROVE IsDir(d) /\ Exists(d)
  BY <1>1, <1>2, AboveExists
<1> QED BY <1>1, <1>2 DEF RenameResult

\* The steps of the handlers.
LEMMA PutCreateSafe ==
  ASSUME ElevationInv, ElevationInv', DoneInv, SafeInv, NEW c \in Calls, PutCreate(c),
         ~Disturbed(c)'
  PROVE  Safe(c)'
<1>1. /\ Keeps(c) /\ Advances(c) /\ at[c] = "receive" /\ at[c] \notin Over \cup {"idle", "waiting"}
      /\ CallsTyped /\ UNCHANGED <<request, helper>> /\ cp' = cp
  BY PutCreateKeeps, PutCreateAdvances, Parts DEF PutCreate, Over, Answers
<1>2. CASE Create("user", c, Tmp(c), Empty) /\ Go(c, "body")
  <2>1. at'[c] = "body"
    BY <1>1, <1>2 DEF Go, CallsTyped
  <2>2. /\ Around(c) /\ c \in Begun /\ Quiet(c) /\ ~Finished(c) /\ rq[c].op = "put"
        /\ Within(c, Tmp(c)) /\ rq'[c] = rq[c] /\ hp[c] = "none"
    BY <1>1, <2>1, HandlerRuns DEF FitsOp
  <2>3. Tmp(c) \in Paths /\ Tmp(c) \notin InitFiles /\ "user" \in Users
    BY TempsAssumption DEF Temps, Users
  <2>4. Safe(c) /\ InPlace(c)
    BY <1>1, <2>2, WasSafe DEF Advances
  <2>5. Spares(c)
    BY <1>2, <2>2, <2>3, <2>4, SparesCreate DEF Around
  <2>6. WritesThere(c)'
    BY <1>1, <2>2, <2>4 DEF Safe, WritesThere
  <2> QED BY <1>1, <2>1, <2>2, <2>5, <2>6, HandlerSpares
<1>3. CASE Go(c, "error") /\ UNCHANGED files
  <2>1. "error" \in Answers \ {"ok"} /\ fs' = fs /\ data' = data
    BY <1>3 DEF Answers, files
  <2> QED BY <1>1, <1>3, <2>1, RefusalSafe
<1> QED BY <1>2, <1>3 DEF PutCreate

LEMMA PutBodySafe ==
  ASSUME ElevationInv, ElevationInv', DoneInv, SafeInv, NEW c \in Calls, PutBody(c),
         ~Disturbed(c)'
  PROVE  Safe(c)'
<1>1. /\ Keeps(c) /\ Advances(c) /\ at[c] = "body" /\ at[c] \notin Over \cup {"idle", "waiting"}
      /\ CallsTyped /\ UNCHANGED <<request, helper>> /\ cp' = cp
  BY PutBodyKeeps, PutBodyAdvances, Parts DEF PutBody, Over, Answers
<1>2. rq[c].op = "put"
  BY <1>1, Alone DEF FitsOp
<1>3. CASE Create("user", c, Tmp(c), Whole(Tmp(c))) /\ Go(c, "parent")
  <2>1. at'[c] = "parent"
    BY <1>1, <1>3 DEF Go, CallsTyped
  <2>2. /\ Around(c) /\ c \in Begun /\ Quiet(c) /\ ~Finished(c)
        /\ Within(c, Tmp(c)) /\ rq'[c] = rq[c] /\ hp[c] = "none"
    BY <1>1, <2>1, HandlerRuns
  <2>3. Tmp(c) \in Paths /\ Tmp(c) \notin InitFiles /\ "user" \in Users
    BY TempsAssumption DEF Temps, Users
  <2>4. Safe(c) /\ InPlace(c)
    BY <1>1, <2>2, WasSafe DEF Advances
  <2>5. Spares(c)
    BY <1>3, <2>2, <2>3, <2>4, SparesCreate DEF Around
  <2>6. WritesThere(c)'
    BY <1>1, <1>2, <2>2, <2>4 DEF Safe, WritesThere
  <2> QED BY <1>1, <1>2, <2>1, <2>2, <2>5, <2>6, HandlerSpares
<1>4. CASE DropTmp(c) /\ Go(c, "error") /\ UNCHANGED data
  <2>1. "error" \in Answers \ {"ok"}
    BY DEF Answers
  <2> QED BY <1>1, <1>2, <1>4, <2>1, RefusalSafe
<1> QED BY <1>3, <1>4 DEF PutBody

LEMMA PutParentSafe ==
  ASSUME ElevationInv, ElevationInv', DoneInv, SafeInv, NEW c \in Calls, PutParent(c),
         ~Disturbed(c)'
  PROVE  Safe(c)'
<1> DEFINE p == Parent(rq[c].dst)
<1>1. /\ Keeps(c) /\ Advances(c) /\ at[c] = "parent" /\ at[c] \notin Over \cup {"idle", "waiting"}
      /\ CallsTyped
  BY PutParentKeeps, PutParentAdvances, Parts DEF PutParent, Over, Answers
<1>2. /\ UNCHANGED <<request, helper>> /\ cp' = cp /\ data' = data /\ Go(c, "place")
      /\ fs' = IF MkdirResult("user", p) = "ok" THEN WithDirs(p) ELSE fs
  BY DEF PutParent
<1>3. at'[c] = "place"
  BY <1>1, <1>2 DEF Go, CallsTyped
<1>4. Around(c) /\ c \in Begun
  BY <1>1, <1>2, <1>3, HandlerRuns
<1>5. SameFiles(c)
  <2>1. CASE MkdirResult("user", p) = "ok"
    BY <1>2, <1>4, <2>1, DirsSame DEF Around
  <2>2. CASE MkdirResult("user", p) # "ok"
    BY <1>2, <1>4, <2>2, SameStays DEF Around
  <2> QED BY <2>1, <2>2
<1> QED BY <1>1, <1>2, <1>3, <1>5, HandlerSafe

LEMMA PutPlaceSafe ==
  ASSUME ElevationInv, ElevationInv', DoneInv, SafeInv, NEW c \in Calls, PutPlace(c),
         ~Disturbed(c)'
  PROVE  Safe(c)'
<1>1. /\ Keeps(c) /\ Advances(c) /\ at[c] = "place" /\ at[c] \notin Over \cup {"idle", "waiting"}
      /\ CallsTyped /\ cp' = cp /\ data' = data
  BY PutPlaceKeeps, PutPlaceAdvances, Parts DEF PutPlace, Over, Answers
<1>2. c \in Begun /\ rq[c].op = "put" /\ hp[c] = "none" /\ Around(c) /\ rq[c] \in Requests
  BY <1>1, Alone, StepFrom DEF FitsOp
<1>3. CASE /\ RenameResult("user", Tmp(c), rq[c].dst) = "ok"
           /\ fs' = Renamed(Tmp(c), rq[c].dst)
           /\ Go(c, "ok") /\ UNCHANGED <<request, helper>>
  <2>1. at'[c] = "ok"
    BY <1>1, <1>3 DEF Go, CallsTyped
  <2>2. rq'[c] = rq[c] /\ hp'[c] = "none"
    BY <1>1, <1>3, <2>1, HandlerRuns
  <2>3. Safe(c) /\ Kept(c)
    BY <1>1, <1>2, WasSafe DEF Advances, Good
  <2>4. IsFile(Tmp(c))
    BY <1>1, <1>2, <2>3 DEF Kept, Held, Sources, Holds
  <2>5. PICK s, d : s = Tmp(c) /\ d = rq[c].dst
    OBVIOUS
  <2>6. s \in Paths /\ d \in Paths /\ d \in Seq(Names) /\ s # d /\ d \in Reach(c)
    BY <1>2, <2>5, TmpFacts, RequestFacts, PathFacts, UnderOrder DEF Overlap, Reach, Touched
  <2>7. ASSUME NEW f \in InitFiles, Under(d, f), Holds(f, f) PROVE Overwrites(c, f)
    <3>1. f \in Paths /\ Exists(f)
      BY <1>2, <2>7, TreeAssumption, Entry, NamesAssumption DEF Holds, Around
    <3>2. f = d
      BY <1>2, <1>3, <2>4, <2>5, <2>6, <2>7, <3>1, FileOnto DEF Around
    <3> QED BY <1>2, <2>5, <3>2 DEF Overwrites, Replaces
  <2>8. Spares(c)
    <3>1. Finished(c)' /\ RenameResult("user", s, d) = "ok" /\ fs' = Renamed(s, d)
      BY <1>3, <2>1, <2>2, <2>5 DEF Finished
    <3> QED BY <1>1, <1>2, <2>6, <2>7, <3>1, SparesRenamed DEF Around
  <2>9. WritesThere(c)'
    BY <1>1, <1>2, <2>2, <2>3 DEF Safe, WritesThere
  <2> QED BY <1>1, <1>2, <1>3, <2>1, <2>8, <2>9, HandlerSpares
<1>4. CASE Go(c, "create") /\ UNCHANGED <<fs, request, helper>>
  <2>1. at'[c] = "create" /\ SameFiles(c)
    BY <1>1, <1>2, <1>4, SameStays DEF Go, CallsTyped, Around
  <2> QED BY <1>1, <1>4, <2>1, HandlerSafe
<1>5. CASE Elevate(c)
  BY <1>1, <1>5, ElevateSafe
<1>6. CASE PutFails(c)
  <2>1. "error" \in Answers \ {"ok"}
    BY DEF Answers
  <2> QED BY <1>1, <1>2, <1>6, <2>1, RefusalSafe DEF PutFails
<1> QED BY <1>3, <1>4, <1>5, <1>6 DEF PutPlace

LEMMA PutCreateTargetSafe ==
  ASSUME ElevationInv, ElevationInv', DoneInv, SafeInv, NEW c \in Calls, PutCreateTarget(c),
         ~Disturbed(c)'
  PROVE  Safe(c)'
<1>1. /\ Keeps(c) /\ Advances(c) /\ at[c] = "create" /\ at[c] \notin Over \cup {"idle", "waiting"}
      /\ CallsTyped /\ CopiesTyped
  BY PutCreateTargetKeeps, PutCreateTargetAdvances, Parts DEF PutCreateTarget, Over, Answers
<1>2. c \in Begun /\ rq[c].op = "put"
  BY <1>1, Alone DEF FitsOp
<1>3. CASE /\ CreateResult("user", rq[c].dst) = "ok" /\ OpenCopy("user", c, Tmp(c), rq[c].dst)
           /\ Go(c, "copying") /\ UNCHANGED <<request, helper>>
  <2>1. /\ at'[c] = "copying" /\ Create("user", c, rq[c].dst, Empty) /\ "user" \in Users
        /\ \A e \in Calls \ {c} : cp'[e] = cp[e]
        /\ cp'[c].to = Created("user", c, rq[c].dst)
    BY <1>1, <1>3 DEF Go, CallsTyped, OpenCopy, CopiesTyped, Users
  <2>2. /\ Around(c) /\ Quiet(c) /\ ~Finished(c) /\ rq'[c] = rq[c]
        /\ rq[c].dst \in Paths /\ Within(c, rq[c].dst)
    BY <1>1, <1>3, <2>1, HandlerRuns
  <2>3. Safe(c) /\ InPlace(c)
    BY <1>1, <1>2, WasSafe DEF Advances
  <2>4. Spares(c)
    <3>1. Overwrites(c, rq[c].dst)
      BY <1>2 DEF Overwrites, Replaces
    <3> QED BY <1>2, <2>1, <2>2, <2>3, <3>1, SparesCreate DEF Around
  <2>5. WritesThere(c)'
    BY <1>2, <2>1, <2>2, <2>3 DEF InPlace, Created, WritesThere
  <2> QED BY <1>1, <1>2, <1>3, <2>1, <2>4, <2>5, HandlerSpares
<1>4. CASE Elevate(c) /\ UNCHANGED <<data, cp>>
  BY <1>1, <1>4, ElevateSafe
<1>5. CASE PutFails(c) /\ UNCHANGED <<data, cp>>
  <2>1. "error" \in Answers \ {"ok"}
    BY DEF Answers
  <2> QED BY <1>1, <1>2, <1>5, <2>1, RefusalSafe DEF PutFails
<1> QED BY <1>3, <1>4, <1>5 DEF PutCreateTarget

LEMMA PutCopySafe ==
  ASSUME ElevationInv, ElevationInv', DoneInv, SafeInv, NEW c \in Calls, PutCopy(c),
         ~Disturbed(c)'
  PROVE  Safe(c)'
<1>1. /\ Keeps(c) /\ Advances(c) /\ at[c] = "copying" /\ at[c] \notin Over \cup {"idle", "waiting"}
      /\ CallsTyped /\ CopiesTyped
  BY PutCopyKeeps, PutCopyAdvances, Parts DEF PutCopy, Over, Answers
<1>2. c \in Begun /\ rq[c].op = "put"
  BY <1>1, Alone DEF FitsOp
<1>3. CASE cp[c] # NoCopy /\ CopyChunk(c) /\ UNCHANGED <<fs, at, request, helper, faults>>
  <2>1. /\ at'[c] = "copying" /\ \A e \in Calls \ {c} : cp'[e] = cp[e]
        /\ cp'[c] = NoCopy \/ cp'[c].to = cp[c].to
    BY <1>1, <1>3 DEF CopyChunk, CopiesTyped
  <2>2. Around(c) /\ ~Finished(c) /\ rq'[c] = rq[c]
    BY <1>1, <1>3, <2>1, HandlerRuns
  <2>3. Safe(c) /\ InPlace(c)
    BY <1>1, <1>2, WasSafe DEF Advances
  <2>4. cp[c].to.path = rq[c].dst
    BY <1>2, <1>3, <2>3 DEF Safe, WritesThere
  <2>5. Spares(c)
    <3>1. Overwrites(c, cp[c].to.path)
      BY <1>2, <2>4 DEF Overwrites, Replaces
    <3> QED BY <1>1, <1>2, <1>3, <2>2, <2>3, <3>1, SparesChunk DEF Around
  <2>6. WritesThere(c)'
    BY <1>2, <2>1, <2>2, <2>4 DEF WritesThere, NoCopy
  <2> QED BY <1>1, <1>2, <1>3, <2>1, <2>5, <2>6, HandlerSpares
<1>4. CASE cp[c] # NoCopy /\ cp' = [cp EXCEPT ![c] = NoCopy] /\ PutFails(c) /\ UNCHANGED data
  <2>1. "error" \in Answers \ {"ok"} /\ cp'[c] = NoCopy /\ \A e \in Calls \ {c} : cp'[e] = cp[e]
    BY <1>1, <1>4 DEF Answers, CopiesTyped
  <2> QED BY <1>1, <1>2, <1>4, <2>1, RefusalSafe DEF PutFails
<1>5. CASE cp[c] = NoCopy /\ DropTmp(c) /\ Go(c, "ok") /\ UNCHANGED <<data, request, helper, cp>>
  <2>1. at'[c] = "ok"
    BY <1>1, <1>5 DEF Go, CallsTyped
  <2>2. Around(c)
    BY <1>1, <1>5, <2>1, HandlerRuns
  <2>3. Spares(c) /\ WritesThere(c)'
    BY <1>2, <1>5, <2>2, SparesTmp DEF Around, WritesThere, NoCopy
  <2> QED BY <1>1, <1>2, <1>5, <2>1, <2>3, HandlerSpares
<1> QED BY <1>3, <1>4, <1>5 DEF PutCopy

LEMMA MkdirSafe ==
  ASSUME ElevationInv, ElevationInv', DoneInv, SafeInv, NEW c \in Calls, Mkdir(c),
         ~Disturbed(c)'
  PROVE  Safe(c)'
<1>1. /\ Keeps(c) /\ Advances(c) /\ at[c] = "mkdir" /\ at[c] \notin Over \cup {"idle", "waiting"}
      /\ CallsTyped /\ cp' = cp /\ data' = data
  BY MkdirKeeps, MkdirAdvances, Parts DEF Mkdir, Over, Answers
<1>2. CASE /\ MkdirResult("user", rq[c].dst) = "ok" /\ fs' = WithDirs(rq[c].dst)
           /\ Go(c, "ok") /\ UNCHANGED <<request, helper>>
  <2>1. at'[c] = "ok" /\ SameFiles(c)
    BY <1>1, <1>2, StepFrom, DirsSame DEF Go, CallsTyped, Around
  <2> QED BY <1>1, <1>2, <2>1, HandlerSafe
<1>3. CASE Elevate(c)
  BY <1>1, <1>3, ElevateSafe
<1>4. CASE Go(c, "error") /\ UNCHANGED <<fs, request, helper>>
  <2>1. "error" \in Answers \ {"ok"}
    BY DEF Answers
  <2> QED BY <1>1, <1>4, <2>1, RefusalSafe
<1> QED BY <1>2, <1>3, <1>4 DEF Mkdir

LEMMA RenameCheckSafe ==
  ASSUME ElevationInv, ElevationInv', DoneInv, SafeInv, NEW c \in Calls, RenameCheck(c),
         ~Disturbed(c)'
  PROVE  Safe(c)'
<1>1. /\ Keeps(c) /\ Advances(c) /\ at[c] \notin Over \cup {"idle", "waiting"}
      /\ CallsTyped /\ cp' = cp /\ data' = data /\ fs' = fs /\ UNCHANGED <<request, helper>>
      /\ Go(c, IF Exists(rq[c].dst) THEN "conflict" ELSE "rename")
  BY RenameCheckKeeps, RenameCheckAdvances, Parts DEF RenameCheck, Over, Answers, files
<1>2. at'[c] \in {"conflict", "rename"} /\ c \in Begun /\ Around(c)
  BY <1>1, StepFrom DEF Go, CallsTyped, Begun
<1>3. SameFiles(c)
  BY <1>1, <1>2, SameStays DEF Around
<1>4. PICK place : at'[c] = place /\ place # "idle"
  BY <1>2
<1> QED BY <1>1, <1>3, <1>4, HandlerSafe

\* Nothing has what has been found a free name.
LEMMA RenameSafe ==
  ASSUME ElevationInv, ElevationInv', DoneInv, SafeInv, NEW c \in Calls, Rename(c),
         ~Disturbed(c)'
  PROVE  Safe(c)'
<1>1. /\ Keeps(c) /\ Advances(c) /\ at[c] = "rename" /\ at[c] \notin Over \cup {"idle", "waiting"}
      /\ CallsTyped /\ cp' = cp /\ data' = data
  BY RenameKeeps, RenameAdvances, Parts DEF Rename, Over, Answers
<1>2. CASE /\ RenameResult("user", rq[c].src, rq[c].dst) = "ok"
           /\ fs' = Renamed(rq[c].src, rq[c].dst)
           /\ Go(c, "ok") /\ UNCHANGED <<request, helper>>
  <2>1. at'[c] = "ok"
    BY <1>1, <1>2 DEF Go, CallsTyped
  <2>2. /\ Around(c) /\ c \in Begun /\ hp[c] = "none" /\ hp'[c] = "none" /\ rq'[c] = rq[c]
        /\ rq[c].op = "rename" /\ rq[c].src \in Paths /\ rq[c].dst \in Paths
    BY <1>1, <1>2, <2>1, HandlerRuns DEF FitsOp
  <2>3. Safe(c) /\ ~Exists(rq[c].dst)
    BY <1>1, <2>2, WasSafe DEF Advances, Good, FreeName
  <2>4. PICK s, d : s = rq[c].src /\ d = rq[c].dst
    OBVIOUS
  <2>5. s \in Paths /\ d \in Paths /\ d \in Seq(Names) /\ Len(d) # 0 /\ d \in Reach(c)
    BY <2>2, <2>4, PathFacts DEF Reach, Touched
  <2>6. ASSUME NEW f \in InitFiles, Under(d, f), Holds(f, f) PROVE FALSE
    <3>1. f \in Paths /\ Exists(f)
      BY <2>2, <2>6, TreeAssumption, Entry, NamesAssumption DEF Holds, Around
    <3> QED BY <2>2, <2>3, <2>4, <2>5, <2>6, <3>1, AboveExists DEF Around
  <2>7. Spares(c)
    <3>1. Finished(c)' /\ RenameResult("user", s, d) = "ok" /\ fs' = Renamed(s, d)
      BY <1>2, <2>1, <2>2, <2>4 DEF Finished
    <3> QED BY <1>1, <2>2, <2>5, <2>6, <3>1, SparesRenamed DEF Around
  <2>8. WritesThere(c)'
    BY <1>1, <2>2 DEF WritesThere, NoCopy, Around, Progress
  <2> QED BY <1>1, <1>2, <2>1, <2>2, <2>7, <2>8, HandlerSpares
<1>3. CASE Elevate(c)
  BY <1>1, <1>3, ElevateSafe
<1>4. CASE Go(c, "error") /\ UNCHANGED <<fs, request, helper>>
  <2>1. "error" \in Answers \ {"ok"}
    BY DEF Answers
  <2> QED BY <1>1, <1>4, <2>1, RefusalSafe
<1> QED BY <1>2, <1>3, <1>4 DEF Rename

LEMMA DeleteSafe ==
  ASSUME ElevationInv, ElevationInv', DoneInv, SafeInv, NEW c \in Calls, Delete(c),
         ~Disturbed(c)'
  PROVE  Safe(c)'
<1>1. /\ Keeps(c) /\ Advances(c) /\ at[c] = "delete"
      /\ at[c] \notin Over \cup {"idle", "waiting", "copying"}
      /\ cp' = cp /\ data' = data /\ fs' = fs
  BY DeleteKeeps, DeleteAdvances DEF Delete, Over, Answers, files
<1>2. rq[c].dst \in Destinations(rq[c])
  BY <1>1, Alone, RequestFacts
<1>3. CASE RunSudo(c, rq[c].dst)
  BY <1>1, <1>2, <1>3, SudoSafe
<1>4. CASE Go(c, "not found") /\ UNCHANGED <<request, helper>>
  <2>1. "not found" \in Answers \ {"ok"}
    BY DEF Answers
  <2> QED BY <1>1, <1>4, <2>1, RefusalSafe
<1> QED BY <1>3, <1>4 DEF Delete

LEMMA MoveCheckSafe ==
  ASSUME ElevationInv, ElevationInv', DoneInv, SafeInv, NEW c \in Calls, MoveCheck(c),
         ~Disturbed(c)'
  PROVE  Safe(c)'
<1> DEFINE d == Resolve(rq[c].src, rq[c].dst)
<1>1. /\ Keeps(c) /\ Advances(c) /\ at[c] \notin Over \cup {"idle", "waiting", "copying"}
      /\ at[c] = "check" /\ cp' = cp /\ data' = data /\ fs' = fs /\ rq[c].op \in {"move", "copy"}
  BY MoveCheckKeeps, MoveCheckAdvances DEF MoveCheck, Over, Answers, files
<1>2. d \in Destinations(rq[c]) /\ free_dst(d) \in Destinations(rq[c])
  BY <1>1, Alone, RequestFacts, Resolved
<1>3. CASE RunSudo(c, d) \/ RunSudo(c, free_dst(d))
  BY <1>1, <1>2, <1>3, SudoSafe
<1>4. ASSUME NEW answer \in {"bad request", "not found", "conflict"},
             Go(c, answer), UNCHANGED <<request, helper>>
      PROVE  Safe(c)'
  <2>1. answer \in Answers \ {"ok"}
    BY DEF Answers
  <2> QED BY <1>1, <1>4, <2>1, RefusalSafe
<1> QED BY <1>3, <1>4 DEF MoveCheck

\* The answer is given, the client goes away, the helper dies.
LEMMA CollectSafe ==
  ASSUME ElevationInv, ElevationInv', DoneInv, SafeInv, NEW c \in Calls, Collect(c),
         ~Disturbed(c)'
  PROVE  Safe(c)'
<1>1. /\ Advances(c) /\ Around(c) /\ at[c] = "waiting" /\ hp[c] \in HelperOver /\ CallsTyped
      /\ cp' = cp /\ data' = data /\ rq' = rq /\ final' = final /\ hp' = hp /\ goal' = goal
  BY CollectKeeps, CollectAdvances, StepFrom, Parts DEF Collect, request, helper
<1>2. c \in Begun /\ Onward(c)
  BY <1>1 DEF Begun, Onward, Quiet, Finished, Ended
<1>3. Safe(c)
  BY <1>1, <1>2, WasSafe DEF Advances
<1>4. CASE rq[c].op = "put" /\ ~Succeeded(c)
  <2>1. DropTmp(c) /\ ~Ended(c)
    BY <1>1, <1>4 DEF Collect, Ended, Finished, Succeeded, HelperOver
  <2>2. Spares(c)
    BY <1>1, <1>2, <2>1, SparesTmp DEF Around
  <2>3. WritesThere(c)'
    BY <1>1, <1>3 DEF Safe, WritesThere
  <2> QED BY <1>2, <1>3, <1>4, <2>1, <2>2, <2>3, SafeSpares
<1>5. CASE ~(rq[c].op = "put" /\ ~Succeeded(c))
  <2>1. SameFiles(c)
    BY <1>1, <1>2, <1>5, SameStays DEF Collect, Around
  <2> QED BY <1>1, <1>2, <1>3, <2>1, SafeStays DEF Around
<1> QED BY <1>4, <1>5

LEMMA AbortSafe ==
  ASSUME ElevationInv, ElevationInv', DoneInv, SafeInv, NEW c \in Calls, Abort(c),
         ~Disturbed(c)'
  PROVE  Safe(c)'
<1>1. /\ Advances(c) /\ Around(c) /\ at[c] \in {"body", "waiting"} /\ c \in Begun /\ CallsTyped
      /\ cp' = cp /\ data' = data /\ fs' = fs /\ rq' = rq /\ final' = final /\ goal' = goal
  BY AbortKeeps, AbortAdvances, StepFrom, Parts DEF Abort, files, request, Begun
<1>2. hp'[c] = hp[c] \/ (hp[c] = "sudo" /\ hp'[c] = "refused")
  BY <1>1 DEF Abort, CallsTyped
<1>3. Onward(c)
  BY <1>1, <1>2 DEF Onward, Quiet, Finished, Ended
<1>4. Safe(c) /\ SameFiles(c)
  BY <1>1, WasSafe, SameStays DEF Advances, Around
<1> QED BY <1>1, <1>3, <1>4, SafeStays DEF Around

LEMMA KilledSafe ==
  ASSUME ElevationInv, ElevationInv', DoneInv, SafeInv, NEW c \in Calls, Killed(c),
         ~Disturbed(c)'
  PROVE  Safe(c)'
<1>1. /\ Advances(c) /\ Around(c) /\ Running(hp[c]) /\ hp'[c] = "killed" /\ cp'[c] = NoCopy
      /\ data' = data /\ fs' = fs /\ rq' = rq /\ final' = final /\ goal' = goal
  <2>1. Keeps(c) /\ Advances(c) /\ CallsTyped /\ CopiesTyped
    BY KilledKeeps, KilledAdvances, Parts
  <2>2. Running(hp[c]) /\ UNCHANGED <<files, request, goal>>
    BY DEF Killed, Running
  <2>3. hp'[c] = "killed" /\ cp'[c] = NoCopy
    BY <2>1 DEF Killed, Become, CallsTyped, CopiesTyped
  <2> QED BY <2>1, <2>2, <2>3, StepFrom DEF files, request
<1>2. c \in Begun /\ hp[c] \notin {"none", "ok"}
  BY <1>1, HelperRuns DEF Running, HelperOver
<1>3. Onward(c)
  BY <1>1, <1>2 DEF Onward, Quiet, Finished, Ended
<1>4. Safe(c) /\ SameFiles(c)
  BY <1>1, <1>2, WasSafe, SameStays DEF Advances, Around
<1> QED BY <1>1, <1>2, <1>3, <1>4, SafeStays DEF Around

\* The steps of the helpers: one that leaves the files ...
LEMMA HelperSafe ==
  ASSUME ElevationInv, DoneInv, SafeInv, NEW c \in Calls, Keeps(c), Advances(c), ~Disturbed(c)',
         Running(hp[c]), UNCHANGED <<at, request>>, goal'[c] = goal[c],
         NEW place, hp'[c] = place, place # "none",
         rq[c].op \in {"move", "copy"} =>
           /\ place \in {"sudo", "check"} => hp[c] \in {"sudo", "check"}
           /\ place \in {"rename", "copy"} => hp[c] \in {"rename", "copy"},
         \A e \in Calls \ {c} : cp'[e] = cp[e], cp'[c] = cp[c] \/ cp'[c] = NoCopy, SameFiles(c)
  PROVE  Safe(c)'
<1>1. Around(c) /\ c \in Begun /\ ~Finished(c) /\ Quiet(c)
  BY HelperWorks
<1>2. ~Ended(c)
  BY <1>1 DEF Ended, Running, HelperOver
<1>3. Safe(c) /\ Onward(c)
  BY <1>1, <1>2, WasSafe DEF Advances, Onward
<1> QED BY <1>1, <1>3, SafeStays DEF Around

\* ... and one that changes what may be replaced.
LEMMA HelperSpares ==
  ASSUME ElevationInv, DoneInv, SafeInv, NEW c \in Calls, Keeps(c), Advances(c), ~Disturbed(c)',
         Running(hp[c]), UNCHANGED <<at, request>>, goal'[c] = goal[c],
         NEW place, hp'[c] = place, place # "none",
         rq[c].op \in {"move", "copy"} => hp[c] \in {"rename", "copy"} /\ place \notin {"sudo", "check"},
         \A e \in Calls \ {c} : cp'[e] = cp[e], WritesThere(c)', Spares(c)
  PROVE  Safe(c)'
<1>1. Around(c) /\ c \in Begun /\ ~Finished(c) /\ Quiet(c)
  BY HelperWorks
<1>2. ~Ended(c)
  BY <1>1 DEF Ended, Running, HelperOver
<1>3. Safe(c) /\ Onward(c)
  BY <1>1, <1>2, WasSafe DEF Advances, Onward
<1> QED BY <1>1, <1>2, <1>3, SafeSpares

LEMMA SudoStepSafe ==
  ASSUME ElevationInv, ElevationInv', DoneInv, SafeInv, NEW c \in Calls, Sudo(c),
         UNCHANGED <<at, request>>, ~Disturbed(c)'
  PROVE  Safe(c)'
<1>1. /\ Keeps(c) /\ Advances(c) /\ hp[c] = "sudo" /\ Running(hp[c]) /\ CallsTyped
      /\ cp' = cp /\ data' = data /\ fs' = fs /\ goal' = goal
  BY SudoKeeps, SudoStepAdvances, Parts DEF Sudo, Running, HelperOver, files
<1>2. PICK place : hp'[c] = place /\ place \in {"refused", "parent", "mkdir", "delete", "check"}
  BY <1>1 DEF Sudo, Become, First, CallsTyped
<1>3. c \in Begun /\ Around(c)
  BY <1>1, <1>2, HelperWorks
<1>4. SameFiles(c)
  BY <1>1, <1>3, SameStays DEF Around
<1> QED BY <1>1, <1>2, <1>4, HelperSafe

LEMMA HelperMkdirSafe ==
  ASSUME ElevationInv, ElevationInv', DoneInv, SafeInv, NEW c \in Calls, HelperMkdir(c),
         UNCHANGED <<at, request>>, ~Disturbed(c)'
  PROVE  Safe(c)'
<1> DEFINE result == MkdirResult("root", rq[c].dst)
<1>1. /\ Keeps(c) /\ Advances(c) /\ hp[c] = "mkdir" /\ Running(hp[c]) /\ CallsTyped
      /\ cp' = cp /\ data' = data /\ goal' = goal
      /\ fs' = IF result = "ok" THEN WithDirs(rq[c].dst) ELSE fs
  BY HelperMkdirKeeps, HelperMkdirAdvances, Parts DEF HelperMkdir, Running, HelperOver
<1>2. PICK place : hp'[c] = place /\ place \in {"ok", "error"}
  BY <1>1 DEF HelperMkdir, FailIf, Become, CallsTyped
<1>3. c \in Begun /\ Around(c)
  BY <1>1, <1>2, HelperWorks
<1>4. SameFiles(c)
  <2>1. CASE result = "ok"
    BY <1>1, <1>3, <2>1, DirsSame DEF Around
  <2>2. CASE result # "ok"
    BY <1>1, <1>3, <2>2, SameStays DEF Around
  <2> QED BY <2>1, <2>2
<1> QED BY <1>1, <1>2, <1>4, HelperSafe

LEMMA HelperDeleteSafe ==
  ASSUME ElevationInv, ElevationInv', DoneInv, SafeInv, NEW c \in Calls, HelperDelete(c),
         UNCHANGED <<at, request>>, ~Disturbed(c)'
  PROVE  Safe(c)'
<1>1. /\ Keeps(c) /\ Advances(c) /\ hp[c] = "delete" /\ Running(hp[c]) /\ CallsTyped
      /\ cp' = cp /\ data' = data /\ goal' = goal /\ RemoveSource(c)
  BY HelperDeleteKeeps, HelperDeleteAdvances, Parts DEF HelperDelete, Running, HelperOver
<1>2. PICK place : hp'[c] = place /\ place \in {"ok", "error", "killed"}
  BY <1>1, SourceGoes
<1>3. c \in Begun /\ Around(c) /\ rq[c].op = "delete" /\ cp[c] = NoCopy
  BY <1>1, <1>2, HelperWorks DEF FitsOp
<1>4. Spares(c)
  <2>1. ASSUME NEW f \in InitFiles, ~Overwrites(c, f) PROVE fs'[f] = fs[f]
    <3>1. ~Under(rq[c].src, f) /\ f \in Paths
      BY <1>3, <2>1, TreeAssumption DEF Overwrites, Replaces
    <3> QED BY <1>1, <3>1, SourceGoes
  <2> QED BY <1>1, <1>3, <2>1, SparesStay DEF Around
<1>5. WritesThere(c)'
  BY <1>1, <1>3 DEF WritesThere, NoCopy
<1> QED BY <1>1, <1>2, <1>3, <1>4, <1>5, HelperSpares

LEMMA HelperParentSafe ==
  ASSUME ElevationInv, ElevationInv', DoneInv, SafeInv, NEW c \in Calls, HelperParent(c),
         UNCHANGED <<at, request>>, ~Disturbed(c)'
  PROVE  Safe(c)'
<1> DEFINE p == Parent(rq[c].dst)
<1>1. /\ Keeps(c) /\ Advances(c) /\ hp[c] = "parent" /\ Running(hp[c]) /\ CallsTyped
      /\ cp' = cp /\ data' = data /\ goal' = goal
      /\ fs' = IF MkdirResult("root", p) = "ok" THEN WithDirs(p) ELSE fs
  BY HelperParentKeeps, HelperParentAdvances, Parts DEF HelperParent, Running, HelperOver
<1>2. PICK place : hp'[c] = place /\ place \in {"copy", "error"}
  BY <1>1 DEF HelperParent, FailIf, Become, CallsTyped
<1>3. c \in Begun /\ Around(c) /\ rq[c].op = "put"
  BY <1>1, <1>2, HelperWorks DEF FitsOp
<1>4. SameFiles(c)
  <2>1. CASE MkdirResult("root", p) = "ok"
    BY <1>1, <1>3, <2>1, DirsSame DEF Around
  <2>2. CASE MkdirResult("root", p) # "ok"
    BY <1>1, <1>3, <2>2, SameStays DEF Around
  <2> QED BY <2>1, <2>2
<1> QED BY <1>1, <1>2, <1>3, <1>4, HelperSafe

LEMMA HelperRenameCheckSafe ==
  ASSUME ElevationInv, ElevationInv', DoneInv, SafeInv, NEW c \in Calls, HelperRenameCheck(c),
         UNCHANGED <<at, request>>, ~Disturbed(c)'
  PROVE  Safe(c)'
<1>1. /\ Keeps(c) /\ Advances(c) /\ hp[c] = "check" /\ Running(hp[c]) /\ CallsTyped
      /\ rq[c].op = "rename" /\ cp' = cp /\ data' = data /\ fs' = fs /\ goal' = goal
  BY HelperRenameCheckKeeps, HelperRenameCheckAdvances, Parts
     DEF HelperRenameCheck, Running, HelperOver, files
<1>2. PICK place : hp'[c] = place /\ place \in {"rename", "error"}
  BY <1>1 DEF HelperRenameCheck, FailIf, Become, CallsTyped
<1>3. c \in Begun /\ Around(c)
  BY <1>1, <1>2, HelperWorks
<1>4. SameFiles(c)
  BY <1>1, <1>3, SameStays DEF Around
<1> QED BY <1>1, <1>2, <1>4, HelperSafe

\* The destination has been looked at: what lies there may be replaced.
LEMMA HelperMoveCheckSafe ==
  ASSUME ElevationInv, ElevationInv', DoneInv, SafeInv, NEW c \in Calls, HelperMoveCheck(c),
         UNCHANGED <<at, request>>, ~Disturbed(c)'
  PROVE  Safe(c)'
<1> DEFINE d == Resolve(rq[c].src, final[c])
           g == IF Exists(d) /\ rq[c].strategy = "rename" THEN free_dst(d) ELSE d
<1>1. /\ Keeps(c) /\ Advances(c) /\ hp[c] = "check" /\ Running(hp[c]) /\ CallsTyped
      /\ rq[c].op \in {"move", "copy"} /\ cp' = cp /\ data' = data /\ fs' = fs
  BY HelperMoveCheckKeeps, HelperMoveCheckAdvances, Parts
     DEF HelperMoveCheck, Running, HelperOver, files
<1>2. PICK place : hp'[c] = place
  OBVIOUS
<1>3. /\ c \in Begun /\ Around(c) /\ rq[c].src \in Paths /\ cp[c] = NoCopy
      /\ rq'[c] = rq[c] /\ final'[c] = final[c] /\ rq[c] \in Requests
  BY <1>1, <1>2, HelperWorks
<1>4. CASE Become(c, "conflict") /\ UNCHANGED <<goal, todo>>
  <2>1. hp'[c] = "conflict" /\ goal'[c] = goal[c] /\ SameFiles(c)
    BY <1>1, <1>3, <1>4, SameStays DEF Become, CallsTyped, Around
  <2> QED BY <1>1, <2>1, HelperSafe
<1>5. CASE /\ ~(Exists(d) /\ rq[c].strategy = "")
           /\ goal' = [goal EXCEPT ![c] = g]
           /\ Become(c, IF rq[c].op = "move" THEN "rename" ELSE "copy")
  <2>1. goal'[c] = g /\ hp'[c] \in {"rename", "copy"}
    BY <1>1, <1>5 DEF Become, CallsTyped
  <2>2. \A f \in InitFiles : Within(c, f)' => Holds(f, f)
    <3>1. Safe(c)
      BY <1>1, <1>3, WasSafe DEF Advances
    <3> QED BY <1>1, <3>1, NewlyWithin DEF Advances, Safe, NothingYet
  <2>3. g \in Seq(Names) /\ Len(g) # 0 /\ \A q : Under(g, q) => Within(c, q)'
    <3>1. CallInv(c)' /\ c \in Begun' /\ Progress(c)'
      BY <1>1, <1>3 DEF ElevationInv, CallsInv, Begun, Advances
    <3>2. g \in Destinations(rq[c])
      BY <1>3, <2>1, <3>1 DEF CallInv
    <3>3. g \in Seq(Names) /\ g # <<>>
      BY <1>3, <3>2, GoalIsPath
    <3>4. g \in Reach(c)'
      BY <2>1, <3>3 DEF Reach, Touched, Targets
    <3> QED BY <3>3, <3>4 DEF Within
  <2>4. ASSUME NEW f \in InitFiles, Under(g, f) PROVE Overwrites(c, f)'
    <3>1. f \in Paths /\ Exists(f)
      BY <1>3, <2>2, <2>3, <2>4, TreeAssumption, Entry, NamesAssumption DEF Holds, Around
    <3>2. Exists(g)
      BY <1>3, <2>3, <2>4, <3>1, AboveExists DEF Around
    <3>3. rq[c].strategy \in {"merge", "rename"}
      BY <1>3, <1>5, <3>2, RequestsAssumption DEF Request
    <3>4. CASE rq[c].strategy = "rename"
      BY <1>3, <2>1, <2>4, <3>4 DEF Overwrites
    <3>5. CASE rq[c].strategy = "merge"
      <4>1. final[c] \in Seq(Names) /\ Name(rq[c].src) \in Names /\ g = d
        BY <1>1, <1>3, <3>5, PathFacts, ParentAndName DEF CallsTyped
      <4>2. PICK a, n : a = final[c] /\ n = Name(rq[c].src)
        OBVIOUS
      <4>3. a \in Seq(Names) /\ n \in Names /\ g \in {a, Append(a, n)}
        BY <4>1, <4>2 DEF Resolve
      <4>4. Under(a, g)
        BY <4>3, AppendUnder, UnderOrder
      <4>5. f \in Seq(Names)
        BY <3>1, PathFacts
      <4>6. Under(a, f)
        BY <2>3, <2>4, <4>3, <4>4, <4>5, UnderOrder
      <4> QED BY <1>3, <3>5, <4>2, <4>6 DEF Overwrites, Replaces
    <3> QED BY <3>3, <3>4, <3>5
  <2>5. GoalChecked(c)' /\ WritesThere(c)' /\ NothingYet(c)'
    BY <1>1, <1>3, <2>1, <2>4 DEF GoalChecked, WritesThere, NothingYet, NoCopy
  <2>6. Intact(c)'
    <3>1. \A f \in InitFiles : Holds(f, f) => Holds(f, f)'
      BY <1>1 DEF Holds, IsFile
    <3> QED BY <2>2, <3>1 DEF Intact
  <2> QED BY <2>5, <2>6 DEF Safe
<1> QED BY <1>4, <1>5 DEF HelperMoveCheck

LEMMA HelperRenameSafe ==
  ASSUME ElevationInv, ElevationInv', DoneInv, SafeInv, NEW c \in Calls, HelperRename(c),
         UNCHANGED <<at, request>>, ~Disturbed(c)'
  PROVE  Safe(c)'
<1> DEFINE result == RenameResult("root", rq[c].src, goal[c])
<1>1. /\ Keeps(c) /\ Advances(c) /\ hp[c] = "rename" /\ Running(hp[c]) /\ CallsTyped
      /\ cp' = cp /\ data' = data /\ goal' = goal
      /\ fs' = IF result = "ok" THEN Renamed(rq[c].src, goal[c]) ELSE fs
      /\ hp'[c] = IF result = "ok" THEN "ok"
                  ELSE IF result = "other device" /\ rq[c].op = "move" THEN "copy" ELSE "error"
  BY HelperRenameKeeps, HelperRenameAdvances, Parts DEF HelperRename, Running, HelperOver, Become, CallsTyped
<1>2. PICK place : hp'[c] = place /\ place \in {"ok", "copy", "error"}
  BY <1>1
<1>3. /\ c \in Begun /\ Around(c) /\ cp[c] = NoCopy /\ rq[c].op \in {"rename", "move"}
      /\ rq[c].src \in Paths /\ goal[c] \in Reach(c)
      /\ goal[c] \in Seq(Names) /\ goal[c] \in Destinations(rq[c]) /\ rq[c] \in Requests
  BY <1>1, <1>2, HelperWorks DEF FitsOp
<1>4. CASE result = "ok"
  <2>1. Safe(c) /\ Good(c)
    BY <1>1, <1>3, WasSafe DEF Advances
  <2>2. PICK s, d : s = rq[c].src /\ d = goal[c]
    OBVIOUS
  <2>3. s \in Paths /\ d \in Seq(Names) /\ Len(d) # 0 /\ d \in Reach(c)
    BY <1>3, <2>2, GoalIsPath
  <2>4. ASSUME NEW f \in InitFiles, Under(d, f), Holds(f, f) PROVE Overwrites(c, f)
    <3>1. f \in Paths /\ Exists(f)
      BY <1>3, <2>4, TreeAssumption, Entry, NamesAssumption DEF Holds, Around
    <3>2. CASE rq[c].op = "move"
      BY <1>1, <2>1, <2>2, <2>4, <3>2 DEF Safe, GoalChecked
    <3>3. CASE rq[c].op = "rename"
      <4>1. ~Exists(d)
        BY <1>1, <1>3, <2>1, <2>2, <3>3 DEF Good, FreeName, Destinations
      <4> QED BY <1>3, <2>3, <2>4, <3>1, <4>1, AboveExists DEF Around
    <3> QED BY <1>3, <3>2, <3>3
  <2>5. Spares(c)
    <3>1. Finished(c)' /\ RenameResult("root", s, d) = "ok" /\ fs' = Renamed(s, d)
      BY <1>1, <1>4, <2>2 DEF Finished
    <3> QED BY <1>1, <1>3, <2>3, <2>4, <3>1, SparesRenamed DEF Around
  <2>6. WritesThere(c)'
    BY <1>1, <1>3 DEF WritesThere, NoCopy
  <2> QED BY <1>1, <1>2, <2>5, <2>6, HelperSpares
<1>5. CASE result # "ok"
  <2>1. SameFiles(c)
    BY <1>1, <1>3, <1>5, SameStays DEF Around
  <2> QED BY <1>1, <1>2, <2>1, HelperSafe
<1> QED BY <1>4, <1>5

LEMMA CopyDirSafe ==
  ASSUME ElevationInv, ElevationInv', DoneInv, SafeInv, NEW c \in Calls, NEW e \in todo[c],
         CopyDir(c, e), UNCHANGED <<at, request>>, ~Disturbed(c)'
  PROVE  Safe(c)'
<1> DEFINE result == MkdirResult("root", e.to)
<1>1. /\ Keeps(c) /\ Advances(c) /\ hp[c] = "copy" /\ Running(hp[c]) /\ CallsTyped
      /\ cp' = cp /\ data' = data /\ goal' = goal
      /\ fs' = IF result = "ok" THEN WithDirs(e.to) ELSE fs
  BY CopyDirKeeps, CopyDirAdvances, Parts DEF CopyDir, Running, HelperOver
<1>2. PICK place : hp'[c] = place /\ place \in {"copy", "error"}
  BY <1>1 DEF CopyDir, FailIf, Become, CallsTyped
<1>3. c \in Begun /\ Around(c)
  BY <1>1, <1>2, HelperWorks
<1>4. SameFiles(c)
  <2>1. CASE result = "ok"
    BY <1>1, <1>3, <2>1, DirsSame DEF Around
  <2>2. CASE result # "ok"
    BY <1>1, <1>3, <2>2, SameStays DEF Around
  <2> QED BY <2>1, <2>2
<1> QED BY <1>1, <1>2, <1>4, HelperSafe

LEMMA CopyFileSafe ==
  ASSUME ElevationInv, ElevationInv', DoneInv, SafeInv, NEW c \in Calls, NEW e \in todo[c],
         CopyFile(c, e), UNCHANGED <<at, request>>, ~Disturbed(c)'
  PROVE  Safe(c)'
<1> DEFINE can == IsFile(e.from) /\ CreateResult("root", e.to) = "ok"
<1>1. /\ Keeps(c) /\ Advances(c) /\ hp[c] = "copy" /\ Running(hp[c]) /\ CallsTyped /\ CopiesTyped
      /\ cp[c] = NoCopy /\ goal' = goal
      /\ IF can THEN OpenCopy("root", c, e.from, e.to) ELSE UNCHANGED <<files, cp>>
  BY CopyFileKeeps, CopyFileAdvances, Parts DEF CopyFile, Running, HelperOver
<1>2. PICK place : hp'[c] = place /\ place \in {"copy", "error"}
  BY <1>1 DEF CopyFile, FailIf, Become, CallsTyped
<1>3. CASE ~can
  <2>1. cp' = cp /\ fs' = fs /\ data' = data
    BY <1>1, <1>3 DEF files
  <2>2. c \in Begun /\ Around(c)
    BY <1>1, <1>2, <2>1, HelperWorks
  <2>3. SameFiles(c)
    BY <2>1, <2>2, SameStays DEF Around
  <2> QED BY <1>1, <1>2, <2>1, <2>3, HelperSafe
<1>4. CASE can
  <2>1. /\ Create("root", c, e.to, Empty) /\ "root" \in Users
        /\ \A d \in Calls \ {c} : cp'[d] = cp[d]
        /\ cp'[c].to = Created("root", c, e.to)
    BY <1>1, <1>4 DEF OpenCopy, CopiesTyped, Users
  <2>2. /\ Around(c) /\ c \in Begun /\ Quiet(c) /\ ~Finished(c)
        /\ rq'[c] = rq[c] /\ goal'[c] = goal[c] /\ rq[c] \in Requests
        /\ rq[c].op \in {"put", "move", "copy"} /\ rq[c].dst \in Paths
    BY <1>1, <1>2, <2>1, HelperWorks DEF FitsOp
  <2>3. /\ e.from \in Paths /\ Within(c, e.to) /\ e.to \in Paths /\ IsFile(e.from)
        /\ Under(Dest(c), e.to) /\ (rq[c].op # "put" => Dest(c) = goal[c])
    BY <1>1, <1>4, Visited DEF CreateResult
  <2>4. Safe(c) /\ Good(c) /\ InPlace(c)
    BY <1>1, <2>2, WasSafe DEF Advances
  <2>5. rq[c].op = "put" => e.to = rq[c].dst
    <3> SUFFICES ASSUME rq[c].op = "put" PROVE e.to = rq[c].dst
      OBVIOUS
    <3>1. /\ Root(c) = Tmp(c) /\ Image(c, Tmp(c)) = rq[c].dst /\ Sources(c) = {Tmp(c)}
      BY <2>2, PutImage
    <3>2. Copying(c)
      <4>1. ~Overlap(rq[c].dst, Tmp(c))
        BY <2>2, RequestFacts
      <4> QED BY <1>1, <4>1 DEF Copying, Root, Dest, Overlap
    <3>3. Under(Tmp(c), e.from) /\ e.to = Image(c, e.from) /\ IsFile(Tmp(c))
      BY <1>1, <2>4, <3>1, <3>2 DEF Good, CopyInv, ToCopy, Kept, Held, Holds
    <3>4. PICK f, t : f = e.from /\ t = Tmp(c)
      OBVIOUS
    <3>5. t \in Seq(Names) /\ Len(t) # 0 /\ ~IsDir(t) /\ Exists(f) /\ f \in Paths /\ Under(t, f)
      BY <2>2, <2>3, <3>3, <3>4, TmpFacts, PathFacts, Entry, NamesAssumption DEF Around
    <3>6. t = f
      BY <2>2, <3>5, AboveExists DEF Around
    <3> QED BY <3>1, <3>3, <3>4, <3>6
  <2>6. e.to \in InitFiles => Overwrites(c, e.to)
    <3>1. CASE rq[c].op = "put"
      BY <2>5, <3>1 DEF Overwrites, Replaces
    <3>2. CASE rq[c].op # "put"
      BY <1>1, <2>2, <2>3, <2>4, <3>2 DEF Safe, GoalChecked
    <3> QED BY <3>1, <3>2
  <2>7. Spares(c)
    <3>1. PICK p : p = e.to
      OBVIOUS
    <3> QED BY <2>1, <2>2, <2>3, <2>4, <2>6, <3>1, SparesCreate DEF Around
  <2>8. WritesThere(c)'
    <3>1. cp'[c].to.path = e.to
      BY <2>1, <2>2, <2>3, <2>4 DEF InPlace, Created
    <3> QED BY <2>2, <2>3, <2>5, <3>1 DEF WritesThere
  <2> QED BY <1>1, <1>2, <2>1, <2>7, <2>8, HelperSpares
<1> QED BY <1>3, <1>4

LEMMA WriteFileSafe ==
  ASSUME ElevationInv, ElevationInv', DoneInv, SafeInv, NEW c \in Calls, WriteFile(c),
         UNCHANGED <<at, request>>, ~Disturbed(c)'
  PROVE  Safe(c)'
<1>1. /\ Keeps(c) /\ Advances(c) /\ hp[c] = "copy" /\ Running(hp[c]) /\ CallsTyped /\ CopiesTyped
      /\ cp[c] # NoCopy /\ fs' = fs /\ goal' = goal
  BY WriteFileKeeps, WriteFileAdvances, Parts DEF WriteFile, Running, HelperOver
<1>2. CASE CopyChunk(c) /\ UNCHANGED <<hp, faults>>
  <2>1. /\ hp'[c] = "copy" /\ \A d \in Calls \ {c} : cp'[d] = cp[d]
        /\ cp'[c] = NoCopy \/ cp'[c].to = cp[c].to
    BY <1>1, <1>2 DEF CopyChunk, CopiesTyped
  <2>2. /\ Around(c) /\ c \in Begun /\ ~Finished(c) /\ rq'[c] = rq[c]
        /\ rq[c].op \in {"put", "move", "copy"}
    BY <1>1, <2>1, HelperWorks DEF FitsOp
  <2>3. Safe(c) /\ InPlace(c)
    BY <1>1, <2>2, WasSafe DEF Advances
  <2>4. cp[c].to.path \in InitFiles => Overwrites(c, cp[c].to.path)
    <3>1. CASE rq[c].op = "put"
      BY <1>1, <2>3, <3>1 DEF Safe, WritesThere, Overwrites, Replaces
    <3>2. CASE rq[c].op # "put"
      BY <1>1, <2>2, <2>3, <3>2 DEF Safe, WritesThere, GoalChecked
    <3> QED BY <3>1, <3>2
  <2>5. Spares(c)
    BY <1>1, <1>2, <2>2, <2>3, <2>4, SparesChunk DEF Around
  <2>6. WritesThere(c)'
    BY <1>1, <2>1, <2>2, <2>3 DEF Safe, WritesThere, NoCopy
  <2> QED BY <1>1, <2>1, <2>5, <2>6, HelperSpares
<1>3. CASE Become(c, "error") /\ cp' = [cp EXCEPT ![c] = NoCopy] /\ UNCHANGED data
  <2>1. hp'[c] = "error" /\ cp'[c] = NoCopy /\ \A d \in Calls \ {c} : cp'[d] = cp[d]
    BY <1>1, <1>3 DEF Become, CallsTyped, CopiesTyped
  <2>2. c \in Begun /\ Around(c)
    BY <1>1, <2>1, HelperWorks
  <2>3. SameFiles(c)
    BY <1>1, <1>3, <2>2, SameStays DEF Around
  <2> QED BY <1>1, <2>1, <2>3, HelperSafe
<1> QED BY <1>2, <1>3 DEF WriteFile

\* A source is removed when each of its files has been copied, or is to be
\* replaced: where the destination is above it.
LEMMA CopiedSafe ==
  ASSUME ElevationInv, ElevationInv', DoneInv, SafeInv, NEW c \in Calls, Copied(c),
         UNCHANGED <<at, request>>, ~Disturbed(c)'
  PROVE  Safe(c)'
<1>1. /\ Keeps(c) /\ Advances(c) /\ hp[c] = "copy" /\ Running(hp[c]) /\ CallsTyped
      /\ cp[c] = NoCopy /\ todo[c] = {} /\ data' = data /\ goal' = goal /\ cp' = cp
  BY CopiedKeeps, CopiedAdvances, Parts DEF Copied, Running, HelperOver
<1>2. PICK place : hp'[c] = place /\ place \in {"ok", "error", "killed"}
  BY <1>1, SourceGoes DEF Copied, Become, CallsTyped
<1>3. /\ Around(c) /\ c \in Begun /\ rq[c].op \in {"put", "move", "copy"}
      /\ rq[c].src \in Paths /\ goal[c] \in Seq(Names)
  BY <1>1, <1>2, HelperWorks DEF FitsOp
<1>4. Safe(c) /\ Good(c) /\ WritesThere(c)'
  BY <1>1, <1>3, WasSafe DEF Advances, WritesThere, NoCopy
<1>5. CASE rq[c].op = "put" /\ DropTmp(c)
  <2>1. Spares(c)
    BY <1>1, <1>3, <1>5, SparesTmp DEF Around
  <2> QED BY <1>1, <1>2, <1>4, <2>1, HelperSpares
<1>6. CASE rq[c].op = "copy" /\ UNCHANGED fs
  <2>1. SameFiles(c)
    BY <1>1, <1>3, <1>6, SameStays DEF Around
  <2> QED BY <1>1, <1>2, <2>1, HelperSafe
<1>7. CASE rq[c].op = "move" /\ RemoveSource(c)
  <2>1. PICK s : s = rq[c].src /\ s \in Paths /\ s \in Seq(Names) /\ Len(s) # 0
    BY <1>3, PathFacts
  <2>2. \A q \in Paths : fs'[q] = fs[q] \/ (fs'[q] = None /\ Under(s, q))
    BY <1>1, <1>7, <2>1, SourceGoes
  <2>3. ASSUME NEW q \in Paths, fs'[q] = fs[q], NEW f, Holds(q, f) PROVE Holds(q, f)'
    <3>1. fs[q] \in Inodes /\ data[fs[q]] = Whole(f)
      BY <1>3, <2>3, Entry DEF Holds, Around
    <3>2. IsFile(q)'
      BY <1>3, <2>3, <3>1, EntryNext DEF Around
    <3> QED BY <1>1, <2>3, <3>1, <3>2 DEF Holds
  <2>4. Ended(c)'
    <3>1. rq'[c] = rq[c]
      BY <1>1, <1>2, HelperWorks
    <3> QED BY <1>2, <1>7, <3>1 DEF Ended, Finished
  <2>5. ASSUME NEW f \in InitFiles, Within(c, f), ~Overwrites(c, f), Holds(f, f), Under(s, f)
        PROVE  \E p \in Paths : Within(c, p) /\ Holds(p, f)'
    <3>1. f \in Paths /\ f \in Seq(Names)
      BY TreeAssumption, PathFacts
    <3>2. ~OntoItself(c)
      <4>1. ASSUME Under(goal[c], s) PROVE FALSE
        <5>1. Under(goal[c], f)
          BY <1>3, <2>1, <2>5, <3>1, <4>1, UnderOrder
        <5> QED BY <1>1, <1>4, <1>7, <2>5, <5>1 DEF Safe, GoalChecked
      <4> QED BY <2>1, <4>1 DEF OntoItself
    <3>3. PICK p : Holds(p, f) /\ Within(c, p) /\ ~Under(s, p)
      BY <1>1, <1>3, <1>4, <1>7, <2>1, <2>5, <3>2, CopiedThere DEF Good
    <3>4. p \in Paths
      BY <1>3, <3>3, Entry DEF Holds, Around
    <3> QED BY <2>2, <2>3, <3>3, <3>4
  <2>6. Spares(c)
    <3>1. \A f \in InitFiles : f \in Paths
      BY TreeAssumption
    <3> QED BY <2>2, <2>3, <2>4, <2>5, <3>1 DEF Spares
  <2> QED BY <1>1, <1>2, <1>4, <2>6, HelperSpares
<1> QED BY <1>5, <1>6, <1>7 DEF Copied

\* The steps of a call, and what they leave of another's files.
LEMMA StepSafe ==
  ASSUME ElevationInv, ElevationInv', DoneInv, SafeInv, NEW c \in Calls, Step(c), ~Disturbed(c)'
  PROVE  Safe(c)'
<1>1. ASSUME NEW r \in Requests, Arrive(c, r) PROVE Safe(c)'
  BY <1>1, ArriveSafe
<1>2. CASE Handler(c) \/ PutBody(c) \/ Abort(c) \/ Killed(c)
  BY <1>2, PutCreateSafe, PutBodySafe, PutParentSafe, PutPlaceSafe, PutCreateTargetSafe,
     PutCopySafe, MkdirSafe, RenameCheckSafe, RenameSafe, DeleteSafe, MoveCheckSafe,
     CollectSafe, AbortSafe, KilledSafe DEF Handler
<1>3. CASE Helper(c)
  <2>1. UNCHANGED <<at, request>> /\ \A e \in Deepest(todo[c]) : e \in todo[c]
    BY <1>3 DEF Helper, Deepest
  <2> QED BY <1>3, <2>1, SudoStepSafe, HelperMkdirSafe, HelperDeleteSafe, HelperParentSafe,
             HelperRenameCheckSafe, HelperMoveCheckSafe, HelperRenameSafe, CopyDirSafe,
             CopyFileSafe, WriteFileSafe, CopiedSafe DEF Helper
<1> QED BY <1>1, <1>2, <1>3 DEF Step

LEMMA OthersSafe ==
  ASSUME ElevationInv, ElevationInv', DoneInv, SafeInv, NEW c \in Calls, Advances(c),
         NEW d \in Begun' \ {c}, ~Disturbed(d)'
  PROVE  Safe(d)'
<1>1. d \in Begun \ {c} /\ d \in Calls \ {c} /\ ~Disturbed(d)
  BY Grows DEF Advances, Begun
<1>2. \A e \in Calls : CallInv(e)' /\ Progress(e)'
  BY OthersProgress DEF Advances, DoneInv, ElevationInv, CallsInv
<1>3. Same(d)
  BY <1>1, <1>2, KnownFrom, OthersSame DEF Advances
<1>4. /\ rq'[d] = rq[d] /\ final'[d] = final[d] /\ goal'[d] = goal[d] /\ at'[d] = at[d]
      /\ hp'[d] = hp[d] /\ cp'[d] = cp[d]
  BY <1>1 DEF Advances, Local, OthersWait
<1>5. Onward(d)
  BY <1>4 DEF Onward, Quiet, Finished, Ended
<1>6. FilesTyped /\ FilesTyped' /\ Safe(d) /\ SameFiles(d)
  BY <1>1, <1>3, Parts DEF ElevationInv, TypeOK, FilesTyped, SafeInv, Same
<1> QED BY <1>1, <1>4, <1>5, <1>6, SafeStays

\* A restart, and what is not a step of the system, leave the files alone.
LEMMA RestSafe ==
  ASSUME ElevationInv, ElevationInv', DoneInv, SafeInv, Restart \/ UNCHANGED vars
  PROVE  SafeInv'
<1>1. /\ fs' = fs /\ data' = data /\ rq' = rq /\ final' = final /\ goal' = goal
      /\ FilesTyped /\ FilesTyped' /\ CallsTyped
  BY Parts DEF Restart, vars, files, request, ElevationInv, TypeOK, FilesTyped
<1>2. ASSUME NEW c \in Calls
      PROVE  /\ at'[c] = at[c] \/ (at[c] \notin Over \cup {"idle"} /\ at'[c] = "gone")
             /\ hp'[c] = hp[c] \/ (Running(hp[c]) /\ hp'[c] = "killed")
             /\ cp'[c] = cp[c] \/ cp'[c] = NoCopy
  <2>1. CASE Restart
    BY <1>2, <2>1 DEF Restart, Running
  <2>2. CASE UNCHANGED vars
    BY <2>2 DEF vars
  <2> QED BY <2>1, <2>2
<1>3. Begun' = Begun /\ \A c : Disturbed(c)' <=> Disturbed(c)
  <2>1. Begun' = Begun
    BY <1>2 DEF Begun, Over
  <2> QED BY <1>1, <2>1 DEF Disturbed, Meet, Touched, Targets
<1>4. ASSUME NEW c \in Begun, ~Disturbed(c) PROVE Safe(c)'
  <2>1. c \in Calls /\ Safe(c)
    BY <1>4 DEF SafeInv, Begun
  <2>2. Onward(c)
    <3>1. Ended(c) => Ended(c)'
      BY <1>1, <1>2, <2>1 DEF Ended, Finished, Running, HelperOver, Over, Answers
    <3>2. hp'[c] = hp[c] \/ (hp[c] # "none" /\ hp'[c] = "killed")
      BY <1>2, <2>1 DEF Running
    <3> QED BY <1>1, <3>1, <3>2 DEF Onward, Quiet
  <2>3. SameFiles(c)
    BY <1>1, <2>1, SameStays
  <2> QED BY <1>1, <1>2, <2>1, <2>2, <2>3, SafeStays
<1> QED BY <1>3, <1>4 DEF SafeInv

LEMMA NextSafe == ElevationInv /\ ElevationInv' /\ DoneInv /\ SafeInv /\ [Next]_vars => SafeInv'
<1> SUFFICES ASSUME ElevationInv, ElevationInv', DoneInv, SafeInv, [Next]_vars PROVE SafeInv'
  OBVIOUS
<1>1. ASSUME NEW c \in Calls, Step(c) PROVE SafeInv'
  BY <1>1, StepAdvances, StepSafe, OthersSafe DEF SafeInv
<1>2. CASE Restart \/ UNCHANGED vars
  BY <1>2, RestSafe
<1> QED BY <1>1, <1>2 DEF Next, Step

\* A file that was there at the start is whole somewhere, unless a call that
\* works on it was to replace or delete it, or another call works on the same
\* part of the tree: an elevated move takes its source away only when every
\* file has been renamed or copied, also when a write fails, the daemon
\* restarts or the helper is killed (copy_recursive, remove_dir_all), no rename
\* or copy lands on a file its user did not say to replace, and none is lost to
\* the calls that work elsewhere.
KeptApart ==
  \A f \in InitFiles :
    \/ \E p \in Paths : Holds(p, f)
    \/ \E c \in Begun : Within(c, f) /\ (Overwrites(c, f) \/ Disturbed(c))

\* FilesKept, for any number of calls, trees and faults, of the files on which
\* one call works at a time.
THEOREM FilesKeptApart == Spec => []KeptApart
<1>1. Init => SafeInv
  BY InitDone DEF Init, Begun, SafeInv
<1>2. ElevationInv /\ DoneInv /\ SafeInv /\ [Next]_vars => SafeInv'
  BY NextKeeps, NextSafe
<1>3. DoneInv /\ SafeInv => KeptApart
  <2> SUFFICES ASSUME DoneInv, SafeInv, NEW f \in InitFiles, ~Holds(f, f),
                      \A c \in Begun : Within(c, f) => ~Overwrites(c, f) /\ ~Disturbed(c)
               PROVE  \E p \in Paths : Holds(p, f)
    BY TreeAssumption DEF KeptApart
  <2>1. PICK c \in Begun : Within(c, f)
    BY DEF DoneInv, OutOfReach
  <2> QED BY <2>1 DEF SafeInv, Safe, Intact
<1> QED BY <1>1, <1>2, <1>3, ElevationInvariant, ElevationDoneInvariant, PTL DEF Spec
=============================================================================
