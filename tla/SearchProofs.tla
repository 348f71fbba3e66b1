---------------------------- MODULE SearchProofs ----------------------------
(***************************************************************************)
(* What the walk of Search finds, for any tree, any queries and any cap.   *)
(*                                                                         *)
(* The argument: until the cap is reached, every result is recorded or     *)
(* lies at or below an entry that the walk has still to visit; and no two  *)
(* pending entries, and no pending entry and recorded result, lie one      *)
(* below the other, so that nothing is recorded twice and a match that     *)
(* meets the cap is one that is not listed.                                *)
(***************************************************************************)
EXTENDS Search, PathProofs, FiniteSetTheorems, SequenceTheorems, TLAPS

USE TreeAssumption, MatchingAssumption, ResultsAssumption

\* What a search has recorded, s, agrees with what it has still to visit, w.
RunInv(s, w) ==
  /\ s.call \in Calls /\ s.status \in {"running", "done"}
  /\ s.status = "done" => w = {}
  /\ s.truncated => Full(s) /\ Results(s.call) \ s.matches # {}
  /\ s.matches \subseteq Results(s.call)
  /\ Cardinality(s.matches) <= MaxResults
  /\ \A p \in w : Reachable(p)
  /\ \A p, q \in w : Under(p, q) => p = q
  /\ \A p \in w, m \in s.matches : ~Under(p, m)
  /\ ~Full(s) => \A r \in Results(s.call) \ s.matches : \E p \in w : Under(p, r)

\* The calls whose request the daemon or the network has dealt with.
Begun == {c \in Calls : post[c] \notin {"idle", "sent"}}

\* What the page refers to: an answered call has an id, and the polls of a
\* chain and the active search are those of answered calls.
PageInv ==
  \A c \in Calls :
    /\ post[c] \in {"answered", "done"} => sid[c] \in Ids
    /\ post[c] # "done" => poll[c] = "none" /\ of[c] = c
    /\ poll[c] # "none" => sid[of[c]] \in Ids
    /\ active = c => sid[c] \in Ids

RunsInv ==
  \A i \in Ids : \/ searches[i] = NoSearch /\ walk[i] = {}
                 \/ RunInv(searches[i], walk[i])

CountInv == nextId <= Cardinality(Begun) + 1

SearchInv == TypeOK /\ RunsInv /\ CountInv /\ PageInv

---------------------------------------------------------------------------
\* The tree.

LEMMA EntriesAreSequences ==
  /\ \A e \in Entries \cup Dirs : e \in Seq(Names) /\ Len(e) \in Nat /\ Reachable(<< >>)
  /\ \A c \in Calls : Matching[c] \subseteq Entries /\ Results(c) \subseteq Entries
<1>1. << >> \in Seq(Names) /\ Len(<< >>) = 0
  OBVIOUS
<1>2. \A e \in Entries \cup Dirs : e \in Seq(Names) /\ Len(e) \in Nat
  <2>1. Entries \cup Dirs \subseteq Seq(Names)
    <3>1. Entries \subseteq Seq(Names) /\ Dirs \subseteq Entries \cup {<< >>}
      OBVIOUS
    <3> QED BY <1>1, <3>1
  <2>2. \A e \in Seq(Names) : Len(e) \in Nat
    OBVIOUS
  <2> QED BY <2>1, <2>2
<1>3. Reachable(<< >>)
  BY <1>1 DEF Reachable
<1>4. ASSUME NEW c \in Calls PROVE Matching[c] \subseteq Entries
  BY <1>4 DEF Calls
<1> QED BY <1>2, <1>3, <1>4 DEF Results

\* What lies below an entry shows that it is a directory, and one that can be
\* read if what lies below is reachable.
LEMMA AboveIsDir ==
  ASSUME NEW r \in Entries, NEW p \in Entries, Under(p, r), p # r
  PROVE  p \in Dirs /\ (Reachable(r) => p \notin Unreadable)
<1>1. p \in Seq(Names) /\ r \in Seq(Names) /\ Len(p) \in Nat /\ Len(r) \in Nat
  BY EntriesAreSequences
<1>2. p = SubSeq(r, 1, Len(p)) /\ Len(p) <= Len(r) /\ Len(p) # Len(r)
  BY <1>1, UnderOrder DEF Under
<1>3. Len(p) \in 0 .. Len(r) - 1
  BY <1>1, <1>2
<1>4. SubSeq(r, 1, Len(p)) \in Dirs
  BY <1>3
<1>5. Reachable(r) => SubSeq(r, 1, Len(p)) \notin Unreadable
  BY <1>3 DEF Reachable
<1> QED BY <1>2, <1>4, <1>5

\* What read_dir of a directory gives: entries one level down, and one above
\* each entry that lies in the directory.
LEMMA ChildrenProps ==
  ASSUME NEW d \in Dirs
  PROVE  /\ \A f \in Children(d) : f \in Entries /\ Len(f) = Len(d) + 1 /\ Under(d, f) /\ f # d
         /\ \A r \in Entries : Under(d, r) /\ r # d => \E f \in Children(d) : Under(f, r)
         /\ d \notin Unreadable /\ Reachable(d) => \A f \in Children(d) : Reachable(f)
<1>0. d \in Seq(Names) /\ Len(d) \in Nat
  BY EntriesAreSequences
<1>1. ASSUME NEW f \in Children(d)
      PROVE  f \in Entries /\ Len(f) = Len(d) + 1 /\ Under(d, f) /\ f # d
  BY <1>0 DEF Children
<1>2. ASSUME NEW r \in Entries, Under(d, r), r # d
      PROVE  \E f \in Children(d) : Under(f, r)
  <2> DEFINE f == SubSeq(r, 1, Len(d) + 1)
  <2>1. r \in Seq(Names) /\ Len(r) \in Nat
    BY EntriesAreSequences
  <2>2. Len(d) <= Len(r) /\ Len(d) # Len(r)
    BY <1>0, <1>2, <2>1, UnderOrder DEF Under
  <2>3. Len(d) + 1 \in 0 .. Len(r)
    BY <1>0, <2>1, <2>2
  <2>4. f \in Seq(Names) /\ Len(f) = Len(d) + 1 /\ Under(f, r)
    BY <2>1, <2>3, PrefixUnder
  <2>5. Under(d, f)
    <3> HIDE DEF f
    <3>1. Len(d) <= Len(f)
      BY <1>0, <2>4
    <3> QED BY <1>0, <1>2, <2>1, <2>4, <3>1, UnderOrder
  <2>6. f \in Entries
    <3>1. CASE Len(d) + 1 = Len(r)
      BY <2>1, <3>1, SubSeqFull
    <3>2. CASE Len(d) + 1 # Len(r)
      <4>1. Len(d) + 1 \in 0 .. Len(r) - 1
        BY <2>1, <2>3, <3>2
      <4>2. f \in Dirs
        BY <4>1
      <4>3. f # << >>
        BY <1>0, <2>4
      <4> QED BY <4>2, <4>3
    <3> QED BY <3>1, <3>2
  <2> QED BY <2>4, <2>5, <2>6 DEF Children
<1>3. ASSUME d \notin Unreadable, Reachable(d), NEW f \in Children(d)
      PROVE  Reachable(f)
  <2>1. f \in Seq(Names) /\ Len(f) = Len(d) + 1 /\ Under(d, f)
    BY <1>1, EntriesAreSequences
  <2>2. SUFFICES ASSUME NEW n \in 0 .. Len(f) - 1 PROVE SubSeq(f, 1, n) \notin Unreadable
    BY DEF Reachable
  <2>3. n \in 0 .. Len(d) /\ n \in 0 .. Len(f)
    BY <1>0, <2>1
  <2>4. CASE n = Len(d)
    BY <1>3, <2>1, <2>4 DEF Under
  <2>5. CASE n # Len(d)
    <3>1. n \in 0 .. Len(d) - 1
      BY <1>0, <2>3, <2>5
    <3>2. SubSeq(d, 1, n) \notin Unreadable
      BY <1>3, <3>1 DEF Reachable
    <3>3. /\ SubSeq(d, 1, n) \in Seq(Names) /\ Len(SubSeq(d, 1, n)) = n /\ Under(SubSeq(d, 1, n), d)
          /\ SubSeq(f, 1, n) \in Seq(Names) /\ Len(SubSeq(f, 1, n)) = n /\ Under(SubSeq(f, 1, n), f)
      BY <1>0, <2>1, <2>3, PrefixUnder
    <3>5. SubSeq(d, 1, n) = SubSeq(f, 1, n)
      <4> DEFINE a == SubSeq(d, 1, n)
                 b == SubSeq(f, 1, n)
      <4>0. /\ a \in Seq(Names) /\ b \in Seq(Names) /\ Len(a) = Len(b) /\ Len(a) <= Len(b)
            /\ Under(a, d) /\ Under(b, f)
        BY <3>3
      <4> HIDE DEF a, b
      <4>1. /\ a \in Seq(Names) /\ b \in Seq(Names) /\ Len(a) = Len(b) /\ Len(a) <= Len(b)
            /\ Under(a, f) /\ Under(b, f)
        <5>1. Under(a, f)
          BY <1>0, <2>1, <4>0, UnderOrder
        <5> QED BY <4>0, <5>1
      <4>2. Under(a, b)
        BY <2>1, <4>1, UnderOrder
      <4>3. a = b
        BY <4>1, <4>2, UnderOrder
      <4> QED BY <4>3 DEF a, b
    <3> QED BY <3>2, <3>5
  <2> QED BY <2>4, <2>5
<1> QED BY <1>1, <1>2, <1>3

---------------------------------------------------------------------------
\* The walk.

\* A record's matches are finitely many, and a truncated record stays full.
LEMMA MatchesFinite ==
  ASSUME NEW M \in SUBSET Entries
  PROVE  IsFiniteSet(M) /\ Cardinality(M) \in Nat
BY FS_Subset, FS_CardinalityType

\* The record and the frame that a search begins with.
LEMMA StartRun ==
  ASSUME NEW c \in Calls, NEW s,
         s = [call |-> c, status |-> "running", matches |-> {}, truncated |-> FALSE]
  PROVE  s \in Record /\ Frame(s, << >>) \subseteq Entries /\ RunInv(s, Frame(s, << >>))
<1> DEFINE w == Frame(s, << >>)
<1>1. << >> \in Dirs /\ << >> \in Seq(Names) /\ Reachable(<< >>) /\ Results(c) \subseteq Entries
  BY EntriesAreSequences
<1>2. /\ s.call = c /\ s.status = "running" /\ s.matches = {} /\ s.truncated = FALSE
      /\ s \in Record /\ Cardinality(s.matches) = 0 /\ ~Full(s)
  BY FS_EmptySet DEF Record, Full
<1>3. w = IF << >> \in Unreadable THEN {} ELSE Children(<< >>)
  BY <1>2 DEF Frame
<1> HIDE DEF w
<1>4. w \subseteq Entries /\ \A p \in w : Reachable(p)
  BY <1>1, <1>3, ChildrenProps
<1>5. ASSUME NEW p \in w, NEW q \in w, Under(p, q) PROVE p = q
  <2>1. p \in Seq(Names) /\ q \in Seq(Names)
    BY <1>4, EntriesAreSequences
  <2>2. Len(p) = Len(q)
    BY <1>1, <1>3, ChildrenProps
  <2> QED BY <1>5, <2>1, <2>2, UnderOrder
<1>6. ASSUME NEW r \in Results(c) PROVE \E p \in w : Under(p, r)
  <2>1. r \in Entries /\ Reachable(r) /\ r # << >> /\ r \in Seq(Names) /\ Len(r) \in Nat
    BY <1>1 DEF Results
  <2>2. Under(<< >>, r)
    <3>1. Len(<< >>) = 0 /\ 0 <= Len(r)
      BY <2>1
    <3>2. SubSeq(r, 1, 0) = << >>
      BY SubSeqEmpty
    <3> QED BY <3>1, <3>2 DEF Under
  <2>3. << >> \notin Unreadable
    <3>1. 0 \in 0 .. Len(r) - 1
      BY <2>1
    <3>2. SubSeq(r, 1, 0) = << >>
      BY SubSeqEmpty
    <3> QED BY <2>1, <3>1, <3>2 DEF Reachable
  <2> QED BY <1>1, <1>3, <2>1, <2>2, <2>3, ChildrenProps
<1>7. RunInv(s, w)
  BY <1>2, <1>4, <1>5, <1>6 DEF RunInv
<1> QED BY <1>2, <1>4, <1>7 DEF w

\* A match that meets the cap.
LEMMA CapRun ==
  ASSUME NEW s \in Record, NEW w \in SUBSET Entries, RunInv(s, w), NEW e \in w,
         e \in Matching[s.call], Full(s), NEW v \in SUBSET w
  PROVE  RunInv([s EXCEPT !.truncated = TRUE], v) /\ [s EXCEPT !.truncated = TRUE] \in Record
<1> DEFINE t == [s EXCEPT !.truncated = TRUE]
<1>1. /\ t \in Record /\ t.call = s.call /\ t.status = s.status /\ t.matches = s.matches
      /\ t.truncated = TRUE
  BY DEF Record
<1> HIDE DEF t
<1>2. e \in Results(s.call) \ s.matches
  <2>1. e \in Entries /\ e \in Seq(Names)
    BY EntriesAreSequences
  <2> QED BY <2>1, UnderOrder DEF RunInv, Results
<1>3. Full(t)
  BY <1>1 DEF Full
<1>4. RunInv(t, v)
  BY <1>1, <1>2, <1>3 DEF RunInv
<1> QED BY <1>1, <1>4 DEF t

\* Any other entry: it is recorded if it matches, and entered if it is a
\* directory.
LEMMA VisitRun ==
  ASSUME NEW s \in Record, NEW w \in SUBSET Entries, RunInv(s, w), NEW e \in w,
         e \notin Matching[s.call] \/ ~Full(s)
  PROVE  /\ Found(s, e) \in Record /\ Descend(Found(s, e), e, w) \in SUBSET Entries
         /\ RunInv(Found(s, e), Descend(Found(s, e), e, w))
<1> DEFINE t == Found(s, e)
           F == IF e \in Dirs THEN Frame(t, e) ELSE {}
           v == (w \ {e}) \cup F
<1>0. /\ e \in Entries /\ e \in Seq(Names) /\ Reachable(e) /\ Under(e, e)
      /\ \A p \in w : p \in Entries /\ p \in Seq(Names)
      /\ s.call \in Calls /\ Results(s.call) \subseteq Entries
      /\ Matching[s.call] \subseteq Entries
  BY EntriesAreSequences, UnderOrder DEF RunInv
<1>1. /\ t.call = s.call /\ t.status = s.status /\ t.truncated = s.truncated
      /\ t.matches = IF e \in Matching[s.call] THEN s.matches \cup {e} ELSE s.matches
      /\ t \in Record
  BY <1>0 DEF Found, Record
<1> HIDE DEF t
<1>2. s.status = "running"
  BY DEF RunInv
<1>3. /\ IsFiniteSet(s.matches) /\ Cardinality(s.matches) \in Nat
      /\ IsFiniteSet(t.matches) /\ Cardinality(t.matches) \in Nat
  BY <1>1, MatchesFinite DEF Record
<1>4. e \notin s.matches
  BY <1>0 DEF RunInv
<1>5. Cardinality(t.matches) <= MaxResults /\ (Full(s) => Full(t)) /\ (s.truncated => t = s)
  <2>1. CASE e \in Matching[s.call]
    <3>1. ~Full(s) /\ ~s.truncated
      BY <2>1 DEF RunInv
    <3>2. Cardinality(t.matches) = Cardinality(s.matches) + 1
      <4>1. t.matches = s.matches \cup {e}
        BY <1>1, <2>1
      <4>2. Cardinality(s.matches \cup {e}) = Cardinality(s.matches) + 1
        BY <1>3, <1>4, FS_AddElement
      <4> QED BY <4>1, <4>2
    <3>3. Cardinality(t.matches) <= MaxResults
      BY <1>3, <3>1, <3>2 DEF Full
    <3> QED BY <3>1, <3>3
  <2>2. CASE e \notin Matching[s.call]
    <3>1. t = s
      BY <2>2 DEF t, Found
    <3> QED BY <3>1 DEF RunInv
  <2> QED BY <2>1, <2>2
<1>6. t.matches \subseteq Results(s.call)
  BY <1>0, <1>1 DEF RunInv, Results
<1>7. F \subseteq Children(e) /\ (F # {} => e \in Dirs /\ e \notin Unreadable)
  BY DEF Frame
<1>8. \A f \in F : f \in Entries /\ f \in Seq(Names) /\ Len(f) = Len(e) + 1 /\ Under(e, f)
                   /\ f # e /\ Reachable(f)
  BY <1>0, <1>7, ChildrenProps, EntriesAreSequences
<1>9. v \in SUBSET Entries /\ \A p \in v : Reachable(p) /\ p \in Seq(Names)
  BY <1>0, <1>8 DEF RunInv
<1> HIDE DEF F
<1>10. ASSUME NEW p \in v, NEW q \in v, Under(p, q) PROVE p = q
  <2>1. CASE p \in w \ {e} /\ q \in w \ {e}
    BY <1>10, <2>1 DEF RunInv
  <2>2. CASE p \in F /\ q \in F
    BY <1>8, <1>10, <2>2, UnderOrder
  <2>3. CASE p \in F /\ q \in w \ {e}
    <3>1. Under(e, q)
      BY <1>0, <1>8, <1>10, <2>3, UnderOrder
    <3> QED BY <2>3, <3>1 DEF RunInv
  <2>4. CASE p \in w \ {e} /\ q \in F
    <3>1. Len(p) <= Len(q) /\ Len(q) = Len(e) + 1 /\ Len(e) \in Nat /\ Len(p) \in Nat
          /\ Under(e, q) /\ p \in Seq(Names) /\ q \in Seq(Names)
      BY <1>0, <1>8, <1>10, <2>4, EntriesAreSequences DEF Under
    <3>2. CASE Len(p) = Len(q)
      BY <1>10, <3>1, <3>2, UnderOrder
    <3>3. CASE Len(p) # Len(q)
      <4>1. Len(p) <= Len(e)
        BY <3>1, <3>3
      <4>2. Under(p, e)
        BY <1>0, <1>10, <3>1, <4>1, UnderOrder
      <4> QED BY <2>4, <4>2 DEF RunInv
    <3> QED BY <3>2, <3>3
  <2> QED BY <2>1, <2>2, <2>3, <2>4
<1>11. ASSUME NEW p \in v, NEW m \in t.matches, Under(p, m) PROVE FALSE
  <2>0. m \in Entries /\ m \in Seq(Names) /\ p \in Seq(Names)
    BY <1>0, <1>6, <1>9
  <2>1. CASE p \in w \ {e}
    BY <1>1, <1>11, <2>1 DEF RunInv
  <2>2. CASE p \in F
    <3>1. Under(e, m)
      BY <1>0, <1>8, <1>11, <2>0, <2>2, UnderOrder
    <3>2. m = e
      BY <1>1, <3>1 DEF RunInv
    <3>3. Len(p) <= Len(e) /\ Len(p) = Len(e) + 1 /\ Len(e) \in Nat
      BY <1>0, <1>8, <1>11, <2>2, <3>2, EntriesAreSequences DEF Under
    <3> QED BY <3>3
  <2> QED BY <2>1, <2>2
<1>12. ASSUME ~Full(t), NEW r \in Results(s.call) \ t.matches
       PROVE  \E p \in v : Under(p, r)
  <2>1. PICK p \in w : Under(p, r)
    BY <1>1, <1>5, <1>12 DEF RunInv
  <2>2. CASE p # e
    BY <2>1, <2>2
  <2>3. CASE p = e
    <3>1. r # e
      BY <1>1, <1>12 DEF Results
    <3>2. r \in Entries /\ Reachable(r)
      BY <1>0, <1>12 DEF Results
    <3>3. e \in Dirs /\ e \notin Unreadable
      BY <1>0, <2>1, <2>3, <3>1, <3>2, AboveIsDir
    <3>4. F = Children(e)
      <4>1. ~t.truncated
        BY <1>1, <1>5, <1>12 DEF RunInv
      <4> QED BY <1>12, <3>3, <4>1 DEF F, Frame
    <3>5. \E f \in Children(e) : Under(f, r)
      BY <2>1, <2>3, <3>1, <3>2, <3>3, ChildrenProps
    <3> QED BY <3>4, <3>5
  <2> QED BY <2>2, <2>3
<1>13. RunInv(t, v)
  <2>1. t.truncated => Full(t) /\ Results(t.call) \ t.matches # {}
    BY <1>1, <1>5 DEF RunInv
  <2>2. t.call \in Calls /\ t.status = "running"
    BY <1>0, <1>1, <1>2
  <2> QED BY <1>1, <1>5, <1>6, <1>9, <1>10, <1>11, <1>12, <2>1, <2>2 DEF RunInv
<1>14. v = Descend(t, e, w)
  BY DEF Descend, F
<1> QED BY <1>1, <1>9, <1>13, <1>14 DEF t

---------------------------------------------------------------------------
\* Ids are handed out one to a request, so they do not run out.
LEMMA BegunFinite ==
  /\ IsFiniteSet(Calls) /\ Cardinality(Calls) = Len(Matching) /\ Len(Matching) \in Nat
  /\ IsFiniteSet(Begun) /\ Cardinality(Begun) \in Nat
<1>1. Len(Matching) \in Nat
  OBVIOUS
<1>2. IsFiniteSet(Calls) /\ Cardinality(Calls) = Len(Matching)
  <2> DEFINE n == Len(Matching)
  <2>1. n \in Nat /\ n \in Int /\ 1 \in Int
    BY <1>1
  <2> HIDE DEF n
  <2>2. IsFiniteSet(1 .. n) /\ Cardinality(1 .. n) = IF 1 > n THEN 0 ELSE n - 1 + 1
    BY <2>1, FS_Interval
  <2>3. Cardinality(1 .. n) = n
    BY <2>1, <2>2
  <2> QED BY <2>2, <2>3 DEF Calls, n
<1>3. IsFiniteSet(Begun)
  BY <1>2, FS_Subset DEF Begun
<1> QED BY <1>1, <1>2, <1>3, FS_CardinalityType

LEMMA CountKept ==
  ASSUME TypeOK, CountInv, UNCHANGED nextId,
         \A c \in Calls : post[c] \notin {"idle", "sent"} => post'[c] \notin {"idle", "sent"}
  PROVE  CountInv'
<1>1. Begun \subseteq Begun'
  BY DEF Begun
<1>2. IsFiniteSet(Begun') /\ Cardinality(Begun') \in Nat
  <2>1. Begun' \subseteq Calls
    BY DEF Begun
  <2> QED BY <2>1, BegunFinite, FS_Subset, FS_CardinalityType
<1>3. Cardinality(Begun) <= Cardinality(Begun')
  BY <1>1, <1>2, FS_Subset
<1>4. nextId \in Nat
  BY BegunFinite DEF TypeOK
<1> QED BY <1>2, <1>3, <1>4, BegunFinite DEF CountInv

\* What leaves the records alone keeps what is said of them.
LEMMA RunsKept ==
  ASSUME RunsInv, UNCHANGED <<searches, walk>>
  PROVE  RunsInv'
<1>1. UNCHANGED <<searches, walk>>
  OBVIOUS
<1>2. \A s, w : RunInv(s, w) <=> RunInv(s, w)'
  BY DEF RunInv, Full
<1> QED BY <1>1, <1>2 DEF RunsInv

LEMMA InitInv == Init => SearchInv
<1> SUFFICES ASSUME Init PROVE SearchInv
  OBVIOUS
<1>1. Len(Matching) \in Nat /\ Cardinality({}) = 0
  BY FS_EmptySet
<1>2. NoSearch \in Record /\ NoSearch.matches = {}
  BY DEF NoSearch, Record
<1>3. searches \in [Ids -> Record] /\ walk \in [Ids -> SUBSET Entries]
  BY <1>2 DEF Init
<1>4. \A i \in Ids : Cardinality(searches[i].matches) <= MaxResults
  <2>1. \A i \in Ids : searches[i].matches = {}
    BY <1>2 DEF Init
  <2>2. 0 <= MaxResults
    OBVIOUS
  <2> QED BY <1>1, <2>1, <2>2
<1>5. nextId \in 1 .. Len(Matching) + 1 /\ faults \in 0 .. MaxFaults
  BY <1>1 DEF Init
<1>6. TypeOK
  BY <1>3, <1>4, <1>5 DEF Init, TypeOK
<1>7. RunsInv
  BY DEF Init, RunsInv
<1>8. CountInv
  BY BegunFinite DEF Init, CountInv
<1>9. PageInv
  BY DEF Init, PageInv, Calls, None
<1> QED BY <1>6, <1>7, <1>8, <1>9 DEF SearchInv

\* A step of the walk of search i.
LEMMA WalkKeeps ==
  ASSUME SearchInv, NEW i \in Ids, Walk(i)
  PROVE  SearchInv'
<1> USE DEF SearchInv
<1>0. UNCHANGED <<nextId, post, sid, page, faults>>
  BY DEF Walk
<1>1. /\ searches \in [Ids -> Record] /\ walk \in [Ids -> SUBSET Entries]
      /\ searches[i] \in Record /\ walk[i] \in SUBSET Entries
  BY DEF TypeOK
<1>2. \E t \in Record, v \in SUBSET Entries :
        /\ RunInv(t, v)
        /\ searches' = [searches EXCEPT ![i] = t] /\ walk' = [walk EXCEPT ![i] = v]
  <2>1. ASSUME NEW e \in walk[i], Visit(i, e)
        PROVE  \E t \in Record, v \in SUBSET Entries :
                 /\ RunInv(t, v)
                 /\ searches' = [searches EXCEPT ![i] = t] /\ walk' = [walk EXCEPT ![i] = v]
    <3> DEFINE s == searches[i]
    <3>1. RunInv(s, walk[i])
      BY <2>1 DEF RunsInv
    <3>2. CASE e \in Matching[s.call] /\ Full(s)
      <4>1. /\ searches' = [searches EXCEPT ![i] = [s EXCEPT !.truncated = TRUE]]
            /\ walk' = [walk EXCEPT ![i] = walk[i] \ Deepest(walk[i])]
        BY <1>1, <2>1, <3>2 DEF Visit
      <4>2. walk[i] \ Deepest(walk[i]) \in SUBSET walk[i]
        OBVIOUS
      <4>3. /\ RunInv([s EXCEPT !.truncated = TRUE], walk[i] \ Deepest(walk[i]))
            /\ [s EXCEPT !.truncated = TRUE] \in Record
        BY <1>1, <2>1, <3>1, <3>2, <4>2, CapRun
      <4> QED BY <1>1, <4>1, <4>2, <4>3
    <3>3. CASE ~(e \in Matching[s.call] /\ Full(s))
      <4>1. /\ searches' = [searches EXCEPT ![i] = Found(s, e)]
            /\ walk' = [walk EXCEPT ![i] = Descend(Found(s, e), e, walk[i])]
        BY <1>1, <2>1, <3>3 DEF Visit
      <4>2. /\ Found(s, e) \in Record /\ Descend(Found(s, e), e, walk[i]) \in SUBSET Entries
            /\ RunInv(Found(s, e), Descend(Found(s, e), e, walk[i]))
        BY <1>1, <2>1, <3>1, <3>3, VisitRun
      <4> QED BY <4>1, <4>2
    <3> QED BY <3>2, <3>3
  <2>2. CASE EndWalk(i)
    <3> DEFINE s == searches[i]
               t == [s EXCEPT !.status = "done"]
    <3>1. /\ s.status = "running" /\ walk[i] = {} /\ walk' = walk
          /\ searches' = [searches EXCEPT ![i].status = "done"]
      BY <2>2 DEF EndWalk
    <3>2. searches' = [searches EXCEPT ![i] = t] /\ walk' = [walk EXCEPT ![i] = walk[i]]
      BY <1>1, <3>1
    <3>3. RunInv(s, walk[i])
      <4>1. NoSearch.status # "running"
        BY DEF NoSearch
      <4> QED BY <3>1, <4>1 DEF RunsInv
    <3>4. /\ t \in Record /\ t.call = s.call /\ t.status = "done" /\ t.matches = s.matches
          /\ t.truncated = s.truncated
      BY <1>1 DEF Record
    <3> HIDE DEF t
    <3>5. RunInv(t, walk[i])
      BY <3>1, <3>3, <3>4 DEF RunInv, Full
    <3> QED BY <1>1, <3>2, <3>4, <3>5
  <2> QED BY <2>1, <2>2 DEF Walk
<1>3. PICK t \in Record, v \in SUBSET Entries :
        /\ RunInv(t, v)
        /\ searches' = [searches EXCEPT ![i] = t] /\ walk' = [walk EXCEPT ![i] = v]
  BY <1>2
<1>4. /\ searches' \in [Ids -> Record] /\ walk' \in [Ids -> SUBSET Entries]
      /\ \A j \in Ids : /\ searches'[j] = IF j = i THEN t ELSE searches[j]
                        /\ walk'[j] = IF j = i THEN v ELSE walk[j]
  BY <1>1, <1>3
<1>5. \A j \in Ids : Cardinality(searches'[j].matches) <= MaxResults
  BY <1>3, <1>4 DEF TypeOK, RunInv
<1>6. TypeOK'
  BY <1>0, <1>4, <1>5 DEF TypeOK, page
<1>7. RunsInv'
  BY <1>3, <1>4 DEF RunsInv
<1>8. CountInv' /\ PageInv'
  BY <1>0, CountKept DEF PageInv, page
<1> QED BY <1>6, <1>7, <1>8

\* A request to search is given an id of its own, and its search begins.
LEMMA HandleStartKeeps ==
  ASSUME SearchInv, NEW c \in Calls, HandleStart(c)
  PROVE  SearchInv'
<1> USE DEF SearchInv
<1> DEFINE s == [call |-> c, status |-> "running", matches |-> {}, truncated |-> FALSE]
           w == Frame(s, << >>)
<1>0. /\ post[c] = "sent" /\ nextId' = nextId + 1 /\ sid' = [sid EXCEPT ![c] = nextId]
      /\ post' = [post EXCEPT ![c] = "answered"] /\ UNCHANGED <<page, faults>>
      /\ searches' = [searches EXCEPT ![nextId] = s] /\ walk' = [walk EXCEPT ![nextId] = w]
  BY DEF HandleStart
<1>1. s \in Record /\ w \in SUBSET Entries /\ RunInv(s, w)
  BY StartRun
<1> HIDE DEF s, w
<1>2. /\ searches \in [Ids -> Record] /\ walk \in [Ids -> SUBSET Entries]
      /\ post \in [Calls -> {"idle", "sent", "answered", "failed", "done"}]
      /\ sid \in [Calls -> Ids \cup {None}]
      /\ nextId \in 1 .. Len(Matching) + 1
  BY DEF TypeOK
<1>3. /\ c \notin Begun /\ Begun' = Begun \cup {c}
      /\ Cardinality(Begun') = Cardinality(Begun) + 1
      /\ Cardinality(Begun) + 1 <= Len(Matching)
  <2>1. c \notin Begun /\ Begun' = Begun \cup {c}
    BY <1>0, <1>2 DEF Begun
  <2>2. Cardinality(Begun') = Cardinality(Begun) + 1
    BY <2>1, BegunFinite, FS_AddElement
  <2>3. Begun \cup {c} \in SUBSET Calls
    BY DEF Begun
  <2>4. Cardinality(Begun \cup {c}) <= Len(Matching)
    BY <2>3, BegunFinite, FS_Subset
  <2> QED BY <2>1, <2>2, <2>4
<1>4. CountInv'
  <2>1. nextId + 1 <= Cardinality(Begun) + 1 + 1
    BY <1>2, BegunFinite DEF CountInv
  <2> QED BY <1>0, <1>3, <2>1 DEF CountInv
<1>5. nextId \in Ids /\ nextId' \in 1 .. Len(Matching) + 1
  <2>1. nextId <= Len(Matching)
    BY <1>2, <1>3, BegunFinite DEF CountInv
  <2> QED BY <1>0, <1>2, <2>1, BegunFinite DEF Ids, Calls
<1>6. /\ searches' \in [Ids -> Record] /\ walk' \in [Ids -> SUBSET Entries]
      /\ \A j \in Ids : /\ searches'[j] = IF j = nextId THEN s ELSE searches[j]
                        /\ walk'[j] = IF j = nextId THEN w ELSE walk[j]
  BY <1>0, <1>1, <1>2, <1>5
<1>7. \A j \in Ids : Cardinality(searches'[j].matches) <= MaxResults
  BY <1>1, <1>6 DEF TypeOK, RunInv
<1>8. TypeOK'
  <2>1. /\ post' \in [Calls -> {"idle", "sent", "answered", "failed", "done"}]
        /\ sid' \in [Calls -> Ids \cup {None}]
    BY <1>0, <1>2, <1>5
  <2> QED BY <1>0, <1>5, <1>6, <1>7, <2>1 DEF TypeOK, page
<1>9. RunsInv'
  BY <1>1, <1>6 DEF RunsInv
<1>10. PageInv'
  <2>1. /\ \A d \in Calls : post'[d] = IF d = c THEN "answered" ELSE post[d]
        /\ \A d \in Calls : sid'[d] = IF d = c THEN nextId ELSE sid[d]
    BY <1>0, <1>2
  <2>2. \A d \in Calls : of[d] \in Calls
    BY DEF TypeOK
  <2> QED BY <1>0, <1>5, <2>1, <2>2 DEF PageInv, page
<1> QED BY <1>4, <1>8, <1>9, <1>10

\* The answer to a poll is about a search that was started.
LEMMA HandlePollKeeps ==
  ASSUME SearchInv, NEW c \in Calls, HandlePoll(c)
  PROVE  SearchInv'
<1> USE DEF SearchInv
<1> DEFINE i == sid[of[c]]
           a == IF searches[i] = NoSearch THEN Missing
                ELSE [call |-> searches[i].call, status |-> searches[i].status]
<1>0. /\ poll[c] = "asking" /\ reply' = [reply EXCEPT ![c] = a]
      /\ poll' = [poll EXCEPT ![c] = "answered"]
      /\ UNCHANGED <<daemon, post, sid, active, of, lastTimer, shown, over, faults>>
  BY DEF HandlePoll
<1>1. i \in Ids
  BY <1>0 DEF PageInv
<1>2. a \in Answers \cup {Missing}
  BY <1>1 DEF RunsInv, RunInv, Answers
<1> HIDE DEF a
<1>3. TypeOK'
  <2>1. /\ reply' \in [Calls -> Answers \cup {Missing}]
        /\ poll' \in [Calls -> {"none", "asking", "answered", "timer", "ended"}]
    BY <1>0, <1>2 DEF TypeOK
  <2> QED BY <1>0, <2>1 DEF TypeOK, daemon
<1>4. RunsInv' /\ CountInv'
  BY <1>0, RunsKept, CountKept DEF daemon
<1>5. PageInv'
  <2>1. \A d \in Calls : poll'[d] = IF d = c THEN "answered" ELSE poll[d]
    BY <1>0 DEF TypeOK
  <2> QED BY <1>0, <2>1 DEF PageInv
<1> QED BY <1>3, <1>4, <1>5

\* A restart of the daemon leaves no search.
LEMMA RestartKeeps ==
  ASSUME SearchInv, Restart
  PROVE  SearchInv'
<1> USE DEF SearchInv
<1>0. /\ faults < MaxFaults /\ faults' = faults + 1 /\ nextId' = 1
      /\ searches' = [i \in Ids |-> NoSearch] /\ walk' = [i \in Ids |-> {}]
      /\ post' = [c \in Calls |-> IF post[c] = "sent" THEN "failed" ELSE post[c]]
      /\ poll' = [c \in Calls |-> IF poll[c] = "asking" THEN "answered" ELSE poll[c]]
      /\ reply' = [c \in Calls |-> IF poll[c] = "asking" THEN Missing ELSE reply[c]]
      /\ UNCHANGED <<sid, active, of, lastTimer, shown, over>>
  BY DEF Restart
<1>1. NoSearch \in Record /\ NoSearch.matches = {} /\ Cardinality({}) = 0 /\ 0 <= MaxResults
  BY FS_EmptySet DEF NoSearch, Record
<1>2. TypeOK'
  <2>1. /\ searches' \in [Ids -> Record] /\ walk' \in [Ids -> SUBSET Entries]
        /\ \A i \in Ids : Cardinality(searches'[i].matches) <= MaxResults
    BY <1>0, <1>1
  <2>2. nextId' \in 1 .. Len(Matching) + 1
    BY <1>0, BegunFinite
  <2>3. faults' \in 0 .. MaxFaults
    BY <1>0 DEF TypeOK
  <2>4. /\ post' \in [Calls -> {"idle", "sent", "answered", "failed", "done"}]
        /\ poll' \in [Calls -> {"none", "asking", "answered", "timer", "ended"}]
        /\ reply' \in [Calls -> Answers \cup {Missing}]
    BY <1>0 DEF TypeOK
  <2> QED BY <1>0, <2>1, <2>2, <2>3, <2>4 DEF TypeOK
<1>3. RunsInv'
  BY <1>0 DEF RunsInv
<1>4. CountInv'
  <2>1. Begun' \in SUBSET Calls
    BY DEF Begun
  <2>2. Cardinality(Begun') \in Nat
    BY <2>1, BegunFinite, FS_Subset, FS_CardinalityType
  <2> QED BY <1>0, <2>2 DEF CountInv
<1>5. PageInv'
  BY <1>0 DEF PageInv
<1> QED BY <1>2, <1>3, <1>4, <1>5

\* The steps of the page, and a lost request: they leave the searches alone.
LEMMA StartKeeps ==
  ASSUME SearchInv, NEW c \in Calls, DoSearch(c) \/ StartAnswered(c) \/ StartLost(c)
  PROVE  SearchInv'
<1> USE DEF SearchInv
<1>1. UNCHANGED <<daemon, sid, of, reply, lastTimer>>
  BY DEF DoSearch, StartAnswered, StartLost, page
<1>2. CASE DoSearch(c)
  <2>1. /\ post[c] = "idle" /\ post' = [post EXCEPT ![c] = "sent"] /\ poll' = Stopped
        /\ over' = over \cup 1 .. c - 1 /\ UNCHANGED <<active, shown, faults>>
    <3>1. \A d \in Calls : d >= c => post[d] = "idle"
      BY <1>2 DEF DoSearch
    <3>2. c >= c
      BY DEF Calls
    <3>3. post[c] = "idle"
      BY <3>1, <3>2
    <3> QED BY <1>2, <3>3 DEF DoSearch
  <2>2. /\ poll' \in [Calls -> {"none", "asking", "answered", "timer", "ended"}]
        /\ \A d \in Calls : poll'[d] = poll[d] \/ (poll[d] = "timer" /\ poll'[d] = "ended")
    BY <2>1 DEF TypeOK, Stopped
  <2>3. /\ post' \in [Calls -> {"idle", "sent", "answered", "failed", "done"}]
        /\ \A d \in Calls : post'[d] = IF d = c THEN "sent" ELSE post[d]
    BY <2>1 DEF TypeOK
  <2>4. over' \subseteq Calls
    BY <2>1, BegunFinite DEF TypeOK, Calls
  <2>5. TypeOK'
    BY <1>1, <2>1, <2>2, <2>3, <2>4 DEF TypeOK, daemon
  <2>6. RunsInv' /\ CountInv'
    BY <1>1, <2>1, <2>3, RunsKept, CountKept DEF daemon
  <2>7. PageInv'
    BY <1>1, <2>1, <2>2, <2>3 DEF PageInv
  <2> QED BY <2>5, <2>6, <2>7
<1>3. CASE StartAnswered(c)
  <2>1. /\ post[c] = "answered" /\ post' = [post EXCEPT ![c] = "done"]
        /\ active' = c /\ shown' = Nothing
        /\ poll' = [poll EXCEPT ![c] = "asking"] /\ UNCHANGED <<over, faults>>
    BY <1>3 DEF StartAnswered
  <2>2. /\ poll' \in [Calls -> {"none", "asking", "answered", "timer", "ended"}]
        /\ \A d \in Calls : poll'[d] = IF d = c THEN "asking" ELSE poll[d]
        /\ post' \in [Calls -> {"idle", "sent", "answered", "failed", "done"}]
        /\ \A d \in Calls : post'[d] = IF d = c THEN "done" ELSE post[d]
    BY <2>1 DEF TypeOK
  <2>3. TypeOK'
    BY <1>1, <2>1, <2>2 DEF TypeOK, daemon
  <2>4. RunsInv' /\ CountInv'
    BY <1>1, <2>1, <2>2, RunsKept, CountKept DEF daemon
  <2>5. sid[c] \in Ids /\ of[c] = c
    BY <2>1 DEF PageInv
  <2>6. PageInv'
    BY <1>1, <2>1, <2>2, <2>5 DEF PageInv
  <2> QED BY <2>3, <2>4, <2>6
<1>4. CASE StartLost(c)
  <2>1. /\ post[c] \in {"sent", "answered"} /\ post' = [post EXCEPT ![c] = "failed"]
        /\ faults < MaxFaults /\ faults' = faults + 1
        /\ UNCHANGED <<active, poll, shown, over>>
    BY <1>4 DEF StartLost, page
  <2>2. /\ post' \in [Calls -> {"idle", "sent", "answered", "failed", "done"}]
        /\ \A d \in Calls : post'[d] = IF d = c THEN "failed" ELSE post[d]
        /\ faults' \in 0 .. MaxFaults
    BY <2>1 DEF TypeOK
  <2>3. TypeOK'
    BY <1>1, <2>1, <2>2 DEF TypeOK, daemon
  <2>4. RunsInv' /\ CountInv'
    BY <1>1, <2>1, <2>2, RunsKept, CountKept DEF daemon
  <2>5. PageInv'
    BY <1>1, <2>1, <2>2 DEF PageInv
  <2> QED BY <2>3, <2>4, <2>5
<1> QED BY <1>2, <1>3, <1>4

LEMMA PollKeeps ==
  ASSUME SearchInv, NEW c \in Calls,
         PollAnswered(c) \/ PollFails(c) \/ PollLost(c) \/ TimerFires(c)
  PROVE  SearchInv'
<1> USE DEF SearchInv
<1>0. UNCHANGED <<daemon, post, sid>>
  BY DEF PollAnswered, PollFails, PollLost, TimerFires
<1>1. RunsInv' /\ CountInv'
  BY <1>0, RunsKept, CountKept DEF daemon
<1>2. /\ of \in [Calls -> Calls] /\ poll \in [Calls -> {"none", "asking", "answered", "timer", "ended"}]
      /\ reply \in [Calls -> Answers \cup {Missing}] /\ lastTimer \in [Calls -> Calls \cup {None}]
      /\ active \in Calls \cup {None}
  BY DEF TypeOK
<1>3. poll[c] # "none"
  BY DEF PollAnswered, PollFails, PollLost, TimerFires
<1>4. \E p \in {"asking", "answered", "timer", "ended"} : poll' = [poll EXCEPT ![c] = p]
  BY DEF PollAnswered, PollFails, PollLost, TimerFires
<1>5. /\ poll' \in [Calls -> {"none", "asking", "answered", "timer", "ended"}]
      /\ \A d \in Calls : poll'[d] = "none" <=> poll[d] = "none"
  BY <1>2, <1>3, <1>4
<1>6. reply' \in [Calls -> Answers \cup {Missing}]
  BY <1>2 DEF PollAnswered, PollFails, PollLost, TimerFires
<1>7. lastTimer' \in [Calls -> Calls \cup {None}] /\ (active' = active \/ active' = None)
  BY <1>2 DEF PollAnswered, PollFails, PollLost, TimerFires
<1>8. shown' \in Answers \cup {Nothing} /\ over' \subseteq Calls
  BY <1>2 DEF PollAnswered, PollFails, PollLost, TimerFires, TypeOK
<1>9. faults' \in 0 .. MaxFaults
  <2>1. faults \in 0 .. MaxFaults
    BY DEF TypeOK
  <2>2. faults' = faults \/ (faults < MaxFaults /\ faults' = faults + 1)
    BY DEF PollAnswered, PollFails, PollLost, TimerFires
  <2> QED BY <2>1, <2>2
<1>10. \/ of' = of
       \/ of' = [of EXCEPT ![c] = c]
       \/ active \in Calls /\ of' = [of EXCEPT ![c] = active]
  BY <1>2 DEF PollAnswered, PollFails, PollLost, TimerFires
<1>11. /\ of' \in [Calls -> Calls]
       /\ \A d \in Calls : of'[d] = of[d] \/ (d = c /\ sid[of'[d]] \in Ids)
  <2>1. post[c] = "done" /\ sid[c] \in Ids
    BY <1>3 DEF PageInv
  <2>2. active \in Calls => sid[active] \in Ids
    BY DEF PageInv
  <2> QED BY <1>2, <1>10, <2>1, <2>2
<1>12. TypeOK'
  BY <1>0, <1>5, <1>6, <1>7, <1>8, <1>9, <1>11 DEF TypeOK, daemon
<1>13. PageInv'
  <2>1. ASSUME NEW d \in Calls
        PROVE  /\ post'[d] \in {"answered", "done"} => sid'[d] \in Ids
               /\ active' = d => sid'[d] \in Ids
    <3>1. None \notin Calls
      BY DEF None, Calls
    <3> QED BY <1>0, <1>7, <3>1 DEF PageInv
  <2>2. ASSUME NEW d \in Calls, post'[d] # "done" PROVE poll'[d] = "none" /\ of'[d] = d
    <3>1. poll[d] = "none" /\ of[d] = d /\ d # c
      BY <1>0, <1>3, <2>2 DEF PageInv
    <3> QED BY <1>5, <1>11, <3>1
  <2>3. ASSUME NEW d \in Calls, poll'[d] # "none" PROVE sid'[of'[d]] \in Ids
    <3>1. sid[of[d]] \in Ids
      BY <1>5, <2>3 DEF PageInv
    <3> QED BY <1>0, <1>11, <3>1
  <2> QED BY <2>1, <2>2, <2>3 DEF PageInv
<1> QED BY <1>1, <1>12, <1>13

LEMMA HideKeeps ==
  ASSUME SearchInv, Hide
  PROVE  SearchInv'
<1> USE DEF SearchInv
<1>0. /\ poll' = Stopped /\ active' = None /\ shown' = Nothing
      /\ over' = over \cup ({active, shown.call} \ {None})
      /\ UNCHANGED <<daemon, post, sid, of, reply, lastTimer, faults>>
  BY DEF Hide
<1>1. /\ poll' \in [Calls -> {"none", "asking", "answered", "timer", "ended"}]
      /\ \A d \in Calls : poll'[d] = poll[d] \/ (poll[d] = "timer" /\ poll'[d] = "ended")
  BY <1>0 DEF TypeOK, Stopped
<1>2. shown.call \in Calls \cup {None}
  BY DEF TypeOK, Answers, Nothing
<1>3. TypeOK'
  BY <1>0, <1>1, <1>2 DEF TypeOK, daemon
<1>4. RunsInv' /\ CountInv'
  BY <1>0, RunsKept, CountKept DEF daemon
<1>5. PageInv'
  <2>1. \A d \in Calls : active' # d
    BY <1>0 DEF None, Calls
  <2> QED BY <1>0, <1>1, <2>1 DEF PageInv
<1> QED BY <1>3, <1>4, <1>5

---------------------------------------------------------------------------
\* Every step keeps the inductive invariant.
LEMMA NextInv == SearchInv /\ [Next]_vars => SearchInv'
<1> SUFFICES ASSUME SearchInv, [Next]_vars PROVE SearchInv'
  OBVIOUS
<1>1. CASE Running
  BY <1>1, WalkKeeps, HandleStartKeeps, StartKeeps, HandlePollKeeps, PollKeeps DEF Running
<1>2. CASE Disturbance
  BY <1>2, HideKeeps, RestartKeeps, StartKeeps, PollKeeps DEF Disturbance
<1>3. CASE User
  BY <1>3, StartKeeps DEF User
<1>4. CASE UNCHANGED vars
  <2>1. UNCHANGED <<daemon, page, post, sid, faults>>
    BY <1>4 DEF vars
  <2>2. TypeOK' /\ PageInv'
    BY <2>1 DEF SearchInv, daemon, page, TypeOK, PageInv
  <2>3. RunsInv' /\ CountInv'
    BY <2>1, RunsKept, CountKept DEF SearchInv, daemon
  <2> QED BY <2>2, <2>3 DEF SearchInv
<1> QED BY <1>1, <1>2, <1>3, <1>4 DEF Next

\* Whatever the tree and the queries, and however calls, polls, lost requests
\* and restarts interleave, every search's record agrees with what its walk
\* has still to visit, and every id the page asks for was handed out: the
\* inductive invariant behind the theorems below.
THEOREM SearchInvariant == Spec => []SearchInv
<1>1. Init => SearchInv
  BY InitInv
<1>2. SearchInv /\ [Next]_vars => SearchInv'
  BY NextInv
<1> QED BY <1>1, <1>2, PTL DEF Spec

\* A record holds entries of the tree and never more than MAX_RESULTS of
\* them, ids stay below the number of requests, and every answer that a poll
\* gets is about a search that was started.
THEOREM SearchTypes == Spec => []TypeOK
<1>1. SearchInv => TypeOK
  BY DEF SearchInv
<1> QED BY <1>1, SearchInvariant, PTL

\* A finished search that has met no cap has found every match that can be
\* reached and nothing else, for every tree, every order in which read_dir
\* lists it and every set of unreadable directories (walk_search).
THEOREM SearchIsComplete == Spec => []CompleteBelowCap
<1>1. SearchInv => CompleteBelowCap
  <2> SUFFICES ASSUME SearchInv, NEW i \in Ids, searches[i] # NoSearch
               PROVE  /\ searches[i].matches \subseteq Results(searches[i].call)
                      /\ searches[i].status = "done" /\ ~Full(searches[i]) =>
                           searches[i].matches = Results(searches[i].call)
    BY DEF CompleteBelowCap
  <2>1. RunInv(searches[i], walk[i])
    BY DEF SearchInv, RunsInv
  <2> QED BY <2>1 DEF RunInv
<1> QED BY <1>1, SearchInvariant, PTL

\* walk_search sets `truncated` only when a reachable match is left out: the
\* match that met the cap is not one that was recorded before.
THEOREM TruncatedIsTrue == Spec => []TruncatedMeansMore
<1>1. SearchInv => TruncatedMeansMore
  <2> SUFFICES ASSUME SearchInv, NEW i \in Ids, searches[i].truncated
               PROVE  Results(searches[i].call) \ searches[i].matches # {}
    BY DEF TruncatedMeansMore
  <2>1. searches[i] # NoSearch
    BY DEF NoSearch
  <2>2. RunInv(searches[i], walk[i])
    BY <2>1 DEF SearchInv, RunsInv
  <2> QED BY <2>2 DEF RunInv
<1> QED BY <1>1, SearchInvariant, PTL
=============================================================================
