----------------------------- MODULE PathProofs -----------------------------
(***************************************************************************)
(* What PathNames' operators say of paths over any set N of names, and the *)
(* least of the numbers that free_dst tries.                               *)
(***************************************************************************)
EXTENDS PathNames, SequenceTheorems, WellFoundedInduction, TLAPS

\* What it means for a sequence to lie under another, entry by entry.
LEMMA UnderMeans ==
  ASSUME NEW N, NEW p \in Seq(N), NEW q \in Seq(N)
  PROVE  Under(p, q) <=> Len(p) <= Len(q) /\ \A i \in 1 .. Len(p) : p[i] = q[i]
<1>1. Len(p) \in Nat /\ Len(q) \in Nat
  OBVIOUS
<1>2. CASE Len(p) <= Len(q)
  <2>1. \A i \in 1 .. Len(p) : q[i] \in N
    BY <1>1, <1>2
  <2>2. /\ SubSeq(q, 1, Len(p)) \in Seq(N)
        /\ Len(SubSeq(q, 1, Len(p))) = Len(p)
        /\ \A i \in 1 .. Len(p) : SubSeq(q, 1, Len(p))[i] = q[i]
    <3>1. 1 \in Int /\ Len(p) \in Int
      BY <1>1
    <3>2. /\ SubSeq(q, 1, Len(p)) \in Seq(N)
          /\ Len(SubSeq(q, 1, Len(p))) = IF 1 <= Len(p) THEN Len(p) - 1 + 1 ELSE 0
          /\ \A i \in 1 .. Len(p) - 1 + 1 : SubSeq(q, 1, Len(p))[i] = q[1 + i - 1]
      BY <2>1, <3>1, SubSeqProperties
    <3> QED BY <1>1, <2>1, <3>2
  <2>3. SubSeq(q, 1, Len(p)) = p <=> \A i \in 1 .. Len(p) : p[i] = q[i]
    <3> DEFINE t == SubSeq(q, 1, Len(p))
    <3> HIDE DEF t
    <3>1. t = p => \A i \in 1 .. Len(p) : p[i] = q[i]
      BY <2>2 DEF t
    <3>2. (\A i \in 1 .. Len(p) : p[i] = q[i]) => t = p
      BY <2>2, SeqEqual DEF t
    <3> QED BY <3>1, <3>2 DEF t
  <2> QED BY <1>2, <2>3 DEF Under
<1>3. CASE ~(Len(p) <= Len(q))
  BY <1>3 DEF Under
<1> QED BY <1>2, <1>3

\* Under is a partial order, and the sequences above one are a chain.
LEMMA UnderOrder ==
  ASSUME NEW N, NEW p \in Seq(N), NEW q \in Seq(N), NEW r \in Seq(N)
  PROVE  /\ Under(p, p)
         /\ Under(p, q) /\ Under(q, r) => Under(p, r)
         /\ Under(p, q) /\ Len(p) = Len(q) => p = q
         /\ Under(p, r) /\ Under(q, r) /\ Len(p) <= Len(q) => Under(p, q)
<1>1. Len(p) \in Nat /\ Len(q) \in Nat /\ Len(r) \in Nat
  OBVIOUS
<1>2. Under(p, p)
  BY <1>1, UnderMeans
<1>3. ASSUME Under(p, q), Under(q, r) PROVE Under(p, r)
  BY <1>1, <1>3, UnderMeans
<1>4. ASSUME Under(p, q), Len(p) = Len(q) PROVE p = q
  BY <1>4, UnderMeans, SeqEqual
<1>5. ASSUME Under(p, r), Under(q, r), Len(p) <= Len(q) PROVE Under(p, q)
  BY <1>1, <1>5, UnderMeans
<1> QED BY <1>2, <1>3, <1>4, <1>5

\* The part of a sequence up to n is the one of that length above it.
LEMMA PrefixUnder ==
  ASSUME NEW N, NEW e \in Seq(N), NEW n \in 0 .. Len(e)
  PROVE  /\ SubSeq(e, 1, n) \in Seq(N) /\ Len(SubSeq(e, 1, n)) = n
         /\ Under(SubSeq(e, 1, n), e)
<1>1. n \in Int /\ 1 \in Int /\ \A i \in 1 .. n : e[i] \in N
  OBVIOUS
<1>2. SubSeq(e, 1, n) \in Seq(N) /\ Len(SubSeq(e, 1, n)) = IF 1 <= n THEN n - 1 + 1 ELSE 0
  BY <1>1, SubSeqProperties
<1>3. Len(SubSeq(e, 1, n)) = n
  BY <1>2
<1> QED BY <1>2, <1>3 DEF Under

\* The prefixes of a path are the paths above it, and it is one of them.
LEMMA PrefixesAbove ==
  ASSUME NEW N, NEW p \in Seq(N)
  PROVE  /\ \A q \in Prefixes(p) : q \in Seq(N) /\ Len(q) \in 1 .. Len(p) /\ Under(q, p)
         /\ \A q \in Seq(N) : Under(q, p) /\ Len(q) # 0 => q \in Prefixes(p)
<1>1. Len(p) \in Nat
  OBVIOUS
<1>2. ASSUME NEW n \in 1 .. Len(p)
      PROVE  LET q == SubSeq(p, 1, n) IN q \in Seq(N) /\ Len(q) = n /\ Under(q, p)
  BY <1>1, <1>2, PrefixUnder
<1>3. ASSUME NEW q \in Seq(N), Under(q, p), Len(q) # 0 PROVE q \in Prefixes(p)
  <2>1. Len(q) \in 1 .. Len(p) /\ q = SubSeq(p, 1, Len(q))
    BY <1>1, <1>3 DEF Under
  <2> QED BY <2>1 DEF Prefixes
<1> QED BY <1>2, <1>3 DEF Prefixes

\* The parent of a path is the longest path above it.
LEMMA ParentAbove ==
  ASSUME NEW N, NEW p \in Seq(N), Len(p) # 0
  PROVE  /\ Parent(p) \in Seq(N) /\ Len(Parent(p)) = Len(p) - 1 /\ Under(Parent(p), p)
         /\ \A q \in Seq(N) : Under(q, p) /\ q # p => Under(q, Parent(p))
         /\ \A q \in Seq(N) : Under(q, Parent(p)) => Under(q, p) /\ q # p
<1>1. Len(p) \in Nat /\ Len(p) - 1 \in 0 .. Len(p)
  OBVIOUS
<1>2. Parent(p) \in Seq(N) /\ Len(Parent(p)) = Len(p) - 1 /\ Under(Parent(p), p)
  BY <1>1, PrefixUnder DEF Parent
<1>3. ASSUME NEW q \in Seq(N), Under(q, p), q # p PROVE Under(q, Parent(p))
  <2>1. Len(q) \in Nat /\ Len(q) <= Len(p) /\ Len(q) # Len(p)
    BY <1>3, UnderOrder DEF Under
  <2>2. Len(q) <= Len(Parent(p))
    BY <1>1, <1>2, <2>1
  <2> QED BY <1>2, <1>3, <2>2, UnderOrder
<1>4. ASSUME NEW q \in Seq(N), Under(q, Parent(p)) PROVE Under(q, p) /\ q # p
  <2>1. Under(q, p)
    BY <1>2, <1>4, UnderOrder
  <2>2. Len(q) <= Len(Parent(p)) /\ Len(q) \in Nat
    BY <1>4 DEF Under
  <2> QED BY <1>1, <1>2, <2>1, <2>2
<1> QED BY <1>2, <1>3, <1>4

\* Paths above the same path overlap.
LEMMA AboveOverlap ==
  ASSUME NEW N, NEW p \in Seq(N), NEW q \in Seq(N), NEW r \in Seq(N), Under(p, r), Under(q, r)
  PROVE  Overlap(p, q)
<1>1. Len(p) \in Nat /\ Len(q) \in Nat
  OBVIOUS
<1>2. Len(p) <= Len(q) \/ Len(q) <= Len(p)
  BY <1>1
<1> QED BY <1>2, UnderOrder DEF Overlap

\* An entry of a directory lies under it.
LEMMA AppendUnder ==
  ASSUME NEW N, NEW p \in Seq(N), NEW n \in N
  PROVE  Append(p, n) \in Seq(N) /\ Under(p, Append(p, n))
<1>1. /\ Append(p, n) \in Seq(N) /\ Len(Append(p, n)) = Len(p) + 1 /\ Len(p) \in Nat
      /\ \A i \in 1 .. Len(p) : Append(p, n)[i] = p[i]
  OBVIOUS
<1> DEFINE a == Append(p, n)
<1> HIDE DEF a
<1>2. a \in Seq(N) /\ Len(p) <= Len(a) /\ \A i \in 1 .. Len(p) : p[i] = a[i]
  BY <1>1 DEF a
<1>3. Under(p, a)
  BY <1>2, UnderMeans
<1> QED BY <1>1, <1>3 DEF a

\* What lies at t below d, put below s instead.
LEMMA GraftEntries ==
  ASSUME NEW N, NEW s \in Seq(N), NEW d \in Seq(N), NEW t \in Seq(N), Len(d) <= Len(t)
  PROVE  LET g == s \o Rel(d, t)
         IN  /\ g \in Seq(N) /\ Len(g) = Len(s) + Len(t) - Len(d)
             /\ \A i \in 1 .. Len(s) : g[i] = s[i]
             /\ \A i \in 1 .. Len(t) - Len(d) : g[Len(s) + i] = t[Len(d) + i]
<1>1. /\ Len(s) \in Nat /\ Len(d) \in Nat /\ Len(t) \in Nat /\ Len(d) + 1 \in Int
      /\ \A i \in Len(d) + 1 .. Len(t) : t[i] \in N
  OBVIOUS
<1> DEFINE r == Rel(d, t)
<1>2. r \in Seq(N) /\ Len(r) = Len(t) - Len(d) /\ \A i \in 1 .. Len(t) - Len(d) : r[i] = t[Len(d) + i]
  <2>1. /\ r \in Seq(N)
        /\ Len(r) = IF Len(d) + 1 <= Len(t) THEN Len(t) - (Len(d) + 1) + 1 ELSE 0
        /\ \A i \in 1 .. Len(t) - (Len(d) + 1) + 1 : r[i] = t[Len(d) + 1 + i - 1]
    BY <1>1, SubSeqProperties DEF Rel
  <2> HIDE DEF r
  <2> QED BY <1>1, <2>1
<1> HIDE DEF r
<1> DEFINE g == s \o r
<1>3. /\ g \in Seq(N) /\ Len(g) = Len(s) + Len(r)
      /\ \A i \in 1 .. Len(s) + Len(r) : g[i] = IF i <= Len(s) THEN s[i] ELSE r[i - Len(s)]
  BY <1>2, ConcatProperties
<1> HIDE DEF g
<1>4. Len(g) = Len(s) + Len(t) - Len(d)
  BY <1>1, <1>2, <1>3
<1>5. \A i \in 1 .. Len(s) : g[i] = s[i]
  BY <1>1, <1>2, <1>3
<1>6. ASSUME NEW i \in 1 .. Len(t) - Len(d) PROVE g[Len(s) + i] = t[Len(d) + i]
  <2>1. Len(s) + i \in 1 .. Len(s) + Len(r) /\ ~(Len(s) + i <= Len(s)) /\ Len(s) + i - Len(s) = i
    BY <1>1, <1>2
  <2>2. g[Len(s) + i] = r[i]
    BY <1>3, <2>1
  <2> QED BY <1>2, <2>2
<1> QED BY <1>3, <1>4, <1>5, <1>6 DEF g, r

\* Where an entry q of d comes from when s is renamed to d: from s itself if q
\* is d, and otherwise from the directory that q's parent comes from.
LEMMA Grafted ==
  ASSUME NEW N, NEW s \in Seq(N), NEW d \in Seq(N), NEW q \in Seq(N), Under(d, q), Len(s) # 0
  PROVE  /\ s \o Rel(d, q) \in Seq(N) /\ Len(s \o Rel(d, q)) = Len(s) + Len(q) - Len(d)
         /\ Under(s, s \o Rel(d, q))
         /\ q = d => s \o Rel(d, q) = s
         /\ q # d => /\ Len(q) # 0 /\ Len(d) <= Len(q) - 1
                     /\ Parent(s \o Rel(d, q)) = s \o Rel(d, Parent(q))
<1>1. Len(s) \in Nat /\ Len(d) \in Nat /\ Len(q) \in Nat /\ Len(d) <= Len(q)
  BY DEF Under
<1> DEFINE g == s \o Rel(d, q)
<1>2. /\ g \in Seq(N) /\ Len(g) = Len(s) + Len(q) - Len(d)
      /\ \A i \in 1 .. Len(s) : g[i] = s[i]
      /\ \A i \in 1 .. Len(q) - Len(d) : g[Len(s) + i] = q[Len(d) + i]
  BY <1>1, GraftEntries
<1> HIDE DEF g
<1>3. Under(s, g)
  <2>1. Len(s) <= Len(g)
    BY <1>1, <1>2
  <2> QED BY <1>2, <2>1, UnderMeans
<1>4. ASSUME q = d PROVE g = s
  <2>1. Len(g) = Len(s)
    BY <1>1, <1>2, <1>4
  <2> QED BY <1>1, <1>2, <2>1, SeqEqual
<1>5. ASSUME q # d
      PROVE  Len(q) # 0 /\ Len(d) <= Len(q) - 1 /\ Parent(g) = s \o Rel(d, Parent(q))
  <2>1. Len(d) # Len(q)
    BY <1>5, UnderOrder
  <2>2. Len(q) # 0 /\ Len(d) <= Len(q) - 1 /\ Len(g) # 0
    BY <1>1, <1>2, <2>1
  <2> DEFINE u == Parent(q)  v == Parent(g)  h == s \o Rel(d, u)
  <2>3. /\ u \in Seq(N) /\ Len(u) = Len(q) - 1 /\ Under(u, q)
        /\ v \in Seq(N) /\ Len(v) = Len(g) - 1 /\ Under(v, g)
    BY <1>2, <2>2, ParentAbove
  <2> HIDE DEF u, v
  <2>4. /\ \A i \in 1 .. Len(u) : u[i] = q[i]
        /\ \A i \in 1 .. Len(v) : v[i] = g[i]
    <3>1. \A i \in 1 .. Len(u) : u[i] = q[i]
      <4>1. u \in Seq(N) /\ q \in Seq(N) /\ Under(u, q)
        BY <2>3
      <4> QED BY <4>1, UnderMeans
    <3>2. \A i \in 1 .. Len(v) : v[i] = g[i]
      BY <1>2, <2>3, UnderMeans
    <3> QED BY <3>1, <3>2
  <2>5. /\ h \in Seq(N) /\ Len(h) = Len(s) + Len(u) - Len(d)
        /\ \A i \in 1 .. Len(s) : h[i] = s[i]
        /\ \A i \in 1 .. Len(u) - Len(d) : h[Len(s) + i] = u[Len(d) + i]
    <3>1. Len(d) <= Len(u) /\ u \in Seq(N)
      BY <2>2, <2>3
    <3> QED BY <3>1, GraftEntries
  <2> HIDE DEF h
  <2>6. Len(v) = Len(h)
    BY <1>1, <1>2, <2>3, <2>5
  <2>7. ASSUME NEW i \in 1 .. Len(v) PROVE v[i] = h[i]
    <3>1. CASE i <= Len(s)
      BY <1>1, <1>2, <2>4, <2>5, <3>1
    <3>2. CASE ~(i <= Len(s))
      <4> DEFINE k == i - Len(s)
      <4>1. /\ k \in 1 .. Len(u) - Len(d) /\ k \in 1 .. Len(q) - Len(d) /\ i = Len(s) + k
            /\ Len(d) + k \in 1 .. Len(u)
        BY <1>1, <1>2, <2>3, <3>2
      <4> HIDE DEF k
      <4>2. g[i] = q[Len(d) + k] /\ h[i] = u[Len(d) + k] /\ u[Len(d) + k] = q[Len(d) + k]
        BY <1>2, <2>4, <2>5, <4>1
      <4> QED BY <2>4, <4>2
    <3> QED BY <3>1, <3>2
  <2>8. v = h
    BY <2>3, <2>5, <2>6, <2>7, SeqEqual
  <2> QED BY <2>2, <2>8 DEF u, v, h
<1> QED BY <1>2, <1>3, <1>4, <1>5 DEF g

\* A path is its parent with its name.
LEMMA ParentAndName ==
  ASSUME NEW N, NEW p \in Seq(N), Len(p) # 0
  PROVE  p = Append(Parent(p), Name(p)) /\ Name(p) \in N
<1>1. /\ Len(p) \in Nat /\ Parent(p) \in Seq(N) /\ Len(Parent(p)) = Len(p) - 1
      /\ \A i \in 1 .. Len(Parent(p)) : Parent(p)[i] = p[i]
  <2>1. /\ Len(p) \in Nat /\ Parent(p) \in Seq(N) /\ Len(Parent(p)) = Len(p) - 1
        /\ Under(Parent(p), p)
    BY ParentAbove
  <2> QED BY <2>1, UnderMeans
<1>2. Name(p) \in N
  BY <1>1 DEF Name
<1> DEFINE u == Parent(p)  a == Append(u, p[Len(p)])
<1>3. a \in Seq(N) /\ Len(a) = Len(p)
      /\ (\A i \in 1 .. Len(p) - 1 : a[i] = u[i]) /\ a[Len(p)] = p[Len(p)]
  BY <1>1, <1>2 DEF Name
<1> HIDE DEF u, a
<1>4. \A i \in 1 .. Len(p) : a[i] = p[i]
  BY <1>1, <1>3 DEF u
<1>5. a = p
  BY <1>3, <1>4, SeqEqual
<1> QED BY <1>2, <1>5 DEF a, u, Name

\* What GraftEntries says, as one fact.
GraftOf(N, s, d, t) ==
  LET g == s \o Rel(d, t)
  IN  /\ g \in Seq(N) /\ Len(g) = Len(s) + Len(t) - Len(d)
      /\ \A i \in 1 .. Len(s) : g[i] = s[i]
      /\ \A i \in 1 .. Len(t) - Len(d) : g[Len(s) + i] = t[Len(d) + i]

LEMMA GraftShape ==
  ASSUME NEW N, NEW s \in Seq(N), NEW d \in Seq(N), NEW t \in Seq(N), Len(d) <= Len(t)
  PROVE  GraftOf(N, s, d, t)
BY GraftEntries DEF GraftOf

\* What lies at q below s lies there again when it is put below d and back.
LEMMA GraftBack ==
  ASSUME NEW N, NEW s \in Seq(N), NEW d \in Seq(N), NEW q \in Seq(N), Under(s, q)
  PROVE  /\ d \o Rel(s, q) \in Seq(N) /\ Under(d, d \o Rel(s, q))
         /\ s \o Rel(d, d \o Rel(s, q)) = q
         /\ s \o Rel(s, q) = q
<1>1. /\ Len(s) \in Nat /\ Len(d) \in Nat /\ Len(q) \in Nat /\ Len(s) <= Len(q)
      /\ \A i \in 1 .. Len(s) : s[i] = q[i]
  BY UnderMeans DEF Under
<1> DEFINE g == d \o Rel(s, q)
<1>2. /\ g \in Seq(N) /\ Len(g) = Len(d) + Len(q) - Len(s)
      /\ \A i \in 1 .. Len(d) : g[i] = d[i]
      /\ \A i \in 1 .. Len(q) - Len(s) : g[Len(d) + i] = q[Len(s) + i]
  BY <1>1, GraftEntries
<1> HIDE DEF g
<1>3. Len(d) <= Len(g) /\ Under(d, g)
  <2>1. Len(d) <= Len(g)
    BY <1>1, <1>2
  <2> QED BY <1>2, <2>1, UnderMeans
<1>4. ASSUME NEW e \in Seq(N), NEW t \in Seq(N), Len(e) \in Nat, Len(t) = Len(e) + Len(q) - Len(s),
             \A i \in 1 .. Len(q) - Len(s) : t[Len(e) + i] = q[Len(s) + i]
      PROVE  s \o Rel(e, t) = q
  <2>0. PICK h : h = s \o Rel(e, t)
    OBVIOUS
  <2>1. /\ h \in Seq(N) /\ Len(h) = Len(s) + Len(t) - Len(e)
        /\ \A i \in 1 .. Len(s) : h[i] = s[i]
        /\ \A i \in 1 .. Len(t) - Len(e) : h[Len(s) + i] = t[Len(e) + i]
    <3>1. Len(e) <= Len(t)
      BY <1>1, <1>4
    <3>2. GraftOf(N, s, e, t)
      BY <3>1, GraftShape
    <3> QED BY <2>0, <3>2 DEF GraftOf
  <2>2. Len(h) = Len(q) /\ Len(t) - Len(e) = Len(q) - Len(s)
    BY <1>1, <1>4, <2>1
  <2>3. ASSUME NEW i \in 1 .. Len(h) PROVE h[i] = q[i]
    <3>1. CASE i <= Len(s)
      BY <1>1, <2>1, <2>2, <3>1
    <3>2. CASE ~(i <= Len(s))
      <4> DEFINE k == i - Len(s)
      <4>1. k \in 1 .. Len(q) - Len(s) /\ i = Len(s) + k
        BY <1>1, <2>2, <3>2
      <4> HIDE DEF k
      <4> QED BY <1>4, <2>1, <2>2, <4>1
    <3> QED BY <3>1, <3>2
  <2>4. h = q
    BY <2>1, <2>2, <2>3, SeqEqual
  <2> QED BY <2>0, <2>4
<1>5. s \o Rel(d, g) = q
  BY <1>1, <1>2, <1>4
<1>6. s \o Rel(s, q) = q
  BY <1>1, <1>4
<1> QED BY <1>2, <1>3, <1>5, <1>6 DEF g

\* What is put below d in the place of s itself is d.
LEMMA GraftRoot ==
  ASSUME NEW N, NEW s \in Seq(N), NEW d \in Seq(N)
  PROVE  d \o Rel(s, s) = d
<1>1. Len(s) \in Nat /\ Len(d) \in Nat /\ Len(s) <= Len(s)
  OBVIOUS
<1> DEFINE g == d \o Rel(s, s)
<1>2. g \in Seq(N) /\ Len(g) = Len(d) + Len(s) - Len(s) /\ \A i \in 1 .. Len(d) : g[i] = d[i]
  BY <1>1, GraftEntries
<1> HIDE DEF g
<1>3. Len(g) = Len(d)
  BY <1>1, <1>2
<1>4. g = d
  BY <1>2, <1>3, SeqEqual
<1> QED BY <1>4 DEF g

\* An entry of a directory, put below s, is that entry of where its directory goes.
LEMMA GraftedEntry ==
  ASSUME NEW N, NEW s \in Seq(N), NEW d \in Seq(N), NEW q \in Seq(N),
         Under(d, q), q # d, Len(s) # 0
  PROVE  s \o Rel(d, q) = Append(s \o Rel(d, Parent(q)), Name(q))
<1> DEFINE g == s \o Rel(d, q)
<1>1. /\ Len(s) \in Nat /\ Len(d) \in Nat /\ Len(q) \in Nat /\ Len(d) <= Len(q) - 1 /\ Len(q) # 0
      /\ g \in Seq(N) /\ Len(g) = Len(s) + Len(q) - Len(d)
      /\ Parent(g) = s \o Rel(d, Parent(q))
  BY Grafted
<1>2. \A i \in 1 .. Len(q) - Len(d) : g[Len(s) + i] = q[Len(d) + i]
  <2>1. Len(d) <= Len(q)
    BY <1>1
  <2> QED BY <2>1, GraftEntries
<1> HIDE DEF g
<1>3. Name(g) = Name(q)
  <2>1. Len(q) - Len(d) \in 1 .. Len(q) - Len(d) /\ Len(s) + (Len(q) - Len(d)) = Len(g)
        /\ Len(d) + (Len(q) - Len(d)) = Len(q)
    BY <1>1
  <2>2. g[Len(s) + (Len(q) - Len(d))] = q[Len(d) + (Len(q) - Len(d))]
    BY <1>2, <2>1
  <2> QED BY <2>1, <2>2 DEF Name
<1>4. g = Append(Parent(g), Name(g))
  <2>1. Len(g) # 0 /\ g \in Seq(N)
    BY <1>1
  <2> QED BY <2>1, ParentAndName
<1> QED BY <1>1, <1>3, <1>4 DEF g

\* A set of numbers that is not empty has a least one.
LEMMA Least ==
  ASSUME NEW T \in SUBSET Nat, T # {}
  PROVE  \E i \in T : \A k \in T : i <= k
<1>1. \E i \in T : \A k \in T : ~(k < i)
  <2>1. \E i \in T : \A k \in T : ~(<<k, i>> \in OpToRel(<, Nat))
    BY NatLessThanWellFounded, WFMin, Zenon
  <2> QED BY <2>1 DEF OpToRel
<1> QED BY <1>1
=============================================================================
