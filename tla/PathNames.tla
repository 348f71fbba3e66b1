----------------------------- MODULE PathNames ------------------------------
(***************************************************************************)
(* Paths as sequences of names, the drive first.                           *)
(***************************************************************************)
EXTENDS Naturals, Sequences, FiniteSets

\* Any order of a finite set, as read_dir gives one.
Listing(S) ==
  CHOOSE s \in [1 .. Cardinality(S) -> S] : \A x \in S : \E i \in DOMAIN s : s[i] = x

Under(p, q) == Len(p) <= Len(q) /\ SubSeq(q, 1, Len(p)) = p
Overlap(p, q) == Under(p, q) \/ Under(q, p)
Rel(p, q) == SubSeq(q, Len(p) + 1, Len(q))
Name(p) == p[Len(p)]
Parent(p) == SubSeq(p, 1, Len(p) - 1)
Prefixes(p) == {SubSeq(p, 1, n) : n \in 1 .. Len(p)}
=============================================================================
