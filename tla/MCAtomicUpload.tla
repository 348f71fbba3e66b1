-------------------------- MODULE MCAtomicUpload --------------------------
(***************************************************************************)
(* Small instances of AtomicUpload for TLC.                                *)
(***************************************************************************)
EXTENDS AtomicUpload, TLC

Symmetric == Permutations(Uploads) \cup Permutations(Targets)
UploadsSymmetric == Permutations(Uploads)

\* Bodies of one chunk with the declared size absent, right or too small, a
\* body of two with no size, one whose checksum is wrong, one that must not
\* replace anything.
MixedRequests ==
  {r \in Request :
    \/ r.len = 1 /\ r.size \in {None, 1, 0} /\ r.sum = "absent" /\ ~r.fresh
    \/ r.len = 2 /\ r.size = None /\ r.sum = "right"
    \/ r.len = 1 /\ r.size = None /\ r.sum = "wrong" /\ ~r.fresh}

\* A request is either plain or carries If-None-Match: *.
PlainRequests ==
  {r \in Request : r.len = MaxLen /\ r.size = None /\ r.sum = "absent"}
===========================================================================
