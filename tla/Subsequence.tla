---------------------------- MODULE Subsequence ----------------------------
(***************************************************************************)
(* Taking elements out of a sequence, as the loops over lists and the      *)
(* removeAll and erase of the containers do.  SelectSeq of the module      *)
(* Sequences says the same by a test; the provers cannot reason about an   *)
(* operator that takes a test, so here the elements are chosen by place.   *)
(***************************************************************************)
EXTENDS Naturals, Sequences

\* The elements of s at places, in order.
Picked(s, places) ==
    LET upTo[n \in 0..Len(s)] ==
          IF n = 0 THEN <<>>
          ELSE IF n \in places THEN Append(upTo[n - 1], s[n])
          ELSE upTo[n - 1]
    IN  upTo[Len(s)]

\* s without any element equal to e: QList::removeAll, std::erase.
Without(s, e) == Picked(s, {i \in DOMAIN s : s[i] # e})
=============================================================================
