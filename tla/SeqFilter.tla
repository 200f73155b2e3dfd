------------------------------ MODULE SeqFilter ------------------------------
(***************************************************************************)
(* Filtering a sequence in place, the Go idiom `kept := q[:0]; for ...     *)
(* append` that the trackers of package api use, and taking a stream's     *)
(* frames off a queue of the terminal sockets.  KeepAt(q, K) keeps the     *)
(* elements of q at the positions K, in their order.  It equals the        *)
(* standard SelectSeq (MCOperatorQueue checks it) and is defined without   *)
(* recursion so that SeqFilterProofs can reason about it.                  *)
(***************************************************************************)
EXTENDS Integers, FiniteSets, Sequences

\* How many of the positions K are at or before i.
Rank(i, K) == Cardinality({k \in K : k <= i})

KeepAt(q, K) ==
  [j \in 1 .. Cardinality(K) |-> q[CHOOSE i \in K : Rank(i, K) = j]]

Elems(q) == {q[i] : i \in DOMAIN q}

Increasing(q) == \A i, j \in DOMAIN q : i < j => q[i] < q[j]

=============================================================================
