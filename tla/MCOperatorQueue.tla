--------------------------- MODULE MCOperatorQueue ---------------------------
(***************************************************************************)
(* The run of OperatorQueue, and a check of the filter it is              *)
(* built on: on every sequence of up to four booleans KeepAt keeps what    *)
(* the standard SelectSeq keeps.                                           *)
(***************************************************************************)
EXTENDS OperatorQueue

ASSUME KeepAtIsSelectSeq ==
  \A n \in 0 .. 4 : \A q \in [1 .. n -> BOOLEAN \X (1 .. 2)] :
    KeepAt(q, {i \in DOMAIN q : q[i][1]}) = SelectSeq(q, LAMBDA e : e[1])

=============================================================================
