---------------------------- MODULE MCSharedLayout ---------------------------
(* Three windows, the first of which lends its web page, and two tabs. *)
EXTENDS SharedLayout

CONSTANTS A, B, C, t1, t2

WindowList == <<A, B, C>>
KindSets == (A :> {"tty", "web"}) @@ (B :> {"tty"}) @@ (C :> {"tty"})
TabsAlike == Permutations({t1, t2})
PageOfA == {[kind |-> "web", home |-> A]}

=============================================================================
