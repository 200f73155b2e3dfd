----------------------------- MODULE MCStateLink ----------------------------
(* Two servers, and what may happen around the tab. *)
EXTENDS StateLink

CONSTANTS s1, s2

Quiet == [cuts |-> 0, kills |-> 0, births |-> 0, changes |-> 0, restarts |-> 0,
          fails |-> 0, moves |-> 0, wakes |-> 0]

\* A server that dies and comes back, while the user moves or the connection is
\* cut; a cut and a wake; a change and a restart; a fetch that fails.
BudgetSet ==
  {[Quiet EXCEPT !.kills = 1, !.births = 1, !.moves = 1],
   [Quiet EXCEPT !.kills = 1, !.births = 1, !.cuts = 1],
   [Quiet EXCEPT !.cuts = 1, !.wakes = 1],
   [Quiet EXCEPT !.changes = 1, !.restarts = 1],
   [Quiet EXCEPT !.fails = 1, !.moves = 1]}

\* A server that dies and comes back, and a fetch that fails.
LostBudgetSet == {[Quiet EXCEPT !.kills = 1, !.births = 1, !.fails = 1]}

=============================================================================
