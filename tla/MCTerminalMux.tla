---------------------------- MODULE MCTerminalMux ---------------------------
(* Budgets for a tab with one terminal. *)
EXTENDS TerminalMux

CONSTANT p1

Allow(cuts, toggles, fails, ends, mounts) ==
  [cuts |-> cuts, toggles |-> toggles, fails |-> fails, ends |-> ends, mounts |-> mounts]

BudgetSet == {Allow(0, 2, 1, 0, 2), Allow(1, 1, 1, 0, 1), Allow(1, 2, 0, 0, 1), Allow(0, 2, 0, 1, 1)}

\* A cut, and a terminal that is replaced by another one.
StaleBudgetSet == {Allow(1, 0, 0, 0, 2)}

=============================================================================
