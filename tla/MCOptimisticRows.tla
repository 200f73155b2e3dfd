-------------------------- MODULE MCOptimisticRows --------------------------
(* Two sessions, and what the user asks of their windows. *)
EXTENDS OptimisticRows

CONSTANTS s1, s2, s3

Quiet == [hooks |-> {}, calls |-> 2, underWay |-> 1, fails |-> 1, births |-> 0, deaths |-> 0, moves |-> 0,
          misroutes |-> 0, unmounts |-> 0, homes |-> <<s1, s1, s2>>]

\* Kills, moves and renames, while another client makes, kills or moves a window; the
\* sidebar closing under a kill or a move; sessions killed or renamed; windows made,
\* in the session they are asked for or in another; and two calls of one hook under
\* way together, one of which fails.
SetupSet ==
  {[Quiet EXCEPT !.hooks = {"kill", "rename"}, !.deaths = 1, !.moves = 1],
   [Quiet EXCEPT !.hooks = {"kill", "move", "rename"}, !.births = 1],
   [Quiet EXCEPT !.hooks = {"kill", "move"}, !.unmounts = 1],
   [Quiet EXCEPT !.hooks = {"kill", "killSession"}],
   [Quiet EXCEPT !.hooks = {"kill", "renameSession"}],
   [Quiet EXCEPT !.hooks = {"create", "move"}, !.fails = 0, !.births = 1, !.underWay = 2,
                 !.homes = <<s1, s2>>],
   [Quiet EXCEPT !.hooks = {"create"}, !.births = 1, !.homes = <<s1, s2>>],
   [Quiet EXCEPT !.hooks = {"dialog"}, !.calls = 1, !.fails = 0],
   [Quiet EXCEPT !.hooks = {"create", "kill"}, !.misroutes = 1, !.unmounts = 1],
   [Quiet EXCEPT !.hooks = {"kill", "rename"}, !.underWay = 2],
   [Quiet EXCEPT !.hooks = {"killSession"}, !.underWay = 2, !.births = 1, !.homes = <<s1, s2>>]}

\* The kill that asks first, and a failure.
DialogSetupSet == {[Quiet EXCEPT !.hooks = {"dialog"}]}

=============================================================================
