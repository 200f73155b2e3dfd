------------------------------ MODULE MCPollHub ------------------------------
(***************************************************************************)
(* Values for the run of PollHub: what surrounds the hub.                  *)
(***************************************************************************)
EXTENDS PollHub, TLC

CONSTANT s1

\* A loop that never ends, on its own without the safety timer.
Steady ==
  [pageOpen |-> TRUE, leaves |-> FALSE, mortal |-> {}, signals |-> {"bump", "wake"},
   timer |-> FALSE, changes |-> 1]

\* Connections that leave and return end the loop and start another.
Returning == [Steady EXCEPT !.pageOpen = FALSE, !.leaves = TRUE, !.signals = {"wake"},
                            !.timer = TRUE]

\* A socket that disappears.
Vanishing ==
  [pageOpen |-> FALSE, leaves |-> TRUE, mortal |-> {s1}, signals |-> {},
   timer |-> TRUE, changes |-> 1]

Surroundings == {Steady, Returning, Vanishing}

=============================================================================
