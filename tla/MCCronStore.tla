----------------------------- MODULE MCCronStore -----------------------------
(***************************************************************************)
(* Values for the runs of CronStore.                                       *)
(***************************************************************************)
EXTENDS CronStore, TLC

\* Those that hold the lock alone, then each next to others.
Overlaps ==
  {{"edit", "expire"}, {"add", "edit", "expire"}, {"add", "remove", "pin"},
   {"mute", "expire"}}

LockFree == {{"add", "remove", "mute"}}

Symmetry == Permutations(Process) \cup Permutations(Id) \cup Permutations(Version)

=============================================================================
