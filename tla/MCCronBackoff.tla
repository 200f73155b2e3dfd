---------------------------- MODULE MCCronBackoff ----------------------------
(***************************************************************************)
(* The schedules for the runs of CronBackoff, in ticks of 30 s: the 3 m /  *)
(* 24 m of the operator and the flat 3 m of `--idle-every 3m` among them.  *)
(***************************************************************************)
EXTENDS CronBackoff

\* No activity: the ladder climbs past the cap.
Climbing == [min |-> 6, max |-> 48, late |-> 1, activities |-> 0, time |-> 190]

\* One minute, shorter than the attribution window.
Short == [min |-> 2, max |-> 8, late |-> 1, activities |-> 0, time |-> 40]

\* Activity at any time.
Interrupted == [min |-> 6, max |-> 24, late |-> 1, activities |-> 2, time |-> 60]

Flat == [min |-> 6, max |-> 6, late |-> 1, activities |-> 2, time |-> 36]

Ladders == {Climbing, Short, Interrupted, Flat}

\* The counting property speaks of these.
ASSUME \A s \in {Climbing, Short} : Telling(s)

Interruption == {Interrupted}

\* One minute to ten: the rung below the cap is within the attribution window of it.
TenMinutes == {[min |-> 2, max |-> 20, late |-> 0, activities |-> 0, time |-> 60]}

=============================================================================
