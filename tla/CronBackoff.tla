----------------------------- MODULE CronBackoff -----------------------------
(***************************************************************************)
(* The backoff ladder of a cron entry (internal/cron/backoff.go): nothing  *)
(* remembers the rung; every tick derives it from the delivery log and the *)
(* moment the target last changed its state.  That moment also moves when  *)
(* the target answers a ping, so the join must tell the answers from       *)
(* genuine activity.                                                       *)
(*                                                                         *)
(* Time is counted in ticks of the clock (30 s).                           *)
(***************************************************************************)
EXTENDS Integers, Sequences, FiniteSets

CONSTANTS
  Attribution,  \* attributionWindow
  SeedSkew,     \* one tick
  Schedules     \* the schedules a run starts from

\* A backoff schedule and the bounds of the model with it.
ScheduleType ==
  [min : Nat \ {0}, max : Nat \ {0},
   late : Nat,         \* bound of the model: how late a due fire may be observed
   activities : Nat,   \* bound of the model: genuine activities
   time : Nat \ {0}]   \* bound of the model: the clock

ASSUME BackoffConstantsOK ==
  /\ Attribution \in Nat /\ SeedSkew \in Nat
  /\ SeedSkew <= Attribution
  /\ \A s \in Schedules : s \in ScheduleType /\ s.min <= s.max

VARIABLES
  schedule,
  clock,
  epoch,       \* when the target last changed its state
  deliveries,  \* the entry's own lines since its last edit: their times
  genuine,     \* history: the last activity that no ping caused
  fired,       \* history: pings since then
  activities

backoffVars == <<schedule, clock, epoch, deliveries, genuine, fired, activities>>

-----------------------------------------------------------------------------
(* The ladder of schedule s *)

\* The gap doubles up to the cap.
gapAfter(s) ==
  LET gap[rung \in Nat] ==
        IF rung = 0 THEN s.min
        ELSE LET next == 2 * gap[rung - 1] IN IF next > s.max THEN s.max ELSE next
  IN  gap

\* From the anchor to fire n.
ladderSum(s) ==
  LET sum[n \in Nat] == IF n = 0 THEN 0 ELSE sum[n - 1] + gapAfter(s)[n - 1]
  IN  sum

NextFire(s, ladder) == ladder.anchor + ladderSum(s)[ladder.rung + 1]

\* The times of the log, from here on, are D.
Newest(D) == D[Len(D)]

Attributed(rawEpoch, D) == rawEpoch <= Newest(D) + Attribution

\* The first rung at the cap.
CapRung(s) == CHOOSE r \in 1 .. s.max : /\ gapAfter(s)[r] = s.max
                                        /\ \A q \in 1 .. r - 1 : gapAfter(s)[q] < s.max

\* Slip: the tolerance is taken off the gap.
SlipSeedRung(s, gap) == Cardinality({r \in 1 .. CapRung(s) : gapAfter(s)[r] <= gap - Attribution})

\* largestRungWithGapAtMost of the newest gap and the skew: the first capped
\* rung stands for all of them, and 0 says that no gap fits.
SeedRung(s, gap) == Cardinality({r \in 1 .. CapRung(s) : gapAfter(s)[r] <= gap + SeedSkew})

\* One step of the walk: the rung of the pair below one of rung `rung`; 0 ends
\* the streak.
Below(s, rung, gap) ==
  IF gapAfter(s)[rung] = s.max /\ gap >= s.max - Attribution THEN rung
  ELSE IF rung > 1 /\ gap >= gapAfter(s)[rung - 1] - Attribution THEN rung - 1
  ELSE 0

\* Between the k-th newest delivery and the one before it.
PairGap(D, k) == D[Len(D) - k + 1] - D[Len(D) - k]

\* The rung of the k-th newest pair of deliveries.
PairRung(s, D) ==
  LET walk[k \in 1 .. Len(D) - 1] ==
        IF k = 1 THEN SeedRung(s, PairGap(D, 1))
        ELSE LET above == walk[k - 1] IN IF above = 0 THEN 0 ELSE Below(s, above, PairGap(D, k))
  IN  walk

Streak(s, D) ==
  LET rung == PairRung(s, D)
  IN  1 + Cardinality({k \in 1 .. Len(D) - 1 : rung[k] > 0})

\* The ladder whose first ping is the k-th newest delivery.
LadderOf(s, D, k) == [anchor |-> D[Len(D) - k + 1] - s.min, rung |-> k]

\* Slip: no consistency floor.
SlipTooSoon(s, D, ladder) == FALSE

\* The floor: a continuing ladder never fires sooner than one first gap after
\* the newest delivery.
TooSoon(s, D, ladder) == NextFire(s, ladder) < Newest(D) + s.min

JoinAnchor(s, rawEpoch, D) ==
  LET walked == LadderOf(s, D, Streak(s, D))
  IN  IF D = <<>> \/ ~Attributed(rawEpoch, D) THEN [anchor |-> rawEpoch, rung |-> 0]
      ELSE IF TooSoon(s, D, walked) THEN LadderOf(s, D, 1)
      ELSE walked

Joined == JoinAnchor(schedule, epoch, deliveries)

-----------------------------------------------------------------------------
(* Time moves from event to event. *)

BackoffInit ==
  /\ schedule \in Schedules
  /\ clock = 1 /\ epoch = 1 /\ genuine = 1
  /\ deliveries = <<>>
  /\ fired = 0
  /\ activities = 0

\* A tick at time t delivers and logs.
Ping(t, due) ==
  /\ t >= due
  /\ clock' = t
  /\ deliveries' = Append(deliveries, t)
  /\ fired' = fired + 1
  /\ UNCHANGED <<schedule, epoch, genuine, activities>>

\* The target answers a ping within the attribution window.
Answer(t) ==
  /\ deliveries # <<>> /\ t <= Newest(deliveries) + Attribution
  /\ clock' = t /\ epoch' = t
  /\ UNCHANGED <<schedule, deliveries, genuine, fired, activities>>

\* Somebody else sets the target to work, later than any answer: within the
\* window the code takes it for one (Answer).
Activity(t) ==
  /\ activities < schedule.activities
  /\ deliveries # <<>> => t > Newest(deliveries) + Attribution
  /\ clock' = t /\ epoch' = t /\ genuine' = t
  /\ fired' = 0
  /\ activities' = activities + 1
  /\ UNCHANGED <<schedule, deliveries>>

\* No tick leaves a due fire for longer than schedule.late.
BackoffNext ==
  LET due == NextFire(schedule, Joined)
  IN  \E t \in clock .. schedule.time :
        t <= due + schedule.late /\ (Ping(t, due) \/ Answer(t) \/ Activity(t))

BackoffSpec == BackoffInit /\ [][BackoffNext]_backoffVars

-----------------------------------------------------------------------------
(* Properties *)

BackoffTypeOK ==
  /\ schedule \in Schedules
  /\ {clock, epoch, genuine} \subseteq 1 .. schedule.time
  /\ epoch <= clock /\ genuine <= epoch
  /\ deliveries \in Seq(1 .. clock)
  /\ fired \in 0 .. Len(deliveries)
  /\ activities \in 0 .. schedule.activities
  /\ Joined.rung \in 0 .. Len(deliveries) /\ Joined.anchor <= clock

\* The rungs of a ladder can be told apart by the gaps that a log shows: a fire is
\* observed no later than the seed allows for, and the last rung below the cap
\* either stays below it with both tolerances, or the tolerance of the walk
\* outweighs it.
Telling(s) ==
  /\ s.late <= s.min /\ s.late <= SeedSkew /\ s.late + SeedSkew < 2 * s.min
  /\ LET last == gapAfter(s)[CapRung(s) - 1]
     IN  last + s.late + Attribution < s.max \/ last + s.late <= Attribution + 2 * s.min

\* The gap the join derives from the log alone is the gap after as many pings
\* as there were.
JoinIsExact == gapAfter(schedule)[Joined.rung] = gapAfter(schedule)[fired]

\* As long as no genuine activity interrupts a ladder whose rungs can be told
\* apart, answers of the target and ticks that observe a due fire late
\* never make the join forget a rung or invent one (seedSkew, the walk at the cap).
JoinCountsPings == schedule.activities = 0 /\ Telling(schedule) => JoinIsExact

\* "A streak parked at max keeps its full rung count and keeps firing every max"
\* (docs/memory/run-kit/cron.md): JoinCountsPings of every schedule, told apart or not.
LadderStaysAtCap == schedule.activities = 0 => JoinIsExact

\* Whatever activity interrupts the ladder, no ping comes sooner after the
\* previous one than the first gap.
Spaced ==
  \A i \in 1 .. Len(deliveries) - 1 : deliveries[i + 1] - deliveries[i] >= schedule.min

\* "Flat backoff, min == max: 3 m after the last genuine idle moment, then
\* every 3 m while it stays quiet; own pings don't restart the count"
\* (docs/specs/cron.md).
FlatIsPeriodic ==
  schedule.min = schedule.max =>
    NextFire(schedule, Joined) =
      schedule.min + (IF fired = 0 THEN genuine ELSE Newest(deliveries))

\* "Gaps min, 2*min, 4*min, ... with each gap capped at max" (backoff.go).
GapCapped == fired > 0 => NextFire(schedule, Joined) <= Newest(deliveries) + schedule.max

=============================================================================
