------------------------------ MODULE CronProofs ------------------------------
(***************************************************************************)
(* The clock, the entry file and the backoff ladder of the scheduler, for  *)
(* every set of ids and processes, every installation, every schedule and  *)
(* every bound.                                                            *)
(*                                                                         *)
(* The clock (CronTick).  A sweep evaluates once and then delivers,        *)
(* appends and expires over many steps, while the world, the clock and the *)
(* editors go on.  What it evaluated stays true for as long as it needs it *)
(* because the lock is of one process at work (OneAtWork): until an entry  *)
(* is fired no line of its own is appended (SweepStands).  The accounts    *)
(* relate what entered the pane, what the log tells and what deaths lost   *)
(* (DeathsAccount, WakesCaused, EditsRecorded); they are off by one where  *)
(* a process is between two of its writes, and only there.                 *)
(*                                                                         *)
(* The entry file (CronStore).  The cap is not inductive: that a write     *)
(* keeps it needs that the copy of an overlapping Add had room when it was *)
(* taken (Room), however the file changed since.  That a locked write is   *)
(* one change needs that the lock is held throughout and that nobody else  *)
(* writes (Exclusive).                                                     *)
(*                                                                         *)
(* The ladder (CronBackoff).  What its recursive functions compute is      *)
(* shown by way of the least counterexample (EveryNatural) and of the      *)
(* function that a start and a step define (Iteration).  On a log whose    *)
(* pings came on time (OnTime) the walk gives every pair a rung that fits  *)
(* it (Fits), so the streak is the whole log and the join the ladder of    *)
(* its first delivery (JoinOnTime); that keeps the next ping on time.      *)
(***************************************************************************)
EXTENDS CronTick, CronStore, CronBackoff, SeqFilterProofs, SequenceTheorems

\* Past its evaluation, before its end.
Sweeping(p) == tick[p].pc \in {"fire", "append"}

\* The lock is of the one process at work.
OneAtWork ==
  /\ \A p \in Invoker : tick[p].pc # "idle" => lock = p
  /\ \A d \in Editor : edit[d].pc \in {"save", "append"} => lock = d

\* The line about to be appended is of this sweep, and of an entry that it has
\* fired; a delivery that it records is the last one.
LineStands(k) ==
  LET l == k.line[1] IN
  /\ k.line \in Seq(LineType) /\ Len(k.line) = 1
  /\ l.ts = k.now /\ l.outcome \notin {"rescheduled", "held"}
  /\ \A i \in DOMAIN k.fires : k.fires[i].entry # l.entry
  /\ l.entry \in k.orphans => l.outcome \notin Evidence
  /\ l.outcome = "delivered" =>
       /\ l.pane /\ k.orphans = {}
       /\ sent # <<>>
       /\ sent[Len(sent)].entry = l.entry /\ sent[Len(sent)].at = k.now
       /\ ~sent[Len(sent)].logged

\* An entry whose wake may be fired at t: no line of its own is within the debounce.
Rested(e, t) ==
  e \in setup.wakes /\ (Own(e, Len(log)) = {} \/ Anchor(e) + setup.debounce <= t)

\* What a sweep has evaluated stays true of the log until it fires it.
SweepStands(k) ==
  /\ k.now \in Time /\ k.now <= now
  /\ \A i \in DOMAIN sent : sent[i].at <= k.now
  /\ \A i \in DOMAIN log : log[i].outcome # "rescheduled" => log[i].ts <= k.now
  /\ k.fires # <<>> => k.orphans = {}
  /\ \A i, j \in DOMAIN k.fires : i # j => k.fires[i].entry # k.fires[j].entry
  /\ \A i \in DOMAIN k.fires :
       IF k.fires[i].reason = "schedule" THEN DueAt(k.fires[i].entry) <= k.now
       ELSE Rested(k.fires[i].entry, k.now)
  /\ \A e \in k.orphans : \A i \in k.gcLen + 1 .. Len(log) :
       log[i].entry = e => log[i].outcome \notin Evidence
  /\ k.pc = "append" => LineStands(k)

Sweeps == \A p \in Invoker : Sweeping(p) => SweepStands(tick[p])

\* The lines of the ticks are in the order of their times.
LinesInOrder ==
  /\ \A i \in DOMAIN log : log[i].outcome # "rescheduled" => log[i].ts <= now
  /\ \A i, j \in DOMAIN log :
       i < j /\ log[i].outcome # "rescheduled" /\ log[j].outcome # "rescheduled"
         => log[i].ts <= log[j].ts

\* The deliveries are in the order of their times; each that is logged has its line.
SentInOrder ==
  /\ \A i \in DOMAIN sent : sent[i].at <= now
  /\ \A i, j \in DOMAIN sent : i < j => sent[i].at <= sent[j].at
  /\ \A i \in DOMAIN sent : sent[i].logged =>
       \E k \in DOMAIN log : /\ log[k].entry = sent[i].entry /\ log[k].ts = sent[i].at
                             /\ log[k].outcome # "rescheduled"

\* A line that resets an anchor is of an edit that has saved.
Appending(d, e) == edit[d].pc = "append" /\ edit[d].entry = e
Resets(e) == {i \in DOMAIN log : log[i].entry = e /\ log[i].outcome = "rescheduled"}

EditsRecorded ==
  /\ \A e \in Entry :
       edits[e] <= Cardinality(Resets(e)) + crashes
                     + (IF \E d \in Editor : Appending(d, e) THEN 1 ELSE 0)
  /\ \A d \in Editor : edit[d].pc # "idle" => edit[d].entry \in Entry /\ edit[d].now \in Time
  /\ \A d \in Editor : \A e \in Entry : Appending(d, e) => edits[e] > 0
  /\ \A e \in Entry : edits[e] = 0 => Resets(e) = {}

\* A payload enters the pane twice within a period, and a wake follows a delivery within
\* the debounce, only where no line tells of the first.
Gap(reason) == IF reason = "schedule" THEN setup.interval ELSE setup.debounce
RepeatsUnlogged ==
  \A i \in DOMAIN sent : \A j \in 1 .. i - 1 :
    /\ edits[sent[i].entry] = 0
    /\ sent[i].entry = sent[j].entry /\ sent[i].at - sent[j].at < Gap(sent[i].reason)
    => ~sent[j].logged

InFlight ==
  \E p \in Invoker : tick[p].pc = "append" /\ tick[p].line[1].outcome = "delivered"
Unlogged == {i \in DOMAIN sent : ~sent[i].logged}
LoggedSince(t) == {i \in DOMAIN sent : sent[i].logged /\ sent[i].at >= t}
DeliveredSince(t) ==
  {i \in DOMAIN log : log[i].ts >= t /\ log[i].outcome = "delivered" /\ log[i].pane}

\* A delivery without a line is one that a death lost, or the one in flight; the lines
\* of the pane count the others.
DeathsAccount ==
  /\ Cardinality(Unlogged) <= crashes + (IF InFlight THEN 1 ELSE 0)
  /\ \A t \in Int : Cardinality(LoggedSince(t)) <= Cardinality(DeliveredSince(t))

\* One more wake is to come of an observation, or of a sweep.
Turn(seen) == IF seen = "active" /\ others = "idle" THEN 1 ELSE 0
Waking(k, e) ==
  IF \E i \in DOMAIN k.fires : k.fires[i].entry = e /\ k.fires[i].reason = "wake"
  THEN 1 ELSE 0
Wakes(e) == {i \in DOMAIN sent : sent[i].entry = e /\ sent[i].reason = "wake"}

WakesCaused ==
  \A e \in Entry :
    /\ (\A p \in Invoker : ~Sweeping(p)) =>
         Cardinality(Wakes(e)) + Turn(cursor[e]) <= edges + crashes
    /\ \A p \in Invoker : Sweeping(p) =>
         LET w == Cardinality(Wakes(e)) + Waking(tick[p], e)
         IN  /\ w + Turn(tick[p].next[e]) <= edges + crashes
             /\ w + Turn(cursor[e]) <= edges + (crashes + 1)

\* A held fire by schedule is due for as long as no line settles it.
HeldIsDue == \A e \in held \ setup.wakes : now >= DueAt(e)

Inv ==
  /\ TypeOK /\ OneAtWork /\ Sweeps /\ LinesInOrder /\ SentInOrder /\ EditsRecorded
  /\ RepeatsUnlogged /\ DeathsAccount /\ RateBound /\ WakesCaused /\ HeldIsDue

-----------------------------------------------------------------------------
(* Counting positions, and the newest line of an entry *)

LEMMA GreatestPosition ==
  ASSUME NEW n \in Nat, NEW S \in SUBSET (1 .. n), S # {}
  PROVE  \E i \in S : \A j \in S : j <= i
<1> DEFINE T == {n - i : i \in S}
<1>0. \A i \in S : i \in 1 .. n
  OBVIOUS
<1>1. T \in SUBSET Nat /\ T # {}
  <2>1. \A i \in S : n - i \in Nat
    BY <1>0
  <2>2. QED
    BY <2>1
<1>2. PICK m \in T : \A k \in T : m <= k
  BY <1>1, LeastNatural
<1>3. PICK i \in S : m = n - i
  BY <1>2
<1>4. ASSUME NEW j \in S PROVE j <= i
  <2>1. n - j \in T
    BY <1>4
  <2>2. QED
    BY <1>2, <1>3, <2>1
<1>5. QED
  BY <1>4

LEMMA LatestIs ==
  ASSUME NEW n \in Nat, NEW S \in SUBSET (1 .. n), S # {}
  PROVE  Latest(S) \in S /\ \A j \in S : j <= Latest(S)
BY GreatestPosition DEF Latest

LEMMA OldestIs ==
  ASSUME NEW S \in SUBSET Nat, S # {}
  PROVE  Oldest(S) \in S /\ \A j \in S : Oldest(S) <= j
BY LeastNatural DEF Oldest

\* A set of positions of a sequence is finite.
LEMMA Positions ==
  ASSUME NEW X, NEW q \in Seq(X), NEW S \in SUBSET (DOMAIN q)
  PROVE  IsFiniteSet(S) /\ Cardinality(S) \in Nat
<1>1. DOMAIN q = 1 .. Len(q) /\ Len(q) \in Nat
  OBVIOUS
<1>2. QED
  BY <1>1, PositionsFinite

\* A set of positions is not smaller than one of its parts.
LEMMA Fewer ==
  ASSUME NEW X, NEW q \in Seq(X), NEW S \in SUBSET (DOMAIN q), NEW T \in SUBSET S
  PROVE  Cardinality(T) <= Cardinality(S) /\ Cardinality(T) \in Nat /\ Cardinality(S) \in Nat
<1>1. IsFiniteSet(S) /\ Cardinality(S) \in Nat
  BY Positions
<1>2. QED
  BY <1>1, FS_Subset, FS_CardinalityType

\* One position more.
LEMMA OneMore ==
  ASSUME NEW X, NEW q \in Seq(X), NEW S \in SUBSET (DOMAIN q), NEW i, i \notin S
  PROVE  Cardinality(S \cup {i}) = Cardinality(S) + 1 /\ Cardinality(S) \in Nat
<1>1. IsFiniteSet(S) /\ Cardinality(S) \in Nat
  BY Positions
<1>2. QED
  BY <1>1, FS_AddElement

-----------------------------------------------------------------------------
(* The installation *)

LEMMA SetupFacts ==
  ASSUME setup \in Setups
  PROVE  /\ setup.invokers \subseteq Invoker /\ setup.editors \subseteq Editor
         /\ setup.entries \subseteq Entry /\ setup.expirable \subseteq Entry
         /\ setup.wakes \subseteq Entry /\ setup.whenIdle \subseteq Entry
         /\ setup.interval \in Nat \ {0} /\ setup.debounce \in Nat \ {0}
         /\ setup.rateCap \in Nat \ {0} /\ setup.orphanTTL \in Nat \ {0}
         /\ setup.maxTime \in Nat \ {0} /\ setup.maxCrash \in Nat
         /\ setup.maxEdge \in Nat /\ setup.maxEdit \in Nat
BY ConstantsOK DEF SetupType

\* Time goes from one to its bound.
LEMMA Times ==
  ASSUME setup \in Setups
  PROVE  Time \subseteq Nat /\ CreatedAt \in Time /\ \A t \in Time : t >= CreatedAt
BY SetupFacts DEF Time, CreatedAt

-----------------------------------------------------------------------------
(* The anchor *)

\* The anchor is the creation or the time of a line.
LEMMA AnchorFacts ==
  ASSUME log \in Seq(LineType), NEW e
  PROVE  /\ Own(e, Len(log)) = {i \in DOMAIN log : log[i].entry = e}
         /\ Own(e, Len(log)) # {} =>
              \E i \in DOMAIN log :
                /\ log[i].entry = e /\ Anchor(e) = log[i].ts
                /\ \A j \in DOMAIN log : log[j].entry = e => j <= i
         /\ Own(e, Len(log)) = {} => Anchor(e) = CreatedAt
<1>1. Own(e, Len(log)) = {i \in DOMAIN log : log[i].entry = e}
  BY DEF Own
<1>2. ASSUME Own(e, Len(log)) # {}
      PROVE  \E i \in DOMAIN log :
                /\ log[i].entry = e /\ Anchor(e) = log[i].ts
                /\ \A j \in DOMAIN log : log[j].entry = e => j <= i
  <2> DEFINE own == Own(e, Len(log))
  <2>1. own \in SUBSET (1 .. Len(log)) /\ Len(log) \in Nat
    BY DEF Own
  <2>2. Latest(own) \in own /\ \A j \in own : j <= Latest(own)
    BY <1>2, <2>1, LatestIs
  <2>3. Anchor(e) = log[Latest(own)].ts
    BY <1>2 DEF Anchor
  <2>4. QED
    BY <1>1, <2>2, <2>3
<1>3. Own(e, Len(log)) = {} => Anchor(e) = CreatedAt
  BY DEF Anchor
<1>4. QED
  BY <1>1, <1>2, <1>3

\* What the types say of a line, a delivery and a process.
LEMMA Typed ==
  ASSUME TypeOK
  PROVE  /\ setup \in Setups /\ log \in Seq(LineType) /\ Len(log) \in Nat
         /\ DOMAIN log = 1 .. Len(log)
         /\ \A i \in DOMAIN log :
              /\ log[i] \in LineType /\ log[i].ts \in Time /\ log[i].entry \in Entry
              /\ log[i].outcome \in Outcome /\ log[i].pane \in BOOLEAN
         /\ Len(sent) \in Nat /\ DOMAIN sent = 1 .. Len(sent) /\ sent \in Seq(SentType)
         /\ \A i \in DOMAIN sent :
              /\ sent[i] \in SentType /\ sent[i].entry \in Entry /\ sent[i].at \in Time
              /\ sent[i].reason \in {"schedule", "wake"} /\ sent[i].logged \in BOOLEAN
         /\ now \in Time /\ edges \in Nat /\ crashes \in Nat
<1>1. /\ setup \in Setups /\ log \in Seq(LineType) /\ sent \in Seq(SentType)
      /\ now \in Time /\ edges \in 0 .. setup.maxEdge /\ crashes \in 0 .. setup.maxCrash
  BY DEF TypeOK
<1>2. /\ Len(log) \in Nat /\ DOMAIN log = 1 .. Len(log)
      /\ \A i \in DOMAIN log : log[i] \in LineType
  BY <1>1
<1>3. /\ Len(sent) \in Nat /\ DOMAIN sent = 1 .. Len(sent)
      /\ \A i \in DOMAIN sent : sent[i] \in SentType
  BY <1>1
<1>4. QED
  BY <1>1, <1>2, <1>3 DEF LineType, SentType

LEMMA AnchorTime ==
  ASSUME TypeOK, NEW e
  PROVE  Anchor(e) \in Time /\ DueAt(e) \in Nat /\ DueAt(e) = Anchor(e) + setup.interval
<1>1. log \in Seq(LineType) /\ setup \in Setups
  BY DEF TypeOK
<1>2. Anchor(e) \in Time
  <2>1. CASE Own(e, Len(log)) = {}
    BY <1>1, <2>1, AnchorFacts, Times
  <2>2. CASE Own(e, Len(log)) # {}
    <3>1. PICK i \in DOMAIN log : Anchor(e) = log[i].ts
      BY <1>1, <2>2, AnchorFacts
    <3>2. QED
      BY <3>1, Typed
  <2>3. QED
    BY <2>1, <2>2
<1>3. QED
  BY <1>1, <1>2, Times, SetupFacts DEF DueAt

\* A line of another entry moves no anchor.
LEMMA AnchorStays ==
  ASSUME log \in Seq(LineType), NEW l \in LineType, log' = Append(log, l), NEW e, l.entry # e
  PROVE  Anchor(e)' = Anchor(e) /\ Own(e, Len(log))' = Own(e, Len(log))
<1>1. /\ Len(log') = Len(log) + 1 /\ Len(log) \in Nat
      /\ \A i \in 1 .. Len(log) : log'[i] = log[i]
      /\ log'[Len(log) + 1] = l
  BY AppendProperties
<1>2. Own(e, Len(log))' = Own(e, Len(log))
  BY <1>1 DEF Own
<1>3. \A i \in Own(e, Len(log)) : log'[i] = log[i]
  BY <1>1 DEF Own
<1>4. CASE Own(e, Len(log)) = {}
  BY <1>2, <1>4 DEF Anchor
<1>5. CASE Own(e, Len(log)) # {}
  <2> DEFINE own == Own(e, Len(log))
  <2>1. own \in SUBSET (1 .. Len(log))
    BY DEF Own
  <2>2. Latest(own) \in own
    BY <1>1, <1>5, <2>1, LatestIs
  <2>3. Anchor(e) = log[Latest(own)].ts
    BY <1>5 DEF Anchor
  <2>4. Anchor(e)' = log'[Latest(own)].ts
    <3> HIDE DEF own
    <3>1. own' = own
      BY <1>2 DEF own
    <3>2. Anchor(e)' = log'[Latest(own')].ts
      BY <1>2, <1>5 DEF Anchor, own
    <3>3. QED
      BY <3>1, <3>2
  <2>5. QED
    BY <1>2, <1>3, <2>2, <2>3, <2>4
<1>6. QED
  BY <1>4, <1>5

-----------------------------------------------------------------------------
(* The fires of an evaluation *)

\* The file order lists every entry once.
LEMMA FileOrder ==
  ASSUME NEW S, IsFiniteSet(S)
  PROVE  /\ Cardinality(S) \in Nat
         /\ SetToSeq(S) \in [1 .. Cardinality(S) -> S]
         /\ \A i, j \in 1 .. Cardinality(S) : i # j => SetToSeq(S)[i] # SetToSeq(S)[j]
         /\ \A x \in S : \E i \in 1 .. Cardinality(S) : SetToSeq(S)[i] = x
<1> DEFINE n == Cardinality(S)
<1>1. n \in Nat /\ ExistsBijection(1 .. n, S)
  BY FS_CardinalityType
<1>2. PICK f \in Bijection(1 .. n, S) : TRUE
  BY <1>1 DEF ExistsBijection
<1>3. f \in [1 .. n -> S] /\ IsInjective(f)
  BY <1>2 DEF Bijection, Injection
<1> DEFINE g == SetToSeq(S)
<1>4. g \in [1 .. n -> S] /\ IsInjective(g)
  BY <1>3 DEF SetToSeq
<1>5. \A i, j \in 1 .. n : i # j => g[i] # g[j]
  BY <1>4 DEF IsInjective
<1>6. \A x \in S : \E i \in 1 .. n : g[i] = x
  <2>1. g \in Injection(1 .. n, S)
    BY <1>4 DEF Injection
  <2>2. IsFiniteSet(1 .. n) /\ Cardinality(1 .. n) = n
    BY <1>1, FS_Interval
  <2>3. g \in Surjection(1 .. n, S)
    <3> HIDE DEF g
    <3> QED BY <2>1, <2>2, FS_Injection
  <2>4. QED
    BY <2>3 DEF Surjection
<1>7. QED
  BY <1>1, <1>4, <1>5, <1>6

\* DueFires has each due entry once, by its schedule where that is due.
LEMMA DueFiresFacts ==
  ASSUME TypeOK
  PROVE  /\ DueFires \in Seq(FireType)
         /\ \A i, j \in DOMAIN DueFires : i # j => DueFires[i].entry # DueFires[j].entry
         /\ \A i \in DOMAIN DueFires :
              /\ DueFires[i].entry \in present
              /\ DueFires[i].reason \in {"schedule", "wake"}
              /\ IF DueFires[i].reason = "schedule" THEN ScheduleDue(DueFires[i].entry)
                 ELSE WakeDue(DueFires[i].entry)
         /\ \A e \in present : ScheduleDue(e) =>
              \E i \in DOMAIN DueFires : DueFires[i].entry = e
<1> DEFINE due == {e \in present : ScheduleDue(e) \/ WakeDue(e)}
           order == SetToSeq(due)
           n == Cardinality(due)
           fire(e) == IF ScheduleDue(e)
                      THEN [entry |-> e, reason |-> "schedule", due |-> DueAt(e)]
                      ELSE [entry |-> e, reason |-> "wake", due |-> now]
<1>1. present \subseteq Entry /\ IsFiniteSet(due)
  <2>1. present \subseteq Entry /\ IsFiniteSet(Entry)
    BY ConstantsOK DEF TypeOK
  <2>2. due \in SUBSET Entry
    BY <2>1
  <2>3. QED
    BY <2>1, <2>2, FS_Subset
<1>2. /\ n \in Nat /\ order \in [1 .. n -> due]
      /\ \A i, j \in 1 .. n : i # j => order[i] # order[j]
      /\ \A x \in due : \E i \in 1 .. n : order[i] = x
  <2> HIDE DEF due
  <2> QED BY <1>1, FileOrder
<1>3. DueFires = [i \in 1 .. n |-> fire(order[i])]
  BY DEF DueFires
<1>4. \A i \in 1 .. n : order[i] \in due
  BY <1>2
<1>5. \A e \in due :
        /\ fire(e) \in FireType /\ fire(e).entry = e /\ e \in present
        /\ fire(e).reason \in {"schedule", "wake"}
        /\ IF fire(e).reason = "schedule" THEN ScheduleDue(e) ELSE WakeDue(e)
  <2> SUFFICES ASSUME NEW e \in due
               PROVE  /\ fire(e) \in FireType /\ fire(e).entry = e /\ e \in present
                      /\ fire(e).reason \in {"schedule", "wake"}
                      /\ IF fire(e).reason = "schedule" THEN ScheduleDue(e) ELSE WakeDue(e)
    OBVIOUS
  <2>1. e \in Entry /\ DueAt(e) \in Nat /\ now \in Nat
    BY <1>1, AnchorTime, Typed, Times
  <2>2. QED
    BY <2>1 DEF FireType
<1> HIDE DEF due, order, n, fire
<1>6. /\ DOMAIN DueFires = 1 .. n
      /\ \A i \in 1 .. n : DueFires[i] = fire(order[i])
  BY <1>3
<1>7. DueFires \in Seq(FireType)
  BY <1>2, <1>3, <1>4, <1>5
<1>8. \A i, j \in DOMAIN DueFires : i # j => DueFires[i].entry # DueFires[j].entry
  BY <1>2, <1>4, <1>5, <1>6
<1>9. \A e \in present : ScheduleDue(e) => e \in due
  BY DEF due
<1>10. QED
  BY <1>2, <1>4, <1>5, <1>6, <1>7, <1>8, <1>9

-----------------------------------------------------------------------------
(* One process at work *)

LEMMA TickAlone ==
  ASSUME OneAtWork, NEW p \in Invoker, tick[p].pc # "idle"
  PROVE  /\ lock = p
         /\ \A q \in Invoker : q # p => tick[q].pc = "idle" /\ ~Sweeping(q)
         /\ \A d \in Editor : edit[d].pc \notin {"save", "append"}
BY ConstantsOK DEF OneAtWork, Sweeping

LEMMA EditAlone ==
  ASSUME OneAtWork, NEW d \in Editor, edit[d].pc \in {"save", "append"}
  PROVE  /\ lock = d
         /\ \A p \in Invoker : tick[p].pc = "idle" /\ ~Sweeping(p)
         /\ \A c \in Editor : c # d => edit[c].pc \notin {"save", "append"}
BY ConstantsOK DEF OneAtWork, Sweeping

LEMMA NobodyAlone ==
  ASSUME OneAtWork, lock = None
  PROVE  /\ \A p \in Invoker : tick[p].pc = "idle" /\ ~Sweeping(p)
         /\ \A d \in Editor : edit[d].pc \notin {"save", "append"}
BY ConstantsOK DEF OneAtWork, Sweeping

-----------------------------------------------------------------------------
(* Steps that change neither the log nor the deliveries *)

LEMMA DueStays ==
  ASSUME log' = log, setup' = setup, NEW e
  PROVE  /\ DueAt(e)' = DueAt(e) /\ Anchor(e)' = Anchor(e)
         /\ \A t : Rested(e, t)' = Rested(e, t)
BY DEF DueAt, Anchor, Own, Latest, Rested

LEMMA OrdersKept ==
  ASSUME Inv, UNCHANGED <<setup, log, sent>>, now' >= now, now' \in Time,
         crashes' >= crashes, crashes' \in Nat,
         \A e \in Entry : edits'[e] = 0 => edits[e] = 0
  PROVE  LinesInOrder' /\ SentInOrder' /\ RepeatsUnlogged' /\ RateBound'
<1>1. /\ now \in Nat /\ now' \in Nat /\ crashes \in Nat /\ setup.rateCap \in Nat
      /\ \A t \in Time : t \in Nat
  BY Typed, Times, SetupFacts DEF Inv
<1>2. /\ \A i \in DOMAIN log : log[i].ts \in Time
      /\ \A i \in DOMAIN sent : sent[i].at \in Time /\ sent[i].entry \in Entry
  BY Typed DEF Inv
<1>3. LinesInOrder'
  <2>1. \A i \in DOMAIN log : log[i].outcome # "rescheduled" => log[i].ts <= now'
    <3> SUFFICES ASSUME NEW i \in DOMAIN log, log[i].outcome # "rescheduled"
                 PROVE  log[i].ts <= now'
      OBVIOUS
    <3>1. log[i].ts <= now /\ log[i].ts \in Nat
      BY <1>1, <1>2 DEF Inv, LinesInOrder
    <3>2. QED
      BY <1>1, <3>1
  <2>2. QED
    BY <2>1 DEF Inv, LinesInOrder
<1>4. SentInOrder'
  <2>1. \A i \in DOMAIN sent : sent[i].at <= now'
    <3> SUFFICES ASSUME NEW i \in DOMAIN sent
                 PROVE  sent[i].at <= now'
      OBVIOUS
    <3>1. sent[i].at <= now /\ sent[i].at \in Nat
      BY <1>1, <1>2 DEF Inv, SentInOrder
    <3>2. QED
      BY <1>1, <3>1
  <2>2. QED
    BY <2>1 DEF Inv, SentInOrder
<1>5. RepeatsUnlogged'
  <2>1. DOMAIN sent \subseteq Nat /\ \A i \in DOMAIN sent : \A j \in 1 .. i - 1 : TRUE
    BY Typed DEF Inv
  <2>2. QED
    BY <1>2, <2>1 DEF Inv, RepeatsUnlogged, Gap
<1>6. RateBound'
  <2> SUFFICES ASSUME NEW i \in DOMAIN sent
               PROVE  Cardinality({j \in DOMAIN sent : /\ sent[j].at <= sent[i].at
                                                       /\ sent[j].at >= sent[i].at - RateWindow})
                        <= setup.rateCap + crashes'
    BY DEF RateBound
  <2> DEFINE near == {j \in DOMAIN sent : /\ sent[j].at <= sent[i].at
                                          /\ sent[j].at >= sent[i].at - RateWindow}
  <2>1. Cardinality(near) <= setup.rateCap + crashes
    BY DEF Inv, RateBound
  <2>2. near \in SUBSET DOMAIN sent /\ sent \in Seq(SentType)
    BY Typed DEF Inv
  <2>3. Cardinality(near) \in Nat
    <3> HIDE DEF near
    <3> QED BY <2>2, Positions
  <2> HIDE DEF near
  <2>4. Cardinality(near) <= setup.rateCap + crashes'
    BY <1>1, <2>1, <2>3
  <2>5. QED
    BY <2>4 DEF near
<1>7. QED
  BY <1>3, <1>4, <1>5, <1>6

LEMMA HistoryKept ==
  ASSUME Inv, UNCHANGED <<setup, log, sent>>, now' >= now, now' \in Time,
         crashes' >= crashes, crashes' \in Nat, held' \subseteq held,
         \A e \in Entry : edits'[e] = 0 => edits[e] = 0
  PROVE  LinesInOrder' /\ SentInOrder' /\ RepeatsUnlogged' /\ RateBound' /\ HeldIsDue'
<1>1. now \in Nat /\ now' \in Nat
  BY Typed, Times DEF Inv
<1>2. HeldIsDue'
  <2> SUFFICES ASSUME NEW e \in held \ setup.wakes
               PROVE  now' >= DueAt(e)'
    BY DEF HeldIsDue
  <2>1. now >= DueAt(e) /\ DueAt(e) \in Nat
    BY AnchorTime DEF Inv, HeldIsDue
  <2>2. DueAt(e)' = DueAt(e)
    BY DueStays
  <2>3. QED
    BY <1>1, <2>1, <2>2
<1>3. QED
  BY <1>2, OrdersKept

LEMMA DeathsKept ==
  ASSUME Inv, UNCHANGED <<log, sent>>, crashes' \in Nat, crashes' >= crashes,
         InFlight => InFlight' \/ crashes' > crashes
  PROVE  DeathsAccount'
<1>1. Cardinality(Unlogged) \in Nat
  <2>1. Unlogged \in SUBSET DOMAIN sent /\ sent \in Seq(SentType)
    BY Typed DEF Inv, Unlogged
  <2>2. QED
    BY <2>1, Positions
<1>2. Unlogged' = Unlogged /\ \A t : LoggedSince(t)' = LoggedSince(t)
  BY DEF Unlogged, LoggedSince
<1>3. \A t : DeliveredSince(t)' = DeliveredSince(t)
  BY DEF DeliveredSince
<1>4. crashes \in Nat
  BY Typed DEF Inv
<1>5. Cardinality(Unlogged) <= crashes + (IF InFlight THEN 1 ELSE 0)
  BY DEF Inv, DeathsAccount
<1>6. Cardinality(Unlogged) <= crashes' + (IF InFlight' THEN 1 ELSE 0)
  BY <1>1, <1>4, <1>5
<1>7. \A t \in Int : Cardinality(LoggedSince(t)) <= Cardinality(DeliveredSince(t))
  BY DEF Inv, DeathsAccount
<1>8. QED
  BY <1>2, <1>3, <1>6, <1>7 DEF DeathsAccount

\* The resets of an entry are finitely many.
LEMMA ResetsFinite ==
  ASSUME TypeOK, NEW e
  PROVE  Resets(e) \in SUBSET DOMAIN log /\ IsFiniteSet(Resets(e)) /\ Cardinality(Resets(e)) \in Nat
<1>1. Resets(e) \in SUBSET DOMAIN log /\ log \in Seq(LineType)
  BY Typed DEF Resets
<1>2. QED
  BY <1>1, Positions

LEMMA EditsKept ==
  ASSUME Inv, UNCHANGED <<setup, log, edits>>, crashes' \in Nat, crashes' >= crashes,
         \A d \in Editor : edit'[d].pc # "idle" => edit'[d].entry \in Entry /\ edit'[d].now \in Time,
         \A d \in Editor : edit'[d].pc = "append" => edit'[d] = edit[d],
         crashes' > crashes \/ \A d \in Editor : edit[d].pc = "append" => edit'[d] = edit[d]
  PROVE  EditsRecorded'
<1>1. crashes \in Nat /\ edits \in [Entry -> Nat]
  BY Typed DEF Inv, TypeOK
<1>2. \A e \in Entry : Cardinality(Resets(e)) \in Nat
  BY ResetsFinite DEF Inv
<1>3. \A e : Resets(e)' = Resets(e)
  BY DEF Resets
<1>4. \A d \in Editor : \A e \in Entry : Appending(d, e)' => Appending(d, e)
  BY DEF Appending
<1>5. ASSUME NEW e \in Entry
      PROVE  edits[e] <= Cardinality(Resets(e)) + crashes'
                           + (IF \E d \in Editor : Appending(d, e)' THEN 1 ELSE 0)
  <2>1. edits[e] <= Cardinality(Resets(e)) + crashes
                      + (IF \E d \in Editor : Appending(d, e) THEN 1 ELSE 0)
    BY DEF Inv, EditsRecorded
  <2>2. \/ ~ \E d \in Editor : Appending(d, e)
        \/ \E d \in Editor : Appending(d, e)'
        \/ crashes' > crashes
    BY DEF Appending
  <2>3. QED
    BY <1>1, <1>2, <2>1, <2>2
<1>6. Time' = Time
  BY DEF Time
<1>7. QED
  BY <1>3, <1>4, <1>5, <1>6 DEF Inv, EditsRecorded

\* What a sweep stands on moves with the log and the deliveries only.
LEMMA SweepKept ==
  ASSUME TypeOK, NEW k, SweepStands(k), UNCHANGED <<setup, log, sent>>, now' >= now, now' \in Time
  PROVE  SweepStands(k)'
<1>1. now \in Nat /\ now' \in Nat /\ k.now \in Nat /\ k.now \in Time
  BY Typed, Times DEF SweepStands
<1>2. k.now <= now'
  BY <1>1 DEF SweepStands
<1>3. \A e : DueAt(e)' = DueAt(e) /\ \A t : Rested(e, t)' = Rested(e, t)
  BY DueStays
<1>4. LineStands(k)' <=> LineStands(k)
  BY DEF LineStands, LineType, Time
<1>5. Time' = Time
  BY DEF Time
<1>6. QED
  BY <1>1, <1>2, <1>3, <1>4, <1>5 DEF SweepStands

\* Steps of no sweep.
LEMMA SweepsKept ==
  ASSUME Inv, UNCHANGED <<setup, log, sent>>, now' >= now, now' \in Time,
         \A p \in Invoker : Sweeping(p)' => Sweeping(p) /\ tick'[p] = tick[p]
  PROVE  Sweeps'
<1> SUFFICES ASSUME NEW p \in Invoker, Sweeping(p)'
             PROVE  SweepStands(tick[p])' 
  BY DEF Sweeps
<1>1. Sweeping(p) /\ tick'[p] = tick[p] /\ SweepStands(tick[p])
  BY DEF Inv, Sweeps
<1>2. PICK k : k = tick[p]
  OBVIOUS
<1>3. SweepStands(k)'
  BY <1>1, <1>2, SweepKept DEF Inv
<1>4. QED
  BY <1>1, <1>2, <1>3

\* What wakes may be sent depends on observations and others.
LEMMA WakesFinite ==
  ASSUME TypeOK, NEW e
  PROVE  Wakes(e) \in SUBSET DOMAIN sent /\ IsFiniteSet(Wakes(e)) /\ Cardinality(Wakes(e)) \in Nat
<1>1. Wakes(e) \in SUBSET DOMAIN sent /\ sent \in Seq(SentType)
  BY Typed DEF Wakes
<1>2. QED
  BY <1>1, Positions

LEMMA Balance ==
  ASSUME NEW a \in Nat, NEW n \in {0, 1}, NEW m \in {0, 1}, NEW b \in Nat, NEW c \in Nat,
         NEW x \in Nat, NEW y \in Nat, a + n <= b + x, c >= b, y >= x, m <= n \/ c > b
  PROVE  a + m <= c + y
OBVIOUS

LEMMA BalanceOneMore ==
  ASSUME NEW a \in Nat, NEW n \in {0, 1}, NEW m \in {0, 1}, NEW b \in Nat, NEW c \in Nat,
         NEW x \in Nat, NEW y \in Nat, a + n <= b + (x + 1), c >= b, y >= x, m <= n \/ c > b
  PROVE  a + m <= c + (y + 1)
OBVIOUS

LEMMA WakesKept ==
  ASSUME Inv, UNCHANGED <<sent, cursor>>, edges' \in Nat, crashes' \in Nat, crashes' >= crashes,
         edges' >= edges,
         \A seen \in {"active", "idle", "none"} : Turn(seen)' <= Turn(seen) \/ edges' > edges,
         \A p \in Invoker : Sweeping(p)' => Sweeping(p) /\ tick'[p] = tick[p],
         \A p \in Invoker : Sweeping(p) => Sweeping(p)'
  PROVE  WakesCaused'
<1> SUFFICES ASSUME NEW e \in Entry
             PROVE  /\ (\A p \in Invoker : ~Sweeping(p)') =>
                         Cardinality(Wakes(e)') + Turn(cursor[e])' <= edges' + crashes'
                    /\ \A p \in Invoker : Sweeping(p)' =>
                         LET w == Cardinality(Wakes(e)') + Waking(tick[p], e)'
                         IN  /\ w + Turn(tick[p].next[e])' <= edges' + crashes'
                             /\ w + Turn(cursor[e])' <= edges' + (crashes' + 1)
  BY DEF WakesCaused
<1>1. Wakes(e)' = Wakes(e) /\ Cardinality(Wakes(e)) \in Nat
  BY WakesFinite DEF Inv, Wakes
<1>2. /\ edges \in Nat /\ crashes \in Nat
      /\ \A seen : Turn(seen) \in {0, 1} /\ Turn(seen)' \in {0, 1}
      /\ \A p : Waking(tick[p], e) \in {0, 1}
  BY Typed DEF Inv, Turn, Waking
<1>3. /\ cursor[e] \in {"active", "idle", "none"}
      /\ \A p \in Invoker : tick[p].next[e] \in {"active", "idle", "none"}
  BY DEF Inv, TypeOK, TickType, ObservationType, AgentState
<1>4. Turn(cursor[e])' <= Turn(cursor[e]) \/ edges' > edges
  <2>1. PICK c : c = cursor[e]
    OBVIOUS
  <2>2. Turn(c)' <= Turn(c) \/ edges' > edges
    BY <1>3, <2>1
  <2>3. QED
    BY <2>1, <2>2 DEF Turn
<1>5. ASSUME \A p \in Invoker : ~Sweeping(p)'
      PROVE  Cardinality(Wakes(e)') + Turn(cursor[e])' <= edges' + crashes'
  <2>1. Cardinality(Wakes(e)) + Turn(cursor[e]) <= edges + crashes
    BY <1>5 DEF Inv, WakesCaused
  <2>2. QED
    BY <1>1, <1>2, <1>4, <2>1
<1>6. ASSUME NEW p \in Invoker, Sweeping(p)'
      PROVE  /\ Cardinality(Wakes(e)') + Waking(tick[p], e)' + Turn(tick[p].next[e])'
                  <= edges' + crashes'
             /\ Cardinality(Wakes(e)') + Waking(tick[p], e)' + Turn(cursor[e])'
                  <= edges' + (crashes' + 1)
  <2>1. Sweeping(p) /\ tick'[p] = tick[p]
    BY <1>6
  <2>2. Waking(tick[p], e)' = Waking(tick[p], e)
    BY <2>1 DEF Waking
  <2>3. Turn(tick[p].next[e])' <= Turn(tick[p].next[e]) \/ edges' > edges
    <3>1. PICK c : c = tick[p].next[e]
      OBVIOUS
    <3>2. Turn(c)' <= Turn(c) \/ edges' > edges
      BY <1>3, <3>1
    <3>3. QED
      BY <2>1, <3>1, <3>2 DEF Turn
  <2>4. /\ Cardinality(Wakes(e)) + Waking(tick[p], e) + Turn(tick[p].next[e]) <= edges + crashes
        /\ Cardinality(Wakes(e)) + Waking(tick[p], e) + Turn(cursor[e]) <= edges + (crashes + 1)
    BY <2>1 DEF Inv, WakesCaused
  <2>5. PICK w \in {0, 1}, n \in {0, 1}, n1 \in {0, 1} :
           w = Waking(tick[p], e) /\ n = Turn(tick[p].next[e]) /\ n1 = Turn(tick[p].next[e])'
    BY <1>2
  <2>6. PICK c \in {0, 1}, c1 \in {0, 1} : c = Turn(cursor[e]) /\ c1 = Turn(cursor[e])'
    BY <1>2
  <2>7. /\ Cardinality(Wakes(e)) + w + n <= edges + crashes
        /\ Cardinality(Wakes(e)) + w + c <= edges + (crashes + 1)
        /\ (n1 <= n \/ edges' > edges) /\ (c1 <= c \/ edges' > edges)
    BY <1>4, <2>3, <2>4, <2>5, <2>6
  <2>8. PICK a \in Nat : a = Cardinality(Wakes(e)) + w
    BY <1>1
  <2>9. a + n1 <= edges' + crashes' /\ a + c1 <= edges' + (crashes' + 1)
    <3>1. edges \in Nat /\ crashes \in Nat
      BY <1>2
    <3>2. a + n <= edges + crashes /\ a + c <= edges + (crashes + 1)
      BY <2>7, <2>8, <3>1
    <3>3. a + n1 <= edges' + crashes'
      BY <2>7, <3>1, <3>2, Balance
    <3>4. a + c1 <= edges' + (crashes' + 1)
      BY <2>7, <3>1, <3>2, BalanceOneMore
    <3>5. QED
      BY <3>3, <3>4
  <2>10. /\ Cardinality(Wakes(e)') + Waking(tick[p], e)' = a
         /\ Turn(tick[p].next[e])' = n1 /\ Turn(cursor[e])' = c1
    BY <1>1, <2>2, <2>5, <2>6, <2>8
  <2>11. QED
    BY <2>9, <2>10, Zenon
<1>7. QED
  BY <1>5, <1>6

-----------------------------------------------------------------------------
(* The initial states, and the world *)

LEMMA TypesStay ==
  ASSUME setup' = setup
  PROVE  /\ Time' = Time /\ LineType' = LineType /\ SentType' = SentType
         /\ TickType' = TickType /\ EditType' = EditType
BY DEF Time, LineType, SentType, TickType, EditType, FireType, ObservationType

LEMMA NoTickType == NoTick \in TickType /\ NoTick.pc = "idle" /\ NoTick.gcLen = 0
<1>1. <<>> \in Seq(FireType) /\ <<>> \in Seq(LineType)
  OBVIOUS
<1>2. QED
  BY <1>1 DEF NoTick, TickType, ObservationType

LEMMA NoEditType == NoEdit \in EditType /\ NoEdit.pc = "idle"
BY DEF NoEdit, EditType

LEMMA InitInv == Init => Inv
<1> SUFFICES ASSUME Init PROVE Inv
  OBVIOUS
<1>1. /\ setup \in Setups /\ now = CreatedAt /\ log = <<>> /\ sent = <<>> /\ held = {}
      /\ crashes = 0 /\ edges = 0 /\ lock = None /\ others = "active"
      /\ \A p \in Invoker : tick[p] = NoTick
      /\ \A d \in Editor : edit[d] = NoEdit
  BY DEF Init
<1>2. \A p \in Invoker : tick[p].pc = "idle" /\ ~Sweeping(p)
  BY <1>1, NoTickType DEF Sweeping
<1>3. TypeOK
  <2>1. tick \in [Invoker -> TickType] /\ edit \in [Editor -> EditType]
    BY NoTickType, NoEditType DEF Init
  <2>2. now \in Time /\ 0 \in 0 .. setup.maxEdge /\ 0 \in 0 .. setup.maxCrash
    BY <1>1, Times, SetupFacts
  <2>3. present \subseteq Entry
    BY SetupFacts DEF Init
  <2>4. log \in Seq(LineType) /\ sent \in Seq(SentType) /\ Len(log) = 0
    BY <1>1
  <2>5. cursor \in ObservationType /\ edits \in [Entry -> Nat]
    BY DEF Init, ObservationType
  <2>6. resolved \in BOOLEAN /\ busy \in BOOLEAN /\ others \in AgentState
    BY DEF Init, AgentState
  <2>7. \A p \in Invoker : tick[p].gcLen <= Len(log)
    BY <1>1, <2>4, NoTickType
  <2>8. QED
    BY <1>1, <2>1, <2>2, <2>3, <2>4, <2>5, <2>6, <2>7 DEF TypeOK
<1>4. OneAtWork /\ Sweeps
  BY <1>1, <1>2, NoEditType DEF OneAtWork, Sweeps
<1>5. DOMAIN log = {} /\ DOMAIN sent = {}
  BY <1>1
<1>6. LinesInOrder /\ SentInOrder /\ RepeatsUnlogged /\ RateBound
  BY <1>5 DEF LinesInOrder, SentInOrder, RepeatsUnlogged, RateBound
<1>7. Cardinality({}) = 0
  BY FS_EmptySet
<1>8. EditsRecorded
  <2>1. \A e : Resets(e) = {}
    BY <1>5 DEF Resets
  <2>2. \A d \in Editor : edit[d].pc = "idle"
    BY <1>1, NoEditType
  <2>3. \A e \in Entry : edits[e] = 0
    BY DEF Init
  <2>4. \A d \in Editor : \A e \in Entry : ~Appending(d, e)
    BY <2>2 DEF Appending
  <2>5. ASSUME NEW e \in Entry
        PROVE  edits[e] <= Cardinality(Resets(e)) + crashes
                             + (IF \E d \in Editor : Appending(d, e) THEN 1 ELSE 0)
    <3>1. (IF \E d \in Editor : Appending(d, e) THEN 1 ELSE 0) = 0
      BY <2>4
    <3>2. edits[e] = 0 /\ Cardinality(Resets(e)) = 0 /\ crashes = 0
      BY <1>1, <1>7, <2>1, <2>3
    <3>3. QED
      BY <3>1, <3>2
  <2>6. QED
    BY <2>1, <2>2, <2>4, <2>5 DEF EditsRecorded
<1>9. DeathsAccount
  <2>1. Unlogged = {} /\ ~InFlight
    BY <1>2, <1>5 DEF Unlogged, InFlight
  <2>2. \A t : LoggedSince(t) = {} /\ DeliveredSince(t) = {}
    BY <1>5 DEF LoggedSince, DeliveredSince
  <2>3. (IF InFlight THEN 1 ELSE 0) = 0
    BY <2>1
  <2>4. Cardinality(Unlogged) <= crashes + (IF InFlight THEN 1 ELSE 0)
    BY <1>1, <1>7, <2>1, <2>3
  <2>5. \A t \in Int : Cardinality(LoggedSince(t)) <= Cardinality(DeliveredSince(t))
    BY <1>7, <2>2
  <2>6. QED
    BY <2>4, <2>5 DEF DeathsAccount
<1>10. WakesCaused
  <2>1. \A e : Wakes(e) = {}
    BY <1>5 DEF Wakes
  <2>2. \A e \in Entry : Turn(cursor[e]) = 0
    BY <1>1 DEF Turn
  <2>3. ASSUME NEW e \in Entry
        PROVE  Cardinality(Wakes(e)) + Turn(cursor[e]) <= edges + crashes
    <3>1. Cardinality(Wakes(e)) = 0 /\ Turn(cursor[e]) = 0 /\ edges = 0 /\ crashes = 0
      BY <1>1, <1>7, <2>1, <2>2
    <3>2. QED
      BY <3>1
  <2>4. QED
    BY <1>2, <2>3 DEF WakesCaused
<1>11. HeldIsDue
  BY <1>1 DEF HeldIsDue
<1>12. QED
  BY <1>3, <1>4, <1>6, <1>8, <1>9, <1>10, <1>11 DEF Inv

LEMMA WorldKeeps ==
  ASSUME Inv, UNCHANGED <<setup, files, lock, tick, edit, history, crashes>>,
         now' \in Time, now' >= now, resolved' \in BOOLEAN, busy' \in BOOLEAN,
         others' \in AgentState, edges' \in 0 .. setup.maxEdge, edges' >= edges,
         \A seen \in {"active", "idle", "none"} : Turn(seen)' <= Turn(seen) \/ edges' > edges
  PROVE  Inv'
<1>1. /\ UNCHANGED <<log, sent, edits, present, cursor, held>> /\ crashes \in Nat /\ edges' \in Nat
  BY Typed DEF Inv, files, history
<1>2. TypeOK'
  BY TypesStay DEF Inv, TypeOK, files, history
<1>3. \A p \in Invoker : Sweeping(p)' <=> Sweeping(p)
  BY DEF Sweeping
<1>4. OneAtWork' /\ Sweeps'
  BY <1>1, <1>3, SweepsKept DEF Inv, OneAtWork
<1>5. LinesInOrder' /\ SentInOrder' /\ RepeatsUnlogged' /\ RateBound' /\ HeldIsDue'
  BY <1>1, HistoryKept
<1>6. EditsRecorded'
  <2>1. crashes' \in Nat /\ crashes' >= crashes /\ UNCHANGED <<log, edits>>
    BY <1>1
  <2>2. \A d \in Editor : edit'[d] = edit[d]
    OBVIOUS
  <2>3. \A d \in Editor : edit'[d].pc # "idle" => edit'[d].entry \in Entry /\ edit'[d].now \in Time
    BY <2>2 DEF Inv, EditsRecorded
  <2>4. QED
    BY <2>1, <2>2, <2>3, EditsKept
<1>7. DeathsAccount'
  <2>1. InFlight' <=> InFlight
    BY DEF InFlight
  <2>2. QED
    BY <1>1, <2>1, DeathsKept
<1>8. WakesCaused'
  <2>1. crashes' \in Nat /\ crashes' >= crashes
    BY <1>1
  <2>2. QED
    BY <1>1, <1>3, <2>1, WakesKept
<1>9. QED
  BY <1>2, <1>4, <1>5, <1>6, <1>7, <1>8 DEF Inv

LEMMA AdvanceKeeps == Inv /\ Advance => Inv'
<1> SUFFICES ASSUME Inv, Advance PROVE Inv'
  OBVIOUS
<1>1. /\ UNCHANGED <<setup, resolved, busy, others, edges, files, lock, tick, edit, history, crashes>>
      /\ now' = now + 1 /\ now < setup.maxTime
  BY DEF Advance
<1>2. now' \in Time /\ now' >= now
  BY <1>1, SetupFacts DEF Inv, TypeOK, Time
<1>3. \A seen : Turn(seen)' = Turn(seen) /\ Turn(seen) \in Nat
  BY <1>1 DEF Turn
<1>4. edges \in Nat /\ edges \in 0 .. setup.maxEdge
  BY Typed DEF Inv, TypeOK
<1>5. QED
  BY <1>1, <1>2, <1>3, <1>4, WorldKeeps DEF Inv, TypeOK

LEMMA FlipKeeps == Inv /\ (FlipTarget \/ FlipBusy) => Inv'
<1> SUFFICES ASSUME Inv, FlipTarget \/ FlipBusy PROVE Inv'
  OBVIOUS
<1>1. /\ UNCHANGED <<setup, now, others, edges, files, lock, tick, edit, history, crashes>>
      /\ resolved' \in BOOLEAN /\ busy' \in BOOLEAN
  BY DEF FlipTarget, FlipBusy, Inv, TypeOK
<1>2. now' \in Time /\ now' >= now
  BY <1>1, Times, Typed DEF Inv
<1>3. \A seen : Turn(seen)' = Turn(seen) /\ Turn(seen) \in Nat
  BY <1>1 DEF Turn
<1>4. edges \in Nat /\ edges \in 0 .. setup.maxEdge /\ others \in AgentState
  BY Typed DEF Inv, TypeOK
<1>5. QED
  BY <1>1, <1>2, <1>3, <1>4, WorldKeeps

LEMMA FlipOthersKeeps == Inv /\ FlipOthers => Inv'
<1> SUFFICES ASSUME Inv, FlipOthers PROVE Inv'
  OBVIOUS
<1>1. /\ UNCHANGED <<setup, now, resolved, busy, files, lock, tick, edit, history, crashes>>
      /\ others = "idle" \/ edges < setup.maxEdge
      /\ others' \in AgentState \ {others}
      /\ edges' = IF others' = "active" THEN edges ELSE edges + 1
  BY DEF FlipOthers
<1>2. now' \in Time /\ now' >= now
  BY <1>1, Times, Typed DEF Inv
<1>3. /\ edges \in Nat /\ edges \in 0 .. setup.maxEdge /\ others \in AgentState
      /\ setup.maxEdge \in Nat /\ resolved \in BOOLEAN /\ busy \in BOOLEAN
  BY Typed, SetupFacts DEF Inv, TypeOK
<1>4. edges' \in 0 .. setup.maxEdge /\ edges' >= edges /\ (others' = "active" \/ edges' > edges)
  BY <1>1, <1>3 DEF AgentState
<1>5. \A seen : Turn(seen)' <= Turn(seen) \/ edges' > edges
  BY <1>4 DEF Turn
<1>6. QED
  BY <1>1, <1>2, <1>3, <1>4, <1>5, WorldKeeps

-----------------------------------------------------------------------------
(* Steps that begin or end a process *)

LEMMA TickMoves ==
  ASSUME TypeOK, NEW p \in Invoker, NEW k \in TickType, tick' = [tick EXCEPT ![p] = k]
  PROVE  /\ tick' \in [Invoker -> TickType] /\ tick'[p] = k
         /\ \A q \in Invoker : q # p => tick'[q] = tick[q]
BY DEF TypeOK

LEMMA EditMoves ==
  ASSUME TypeOK, NEW d \in Editor, NEW k \in EditType, edit' = [edit EXCEPT ![d] = k]
  PROVE  /\ edit' \in [Editor -> EditType] /\ edit'[d] = k
         /\ \A c \in Editor : c # d => edit'[c] = edit[c]
BY DEF TypeOK

\* A step that changes no file but the entry file, and no sweep.
LEMMA ControlKeeps ==
  ASSUME Inv, UNCHANGED <<setup, now, others, edges, log, sent, cursor, held>>,
         crashes' \in Nat, crashes' >= crashes,
         \A e \in Entry : edits'[e] = 0 => edits[e] = 0,
         TypeOK', OneAtWork', EditsRecorded',
         \A p \in Invoker : Sweeping(p)' <=> Sweeping(p),
         \A p \in Invoker : Sweeping(p) => tick'[p] = tick[p]
  PROVE  Inv'
<1>1. now \in Time /\ now \in Nat /\ edges \in Nat
  BY Typed, Times DEF Inv
<1>2. Sweeps'
  BY <1>1, SweepsKept
<1>3. LinesInOrder' /\ SentInOrder' /\ RepeatsUnlogged' /\ RateBound' /\ HeldIsDue'
  BY <1>1, HistoryKept
<1>4. DeathsAccount'
  <2>1. ASSUME NEW p \in Invoker, tick[p].pc = "append", tick[p].line[1].outcome = "delivered"
        PROVE  InFlight'
    <3>1. Sweeping(p) /\ tick'[p] = tick[p]
      BY <2>1 DEF Sweeping
    <3>2. QED
      BY <2>1, <3>1 DEF InFlight
  <2>2. InFlight => InFlight'
    BY <2>1 DEF InFlight
  <2>3. QED
    BY <2>2, DeathsKept
<1>5. WakesCaused'
  <2>1. \A seen : Turn(seen)' <= Turn(seen)
    <3>1. \A seen : Turn(seen)' = Turn(seen) /\ Turn(seen) \in Nat
      BY DEF Turn
    <3>2. QED
      BY <3>1
  <2>2. edges' \in Nat /\ edges' >= edges
    BY <1>1
  <2>3. QED
    BY <2>1, <2>2, WakesKept
<1>6. QED
  BY <1>2, <1>3, <1>4, <1>5 DEF Inv

LEMMA LockKeeps == ASSUME NEW p \in Invoker PROVE Inv /\ Lock(p) => Inv'
<1> SUFFICES ASSUME Inv, Lock(p) PROVE Inv'
  OBVIOUS
<1>1. /\ UNCHANGED <<setup, now, resolved, busy, others, edges, present, edits, log, cursor,
                     edit, sent, held, crashes>>
      /\ tick[p].pc = "idle" /\ lock = None /\ lock' = p
  BY DEF Lock, world, files, history
<1>2. PICK k : k = [tick[p] EXCEPT !.pc = "evaluate"]
  OBVIOUS
<1>3. tick \in [Invoker -> TickType] /\ tick[p] \in TickType /\ tick[p].gcLen <= Len(log)
  BY DEF Inv, TypeOK
<1>4. k \in TickType /\ k.pc = "evaluate" /\ k.gcLen <= Len(log)
  BY <1>2, <1>3 DEF TickType
<1>5. tick' = [tick EXCEPT ![p] = k]
  BY <1>2, <1>3 DEF Lock
<1>6. /\ tick' \in [Invoker -> TickType] /\ tick'[p] = k
      /\ \A q \in Invoker : q # p => tick'[q] = tick[q]
  BY <1>4, <1>5, TickMoves DEF Inv
<1>7. TypeOK'
  BY <1>1, <1>4, <1>6, TypesStay DEF Inv, TypeOK
<1>8. /\ \A q \in Invoker : tick[q].pc = "idle" /\ ~Sweeping(q)
      /\ \A d \in Editor : edit[d].pc \notin {"save", "append"}
  BY <1>1, NobodyAlone DEF Inv
<1>9. OneAtWork'
  BY <1>1, <1>6, <1>8 DEF OneAtWork
<1>10. \A q \in Invoker : ~Sweeping(q)'
  BY <1>4, <1>6, <1>8 DEF Sweeping
<1>11. crashes' \in Nat /\ crashes' >= crashes
  BY <1>1, Typed DEF Inv
<1>12. EditsRecorded'
  BY <1>1, <1>11, EditsKept DEF Inv, EditsRecorded
<1>13. QED
  BY <1>1, <1>7, <1>8, <1>9, <1>10, <1>11, <1>12, ControlKeeps

\* What an edit does before and after its two writes.
LEMMA EditControl ==
  ASSUME Inv, NEW d \in Editor, NEW k \in EditType, edit' = [edit EXCEPT ![d] = k],
         UNCHANGED <<setup, now, resolved, busy, others, edges, present, edits, log, cursor,
                     tick, sent, held>>,
         crashes' \in 0 .. setup.maxCrash, crashes' >= crashes,
         k.pc # "append", k.pc # "idle" => k.entry \in Entry /\ k.now \in Time,
         edit[d].pc = "append" => crashes' > crashes,
         OneAtWork', lock' \in Invoker \cup Editor \cup {None}
  PROVE  Inv'
<1>1. /\ edit' \in [Editor -> EditType] /\ edit'[d] = k
      /\ \A c \in Editor : c # d => edit'[c] = edit[c]
  BY EditMoves DEF Inv
<1>2. TypeOK'
  BY <1>1, TypesStay DEF Inv, TypeOK
<1>3. crashes' \in Nat
  BY SetupFacts DEF Inv, TypeOK
<1>4. EditsRecorded'
  <2>1. \A c \in Editor : edit'[c].pc # "idle" => edit'[c].entry \in Entry /\ edit'[c].now \in Time
    BY <1>1 DEF Inv, EditsRecorded
  <2>2. \A c \in Editor : edit'[c].pc = "append" => edit'[c] = edit[c]
    BY <1>1
  <2>3. crashes' > crashes \/ \A c \in Editor : edit[c].pc = "append" => edit'[c] = edit[c]
    BY <1>1
  <2>4. QED
    BY <1>3, <2>1, <2>2, <2>3, EditsKept
<1>5. \A p \in Invoker : Sweeping(p)' <=> Sweeping(p)
  BY DEF Sweeping
<1>6. QED
  BY <1>2, <1>3, <1>4, <1>5, ControlKeeps

LEMMA EditBeginKeeps ==
  ASSUME NEW d \in Editor, NEW e \in Entry
  PROVE  Inv /\ (EditStart(d, e) \/ EditLock(d) \/ EditGivesUp(d)) => Inv'
<1> SUFFICES ASSUME Inv, EditStart(d, e) \/ EditLock(d) \/ EditGivesUp(d) PROVE Inv'
  OBVIOUS
<1>1. UNCHANGED <<setup, now, resolved, busy, others, edges, present, edits, log, cursor,
                  tick, sent, held, crashes>>
  BY DEF EditStart, EditLock, EditGivesUp, world, files, history
<1>2. /\ crashes' \in 0 .. setup.maxCrash /\ crashes' >= crashes /\ now \in Time
      /\ edit \in [Editor -> EditType] /\ edit[d] \in EditType
      /\ lock \in Invoker \cup Editor \cup {None}
  BY <1>1, Typed DEF Inv, TypeOK
<1>3. CASE EditStart(d, e)
  <2>1. PICK k : k = [pc |-> "lock", now |-> now, entry |-> e]
    OBVIOUS
  <2>2. k \in EditType /\ k.pc = "lock" /\ k.entry = e /\ k.now \in Time /\ edit' = [edit EXCEPT ![d] = k] /\ lock' = lock
        /\ edit[d].pc = "idle"
    BY <1>2, <1>3, <2>1 DEF EditStart, EditType
  <2>3. OneAtWork'
    BY <1>1, <1>2, <2>2 DEF Inv, OneAtWork
  <2>4. QED
    BY <1>1, <1>2, <2>2, <2>3, EditControl
<1>4. CASE EditLock(d)
  <2>1. PICK k : k = [edit[d] EXCEPT !.pc = "save"]
    OBVIOUS
  <2>2. /\ k \in EditType /\ k.pc = "save" /\ k.entry = edit[d].entry
        /\ edit[d].pc = "lock" /\ lock = None /\ lock' = d
        /\ edit' = [edit EXCEPT ![d] = k]
    BY <1>2, <1>4, <2>1 DEF EditLock, MayEdit, EditType
  <2>3. OneAtWork'
    BY <1>1, <1>2, <2>2, NobodyAlone DEF Inv, OneAtWork
  <2>4. /\ k.entry \in Entry /\ k.now \in Time /\ k.pc \in {"lock", "save"}
        /\ edit[d].pc # "append"
    BY <1>2, <2>1, <2>2 DEF Inv, EditsRecorded
  <2>5. lock' \in Invoker \cup Editor \cup {None}
    BY <2>2
  <2>6. k \in EditType /\ edit' = [edit EXCEPT ![d] = k]
    BY <2>2
  <2>7. crashes' \in 0 .. setup.maxCrash /\ crashes' >= crashes
    BY <1>2
  <2>8. QED
    BY <1>1, <2>3, <2>4, <2>5, <2>6, <2>7, EditControl
<1>5. CASE EditGivesUp(d)
  <2>1. edit' = [edit EXCEPT ![d] = NoEdit] /\ lock' = lock /\ edit[d].pc = "lock"
    BY <1>5 DEF EditGivesUp
  <2>2. OneAtWork'
    BY <1>1, <1>2, <2>1, NoEditType DEF Inv, OneAtWork
  <2>3. QED
    BY <1>1, <1>2, <2>1, <2>2, NoEditType, EditControl
<1>6. QED
  BY <1>3, <1>4, <1>5

\* The new schedule is saved; the line that tells of it is still to come.
LEMMA EditSaveKeeps == ASSUME NEW d \in Editor PROVE Inv /\ EditSave(d) => Inv'
<1> SUFFICES ASSUME Inv, EditSave(d) PROVE Inv'
  OBVIOUS
<1>1. /\ UNCHANGED <<setup, now, resolved, busy, others, edges, present, log, cursor, tick,
                     sent, held, crashes>>
      /\ edit[d].pc = "save"
  BY DEF EditSave, world, history
<1>2. /\ crashes' \in 0 .. setup.maxCrash /\ crashes' >= crashes /\ crashes \in Nat
      /\ edit \in [Editor -> EditType] /\ edit[d] \in EditType
      /\ lock \in Invoker \cup Editor \cup {None} /\ edits \in [Entry -> Nat]
      /\ edit[d].entry \in Entry /\ edit[d].now \in Time
  BY <1>1, Typed DEF Inv, TypeOK, EditsRecorded
<1>3. /\ lock = d /\ \A p \in Invoker : tick[p].pc = "idle" /\ ~Sweeping(p)
      /\ \A c \in Editor : c # d => edit[c].pc \notin {"save", "append"}
  BY <1>1, EditAlone DEF Inv
<1>4. CASE edit' = [edit EXCEPT ![d] = NoEdit] /\ lock' = None /\ UNCHANGED edits
  <2>1. OneAtWork'
    BY <1>1, <1>2, <1>3, <1>4, NoEditType DEF OneAtWork
  <2>2. QED
    BY <1>1, <1>2, <1>4, <2>1, NoEditType, EditControl
<1>5. CASE /\ edits' = [edits EXCEPT ![edit[d].entry] = @ + 1]
           /\ edit' = [edit EXCEPT ![d].pc = "append"]
           /\ UNCHANGED lock
  <2> DEFINE e == edit[d].entry
  <2>1. PICK k : k = [edit[d] EXCEPT !.pc = "append"]
    OBVIOUS
  <2>2. /\ k \in EditType /\ k.pc = "append" /\ k.entry = e /\ k.now = edit[d].now
        /\ edit' = [edit EXCEPT ![d] = k]
    BY <1>2, <1>5, <2>1 DEF EditType
  <2>3. /\ edit' \in [Editor -> EditType] /\ edit'[d] = k
        /\ \A c \in Editor : c # d => edit'[c] = edit[c]
    BY <2>2, EditMoves DEF Inv
  <2>4. /\ edits' \in [Entry -> Nat] /\ edits'[e] = edits[e] + 1
        /\ \A x \in Entry : x # e => edits'[x] = edits[x]
    BY <1>2, <1>5
  <2>5. TypeOK'
    BY <1>1, <1>2, <1>5, <2>3, <2>4, TypesStay DEF Inv, TypeOK
  <2>6. OneAtWork'
    BY <1>1, <1>3, <1>5, <2>3 DEF OneAtWork
  <2>7. \A x : Resets(x)' = Resets(x)
    BY <1>1 DEF Resets
  <2>8. \A c \in Editor : \A x \in Entry : Appending(c, x)' <=> c = d /\ x = e
    BY <1>3, <2>2, <2>3 DEF Appending
  <2>9. \A c \in Editor : \A x \in Entry : ~Appending(c, x)
    BY <1>1, <1>3 DEF Appending
  <2>10. ASSUME NEW x \in Entry
         PROVE  edits'[x] <= Cardinality(Resets(x)) + crashes
                              + (IF \E c \in Editor : Appending(c, x)' THEN 1 ELSE 0)
    <3>1. (IF \E c \in Editor : Appending(c, x) THEN 1 ELSE 0) = 0
      BY <2>9
    <3>2. edits[x] <= Cardinality(Resets(x)) + crashes + 0
      BY <3>1 DEF Inv, EditsRecorded
    <3>3. (IF \E c \in Editor : Appending(c, x)' THEN 1 ELSE 0) = IF x = e THEN 1 ELSE 0
      BY <2>8
    <3>4. Cardinality(Resets(x)) \in Nat
      BY ResetsFinite DEF Inv
    <3>5. edits'[x] <= Cardinality(Resets(x)) + crashes + (IF x = e THEN 1 ELSE 0)
      BY <1>2, <2>4, <3>2, <3>4
    <3>6. QED
      BY <3>3, <3>5
  <2>11. EditsRecorded'
    <3>1. \A c \in Editor : edit'[c].pc # "idle" => edit'[c].entry \in Entry /\ edit'[c].now \in Time
      BY <1>2, <2>2, <2>3 DEF Inv, EditsRecorded
    <3>2. \A c \in Editor : \A x \in Entry : Appending(c, x)' => edits'[x] > 0
      BY <1>2, <2>4, <2>8
    <3>3. \A x \in Entry : edits'[x] = 0 => Resets(x) = {}
      BY <1>2, <2>4 DEF Inv, EditsRecorded
    <3>4. Time' = Time
      BY <1>1, TypesStay
    <3>5. QED
      BY <1>1, <2>7, <2>10, <3>1, <3>2, <3>3, <3>4 DEF EditsRecorded
  <2>12. \A x \in Entry : edits'[x] = 0 => edits[x] = 0
    BY <1>2, <2>4
  <2>13. \A p \in Invoker : Sweeping(p)' <=> Sweeping(p)
    BY <1>1 DEF Sweeping
  <2>14. QED
    BY <1>1, <1>2, <2>5, <2>6, <2>11, <2>12, <2>13, ControlKeeps
<1>6. QED
  BY <1>4, <1>5 DEF EditSave

LEMMA CrashEditKeeps == ASSUME NEW d \in Editor PROVE Inv /\ CrashEdit(d) => Inv'
<1> SUFFICES ASSUME Inv, CrashEdit(d) PROVE Inv'
  OBVIOUS
<1>1. /\ UNCHANGED <<setup, now, resolved, busy, others, edges, present, edits, log, cursor,
                     tick, sent, held>>
      /\ edit[d].pc \in {"save", "append"} /\ crashes < setup.maxCrash
      /\ edit' = [edit EXCEPT ![d] = NoEdit] /\ crashes' = crashes + 1
      /\ lock' = IF lock = d THEN None ELSE lock
  BY DEF CrashEdit, world, files, history
<1>2. /\ lock = d /\ \A p \in Invoker : tick[p].pc = "idle"
      /\ \A c \in Editor : c # d => edit[c].pc \notin {"save", "append"}
      /\ edit \in [Editor -> EditType]
  BY <1>1, EditAlone DEF Inv, TypeOK
<1>3. crashes' \in 0 .. setup.maxCrash /\ crashes' > crashes /\ crashes' >= crashes
  BY <1>1, SetupFacts DEF Inv, TypeOK
<1>4. OneAtWork'
  BY <1>1, <1>2, NoEditType DEF OneAtWork
<1>5. lock' \in Invoker \cup Editor \cup {None}
  BY <1>1, <1>2
<1>6. QED
  BY <1>1, <1>3, <1>4, <1>5, NoEditType, EditControl

\* A tick that dies may leave a payload without its line and a cursor behind it.
LEMMA CrashTickKeeps == ASSUME NEW p \in Invoker PROVE Inv /\ CrashTick(p) => Inv'
<1> SUFFICES ASSUME Inv, CrashTick(p) PROVE Inv'
  OBVIOUS
<1>1. /\ UNCHANGED <<setup, now, resolved, busy, others, edges, present, edits, log, cursor,
                     edit, sent, held>>
      /\ tick[p].pc # "idle" /\ crashes < setup.maxCrash
      /\ tick' = [tick EXCEPT ![p] = NoTick] /\ crashes' = crashes + 1 /\ lock' = None
  BY DEF CrashTick, world, files, history
<1>2. /\ \A q \in Invoker : q # p => tick[q].pc = "idle" /\ ~Sweeping(q)
      /\ \A d \in Editor : edit[d].pc \notin {"save", "append"}
  BY <1>1, TickAlone DEF Inv
<1>3. /\ crashes' \in 0 .. setup.maxCrash /\ crashes \in Nat /\ crashes' \in Nat
      /\ crashes' > crashes /\ crashes' >= crashes /\ now \in Time /\ now \in Nat
      /\ edges \in Nat /\ Len(log) \in Nat
  BY <1>1, SetupFacts, Typed, Times DEF Inv, TypeOK
<1>4. /\ tick' \in [Invoker -> TickType] /\ tick'[p] = NoTick
      /\ \A q \in Invoker : q # p => tick'[q] = tick[q]
  BY <1>1, NoTickType, TickMoves DEF Inv
<1>5. TypeOK'
  BY <1>1, <1>3, <1>4, NoTickType, TypesStay DEF Inv, TypeOK
<1>6. /\ \A q \in Invoker : tick'[q].pc = "idle" /\ ~Sweeping(q)'
  BY <1>2, <1>4, NoTickType DEF Sweeping
<1>7. OneAtWork' /\ Sweeps'
  BY <1>1, <1>2, <1>6 DEF OneAtWork, Sweeps
<1>8. LinesInOrder' /\ SentInOrder' /\ RepeatsUnlogged' /\ RateBound' /\ HeldIsDue'
  BY <1>1, <1>3, HistoryKept
<1>9. EditsRecorded'
  BY <1>1, <1>3, EditsKept DEF Inv, EditsRecorded
<1>10. DeathsAccount'
  BY <1>1, <1>3, DeathsKept
<1>11. WakesCaused'
  <2>1. ASSUME NEW e \in Entry
        PROVE  Cardinality(Wakes(e)) + Turn(cursor[e]) <= edges + crashes'
    <3>1. Cardinality(Wakes(e)) \in Nat /\ Turn(cursor[e]) \in Nat
      BY WakesFinite DEF Inv, Turn
    <3>2. CASE Sweeping(p)
      <4>1. PICK b \in {0, 1} : b = Waking(tick[p], e)
        BY DEF Waking
      <4>2. Cardinality(Wakes(e)) + b + Turn(cursor[e]) <= edges + (crashes + 1)
        BY <3>2, <4>1 DEF Inv, WakesCaused
      <4>3. QED
        BY <1>1, <1>3, <3>1, <4>2
    <3>3. CASE ~Sweeping(p)
      <4>1. \A q \in Invoker : ~Sweeping(q)
        BY <1>2, <3>3
      <4>2. Cardinality(Wakes(e)) + Turn(cursor[e]) <= edges + crashes
        BY <4>1 DEF Inv, WakesCaused
      <4>3. QED
        BY <1>1, <1>3, <3>1, <4>2
    <3>4. QED
      BY <3>2, <3>3
  <2>2. \A e : Wakes(e)' = Wakes(e) /\ Turn(cursor[e])' = Turn(cursor[e])
    BY <1>1 DEF Wakes, Turn
  <2>3. QED
    BY <1>1, <1>6, <2>1, <2>2 DEF WakesCaused
<1>12. QED
  BY <1>5, <1>7, <1>8, <1>9, <1>10, <1>11 DEF Inv

-----------------------------------------------------------------------------
(* Steps of a sweep *)

\* After a step of one sweep: it stands, and nobody else is at work.
LEMMA SweepSteps ==
  ASSUME Inv, NEW p \in Invoker, tick[p].pc # "idle", NEW k \in TickType,
         tick' = [tick EXCEPT ![p] = k], k.pc \in {"fire", "append"},
         lock' = lock, edit' = edit, SweepStands(k)'
  PROVE  /\ tick' \in [Invoker -> TickType] /\ tick'[p] = k
         /\ \A q \in Invoker : q # p => tick'[q] = tick[q] /\ ~Sweeping(q) /\ ~Sweeping(q)'
         /\ Sweeping(p)'
         /\ OneAtWork' /\ Sweeps'
         /\ InFlight' <=> (k.pc = "append" /\ k.line[1].outcome = "delivered")
         /\ InFlight <=> (tick[p].pc = "append" /\ tick[p].line[1].outcome = "delivered")
<1>1. /\ lock = p
      /\ \A q \in Invoker : q # p => tick[q].pc = "idle" /\ ~Sweeping(q)
      /\ \A d \in Editor : edit[d].pc \notin {"save", "append"}
  BY TickAlone DEF Inv
<1>2. /\ tick' \in [Invoker -> TickType] /\ tick'[p] = k
      /\ \A q \in Invoker : q # p => tick'[q] = tick[q]
  BY TickMoves DEF Inv
<1>3. \A q \in Invoker : q # p => ~Sweeping(q)' /\ tick'[q].pc = "idle"
  BY <1>1, <1>2 DEF Sweeping
<1>4. OneAtWork'
  BY <1>1, <1>3 DEF OneAtWork
<1>5. Sweeps'
  <2> SUFFICES ASSUME NEW q \in Invoker, Sweeping(q)'
               PROVE  SweepStands(tick[q])'
    BY DEF Sweeps
  <2>1. q = p /\ tick'[q] = k
    BY <1>2, <1>3
  <2>2. QED
    BY <2>1 DEF SweepStands, LineStands
<1>6. InFlight' <=> (k.pc = "append" /\ k.line[1].outcome = "delivered")
  BY <1>2, <1>3 DEF InFlight
<1>7. InFlight <=> (tick[p].pc = "append" /\ tick[p].line[1].outcome = "delivered")
  BY <1>1 DEF InFlight
<1>8. QED
  BY <1>1, <1>2, <1>3, <1>4, <1>5, <1>6, <1>7 DEF Sweeping

\* The wakes of a step of one sweep are counted for that sweep.
LEMMA SweepWakes ==
  ASSUME NEW p \in Invoker, NEW k, tick'[p] = k, Sweeping(p)',
         \A q \in Invoker : q # p => ~Sweeping(q)',
         UNCHANGED <<others, edges, crashes, cursor>>,
         \A e \in Entry :
           /\ Cardinality(Wakes(e)') + Waking(k, e) + Turn(k.next[e]) <= edges + crashes
           /\ Cardinality(Wakes(e)') + Waking(k, e) + Turn(cursor[e]) <= edges + (crashes + 1)
  PROVE  WakesCaused'
<1>1. ASSUME NEW e \in Entry, NEW q \in Invoker, Sweeping(q)'
      PROVE  LET w == Cardinality(Wakes(e)') + Waking(tick[q], e)'
             IN  /\ w + Turn(tick[q].next[e])' <= edges' + crashes'
                 /\ w + Turn(cursor[e])' <= edges' + (crashes' + 1)
  <2>1. q = p /\ tick'[q] = k
    BY <1>1
  <2>2. Waking(tick[q], e)' = Waking(k, e)
    BY <2>1 DEF Waking
  <2>3. Turn(tick[q].next[e])' = Turn(k.next[e]) /\ Turn(cursor[e])' = Turn(cursor[e])
    BY <2>1 DEF Turn
  <2>4. /\ Cardinality(Wakes(e)') + Waking(k, e) + Turn(k.next[e]) <= edges + crashes
        /\ Cardinality(Wakes(e)') + Waking(k, e) + Turn(cursor[e]) <= edges + (crashes + 1)
    OBVIOUS
  <2>5. edges' = edges /\ crashes' = crashes
    OBVIOUS
  <2>6. QED
    BY <2>2, <2>3, <2>4, <2>5
<1>2. QED
  BY <1>1 DEF WakesCaused

LEMMA EvaluateKeeps == ASSUME NEW p \in Invoker PROVE Inv /\ Evaluate(p) => Inv'
<1> SUFFICES ASSUME Inv, Evaluate(p) PROVE Inv'
  OBVIOUS
<1>1. /\ UNCHANGED <<setup, now, resolved, busy, others, edges, present, edits, log, cursor,
                     lock, edit, sent, held, crashes>>
      /\ tick[p].pc = "evaluate"
  BY DEF Evaluate, world, files, history
<1>2. PICK k : k = [pc |-> "fire", now |-> now,
        fires |-> IF resolved THEN DueFires ELSE <<>>,
        absent |-> IF resolved THEN <<>> ELSE DueFires,
        gcLen |-> Len(log),
        orphans |-> OrphanCandidates,
        next |-> [e \in Entry |-> IF e \in present THEN NextObservation(e) ELSE cursor[e]],
        line |-> <<>>]
  OBVIOUS
<1>3. tick' = [tick EXCEPT ![p] = k]
  BY <1>2 DEF Evaluate
<1>4. /\ now \in Time /\ now \in Nat /\ Len(log) \in Nat /\ edges \in Nat /\ crashes \in Nat
      /\ cursor \in ObservationType /\ others \in AgentState /\ present \subseteq Entry
      /\ \A t \in Time : t \in Nat
  BY Typed, Times DEF Inv, TypeOK
<1>5. k \in TickType
  <2>1. DueFires \in Seq(FireType) /\ <<>> \in Seq(FireType) /\ <<>> \in Seq(LineType)
    BY DueFiresFacts DEF Inv
  <2>2. OrphanCandidates \subseteq Entry
    BY <1>4 DEF OrphanCandidates
  <2>3. [e \in Entry |-> IF e \in present THEN NextObservation(e) ELSE cursor[e]]
          \in ObservationType
    BY <1>4 DEF ObservationType, NextObservation
  <2>4. QED
    BY <1>2, <1>4, <2>1, <2>2, <2>3 DEF TickType
<1>6. /\ k.pc = "fire" /\ k.now = now /\ k.gcLen = Len(log)
      /\ k.fires = (IF resolved THEN DueFires ELSE <<>>)
      /\ k.orphans = OrphanCandidates
      /\ \A e \in Entry : k.next[e] = IF e \in present THEN NextObservation(e) ELSE cursor[e]
  BY <1>2
<1>7. \A i \in DOMAIN k.fires : k.fires = DueFires /\ i \in DOMAIN DueFires
  BY <1>6
<1>8. SweepStands(k)
  <2>1. \A i, j \in DOMAIN k.fires : i # j => k.fires[i].entry # k.fires[j].entry
    BY <1>7, DueFiresFacts DEF Inv
  <2>2. \A i \in DOMAIN k.fires :
          IF k.fires[i].reason = "schedule" THEN DueAt(k.fires[i].entry) <= k.now
          ELSE Rested(k.fires[i].entry, k.now)
    <3> SUFFICES ASSUME NEW i \in DOMAIN k.fires
                 PROVE  IF k.fires[i].reason = "schedule" THEN DueAt(k.fires[i].entry) <= k.now
                        ELSE Rested(k.fires[i].entry, k.now)
      OBVIOUS
    <3>1. k.fires = DueFires /\ i \in DOMAIN DueFires
      BY <1>7
    <3>2. IF DueFires[i].reason = "schedule" THEN ScheduleDue(DueFires[i].entry)
          ELSE WakeDue(DueFires[i].entry)
      BY <3>1, DueFiresFacts DEF Inv
    <3>3. DueAt(DueFires[i].entry) \in Nat
      BY AnchorTime DEF Inv
    <3>4. ASSUME NEW e, WakeDue(e) PROVE Rested(e, now)
      <4>1. Anchor(e) \in Nat /\ setup.debounce \in Nat
        BY AnchorTime, Times, SetupFacts, Typed DEF Inv
      <4>2. QED
        BY <1>4, <3>4, <4>1 DEF WakeDue, Debounced, Rested
    <3>5. QED
      BY <1>4, <1>6, <3>1, <3>2, <3>3, <3>4 DEF ScheduleDue
  <2>3. k.fires # <<>> => k.orphans = {}
    BY <1>6 DEF OrphanCandidates
  <2>4. k.now <= now
    BY <1>4, <1>6
  <2>5. /\ \A i \in DOMAIN sent : sent[i].at <= k.now
        /\ \A i \in DOMAIN log : log[i].outcome # "rescheduled" => log[i].ts <= k.now
    BY <1>6 DEF Inv, SentInOrder, LinesInOrder
  <2>6. \A i \in k.gcLen + 1 .. Len(log) : FALSE
    BY <1>4, <1>6
  <2>7. k.now \in Time /\ k.pc # "append"
    BY <1>4, <1>6
  <2>8. QED
    BY <2>1, <2>2, <2>3, <2>4, <2>5, <2>6, <2>7 DEF SweepStands
<1>9. SweepStands(k)' /\ now' \in Time /\ now' >= now
  <2>1. now' \in Time /\ now' >= now
    BY <1>1, <1>4
  <2>2. QED
    BY <1>1, <1>8, <2>1, SweepKept DEF Inv
<1>10. /\ tick' \in [Invoker -> TickType] /\ tick'[p] = k
       /\ \A q \in Invoker : q # p => tick'[q] = tick[q] /\ ~Sweeping(q) /\ ~Sweeping(q)'
       /\ Sweeping(p)' /\ OneAtWork' /\ Sweeps'
       /\ InFlight => InFlight'
  BY <1>1, <1>3, <1>5, <1>6, <1>9, SweepSteps
<1>11. TypeOK'
  <2>1. \A q \in Invoker : tick'[q].gcLen <= Len(log)
    BY <1>4, <1>6, <1>10 DEF Inv, TypeOK
  <2>2. QED
    BY <1>1, <1>10, <2>1, TypesStay DEF Inv, TypeOK
<1>12. crashes' \in Nat /\ crashes' >= crashes
  BY <1>1, <1>4
<1>13. LinesInOrder' /\ SentInOrder' /\ RepeatsUnlogged' /\ RateBound' /\ HeldIsDue'
  BY <1>1, <1>9, <1>12, HistoryKept
<1>14. EditsRecorded' /\ DeathsAccount'
  BY <1>1, <1>10, <1>12, EditsKept, DeathsKept DEF Inv, EditsRecorded
<1>15. WakesCaused'
  <2>1. ASSUME NEW e \in Entry
        PROVE  Waking(k, e) + Turn(k.next[e]) <= Turn(cursor[e])
               /\ Waking(k, e) \in {0, 1} /\ Turn(k.next[e]) \in {0, 1} /\ Turn(cursor[e]) \in {0, 1}
    <3>1. CASE \E i \in DOMAIN k.fires : k.fires[i].entry = e /\ k.fires[i].reason = "wake"
      <4>1. PICK i \in DOMAIN DueFires : DueFires[i].entry = e /\ DueFires[i].reason = "wake"
        BY <1>7, <3>1
      <4>2. WakeDue(e) /\ e \in present
        BY <4>1, DueFiresFacts DEF Inv
      <4>3. cursor[e] = "active" /\ others = "idle" /\ k.next[e] = "idle"
        BY <1>4, <1>6, <4>2 DEF WakeDue, Actionable, NextObservation, ObservationType, AgentState
      <4>4. QED
        BY <3>1, <4>3 DEF Waking, Turn
    <3>2. CASE ~ \E i \in DOMAIN k.fires : k.fires[i].entry = e /\ k.fires[i].reason = "wake"
      <4>1. k.next[e] = cursor[e] \/ k.next[e] = others
        BY <1>6 DEF NextObservation
      <4>2. QED
        BY <3>2, <4>1 DEF Waking, Turn
    <3>3. QED
      BY <3>1, <3>2
  <2>2. \A q \in Invoker : ~Sweeping(q)
    BY <1>1, <1>10 DEF Sweeping
  <2>3. \A e : Wakes(e)' = Wakes(e)
    BY <1>1 DEF Wakes
  <2>4. ASSUME NEW e \in Entry
        PROVE  /\ Cardinality(Wakes(e)') + Waking(k, e) + Turn(k.next[e]) <= edges + crashes
               /\ Cardinality(Wakes(e)') + Waking(k, e) + Turn(cursor[e]) <= edges + (crashes + 1)
    <3>1. Cardinality(Wakes(e)) + Turn(cursor[e]) <= edges + crashes
      BY <2>2 DEF Inv, WakesCaused
    <3>2. PICK m \in Nat, w \in {0, 1}, n \in {0, 1}, c \in {0, 1} :
            m = Cardinality(Wakes(e)) /\ w = Waking(k, e) /\ n = Turn(k.next[e])
            /\ c = Turn(cursor[e]) /\ w + n <= c
      BY <2>1, WakesFinite DEF Inv
    <3>3. m + w + n <= edges + crashes /\ m + w + c <= edges + (crashes + 1)
      BY <1>4, <3>1, <3>2
    <3>4. QED
      BY <2>3, <3>2, <3>3
  <2>5. QED
    BY <1>1, <1>10, <2>4, SweepWakes
<1>16. QED
  BY <1>10, <1>11, <1>13, <1>14, <1>15 DEF Inv

\* The cursor that a sweep leaves behind owes at most what the sweep owed.
LEMMA FinishKeeps == ASSUME NEW p \in Invoker PROVE Inv /\ Finish(p) => Inv'
<1> SUFFICES ASSUME Inv, Finish(p) PROVE Inv'
  OBVIOUS
<1>1. /\ UNCHANGED <<setup, now, resolved, busy, others, edges, present, edits, log, edit,
                     sent, held, crashes>>
      /\ tick[p].pc = "fire" /\ cursor' = tick[p].next
      /\ tick' = [tick EXCEPT ![p] = NoTick] /\ lock' = None
  BY DEF Finish, Fired, world, history
<1>2. /\ \A q \in Invoker : q # p => tick[q].pc = "idle" /\ ~Sweeping(q)
      /\ \A d \in Editor : edit[d].pc \notin {"save", "append"}
      /\ Sweeping(p)
  BY <1>1, TickAlone DEF Inv, Sweeping
<1>3. /\ crashes \in Nat /\ crashes' \in Nat /\ crashes' >= crashes
      /\ now \in Time /\ now \in Nat /\ now' \in Time /\ now' >= now
      /\ edges \in Nat /\ Len(log) \in Nat /\ tick[p] \in TickType
  BY <1>1, Typed, Times, TypesStay DEF Inv, TypeOK
<1>4. /\ tick' \in [Invoker -> TickType] /\ tick'[p] = NoTick
      /\ \A q \in Invoker : q # p => tick'[q] = tick[q]
  BY <1>1, NoTickType, TickMoves DEF Inv
<1>5. TypeOK'
  <2>1. cursor' \in ObservationType
    BY <1>1, <1>3 DEF TickType
  <2>2. QED
    BY <1>1, <1>3, <1>4, <2>1, NoTickType, TypesStay DEF Inv, TypeOK
<1>6. \A q \in Invoker : tick'[q].pc = "idle" /\ ~Sweeping(q)'
  BY <1>2, <1>4, NoTickType DEF Sweeping
<1>7. OneAtWork' /\ Sweeps'
  BY <1>1, <1>2, <1>6 DEF OneAtWork, Sweeps
<1>8. LinesInOrder' /\ SentInOrder' /\ RepeatsUnlogged' /\ RateBound' /\ HeldIsDue'
  BY <1>1, <1>3, HistoryKept
<1>9. EditsRecorded'
  BY <1>1, <1>3, EditsKept DEF Inv, EditsRecorded
<1>10. DeathsAccount'
  <2>1. ~InFlight
    BY <1>1, <1>2 DEF InFlight
  <2>2. QED
    BY <1>1, <1>3, <2>1, DeathsKept
<1>11. WakesCaused'
  <2>1. ASSUME NEW e \in Entry
        PROVE  Cardinality(Wakes(e)) + Turn(tick[p].next[e]) <= edges + crashes
    <3>1. PICK m \in Nat, w \in {0, 1}, n \in {0, 1} :
            m = Cardinality(Wakes(e)) /\ w = Waking(tick[p], e) /\ n = Turn(tick[p].next[e])
      BY WakesFinite DEF Inv, Turn, Waking
    <3>2. m + w + n <= edges + crashes
      BY <1>2, <3>1 DEF Inv, WakesCaused
    <3>3. m + n <= edges + crashes
      BY <1>3, <3>2
    <3>4. QED
      BY <3>1, <3>3
  <2>2. \A e : Wakes(e)' = Wakes(e) /\ Turn(cursor[e])' = Turn(tick[p].next[e])
    BY <1>1 DEF Wakes, Turn
  <2>3. QED
    BY <1>1, <1>6, <2>1, <2>2 DEF WakesCaused
<1>12. QED
  BY <1>5, <1>7, <1>8, <1>9, <1>10, <1>11 DEF Inv

LEMMA Singleton == ASSUME NEW S, NEW x \in S PROVE <<x>> \in Seq(S)
OBVIOUS

\* A step of a sweep after its fires: the line to append tells of no delivery.
LEMMA AfterFires ==
  ASSUME Inv, NEW p \in Invoker, tick[p].pc = "fire", tick[p].fires = <<>>,
         NEW k \in TickType, tick' = [tick EXCEPT ![p] = k],
         UNCHANGED <<setup, now, busy, others, edges, edits, log, cursor, lock, edit, sent, held,
                     crashes>>,
         resolved' \in BOOLEAN, present' \subseteq Entry,
         k.pc = "append", k.now = tick[p].now, k.fires = <<>>, k.gcLen = tick[p].gcLen,
         k.next = tick[p].next, k.orphans \subseteq tick[p].orphans,
         Len(k.line) = 1, k.line[1].ts = k.now,
         k.line[1].outcome \notin {"rescheduled", "held", "delivered"},
         k.line[1].entry \in k.orphans => k.line[1].outcome \notin Evidence
  PROVE  Inv'
<1>1. /\ Sweeping(p) /\ SweepStands(tick[p]) /\ k.line \in Seq(LineType)
      /\ now \in Time /\ now \in Nat /\ edges \in Nat /\ crashes \in Nat /\ Len(log) \in Nat
      /\ tick[p].pc # "idle"
  BY Typed, Times DEF Inv, Sweeps, Sweeping, TickType
<1>2. SweepStands(k)
  <2>1. LineStands(k)
    BY <1>1 DEF LineStands
  <2>2. \A i \in DOMAIN k.fires : FALSE
    OBVIOUS
  <2>3. \A e \in k.orphans : \A i \in k.gcLen + 1 .. Len(log) :
          log[i].entry = e => log[i].outcome \notin Evidence
    BY <1>1 DEF SweepStands
  <2>4. /\ k.now \in Time /\ k.now <= now
        /\ \A i \in DOMAIN sent : sent[i].at <= k.now
        /\ \A i \in DOMAIN log : log[i].outcome # "rescheduled" => log[i].ts <= k.now
    BY <1>1 DEF SweepStands
  <2>5. QED
    BY <2>1, <2>2, <2>3, <2>4 DEF SweepStands
<1>3. SweepStands(k)' /\ now' \in Time /\ now' >= now
  <2>1. now' \in Time /\ now' >= now
    BY <1>1
  <2>2. QED
    BY <1>2, <2>1, SweepKept DEF Inv
<1>4. /\ tick' \in [Invoker -> TickType] /\ tick'[p] = k
      /\ \A q \in Invoker : q # p => tick'[q] = tick[q] /\ ~Sweeping(q) /\ ~Sweeping(q)'
      /\ Sweeping(p)' /\ OneAtWork' /\ Sweeps' /\ ~InFlight
  BY <1>1, <1>3, SweepSteps
<1>5. TypeOK'
  <2>1. \A q \in Invoker : tick'[q].gcLen <= Len(log)
    BY <1>4 DEF Inv, TypeOK
  <2>2. QED
    BY <1>4, <2>1, TypesStay DEF Inv, TypeOK
<1>6. crashes' \in Nat /\ crashes' >= crashes
  BY <1>1
<1>7. LinesInOrder' /\ SentInOrder' /\ RepeatsUnlogged' /\ RateBound' /\ HeldIsDue'
  BY <1>3, <1>6, HistoryKept
<1>8. EditsRecorded' /\ DeathsAccount'
  BY <1>4, <1>6, EditsKept, DeathsKept DEF Inv, EditsRecorded
<1>9. WakesCaused'
  <2>1. ASSUME NEW e \in Entry
        PROVE  /\ Cardinality(Wakes(e)') + Waking(k, e) + Turn(k.next[e]) <= edges + crashes
               /\ Cardinality(Wakes(e)') + Waking(k, e) + Turn(cursor[e]) <= edges + (crashes + 1)
    <3>1. Wakes(e)' = Wakes(e) /\ Waking(k, e) = Waking(tick[p], e)
          /\ Turn(k.next[e]) = Turn(tick[p].next[e])
      BY DEF Wakes, Waking
    <3>2. /\ Cardinality(Wakes(e)) + Waking(tick[p], e) + Turn(tick[p].next[e]) <= edges + crashes
          /\ Cardinality(Wakes(e)) + Waking(tick[p], e) + Turn(cursor[e]) <= edges + (crashes + 1)
      BY <1>1 DEF Inv, WakesCaused
    <3>3. QED
      BY <3>1, <3>2
  <2>2. QED
    BY <1>4, <2>1, SweepWakes
<1>10. QED
  BY <1>4, <1>5, <1>7, <1>8, <1>9 DEF Inv

LEMMA DisposeKeeps == ASSUME NEW p \in Invoker PROVE Inv /\ Dispose(p) => Inv'
<1> SUFFICES ASSUME Inv, Dispose(p) PROVE Inv'
  OBVIOUS
<1>1. tick[p].pc = "fire" /\ tick[p].fires = <<>> /\ tick[p].absent # <<>>
  BY DEF Dispose
<1> DEFINE f == Head(tick[p].absent)
<1>2. /\ tick \in [Invoker -> TickType] /\ tick[p] \in TickType
      /\ tick[p].absent \in Seq(FireType) /\ tick[p].orphans \subseteq Entry
  BY DEF Inv, TypeOK, TickType
<1>3. f \in FireType /\ Tail(tick[p].absent) \in Seq(FireType)
  BY <1>1, <1>2
<1>4. tick[p].now \in Time
  BY <1>1 DEF Inv, Sweeps, Sweeping, SweepStands
<1>5. PICK outcome \in IF RateCapped(f, FALSE, tick[p].now) THEN {"rate-capped"}
                       ELSE AbsentOutcomes(f.entry) :
        /\ tick' = [tick EXCEPT ![p].absent = Tail(@),
                      ![p].pc = "append",
                      ![p].line = <<Line(p, f.entry, outcome, FALSE)>>,
                      ![p].orphans = OrphansAfter(p, f.entry, outcome)]
        /\ IF outcome = "respawned" THEN resolved' = TRUE ELSE UNCHANGED resolved
  BY DEF Dispose
<1>6. outcome \in {"rate-capped", "respawned", "respawn-failed", "notified-absent", "skipped-absent"}
  BY <1>5 DEF AbsentOutcomes
<1>7. PICK k : k = [tick[p] EXCEPT !.absent = Tail(@), !.pc = "append",
                      !.line = <<Line(p, f.entry, outcome, FALSE)>>,
                      !.orphans = OrphansAfter(p, f.entry, outcome)]
  OBVIOUS
<1>8. Line(p, f.entry, outcome, FALSE) \in LineType
  BY <1>3, <1>4, <1>6 DEF Line, LineType, FireType, Outcome
<1>9. /\ k \in TickType /\ k.pc = "append" /\ k.now = tick[p].now /\ k.fires = <<>>
      /\ k.gcLen = tick[p].gcLen /\ k.next = tick[p].next
      /\ k.orphans = OrphansAfter(p, f.entry, outcome)
      /\ k.line = <<Line(p, f.entry, outcome, FALSE)>>
  <2>1. OrphansAfter(p, f.entry, outcome) \subseteq Entry
    BY <1>2 DEF OrphansAfter
  <2>2. <<Line(p, f.entry, outcome, FALSE)>> \in Seq(LineType)
    BY <1>8, Singleton
  <2>3. QED
    BY <1>1, <1>2, <1>3, <1>7, <2>1, <2>2 DEF TickType
<1>10. tick' = [tick EXCEPT ![p] = k]
  BY <1>2, <1>5, <1>7
<1>11. /\ k.orphans \subseteq tick[p].orphans
       /\ k.line[1].entry \in k.orphans => k.line[1].outcome \notin Evidence
       /\ Len(k.line) = 1 /\ k.line[1].ts = k.now
       /\ k.line[1].outcome \notin {"rescheduled", "held", "delivered"}
  BY <1>6, <1>9 DEF OrphansAfter, Line, Evidence
<1>12. /\ UNCHANGED <<setup, now, busy, others, edges, edits, log, cursor, lock, edit, sent, held,
                      crashes, present>>
       /\ resolved' \in BOOLEAN /\ present \subseteq Entry
  BY <1>5 DEF Dispose, Inv, TypeOK, files, history
<1>13. QED
  BY <1>1, <1>9, <1>10, <1>11, <1>12, AfterFires

LEMMA ExpireKeeps ==
  ASSUME NEW p \in Invoker, NEW e \in Entry PROVE Inv /\ Expire(p, e) => Inv'
<1> SUFFICES ASSUME Inv, Expire(p, e) PROVE Inv'
  OBVIOUS
<1>1. /\ tick[p].pc = "fire" /\ tick[p].fires = <<>> /\ present' = present \ {e}
      /\ UNCHANGED <<setup, now, resolved, busy, others, edges, edits, log, cursor, lock, edit,
                     sent, held, crashes>>
  BY DEF Expire, Fired, world, history
<1>2. tick \in [Invoker -> TickType] /\ tick[p] \in TickType
  BY DEF Inv, TypeOK
<1>3. tick[p].now \in Time
  BY <1>1 DEF Inv, Sweeps, Sweeping, SweepStands
<1>4. PICK k : k = [tick[p] EXCEPT !.orphans = @ \ {e}, !.pc = "append",
                      !.line = <<Line(p, e, "expired-orphan", FALSE)>>]
  OBVIOUS
<1>5. <<Line(p, e, "expired-orphan", FALSE)>> \in Seq(LineType)
  <2>1. Line(p, e, "expired-orphan", FALSE) \in LineType
    BY <1>3 DEF Line, LineType, Outcome
  <2>2. QED
    BY <2>1, Singleton
<1>6. /\ k \in TickType /\ k.pc = "append" /\ k.now = tick[p].now /\ k.fires = <<>>
      /\ k.gcLen = tick[p].gcLen /\ k.next = tick[p].next
      /\ k.orphans = tick[p].orphans \ {e}
      /\ k.line = <<Line(p, e, "expired-orphan", FALSE)>>
  BY <1>1, <1>2, <1>4, <1>5 DEF TickType
<1>7. tick' = [tick EXCEPT ![p] = k]
  BY <1>2, <1>4 DEF Expire
<1>8. /\ k.orphans \subseteq tick[p].orphans
      /\ k.line[1].entry \in k.orphans => k.line[1].outcome \notin Evidence
      /\ Len(k.line) = 1 /\ k.line[1].ts = k.now
      /\ k.line[1].outcome \notin {"rescheduled", "held", "delivered"}
  BY <1>6 DEF Line, Evidence
<1>9. resolved' \in BOOLEAN /\ present' \subseteq Entry
  BY <1>1 DEF Inv, TypeOK
<1>10. QED
  BY <1>1, <1>6, <1>7, <1>8, <1>9, AfterFires

-----------------------------------------------------------------------------
(* One fire into the pane *)

LEMMA TailFacts ==
  ASSUME NEW q \in Seq(FireType), q # <<>>,
         \A i, j \in DOMAIN q : i # j => q[i].entry # q[j].entry
  PROVE  /\ Tail(q) \in Seq(FireType) /\ 1 \in DOMAIN q /\ Head(q) = q[1] /\ Head(q) \in FireType
         /\ \A i \in DOMAIN Tail(q) :
              /\ i + 1 \in DOMAIN q /\ Tail(q)[i] = q[i + 1]
              /\ Tail(q)[i].entry # Head(q).entry
         /\ \A i, j \in DOMAIN Tail(q) : i # j => Tail(q)[i].entry # Tail(q)[j].entry
         /\ \A i \in DOMAIN q : i # 1 => i - 1 \in DOMAIN Tail(q) /\ Tail(q)[i - 1] = q[i]
<1>1. Tail(q) \in Seq(FireType) /\ 1 \in DOMAIN q /\ Head(q) = q[1] /\ Head(q) \in FireType
  OBVIOUS
<1>2. Len(q) \in Nat /\ Len(q) # 0 /\ DOMAIN q = 1 .. Len(q)
  OBVIOUS
<1>3. DOMAIN Tail(q) = 1 .. Len(q) - 1 /\ \A i \in 1 .. Len(q) - 1 : Tail(q)[i] = q[i + 1]
  BY <1>2
<1>4. \A i \in DOMAIN Tail(q) : i + 1 \in DOMAIN q /\ Tail(q)[i] = q[i + 1] /\ i + 1 # 1
  BY <1>2, <1>3
<1>5. \A i \in DOMAIN Tail(q) : Tail(q)[i].entry # Head(q).entry
  BY <1>1, <1>4
<1>6. \A i, j \in DOMAIN Tail(q) : i # j => Tail(q)[i].entry # Tail(q)[j].entry
  <2>1. \A i, j \in DOMAIN Tail(q) : i # j => i + 1 # j + 1
    BY <1>2, <1>3
  <2>2. QED
    BY <1>4, <2>1
<1>7. \A i \in DOMAIN q : i # 1 => i - 1 \in DOMAIN Tail(q) /\ Tail(q)[i - 1] = q[i]
  BY <1>2, <1>3
<1>8. QED
  BY <1>1, <1>4, <1>5, <1>6, <1>7

\* The fires that are left are as well evaluated as all of them were.
LEMMA FiresLeft ==
  ASSUME Inv, NEW p \in Invoker, tick[p].pc = "fire", tick[p].fires # <<>>, NEW k,
         k.fires = Tail(tick[p].fires), k.now = tick[p].now, k.gcLen = tick[p].gcLen,
         k.orphans = tick[p].orphans, UNCHANGED <<setup, now, log>>,
         \A i \in DOMAIN sent' : sent'[i].at <= k.now,
         k.pc = "append" => LineStands(k)'
  PROVE  SweepStands(k)' /\ k.orphans = {}
<1>1. /\ SweepStands(tick[p]) /\ tick[p].fires \in Seq(FireType)
  BY DEF Inv, Sweeps, Sweeping, TypeOK, TickType
<1>2. \A i, j \in DOMAIN tick[p].fires : i # j => tick[p].fires[i].entry # tick[p].fires[j].entry
  BY <1>1 DEF SweepStands
<1>3. /\ \A i \in DOMAIN k.fires : i + 1 \in DOMAIN tick[p].fires /\ k.fires[i] = tick[p].fires[i + 1]
      /\ \A i, j \in DOMAIN k.fires : i # j => k.fires[i].entry # k.fires[j].entry
  <2>1. PICK q : q = tick[p].fires
    OBVIOUS
  <2>2. /\ q \in Seq(FireType) /\ q # <<>> /\ k.fires = Tail(q)
        /\ \A i, j \in DOMAIN q : i # j => q[i].entry # q[j].entry
    BY <1>1, <1>2, <2>1
  <2>3. /\ \A i \in DOMAIN Tail(q) : i + 1 \in DOMAIN q /\ Tail(q)[i] = q[i + 1]
        /\ \A i, j \in DOMAIN Tail(q) : i # j => Tail(q)[i].entry # Tail(q)[j].entry
    BY <2>2, TailFacts
  <2>4. QED
    BY <2>1, <2>2, <2>3
<1>4. \A e : DueAt(e)' = DueAt(e) /\ \A t : Rested(e, t)' = Rested(e, t)
  BY DueStays
<1>5. \A i \in DOMAIN k.fires :
        IF k.fires[i].reason = "schedule" THEN DueAt(k.fires[i].entry)' <= k.now
        ELSE Rested(k.fires[i].entry, k.now)'
  BY <1>1, <1>3, <1>4 DEF SweepStands
<1>6. k.orphans = {} /\ Time' = Time /\ k.now \in Time /\ k.now <= now
  BY <1>1, TypesStay DEF SweepStands
<1>7. \A i \in DOMAIN log : log[i].outcome # "rescheduled" => log[i].ts <= k.now
  BY <1>1 DEF SweepStands
<1>8. QED
  BY <1>3, <1>5, <1>6, <1>7 DEF SweepStands

\* The wake that is fired is no longer to come; the others are.
LEMMA WakingLeft ==
  ASSUME Inv, NEW p \in Invoker, tick[p].pc = "fire", tick[p].fires # <<>>, NEW k,
         k.fires = Tail(tick[p].fires), NEW e
  PROVE  /\ Waking(k, e) \in {0, 1} /\ Waking(tick[p], e) \in {0, 1}
         /\ Waking(k, e) <= Waking(tick[p], e)
         /\ Head(tick[p].fires).entry = e /\ Head(tick[p].fires).reason = "wake" =>
              Waking(k, e) = 0 /\ Waking(tick[p], e) = 1
<1>1. /\ SweepStands(tick[p]) /\ tick[p].fires \in Seq(FireType)
  BY DEF Inv, Sweeps, Sweeping, TypeOK, TickType
<1>2. \A i, j \in DOMAIN tick[p].fires : i # j => tick[p].fires[i].entry # tick[p].fires[j].entry
  BY <1>1 DEF SweepStands
<1>3. /\ 1 \in DOMAIN tick[p].fires /\ Head(tick[p].fires) = tick[p].fires[1]
      /\ \A i \in DOMAIN k.fires :
           /\ i + 1 \in DOMAIN tick[p].fires /\ k.fires[i] = tick[p].fires[i + 1]
           /\ k.fires[i].entry # Head(tick[p].fires).entry
  BY <1>1, <1>2, TailFacts
<1>4. (\E i \in DOMAIN k.fires : k.fires[i].entry = e /\ k.fires[i].reason = "wake") =>
        \E i \in DOMAIN tick[p].fires : tick[p].fires[i].entry = e /\ tick[p].fires[i].reason = "wake"
  BY <1>3
<1>5. Waking(k, e) <= Waking(tick[p], e)
  BY <1>4 DEF Waking
<1>6. ASSUME Head(tick[p].fires).entry = e, Head(tick[p].fires).reason = "wake"
      PROVE  Waking(k, e) = 0 /\ Waking(tick[p], e) = 1
  BY <1>3, <1>6 DEF Waking
<1>7. QED
  BY <1>5, <1>6 DEF Waking

\* A sequence with one element more.
LEMMA Appended ==
  ASSUME NEW X, NEW q \in Seq(X), NEW x \in X, NEW r, r = Append(q, x)
  PROVE  /\ r \in Seq(X) /\ Len(q) \in Nat /\ Len(r) = Len(q) + 1
         /\ DOMAIN r = DOMAIN q \cup {Len(q) + 1} /\ Len(q) + 1 \notin DOMAIN q
         /\ DOMAIN q = 1 .. Len(q)
         /\ \A i \in DOMAIN q : r[i] = q[i] /\ i < Len(q) + 1
         /\ r[Len(q) + 1] = x
<1>1. /\ Len(r) = Len(q) + 1 /\ Len(q) \in Nat /\ r \in Seq(X)
      /\ \A i \in 1 .. Len(q) : r[i] = q[i]
      /\ r[Len(q) + 1] = x
  BY AppendProperties
<1>2. DOMAIN r = 1 .. Len(q) + 1 /\ DOMAIN q = 1 .. Len(q)
  BY <1>1
<1>3. QED
  BY <1>1, <1>2

\* A logged delivery of an entry that nobody edited is no later than the anchor.
LEMMA AnchorAfter ==
  ASSUME Inv, NEW i \in DOMAIN sent, sent[i].logged, edits[sent[i].entry] = 0
  PROVE  sent[i].at <= Anchor(sent[i].entry) /\ Own(sent[i].entry, Len(log)) # {}
<1> DEFINE e == sent[i].entry
<1>1. e \in Entry /\ sent[i].at \in Nat /\ log \in Seq(LineType) /\ Anchor(e) \in Nat
  BY Typed, Times, AnchorTime DEF Inv
<1>2. PICK k \in DOMAIN log : log[k].entry = e /\ log[k].ts = sent[i].at /\ log[k].outcome # "rescheduled"
  BY DEF Inv, SentInOrder
<1>3. Own(e, Len(log)) # {}
  BY <1>1, <1>2, AnchorFacts
<1>4. PICK n \in DOMAIN log : /\ log[n].entry = e /\ Anchor(e) = log[n].ts
                              /\ \A j \in DOMAIN log : log[j].entry = e => j <= n
  BY <1>1, <1>3, AnchorFacts
<1>5. log[n].outcome # "rescheduled"
  <2>1. Resets(e) = {}
    BY <1>1 DEF Inv, EditsRecorded
  <2>2. QED
    BY <1>4, <2>1 DEF Resets
<1>6. k <= n /\ k \in Nat /\ n \in Nat
  BY <1>2, <1>4, Typed DEF Inv
<1>7. CASE k = n
  BY <1>1, <1>2, <1>3, <1>4, <1>7
<1>8. CASE k # n
  <2>1. k < n
    BY <1>6, <1>8
  <2>2. log[k].ts <= log[n].ts
    BY <1>2, <1>4, <1>5, <2>1 DEF Inv, LinesInOrder
  <2>3. QED
    BY <1>2, <1>3, <1>4, <2>2
<1>9. QED
  BY <1>7, <1>8

\* A delivery comes a period, or the debounce, after every logged one of its entry.
LEMMA RepeatsGrow ==
  ASSUME Inv, NEW s \in SentType, sent' = Append(sent, s), UNCHANGED <<setup, edits, log>>,
         IF s.reason = "schedule" THEN DueAt(s.entry) <= s.at ELSE Rested(s.entry, s.at)
  PROVE  RepeatsUnlogged'
<1>1. /\ sent \in Seq(SentType) /\ s.at \in Nat /\ s.entry \in Entry
      /\ setup.interval \in Nat /\ setup.debounce \in Nat
      /\ \A i \in DOMAIN sent : sent[i].at \in Nat
  BY Typed, Times, SetupFacts DEF Inv, SentType
<1> DEFINE n == Len(sent)
<1>2. /\ n \in Nat /\ DOMAIN sent' = DOMAIN sent \cup {n + 1} /\ DOMAIN sent = 1 .. n
      /\ \A i \in DOMAIN sent : sent'[i] = sent[i]
      /\ sent'[n + 1] = s
  BY <1>1, Appended
<1> SUFFICES ASSUME NEW i \in DOMAIN sent', NEW j \in 1 .. i - 1,
                    edits[sent'[i].entry] = 0,
                    sent'[i].entry = sent'[j].entry,
                    sent'[i].at - sent'[j].at < Gap(sent'[i].reason)
             PROVE  ~sent'[j].logged
  BY DEF RepeatsUnlogged, Gap
<1>3. CASE i \in DOMAIN sent
  <2>1. j \in DOMAIN sent /\ sent'[j] = sent[j] /\ sent'[i] = sent[i]
    BY <1>2, <1>3
  <2>2. QED
    BY <1>3, <2>1 DEF Inv, RepeatsUnlogged
<1>4. CASE i = n + 1
  <2>1. j \in DOMAIN sent /\ sent'[j] = sent[j] /\ sent'[i] = s
    BY <1>2, <1>4
  <2>2. ASSUME sent[j].logged
        PROVE  FALSE
    <3>1. sent[j].at <= Anchor(s.entry) /\ Own(s.entry, Len(log)) # {}
      BY <2>1, <2>2, AnchorAfter
    <3>2. /\ Anchor(s.entry) + Gap(s.reason) <= s.at
          /\ Anchor(s.entry) \in Nat /\ Gap(s.reason) \in Nat
      BY <1>1, <2>1, <3>1, AnchorTime, Times, Typed DEF Inv, Gap, Rested
    <3>3. s.at - sent[j].at < Gap(s.reason)
      BY <2>1
    <3>4. QED
      BY <1>1, <2>1, <3>1, <3>2, <3>3
  <2>3. QED
    BY <2>1, <2>2
<1>5. QED
  BY <1>2, <1>3, <1>4

\* The payload that has just entered the pane has no line yet.
LEMMA DeathsGrow ==
  ASSUME Inv, NEW s \in SentType, sent' = Append(sent, s), UNCHANGED <<log, crashes>>,
         ~s.logged, ~InFlight, InFlight'
  PROVE  DeathsAccount'
<1>1. sent \in Seq(SentType) /\ crashes \in Nat
  BY Typed DEF Inv
<1> DEFINE n == Len(sent)
<1>2. /\ DOMAIN sent' = DOMAIN sent \cup {n + 1} /\ n + 1 \notin DOMAIN sent
      /\ \A i \in DOMAIN sent : sent'[i] = sent[i]
      /\ sent'[n + 1] = s
  BY <1>1, Appended
<1>3. Unlogged' = Unlogged \cup {n + 1} /\ n + 1 \notin Unlogged /\ Unlogged \in SUBSET DOMAIN sent
  BY <1>2 DEF Unlogged
<1>4. Cardinality(Unlogged') = Cardinality(Unlogged) + 1 /\ Cardinality(Unlogged) \in Nat
  BY <1>1, <1>3, OneMore
<1>5. Cardinality(Unlogged) <= crashes + 0
  BY DEF Inv, DeathsAccount
<1>6. Cardinality(Unlogged') <= crashes' + (IF InFlight' THEN 1 ELSE 0)
  BY <1>1, <1>4, <1>5
<1>7. \A t : LoggedSince(t)' = LoggedSince(t) /\ DeliveredSince(t)' = DeliveredSince(t)
  BY <1>2 DEF LoggedSince, DeliveredSince
<1>8. QED
  BY <1>6, <1>7 DEF Inv, DeathsAccount

LEMMA OrderGrows ==
  ASSUME Inv, NEW s \in SentType, sent' = Append(sent, s), UNCHANGED <<now, log>>,
         ~s.logged, s.at <= now, \A i \in DOMAIN sent : sent[i].at <= s.at
  PROVE  SentInOrder' /\ \A i \in DOMAIN sent' : sent'[i].at <= s.at
<1>1. sent \in Seq(SentType) /\ s.at \in Nat
  BY Typed, Times DEF Inv, SentType
<1> DEFINE n == Len(sent)
<1>2. /\ DOMAIN sent' = DOMAIN sent \cup {n + 1} /\ n \in Nat /\ DOMAIN sent = 1 .. n
      /\ \A i \in DOMAIN sent : sent'[i] = sent[i]
      /\ sent'[n + 1] = s
  BY <1>1, Appended
<1>3. \A i \in DOMAIN sent' : sent'[i].at <= s.at /\ sent'[i].at <= now
  BY <1>1, <1>2 DEF Inv, SentInOrder
<1>4. ASSUME NEW i \in DOMAIN sent', NEW j \in DOMAIN sent', i < j
      PROVE  sent'[i].at <= sent'[j].at
  <2>1. i \in DOMAIN sent
    BY <1>2, <1>4
  <2>2. CASE j = n + 1
    BY <1>2, <2>1, <2>2
  <2>3. CASE j \in DOMAIN sent
    BY <1>2, <1>4, <2>1, <2>3 DEF Inv, SentInOrder
  <2>4. QED
    BY <1>2, <2>2, <2>3
<1>5. ASSUME NEW i \in DOMAIN sent', sent'[i].logged
      PROVE  \E k \in DOMAIN log : /\ log[k].entry = sent'[i].entry /\ log[k].ts = sent'[i].at
                                   /\ log[k].outcome # "rescheduled"
  <2>1. i \in DOMAIN sent /\ sent'[i] = sent[i]
    BY <1>2, <1>5
  <2>2. QED
    BY <1>5, <2>1 DEF Inv, SentInOrder
<1>6. QED
  BY <1>3, <1>4, <1>5 DEF SentInOrder

\* What was delivered since t is in the lines that the cap counts, or lost its line.
LEMMA DeliveredOrLost ==
  ASSUME Inv, ~InFlight, NEW t \in Int, NEW S \in SUBSET DOMAIN sent,
         \A i \in S : sent[i].at >= t, NEW c \in Nat, Cardinality(DeliveredSince(t)) <= c
  PROVE  Cardinality(S) \in Nat /\ Cardinality(S) <= c + crashes
<1>1. sent \in Seq(SentType) /\ log \in Seq(LineType) /\ crashes \in Nat
  BY Typed DEF Inv
<1>2. LoggedSince(t) \in SUBSET DOMAIN sent /\ Unlogged \in SUBSET DOMAIN sent
  BY DEF LoggedSince, Unlogged
<1>3. IsFiniteSet(LoggedSince(t)) /\ IsFiniteSet(Unlogged)
  BY <1>1, <1>2, Positions
<1>4. S \subseteq LoggedSince(t) \cup Unlogged
  BY DEF LoggedSince, Unlogged
<1>5. PICK a \in Nat, b \in Nat, m \in Nat, u \in Nat :
        /\ a = Cardinality(LoggedSince(t)) /\ b = Cardinality(Unlogged)
        /\ m = Cardinality(LoggedSince(t) \cap Unlogged)
        /\ u = Cardinality(LoggedSince(t) \cup Unlogged)
        /\ IsFiniteSet(LoggedSince(t) \cup Unlogged) /\ u = a + b - m
  <2>1. IsFiniteSet(LoggedSince(t) \cap Unlogged)
    BY <1>3, FS_Intersection
  <2>2. /\ IsFiniteSet(LoggedSince(t) \cup Unlogged)
        /\ Cardinality(LoggedSince(t) \cup Unlogged) =
             Cardinality(LoggedSince(t)) + Cardinality(Unlogged)
               - Cardinality(LoggedSince(t) \cap Unlogged)
    BY <1>3, FS_Union
  <2>3. QED
    BY <1>3, <2>1, <2>2, FS_CardinalityType
<1>6. a <= c /\ b <= crashes
  <2>1. b <= crashes + 0 /\ a <= Cardinality(DeliveredSince(t))
    BY <1>5 DEF Inv, DeathsAccount
  <2>2. Cardinality(DeliveredSince(t)) \in Nat
    <3>1. DeliveredSince(t) \in SUBSET DOMAIN log
      BY DEF DeliveredSince
    <3>2. QED
      BY <1>1, <3>1, Positions
  <2>3. QED
    BY <1>1, <1>5, <2>1, <2>2
<1>7. Cardinality(S) \in Nat /\ Cardinality(S) <= u
  BY <1>4, <1>5, FS_Subset, FS_CardinalityType
<1>8. u \in Nat /\ crashes \in Nat /\ u <= c + crashes
  <2>1. m \in Nat /\ u = a + b - m /\ u \in Nat /\ crashes \in Nat
    BY <1>1, <1>5
  <2>2. a + b <= c + crashes
    BY ONLY <1>6, <2>1, a \in Nat, b \in Nat, c \in Nat
  <2>3. QED
    BY ONLY <2>1, <2>2, a \in Nat, b \in Nat, c \in Nat
<1>9. QED
  BY ONLY <1>7, <1>8, c \in Nat

\* A pane that is below its cap may take one payload more.
LEMMA RateGrows ==
  ASSUME Inv, ~InFlight, NEW s \in SentType, sent' = Append(sent, s),
         UNCHANGED <<setup, log, crashes>>, NEW f, ~RateCapped(f, TRUE, s.at),
         \A i \in DOMAIN sent : sent[i].at <= s.at
  PROVE  RateBound'
<1>1. /\ sent \in Seq(SentType) /\ s.at \in Nat /\ crashes \in Nat /\ RateWindow \in Nat
      /\ setup.rateCap \in Nat \ {0} /\ log \in Seq(LineType)
      /\ \A i \in DOMAIN sent : sent[i].at \in Nat
  BY Typed, Times, SetupFacts, ConstantsOK DEF Inv, SentType
<1> DEFINE n == Len(sent)
           near(r, i) == {j \in DOMAIN r : r[j].at <= r[i].at /\ r[j].at >= r[i].at - RateWindow}
<1>2. /\ DOMAIN sent' = DOMAIN sent \cup {n + 1} /\ n + 1 \notin DOMAIN sent
      /\ \A i \in DOMAIN sent : sent'[i] = sent[i]
      /\ sent'[n + 1] = s
  BY <1>1, Appended
<1>3. PICK t \in Int : t = s.at - RateWindow
  BY <1>1
<1>4. Cardinality(DeliveredSince(t)) \in Nat /\ Cardinality(DeliveredSince(t)) <= setup.rateCap - 1
  <2> DEFINE counted == {i \in DOMAIN log : /\ log[i].ts >= s.at - RateWindow
                                            /\ log[i].outcome \in Counted
                                            /\ log[i].pane}
  <2>1. RateCount(f, TRUE, s.at) = Cardinality(counted)
    BY DEF RateCount
  <2>2. DeliveredSince(t) \in SUBSET counted /\ counted \in SUBSET DOMAIN log
    BY <1>3 DEF DeliveredSince, Counted
  <2> HIDE DEF counted
  <2>3. /\ Cardinality(DeliveredSince(t)) <= Cardinality(counted)
        /\ Cardinality(DeliveredSince(t)) \in Nat /\ Cardinality(counted) \in Nat
    BY <1>1, <2>2, Fewer
  <2>4. PICK d \in Nat, x \in Nat, cap \in Nat :
          d = Cardinality(DeliveredSince(t)) /\ x = Cardinality(counted) /\ cap = setup.rateCap
    BY <1>1, <2>3
  <2>5. ~(x >= cap)
    BY <2>1, <2>4 DEF RateCapped
  <2>6. d <= cap - 1
    BY <2>3, <2>4, <2>5
  <2>7. QED
    BY <2>4, <2>6
<1>5. Cardinality(near(sent', n + 1)) <= setup.rateCap + crashes
  <2> DEFINE old == {j \in DOMAIN sent : sent[j].at >= t}
  <2>1. setup.rateCap - 1 \in Nat
    BY <1>1
  <2>2. Cardinality(old) \in Nat /\ Cardinality(old) <= setup.rateCap - 1 + crashes
    <3>1. old \in SUBSET DOMAIN sent /\ \A i \in old : sent[i].at >= t
      OBVIOUS
    <3> HIDE DEF old
    <3>2. QED
      BY <1>3, <1>4, <2>1, <3>1, DeliveredOrLost
  <2>3. near(sent', n + 1) = old \cup {n + 1}
    <3>1. \A j \in DOMAIN sent : j \in near(sent', n + 1) <=> j \in old
      BY <1>2, <1>3
    <3>2. n + 1 \in near(sent', n + 1)
      BY <1>1, <1>2
    <3>3. near(sent', n + 1) \subseteq DOMAIN sent \cup {n + 1} /\ old \subseteq DOMAIN sent
      BY <1>2
    <3> HIDE DEF near, old
    <3>4. QED
      BY <3>1, <3>2, <3>3
  <2>4. n + 1 \notin old /\ old \in SUBSET DOMAIN sent
    BY <1>2
  <2> HIDE DEF old, near
  <2>5. Cardinality(old \cup {n + 1}) = Cardinality(old) + 1
    BY <1>1, <2>4, OneMore
  <2>6. PICK m \in Nat, cap \in Nat : m = Cardinality(old) /\ cap = setup.rateCap
    BY <1>1, <2>2
  <2>7. m + 1 <= cap + crashes
    BY <1>1, <2>2, <2>6
  <2>8. QED
    BY <2>3, <2>5, <2>6, <2>7
<1>6. ASSUME NEW i \in DOMAIN sent, sent[i].at = s.at
      PROVE  near(sent', i) = near(sent', n + 1)
  BY <1>2, <1>6
<1>7. ASSUME NEW i \in DOMAIN sent, sent[i].at # s.at
      PROVE  near(sent', i) = near(sent, i)
  <2>1. sent[i].at < s.at
    BY <1>1, <1>7
  <2>2. n + 1 \notin near(sent', i)
    BY <1>1, <1>2, <2>1
  <2>3. \A j \in DOMAIN sent : j \in near(sent', i) <=> j \in near(sent, i)
    BY <1>2
  <2>4. near(sent', i) \subseteq DOMAIN sent \cup {n + 1} /\ near(sent, i) \subseteq DOMAIN sent
    BY <1>2
  <2> HIDE DEF near
  <2>5. QED
    BY <2>2, <2>3, <2>4
<1>8. \A i \in DOMAIN sent : Cardinality(near(sent, i)) <= setup.rateCap + crashes
  BY DEF Inv, RateBound
<1> HIDE DEF near
<1>9. \A i \in DOMAIN sent' : Cardinality(near(sent', i)) <= setup.rateCap + crashes
  BY <1>2, <1>5, <1>6, <1>7, <1>8
<1>10. QED
  BY <1>9 DEF RateBound, near

LEMMA DeliverKeeps == ASSUME NEW p \in Invoker PROVE Inv /\ Deliver(p) => Inv'
<1> SUFFICES ASSUME Inv, Deliver(p) PROVE Inv'
  OBVIOUS
<1>1. /\ tick[p].pc = "fire" /\ tick[p].fires # <<>> /\ tick[p].pc # "idle" /\ Sweeping(p)
      /\ UNCHANGED <<setup, now, resolved, busy, others, edges, present, edits, log, cursor,
                     lock, edit, crashes>>
  BY DEF Deliver, world, files, Sweeping
<1> DEFINE f == Head(tick[p].fires)
<1>2. /\ tick \in [Invoker -> TickType] /\ tick[p] \in TickType
      /\ tick[p].fires \in Seq(FireType) /\ SweepStands(tick[p])
  BY <1>1 DEF Inv, TypeOK, TickType, Sweeps
<1>3. /\ tick[p].now \in Time /\ tick[p].now <= now /\ now \in Time /\ now \in Nat
      /\ edges \in Nat /\ crashes \in Nat /\ crashes' \in Nat /\ crashes' >= crashes
      /\ now' \in Time /\ now' >= now
      /\ \A i \in DOMAIN sent : sent[i].at <= tick[p].now
      /\ \A i, j \in DOMAIN tick[p].fires :
           i # j => tick[p].fires[i].entry # tick[p].fires[j].entry
  BY <1>1, <1>2, Typed, Times, TypesStay DEF Inv, SweepStands
<1>4. /\ Tail(tick[p].fires) \in Seq(FireType) /\ f \in FireType /\ f.entry \in Entry
      /\ \A i \in DOMAIN Tail(tick[p].fires) : Tail(tick[p].fires)[i].entry # f.entry
      /\ IF f.reason = "schedule" THEN DueAt(f.entry) <= tick[p].now
         ELSE Rested(f.entry, tick[p].now)
  <2>1. PICK q : q = tick[p].fires
    OBVIOUS
  <2>2. /\ q \in Seq(FireType) /\ q # <<>> /\ f = Head(q)
        /\ \A i, j \in DOMAIN q : i # j => q[i].entry # q[j].entry
    BY <1>1, <1>2, <1>3, <2>1
  <2>3. /\ Tail(q) \in Seq(FireType) /\ 1 \in DOMAIN q /\ Head(q) = q[1] /\ Head(q) \in FireType
        /\ \A i \in DOMAIN Tail(q) : Tail(q)[i].entry # Head(q).entry
    BY <2>2, TailFacts
  <2>4. IF q[1].reason = "schedule" THEN DueAt(q[1].entry) <= tick[p].now
        ELSE Rested(q[1].entry, tick[p].now)
    BY <1>2, <2>1, <2>3 DEF SweepStands
  <2>5. f.entry \in Entry
    BY <2>2, <2>3 DEF FireType
  <2>6. QED
    BY <2>1, <2>2, <2>3, <2>4, <2>5
<1>5. PICK outcome \in IF RateCapped(f, TRUE, tick[p].now) THEN {"rate-capped"}
                       ELSE DeliverOutcomes(p, f) :
        /\ tick' = [tick EXCEPT ![p].fires = Tail(@),
                      ![p].pc = IF Logged(outcome) THEN "append" ELSE "fire",
                      ![p].line = IF Logged(outcome)
                                  THEN <<Line(p, f.entry, outcome, TRUE)>> ELSE <<>>]
        /\ held' = IF outcome = "held" THEN held \cup {f.entry} ELSE held
        /\ sent' = IF outcome = "delivered"
                   THEN Append(sent, [entry |-> f.entry, at |-> tick[p].now,
                                      reason |-> f.reason, logged |-> FALSE])
                   ELSE sent
  BY DEF Deliver
<1>6. /\ outcome \in Outcome \ {"rescheduled"}
      /\ outcome = "delivered" => ~RateCapped(f, TRUE, tick[p].now)
  BY <1>5 DEF DeliverOutcomes, HoldOutcome, Outcome
<1>7. PICK k : k = [tick[p] EXCEPT !.fires = Tail(@),
                      !.pc = IF Logged(outcome) THEN "append" ELSE "fire",
                      !.line = IF Logged(outcome)
                               THEN <<Line(p, f.entry, outcome, TRUE)>> ELSE <<>>]
  OBVIOUS
<1>8. PICK l : l = Line(p, f.entry, outcome, TRUE)
  OBVIOUS
<1>9. /\ l \in LineType /\ l.ts = tick[p].now /\ l.entry = f.entry /\ l.outcome = outcome
      /\ l.pane = TRUE
  BY <1>3, <1>4, <1>6, <1>8 DEF Line, LineType
<1>10. <<l>> \in Seq(LineType) /\ <<>> \in Seq(LineType)
  BY <1>9, Singleton
<1>11. /\ k \in TickType /\ k.now = tick[p].now /\ k.gcLen = tick[p].gcLen
       /\ k.next = tick[p].next /\ k.orphans = tick[p].orphans
       /\ k.fires = Tail(tick[p].fires)
       /\ k.pc = (IF outcome = "held" THEN "fire" ELSE "append")
       /\ k.line = (IF outcome = "held" THEN <<>> ELSE <<l>>)
  BY <1>1, <1>2, <1>4, <1>7, <1>8, <1>10 DEF TickType, Logged
<1>12. tick' = [tick EXCEPT ![p] = k]
  BY <1>2, <1>5, <1>7
<1>13. k.orphans = {}
  BY <1>1, <1>2, <1>11 DEF SweepStands
<1>14. ~InFlight
  <2>1. \A q \in Invoker : q # p => tick[q].pc = "idle"
    BY <1>1, TickAlone DEF Inv
  <2>2. QED
    BY <1>1, <2>1 DEF InFlight
<1>15. CASE outcome # "delivered"
  <2>1. sent' = sent /\ UNCHANGED <<setup, log, sent>>
    BY <1>1, <1>5, <1>15
  <2>2. k.pc = "append" => LineStands(k)'
    <3> SUFFICES ASSUME k.pc = "append" PROVE LineStands(k)'
      OBVIOUS
    <3>1. k.line = <<l>> /\ outcome # "held"
      BY <1>11
    <3>2. LineType' = LineType
      BY <1>1, TypesStay
    <3>3. QED
      BY <1>4, <1>6, <1>9, <1>10, <1>11, <1>13, <1>15, <3>1, <3>2 DEF LineStands
  <2>3. SweepStands(k)'
    BY <1>1, <1>3, <1>11, <2>1, <2>2, FiresLeft
  <2>4. /\ tick' \in [Invoker -> TickType] /\ tick'[p] = k
        /\ \A q \in Invoker : q # p => tick'[q] = tick[q] /\ ~Sweeping(q) /\ ~Sweeping(q)'
        /\ Sweeping(p)' /\ OneAtWork' /\ Sweeps'
    BY <1>1, <1>11, <1>12, <2>3, SweepSteps
  <2>5. held' \subseteq Entry
    BY <1>4, <1>5 DEF Inv, TypeOK
  <2>6. TypeOK'
    <3>1. \A q \in Invoker : tick'[q].gcLen <= Len(log)
      BY <1>1, <1>11, <2>4 DEF Inv, TypeOK
    <3>2. QED
      BY <1>1, <2>1, <2>4, <2>5, <3>1, TypesStay DEF Inv, TypeOK
  <2>7. LinesInOrder' /\ SentInOrder' /\ RepeatsUnlogged' /\ RateBound'
    BY <1>1, <1>3, <2>1, OrdersKept
  <2>8. EditsRecorded' /\ DeathsAccount'
    BY <1>1, <1>3, <1>14, <2>1, EditsKept, DeathsKept DEF Inv, EditsRecorded
  <2>9. WakesCaused'
    <3>1. ASSUME NEW e \in Entry
          PROVE  /\ Cardinality(Wakes(e)') + Waking(k, e) + Turn(k.next[e]) <= edges + crashes
                 /\ Cardinality(Wakes(e)') + Waking(k, e) + Turn(cursor[e]) <= edges + (crashes + 1)
      <4>1. Wakes(e)' = Wakes(e)
        BY <2>1 DEF Wakes
      <4>2. PICK m \in Nat, v \in {0, 1}, w \in {0, 1}, n \in {0, 1}, c \in {0, 1} :
              /\ m = Cardinality(Wakes(e)) /\ v = Waking(k, e) /\ w = Waking(tick[p], e)
              /\ n = Turn(k.next[e]) /\ c = Turn(cursor[e]) /\ v <= w
        BY <1>1, <1>11, WakesFinite, WakingLeft DEF Inv, Turn
      <4>3. m + w + n <= edges + crashes /\ m + w + c <= edges + (crashes + 1)
        BY <1>1, <1>11, <4>2 DEF Inv, WakesCaused
      <4>4. m + v + n <= edges + crashes /\ m + v + c <= edges + (crashes + 1)
        BY <1>3, <4>2, <4>3
      <4>5. QED
        BY <4>1, <4>2, <4>4
    <3>2. QED
      BY <1>1, <2>4, <3>1, SweepWakes
  <2>10. HeldIsDue'
    <3> SUFFICES ASSUME NEW e \in held' \ setup.wakes PROVE now' >= DueAt(e)'
      BY <1>1 DEF HeldIsDue
    <3>1. DueAt(e)' = DueAt(e) /\ DueAt(e) \in Nat /\ now' = now
      BY <1>1, DueStays, AnchorTime DEF Inv
    <3>2. CASE e \in held
      BY <3>1, <3>2 DEF Inv, HeldIsDue
    <3>3. CASE e \notin held
      <4>1. e = f.entry
        BY <1>5, <3>3
      <4>2. DueAt(e) <= tick[p].now
        BY <1>4, <4>1 DEF Rested
      <4>3. tick[p].now \in Nat
        BY <1>3, Times, Typed DEF Inv
      <4>4. DueAt(e) <= now
        BY <1>3, <3>1, <4>2, <4>3
      <4>5. QED
        BY <3>1, <4>4
    <3>4. QED
      BY <3>2, <3>3
  <2>11. QED
    BY <2>4, <2>6, <2>7, <2>8, <2>9, <2>10 DEF Inv
<1>16. CASE outcome = "delivered"
  <2>1. PICK s : s = [entry |-> f.entry, at |-> tick[p].now, reason |-> f.reason, logged |-> FALSE]
    OBVIOUS
  <2>2. /\ s \in SentType /\ s.entry = f.entry /\ s.at = tick[p].now /\ s.reason = f.reason
        /\ ~s.logged /\ sent' = Append(sent, s) /\ held' = held
    BY <1>3, <1>4, <1>5, <1>16, <2>1 DEF SentType, FireType
  <2>3. /\ sent' \in Seq(SentType) /\ Len(sent) \in Nat /\ Len(sent') = Len(sent) + 1
        /\ DOMAIN sent' = DOMAIN sent \cup {Len(sent) + 1} /\ Len(sent) + 1 \notin DOMAIN sent
        /\ \A i \in DOMAIN sent : sent'[i] = sent[i]
        /\ sent'[Len(sent) + 1] = s /\ sent \in Seq(SentType)
    BY <2>2, Typed, Appended DEF Inv
  <2>4. SentInOrder' /\ \A i \in DOMAIN sent' : sent'[i].at <= s.at
    BY <1>1, <1>3, <2>2, OrderGrows
  <2>5. k.pc = "append" /\ k.line = <<l>> /\ k.line[1] = l
    BY <1>11, <1>16
  <2>6. LineStands(k)'
    <3>1. LineType' = LineType
      BY <1>1, TypesStay
    <3>2. sent' # <<>> /\ sent'[Len(sent')] = s
      BY <2>3
    <3>3. k.line \in Seq(LineType) /\ Len(k.line) = 1
      BY <1>10, <2>5
    <3>4. \A i \in DOMAIN k.fires : k.fires[i].entry # l.entry
      BY <1>4, <1>9, <1>11
    <3>5. QED
      BY <1>9, <1>11, <1>13, <1>16, <2>2, <2>5, <3>1, <3>2, <3>3, <3>4 DEF LineStands
  <2>7. SweepStands(k)'
    BY <1>1, <1>11, <2>2, <2>4, <2>6, FiresLeft
  <2>8. /\ tick' \in [Invoker -> TickType] /\ tick'[p] = k
        /\ \A q \in Invoker : q # p => tick'[q] = tick[q] /\ ~Sweeping(q) /\ ~Sweeping(q)'
        /\ Sweeping(p)' /\ OneAtWork' /\ Sweeps' /\ InFlight'
    BY <1>1, <1>9, <1>11, <1>12, <1>16, <2>5, <2>7, SweepSteps
  <2>9. TypeOK'
    <3>1. \A q \in Invoker : tick'[q].gcLen <= Len(log)
      BY <1>1, <1>11, <2>8 DEF Inv, TypeOK
    <3>2. QED
      BY <1>1, <2>2, <2>3, <2>8, <3>1, TypesStay DEF Inv, TypeOK
  <2>10. LinesInOrder'
    BY <1>1 DEF Inv, LinesInOrder
  <2>11. RepeatsUnlogged'
    BY <1>1, <1>4, <2>2, RepeatsGrow
  <2>12. RateBound'
    BY <1>1, <1>3, <1>6, <1>14, <1>16, <2>2, RateGrows
  <2>13. DeathsAccount'
    BY <1>1, <1>14, <2>2, <2>8, DeathsGrow
  <2>14. EditsRecorded'
    BY <1>1, <1>3, EditsKept DEF Inv, EditsRecorded
  <2>15. HeldIsDue'
    <3>1. \A e : DueAt(e)' = DueAt(e)
      BY <1>1, DueStays
    <3>2. QED
      BY <1>1, <2>2, <3>1 DEF Inv, HeldIsDue
  <2>16. WakesCaused'
    <3>1. ASSUME NEW e \in Entry
          PROVE  /\ Cardinality(Wakes(e)') + Waking(k, e) + Turn(k.next[e]) <= edges + crashes
                 /\ Cardinality(Wakes(e)') + Waking(k, e) + Turn(cursor[e]) <= edges + (crashes + 1)
      <4>1. PICK m \in Nat, v \in {0, 1}, w \in {0, 1}, n \in {0, 1}, c \in {0, 1} :
              /\ m = Cardinality(Wakes(e)) /\ v = Waking(k, e) /\ w = Waking(tick[p], e)
              /\ n = Turn(k.next[e]) /\ c = Turn(cursor[e]) /\ v <= w
              /\ s.entry = e /\ s.reason = "wake" => v = 0 /\ w = 1
        BY <1>1, <1>11, <2>2, WakesFinite, WakingLeft DEF Inv, Turn
      <4>2. m + w + n <= edges + crashes /\ m + w + c <= edges + (crashes + 1)
        BY <1>1, <1>11, <4>1 DEF Inv, WakesCaused
      <4>3. PICK m1 \in Nat : m1 = Cardinality(Wakes(e)') /\ m1 + v <= m + w
        <5>1. CASE s.entry = e /\ s.reason = "wake"
          <6>1. /\ Wakes(e)' = Wakes(e) \cup {Len(sent) + 1} /\ Len(sent) + 1 \notin Wakes(e)
                /\ Wakes(e) \in SUBSET DOMAIN sent
            BY <2>3, <5>1 DEF Wakes
          <6>2. Cardinality(Wakes(e)') = m + 1
            BY <2>3, <4>1, <6>1, OneMore
          <6>3. m + 1 \in Nat /\ m + 1 + v <= m + w
            BY <4>1, <5>1
          <6>4. QED
            BY <6>2, <6>3
        <5>2. CASE ~(s.entry = e /\ s.reason = "wake")
          <6>1. Wakes(e)' = Wakes(e)
            BY <2>3, <5>2 DEF Wakes
          <6>2. m + v <= m + w
            BY <4>1
          <6>3. QED
            BY <4>1, <6>1, <6>2
        <5>3. QED
          BY <5>1, <5>2
      <4>4. m1 + v + n <= edges + crashes /\ m1 + v + c <= edges + (crashes + 1)
        BY <1>3, <4>1, <4>2, <4>3
      <4>5. QED
        BY <4>1, <4>3, <4>4
    <3>2. QED
      BY <1>1, <2>8, <3>1, SweepWakes
  <2>17. QED
    BY <2>4, <2>8, <2>9, <2>10, <2>11, <2>12, <2>13, <2>14, <2>15, <2>16 DEF Inv
<1>17. QED
  BY <1>15, <1>16

-----------------------------------------------------------------------------
(* Lines *)

\* The line of a tick is in the order of the lines.
LEMMA LinesGrow ==
  ASSUME Inv, NEW l \in LineType, log' = Append(log, l), UNCHANGED <<setup, now>>,
         l.outcome = "rescheduled"
           \/ (l.ts <= now /\ \A i \in DOMAIN log : log[i].outcome # "rescheduled" => log[i].ts <= l.ts)
  PROVE  LinesInOrder'
<1>1. log \in Seq(LineType) /\ l.ts \in Nat
  BY Typed, Times DEF Inv, LineType
<1> DEFINE n == Len(log)
<1>2. /\ DOMAIN log' = DOMAIN log \cup {n + 1} /\ n \in Nat /\ DOMAIN log = 1 .. n
      /\ \A i \in DOMAIN log : log'[i] = log[i]
      /\ log'[n + 1] = l
  BY <1>1, Appended
<1>3. ASSUME NEW i \in DOMAIN log', log'[i].outcome # "rescheduled"
      PROVE  log'[i].ts <= now
  BY <1>2, <1>3 DEF Inv, LinesInOrder
<1>4. ASSUME NEW i \in DOMAIN log', NEW j \in DOMAIN log', i < j,
             log'[i].outcome # "rescheduled", log'[j].outcome # "rescheduled"
      PROVE  log'[i].ts <= log'[j].ts
  <2>1. i \in DOMAIN log /\ log'[i] = log[i]
    BY <1>2, <1>4
  <2>2. CASE j = n + 1
    BY <1>2, <1>4, <2>1, <2>2
  <2>3. CASE j \in DOMAIN log
    BY <1>2, <1>4, <2>1, <2>3 DEF Inv, LinesInOrder
  <2>4. QED
    BY <1>2, <2>2, <2>3
<1>5. QED
  BY <1>3, <1>4 DEF LinesInOrder

\* A line settles what was held of its entry and moves no other anchor.
LEMMA HeldSettles ==
  ASSUME Inv, NEW l \in LineType, log' = Append(log, l), UNCHANGED <<setup, now>>,
         held' = held \ {l.entry}
  PROVE  HeldIsDue'
<1> SUFFICES ASSUME NEW e \in held' \ setup.wakes PROVE now' >= DueAt(e)'
  BY DEF HeldIsDue
<1>1. l.entry # e /\ log \in Seq(LineType) /\ now >= DueAt(e)
  BY Typed DEF Inv, HeldIsDue
<1>2. Anchor(e)' = Anchor(e)
  BY <1>1, AnchorStays
<1>3. QED
  BY <1>1, <1>2 DEF DueAt

\* The deliveries as a line leaves them: the last one is logged, or none more is.
LEMMA SentMarked ==
  ASSUME Inv, NEW l \in LineType,
         sent' = [i \in DOMAIN sent |->
                    [sent[i] EXCEPT !.logged = @ \/ (i = Len(sent) /\ l.outcome = "delivered")]]
  PROVE  /\ sent' \in Seq(SentType) /\ DOMAIN sent' = DOMAIN sent
         /\ \A i \in DOMAIN sent :
              /\ sent'[i].entry = sent[i].entry /\ sent'[i].at = sent[i].at
              /\ sent'[i].reason = sent[i].reason
              /\ sent'[i].logged <=> sent[i].logged \/ (i = Len(sent) /\ l.outcome = "delivered")
<1>1. sent \in Seq(SentType) /\ Len(sent) \in Nat /\ DOMAIN sent = 1 .. Len(sent)
  BY Typed DEF Inv
<1>2. \A i \in DOMAIN sent : sent[i] \in SentType
  BY <1>1
<1>3. \A i \in DOMAIN sent :
        /\ sent'[i] \in SentType
        /\ sent'[i].entry = sent[i].entry /\ sent'[i].at = sent[i].at
        /\ sent'[i].reason = sent[i].reason
        /\ sent'[i].logged <=> sent[i].logged \/ (i = Len(sent) /\ l.outcome = "delivered")
  BY <1>2 DEF SentType
<1>4. sent' \in Seq(SentType) /\ DOMAIN sent' = DOMAIN sent
  <2>1. DOMAIN sent' = DOMAIN sent /\ sent' = [i \in DOMAIN sent |-> sent'[i]]
    OBVIOUS
  <2>2. sent' \in [1 .. Len(sent) -> SentType]
    BY <1>1, <1>3, <2>1
  <2>3. QED
    BY <1>1, <2>1, <2>2
<1>5. QED
  BY <1>3, <1>4

\* What the line of a tick does to the accounts of the deliveries.
LEMMA DeathsLogged ==
  ASSUME Inv, NEW l \in LineType, log' = Append(log, l), UNCHANGED crashes,
         sent' = [i \in DOMAIN sent |->
                    [sent[i] EXCEPT !.logged = @ \/ (i = Len(sent) /\ l.outcome = "delivered")]],
         InFlight <=> l.outcome = "delivered", ~InFlight',
         l.outcome = "delivered" =>
           l.pane /\ sent # <<>> /\ ~sent[Len(sent)].logged /\ l.ts = sent[Len(sent)].at
  PROVE  DeathsAccount'
<1>1. /\ log \in Seq(LineType) /\ sent \in Seq(SentType) /\ crashes \in Nat
      /\ Len(sent) \in Nat /\ DOMAIN sent = 1 .. Len(sent) /\ Len(log) \in Nat
  BY Typed DEF Inv
<1> DEFINE n == Len(log)
           m == Len(sent)
<1>2. /\ DOMAIN log' = DOMAIN log \cup {n + 1} /\ n + 1 \notin DOMAIN log
      /\ \A i \in DOMAIN log : log'[i] = log[i]
      /\ log'[n + 1] = l
  BY <1>1, Appended
<1>3. /\ DOMAIN sent' = DOMAIN sent
      /\ \A i \in DOMAIN sent :
           /\ sent'[i].at = sent[i].at
           /\ sent'[i].logged <=> sent[i].logged \/ (i = m /\ l.outcome = "delivered")
  BY SentMarked
<1>4. /\ Unlogged \in SUBSET DOMAIN sent /\ \A t : LoggedSince(t) \in SUBSET DOMAIN sent
      /\ \A t : DeliveredSince(t) \in SUBSET DOMAIN log
  BY DEF Unlogged, LoggedSince, DeliveredSince
<1>5. CASE l.outcome = "delivered"
  <2>1. m \in DOMAIN sent /\ ~sent[m].logged /\ l.pane /\ l.ts = sent[m].at
    BY <1>1, <1>5
  <2>2. Unlogged = Unlogged' \cup {m} /\ m \notin Unlogged'
    BY <1>3, <1>5, <2>1 DEF Unlogged
  <2>3. Cardinality(Unlogged) = Cardinality(Unlogged') + 1 /\ Cardinality(Unlogged') \in Nat
    <3>1. Unlogged' \in SUBSET DOMAIN sent
      BY <1>4, <2>2
    <3>2. PICK U \in SUBSET DOMAIN sent : U = Unlogged'
      BY <3>1
    <3>3. m \notin U /\ Unlogged = U \cup {m}
      BY <2>2, <3>2
    <3>4. Cardinality(U \cup {m}) = Cardinality(U) + 1 /\ Cardinality(U) \in Nat
      BY <1>1, <3>3, OneMore
    <3>5. QED
      BY <3>2, <3>3, <3>4
  <2>4. Cardinality(Unlogged) <= crashes + 1
    BY <1>5 DEF Inv, DeathsAccount
  <2>5. Cardinality(Unlogged') <= crashes' + (IF InFlight' THEN 1 ELSE 0)
    BY <1>1, <2>3, <2>4
  <2>6. ASSUME NEW t \in Int
        PROVE  Cardinality(LoggedSince(t)') <= Cardinality(DeliveredSince(t)')
    <3>1. Cardinality(LoggedSince(t)) <= Cardinality(DeliveredSince(t))
      BY DEF Inv, DeathsAccount
    <3>2. CASE sent[m].at >= t
      <4>1. LoggedSince(t)' = LoggedSince(t) \cup {m} /\ m \notin LoggedSince(t)
        BY <1>3, <1>5, <2>1, <3>2 DEF LoggedSince
      <4>2. DeliveredSince(t)' = DeliveredSince(t) \cup {n + 1} /\ n + 1 \notin DeliveredSince(t)
        BY <1>2, <1>5, <2>1, <3>2 DEF DeliveredSince
      <4>3. /\ Cardinality(LoggedSince(t)') = Cardinality(LoggedSince(t)) + 1
            /\ Cardinality(LoggedSince(t)) \in Nat
        BY <1>1, <1>4, <4>1, OneMore
      <4>4. /\ Cardinality(DeliveredSince(t)') = Cardinality(DeliveredSince(t)) + 1
            /\ Cardinality(DeliveredSince(t)) \in Nat
        BY <1>1, <1>4, <4>2, OneMore
      <4>5. QED
        BY <3>1, <4>3, <4>4
    <3>3. CASE ~(sent[m].at >= t)
      <4>1. LoggedSince(t)' = LoggedSince(t)
        BY <1>3, <2>1, <3>3 DEF LoggedSince
      <4>2. DeliveredSince(t)' = DeliveredSince(t)
        BY <1>2, <2>1, <3>3 DEF DeliveredSince
      <4>3. QED
        BY <3>1, <4>1, <4>2
    <3>4. QED
      BY <3>2, <3>3
  <2>7. QED
    BY <2>5, <2>6 DEF DeathsAccount
<1>6. CASE l.outcome # "delivered"
  <2>1. Unlogged' = Unlogged /\ \A t : LoggedSince(t)' = LoggedSince(t)
    BY <1>3, <1>6 DEF Unlogged, LoggedSince
  <2>2. \A t : DeliveredSince(t)' = DeliveredSince(t)
    BY <1>2, <1>6 DEF DeliveredSince
  <2>3. Cardinality(Unlogged) <= crashes + 0
    BY <1>6 DEF Inv, DeathsAccount
  <2>4. Cardinality(Unlogged') <= crashes' + (IF InFlight' THEN 1 ELSE 0)
    BY <2>1, <2>3
  <2>5. QED
    BY <2>1, <2>2, <2>4 DEF Inv, DeathsAccount
<1>7. QED
  BY <1>5, <1>6

LEMMA AppendLineKeeps == ASSUME NEW p \in Invoker PROVE Inv /\ AppendLine(p) => Inv'
<1> SUFFICES ASSUME Inv, AppendLine(p) PROVE Inv'
  OBVIOUS
<1>1. /\ tick[p].pc = "append" /\ tick[p].pc # "idle" /\ Sweeping(p)
      /\ UNCHANGED <<setup, now, resolved, busy, others, edges, present, edits, cursor,
                     lock, edit, crashes>>
      /\ tick' = [tick EXCEPT ![p].pc = "fire", ![p].line = <<>>]
  BY DEF AppendLine, world, Sweeping
<1>2. PICK l : l = tick[p].line[1]
  OBVIOUS
<1>3. /\ log' = Append(log, l)
      /\ sent' = [i \in DOMAIN sent |->
                    [sent[i] EXCEPT !.logged = @ \/ (i = Len(sent) /\ l.outcome = "delivered")]]
      /\ held' = IF l.outcome = "held" THEN held ELSE held \ {l.entry}
  BY <1>2 DEF AppendLine
<1>4. /\ tick \in [Invoker -> TickType] /\ tick[p] \in TickType /\ SweepStands(tick[p])
      /\ LineStands(tick[p]) /\ tick[p].gcLen <= Len(log) /\ tick[p].gcLen \in Nat
  BY <1>1 DEF Inv, TypeOK, Sweeps, SweepStands, TickType
<1>5. /\ l \in LineType /\ l.ts = tick[p].now /\ l.outcome \notin {"rescheduled", "held"}
      /\ l.entry \in Entry
      /\ \A i \in DOMAIN tick[p].fires : tick[p].fires[i].entry # l.entry
      /\ l.entry \in tick[p].orphans => l.outcome \notin Evidence
      /\ l.outcome = "delivered" =>
           /\ l.pane /\ sent # <<>> /\ sent[Len(sent)].entry = l.entry
           /\ sent[Len(sent)].at = tick[p].now /\ ~sent[Len(sent)].logged
  <2>1. l \in LineType
    <3>1. tick[p].line \in Seq(LineType) /\ Len(tick[p].line) = 1
      BY <1>4 DEF LineStands
    <3>2. QED
      BY <1>2, <3>1
  <2>2. QED
    BY <1>2, <1>4, <2>1 DEF LineStands, LineType
<1>6. /\ now \in Time /\ now \in Nat /\ edges \in Nat /\ crashes \in Nat /\ crashes' \in Nat
      /\ tick[p].now \in Nat /\ tick[p].now <= now /\ Time' = Time
      /\ log \in Seq(LineType)
  BY <1>1, <1>4, Typed, Times, TypesStay DEF Inv, SweepStands
<1> DEFINE n == Len(log)
           m == Len(sent)
<1>7. /\ log' \in Seq(LineType) /\ Len(log') = n + 1 /\ n \in Nat
      /\ DOMAIN log' = DOMAIN log \cup {n + 1} /\ DOMAIN log = 1 .. n
      /\ \A i \in DOMAIN log : log'[i] = log[i]
      /\ log'[n + 1] = l
  BY <1>3, <1>5, <1>6, Appended
<1>8. /\ sent' \in Seq(SentType) /\ DOMAIN sent' = DOMAIN sent /\ DOMAIN sent = 1 .. m /\ m \in Nat
      /\ \A i \in DOMAIN sent :
           /\ sent'[i].entry = sent[i].entry /\ sent'[i].at = sent[i].at
           /\ sent'[i].reason = sent[i].reason
           /\ sent'[i].logged <=> sent[i].logged \/ (i = m /\ l.outcome = "delivered")
  BY <1>3, <1>5, SentMarked, Typed DEF Inv
<1>9. PICK k : k = [tick[p] EXCEPT !.pc = "fire", !.line = <<>>]
  OBVIOUS
<1>10. /\ k \in TickType /\ k.pc = "fire" /\ k.now = tick[p].now /\ k.fires = tick[p].fires
       /\ k.gcLen = tick[p].gcLen /\ k.next = tick[p].next /\ k.orphans = tick[p].orphans
  <2>1. <<>> \in Seq(LineType)
    OBVIOUS
  <2>2. QED
    BY <1>4, <1>9, <2>1 DEF TickType
<1>11. tick' = [tick EXCEPT ![p] = k]
  BY <1>1, <1>4, <1>9
<1>12. SweepStands(k)'
  <2>1. \A i \in DOMAIN log' : log'[i].outcome # "rescheduled" => log'[i].ts <= k.now
    BY <1>4, <1>5, <1>6, <1>7, <1>10 DEF SweepStands
  <2>2. \A i \in DOMAIN sent' : sent'[i].at <= k.now
    BY <1>4, <1>8, <1>10 DEF SweepStands
  <2>3. ASSUME NEW i \in DOMAIN k.fires
        PROVE  IF k.fires[i].reason = "schedule" THEN DueAt(k.fires[i].entry)' <= k.now
               ELSE Rested(k.fires[i].entry, k.now)'
    <3>1. PICK e : e = k.fires[i].entry /\ l.entry # e
      BY <1>5, <1>10
    <3>2. Anchor(e)' = Anchor(e) /\ Own(e, Len(log))' = Own(e, Len(log))
      BY <1>3, <1>5, <1>6, <3>1, AnchorStays
    <3>3. DueAt(e)' = DueAt(e) /\ Rested(e, k.now)' = Rested(e, k.now)
      BY <1>1, <3>2 DEF DueAt, Rested
    <3>4. IF k.fires[i].reason = "schedule" THEN DueAt(e) <= k.now ELSE Rested(e, k.now)
      BY <1>4, <1>10, <3>1 DEF SweepStands
    <3>5. DueAt(k.fires[i].entry)' = DueAt(e) /\ Rested(k.fires[i].entry, k.now)' = Rested(e, k.now)
      BY <3>1, <3>3 DEF DueAt, Rested, Anchor, Own
    <3>6. QED
      BY <3>1, <3>4, <3>5
  <2>4. ASSUME NEW e \in k.orphans, NEW i \in k.gcLen + 1 .. Len(log'), log'[i].entry = e
        PROVE  log'[i].outcome \notin Evidence
    <3>1. i \in DOMAIN log \/ i = n + 1
      BY <1>4, <1>7, <1>10
    <3>2. CASE i \in DOMAIN log
      <4>1. i \in tick[p].gcLen + 1 .. Len(log) /\ log[i].entry = e
        BY <1>4, <1>7, <1>10, <2>4, <3>2
      <4>2. QED
        BY <1>4, <1>7, <1>10, <3>2, <4>1 DEF SweepStands
    <3>3. CASE i = n + 1
      BY <1>5, <1>7, <1>10, <2>4, <3>3
    <3>4. QED
      BY <3>1, <3>2, <3>3
  <2>5. /\ k.now \in Time' /\ k.now <= now' /\ (k.fires # <<>> => k.orphans = {})
        /\ \A i, j \in DOMAIN k.fires : i # j => k.fires[i].entry # k.fires[j].entry
    BY <1>1, <1>4, <1>6, <1>10 DEF SweepStands
  <2>6. setup' = setup /\ k.pc # "append"
    BY <1>1, <1>10
  <2>7. QED
    BY <2>1, <2>2, <2>3, <2>4, <2>5, <2>6 DEF SweepStands
<1>13. /\ tick' \in [Invoker -> TickType] /\ tick'[p] = k
       /\ \A q \in Invoker : q # p => tick'[q] = tick[q] /\ ~Sweeping(q) /\ ~Sweeping(q)'
       /\ Sweeping(p)' /\ OneAtWork' /\ Sweeps' /\ ~InFlight'
       /\ InFlight <=> l.outcome = "delivered"
  BY <1>1, <1>2, <1>10, <1>11, <1>12, SweepSteps
<1>14. held' = held \ {l.entry} /\ held' \subseteq Entry
  BY <1>3, <1>5 DEF Inv, TypeOK
<1>15. TypeOK'
  <2>1. \A q \in Invoker : tick'[q].gcLen <= Len(log')
    <3>1. \A q \in Invoker : tick[q].gcLen <= Len(log) /\ tick[q].gcLen \in Nat
      BY DEF Inv, TypeOK, TickType
    <3>2. \A q \in Invoker : tick'[q].gcLen = tick[q].gcLen
      BY <1>10, <1>13
    <3>3. QED
      BY <1>7, <3>1, <3>2
  <2>2. QED
    BY <1>1, <1>7, <1>8, <1>13, <1>14, <2>1, TypesStay DEF Inv, TypeOK
<1>16. LinesInOrder'
  <2>1. l.ts <= now /\ \A i \in DOMAIN log : log[i].outcome # "rescheduled" => log[i].ts <= l.ts
    BY <1>4, <1>5, <1>6 DEF SweepStands
  <2>2. QED
    BY <1>1, <1>3, <1>5, <2>1, LinesGrow
<1>17. SentInOrder'
  <2>1. ASSUME NEW i \in DOMAIN sent', sent'[i].logged
        PROVE  \E j \in DOMAIN log' : /\ log'[j].entry = sent'[i].entry /\ log'[j].ts = sent'[i].at
                                      /\ log'[j].outcome # "rescheduled"
    <3>1. CASE sent[i].logged
      <4>1. PICK j \in DOMAIN log : /\ log[j].entry = sent[i].entry /\ log[j].ts = sent[i].at
                                    /\ log[j].outcome # "rescheduled"
        BY <1>8, <3>1 DEF Inv, SentInOrder
      <4>2. j \in DOMAIN log' /\ log'[j] = log[j]
        BY <1>7
      <4>3. QED
        BY <1>8, <4>1, <4>2
    <3>2. CASE ~sent[i].logged
      <4>1. i = m /\ l.outcome = "delivered"
        BY <1>8, <2>1, <3>2
      <4>2. l.entry = sent'[i].entry /\ l.ts = sent'[i].at /\ l.outcome # "rescheduled"
        BY <1>5, <1>8, <4>1
      <4>3. n + 1 \in DOMAIN log' /\ log'[n + 1] = l
        BY <1>7
      <4>4. QED
        BY <4>2, <4>3
    <3>3. QED
      BY <3>1, <3>2
  <2>2. /\ \A i \in DOMAIN sent' : sent'[i].at <= now'
        /\ \A i, j \in DOMAIN sent' : i < j => sent'[i].at <= sent'[j].at
    BY <1>1, <1>8 DEF Inv, SentInOrder
  <2>3. QED
    BY <2>1, <2>2 DEF SentInOrder
<1>18. RepeatsUnlogged'
  <2> SUFFICES ASSUME NEW i \in DOMAIN sent', NEW j \in 1 .. i - 1,
                      edits[sent'[i].entry] = 0,
                      sent'[i].entry = sent'[j].entry,
                      sent'[i].at - sent'[j].at < Gap(sent'[i].reason)
               PROVE  ~sent'[j].logged
    BY <1>1 DEF RepeatsUnlogged, Gap
  <2>1. i \in DOMAIN sent /\ j \in DOMAIN sent /\ j # m
    <3>1. i \in 1 .. m /\ m \in Nat
      BY <1>8
    <3> HIDE DEF m
    <3>2. j \in 1 .. m /\ j # m
      BY <3>1
    <3>3. QED
      BY <1>8, <3>1, <3>2
  <2>2. ~sent[j].logged
    BY <1>8, <2>1 DEF Inv, RepeatsUnlogged
  <2>3. QED
    BY <1>8, <2>1, <2>2
<1>19. EditsRecorded'
  <2>1. \A e : Resets(e)' = Resets(e)
    BY <1>5, <1>7 DEF Resets
  <2>2. \A d \in Editor : \A e \in Entry : Appending(d, e)' <=> Appending(d, e)
    BY <1>1 DEF Appending
  <2>3. ASSUME NEW e \in Entry
        PROVE  edits'[e] <= Cardinality(Resets(e)') + crashes'
                             + (IF \E d \in Editor : Appending(d, e)' THEN 1 ELSE 0)
    <3>1. edits[e] <= Cardinality(Resets(e)) + crashes
                        + (IF \E d \in Editor : Appending(d, e) THEN 1 ELSE 0)
      BY DEF Inv, EditsRecorded
    <3>2. (IF \E d \in Editor : Appending(d, e)' THEN 1 ELSE 0)
            = (IF \E d \in Editor : Appending(d, e) THEN 1 ELSE 0)
      BY <2>2
    <3>3. edits'[e] = edits[e] /\ crashes' = crashes /\ Resets(e)' = Resets(e)
      BY <1>1, <2>1
    <3>4. QED
      BY <3>1, <3>2, <3>3
  <2>4. /\ \A d \in Editor : edit'[d].pc # "idle" => edit'[d].entry \in Entry /\ edit'[d].now \in Time'
        /\ \A d \in Editor : \A e \in Entry : Appending(d, e)' => edits'[e] > 0
        /\ \A e \in Entry : edits'[e] = 0 => Resets(e)' = {}
    BY <1>1, <1>6, <2>1, <2>2 DEF Inv, EditsRecorded
  <2>5. QED
    BY <2>3, <2>4 DEF EditsRecorded
<1>20. DeathsAccount'
  <2>1. l.outcome = "delivered" =>
          l.pane /\ sent # <<>> /\ ~sent[Len(sent)].logged /\ l.ts = sent[Len(sent)].at
    BY <1>5
  <2>2. QED
    BY <1>1, <1>3, <1>5, <1>13, <2>1, DeathsLogged
<1>21. RateBound'
  <2>1. ASSUME NEW i \in DOMAIN sent
        PROVE  {j \in DOMAIN sent' : sent'[j].at <= sent'[i].at /\ sent'[j].at >= sent'[i].at - RateWindow}
             = {j \in DOMAIN sent : sent[j].at <= sent[i].at /\ sent[j].at >= sent[i].at - RateWindow}
    BY <1>8
  <2>2. QED
    BY <1>1, <1>8, <2>1 DEF Inv, RateBound
<1>22. WakesCaused'
  <2>1. ASSUME NEW e \in Entry
        PROVE  /\ Cardinality(Wakes(e)') + Waking(k, e) + Turn(k.next[e]) <= edges + crashes
               /\ Cardinality(Wakes(e)') + Waking(k, e) + Turn(cursor[e]) <= edges + (crashes + 1)
    <3>1. Wakes(e)' = Wakes(e) /\ Waking(k, e) = Waking(tick[p], e) /\ k.next = tick[p].next
      BY <1>8, <1>10 DEF Wakes, Waking
    <3>2. /\ Cardinality(Wakes(e)) + Waking(tick[p], e) + Turn(tick[p].next[e]) <= edges + crashes
          /\ Cardinality(Wakes(e)) + Waking(tick[p], e) + Turn(cursor[e]) <= edges + (crashes + 1)
      BY <1>1 DEF Inv, WakesCaused
    <3>3. QED
      BY <3>1, <3>2
  <2>2. QED
    BY <1>1, <1>13, <2>1, SweepWakes
<1>23. HeldIsDue'
  BY <1>1, <1>3, <1>5, <1>14, HeldSettles
<1>24. QED
  BY <1>13, <1>15, <1>16, <1>17, <1>18, <1>19, <1>20, <1>21, <1>22, <1>23 DEF Inv

\* The line that resets an anchor is appended while no tick is at work.
LEMMA EditAppendKeeps == ASSUME NEW d \in Editor PROVE Inv /\ EditAppend(d) => Inv'
<1> SUFFICES ASSUME Inv, EditAppend(d) PROVE Inv'
  OBVIOUS
<1>1. /\ UNCHANGED <<setup, now, resolved, busy, others, edges, present, edits, cursor, tick,
                     sent, crashes>>
      /\ edit[d].pc = "append" /\ edit' = [edit EXCEPT ![d] = NoEdit]
  BY DEF EditAppend, world
<1> DEFINE n == Len(log)
<1>0. PICK e : e = edit[d].entry
  OBVIOUS
<1>2. PICK l : l = [ts |-> edit[d].now, entry |-> e, outcome |-> "rescheduled", pane |-> FALSE]
  OBVIOUS
<1>3. log' = Append(log, l) /\ held' = held \ {l.entry} /\ l.entry = e /\ l.outcome = "rescheduled"
  BY <1>0, <1>2 DEF EditAppend
<1>4. /\ edit[d].now \in Time /\ e \in Entry /\ now \in Time /\ now \in Nat /\ edges \in Nat
      /\ crashes \in Nat /\ crashes' \in Nat /\ crashes' >= crashes /\ Time' = Time
      /\ log \in Seq(LineType) /\ edits \in [Entry -> Nat]
  BY <1>0, <1>1, Typed, Times, TypesStay DEF Inv, TypeOK, EditsRecorded
<1>5. l \in LineType
  BY <1>2, <1>4 DEF LineType, Outcome
<1>6. /\ log' \in Seq(LineType) /\ Len(log') = n + 1 /\ n \in Nat
      /\ DOMAIN log' = DOMAIN log \cup {n + 1} /\ n + 1 \notin DOMAIN log
      /\ \A i \in DOMAIN log : log'[i] = log[i]
      /\ log'[n + 1] = l
  BY <1>3, <1>4, <1>5, Appended
<1>7. /\ lock = d /\ \A p \in Invoker : tick[p].pc = "idle" /\ ~Sweeping(p)
      /\ \A c \in Editor : c # d => edit[c].pc \notin {"save", "append"}
  BY <1>1, EditAlone DEF Inv
<1>8. lock' = None
  BY <1>7 DEF EditAppend
<1>9. /\ edit' \in [Editor -> EditType] /\ edit'[d] = NoEdit
      /\ \A c \in Editor : c # d => edit'[c] = edit[c]
  BY <1>1, NoEditType, EditMoves DEF Inv
<1>10. \A p \in Invoker : ~Sweeping(p)' /\ tick'[p].pc = "idle"
  BY <1>1, <1>7 DEF Sweeping
<1>11. OneAtWork' /\ Sweeps'
  BY <1>7, <1>9, <1>10, NoEditType DEF OneAtWork, Sweeps
<1>12. TypeOK'
  <2>1. \A q \in Invoker : tick'[q].gcLen <= Len(log')
    <3>1. \A q \in Invoker : tick[q].gcLen <= Len(log) /\ tick[q].gcLen \in Nat
      BY DEF Inv, TypeOK, TickType
    <3>2. QED
      BY <1>1, <1>6, <3>1
  <2>2. held' \subseteq Entry
    BY <1>3 DEF Inv, TypeOK
  <2>3. QED
    BY <1>1, <1>6, <1>8, <1>9, <2>1, <2>2, TypesStay DEF Inv, TypeOK
<1>13. LinesInOrder'
  BY <1>1, <1>3, <1>5, LinesGrow
<1>14. SentInOrder'
  <2>1. ASSUME NEW i \in DOMAIN sent, sent[i].logged
        PROVE  \E j \in DOMAIN log' : /\ log'[j].entry = sent[i].entry /\ log'[j].ts = sent[i].at
                                      /\ log'[j].outcome # "rescheduled"
    <3>1. PICK j \in DOMAIN log : /\ log[j].entry = sent[i].entry /\ log[j].ts = sent[i].at
                                  /\ log[j].outcome # "rescheduled"
      BY <2>1 DEF Inv, SentInOrder
    <3>2. j \in DOMAIN log' /\ log'[j] = log[j]
      BY <1>6
    <3>3. QED
      BY <3>1, <3>2
  <2>2. QED
    BY <1>1, <2>1 DEF Inv, SentInOrder
<1>15. RepeatsUnlogged' /\ RateBound'
  BY <1>1 DEF Inv, RepeatsUnlogged, Gap, RateBound
<1>16. EditsRecorded'
  <2>1. \A x \in Entry : x # e => Resets(x)' = Resets(x)
    BY <1>3, <1>6 DEF Resets
  <2>2. Resets(e)' = Resets(e) \cup {n + 1} /\ n + 1 \notin Resets(e)
    BY <1>3, <1>6 DEF Resets
  <2>3. Cardinality(Resets(e)') = Cardinality(Resets(e)) + 1
    BY <1>4, <2>2, ResetsFinite, OneMore DEF Inv
  <2>4. \A c \in Editor : \A x \in Entry : ~Appending(c, x)'
    BY <1>7, <1>9, NoEditType DEF Appending
  <2>5. \A c \in Editor : \A x \in Entry : Appending(c, x) <=> c = d /\ x = e
    BY <1>0, <1>1, <1>7 DEF Appending
  <2>6. ASSUME NEW x \in Entry
        PROVE  edits'[x] <= Cardinality(Resets(x)') + crashes'
                             + (IF \E c \in Editor : Appending(c, x)' THEN 1 ELSE 0)
    <3>1. (IF \E c \in Editor : Appending(c, x)' THEN 1 ELSE 0) = 0
      BY <2>4
    <3>2. (IF \E c \in Editor : Appending(c, x) THEN 1 ELSE 0) = IF x = e THEN 1 ELSE 0
      BY <2>5
    <3>3. edits[x] <= Cardinality(Resets(x)) + crashes + (IF x = e THEN 1 ELSE 0)
      BY <3>2 DEF Inv, EditsRecorded
    <3>4. PICK r \in Nat, r1 \in Nat :
            /\ r = Cardinality(Resets(x)) /\ r1 = Cardinality(Resets(x)')
            /\ r1 = r + (IF x = e THEN 1 ELSE 0)
      <4>1. Cardinality(Resets(x)) \in Nat
        BY ResetsFinite DEF Inv
      <4>2. CASE x = e
        <5>1. Cardinality(Resets(x)') = Cardinality(Resets(x)) + 1
          BY <2>3, <4>2
        <5>2. QED
          BY <4>1, <4>2, <5>1
      <4>3. CASE x # e
        BY <2>1, <4>1, <4>3
      <4>4. QED
        BY <4>2, <4>3
    <3>5. edits'[x] <= r1 + crashes + 0
      BY <1>1, <1>4, <3>3, <3>4
    <3>6. QED
      BY <1>1, <3>1, <3>4, <3>5
  <2>7. \A c \in Editor : edit'[c].pc # "idle" => edit'[c].entry \in Entry /\ edit'[c].now \in Time'
    BY <1>4, <1>9, NoEditType DEF Inv, EditsRecorded
  <2>8. \A x \in Entry : edits'[x] = 0 => Resets(x)' = {}
    <3>1. edits[e] > 0
      BY <1>1, <1>4, <2>5 DEF Inv, EditsRecorded
    <3>2. QED
      BY <1>1, <1>4, <2>1, <3>1 DEF Inv, EditsRecorded
  <2>9. QED
    BY <2>4, <2>6, <2>7, <2>8 DEF EditsRecorded
<1>17. DeathsAccount'
  <2>1. ~InFlight /\ ~InFlight'
    BY <1>7, <1>10 DEF InFlight
  <2>2. Unlogged' = Unlogged /\ \A t : LoggedSince(t)' = LoggedSince(t)
    BY <1>1 DEF Unlogged, LoggedSince
  <2>3. \A t : DeliveredSince(t)' = DeliveredSince(t)
    BY <1>3, <1>6 DEF DeliveredSince
  <2>4. Cardinality(Unlogged) <= crashes + 0
    BY <2>1 DEF Inv, DeathsAccount
  <2>5. Cardinality(Unlogged') <= crashes' + (IF InFlight' THEN 1 ELSE 0)
    BY <1>1, <2>1, <2>2, <2>4
  <2>6. QED
    BY <2>2, <2>3, <2>5 DEF Inv, DeathsAccount
<1>18. WakesCaused'
  <2>1. \A seen : Turn(seen)' = Turn(seen) /\ Turn(seen) \in Nat
    BY <1>1 DEF Turn
  <2>2. \A seen : Turn(seen)' <= Turn(seen)
    BY <2>1
  <2>3. edges' \in Nat /\ edges' >= edges
    BY <1>1, <1>4
  <2>4. QED
    BY <1>1, <1>4, <1>7, <1>10, <2>2, <2>3, WakesKept
<1>19. HeldIsDue'
  BY <1>1, <1>3, <1>5, HeldSettles
<1>20. QED
  BY <1>11, <1>12, <1>13, <1>14, <1>15, <1>16, <1>17, <1>18, <1>19 DEF Inv

-----------------------------------------------------------------------------
(* The invariant *)

LEMMA NextInv == Inv /\ [Next]_vars => Inv'
<1> SUFFICES ASSUME Inv, [Next]_vars PROVE Inv'
  OBVIOUS
<1>1. CASE UNCHANGED vars
  <2>1. UNCHANGED <<setup, now, resolved, busy, others, edges, files, lock, tick, edit, history,
                    crashes>>
    BY <1>1 DEF vars, world
  <2>2. \A seen : Turn(seen)' = Turn(seen) /\ Turn(seen) \in Nat
    BY <2>1 DEF Turn
  <2>3. \A seen : Turn(seen)' <= Turn(seen)
    BY <2>2
  <2>4. /\ now' \in Time /\ now' >= now /\ resolved' \in BOOLEAN /\ busy' \in BOOLEAN
        /\ others' \in AgentState /\ edges' \in 0 .. setup.maxEdge /\ edges' >= edges
    <3>1. now \in Time /\ now \in Nat /\ edges \in Nat
      BY Typed, Times DEF Inv
    <3>2. QED
      BY <2>1, <3>1 DEF Inv, TypeOK
  <2>5. QED
    BY <2>1, <2>3, <2>4, WorldKeeps
<1>2. CASE Next
  <2>0. setup.invokers \subseteq Invoker /\ setup.editors \subseteq Editor /\ setup.entries \subseteq Entry
    BY SetupFacts DEF Inv, TypeOK
  <2>1. CASE Advance \/ FlipTarget \/ FlipBusy \/ FlipOthers
    BY <2>1, AdvanceKeeps, FlipKeeps, FlipOthersKeeps
  <2>2. ASSUME NEW p \in setup.invokers,
               \/ Lock(p) \/ Evaluate(p) \/ Deliver(p) \/ Dispose(p) \/ AppendLine(p)
               \/ Finish(p) \/ CrashTick(p)
        PROVE  Inv'
    BY <2>0, <2>2, LockKeeps, EvaluateKeeps, DeliverKeeps, DisposeKeeps, AppendLineKeeps,
       FinishKeeps, CrashTickKeeps
  <2>3. ASSUME NEW p \in setup.invokers, NEW e \in setup.entries, Expire(p, e)
        PROVE  Inv'
    BY <2>0, <2>3, ExpireKeeps
  <2>4. ASSUME NEW d \in setup.editors, EditSave(d) \/ EditAppend(d) \/ CrashEdit(d)
        PROVE  Inv'
    BY <2>0, <2>4, EditSaveKeeps, EditAppendKeeps, CrashEditKeeps
  <2>5. ASSUME NEW d \in setup.editors, NEW e \in setup.entries, EditStart(d, e)
        PROVE  Inv'
    BY <2>0, <2>5, EditBeginKeeps
  <2>6. ASSUME NEW d \in setup.editors, EditLock(d) \/ EditGivesUp(d)
        PROVE  Inv'
    <3>1. edit[d].pc = "lock"
      BY <2>6 DEF EditLock, EditGivesUp
    <3>2. edit[d].entry \in Entry
      BY <2>0, <3>1 DEF Inv, EditsRecorded
    <3>3. QED
      BY <2>0, <2>6, <3>2, EditBeginKeeps
  <2>7. QED
    BY <1>2, <2>1, <2>2, <2>3, <2>4, <2>5, <2>6 DEF Next
<1>3. QED
  BY <1>1, <1>2

-----------------------------------------------------------------------------
(* What the clock promises *)

\* The invariant holds in every behaviour.
THEOREM TickInvariant == Spec => []Inv
BY InitInv, NextInv, PTL DEF Spec

\* Every reachable state has the types of the model.
THEOREM TickTypes == Spec => []TypeOK
<1>1. Inv => TypeOK
  BY DEF Inv
<1>2. QED
  BY <1>1, TickInvariant, PTL

\* The cap of a pane bounds what enters it in any window, over all entries and
\* within one tick; only deliveries whose line a death lost go uncounted.
THEOREM RateBoundAlways == Spec => []RateBound
<1>1. Inv => RateBound
  BY DEF Inv
<1>2. QED
  BY <1>1, TickInvariant, PTL

\* An entry wakes no more often than agents stopped, and once more for each death.
THEOREM WakePerEdgeAlways == Spec => []WakePerEdge
<1>1. ASSUME Inv PROVE WakePerEdge
  <2> SUFFICES ASSUME NEW e \in Entry
               PROVE  Cardinality(Wakes(e)) <= edges + crashes
    BY DEF WakePerEdge, Wakes
  <2>1. Cardinality(Wakes(e)) \in Nat /\ edges \in Nat /\ crashes \in Nat
    BY <1>1, WakesFinite, Typed DEF Inv
  <2>2. CASE \A p \in Invoker : ~Sweeping(p)
    <3>1. PICK c \in {0, 1} : c = Turn(cursor[e])
      BY DEF Turn
    <3>2. Cardinality(Wakes(e)) + c <= edges + crashes
      BY <1>1, <2>2, <3>1 DEF Inv, WakesCaused
    <3>3. QED
      BY <2>1, <3>2
  <2>3. ASSUME NEW p \in Invoker, Sweeping(p)
        PROVE  Cardinality(Wakes(e)) <= edges + crashes
    <3>1. PICK w \in {0, 1}, c \in {0, 1} : w = Waking(tick[p], e) /\ c = Turn(tick[p].next[e])
      BY DEF Turn, Waking
    <3>2. Cardinality(Wakes(e)) + w + c <= edges + crashes
      BY <1>1, <2>3, <3>1 DEF Inv, WakesCaused
    <3>3. QED
      BY <2>1, <3>2
  <2>4. QED
    BY <2>2, <2>3
<1>2. QED
  BY <1>1, TickInvariant, PTL

\* Each delivery that comes too early follows another one whose line a death lost,
\* and no two of them the same one.
THEOREM RestartWorstCaseAlways == Spec => []RestartWorstCase
<1>1. ASSUME Inv PROVE RestartWorstCase
  <2> DEFINE again == {i \in DOMAIN sent : /\ sent[i].reason = "schedule"
                                           /\ edits[sent[i].entry] = 0
                                           /\ \E j \in 1 .. i - 1 :
                                                /\ sent[i].entry = sent[j].entry
                                                /\ sent[i].at - sent[j].at < setup.interval}
             earlier(i) == {j \in 1 .. i - 1 : sent[j].entry = sent[i].entry}
             before == [i \in again |-> Latest(earlier(i))]
             lost == IF InFlight THEN Unlogged \ {Len(sent)} ELSE Unlogged
  <2>1. /\ sent \in Seq(SentType) /\ Len(sent) \in Nat /\ DOMAIN sent = 1 .. Len(sent)
        /\ crashes \in Nat /\ setup.interval \in Nat
        /\ \A i \in DOMAIN sent : sent[i].at \in Nat
    BY <1>1, Typed, Times, SetupFacts DEF Inv
  <2>2. ASSUME NEW i \in again
        PROVE  /\ before[i] \in DOMAIN sent /\ before[i] < i /\ i \in DOMAIN sent
               /\ sent[before[i]].entry = sent[i].entry
               /\ \A j \in DOMAIN sent : j < i /\ sent[j].entry = sent[i].entry => j <= before[i]
               /\ ~sent[before[i]].logged
    <3>1. PICK j \in 1 .. i - 1 : /\ sent[i].entry = sent[j].entry
                                  /\ sent[i].at - sent[j].at < setup.interval
      OBVIOUS
    <3>2. /\ i \in DOMAIN sent /\ i \in Nat /\ i - 1 \in Nat /\ earlier(i) \in SUBSET (1 .. i - 1)
          /\ j \in earlier(i) /\ j \in DOMAIN sent
      BY <2>1, <3>1
    <3>3. PICK b \in earlier(i) : b = Latest(earlier(i)) /\ \A x \in earlier(i) : x <= b
      <4> HIDE DEF earlier
      <4> QED BY <3>2, LatestIs
    <3>4. before[i] = b
      BY <3>3
    <3>5. b \in DOMAIN sent /\ b < i /\ b \in 1 .. i - 1 /\ sent[b].entry = sent[i].entry
      BY <2>1, <3>2, <3>3
    <3>6. \A x \in DOMAIN sent : x < i /\ sent[x].entry = sent[i].entry => x <= b
      BY <2>1, <3>2, <3>3
    <3>7. sent[j].at <= sent[b].at
      <4>1. j <= b
        BY <3>2, <3>3
      <4>2. CASE j = b
        BY <2>1, <3>2, <4>2
      <4>3. CASE j # b
        <5>1. j < b
          BY <2>1, <3>2, <3>5, <4>1, <4>3
        <5>2. QED
          BY <1>1, <3>2, <3>5, <5>1 DEF Inv, SentInOrder
      <4>4. QED
        BY <4>2, <4>3
    <3>8. sent[i].at - sent[b].at < setup.interval
      BY <2>1, <3>1, <3>2, <3>5, <3>7
    <3>9. ~sent[b].logged
      BY <1>1, <3>2, <3>5, <3>8 DEF Inv, RepeatsUnlogged, Gap
    <3>10. QED
      BY <3>2, <3>4, <3>5, <3>6, <3>9
  <2> HIDE DEF before
  <2>3. before \in Injection(again, lost)
    <3>1. \A i \in again : before[i] \in lost
      <4>1. \A i \in again : before[i] \in Unlogged /\ before[i] # Len(sent)
        BY <2>1, <2>2 DEF Unlogged
      <4>2. QED
        BY <4>1
    <3>2. ASSUME NEW i \in again, NEW j \in again, i < j PROVE before[i] # before[j]
      <4>1. CASE sent[i].entry = sent[j].entry
        <5>1. i <= before[j] /\ before[i] < i
          BY <2>2, <3>2, <4>1
        <5>2. QED
          BY <2>1, <2>2, <5>1
      <4>2. CASE sent[i].entry # sent[j].entry
        BY <2>2, <4>2
      <4>3. QED
        BY <4>1, <4>2
    <3>3. \A i, j \in again : i < j \/ j < i \/ i = j
      BY <2>1
    <3>4. \A i, j \in again : before[i] = before[j] => i = j
      BY <3>2, <3>3
    <3>5. before \in [again -> lost]
      BY <3>1 DEF before
    <3>6. QED
      BY <3>4, <3>5 DEF Injection, IsInjective
  <2>4. IsFiniteSet(lost) /\ Cardinality(lost) <= crashes
    <3>1. Unlogged \in SUBSET DOMAIN sent
      BY DEF Unlogged
    <3>2. IsFiniteSet(Unlogged) /\ Cardinality(Unlogged) \in Nat
      BY <2>1, <3>1, Positions
    <3>3. CASE InFlight
      <4>1. PICK p \in Invoker : tick[p].pc = "append" /\ tick[p].line[1].outcome = "delivered"
        BY <3>3 DEF InFlight
      <4>2. LineStands(tick[p])
        BY <1>1, <4>1 DEF Inv, Sweeps, Sweeping, SweepStands
      <4>3. sent # <<>> /\ ~sent[Len(sent)].logged
        BY <4>1, <4>2 DEF LineStands
      <4>4. Len(sent) \in Unlogged
        BY <2>1, <4>3 DEF Unlogged
      <4>5. /\ IsFiniteSet(Unlogged \ {Len(sent)})
            /\ Cardinality(Unlogged \ {Len(sent)}) = Cardinality(Unlogged) - 1
        BY <3>2, <4>4, FS_RemoveElement
      <4>6. Cardinality(Unlogged) <= crashes + 1
        BY <1>1, <3>3 DEF Inv, DeathsAccount
      <4>7. QED
        BY <2>1, <3>2, <3>3, <4>5, <4>6
    <3>4. CASE ~InFlight
      <4>1. Cardinality(Unlogged) <= crashes + 0
        BY <1>1, <3>4 DEF Inv, DeathsAccount
      <4>2. QED
        BY <2>1, <3>2, <3>4, <4>1
    <3>5. QED
      BY <3>3, <3>4
  <2> HIDE DEF lost, again
  <2>5. IsFiniteSet(again) /\ Cardinality(again) <= Cardinality(lost)
    BY <2>3, <2>4, FS_Injection
  <2>6. Cardinality(again) <= crashes
    BY <2>1, <2>4, <2>5, FS_CardinalityType
  <2>7. QED
    BY <2>6 DEF RestartWorstCase, again
<1>2. QED
  BY <1>1, TickInvariant, PTL

\* Only its evaluation takes a sweep to its fires.
LEMMA EvaluatesBy ==
  ASSUME Inv, [Next]_vars, NEW p \in Invoker, Evaluates(p)
  PROVE  Evaluate(p)
<1>1. tick[p].pc = "evaluate" /\ tick'[p].pc = "fire" /\ tick' # tick /\ tick \in [Invoker -> TickType]
  BY DEF Evaluates, Inv, TypeOK
<1>2. setup.invokers \subseteq Invoker
  BY SetupFacts DEF Inv, TypeOK
<1>3. ASSUME NEW q \in setup.invokers,
             \/ Lock(q) \/ Deliver(q) \/ Dispose(q) \/ AppendLine(q)
             \/ Finish(q) \/ CrashTick(q) \/ \E e \in setup.entries : Expire(q, e)
      PROVE  FALSE
  <2>1. CASE q = p
    <3>1. ~Lock(q) /\ ~Deliver(q) /\ ~Dispose(q) /\ ~AppendLine(q) /\ ~Finish(q)
          /\ \A e : ~Expire(q, e)
      BY <1>1, <2>1 DEF Lock, Deliver, Dispose, AppendLine, Finish, Expire, Fired
    <3>2. CASE CrashTick(q)
      <4>1. tick'[p].pc = "idle"
        BY <1>1, <1>2, <2>1, <3>2 DEF CrashTick, NoTick
      <4>2. QED
        BY <1>1, <4>1
    <3>3. QED
      BY <1>3, <3>1, <3>2
  <2>2. CASE q # p
    <3>1. tick[q].pc = "idle"
      BY <1>1, <1>2, <2>2, TickAlone DEF Inv
    <3>2. CASE Lock(q)
      <4>1. tick'[p] = tick[p]
        BY <1>1, <1>2, <2>2, <3>2 DEF Lock
      <4>2. QED
        BY <1>1, <4>1
    <3>3. CASE ~Lock(q)
      BY <1>3, <3>1, <3>3 DEF Deliver, Dispose, AppendLine, Finish, CrashTick, Expire, Fired
    <3>4. QED
      BY <3>2, <3>3
  <2>3. QED
    BY <2>1, <2>2
<1>4. ~UNCHANGED vars
  BY <1>1 DEF vars
<1>5. ~(Advance \/ FlipTarget \/ FlipBusy \/ FlipOthers)
  BY <1>1 DEF Advance, FlipTarget, FlipBusy, FlipOthers
<1>6. ASSUME NEW d \in setup.editors,
             \/ EditLock(d) \/ EditGivesUp(d) \/ EditSave(d) \/ EditAppend(d) \/ CrashEdit(d)
             \/ \E e \in setup.entries : EditStart(d, e)
      PROVE  FALSE
  BY <1>1, <1>6 DEF EditLock, EditGivesUp, EditSave, EditAppend, CrashEdit, EditStart
<1>7. PICK q \in setup.invokers : Evaluate(q)
  BY <1>3, <1>4, <1>5, <1>6 DEF Next
<1>8. q = p
  <2>1. tick[q].pc = "evaluate"
    BY <1>7 DEF Evaluate
  <2>2. QED
    BY <1>1, <1>2, <2>1, TickAlone DEF Inv
<1>9. QED
  BY <1>7, <1>8

\* No tick evaluates an edited schedule without the line that resets its anchor,
\* unless the editor died between the two.
THEOREM EditVisibleAlways == Spec => EditVisible
<1> DEFINE Seen == \A p \in Invoker : Evaluates(p) =>
                     \A e \in Entry :
                       Cardinality({i \in Own(e, Len(log)) : log[i].outcome = "rescheduled"})
                         >= edits[e] - crashes
<1>1. ASSUME Inv PROVE Seen
  <2> SUFFICES ASSUME NEW p \in Invoker, Evaluates(p), NEW e \in Entry
               PROVE  Cardinality({i \in Own(e, Len(log)) : log[i].outcome = "rescheduled"})
                        >= edits[e] - crashes
    OBVIOUS
  <2>1. \A d \in Editor : edit[d].pc # "append"
    <3>1. tick[p].pc # "idle"
      BY DEF Evaluates
    <3>2. QED
      BY <1>1, <3>1, TickAlone DEF Inv
  <2>2. {i \in Own(e, Len(log)) : log[i].outcome = "rescheduled"} = Resets(e)
    <3>1. Own(e, Len(log)) = {i \in DOMAIN log : log[i].entry = e}
      BY <1>1, AnchorFacts, Typed DEF Inv
    <3>2. QED
      BY <3>1 DEF Resets
  <2>3. (IF \E d \in Editor : Appending(d, e) THEN 1 ELSE 0) = 0
    BY <2>1 DEF Appending
  <2>4. edits[e] <= Cardinality(Resets(e)) + crashes + 0
    BY <1>1, <2>3 DEF Inv, EditsRecorded
  <2>5. Cardinality(Resets(e)) \in Nat /\ edits[e] \in Nat /\ crashes \in Nat
    BY <1>1, ResetsFinite, Typed DEF Inv, TypeOK
  <2>6. PICK r \in Nat, x \in Nat, c \in Nat :
          r = Cardinality(Resets(e)) /\ x = edits[e] /\ c = crashes
    BY <2>5
  <2>7. r >= x - c
    BY <2>4, <2>6
  <2>8. Cardinality(Resets(e)) >= edits[e] - crashes
    BY <2>6, <2>7
  <2>9. QED
    BY <2>2, <2>8
<1>2. Inv /\ [Next]_vars => [Seen]_vars
  BY <1>1
<1>3. QED
  BY <1>2, TickInvariant, PTL DEF Spec, EditVisible

\* A fire by schedule that was held is among those of every later tick that finds the
\* target, until a line settles it.
THEOREM HeldRecomputesAlways == Spec => HeldRecomputes
<1> DEFINE Recomputes == \A p \in Invoker : Evaluates(p) /\ resolved =>
                           \A e \in (held \ setup.wakes) \cap present :
                             \E i \in DOMAIN tick'[p].fires : tick'[p].fires[i].entry = e
<1>1. ASSUME Inv, [Next]_vars PROVE Recomputes
  <2> SUFFICES ASSUME NEW p \in Invoker, Evaluates(p), resolved,
                      NEW e \in (held \ setup.wakes) \cap present
               PROVE  \E i \in DOMAIN tick'[p].fires : tick'[p].fires[i].entry = e
    OBVIOUS
  <2>1. tick'[p].fires = DueFires
    <3>1. Evaluate(p)
      BY <1>1, EvaluatesBy
    <3>2. tick \in [Invoker -> TickType]
      BY <1>1 DEF Inv, TypeOK
    <3>3. QED
      BY <3>1, <3>2 DEF Evaluate
  <2>2. ScheduleDue(e)
    BY <1>1 DEF Inv, HeldIsDue, ScheduleDue
  <2>3. \E i \in DOMAIN DueFires : DueFires[i].entry = e
    BY <1>1, <2>2, DueFiresFacts DEF Inv
  <2>4. QED
    BY <2>1, <2>3
<1>2. Inv /\ [Next]_vars => [Recomputes]_vars
  BY <1>1
<1>3. QED
  BY <1>2, TickInvariant, PTL DEF Spec, HeldRecomputes

\* The entry file loses an entry to the sweep that finds its target unresolved.
LEMMA ExpiresBy ==
  ASSUME Inv, [Next]_vars, NEW e \in present \ present'
  PROVE  \E p \in Invoker : Expire(p, e)
<1>1. setup.invokers \subseteq Invoker
  BY SetupFacts DEF Inv, TypeOK
<1>2. ~UNCHANGED vars
  BY DEF vars, files
<1>3. ~(Advance \/ FlipTarget \/ FlipBusy \/ FlipOthers)
  BY DEF Advance, FlipTarget, FlipBusy, FlipOthers, files
<1>4. ASSUME NEW q \in setup.invokers,
             \/ Lock(q) \/ Evaluate(q) \/ Deliver(q) \/ Dispose(q) \/ AppendLine(q)
             \/ Finish(q) \/ CrashTick(q)
      PROVE  FALSE
  BY <1>4 DEF Lock, Evaluate, Deliver, Dispose, AppendLine, Finish, CrashTick, files
<1>5. ASSUME NEW d \in setup.editors,
             \/ EditLock(d) \/ EditGivesUp(d) \/ EditSave(d) \/ EditAppend(d) \/ CrashEdit(d)
             \/ \E x \in setup.entries : EditStart(d, x)
      PROVE  FALSE
  BY <1>5 DEF EditLock, EditGivesUp, EditSave, EditAppend, CrashEdit, EditStart, files
<1>6. PICK p \in setup.invokers : \E x \in setup.entries : Expire(p, x)
  BY <1>2, <1>3, <1>4, <1>5 DEF Next
<1>7. PICK x \in setup.entries : Expire(p, x)
  BY <1>6
<1>8. x = e
  BY <1>7 DEF Expire
<1>9. QED
  BY <1>1, <1>7, <1>8

\* An entry expires a TTL after every line that shows it resolved.
THEOREM ExpiryHasGroundsAlways == Spec => ExpiryHasGrounds
<1> DEFINE Grounds == \A e \in present \ present' : \A i \in DOMAIN log :
                        log[i].entry = e /\ log[i].outcome \in Evidence
                          => \A p \in Invoker : tick[p].pc = "fire"
                               => tick[p].now - log[i].ts >= setup.orphanTTL
<1>1. ASSUME Inv, [Next]_vars PROVE Grounds
  <2> SUFFICES ASSUME NEW e \in present \ present', NEW i \in DOMAIN log,
                      log[i].entry = e, log[i].outcome \in Evidence,
                      NEW p \in Invoker, tick[p].pc = "fire"
               PROVE  tick[p].now - log[i].ts >= setup.orphanTTL
    OBVIOUS
  <2>1. PICK q \in Invoker : Expire(q, e)
    BY <1>1, ExpiresBy
  <2>2. q = p
    <3>1. tick[q].pc = "fire"
      BY <2>1 DEF Expire, Fired
    <3>2. QED
      BY <1>1, <3>1, TickAlone DEF Inv
  <2> DEFINE n == tick[p].gcLen
             lines == {j \in Own(e, n) : log[j].outcome # "rescheduled"}
             run == {j \in lines : \A x \in lines : log[x].outcome \in Evidence => x < j}
             since == OrphanedSince(e, n)
  <2>3. e \in tick[p].orphans /\ since # None /\ tick[p].now - since >= setup.orphanTTL
    BY <2>1, <2>2 DEF Expire, Expires
  <2>4. /\ SweepStands(tick[p]) /\ n \in Nat /\ n <= Len(log) /\ Len(log) \in Nat
        /\ DOMAIN log = 1 .. Len(log) /\ tick[p].now \in Nat /\ setup.orphanTTL \in Nat
        /\ \A j \in DOMAIN log : log[j].ts \in Nat
    <3>1. SweepStands(tick[p]) /\ tick[p].gcLen \in Nat /\ tick[p].gcLen <= Len(log)
      BY <1>1 DEF Inv, Sweeps, Sweeping, TypeOK, TickType
    <3>2. QED
      BY <1>1, <3>1, Typed, Times, SetupFacts DEF Inv, SweepStands
  <2>5. i \in lines
    <3>1. ~(i \in n + 1 .. Len(log))
      BY <2>3, <2>4 DEF SweepStands
    <3>2. i \in 1 .. n
      BY <2>4, <3>1
    <3>3. QED
      BY <3>2 DEF Own, Evidence
  <2>6. lines \subseteq DOMAIN log /\ run \subseteq lines
    BY <2>4 DEF Own
  <2>7. run # {} /\ since = log[Oldest(run)].ts
    <3>1. Own(e, n) # {}
      BY <2>5
    <3>2. since = IF run = {} THEN None ELSE log[Oldest(run)].ts
      BY <3>1 DEF OrphanedSince
    <3>3. QED
      BY <2>3, <3>2
  <2>8. Oldest(run) \in run
    <3>1. run \in SUBSET Nat
      BY <2>4, <2>6
    <3> HIDE DEF run
    <3>2. QED
      BY <2>7, <3>1, OldestIs
  <2>9. PICK o \in DOMAIN log : o = Oldest(run) /\ i < o /\ log[o].outcome # "rescheduled"
    BY <2>5, <2>6, <2>8
  <2>10. log[i].ts <= log[o].ts
    BY <1>1, <2>9 DEF Inv, LinesInOrder, Evidence
  <2>11. since = log[o].ts
    BY <2>7, <2>9
  <2> HIDE DEF n, lines, run, since
  <2>12. /\ tick[p].now - log[o].ts >= setup.orphanTTL
         /\ {tick[p].now, log[i].ts, log[o].ts, setup.orphanTTL} \subseteq Nat
    BY <2>3, <2>4, <2>9, <2>11
  <2>13. QED
    BY <2>10, <2>12
<1>2. Inv /\ [Next]_vars => [Grounds]_vars
  BY <1>1
<1>3. QED
  BY <1>2, TickInvariant, PTL DEF Spec, ExpiryHasGrounds

\* No wake follows a logged delivery of its own entry within the debounce.
THEOREM WakeSpacingAlways == Spec => []WakeSpacing
<1>1. ASSUME Inv PROVE WakeSpacing
  <2> SUFFICES ASSUME NEW i \in DOMAIN sent, NEW j \in 1 .. i - 1,
                      sent[i].reason = "wake", edits[sent[i].entry] = 0,
                      sent[j].entry = sent[i].entry, sent[j].logged
               PROVE  sent[i].at - sent[j].at >= setup.debounce
    BY DEF WakeSpacing
  <2>1. i \in 1 .. Len(sent) /\ Len(sent) \in Nat
    BY <1>1, Typed DEF Inv
  <2>2. j \in DOMAIN sent
    BY <2>1
  <2>3. sent[i].at \in Nat /\ sent[j].at \in Nat /\ setup.debounce \in Nat
    BY <1>1, <2>2, Typed, Times, SetupFacts DEF Inv
  <2>4. ~(sent[i].at - sent[j].at < setup.debounce)
    BY <1>1 DEF Inv, RepeatsUnlogged, Gap
  <2>5. QED
    BY <2>3, <2>4
<1>2. QED
  BY <1>1, TickInvariant, PTL

-----------------------------------------------------------------------------
(* The entry file *)

\* A copy about to be written could take its mutation when it was read.
Room ==
  \A p \in Process :
    op[p].pc = "save" =>
      /\ Cardinality(DOMAIN op[p].copy) <= MaxEntries
      /\ Applies(op[p].kind, op[p].copy, op[p].id)

StoreInv == StoreTypeOK /\ CapHolds /\ Room

Locked == kinds \subseteq {"edit", "expire"}

\* Locked mutations run one at a time, on the file as it is.
Exclusive ==
  Locked => \A p \in Process :
              /\ op[p].pc # "idle" => flock = p
              /\ op[p].pc = "save" => op[p].copy = file

-----------------------------------------------------------------------------
(* The changes of a file *)

\* A file is finite.
LEMMA FileFinite ==
  ASSUME NEW f \in Store!Files
  PROVE  /\ DOMAIN f \subseteq Id /\ IsFiniteSet(DOMAIN f)
         /\ Cardinality(DOMAIN f) \in Nat
         /\ f \in [DOMAIN f -> Store!Record]
<1>1. PICK S \in SUBSET Id : f \in [S -> Store!Record]
  BY DEF Store!Files
<1>2. DOMAIN f = S
  BY <1>1
<1>3. QED
  BY <1>1, <1>2, StoreConstantsOK, FS_Subset, FS_CardinalityType

\* A function on ids is a file.
LEMMA IsFile ==
  ASSUME NEW S \in SUBSET Id, NEW f \in [S -> Store!Record]
  PROVE  f \in Store!Files
BY DEF Store!Files

\* Every change takes a file to a file, with an entry more only when it adds.
LEMMA AppliedFile ==
  ASSUME NEW o, NEW f \in Store!Files, o.copy = f, o.kind \in Kind, o.id \in Id,
         o.arg \in Arguments(o.kind), Applies(o.kind, f, o.id),
         Cardinality(DOMAIN f) <= MaxEntries
  PROVE  /\ Applied(o) \in Store!Files
         /\ Cardinality(DOMAIN Applied(o)) <= MaxEntries
<1>1. /\ DOMAIN f \subseteq Id /\ IsFiniteSet(DOMAIN f)
      /\ Cardinality(DOMAIN f) \in Nat
      /\ f \in [DOMAIN f -> Store!Record]
  BY FileFinite
<1>2. MaxEntries \in Nat
  BY StoreConstantsOK
<1>3. CASE o.kind = "add"
  <2>1. Applied(o) = Store!Added(f, o.id, o.arg) /\ o.arg \in Version
    BY <1>3 DEF Applied, Arguments
  <2>2. /\ Applied(o) \in [DOMAIN f \cup {o.id} -> Store!Record]
        /\ DOMAIN Applied(o) = DOMAIN f \cup {o.id}
    BY <1>1, <2>1 DEF Store!Added, Store!Record, Store!Mute
  <2>3. Cardinality(DOMAIN f \cup {o.id}) = Cardinality(DOMAIN f) + 1
    BY <1>1, <1>3, FS_AddElement DEF Applies
  <2>4. Cardinality(DOMAIN f) < MaxEntries
    BY <1>3 DEF Applies
  <2>5. QED
    BY <1>1, <1>2, <2>2, <2>3, <2>4, IsFile
<1>4. CASE o.kind \in {"remove", "expire"}
  <2>1. Applied(o) = Store!Removed(f, o.id)
    BY <1>4 DEF Applied
  <2>2. /\ Applied(o) \in [DOMAIN f \ {o.id} -> Store!Record]
        /\ DOMAIN Applied(o) = DOMAIN f \ {o.id}
    BY <1>1, <2>1 DEF Store!Removed, Store!Restrict
  <2>3. /\ Cardinality(DOMAIN f \ {o.id}) <= Cardinality(DOMAIN f)
        /\ Cardinality(DOMAIN f \ {o.id}) \in Nat
    BY <1>1, FS_Subset, FS_CardinalityType
  <2>4. QED
    BY <1>1, <1>2, <2>2, <2>3, IsFile
<1>5. CASE o.kind \in {"mute", "pin", "edit"}
  <2>1. o.id \in DOMAIN f
    BY <1>5 DEF Applies
  <2>2. /\ Applied(o) \in [DOMAIN f -> Store!Record]
        /\ DOMAIN Applied(o) = DOMAIN f
    <3>1. CASE o.kind = "mute"
      BY <1>1, <2>1, <3>1 DEF Applied, Arguments, Store!Muted, Store!Record
    <3>2. CASE o.kind = "pin"
      <4>1. PICK b \in BOOLEAN : Applied(o) = [f EXCEPT ![o.id].pinned = b]
        BY <3>2 DEF Applied, Store!Pinned
      <4>2. [f[o.id] EXCEPT !.pinned = b] \in Store!Record
        BY <1>1, <2>1 DEF Store!Record
      <4>3. QED
        BY <1>1, <2>1, <4>1, <4>2
    <3>3. CASE o.kind = "edit"
      BY <1>1, <2>1, <3>3 DEF Applied, Arguments, Store!Edited, Store!Record
    <3>4. QED
      BY <1>5, <3>1, <3>2, <3>3
  <2>3. QED
    BY <1>1, <1>2, <2>2, IsFile
<1>6. QED
  BY <1>3, <1>4, <1>5 DEF Kind

-----------------------------------------------------------------------------
(* Type and cap *)

LEMMA NothingIsFile == Nothing \in Store!Files
<1>1. Nothing \in [{} -> Store!Record]
  BY DEF Nothing
<1>2. QED
  BY <1>1, IsFile

LEMMA IdleType == Idle \in OpType /\ Idle.pc = "idle"
BY NothingIsFile DEF Idle, OpType

\* The arguments are in the type.
LEMMA ArgumentsType ==
  ASSUME NEW kind \in Kind, NEW arg \in Arguments(kind)
  PROVE  arg \in Store!Mute \cup {"pinned", "unpinned", Nil} \cup Version
BY DEF Arguments, Kind

\* What ends a mutation leaves behind.
LEMMA EndFacts ==
  ASSUME StoreInv, NEW p \in Process, End(p), kinds' = kinds, file' \in Store!Files,
         Cardinality(DOMAIN file') <= MaxEntries
  PROVE  StoreInv'
<1>1. op' = [op EXCEPT ![p] = Idle] /\ flock' = (IF flock = p THEN Nil ELSE flock)
  BY DEF End, Release
<1>2. /\ op' \in [Process -> OpType]
      /\ op'[p] = Idle
      /\ \A q \in Process : q # p => op'[q] = op[q]
  BY <1>1, IdleType DEF StoreInv, StoreTypeOK
<1>3. StoreTypeOK'
  <2>1. flock' \in Process \cup {Nil} /\ (flock' # Nil => op'[flock'].pc # "idle")
    BY <1>1, <1>2 DEF StoreInv, StoreTypeOK
  <2>2. (\A q \in Process :
           op[q].pc # "idle" =>
             /\ op[q].kind \in kinds /\ op[q].id \in Id
             /\ op[q].arg \in Arguments(op[q].kind))'
    BY <1>2, IdleType DEF StoreInv, StoreTypeOK, Arguments
  <2>3. QED
    BY <1>2, <2>1, <2>2 DEF StoreInv, StoreTypeOK
<1>4. CapHolds' /\ Room'
  BY <1>2, IdleType DEF StoreInv, CapHolds, Room, Applies
<1>5. QED
  BY <1>3, <1>4 DEF StoreInv

LEMMA StoreInvInit == StoreInit => StoreInv
<1> SUFFICES ASSUME StoreInit PROVE StoreInv
  OBVIOUS
<1>1. op \in [Process -> OpType] /\ \A p \in Process : op[p] = Idle
  BY IdleType DEF StoreInit
<1>2. StoreTypeOK
  BY <1>1, IdleType DEF StoreInit, StoreTypeOK, Store!Init
<1>3. CapHolds
  BY DEF StoreInit, CapHolds, Store!Init, Store!Cardinality, Cardinality
<1>4. Room
  BY <1>1, IdleType DEF Room
<1>5. QED
  BY <1>2, <1>3, <1>4 DEF StoreInv

LEMMA StoreInvNext == StoreInv /\ [StoreNext]_storeVars => StoreInv'
<1> SUFFICES ASSUME StoreInv, [StoreNext]_storeVars PROVE StoreInv'
  OBVIOUS
<1>1. ASSUME NEW p \in Process, NEW kind \in kinds, NEW id \in Id,
             NEW arg \in Arguments(kind), Begin(p, kind, id, arg)
      PROVE  StoreInv'
  <2>1. kind \in Kind
    BY StoreConstantsOK DEF StoreInv, StoreTypeOK
  <2>2. PICK o \in OpType :
          /\ op' = [op EXCEPT ![p] = o]
          /\ o.pc \in {"judge", "load"} /\ o.kind = kind /\ o.id = id /\ o.arg = arg
    <3> DEFINE o == [pc |-> IF kind = "expire" THEN "judge" ELSE "load",
                     kind |-> kind, id |-> id, arg |-> arg, copy |-> Nothing]
    <3>1. o \in OpType
      BY <2>1, ArgumentsType, NothingIsFile DEF OpType
    <3>2. op' = [op EXCEPT ![p] = o]
      BY <1>1 DEF Begin
    <3>3. QED
      BY <3>1, <3>2
  <2>3. /\ op' \in [Process -> OpType]
        /\ op'[p] = o
        /\ \A q \in Process : q # p => op'[q] = op[q]
    BY <2>2 DEF StoreInv, StoreTypeOK
  <2>4. file' = file /\ kinds' = kinds /\ flock' \in {flock, p}
    BY <1>1 DEF Begin
  <2>5. flock' \in Process \cup {Nil} /\ (flock' # Nil => op'[flock'].pc # "idle")
    BY <2>2, <2>3, <2>4 DEF StoreInv, StoreTypeOK
  <2>6. (\A q \in Process :
           op[q].pc # "idle" =>
             /\ op[q].kind \in kinds /\ op[q].id \in Id
             /\ op[q].arg \in Arguments(op[q].kind))'
    BY <2>2, <2>3, <2>4 DEF StoreInv, StoreTypeOK, Arguments
  <2>7. StoreTypeOK'
    BY <2>3, <2>4, <2>5, <2>6 DEF StoreInv, StoreTypeOK
  <2>8. CapHolds' /\ Room'
    BY <2>2, <2>3, <2>4 DEF StoreInv, CapHolds, Room, Applies
  <2>9. QED
    BY <2>7, <2>8 DEF StoreInv
<1>2. ASSUME NEW p \in Process, Judge(p)
      PROVE  StoreInv'
  <2>1. CASE End(p)
    BY <1>2, <2>1, EndFacts DEF Judge, StoreInv, StoreTypeOK, CapHolds
  <2>2. CASE op' = [op EXCEPT ![p].pc = "load"] /\ UNCHANGED flock
    <3>1. /\ op' \in [Process -> OpType]
          /\ op'[p] = [op[p] EXCEPT !.pc = "load"]
          /\ \A q \in Process : q # p => op'[q] = op[q]
      BY <2>2 DEF StoreInv, StoreTypeOK, OpType
    <3>2. file' = file /\ kinds' = kinds /\ flock' = flock /\ op[p].pc = "judge"
      BY <1>2, <2>2 DEF Judge
    <3>3. /\ op'[p].pc = "load" /\ op'[p].kind = op[p].kind /\ op'[p].id = op[p].id
          /\ op'[p].arg = op[p].arg
      BY <3>1 DEF StoreInv, StoreTypeOK, OpType
    <3>4. StoreTypeOK'
      BY <3>1, <3>2, <3>3 DEF StoreInv, StoreTypeOK, Arguments
    <3>5. CapHolds' /\ Room'
      BY <3>1, <3>2, <3>3 DEF StoreInv, CapHolds, Room, Applies
    <3>6. QED
      BY <3>4, <3>5 DEF StoreInv
  <2>3. QED
    BY <1>2, <2>1, <2>2 DEF Judge
<1>3. ASSUME NEW p \in Process, Load(p)
      PROVE  StoreInv'
  <2>1. CASE End(p)
    BY <1>3, <2>1, EndFacts DEF Load, StoreInv, StoreTypeOK, CapHolds
  <2>2. CASE /\ Applies(op[p].kind, file, op[p].id)
             /\ op' = [op EXCEPT ![p].pc = "save", ![p].copy = file]
             /\ UNCHANGED flock
    <3>1. /\ op' \in [Process -> OpType]
          /\ op'[p] = [op[p] EXCEPT !.pc = "save", !.copy = file]
          /\ \A q \in Process : q # p => op'[q] = op[q]
      BY <2>2 DEF StoreInv, StoreTypeOK, OpType
    <3>2. file' = file /\ kinds' = kinds /\ flock' = flock /\ op[p].pc = "load"
      BY <1>3, <2>2 DEF Load
    <3>3. /\ op'[p].pc = "save" /\ op'[p].kind = op[p].kind /\ op'[p].id = op[p].id
          /\ op'[p].arg = op[p].arg /\ op'[p].copy = file
      BY <3>1 DEF StoreInv, StoreTypeOK, OpType
    <3>4. StoreTypeOK'
      BY <3>1, <3>2, <3>3 DEF StoreInv, StoreTypeOK, Arguments
    <3>5. CapHolds' /\ Room'
      BY <2>2, <3>1, <3>2, <3>3 DEF StoreInv, CapHolds, Room, Applies
    <3>6. QED
      BY <3>4, <3>5 DEF StoreInv
  <2>3. QED
    BY <1>3, <2>1, <2>2 DEF Load
<1>4. ASSUME NEW p \in Process, Save(p)
      PROVE  StoreInv'
  <2>1. /\ Applied(op[p]) \in Store!Files
        /\ Cardinality(DOMAIN Applied(op[p])) <= MaxEntries
    <3>1. /\ op[p].copy \in Store!Files /\ op[p].kind \in Kind /\ op[p].id \in Id
          /\ op[p].arg \in Arguments(op[p].kind)
      BY <1>4, StoreConstantsOK DEF Save, StoreInv, StoreTypeOK, OpType
    <3>2. /\ Applies(op[p].kind, op[p].copy, op[p].id)
          /\ Cardinality(DOMAIN op[p].copy) <= MaxEntries
      BY <1>4 DEF Save, StoreInv, Room
    <3>3. QED
      BY <3>1, <3>2, AppliedFile
  <2>2. QED
    BY <1>4, <2>1, EndFacts DEF Save
<1>5. ASSUME NEW p \in Process, Crash(p)
      PROVE  StoreInv'
  BY <1>5, EndFacts DEF Crash, StoreInv, StoreTypeOK, CapHolds
<1>6. CASE UNCHANGED storeVars
  BY <1>6 DEF storeVars, StoreInv, StoreTypeOK, CapHolds, Room, Applies, Arguments
<1>7. QED
  BY <1>1, <1>2, <1>3, <1>4, <1>5, <1>6 DEF StoreNext

\* Every variable of the store keeps its type; a lock has a running holder.
THEOREM StoreTypes == StoreSpec => []StoreTypeOK
<1>1. StoreInv => StoreTypeOK
  BY DEF StoreInv
<1>2. QED
  BY StoreInvInit, StoreInvNext, <1>1, PTL DEF StoreSpec

\* The file never holds more than MaxEntries entries, although Add tests the
\* cap on a copy and nobody holds a lock meanwhile.
THEOREM CapKept == StoreSpec => []CapHolds
<1>1. StoreInv => CapHolds
  BY DEF StoreInv
<1>2. QED
  BY StoreInvInit, StoreInvNext, <1>1, PTL DEF StoreSpec

-----------------------------------------------------------------------------
(* Locked mutations *)

LEMMA ExclusiveNext == StoreInv /\ Exclusive /\ [StoreNext]_storeVars => Exclusive'
<1> SUFFICES ASSUME StoreInv, Exclusive, [StoreNext]_storeVars, Locked', NEW q \in Process
             PROVE  /\ op'[q].pc # "idle" => flock' = q
                    /\ op'[q].pc = "save" => op'[q].copy = file'
  BY DEF Exclusive
<1>1. kinds' = kinds /\ Locked
  BY DEF StoreNext, storeVars, Begin, Judge, Load, Save, Crash, Locked
<1>2. /\ \A p \in Process : op[p].pc # "idle" => flock = p
      /\ \A p \in Process : op[p].pc = "save" => op[p].copy = file
  BY <1>1 DEF Exclusive
<1>3. op \in [Process -> OpType] /\ flock \in Process \cup {Nil}
  BY DEF StoreInv, StoreTypeOK
<1>4. ASSUME NEW p \in Process, End(p), op[p].pc # "idle"
      PROVE  op'[q].pc = "idle"
  <2>1. flock = p /\ op'[p] = Idle /\ (q # p => op'[q] = op[q])
    BY <1>2, <1>3, <1>4 DEF End
  <2>2. q # p => op[q].pc = "idle"
    BY <1>2, <2>1
  <2>3. QED
    BY <2>1, <2>2, IdleType
<1>5. ASSUME NEW p \in Process, NEW kind \in kinds, NEW id \in Id,
             NEW arg \in Arguments(kind), Begin(p, kind, id, arg)
      PROVE  /\ op'[q].pc # "idle" => flock' = q
             /\ op'[q].pc = "save" => op'[q].copy = file'
  <2>1. NeedsLock(kind)
    BY <1>1 DEF NeedsLock, Locked
  <2>2. flock = Nil /\ flock' = p
    BY <1>5, <2>1 DEF Begin
  <2>3. q # p => op'[q] = op[q] /\ op[q].pc = "idle"
    BY <1>2, <1>3, <1>5, <2>2, StoreConstantsOK DEF Begin
  <2>4. op'[p].pc # "save"
    BY <1>3, <1>5 DEF Begin
  <2>5. QED
    BY <2>2, <2>3, <2>4
<1>6. ASSUME NEW p \in Process, Judge(p)
      PROVE  /\ op'[q].pc # "idle" => flock' = q
             /\ op'[q].pc = "save" => op'[q].copy = file'
  <2>1. CASE End(p)
    BY <1>4, <1>6, <2>1 DEF Judge
  <2>2. CASE op' = [op EXCEPT ![p].pc = "load"] /\ UNCHANGED flock
    <3>1. flock' = p /\ op'[p].pc = "load" /\ (q # p => op'[q] = op[q])
      BY <1>2, <1>3, <1>6, <2>2 DEF Judge, OpType
    <3>2. QED
      BY <1>2, <1>6, <2>2, <3>1 DEF Judge
  <2>3. QED
    BY <1>6, <2>1, <2>2 DEF Judge
<1>7. ASSUME NEW p \in Process, Load(p)
      PROVE  /\ op'[q].pc # "idle" => flock' = q
             /\ op'[q].pc = "save" => op'[q].copy = file'
  <2>1. CASE End(p)
    BY <1>4, <1>7, <2>1 DEF Load
  <2>2. CASE op' = [op EXCEPT ![p].pc = "save", ![p].copy = file] /\ UNCHANGED flock
    <3>1. /\ flock' = p /\ (q # p => op'[q] = op[q])
          /\ op'[p].copy = file /\ file' = file
      BY <1>2, <1>3, <1>7, <2>2 DEF Load, OpType
    <3>2. QED
      BY <1>2, <1>7, <2>2, <3>1 DEF Load
  <2>3. QED
    BY <1>7, <2>1, <2>2 DEF Load
<1>8. ASSUME NEW p \in Process, Save(p) \/ Crash(p)
      PROVE  op'[q].pc = "idle"
  BY <1>4, <1>8 DEF Save, Crash
<1>9. CASE UNCHANGED storeVars
  BY <1>2, <1>9 DEF storeVars
<1>10. QED
  BY <1>5, <1>6, <1>7, <1>8, <1>9 DEF StoreNext

\* A write of a locked mutation is the change EntryStore allows.
LEMMA LockedSave ==
  ASSUME StoreInv, Exclusive, Locked, NEW p \in Process, Save(p)
  PROVE  Store!OneChange
<1> DEFINE o == op[p]
<1>1. /\ o.kind \in {"edit", "expire"} /\ o.copy = file
      /\ o.arg \in Arguments(o.kind) /\ o.id \in DOMAIN file
  BY DEF StoreInv, StoreTypeOK, Room, Applies, Exclusive, Locked, Save
<1>2. file' = Applied(o)
  BY DEF Save
<1>3. CASE o.kind = "edit"
  <2>1. file' = Store!Edited(file, o.id, o.arg) /\ o.arg \in Version
    BY <1>1, <1>2, <1>3 DEF Applied, Arguments
  <2>2. QED
    BY <1>1, <2>1 DEF Store!OneChange, Store!Change
<1>4. CASE o.kind = "expire"
  <2>1. file' = Store!Removed(file, o.id)
    BY <1>1, <1>2, <1>4 DEF Applied
  <2>2. QED
    BY <1>1, <2>1 DEF Store!OneChange, Store!Change
<1>5. QED
  BY <1>1, <1>3, <1>4

\* Mutations that all hold the lock change the entries one at a time: every
\* write is a step of EntryStore.
THEOREM LockedChanges == StoreSpec => LockedChangesAreAtomic
<1>1. StoreInit => Exclusive
  BY IdleType DEF StoreInit, Exclusive
<1>2. StoreInv /\ Exclusive /\ [StoreNext]_storeVars
        => [kinds \subseteq {"edit", "expire"} => Store!OneChange]_<<file, kinds>>
  <2> SUFFICES ASSUME StoreInv, Exclusive, [StoreNext]_storeVars, Locked
               PROVE  Store!OneChange \/ UNCHANGED <<file, kinds>>
    BY DEF Locked
  <2>1. ASSUME NEW p \in Process, Save(p) PROVE Store!OneChange
    BY <2>1, LockedSave
  <2>2. QED
    BY <2>1 DEF StoreNext, storeVars, Begin, Judge, Load, Crash
<1>3. QED
  BY StoreInvInit, StoreInvNext, <1>1, ExclusiveNext, <1>2, PTL DEF StoreSpec, LockedChangesAreAtomic

-----------------------------------------------------------------------------
(* Functions defined by recursion *)

\* A property of the naturals that fails somewhere fails first somewhere: what the
\* induction theorems of the library say, for a set in place of an operator.
LEMMA EveryNatural ==
  ASSUME NEW S, 0 \in S, \A n \in Nat : n \in S => n + 1 \in S
  PROVE  \A n \in Nat : n \in S
<1> SUFFICES ASSUME NEW m \in Nat, m \notin S PROVE FALSE
  OBVIOUS
<1> DEFINE T == {n \in Nat : n \notin S}
<1>1. PICK k \in T : \A n \in T : k <= n
  <2>1. T \in SUBSET Nat /\ T # {}
    OBVIOUS
  <2>2. QED
    BY <2>1, LeastNatural
<1>2. k \in Nat /\ k # 0 /\ k \notin S
  OBVIOUS
<1>3. k - 1 \in Nat /\ k - 1 < k
  BY <1>2
<1>4. k - 1 \in S
  BY <1>1, <1>3
<1>5. QED
  BY <1>2, <1>3, <1>4

Iterates(f, V, a, G) ==
  f \in [Nat -> V] /\ f[0] = a /\ \A n \in Nat : f[n + 1] = G[n][f[n]]

\* A start and a step define a function on the naturals.
LEMMA Iteration ==
  ASSUME NEW V, NEW a \in V, NEW G \in [Nat -> [V -> V]]
  PROVE  \E f : Iterates(f, V, a, G)
<1> DEFINE Upto(g, n) == /\ g \in [0 .. n -> V]
                         /\ g[0] = a
                         /\ \A k \in 0 .. n - 1 : g[k + 1] = G[k][g[k]]
<1>1. ASSUME NEW n \in Nat, NEW m \in Nat, n <= m, NEW g, Upto(g, n), NEW h, Upto(h, m)
      PROVE  g[n] = h[n]
  <2> DEFINE S == {k \in Nat : k <= n => g[k] = h[k]}
  <2>1. 0 \in S
    BY <1>1
  <2>2. ASSUME NEW k \in Nat, k \in S PROVE k + 1 \in S
    <3> SUFFICES ASSUME k + 1 <= n PROVE g[k + 1] = h[k + 1]
      OBVIOUS
    <3>1. k \in 0 .. n - 1 /\ k \in 0 .. m - 1 /\ g[k] = h[k]
      BY <1>1, <2>2
    <3>2. QED
      BY <1>1, <3>1
  <2>3. n \in S
    <3> HIDE DEF S
    <3> QED BY <2>1, <2>2, EveryNatural
  <2>4. QED
    BY <2>3
<1>2. \A n \in Nat : \E g : Upto(g, n)
  <2> DEFINE S == {n \in Nat : \E g : Upto(g, n)}
  <2>1. 0 \in S
    <3>1. Upto([k \in 0 .. 0 |-> a], 0)
      OBVIOUS
    <3>2. QED
      BY <3>1
  <2>2. ASSUME NEW n \in Nat, n \in S PROVE n + 1 \in S
    <3>1. PICK g : Upto(g, n)
      BY <2>2
    <3> DEFINE h == [k \in 0 .. n + 1 |-> IF k = n + 1 THEN G[n][g[n]] ELSE g[k]]
    <3>2. \A k \in 0 .. n : k \in 0 .. n + 1 /\ k # n + 1 /\ h[k] = g[k]
      OBVIOUS
    <3>3. h[n + 1] = G[n][g[n]] /\ g[n] \in V
      BY <3>1
    <3>4. h \in [0 .. n + 1 -> V]
      <4>1. \A k \in 0 .. n + 1 : k = n + 1 \/ k \in 0 .. n
        OBVIOUS
      <4>2. G[n][g[n]] \in V
        BY <3>3
      <4>3. QED
        BY <3>1, <4>1, <4>2
    <3>5. ASSUME NEW k \in 0 .. n PROVE h[k + 1] = G[k][h[k]]
      <4>1. CASE k = n
        BY <3>2, <3>3, <4>1
      <4>2. CASE k # n
        <5>1. k \in 0 .. n - 1 /\ k + 1 \in 0 .. n
          BY <4>2
        <5>2. h[k + 1] = g[k + 1] /\ h[k] = g[k]
          BY <3>2, <5>1
        <5>3. QED
          BY <3>1, <5>1, <5>2
      <4>3. QED
        BY <4>1, <4>2
    <3>6. h[0] = a
      BY <3>1, <3>2
    <3>7. (n + 1) - 1 = n
      OBVIOUS
    <3>8. Upto(h, n + 1)
      <4> HIDE DEF h
      <4> QED BY <3>4, <3>5, <3>6, <3>7
    <3>9. \E g1 : Upto(g1, n + 1)
      <4> HIDE DEF h, Upto
      <4> QED BY <3>8
    <3>10. QED
      BY <3>9
  <2>3. QED
    <3> HIDE DEF S
    <3>1. \A n \in Nat : n \in S
      BY <2>1, <2>2, EveryNatural
    <3>2. QED
      BY <3>1 DEF S
<1> DEFINE p(n) == CHOOSE g : Upto(g, n)
           f == [n \in Nat |-> p(n)[n]]
<1>3. \A n \in Nat : Upto(p(n), n)
  <2> HIDE DEF Upto
  <2> QED BY <1>2
<1> HIDE DEF p
<1>4. f \in [Nat -> V] /\ f[0] = a
  BY <1>3
<1>5. ASSUME NEW n \in Nat PROVE f[n + 1] = G[n][f[n]]
  <2>1. p(n)[n] = p(n + 1)[n]
    <3> HIDE DEF Upto
    <3>1. n + 1 \in Nat /\ n <= n + 1
      OBVIOUS
    <3>2. Upto(p(n), n) /\ Upto(p(n + 1), n + 1)
      BY <1>3, <3>1
    <3>3. QED
      BY <1>1, <3>1, <3>2
  <2>2. p(n + 1)[n + 1] = G[n][p(n + 1)[n]]
    BY <1>3
  <2>3. QED
    BY <2>1, <2>2
<1>6. Iterates(f, V, a, G)
  <2> HIDE DEF f
  <2> QED BY <1>4, <1>5 DEF Iterates
<1>7. QED
  BY <1>6

\* The gap of a rung is the first one, doubled for each rung up to the cap.
LEMMA GapRecursion ==
  ASSUME NEW s \in ScheduleType
  PROVE  /\ gapAfter(s) \in [Nat -> Nat]
         /\ gapAfter(s)[0] = s.min
         /\ \A r \in Nat : gapAfter(s)[r + 1] = IF 2 * gapAfter(s)[r] > s.max THEN s.max
                                                ELSE 2 * gapAfter(s)[r]
<1> DEFINE IsGap(gap) ==
      gap = [rung \in Nat |->
               IF rung = 0 THEN s.min
               ELSE LET next == 2 * gap[rung - 1] IN IF next > s.max THEN s.max ELSE next]
<1>0. s.min \in Nat /\ s.max \in Nat
  BY DEF ScheduleType
<1>1. \E gap : IsGap(gap) /\ gap \in [Nat -> Nat]
  <2> DEFINE G == [n \in Nat |-> [g \in Nat |-> IF 2 * g > s.max THEN s.max ELSE 2 * g]]
  <2>1. G \in [Nat -> [Nat -> Nat]]
    BY <1>0
  <2>2. PICK f : Iterates(f, Nat, s.min, G)
    <3> HIDE DEF G
    <3> QED BY <1>0, <2>1, Iteration
  <2>3. /\ f \in [Nat -> Nat] /\ f[0] = s.min
        /\ \A n \in Nat : f[n + 1] = IF 2 * f[n] > s.max THEN s.max ELSE 2 * f[n]
    BY <2>2 DEF Iterates
  <2>4. ASSUME NEW r \in Nat, r # 0
        PROVE  f[r] = IF 2 * f[r - 1] > s.max THEN s.max ELSE 2 * f[r - 1]
    <3>1. r - 1 \in Nat /\ (r - 1) + 1 = r
      BY <2>4
    <3>2. QED
      BY <2>3, <3>1
  <2>5. IsGap(f)
    BY <2>3, <2>4
  <2>6. QED
    BY <2>3, <2>5
<1>2. gapAfter(s) = CHOOSE gap : IsGap(gap)
  BY DEF gapAfter
<1>3. IsGap(gapAfter(s))
  <2> HIDE DEF IsGap
  <2> QED BY <1>1, <1>2
<1>4. gapAfter(s) = [rung \in Nat |-> gapAfter(s)[rung]]
  BY <1>3
<1>5. gapAfter(s)[0] = s.min
  BY <1>3
<1>6. ASSUME NEW r \in Nat
      PROVE  gapAfter(s)[r + 1] = IF 2 * gapAfter(s)[r] > s.max THEN s.max
                                  ELSE 2 * gapAfter(s)[r]
  <2>1. r + 1 \in Nat /\ r + 1 # 0 /\ (r + 1) - 1 = r
    OBVIOUS
  <2>2. QED
    BY <1>3, <2>1
<1>7. \A r \in Nat : gapAfter(s)[r] \in Nat
  <2> DEFINE S == {r \in Nat : gapAfter(s)[r] \in Nat}
  <2>1. 0 \in S /\ \A r \in Nat : r \in S => r + 1 \in S
    BY <1>0, <1>5, <1>6
  <2>2. \A r \in Nat : r \in S
    <3> HIDE DEF S
    <3> QED BY <2>1, EveryNatural
  <2>3. QED
    BY <2>2
<1>8. QED
  BY <1>4, <1>5, <1>6, <1>7

\* The due time of a fire adds the gaps up.
LEMMA SumRecursion ==
  ASSUME NEW s \in ScheduleType
  PROVE  /\ ladderSum(s) \in [Nat -> Nat]
         /\ ladderSum(s)[0] = 0
         /\ \A n \in Nat : ladderSum(s)[n + 1] = ladderSum(s)[n] + gapAfter(s)[n]
<1> DEFINE IsSum(sum) ==
      sum = [n \in Nat |-> IF n = 0 THEN 0 ELSE sum[n - 1] + gapAfter(s)[n - 1]]
<1>0. PICK gap \in [Nat -> Nat] : gap = gapAfter(s)
  BY GapRecursion
<1>1. \E sum : IsSum(sum)
  <2> DEFINE G == [n \in Nat |-> [x \in Nat |-> x + gap[n]]]
  <2>1. G \in [Nat -> [Nat -> Nat]]
    OBVIOUS
  <2>2. PICK f : Iterates(f, Nat, 0, G)
    <3> HIDE DEF G
    <3> QED BY <2>1, Iteration
  <2>3. f \in [Nat -> Nat] /\ f[0] = 0 /\ \A n \in Nat : f[n + 1] = f[n] + gap[n]
    BY <2>2 DEF Iterates
  <2>4. ASSUME NEW n \in Nat, n # 0 PROVE f[n] = f[n - 1] + gap[n - 1]
    <3>1. n - 1 \in Nat /\ (n - 1) + 1 = n
      BY <2>4
    <3>2. QED
      BY <2>3, <3>1
  <2>5. IsSum(f)
    BY <1>0, <2>3, <2>4
  <2>6. QED
    BY <2>5
<1>2. ladderSum(s) = CHOOSE sum : IsSum(sum)
  BY DEF ladderSum
<1>3. IsSum(ladderSum(s))
  <2> HIDE DEF IsSum
  <2> QED BY <1>1, <1>2
<1>4. ladderSum(s) = [n \in Nat |-> ladderSum(s)[n]]
  BY <1>3
<1>5. ladderSum(s)[0] = 0
  BY <1>3
<1>6. ASSUME NEW n \in Nat PROVE ladderSum(s)[n + 1] = ladderSum(s)[n] + gapAfter(s)[n]
  <2>1. n + 1 \in Nat /\ n + 1 # 0 /\ (n + 1) - 1 = n
    OBVIOUS
  <2>2. QED
    BY <1>3, <2>1
<1>7. \A n \in Nat : ladderSum(s)[n] \in Nat
  <2> DEFINE S == {n \in Nat : ladderSum(s)[n] \in Nat}
  <2>1. 0 \in S /\ \A n \in Nat : n \in S => n + 1 \in S
    BY <1>0, <1>5, <1>6
  <2>2. \A n \in Nat : n \in S
    <3> HIDE DEF S
    <3> QED BY <2>1, EveryNatural
  <2>3. QED
    BY <2>2
<1>8. QED
  BY <1>4, <1>5, <1>6, <1>7

\* A schedule that the assumption on the constants lets in.
Ordered(s) == s \in ScheduleType /\ s.min <= s.max

\* The gaps grow from the first one to the cap.
LEMMA GapsGrow ==
  ASSUME NEW s, Ordered(s)
  PROVE  /\ \A r \in Nat : gapAfter(s)[r] \in s.min .. s.max
         /\ \A r \in Nat : gapAfter(s)[r] <= gapAfter(s)[r + 1]
         /\ \A r \in Nat : gapAfter(s)[r] = s.max \/ gapAfter(s)[r] > r
         /\ \A q, r \in Nat : q <= r => gapAfter(s)[q] <= gapAfter(s)[r]
<1>1. s.min \in Nat \ {0} /\ s.max \in Nat \ {0} /\ s.min <= s.max
  BY DEF Ordered, ScheduleType
<1>2. PICK gap \in [Nat -> Nat] : gap = gapAfter(s)
  BY GapRecursion DEF Ordered
<1>3. /\ gap[0] = s.min
      /\ \A r \in Nat : gap[r + 1] = IF 2 * gap[r] > s.max THEN s.max ELSE 2 * gap[r]
  BY <1>2, GapRecursion DEF Ordered
<1>4. \A r \in Nat : gap[r] \in s.min .. s.max
  <2> DEFINE S == {r \in Nat : gap[r] \in s.min .. s.max}
  <2>1. 0 \in S
    BY <1>1, <1>3
  <2>2. ASSUME NEW r \in Nat, r \in S PROVE r + 1 \in S
    <3>1. gap[r] \in s.min .. s.max
      BY <2>2
    <3>2. gap[r + 1] = IF 2 * gap[r] > s.max THEN s.max ELSE 2 * gap[r]
      BY <1>3
    <3>3. gap[r + 1] \in s.min .. s.max
      BY <1>1, <3>1, <3>2
    <3>4. QED
      BY <3>3
  <2>3. \A r \in Nat : r \in S
    <3> HIDE DEF S
    <3> QED BY <2>1, <2>2, EveryNatural
  <2>4. QED
    BY <2>3
<1>5. ASSUME NEW r \in Nat PROVE gap[r] <= gap[r + 1]
  <2>1. gap[r] \in s.min .. s.max
    BY <1>4
  <2>2. gap[r + 1] = IF 2 * gap[r] > s.max THEN s.max ELSE 2 * gap[r]
    BY <1>3
  <2>3. QED
    BY <1>1, <2>1, <2>2
<1>6. \A r \in Nat : gap[r] = s.max \/ gap[r] > r
  <2> DEFINE S == {r \in Nat : gap[r] = s.max \/ gap[r] > r}
  <2>1. 0 \in S
    BY <1>1, <1>3
  <2>2. ASSUME NEW r \in Nat, r \in S PROVE r + 1 \in S
    <3>1. gap[r] \in Nat /\ gap[r] <= s.max /\ gap[r] >= 1
      BY <1>1, <1>4
    <3>2. gap[r + 1] = IF 2 * gap[r] > s.max THEN s.max ELSE 2 * gap[r]
      BY <1>3
    <3>3. gap[r] = s.max \/ gap[r] > r
      BY <2>2
    <3>4. gap[r + 1] = s.max \/ gap[r + 1] > r + 1
      BY <1>1, <3>1, <3>2, <3>3
    <3>5. QED
      BY <3>4
  <2>3. \A r \in Nat : r \in S
    <3> HIDE DEF S
    <3> QED BY <2>1, <2>2, EveryNatural
  <2>4. QED
    BY <2>3
<1>7. ASSUME NEW q \in Nat PROVE \A r \in Nat : q <= r => gap[q] <= gap[r]
  <2> DEFINE S == {r \in Nat : q <= r => gap[q] <= gap[r]}
  <2>1. 0 \in S
    BY <1>4
  <2>2. ASSUME NEW r \in Nat, r \in S PROVE r + 1 \in S
    <3>1. gap[r] <= gap[r + 1] /\ gap[q] \in Nat /\ gap[r] \in Nat /\ gap[r + 1] \in Nat
      BY <1>5
    <3>2. q <= r + 1 => q <= r \/ q = r + 1
      OBVIOUS
    <3>3. QED
      BY <2>2, <3>1, <3>2
  <2>3. \A r \in Nat : r \in S
    <3> HIDE DEF S
    <3> QED BY <2>1, <2>2, EveryNatural
  <2>4. QED
    BY <2>3
<1>8. QED
  BY <1>2, <1>4, <1>5, <1>6, <1>7

\* The cap is reached, and CapRung(s) is the first rung from 1 on that has it.
LEMMA CapReached ==
  ASSUME NEW s, Ordered(s)
  PROVE  /\ CapRung(s) \in 1 .. s.max
         /\ \A q \in 1 .. CapRung(s) - 1 : gapAfter(s)[q] < s.max
         /\ \A r \in Nat : r >= CapRung(s) => gapAfter(s)[r] = s.max
<1> DEFINE T == {r \in 1 .. s.max : gapAfter(s)[r] = s.max}
<1>1. s.min \in Nat \ {0} /\ s.max \in Nat \ {0} /\ s.min <= s.max
  BY DEF Ordered, ScheduleType
<1>2. \A r \in Nat : gapAfter(s)[r] \in Nat /\ gapAfter(s)[r] <= s.max
  BY <1>1, GapsGrow
<1>3. s.max \in T
  BY <1>1, <1>2, GapsGrow
<1>4. PICK c \in T : \A r \in T : c <= r
  <2>1. T \in SUBSET Nat /\ T # {}
    BY <1>3
  <2> HIDE DEF T
  <2>2. QED
    BY <2>1, LeastNatural
<1>5. \A q \in 1 .. c - 1 : gapAfter(s)[q] < s.max
  <2> TAKE q \in 1 .. c - 1
  <2>1. q \in 1 .. s.max /\ q < c
    BY <1>1
  <2>2. q \notin T
    BY <1>4, <2>1
  <2>3. QED
    BY <1>1, <1>2, <2>1, <2>2
<1>6. /\ CapRung(s) \in 1 .. s.max /\ gapAfter(s)[CapRung(s)] = s.max
      /\ \A q \in 1 .. CapRung(s) - 1 : gapAfter(s)[q] < s.max
  <2> DEFINE First(r) == r \in 1 .. s.max /\ gapAfter(s)[r] = s.max
                         /\ \A q \in 1 .. r - 1 : gapAfter(s)[q] < s.max
  <2>1. First(c)
    BY <1>4, <1>5
  <2>2. CapRung(s) = CHOOSE r \in 1 .. s.max : gapAfter(s)[r] = s.max
                         /\ \A q \in 1 .. r - 1 : gapAfter(s)[q] < s.max
    BY DEF CapRung
  <2>3. QED
    BY <2>1, <2>2
<1>7. ASSUME NEW r \in Nat, r >= CapRung(s) PROVE gapAfter(s)[r] = s.max
  <2>1. CapRung(s) \in Nat
    BY <1>1, <1>6
  <2>2. gapAfter(s)[CapRung(s)] <= gapAfter(s)[r]
    BY <1>7, <2>1, GapsGrow
  <2>3. QED
    BY <1>1, <1>2, <1>6, <2>2
<1>8. QED
  BY <1>6, <1>7

-----------------------------------------------------------------------------
(* The join, for every log and every epoch *)

\* How many rungs up to c satisfy a condition is a natural up to c.
LEMMA RungsCounted ==
  ASSUME NEW c \in Nat, NEW S \in SUBSET (1 .. c)
  PROVE  IsFiniteSet(S) /\ Cardinality(S) \in 0 .. c
<1>1. IsFiniteSet(S) /\ Cardinality(S) \in Nat /\ Cardinality(S) <= c
  BY PositionsFinite, 0 \in Int
<1>2. QED
  BY <1>1

\* The step of the walk as a function of the rung above.
WalkStep(s, D) ==
  [m \in Nat |-> [above \in Nat |-> IF above = 0 THEN 0 ELSE Below(s, above, PairGap(D, m + 2))]]

LEMMA WalkStepType ==
  ASSUME NEW s, NEW D
  PROVE  WalkStep(s, D) \in [Nat -> [Nat -> Nat]]
<1>1. \A above \in Nat : \A gap : above # 0 => Below(s, above, gap) \in Nat
  BY DEF Below
<1>2. QED
  BY <1>1 DEF WalkStep

\* The walk from pair to pair.
LEMMA WalkRecursion ==
  ASSUME NEW s, Ordered(s), NEW D, NEW n \in Nat, Len(D) = n, n >= 2
  PROVE  /\ PairRung(s, D) \in [1 .. n - 1 -> Nat]
         /\ PairRung(s, D)[1] = SeedRung(s, PairGap(D, 1))
         /\ \A k \in 1 .. n - 2 :
              PairRung(s, D)[k + 1] = IF PairRung(s, D)[k] = 0 THEN 0
                                      ELSE Below(s, PairRung(s, D)[k], PairGap(D, k + 1))
<1> DEFINE IsWalk(walk) ==
      walk = [k \in 1 .. Len(D) - 1 |->
               IF k = 1 THEN SeedRung(s, PairGap(D, 1))
               ELSE LET above == walk[k - 1] IN IF above = 0 THEN 0 ELSE Below(s, above, PairGap(D, k))]
<1>1. SeedRung(s, PairGap(D, 1)) \in Nat
  <2>1. CapRung(s) \in Nat
    BY CapReached DEF Ordered, ScheduleType
  <2>2. QED
    BY <2>1, RungsCounted DEF SeedRung
<1>2. PICK f : Iterates(f, Nat, SeedRung(s, PairGap(D, 1)), WalkStep(s, D))
  BY <1>1, WalkStepType, Iteration
<1>3. /\ f \in [Nat -> Nat] /\ f[0] = SeedRung(s, PairGap(D, 1))
      /\ \A m \in Nat : f[m + 1] = IF f[m] = 0 THEN 0 ELSE Below(s, f[m], PairGap(D, m + 2))
  BY <1>2 DEF Iterates, WalkStep
<1>4. PICK w : w = [k \in 1 .. n - 1 |-> f[k - 1]]
  OBVIOUS
<1>5. ASSUME NEW k \in 1 .. n - 1, k # 1
      PROVE  /\ k - 1 \in 1 .. n - 1
             /\ w[k] = IF w[k - 1] = 0 THEN 0 ELSE Below(s, w[k - 1], PairGap(D, k))
  <2>1. k - 2 \in Nat /\ (k - 2) + 1 = k - 1 /\ (k - 2) + 2 = k /\ (k - 1) - 1 = k - 2
        /\ k - 1 \in 1 .. n - 1
    BY <1>5
  <2>2. w[k] = f[k - 1] /\ w[k - 1] = f[k - 2]
    BY <1>4, <2>1
  <2>3. QED
    BY <1>3, <2>1, <2>2
<1>6. w[1] = SeedRung(s, PairGap(D, 1))
  BY <1>3, <1>4
<1>7. IsWalk(w)
  BY <1>4, <1>5, <1>6
<1>8. PairRung(s, D) = CHOOSE walk : IsWalk(walk)
  BY DEF PairRung
<1>9. IsWalk(PairRung(s, D))
  <2> HIDE DEF IsWalk
  <2> QED BY <1>7, <1>8
<1> DEFINE R == PairRung(s, D)
<1>10. R = [k \in 1 .. n - 1 |-> R[k]] /\ R[1] = SeedRung(s, PairGap(D, 1))
  BY <1>9
<1>11. \A k \in 1 .. n - 2 :
         R[k + 1] = IF R[k] = 0 THEN 0 ELSE Below(s, R[k], PairGap(D, k + 1))
  <2> TAKE k \in 1 .. n - 2
  <2>1. k + 1 \in 1 .. n - 1 /\ k + 1 # 1 /\ (k + 1) - 1 = k
    OBVIOUS
  <2>2. QED
    BY <1>9, <2>1
<1> HIDE DEF R, IsWalk
<1>12. \A k \in 1 .. n - 1 : R[k] \in Nat
  <2> DEFINE S == {m \in Nat : m + 1 \in 1 .. n - 1 => R[m + 1] \in Nat}
  <2>1. 0 \in S
    BY <1>1, <1>10
  <2>2. ASSUME NEW m \in Nat, m \in S PROVE m + 1 \in S
    <3> SUFFICES ASSUME (m + 1) + 1 \in 1 .. n - 1 PROVE R[(m + 1) + 1] \in Nat
      OBVIOUS
    <3>1. m + 1 \in 1 .. n - 2 /\ m + 1 \in 1 .. n - 1
      OBVIOUS
    <3>2. R[m + 1] \in Nat
      BY <2>2, <3>1
    <3>3. R[(m + 1) + 1] = IF R[m + 1] = 0 THEN 0 ELSE Below(s, R[m + 1], PairGap(D, (m + 1) + 1))
      BY <1>11, <3>1
    <3>4. QED
      BY <3>2, <3>3 DEF Below
  <2>3. \A m \in Nat : m \in S
    <3> HIDE DEF S
    <3> QED BY <2>1, <2>2, EveryNatural
  <2>4. TAKE k \in 1 .. n - 1
  <2>5. k - 1 \in Nat /\ (k - 1) + 1 = k
    OBVIOUS
  <2>6. QED
    BY <2>3, <2>5
<1>13. QED
  BY <1>10, <1>11, <1>12 DEF R

\* The streak is one of the deliveries at least and all of them at most.
LEMMA StreakBounds ==
  ASSUME NEW s, NEW D, NEW n \in Nat \ {0}, Len(D) = n
  PROVE  Streak(s, D) \in 1 .. n
<1> DEFINE S == {k \in 1 .. Len(D) - 1 : PairRung(s, D)[k] > 0}
<1>1. n - 1 \in Nat /\ S \in SUBSET (1 .. n - 1)
  OBVIOUS
<1>2. Cardinality(S) \in 0 .. n - 1
  <2> HIDE DEF S
  <2> QED BY <1>1, RungsCounted
<1>3. QED
  BY <1>2 DEF Streak

\* The first two sums.
LEMMA FirstSums ==
  ASSUME NEW s, Ordered(s)
  PROVE  /\ ladderSum(s)[1] = s.min
         /\ ladderSum(s)[2] = s.min + gapAfter(s)[1]
<1>1. s.min \in Nat /\ s \in ScheduleType
  BY DEF Ordered, ScheduleType
<1>2. gapAfter(s)[0] = s.min
  BY <1>1, GapRecursion
<1>3. ladderSum(s)[0] = 0
  BY <1>1, SumRecursion
<1>4. ladderSum(s)[0 + 1] = ladderSum(s)[0] + gapAfter(s)[0]
  BY <1>1, SumRecursion
<1>5. ladderSum(s)[1 + 1] = ladderSum(s)[1] + gapAfter(s)[1]
  BY <1>1, SumRecursion
<1>6. ladderSum(s)[1] = s.min
  BY <1>1, <1>2, <1>3, <1>4
<1>7. QED
  BY <1>5, <1>6

\* The ladder j is taken from the k-th newest of the n deliveries D before t.
TakenFrom(j, s, t, D, n, k) ==
  /\ Newest(D) = D[n] /\ D[n] \in 1 .. t
  /\ j.rung = k
  /\ j.anchor = D[n - k + 1] - s.min
  /\ D[n - k + 1] \in 1 .. t
  /\ NextFire(s, j) = D[n - k + 1] - s.min + ladderSum(s)[k + 1]
  /\ ladderSum(s)[k + 1] \in Nat

LEMMA LadderFacts ==
  ASSUME NEW s, Ordered(s), NEW t \in Nat, NEW D \in Seq(1 .. t), NEW n \in Nat, n = Len(D),
         NEW k \in 1 .. n
  PROVE  TakenFrom(LadderOf(s, D, k), s, t, D, n, k)
<1>1. DOMAIN D = 1 .. n /\ \A i \in 1 .. n : D[i] \in 1 .. t
  <2>1. Len(D) \in Nat /\ DOMAIN D = 1 .. Len(D) /\ \A i \in 1 .. Len(D) : D[i] \in 1 .. t
    BY ElementOfSeq, LenProperties
  <2>2. QED
    BY <2>1
<1>2. n \in 1 .. n /\ n - k + 1 \in 1 .. n
  OBVIOUS
<1>3. D[n] \in 1 .. t /\ D[n - k + 1] \in 1 .. t
  BY <1>1, <1>2
<1>4. LadderOf(s, D, k) = [anchor |-> D[n - k + 1] - s.min, rung |-> k]
  BY DEF LadderOf
<1>5. ladderSum(s)[k + 1] \in Nat
  <2>1. k + 1 \in Nat /\ s \in ScheduleType
    BY DEF Ordered
  <2>2. QED
    BY <2>1, SumRecursion
<1>6. NextFire(s, LadderOf(s, D, k)) = D[n - k + 1] - s.min + ladderSum(s)[k + 1]
  BY <1>4 DEF NextFire
<1>7. QED
  BY <1>3, <1>4, <1>5, <1>6 DEF Newest, TakenFrom

\* Without a delivery, or after genuine activity, the ladder starts anew.
LEMMA JoinAnew ==
  ASSUME NEW s, Ordered(s), NEW e \in Nat, NEW D, D = <<>> \/ ~Attributed(e, D)
  PROVE  /\ JoinAnchor(s, e, D) = [anchor |-> e, rung |-> 0]
         /\ NextFire(s, JoinAnchor(s, e, D)) = e + s.min
<1>1. JoinAnchor(s, e, D) = [anchor |-> e, rung |-> 0]
  BY DEF JoinAnchor
<1>2. NextFire(s, JoinAnchor(s, e, D)) = e + ladderSum(s)[0 + 1]
  BY <1>1 DEF NextFire
<1>3. QED
  BY <1>1, <1>2, FirstSums

\* Otherwise it goes on from one of the deliveries, no sooner than the floor.
LEMMA JoinGoesOn ==
  ASSUME NEW s, Ordered(s), NEW t \in Nat, NEW e \in Nat, NEW D \in Seq(1 .. t), D # <<>>,
         Attributed(e, D)
  PROVE  \E k \in 1 .. Len(D) :
           /\ JoinAnchor(s, e, D) = LadderOf(s, D, k)
           /\ k = Streak(s, D) \/ k = 1
           /\ ~TooSoon(s, D, LadderOf(s, D, Streak(s, D))) => k = Streak(s, D)
           /\ NextFire(s, LadderOf(s, D, k)) >= Newest(D) + s.min
<1>1. s.min \in Nat \ {0} /\ s.max \in Nat \ {0} /\ s.min <= s.max /\ s \in ScheduleType
  BY DEF Ordered, ScheduleType
<1>2. PICK n \in Nat \ {0} : n = Len(D)
  <2>1. Len(D) \in Nat /\ Len(D) # 0
    BY LenProperties, EmptySeq
  <2>2. QED
    BY <2>1
<1>3. PICK k \in 1 .. n : k = Streak(s, D)
  BY <1>2, StreakBounds
<1>4. CASE TooSoon(s, D, LadderOf(s, D, k))
  <2>1. JoinAnchor(s, e, D) = LadderOf(s, D, 1)
    BY <1>3, <1>4 DEF JoinAnchor
  <2>2. 1 \in 1 .. n /\ n - 1 + 1 = n /\ n \in Nat
    OBVIOUS
  <2>3. /\ NextFire(s, LadderOf(s, D, 1)) = D[n - 1 + 1] - s.min + ladderSum(s)[1 + 1]
        /\ Newest(D) = D[n] /\ D[n] \in 1 .. t
    <3>1. TakenFrom(LadderOf(s, D, 1), s, t, D, n, 1)
      BY <1>2, <2>2, LadderFacts
    <3>2. QED
      BY <3>1 DEF TakenFrom
  <2>4. gapAfter(s)[1] \in s.min .. s.max
    BY GapsGrow
  <2>5. NextFire(s, LadderOf(s, D, 1)) >= Newest(D) + s.min
    BY <1>1, <2>2, <2>3, <2>4, FirstSums
  <2>6. QED
    BY <1>2, <1>3, <1>4, <2>1, <2>2, <2>5
<1>5. CASE ~TooSoon(s, D, LadderOf(s, D, k))
  <2>1. JoinAnchor(s, e, D) = LadderOf(s, D, k)
    BY <1>3, <1>5 DEF JoinAnchor
  <2>2. /\ NextFire(s, LadderOf(s, D, k)) = D[n - k + 1] - s.min + ladderSum(s)[k + 1]
        /\ Newest(D) = D[n] /\ D[n] \in 1 .. t /\ D[n - k + 1] \in 1 .. t
        /\ ladderSum(s)[k + 1] \in Nat
    <3>1. n \in Nat
      BY <1>2
    <3>2. TakenFrom(LadderOf(s, D, k), s, t, D, n, k)
      BY <1>2, <1>3, <3>1, LadderFacts
    <3>3. QED
      BY <3>2 DEF TakenFrom
  <2>3. ~(NextFire(s, LadderOf(s, D, k)) < Newest(D) + s.min)
    BY <1>5 DEF TooSoon
  <2>4. NextFire(s, LadderOf(s, D, k)) >= Newest(D) + s.min
    <3>1. NextFire(s, LadderOf(s, D, k)) \in Int
      <4>1. \A x \in 1 .. t, y, z \in Nat : x - y + z \in Int
        OBVIOUS
      <4>2. s.min \in Nat
        BY <1>1
      <4>3. QED
        BY <2>2, <4>1, <4>2
    <3>2. Newest(D) \in Int /\ s.min \in Int
      BY <1>1, <2>2
    <3>3. \A x, y, z \in Int : ~(x < y + z) => x >= y + z
      OBVIOUS
    <3>4. QED
      BY <2>3, <3>1, <3>2, <3>3
  <2>5. QED
    BY <1>2, <1>3, <2>1, <2>4
<1>6. QED
  BY <1>4, <1>5

\* What the join returns: a rung of as many fires as there were at most, an anchor
\* no later than what it knows, and a fire no sooner than the floor.
LEMMA JoinFacts ==
  ASSUME NEW s, Ordered(s), NEW t \in Nat, NEW e \in Nat, e <= t, NEW D \in Seq(1 .. t), NEW j,
         j = JoinAnchor(s, e, D)
  PROVE  /\ j.rung \in 0 .. Len(D)
         /\ j.anchor \in Int /\ j.anchor <= t
         /\ NextFire(s, j) \in Int
         /\ D # <<>> => NextFire(s, j) >= Newest(D) + s.min
<1>1. s.min \in Nat \ {0} /\ s.max \in Nat \ {0} /\ s.min <= s.max /\ s \in ScheduleType
  BY DEF Ordered, ScheduleType
<1>2. PICK n \in Nat : n = Len(D)
  BY LenProperties
<1>3. CASE D = <<>> \/ ~Attributed(e, D)
  <2>1. j.anchor = e /\ j.rung = 0 /\ NextFire(s, j) = e + s.min
    BY <1>3, JoinAnew
  <2>2. ASSUME D # <<>> PROVE Newest(D) \in Nat /\ e > Newest(D)
    <3>1. n # 0
      BY <1>2, <2>2, EmptySeq
    <3>2. n \in 1 .. n
      BY <3>1
    <3>3. Newest(D) \in 1 .. t
      <4>1. TakenFrom(LadderOf(s, D, n), s, t, D, n, n)
        BY <1>2, <3>2, LadderFacts
      <4>2. QED
        BY <4>1 DEF TakenFrom
    <3>4. ~(e <= Newest(D) + Attribution) /\ Attribution \in Nat
      BY <1>3, <2>2, BackoffConstantsOK DEF Attributed
    <3>5. QED
      BY <3>3, <3>4
  <2>3. 0 \in 0 .. Len(D)
    BY <1>2
  <2>4. D # <<>> => NextFire(s, j) >= Newest(D) + s.min
    BY <1>1, <2>1, <2>2
  <2>5. QED
    BY <1>1, <2>1, <2>3, <2>4
<1>4. CASE D # <<>> /\ Attributed(e, D)
  <2>1. PICK k \in 1 .. n : /\ j = LadderOf(s, D, k)
                            /\ NextFire(s, j) >= Newest(D) + s.min
    BY <1>2, <1>4, JoinGoesOn
  <2>2. /\ j.rung = k
        /\ j.anchor = D[n - k + 1] - s.min
        /\ D[n - k + 1] \in 1 .. t
        /\ NextFire(s, j) = D[n - k + 1] - s.min + ladderSum(s)[k + 1]
        /\ ladderSum(s)[k + 1] \in Nat
    <3>1. TakenFrom(LadderOf(s, D, k), s, t, D, n, k)
      BY <1>2, <2>1, LadderFacts
    <3>2. QED
      BY <2>1, <3>1 DEF TakenFrom
  <2> DEFINE a == D[n - k + 1]
             sum == ladderSum(s)[k + 1]
  <2>3. a \in 1 .. t /\ sum \in Nat /\ s.min \in Nat
    BY <1>1, <2>2
  <2>4. j.anchor = a - s.min /\ NextFire(s, j) = a - s.min + sum
    BY <2>2
  <2> HIDE DEF a, sum
  <2>5. a - s.min \in Int /\ a - s.min <= t /\ a - s.min + sum \in Int
    BY <2>3
  <2>6. k \in 0 .. Len(D)
    BY <1>2
  <2>7. QED
    BY <2>1, <2>2, <2>4, <2>5, <2>6
<1>5. QED
  BY <1>3, <1>4

-----------------------------------------------------------------------------
(* What the walk finds in the log of a ladder that nothing interrupted *)

\* The ladder has a rung between the first gap and the cap.
Steep(s) == 2 * s.min < s.max

LEMMA GapsDouble ==
  ASSUME NEW s, Ordered(s), Steep(s), NEW c, c = CapRung(s)
  PROVE  /\ c \in Nat /\ c >= 2
         /\ \A r \in Nat \ {0} : gapAfter(s)[r] \in 2 * s.min .. s.max
         /\ \A r \in 1 .. c - 1 : gapAfter(s)[r] < s.max
         /\ \A r \in Nat : r >= c => gapAfter(s)[r] = s.max
         /\ \A r \in 0 .. c - 2 : gapAfter(s)[r + 1] = 2 * gapAfter(s)[r]
<1>1. s.min \in Nat \ {0} /\ s.max \in Nat \ {0} /\ s.min <= s.max /\ s \in ScheduleType
  BY DEF Ordered, ScheduleType
<1>2. PICK gap \in [Nat -> Nat] : gap = gapAfter(s)
  BY <1>1, GapRecursion
<1>3. /\ gap[0] = s.min
      /\ \A r \in Nat : gap[r + 1] = IF 2 * gap[r] > s.max THEN s.max ELSE 2 * gap[r]
  BY <1>1, <1>2, GapRecursion
<1>4. gap[1] = 2 * s.min
  <2>1. gap[0 + 1] = IF 2 * gap[0] > s.max THEN s.max ELSE 2 * gap[0]
    BY <1>3
  <2>2. QED
    BY <1>1, <1>3, <2>1 DEF Steep
<1>5. /\ c \in 1 .. s.max
      /\ \A r \in 1 .. c - 1 : gap[r] < s.max
      /\ \A r \in Nat : r >= c => gap[r] = s.max
  BY <1>2, CapReached
<1>6. c \in Nat /\ c >= 2
  <2>1. c \in Nat /\ c >= 1
    BY <1>1, <1>5
  <2>2. c # 1
    BY <1>1, <1>4, <1>5 DEF Steep
  <2>3. QED
    BY <2>1, <2>2
<1>7. ASSUME NEW r \in Nat \ {0} PROVE gap[r] \in 2 * s.min .. s.max
  <2>1. 1 \in Nat /\ r \in Nat /\ 1 <= r
    OBVIOUS
  <2>2. gap[1] <= gap[r] /\ gap[r] \in s.min .. s.max
    BY <1>2, <2>1, GapsGrow
  <2>3. QED
    BY <1>1, <1>4, <2>2
<1>8. ASSUME NEW r \in 0 .. c - 2 PROVE gap[r + 1] = 2 * gap[r]
  <2>1. r + 1 \in 1 .. c - 1 /\ r \in Nat
    BY <1>6
  <2>2. gap[r + 1] < s.max
    BY <1>5, <2>1
  <2>3. gap[r + 1] = IF 2 * gap[r] > s.max THEN s.max ELSE 2 * gap[r]
    BY <1>3, <2>1
  <2>4. QED
    BY <1>1, <2>2, <2>3
<1>9. QED
  BY <1>2, <1>5, <1>6, <1>7, <1>8

\* The rung below the cap is told from it with both tolerances.
Clear(s) == gapAfter(s)[CapRung(s) - 1] + s.late + Attribution < s.max

\* A pair of true rung i was given rung r: no lower one, but that the first capped
\* rung stands for all of them; and exactly, where the ladder is clear.
Fits(s, r, i) ==
  /\ r \in 1 .. CapRung(s)
  /\ r >= i \/ r = CapRung(s)
  /\ Clear(s) => r = i \/ (r = CapRung(s) /\ i >= CapRung(s))

\* A gap as a pair of rung i shows it.
Shows(s, gap, i) == gap \in gapAfter(s)[i] - s.late .. gapAfter(s)[i] + s.late

\* The numbers of a telling schedule.
LEMMA TellingNumbers ==
  ASSUME NEW s, Ordered(s), Telling(s)
  PROVE  /\ s.min \in Nat \ {0} /\ s.max \in Nat \ {0} /\ s.late \in Nat
         /\ s.late <= s.min /\ s.late <= SeedSkew /\ s.late + SeedSkew < 2 * s.min
         /\ SeedSkew \in Nat /\ Attribution \in Nat /\ SeedSkew <= Attribution
         /\ ~Clear(s) => gapAfter(s)[CapRung(s) - 1] + s.late <= Attribution + 2 * s.min
BY BackoffConstantsOK DEF Ordered, ScheduleType, Telling, Clear

LEMMA SeedFits ==
  ASSUME NEW s, Ordered(s), Steep(s), Telling(s), NEW i \in Nat \ {0}, NEW gap, Shows(s, gap, i)
  PROVE  Fits(s, SeedRung(s, gap), i)
<1>1. PICK c : c = CapRung(s)
  OBVIOUS
<1>2. PICK g \in [Nat -> Nat] : g = gapAfter(s)
  BY GapRecursion DEF Ordered
<1>3. /\ c \in Nat /\ c >= 2
      /\ \A r \in Nat \ {0} : g[r] \in 2 * s.min .. s.max
      /\ \A r \in Nat : r >= c => g[r] = s.max
      /\ \A r \in 0 .. c - 2 : g[r + 1] = 2 * g[r]
  BY <1>1, <1>2, GapsDouble
<1>4. \A q, r \in Nat : q <= r => g[q] <= g[r]
  BY <1>2, GapsGrow
<1>5. gap \in Int /\ gap >= g[i] - s.late /\ gap <= g[i] + s.late
  BY <1>2, TellingNumbers DEF Shows
<1> DEFINE S == {r \in 1 .. c : g[r] <= gap + SeedSkew}
<1>6. SeedRung(s, gap) = Cardinality(S)
  BY <1>1, <1>2 DEF SeedRung
<1>7. IsFiniteSet(S) /\ Cardinality(S) \in 0 .. c
  <2>1. S \in SUBSET (1 .. c)
    OBVIOUS
  <2>2. QED
    BY <1>3, <2>1, RungsCounted
<1>8. PICK m \in 1 .. c : m <= i /\ (m = i \/ m = c)
  <2>1. CASE i < c
    <3>1. i \in 1 .. c /\ i <= i
      BY <1>3, <2>1
    <3>2. QED
      BY <3>1
  <2>2. CASE i >= c
    <3>1. c \in 1 .. c /\ c <= i
      BY <1>3, <2>2
    <3>2. QED
      BY <3>1
  <2>3. QED
    BY <1>3, <2>1, <2>2
<1>9. \A r \in 1 .. m : r \in S
  <2> TAKE r \in 1 .. m
  <2>1. r \in Nat /\ r <= i /\ r \in 1 .. c
    BY <1>3, <1>8
  <2>2. g[r] <= g[i] /\ g[r] \in Nat /\ g[i] \in Nat
    BY <1>4, <2>1
  <2>3. g[r] <= gap + SeedSkew
    BY <1>5, <2>2, TellingNumbers
  <2>4. QED
    BY <2>1, <2>3
<1>10. Cardinality(S) >= m
  <2>1. 1 .. m \in SUBSET S
    BY <1>9
  <2>2. Cardinality(1 .. m) = m
    BY <1>8, FS_Interval
  <2>3. Cardinality(1 .. m) <= Cardinality(S)
    <3> HIDE DEF S
    <3> QED BY <1>7, <2>1, FS_Subset
  <2>4. QED
    BY <1>7, <1>8, <2>2, <2>3
<1>11. ASSUME Clear(s), i < c PROVE Cardinality(S) = i
  <2>1. ASSUME NEW r \in 1 .. c, r > i PROVE r \notin S
    <3>1. i + 1 \in Nat /\ i + 1 <= r /\ i \in Nat /\ r \in Nat
      BY <1>3, <2>1
    <3>2. g[i + 1] <= g[r] /\ g[i + 1] \in Nat /\ g[r] \in Nat /\ g[i] \in Nat
      BY <1>4, <3>1
    <3>3. CASE i + 1 = c
      <4>1. c - 1 = i /\ g[i + 1] = s.max
        BY <1>3, <3>1, <3>3
      <4>2. g[i] + s.late + Attribution < s.max
        BY <1>1, <1>2, <1>11, <4>1 DEF Clear
      <4>3. g[r] > gap + SeedSkew
        BY <1>5, <3>2, <4>1, <4>2, TellingNumbers
      <4>4. QED
        BY <1>5, <3>2, <4>3, TellingNumbers
    <3>4. CASE i + 1 # c
      <4>1. i \in 0 .. c - 2
        BY <1>3, <1>11, <3>4
      <4>2. g[i + 1] = 2 * g[i] /\ g[i] >= 2 * s.min
        BY <1>3, <4>1, TellingNumbers
      <4>3. g[r] > gap + SeedSkew
        BY <1>5, <3>2, <4>2, TellingNumbers
      <4>4. QED
        BY <1>5, <3>2, <4>3, TellingNumbers
    <3>5. QED
      BY <3>3, <3>4
  <2>2. S = 1 .. i
    <3>1. m = i
      BY <1>8, <1>11
    <3>2. \A r \in 1 .. c : r \in 1 .. i \/ r > i
      OBVIOUS
    <3>3. \A r \in S : r \in 1 .. i
      BY <2>1, <3>2
    <3>4. QED
      BY <1>9, <3>1, <3>3
  <2>3. Cardinality(1 .. i) = i
    BY FS_Interval
  <2>4. QED
    BY <2>2, <2>3
<1>12. SeedRung(s, gap) \in 1 .. c /\ SeedRung(s, gap) >= m
  <2> HIDE DEF S
  <2> QED BY <1>3, <1>6, <1>7, <1>8, <1>10
<1>13. CASE i < c
  <2>1. m = i
    BY <1>8, <1>13
  <2>2. Clear(s) => SeedRung(s, gap) = i
    BY <1>6, <1>11, <1>13
  <2>3. QED
    BY <1>1, <1>12, <2>1, <2>2 DEF Fits
<1>14. CASE i >= c
  <2>1. m = c
    BY <1>3, <1>8, <1>14
  <2>2. c \in Nat
    BY <1>3
  <2>3. \A x \in 1 .. c : x >= c => x = c
    BY <2>2
  <2>4. SeedRung(s, gap) = c
    BY <1>12, <2>1, <2>3
  <2>5. QED
    BY <1>1, <1>12, <1>14, <2>4 DEF Fits
<1>15. QED
  BY <1>3, <1>13, <1>14

LEMMA BelowFits ==
  ASSUME NEW s, Ordered(s), Steep(s), Telling(s), NEW i \in Nat \ {0}, NEW gap, Shows(s, gap, i),
         NEW above, Fits(s, above, i + 1)
  PROVE  Fits(s, Below(s, above, gap), i)
<1>1. PICK c : c = CapRung(s)
  OBVIOUS
<1>2. PICK g \in [Nat -> Nat] : g = gapAfter(s)
  BY GapRecursion DEF Ordered
<1>3. /\ c \in Nat /\ c >= 2
      /\ \A r \in Nat \ {0} : g[r] \in 2 * s.min .. s.max
      /\ \A r \in 1 .. c - 1 : g[r] < s.max
      /\ \A r \in Nat : r >= c => g[r] = s.max
  BY <1>1, <1>2, GapsDouble
<1>4. \A q, r \in Nat : q <= r => g[q] <= g[r]
  BY <1>2, GapsGrow
<1>5. gap \in Int /\ gap >= g[i] - s.late /\ gap <= g[i] + s.late /\ g[i] \in Nat
  BY <1>2, TellingNumbers DEF Shows
<1>6. /\ above \in 1 .. c
      /\ above >= i + 1 \/ above = c
      /\ Clear(s) => above = i + 1 \/ (above = c /\ i + 1 >= c)
  BY <1>1 DEF Fits
<1>7. Below(s, above, gap) = IF g[above] = s.max /\ gap >= s.max - Attribution THEN above
                            ELSE IF above > 1 /\ gap >= g[above - 1] - Attribution THEN above - 1
                            ELSE 0
  BY <1>2 DEF Below
<1>8. above > 1 /\ above - 1 \in Nat \ {0} /\ above - 1 <= c - 1
  BY <1>3, <1>6
<1>9. ASSUME ~Clear(s) PROVE gap >= g[above - 1] - Attribution
  <2>1. g[c - 1] + s.late <= Attribution + 2 * s.min
    BY <1>1, <1>2, <1>9, TellingNumbers
  <2>2. c - 1 \in Nat /\ above - 1 \in Nat
    BY <1>3, <1>8
  <2>3. g[above - 1] <= g[c - 1] /\ g[above - 1] \in Nat /\ g[c - 1] \in Nat
    BY <1>4, <1>8, <2>2
  <2>4. g[i] >= 2 * s.min
    BY <1>3, TellingNumbers
  <2>5. QED
    BY <1>5, <2>1, <2>3, <2>4, TellingNumbers
<1>10. ASSUME above = i + 1 PROVE gap >= g[above - 1] - Attribution
  <2>1. above - 1 = i
    BY <1>10
  <2>2. QED
    BY <1>5, <2>1, TellingNumbers
<1>11. CASE above = c /\ gap >= s.max - Attribution
  <2>1. Below(s, above, gap) = c
    BY <1>3, <1>7, <1>11
  <2>2. ASSUME Clear(s) PROVE i >= c
    <3>1. i + 1 >= c
      BY <1>6, <1>11, <2>2
    <3>2. CASE i + 1 = c
      <4>1. g[c - 1] + s.late + Attribution < s.max /\ c - 1 = i
        BY <1>1, <1>2, <2>2, <3>2 DEF Clear
      <4>2. FALSE
        BY <1>5, <1>11, <4>1, TellingNumbers
      <4>3. QED
        BY <4>2
    <3>3. QED
      BY <1>3, <3>1, <3>2
  <2>3. QED
    BY <1>1, <1>3, <2>1, <2>2 DEF Fits
<1>12. CASE above = c /\ ~(gap >= s.max - Attribution)
  <2>1. i < c
    <3>1. g[i] < s.max
      BY <1>5, <1>12, TellingNumbers
    <3>2. i >= c => g[i] = s.max
      BY <1>3
    <3>3. QED
      BY <1>3, <3>1, <3>2
  <2>2. Clear(s) => i + 1 = c
    BY <1>3, <1>6, <1>12, <2>1
  <2>3. gap >= g[above - 1] - Attribution
    BY <1>9, <1>10, <1>12, <2>2
  <2>4. Below(s, above, gap) = c - 1
    BY <1>7, <1>8, <1>12, <2>3
  <2>5. QED
    BY <1>1, <1>3, <2>1, <2>2, <2>4 DEF Fits
<1>13. CASE above # c
  <2>1. g[above] < s.max
    BY <1>3, <1>6, <1>13
  <2>2. above >= i + 1 /\ (Clear(s) => above = i + 1)
    BY <1>6, <1>13
  <2>3. gap >= g[above - 1] - Attribution
    BY <1>9, <1>10, <2>2
  <2>4. Below(s, above, gap) = above - 1
    BY <1>3, <1>6, <1>7, <1>8, <2>1, <2>3
  <2>5. QED
    BY <1>1, <1>3, <1>6, <1>8, <2>2, <2>4 DEF Fits
<1>14. QED
  BY <1>11, <1>12, <1>13

\* A log whose pings came on time: each one when it was due on the ladder of the
\* first, or no more than `late` after.
OnTime(s, D) ==
  \A i \in 1 .. Len(D) :
    D[i] \in D[1] - s.min + ladderSum(s)[i] .. D[1] - s.min + ladderSum(s)[i] + s.late

LEMMA PairsShow ==
  ASSUME NEW s, Ordered(s), NEW t \in Nat, NEW D \in Seq(1 .. t), OnTime(s, D),
         NEW n \in Nat, n = Len(D), NEW i \in 1 .. n - 1
  PROVE  Shows(s, PairGap(D, n - i), i)
<1>1. s \in ScheduleType /\ s.min \in Nat /\ s.late \in Nat
  BY DEF Ordered, ScheduleType
<1>2. i \in 1 .. n /\ i + 1 \in 1 .. n /\ 1 \in 1 .. n /\ i \in Nat
  OBVIOUS
<1>3. \A j \in 1 .. n : D[j] \in 1 .. t
  BY ElementOfSeq
<1>4. PICK a \in Int : a = D[1] - s.min
  BY <1>1, <1>2, <1>3
<1>5. PICK x \in Nat : x = ladderSum(s)[i]
  BY <1>1, <1>2, SumRecursion
<1>6. PICK g \in Nat : g = gapAfter(s)[i]
  BY <1>1, <1>2, GapRecursion
<1>7. ladderSum(s)[i + 1] = x + g
  BY <1>1, <1>2, <1>5, <1>6, SumRecursion
<1>8. D[i] \in a + x .. a + x + s.late
  BY <1>2, <1>4, <1>5 DEF OnTime
<1>9. D[i + 1] \in a + (x + g) .. a + (x + g) + s.late
  BY <1>2, <1>4, <1>7 DEF OnTime
<1>10. PairGap(D, n - i) = D[i + 1] - D[i]
  <2>1. Len(D) - (n - i) + 1 = i + 1 /\ Len(D) - (n - i) = i
    OBVIOUS
  <2>2. QED
    BY <2>1 DEF PairGap
<1>11. D[i + 1] - D[i] \in g - s.late .. g + s.late
  <2>0. PICK l \in Nat : l = s.late
    BY <1>1
  <2>1. PICK u \in Int : u = D[i] /\ a + x <= u /\ u <= a + x + l
    BY <1>8, <2>0
  <2>2. PICK v \in Int : v = D[i + 1] /\ a + x + g <= v /\ v <= a + x + g + l
    BY <1>9, <2>0
  <2>3. v - u \in g - l .. g + l
    <3>1. v - u \in Int /\ v - u >= g - l
      BY <2>1, <2>2
    <3>2. v - u <= g + l
      BY <2>1, <2>2
    <3>3. QED
      BY <3>1, <3>2
  <2>4. QED
    BY <2>0, <2>1, <2>2, <2>3
<1>12. QED
  BY <1>6, <1>10, <1>11 DEF Shows

\* The walk goes through the whole log of an uninterrupted ladder.
LEMMA WholeStreak ==
  ASSUME NEW s, Ordered(s), Steep(s), Telling(s), NEW t \in Nat, NEW D \in Seq(1 .. t), OnTime(s, D),
         NEW n \in Nat, n = Len(D), n # 0
  PROVE  Streak(s, D) = n
<1>1. PICK R : R = PairRung(s, D)
  OBVIOUS
<1>2. ASSUME n >= 2 PROVE \A k \in 1 .. n - 1 : Fits(s, R[k], n - k)
  <2>1. /\ R[1] = SeedRung(s, PairGap(D, 1))
        /\ \A k \in 1 .. n - 2 : R[k + 1] = IF R[k] = 0 THEN 0 ELSE Below(s, R[k], PairGap(D, k + 1))
    BY <1>1, <1>2, WalkRecursion
  <2> DEFINE S == {m \in Nat : m + 1 \in 1 .. n - 1 => Fits(s, R[m + 1], n - (m + 1))}
  <2>2. 0 \in S
    <3>1. n - 1 \in 1 .. n - 1 /\ n - (n - 1) = 1 /\ n - 1 \in Nat \ {0}
      BY <1>2
    <3>2. Shows(s, PairGap(D, n - (n - 1)), n - 1)
      BY <3>1, PairsShow
    <3>3. Shows(s, PairGap(D, 1), n - 1)
      BY <3>1, <3>2
    <3>4. Fits(s, R[1], n - 1)
      BY <2>1, <3>1, <3>3, SeedFits
    <3>5. QED
      BY <3>4
  <2>3. ASSUME NEW m \in Nat, m \in S PROVE m + 1 \in S
    <3> SUFFICES ASSUME (m + 1) + 1 \in 1 .. n - 1 PROVE Fits(s, R[(m + 1) + 1], n - ((m + 1) + 1))
      OBVIOUS
    <3>1. PICK k \in 1 .. n - 2 : k = m + 1
      OBVIOUS
    <3>2. PICK i \in 1 .. n - 1 : i = n - (k + 1)
      <4>1. n - (k + 1) \in 1 .. n - 1
        BY <3>1
      <4>2. QED
        BY <4>1
    <3>3. n - k = i + 1 /\ n - i = k + 1 /\ i \in Nat \ {0} /\ k \in 1 .. n - 1
      BY <3>2
    <3>4. Fits(s, R[k], i + 1)
      BY <2>3, <3>1, <3>3
    <3>5. Shows(s, PairGap(D, n - i), i)
      BY <3>2, PairsShow
    <3>6. Shows(s, PairGap(D, k + 1), i)
      BY <3>3, <3>5
    <3>7. R[k] # 0
      BY <3>4 DEF Fits
    <3>8. R[k + 1] = Below(s, R[k], PairGap(D, k + 1))
      BY <2>1, <3>7
    <3>9. Fits(s, Below(s, R[k], PairGap(D, k + 1)), i)
      BY <3>3, <3>4, <3>6, BelowFits
    <3>10. QED
      BY <3>1, <3>2, <3>8, <3>9
  <2>4. \A m \in Nat : m \in S
    <3> HIDE DEF S
    <3> QED BY <2>2, <2>3, EveryNatural
  <2>5. TAKE k \in 1 .. n - 1
  <2>6. k - 1 \in Nat /\ (k - 1) + 1 = k
    OBVIOUS
  <2>7. QED
    BY <2>4, <2>6
<1>3. \A k \in 1 .. n - 1 : R[k] > 0
  <2> TAKE k \in 1 .. n - 1
  <2>1. n >= 2
    OBVIOUS
  <2>2. R[k] \in 1 .. CapRung(s)
    BY <1>2, <2>1 DEF Fits
  <2>3. QED
    BY <2>2
<1>4. {k \in 1 .. Len(D) - 1 : R[k] > 0} = 1 .. n - 1
  BY <1>3
<1>5. Cardinality(1 .. n - 1) = n - 1
  <2>1. n - 1 \in Nat
    OBVIOUS
  <2>2. QED
    BY <2>1, FS_Interval
<1>6. Streak(s, D) = 1 + Cardinality({k \in 1 .. Len(D) - 1 : R[k] > 0})
  BY <1>1 DEF Streak
<1>7. 1 + (n - 1) = n
  OBVIOUS
<1>8. QED
  BY <1>4, <1>5, <1>6, <1>7, Zenon

\* A ladder that is not steep is at its cap from the first ping on.
LEMMA ShallowIsFlat ==
  ASSUME NEW s, Ordered(s), ~Steep(s), NEW r \in Nat, r # 0
  PROVE  gapAfter(s)[r] = s.max
<1>1. s.min \in Nat \ {0} /\ s.max \in Nat \ {0} /\ s.min <= s.max /\ s \in ScheduleType
  BY DEF Ordered, ScheduleType
<1>2. PICK g \in [Nat -> Nat] : g = gapAfter(s)
  BY <1>1, GapRecursion
<1>3. g[0] = s.min /\ g[0 + 1] = IF 2 * g[0] > s.max THEN s.max ELSE 2 * g[0]
  BY <1>1, <1>2, GapRecursion
<1>4. g[1] = s.max
  BY <1>1, <1>3 DEF Steep
<1>5. g[1] <= g[r] /\ g[r] \in s.min .. s.max
  <2>1. 1 \in Nat /\ 1 <= r
    OBVIOUS
  <2>2. QED
    BY <1>2, <2>1, GapsGrow
<1>6. QED
  BY <1>1, <1>2, <1>4, <1>5

\* The first n elements of D are mn apart at least.
ApartBy(D, n, mn) == \A i \in 1 .. n - 1 : D[i + 1] - D[i] >= mn

\* x grows by mn with every step, from mn.
GrowsBy(x, mn) == x[1] = mn /\ \A r \in Nat : x[r + 1] = x[r] + mn

LEMMA Telescope ==
  ASSUME NEW n \in Nat, NEW D \in [1 .. n -> Nat], NEW mn \in Nat, NEW x \in [Nat -> Nat],
         ApartBy(D, n, mn), GrowsBy(x, mn), NEW k \in 1 .. n
  PROVE  D[n - k + 1] + x[k] <= D[n] + mn
<1> DEFINE S == {j \in Nat : j < n => D[n - j] + x[j + 1] <= D[n] + mn}
<1>1. 0 \in S
  <2>1. n - 0 = n /\ 0 + 1 = 1 /\ n \in 1 .. n
    OBVIOUS
  <2>2. D[n] \in Nat /\ x[1] = mn
    BY <2>1 DEF GrowsBy
  <2>3. QED
    BY <2>1, <2>2
<1>2. ASSUME NEW j \in Nat, j \in S PROVE j + 1 \in S
  <2> SUFFICES ASSUME j + 1 < n PROVE D[n - (j + 1)] + x[(j + 1) + 1] <= D[n] + mn
    OBVIOUS
  <2>1. PICK i \in 1 .. n - 1 : i = n - (j + 1) /\ i + 1 = n - j
    <3>1. n - (j + 1) \in 1 .. n - 1 /\ n - (j + 1) + 1 = n - j
      OBVIOUS
    <3>2. QED
      BY <3>1
  <2>2. i \in 1 .. n /\ i + 1 \in 1 .. n /\ n \in 1 .. n /\ j + 1 \in Nat
    BY <2>1
  <2>3. PICK u, v, w \in Nat : u = D[i] /\ v = D[i + 1] /\ w = D[n]
    BY <2>2
  <2>4. v - u >= mn
    BY <2>3 DEF ApartBy
  <2>5. PICK y \in Nat : y = x[j + 1] /\ x[(j + 1) + 1] = y + mn
    BY <2>2 DEF GrowsBy
  <2>6. v + y <= w + mn
    BY <1>2, <2>1, <2>3, <2>5
  <2>7. u + (y + mn) <= w + mn
    BY <2>4, <2>6
  <2>8. QED
    BY <2>1, <2>3, <2>5, <2>7
<1>3. \A j \in Nat : j \in S
  <2> HIDE DEF S
  <2> QED BY <1>1, <1>2, EveryNatural
<1>4. k - 1 \in Nat /\ k - 1 < n /\ n - (k - 1) = n - k + 1 /\ (k - 1) + 1 = k
  OBVIOUS
<1>5. QED
  BY <1>3, <1>4

\* Of a flat ladder no fire is due later than one gap after the newest delivery, from
\* whichever delivery it is counted.
LEMMA FlatLadder ==
  ASSUME NEW s, Ordered(s), s.min = s.max, NEW t \in Nat, NEW D \in Seq(1 .. t), NEW n \in Nat, n = Len(D),
         ApartBy(D, n, s.min), NEW k \in 1 .. n
  PROVE  NextFire(s, LadderOf(s, D, k)) <= Newest(D) + s.min
<1>1. PICK mn \in Nat : mn = s.min /\ s \in ScheduleType
  BY DEF Ordered, ScheduleType
<1>2. D \in [1 .. n -> Nat] /\ \A i \in 1 .. n : D[i] \in 1 .. t
  <2>1. D \in [1 .. Len(D) -> 1 .. t]
    BY LenProperties
  <2>2. QED
    BY <2>1
<1>3. \A r \in Nat : gapAfter(s)[r] = mn
  <2> TAKE r \in Nat
  <2>1. gapAfter(s)[r] \in s.min .. s.max
    BY GapsGrow
  <2>2. QED
    BY <1>1, <2>1
<1>4. PICK x \in [Nat -> Nat] : (\A r \in Nat : x[r] = ladderSum(s)[r]) /\ GrowsBy(x, mn)
  <2> DEFINE y == [r \in Nat |-> ladderSum(s)[r]]
  <2>1. y \in [Nat -> Nat] /\ \A r \in Nat : y[r] = ladderSum(s)[r]
    BY <1>1, SumRecursion
  <2> HIDE DEF y
  <2>2. y[1] = mn
    BY <1>1, <2>1, FirstSums
  <2>3. ASSUME NEW r \in Nat PROVE y[r + 1] = y[r] + mn
    <3>1. r + 1 \in Nat
      OBVIOUS
    <3>2. ladderSum(s)[r + 1] = ladderSum(s)[r] + gapAfter(s)[r]
      BY <1>1, SumRecursion
    <3>3. QED
      BY <1>3, <2>1, <3>1, <3>2
  <2>4. QED
    BY <2>1, <2>2, <2>3 DEF GrowsBy
<1>5. D[n - k + 1] + x[k] <= D[n] + mn
  BY <1>1, <1>2, <1>4, Telescope
<1>6. n - k + 1 \in 1 .. n /\ n \in 1 .. n /\ k \in Nat /\ k + 1 \in Nat
  OBVIOUS
<1>7. PICK u, w \in Nat : u = D[n - k + 1] /\ w = D[n]
  BY <1>2, <1>6
<1>8. PICK y \in Nat : y = x[k] /\ ladderSum(s)[k + 1] = y + mn
  <2>1. x[k] \in Nat /\ x[k + 1] = x[k] + mn /\ x[k + 1] = ladderSum(s)[k + 1]
    BY <1>4, <1>6 DEF GrowsBy
  <2>2. QED
    BY <2>1
<1>9. NextFire(s, LadderOf(s, D, k)) = u - mn + (y + mn) /\ Newest(D) = w
  <2>1. TakenFrom(LadderOf(s, D, k), s, t, D, n, k)
    BY LadderFacts
  <2>2. QED
    BY <1>1, <1>7, <1>8, <2>1 DEF TakenFrom
<1>10. u - mn + (y + mn) <= w + mn
  <2>1. u + y <= w + mn
    BY <1>5, <1>7, <1>8
  <2>2. QED
    BY <2>1
<1>11. QED
  BY <1>1, <1>9, <1>10

-----------------------------------------------------------------------------
(* The behaviours *)

\* The fires since the last genuine activity and whether the join starts anew: it tells
\* the answers of the target from what others made it do.
AnswersTold ==
  IF fired = 0 THEN epoch = genuine /\ (deliveries = <<>> \/ ~Attributed(epoch, deliveries))
  ELSE deliveries # <<>> /\ Attributed(epoch, deliveries)

\* A ladder that nothing interrupts.
Uninterrupted ==
  schedule.activities = 0 =>
    /\ fired = Len(deliveries)
    /\ Steep(schedule) /\ Telling(schedule) => OnTime(schedule, deliveries)

BackoffTypes ==
  /\ schedule \in Schedules
  /\ clock \in 1 .. schedule.time /\ epoch \in 1 .. clock /\ genuine \in 1 .. epoch
  /\ deliveries \in Seq(1 .. clock)
  /\ fired \in 0 .. Len(deliveries)
  /\ activities \in 0 .. schedule.activities

BackoffInv == BackoffTypes /\ AnswersTold /\ Spaced /\ Uninterrupted

LEMMA SchedulesOrdered ==
  ASSUME NEW s \in Schedules
  PROVE  /\ Ordered(s) /\ s \in ScheduleType
         /\ s.min \in Nat \ {0} /\ s.max \in Nat \ {0} /\ s.late \in Nat
         /\ s.time \in Nat \ {0} /\ s.activities \in Nat
BY BackoffConstantsOK DEF Ordered, ScheduleType

LEMMA BackoffInitial == BackoffInit => BackoffInv
<1> SUFFICES ASSUME BackoffInit PROVE BackoffInv
  OBVIOUS
<1>1. /\ schedule \in Schedules /\ clock = 1 /\ epoch = 1 /\ genuine = 1
      /\ deliveries = <<>> /\ fired = 0 /\ activities = 0
  BY DEF BackoffInit
<1>2. schedule.time \in Nat \ {0} /\ schedule.activities \in Nat
  BY <1>1, SchedulesOrdered
<1>3. Len(deliveries) = 0 /\ deliveries \in Seq(1 .. clock)
  BY <1>1
<1>4. BackoffTypes
  BY <1>1, <1>2, <1>3 DEF BackoffTypes
<1>5. AnswersTold
  BY <1>1 DEF AnswersTold
<1>6. Spaced /\ Uninterrupted
  BY <1>1, <1>3 DEF Spaced, Uninterrupted, OnTime
<1>7. QED
  BY <1>4, <1>5, <1>6 DEF BackoffInv

\* A log with one more delivery.
LEMMA DeliveryAppended ==
  ASSUME NEW c \in Nat, NEW D \in Seq(1 .. c), NEW t \in Nat, c <= t, t >= 1
  PROVE  /\ Append(D, t) \in Seq(1 .. t) /\ Len(Append(D, t)) = Len(D) + 1
         /\ Append(D, t) # <<>> /\ Newest(Append(D, t)) = t
         /\ \A i \in 1 .. Len(D) : Append(D, t)[i] = D[i]
         /\ Append(D, t)[Len(D) + 1] = t
         /\ \A i \in 1 .. Len(D) : D[i] \in 1 .. c
         /\ D # <<>> => Len(D) \in 1 .. Len(D)
<1>1. Len(D) \in Nat
  BY LenProperties
<1>2. \A i \in 1 .. Len(D) : D[i] \in 1 .. c
  BY ElementOfSeq
<1>3. D \in Seq(1 .. t)
  <2>1. 1 .. c \subseteq 1 .. t
    OBVIOUS
  <2>2. QED
    BY <2>1
<1>4. /\ Append(D, t) \in Seq(1 .. t) /\ Len(Append(D, t)) = Len(D) + 1
      /\ \A i \in 1 .. Len(D) : Append(D, t)[i] = D[i]
      /\ Append(D, t)[Len(D) + 1] = t
  <2>1. t \in 1 .. t
    OBVIOUS
  <2>2. QED
    BY <1>3, <2>1, AppendProperties
<1>5. D # <<>> => Len(D) \in 1 .. Len(D)
  BY <1>1, EmptySeq
<1>6. Append(D, t) # <<>>
  BY <1>1, <1>4
<1>7. QED
  BY <1>2, <1>4, <1>5, <1>6 DEF Newest

\* The join of a log whose pings came on time is the ladder of its first delivery.
LEMMA JoinOnTime ==
  ASSUME NEW s \in Schedules, Steep(s), Telling(s), NEW c \in Nat, NEW D \in Seq(1 .. c),
         OnTime(s, D), NEW e \in Nat, D # <<>>, Attributed(e, D), NEW n \in Nat, n = Len(D)
  PROVE  /\ n # 0 /\ D[1] \in Nat
         /\ JoinAnchor(s, e, D) = LadderOf(s, D, n)
         /\ JoinAnchor(s, e, D).rung = n
         /\ NextFire(s, JoinAnchor(s, e, D)) = D[1] - s.min + ladderSum(s)[n + 1]
<1>1. n # 0
  BY EmptySeq
<1>2. Ordered(s) /\ s.min \in Nat \ {0} /\ s.late \in Nat /\ s \in ScheduleType
  BY SchedulesOrdered
<1>3. n \in 1 .. n /\ 1 \in 1 .. n /\ n \in Nat \ {0}
  BY <1>1
<1>4. \A i \in 1 .. n : D[i] \in 1 .. c
  BY ElementOfSeq
<1>5. Streak(s, D) = n
  BY <1>1, <1>2, WholeStreak
<1>6. PICK x \in Nat : x = ladderSum(s)[n]
  BY <1>2, SumRecursion
<1>7. PICK g \in Nat : g = gapAfter(s)[n]
  BY <1>2, GapRecursion
<1>8. ladderSum(s)[n + 1] = x + g
  BY <1>2, <1>6, <1>7, SumRecursion
<1>9. g >= 2 * s.min
  <2>1. gapAfter(s)[n] \in 2 * s.min .. s.max
    BY <1>2, <1>3, GapsDouble
  <2>2. QED
    BY <1>2, <1>7, <2>1
<1>10. PICK d \in Nat : d = D[1]
  BY <1>3, <1>4
<1>11. PICK l \in Nat : l = D[n]
  BY <1>3, <1>4
<1>12. l <= d - s.min + x + s.late
  BY <1>2, <1>3, <1>6, <1>10, <1>11 DEF OnTime
<1>13. TakenFrom(LadderOf(s, D, n), s, c, D, n, n)
  BY <1>2, <1>3, LadderFacts
<1>14. /\ NextFire(s, LadderOf(s, D, n)) = d - s.min + (x + g) /\ Newest(D) = l
       /\ LadderOf(s, D, n).rung = n
  <2>1. n - n + 1 = 1
    OBVIOUS
  <2>2. QED
    BY <1>8, <1>10, <1>11, <1>13, <2>1 DEF TakenFrom
<1>15. ~TooSoon(s, D, LadderOf(s, D, n))
  <2>1. s.late <= s.min
    BY <1>2, TellingNumbers
  <2>2. ~(d - s.min + (x + g) < l + s.min)
    <3>1. PICK mn, lt \in Nat : mn = s.min /\ lt = s.late
      BY <1>2
    <3>2. lt <= mn /\ g >= 2 * mn /\ l <= d - mn + x + lt
      BY <1>9, <1>12, <2>1, <3>1
    <3>3. d - mn + (x + g) >= l + mn
      BY <3>2
    <3>4. d - mn + (x + g) \in Int /\ l + mn \in Int
      OBVIOUS
    <3>5. QED
      BY <3>1, <3>3, <3>4
  <2>3. QED
    BY <1>14, <2>2 DEF TooSoon
<1>16. JoinAnchor(s, e, D) = LadderOf(s, D, n)
  BY <1>5, <1>15 DEF JoinAnchor
<1>17. QED
  BY <1>1, <1>8, <1>10, <1>14, <1>16

\* The log stays on time when the fire that is due is observed in time.
LEMMA OnTimeGoesOn ==
  ASSUME NEW s \in Schedules, Steep(s), Telling(s), NEW c \in Nat, NEW D \in Seq(1 .. c),
         OnTime(s, D), NEW e \in Nat, D # <<>> => Attributed(e, D),
         NEW t \in Nat, c <= t, t >= 1,
         t >= NextFire(s, JoinAnchor(s, e, D)), t <= NextFire(s, JoinAnchor(s, e, D)) + s.late
  PROVE  OnTime(s, Append(D, t))
<1>1. PICK n \in Nat : n = Len(D)
  BY LenProperties
<1>2. Ordered(s) /\ s.min \in Nat \ {0} /\ s.late \in Nat /\ s \in ScheduleType
  BY SchedulesOrdered
<1>3. PICK E : E = Append(D, t)
  OBVIOUS
<1>4. /\ Len(E) = n + 1 /\ E[n + 1] = t
      /\ \A i \in 1 .. n : E[i] = D[i] /\ D[i] \in 1 .. c
  BY <1>1, <1>3, DeliveryAppended
<1>5. CASE n = 0
  <2>1. E[1] = t /\ \A i \in 1 .. n + 1 : i = 1
    BY <1>4, <1>5
  <2>2. ladderSum(s)[1] = s.min
    BY <1>2, FirstSums
  <2>3. t \in t - s.min + ladderSum(s)[1] .. t - s.min + ladderSum(s)[1] + s.late
    BY <1>2, <2>2
  <2>4. QED
    BY <1>3, <1>4, <2>1, <2>3 DEF OnTime
<1>6. CASE n # 0
  <2>1. D # <<>> /\ 1 \in 1 .. n
    BY <1>1, <1>6
  <2>2. PICK d \in Nat : d = D[1]
    BY <1>4, <2>1
  <2>3. NextFire(s, JoinAnchor(s, e, D)) = d - s.min + ladderSum(s)[n + 1]
    BY <1>1, <2>1, <2>2, JoinOnTime
  <2>4. PICK x \in Nat : x = ladderSum(s)[n + 1]
    <3>1. n + 1 \in Nat
      OBVIOUS
    <3>2. QED
      BY <1>2, <3>1, SumRecursion
  <2>5. t \in d - s.min + ladderSum(s)[n + 1] .. d - s.min + ladderSum(s)[n + 1] + s.late
    BY <1>2, <2>3, <2>4
  <2>6. \A i \in 1 .. n + 1 : i \in 1 .. n \/ i = n + 1
    OBVIOUS
  <2>7. E[1] = d
    BY <1>4, <2>1, <2>2
  <2>8. ASSUME NEW i \in 1 .. n
        PROVE  E[i] \in d - s.min + ladderSum(s)[i] .. d - s.min + ladderSum(s)[i] + s.late
    BY <1>1, <1>4, <2>2 DEF OnTime
  <2>9. QED
    BY <1>3, <1>4, <2>5, <2>6, <2>7, <2>8 DEF OnTime
<1>7. QED
  BY <1>5, <1>6

\* What the invariant says of the schedule, the log and the join.
JoinKnown(due) ==
  /\ schedule \in Schedules /\ Ordered(schedule)
  /\ schedule.min \in Nat \ {0} /\ schedule.late \in Nat
  /\ schedule.time \in Nat \ {0} /\ schedule.activities \in Nat
  /\ clock \in Nat \ {0} /\ clock <= schedule.time
  /\ epoch \in 1 .. clock /\ genuine \in 1 .. epoch
  /\ deliveries \in Seq(1 .. clock) /\ Len(deliveries) \in Nat
  /\ fired \in 0 .. Len(deliveries) /\ activities \in 0 .. schedule.activities
  /\ due \in Int
  /\ deliveries # <<>> => Newest(deliveries) \in 1 .. clock /\ due >= Newest(deliveries) + schedule.min
  /\ deliveries = <<>> => due = epoch + schedule.min

LEMMA JoinIsKnown ==
  ASSUME BackoffTypes
  PROVE  JoinKnown(NextFire(schedule, Joined))
<1>1. /\ schedule \in Schedules /\ Ordered(schedule)
      /\ schedule.min \in Nat \ {0} /\ schedule.late \in Nat
      /\ schedule.time \in Nat \ {0} /\ schedule.activities \in Nat
  BY SchedulesOrdered DEF BackoffTypes
<1>2. /\ clock \in Nat \ {0} /\ clock <= schedule.time
      /\ epoch \in 1 .. clock /\ genuine \in 1 .. epoch /\ epoch \in Nat /\ epoch <= clock
  BY <1>1 DEF BackoffTypes
<1>3. /\ deliveries \in Seq(1 .. clock) /\ Len(deliveries) \in Nat
      /\ fired \in 0 .. Len(deliveries) /\ activities \in 0 .. schedule.activities
  BY LenProperties DEF BackoffTypes
<1>4. /\ NextFire(schedule, Joined) \in Int
      /\ deliveries # <<>> => NextFire(schedule, Joined) >= Newest(deliveries) + schedule.min
  <2>1. clock \in Nat
    BY <1>2
  <2>2. QED
    BY <1>1, <1>2, <1>3, <2>1, JoinFacts DEF Joined
<1>5. ASSUME deliveries # <<>> PROVE Newest(deliveries) \in 1 .. clock
  <2>1. Len(deliveries) \in 1 .. Len(deliveries)
    BY <1>3, <1>5, EmptySeq
  <2>2. deliveries[Len(deliveries)] \in 1 .. clock
    BY <1>3, <2>1, ElementOfSeq
  <2>3. QED
    BY <2>2 DEF Newest
<1>6. deliveries = <<>> => NextFire(schedule, Joined) = epoch + schedule.min
  BY <1>1, <1>2, JoinAnew DEF Joined
<1>7. QED
  BY <1>1, <1>2, <1>3, <1>4, <1>5, <1>6 DEF JoinKnown

\* A ping that is due comes later than everything the join knows, and the log with it
\* is that of the ladder, one fire on.
LEMMA PingStep ==
  ASSUME BackoffInv, NEW due, due = NextFire(schedule, Joined), NEW t \in clock .. schedule.time,
         t <= due + schedule.late, Ping(t, due)
  PROVE  BackoffInv'
<1>1. BackoffTypes /\ AnswersTold /\ Spaced /\ Uninterrupted
  BY DEF BackoffInv
<1>2. JoinKnown(due)
  BY <1>1, JoinIsKnown
<1>3. /\ t >= due /\ clock' = t /\ deliveries' = Append(deliveries, t) /\ fired' = fired + 1
      /\ schedule' = schedule /\ epoch' = epoch /\ genuine' = genuine /\ activities' = activities
  BY DEF Ping
<1>4. PICK n \in Nat : n = Len(deliveries)
  BY <1>2 DEF JoinKnown
<1>5. t \in Nat \ {0} /\ clock <= t /\ t <= schedule.time
  BY <1>2 DEF JoinKnown
<1>6. /\ deliveries' \in Seq(1 .. t) /\ Len(deliveries') = n + 1
      /\ deliveries' # <<>> /\ Newest(deliveries') = t
      /\ \A i \in 1 .. n : deliveries'[i] = deliveries[i]
      /\ deliveries'[n + 1] = t
      /\ \A i \in 1 .. n : deliveries[i] \in 1 .. clock
  <2>1. clock \in Nat /\ deliveries \in Seq(1 .. clock) /\ t \in Nat /\ t >= 1
    BY <1>2, <1>5 DEF JoinKnown
  <2>2. /\ Append(deliveries, t) \in Seq(1 .. t)
        /\ Len(Append(deliveries, t)) = Len(deliveries) + 1
        /\ Append(deliveries, t) # <<>> /\ Newest(Append(deliveries, t)) = t
        /\ \A i \in 1 .. Len(deliveries) : Append(deliveries, t)[i] = deliveries[i]
        /\ Append(deliveries, t)[Len(deliveries) + 1] = t
        /\ \A i \in 1 .. Len(deliveries) : deliveries[i] \in 1 .. clock
    BY <1>5, <2>1, DeliveryAppended
  <2>3. Newest(deliveries') = deliveries'[Len(deliveries')]
    BY DEF Newest
  <2>4. QED
    BY <1>3, <1>4, <2>2, <2>3
<1>7. BackoffTypes'
  <2>1. epoch \in 1 .. t /\ genuine \in 1 .. epoch
    BY <1>2, <1>5 DEF JoinKnown
  <2>2. fired + 1 \in 0 .. n + 1
    BY <1>2, <1>4 DEF JoinKnown
  <2>3. t \in 1 .. schedule.time /\ schedule \in Schedules /\ activities \in 0 .. schedule.activities
    BY <1>2, <1>5 DEF JoinKnown
  <2>4. QED
    BY <1>3, <1>6, <2>1, <2>2, <2>3 DEF BackoffTypes
<1>8. AnswersTold'
  <2>1. fired' # 0
    BY <1>2, <1>3 DEF JoinKnown
  <2>2. epoch <= t + Attribution
    BY <1>2, <1>5, BackoffConstantsOK DEF JoinKnown
  <2>3. Attributed(epoch', deliveries') <=> epoch' <= Newest(deliveries') + Attribution
    BY DEF Attributed
  <2>4. QED
    BY <1>3, <1>6, <2>1, <2>2, <2>3 DEF AnswersTold
<1>9. Spaced'
  <2> SUFFICES ASSUME NEW i \in 1 .. n
               PROVE  deliveries'[i + 1] - deliveries'[i] >= schedule.min
    BY <1>3, <1>6 DEF Spaced
  <2>1. CASE i = n
    <3>1. deliveries'[i + 1] = t /\ deliveries'[i] = deliveries[n]
      BY <1>6, <2>1
    <3>2. deliveries # <<>>
      BY <1>4
    <3>3. due \in Int /\ deliveries[n] \in 1 .. clock /\ due >= deliveries[n] + schedule.min
      BY <1>2, <1>4, <3>2 DEF JoinKnown, Newest
    <3>4. schedule.min \in Nat /\ clock \in Nat
      BY <1>2 DEF JoinKnown
    <3>5. QED
      BY <1>3, <1>5, <3>1, <3>3, <3>4
  <2>2. CASE i # n
    <3>1. i \in 1 .. n - 1 /\ i + 1 \in 1 .. n
      BY <2>2
    <3>2. QED
      BY <1>1, <1>4, <1>6, <3>1 DEF Spaced
  <2>3. QED
    BY <2>1, <2>2
<1>10. Uninterrupted'
  <2> SUFFICES ASSUME schedule.activities = 0
               PROVE  /\ fired' = Len(deliveries')
                      /\ Steep(schedule) /\ Telling(schedule) => OnTime(schedule, deliveries')
    BY <1>3, Zenon DEF Uninterrupted
  <2>1. fired = n
    BY <1>1, <1>4 DEF Uninterrupted
  <2>2. ASSUME Steep(schedule), Telling(schedule) PROVE OnTime(schedule, Append(deliveries, t))
    <3>1. OnTime(schedule, deliveries)
      BY <1>1, <2>2 DEF Uninterrupted
    <3>2. deliveries # <<>> => Attributed(epoch, deliveries)
      <4>1. deliveries # <<>> => n # 0
        BY <1>2, <1>4, EmptySeq DEF JoinKnown
      <4>2. QED
        BY <1>1, <2>1, <4>1 DEF AnswersTold
    <3>3. /\ schedule \in Schedules /\ clock \in Nat /\ deliveries \in Seq(1 .. clock)
          /\ epoch \in Nat /\ t \in Nat /\ t >= 1
      BY <1>2, <1>5 DEF JoinKnown
    <3>4. t >= NextFire(schedule, JoinAnchor(schedule, epoch, deliveries))
      BY <1>3 DEF Joined
    <3>5. t <= NextFire(schedule, JoinAnchor(schedule, epoch, deliveries)) + schedule.late
      BY DEF Joined
    <3>6. QED
      BY <1>5, <2>2, <3>1, <3>2, <3>3, <3>4, <3>5, OnTimeGoesOn
  <2>3. QED
    BY <1>3, <1>6, <2>1, <2>2
<1>11. QED
  BY <1>7, <1>8, <1>9, <1>10 DEF BackoffInv

\* An answer is attributed, and it comes to a ping: the log had been attributed before.
LEMMA AnswerStep ==
  ASSUME BackoffInv, NEW t \in clock .. schedule.time, Answer(t)
  PROVE  BackoffInv'
<1>1. BackoffTypes /\ AnswersTold /\ Spaced /\ Uninterrupted
  BY DEF BackoffInv
<1>2. PICK due : JoinKnown(due)
  BY <1>1, JoinIsKnown
<1>3. /\ deliveries # <<>> /\ t <= Newest(deliveries) + Attribution
      /\ clock' = t /\ epoch' = t
      /\ schedule' = schedule /\ deliveries' = deliveries /\ genuine' = genuine
      /\ fired' = fired /\ activities' = activities
  BY DEF Answer
<1>4. t \in Nat \ {0} /\ clock <= t /\ t <= schedule.time
  BY <1>2 DEF JoinKnown
<1>5. BackoffTypes'
  <2>1. genuine \in 1 .. t /\ t \in 1 .. t /\ t \in 1 .. schedule.time
    BY <1>2, <1>4 DEF JoinKnown
  <2>2. deliveries \in Seq(1 .. t)
    <3>1. 1 .. clock \subseteq 1 .. t
      BY <1>2, <1>4 DEF JoinKnown
    <3>2. QED
      BY <1>2, <3>1 DEF JoinKnown
  <2>3. QED
    BY <1>1, <1>3, <2>1, <2>2 DEF BackoffTypes
<1>6. AnswersTold'
  <2>1. fired # 0
    <3> SUFFICES ASSUME fired = 0 PROVE FALSE
      OBVIOUS
    <3>1. ~(epoch <= Newest(deliveries) + Attribution)
      BY <1>1, <1>3 DEF AnswersTold, Attributed
    <3>2. Newest(deliveries) \in Nat /\ epoch \in Nat /\ epoch <= clock
      BY <1>2, <1>3 DEF JoinKnown
    <3>3. QED
      BY <1>2, <1>3, <1>4, <3>1, <3>2, BackoffConstantsOK DEF JoinKnown
  <2>2. Newest(deliveries)' = Newest(deliveries)
    BY <1>3 DEF Newest
  <2>3. QED
    BY <1>3, <2>1, <2>2 DEF AnswersTold, Attributed
<1>7. Spaced' /\ Uninterrupted'
  BY <1>1, <1>3 DEF Spaced, Uninterrupted, OnTime
<1>8. QED
  BY <1>5, <1>6, <1>7 DEF BackoffInv

\* Activity of others is not taken for an answer: the ladder starts anew.
LEMMA ActivityStep ==
  ASSUME BackoffInv, NEW t \in clock .. schedule.time, Activity(t)
  PROVE  BackoffInv'
<1>1. BackoffTypes /\ AnswersTold /\ Spaced /\ Uninterrupted
  BY DEF BackoffInv
<1>2. PICK due : JoinKnown(due)
  BY <1>1, JoinIsKnown
<1>3. /\ activities < schedule.activities
      /\ deliveries # <<>> => t > Newest(deliveries) + Attribution
      /\ clock' = t /\ epoch' = t /\ genuine' = t /\ fired' = 0 /\ activities' = activities + 1
      /\ schedule' = schedule /\ deliveries' = deliveries
  BY DEF Activity
<1>4. t \in Nat \ {0} /\ clock <= t /\ t <= schedule.time
  BY <1>2 DEF JoinKnown
<1>5. BackoffTypes'
  <2>1. t \in 1 .. t /\ t \in 1 .. schedule.time
    BY <1>4
  <2>2. deliveries \in Seq(1 .. t)
    <3>1. 1 .. clock \subseteq 1 .. t
      BY <1>2, <1>4 DEF JoinKnown
    <3>2. QED
      BY <1>2, <3>1 DEF JoinKnown
  <2>3. activities + 1 \in 0 .. schedule.activities /\ 0 \in 0 .. Len(deliveries)
    BY <1>2, <1>3 DEF JoinKnown
  <2>4. QED
    BY <1>1, <1>3, <2>1, <2>2, <2>3 DEF BackoffTypes
<1>6. AnswersTold'
  <2>1. deliveries # <<>> => ~(t <= Newest(deliveries) + Attribution)
    BY <1>2, <1>3, <1>4, BackoffConstantsOK DEF JoinKnown
  <2>2. Newest(deliveries)' = Newest(deliveries)
    BY <1>3 DEF Newest
  <2>3. QED
    BY <1>3, <2>1, <2>2 DEF AnswersTold, Attributed
<1>7. schedule.activities # 0
  BY <1>2, <1>3 DEF JoinKnown
<1>8. Spaced' /\ Uninterrupted'
  BY <1>1, <1>3, <1>7 DEF Spaced, Uninterrupted
<1>9. QED
  BY <1>5, <1>6, <1>8 DEF BackoffInv

LEMMA BackoffInvHolds == BackoffSpec => []BackoffInv
<1>1. BackoffInv /\ [BackoffNext]_backoffVars => BackoffInv'
  <2> SUFFICES ASSUME BackoffInv, [BackoffNext]_backoffVars PROVE BackoffInv'
    OBVIOUS
  <2>1. CASE BackoffNext
    <3>1. PICK due : due = NextFire(schedule, Joined)
      OBVIOUS
    <3>2. PICK t \in clock .. schedule.time :
            t <= due + schedule.late /\ (Ping(t, due) \/ Answer(t) \/ Activity(t))
      BY <2>1, <3>1 DEF BackoffNext
    <3>3. QED
      BY <3>1, <3>2, PingStep, AnswerStep, ActivityStep
  <2>2. CASE UNCHANGED backoffVars
    <3>1. /\ schedule' = schedule /\ clock' = clock /\ epoch' = epoch /\ deliveries' = deliveries
          /\ genuine' = genuine /\ fired' = fired /\ activities' = activities
      BY <2>2 DEF backoffVars
    <3>2. QED
      BY <3>1 DEF BackoffInv, BackoffTypes, AnswersTold, Spaced, Uninterrupted, OnTime, Attributed, Newest
  <2>3. QED
    BY <2>1, <2>2
<1>2. QED
  BY BackoffInitial, <1>1, PTL DEF BackoffSpec

-----------------------------------------------------------------------------
(* Theorems *)

\* Every variable of the ladder keeps its type, and what the join returns is a rung
\* of as many pings as the log has, counted from a moment that is past.
THEOREM BackoffTypesHold == BackoffSpec => []BackoffTypeOK
<1>1. BackoffInv => BackoffTypeOK
  <2> SUFFICES ASSUME BackoffInv PROVE BackoffTypeOK
    OBVIOUS
  <2>1. BackoffTypes
    BY DEF BackoffInv
  <2>2. PICK due : JoinKnown(due)
    BY <2>1, JoinIsKnown
  <2>3. Joined.rung \in 0 .. Len(deliveries) /\ Joined.anchor <= clock
    <3>1. /\ Ordered(schedule) /\ clock \in Nat /\ epoch \in Nat /\ epoch <= clock
          /\ deliveries \in Seq(1 .. clock)
      BY <2>2 DEF JoinKnown
    <3>2. QED
      BY <3>1, JoinFacts DEF Joined
  <2>4. /\ {clock, epoch, genuine} \subseteq 1 .. schedule.time
        /\ epoch <= clock /\ genuine <= epoch
    BY <2>2 DEF JoinKnown
  <2>5. QED
    BY <2>1, <2>3, <2>4 DEF BackoffTypes, BackoffTypeOK
<1>2. QED
  BY BackoffInvHolds, <1>1, PTL

\* Whatever activity interrupts a ladder and however late a tick is, the target is not
\* pinged twice within the first gap.
THEOREM SpacedAlways == BackoffSpec => []Spaced
<1>1. BackoffInv => Spaced
  BY DEF BackoffInv
<1>2. QED
  BY BackoffInvHolds, <1>1, PTL

\* The join derives the gap after as many pings as there were from the log alone, for every
\* ladder whose rungs can be told apart.
THEOREM JoinCountsPingsAlways == BackoffSpec => []JoinCountsPings
<1>1. BackoffInv => JoinCountsPings
  <2> SUFFICES ASSUME BackoffInv, schedule.activities = 0, Telling(schedule) PROVE JoinIsExact
    BY DEF JoinCountsPings
  <2>1. BackoffTypes /\ AnswersTold /\ Uninterrupted
    BY DEF BackoffInv
  <2>2. PICK due : JoinKnown(due)
    BY <2>1, JoinIsKnown
  <2>3. PICK n \in Nat : n = Len(deliveries)
    BY <2>2 DEF JoinKnown
  <2>4. /\ schedule \in Schedules /\ Ordered(schedule)
        /\ clock \in Nat /\ epoch \in Nat /\ deliveries \in Seq(1 .. clock)
    BY <2>2 DEF JoinKnown
  <2>5. fired = n
    BY <2>1, <2>3 DEF Uninterrupted
  <2>6. CASE n = 0
    <3>1. deliveries = <<>>
      BY <2>3, <2>4, <2>6, EmptySeq
    <3>2. Joined.rung = 0
      BY <2>4, <3>1, JoinAnew DEF Joined
    <3>3. QED
      BY <2>5, <2>6, <3>2 DEF JoinIsExact
  <2>7. CASE n # 0
    <3>1. deliveries # <<>> /\ Attributed(epoch, deliveries)
      BY <2>1, <2>5, <2>7 DEF AnswersTold
    <3>2. CASE Steep(schedule)
      <4>1. OnTime(schedule, deliveries)
        BY <2>1, <3>2 DEF Uninterrupted
      <4>2. Joined.rung = n
        BY <2>3, <2>4, <3>1, <3>2, <4>1, JoinOnTime DEF Joined
      <4>3. QED
        BY <2>5, <4>2 DEF JoinIsExact
    <3>3. CASE ~Steep(schedule)
      <4>1. PICK k \in 1 .. n : Joined = LadderOf(schedule, deliveries, k)
        BY <2>3, <2>4, <3>1, JoinGoesOn DEF Joined
      <4>2. Joined.rung = k
        BY <4>1 DEF LadderOf
      <4>3. gapAfter(schedule)[k] = schedule.max /\ gapAfter(schedule)[n] = schedule.max
        BY <2>4, <2>7, <3>3, ShallowIsFlat
      <4>4. QED
        BY <2>5, <4>2, <4>3 DEF JoinIsExact
    <3>4. QED
      BY <3>2, <3>3
  <2>8. QED
    BY <2>6, <2>7
<1>2. QED
  BY BackoffInvHolds, <1>1, PTL

\* Late ticks do not add up: as long as nothing interrupts a ladder whose rungs can be told
\* apart, its fires stay due where the first ping put them, and no gap is over the cap.
NoDrift ==
  schedule.activities = 0 /\ Steep(schedule) /\ Telling(schedule) /\ fired > 0 =>
    /\ NextFire(schedule, Joined) = deliveries[1] - schedule.min + ladderSum(schedule)[fired + 1]
    /\ GapCapped

\* The ladder keeps the pace of its first ping (backoff.go, "observed fires drift late").
THEOREM NoDriftAlways == BackoffSpec => []NoDrift
<1>1. BackoffInv => NoDrift
  <2> SUFFICES ASSUME BackoffInv, schedule.activities = 0, Steep(schedule), Telling(schedule), fired > 0
               PROVE  /\ NextFire(schedule, Joined)
                           = deliveries[1] - schedule.min + ladderSum(schedule)[fired + 1]
                      /\ NextFire(schedule, Joined) <= Newest(deliveries) + schedule.max
    BY DEF NoDrift, GapCapped
  <2>1. BackoffTypes /\ AnswersTold /\ Uninterrupted
    BY DEF BackoffInv
  <2>2. PICK due : JoinKnown(due)
    BY <2>1, JoinIsKnown
  <2>3. PICK n \in Nat : n = Len(deliveries)
    BY <2>2 DEF JoinKnown
  <2>4. /\ schedule \in Schedules /\ Ordered(schedule) /\ schedule \in ScheduleType
        /\ schedule.min \in Nat /\ schedule.max \in Nat /\ schedule.late \in Nat
        /\ clock \in Nat /\ epoch \in Nat /\ deliveries \in Seq(1 .. clock)
    BY <2>2, SchedulesOrdered DEF JoinKnown
  <2>5. fired = n /\ OnTime(schedule, deliveries)
    BY <2>1, <2>3 DEF Uninterrupted
  <2>6. deliveries # <<>> /\ Attributed(epoch, deliveries)
    BY <2>1, <2>5 DEF AnswersTold
  <2>7. /\ NextFire(schedule, Joined) = deliveries[1] - schedule.min + ladderSum(schedule)[n + 1]
        /\ deliveries[1] \in Nat /\ n # 0
    BY <2>3, <2>4, <2>5, <2>6, JoinOnTime DEF Joined
  <2>8. PICK d, mn, mx \in Nat : d = deliveries[1] /\ mn = schedule.min /\ mx = schedule.max
    BY <2>4, <2>7
  <2>9. PICK x \in Nat : x = ladderSum(schedule)[n]
    BY <2>4, SumRecursion
  <2>10. PICK g \in Nat : g = gapAfter(schedule)[n] /\ g <= mx
    <3>1. gapAfter(schedule)[n] \in schedule.min .. schedule.max
      BY <2>4, GapsGrow
    <3>2. QED
      BY <2>4, <2>8, <3>1
  <2>11. ladderSum(schedule)[n + 1] = x + g
    BY <2>4, <2>9, <2>10, SumRecursion
  <2>12. Newest(deliveries) \in Nat /\ Newest(deliveries) >= d - mn + x
    <3>1. n \in 1 .. n
      BY <2>7
    <3>2. deliveries[n] \in 1 .. clock
      BY <2>3, <2>4, <3>1, ElementOfSeq
    <3>3. deliveries[n] >= d - mn + x
      BY <2>3, <2>4, <2>5, <2>8, <2>9, <3>1, <3>2 DEF OnTime
    <3>4. QED
      BY <2>3, <3>2, <3>3 DEF Newest
  <2>13. d - mn + (x + g) <= Newest(deliveries) + mx
    BY <2>10, <2>12
  <2>14. QED
    BY <2>5, <2>7, <2>8, <2>11, <2>13
<1>2. QED
  BY BackoffInvHolds, <1>1, PTL

\* A flat backoff fires one gap after the last activity, and then one gap after each
\* of its own pings: what the pings make the target do does not restart the count.
THEOREM FlatIsPeriodicAlways == BackoffSpec => []FlatIsPeriodic
<1>1. BackoffInv => FlatIsPeriodic
  <2> SUFFICES ASSUME BackoffInv, schedule.min = schedule.max
               PROVE  NextFire(schedule, Joined) =
                        schedule.min + (IF fired = 0 THEN genuine ELSE Newest(deliveries))
    BY DEF FlatIsPeriodic
  <2>1. BackoffTypes /\ AnswersTold /\ Spaced
    BY DEF BackoffInv
  <2>2. PICK due : due = NextFire(schedule, Joined) /\ JoinKnown(due)
    BY <2>1, JoinIsKnown
  <2>3. PICK n \in Nat : n = Len(deliveries)
    BY <2>2 DEF JoinKnown
  <2>4. /\ Ordered(schedule) /\ clock \in Nat /\ epoch \in Nat /\ deliveries \in Seq(1 .. clock)
    BY <2>2 DEF JoinKnown
  <2>5. CASE fired = 0
    <3>1. epoch = genuine /\ (deliveries = <<>> \/ ~Attributed(epoch, deliveries))
      BY <2>1, <2>5 DEF AnswersTold
    <3>2. NextFire(schedule, Joined) = epoch + schedule.min
      BY <2>4, <3>1, JoinAnew DEF Joined
    <3>3. schedule.min \in Nat
      BY <2>2 DEF JoinKnown
    <3>4. QED
      BY <2>4, <2>5, <3>1, <3>2, <3>3
  <2>6. CASE fired # 0
    <3>1. deliveries # <<>> /\ Attributed(epoch, deliveries)
      BY <2>1, <2>6 DEF AnswersTold
    <3>2. PICK k \in 1 .. n : Joined = LadderOf(schedule, deliveries, k)
      BY <2>3, <2>4, <3>1, JoinGoesOn DEF Joined
    <3>3. due <= Newest(deliveries) + schedule.min
      BY <2>1, <2>2, <2>3, <2>4, <3>2, FlatLadder DEF Spaced, ApartBy
    <3>4. due >= Newest(deliveries) + schedule.min /\ due \in Int
      BY <2>2, <3>1 DEF JoinKnown
    <3>5. Newest(deliveries) \in Nat /\ schedule.min \in Nat
      BY <2>2, <3>1 DEF JoinKnown
    <3>6. QED
      BY <2>2, <2>6, <3>3, <3>4, <3>5
  <2>7. QED
    BY <2>5, <2>6
<1>2. QED
  BY BackoffInvHolds, <1>1, PTL

=============================================================================
