------------------------------ MODULE CronTick ------------------------------
(***************************************************************************)
(* One sweep of the clock over the entries of one live server              *)
(* (internal/cron: tick.go, evaluate.go, schedule.go, wake.go, orphan.go,  *)
(* deliver.go, edit.go).  Invokers - the daemon's ticker and `rk cron      *)
(* tick` processes - take a file lock, evaluate the entries against the    *)
(* delivery log and the wake cursor, deliver, append one line per attempt, *)
(* expire orphans and write the cursor.  A process may die at any step:    *)
(* the files stay as they are and the lock is freed.                       *)
(*                                                                         *)
(* All entries aim at one pane.  An entry has the `every` schedule and     *)
(* perhaps a wake on the agents of the server.  Time is counted in         *)
(* seconds of a small clock; an entry is created at time 1.                *)
(*                                                                         *)
(* The Slip definitions are plausible mistakes in the definition after     *)
(* them; the runs must notice when one takes its place.                    *)
(***************************************************************************)
EXTENDS Integers, FiniteSets, Sequences, SequencesExt

CONSTANTS
  Entry,       \* entry ids
  Invoker,     \* processes that run ticks
  Editor,      \* processes that run `rk cron edit` or its HTTP handler
  HoldWindow,  \* DefaultHoldWindow
  RateWindow,  \* of the rate cap
  EditBudget,  \* editLockRetryBudget
  Setups       \* the installations a run starts from

\* An installation: its processes, what the entry file says of the entries,
\* and the bounds of the model in it.
SetupType ==
  [invokers : SUBSET Invoker,
   delivers : SUBSET Invoker,      \* those with a Deliverer: the daemon, not the command
   editors : SUBSET Editor,
   entries : SUBSET Entry,
   interval : Nat \ {0},           \* of the `every` schedule
   wakes : SUBSET Entry,           \* wake_on: agent-state-change
   debounce : Nat \ {0},           \* of the wakes
   whenIdle : SUBSET Entry,        \* deliver: when-idle
   skipIfBusy : SUBSET Entry,      \* deliver: skip-if-busy
   notify : SUBSET Entry,          \* if_absent: notify
   respawn : SUBSET Entry,         \* if_absent: respawn, with a command
   expirable : SUBSET Entry,       \* unpinned, with a session or pane target
   orphanTTL : Nat \ {0},
   rateCap : Nat \ {0},            \* DefaultTargetRatePerHour
   flips : SUBSET {"target", "busy", "others"},  \* what changes in the world
   maxTime : Nat \ {0},            \* bound of the model: the clock
   maxCrash : Nat,                 \* bound of the model: processes that die
   maxEdit : Nat,                  \* bound of the model: edits of one entry
   maxEdge : Nat]                  \* bound of the model: actionable transitions

None == 0

ASSUME ConstantsOK ==
  /\ HoldWindow \in Nat /\ RateWindow \in Nat /\ EditBudget \in Nat
  /\ IsFiniteSet(Entry)
  /\ None \notin Invoker \cup Editor /\ Invoker \cap Editor = {}
  /\ \A s \in Setups : s \in SetupType

CreatedAt == 1
AgentState == {"active", "idle"}
Outcome == {"delivered", "failed", "rate-capped", "no-deliverer", "held", "held-expired",
            "skipped-busy", "notified-absent", "skipped-absent", "respawned",
            "respawn-failed", "expired-orphan", "rescheduled"}

\* countsTowardRate and resolvedOutcome.
Counted == {"delivered", "failed", "notified-absent", "respawned", "respawn-failed"}
Evidence == {"delivered", "respawned"}

VARIABLES
  setup,
  now,
  resolved,     \* the target resolves to the pane
  busy,         \* its agent is active or waiting
  others,       \* state of the other agents of the server: what a wake looks at
  \* the files of the server
  present,      \* entries in the entry file
  edits,        \* how often the schedule of each entry was edited
  log,          \* the delivery log
  cursor,       \* the wake observation of each entry
  lock,         \* holder of the flock
  \* the processes
  tick,         \* tickServer of each invoker
  edit,         \* Edit of each editor
  \* history
  sent,         \* payloads that reached the pane
  held,         \* entries whose last fire was held and not settled since
  edges,        \* actionable transitions of the other agents
  crashes

world == <<setup, now, resolved, busy, others, edges>>
files == <<present, edits, log, cursor>>
history == <<sent, held>>
vars == <<world, files, lock, tick, edit, history, crashes>>

NoTick == [pc |-> "idle", now |-> None, fires |-> <<>>, absent |-> <<>>,
           gcLen |-> 0, orphans |-> {}, next |-> [e \in Entry |-> "none"], line |-> <<>>]
NoEdit == [pc |-> "idle", now |-> None, entry |-> None]

-----------------------------------------------------------------------------
Init ==
  /\ setup \in Setups
  /\ now = CreatedAt
  /\ resolved = TRUE
  /\ busy = FALSE
  /\ others = "active"
  /\ present = setup.entries
  /\ edits = [e \in Entry |-> 0]
  /\ log = <<>>
  /\ cursor = [e \in Entry |-> "none"]
  /\ lock = None
  /\ tick = [p \in Invoker |-> NoTick]
  /\ edit = [d \in Editor |-> NoEdit]
  /\ sent = <<>>
  /\ held = {}
  /\ edges = 0
  /\ crashes = 0

-----------------------------------------------------------------------------
(* The world *)

Advance ==
  /\ now < setup.maxTime
  /\ now' = now + 1
  /\ UNCHANGED <<setup, resolved, busy, others, edges, files, lock, tick, edit,
                 history, crashes>>

\* The pane of the target goes away or comes back.
FlipTarget ==
  /\ "target" \in setup.flips
  /\ resolved' = ~resolved
  /\ UNCHANGED <<setup, now, busy, others, edges, files, lock, tick, edit, history, crashes>>

FlipBusy ==
  /\ "busy" \in setup.flips
  /\ busy' = ~busy
  /\ UNCHANGED <<setup, now, resolved, others, edges, files, lock, tick, edit,
                 history, crashes>>

FlipOthers ==
  /\ "others" \in setup.flips
  /\ others = "idle" \/ edges < setup.maxEdge
  /\ others' \in AgentState \ {others}
  /\ edges' = IF others' = "active" THEN edges ELSE edges + 1
  /\ UNCHANGED <<setup, now, resolved, busy, files, lock, tick, edit, history,
                 crashes>>

-----------------------------------------------------------------------------
(* What the log says of an entry *)

Own(e, n) == {i \in 1 .. n : log[i].entry = e}

Latest(S) == CHOOSE i \in S : \A j \in S : j <= i
Oldest(S) == CHOOSE i \in S : \A j \in S : i <= j

\* Slip: the period counts from the first line.
SlipAnchor(e) == LET own == Own(e, Len(log))
                 IN  IF own = {} THEN CreatedAt ELSE log[Oldest(own)].ts

\* everyAnchor: the newest own line of any outcome, else the creation.
Anchor(e) == LET own == Own(e, Len(log))
             IN  IF own = {} THEN CreatedAt ELSE log[Latest(own)].ts

DueAt(e) == Anchor(e) + setup.interval

\* OrphanedSince over the first n lines; None if nothing says unresolved.
OrphanedSince(e, n) ==
  LET lines == {i \in Own(e, n) : log[i].outcome # "rescheduled"}
      run == {i \in lines : \A j \in lines : log[j].outcome \in Evidence => j < i}
  IN  IF Own(e, n) = {} THEN CreatedAt
      ELSE IF run = {} THEN None ELSE log[Oldest(run)].ts

\* Slip: the cap counts per entry, not per pane.
SlipRateCount(f, byPane, t) ==
  Cardinality({i \in DOMAIN log : /\ log[i].ts >= t - RateWindow
                                  /\ log[i].outcome \in Counted
                                  /\ log[i].entry = f.entry})

\* rateCount at tick time t: all fires into the pane, or the lines of the
\* entry.
RateCount(f, byPane, t) ==
  Cardinality({i \in DOMAIN log : /\ log[i].ts >= t - RateWindow
                                  /\ log[i].outcome \in Counted
                                  /\ IF byPane THEN log[i].pane ELSE log[i].entry = f.entry})

RateCapped(f, byPane, t) == RateCount(f, byPane, t) >= setup.rateCap

-----------------------------------------------------------------------------
(* Evaluate *)

ScheduleDue(e) == now >= DueAt(e)

\* Slip: the transition to active wakes too.
SlipActionable(e) == cursor[e] \notin {"none", others}

\* A transition to active advances the observation and never fires.
Actionable(e) == cursor[e] \notin {"none", others} /\ others # "active"

\* Slip: no hold after a delivery of one's own.
SlipDebounced(e) == FALSE

\* An edge within the debounce of the entry's own newest line stays pending.
Debounced(e) == Own(e, Len(log)) # {} /\ now - Anchor(e) < setup.debounce

WakeDue(e) == e \in setup.wakes /\ Actionable(e) /\ ~Debounced(e)

NextObservation(e) ==
  IF e \notin setup.wakes \/ (Actionable(e) /\ Debounced(e)) THEN cursor[e] ELSE others

\* The due entries in file order, each with its reason and its due time.
DueFires ==
  LET due == {e \in present : ScheduleDue(e) \/ WakeDue(e)}
  IN  [i \in 1 .. Cardinality(due) |->
         LET e == SetToSeq(due)[i]
         IN  IF ScheduleDue(e)
             THEN [entry |-> e, reason |-> "schedule", due |-> DueAt(e)]
             ELSE [entry |-> e, reason |-> "wake", due |-> now]]

\* Slip: pinned entries and roles are candidates too.
SlipOrphanCandidates == IF resolved THEN {} ELSE present

\* Unpinned session and pane targets, unresolved in the facts of this tick.
OrphanCandidates == IF resolved THEN {} ELSE present \cap setup.expirable

\* acquireLock: a held lock is a quiet no-op.
Lock(p) ==
  /\ tick[p].pc = "idle" /\ lock = None
  /\ lock' = p
  /\ tick' = [tick EXCEPT ![p].pc = "evaluate"]
  /\ UNCHANGED <<world, files, edit, history, crashes>>

\* LoadEntries, GatherFacts, ReadWakeCursor, ReadLog and Evaluate.
Evaluate(p) ==
  /\ tick[p].pc = "evaluate"
  /\ tick' = [tick EXCEPT ![p] =
       [pc |-> "fire", now |-> now,
        fires |-> IF resolved THEN DueFires ELSE <<>>,
        absent |-> IF resolved THEN <<>> ELSE DueFires,
        gcLen |-> Len(log),
        orphans |-> OrphanCandidates,
        next |-> [e \in Entry |-> IF e \in present THEN NextObservation(e) ELSE cursor[e]],
        line |-> <<>>]]
  /\ UNCHANGED <<world, files, lock, edit, history, crashes>>

-----------------------------------------------------------------------------
(* Delivery *)

Line(p, e, outcome, pane) ==
  [ts |-> tick[p].now, entry |-> e, outcome |-> outcome, pane |-> pane]

\* The when-idle gate on a busy pane, by the deliverer's own clock.
HoldOutcome(f) == IF now - f.due > HoldWindow THEN "held-expired" ELSE "held"

\* Deliver: what the fire f may come to at invoker p.  A send may fail, and
\* fails when the pane is gone.
DeliverOutcomes(p, f) ==
  IF p \notin setup.delivers THEN {"no-deliverer"}
  ELSE IF busy /\ f.entry \in setup.whenIdle THEN {HoldOutcome(f), "failed"}
  ELSE IF busy /\ f.entry \in setup.skipIfBusy THEN {"skipped-busy", "failed"}
  ELSE {"failed"} \cup (IF resolved THEN {"delivered"} ELSE {})

\* Slip: every outcome leaves a line.
SlipLogged(outcome) == TRUE

\* A held fire leaves no line: a line would move the anchor.
Logged(outcome) == outcome # "held"

\* One fire into the pane.
Deliver(p) ==
  /\ tick[p].pc = "fire" /\ tick[p].fires # <<>>
  /\ LET f == Head(tick[p].fires)
     IN  \E outcome \in IF RateCapped(f, TRUE, tick[p].now) THEN {"rate-capped"}
                        ELSE DeliverOutcomes(p, f) :
           /\ tick' = [tick EXCEPT ![p].fires = Tail(@),
                         ![p].pc = IF Logged(outcome) THEN "append" ELSE "fire",
                         ![p].line = IF Logged(outcome)
                                     THEN <<Line(p, f.entry, outcome, TRUE)>> ELSE <<>>]
           /\ held' = IF outcome = "held" THEN held \cup {f.entry} ELSE held
           /\ sent' = IF outcome = "delivered"
                      THEN Append(sent, [entry |-> f.entry, at |-> tick[p].now,
                                         reason |-> f.reason, logged |-> FALSE])
                      ELSE sent
  /\ UNCHANGED <<world, files, lock, edit, crashes>>

\* if_absent for one fire without a target.
AbsentOutcomes(e) ==
  IF e \in setup.respawn THEN {"respawned", "respawn-failed"}
  ELSE IF e \in setup.notify THEN {"notified-absent"} ELSE {"skipped-absent"}

\* Slip: a respawn is no reason to keep the entry.
SlipOrphansAfter(p, e, outcome) == tick[p].orphans

\* respawnedThisTick: the facts of the tick do not show the revived target.
OrphansAfter(p, e, outcome) ==
  IF outcome \in Evidence THEN tick[p].orphans \ {e} ELSE tick[p].orphans

Dispose(p) ==
  /\ tick[p].pc = "fire" /\ tick[p].fires = <<>> /\ tick[p].absent # <<>>
  /\ LET f == Head(tick[p].absent)
     IN  \E outcome \in IF RateCapped(f, FALSE, tick[p].now) THEN {"rate-capped"}
                        ELSE AbsentOutcomes(f.entry) :
           /\ tick' = [tick EXCEPT ![p].absent = Tail(@),
                         ![p].pc = "append",
                         ![p].line = <<Line(p, f.entry, outcome, FALSE)>>,
                         ![p].orphans = OrphansAfter(p, f.entry, outcome)]
           /\ IF outcome = "respawned"
              THEN resolved' = TRUE ELSE UNCHANGED resolved
  /\ UNCHANGED <<setup, now, busy, others, edges, files, lock, edit, history, crashes>>

\* AppendLog, after the fact.  Trimming loses the oldest lines only and is
\* left out.
AppendLine(p) ==
  /\ tick[p].pc = "append"
  /\ LET l == tick[p].line[1]
     IN  /\ log' = Append(log, l)
         /\ sent' = [i \in DOMAIN sent |->
                       [sent[i] EXCEPT !.logged = @ \/ (/\ i = Len(sent)
                                                        /\ l.outcome = "delivered")]]
         /\ held' = IF l.outcome = "held" THEN held ELSE held \ {l.entry}
  /\ tick' = [tick EXCEPT ![p].pc = "fire", ![p].line = <<>>]
  /\ UNCHANGED <<world, present, edits, cursor, lock, edit, crashes>>

-----------------------------------------------------------------------------
(* Orphan expiry and the end of the sweep *)

Fired(p) == tick[p].pc = "fire" /\ tick[p].fires = <<>> /\ tick[p].absent = <<>>

Expires(p, e) ==
  LET since == OrphanedSince(e, tick[p].gcLen)
  IN  since # None /\ tick[p].now - since >= setup.orphanTTL

\* Remove and the line that records it.
Expire(p, e) ==
  /\ Fired(p) /\ e \in tick[p].orphans /\ Expires(p, e) /\ e \in present
  /\ present' = present \ {e}
  /\ tick' = [tick EXCEPT ![p].orphans = @ \ {e}, ![p].pc = "append",
                          ![p].line = <<Line(p, e, "expired-orphan", FALSE)>>]
  /\ UNCHANGED <<world, edits, log, cursor, lock, edit, history, crashes>>

\* WriteWakeCursor comes last; then the lock is released.
Finish(p) ==
  /\ Fired(p)
  /\ \A e \in tick[p].orphans \cap present : ~Expires(p, e)
  /\ cursor' = tick[p].next
  /\ lock' = None
  /\ tick' = [tick EXCEPT ![p] = NoTick]
  /\ UNCHANGED <<world, present, edits, log, edit, history, crashes>>

-----------------------------------------------------------------------------
(* Edit: the time is taken before the lock, the file is written, then the   *)
(* line that resets the anchor.                                             *)

EditStart(d, e) ==
  /\ edit[d].pc = "idle" /\ edits[e] < setup.maxEdit
  /\ edit' = [edit EXCEPT ![d] = [pc |-> "lock", now |-> now, entry |-> e]]
  /\ UNCHANGED <<world, files, lock, tick, history, crashes>>

\* Slip: the edit does not wait for the lock.
SlipMayEdit(d) == TRUE

MayEdit(d) == lock = None

EditLock(d) ==
  /\ edit[d].pc = "lock" /\ MayEdit(d)
  /\ lock' = d
  /\ edit' = [edit EXCEPT ![d].pc = "save"]
  /\ UNCHANGED <<world, files, tick, history, crashes>>

\* The budget is spent before the lock is free.
EditGivesUp(d) ==
  /\ edit[d].pc = "lock" /\ lock # None /\ now >= edit[d].now + EditBudget
  /\ edit' = [edit EXCEPT ![d] = NoEdit]
  /\ UNCHANGED <<world, files, lock, tick, history, crashes>>

\* Update: an unknown id ends the edit.
EditSave(d) ==
  /\ edit[d].pc = "save"
  /\ LET e == edit[d].entry
     IN  IF e \in present
         THEN /\ edits' = [edits EXCEPT ![e] = @ + 1]
              /\ edit' = [edit EXCEPT ![d].pc = "append"]
              /\ UNCHANGED lock
         ELSE edit' = [edit EXCEPT ![d] = NoEdit] /\ lock' = None /\ UNCHANGED edits
  /\ UNCHANGED <<world, present, log, cursor, tick, history, crashes>>

EditAppend(d) ==
  /\ edit[d].pc = "append"
  /\ log' = Append(log, [ts |-> edit[d].now, entry |-> edit[d].entry,
                         outcome |-> "rescheduled", pane |-> FALSE])
  /\ held' = held \ {edit[d].entry}
  /\ edit' = [edit EXCEPT ![d] = NoEdit]
  /\ lock' = IF lock = d THEN None ELSE lock
  /\ UNCHANGED <<world, present, edits, cursor, tick, sent, crashes>>

-----------------------------------------------------------------------------
(* A process dies; the kernel frees its lock. *)

CrashTick(p) ==
  /\ crashes < setup.maxCrash
  /\ tick[p].pc # "idle"
  /\ tick' = [tick EXCEPT ![p] = NoTick]
  /\ lock' = None
  /\ crashes' = crashes + 1
  /\ UNCHANGED <<world, files, edit, history>>

CrashEdit(d) ==
  /\ crashes < setup.maxCrash
  /\ edit[d].pc \in {"save", "append"}
  /\ edit' = [edit EXCEPT ![d] = NoEdit]
  /\ lock' = IF lock = d THEN None ELSE lock
  /\ crashes' = crashes + 1
  /\ UNCHANGED <<world, files, tick, history>>

Next ==
  \/ Advance \/ FlipTarget \/ FlipBusy \/ FlipOthers
  \/ \E p \in setup.invokers :
       \/ Lock(p) \/ Evaluate(p) \/ Deliver(p) \/ Dispose(p) \/ AppendLine(p)
       \/ Finish(p) \/ CrashTick(p)
       \/ \E e \in setup.entries : Expire(p, e)
  \/ \E d \in setup.editors :
       \/ EditLock(d) \/ EditGivesUp(d) \/ EditSave(d) \/ EditAppend(d) \/ CrashEdit(d)
       \/ \E e \in setup.entries : EditStart(d, e)

Spec == Init /\ [][Next]_vars

-----------------------------------------------------------------------------
(* Properties *)

Time == 1 .. setup.maxTime
LineType == [ts : Time, entry : Entry, outcome : Outcome, pane : BOOLEAN]
FireType == [entry : Entry, reason : {"schedule", "wake"}, due : Nat]
SentType == [entry : Entry, at : Time, reason : {"schedule", "wake"}, logged : BOOLEAN]
ObservationType == [Entry -> AgentState \cup {"none"}]
TickType ==
  [pc : {"idle", "evaluate", "fire", "append"}, now : Time \cup {None},
   fires : Seq(FireType), absent : Seq(FireType), gcLen : Nat, orphans : SUBSET Entry,
   next : ObservationType, line : Seq(LineType)]
EditType ==
  [pc : {"idle", "lock", "save", "append"}, now : Time \cup {None}, entry : Entry \cup {None}]

TypeOK ==
  /\ setup \in Setups
  /\ now \in Time /\ resolved \in BOOLEAN /\ busy \in BOOLEAN /\ others \in AgentState
  /\ edges \in 0 .. setup.maxEdge
  /\ present \subseteq Entry
  /\ edits \in [Entry -> Nat]
  /\ log \in Seq(LineType)
  /\ cursor \in ObservationType
  /\ lock \in Invoker \cup Editor \cup {None}
  /\ tick \in [Invoker -> TickType] /\ \A p \in Invoker : tick[p].gcLen <= Len(log)
  /\ edit \in [Editor -> EditType]
  /\ sent \in Seq(SentType)
  /\ held \subseteq Entry
  /\ crashes \in 0 .. setup.maxCrash

\* "A restart's worst case is one duplicate idempotent fire" (docs/specs/cron.md):
\* however ticks, processes and crashes interleave, a payload enters the pane
\* a second time within one period at most once per process that died.  (An
\* edit starts a new period.)
RestartWorstCase ==
  Cardinality({i \in DOMAIN sent : /\ sent[i].reason = "schedule"
                                   /\ edits[sent[i].entry] = 0
                                   /\ \E j \in 1 .. i - 1 :
                                        /\ sent[i].entry = sent[j].entry
                                        /\ sent[i].at - sent[j].at < setup.interval})
    <= crashes

\* The cap bounds what enters one pane in any window, over all entries that
\* aim at it and also within one tick (tick.go, DefaultTargetRatePerHour); only
\* a delivery whose line a crash lost goes uncounted.
RateBound ==
  \A i \in DOMAIN sent :
    Cardinality({j \in DOMAIN sent : /\ sent[j].at <= sent[i].at
                                     /\ sent[j].at >= sent[i].at - RateWindow})
      <= setup.rateCap + crashes

\* A wake is caused by an agent that needs attention: an entry never wakes
\* more often than agents of the server stopped, except when a process died
\* before it had written the cursor (wake.go).
WakePerEdge ==
  \A e \in Entry :
    Cardinality({i \in DOMAIN sent : sent[i].entry = e /\ sent[i].reason = "wake"})
      <= edges + crashes

\* A burst coalesces: no wake follows a logged delivery of its own entry
\* within the debounce (wake.go, HOLD).  (The line of an edit may move the
\* anchor back.)
WakeSpacing ==
  \A i \in DOMAIN sent : \A j \in 1 .. i - 1 :
    /\ sent[i].reason = "wake" /\ edits[sent[i].entry] = 0
    /\ sent[j].entry = sent[i].entry /\ sent[j].logged
    => sent[i].at - sent[j].at >= setup.debounce

Evaluates(p) == tick[p].pc = "evaluate" /\ tick'[p].pc = "fire"

\* "Skipping the append makes re-evaluation the retry mechanism - the fire
\* recomputes as due on the next tick" (tick.go, Outcome.Held): a held fire is
\* due again in every later tick until a line settles it.  (Of an entry that
\* also wakes, the fire may be a wake, and a wake that is held is lost.)
HeldRecomputes ==
  [][\A p \in Invoker : Evaluates(p) /\ resolved =>
       \A e \in (held \ setup.wakes) \cap present :
         \E i \in DOMAIN tick'[p].fires : tick'[p].fires[i].entry = e]_vars

\* Resolution within the TTL - a delivery, or a respawn in the very tick that
\* expires - keeps an entry (orphan.go, respawnedThisTick).
ExpiryHasGrounds ==
  [][\A e \in present \ present' : \A i \in DOMAIN log :
       log[i].entry = e /\ log[i].outcome \in Evidence
         => \A p \in Invoker : tick[p].pc = "fire" => tick[p].now - log[i].ts >= setup.orphanTTL]_vars

\* The lock orders the anchor reset of an edit against a tick's
\* read-evaluate-append (edit.go): no tick evaluates an edited schedule without
\* the line that resets its anchor, unless the editor died between the two.
EditVisible ==
  [][\A p \in Invoker : Evaluates(p) =>
       \A e \in Entry :
         Cardinality({i \in Own(e, Len(log)) : log[i].outcome = "rescheduled"})
           >= edits[e] - crashes]_vars

=============================================================================
