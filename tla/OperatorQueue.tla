---------------------------- MODULE OperatorQueue ----------------------------
(***************************************************************************)
(* The operator-request queue of the daemon (api/operator_queue.go): HTTP  *)
(* handlers enqueue requests the operator was too busy to take, the poll   *)
(* units of the SSE hub reserve one of them per idle observation, and a    *)
(* detached goroutine delivers it and reports back.                        *)
(*                                                                         *)
(* A request is its number: requests are numbered in the order enqueue     *)
(* accepts them, and `home`, `key` and `age` are the fields of the Go      *)
(* struct.  A request has at most one delivery goroutine at a time         *)
(* (QueuedIsIdle), so its number also stands for the *queuedOperatorRequest *)
(* pointer that finishDelivery compares.  Times are ages that saturate     *)
(* just past the largest value the code compares them with.                *)
(*                                                                         *)
(* The Slip definitions are plausible mistakes in the definition after     *)
(* them; the runs must notice when one takes its place.                    *)
(***************************************************************************)
EXTENDS SeqFilter

CONSTANTS
  Server,        \* tmux servers
  Key,           \* operatorQueueKey values (template, scope, text hash)
  QueueCap,      \* operatorQueueCap
  TTL,           \* operatorQueueTTL
  MinGap,        \* operatorQueueMinGap
  MaxRequests    \* bound of the model: requests ever accepted

ASSUME ConstantsOK ==
  /\ QueueCap \in Nat \ {0}
  /\ TTL \in Nat
  /\ MinGap \in Nat
  /\ MaxRequests \in Nat

Id == 1 .. MaxRequests
None == 0

\* What a session fetch can say of the operator window of a server: it idles,
\* is active or waiting, has no reported state, does not exist, the whole tmux
\* socket is gone, or the fetch fails for another reason.  The operator may
\* change between any two reads, so a read returns any of them.
Observation == {"idle", "busy", "unknown", "absent", "gone", "error"}
Unread == {"gone", "error"}

\* Where a delivery goroutine stands: not running, before its fresh fetch,
\* before its injection, or about to report an outcome.
Step == {"none", "fetch", "inject", "deferred", "dropped", "delivered"}

Outcome == {"unborn", "pending", "delivered", "dropped", "expired", "reaped"}

VARIABLES
  queue,     \* t.queues
  inFlight,  \* t.inFlight: a request, or None
  gap,       \* age of t.lastSent, at most MinGap; MinGap when there is none
  home,      \* the server a request was enqueued for
  key,       \* request.key()
  age,       \* age of request.enqueuedAt, at most TTL + 1
  worker,    \* the delivery goroutine of each request
  view,      \* the snapshot a running poll unit holds: "none", or whether the
             \* operator idles in it
  results,   \* the unfolded poll results of each server
  nextId,    \* history: the number the next accepted request gets
  outcome,   \* history: what became of each request
  injected   \* history: the requests injected on each server, in order

vars == <<queue, inFlight, gap, home, key, age, worker, view, results, nextId,
          outcome, injected>>

Pending(s) == Len(queue[s]) + (IF inFlight[s] = None THEN 0 ELSE 1)

-----------------------------------------------------------------------------
Init ==
  /\ queue = [s \in Server |-> <<>>]
  /\ inFlight = [s \in Server |-> None]
  /\ gap = [s \in Server |-> MinGap]
  /\ home = [r \in Id |-> "unset"]
  /\ key = [r \in Id |-> "unset"]
  /\ age = [r \in Id |-> 0]
  /\ worker = [r \in Id |-> "none"]
  /\ view = [s \in Server |-> "none"]
  /\ results = [s \in Server |-> {}]
  /\ nextId = 1
  /\ outcome = [r \in Id |-> "unborn"]
  /\ injected = [s \in Server |-> <<>>]

\* Time passes for the send gaps and for every request still held (nothing
\* reads the age of another one).
Tick ==
  /\ age' = [r \in Id |-> IF outcome[r] # "pending" THEN 0
                          ELSE IF age[r] <= TTL THEN age[r] + 1 ELSE age[r]]
  /\ gap' = [s \in Server |-> IF gap[s] < MinGap THEN gap[s] + 1 ELSE gap[s]]
  /\ UNCHANGED <<queue, inFlight, home, key, worker, view, results,
                 nextId, outcome, injected>>

-----------------------------------------------------------------------------
(* enqueue *)

\* Slip: the request in flight left out of the comparison.
SlipCoalesceQueued(s, k) == \E i \in DOMAIN queue[s] : key[queue[s][i]] = k

\* The key is already waiting or being delivered on s.
Coalesces(s, k) ==
  \/ inFlight[s] # None /\ key[inFlight[s]] = k
  \/ \E i \in DOMAIN queue[s] : key[queue[s][i]] = k

\* Slip: a bound that forgets the request in flight.
SlipRoomInQueue(s) == Len(queue[s]) < QueueCap

HasRoom(s) == Pending(s) < QueueCap

\* An accepted request joins the back.  A coalesced or refused request
\* changes nothing, so only the accepting branch is a step.  The handler read
\* the busy state some time before, so the operator may be in any state now.
Enqueue(s, k) ==
  /\ nextId \in Id
  /\ ~Coalesces(s, k)
  /\ HasRoom(s)
  /\ home' = [home EXCEPT ![nextId] = s]
  /\ key' = [key EXCEPT ![nextId] = k]
  /\ queue' = [queue EXCEPT ![s] = Append(@, nextId)]
  /\ outcome' = [outcome EXCEPT ![nextId] = "pending"]
  /\ nextId' = nextId + 1
  /\ UNCHANGED <<inFlight, gap, age, worker, view, results, injected>>

-----------------------------------------------------------------------------
(* advance, called by the poll unit of a server *)

\* The result of a unit whose fetch failed: it says that the server is dead,
\* or, after any other failure, neither that nor that it was polled.
FailedResult(seen) == IF seen = "gone" THEN "dead" ELSE "failed"

\* The unit's session fetch.  A failure ends the unit with its result, before
\* it gets to advance.
PollFetch(s) ==
  /\ view[s] = "none"
  /\ \E seen \in Observation :
       IF seen \in Unread
       THEN /\ results' = [results EXCEPT ![s] = @ \cup {FailedResult(seen)}]
            /\ UNCHANGED view
       ELSE /\ view' = [view EXCEPT ![s] = IF seen = "idle" THEN "idle" ELSE "other"]
            /\ UNCHANGED results
  /\ UNCHANGED <<queue, inFlight, gap, home, key, age, worker, nextId, outcome,
                 injected>>

\* Slip: stale entries kept.
SlipKeepStale(s) == queue[s]

\* expireLocked: what is left of a queue once the stale entries are dropped.
Unexpired(s) ==
  KeepAt(queue[s], {i \in DOMAIN queue[s] : age[queue[s][i]] <= TTL})

\* Slip: the slot not checked.
SlipReserveTwice(s) ==
  /\ view[s] = "idle"
  /\ Unexpired(s) # <<>>
  /\ gap[s] >= MinGap

MayReserve(s) ==
  /\ inFlight[s] = None
  /\ view[s] = "idle"
  /\ Unexpired(s) # <<>>
  /\ gap[s] >= MinGap

\* The snapshot may be older than the operator's present state.
Advance(s) ==
  /\ view[s] # "none"
  /\ outcome' = [r \in Id |->
                   IF r \in Elems(queue[s]) \ Elems(Unexpired(s))
                   THEN "expired" ELSE outcome[r]]
  /\ \/ /\ MayReserve(s)
        /\ queue' = [queue EXCEPT ![s] = Tail(Unexpired(s))]
        /\ inFlight' = [inFlight EXCEPT ![s] = Head(Unexpired(s))]
        /\ gap' = [gap EXCEPT ![s] = 0]
        /\ worker' = [worker EXCEPT ![Head(Unexpired(s))] = "fetch"]
     \/ /\ ~MayReserve(s)
        /\ queue' = [queue EXCEPT ![s] = Unexpired(s)]
        /\ UNCHANGED <<inFlight, gap, worker>>
  /\ view' = [view EXCEPT ![s] = "none"]
  /\ results' = [results EXCEPT ![s] = @ \cup {"polled"}]
  /\ UNCHANGED <<home, key, age, nextId, injected>>

-----------------------------------------------------------------------------
(* retain, called by the poll loop after it folded the unit results *)

\* A server is reaped when a folded result says it is dead and none says it
\* was polled.  A failed fetch says neither, and keeps the queue.
Reaped == {s \in Server : "dead" \in results[s] /\ "polled" \notin results[s]}

Retain ==
  /\ \E s \in Server : results[s] # {}
  /\ queue' = [s \in Server |-> IF s \in Reaped THEN <<>> ELSE queue[s]]
  /\ inFlight' = [s \in Server |-> IF s \in Reaped THEN None ELSE inFlight[s]]
  /\ gap' = [s \in Server |-> IF s \in Reaped THEN MinGap ELSE gap[s]]
  /\ outcome' = [r \in Id |-> IF home[r] \in Reaped /\ outcome[r] = "pending"
                              THEN "reaped" ELSE outcome[r]]
  /\ results' = [s \in Server |-> {}]
  /\ UNCHANGED <<home, key, age, worker, view, nextId, injected>>

-----------------------------------------------------------------------------
(* the delivery goroutine: operatorQueueDeliver, then finishDelivery *)

\* The fresh fetch and the checks before the injection: a failed fetch defers,
\* an absent operator or a subject that is gone drops, a busy operator defers;
\* the idle and the unknown state pass.
DeliveryGate(seen, subjectThere) ==
  CASE seen \in Unread -> "deferred"
    [] seen = "absent" \/ (seen \notin Unread /\ ~subjectThere) -> "dropped"
    [] seen = "busy" /\ subjectThere -> "deferred"
    [] seen \in {"idle", "unknown"} /\ subjectThere -> "inject"

DeliverFetch(r) ==
  /\ worker[r] = "fetch"
  /\ \E seen \in Observation : \E subjectThere \in BOOLEAN :
       worker' = [worker EXCEPT ![r] = DeliveryGate(seen, subjectThere)]
  /\ UNCHANGED <<queue, inFlight, gap, home, key, age, view, results, nextId,
                 outcome, injected>>

\* injectIntoPane: the prompt reaches the pane, or it does not.
DeliverInject(r) ==
  /\ worker[r] = "inject"
  /\ \/ /\ injected' = [injected EXCEPT ![home[r]] = Append(@, r)]
        /\ \E step \in {"delivered", "dropped"} :
             worker' = [worker EXCEPT ![r] = step]
     \/ /\ worker' = [worker EXCEPT ![r] = "dropped"]
        /\ UNCHANGED injected
  /\ UNCHANGED <<queue, inFlight, gap, home, key, age, view, results,
                 nextId, outcome>>

\* Slip: a deferred request joins the back.
SlipRequeueLast(r) == Append(queue[home[r]], r)

\* requeueFront drops the duplicates of the key it puts back at the front.
Requeued(r) ==
  LET s == home[r]
  IN  <<r>> \o KeepAt(queue[s], {i \in DOMAIN queue[s] : key[queue[s][i]] # key[r]})

\* Slips: every failure retried; a busy rejection consumed.
SlipRetryAll(r) == worker[r] \in {"deferred", "dropped"}
SlipRetryNone(r) == worker[r] = "none"

\* Only a busy rejection and a failed fetch go back to the queue.
Retryable(r) == worker[r] = "deferred"

\* Slip: the identity of the request in flight not compared.
SlipAnyOwner(r) == worker[r] # "none"

\* A late completion of a reaped request finds another in-flight request, or
\* none, and leaves the state alone.
StillReserved(r) == inFlight[home[r]] = r

FinishDelivery(r) ==
  /\ worker[r] \in {"deferred", "dropped", "delivered"}
  /\ worker' = [worker EXCEPT ![r] = "none"]
  /\ \/ /\ ~StillReserved(r)
        /\ UNCHANGED <<queue, inFlight, outcome>>
     \/ /\ StillReserved(r)
        /\ inFlight' = [inFlight EXCEPT ![home[r]] = None]
        /\ IF Retryable(r)
           THEN queue' = [queue EXCEPT ![home[r]] = Requeued(r)] /\ UNCHANGED outcome
           ELSE outcome' = [outcome EXCEPT ![r] = worker[r]] /\ UNCHANGED queue
  /\ UNCHANGED <<gap, home, key, age, view, results, nextId, injected>>

-----------------------------------------------------------------------------
Next ==
  \/ Tick
  \/ Retain
  \/ \E s \in Server : \/ \E k \in Key : Enqueue(s, k)
                       \/ PollFetch(s)
                       \/ Advance(s)
  \/ \E r \in Id : \/ DeliverFetch(r)
                   \/ DeliverInject(r)
                   \/ FinishDelivery(r)

Spec == Init /\ [][Next]_vars

\* A subscribed client keeps the hub polling, a goroutine runs to its end
\* (every command it runs has a deadline), and time passes.  Nothing is
\* assumed of the operator or of the tmux server: a fetch may fail every time.
Fairness ==
  /\ WF_vars(Tick)
  /\ WF_vars(Retain)
  /\ \A s \in Server : WF_vars(PollFetch(s)) /\ WF_vars(Advance(s))
  /\ \A r \in Id : WF_vars(DeliverFetch(r) \/ DeliverInject(r) \/ FinishDelivery(r))

FairSpec == Spec /\ Fairness

-----------------------------------------------------------------------------
(* Properties *)

TypeOK ==
  /\ queue \in [Server -> Seq(Id)]
  /\ inFlight \in [Server -> Id \cup {None}]
  /\ gap \in [Server -> 0 .. MinGap]
  /\ home \in [Id -> Server \cup {"unset"}]
  /\ key \in [Id -> Key \cup {"unset"}]
  /\ age \in [Id -> 0 .. TTL + 1]
  /\ worker \in [Id -> Step]
  /\ view \in [Server -> {"none", "idle", "other"}]
  /\ results \in [Server -> SUBSET {"polled", "dead", "failed"}]
  /\ nextId \in 1 .. MaxRequests + 1
  /\ outcome \in [Id -> Outcome]
  /\ injected \in [Server -> Seq(Id)]

\* The requests a server still owes an answer.
Held(s) == Elems(queue[s]) \cup ({inFlight[s]} \ {None})

\* "A busy race cannot briefly admit a ninth pending intent"
\* (operator_queue.go:76-78): the queue and the request in flight together
\* never exceed the cap, also after a busy operator sent the request back.
PendingBound == \A s \in Server : Pending(s) <= QueueCap

\* A user who repeats a request while it waits or is being delivered never
\* gets it delivered twice: the held requests of a server have distinct keys.
NoDuplicateIntent ==
  \A s \in Server : \A r1, r2 \in Held(s) : key[r1] = key[r2] => r1 = r2

\* First come, first served, across every deferral: a request in flight is
\* older than all that wait and the queue is in the order of acceptance.
ArrivalOrder ==
  \A s \in Server :
    /\ Increasing(queue[s])
    /\ inFlight[s] # None => \A r \in Elems(queue[s]) : inFlight[s] < r

\* What a server holds is what it accepted and has not settled: no request is
\* lost between the queue, the reservation and a deferral, and none that was
\* reaped with its server, expired or delivered comes back by a late
\* completion (operator_queue.go:166-167).
HeldIsPending ==
  \A r \in Id : outcome[r] = "pending" <=> home[r] \in Server /\ r \in Held(home[r])

\* A queued request has no goroutine and at most one goroutine of a server is
\* the one in flight; every other one belongs to a request that was reaped.
QueuedIsIdle ==
  \A s \in Server :
    /\ \A r \in Elems(queue[s]) : worker[r] = "none"
    /\ \A r \in Id : worker[r] # "none" /\ home[r] = s /\ inFlight[s] # r
                      => outcome[r] = "reaped"

\* Only failures known to happen before the injection are retried
\* (operator_queue.go:164-165): no prompt is pasted twice, whatever the
\* operator and the poll units do in between.
InjectedOnce ==
  \A s \in Server : \A i, j \in DOMAIN injected[s] :
    injected[s][i] = injected[s][j] => i = j

\* A reservation takes a request that is not stale, after the send gap, and
\* takes the oldest one: what the snapshot and the queue said at that moment
\* holds together in one step.
ReservesFresh ==
  [][\A s \in Server :
       inFlight'[s] \notin {None, inFlight[s]} =>
         /\ age[inFlight'[s]] <= TTL
         /\ \A r \in Held(s) : r < inFlight'[s] => age[r] > TTL]_vars

\* The last thing a unit of s learned of its server was that it is there, or
\* that it is gone: not that the fetch failed.
Answered(s) == view[s] # "none" \/ results[s] \cap {"polled", "dead"} # {}

\* Every accepted request is settled in the end - delivered, dropped, expired
\* or reaped with its server - however busy the operator is.  Only a server
\* whose fetches fail from some time on for ever keeps its queue, unexpired
\* (operator_queue.go:187, "Transient fetch failures preserve queues"); one
\* that answers again and again between its failures does not.
Settles ==
  \A s \in Server, r \in Id :
    (outcome[r] = "pending" /\ home[r] = s)
      ~> (outcome[r] # "pending" \/ []~Answered(s))

=============================================================================
