------------------------- MODULE OperatorQueueProofs -------------------------
(***************************************************************************)
(* The safety of the operator queue for every set of servers and keys and  *)
(* every cap, lifetime, gap and number of requests.                        *)
(*                                                                         *)
(* The properties are not inductive one by one: that a requeued request    *)
(* still fits needs that it is not queued already, which needs the order;  *)
(* that it comes back to the same place needs that no queued request has   *)
(* its key; that it is not injected again needs that its goroutine was the *)
(* only one.  Inv joins them with Ownership (a held request belongs to its *)
(* server and is pending, and only an accepted request runs) and Ledger    *)
(* (an injected request never comes before its injection again).           *)
(***************************************************************************)
EXTENDS OperatorQueue, SeqFilterProofs

Ownership ==
  /\ \A s \in Server : \A r \in Held(s) : home[r] = s /\ outcome[r] = "pending"
  /\ \A r \in Id : outcome[r] = "pending" => r \in Held(home[r])
  /\ \A r \in Id : /\ outcome[r] = "unborn" <=> r >= nextId
                   /\ outcome[r] = "unborn" => worker[r] = "none"
                   /\ outcome[r] # "unborn" => home[r] \in Server

Ledger ==
  \A s \in Server : \A i \in DOMAIN injected[s] :
    /\ home[injected[s][i]] = s
    /\ outcome[injected[s][i]] # "unborn"
    /\ \/ worker[injected[s][i]] \in {"delivered", "dropped"}
       \/ worker[injected[s][i]] = "none" /\ outcome[injected[s][i]] # "pending"

Inv ==
  /\ TypeOK
  /\ PendingBound
  /\ NoDuplicateIntent
  /\ ArrivalOrder
  /\ Ownership
  /\ QueuedIsIdle
  /\ Ledger
  /\ InjectedOnce

-----------------------------------------------------------------------------
(* What the two filters of the queue return *)

LEMMA UnexpiredFacts ==
  ASSUME TypeOK, NEW s \in Server
  PROVE  /\ Unexpired(s) \in Seq(Id)
         /\ Len(Unexpired(s)) <= Len(queue[s])
         /\ Elems(Unexpired(s)) = {r \in Elems(queue[s]) : age[r] <= TTL}
         /\ Increasing(queue[s]) => Increasing(Unexpired(s))
<1> DEFINE q == queue[s]
           K == {i \in DOMAIN q : age[q[i]] <= TTL}
<1>1. q \in Seq(Id) /\ K \in SUBSET DOMAIN q /\ Id \in SUBSET Int
  BY DEF TypeOK, Id
<1>2. Unexpired(s) = KeepAt(q, K)
  BY DEF Unexpired
<1>3. /\ KeepAt(q, K) \in Seq(Id)
      /\ Len(KeepAt(q, K)) = Cardinality(K)
      /\ Cardinality(K) <= Len(q)
      /\ Elems(KeepAt(q, K)) = {q[i] : i \in K}
  <2> HIDE DEF q, K
  <2> QED BY <1>1, KeepAtProperties
<1>4. {q[i] : i \in K} = {r \in Elems(q) : age[r] <= TTL}
  BY DEF Elems
<1>5. Increasing(q) => Increasing(KeepAt(q, K))
  <2> HIDE DEF q, K
  <2> QED BY <1>1, KeepAtIncreasing
<1>6. QED
  BY <1>2, <1>3, <1>4, <1>5

LEMMA RequeuedFacts ==
  ASSUME TypeOK, NEW r \in Id, home[r] \in Server
  PROVE  /\ Requeued(r) \in Seq(Id)
         /\ Len(Requeued(r)) <= Len(queue[home[r]]) + 1
         /\ Elems(Requeued(r)) =
              {r} \cup {x \in Elems(queue[home[r]]) : key[x] # key[r]}
         /\ Increasing(queue[home[r]]) /\ (\A x \in Elems(queue[home[r]]) : r < x)
              => Increasing(Requeued(r))
<1> DEFINE q == queue[home[r]]
           K == {i \in DOMAIN q : key[q[i]] # key[r]}
           f == KeepAt(q, K)
<1>1. q \in Seq(Id) /\ K \in SUBSET DOMAIN q /\ Id \in SUBSET Int /\ Len(q) \in Nat
  BY DEF TypeOK, Id
<1>2. Requeued(r) = <<r>> \o f
  BY DEF Requeued
<1>3. /\ f \in Seq(Id)
      /\ Len(f) = Cardinality(K)
      /\ Cardinality(K) \in Nat
      /\ Cardinality(K) <= Len(q)
      /\ Elems(f) = {q[i] : i \in K}
  <2> HIDE DEF q, K
  <2> QED BY <1>1, KeepAtProperties
<1>4. {q[i] : i \in K} = {x \in Elems(q) : key[x] # key[r]}
  BY DEF Elems
<1>5. Increasing(q) => Increasing(f)
  <2> HIDE DEF q, K
  <2> QED BY <1>1, KeepAtIncreasing
<1>6. /\ <<r>> \o f \in Seq(Id)
      /\ Len(<<r>> \o f) = Len(f) + 1
      /\ Elems(<<r>> \o f) = {r} \cup Elems(f)
      /\ (<<r>> \o f)[1] = r
      /\ \A i \in DOMAIN (<<r>> \o f) :
           i = 1 \/ (i - 1 \in DOMAIN f /\ (<<r>> \o f)[i] = f[i - 1])
  <2>1. f \in Seq(Id)
    BY <1>3
  <2> HIDE DEF f
  <2>2. ASSUME NEW g \in Seq(Id), g = f PROVE <1>6!:
    BY <2>2, ConsFacts
  <2>3. QED
    BY <2>1, <2>2
<1>7. ASSUME Increasing(q), \A x \in Elems(q) : r < x
      PROVE  Increasing(<<r>> \o f)
  <2> DEFINE c == <<r>> \o f
  <2>1. \A x \in Elems(f) : r < x
    BY <1>3, <1>4, <1>7
  <2>2. \A i \in DOMAIN f : r < f[i]
    BY <2>1 DEF Elems
  <2>3. DOMAIN c \subseteq Int
    BY <1>6
  <2> HIDE DEF f, c, q
  <2>4. ASSUME NEW i \in DOMAIN c, NEW j \in DOMAIN c, i < j
        PROVE  c[i] < c[j]
    <3>1. i \in Int /\ j \in Int
      BY <2>3
    <3>2. j = 1 \/ (j - 1 \in DOMAIN f /\ c[j] = f[j - 1])
      BY <1>6 DEF c
    <3>3. i = 1 \/ (i - 1 \in DOMAIN f /\ c[i] = f[i - 1])
      BY <1>6 DEF c
    <3>4. DOMAIN f = 1 .. Len(f) /\ Len(f) \in Nat
      BY <1>3
    <3>5. CASE i = 1
      BY <1>6, <2>2, <2>4, <3>1, <3>2, <3>5 DEF c
    <3>6. CASE i - 1 \in DOMAIN f /\ c[i] = f[i - 1]
      <4>1. j # 1
        BY <2>4, <3>1, <3>4, <3>6
      <4>2. i - 1 \in DOMAIN f /\ j - 1 \in DOMAIN f /\ i - 1 < j - 1
        BY <2>4, <3>1, <3>2, <3>6, <4>1
      <4>3. f[i - 1] < f[j - 1]
        BY <1>5, <1>7, <4>2 DEF Increasing
      <4>4. QED
        BY <3>2, <3>6, <4>1, <4>3
    <3>7. QED
      BY <3>3, <3>5, <3>6
  <2>5. QED
    BY <2>4 DEF Increasing, c
<1>8. QED
  <2> HIDE DEF f, q, K
  <2>1. Len(<<r>> \o f) <= Len(q) + 1
    BY <1>1, <1>3, <1>6
  <2>2. Elems(<<r>> \o f) = {r} \cup {x \in Elems(q) : key[x] # key[r]}
    BY <1>3, <1>4, <1>6
  <2>3. QED
    BY <1>2, <1>6, <1>7, <2>1, <2>2 DEF q

-----------------------------------------------------------------------------
(* Type correctness *)

LEMMA TypeInit == Init => TypeOK
<1> SUFFICES ASSUME Init PROVE TypeOK
  OBVIOUS
<1>1. << >> \in Seq(Id) /\ MinGap \in 0 .. MinGap /\ 0 \in 0 .. TTL + 1 /\ 1 \in 1 .. MaxRequests + 1
  BY ConstantsOK
<1>2. QED
  BY <1>1 DEF Init, TypeOK, Step, Outcome

LEMMA TypeStep == TypeOK /\ [Next]_vars => TypeOK'
<1> SUFFICES ASSUME TypeOK, [Next]_vars PROVE TypeOK'
  OBVIOUS
<1> USE ConstantsOK DEF TypeOK
<1>1. CASE Tick
  <2>1. age' \in [Id -> 0 .. TTL + 1]
    BY <1>1 DEF Tick
  <2>2. gap' \in [Server -> 0 .. MinGap]
    BY <1>1 DEF Tick
  <2>3. QED
    BY <1>1, <2>1, <2>2 DEF Tick
<1>2. CASE Retain
  <2>1. queue' \in [Server -> Seq(Id)]
    BY <1>2 DEF Retain
  <2>2. /\ inFlight' \in [Server -> Id \cup {None}]
        /\ gap' \in [Server -> 0 .. MinGap]
        /\ results' \in [Server -> SUBSET {"polled", "dead", "failed"}]
    BY <1>2 DEF Retain
  <2>3. outcome' \in [Id -> Outcome]
    BY <1>2 DEF Retain, Outcome
  <2>4. QED
    BY <1>2, <2>1, <2>2, <2>3 DEF Retain
<1>3. ASSUME NEW s \in Server, NEW k \in Key, Enqueue(s, k) PROVE TypeOK'
  <2>1. queue' \in [Server -> Seq(Id)]
    <3>1. nextId \in Id /\ queue' = [queue EXCEPT ![s] = Append(queue[s], nextId)]
      BY <1>3 DEF Enqueue
    <3>2. Append(queue[s], nextId) \in Seq(Id)
      BY <3>1
    <3>3. QED
      BY <3>1, <3>2
  <2>2. nextId' \in 1 .. MaxRequests + 1
    BY <1>3 DEF Enqueue, Id
  <2>3. outcome' \in [Id -> Outcome] /\ home' \in [Id -> Server \cup {"unset"}] /\ key' \in [Id -> Key \cup {"unset"}]
    BY <1>3 DEF Enqueue, Outcome
  <2>4. QED
    BY <1>3, <2>1, <2>2, <2>3 DEF Enqueue
<1>4. ASSUME NEW s \in Server, PollFetch(s) PROVE TypeOK'
  <2>1. CASE \E said \in {"dead", "failed"} :
               results' = [results EXCEPT ![s] = @ \cup {said}] /\ UNCHANGED view
    <3>1. results' \in [Server -> SUBSET {"polled", "dead", "failed"}]
      BY <2>1
    <3>2. QED
      BY <1>4, <2>1, <3>1 DEF PollFetch
  <2>2. CASE \E step \in {"idle", "other"} :
               view' = [view EXCEPT ![s] = step] /\ UNCHANGED results
    <3>1. view' \in [Server -> {"none", "idle", "other"}]
      BY <2>2
    <3>2. QED
      BY <1>4, <2>2, <3>1 DEF PollFetch
  <2>3. QED
    BY <1>4, <2>1, <2>2 DEF PollFetch, FailedResult
<1>5. ASSUME NEW s \in Server, Advance(s) PROVE TypeOK'
  <2>1. outcome' \in [Id -> Outcome]
    BY <1>5 DEF Advance, Outcome
  <2>2. view' \in [Server -> {"none", "idle", "other"}] /\ results' \in [Server -> SUBSET {"polled", "dead", "failed"}]
    BY <1>5 DEF Advance
  <2>3. Unexpired(s) \in Seq(Id)
    BY UnexpiredFacts
  <2>4. CASE /\ MayReserve(s)
             /\ queue' = [queue EXCEPT ![s] = Tail(Unexpired(s))]
             /\ inFlight' = [inFlight EXCEPT ![s] = Head(Unexpired(s))]
             /\ gap' = [gap EXCEPT ![s] = 0]
             /\ worker' = [worker EXCEPT ![Head(Unexpired(s))] = "fetch"]
    <3>1. Head(Unexpired(s)) \in Id /\ Tail(Unexpired(s)) \in Seq(Id)
      BY <2>3, <2>4, HeadTailFacts DEF MayReserve
    <3>2. queue' \in [Server -> Seq(Id)]
      BY <2>4, <3>1
    <3>3. inFlight' \in [Server -> Id \cup {None}] /\ gap' \in [Server -> 0 .. MinGap]
      BY <2>4, <3>1
    <3>4. worker' \in [Id -> Step]
      BY <2>4, <3>1 DEF Step
    <3>5. QED
      BY <1>5, <2>1, <2>2, <3>2, <3>3, <3>4 DEF Advance
  <2>5. CASE queue' = [queue EXCEPT ![s] = Unexpired(s)] /\ UNCHANGED <<inFlight, gap, worker>>
    <3>1. queue' \in [Server -> Seq(Id)]
      BY <2>3, <2>5
    <3>2. QED
      BY <1>5, <2>1, <2>2, <2>5, <3>1 DEF Advance
  <2>6. QED
    BY <1>5, <2>4, <2>5 DEF Advance
<1>6. ASSUME NEW r \in Id, DeliverFetch(r) PROVE TypeOK'
  <2>1. PICK seen \in Observation, there \in BOOLEAN :
           worker' = [worker EXCEPT ![r] = DeliveryGate(seen, there)]
    BY <1>6 DEF DeliverFetch
  <2>2. DeliveryGate(seen, there) \in Step
    BY DEF DeliveryGate, Observation, Unread, Step
  <2>3. worker' \in [Id -> Step]
    BY <2>1, <2>2
  <2>4. QED
    BY <1>6, <2>3 DEF DeliverFetch
<1>7. ASSUME NEW r \in Id, DeliverInject(r) PROVE TypeOK'
  <2>1. worker' \in [Id -> Step]
    BY <1>7 DEF DeliverInject, Step
  <2>2. injected' \in [Server -> Seq(Id)]
    <3>1. CASE injected' = [injected EXCEPT ![home[r]] = Append(@, r)] /\ home[r] \in Server
      <4>1. Append(injected[home[r]], r) \in Seq(Id)
        BY <3>1
      <4>2. QED
        BY <3>1, <4>1
    <3>2. CASE injected' = [injected EXCEPT ![home[r]] = Append(@, r)] /\ home[r] \notin Server
      BY <3>2
    <3>3. QED
      BY <1>7, <3>1, <3>2 DEF DeliverInject
  <2>3. QED
    BY <1>7, <2>1, <2>2 DEF DeliverInject
<1>8. ASSUME NEW r \in Id, FinishDelivery(r) PROVE TypeOK'
  <2>1. worker' \in [Id -> Step] /\ outcome' \in [Id -> Outcome]
    <3>1. worker' \in [Id -> Step]
      BY <1>8 DEF FinishDelivery, Step
    <3>2. \/ UNCHANGED outcome
          \/ /\ outcome' = [outcome EXCEPT ![r] = worker[r]]
             /\ worker[r] \in {"dropped", "delivered"}
      BY <1>8 DEF FinishDelivery, Retryable
    <3>3. outcome' \in [Id -> Outcome]
      BY <3>2 DEF Outcome
    <3>4. QED
      BY <3>1, <3>3
  <2>2. inFlight' \in [Server -> Id \cup {None}]
    BY <1>8 DEF FinishDelivery
  <2>3. queue' \in [Server -> Seq(Id)]
    <3>1. CASE home[r] \in Server
      <4>1. Requeued(r) \in Seq(Id)
        BY <3>1, RequeuedFacts
      <4>2. QED
        BY <1>8, <3>1, <4>1 DEF FinishDelivery
    <3>2. CASE home[r] \notin Server
      BY <1>8, <3>2 DEF FinishDelivery
    <3>3. QED
      BY <3>1, <3>2
  <2>4. QED
    BY <1>8, <2>1, <2>2, <2>3 DEF FinishDelivery
<1>9. CASE UNCHANGED vars
  BY <1>9 DEF vars
<1>10. QED
  BY <1>1, <1>2, <1>3, <1>4, <1>5, <1>6, <1>7, <1>8, <1>9 DEF Next

\* Every variable keeps its type: the operator queue never reads a request
\* that does not exist, whatever the number of servers, keys and requests.
THEOREM TypeCorrect == Spec => []TypeOK
<1>1. Init => TypeOK
  BY TypeInit
<1>2. TypeOK /\ [Next]_vars => TypeOK'
  BY TypeStep
<1>3. QED
  BY <1>1, <1>2, PTL DEF Spec

-----------------------------------------------------------------------------
(* The invariant, action by action *)

LEMMA InvInit == Init => Inv
<1> SUFFICES ASSUME Init PROVE Inv
  OBVIOUS
<1>1. TypeOK
  BY TypeInit
<1>2. \A s \in Server : queue[s] = << >> /\ inFlight[s] = None /\ injected[s] = << >>
  BY DEF Init
<1>3. \A s \in Server : Elems(queue[s]) = {} /\ Held(s) = {} /\ Increasing(queue[s]) /\ Len(queue[s]) = 0
  BY <1>2 DEF Elems, Held, Increasing
<1>4. PendingBound /\ NoDuplicateIntent /\ ArrivalOrder
  <2>1. ASSUME NEW s \in Server PROVE Pending(s) = 0
    <3>1. Len(queue[s]) = 0 /\ (IF inFlight[s] = None THEN 0 ELSE 1) = 0
      BY <1>2, <1>3
    <3>2. QED
      BY <3>1 DEF Pending
  <2>2. PendingBound
    BY <2>1, ConstantsOK DEF PendingBound
  <2>3. NoDuplicateIntent /\ ArrivalOrder
    BY <1>2, <1>3 DEF NoDuplicateIntent, ArrivalOrder
  <2>4. QED
    BY <2>2, <2>3
<1>5. Ownership /\ QueuedIsIdle
  BY <1>3 DEF Ownership, QueuedIsIdle, Init, Id
<1>6. Ledger /\ InjectedOnce
  BY <1>2 DEF Ledger, InjectedOnce
<1>7. QED
  BY <1>1, <1>4, <1>5, <1>6 DEF Inv

\* A step that leaves the requests and their servers alone.
LEMMA QuietKeeps ==
  Inv /\ TypeOK' /\ UNCHANGED <<queue, inFlight, home, key, worker, nextId, outcome, injected>>
    => Inv'
<1> SUFFICES ASSUME Inv, TypeOK',
                    UNCHANGED <<queue, inFlight, home, key, worker, nextId, outcome, injected>>
             PROVE  Inv'
  OBVIOUS
<1>1. \A s \in Server : Held(s)' = Held(s) /\ Pending(s)' = Pending(s)
  BY DEF Held, Pending
<1>2. PendingBound' /\ NoDuplicateIntent' /\ ArrivalOrder'
  BY <1>1 DEF Inv, PendingBound, NoDuplicateIntent, ArrivalOrder
<1>3. Ownership'
  <2>1. (\A r \in Id : outcome[r] = "pending" => r \in Held(home[r]))'
    BY DEF Inv, Ownership, Held
  <2>2. QED
    BY <1>1, <2>1 DEF Inv, Ownership
<1>4. QueuedIsIdle' /\ Ledger' /\ InjectedOnce'
  BY DEF Inv, QueuedIsIdle, Ledger, InjectedOnce
<1>5. QED
  BY <1>2, <1>3, <1>4 DEF Inv

LEMMA TickKeeps == Inv /\ Tick => Inv'
<1> SUFFICES ASSUME Inv, Tick PROVE Inv'
  OBVIOUS
<1>1. TypeOK'
  BY TypeStep DEF Inv, Next
<1>2. QED
  BY <1>1, QuietKeeps DEF Tick

LEMMA PollFetchKeeps == ASSUME NEW s \in Server PROVE Inv /\ PollFetch(s) => Inv'
<1> SUFFICES ASSUME Inv, PollFetch(s) PROVE Inv'
  OBVIOUS
<1>1. TypeOK'
  BY TypeStep DEF Inv, Next
<1>2. QED
  BY <1>1, QuietKeeps DEF PollFetch

LEMMA EnqueueKeeps ==
  ASSUME NEW s \in Server, NEW k \in Key PROVE Inv /\ Enqueue(s, k) => Inv'
<1> SUFFICES ASSUME Inv, Enqueue(s, k) PROVE Inv'
  OBVIOUS
<1> DEFINE r == nextId
<1>1. TypeOK /\ TypeOK'
  BY TypeStep DEF Inv, Next
<1>2. /\ r \in Id /\ Id \in SUBSET Int /\ queue[s] \in Seq(Id)
      /\ outcome[r] = "unborn" /\ worker[r] = "none"
      /\ \A x \in Id : outcome[x] = "pending" => x < r
  BY <1>1 DEF Enqueue, Inv, Ownership, TypeOK, Id
<1>3. /\ queue' = [queue EXCEPT ![s] = Append(queue[s], r)]
      /\ inFlight' = inFlight /\ worker' = worker /\ injected' = injected
      /\ home' = [home EXCEPT ![r] = s] /\ key' = [key EXCEPT ![r] = k]
      /\ outcome' = [outcome EXCEPT ![r] = "pending"]
      /\ nextId' = nextId + 1
  BY DEF Enqueue
<1>4. /\ queue'[s] = Append(queue[s], r)
      /\ \A t \in Server \ {s} : queue'[t] = queue[t]
      /\ Len(queue'[s]) = Len(queue[s]) + 1
      /\ Elems(queue'[s]) = Elems(queue[s]) \cup {r}
  BY <1>1, <1>2, <1>3, AppendFacts DEF TypeOK
<1>5. \A t \in Server : \A x \in Held(t) : x \in Id /\ x < r /\ x # r /\ outcome[x] = "pending" /\ home[x] = t
  <2>1. \A t \in Server : Held(t) \subseteq Id
    BY <1>1 DEF TypeOK, Held, Elems
  <2>2. QED
    BY <1>2, <2>1 DEF Inv, Ownership
<1>6. /\ Held(s)' = Held(s) \cup {r}
      /\ \A t \in Server \ {s} : Held(t)' = Held(t)
  BY <1>2, <1>3, <1>4 DEF Held, None, Id
<1>7. PendingBound'
  <2>1. Pending(s) < QueueCap /\ Pending(s)' = Pending(s) + 1 /\ Pending(s) \in Int
    <3>1. Len(queue[s]) \in Nat /\ Len(queue'[s]) = Len(queue[s]) + 1 /\ inFlight'[s] = inFlight[s]
      BY <1>2, <1>3, <1>4
    <3> DEFINE slot == IF inFlight[s] = None THEN 0 ELSE 1
    <3>2. slot \in Nat /\ Pending(s) = Len(queue[s]) + slot
      BY DEF Pending
    <3>3. Pending(s)' = Len(queue'[s]) + slot
      BY <3>1 DEF Pending
    <3>4. Pending(s) < QueueCap
      BY DEF Enqueue, HasRoom
    <3> HIDE DEF slot
    <3>5. QED
      BY <3>1, <3>2, <3>3, <3>4
  <2>2. \A t \in Server \ {s} : Pending(t)' = Pending(t)
    BY <1>3, <1>4 DEF Pending
  <2>3. QED
    BY <2>1, <2>2, ConstantsOK DEF Inv, PendingBound
<1>8. NoDuplicateIntent'
  <2>1. \A x \in Held(s) : key[x] # k
    BY DEF Enqueue, Coalesces, Held, Elems
  <2>2. \A t \in Server : \A x \in Held(t) : key'[x] = key[x] /\ x # r
    BY <1>1, <1>3, <1>5, <1>2 DEF TypeOK
  <2>3. key'[r] = k
    BY <1>1, <1>2, <1>3 DEF TypeOK
  <2>4. QED
    BY <1>6, <2>1, <2>2, <2>3 DEF Inv, NoDuplicateIntent
<1>9. ArrivalOrder'
  <2>1. \A x \in Elems(queue[s]) : x < r
    BY <1>5 DEF Held
  <2>2. Increasing(queue'[s])
    BY <1>2, <1>4, <2>1, AppendIncreasing DEF Inv, ArrivalOrder
  <2>3. inFlight[s] # None => inFlight[s] < r
    BY <1>5 DEF Held
  <2>4. QED
    BY <1>3, <1>4, <2>2, <2>3 DEF Inv, ArrivalOrder
<1>10. Ownership'
  <2>1. /\ outcome'[r] = "pending" /\ home'[r] = s
        /\ \A x \in Id \ {r} : outcome'[x] = outcome[x] /\ home'[x] = home[x]
    BY <1>1, <1>2, <1>3 DEF TypeOK
  <2>2. \A t \in Server : \A x \in Held(t)' : home'[x] = t /\ outcome'[x] = "pending"
    BY <1>5, <1>6, <2>1
  <2>3. (\A x \in Id : outcome[x] = "pending" => x \in Held(home[x]))'
    <3>1. SUFFICES ASSUME NEW x \in Id, outcome'[x] = "pending" PROVE (x \in Held(home[x]))'
      OBVIOUS
    <3>2. PICK t \in Server : t = home'[x] /\ x \in Held(t)'
      <4>1. CASE x = r
        BY <1>6, <2>1, <4>1
      <4>2. CASE x # r /\ outcome[x] = "pending"
        <5>1. home[x] \in Server /\ x \in Held(home[x])
          BY <4>2 DEF Inv, Ownership
        <5>2. QED
          BY <1>6, <2>1, <4>2, <5>1
      <4>3. QED
        BY <2>1, <3>1, <4>1, <4>2
    <3>3. QED
      BY <3>2 DEF Held
  <2>4. \A x \in Id : /\ outcome'[x] = "unborn" <=> x >= nextId'
                      /\ outcome'[x] = "unborn" => worker'[x] = "none"
                      /\ outcome'[x] # "unborn" => home'[x] \in Server
    BY <1>1, <1>2, <1>3, <2>1 DEF Inv, Ownership, Id
  <2>5. QED
    BY <2>2, <2>3, <2>4 DEF Ownership
<1>11. QueuedIsIdle'
  BY <1>1, <1>2, <1>3, <1>4 DEF Inv, QueuedIsIdle, TypeOK
<1>12. Ledger'
  <2>1. \A t \in Server : \A i \in DOMAIN injected[t] : injected[t][i] \in Id \ {r}
    BY <1>1, <1>2 DEF Inv, Ledger, TypeOK
  <2>2. QED
    BY <1>1, <1>3, <2>1 DEF Inv, Ledger, TypeOK
<1>13. InjectedOnce'
  BY <1>3 DEF Inv, InjectedOnce
<1>14. QED
  BY <1>1, <1>7, <1>8, <1>9, <1>10, <1>11, <1>12, <1>13 DEF Inv

\* What is held are requests, each on its own server.
LEMMA HeldFacts ==
  ASSUME Inv
  PROVE  \A s \in Server : \A r \in Held(s) :
           r \in Id /\ home[r] = s /\ outcome[r] = "pending"
<1>1. \A s \in Server : Held(s) \subseteq Id
  BY DEF Inv, TypeOK, Held, Elems
<1>2. QED
  BY <1>1 DEF Inv, Ownership

LEMMA AdvanceKeeps == ASSUME NEW s \in Server PROVE Inv /\ Advance(s) => Inv'
<1> SUFFICES ASSUME Inv, Advance(s) PROVE Inv'
  OBVIOUS
<1> DEFINE u == Unexpired(s)
           h == Head(u)
<1>1. TypeOK /\ TypeOK' /\ Id \in SUBSET Int /\ None \notin Id
  BY TypeStep DEF Inv, Next, Id, None
<1>2. /\ u \in Seq(Id)
      /\ Len(u) <= Len(queue[s])
      /\ Elems(u) = {r \in Elems(queue[s]) : age[r] <= TTL}
      /\ Increasing(u)
      /\ Len(u) \in Nat /\ Len(queue[s]) \in Nat
  BY <1>1, UnexpiredFacts DEF Inv, ArrivalOrder, TypeOK
<1>3. /\ outcome' = [r \in Id |-> IF r \in Elems(queue[s]) \ Elems(u)
                                  THEN "expired" ELSE outcome[r]]
      /\ home' = home /\ key' = key /\ nextId' = nextId /\ injected' = injected
  BY DEF Advance
<1>4. \A t \in Server : \A r \in Held(t) : r \in Id /\ home[r] = t /\ outcome[r] = "pending"
  BY HeldFacts
<1>5. \A r \in Id : outcome'[r] = "pending" <=> outcome[r] = "pending" /\ r \notin Elems(queue[s]) \ Elems(u)
  BY <1>3
<1>6. \A r \in Elems(queue[s]) : r \in Id /\ home[r] = s /\ outcome[r] = "pending"
                                 /\ worker[r] = "none" /\ r # inFlight[s]
  <2>1. \A r \in Elems(queue[s]) : inFlight[s] # None => inFlight[s] < r
    BY DEF Inv, ArrivalOrder
  <2>2. \A r \in Elems(queue[s]) : r \in Held(s) /\ worker[r] = "none"
    BY DEF Held, Inv, QueuedIsIdle
  <2>3. \A r \in Elems(queue[s]) : r \in Id /\ home[r] = s /\ outcome[r] = "pending"
    BY <1>4, <2>2
  <2>4. \A r \in Elems(queue[s]) : r # inFlight[s]
    <3>1. TAKE r \in Elems(queue[s])
    <3>2. r \in Int /\ r # None
      BY <1>1, <2>3
    <3>3. QED
      BY <2>1, <3>2
  <2>5. QED
    BY <2>2, <2>3, <2>4
\* The two ways the step ends have in common what they leave alone.
<1>7. ASSUME \A t \in Server : Held(t)' \subseteq Held(t),
             \A t \in Server \ {s} : Held(t)' = Held(t),
             Held(s) \ Held(s)' = Elems(queue[s]) \ Elems(u),
             \A r \in Id : outcome[r] = "unborn" => worker'[r] = "none"
      PROVE  NoDuplicateIntent' /\ Ownership'
  <2>1. NoDuplicateIntent'
    BY <1>3, <1>7 DEF Inv, NoDuplicateIntent
  <2>2. \A t \in Server : \A r \in Held(t)' : home'[r] = t /\ outcome'[r] = "pending"
    <3>1. TAKE t \in Server
    <3>2. TAKE r \in Held(t)'
    <3>3. r \in Id /\ home[r] = t /\ outcome[r] = "pending"
      BY <1>4, <1>7
    <3>4. CASE t = s
      BY <1>3, <1>5, <1>7, <3>3, <3>4
    <3>5. CASE t # s
      BY <1>3, <1>5, <1>6, <3>3, <3>5
    <3>6. QED
      BY <3>4, <3>5
  <2>3. (\A r \in Id : outcome[r] = "pending" => r \in Held(home[r]))'
    <3>1. SUFFICES ASSUME NEW r \in Id, outcome'[r] = "pending" PROVE (r \in Held(home[r]))'
      OBVIOUS
    <3>2. home[r] \in Server /\ r \in Held(home[r]) /\ r \notin Elems(queue[s]) \ Elems(u)
      BY <1>5, <3>1 DEF Inv, Ownership
    <3>3. PICK t \in Server : t = home[r] /\ r \in Held(t)'
      BY <1>7, <3>2
    <3>4. QED
      BY <1>3, <3>3 DEF Held
  <2>4. \A r \in Id : /\ outcome'[r] = "unborn" <=> r >= nextId'
                      /\ outcome'[r] = "unborn" => worker'[r] = "none"
                      /\ outcome'[r] # "unborn" => home'[r] \in Server
    <3>1. \A r \in Id : outcome'[r] = "unborn" <=> outcome[r] = "unborn"
      BY <1>3, <1>6
    <3>2. QED
      BY <1>3, <1>7, <3>1 DEF Inv, Ownership
  <2>5. QED
    BY <2>1, <2>2, <2>3, <2>4 DEF Ownership
<1>8. InjectedOnce'
  BY <1>3 DEF Inv, InjectedOnce
<1>9. \A t \in Server : \A i \in DOMAIN injected[t] : injected[t][i] \in Id
  BY <1>1 DEF TypeOK
<1>10. CASE /\ MayReserve(s)
            /\ queue' = [queue EXCEPT ![s] = Tail(u)]
            /\ inFlight' = [inFlight EXCEPT ![s] = h]
            /\ worker' = [worker EXCEPT ![h] = "fetch"]
  <2>1. u # << >> /\ inFlight[s] = None
    BY <1>10 DEF MayReserve
  <2>2. /\ h \in Id
        /\ Tail(u) \in Seq(Id)
        /\ Len(Tail(u)) = Len(u) - 1
        /\ Elems(u) = {h} \cup Elems(Tail(u))
        /\ Increasing(Tail(u))
        /\ \A x \in Elems(Tail(u)) : h < x
    <3> HIDE DEF u
    <3> QED BY <1>1, <1>2, <2>1, HeadTailFacts, TailIncreasing
  <2> HIDE DEF u, h
  <2>3. /\ queue'[s] = Tail(u) /\ inFlight'[s] = h
        /\ \A t \in Server \ {s} : queue'[t] = queue[t] /\ inFlight'[t] = inFlight[t]
        /\ worker'[h] = "fetch" /\ \A r \in Id \ {h} : worker'[r] = worker[r]
    BY <1>1, <1>10, <2>2 DEF TypeOK, h, u
  <2>4. h \in Elems(queue[s]) /\ Elems(u) \subseteq Elems(queue[s]) /\ h \notin Elems(Tail(u))
    BY <1>1, <1>2, <2>2
  <2>5. /\ Held(s) = Elems(queue[s])
        /\ Held(s)' = Elems(u)
        /\ \A t \in Server \ {s} : Held(t)' = Held(t)
    BY <1>1, <2>1, <2>2, <2>3 DEF Held
  <2>6. PendingBound'
    <3>1. Pending(s)' = Len(u)
      <4>1. Pending(s)' = Len(Tail(u)) + 1
        BY <1>1, <2>2, <2>3 DEF Pending
      <4>2. QED
        BY <1>2, <2>2, <4>1
    <3>2. Pending(s) = Len(queue[s])
      BY <1>2, <2>1 DEF Pending
    <3>3. \A t \in Server \ {s} : Pending(t)' = Pending(t)
      BY <2>3 DEF Pending
    <3>4. QED
      BY <1>2, <3>1, <3>2, <3>3, ConstantsOK DEF Inv, PendingBound
  <2>7. NoDuplicateIntent' /\ Ownership'
    <3>1. \A r \in Id : outcome[r] = "unborn" => worker'[r] = "none"
      BY <1>6, <2>3, <2>4 DEF Inv, Ownership
    <3>2. QED
      BY <1>7, <2>4, <2>5, <3>1
  <2>8. ArrivalOrder'
    BY <2>2, <2>3 DEF Inv, ArrivalOrder
  <2>9. QueuedIsIdle'
    <3>1. \A t \in Server : \A r \in Elems(queue'[t]) : r \in Elems(queue[t]) /\ r # h
      <4>1. SUFFICES ASSUME NEW t \in Server, NEW r \in Elems(queue'[t])
                     PROVE  r \in Elems(queue[t]) /\ r # h
        OBVIOUS
      <4>2. CASE t = s
        BY <2>2, <2>3, <2>4, <4>1, <4>2
      <4>3. CASE t # s
        <5>1. r \in Elems(queue[t])
          BY <2>3, <4>1, <4>3
        <5>2. home[r] = t
          BY <1>4, <5>1 DEF Held
        <5>3. home[h] = s
          BY <1>6, <2>4
        <5>4. QED
          BY <4>3, <5>1, <5>2, <5>3
      <4>4. QED
        BY <4>2, <4>3
    <3>2. \A t \in Server : \A r \in Elems(queue'[t]) : worker'[r] = "none"
      <4>1. \A t \in Server : \A r \in Elems(queue[t]) : r \in Id
        BY <1>4 DEF Held
      <4>2. QED
        BY <2>3, <3>1, <4>1 DEF Inv, QueuedIsIdle
    <3>3. ASSUME NEW t \in Server, NEW r \in Id, worker'[r] # "none", home[r] = t, inFlight'[t] # r
          PROVE  outcome'[r] = "reaped"
      <4>1. r # h
        BY <1>6, <2>3, <2>4, <3>3
      <4>2. worker[r] # "none" /\ inFlight[t] # r
        BY <1>1, <2>1, <2>3, <3>3, <4>1
      <4>3. outcome[r] = "reaped"
        BY <3>3, <4>2 DEF Inv, QueuedIsIdle
      <4>4. QED
        BY <1>3, <1>6, <4>3
    <3>4. QED
      BY <1>3, <3>2, <3>3 DEF QueuedIsIdle
  <2>10. Ledger'
    <3>1. ASSUME NEW t \in Server, NEW i \in DOMAIN injected[t]
          PROVE  injected[t][i] \in Id /\ injected[t][i] # h
      BY <1>6, <1>9, <2>4 DEF Inv, Ledger
    <3>2. \A r \in Id : (outcome'[r] = outcome[r]) \/ (outcome[r] = "pending" /\ outcome'[r] = "expired")
      BY <1>3, <1>6
    <3>3. QED
      BY <1>3, <2>3, <3>1, <3>2 DEF Inv, Ledger
  <2>11. QED
    BY <1>1, <1>8, <2>6, <2>7, <2>8, <2>9, <2>10 DEF Inv
<1>11. CASE queue' = [queue EXCEPT ![s] = u] /\ UNCHANGED <<inFlight, worker>>
  <2> HIDE DEF u, h
  <2>1. /\ queue'[s] = u
        /\ \A t \in Server \ {s} : queue'[t] = queue[t]
    BY <1>1, <1>11 DEF TypeOK, u
  <2>2. Elems(u) \subseteq Elems(queue[s])
    BY <1>2
  <2>3. /\ Held(s)' \subseteq Held(s)
        /\ Held(s) \ Held(s)' = Elems(queue[s]) \ Elems(u)
        /\ \A t \in Server \ {s} : Held(t)' = Held(t)
    <3>1. Held(s)' = Elems(u) \cup ({inFlight[s]} \ {None})
      BY <1>11, <2>1 DEF Held
    <3>2. QED
      BY <1>6, <1>11, <2>1, <2>2, <3>1 DEF Held
  <2>4. PendingBound'
    <3>1. Len(queue'[s]) <= Len(queue[s]) /\ inFlight'[s] = inFlight[s] /\ Len(queue'[s]) \in Nat
      BY <1>2, <1>11, <2>1
    <3> DEFINE slot == IF inFlight[s] = None THEN 0 ELSE 1
    <3>2. slot \in Nat /\ Pending(s) = Len(queue[s]) + slot
      BY DEF Pending
    <3>3. Pending(s)' = Len(queue'[s]) + slot
      BY <3>1 DEF Pending
    <3>4. Pending(s)' <= QueueCap
      <4> HIDE DEF slot
      <4> QED BY <1>2, <3>1, <3>2, <3>3, ConstantsOK DEF Inv, PendingBound
    <3>5. \A t \in Server \ {s} : Pending(t)' = Pending(t)
      BY <1>11, <2>1 DEF Pending
    <3>6. QED
      BY <3>4, <3>5 DEF Inv, PendingBound
  <2>5. NoDuplicateIntent' /\ Ownership'
    <3>1. \A r \in Id : outcome[r] = "unborn" => worker'[r] = "none"
      BY <1>11 DEF Inv, Ownership
    <3>2. QED
      BY <1>7, <2>3, <3>1
  <2>6. ArrivalOrder'
    BY <1>2, <1>11, <2>1, <2>2 DEF Inv, ArrivalOrder
  <2>7. QueuedIsIdle'
    <3>1. \A t \in Server : \A r \in Elems(queue'[t]) : worker'[r] = "none"
      BY <1>11, <2>1, <2>2 DEF Inv, QueuedIsIdle
    <3>2. ASSUME NEW t \in Server, NEW r \in Id, worker'[r] # "none", home[r] = t, inFlight'[t] # r
          PROVE  outcome'[r] = "reaped"
      <4>1. outcome[r] = "reaped"
        BY <1>11, <3>2 DEF Inv, QueuedIsIdle
      <4>2. QED
        BY <1>3, <1>6, <4>1
    <3>3. QED
      BY <1>3, <3>1, <3>2 DEF QueuedIsIdle
  <2>8. Ledger'
    <3>1. \A r \in Id : (outcome'[r] = outcome[r]) \/ (outcome[r] = "pending" /\ outcome'[r] = "expired")
      BY <1>3, <1>6
    <3>2. QED
      BY <1>3, <1>9, <1>11, <3>1 DEF Inv, Ledger
  <2>9. QED
    BY <1>1, <1>8, <2>4, <2>5, <2>6, <2>7, <2>8 DEF Inv
<1>12. QED
  BY <1>10, <1>11 DEF Advance

LEMMA RetainKeeps == Inv /\ Retain => Inv'
<1> SUFFICES ASSUME Inv, Retain PROVE Inv'
  OBVIOUS
<1>1. TypeOK /\ TypeOK' /\ None \notin Id
  BY TypeStep DEF Inv, Next, Id, None
<1>2. \A s \in Server : \A r \in Held(s) : r \in Id /\ home[r] = s /\ outcome[r] = "pending"
  BY HeldFacts
<1>3. /\ \A s \in Server : IF s \in Reaped
                           THEN queue'[s] = << >> /\ inFlight'[s] = None
                           ELSE queue'[s] = queue[s] /\ inFlight'[s] = inFlight[s]
      /\ \A r \in Id : outcome'[r] = IF home[r] \in Reaped /\ outcome[r] = "pending"
                                     THEN "reaped" ELSE outcome[r]
      /\ home' = home /\ key' = key /\ worker' = worker /\ nextId' = nextId /\ injected' = injected
  BY DEF Retain
<1>4. /\ \A s \in Reaped : Elems(queue'[s]) = {} /\ Held(s)' = {} /\ Increasing(queue'[s])
      /\ \A s \in Server \ Reaped : Held(s)' = Held(s)
      /\ Reaped \subseteq Server
  BY <1>3 DEF Held, Elems, Increasing, Reaped
<1>5. PendingBound'
  <2>2. ASSUME NEW s \in Reaped PROVE Pending(s)' = 0
    <3>1. Len(queue'[s]) = 0 /\ (IF inFlight'[s] = None THEN 0 ELSE 1) = 0
      BY <1>3, <1>4
    <3>2. QED
      BY <3>1 DEF Pending
  <2>3. \A s \in Server \ Reaped : Pending(s)' = Pending(s)
    BY <1>3 DEF Pending
  <2>4. QED
    BY <2>2, <2>3, ConstantsOK DEF Inv, PendingBound
<1>6. NoDuplicateIntent' /\ ArrivalOrder'
  BY <1>3, <1>4 DEF Inv, NoDuplicateIntent, ArrivalOrder
<1>7. Ownership'
  <2>1. \A s \in Server : \A r \in Held(s)' : home'[r] = s /\ outcome'[r] = "pending"
    BY <1>2, <1>3, <1>4
  <2>2. (\A r \in Id : outcome[r] = "pending" => r \in Held(home[r]))'
    <3>1. SUFFICES ASSUME NEW r \in Id, outcome'[r] = "pending" PROVE (r \in Held(home[r]))'
      OBVIOUS
    <3>2. outcome[r] = "pending" /\ home[r] \notin Reaped
      BY <1>3, <3>1
    <3>3. PICK s \in Server : s = home[r] /\ r \in Held(s)'
      BY <1>4, <3>2 DEF Inv, Ownership
    <3>4. QED
      BY <1>3, <3>3 DEF Held
  <2>3. \A r \in Id : /\ outcome'[r] = "unborn" <=> r >= nextId'
                      /\ outcome'[r] = "unborn" => worker'[r] = "none"
                      /\ outcome'[r] # "unborn" => home'[r] \in Server
    BY <1>3 DEF Inv, Ownership
  <2>4. QED
    BY <2>1, <2>2, <2>3 DEF Ownership
<1>8. QueuedIsIdle'
  <2>1. \A s \in Server : \A r \in Elems(queue'[s]) : worker'[r] = "none"
    BY <1>3, <1>4 DEF Inv, QueuedIsIdle
  <2>2. ASSUME NEW s \in Server, NEW r \in Id, worker'[r] # "none", home[r] = s, inFlight'[s] # r
        PROVE  outcome'[r] = "reaped"
    <3>1. CASE inFlight[s] = r
      <4>1. s \in Reaped
        BY <1>3, <2>2, <3>1
      <4>2. r \in Held(s)
        BY <1>1, <3>1 DEF Held
      <4>3. QED
        BY <1>2, <1>3, <2>2, <4>1, <4>2
    <3>2. CASE inFlight[s] # r
      BY <1>3, <2>2, <3>2 DEF Inv, QueuedIsIdle
    <3>3. QED
      BY <3>1, <3>2
  <2>3. QED
    BY <1>3, <2>1, <2>2 DEF QueuedIsIdle
<1>9. Ledger'
  <2>1. \A s \in Server : \A i \in DOMAIN injected[s] : injected[s][i] \in Id
    BY <1>1 DEF TypeOK
  <2>2. QED
    BY <1>3, <2>1 DEF Inv, Ledger
<1>10. InjectedOnce'
  BY <1>3 DEF Inv, InjectedOnce
<1>11. QED
  BY <1>1, <1>5, <1>6, <1>7, <1>8, <1>9, <1>10 DEF Inv

\* A delivery goroutine that only moves on: its request is not queued, so no
\* queued request gets a goroutine.
LEMMA WorkerMoves ==
  ASSUME Inv, TypeOK', NEW r \in Id, NEW step, worker[r] \notin {"none", "delivered", "dropped"},
         worker' = [worker EXCEPT ![r] = step],
         UNCHANGED <<queue, inFlight, home, key, nextId, outcome>>
  PROVE  /\ PendingBound' /\ NoDuplicateIntent' /\ ArrivalOrder' /\ Ownership' /\ QueuedIsIdle'
         /\ worker'[r] = step /\ \A x \in Id \ {r} : worker'[x] = worker[x]
<1>1. \A s \in Server : Held(s)' = Held(s) /\ Pending(s)' = Pending(s)
  BY DEF Held, Pending
<1>2. worker'[r] = step /\ \A x \in Id \ {r} : worker'[x] = worker[x]
  BY DEF Inv, TypeOK
<1>3. PendingBound' /\ NoDuplicateIntent' /\ ArrivalOrder'
  BY <1>1 DEF Inv, PendingBound, NoDuplicateIntent, ArrivalOrder
<1>4. Ownership'
  <2>1. (\A x \in Id : outcome[x] = "pending" => x \in Held(home[x]))'
    BY DEF Inv, Ownership, Held
  <2>2. QED
    BY <1>1, <1>2, <2>1 DEF Inv, Ownership
<1>5. QueuedIsIdle'
  <2>1. \A s \in Server : \A x \in Elems(queue[s]) : x \in Id /\ x # r
    BY HeldFacts DEF Held, Inv, QueuedIsIdle
  <2>2. QED
    BY <1>2, <2>1 DEF Inv, QueuedIsIdle
<1>6. QED
  BY <1>2, <1>3, <1>4, <1>5

\* A request whose goroutine is before its injection has not been injected.
LEMMA InjectedHasRun ==
  ASSUME Inv, NEW r \in Id, worker[r] \in {"fetch", "inject"}
  PROVE  \A s \in Server : \A i \in DOMAIN injected[s] : injected[s][i] \in Id \ {r}
<1>1. SUFFICES ASSUME NEW s \in Server, NEW i \in DOMAIN injected[s]
               PROVE  injected[s][i] \in Id \ {r}
  OBVIOUS
<1>2. injected[s][i] \in Id
  <2>1. injected[s] \in Seq(Id)
    BY DEF Inv, TypeOK
  <2>2. QED
    BY <1>1, <2>1
<1>3. worker[injected[s][i]] \notin {"fetch", "inject"}
  BY <1>1 DEF Inv, Ledger
<1>4. QED
  BY <1>2, <1>3

LEMMA DeliverFetchKeeps == ASSUME NEW r \in Id PROVE Inv /\ DeliverFetch(r) => Inv'
<1> SUFFICES ASSUME Inv, DeliverFetch(r) PROVE Inv'
  OBVIOUS
<1>1. TypeOK /\ TypeOK'
  BY TypeStep DEF Inv, Next
<1>2. PICK seen \in Observation, there \in BOOLEAN :
         worker' = [worker EXCEPT ![r] = DeliveryGate(seen, there)]
  BY DEF DeliverFetch
<1>3. /\ PendingBound' /\ NoDuplicateIntent' /\ ArrivalOrder' /\ Ownership' /\ QueuedIsIdle'
      /\ \A x \in Id \ {r} : worker'[x] = worker[x]
  BY <1>1, <1>2, WorkerMoves DEF DeliverFetch
<1>4. Ledger' /\ InjectedOnce'
  <2>1. \A s \in Server : \A i \in DOMAIN injected[s] : injected[s][i] \in Id \ {r}
    BY InjectedHasRun DEF DeliverFetch
  <2>2. QED
    BY <1>3, <2>1 DEF DeliverFetch, Inv, Ledger, InjectedOnce
<1>5. QED
  BY <1>1, <1>3, <1>4 DEF Inv

LEMMA DeliverInjectKeeps == ASSUME NEW r \in Id PROVE Inv /\ DeliverInject(r) => Inv'
<1> SUFFICES ASSUME Inv, DeliverInject(r) PROVE Inv'
  OBVIOUS
<1>1. TypeOK /\ TypeOK'
  BY TypeStep DEF Inv, Next
<1>2. PICK step \in {"delivered", "dropped"} : worker' = [worker EXCEPT ![r] = step]
  BY DEF DeliverInject
<1>3. /\ PendingBound' /\ NoDuplicateIntent' /\ ArrivalOrder' /\ Ownership' /\ QueuedIsIdle'
      /\ worker'[r] = step /\ \A x \in Id \ {r} : worker'[x] = worker[x]
  BY <1>1, <1>2, WorkerMoves DEF DeliverInject
<1>4. /\ home[r] \in Server /\ outcome[r] # "unborn"
      /\ outcome' = outcome /\ home' = home
  BY DEF DeliverInject, Inv, Ownership
\* The request has not been injected before.
<1>5. \A s \in Server : \A i \in DOMAIN injected[s] : injected[s][i] \in Id \ {r}
  BY InjectedHasRun DEF DeliverInject
<1>6. CASE injected' = [injected EXCEPT ![home[r]] = Append(@, r)]
  <2> DEFINE h == home[r]
             old == injected[h]
  <2>1. /\ old \in Seq(Id) /\ injected'[h] = Append(old, r)
        /\ \A s \in Server \ {h} : injected'[s] = injected[s]
    BY <1>1, <1>4, <1>6 DEF TypeOK
  <2> HIDE DEF old
  <2>2. /\ DOMAIN old = 1 .. Len(old) /\ Len(old) \in Nat
        /\ DOMAIN injected'[h] = 1 .. Len(old) + 1
        /\ \A i \in DOMAIN old : injected'[h][i] = old[i]
        /\ injected'[h][Len(old) + 1] = r
        /\ \A i \in DOMAIN injected'[h] : i \in DOMAIN old \/ i = Len(old) + 1
    BY <2>1
  <2>3. \A i \in DOMAIN injected'[h] : \/ i \in DOMAIN old /\ injected'[h][i] = old[i]
                                       \/ i = Len(old) + 1 /\ injected'[h][i] = r
    BY <2>2
  <2>4. Ledger'
    <3>1. ASSUME NEW s \in Server, NEW i \in DOMAIN injected'[s]
          PROVE  LET x == injected'[s][i]
                 IN  \/ x = r /\ s = h
                     \/ x \in Id \ {r} /\ \E j \in DOMAIN injected[s] : x = injected[s][j]
      BY <1>5, <2>1, <2>3 DEF old
    <3>2. ASSUME NEW s \in Server, NEW i \in DOMAIN injected'[s]
          PROVE  /\ home'[injected'[s][i]] = s
                 /\ outcome'[injected'[s][i]] # "unborn"
                 /\ \/ worker'[injected'[s][i]] \in {"delivered", "dropped"}
                    \/ worker'[injected'[s][i]] = "none" /\ outcome'[injected'[s][i]] # "pending"
      BY <1>2, <1>3, <1>4, <3>1 DEF Inv, Ledger
    <3>3. QED
      BY <3>2 DEF Ledger
  <2>5. InjectedOnce'
    <3>1. \A i, j \in DOMAIN old : old[i] = old[j] => i = j
      BY <1>4 DEF Inv, InjectedOnce, old
    <3>2. \A i \in DOMAIN old : old[i] # r
      BY <1>4, <1>5 DEF old
    <3>3. \A i, j \in DOMAIN injected'[h] : injected'[h][i] = injected'[h][j] => i = j
      BY <2>3, <3>1, <3>2
    <3>4. QED
      BY <1>4, <2>1, <3>3 DEF Inv, InjectedOnce
  <2>6. QED
    BY <1>1, <1>3, <2>4, <2>5 DEF Inv
<1>7. CASE injected' = injected
  <2>1. Ledger' /\ InjectedOnce'
    BY <1>3, <1>4, <1>5, <1>7 DEF Inv, Ledger, InjectedOnce
  <2>2. QED
    BY <1>1, <1>3, <2>1 DEF Inv
<1>8. QED
  BY <1>6, <1>7 DEF DeliverInject

LEMMA FinishDeliveryKeeps == ASSUME NEW r \in Id PROVE Inv /\ FinishDelivery(r) => Inv'
<1> SUFFICES ASSUME Inv, FinishDelivery(r) PROVE Inv'
  OBVIOUS
<1>1. TypeOK /\ TypeOK' /\ Id \in SUBSET Int /\ None \notin Id
  BY TypeStep DEF Inv, Next, Id, None
<1>2. /\ worker'[r] = "none" /\ \A x \in Id \ {r} : worker'[x] = worker[x]
      /\ worker[r] \in {"deferred", "dropped", "delivered"}
      /\ home' = home /\ key' = key /\ nextId' = nextId /\ injected' = injected
  BY <1>1 DEF FinishDelivery, TypeOK
<1>3. PICK h \in Server : h = home[r] /\ outcome[r] # "unborn"
  BY <1>2 DEF Inv, Ownership
<1>4. \A s \in Server : \A x \in Held(s) : x \in Id /\ home[x] = s /\ outcome[x] = "pending"
  BY HeldFacts
<1>5. InjectedOnce'
  BY <1>2 DEF Inv, InjectedOnce
<1>6. \A s \in Server : \A i \in DOMAIN injected[s] : injected[s][i] \in Id
  BY <1>1 DEF TypeOK
\* The three ways the step ends agree on everything but what is held.
<1>7. ASSUME \A x \in Id \ {r} : outcome'[x] = outcome[x],
             outcome'[r] # "unborn",
             \A s \in Server : \A x \in Held(s)' : home[x] = s /\ outcome'[x] = "pending",
             \A x \in Id : outcome'[x] = "pending" =>
               home[x] \in Server /\ \A s \in Server : s = home[x] => x \in Held(s)'
      PROVE  Ownership'
  <2>1. (\A x \in Id : outcome[x] = "pending" => x \in Held(home[x]))'
    <3>1. SUFFICES ASSUME NEW x \in Id, outcome'[x] = "pending" PROVE (x \in Held(home[x]))'
      OBVIOUS
    <3>2. PICK s \in Server : s = home[x] /\ x \in Held(s)'
      BY <1>7, <3>1
    <3>3. QED
      BY <1>2, <3>2 DEF Held
  <2>2. \A x \in Id : /\ outcome'[x] = "unborn" <=> x >= nextId'
                      /\ outcome'[x] = "unborn" => worker'[x] = "none"
                      /\ outcome'[x] # "unborn" => home'[x] \in Server
    <3>1. \A x \in Id : outcome'[x] = "unborn" <=> outcome[x] = "unborn"
      BY <1>3, <1>7
    <3>2. QED
      BY <1>2, <3>1 DEF Inv, Ownership
  <2>3. QED
    BY <1>2, <1>7, <2>1, <2>2 DEF Ownership
<1>8. CASE inFlight[h] # r /\ UNCHANGED <<queue, inFlight, outcome>>
  <2>1. \A s \in Server : Held(s)' = Held(s) /\ Pending(s)' = Pending(s)
    BY <1>8 DEF Held, Pending
  <2>2. PendingBound' /\ NoDuplicateIntent' /\ ArrivalOrder'
    BY <1>2, <1>8, <2>1 DEF Inv, PendingBound, NoDuplicateIntent, ArrivalOrder
  <2>3. Ownership'
    BY <1>3, <1>4, <1>7, <1>8, <2>1 DEF Inv, Ownership
  <2>4. QueuedIsIdle'
    <3>1. \A s \in Server : \A x \in Elems(queue[s]) : x \in Id
      BY <1>4 DEF Held
    <3>2. QED
      BY <1>2, <1>8, <3>1 DEF Inv, QueuedIsIdle
  <2>5. Ledger'
    <3>1. outcome[r] # "pending"
      BY <1>2, <1>3, <1>8 DEF Inv, QueuedIsIdle
    <3>2. QED
      BY <1>2, <1>6, <1>8, <3>1 DEF Inv, Ledger
  <2>6. QED
    BY <1>1, <1>5, <2>2, <2>3, <2>4, <2>5 DEF Inv
<1>9. CASE inFlight[h] = r
  <2>1. /\ inFlight'[h] = None
        /\ \A s \in Server \ {h} : inFlight'[s] = inFlight[s]
    BY <1>1, <1>3, <1>9 DEF FinishDelivery, StillReserved, TypeOK
  <2>2. /\ r \in Held(h) /\ outcome[r] = "pending"
        /\ \A x \in Elems(queue[h]) : x \in Held(h) /\ x \in Id /\ x # r /\ r < x
    <3>1. r \in Held(h) /\ \A x \in Elems(queue[h]) : x \in Held(h) /\ r < x
      BY <1>1, <1>3, <1>9 DEF Held, Inv, ArrivalOrder
    <3>2. QED
      BY <1>1, <1>3, <1>4, <3>1
  <2>3. \A s \in Server : \A x \in Elems(queue[s]) : x \in Id /\ x # r
    <3>1. \A s \in Server : \A x \in Elems(queue[s]) : x \in Id /\ home[x] = s
      BY <1>4 DEF Held
    <3>2. QED
      BY <1>3, <2>2, <3>1
  <2>4. CASE Retryable(r) /\ queue' = [queue EXCEPT ![h] = Requeued(r)] /\ outcome' = outcome
    <3>1. /\ Requeued(r) \in Seq(Id)
          /\ Len(Requeued(r)) <= Len(queue[h]) + 1
          /\ Elems(Requeued(r)) = {r} \cup {x \in Elems(queue[h]) : key[x] # key[r]}
          /\ Increasing(Requeued(r))
      BY <1>1, <1>3, <2>2, RequeuedFacts DEF Inv, ArrivalOrder
    <3>2. /\ queue'[h] = Requeued(r)
          /\ \A s \in Server \ {h} : queue'[s] = queue[s]
      BY <1>1, <1>3, <2>4 DEF TypeOK
    <3>3. Elems(queue'[h]) = {r} \cup Elems(queue[h])
      <4>1. \A x \in Elems(queue[h]) : key[x] # key[r]
        BY <1>3, <2>2 DEF Inv, NoDuplicateIntent
      <4>2. QED
        BY <3>1, <3>2, <4>1
    <3>4. \A s \in Server : Held(s)' = Held(s)
      BY <1>1, <1>3, <1>9, <2>1, <3>2, <3>3 DEF Held
    <3>5. PendingBound'
      <4>1. Pending(h)' <= Pending(h) /\ Pending(h)' \in Int /\ Pending(h) \in Int
        <5>1. Pending(h) = Len(queue[h]) + 1 /\ Pending(h)' = Len(Requeued(r)) + 0
          BY <1>1, <1>9, <2>1, <3>2 DEF Pending
        <5>2. Len(queue[h]) \in Nat /\ Len(Requeued(r)) \in Nat
          BY <1>1, <1>3, <3>1 DEF TypeOK
        <5>3. QED
          BY <3>1, <5>1, <5>2
      <4>2. \A s \in Server \ {h} : Pending(s)' = Pending(s)
        BY <2>1, <3>2 DEF Pending
      <4>3. QED
        BY <1>3, <4>1, <4>2, ConstantsOK DEF Inv, PendingBound
    <3>6. NoDuplicateIntent'
      BY <1>2, <3>4 DEF Inv, NoDuplicateIntent
    <3>7. ArrivalOrder'
      BY <2>1, <3>1, <3>2 DEF Inv, ArrivalOrder
    <3>8. Ownership'
      BY <1>3, <1>4, <1>7, <2>4, <3>4 DEF Inv, Ownership
    <3>9. QueuedIsIdle'
      <4>1. \A s \in Server : \A x \in Elems(queue'[s]) : worker'[x] = "none"
        BY <1>2, <2>3, <3>2, <3>3 DEF Inv, QueuedIsIdle
      <4>2. ASSUME NEW s \in Server, NEW x \in Id, worker'[x] # "none", home[x] = s, inFlight'[s] # x
            PROVE  outcome'[x] = "reaped"
        BY <1>2, <1>9, <2>1, <2>4, <4>2 DEF Inv, QueuedIsIdle
      <4>3. QED
        BY <1>2, <4>1, <4>2 DEF QueuedIsIdle
    <3>10. Ledger'
      <4>1. \A s \in Server : \A i \in DOMAIN injected[s] : injected[s][i] # r
        BY <1>2, <2>2, <2>4 DEF Inv, Ledger, Retryable
      <4>2. QED
        BY <1>2, <1>6, <2>4, <4>1 DEF Inv, Ledger
    <3>11. QED
      BY <1>1, <1>5, <3>5, <3>6, <3>7, <3>8, <3>9, <3>10 DEF Inv
  <2>5. CASE ~Retryable(r) /\ outcome' = [outcome EXCEPT ![r] = worker[r]] /\ queue' = queue
    <3>1. /\ outcome'[r] \in {"dropped", "delivered"}
          /\ \A x \in Id \ {r} : outcome'[x] = outcome[x]
      BY <1>1, <1>2, <2>5 DEF TypeOK, Retryable
    <3>2. /\ Held(h)' = Held(h) \ {r}
          /\ \A s \in Server \ {h} : Held(s)' = Held(s)
      BY <1>1, <1>3, <1>9, <2>1, <2>2, <2>5 DEF Held
    <3>3. PendingBound'
      <4>1. Pending(h)' <= Pending(h) /\ Pending(h)' \in Int /\ Pending(h) \in Int
        <5>1. Pending(h) = Len(queue[h]) + 1 /\ Pending(h)' = Len(queue[h]) + 0
          BY <1>1, <1>9, <2>1, <2>5 DEF Pending
        <5>2. Len(queue[h]) \in Nat
          BY <1>1, <1>3 DEF TypeOK
        <5>3. QED
          BY <5>1, <5>2
      <4>2. \A s \in Server \ {h} : Pending(s)' = Pending(s)
        BY <2>1, <2>5 DEF Pending
      <4>3. QED
        BY <1>3, <4>1, <4>2, ConstantsOK DEF Inv, PendingBound
    <3>4. NoDuplicateIntent' /\ ArrivalOrder'
      BY <1>2, <2>1, <2>5, <3>2 DEF Inv, NoDuplicateIntent, ArrivalOrder
    <3>5. Ownership'
      <4>1. \A s \in Server : \A x \in Held(s)' : home[x] = s /\ outcome'[x] = "pending"
        BY <1>4, <2>2, <3>1, <3>2
      <4>2. \A x \in Id : outcome'[x] = "pending" =>
              home[x] \in Server /\ \A s \in Server : s = home[x] => x \in Held(s)'
        BY <3>1, <3>2 DEF Inv, Ownership
      <4>3. QED
        BY <1>7, <3>1, <4>1, <4>2
    <3>6. QueuedIsIdle'
      <4>1. \A s \in Server : \A x \in Elems(queue'[s]) : worker'[x] = "none"
        BY <1>2, <2>3, <2>5 DEF Inv, QueuedIsIdle
      <4>2. ASSUME NEW s \in Server, NEW x \in Id, worker'[x] # "none", home[x] = s, inFlight'[s] # x
            PROVE  outcome'[x] = "reaped"
        BY <1>2, <1>9, <2>1, <3>1, <4>2 DEF Inv, QueuedIsIdle
      <4>3. QED
        BY <1>2, <4>1, <4>2 DEF QueuedIsIdle
    <3>7. Ledger'
      BY <1>2, <1>6, <3>1 DEF Inv, Ledger
    <3>8. QED
      BY <1>1, <1>5, <3>3, <3>4, <3>5, <3>6, <3>7 DEF Inv
  <2>6. QED
    BY <1>3, <1>9, <2>4, <2>5 DEF FinishDelivery, StillReserved
<1>10. QED
  BY <1>3, <1>8, <1>9 DEF FinishDelivery, StillReserved

-----------------------------------------------------------------------------
(* The theorems *)

LEMMA InvStep == Inv /\ [Next]_vars => Inv'
<1> SUFFICES ASSUME Inv, [Next]_vars PROVE Inv'
  OBVIOUS
<1>1. CASE Tick
  BY <1>1, TickKeeps
<1>2. CASE Retain
  BY <1>2, RetainKeeps
<1>3. CASE \E s \in Server : \/ \E k \in Key : Enqueue(s, k)
                             \/ PollFetch(s)
                             \/ Advance(s)
  BY <1>3, EnqueueKeeps, PollFetchKeeps, AdvanceKeeps
<1>4. CASE \E r \in Id : DeliverFetch(r) \/ DeliverInject(r) \/ FinishDelivery(r)
  BY <1>4, DeliverFetchKeeps, DeliverInjectKeeps, FinishDeliveryKeeps
<1>5. CASE UNCHANGED vars
  <2>1. TypeOK'
    BY <1>5 DEF Inv, TypeOK, vars
  <2>2. QED
    BY <1>5, <2>1, QuietKeeps DEF vars
<1>6. QED
  BY <1>1, <1>2, <1>3, <1>4, <1>5 DEF Next

THEOREM Invariance == Spec => []Inv
<1>1. Init => Inv
  BY InvInit
<1>2. Inv /\ [Next]_vars => Inv'
  BY InvStep
<1>3. QED
  BY <1>1, <1>2, PTL DEF Spec

\* The queue and the request in flight never exceed the cap together, for
\* every cap: no delivery, deferral or enqueue admits one intent too many.
THEOREM PendingBounded == Spec => []PendingBound
<1>1. Inv => PendingBound
  BY DEF Inv
<1>2. QED
  BY <1>1, Invariance, PTL

\* No two held requests of a server carry the same intent.
THEOREM IntentsDistinct == Spec => []NoDuplicateIntent
<1>1. Inv => NoDuplicateIntent
  BY DEF Inv
<1>2. QED
  BY <1>1, Invariance, PTL

\* A deferral never loses a request its turn.
THEOREM ServedInOrder == Spec => []ArrivalOrder
<1>1. Inv => ArrivalOrder
  BY DEF Inv
<1>2. QED
  BY <1>1, Invariance, PTL

\* A server holds exactly what it accepted and has not settled.
THEOREM NothingLostOrRevived == Spec => []HeldIsPending
<1>1. Inv => HeldIsPending
  <2>1. ASSUME Inv, NEW r \in Id
        PROVE  outcome[r] = "pending" <=> home[r] \in Server /\ r \in Held(home[r])
    BY <2>1 DEF Inv, Ownership
  <2>2. QED
    BY <2>1 DEF HeldIsPending
<1>2. QED
  BY <1>1, Invariance, PTL

\* No queued request has a goroutine, and a goroutine that is not the one in
\* flight works for a request its server was reaped with.
THEOREM OneGoroutine == Spec => []QueuedIsIdle
<1>1. Inv => QueuedIsIdle
  BY DEF Inv
<1>2. QED
  BY <1>1, Invariance, PTL

\* No prompt is pasted twice, whatever the operator, the poll units and the
\* reaping of servers do between a reservation and its completion.
THEOREM PastedOnce == Spec => []InjectedOnce
<1>1. Inv => InjectedOnce
  BY DEF Inv
<1>2. QED
  BY <1>1, Invariance, PTL

\* A reservation takes the oldest request that is not stale.
THEOREM FreshestFirst == Spec => ReservesFresh
<1> DEFINE Fresh ==
      \A s \in Server :
        inFlight'[s] \notin {None, inFlight[s]} =>
          /\ age[inFlight'[s]] <= TTL
          /\ \A r \in Held(s) : r < inFlight'[s] => age[r] > TTL
<1>1. Inv /\ [Next]_vars => Fresh
  <2> SUFFICES ASSUME Inv, [Next]_vars, NEW s \in Server,
                      inFlight'[s] \notin {None, inFlight[s]}
               PROVE  /\ age[inFlight'[s]] <= TTL
                      /\ \A r \in Held(s) : r < inFlight'[s] => age[r] > TTL
    OBVIOUS
  <2>1. TypeOK
    BY DEF Inv
  <2>2. Advance(s) /\ MayReserve(s) /\ inFlight'[s] = Head(Unexpired(s))
    <3>1. \A t \in Server, k \in Key : ~Enqueue(t, k)
      BY DEF Enqueue
    <3>2. \A t \in Server : ~PollFetch(t)
      BY DEF PollFetch
    <3>3. ~Tick /\ ~Retain /\ ~UNCHANGED vars
      BY DEF Tick, Retain, vars
    <3>4. \A r \in Id : ~DeliverFetch(r) /\ ~DeliverInject(r) /\ ~FinishDelivery(r)
      BY <2>1 DEF DeliverFetch, DeliverInject, FinishDelivery, TypeOK
    <3>5. PICK t \in Server : Advance(t)
      BY <3>1, <3>2, <3>3, <3>4 DEF Next
    <3>6. inFlight' = [inFlight EXCEPT ![t] = Head(Unexpired(t))] /\ MayReserve(t)
      BY <3>5 DEF Advance
    <3>7. t = s
      BY <2>1, <3>6 DEF TypeOK
    <3>8. QED
      BY <2>1, <3>5, <3>6, <3>7 DEF TypeOK
  <2> DEFINE u == Unexpired(s)
             h == Head(u)
  <2>3. /\ u \in Seq(Id) /\ u # << >> /\ Increasing(u)
        /\ Elems(u) = {r \in Elems(queue[s]) : age[r] <= TTL}
        /\ Id \in SUBSET Int
    BY <2>1, <2>2, UnexpiredFacts DEF MayReserve, Inv, ArrivalOrder, Id
  <2>4. h \in Id /\ Elems(u) = {h} \cup Elems(Tail(u)) /\ \A x \in Elems(Tail(u)) : h < x
    <3> HIDE DEF u
    <3> QED BY <2>3, HeadTailFacts, TailIncreasing
  <2> HIDE DEF u, h
  <2>5. age[h] <= TTL
    BY <2>3, <2>4
  <2>6. ASSUME NEW r \in Held(s), r < h PROVE age[r] > TTL
    <3>1. r \in Elems(queue[s]) /\ r \in Id
      BY <2>2, HeldFacts DEF Held, MayReserve
    <3>2. r \notin Elems(u)
      BY <2>3, <2>4, <2>6, <3>1
    <3>3. ~ (age[r] <= TTL)
      BY <2>3, <3>1, <3>2
    <3>4. QED
      BY <2>1, <3>1, <3>3, ConstantsOK DEF TypeOK
  <2>7. QED
    BY <2>2, <2>5, <2>6 DEF h, u
<1>2. QED
  BY <1>1, Invariance, PTL DEF Spec, ReservesFresh

=============================================================================
