---------------------------- MODULE PollHubProofs ---------------------------
(***************************************************************************)
(* One unit of a server at a time, and snapshots in their order, for every *)
(* set of servers, connections and slots, any semaphore and any number of  *)
(* changes.                                                                *)
(*                                                                         *)
(* Neither is inductive.  That no second unit starts rests on the mark in  *)
(* flight being that of the one unit which runs, which a reaped server     *)
(* breaks: both are of servers whose socket stays.  The order of snapshots *)
(* goes along the path of one: what a unit carries, the cache and what is  *)
(* shown are each no older than what the connections got, and no newer     *)
(* than the server.                                                        *)
(***************************************************************************)
EXTENDS PollHub, SequenceTheorems, FiniteSetTheorems, TLAPS

InFlightSteps == Running \cup {"clear"}

\* A bump of the generation is one of the changes that were made.
Counted ==
  \A s \in Server : gen[s] + (IF "bump" \in unannounced[s] THEN 1 ELSE 0) <= change[s]

\* A unit that holds the semaphore has a server, and one with an outcome knows it.
Busy ==
  \A k \in Slot :
    /\ unit[k].pc \notin {"none", "signal"} => unit[k].server \in Server
    /\ unit[k].pc \in {"store", "dedup", "fanout", "deliver"} => unit[k].result # "none"

Dispatching == loop # "dispatch" => todo = {}

\* The mark in flight is of one unit.
Alone(s) ==
  /\ \A k, l \in UnitsOf(s, InFlightSteps) : k = l
  /\ UnitsOf(s, InFlightSteps) # {} => inFlight[s]

\* No unit of a server whose socket stays reports it dead.
Stays(s) ==
  /\ alive[s] /\ s \notin dead
  /\ \A i \in DOMAIN results : results[i] # <<s, "dead">>
  /\ \A k \in Slot : unit[k].server = s => unit[k].result # "dead"

\* Snapshots grow from the connections to the server.
Newer(s) ==
  /\ shown[s] <= change[s]
  /\ cache[s] # None => shown[s] <= cache[s] /\ cache[s] <= change[s]
  /\ \A c \in clients[s] : got[c][s] <= shown[s]
  /\ \A k \in UnitsOf(s, {"store", "dedup"}) : shown[s] <= unit[k].seen /\ unit[k].seen <= change[s]
  /\ \A k \in UnitsOf(s, {"dedup"}) : cache[s] = None \/ cache[s] = unit[k].seen
  /\ \A k \in UnitsOf(s, {"fanout"}) : unit[k].seen = shown[s]

Steady == Server \ setup.mortal

Inv ==
  /\ TypeOK /\ Counted /\ Busy /\ Dispatching /\ FlightHasUnit
  /\ \A s \in Steady : Alone(s) /\ Stays(s) /\ Newer(s)

-----------------------------------------------------------------------------
(* Types *)

UnitType ==
  [pc : UnitStep, server : Server \cup {None}, invalidate : BOOLEAN, seen : Version \cup {None},
   result : {"none", "polled", "dead", "failed"}]

Result == Server \X {"polled", "dead", "failed"}

LEMMA VersionFacts ==
  ASSUME setup \in Setups
  PROVE  /\ setup.changes \in Nat /\ Version \subseteq Nat
         /\ \A v : v \in Version <=> v \in Nat /\ v <= setup.changes
         /\ None \in Int /\ None \notin Version
BY ConstantsOK DEF Version, SetupType, None

\* A counter of the model that has not reached its bound goes up by one.
LEMMA CountUp ==
  ASSUME setup \in Setups, NEW f \in [Server -> Version], NEW s \in Server, f[s] < setup.changes
  PROVE  LET g == [f EXCEPT ![s] = @ + 1]
         IN  /\ g \in [Server -> Version] /\ g[s] = f[s] + 1
             /\ \A x \in Server : x # s => g[x] = f[x]
             /\ \A x \in Server : f[x] \in Nat /\ g[x] \in Nat /\ f[x] <= g[x]
<1>1. f[s] \in Nat /\ setup.changes \in Nat /\ f[s] + 1 <= setup.changes
  BY VersionFacts
<1>2. f[s] + 1 \in Version
  BY <1>1, VersionFacts
<1>3. \A x \in Server : f[x] \in Nat
  BY VersionFacts
<1>4. QED
  BY <1>1, <1>2, <1>3

LEMMA IdleFacts ==
  ASSUME setup \in Setups
  PROVE  Idle \in UnitType
BY DEF Idle, UnitType, UnitStep

LEMMA UnitsOfFacts ==
  ASSUME NEW s, NEW steps, NEW k
  PROVE  k \in UnitsOf(s, steps) <=> k \in Slot /\ unit[k].server = s /\ unit[k].pc \in steps
BY DEF UnitsOf

LEMMA InitInv == Init => Inv
<1> SUFFICES ASSUME Init PROVE Inv
  OBVIOUS
<1> USE DEF Init
<1>1. /\ setup.changes \in Nat /\ Version \subseteq Nat /\ 0 \in Version
  BY VersionFacts
<1>2. \A k \in Slot : unit[k] = Idle
  OBVIOUS
<1>3. TypeOK
  <2>1. unit \in [Slot -> UnitType]
    BY IdleFacts
  <2>2. results \in Seq(Result) /\ Len(results) <= Concurrency
    BY ConstantsOK DEF Result
  <2>3. QED
    BY <1>1, <2>1, <2>2 DEF TypeOK, UnitType, Result
<1>4. Counted /\ Dispatching /\ FlightHasUnit
  BY DEF Counted, Dispatching, FlightHasUnit
<1>5. Busy
  BY <1>2 DEF Busy, Idle
<1>6. \A s, steps : "none" \notin steps => UnitsOf(s, steps) = {}
  BY <1>2 DEF UnitsOf, Idle
<1>7. \A s \in Server : Alone(s)
  BY <1>6 DEF Alone, InFlightSteps, Running
<1>8. \A s \in Server : Stays(s)
  BY <1>2 DEF Stays, Idle
<1>9. \A s \in Server : Newer(s)
  BY <1>6 DEF Newer, None
<1>10. QED
  BY <1>3, <1>4, <1>5, <1>7, <1>8, <1>9 DEF Inv, Steady

-----------------------------------------------------------------------------
(* tmux and the connections: no unit moves *)

LEMMA ChangeInv ==
  ASSUME Inv, NEW s \in Server, Change(s)
  PROVE  Inv'
<1> USE DEF Inv
<1>1. /\ change[s] < setup.changes /\ change' = [change EXCEPT ![s] = @ + 1]
      /\ UNCHANGED <<setup, alive, gen, hub, loop, local, unit>>
  BY DEF Change
<1>2. PICK how \in setup.signals :
        how \notin unannounced[s] /\ unannounced' = [unannounced EXCEPT ![s] = @ \cup {how}]
  BY DEF Change
<1>3. /\ setup' = setup /\ alive' = alive /\ gen' = gen /\ clients' = clients /\ got' = got
      /\ cache' = cache /\ shown' = shown /\ inFlight' = inFlight /\ results' = results
      /\ loop' = loop /\ todo' = todo /\ dead' = dead /\ unit' = unit /\ Version' = Version
  BY <1>1 DEF hub, local, Version
<1>4. setup \in Setups /\ change \in [Server -> Version]
  BY DEF TypeOK
<1>5. /\ change' \in [Server -> Version] /\ change'[s] = change[s] + 1
      /\ \A x \in Server : x # s => change'[x] = change[x]
      /\ \A x \in Server : change[x] \in Nat /\ change'[x] \in Nat /\ change[x] <= change'[x]
  BY <1>1, <1>4, CountUp
<1>6. TypeOK'
  BY <1>1, <1>2, <1>3, <1>5 DEF TypeOK, hub, local
<1>7. Counted'
  <2> SUFFICES ASSUME NEW x \in Server
               PROVE  gen[x] + (IF "bump" \in unannounced'[x] THEN 1 ELSE 0) <= change'[x]
    BY <1>3 DEF Counted
  <2>1. gen[x] \in Nat /\ change[x] \in Nat /\ change'[x] \in Nat
    BY <1>4, <1>5, VersionFacts DEF TypeOK
  <2>2. gen[x] + (IF "bump" \in unannounced[x] THEN 1 ELSE 0) <= change[x]
    BY DEF Counted
  <2>3. x # s => unannounced'[x] = unannounced[x]
    BY <1>2 DEF TypeOK
  <2>4. QED
    BY <1>5, <2>1, <2>2, <2>3
<1>8. Busy' /\ Dispatching' /\ FlightHasUnit'
  BY <1>3 DEF Busy, Dispatching, FlightHasUnit, UnitsOf
<1>9. ASSUME NEW x \in Steady PROVE Alone(x)' /\ Stays(x)' /\ Newer(x)'
  <2>1. x \in Server /\ Alone(x) /\ Stays(x) /\ Newer(x)
    BY DEF Steady
  <2>2. change[x] \in Nat /\ change'[x] \in Nat /\ change[x] <= change'[x]
    BY <1>5, <2>1
  <2>3. Alone(x)' /\ Stays(x)'
    BY <1>3, <2>1 DEF Alone, Stays, UnitsOf
  <2>4. /\ shown[x] \in Int /\ cache[x] \in Int /\ \A k \in Slot : unit[k].seen \in Int
    BY <2>1, <1>4, VersionFacts DEF TypeOK
  <2>5. Newer(x)'
    BY <1>3, <2>1, <2>2, <2>4 DEF Newer, UnitsOf
  <2>6. QED
    BY <2>3, <2>5
<1>10. QED
  BY <1>3, <1>6, <1>7, <1>8, <1>9 DEF Steady

LEMMA VanishInv ==
  ASSUME Inv, NEW s \in Server, Vanish(s)
  PROVE  Inv'
<1> USE DEF Inv
<1>1. /\ s \in setup.mortal /\ change[s] < setup.changes
      /\ change' = [change EXCEPT ![s] = @ + 1] /\ alive' = [alive EXCEPT ![s] = ~@]
      /\ UNCHANGED <<setup, unannounced, gen, hub, loop, local, unit>>
  BY DEF Vanish
<1>2. /\ setup' = setup /\ gen' = gen /\ clients' = clients /\ got' = got
      /\ cache' = cache /\ shown' = shown /\ inFlight' = inFlight /\ results' = results
      /\ loop' = loop /\ todo' = todo /\ dead' = dead /\ unit' = unit /\ Version' = Version
  BY <1>1 DEF hub, local, Version
<1>3. setup \in Setups /\ change \in [Server -> Version]
  BY DEF TypeOK
<1>4. /\ change' \in [Server -> Version] /\ change'[s] = change[s] + 1
      /\ \A x \in Server : x # s => change'[x] = change[x]
      /\ \A x \in Server : change[x] \in Nat /\ change'[x] \in Nat /\ change[x] <= change'[x]
  BY <1>1, <1>3, CountUp
<1>5. TypeOK'
  BY <1>1, <1>2, <1>4 DEF TypeOK, hub, local
<1>6. Counted'
  <2> SUFFICES ASSUME NEW x \in Server
               PROVE  gen[x] + (IF "bump" \in unannounced[x] THEN 1 ELSE 0) <= change'[x]
    BY <1>1, <1>2 DEF Counted
  <2>1. gen[x] \in Nat /\ change[x] \in Nat /\ change'[x] \in Nat
    BY <1>3, <1>4, VersionFacts DEF TypeOK
  <2>2. gen[x] + (IF "bump" \in unannounced[x] THEN 1 ELSE 0) <= change[x]
    BY DEF Counted
  <2>3. QED
    BY <1>4, <2>1, <2>2
<1>7. Busy' /\ Dispatching' /\ FlightHasUnit'
  BY <1>2 DEF Busy, Dispatching, FlightHasUnit, UnitsOf
<1>8. ASSUME NEW x \in Steady PROVE Alone(x)' /\ Stays(x)' /\ Newer(x)'
  <2>1. x \in Server /\ x # s /\ Alone(x) /\ Stays(x) /\ Newer(x)
    BY <1>1 DEF Steady
  <2>2. change'[x] = change[x] /\ alive'[x] = alive[x]
    BY <1>1, <1>4, <2>1 DEF TypeOK
  <2>3. QED
    BY <1>2, <2>1, <2>2 DEF Alone, Stays, Newer, UnitsOf
<1>9. QED
  BY <1>2, <1>5, <1>6, <1>7, <1>8 DEF Steady

LEMMA AnnounceInv ==
  ASSUME Inv, NEW s \in Server, Announce(s)
  PROVE  Inv'
<1> USE DEF Inv
<1>1. /\ UNCHANGED <<setup, change, alive, clients, got, cache, shown, inFlight, membership,
                     resultsWake, results, loop, local, unit>>
      /\ Version' = Version
  BY DEF Announce, Bump, Wake, hub, Version
<1>2. CASE Bump(s)
  <2>1. /\ "bump" \in unannounced[s] /\ unannounced' = [unannounced EXCEPT ![s] = @ \ {"bump"}]
        /\ gen' = [gen EXCEPT ![s] = @ + 1] /\ UNCHANGED wakes
    BY <1>2 DEF Bump, hub
  <2>2. /\ \A x \in Server : gen[x] \in Nat /\ change[x] \in Nat /\ change[x] <= setup.changes
        /\ setup.changes \in Nat /\ \A v \in Nat : v <= setup.changes => v \in Version
    BY VersionFacts DEF TypeOK
  <2>3. /\ gen'[s] = gen[s] + 1 /\ "bump" \notin unannounced'[s]
        /\ \A x \in Server : x # s => gen'[x] = gen[x] /\ unannounced'[x] = unannounced[x]
    BY <2>1 DEF TypeOK
  <2>4. gen[s] + 1 <= change[s]
    BY <2>1 DEF Counted
  <2>5. Counted'
    BY <1>1, <2>2, <2>3, <2>4 DEF Counted
  <2>6. gen' \in [Server -> Version]
    <3>1. setup \in Setups /\ gen \in [Server -> Version] /\ gen[s] < setup.changes
      BY <2>2, <2>4 DEF TypeOK
    <3>2. QED
      BY <2>1, <3>1, CountUp
  <2>7. unannounced' \in [Server -> SUBSET setup.signals]
    BY <2>1 DEF TypeOK
  <2>8. TypeOK'
    BY <1>1, <2>1, <2>6, <2>7 DEF TypeOK, local
  <2>9. QED
    BY <1>1, <2>5, <2>8 DEF Busy, Dispatching, FlightHasUnit, Alone, Stays, Newer, UnitsOf, Steady, local
<1>3. CASE Wake(s)
  <2>1. /\ unannounced' = [unannounced EXCEPT ![s] = @ \ {"wake"}] /\ UNCHANGED gen
        /\ wakes' = [wakes EXCEPT ![s] = IF @ = "absent" /\ s \notin Subscribed
                                         THEN "absent" ELSE "closed"]
    BY <1>3 DEF Wake
  <2>2. /\ unannounced' \in [Server -> SUBSET setup.signals]
        /\ wakes' \in [Server -> {"absent", "open", "closed"}]
        /\ \A x \in Server : "bump" \in unannounced'[x] <=> "bump" \in unannounced[x]
    BY <2>1 DEF TypeOK
  <2>3. Counted'
    BY <1>1, <2>1, <2>2 DEF Counted
  <2>4. TypeOK'
    BY <1>1, <2>1, <2>2 DEF TypeOK, local
  <2>5. QED
    BY <1>1, <2>3, <2>4 DEF Busy, Dispatching, FlightHasUnit, Alone, Stays, Newer, UnitsOf, Steady, local
<1>4. QED
  BY <1>2, <1>3 DEF Announce

LEMMA ExpireCacheInv ==
  ASSUME Inv, NEW s \in Server, ExpireCache(s)
  PROVE  Inv'
<1> USE DEF Inv
<1>1. /\ cache' = [cache EXCEPT ![s] = None]
      /\ UNCHANGED <<tmux, clients, got, shown, inFlight, wakes, membership, resultsWake,
                     results, loop, local, unit>>
      /\ Version' = Version
  BY DEF ExpireCache, tmux, Version
<1>2. \A x \in Server : cache'[x] = None \/ cache'[x] = cache[x]
  BY <1>1 DEF TypeOK
<1>3. TypeOK'
  BY <1>1 DEF TypeOK, tmux, local
<1>4. Counted' /\ Busy' /\ Dispatching' /\ FlightHasUnit'
  BY <1>1 DEF Counted, Busy, Dispatching, FlightHasUnit, UnitsOf, tmux, local
<1>5. ASSUME NEW x \in Steady PROVE Alone(x)' /\ Stays(x)' /\ Newer(x)'
  <2>1. x \in Server /\ Alone(x) /\ Stays(x) /\ Newer(x)
    BY DEF Steady
  <2>2. Alone(x)' /\ Stays(x)'
    BY <1>1, <2>1 DEF Alone, Stays, UnitsOf, tmux, local
  <2>3. Newer(x)'
    BY <1>1, <1>2, <2>1 DEF Newer, UnitsOf, tmux
  <2>4. QED
    BY <2>2, <2>3
<1>6. QED
  BY <1>1, <1>3, <1>4, <1>5 DEF Steady, tmux

\* A new connection starts from what is shown, and one that leaves takes nothing along.
LEMMA ClientInv ==
  ASSUME Inv, NEW c \in Client, NEW s \in Server, AddClient(c, s) \/ RemoveClient(c, s)
  PROVE  Inv'
<1> USE DEF Inv
<1>1. /\ UNCHANGED <<tmux, cache, shown, inFlight, wakes, resultsWake, results, unit, servers, todo, dead>>
      /\ Version' = Version
  BY DEF AddClient, RemoveClient, StartLoop, tmux, local, Version
<1>2. /\ setup' = setup /\ change' = change /\ alive' = alive /\ gen' = gen /\ unannounced' = unannounced
  BY <1>1 DEF tmux
<1>3. /\ loop' \in {"off", "top", "fold", "reap", "dispatch", "wait", "debounce"}
      /\ loop' = "dispatch" <=> loop = "dispatch"
      /\ membership' \in BOOLEAN /\ seenGen' \in [Server -> Version] /\ flags' \in SUBSET Server
      /\ resultsOnly' \in BOOLEAN
  <2>1. 0 \in Version
    <3>1. setup \in Setups
      BY DEF TypeOK
    <3>2. setup.changes \in Nat /\ 0 <= setup.changes
      BY <3>1, VersionFacts
    <3>3. QED
      BY <3>1, <3>2, VersionFacts
  <2>2. CASE AddClient(c, s) /\ loop = "off"
    BY <2>1, <2>2 DEF AddClient, StartLoop, TypeOK
  <2>3. CASE AddClient(c, s) /\ loop # "off"
    BY <2>3 DEF AddClient, local, TypeOK
  <2>4. CASE RemoveClient(c, s)
    BY <2>4 DEF RemoveClient, local, TypeOK
  <2>5. QED
    BY <2>2, <2>3, <2>4
<1>4. /\ clients' \in [Server -> SUBSET Client] /\ got' \in [Client -> [Server -> Version \cup {None}]]
      /\ \A x \in Server : \A d \in clients'[x] :
           \/ d \in clients[x] /\ got'[d][x] = got[d][x]
           \/ got'[d][x] = shown[x]
  <2>1. CASE AddClient(c, s)
    BY <2>1 DEF AddClient, TypeOK
  <2>2. CASE RemoveClient(c, s)
    BY <2>2 DEF RemoveClient, TypeOK
  <2>3. QED
    BY <2>1, <2>2
<1>5. TypeOK'
  BY <1>1, <1>2, <1>3, <1>4 DEF TypeOK
<1>6. Counted' /\ Busy' /\ Dispatching' /\ FlightHasUnit'
  BY <1>1, <1>2, <1>3 DEF Counted, Busy, Dispatching, FlightHasUnit, UnitsOf
<1>7. ASSUME NEW x \in Steady PROVE Alone(x)' /\ Stays(x)' /\ Newer(x)'
  <2>1. x \in Server /\ Alone(x) /\ Stays(x) /\ Newer(x)
    BY DEF Steady
  <2>2. Alone(x)' /\ Stays(x)'
    BY <1>1, <1>2, <2>1 DEF Alone, Stays, UnitsOf
  <2>3. shown[x] \in Int
    BY <2>1, VersionFacts DEF TypeOK
  <2>4. Newer(x)'
    BY <1>1, <1>2, <1>4, <2>1, <2>3 DEF Newer, UnitsOf
  <2>5. QED
    BY <2>2, <2>4
<1>8. QED
  BY <1>2, <1>5, <1>6, <1>7 DEF Steady

-----------------------------------------------------------------------------
(* The poll goroutine *)

\* A step of the goroutine that leaves the units and what they work on alone.
LEMMA LoopFrame ==
  ASSUME Inv, TypeOK', Dispatching',
         UNCHANGED <<tmux, clients, got, cache, shown, inFlight, unit>>,
         \A s \in Steady : s \notin dead' /\ \A i \in DOMAIN results' : results'[i] # <<s, "dead">>
  PROVE  Inv'
<1> USE DEF Inv
<1>1. /\ setup' = setup /\ change' = change /\ alive' = alive /\ gen' = gen /\ unannounced' = unannounced
  BY DEF tmux
<1>2. Counted' /\ Busy' /\ FlightHasUnit'
  BY <1>1 DEF Counted, Busy, FlightHasUnit, UnitsOf
<1>3. ASSUME NEW x \in Steady PROVE Alone(x)' /\ Stays(x)' /\ Newer(x)'
  BY <1>1, <1>3 DEF Alone, Stays, Newer, UnitsOf
<1>4. QED
  BY <1>1, <1>2, <1>3 DEF Steady

LEMMA TickTopInv ==
  ASSUME Inv, TickTop
  PROVE  Inv'
<1>1. /\ loop = "top" /\ UNCHANGED <<tmux, hub, todo, dead, seenGen, resultsOnly, unit>>
      /\ \/ loop' = "off" /\ UNCHANGED <<servers, flags>>
         \/ servers' = Subscribed /\ flags' = flags \cap Subscribed /\ loop' = "fold"
      /\ Version' = Version
  BY DEF TickTop, tmux, Version
<1>2. todo = {}
  BY <1>1 DEF Inv, Dispatching
<1>3. TypeOK'
  BY <1>1, <1>2 DEF Inv, TypeOK, tmux, hub, Subscribed
<1>4. Dispatching'
  BY <1>1, <1>2 DEF Dispatching
<1>5. QED
  BY <1>1, <1>3, <1>4, LoopFrame DEF Inv, Stays, hub

LEMMA FoldInv ==
  ASSUME Inv, Fold
  PROVE  Inv'
<1>1. /\ loop = "fold" /\ loop' = "reap" /\ results' = <<>>
      /\ dead' = {s \in Server : \E i \in DOMAIN results : results[i] = <<s, "dead">>}
      /\ UNCHANGED <<tmux, clients, got, cache, shown, inFlight, wakes, membership, resultsWake,
                     servers, todo, seenGen, flags, resultsOnly, unit>>
      /\ Version' = Version
  BY DEF Fold, tmux, Version
<1>2. Len(<<>>) <= Concurrency
  BY ConstantsOK
<1>3. TypeOK'
  BY <1>1, <1>2 DEF Inv, TypeOK, tmux
<1>4. Dispatching'
  BY <1>1 DEF Inv, Dispatching
<1>5. \A s \in Steady : s \notin dead'
  BY <1>1 DEF Inv, Stays
<1>6. QED
  BY <1>1, <1>3, <1>4, <1>5, LoopFrame

\* The entries of the dead servers go, of which none is a server whose socket stays.
LEMMA ReapInv ==
  ASSUME Inv, Reap
  PROVE  Inv'
<1> USE DEF Inv
<1>1. /\ clients' = [s \in Server |-> ClientsAfterReap(s)]
      /\ cache' = [s \in Server |-> IF s \in dead THEN None ELSE cache[s]]
      /\ shown' = [s \in Server |-> IF s \in dead THEN None ELSE shown[s]]
      /\ inFlight' = [s \in Server |-> s \notin dead /\ inFlight[s]]
      /\ wakes' = [s \in Server |-> IF s \in dead THEN "absent" ELSE wakes[s]]
      /\ seenGen' = [s \in Server |-> IF s \in dead THEN 0 ELSE seenGen[s]]
      /\ flags' = flags \ dead /\ dead' = {} /\ todo' = DispatchSet /\ loop' = "dispatch"
      /\ UNCHANGED <<tmux, got, membership, resultsWake, results, servers, resultsOnly, unit>>
      /\ Version' = Version
  BY DEF Reap, tmux, Version
<1>2. /\ setup' = setup /\ change' = change /\ alive' = alive /\ gen' = gen /\ unannounced' = unannounced
  BY <1>1 DEF tmux
<1>3. 0 \in Version
  <2>1. setup \in Setups
    BY DEF TypeOK
  <2>2. setup.changes \in Nat /\ 0 <= setup.changes
    BY <2>1, VersionFacts
  <2>3. QED
    BY <2>1, <2>2, VersionFacts
<1>4. /\ clients' \in [Server -> SUBSET Client] /\ cache' \in [Server -> Version \cup {None}]
      /\ shown' \in [Server -> Version \cup {None}] /\ inFlight' \in [Server -> BOOLEAN]
  <2>1. clients' \in [Server -> SUBSET Client]
    BY <1>1 DEF TypeOK, ClientsAfterReap
  <2>2. cache' \in [Server -> Version \cup {None}] /\ shown' \in [Server -> Version \cup {None}]
    BY <1>1 DEF TypeOK
  <2>3. inFlight' \in [Server -> BOOLEAN]
    BY <1>1
  <2>4. QED
    BY <2>1, <2>2, <2>3
<1>5. /\ wakes' \in [Server -> {"absent", "open", "closed"}] /\ seenGen' \in [Server -> Version]
      /\ todo' \in SUBSET servers
  BY <1>1, <1>3 DEF TypeOK, DispatchSet
<1>6. TypeOK'
  BY <1>1, <1>2, <1>4, <1>5 DEF TypeOK
<1>7. Counted' /\ Busy' /\ Dispatching' /\ FlightHasUnit'
  BY <1>1, <1>2 DEF Counted, Busy, Dispatching, FlightHasUnit, UnitsOf
<1>8. ASSUME NEW x \in Steady PROVE Alone(x)' /\ Stays(x)' /\ Newer(x)'
  <2>1. x \in Server /\ x \notin dead /\ Alone(x) /\ Stays(x) /\ Newer(x)
    BY DEF Steady, Stays
  <2>2. /\ clients'[x] = clients[x] /\ cache'[x] = cache[x] /\ shown'[x] = shown[x]
        /\ inFlight'[x] = inFlight[x]
    BY <1>1, <2>1 DEF ClientsAfterReap, TypeOK
  <2>3. QED
    BY <1>1, <1>2, <2>1, <2>2 DEF Alone, Stays, Newer, UnitsOf
<1>9. QED
  BY <1>2, <1>6, <1>7, <1>8 DEF Steady

LEMMA WaitInv ==
  ASSUME Inv, BeginWait \/ EndWait(TRUE) \/ EndWait(FALSE) \/ EndDebounce
  PROVE  Inv'
<1>1. /\ UNCHANGED <<tmux, clients, got, cache, shown, inFlight, results, servers, todo, dead, unit>>
      /\ Version' = Version /\ (loop # "dispatch" \/ todo = {})
  BY DEF BeginWait, EndWait, EndDebounce, Peek, tmux, local, Version
<1>2. /\ loop' \in {"wait", "debounce", "top"} /\ wakes' \in [Server -> {"absent", "open", "closed"}]
      /\ membership' \in BOOLEAN /\ resultsWake' \in BOOLEAN /\ seenGen' \in [Server -> Version]
      /\ flags' \in SUBSET Server /\ resultsOnly' \in BOOLEAN
  <2>1. CASE BeginWait
    BY <2>1 DEF BeginWait, Inv, TypeOK, local
  <2>2. ASSUME NEW timer, EndWait(timer) \/ EndDebounce
        PROVE  /\ loop' \in {"debounce", "top"}
               /\ Peek /\ resultsOnly' \in BOOLEAN
    BY <2>2 DEF EndWait, EndDebounce
  <2>3. ASSUME Peek
        PROVE  /\ wakes' \in [Server -> {"absent", "open", "closed"}] /\ seenGen' \in [Server -> Version]
               /\ membership' \in BOOLEAN /\ resultsWake' \in BOOLEAN /\ flags' \in SUBSET Server
    BY <2>3 DEF Peek, Inv, TypeOK, Bumped, Woken
  <2>4. QED
    BY <2>1, <2>2, <2>3
<1>3. TypeOK'
  BY <1>1, <1>2 DEF Inv, TypeOK, tmux
<1>4. Dispatching'
  BY <1>1 DEF Inv, Dispatching
<1>5. QED
  BY <1>1, <1>3, <1>4, LoopFrame DEF Inv, Stays

\* A server is dispatched only if the mark is not set: no unit of it is in its way.
LEMMA DispatchInv ==
  ASSUME Inv, NEW s \in Server, Start(s) \/ Skip(s)
  PROVE  Inv'
<1> USE DEF Inv
<1>1. CASE Skip(s)
  <2>1. /\ loop = "dispatch" /\ todo' = todo \ {s}
        /\ UNCHANGED <<tmux, hub, loop, servers, dead, seenGen, flags, resultsOnly, unit>>
        /\ Version' = Version
    BY <1>1 DEF Skip, tmux, Version
  <2>2. TypeOK' /\ Dispatching'
    BY <2>1 DEF TypeOK, Dispatching, tmux, hub
  <2>3. QED
    BY <2>1, <2>2, LoopFrame DEF Stays, hub
<1>2. CASE Start(s)
  <2>1. /\ loop = "dispatch" /\ s \in todo /\ ~inFlight[s] /\ inFlight' = [inFlight EXCEPT ![s] = TRUE]
        /\ flags' = flags \ {s} /\ todo' = todo \ {s}
        /\ UNCHANGED <<tmux, clients, got, cache, shown, wakes, membership, resultsWake,
                       results, loop, servers, dead, seenGen, resultsOnly>>
        /\ Version' = Version
    BY <1>2 DEF Start, Dispatchable, tmux, Version
  <2>2. PICK k \in Slot : unit[k] = Idle /\ unit' = [unit EXCEPT ![k] =
          [Idle EXCEPT !.pc = "check", !.server = s, !.invalidate = s \in flags]]
    BY <1>2 DEF Start
  <2>3. /\ setup' = setup /\ change' = change /\ alive' = alive /\ gen' = gen /\ unannounced' = unannounced
    BY <2>1 DEF tmux
  <2>4. /\ unit'[k].pc = "check" /\ unit'[k].server = s /\ unit'[k].result = "none"
        /\ unit'[k] \in UnitType /\ unit' \in [Slot -> UnitType]
        /\ \A l \in Slot : l # k => unit'[l] = unit[l]
        /\ unit[k].pc = "none"
    <3>1. unit \in [Slot -> UnitType]
      BY DEF TypeOK, UnitType
    <3>2. [Idle EXCEPT !.pc = "check", !.server = s, !.invalidate = s \in flags] \in UnitType
      <4>1. Idle \in UnitType
        BY IdleFacts DEF TypeOK
      <4>2. "check" \in UnitStep
        BY DEF UnitStep, Running
      <4>3. ASSUME NEW b \in BOOLEAN
            PROVE  [Idle EXCEPT !.pc = "check", !.server = s, !.invalidate = b] \in UnitType
        BY <4>1, <4>2 DEF UnitType
      <4>4. (s \in flags) \in BOOLEAN
        OBVIOUS
      <4>5. QED
        BY <4>3, <4>4
    <3>3. QED
      BY <2>2, <3>1, <3>2 DEF Idle
  <2>5. TypeOK'
    <3>1. inFlight' \in [Server -> BOOLEAN] /\ UnitType' = UnitType
      BY <2>1 DEF TypeOK, UnitType
    <3>2. QED
      BY <2>1, <2>3, <2>4, <3>1 DEF TypeOK, UnitType
  <2>6. Counted' /\ Dispatching'
    BY <2>1, <2>3 DEF Counted, Dispatching
  <2>7. Busy'
    BY <2>4 DEF Busy
  <2>8. /\ \A steps : "check" \notin steps /\ "none" \notin steps =>
                        \A x \in Server : UnitsOf(x, steps)' = UnitsOf(x, steps)
        /\ \A x \in Server : x # s => UnitsOf(x, InFlightSteps)' = UnitsOf(x, InFlightSteps)
        /\ UnitsOf(s, InFlightSteps)' = UnitsOf(s, InFlightSteps) \cup {k}
    BY <2>4 DEF UnitsOf, InFlightSteps, Running
  <2>9. FlightHasUnit'
    <3>1. \A x \in Server : x # s => inFlight'[x] = inFlight[x]
      BY <2>1 DEF TypeOK
    <3>2. QED
      BY <2>8, <3>1 DEF FlightHasUnit, InFlightSteps
  <2>10. ASSUME NEW x \in Steady PROVE Alone(x)' /\ Stays(x)' /\ Newer(x)'
    <3>1. x \in Server /\ Alone(x) /\ Stays(x) /\ Newer(x)
      BY DEF Steady
    <3>2. Stays(x)'
      BY <2>1, <2>3, <2>4, <3>1 DEF Stays
    <3>3. Alone(x)'
      <4>1. CASE x = s
        BY <2>1, <2>8, <3>1, <4>1 DEF Alone, TypeOK
      <4>2. CASE x # s
        BY <2>1, <2>8, <3>1, <4>2 DEF Alone, TypeOK
      <4>3. QED
        BY <4>1, <4>2
    <3>4. Newer(x)'
      <4>1. /\ UnitsOf(x, {"store", "dedup"})' = UnitsOf(x, {"store", "dedup"})
            /\ UnitsOf(x, {"dedup"})' = UnitsOf(x, {"dedup"})
            /\ UnitsOf(x, {"fanout"})' = UnitsOf(x, {"fanout"})
        BY <2>8, <3>1
      <4>2. \A steps : "check" \notin steps /\ "none" \notin steps =>
              \A l \in UnitsOf(x, steps) : unit'[l] = unit[l]
        BY <2>4 DEF UnitsOf
      <4>3. QED
        BY <2>1, <2>3, <3>1, <4>1, <4>2 DEF Newer
    <3>5. QED
      BY <3>2, <3>3, <3>4
  <2>11. QED
    BY <2>3, <2>5, <2>6, <2>7, <2>9, <2>10 DEF Steady
<1>3. QED
  BY <1>1, <1>2

-----------------------------------------------------------------------------
(* The units *)

LEMMA UnitSet ==
  ASSUME TypeOK, NEW k \in Slot, NEW u \in UnitType, unit' = [unit EXCEPT ![k] = u]
  PROVE  /\ unit \in [Slot -> UnitType] /\ unit' \in [Slot -> UnitType] /\ unit'[k] = u
         /\ \A l \in Slot : l # k => unit'[l] = unit[l]
BY DEF TypeOK, UnitType

\* A move of a unit that stays in flight, on the things of its own server only.
Moved(k, u) ==
  /\ u \in UnitType /\ unit' = [unit EXCEPT ![k] = u]
  /\ unit[k].pc \in Running /\ u.pc \in InFlightSteps /\ u.server = unit[k].server
  /\ u.pc \in {"store", "dedup", "fanout", "deliver"} => u.result # "none"
  /\ UNCHANGED <<tmux, clients, inFlight, loop, local>>

LEMMA MovedFacts ==
  ASSUME Inv, NEW k \in Slot, NEW u, Moved(k, u)
  PROVE  /\ unit[k].server \in Server /\ unit' \in [Slot -> UnitType] /\ unit'[k] = u
         /\ \A l \in Slot : l # k => unit'[l] = unit[l]
         /\ setup' = setup /\ change' = change /\ alive' = alive /\ clients' = clients /\ dead' = dead
         /\ Version' = Version /\ Version \subseteq Int /\ None \in Int /\ UnitType' = UnitType
         /\ Counted' /\ Busy' /\ Dispatching' /\ FlightHasUnit'
         /\ \A s \in Steady : Alone(s)'
         /\ unit[k].server \in Steady =>
              \A l \in Slot : unit'[l].server = unit[k].server /\ unit'[l].pc \in InFlightSteps => l = k
<1> USE DEF Inv, Moved
<1>1. /\ unit' \in [Slot -> UnitType] /\ unit'[k] = u /\ \A l \in Slot : l # k => unit'[l] = unit[l]
      /\ unit \in [Slot -> UnitType]
  BY UnitSet
<1>2. unit[k].server \in Server /\ unit[k].pc \notin {"none", "signal"}
  BY DEF Busy, Running
<1>3. /\ setup' = setup /\ change' = change /\ alive' = alive /\ gen' = gen /\ unannounced' = unannounced
      /\ dead' = dead /\ todo' = todo /\ clients' = clients /\ inFlight' = inFlight /\ loop' = loop
      /\ Version' = Version /\ UnitType' = UnitType
  BY DEF tmux, local, Version, UnitType
<1>4. Version \subseteq Int /\ None \in Int
  BY VersionFacts DEF TypeOK
<1>5. Counted' /\ Dispatching'
  BY <1>3 DEF Counted, Dispatching
<1>6. Busy'
  BY <1>1, <1>2 DEF Busy
<1>7. \A s : UnitsOf(s, InFlightSteps)' = UnitsOf(s, InFlightSteps)
  <2>1. \A s : \A l \in Slot : l \in UnitsOf(s, InFlightSteps)' <=> l \in UnitsOf(s, InFlightSteps)
    BY <1>1 DEF UnitsOf, InFlightSteps
  <2>2. QED
    BY <2>1 DEF UnitsOf
<1>8. FlightHasUnit'
  BY <1>3, <1>7 DEF FlightHasUnit, InFlightSteps
<1>9. \A s \in Steady : Alone(s)'
  BY <1>3, <1>7 DEF Alone
<1>10. ASSUME unit[k].server \in Steady, NEW l \in Slot,
              unit'[l].server = unit[k].server, unit'[l].pc \in InFlightSteps
       PROVE  l = k
  <2>1. Alone(unit[k].server)'
    BY <1>9, <1>10
  <2>2. k \in UnitsOf(unit[k].server, InFlightSteps)' /\ l \in UnitsOf(unit[k].server, InFlightSteps)'
    BY <1>1, <1>10 DEF UnitsOf
  <2>3. QED
    BY <2>1, <2>2 DEF Alone
<1>11. QED
  BY <1>1, <1>2, <1>3, <1>4, <1>5, <1>6, <1>8, <1>9, <1>10

\* What is left to show of a move: the things of its server.
LEMMA MovedInv ==
  ASSUME Inv, NEW k \in Slot, NEW u, Moved(k, u), TypeOK',
         \A s \in Server : s # unit[k].server =>
           /\ cache'[s] = cache[s] /\ shown'[s] = shown[s]
           /\ \A c \in clients[s] : got'[c][s] = got[c][s],
         unit[k].server \in Steady =>
           /\ u.result # "dead"
           /\ LET s == unit[k].server IN
              /\ shown'[s] <= change[s]
              /\ cache'[s] # None => shown'[s] <= cache'[s] /\ cache'[s] <= change[s]
              /\ \A c \in clients[s] : got'[c][s] <= shown'[s]
              /\ u.pc \in {"store", "dedup"} => shown'[s] <= u.seen /\ u.seen <= change[s]
              /\ u.pc = "dedup" => cache'[s] = None \/ cache'[s] = u.seen
              /\ u.pc = "fanout" => u.seen = shown'[s],
         \A s \in Steady : \A i \in DOMAIN results' : results'[i] # <<s, "dead">>
  PROVE  Inv'
<1>1. /\ unit[k].server \in Server /\ unit'[k] = u
      /\ \A l \in Slot : l # k => unit'[l] = unit[l]
      /\ setup' = setup /\ change' = change /\ alive' = alive /\ clients' = clients /\ dead' = dead
      /\ Counted' /\ Busy' /\ Dispatching' /\ FlightHasUnit'
      /\ \A s \in Steady : Alone(s)'
      /\ unit[k].server \in Steady =>
           \A l \in Slot : unit'[l].server = unit[k].server /\ unit'[l].pc \in InFlightSteps => l = k
  BY MovedFacts
<1>2. u.server = unit[k].server
  BY DEF Moved
<1>3. ASSUME NEW s \in Steady PROVE Stays(s)' /\ Newer(s)'
  <2>1. s \in Server /\ Stays(s) /\ Newer(s)
    BY DEF Inv, Steady
  <2>2. Stays(s)'
    BY <1>1, <1>2, <2>1 DEF Stays
  <2>3. CASE s = unit[k].server
    <3>1. \A steps : steps \subseteq InFlightSteps => \A l \in UnitsOf(s, steps)' : l = k /\ u.pc \in steps
      BY <1>1, <2>3 DEF UnitsOf
    <3>2. {"store", "dedup"} \subseteq InFlightSteps /\ {"dedup"} \subseteq InFlightSteps
          /\ {"fanout"} \subseteq InFlightSteps
      BY DEF InFlightSteps, Running
    <3>3. QED
      BY <1>1, <2>2, <2>3, <3>1, <3>2 DEF Newer
  <2>4. CASE s # unit[k].server
    <3>1. \A steps : UnitsOf(s, steps)' = UnitsOf(s, steps)
                     /\ \A l \in UnitsOf(s, steps) : unit'[l] = unit[l]
      BY <1>1, <1>2, <2>4 DEF UnitsOf
    <3>2. cache'[s] = cache[s] /\ shown'[s] = shown[s] /\ \A c \in clients[s] : got'[c][s] = got[c][s]
      BY <2>1, <2>4
    <3>3. QED
      BY <1>1, <2>1, <2>2, <3>1, <3>2 DEF Newer
  <2>5. QED
    BY <2>2, <2>3, <2>4
<1>4. QED
  BY <1>1, <1>3 DEF Inv, Steady

\* The things of the server of a unit, as far as the invariant knows them.
LEMMA UnitFacts ==
  ASSUME Inv, NEW k \in Slot, unit[k].pc \in InFlightSteps
  PROVE  /\ unit \in [Slot -> UnitType] /\ unit[k] \in UnitType /\ unit[k].server \in Server
         /\ change[unit[k].server] \in Version
         /\ cache[unit[k].server] \in Version \cup {None} /\ shown[unit[k].server] \in Version \cup {None}
         /\ setup \in Setups /\ Version \subseteq Int /\ None \in Int
         /\ unit[k].pc \in {"store", "dedup", "fanout", "deliver"} => unit[k].result # "none"
         /\ unit[k].server \in Steady =>
              LET s == unit[k].server IN
              /\ alive[s] /\ unit[k].result # "dead"
              /\ shown[s] <= change[s]
              /\ cache[s] # None => shown[s] <= cache[s] /\ cache[s] <= change[s]
              /\ \A c \in clients[s] : got[c][s] <= shown[s]
              /\ unit[k].pc \in {"store", "dedup"} => shown[s] <= unit[k].seen /\ unit[k].seen <= change[s]
              /\ unit[k].pc = "dedup" => cache[s] = None \/ cache[s] = unit[k].seen
              /\ unit[k].pc = "fanout" => unit[k].seen = shown[s]
<1> USE DEF Inv
<1>1. unit \in [Slot -> UnitType] /\ unit[k] \in UnitType /\ setup \in Setups
  BY DEF TypeOK, UnitType
<1>2. /\ unit[k].server \in Server
      /\ unit[k].pc \in {"store", "dedup", "fanout", "deliver"} => unit[k].result # "none"
  BY DEF Busy, InFlightSteps, Running
<1>3. /\ change[unit[k].server] \in Version
      /\ cache[unit[k].server] \in Version \cup {None} /\ shown[unit[k].server] \in Version \cup {None}
  BY <1>2 DEF TypeOK
<1>4. Version \subseteq Int /\ None \in Int
  BY <1>1, VersionFacts
<1>5. ASSUME unit[k].server \in Steady
      PROVE  LET s == unit[k].server IN
             /\ alive[s] /\ unit[k].result # "dead"
             /\ shown[s] <= change[s]
             /\ cache[s] # None => shown[s] <= cache[s] /\ cache[s] <= change[s]
             /\ \A c \in clients[s] : got[c][s] <= shown[s]
             /\ unit[k].pc \in {"store", "dedup"} => shown[s] <= unit[k].seen /\ unit[k].seen <= change[s]
             /\ unit[k].pc = "dedup" => cache[s] = None \/ cache[s] = unit[k].seen
             /\ unit[k].pc = "fanout" => unit[k].seen = shown[s]
  <2>1. Stays(unit[k].server) /\ Newer(unit[k].server)
    BY <1>5
  <2>2. QED
    BY <2>1 DEF Stays, Newer, UnitsOf
<1>6. QED
  BY <1>1, <1>2, <1>3, <1>4, <1>5

LEMMA CheckCacheInv ==
  ASSUME Inv, NEW k \in Slot, CheckCache(k)
  PROVE  Inv'
<1> DEFINE s == unit[k].server
           kept == IF unit[k].invalidate THEN None ELSE cache[s]
           u == [unit[k] EXCEPT !.pc = IF kept = None THEN "fetch" ELSE "dedup",
                                !.seen = kept, !.result = "polled"]
<1>1. /\ unit[k].pc = "check" /\ cache' = [cache EXCEPT ![s] = kept]
      /\ unit' = [unit EXCEPT ![k].pc = IF kept = None THEN "fetch" ELSE "dedup",
                              ![k].seen = kept, ![k].result = "polled"]
      /\ UNCHANGED <<tmux, clients, got, shown, inFlight, wakes, membership, resultsWake, results, loop, local>>
  BY DEF CheckCache
<1>2. unit[k].pc \in InFlightSteps /\ unit[k].pc \in Running
  BY <1>1 DEF InFlightSteps, Running
<1>3. kept \in Version \cup {None} /\ (kept = None \/ kept = cache[s]) /\ s \in Server
  BY <1>2, UnitFacts
<1>4. u \in UnitType /\ unit' = [unit EXCEPT ![k] = u]
  <2>1. u \in UnitType
    BY <1>2, <1>3, UnitFacts DEF UnitType, UnitStep, Running
  <2>2. QED
    BY <1>1, <1>2, <2>1, UnitFacts
<1> HIDE DEF kept
<1>5. /\ u.pc \in {"fetch", "dedup"}
      /\ u.pc = "dedup" => kept # None
      /\ u.seen = kept /\ u.result = "polled" /\ u.server = s
  BY <1>2, UnitFacts DEF UnitType
<1> HIDE DEF u
<1>6. Moved(k, u)
  BY <1>1, <1>2, <1>4, <1>5 DEF Moved, InFlightSteps, Running
<1>7. cache' \in [Server -> Version \cup {None}] /\ cache'[s] = kept
      /\ \A x \in Server : x # s => cache'[x] = cache[x]
  BY <1>1, <1>3 DEF Inv, TypeOK
<1>8. TypeOK'
  BY <1>1, <1>4, <1>6, <1>7, MovedFacts DEF Inv, TypeOK, UnitType, tmux, local
<1>9. ASSUME s \in Steady
      PROVE  /\ u.result # "dead" /\ shown'[s] <= change[s]
             /\ cache'[s] # None => shown'[s] <= cache'[s] /\ cache'[s] <= change[s]
             /\ \A c \in clients[s] : got'[c][s] <= shown'[s]
             /\ u.pc \in {"store", "dedup"} => shown'[s] <= u.seen /\ u.seen <= change[s]
             /\ u.pc = "dedup" => cache'[s] = None \/ cache'[s] = u.seen
             /\ u.pc = "fanout" => u.seen = shown'[s]
  BY <1>1, <1>2, <1>3, <1>5, <1>7, <1>9, UnitFacts
<1>10. QED
  BY <1>1, <1>6, <1>7, <1>8, <1>9, MovedInv DEF Inv, Stays

\* A fetch gives what the server is now, or ends the unit's work; a gone socket is not of
\* a server whose socket stays.
LEMMA FetchInv ==
  ASSUME Inv, NEW k \in Slot, FetchSucceeds(k) \/ FetchFindsGone(k) \/ FetchFails(k)
  PROVE  Inv'
<1> DEFINE s == unit[k].server
<1>1. unit[k].pc = "fetch"
  BY DEF FetchSucceeds, FetchFindsGone, FetchFails
<1>2. unit[k].pc \in InFlightSteps /\ unit[k].pc \in Running
  BY <1>1 DEF InFlightSteps, Running
<1>3. PICK pc, seen, result :
        /\ Fetched(k, pc, seen, result)
        /\ \/ pc = "store" /\ seen = change[s] /\ result = "polled"
           \/ pc = "deliver" /\ seen = None /\ result = "dead" /\ ~alive[s]
           \/ pc = "deliver" /\ seen = None /\ result = "failed" /\ s \in setup.mortal
  BY DEF FetchSucceeds, FetchFindsGone, FetchFails
<1> DEFINE u == [unit[k] EXCEPT !.pc = pc, !.seen = seen, !.result = result]
<1>4. /\ unit' = [unit EXCEPT ![k].pc = pc, ![k].seen = seen, ![k].result = result]
      /\ UNCHANGED <<tmux, hub, loop, local>>
  BY <1>3 DEF Fetched
<1>5. u \in UnitType /\ unit' = [unit EXCEPT ![k] = u]
  <2>1. u \in UnitType
    BY <1>2, <1>3, UnitFacts DEF UnitType, UnitStep, Running
  <2>2. QED
    BY <1>2, <1>4, <2>1, UnitFacts
<1>6. u.pc = pc /\ u.seen = seen /\ u.result = result /\ u.server = s
  BY <1>2, UnitFacts DEF UnitType
<1> HIDE DEF u
<1>7. Moved(k, u)
  BY <1>2, <1>3, <1>4, <1>5, <1>6 DEF Moved, InFlightSteps, Running, hub
<1>8. TypeOK'
  BY <1>4, <1>5, <1>7, MovedFacts DEF Inv, TypeOK, UnitType, tmux, hub, local
<1>9. ASSUME s \in Steady
      PROVE  /\ u.result # "dead" /\ shown'[s] <= change[s]
             /\ cache'[s] # None => shown'[s] <= cache'[s] /\ cache'[s] <= change[s]
             /\ \A c \in clients[s] : got'[c][s] <= shown'[s]
             /\ u.pc \in {"store", "dedup"} => shown'[s] <= u.seen /\ u.seen <= change[s]
             /\ u.pc = "dedup" => cache'[s] = None \/ cache'[s] = u.seen
             /\ u.pc = "fanout" => u.seen = shown'[s]
  <2>1. pc = "store" /\ seen = change[s] /\ result = "polled"
    BY <1>2, <1>3, <1>9, UnitFacts DEF Steady
  <2>2. change[s] \in Int
    BY <1>2, UnitFacts
  <2>3. QED
    BY <1>2, <1>4, <1>6, <1>9, <2>1, <2>2, UnitFacts DEF hub
<1>10. QED
  BY <1>4, <1>7, <1>8, <1>9, MovedInv DEF Inv, Stays, hub

\* A unit steps on, and keeps what it carries.
LEMMA AdvanceFacts ==
  ASSUME Inv, NEW k \in Slot, NEW pc \in InFlightSteps, Advance(k, pc), unit[k].pc \in InFlightSteps
  PROVE  LET u == [unit[k] EXCEPT !.pc = pc] IN
         /\ u \in UnitType /\ unit' = [unit EXCEPT ![k] = u]
         /\ u.pc = pc /\ u.seen = unit[k].seen /\ u.result = unit[k].result /\ u.server = unit[k].server
<1>1. pc \in UnitStep
  BY DEF UnitStep, InFlightSteps, Tailing
<1>2. unit \in [Slot -> UnitType] /\ unit[k] \in UnitType
  BY UnitFacts
<1>3. QED
  BY <1>1, <1>2 DEF Advance, UnitType

LEMMA StoreCacheInv ==
  ASSUME Inv, NEW k \in Slot, StoreCache(k)
  PROVE  Inv'
<1> DEFINE s == unit[k].server
           u == [unit[k] EXCEPT !.pc = "dedup"]
<1>1. /\ unit[k].pc = "store" /\ cache' = [cache EXCEPT ![s] = unit[k].seen] /\ Advance(k, "dedup")
      /\ UNCHANGED <<tmux, clients, got, shown, inFlight, wakes, membership, resultsWake, results, loop, local>>
  BY DEF StoreCache
<1>2. unit[k].pc \in InFlightSteps /\ unit[k].pc \in Running /\ "dedup" \in InFlightSteps
  BY <1>1 DEF InFlightSteps, Running
<1>3. /\ u \in UnitType /\ unit' = [unit EXCEPT ![k] = u]
      /\ u.pc = "dedup" /\ u.seen = unit[k].seen /\ u.result = unit[k].result /\ u.server = s
  BY <1>1, <1>2, AdvanceFacts
<1> HIDE DEF u
<1>4. /\ s \in Server /\ unit[k].seen \in Version \cup {None} /\ unit[k].result # "none"
  BY <1>1, <1>2, UnitFacts DEF UnitType
<1>5. Moved(k, u)
  BY <1>1, <1>2, <1>3, <1>4 DEF Moved
<1>6. cache' \in [Server -> Version \cup {None}] /\ cache'[s] = unit[k].seen
      /\ \A x \in Server : x # s => cache'[x] = cache[x]
  BY <1>1, <1>4 DEF Inv, TypeOK
<1>7. TypeOK'
  BY <1>1, <1>3, <1>5, <1>6, MovedFacts DEF Inv, TypeOK, UnitType, tmux, local
<1>8. ASSUME s \in Steady
      PROVE  /\ u.result # "dead" /\ shown'[s] <= change[s]
             /\ cache'[s] # None => shown'[s] <= cache'[s] /\ cache'[s] <= change[s]
             /\ \A c \in clients[s] : got'[c][s] <= shown'[s]
             /\ u.pc \in {"store", "dedup"} => shown'[s] <= u.seen /\ u.seen <= change[s]
             /\ u.pc = "dedup" => cache'[s] = None \/ cache'[s] = u.seen
             /\ u.pc = "fanout" => u.seen = shown'[s]
  BY <1>1, <1>2, <1>3, <1>6, <1>8, UnitFacts
<1>9. QED
  BY <1>1, <1>5, <1>6, <1>7, <1>8, MovedInv DEF Inv, Stays

LEMMA DedupInv ==
  ASSUME Inv, NEW k \in Slot, Dedup(k)
  PROVE  Inv'
<1> DEFINE s == unit[k].server
           next == IF unit[k].seen # shown[s] THEN "fanout" ELSE "deliver"
           u == [unit[k] EXCEPT !.pc = next]
<1>1. /\ unit[k].pc = "dedup" /\ shown' = [shown EXCEPT ![s] = unit[k].seen] /\ Advance(k, next)
      /\ UNCHANGED <<tmux, clients, got, cache, inFlight, wakes, membership, resultsWake, results, loop, local>>
  BY DEF Dedup
<1>2. unit[k].pc \in InFlightSteps /\ unit[k].pc \in Running /\ next \in InFlightSteps
      /\ next \in {"fanout", "deliver"}
  BY <1>1 DEF InFlightSteps, Running
<1> HIDE DEF next
<1>3. /\ u \in UnitType /\ unit' = [unit EXCEPT ![k] = u]
      /\ u.pc = next /\ u.seen = unit[k].seen /\ u.result = unit[k].result /\ u.server = s
  BY <1>1, <1>2, AdvanceFacts
<1> HIDE DEF u
<1>4. /\ s \in Server /\ unit[k].seen \in Version \cup {None} /\ unit[k].result # "none"
  BY <1>1, <1>2, UnitFacts DEF UnitType
<1>5. Moved(k, u)
  BY <1>1, <1>2, <1>3, <1>4 DEF Moved
<1>6. shown' \in [Server -> Version \cup {None}] /\ shown'[s] = unit[k].seen
      /\ \A x \in Server : x # s => shown'[x] = shown[x]
  BY <1>1, <1>4 DEF Inv, TypeOK
<1>7. TypeOK'
  BY <1>1, <1>3, <1>5, <1>6, MovedFacts DEF Inv, TypeOK, UnitType, tmux, local
<1>8. ASSUME s \in Steady
      PROVE  /\ u.result # "dead" /\ shown'[s] <= change[s]
             /\ cache'[s] # None => shown'[s] <= cache'[s] /\ cache'[s] <= change[s]
             /\ \A c \in clients[s] : got'[c][s] <= shown'[s]
             /\ u.pc \in {"store", "dedup"} => shown'[s] <= u.seen /\ u.seen <= change[s]
             /\ u.pc = "dedup" => cache'[s] = None \/ cache'[s] = u.seen
             /\ u.pc = "fanout" => u.seen = shown'[s]
  <2>1. /\ unit[k].result # "dead" /\ shown[s] <= unit[k].seen /\ unit[k].seen <= change[s]
        /\ cache[s] = None \/ cache[s] = unit[k].seen
        /\ cache[s] # None => cache[s] <= change[s]
        /\ \A c \in clients[s] : got[c][s] <= shown[s]
    BY <1>1, <1>2, <1>8, UnitFacts
  <2>2. /\ unit[k].seen \in Int /\ shown[s] \in Int /\ change[s] \in Int
        /\ \A c \in clients[s] : got[c][s] \in Int
    <3>1. Version \subseteq Int /\ None \in Int
      BY <1>2, UnitFacts
    <3>2. \A c \in clients[s] : got[c][s] \in Version \cup {None}
      BY <1>4 DEF Inv, TypeOK
    <3>3. QED
      BY <1>2, <1>4, <3>1, <3>2, UnitFacts
  <2>3. \A c \in clients[s] : got'[c][s] <= shown'[s]
    BY <1>1, <1>6, <2>1, <2>2
  <2>4. QED
    BY <1>1, <1>2, <1>3, <1>6, <2>1, <2>2, <2>3
<1>9. QED
  BY <1>1, <1>5, <1>6, <1>7, <1>8, MovedInv DEF Inv, Stays

LEMMA FanOutInv ==
  ASSUME Inv, NEW k \in Slot, FanOut(k)
  PROVE  Inv'
<1> DEFINE s == unit[k].server
           u == [unit[k] EXCEPT !.pc = "deliver"]
<1>1. /\ unit[k].pc = "fanout" /\ Advance(k, "deliver")
      /\ got' = [c \in Client |-> IF c \in clients[s] THEN [got[c] EXCEPT ![s] = unit[k].seen] ELSE got[c]]
      /\ UNCHANGED <<tmux, clients, cache, shown, inFlight, wakes, membership, resultsWake, results, loop, local>>
  BY DEF FanOut
<1>2. unit[k].pc \in InFlightSteps /\ unit[k].pc \in Running /\ "deliver" \in InFlightSteps
  BY <1>1 DEF InFlightSteps, Running
<1>3. /\ u \in UnitType /\ unit' = [unit EXCEPT ![k] = u]
      /\ u.pc = "deliver" /\ u.seen = unit[k].seen /\ u.result = unit[k].result /\ u.server = s
  BY <1>1, <1>2, AdvanceFacts
<1> HIDE DEF u
<1>4. /\ s \in Server /\ unit[k].seen \in Version \cup {None} /\ unit[k].result # "none"
  BY <1>1, <1>2, UnitFacts DEF UnitType
<1>5. Moved(k, u)
  BY <1>1, <1>2, <1>3, <1>4 DEF Moved
<1>6. /\ got' \in [Client -> [Server -> Version \cup {None}]]
      /\ \A c \in clients[s] : got'[c][s] = unit[k].seen
      /\ \A x \in Server : x # s => \A c \in clients[x] : got'[c][x] = got[c][x]
  BY <1>1, <1>4 DEF Inv, TypeOK
<1>7. TypeOK'
  BY <1>1, <1>3, <1>5, <1>6, MovedFacts DEF Inv, TypeOK, UnitType, tmux, local
<1>8. ASSUME s \in Steady
      PROVE  /\ u.result # "dead" /\ shown'[s] <= change[s]
             /\ cache'[s] # None => shown'[s] <= cache'[s] /\ cache'[s] <= change[s]
             /\ \A c \in clients[s] : got'[c][s] <= shown'[s]
             /\ u.pc \in {"store", "dedup"} => shown'[s] <= u.seen /\ u.seen <= change[s]
             /\ u.pc = "dedup" => cache'[s] = None \/ cache'[s] = u.seen
             /\ u.pc = "fanout" => u.seen = shown'[s]
  <2>1. /\ unit[k].seen = shown[s] /\ shown[s] \in Int /\ unit[k].result # "dead"
        /\ shown[s] <= change[s]
        /\ cache[s] # None => shown[s] <= cache[s] /\ cache[s] <= change[s]
    BY <1>1, <1>2, <1>8, UnitFacts
  <2>2. \A c \in clients[s] : got'[c][s] <= shown[s]
    BY <1>6, <2>1
  <2>3. QED
    BY <1>1, <1>3, <2>1, <2>2
<1>9. \A x \in Steady : \A i \in DOMAIN results' : results'[i] # <<x, "dead">>
  BY <1>1 DEF Inv, Stays
<1>10. \A x \in Server : x # s => /\ cache'[x] = cache[x] /\ shown'[x] = shown[x]
                                  /\ \A c \in clients[x] : got'[c][x] = got[c][x]
  BY <1>1, <1>6
<1>11. QED
  BY <1>5, <1>7, <1>8, <1>9, <1>10, MovedInv

LEMMA DeliverInv ==
  ASSUME Inv, NEW k \in Slot, Deliver(k)
  PROVE  Inv'
<1> DEFINE s == unit[k].server
           u == [unit[k] EXCEPT !.pc = "clear"]
           r == <<s, unit[k].result>>
<1>1. /\ unit[k].pc = "deliver" /\ Advance(k, "clear") /\ Len(results) < Concurrency
      /\ results' = Append(results, r)
      /\ UNCHANGED <<tmux, clients, got, cache, shown, inFlight, wakes, membership, resultsWake, loop, local>>
  BY DEF Deliver
<1>2. unit[k].pc \in InFlightSteps /\ unit[k].pc \in Running /\ "clear" \in InFlightSteps
  BY <1>1 DEF InFlightSteps, Running
<1>3. /\ u \in UnitType /\ unit' = [unit EXCEPT ![k] = u]
      /\ u.pc = "clear" /\ u.seen = unit[k].seen /\ u.result = unit[k].result /\ u.server = s
  BY <1>1, <1>2, AdvanceFacts
<1> HIDE DEF u
<1>4. /\ s \in Server /\ unit[k].result \in {"polled", "dead", "failed"}
  BY <1>1, <1>2, UnitFacts DEF UnitType
<1>5. Moved(k, u)
  BY <1>1, <1>2, <1>3 DEF Moved
<1>6. r \in Result /\ results \in Seq(Result)
  BY <1>4 DEF Inv, TypeOK, Result
<1> HIDE DEF r
<1>7. /\ results' \in Seq(Result) /\ Len(results') = Len(results) + 1
      /\ \A i \in DOMAIN results' : results'[i] = r \/ (i \in DOMAIN results /\ results'[i] = results[i])
  BY <1>1, <1>6, AppendProperties, LenProperties
<1>8. TypeOK'
  <2>1. Len(results') <= Concurrency
    BY <1>1, <1>6, <1>7, ConstantsOK, LenProperties
  <2>2. QED
    BY <1>1, <1>3, <1>5, <1>7, <2>1, MovedFacts DEF Inv, TypeOK, UnitType, Result, tmux, local
<1>9. ASSUME s \in Steady
      PROVE  /\ u.result # "dead" /\ shown'[s] <= change[s]
             /\ cache'[s] # None => shown'[s] <= cache'[s] /\ cache'[s] <= change[s]
             /\ \A c \in clients[s] : got'[c][s] <= shown'[s]
             /\ u.pc \in {"store", "dedup"} => shown'[s] <= u.seen /\ u.seen <= change[s]
             /\ u.pc = "dedup" => cache'[s] = None \/ cache'[s] = u.seen
             /\ u.pc = "fanout" => u.seen = shown'[s]
  BY <1>1, <1>2, <1>3, <1>9, UnitFacts
<1>10. \A x \in Steady : \A i \in DOMAIN results' : results'[i] # <<x, "dead">>
  <2>1. \A x \in Steady : r # <<x, "dead">>
    BY <1>3, <1>9 DEF r
  <2>2. \A x \in Steady : \A i \in DOMAIN results : results[i] # <<x, "dead">>
    BY DEF Inv, Stays
  <2>3. QED
    BY <1>7, <2>1, <2>2
<1>11. QED
  BY <1>1, <1>5, <1>8, <1>9, <1>10, MovedInv

\* The mark that is cleared is the unit's own: of a server whose socket stays there is no
\* other one in flight.
LEMMA ClearInFlightInv ==
  ASSUME Inv, NEW k \in Slot, ClearInFlight(k)
  PROVE  Inv'
<1> USE DEF Inv
<1> DEFINE s == unit[k].server
           u == [unit[k] EXCEPT !.pc = "release"]
<1>1. /\ unit[k].pc = "clear" /\ inFlight' = [inFlight EXCEPT ![s] = FALSE]
      /\ unit' = [unit EXCEPT ![k].pc = "release"]
      /\ UNCHANGED <<tmux, clients, got, cache, shown, wakes, membership, resultsWake, results, loop, local>>
      /\ Version' = Version
  BY DEF ClearInFlight, Advance, Cleared, tmux, Version
<1>2. unit[k].pc \in InFlightSteps
  BY <1>1 DEF InFlightSteps
<1>3. u \in UnitType /\ unit' = [unit EXCEPT ![k] = u] /\ u.pc = "release" /\ u.server = s
      /\ u.result = unit[k].result
  BY <1>1, <1>2, UnitFacts DEF UnitType, UnitStep, Tailing
<1> HIDE DEF u
<1>4. /\ unit' \in [Slot -> UnitType] /\ unit'[k] = u /\ \A l \in Slot : l # k => unit'[l] = unit[l]
  BY <1>3, UnitSet
<1>5. /\ setup' = setup /\ change' = change /\ alive' = alive /\ gen' = gen /\ unannounced' = unannounced
      /\ dead' = dead /\ todo' = todo
  BY <1>1 DEF tmux, local
<1>6. s \in Server
  BY <1>2, UnitFacts
<1>7. inFlight' \in [Server -> BOOLEAN] /\ inFlight'[s] = FALSE
      /\ \A x \in Server : x # s => inFlight'[x] = inFlight[x]
  BY <1>1, <1>6 DEF TypeOK
<1>8. TypeOK'
  BY <1>1, <1>4, <1>5, <1>7 DEF TypeOK, UnitType, tmux, local
<1>9. Counted' /\ Dispatching'
  BY <1>1, <1>5 DEF Counted, Dispatching
<1>10. Busy'
  BY <1>3, <1>4, <1>6 DEF Busy
<1>11. /\ \A x : UnitsOf(x, InFlightSteps)' = UnitsOf(x, InFlightSteps) \ {k}
       /\ k \in UnitsOf(s, InFlightSteps)
       /\ \A x : x # s => k \notin UnitsOf(x, InFlightSteps)
  BY <1>2, <1>3, <1>4 DEF UnitsOf, InFlightSteps, Running
<1>12. FlightHasUnit'
  <2> SUFFICES ASSUME NEW x \in Server, inFlight'[x] PROVE UnitsOf(x, InFlightSteps)' # {}
    BY DEF FlightHasUnit, InFlightSteps
  <2>1. x # s /\ inFlight[x]
    BY <1>7
  <2>2. UnitsOf(x, InFlightSteps) # {}
    BY <2>1 DEF FlightHasUnit, InFlightSteps
  <2>3. QED
    BY <1>11, <2>1, <2>2
<1>13. ASSUME NEW x \in Steady PROVE Alone(x)' /\ Stays(x)' /\ Newer(x)'
  <2>1. x \in Server /\ Alone(x) /\ Stays(x) /\ Newer(x)
    BY DEF Steady
  <2>2. Stays(x)'
    BY <1>1, <1>3, <1>4, <1>5, <2>1 DEF Stays
  <2>3. Alone(x)'
    BY <1>7, <1>11, <2>1 DEF Alone
  <2>4. Newer(x)'
    <3>1. \A steps : "release" \notin steps /\ "clear" \notin steps =>
            /\ UnitsOf(x, steps)' = UnitsOf(x, steps)
            /\ \A l \in UnitsOf(x, steps) : unit'[l] = unit[l]
      BY <1>1, <1>3, <1>4 DEF UnitsOf
    <3>2. QED
      BY <1>1, <1>5, <2>1, <3>1 DEF Newer
  <2>5. QED
    BY <2>2, <2>3, <2>4
<1>14. QED
  BY <1>5, <1>8, <1>9, <1>10, <1>12, <1>13 DEF Steady

LEMMA LeaveInv ==
  ASSUME Inv, NEW k \in Slot, ReleaseSemaphore(k) \/ SignalResultsWake(k)
  PROVE  Inv'
<1> USE DEF Inv
<1>1. PICK u \in {Idle, [Idle EXCEPT !.pc = "signal"]} :
        /\ unit[k].pc \in {"release", "signal"} /\ unit' = [unit EXCEPT ![k] = u]
        /\ UNCHANGED <<tmux, clients, got, cache, shown, inFlight, wakes, membership, results, loop, local>>
        /\ resultsWake' \in {resultsWake, TRUE} /\ Version' = Version
  BY DEF ReleaseSemaphore, SignalResultsWake, tmux, hub, Version
<1>2. u \in UnitType /\ u.pc \in {"none", "signal"} /\ u.result = "none"
  <2>1. Idle \in UnitType /\ "signal" \in UnitStep
    BY IdleFacts DEF TypeOK, UnitStep
  <2>2. [Idle EXCEPT !.pc = "signal"] \in UnitType
    BY <2>1 DEF UnitType
  <2>3. CASE u = Idle
    BY <2>1, <2>3 DEF Idle
  <2>4. CASE u = [Idle EXCEPT !.pc = "signal"]
    BY <2>2, <2>4 DEF Idle
  <2>5. QED
    BY <1>1, <2>3, <2>4
<1>3. /\ unit' \in [Slot -> UnitType] /\ unit'[k] = u /\ \A l \in Slot : l # k => unit'[l] = unit[l]
  BY <1>1, <1>2, UnitSet
<1>4. /\ setup' = setup /\ change' = change /\ alive' = alive /\ gen' = gen /\ unannounced' = unannounced
      /\ dead' = dead /\ todo' = todo
  BY <1>1 DEF tmux, local
<1>5. TypeOK'
  BY <1>1, <1>3, <1>4 DEF TypeOK, UnitType, tmux, local
<1>6. Counted' /\ Dispatching'
  BY <1>1, <1>4 DEF Counted, Dispatching
<1>7. Busy'
  BY <1>2, <1>3 DEF Busy
<1>8. \A steps : steps \subseteq InFlightSteps =>
        \A x : /\ UnitsOf(x, steps)' = UnitsOf(x, steps)
               /\ \A l \in UnitsOf(x, steps) : unit'[l] = unit[l]
  BY <1>1, <1>2, <1>3 DEF UnitsOf, InFlightSteps, Running
<1>9. FlightHasUnit'
  BY <1>1, <1>8 DEF FlightHasUnit, InFlightSteps
<1>10. ASSUME NEW x \in Steady PROVE Alone(x)' /\ Stays(x)' /\ Newer(x)'
  <2>1. x \in Server /\ Alone(x) /\ Stays(x) /\ Newer(x)
    BY DEF Steady
  <2>2. Stays(x)'
    BY <1>1, <1>2, <1>3, <1>4, <2>1 DEF Stays
  <2>3. Alone(x)'
    BY <1>1, <1>8, <2>1 DEF Alone
  <2>4. {"store", "dedup"} \subseteq InFlightSteps /\ {"dedup"} \subseteq InFlightSteps
        /\ {"fanout"} \subseteq InFlightSteps
    BY DEF InFlightSteps, Running
  <2>5. Newer(x)'
    BY <1>1, <1>4, <1>8, <2>1, <2>4 DEF Newer
  <2>6. QED
    BY <2>2, <2>3, <2>5
<1>11. QED
  BY <1>4, <1>5, <1>6, <1>7, <1>9, <1>10 DEF Steady

-----------------------------------------------------------------------------
(* The theorems *)

LEMMA UnitInv ==
  ASSUME Inv, NEW k \in Slot, UnitMoves(k)
  PROVE  Inv'
BY CheckCacheInv, FetchInv, StoreCacheInv, DedupInv, FanOutInv, DeliverInv, ClearInFlightInv, LeaveInv
   DEF UnitMoves

LEMMA NextInv == Inv /\ [Next]_vars => Inv'
<1> SUFFICES ASSUME Inv, [Next]_vars PROVE Inv'
  OBVIOUS
<1>1. CASE LoopStep \/ EndWait(TRUE)
  BY <1>1, TickTopInv, FoldInv, ReapInv, DispatchInv, WaitInv DEF LoopStep
<1>2. CASE \E k \in Slot : UnitMoves(k)
  BY <1>2, UnitInv
<1>3. CASE \E s \in Server : \/ Change(s) \/ Vanish(s) \/ Announce(s) \/ ExpireCache(s)
                             \/ \E c \in Client : AddClient(c, s) \/ RemoveClient(c, s)
  BY <1>3, ChangeInv, VanishInv, AnnounceInv, ExpireCacheInv, ClientInv
<1>4. CASE UNCHANGED vars
  <2>1. TypeOK' /\ Dispatching'
    BY <1>4 DEF vars, Inv, TypeOK, Dispatching, tmux, hub, local, Version
  <2>2. QED
    BY <1>4, <2>1, LoopFrame DEF vars, hub, local, Inv, Stays
<1>5. QED
  BY <1>1, <1>2, <1>3, <1>4 DEF Next

\* The invariant of the hub: whose a mark in flight is, and how old each snapshot is.
THEOREM HubInvariant == Spec => []Inv
<1>1. QED
  BY InitInv, NextInv, PTL DEF Spec

\* The types of the hub, with their bounds: no generation runs ahead of the changes, and
\* never more results wait than the channel holds.
THEOREM HubTypes == Spec => []TypeOK
<1>1. Inv => TypeOK
  BY DEF Inv
<1>2. QED
  BY <1>1, HubInvariant, PTL

\* Two units of a server whose socket stays never poll at the same time, for any
\* semaphore, any number of slots, and any number of ends and starts of the goroutine.
THEOREM SingleFlightAlways == Spec => []SingleFlight
<1>1. Inv => SingleFlight
  <2> SUFFICES ASSUME Inv, NEW s \in Server \ setup.mortal PROVE Cardinality(UnitsOf(s, Running)) <= 1
    BY DEF SingleFlight
  <2> DEFINE U == UnitsOf(s, Running)
  <2>1. \A k, l \in U : k = l
    BY DEF Inv, Steady, Alone, UnitsOf, InFlightSteps
  <2> HIDE DEF U
  <2>2. CASE U = {}
    <3>1. Cardinality(U) = 0
      BY <2>2, FS_EmptySet
    <3>2. QED
      BY <3>1 DEF U
  <2>3. CASE U # {}
    <3>1. PICK k : U = {k}
      BY <2>1, <2>3
    <3>2. Cardinality(U) = 1
      BY <3>1, FS_Singleton
    <3>3. QED
      BY <3>2 DEF U
  <2>4. QED
    BY <2>2, <2>3
<1>2. QED
  BY <1>1, HubInvariant, PTL

\* No mark in flight is orphaned, of any server, also of one that comes back from the dead.
THEOREM FlightHasUnitAlways == Spec => []FlightHasUnit
<1>1. Inv => FlightHasUnit
  BY DEF Inv
<1>2. QED
  BY <1>1, HubInvariant, PTL

\* No connection of a server whose socket stays gets a snapshot older than its last one.
THEOREM ViewAdvancesAlways == Spec => ViewAdvances
<1> DEFINE Advances == \A s \in Server \ setup.mortal :
                         \A c \in clients[s] \cap clients'[s] : got'[c][s] >= got[c][s]
<1>1. ASSUME Inv, [Next]_vars PROVE Advances
  <2> SUFFICES ASSUME NEW s \in Server \ setup.mortal, NEW c \in clients[s] \cap clients'[s]
               PROVE  got'[c][s] >= got[c][s]
    OBVIOUS
  <2>1. s \in Server /\ s \in Steady /\ c \in Client /\ got[c][s] \in Int
    BY <1>1, VersionFacts DEF Inv, TypeOK, Steady
  <2>2. CASE got' = got
    BY <2>1, <2>2
  <2>3. CASE \E d \in Client, x \in Server : AddClient(d, x)
    <3>1. PICK d \in Client, x \in Server : AddClient(d, x)
      BY <2>3
    <3>2. d # c \/ x # s
      BY <3>1 DEF AddClient
    <3>3. got'[c][s] = got[c][s]
      BY <1>1, <2>1, <3>1, <3>2 DEF AddClient, Inv, TypeOK
    <3>4. QED
      BY <2>1, <3>3
  <2>4. CASE \E k \in Slot : FanOut(k)
    <3>1. PICK k \in Slot : FanOut(k)
      BY <2>4
    <3>2. unit[k].pc = "fanout" /\ unit[k].pc \in InFlightSteps
      BY <3>1 DEF FanOut, InFlightSteps, Running
    <3>3. CASE unit[k].server = s
      <4>1. got'[c][s] = unit[k].seen
        BY <1>1, <2>1, <3>1, <3>3 DEF FanOut, Inv, TypeOK
      <4>2. unit[k].seen = shown[s] /\ got[c][s] <= shown[s] /\ shown[s] \in Int
        BY <1>1, <2>1, <3>2, <3>3, UnitFacts
      <4>3. QED
        BY <2>1, <4>1, <4>2
    <3>4. CASE unit[k].server # s
      <4>1. got'[c][s] = got[c][s]
        BY <1>1, <2>1, <3>1, <3>4 DEF FanOut, Inv, TypeOK
      <4>2. QED
        BY <2>1, <4>1
    <3>5. QED
      BY <3>3, <3>4
  <2>5. \/ got' = got
        \/ \E d \in Client, x \in Server : AddClient(d, x)
        \/ \E k \in Slot : FanOut(k)
    <3>1. CASE LoopStep \/ EndWait(TRUE)
      BY <3>1 DEF LoopStep, TickTop, Fold, Reap, Start, Skip, BeginWait, EndWait, EndDebounce, Peek, hub
    <3>2. CASE \E k \in Slot : UnitMoves(k)
      BY <3>2 DEF UnitMoves, CheckCache, FetchSucceeds, FetchFindsGone, FetchFails, Fetched, StoreCache,
                  Dedup, Deliver, ClearInFlight, ReleaseSemaphore, SignalResultsWake, hub
    <3>3. CASE \E x \in Server : \/ Change(x) \/ Vanish(x) \/ Announce(x) \/ ExpireCache(x)
                                 \/ \E d \in Client : AddClient(d, x) \/ RemoveClient(d, x)
      BY <3>3 DEF Change, Vanish, Announce, Bump, Wake, ExpireCache, RemoveClient, hub
    <3>4. QED
      BY <1>1, <3>1, <3>2, <3>3 DEF Next, vars, hub
  <2>6. QED
    BY <2>2, <2>3, <2>4, <2>5
<1>2. QED
  BY <1>1, HubInvariant, PTL DEF Spec, ViewAdvances

=============================================================================
