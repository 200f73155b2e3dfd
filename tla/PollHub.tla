------------------------------- MODULE PollHub -------------------------------
(***************************************************************************)
(* The poll hub of the daemon (api/sse.go): one poll goroutine that folds  *)
(* unit results, reaps dead servers, dispatches one poll unit per server   *)
(* and waits; the unit goroutines; the HTTP handlers that subscribe,       *)
(* unsubscribe and wake; and the control clients whose generation bumps    *)
(* end the wait.                                                           *)
(*                                                                         *)
(* A snapshot of a tmux server is the number of changes it shows.  A       *)
(* change is announced by its handler (wake) or by the control client of   *)
(* its server (a bump of the generation), some time after it happened.     *)
(*                                                                         *)
(* The Slip definitions are plausible mistakes in the definition after     *)
(* them; the runs must notice when one takes its place.                    *)
(***************************************************************************)
EXTENDS Integers, FiniteSets, Sequences

CONSTANTS
  Server,       \* tmux servers
  Client,       \* state-socket connections
  Concurrency,  \* ssePollConcurrency: the semaphore and the results buffer
  Slot,         \* goroutines that run poll units, one record each
  Setups        \* the surroundings a run starts from

\* What surrounds the hub in a behaviour.
SetupType ==
  [pageOpen : BOOLEAN,        \* a metrics-only subscription is open all the time
   leaves : BOOLEAN,          \* connections may unsubscribe
   mortal : SUBSET Server,    \* sockets that may disappear, come back or fail a fetch
   signals : SUBSET {"bump", "wake"},  \* how changes are announced
   timer : BOOLEAN,           \* the safety timer is counted on
   changes : Nat]             \* bound of the model: changes of one server

ASSUME ConstantsOK ==
  /\ Concurrency \in Nat \ {0}
  /\ IsFiniteSet(Slot) /\ Cardinality(Slot) >= Concurrency
  /\ Setups \subseteq SetupType

None == -1

\* Where a poll unit stands: cache check, session fetch, cache store, dedup,
\* fan-out, delivery of the result, clearing of the in-flight flag, release of
\* the semaphore, signal of the results wake.
Running == {"check", "fetch", "store", "dedup", "fanout", "deliver"}
Tailing == {"clear", "release"}
UnitStep == {"none", "signal"} \cup Running \cup Tailing

Idle == [pc |-> "none", server |-> None, invalidate |-> FALSE, seen |-> None,
         result |-> "none"]

VARIABLES
  setup,
  \* the tmux servers and what announces their changes
  change,      \* changes made so far
  alive,       \* the socket exists
  unannounced, \* announcements still to come
  gen,         \* WindowChangeSubscriber.Generation
  \* the hub, under its locks
  clients,     \* h.clients: the subscribed connections of each server
  got,         \* the last snapshot each connection received
  cache,       \* h.cache
  shown,       \* h.previousJSON and h.previousSessionsKey
  inFlight,    \* h.pollInFlight
  wakes,       \* h.wakes: no channel, an open one, a closed one
  membership,  \* h.membershipWake is closed
  resultsWake, \* h.resultsWake is closed
  results,     \* h.pollResults
  \* the goroutines
  loop,        \* the poll goroutine: off, or the step it is at
  servers,     \* its snapshot of the poll set
  todo,        \* servers it has yet to look at for dispatch
  dead,        \* deadServers of this tick
  seenGen,     \* perServerGen
  flags,       \* eventDrivenServers
  resultsOnly,
  unit         \* the poll units

tmux == <<setup, change, alive, unannounced, gen>>
hub == <<clients, got, cache, shown, inFlight, wakes, membership, resultsWake, results>>
local == <<servers, todo, dead, seenGen, flags, resultsOnly>>
vars == <<tmux, hub, loop, local, unit>>

Subscribed == {s \in Server : clients[s] # {}}

-----------------------------------------------------------------------------
Init ==
  /\ setup \in Setups
  /\ change = [s \in Server |-> 0]
  /\ alive = [s \in Server |-> TRUE]
  /\ unannounced = [s \in Server |-> {}]
  /\ gen = [s \in Server |-> 0]
  /\ clients = [s \in Server |-> {}]
  /\ got = [c \in Client |-> [s \in Server |-> None]]
  /\ cache = [s \in Server |-> None]
  /\ shown = [s \in Server |-> None]
  /\ inFlight = [s \in Server |-> FALSE]
  /\ wakes = [s \in Server |-> "absent"]
  /\ membership = FALSE
  /\ resultsWake = FALSE
  /\ results = <<>>
  /\ loop = IF setup.pageOpen THEN "top" ELSE "off"
  /\ servers = {}
  /\ todo = {}
  /\ dead = {}
  /\ seenGen = [s \in Server |-> 0]
  /\ flags = {}
  /\ resultsOnly = FALSE
  /\ unit = [k \in Slot |-> Idle]

-----------------------------------------------------------------------------
(* tmux, the handlers that change it, and the control clients *)

\* A change, with the announcement that will follow.
Change(s) ==
  /\ alive[s] /\ change[s] < setup.changes
  /\ \E how \in setup.signals :
       /\ how \notin unannounced[s]
       /\ unannounced' = [unannounced EXCEPT ![s] = @ \cup {how}]
  /\ change' = [change EXCEPT ![s] = @ + 1]
  /\ UNCHANGED <<setup, alive, gen, hub, loop, local, unit>>

\* The socket disappears, or a new server appears on it.
Vanish(s) ==
  /\ s \in setup.mortal /\ change[s] < setup.changes
  /\ alive' = [alive EXCEPT ![s] = ~@]
  /\ change' = [change EXCEPT ![s] = @ + 1]
  /\ UNCHANGED <<setup, unannounced, gen, hub, loop, local, unit>>

Bump(s) ==
  /\ "bump" \in unannounced[s]
  /\ unannounced' = [unannounced EXCEPT ![s] = @ \ {"bump"}]
  /\ gen' = [gen EXCEPT ![s] = @ + 1]
  /\ UNCHANGED <<setup, change, alive, hub, loop, local, unit>>

\* wake: a channel is only allocated for a subscribed server.
Wake(s) ==
  /\ "wake" \in unannounced[s]
  /\ unannounced' = [unannounced EXCEPT ![s] = @ \ {"wake"}]
  /\ wakes' = [wakes EXCEPT ![s] = IF @ = "absent" /\ s \notin Subscribed
                                   THEN "absent" ELSE "closed"]
  /\ UNCHANGED <<setup, change, alive, gen, clients, got, cache, shown, inFlight,
                 membership, resultsWake, results, loop, local, unit>>

-----------------------------------------------------------------------------
(* addClient and removeClient *)

\* A new goroutine knows no generation and has no pending flag.
StartLoop ==
  /\ loop' = "top"
  /\ seenGen' = [s \in Server |-> 0]
  /\ flags' = {}
  /\ resultsOnly' = FALSE
  /\ UNCHANGED <<servers, todo, dead>>

AddClient(c, s) ==
  /\ c \notin clients[s]
  /\ clients' = [clients EXCEPT ![s] = @ \cup {c}]
  /\ got' = [got EXCEPT ![c][s] = shown[s]]
  /\ IF loop = "off"
     THEN StartLoop /\ UNCHANGED membership
     ELSE /\ membership' = (membership \/ s \notin Subscribed)
          /\ UNCHANGED <<loop, local>>
  /\ UNCHANGED <<tmux, cache, shown, inFlight, wakes, resultsWake, results, unit>>

RemoveClient(c, s) ==
  /\ setup.leaves
  /\ c \in clients[s]
  /\ clients' = [clients EXCEPT ![s] = @ \ {c}]
  /\ UNCHANGED <<tmux, got, cache, shown, inFlight, wakes, membership, resultsWake,
                 results, loop, local, unit>>

-----------------------------------------------------------------------------
(* poll, the part before the wait *)

\* The goroutine ends when nobody is subscribed; otherwise it takes the poll
\* set and drops the flags of the servers that left it.
TickTop ==
  /\ loop = "top"
  /\ IF Subscribed = {} /\ ~setup.pageOpen
     THEN loop' = "off" /\ UNCHANGED <<servers, flags>>
     ELSE /\ servers' = Subscribed
          /\ flags' = flags \cap Subscribed
          /\ loop' = "fold"
  /\ UNCHANGED <<tmux, hub, todo, dead, seenGen, resultsOnly, unit>>

\* foldPollResults drains the channel.  The sweeps of the trackers, which the
\* modules of the trackers model, follow.
Fold ==
  /\ loop = "fold"
  /\ dead' = {s \in Server : \E i \in DOMAIN results : results[i] = <<s, "dead">>}
  /\ results' = <<>>
  /\ loop' = "reap"
  /\ UNCHANGED <<tmux, clients, got, cache, shown, inFlight, wakes, membership,
                 resultsWake, servers, todo, seenGen, flags, resultsOnly, unit>>

\* Slip: the subscriptions of a dead server kept.
SlipKeepClients(s) == clients[s]

\* The subscribers of a dead server are told and removed.
ClientsAfterReap(s) == IF s \in dead THEN {} ELSE clients[s]

\* Slip: the poll set read again, after the snapshot.
SlipDispatchSet == IF resultsOnly THEN {} ELSE Subscribed

\* A fold-only tick dispatches nothing.
DispatchSet == IF resultsOnly THEN {} ELSE servers

\* The dead servers lose their subscribers and every per-server entry.
Reap ==
  /\ loop = "reap"
  /\ clients' = [s \in Server |-> ClientsAfterReap(s)]
  /\ cache' = [s \in Server |-> IF s \in dead THEN None ELSE cache[s]]
  /\ shown' = [s \in Server |-> IF s \in dead THEN None ELSE shown[s]]
  /\ inFlight' = [s \in Server |-> s \notin dead /\ inFlight[s]]
  /\ wakes' = [s \in Server |-> IF s \in dead THEN "absent" ELSE wakes[s]]
  /\ seenGen' = [s \in Server |-> IF s \in dead THEN 0 ELSE seenGen[s]]
  /\ flags' = flags \ dead
  /\ dead' = {}
  /\ todo' = DispatchSet
  /\ loop' = "dispatch"
  /\ UNCHANGED <<tmux, got, membership, resultsWake, results, servers, resultsOnly, unit>>

HoldsSemaphore(k) == unit[k].pc \notin {"none", "signal"}

\* Slip: a server whose unit still runs is dispatched again.
SlipDispatchable(s) == Cardinality({k \in Slot : HoldsSemaphore(k)}) < Concurrency

Dispatchable(s) ==
  /\ ~inFlight[s]
  /\ Cardinality({k \in Slot : HoldsSemaphore(k)}) < Concurrency

\* The unit of s gets the pending flag.
Start(s) ==
  /\ loop = "dispatch" /\ s \in todo
  /\ Dispatchable(s)
  /\ \E k \in Slot :
       /\ unit[k] = Idle
       /\ unit' = [unit EXCEPT ![k] = [Idle EXCEPT !.pc = "check", !.server = s,
                                       !.invalidate = s \in flags]]
  /\ inFlight' = [inFlight EXCEPT ![s] = TRUE]
  /\ flags' = flags \ {s}
  /\ todo' = todo \ {s}
  /\ UNCHANGED <<tmux, clients, got, cache, shown, wakes, membership, resultsWake,
                 results, loop, servers, dead, seenGen, resultsOnly>>

\* A server whose unit is in flight, or that finds the semaphore taken, keeps
\* its flag for a later tick.
Skip(s) ==
  /\ loop = "dispatch" /\ s \in todo
  /\ ~Dispatchable(s)
  /\ todo' = todo \ {s}
  /\ UNCHANGED <<tmux, hub, loop, servers, dead, seenGen, flags, resultsOnly, unit>>

\* waitForNext builds its cases, which allocates the missing wake channels.
BeginWait ==
  /\ loop = "dispatch" /\ todo = {}
  /\ wakes' = [s \in Server |-> IF s \in servers /\ wakes[s] = "absent"
                                THEN "open" ELSE wakes[s]]
  /\ loop' = "wait"
  /\ UNCHANGED <<tmux, clients, got, cache, shown, inFlight, membership, resultsWake,
                 results, local, unit>>

-----------------------------------------------------------------------------
(* waitForNext *)

Bumped == {s \in servers : gen[s] > seenGen[s]}
Woken == {s \in servers : wakes[s] = "closed"}

\* Every case that has fired is consumed: a bump by taking over the
\* generation, a wake by a fresh channel.
Peek ==
  /\ seenGen' = [s \in Server |-> IF s \in Bumped THEN gen[s] ELSE seenGen[s]]
  /\ wakes' = [s \in Server |-> IF s \in Woken THEN "open" ELSE wakes[s]]
  /\ membership' = FALSE
  /\ resultsWake' = FALSE
  /\ flags' = flags \cup Bumped \cup Woken
  /\ UNCHANGED <<tmux, clients, got, cache, shown, inFlight, results, servers, todo,
                 dead, unit>>

\* Slip: a completion is fold-only whatever is pending.
SlipFoldOnly(pending) == TRUE

\* A completion with a pending flag is a full tick.
FoldOnly(pending) == pending = {}

\* The wait ends by a case or by the safety timer.  A pure bump enters the
\* debounce window.
EndWait(timer) ==
  /\ loop = "wait"
  /\ timer \/ resultsWake \/ membership \/ Bumped # {} \/ Woken # {}
  /\ Peek
  /\ LET woke == membership \/ Woken # {}
     IN  /\ loop' = IF Bumped # {} /\ ~woke /\ ~resultsWake THEN "debounce" ELSE "top"
         /\ resultsOnly' = (/\ resultsWake /\ ~timer
                            /\ Bumped = {} /\ ~woke
                            /\ FoldOnly(flags'))

\* The window closes by its timer or by a wake; a last look takes what came in.
EndDebounce ==
  /\ loop = "debounce"
  /\ Peek
  /\ loop' = "top"
  /\ resultsOnly' = FALSE

-----------------------------------------------------------------------------
(* runPollUnit and pollServerUnit *)

Advance(k, pc) == unit' = [unit EXCEPT ![k].pc = pc]

\* The cache may be used for 500 ms unless the flag was set.
CheckCache(k) ==
  LET s == unit[k].server
      kept == IF unit[k].invalidate THEN None ELSE cache[s]
  IN  /\ unit[k].pc = "check"
      /\ cache' = [cache EXCEPT ![s] = kept]
      /\ unit' = [unit EXCEPT ![k].pc = IF kept = None THEN "fetch" ELSE "dedup",
                              ![k].seen = kept, ![k].result = "polled"]
      /\ UNCHANGED <<tmux, clients, got, shown, inFlight, wakes, membership,
                     resultsWake, results, loop, local>>

\* FetchSessions returns the sessions, an error of a gone socket, or another
\* error.
Fetched(k, pc, seen, result) ==
  /\ unit' = [unit EXCEPT ![k].pc = pc, ![k].seen = seen, ![k].result = result]
  /\ UNCHANGED <<tmux, hub, loop, local>>

FetchSucceeds(k) ==
  /\ unit[k].pc = "fetch" /\ alive[unit[k].server]
  /\ Fetched(k, "store", change[unit[k].server], "polled")

FetchFindsGone(k) ==
  /\ unit[k].pc = "fetch" /\ ~alive[unit[k].server]
  /\ Fetched(k, "deliver", None, "dead")

FetchFails(k) ==
  /\ unit[k].pc = "fetch" /\ unit[k].server \in setup.mortal
  /\ Fetched(k, "deliver", None, "failed")

StoreCache(k) ==
  /\ unit[k].pc = "store"
  /\ cache' = [cache EXCEPT ![unit[k].server] = unit[k].seen]
  /\ Advance(k, "dedup")
  /\ UNCHANGED <<tmux, clients, got, shown, inFlight, wakes, membership, resultsWake,
                 results, loop, local>>

\* An unchanged snapshot is not sent.
Dedup(k) ==
  LET s == unit[k].server
  IN  /\ unit[k].pc = "dedup"
      /\ shown' = [shown EXCEPT ![s] = unit[k].seen]
      /\ Advance(k, IF unit[k].seen # shown[s] THEN "fanout" ELSE "deliver")
      /\ UNCHANGED <<tmux, clients, got, cache, inFlight, wakes, membership,
                     resultsWake, results, loop, local>>

FanOut(k) ==
  LET s == unit[k].server
  IN  /\ unit[k].pc = "fanout"
      /\ got' = [c \in Client |-> IF c \in clients[s]
                                  THEN [got[c] EXCEPT ![s] = unit[k].seen]
                                  ELSE got[c]]
      /\ Advance(k, "deliver")
      /\ UNCHANGED <<tmux, clients, cache, shown, inFlight, wakes, membership,
                     resultsWake, results, loop, local>>

\* The channel buffers Concurrency results.
Deliver(k) ==
  /\ unit[k].pc = "deliver"
  /\ Len(results) < Concurrency
  /\ results' = Append(results, <<unit[k].server, unit[k].result>>)
  /\ Advance(k, "clear")
  /\ UNCHANGED <<tmux, clients, got, cache, shown, inFlight, wakes, membership,
                 resultsWake, loop, local>>

\* Slip: a failed unit leaves its flag behind.
SlipCleared(k) == unit[k].result # "polled" /\ inFlight[unit[k].server]

\* The in-flight flag after unit k is done.
Cleared(k) == FALSE

ClearInFlight(k) ==
  /\ unit[k].pc = "clear"
  /\ inFlight' = [inFlight EXCEPT ![unit[k].server] = Cleared(k)]
  /\ Advance(k, "release")
  /\ UNCHANGED <<tmux, clients, got, cache, shown, wakes, membership, resultsWake,
                 results, loop, local>>

ReleaseSemaphore(k) ==
  /\ unit[k].pc = "release"
  /\ unit' = [unit EXCEPT ![k] = [Idle EXCEPT !.pc = "signal"]]
  /\ UNCHANGED <<tmux, hub, loop, local>>

SignalResultsWake(k) ==
  /\ unit[k].pc = "signal"
  /\ resultsWake' = TRUE
  /\ unit' = [unit EXCEPT ![k] = Idle]
  /\ UNCHANGED <<tmux, clients, got, cache, shown, inFlight, wakes, membership,
                 results, loop, local>>

\* sseCacheTTL passes.
ExpireCache(s) ==
  /\ cache[s] # None
  /\ cache' = [cache EXCEPT ![s] = None]
  /\ UNCHANGED <<tmux, clients, got, shown, inFlight, wakes, membership, resultsWake,
                 results, loop, local, unit>>

-----------------------------------------------------------------------------
LoopStep ==
  \/ TickTop \/ Fold \/ Reap
  \/ \E s \in Server : Start(s) \/ Skip(s)
  \/ BeginWait
  \/ EndWait(FALSE)
  \/ EndDebounce

UnitMoves(k) ==
  \/ CheckCache(k) \/ FetchSucceeds(k) \/ FetchFindsGone(k) \/ FetchFails(k)
  \/ StoreCache(k) \/ Dedup(k) \/ FanOut(k) \/ Deliver(k) \/ ClearInFlight(k) \/ ReleaseSemaphore(k) \/ SignalResultsWake(k)

Announce(s) == Bump(s) \/ Wake(s)

Next ==
  \/ LoopStep
  \/ EndWait(TRUE)
  \/ \E k \in Slot : UnitMoves(k)
  \/ \E s \in Server : \/ Change(s) \/ Vanish(s) \/ Announce(s) \/ ExpireCache(s)
                       \/ \E c \in Client : AddClient(c, s) \/ RemoveClient(c, s)

Spec == Init /\ [][Next]_vars

\* Goroutines run, fetches end by their deadlines, announcements arrive, and
\* the poll set is a Go map, whose random order gives every server its turn at
\* the semaphore.
Fairness ==
  /\ \A s \in Server : SF_vars(Start(s))
  /\ WF_vars(LoopStep)
  /\ \A k \in Slot : WF_vars(UnitMoves(k))
  /\ \A s \in Server : WF_vars(Bump(s)) /\ WF_vars(Wake(s)) /\ WF_vars(ExpireCache(s))

\* Where it is counted on, the safety timer fires whenever the goroutine waits
\* long enough, and of the fetches from a gone socket not every one fails for
\* another reason.
FairSpec ==
  /\ Spec /\ Fairness
  /\ WF_vars(setup.timer /\ EndWait(TRUE))
  /\ \A k \in Slot : SF_vars(setup.timer /\ FetchFindsGone(k))

-----------------------------------------------------------------------------
(* Properties *)

Version == 0 .. setup.changes

TypeOK ==
  /\ setup \in Setups
  /\ change \in [Server -> Version]
  /\ alive \in [Server -> BOOLEAN]
  /\ unannounced \in [Server -> SUBSET setup.signals]
  /\ gen \in [Server -> Version]
  /\ clients \in [Server -> SUBSET Client]
  /\ got \in [Client -> [Server -> Version \cup {None}]]
  /\ cache \in [Server -> Version \cup {None}]
  /\ shown \in [Server -> Version \cup {None}]
  /\ inFlight \in [Server -> BOOLEAN]
  /\ wakes \in [Server -> {"absent", "open", "closed"}]
  /\ membership \in BOOLEAN /\ resultsWake \in BOOLEAN
  /\ results \in Seq(Server \X {"polled", "dead", "failed"})
  /\ Len(results) <= Concurrency
  /\ loop \in {"off", "top", "fold", "reap", "dispatch", "wait", "debounce"}
  /\ servers \in SUBSET Server /\ todo \in SUBSET servers /\ dead \in SUBSET Server
  /\ seenGen \in [Server -> Version]
  /\ flags \in SUBSET Server
  /\ resultsOnly \in BOOLEAN
  /\ unit \in [Slot -> [pc : UnitStep, server : Server \cup {None},
                        invalidate : BOOLEAN, seen : Version \cup {None},
                        result : {"none", "polled", "dead", "failed"}]]

UnitsOf(s, steps) == {k \in Slot : unit[k].server = s /\ unit[k].pc \in steps}

\* "One in-flight unit per server, always" (sse.go, at the dispatch): two
\* units of a server whose socket stays never poll at the same time, also when
\* the poll goroutine ended and a new one started between their dispatches.
SingleFlight ==
  \A s \in Server \ setup.mortal : Cardinality(UnitsOf(s, Running)) <= 1

\* No unit can be orphaned: a server marked in flight has a unit that will
\* clear the mark, otherwise it would never be polled again.
FlightHasUnit ==
  \A s \in Server : inFlight[s] => UnitsOf(s, Running \cup {"clear"}) # {}

\* Snapshots of a server whose socket stays reach a connection in the order tmux went
\* through them: the replay at subscription and the frames of the units never go back
\* (sse.go, the ack-ordering invariant).  Of a socket that comes back, two units may
\* run, and the older one may be the last to fan out.
ViewAdvances ==
  [][\A s \in Server \ setup.mortal :
       \A c \in clients[s] \cap clients'[s] : got'[c][s] >= got[c][s]]_vars

\* Every announced change reaches every connection that stays subscribed,
\* without the help of the safety timer: no bump or wake is lost between the
\* wait, the single-flight skip, the cache and the fold-only ticks.
CatchesUp ==
  \A s \in Server :
    <>[](s \in Subscribed /\ ~setup.timer) =>
      <>[](\A c \in clients[s] : got[c][s] = change[s])

\* A subscriber of a server that stays gone is told so and removed.
GoneIsReported ==
  \A s \in Server : <>[](~alive[s] /\ setup.timer) => []<>(clients[s] = {})

=============================================================================
