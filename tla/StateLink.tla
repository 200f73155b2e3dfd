------------------------------ MODULE StateLink -----------------------------
(***************************************************************************)
(* A tab and the daemon over the state socket: the provider that holds     *)
(* what the tab shows of each tmux server (contexts/session-context.tsx)   *)
(* over the socket of StateSocket.                                         *)
(*                                                                         *)
(* The provider fetches the list of servers, wants the one of the route    *)
(* and those with an expanded group, and subscribes to what is wanted and  *)
(* listed.  React runs the effect that subscribes some time after the      *)
(* state it depends on was set: handlers run in between.  Of a snapshot    *)
(* the number of changes it shows is kept.                                 *)
(***************************************************************************)
EXTENDS StateSocket

CONSTANT MaxFetches   \* bound: fetches of the server list under way

ASSUME FetchBound == MaxFetches \in Nat \ {0}

NoServer == "none"
NoBoot == -1

VARIABLES
  tab,      \* the provider
  fetch,    \* GET /api/servers: requests, and answers on their way
  reloads   \* ghost: how often the tab reloaded itself

vars == <<socket, wire, daemon, host, left, tab, fetch, reloads>>

Slice == [present : BOOLEAN, connected : BOOLEAN, sessions : Nat, received : BOOLEAN]

Tab == [current : Server \cup {NoServer},    \* currentServer
        others : SUBSET Server,              \* attachedNonCurrent
        known : SUBSET Server,               \* servers
        effect : BOOLEAN,                    \* attachedSet is new: its effects are to run
        subscribed : SUBSET Server,          \* subscribedServersRef
        metrics : BOOLEAN,                   \* metricsSubscribedRef
        acked : SUBSET Server,               \* ackedServersRef
        slices : [Server -> Slice],
        connected : BOOLEAN,                 \* socketConnectedRef
        debounce : BOOLEAN,                  \* socketDisconnectTimerRef
        boot : {NoBoot} \cup Nat]            \* firstBootRef

Fetch == [sent : 0..MaxFetches, answers : [SUBSET Server -> 0..MaxFetches]]

TypeOK ==
  /\ LinkTypeOK
  /\ tab \in Tab
  /\ fetch \in Fetch
  /\ reloads \in Nat

Absent == [present |-> FALSE, connected |-> FALSE, sessions |-> None, received |-> FALSE]
EmptySlice == [Absent EXCEPT !.present = TRUE]

\* The page loads: the list is fetched and the socket dialled.
Loaded(current) ==
  [current |-> current, others |-> {}, known |-> {}, effect |-> TRUE, subscribed |-> {},
   metrics |-> FALSE, acked |-> {}, slices |-> [s \in Server |-> Absent],
   connected |-> FALSE, debounce |-> FALSE, boot |-> NoBoot]

FirstFetch == [sent |-> 1, answers |-> [list \in SUBSET Server |-> 0]]

Init ==
  /\ LinkInit
  /\ \E current \in Server \cup {NoServer} : tab = Loaded(current)
  /\ fetch = FirstFetch
  /\ reloads = 0

AttachedSet == ({tab.current} \cup tab.others) \cap tab.known

-----------------------------------------------------------------------------
(* The user, the list of servers, and the effects *)

Navigate(to) ==
  /\ Spend("moves") /\ to # tab.current
  /\ tab' = [tab EXCEPT !.current = to, !.effect = TRUE]
  /\ UNCHANGED <<socket, wire, daemon, host, fetch, reloads>>

\* attachServer, of a group that expands.
Attach(s) ==
  /\ Spend("moves") /\ s \notin tab.others
  /\ tab' = [tab EXCEPT !.others = @ \cup {s}, !.effect = TRUE]
  /\ UNCHANGED <<socket, wire, daemon, host, fetch, reloads>>

FetchAnswered ==
  /\ fetch.sent > 0 /\ daemon.up
  /\ fetch' = [sent |-> fetch.sent - 1, answers |-> [fetch.answers EXCEPT ![host.alive] = @ + 1]]
  /\ UNCHANGED <<socket, wire, daemon, host, left, tab, reloads>>

\* A failure is ignored: the list stays as it is.
FetchFails ==
  /\ fetch.sent > 0
  /\ IF daemon.up THEN Spend("fails") ELSE UNCHANGED left
  /\ fetch' = [fetch EXCEPT !.sent = @ - 1]
  /\ UNCHANGED <<socket, wire, daemon, host, tab, reloads>>

\* Answers arrive in any order.
ListArrives(list) ==
  /\ fetch.answers[list] > 0
  /\ fetch' = [fetch EXCEPT !.answers[list] = @ - 1]
  /\ tab' = [tab EXCEPT !.known = list, !.effect = TRUE]
  /\ UNCHANGED <<socket, wire, daemon, host, left, reloads>>

CanFetch == fetch.sent + MapThenSumSet(LAMBDA list : fetch.answers[list], SUBSET Server) < MaxFetches
FetchServers == fetch' = [fetch EXCEPT !.sent = @ + 1]

\* The effects of a new attachedSet: it is diffed against the subscriptions, and
\* the metrics have a subscription of their own only where it is empty.
Effects ==
  LET joins == AttachedSet \ tab.subscribed
      leaves == tab.subscribed \ AttachedSet
      metrics == AttachedSet = {}
      refs == [k \in Key |->
                 IF k \in joins \/ (k = Metrics /\ metrics /\ ~tab.metrics) THEN AddSub(socket, k).refs[k]
                 ELSE IF k \in leaves \/ (k = Metrics /\ ~metrics /\ tab.metrics) THEN RemoveSub(socket, k).refs[k]
                 ELSE socket.refs[k]]
      begins == {k \in Key : socket.refs[k] = 0 /\ refs[k] > 0}
      ends == {k \in leaves \cup (IF ~metrics /\ tab.metrics THEN {Metrics} ELSE {}) : socket.refs[k] <= 1}
  IN /\ tab.effect
     /\ tab' = [tab EXCEPT !.effect = FALSE, !.subscribed = AttachedSet, !.metrics = metrics,
                           !.acked = @ \ leaves,
                           !.slices = [s \in Server |-> IF s \in joins THEN EmptySlice
                                                        ELSE IF s \in leaves THEN Absent ELSE @[s]]]
     /\ socket' = [socket EXCEPT !.refs = refs]
     /\ wire' = Send(wire, socket, Each("subscribe", begins) \o Each("unsubscribe", ends))
     /\ UNCHANGED <<daemon, host, left, fetch, reloads>>

-----------------------------------------------------------------------------
(* Frames *)

\* updateSlice, of a slice that exists.
Update(t, s, change) ==
  [t EXCEPT !.slices[s] = IF @.present THEN change ELSE @]

OnSessions(t, f) ==
  Update(t, f.key, [t.slices[f.key] EXCEPT !.connected = TRUE, !.sessions = f.snapshot, !.received = TRUE])

\* An ack without a snapshot empties the sessions and leaves `received`.
OnAck(t, f) ==
  Update([t EXCEPT !.acked = @ \cup {f.key}], f.key,
         [t.slices[f.key] EXCEPT !.connected = t.connected, !.sessions = f.snapshot,
                                 !.received = @ \/ f.snapshot # None])

SlipOnGone(t, s) ==
  [t EXCEPT !.acked = @ \ {s}, !.slices[s] = Absent]

\* The subscription is given up, so that the diff takes it again if it is wanted.
OnGone(t, s) ==
  [t EXCEPT !.acked = @ \ {s}, !.subscribed = @ \ {s}, !.slices[s] = Absent]

SlipReceiveGone(f, w) ==
  /\ CanFetch
  /\ tab' = OnGone(tab, f.key)
  /\ socket' = NoteInbound(socket)
  /\ wire' = w
  /\ FetchServers
  /\ UNCHANGED reloads

ReceiveGone(f, w) ==
  /\ CanFetch
  /\ tab' = OnGone(tab, f.key)
  /\ socket' = RemoveSub(NoteInbound(socket), f.key)
  /\ wire' = Send(w, socket, RemoveSubSends(socket, f.key))
  /\ FetchServers
  /\ UNCHANGED reloads

SlipShouldReload(first, next) == first # NoBoot

\* shouldReloadOnVersion, of one version of the binary that is not a dev build.
ShouldReload(first, next) == first # NoBoot /\ next # first

\* location.reload(): the page and its socket are gone.
Reload ==
  /\ tab' = Loaded(tab.current)
  /\ socket' = Fresh
  /\ wire' = Dialling
  /\ fetch' = FirstFetch
  /\ reloads' = reloads + 1

ReceiveVersion(f, w) ==
  IF ShouldReload(tab.boot, f.boot) THEN Reload
  ELSE /\ tab' = [tab EXCEPT !.boot = IF @ = NoBoot THEN f.boot ELSE @]
       /\ socket' = NoteInbound(socket)
       /\ wire' = w
       /\ UNCHANGED <<fetch, reloads>>

ReceiveUpdate(f, w) ==
  /\ tab' = IF f.key = Metrics THEN tab
            ELSE IF f.op = "ack" THEN OnAck(tab, f) ELSE OnSessions(tab, f)
  /\ socket' = NoteInbound(socket)
  /\ wire' = w
  /\ UNCHANGED <<fetch, reloads>>

Receive ==
  /\ IsOpen(socket) /\ wire.down # <<>>
  /\ LET f == Head(wire.down)
         w == [wire EXCEPT !.down = Tail(@)]
     IN IF f.op = "gone" THEN ReceiveGone(f, w)
        ELSE IF f.op = "version" THEN ReceiveVersion(f, w) ELSE ReceiveUpdate(f, w)
  /\ UNCHANGED <<daemon, host, left>>

-----------------------------------------------------------------------------
(* The connection *)

\* applyServerConnected
Mark(t, up) ==
  [t EXCEPT !.slices = [s \in Server |->
     IF s \in t.acked /\ @[s].present THEN [@[s] EXCEPT !.connected = up] ELSE @[s]]]

SlipSocketOpens ==
  /\ socket.state = "connecting" /\ daemon.up
  /\ socket' = [socket EXCEPT !.state = "open"]
  /\ wire' = [Dialling EXCEPT !.ok = TRUE, !.up = <<[op |-> "hello"]>>]
  /\ daemon' = [daemon EXCEPT !.subs = {}]
  /\ tab' = Mark([tab EXCEPT !.connected = TRUE, !.debounce = FALSE], TRUE)
  /\ UNCHANGED <<host, left, fetch, reloads>>

\* onopen, over a new connection of the daemon.
SocketOpens ==
  /\ socket.state = "connecting" /\ daemon.up
  /\ socket' = [socket EXCEPT !.state = "open"]
  /\ wire' = [Dialling EXCEPT !.ok = TRUE, !.up = OpenSends(socket)]
  /\ daemon' = [daemon EXCEPT !.subs = {}]
  /\ tab' = Mark([tab EXCEPT !.connected = TRUE, !.debounce = FALSE], TRUE)
  /\ UNCHANGED <<host, left, fetch, reloads>>

\* onclose: a dial that fails, a cut the browser noticed, or the end of forceClose.
SocketCloses ==
  /\ \/ socket.state = "connecting" /\ (IF daemon.up THEN Spend("cuts") ELSE UNCHANGED left)
     \/ IsOpen(socket) /\ ~wire.ok /\ UNCHANGED left
     \/ socket.state = "closing" /\ UNCHANGED left
  /\ socket' = OnClose(socket)
  /\ wire' = Severed
  /\ tab' = [tab EXCEPT !.debounce = TRUE]
  /\ UNCHANGED <<daemon, host, fetch, reloads>>

\* Three seconds without a connection: the dots go gray, and the list is fetched.
DebounceFires ==
  /\ tab.debounce /\ CanFetch
  /\ tab' = Mark([tab EXCEPT !.debounce = FALSE, !.connected = FALSE], FALSE)
  /\ FetchServers
  /\ UNCHANGED <<socket, wire, daemon, host, left, reloads>>

-----------------------------------------------------------------------------

TabKeeps == UNCHANGED <<tab, fetch, reloads>>

Next ==
  \/ \E to \in Server \cup {NoServer} : Navigate(to)
  \/ \E s \in Server : Attach(s)
  \/ FetchAnswered \/ FetchFails \/ \E list \in SUBSET Server : ListArrives(list)
  \/ Effects \/ Receive \/ SocketOpens \/ SocketCloses \/ DebounceFires
  \/ (ReconnectFires \/ HeartbeatTick \/ Inbound \/ ProbeExpires \/ HandleWake \/ DaemonRead) /\ TabKeeps
  \/ (Cut \/ DaemonStops \/ DaemonStarts) /\ TabKeeps
  \/ \E s \in Server : (Poll(s) \/ Change(s) \/ Kill(s) \/ Birth(s)) /\ TabKeeps

\* What happens by itself: timers, the effects, answers, frames, a daemon that is
\* started again, and its polls.  Nobody need notice a cut but the heartbeat.
Fairness ==
  /\ WF_vars(Effects) /\ WF_vars(Receive) /\ WF_vars(SocketOpens)
  /\ WF_vars(socket.state = "closing" /\ SocketCloses)
  /\ WF_vars((ReconnectFires \/ HeartbeatTick \/ ProbeExpires) /\ TabKeeps)
  /\ WF_vars(DaemonRead /\ TabKeeps) /\ WF_vars(DaemonStarts /\ TabKeeps)
  /\ WF_vars(FetchAnswered \/ FetchFails)
  /\ WF_vars(\E list \in SUBSET Server : ListArrives(list))
  /\ \A s \in Server : WF_vars(Poll(s) /\ TabKeeps)

Spec == Init /\ [][Next]_vars /\ Fairness

-----------------------------------------------------------------------------
(* Properties *)

\* What the tab's guards, its socket and the daemon take for subscribed agree once
\* everything in transit has arrived: no reconnect, and no `gone` that crosses a new
\* subscription, leaves a server subscribed at one end only.
EndsAgree ==
  /\ Subs(socket) = tab.subscribed \cup (IF tab.metrics THEN {Metrics} ELSE {})
  /\ IsOpen(socket) /\ wire.ok /\ wire.up = <<>> =>
       \A k \in Key : socket.refs[k] > 0 =>
         k \in daemon.subs \/ \E i \in DOMAIN wire.down : wire.down[i] = [op |-> "gone", key |-> k]

\* The hub sends a snapshot once: a tab that missed one would show a stale server for
\* as long as it is quiet.  When nothing is in transit the tab shows what the hub does.
QuietTabAgrees ==
  IsOpen(socket) /\ wire.ok /\ wire.up = <<>> /\ wire.down = <<>> =>
    \A s \in tab.subscribed \cap daemon.subs : tab.slices[s].sessions = daemon.shown[s]

\* A tab reloads at most once for each restart of the daemon.
ReloadsFollowRestarts == reloads <= daemon.boot

\* What the tab attaches and is alive is shown at its latest, or is given up.
AttachedIsShown ==
  \A s \in Server : []<>(s \in AttachedSet /\ s \in host.alive =>
                           tab.slices[s].connected /\ tab.slices[s].sessions = host.version[s])

\* sessionsReceivedByServer: the sessions shown as received were received.
ReceivedIsReal == \A s \in Server : tab.slices[s].received => tab.slices[s].sessions # None

=============================================================================
