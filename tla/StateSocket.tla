----------------------------- MODULE StateSocket ----------------------------
(***************************************************************************)
(* The state socket of a tab (lib/state-socket.ts) and the daemon at its   *)
(* other end (api/state_ws.go and the hub of api/sse.go): subscriptions    *)
(* that survive reconnects, a heartbeat that finds a dead connection, and  *)
(* the frames that acknowledge, update and end a subscription.             *)
(*                                                                         *)
(* StateSocket dials from a timer that only onclose sets: there is one     *)
(* socket at a time.  The request numbers are left out: an ack answers a   *)
(* request of its own connection, so its key is known.  Backoff delays are *)
(* arbitrary and the age of a ping is counted in heartbeats.  A full send  *)
(* channel, which drops frames, is left out.                               *)
(***************************************************************************)
EXTENDS Integers, FiniteSets, SequencesExt

CONSTANTS
  Server,    \* tmux servers
  Budgets    \* bound: how often the surroundings act; one is chosen

\* cuts: silent cuts; kills: servers that disappear; births: servers that appear;
\* changes: changes of a server; restarts: of the daemon; fails: fetches that fail;
\* moves: navigations and expanded groups; wakes: wake events.
Budget == [cuts : Nat, kills : Nat, births : Nat, changes : Nat, restarts : Nat,
           fails : Nat, moves : Nat, wakes : Nat]

ASSUME BudgetsOK == Budgets \subseteq Budget

Metrics == "metrics"
Key == Server \cup {Metrics}
None == 0         \* no snapshot
NoPing == -1

\* The topics of the frames keep the metrics apart from every server.
ASSUME ServersOK == IsFiniteSet(Server) /\ Metrics \notin Server

VARIABLES
  socket,   \* the fields of StateSocket
  wire,     \* the connection: cut or not, and the frames in transit
  daemon,   \* its boot, the hub's slots and the subscriptions of the connection
  host,     \* the tmux servers: alive, and how often each changed
  left      \* what is left of the budget

linkVars == <<socket, wire, daemon, host, left>>

Spend(what) == left[what] > 0 /\ left' = [left EXCEPT ![what] = @ - 1]

Socket == [state : {"connecting", "open", "closing", "closed"},   \* ws.readyState
           refs : [Key -> 0..1],                                  \* refCounts and subs
           timer : BOOLEAN,                                       \* reconnectTimer
           ping : {NoPing} \cup 0..2,                             \* outstandingPingSince
           probe : BOOLEAN]                                       \* wakeProbeTimer

Op(ops, keys) == [op : ops, key : keys]

Wire == [ok : BOOLEAN,
         up : Seq([op : {"hello"}] \cup Op({"subscribe", "unsubscribe"}, Key)),
         down : Seq([op : {"version"}, boot : Nat] \cup Op({"gone"}, Server)
                      \cup [op : {"ack"}, key : Key, snapshot : Nat]
                      \cup [op : {"sessions"}, key : Server, snapshot : Nat])]

Daemon == [up : BOOLEAN, boot : Nat,
           shown : [Server -> Nat],      \* previousJSON
           subs : SUBSET Key]            \* sc.subs of the connection

Host == [alive : SUBSET Server, version : [Server -> Nat]]

LinkTypeOK ==
  /\ socket \in Socket
  /\ wire \in Wire
  /\ daemon \in Daemon
  /\ host \in Host
  /\ left \in Budget

Fresh == [state |-> "connecting", refs |-> [k \in Key |-> 0], timer |-> FALSE,
          ping |-> NoPing, probe |-> FALSE]
Dialling == [ok |-> FALSE, up |-> <<>>, down |-> <<>>]

LinkInit ==
  /\ socket = Fresh
  /\ wire = Dialling
  /\ daemon = [up |-> TRUE, boot |-> 0, shown |-> [s \in Server |-> None], subs |-> {}]
  /\ host = [alive |-> Server, version |-> [s \in Server |-> 1]]
  /\ left \in Budgets

-----------------------------------------------------------------------------
(* StateSocket: operators from its fields, the wire and the tab's to the next *)

IsOpen(so) == so.state = "open"
Subs(so) == {k \in Key : so.refs[k] > 0}

\* send: lost unless the socket is open and not cut.
Send(w, so, messages) ==
  IF IsOpen(so) /\ w.ok THEN [w EXCEPT !.up = @ \o messages] ELSE w

Each(op, keys) == LET ks == SetToSeq(keys) IN [i \in DOMAIN ks |-> [op |-> op, key |-> ks[i]]]

AddSub(so, k) == [so EXCEPT !.refs[k] = @ + 1]
AddSubSends(so, k) == IF so.refs[k] = 0 THEN Each("subscribe", {k}) ELSE <<>>

\* A release of a key that nobody holds is sent as well.
RemoveSub(so, k) == [so EXCEPT !.refs[k] = IF @ <= 1 THEN 0 ELSE @ - 1]
RemoveSubSends(so, k) == IF so.refs[k] <= 1 THEN Each("unsubscribe", {k}) ELSE <<>>

\* onopen: hello, and every subscription again.
OpenSends(so) == <<[op |-> "hello"]>> \o Each("subscribe", Subs(so))

NoteInbound(so) == [so EXCEPT !.ping = NoPing, !.probe = FALSE]

\* onclose, whatever closed the socket: the timer dials again.
OnClose(so) == [NoteInbound(so) EXCEPT !.state = "closed", !.timer = TRUE]

\* The clock starts at the oldest ping without an answer: at 1 from a heartbeat, at 0
\* from a wake between two.
SendPing(so, age) == [so EXCEPT !.ping = IF @ = NoPing THEN age ELSE @]

ForceClose(so) == [so EXCEPT !.state = IF @ = "open" THEN "closing" ELSE @]

ReconnectFires ==
  /\ socket.timer
  /\ socket' = [socket EXCEPT !.timer = FALSE, !.state = "connecting"]
  /\ wire' = Dialling
  /\ UNCHANGED <<daemon, host, left>>

\* On a sound connection the ping of a tick is answered before the next one, and
\* changes nothing; silence for two intervals closes.
HeartbeatTick ==
  /\ IsOpen(socket) /\ ~wire.ok
  /\ socket' = IF socket.ping >= 2 THEN ForceClose(socket)
               ELSE IF socket.ping = NoPing THEN SendPing(socket, 1)
               ELSE [socket EXCEPT !.ping = @ + 1]
  /\ UNCHANGED <<wire, daemon, host, left>>

\* A pong, or any frame that is not modelled.
Inbound ==
  /\ IsOpen(socket) /\ wire.ok /\ (socket.ping # NoPing \/ socket.probe)
  /\ socket' = NoteInbound(socket)
  /\ UNCHANGED <<wire, daemon, host, left>>

\* An answer that is late on a sound connection counts as a cut.
ProbeExpires ==
  /\ socket.probe /\ ~wire.ok
  /\ socket' = ForceClose([socket EXCEPT !.probe = FALSE])
  /\ UNCHANGED <<wire, daemon, host, left>>

\* handleWake: a waiting dial goes out at once, an open socket is probed.
HandleWake ==
  /\ Spend("wakes")
  /\ \/ /\ socket.timer
        /\ socket' = [socket EXCEPT !.timer = FALSE, !.state = "connecting"]
        /\ wire' = Dialling
     \/ /\ ~socket.timer /\ IsOpen(socket) /\ ~socket.probe
        /\ socket' = [SendPing(socket, 0) EXCEPT !.probe = TRUE]
        /\ UNCHANGED wire
  /\ UNCHANGED <<daemon, host>>

-----------------------------------------------------------------------------
(* The daemon *)

Frame(op, s) == [op |-> op, key |-> s, snapshot |-> daemon.shown[s]]

\* stateSubscribe: a new subscription gets the cached slot first (addClient), and
\* every one an ack with the slot.
Subscribe(k) ==
  LET cached == IF k \in daemon.subs \/ k = Metrics \/ daemon.shown[k] = None THEN <<>>
                ELSE <<Frame("sessions", k)>>
      ack == IF k = Metrics THEN [op |-> "ack", key |-> k, snapshot |-> None] ELSE Frame("ack", k)
  IN /\ daemon' = [daemon EXCEPT !.subs = @ \cup {k}]
     /\ wire' = [wire EXCEPT !.up = Tail(@), !.down = @ \o cached \o <<ack>>]

Unsubscribe(k) ==
  /\ daemon' = [daemon EXCEPT !.subs = @ \ {k}]
  /\ wire' = [wire EXCEPT !.up = Tail(@)]

\* hello: the cached global slots, of which the version is one.
Hello ==
  /\ wire' = [wire EXCEPT !.up = Tail(@), !.down = Append(@, [op |-> "version", boot |-> daemon.boot])]
  /\ UNCHANGED daemon

DaemonRead ==
  /\ daemon.up /\ wire.ok /\ wire.up # <<>>
  /\ LET msg == Head(wire.up) IN
     IF msg.op = "hello" THEN Hello
     ELSE IF msg.op = "subscribe" THEN Subscribe(msg.key) ELSE Unsubscribe(msg.key)
  /\ UNCHANGED <<socket, host, left>>

Push(frames) == wire' = IF wire.ok THEN [wire EXCEPT !.down = @ \o frames] ELSE wire

SlipPollShows(s) ==
  /\ s \in host.alive /\ daemon.shown[s] # host.version[s]
  /\ daemon' = [daemon EXCEPT !.shown[s] = host.version[s]]
  /\ Push(IF s \in daemon.subs THEN <<Frame("sessions", s)>> ELSE <<>>)

\* A poll of a server, of this tab's subscription or another's: what is new is
\* shown, once,
PollShows(s) ==
  /\ s \in host.alive /\ daemon.shown[s] # host.version[s]
  /\ daemon' = [daemon EXCEPT !.shown[s] = host.version[s]]
  /\ Push(IF s \in daemon.subs
            THEN <<[op |-> "sessions", key |-> s, snapshot |-> host.version[s]]>> ELSE <<>>)

\* and a server without a socket is reaped with its subscriptions and its slots.
PollReaps(s) ==
  /\ s \notin host.alive /\ (s \in daemon.subs \/ daemon.shown[s] # None)
  /\ daemon' = [daemon EXCEPT !.shown[s] = None, !.subs = @ \ {s}]
  /\ Push(IF s \in daemon.subs THEN <<[op |-> "gone", key |-> s]>> ELSE <<>>)

Poll(s) ==
  /\ daemon.up
  /\ PollShows(s) \/ PollReaps(s)
  /\ UNCHANGED <<socket, host, left>>

-----------------------------------------------------------------------------
(* The surroundings *)

Severed == [ok |-> FALSE, up |-> <<>>, down |-> <<>>]

\* A cut loses what is in transit, and nobody is told.
Cut ==
  /\ Spend("cuts") /\ wire.ok
  /\ wire' = Severed
  /\ UNCHANGED <<socket, daemon, host>>

DaemonStops ==
  /\ Spend("restarts") /\ daemon.up
  /\ daemon' = [up |-> FALSE, boot |-> daemon.boot + 1, shown |-> [s \in Server |-> None], subs |-> {}]
  /\ wire' = Severed
  /\ UNCHANGED <<socket, host>>

DaemonStarts ==
  /\ ~daemon.up
  /\ daemon' = [daemon EXCEPT !.up = TRUE]
  /\ UNCHANGED <<socket, wire, host, left>>

Change(s) ==
  /\ Spend("changes") /\ s \in host.alive
  /\ host' = [host EXCEPT !.version[s] = @ + 1]
  /\ UNCHANGED <<socket, wire, daemon>>

Kill(s) ==
  /\ Spend("kills") /\ s \in host.alive
  /\ host' = [host EXCEPT !.alive = @ \ {s}]
  /\ UNCHANGED <<socket, wire, daemon>>

\* A server of the name of one that is gone: other sessions.
Birth(s) ==
  /\ Spend("births") /\ s \notin host.alive
  /\ host' = [alive |-> host.alive \cup {s}, version |-> [host.version EXCEPT ![s] = @ + 1]]
  /\ UNCHANGED <<socket, wire, daemon>>

=============================================================================
