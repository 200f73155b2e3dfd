----------------------------- MODULE TerminalMux ----------------------------
(***************************************************************************)
(* A tab and the daemon over their terminal sockets: RelayMux at one end,  *)
(* TerminalsConn at the other.                                             *)
(***************************************************************************)
EXTENDS RelayMux, TerminalsConn

vars == <<sock, left, muxVars, connVars>>

Init == sock = <<>> /\ left \in Budgets /\ MuxInit /\ ConnInit

Browser ==
  \/ \E p \in Pane : Mount(p) \/ Unmount(p)
  \/ Hide \/ PageHide \/ Freeze \/ Show \/ Wake
  \/ ReconnectFires \/ HeartbeatTick \/ ProbeExpires \/ GraceFires
  \/ \E n \in DOMAIN sock : Receive(n) \/ Inbound(n) \/ SocketOpened(n) \/ ConnectFails(n) \/ SocketClosed(n)

Daemon ==
  \/ \E n \in DOMAIN sock : Accept(n) \/ Read(n) \/ Teardown(n) \/ WriteControl(n)
  \/ \E k \in DOMAIN object :
       \/ AttachAbandons(k) \/ AttachFails(k) \/ AttachForks(k) \/ AttachPublishes(k)
       \/ PumpEnds(k) \/ PumpLeaves(k) \/ WriteOpened(k)

Next ==
  \/ Browser /\ UNCHANGED connVars
  \/ Daemon /\ UNCHANGED muxVars
  \/ \E n \in DOMAIN sock : Cut(n) /\ UNCHANGED <<muxVars, connVars>>

\* What runs without anybody's help: timers, the end of a dialling or closing
\* socket, and the daemon.  Nobody need notice a cut but the heartbeat.
Fairness ==
  /\ WF_vars((ReconnectFires \/ HeartbeatTick \/ ProbeExpires \/ GraceFires) /\ UNCHANGED connVars)
  /\ \A n \in 1..MaxSockets :
       WF_vars(/\ n \in DOMAIN sock
               /\ SocketOpened(n) \/ (sock[n].client = "closing" /\ SocketClosed(n))
               /\ UNCHANGED connVars)

Spec == Init /\ [][Next]_vars /\ Fairness

TypeOK == WireTypeOK /\ MuxTypeOK /\ ConnTypeOK

\* The connection of the socket that the mux uses.
Current == mux.ws

InTransit(n, op, i) == \E j \in DOMAIN sock[n].up : sock[n].up[j] = [op |-> op, id |-> i]

\* A stream the hidden page gave up is not attached: its close is on its way, or
\* has been obeyed, whatever reconnects and attaches were under way.
SuspendedIsReleased ==
  IsOpen(sock, Current) /\ sock[Current].net = "ok" =>
    \A i \in Id : mux.stream[i] = "suspended" /\ ~InTransit(Current, "close", i) =>
      conn[Current].streams[i] = Unregistered

\* An attach client belongs to the stream registered under its id, or to a
\* goroutine that is about to publish it or to reap it.
NoStrayProcess ==
  \A k \in DOMAIN object : object[k].process => Registered(k) \/ object[k].at = "forked"

\* A stream the mux holds live over an open socket is known to the daemon, or one
\* of them is about to hear of it: no terminal is shown that has silently ended.
\* (A suspension whose attach had failed, or whose answer a cut swallowed, still
\* awaits an echo, and takes another end for it, real or the late answer of a later
\* suspension: checked within the run's budgets, and proved where no attach fails
\* and not both cuts and ends of attach clients happen.)
LiveIsServed ==
  IsOpen(sock, Current) /\ sock[Current].net = "ok" /\ conn[Current].state = "up" =>
    \A i \in Id : mux.stream[i] = "live" =>
      \/ conn[Current].streams[i] # Unregistered
      \/ InTransit(Current, "open", i)
      \/ \E j \in DOMAIN sock[Current].down : sock[Current].down[j].id = i
      \/ \E j \in DOMAIN conn[Current].control : conn[Current].control[j].id = i

\* Nothing is attached that the tab does not show: when all messages have arrived,
\* a registered stream is one the mux holds.
NoOrphanAttach ==
  IsOpen(sock, Current) /\ sock[Current].net = "ok" /\ sock[Current].up = <<>> =>
    \A i \in Id : conn[Current].streams[i] # Unregistered => mux.stream[i] # "absent"

\* A tab with a live stream comes back to an open socket that carries something,
\* whatever failed, closed late, was asleep or was cut without a sign: no drop leaves
\* it without a timer that dials again, or that finds the cut.
Redials == Live(mux) # {} ~> ((OnOpen(World) /\ sock[Current].net # "cut") \/ Live(mux) = {})

\* syncHeartbeat: the heartbeat runs while the socket is open with a live stream.
HeartbeatRuns == OnOpen(World) /\ Live(mux) # {} => mux.beat

=============================================================================
