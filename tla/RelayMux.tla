------------------------------ MODULE RelayMux ------------------------------
(***************************************************************************)
(* The browser's end of the terminal socket (lib/relay-mux.ts) and the     *)
(* panes that use it (components/terminal-client.tsx): one socket carries  *)
(* the streams of every pane, reconnects and re-opens them after a drop,   *)
(* and gives them up while the page is hidden.                             *)
(*                                                                         *)
(* JavaScript runs one handler at a time: an action is a whole handler,    *)
(* written as an operator from the world (the mux and the sockets) to the  *)
(* next one.  The age of the outstanding ping is counted in heartbeats,    *)
(* and backoff delays are arbitrary.  The window and the size a stream     *)
(* asks for are left out, and RelayMux.close, which nothing calls.         *)
(***************************************************************************)
EXTENDS TerminalsWire

CONSTANT Pane   \* terminals of the tab

VARIABLES
  mux,      \* the fields of RelayMux
  page,     \* document.visibilityState
  pane      \* the connect effect of each terminal

muxVars == <<mux, page, pane>>

NoStream == 0
NoPing == -1

Mux == [ws : Nat, next : Nat,
        stream : [Id -> {"absent", "live", "suspended"}],
        echo : [Id -> BOOLEAN],                \* closeEchoPending
        timer : BOOLEAN,                       \* reconnectTimer
        beat : BOOLEAN,                        \* heartbeatTimer
        ping : {NoPing} \cup 0..2,             \* outstandingPingSince
        probe : BOOLEAN,                       \* wakeProbeTimer
        grace : BOOLEAN]                       \* graceTimer

PaneState == [at : {"unmounted", "shown", "lost"}, cur : {NoStream} \cup Id, probed : BOOLEAN]

MuxTypeOK ==
  /\ mux \in Mux
  /\ page \in {"visible", "hidden"}
  /\ pane \in [Pane -> PaneState]

MuxInit ==
  /\ mux = [ws |-> NoSocket, next |-> 1,
            stream |-> [i \in Id |-> "absent"], echo |-> [i \in Id |-> FALSE],
            timer |-> FALSE, beat |-> FALSE, ping |-> NoPing, probe |-> FALSE, grace |-> FALSE]
  /\ page = "visible"
  /\ pane = [p \in Pane |-> [at |-> "unmounted", cur |-> NoStream, probed |-> FALSE]]

World == [mux |-> mux, sock |-> sock]

Become(w) ==
  /\ Len(w.sock) <= MaxSockets
  /\ mux' = w.mux
  /\ sock' = w.sock

Live(m) == {i \in Id : m.stream[i] = "live"}
OnOpen(w) == IsOpen(w.sock, w.mux.ws)

\* One message for each of the streams in S, in the order in which they were opened.
Each(op, S) == KeepAt([i \in Id |-> [op |-> op, id |-> i]], S)

Send(w, messages) == [w EXCEPT !.sock = Transmit(w.sock, w.mux.ws, messages)]

StopHeartbeat(w) == [w EXCEPT !.mux.beat = FALSE, !.mux.ping = NoPing, !.mux.probe = FALSE]

SyncHeartbeat(w) ==
  LET run == OnOpen(w) /\ Live(w.mux) # {} IN
  IF run /\ ~w.mux.beat THEN [w EXCEPT !.mux.beat = TRUE, !.mux.ping = NoPing]
  ELSE IF ~run /\ w.mux.beat THEN StopHeartbeat(w)
  ELSE w

\* sendPing: the clock starts at the oldest ping without an answer.
SendPing(w, age) == [w EXCEPT !.mux.ping = IF @ = NoPing THEN age ELSE @]

Connect(w) ==
  IF w.mux.ws # NoSocket /\ w.sock[w.mux.ws].client \in {"open", "connecting"}
    THEN w
    ELSE [w EXCEPT !.sock = Append(@, Dialled), !.mux.ws = Len(w.sock) + 1]

ScheduleReconnect(w) ==
  IF w.mux.timer THEN w
  ELSE IF Live(w.mux) = {} THEN [w EXCEPT !.mux.ws = NoSocket]
  ELSE [w EXCEPT !.mux.timer = TRUE]

\* ws.close(), which leaves onclose in place.
ForceClose(w) ==
  IF w.mux.ws # NoSocket /\ w.sock[w.mux.ws].client \in {"open", "connecting"}
    THEN [w EXCEPT !.sock[w.mux.ws].client = "closing"]
    ELSE w

HandleWake(w) ==
  IF Live(w.mux) = {} THEN w
  ELSE IF w.mux.timer THEN Connect([w EXCEPT !.mux.timer = FALSE])
  ELSE IF OnOpen(w) /\ ~w.mux.probe THEN [SendPing(w, 0) EXCEPT !.mux.probe = TRUE]
  ELSE w

\* The close goes out for every live stream; an answer is owed only if it did.
SuspendLiveStreams(w) ==
  LET live == Live(w.mux)
      m == [w.mux EXCEPT
              !.grace = FALSE,
              !.stream = [i \in Id |-> IF i \in live THEN "suspended" ELSE @[i]],
              !.echo = [i \in Id |-> @[i] \/ (i \in live /\ OnOpen(w))]]
  IN SyncHeartbeat(Send([w EXCEPT !.mux = m], Each("close", live)))

SlipResumeSuspended(w) ==
  LET back == {i \in Id : w.mux.stream[i] = "suspended"}
      m == [w.mux EXCEPT !.stream = [i \in Id |-> IF i \in back THEN "live" ELSE @[i]]]
  IN IF back = {} THEN w ELSE SyncHeartbeat(Send([w EXCEPT !.mux = m], Each("open", back)))

ResumeSuspended(w) ==
  LET back == {i \in Id : w.mux.stream[i] = "suspended"}
      m == [w.mux EXCEPT !.stream = [i \in Id |-> IF i \in back THEN "live" ELSE @[i]]]
  IN IF back = {} THEN w
     ELSE SyncHeartbeat(Connect(Send([w EXCEPT !.mux = m], Each("open", back))))

-----------------------------------------------------------------------------
(* Streams and panes *)

OpenStream(w) ==
  LET i == w.mux.next
      w1 == [w EXCEPT !.mux.next = i + 1, !.mux.stream[i] = "live"]
      w2 == SyncHeartbeat(Send(Connect(w1), Each("open", {i})))
  IN IF page = "hidden" THEN [w2 EXCEPT !.mux.grace = TRUE] ELSE w2

CloseStream(w, i) ==
  LET gone == [w EXCEPT !.mux.stream[i] = "absent", !.mux.echo[i] = FALSE] IN
  IF w.mux.stream[i] = "absent" THEN w
  ELSE SyncHeartbeat(IF w.mux.stream[i] = "live" THEN Send(gone, Each("close", {i})) ELSE gone)

\* A terminal mounts, and opens its stream.
Mount(p) ==
  /\ pane[p].at = "unmounted" /\ mux.next <= MaxId /\ Spend("mounts")
  /\ Become(OpenStream(World))
  /\ pane' = [pane EXCEPT ![p] = [at |-> "shown", cur |-> mux.next, probed |-> FALSE]]
  /\ UNCHANGED page

\* It unmounts, or its route shows another window.
Unmount(p) ==
  /\ pane[p].at # "unmounted"
  /\ Become(CloseStream(World, pane[p].cur))
  /\ pane' = [pane EXCEPT ![p] = [at |-> "unmounted", cur |-> NoStream, probed |-> FALSE]]
  /\ UNCHANGED <<page, left>>

-----------------------------------------------------------------------------
(* Frames from the server *)

\* onClosed of the pane that shows the stream: a window that is missing is left,
\* any other end is probed, once, with a fresh stream.
PaneClosed(w, i, code) ==
  LET owners == {p \in Pane : pane[p].at = "shown" /\ pane[p].cur = i}
      reopen == {p \in owners : code # "missing" /\ ~pane[p].probed}
  IN /\ reopen # {} => mux.next <= MaxId
     /\ Become(IF reopen = {} THEN w ELSE OpenStream(w))
     /\ pane' = [p \in Pane |->
                   IF p \in reopen THEN [at |-> "shown", cur |-> mux.next, probed |-> TRUE]
                   ELSE IF p \in owners THEN [pane[p] EXCEPT !.at = "lost"]
                   ELSE pane[p]]

\* The frame taken from socket n, with noteInbound before it.
Took(n) ==
  [mux |-> [mux EXCEPT !.ping = NoPing, !.probe = FALSE],
   sock |-> [sock EXCEPT ![n].down = Tail(@)]]

HandleOpened(w, f) == [w EXCEPT !.mux.echo[f.id] = FALSE]

SlipIsEcho(m, f) == m.stream[f.id] = "suspended" \/ f.code = "normal"

\* A close that answers the suspension is not the end of the stream.
IsEcho(m, f) == m.stream[f.id] = "suspended" \/ (m.echo[f.id] /\ f.code = "normal")

HandleClosed(w, f) ==
  IF f.code = "normal" THEN [w EXCEPT !.mux.echo[f.id] = FALSE] ELSE w

Receive(n) ==
  /\ IsOpen(sock, n) /\ sock[n].down # <<>>
  /\ LET f == Head(sock[n].down)
         w == Took(n)
     IN IF mux.stream[f.id] = "absent" THEN Become(w) /\ UNCHANGED pane
        ELSE IF f.op = "opened" THEN Become(HandleOpened(w, f)) /\ UNCHANGED pane
        ELSE IF IsEcho(mux, f) THEN Become(HandleClosed(w, f)) /\ UNCHANGED pane
        ELSE PaneClosed(SyncHeartbeat([w EXCEPT !.mux.stream[f.id] = "absent"]), f.id, f.code)
  /\ UNCHANGED <<page, left>>

\* Any other frame: a pong, or bytes of a terminal.
Inbound(n) ==
  /\ IsOpen(sock, n) /\ sock[n].net = "ok"
  /\ mux.ping # NoPing \/ mux.probe
  /\ mux' = [mux EXCEPT !.ping = NoPing, !.probe = FALSE]
  /\ UNCHANGED <<sock, left, page, pane>>

-----------------------------------------------------------------------------
(* Events of a socket *)

SlipSocketOpened(n) ==
  /\ sock[n].client = "connecting"
  /\ LET w == [World EXCEPT !.sock[n].client = "open", !.sock[n].net = "ok"] IN
     Become(SyncHeartbeat(Send(w, Each("open", {i \in Id : mux.stream[i] # "absent"}))))
  /\ UNCHANGED <<page, pane, left>>

\* onopen: every live stream is opened again, a suspended one is not.
SocketOpened(n) ==
  /\ sock[n].client = "connecting"
  /\ LET w == [World EXCEPT !.sock[n].client = "open", !.sock[n].net = "ok"] IN
     Become(SyncHeartbeat(Send(w, Each("open", Live(w.mux)))))
  /\ UNCHANGED <<page, pane, left>>

ConnectFails(n) ==
  /\ sock[n].client = "connecting" /\ Spend("cuts")
  /\ Become(ScheduleReconnect(StopHeartbeat([World EXCEPT !.sock[n].client = "closed"])))
  /\ UNCHANGED <<page, pane>>

\* onclose, of whatever socket it is: after a cut that was noticed, or after a
\* close of our own.
SocketClosed(n) ==
  /\ sock[n].client = "closing" \/ (sock[n].client = "open" /\ sock[n].net = "cut")
  /\ Become(ScheduleReconnect(StopHeartbeat([World EXCEPT !.sock[n].client = "closed"])))
  /\ UNCHANGED <<page, pane, left>>

-----------------------------------------------------------------------------
(* Timers *)

ReconnectFires ==
  /\ mux.timer
  /\ Become(Connect([World EXCEPT !.mux.timer = FALSE]))
  /\ UNCHANGED <<page, pane, left>>

\* On a sound connection the ping of a tick is answered before the next one,
\* and changes nothing; a silence of 60 s force-closes.
HeartbeatTick ==
  /\ mux.beat /\ OnOpen(World) /\ Live(mux) # {}
  /\ sock[mux.ws].net = "cut"
  /\ Become(IF mux.ping = 2 THEN ForceClose(World)
            ELSE [World EXCEPT !.mux.ping = IF @ = NoPing THEN 1 ELSE @ + 1])
  /\ UNCHANGED <<page, pane, left>>

\* The answer to a probe may be late on a sound connection, which is its cut.
ProbeExpires ==
  /\ mux.probe
  /\ OnOpen(World) => sock[mux.ws].net = "cut"
  /\ Become(ForceClose([World EXCEPT !.mux.probe = FALSE]))
  /\ UNCHANGED <<page, pane, left>>

GraceFires ==
  /\ mux.grace
  /\ LET w == [World EXCEPT !.mux.grace = FALSE] IN
     Become(IF page = "hidden" THEN SuspendLiveStreams(w) ELSE w)
  /\ UNCHANGED <<page, pane, left>>

-----------------------------------------------------------------------------
(* The page *)

\* visibilitychange to hidden: the grace timer starts.
Hide ==
  /\ page = "visible" /\ Spend("toggles")
  /\ page' = "hidden"
  /\ Become([World EXCEPT !.mux.grace = TRUE])
  /\ UNCHANGED pane

\* pagehide, and the visibilitychange that follows it.
PageHide ==
  /\ page = "visible" /\ Spend("toggles")
  /\ page' = "hidden"
  /\ Become([SuspendLiveStreams(World) EXCEPT !.mux.grace = TRUE])
  /\ UNCHANGED pane

\* A hidden page is frozen: its timers stop, so it releases at once.
Freeze ==
  /\ page = "hidden" /\ Live(mux) # {}
  /\ Become(SuspendLiveStreams(World))
  /\ UNCHANGED <<page, pane, left>>

\* visibilitychange to visible: resumed first, so that the wake sees live streams.
Show ==
  /\ page = "hidden" /\ Spend("toggles")
  /\ page' = "visible"
  /\ Become(HandleWake(ResumeSuspended([World EXCEPT !.mux.grace = FALSE])))
  /\ UNCHANGED pane

\* online, pageshow
Wake ==
  /\ mux.timer \/ (OnOpen(World) /\ ~mux.probe)
  /\ Live(mux) # {} /\ Spend("toggles")
  /\ Become(HandleWake(World))
  /\ UNCHANGED <<page, pane>>

=============================================================================
