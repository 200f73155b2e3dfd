---------------------------- MODULE TerminalsConn ---------------------------
(***************************************************************************)
(* The daemon's end of a terminal socket (api/terminals_ws.go): a read     *)
(* loop registers and closes streams, a goroutine per stream resolves its  *)
(* window, forks `tmux attach-session` and publishes it, another pumps its *)
(* terminal, and one writer drains the queues of all of them.              *)
(*                                                                         *)
(* A stream object outlives its registration: its goroutines go on when it *)
(* was closed, and act through its id.  Closes go out through a queue of   *)
(* their own, an `opened` through the queue of its stream.                 *)
(***************************************************************************)
EXTENDS TerminalsWire

VARIABLES
  conn,     \* terminalsConn, one for each socket that was accepted
  object    \* the stream objects, in the order of their opens

connVars == <<conn, object>>

Unregistered == 0

Conn == [state : {"none", "up", "down"},
         streams : [Id -> Nat],              \* the registered object of an id
         control : Seq(Frame)]               \* the queue of the control pseudo-stream

\* at: where attachStream stands; process: an attach client runs; queued: the
\* opened frame waits in the queue; pump: pumpPTY runs.
Object == [conn : 1..MaxSockets, id : Id,
           at : {"resolving", "forked", "done"},
           process : BOOLEAN, queued : BOOLEAN, pump : BOOLEAN, torn : BOOLEAN]

ConnTypeOK ==
  /\ conn \in [1..MaxSockets -> Conn]
  /\ object \in Seq(Object)

ConnInit ==
  /\ conn = [n \in 1..MaxSockets |->
               [state |-> "none", streams |-> [i \in Id |-> Unregistered], control |-> <<>>]]
  /\ object = <<>>

Closed(i, code) == [op |-> "closed", id |-> i, code |-> code]

Registered(k) == conn[object[k].conn].streams[object[k].id] = k

\* st.teardown: a published attach client is killed and reaped.  An opened
\* frame still queued is written only by a pass of the writer under way.
TornDown(obj, S, late) ==
  [k \in DOMAIN obj |->
     IF k \in S
       THEN [obj[k] EXCEPT !.torn = TRUE, !.queued = @ /\ late,
                           !.process = @ /\ obj[k].at = "forked"]
       ELSE obj[k]]

\* closeStream: whatever object has the id is closed.
CloseById(n, i, sk) ==
  LET k == conn[n].streams[i] IN
  IF k = Unregistered
    THEN /\ UNCHANGED <<conn, object>>
         /\ sock' = sk
    ELSE /\ conn' = [conn EXCEPT ![n].streams[i] = Unregistered,
                                 ![n].control = Append(@, Closed(i, "normal"))]
         /\ \E late \in BOOLEAN : object' = TornDown(object, {k}, late)
         /\ sock' = sk

-----------------------------------------------------------------------------
(* The read loop *)

Accept(n) ==
  /\ sock[n].net = "ok" /\ conn[n].state = "none"
  /\ conn' = [conn EXCEPT ![n].state = "up"]
  /\ UNCHANGED <<sock, left, object>>

StartStream(n, i, sk) ==
  /\ sock' = sk
  /\ IF conn[n].streams[i] # Unregistered
       THEN UNCHANGED <<conn, object>>
       ELSE /\ conn' = [conn EXCEPT ![n].streams[i] = Len(object) + 1]
            /\ object' = Append(object, [conn |-> n, id |-> i, at |-> "resolving", process |-> FALSE,
                                         queued |-> FALSE, pump |-> FALSE, torn |-> FALSE])

Read(n) ==
  /\ conn[n].state = "up" /\ sock[n].up # <<>>
  /\ LET msg == Head(sock[n].up)
         sk == [sock EXCEPT ![n].up = Tail(@)]
     IN IF msg.op = "open" THEN StartStream(n, msg.id, sk) ELSE CloseById(n, msg.id, sk)
  /\ UNCHANGED left

\* ReadMessage fails: the peer closed the socket, or was silent for too long.
Teardown(n) ==
  /\ conn[n].state = "up"
  /\ sock[n].net = "cut" \/ (sock[n].client \in {"closing", "closed"} /\ sock[n].up = <<>>)
  /\ conn' = [conn EXCEPT ![n].state = "down", ![n].control = <<>>,
                           ![n].streams = [i \in Id |-> Unregistered]]
  /\ object' = TornDown(object, {k \in DOMAIN object : object[k].conn = n /\ Registered(k)}, FALSE)
  /\ sock' = [sock EXCEPT ![n].net = "cut", ![n].up = <<>>, ![n].down = <<>>]
  /\ UNCHANGED left

-----------------------------------------------------------------------------
(* attachStream *)

\* stillLive
StillLive(k) == ~object[k].torn /\ conn[object[k].conn].state = "up"

\* failClosed: unregistered if it still has its id; the close goes out anyhow.
FailClosed(k, code) ==
  LET n == object[k].conn
      i == object[k].id
  IN /\ conn' = [conn EXCEPT ![n].streams[i] = IF @ = k THEN Unregistered ELSE @,
                             ![n].control = IF conn[n].state = "up" THEN Append(@, Closed(i, code)) ELSE @]
     /\ object' = [object EXCEPT ![k].at = "done", ![k].torn = TRUE]

AttachAbandons(k) ==
  /\ object[k].at = "resolving" /\ ~StillLive(k)
  /\ FailClosed(k, "normal")
  /\ UNCHANGED <<sock, left>>

AttachFails(k) ==
  /\ object[k].at = "resolving" /\ Spend("fails")
  /\ \E code \in {"failed", "missing"} : FailClosed(k, code)
  /\ UNCHANGED sock

\* The last look at stillLive lies before the select and the fork.
AttachForks(k) ==
  /\ object[k].at = "resolving" /\ StillLive(k)
  /\ object' = [object EXCEPT ![k].at = "forked", ![k].process = TRUE]
  /\ UNCHANGED <<sock, left, conn>>

SlipAttachPublishes(k) ==
  /\ object[k].at = "forked"
  /\ object' = [object EXCEPT ![k].at = "done", ![k].pump = TRUE, ![k].queued = TRUE]
  /\ UNCHANGED <<sock, left, conn>>

\* Published only if it still has its id; otherwise this goroutine reaps it.
AttachPublishes(k) ==
  /\ object[k].at = "forked"
  /\ object' = [object EXCEPT ![k].at = "done",
                  ![k].process = Registered(k), ![k].pump = Registered(k), ![k].queued = Registered(k)]
  /\ UNCHANGED <<sock, left, conn>>

\* pumpPTY reads an end: its terminal was closed, or its attach client went.
PumpEnds(k) ==
  /\ object[k].pump
  /\ IF object[k].torn THEN UNCHANGED left ELSE Spend("ends")
  /\ LET n == object[k].conn
         j == conn[n].streams[object[k].id]
         ended == [object EXCEPT ![k].pump = FALSE]
     IN IF j = Unregistered
          THEN object' = ended /\ UNCHANGED conn
          ELSE /\ conn' = [conn EXCEPT ![n].streams[object[k].id] = Unregistered,
                                       ![n].control = Append(@, Closed(object[k].id, "normal"))]
               /\ \E late \in BOOLEAN : object' = TornDown(ended, {j}, late)
  /\ UNCHANGED sock

\* pumpPTY was waiting for its queue, and sees that its stream was closed.
PumpLeaves(k) ==
  /\ object[k].pump /\ object[k].torn
  /\ object' = [object EXCEPT ![k].pump = FALSE]
  /\ UNCHANGED <<sock, left, conn>>

-----------------------------------------------------------------------------
(* The writer drains the queues in any order *)

Put(n, f) == sock' = IF sock[n].net = "ok" THEN [sock EXCEPT ![n].down = Append(@, f)] ELSE sock

WriteControl(n) ==
  /\ conn[n].state = "up" /\ conn[n].control # <<>>
  /\ Put(n, Head(conn[n].control))
  /\ conn' = [conn EXCEPT ![n].control = Tail(@)]
  /\ UNCHANGED <<left, object>>

WriteOpened(k) ==
  /\ object[k].queued /\ conn[object[k].conn].state = "up"
  /\ Put(object[k].conn, [op |-> "opened", id |-> object[k].id])
  /\ object' = [object EXCEPT ![k].queued = FALSE]
  /\ UNCHANGED <<left, conn>>

=============================================================================
