-------------------------- MODULE TerminalMuxProofs --------------------------
(***************************************************************************)
(* What a hidden page gave up is released, and no attach client is left    *)
(* behind, for every number of panes, streams and sockets, and however     *)
(* often connections are cut, pages hidden and attaches fail.              *)
(*                                                                         *)
(* A stream that was given up is followed through the messages on their    *)
(* way: each `open` of it among them has a `close` behind it, and while it *)
(* is registered there is a `close` to come.  A socket that was only       *)
(* dialled carries nothing, and its daemon knows no stream: what comes     *)
(* back with it is what onopen sends.                                      *)
(*                                                                         *)
(* And no terminal is shown that has silently ended, where no attach fails *)
(* and not both cuts and ends of attach clients happen.  A live stream is  *)
(* followed through the messages to the daemon (no close of it is the last *)
(* word) and through the closes it has yet to hear of: one more than the   *)
(* echo it awaits would eat, for as long as something may still end it.    *)
(***************************************************************************)
EXTENDS TerminalMux, SeqFilterProofs, SequenceTheorems

Worlds == [mux : Mux, sock : Seq(Socket)]

\* Of the messages on their way, no `open` of the stream is the last word on it;
\* nor is what is registered for it, k.
Releases(up, k, i) ==
  /\ k # Unregistered => \E j \in 1..Len(up) : up[j] = [op |-> "close", id |-> i]
  /\ \A j \in 1..Len(up) : up[j] = [op |-> "open", id |-> i] =>
       \E l \in 1..Len(up) : j < l /\ up[l] = [op |-> "close", id |-> i]

\* The last word of a mux on each stream it gave up is `close`.
GaveUp(w) ==
  IsOpen(w.sock, w.mux.ws) /\ w.sock[w.mux.ws].net = "ok" =>
    \A i \in Id : w.mux.stream[i] = "suspended" =>
      Releases(w.sock[w.mux.ws].up, conn[w.mux.ws].streams[i], i)

\* A socket being dialled carries nothing, and was not accepted.
Dialling(w) ==
  /\ \A n \in 1..Len(w.sock) :
       /\ w.sock[n].client = "connecting" => w.sock[n].net = "dialling"
       /\ w.sock[n].net = "dialling" => w.sock[n].up = <<>>
  /\ \A n \in 1..MaxSockets :
       conn[n].state # "none" => n <= Len(w.sock) /\ w.sock[n].net # "dialling"

Good(w) ==
  /\ w \in Worlds
  /\ w.mux.ws \in 0..Len(w.sock) /\ w.mux.next >= 1
  /\ Dialling(w)
  /\ GaveUp(w)

\* A pane that shows something has a stream.
Shows == \A p \in Pane : pane[p].at # "unmounted" => pane[p].cur \in Id

\* A daemon that was not reached knows no stream; an attach client is forked after
\* the window of its stream is resolved.
Unreached == \A n \in 1..MaxSockets : conn[n].state = "none" => \A i \in Id : conn[n].streams[i] = Unregistered
Resolves == \A k \in DOMAIN object : object[k].at = "resolving" => ~object[k].process

Inv ==
  /\ TypeOK /\ Len(sock) <= MaxSockets
  /\ Good(World)
  /\ Shows /\ Unreached /\ Resolves
  /\ NoStrayProcess

-----------------------------------------------------------------------------
(* Messages on their way *)

\* The bounds are numbers, and the budgets are budgets.
LEMMA BoundFacts == MaxId \in Nat /\ MaxSockets \in Nat /\ Budgets \subseteq Budget
BY WireBounds

\* Each(op, S): one message for every stream of S.
LEMMA EachFacts ==
  ASSUME NEW op \in {"open", "close"}, NEW S \in SUBSET Id
  PROVE  /\ Each(op, S) \in Seq(Message)
         /\ \A j \in 1..Len(Each(op, S)) : Each(op, S)[j].op = op /\ Each(op, S)[j].id \in S
         /\ \A i \in S : \E j \in 1..Len(Each(op, S)) : Each(op, S)[j] = [op |-> op, id |-> i]
<1> DEFINE q == [i \in Id |-> [op |-> op, id |-> i]]
           r == KeepAt(q, S)
<1>1. q \in Seq(Message) /\ DOMAIN q = Id
  <2>1. \A i \in Id : q[i] \in Message
    BY DEF Message
  <2>2. Id = 1..MaxId /\ MaxId \in Nat
    BY BoundFacts DEF Id
  <2>3. q \in [1..MaxId -> Message]
    BY <2>1, <2>2
  <2>4. QED
    BY <2>2, <2>3
<1>2. /\ r \in Seq(Message) /\ Elems(r) = {q[i] : i \in S}
  BY <1>1, KeepAtProperties
<1>3. DOMAIN r = 1..Len(r)
  BY <1>2
<1>4. ASSUME NEW j \in 1..Len(r)
      PROVE  r[j].op = op /\ r[j].id \in S
  <2>1. r[j] \in {q[i] : i \in S}
    BY <1>2, <1>3 DEF Elems
  <2>2. PICK i \in S : r[j] = q[i]
    BY <2>1
  <2>3. q[i] = [op |-> op, id |-> i]
    OBVIOUS
  <2>4. QED
    BY <2>2, <2>3
<1>5. ASSUME NEW i \in S
      PROVE  \E j \in 1..Len(r) : r[j] = [op |-> op, id |-> i]
  <2>1. q[i] \in Elems(r)
    BY <1>2
  <2>2. q[i] = [op |-> op, id |-> i]
    OBVIOUS
  <2>3. QED
    BY <1>3, <2>1, <2>2 DEF Elems
<1>6. Each(op, S) = r
  BY DEF Each
<1>7. QED
  BY <1>2, <1>4, <1>5, <1>6

\* Messages without an `open` of the stream change nothing of it.
LEMMA ReleasesMore ==
  ASSUME NEW up \in Seq(Message), NEW more \in Seq(Message), NEW k, NEW i,
         Releases(up, k, i), \A j \in 1..Len(more) : more[j] # [op |-> "open", id |-> i]
  PROVE  Releases(up \o more, k, i)
<1> DEFINE all == up \o more
<1>1. /\ Len(all) = Len(up) + Len(more) /\ Len(up) \in Nat /\ Len(more) \in Nat
      /\ \A j \in 1..Len(up) : j \in 1..Len(all) /\ all[j] = up[j]
      /\ \A j \in 1..Len(all) : j \notin 1..Len(up) => j - Len(up) \in 1..Len(more) /\ all[j] = more[j - Len(up)]
  OBVIOUS
<1>2. ASSUME NEW j \in 1..Len(all), all[j] = [op |-> "open", id |-> i]
      PROVE  \E l \in 1..Len(all) : j < l /\ all[l] = [op |-> "close", id |-> i]
  <2>1. j \in 1..Len(up) /\ up[j] = [op |-> "open", id |-> i]
    BY <1>1, <1>2
  <2>2. PICK l \in 1..Len(up) : j < l /\ up[l] = [op |-> "close", id |-> i]
    BY <2>1 DEF Releases
  <2>3. QED
    BY <1>1, <2>2
<1>3. ASSUME k # Unregistered
      PROVE  \E j \in 1..Len(all) : all[j] = [op |-> "close", id |-> i]
  <2>1. PICK j \in 1..Len(up) : up[j] = [op |-> "close", id |-> i]
    BY <1>3 DEF Releases
  <2>2. QED
    BY <1>1, <2>1
<1>4. QED
  BY <1>2, <1>3 DEF Releases

\* The closes of a suspension have the last word.
LEMMA ReleasesClosed ==
  ASSUME NEW up \in Seq(Message), NEW k, NEW S \in SUBSET Id, NEW i \in S
  PROVE  Releases(up \o Each("close", S), k, i)
<1> DEFINE more == Each("close", S)
           all == up \o more
<1>1. /\ more \in Seq(Message)
      /\ \A j \in 1..Len(more) : more[j].op = "close"
  BY EachFacts
<1>2. PICK c \in 1..Len(more) : more[c] = [op |-> "close", id |-> i]
  BY EachFacts
<1>3. /\ Len(all) = Len(up) + Len(more) /\ Len(up) \in Nat /\ Len(more) \in Nat
      /\ \A j \in 1..Len(more) : all[Len(up) + j] = more[j]
      /\ \A j \in 1..Len(all) : j \notin 1..Len(up) => j - Len(up) \in 1..Len(more) /\ all[j] = more[j - Len(up)]
  BY <1>1
<1>4. Len(up) + c \in 1..Len(all) /\ all[Len(up) + c] = [op |-> "close", id |-> i]
  BY <1>2, <1>3
<1>5. ASSUME NEW j \in 1..Len(all), all[j] = [op |-> "open", id |-> i]
      PROVE  j < Len(up) + c
  <2>1. j \in 1..Len(up)
    <3>1. SUFFICES ASSUME j \notin 1..Len(up) PROVE FALSE
      OBVIOUS
    <3>2. all[j].op = "close"
      BY <1>1, <1>3, <3>1
    <3>3. all[j].op = "open"
      BY <1>5
    <3>4. QED
      BY <3>2, <3>3
  <2>2. QED
    BY <1>3, <2>1
<1>6. QED
  BY <1>4, <1>5 DEF Releases

\* The daemon reads a message: a close unregisters its stream, an open may register it.
LEMMA ReleasesRead ==
  ASSUME NEW up \in Seq(Message), up # <<>>, NEW k, NEW k2, NEW i, Releases(up, k, i),
         Head(up) = [op |-> "close", id |-> i] => k2 = Unregistered,
         Head(up) # [op |-> "open", id |-> i] => k2 \in {k, Unregistered}
  PROVE  Releases(Tail(up), k2, i)
<1> DEFINE rest == Tail(up)
<1>1. /\ Len(up) \in Nat /\ Len(up) > 0 /\ Len(rest) = Len(up) - 1 /\ Head(up) = up[1]
      /\ \A j \in 1..Len(rest) : rest[j] = up[j + 1]
  OBVIOUS
<1>2. ASSUME NEW l \in 1..Len(up), l > 1
      PROVE  l - 1 \in 1..Len(rest) /\ rest[l - 1] = up[l]
  <2>1. l - 1 \in 1..Len(rest) /\ (l - 1) + 1 = l
    BY <1>1, <1>2
  <2>2. rest[l - 1] = up[(l - 1) + 1]
    BY <1>1, <2>1
  <2>3. QED
    BY <2>1, <2>2
<1>3. ASSUME k2 # Unregistered
      PROVE  \E j \in 1..Len(rest) : rest[j] = [op |-> "close", id |-> i]
  <2>1. CASE Head(up) = [op |-> "open", id |-> i]
    <3>1. 1 \in 1..Len(up) /\ up[1] = [op |-> "open", id |-> i]
      BY <1>1, <2>1
    <3>2. PICK l \in 1..Len(up) : 1 < l /\ up[l] = [op |-> "close", id |-> i]
      BY <3>1 DEF Releases
    <3>3. QED
      BY <1>2, <3>2
  <2>2. CASE Head(up) # [op |-> "open", id |-> i]
    <3>1. k # Unregistered /\ Head(up) # [op |-> "close", id |-> i]
      BY <1>3, <2>2
    <3>2. PICK l \in 1..Len(up) : up[l] = [op |-> "close", id |-> i]
      BY <3>1 DEF Releases
    <3>3. l # 1
      BY <1>1, <3>1, <3>2
    <3>4. QED
      BY <1>2, <3>2, <3>3
  <2>3. QED
    BY <2>1, <2>2
<1>4. ASSUME NEW j \in 1..Len(rest), rest[j] = [op |-> "open", id |-> i]
      PROVE  \E l \in 1..Len(rest) : j < l /\ rest[l] = [op |-> "close", id |-> i]
  <2>1. j + 1 \in 1..Len(up) /\ up[j + 1] = [op |-> "open", id |-> i]
    BY <1>1, <1>4
  <2>2. PICK l \in 1..Len(up) : j + 1 < l /\ up[l] = [op |-> "close", id |-> i]
    BY <2>1 DEF Releases
  <2>3. l > 1 /\ j < l - 1
    BY <1>1, <2>2
  <2>4. QED
    BY <1>2, <2>2, <2>3
<1>5. QED
  BY <1>3, <1>4 DEF Releases

\* Nothing said and nothing registered: released.
LEMMA ReleasesNothing ==
  ASSUME NEW i
  PROVE  Releases(<<>>, Unregistered, i)
BY DEF Releases

-----------------------------------------------------------------------------
(* Worlds, and what the operators of the mux make of them *)

Suspends(w) == {i \in Id : w.mux.stream[i] = "suspended"}

\* The mux gives up nothing more, and the sockets are closed or cut at most.
LEMMA Eases ==
  ASSUME NEW w, Good(w), NEW v \in Worlds,
         v.mux.ws \in {w.mux.ws, NoSocket}, v.mux.next >= 1, Suspends(v) \subseteq Suspends(w),
         Len(v.sock) = Len(w.sock),
         \A n \in 1..Len(w.sock) :
           /\ v.sock[n].client \in {w.sock[n].client, "closing", "closed"}
           /\ \/ v.sock[n].net = w.sock[n].net /\ v.sock[n].up = w.sock[n].up
              \/ v.sock[n].net = "cut" /\ w.sock[n].net # "dialling"
  PROVE  Good(v)
<1> USE DEF Good
<1>1. Len(w.sock) \in Nat /\ v.mux.ws \in 0..Len(v.sock)
  BY DEF Worlds, NoSocket
<1>2. Dialling(v)
  BY <1>1 DEF Dialling
<1>3. ASSUME IsOpen(v.sock, v.mux.ws), v.sock[v.mux.ws].net = "ok",
             NEW i \in Id, v.mux.stream[i] = "suspended"
      PROVE  Releases(v.sock[v.mux.ws].up, conn[v.mux.ws].streams[i], i)
  <2>1. /\ v.mux.ws = w.mux.ws /\ v.mux.ws \in 1..Len(w.sock)
        /\ v.sock[v.mux.ws].client = "open" /\ i \in Suspends(w)
    BY <1>1, <1>3 DEF IsOpen, NoSocket, Suspends
  <2>2. /\ IsOpen(w.sock, w.mux.ws) /\ w.sock[w.mux.ws].net = "ok"
        /\ v.sock[v.mux.ws].up = w.sock[w.mux.ws].up
    BY <1>3, <2>1 DEF IsOpen
  <2>3. QED
    BY <2>1, <2>2 DEF GaveUp, Suspends
<1>4. QED
  BY <1>1, <1>2, <1>3 DEF GaveUp

\* The mux alone changes.
LEMMA EasesMux ==
  ASSUME NEW w, Good(w), NEW v, NEW m \in Mux, v = [w EXCEPT !.mux = m],
         m.ws \in {w.mux.ws, NoSocket}, m.next >= 1,
         \A i \in Id : m.stream[i] = "suspended" => w.mux.stream[i] = "suspended"
  PROVE  Good(v)
<1>1. w \in Worlds /\ v = [mux |-> m, sock |-> w.sock]
  BY DEF Good, Worlds
<1>2. v \in Worlds /\ v.mux = m /\ v.sock = w.sock
  BY <1>1 DEF Worlds
<1>3. Suspends(v) \subseteq Suspends(w)
  BY <1>2 DEF Suspends
<1>4. QED
  BY <1>2, <1>3, Eases

\* Sending appends to the socket that is used, and only while it can be reached.
LEMMA TransmitFacts ==
  ASSUME NEW sk \in Seq(Socket), NEW n \in 0..Len(sk), NEW messages \in Seq(Message)
  PROVE  LET t == Transmit(sk, n, messages) IN
         /\ t \in Seq(Socket) /\ Len(t) = Len(sk)
         /\ \A l \in 1..Len(sk) :
              /\ t[l].client = sk[l].client /\ t[l].net = sk[l].net
              /\ t[l].up = IF l = n /\ IsOpen(sk, n) /\ sk[n].net = "ok"
                             THEN sk[l].up \o messages ELSE sk[l].up
<1> DEFINE t == Transmit(sk, n, messages)
<1>1. CASE IsOpen(sk, n) /\ sk[n].net = "ok"
  <2>1. n \in 1..Len(sk) /\ n \in DOMAIN sk /\ sk[n] \in Socket
    BY <1>1 DEF IsOpen, NoSocket
  <2>2. t = [sk EXCEPT ![n] = [sk[n] EXCEPT !.up = sk[n].up \o messages]]
    BY <1>1 DEF Transmit
  <2>3. sk[n].up \o messages \in Seq(Message)
    BY <2>1 DEF Socket
  <2>4. [sk[n] EXCEPT !.up = sk[n].up \o messages] \in Socket
    BY <2>1, <2>3 DEF Socket
  <2>5. /\ t \in Seq(Socket) /\ Len(t) = Len(sk)
        /\ t[n] = [sk[n] EXCEPT !.up = sk[n].up \o messages]
        /\ \A l \in 1..Len(sk) : l # n => t[l] = sk[l]
    BY <2>1, <2>2, <2>4
  <2>6. /\ t[n].client = sk[n].client /\ t[n].net = sk[n].net /\ t[n].up = sk[n].up \o messages
    BY <2>1, <2>5 DEF Socket
  <2>7. QED
    BY <1>1, <2>5, <2>6
<1>2. CASE ~(IsOpen(sk, n) /\ sk[n].net = "ok")
  BY <1>2 DEF Transmit
<1>3. QED
  BY <1>1, <1>2

\* Messages that open no stream that was given up may be sent.
LEMMA SendGood ==
  ASSUME NEW w, Good(w), NEW messages \in Seq(Message),
         \A i \in Suspends(w) : \A j \in 1..Len(messages) : messages[j] # [op |-> "open", id |-> i]
  PROVE  Good(Send(w, messages)) /\ Send(w, messages).mux = w.mux
<1> DEFINE t == Transmit(w.sock, w.mux.ws, messages)
           v == Send(w, messages)
<1>1. w \in Worlds /\ w.sock \in Seq(Socket) /\ w.mux.ws \in 0..Len(w.sock) /\ Len(w.sock) \in Nat
  BY DEF Good, Worlds
<1>2. /\ t \in Seq(Socket) /\ Len(t) = Len(w.sock)
      /\ \A l \in 1..Len(w.sock) :
           /\ t[l].client = w.sock[l].client /\ t[l].net = w.sock[l].net
           /\ t[l].up = IF l = w.mux.ws /\ IsOpen(w.sock, w.mux.ws) /\ w.sock[w.mux.ws].net = "ok"
                          THEN w.sock[l].up \o messages ELSE w.sock[l].up
  BY <1>1, TransmitFacts
<1>3. v \in Worlds /\ v.mux = w.mux /\ v.sock = t
  BY <1>1, <1>2 DEF Send, Worlds
<1>4. Dialling(v)
  BY <1>2, <1>3 DEF Dialling, Good
<1>5. ASSUME IsOpen(v.sock, v.mux.ws), v.sock[v.mux.ws].net = "ok",
             NEW i \in Id, v.mux.stream[i] = "suspended"
      PROVE  Releases(v.sock[v.mux.ws].up, conn[v.mux.ws].streams[i], i)
  <2>1. w.mux.ws \in 1..Len(w.sock) /\ IsOpen(w.sock, w.mux.ws) /\ w.sock[w.mux.ws].net = "ok"
    BY <1>1, <1>2, <1>3, <1>5 DEF IsOpen, NoSocket
  <2>2. v.sock[v.mux.ws].up = w.sock[w.mux.ws].up \o messages /\ w.sock[w.mux.ws].up \in Seq(Message)
    <3>1. w.sock[w.mux.ws] \in Socket
      BY <1>1, <2>1
    <3>2. t[w.mux.ws].up = w.sock[w.mux.ws].up \o messages
      BY <1>2, <2>1
    <3>3. QED
      BY <1>3, <3>1, <3>2 DEF Socket
  <2>3. i \in Suspends(w) /\ Releases(w.sock[w.mux.ws].up, conn[w.mux.ws].streams[i], i)
    BY <1>3, <1>5, <2>1 DEF Suspends, Good, GaveUp
  <2>4. QED
    BY <1>3, <2>2, <2>3, ReleasesMore
<1>6. QED
  BY <1>1, <1>2, <1>3, <1>4, <1>5 DEF Good, GaveUp

\* The timers and pings of the mux are no part of what is known of streams.
LEMMA StopHeartbeatGood ==
  ASSUME NEW w, Good(w)
  PROVE  LET v == StopHeartbeat(w) IN
         Good(v) /\ v.sock = w.sock /\ v.mux.stream = w.mux.stream /\ v.mux.ws = w.mux.ws /\ v.mux.next = w.mux.next
<1> DEFINE m == [w.mux EXCEPT !.beat = FALSE, !.ping = NoPing, !.probe = FALSE]
           v == StopHeartbeat(w)
<1>1. w \in Worlds /\ w.mux \in Mux /\ w.mux.next >= 1
  BY DEF Good, Worlds
<1>2. m \in Mux /\ m.ws = w.mux.ws /\ m.next = w.mux.next /\ m.stream = w.mux.stream
  BY <1>1 DEF Mux
<1>3. v = [w EXCEPT !.mux = m] /\ v.mux = m /\ v.sock = w.sock
  BY <1>1 DEF StopHeartbeat, Worlds
<1> HIDE DEF m, v
<1>4. Good(v)
  BY <1>1, <1>2, <1>3, EasesMux
<1>5. QED
  BY <1>2, <1>3, <1>4 DEF v

\* The heartbeat is started or stopped.
LEMMA SyncHeartbeatGood ==
  ASSUME NEW w, Good(w)
  PROVE  LET v == SyncHeartbeat(w) IN
         Good(v) /\ v.sock = w.sock /\ v.mux.stream = w.mux.stream /\ v.mux.ws = w.mux.ws /\ v.mux.next = w.mux.next
<1> DEFINE run == OnOpen(w) /\ Live(w.mux) # {}
           v == SyncHeartbeat(w)
<1>1. CASE run /\ ~w.mux.beat
  <2> DEFINE m == [w.mux EXCEPT !.beat = TRUE, !.ping = NoPing]
  <2>1. w \in Worlds /\ w.mux \in Mux /\ w.mux.next >= 1
    BY DEF Good, Worlds
  <2>2. m \in Mux /\ m.ws = w.mux.ws /\ m.next = w.mux.next /\ m.stream = w.mux.stream
    BY <2>1 DEF Mux
  <2>3. v = [w EXCEPT !.mux = m] /\ v.mux = m /\ v.sock = w.sock
    BY <1>1, <2>1 DEF SyncHeartbeat, Worlds
  <2> HIDE DEF m, v
  <2>4. Good(v)
    BY <2>1, <2>2, <2>3, EasesMux
  <2>5. QED
    BY <2>2, <2>3, <2>4 DEF v
<1>2. CASE ~run /\ w.mux.beat
  BY <1>2, StopHeartbeatGood DEF SyncHeartbeat
<1>3. CASE ~(run /\ ~w.mux.beat) /\ ~(~run /\ w.mux.beat)
  BY <1>3 DEF SyncHeartbeat
<1>4. QED
  BY <1>1, <1>2, <1>3

\* A new socket carries nothing, and the daemon has not heard of it.
LEMMA ConnectGood ==
  ASSUME NEW w, Good(w)
  PROVE  LET v == Connect(w) IN
         Good(v) /\ v.mux.stream = w.mux.stream /\ v.mux.next = w.mux.next
<1> DEFINE v == Connect(w)
           fresh == Len(w.sock) + 1
<1>0. CASE w.mux.ws # NoSocket /\ w.sock[w.mux.ws].client \in {"open", "connecting"}
  BY <1>0 DEF Connect
<1>1. CASE ~(w.mux.ws # NoSocket /\ w.sock[w.mux.ws].client \in {"open", "connecting"})
  <2>1. w \in Worlds /\ w.mux \in Mux /\ w.mux.next >= 1 /\ w.sock \in Seq(Socket) /\ Len(w.sock) \in Nat
    BY DEF Good, Worlds
  <2>2. Dialled \in Socket
    BY DEF Dialled, Socket
  <2>3. v = [w EXCEPT !.sock = Append(w.sock, Dialled), !.mux = [w.mux EXCEPT !.ws = fresh]]
    BY <1>1 DEF Connect
  <2>4. v.sock = Append(w.sock, Dialled) /\ v.mux = [w.mux EXCEPT !.ws = fresh]
    BY <2>1, <2>3 DEF Worlds
  <2>5. v.mux \in Mux /\ v.mux.ws = fresh /\ v.mux.next = w.mux.next /\ v.mux.stream = w.mux.stream
    BY <2>1, <2>4 DEF Mux
  <2>6. /\ v.sock \in Seq(Socket) /\ Len(v.sock) = fresh /\ v.sock[fresh] = Dialled
        /\ \A n \in 1..Len(w.sock) : v.sock[n] = w.sock[n]
    BY <2>1, <2>2, <2>4
  <2>7. v \in Worlds
    BY <2>1, <2>3, <2>4, <2>5, <2>6 DEF Worlds
  <2>8. Dialling(v)
    <3>1. /\ \A n \in 1..Len(v.sock) : n = fresh \/ n \in 1..Len(w.sock)
          /\ Dialled.client = "connecting" /\ Dialled.net = "dialling" /\ Dialled.up = <<>>
      BY <2>1, <2>6 DEF Dialled
    <3>2. \A n \in 1..Len(v.sock) :
            /\ v.sock[n].client = "connecting" => v.sock[n].net = "dialling"
            /\ v.sock[n].net = "dialling" => v.sock[n].up = <<>>
      BY <2>6, <3>1 DEF Dialling, Good
    <3>3. ASSUME NEW n \in 1..MaxSockets, conn[n].state # "none"
          PROVE  n <= Len(v.sock) /\ v.sock[n].net # "dialling"
      <4>1. n <= Len(w.sock) /\ w.sock[n].net # "dialling"
        BY <3>3 DEF Dialling, Good
      <4>2. n \in 1..Len(w.sock) /\ n <= Len(v.sock)
        BY <2>1, <2>6, <4>1
      <4>3. QED
        BY <2>6, <4>1, <4>2
    <3>4. QED
      BY <3>2, <3>3 DEF Dialling
  <2>9. GaveUp(v)
    BY <2>5, <2>6 DEF GaveUp, IsOpen, Dialled
  <2>10. QED
    BY <2>1, <2>5, <2>6, <2>7, <2>8, <2>9 DEF Good
<1>2. QED
  BY <1>0, <1>1

\* A reconnect is scheduled, or not.
LEMMA ScheduleReconnectGood ==
  ASSUME NEW w, Good(w)
  PROVE  Good(ScheduleReconnect(w))
<1> DEFINE v == ScheduleReconnect(w)
           idle == [w.mux EXCEPT !.ws = NoSocket]
           waits == [w.mux EXCEPT !.timer = TRUE]
<1>1. w \in Worlds /\ w.mux \in Mux /\ w.mux.next >= 1
  BY DEF Good, Worlds
<1>2. /\ idle \in Mux /\ idle.ws = NoSocket /\ idle.next = w.mux.next /\ idle.stream = w.mux.stream
      /\ waits \in Mux /\ waits.ws = w.mux.ws /\ waits.next = w.mux.next /\ waits.stream = w.mux.stream
  BY <1>1 DEF Mux, NoSocket
<1>3. v = w \/ v = [w EXCEPT !.mux = idle] \/ v = [w EXCEPT !.mux = waits]
  BY DEF ScheduleReconnect
<1>4. Good([w EXCEPT !.mux = idle]) /\ Good([w EXCEPT !.mux = waits])
  BY <1>1, <1>2, EasesMux
<1>5. QED
  BY <1>3, <1>4

\* The client end of a socket is closed or closing.
LEMMA ClosingGood ==
  ASSUME NEW w, Good(w), NEW n \in 1..Len(w.sock), NEW how \in {"closing", "closed"}
  PROVE  LET v == [w EXCEPT !.sock[n].client = how] IN
         Good(v) /\ v.mux = w.mux
<1> DEFINE s == [w.sock[n] EXCEPT !.client = how]
           v == [w EXCEPT !.sock[n].client = how]
<1>1. w \in Worlds /\ w.mux \in Mux /\ w.mux.next >= 1 /\ w.sock \in Seq(Socket) /\ w.sock[n] \in Socket
  BY DEF Good, Worlds
<1>2. s \in Socket /\ s.client = how /\ s.net = w.sock[n].net /\ s.up = w.sock[n].up
  BY <1>1 DEF Socket
<1>3. v = [w EXCEPT !.sock = [w.sock EXCEPT ![n] = s]]
  OBVIOUS
<1>4. v.sock = [w.sock EXCEPT ![n] = s] /\ v.mux = w.mux
  BY <1>1, <1>3 DEF Worlds
<1>5. /\ v.sock \in Seq(Socket) /\ Len(v.sock) = Len(w.sock) /\ v.sock[n] = s
      /\ \A l \in 1..Len(w.sock) : l # n => v.sock[l] = w.sock[l]
  BY <1>1, <1>2, <1>4
<1>6. v \in Worlds
  BY <1>1, <1>3, <1>4, <1>5 DEF Worlds
<1>7. Suspends(v) \subseteq Suspends(w)
  BY <1>4 DEF Suspends
<1> HIDE DEF s, v
<1>8. \A l \in 1..Len(w.sock) :
        /\ v.sock[l].client \in {w.sock[l].client, "closing", "closed"}
        /\ v.sock[l].net = w.sock[l].net /\ v.sock[l].up = w.sock[l].up
  BY <1>2, <1>5
<1>9. Good(v)
  BY <1>1, <1>4, <1>5, <1>6, <1>7, <1>8, Eases
<1>10. QED
  BY <1>4, <1>9 DEF v

\* A socket is closed from this side: it is not used again.
LEMMA ForceCloseGood ==
  ASSUME NEW w, Good(w)
  PROVE  Good(ForceClose(w))
<1>1. CASE w.mux.ws # NoSocket /\ w.sock[w.mux.ws].client \in {"open", "connecting"}
  <2>1. w.mux.ws \in 1..Len(w.sock)
    BY <1>1 DEF Good, NoSocket, Worlds
  <2>2. QED
    BY <1>1, <2>1, ClosingGood DEF ForceClose
<1>2. CASE ~(w.mux.ws # NoSocket /\ w.sock[w.mux.ws].client \in {"open", "connecting"})
  BY <1>2 DEF ForceClose
<1>3. QED
  BY <1>1, <1>2

\* A waking page probes its socket or dials.
LEMMA HandleWakeGood ==
  ASSUME NEW w, Good(w)
  PROVE  Good(HandleWake(w))
<1> DEFINE v == HandleWake(w)
           dials == [w.mux EXCEPT !.timer = FALSE]
           probes == [[w.mux EXCEPT !.ping = IF @ = NoPing THEN 0 ELSE @] EXCEPT !.probe = TRUE]
<1>1. w \in Worlds /\ w.mux \in Mux /\ w.mux.next >= 1
  BY DEF Good, Worlds
<1>0. (IF w.mux.ping = NoPing THEN 0 ELSE w.mux.ping) \in {NoPing} \cup 0..2
  BY <1>1 DEF Mux
<1>2. /\ dials \in Mux /\ dials.ws = w.mux.ws /\ dials.next = w.mux.next /\ dials.stream = w.mux.stream
      /\ probes \in Mux /\ probes.ws = w.mux.ws /\ probes.next = w.mux.next /\ probes.stream = w.mux.stream
  BY <1>0, <1>1 DEF Mux
<1>3. Good([w EXCEPT !.mux = dials]) /\ Good([w EXCEPT !.mux = probes])
  BY <1>1, <1>2, EasesMux
<1>4. [SendPing(w, 0) EXCEPT !.mux.probe = TRUE] = [w EXCEPT !.mux = probes]
  BY <1>1 DEF SendPing, Worlds
<1>5. [w EXCEPT !.mux.timer = FALSE] = [w EXCEPT !.mux = dials]
  OBVIOUS
<1>6. v = w \/ v = Connect([w EXCEPT !.mux = dials]) \/ v = [w EXCEPT !.mux = probes]
  BY <1>4, <1>5 DEF HandleWake
<1>7. QED
  BY <1>3, <1>6, ConnectGood

\* Every live stream is given up, and its close is the last word on it.
LEMMA SuspendGood ==
  ASSUME NEW w, Good(w)
  PROVE  Good(SuspendLiveStreams(w))
<1> DEFINE live == Live(w.mux)
           m == [w.mux EXCEPT
                   !.grace = FALSE,
                   !.stream = [i \in Id |-> IF i \in live THEN "suspended" ELSE @[i]],
                   !.echo = [i \in Id |-> @[i] \/ (i \in live /\ OnOpen(w))]]
           u == [w EXCEPT !.mux = m]
           closes == Each("close", live)
           t == Transmit(w.sock, w.mux.ws, closes)
           v == Send(u, closes)
<1>1. /\ w \in Worlds /\ w.mux \in Mux /\ w.mux.next >= 1 /\ w.sock \in Seq(Socket)
      /\ w.mux.ws \in 0..Len(w.sock) /\ Len(w.sock) \in Nat
  BY DEF Good, Worlds
<1>2. live \in SUBSET Id /\ closes \in Seq(Message)
      /\ \A j \in 1..Len(closes) : closes[j].op = "close"
  <2>1. live \in SUBSET Id
    BY DEF Live
  <2>2. QED
    BY <2>1, EachFacts
<1>3. /\ m \in Mux /\ m.ws = w.mux.ws /\ m.next = w.mux.next
      /\ \A i \in Id : m.stream[i] = IF i \in live THEN "suspended" ELSE w.mux.stream[i]
  <2>1. [i \in Id |-> IF i \in live THEN "suspended" ELSE w.mux.stream[i]] \in [Id -> {"absent", "live", "suspended"}]
    BY <1>1 DEF Mux
  <2>2. [i \in Id |-> w.mux.echo[i] \/ (i \in live /\ OnOpen(w))] \in [Id -> BOOLEAN]
    OBVIOUS
  <2>3. QED
    BY <1>1, <2>1, <2>2 DEF Mux
<1>4. u \in Worlds /\ u.mux = m /\ u.sock = w.sock
  BY <1>1, <1>3 DEF Worlds
<1> HIDE DEF m, u
<1>5. /\ t \in Seq(Socket) /\ Len(t) = Len(w.sock)
      /\ \A l \in 1..Len(w.sock) :
           /\ t[l].client = w.sock[l].client /\ t[l].net = w.sock[l].net
           /\ t[l].up = IF l = w.mux.ws /\ IsOpen(w.sock, w.mux.ws) /\ w.sock[w.mux.ws].net = "ok"
                          THEN w.sock[l].up \o closes ELSE w.sock[l].up
  BY <1>1, <1>2, TransmitFacts
<1>6. v \in Worlds /\ v.mux = m /\ v.sock = t
  BY <1>3, <1>4, <1>5 DEF Send, Worlds
<1>7. Dialling(v)
  BY <1>5, <1>6 DEF Dialling, Good
<1>8. ASSUME IsOpen(v.sock, v.mux.ws), v.sock[v.mux.ws].net = "ok",
             NEW i \in Id, v.mux.stream[i] = "suspended"
      PROVE  Releases(v.sock[v.mux.ws].up, conn[v.mux.ws].streams[i], i)
  <2>1. v.mux.ws = w.mux.ws /\ w.mux.ws \in 1..Len(w.sock) /\ IsOpen(w.sock, w.mux.ws) /\ w.sock[w.mux.ws].net = "ok"
    BY <1>1, <1>3, <1>5, <1>6, <1>8 DEF IsOpen, NoSocket
  <2>2. v.sock[v.mux.ws].up = w.sock[w.mux.ws].up \o closes /\ w.sock[w.mux.ws].up \in Seq(Message)
    <3>1. w.sock[w.mux.ws] \in Socket
      BY <1>1, <2>1
    <3>2. t[w.mux.ws].up = w.sock[w.mux.ws].up \o closes
      BY <1>5, <2>1
    <3>3. QED
      BY <1>6, <2>1, <3>1, <3>2 DEF Socket
  <2>3. CASE i \in live
    BY <1>2, <2>2, <2>3, ReleasesClosed
  <2>4. CASE i \notin live
    <3>1. w.mux.stream[i] = "suspended"
      BY <1>3, <1>6, <1>8, <2>4
    <3>2. Releases(w.sock[w.mux.ws].up, conn[w.mux.ws].streams[i], i)
      BY <2>1, <3>1 DEF Good, GaveUp
    <3>3. \A j \in 1..Len(closes) : closes[j] # [op |-> "open", id |-> i]
      BY <1>2
    <3>4. QED
      BY <1>2, <2>1, <2>2, <3>2, <3>3, ReleasesMore
  <2>5. QED
    BY <2>3, <2>4
<1>9. Good(v)
  BY <1>1, <1>3, <1>5, <1>6, <1>7, <1>8 DEF Good, GaveUp
<1>10. SuspendLiveStreams(w) = SyncHeartbeat(v)
  BY DEF SuspendLiveStreams, u, m
<1>11. QED
  BY <1>9, <1>10, SyncHeartbeatGood

\* Nothing is given up any more.
LEMMA ResumeGood ==
  ASSUME NEW w, Good(w)
  PROVE  Good(ResumeSuspended(w))
<1> DEFINE back == {i \in Id : w.mux.stream[i] = "suspended"}
           m == [w.mux EXCEPT !.stream = [i \in Id |-> IF i \in back THEN "live" ELSE @[i]]]
           u == [w EXCEPT !.mux = m]
           opens == Each("open", back)
<1>1. w \in Worlds /\ w.mux \in Mux /\ w.mux.next >= 1
  BY DEF Good, Worlds
<1>2. m \in Mux /\ m.ws = w.mux.ws /\ m.next = w.mux.next /\ \A i \in Id : m.stream[i] # "suspended"
  <2>1. [i \in Id |-> IF i \in back THEN "live" ELSE w.mux.stream[i]] \in [Id -> {"absent", "live", "suspended"}]
    BY <1>1 DEF Mux
  <2>2. QED
    BY <1>1, <2>1 DEF Mux
<1>3. u.mux = m
  BY <1>1 DEF Worlds
<1>4. opens \in Seq(Message)
  BY EachFacts
<1>5. ResumeSuspended(w) = IF back = {} THEN w ELSE SyncHeartbeat(Connect(Send(u, opens)))
  BY DEF ResumeSuspended
<1> HIDE DEF m
<1>6. Good(u)
  BY <1>1, <1>2, EasesMux
<1>7. Suspends(u) = {}
  BY <1>2, <1>3 DEF Suspends
<1> HIDE DEF u, opens, back
<1>8. Good(Send(u, opens))
  BY <1>4, <1>6, <1>7, SendGood
<1>9. Good(SyncHeartbeat(Connect(Send(u, opens))))
  BY <1>8, ConnectGood, SyncHeartbeatGood
<1>10. QED
  BY <1>5, <1>9

\* A stream of a fresh id is opened, and the mux dials if it has to.
LEMMA OpenStreamGood ==
  ASSUME NEW w, Good(w), w.mux.next <= MaxId
  PROVE  Good(OpenStream(w)) /\ w.mux.next \in Id
<1> DEFINE i == w.mux.next
           m == [w.mux EXCEPT !.next = i + 1, !.stream[i] = "live"]
           w1 == [w EXCEPT !.mux.next = i + 1, !.mux.stream[i] = "live"]
           opens == Each("open", {i})
           w2 == SyncHeartbeat(Send(Connect(w1), opens))
<1>1. w \in Worlds /\ w.mux \in Mux /\ i \in Nat /\ i >= 1 /\ i \in Id
  BY BoundFacts DEF Good, Worlds, Mux, Id
<1>2. m \in Mux /\ m.ws = w.mux.ws /\ m.next = i + 1
      /\ m.stream[i] = "live" /\ \A k \in Id : k # i => m.stream[k] = w.mux.stream[k]
  <2>1. [w.mux.stream EXCEPT ![i] = "live"] \in [Id -> {"absent", "live", "suspended"}]
    BY <1>1 DEF Mux
  <2>2. w.mux.stream \in [Id -> {"absent", "live", "suspended"}] /\ i + 1 \in Nat
    BY <1>1 DEF Mux
  <2>3. QED
    BY <1>1, <2>1, <2>2 DEF Mux
<1>3. w1 = [w EXCEPT !.mux = m]
  BY <1>1 DEF Worlds, Mux
<1>4. w1.mux = m
  BY <1>1, <1>3 DEF Worlds
<1>5. opens \in Seq(Message) /\ \A j \in 1..Len(opens) : opens[j].id = i
  <2>1. {i} \in SUBSET Id
    BY <1>1
  <2>2. QED
    BY <2>1, EachFacts
<1>6. OpenStream(w) = IF page = "hidden" THEN [w2 EXCEPT !.mux.grace = TRUE] ELSE w2
  BY DEF OpenStream
<1> HIDE DEF m, w1
<1>7. Good(w1)
  BY <1>1, <1>2, <1>3, EasesMux
<1>8. i \notin Suspends(w1)
  BY <1>2, <1>4 DEF Suspends
<1> HIDE DEF opens
<1>9. Good(Connect(w1)) /\ Suspends(Connect(w1)) = Suspends(w1)
  BY <1>7, ConnectGood DEF Suspends
<1>10. \A k \in Suspends(Connect(w1)) : \A j \in 1..Len(opens) : opens[j] # [op |-> "open", id |-> k]
  <2>1. SUFFICES ASSUME NEW k \in Suspends(Connect(w1)), NEW j \in 1..Len(opens), opens[j] = [op |-> "open", id |-> k]
                 PROVE FALSE
    OBVIOUS
  <2>2. opens[j].id = k
    BY <2>1
  <2>3. QED
    BY <1>5, <1>8, <1>9, <2>2
<1>11. Good(w2)
  BY <1>5, <1>9, <1>10, SendGood, SyncHeartbeatGood
<1> HIDE DEF w2
<1>12. Good([w2 EXCEPT !.mux.grace = TRUE])
  <2> DEFINE m2 == [w2.mux EXCEPT !.grace = TRUE]
  <2>1. w2.mux \in Mux /\ w2.mux.next >= 1
    BY <1>11 DEF Good, Worlds
  <2>2. m2 \in Mux /\ m2.ws = w2.mux.ws /\ m2.next = w2.mux.next /\ m2.stream = w2.mux.stream
    BY <2>1 DEF Mux
  <2>3. [w2 EXCEPT !.mux.grace = TRUE] = [w2 EXCEPT !.mux = m2]
    OBVIOUS
  <2> HIDE DEF m2
  <2>4. QED
    BY <1>11, <2>1, <2>2, <2>3, EasesMux
<1>13. QED
  BY <1>1, <1>6, <1>11, <1>12

\* A stream is forgotten, and its close is sent.
LEMMA CloseStreamGood ==
  ASSUME NEW w, Good(w), NEW i \in Id
  PROVE  Good(CloseStream(w, i))
<1> DEFINE m == [w.mux EXCEPT !.stream[i] = "absent", !.echo[i] = FALSE]
           gone == [w EXCEPT !.mux = m]
           closes == Each("close", {i})
<1>1. w \in Worlds /\ w.mux \in Mux /\ w.mux.next >= 1
  BY DEF Good, Worlds
<1>2. /\ m \in Mux /\ m.ws = w.mux.ws /\ m.next = w.mux.next
      /\ \A k \in Id : m.stream[k] = "suspended" => w.mux.stream[k] = "suspended"
  BY <1>1 DEF Mux
<1>3. [w EXCEPT !.mux.stream[i] = "absent", !.mux.echo[i] = FALSE] = gone
  BY <1>1 DEF Worlds, Mux
<1>4. closes \in Seq(Message) /\ \A j \in 1..Len(closes) : closes[j].op = "close"
  <2>1. {i} \in SUBSET Id
    OBVIOUS
  <2>2. QED
    BY <2>1, EachFacts
<1>5. ASSUME NEW k, NEW j \in 1..Len(closes)
      PROVE  closes[j] # [op |-> "open", id |-> k]
  <2>1. SUFFICES ASSUME closes[j] = [op |-> "open", id |-> k] PROVE FALSE
    OBVIOUS
  <2>2. closes[j].op = "open"
    BY <2>1
  <2>3. QED
    BY <1>4, <2>2
<1>6. \/ CloseStream(w, i) = w
      \/ CloseStream(w, i) = SyncHeartbeat(Send(gone, closes))
      \/ CloseStream(w, i) = SyncHeartbeat(gone)
  BY <1>3 DEF CloseStream
<1> HIDE DEF m
<1>7. Good(gone)
  BY <1>1, <1>2, EasesMux
<1> HIDE DEF gone, closes
<1>8. Good(SyncHeartbeat(gone)) /\ Good(SyncHeartbeat(Send(gone, closes)))
  BY <1>4, <1>5, <1>7, SendGood, SyncHeartbeatGood
<1>9. QED
  BY <1>6, <1>8

\* A timer is set or cleared.
LEMMA FlagsGood ==
  ASSUME NEW w, Good(w), NEW b \in BOOLEAN
  PROVE  /\ Good([w EXCEPT !.mux.grace = b])
         /\ Good([w EXCEPT !.mux.timer = b])
         /\ Good([w EXCEPT !.mux.probe = b])
<1> DEFINE m1 == [w.mux EXCEPT !.grace = b]
           m2 == [w.mux EXCEPT !.timer = b]
           m3 == [w.mux EXCEPT !.probe = b]
<1>1. w \in Worlds /\ w.mux \in Mux /\ w.mux.next >= 1
  BY DEF Good, Worlds
<1>2. \A m \in {m1, m2, m3} : m \in Mux /\ m.ws = w.mux.ws /\ m.next = w.mux.next /\ m.stream = w.mux.stream
  BY <1>1 DEF Mux
<1>3. /\ [w EXCEPT !.mux.grace = b] = [w EXCEPT !.mux = m1]
      /\ [w EXCEPT !.mux.timer = b] = [w EXCEPT !.mux = m2]
      /\ [w EXCEPT !.mux.probe = b] = [w EXCEPT !.mux = m3]
  OBVIOUS
<1> HIDE DEF m1, m2, m3
<1>4. /\ Good([w EXCEPT !.mux = m1])
      /\ Good([w EXCEPT !.mux = m2])
      /\ Good([w EXCEPT !.mux = m3])
  BY <1>1, <1>2, EasesMux
<1>5. QED
  BY <1>3, <1>4

\* A ping grows older, or there is none.
LEMMA PingGood ==
  ASSUME NEW w, Good(w), NEW age \in {NoPing} \cup 0..2
  PROVE  Good([w EXCEPT !.mux.ping = age])
<1> DEFINE m == [w.mux EXCEPT !.ping = age]
<1>1. w \in Worlds /\ w.mux \in Mux /\ w.mux.next >= 1
  BY DEF Good, Worlds
<1>2. m \in Mux /\ m.ws = w.mux.ws /\ m.next = w.mux.next /\ m.stream = w.mux.stream
  BY <1>1 DEF Mux
<1>3. [w EXCEPT !.mux.ping = age] = [w EXCEPT !.mux = m]
  OBVIOUS
<1> HIDE DEF m
<1>4. QED
  BY <1>1, <1>2, <1>3, EasesMux

\* A stream ends.
LEMMA EndsGood ==
  ASSUME NEW w, Good(w), NEW i \in Id
  PROVE  Good([w EXCEPT !.mux.stream[i] = "absent"]) /\ Good([w EXCEPT !.mux.echo[i] = FALSE])
<1> DEFINE m1 == [w.mux EXCEPT !.stream[i] = "absent"]
           m2 == [w.mux EXCEPT !.echo[i] = FALSE]
<1>1. w \in Worlds /\ w.mux \in Mux /\ w.mux.next >= 1
  BY DEF Good, Worlds
<1>2. /\ [w.mux.stream EXCEPT ![i] = "absent"] \in [Id -> {"absent", "live", "suspended"}]
      /\ [w.mux.echo EXCEPT ![i] = FALSE] \in [Id -> BOOLEAN]
      /\ w.mux.stream \in [Id -> {"absent", "live", "suspended"}]
  BY <1>1 DEF Mux
<1>3. \A m \in {m1, m2} : /\ m \in Mux /\ m.ws = w.mux.ws /\ m.next = w.mux.next
                          /\ \A k \in Id : m.stream[k] = "suspended" => w.mux.stream[k] = "suspended"
  BY <1>1, <1>2 DEF Mux
<1>4. /\ [w EXCEPT !.mux.stream[i] = "absent"] = [w EXCEPT !.mux = m1]
      /\ [w EXCEPT !.mux.echo[i] = FALSE] = [w EXCEPT !.mux = m2]
  OBVIOUS
<1> HIDE DEF m1, m2
<1>5. Good([w EXCEPT !.mux = m1]) /\ Good([w EXCEPT !.mux = m2])
  BY <1>1, <1>3, EasesMux
<1>6. QED
  BY <1>4, <1>5

-----------------------------------------------------------------------------
(* The initial state, and a step of the browser *)

\* At the start there is no socket and no stream.
LEMMA InitInv == Init => Inv
<1> SUFFICES ASSUME Init PROVE Inv
  OBVIOUS
<1> USE DEF Init, MuxInit, ConnInit
<1>0. MaxId \in Nat /\ MaxSockets \in Nat /\ Budgets \subseteq Budget /\ Len(sock) = 0
  BY BoundFacts
<1>1. WireTypeOK
  BY <1>0 DEF WireTypeOK
<1>2. mux \in Mux
  BY DEF Mux, NoSocket, NoPing
<1>3. MuxTypeOK
  BY <1>2 DEF MuxTypeOK, PaneState, NoStream
<1>4. \A n \in 1..MaxSockets :
        conn[n] = [state |-> "none", streams |-> [i \in Id |-> Unregistered], control |-> <<>>]
  OBVIOUS
<1>5. ConnTypeOK
  BY DEF ConnTypeOK, Conn, Unregistered
<1>6. Good(World)
  <2>1. World \in Worlds /\ World.mux = mux /\ World.sock = sock
    BY <1>2 DEF World, Worlds
  <2>2. Dialling(World)
    BY <1>0, <1>4, <2>1 DEF Dialling
  <2>3. GaveUp(World)
    BY <2>1 DEF GaveUp, IsOpen
  <2>4. QED
    BY <1>0, <2>1, <2>2, <2>3 DEF Good, NoSocket
<1>7. Shows /\ Unreached /\ Resolves /\ NoStrayProcess
  BY DEF Shows, Unreached, Resolves, NoStrayProcess
<1>8. QED
  BY <1>0, <1>1, <1>3, <1>5, <1>6, <1>7 DEF Inv, TypeOK

\* What the invariant says of the mux and the sockets, in the form it is used.
LEMMA WorldFacts ==
  ASSUME Inv
  PROVE  /\ Good(World) /\ World.mux = mux /\ World.sock = sock
         /\ sock \in Seq(Socket) /\ Len(sock) \in Nat /\ DOMAIN sock = 1..Len(sock)
         /\ \A n \in DOMAIN sock : sock[n] \in Socket
         /\ mux \in Mux /\ pane \in [Pane -> PaneState] /\ left \in Budget
BY DEF Inv, World, TypeOK, WireTypeOK, MuxTypeOK

\* A budget is spent by one.
LEMMA SpendFacts ==
  ASSUME left \in Budget, NEW what \in {"cuts", "toggles", "fails", "ends", "mounts"}, Spend(what)
  PROVE  left' \in Budget
BY DEF Spend, Budget

\* A step of the browser that makes a good world keeps the invariant.
LEMMA BrowserInv ==
  ASSUME Inv, NEW v, Good(v), Become(v), UNCHANGED connVars,
         left' \in Budget, page' \in {"visible", "hidden"}, pane' \in [Pane -> PaneState], Shows'
  PROVE  Inv'
<1>1. conn' = conn /\ object' = object
  BY DEF connVars
<1>2. v \in Worlds /\ mux' = v.mux /\ sock' = v.sock /\ Len(sock') <= MaxSockets
  BY DEF Become, Good
<1>3. World' = v
  BY <1>2 DEF World, Worlds
<1>4. mux' \in Mux /\ sock' \in Seq(Socket)
  BY <1>2 DEF Worlds
<1>5. TypeOK'
  BY <1>1, <1>4 DEF Inv, TypeOK, WireTypeOK, MuxTypeOK, ConnTypeOK
<1>6. Good(World)'
  BY <1>1, <1>3 DEF Good, Dialling, GaveUp
<1>7. Unreached' /\ Resolves' /\ NoStrayProcess'
  BY <1>1 DEF Inv, Unreached, Resolves, NoStrayProcess, Registered
<1>8. QED
  BY <1>2, <1>5, <1>6, <1>7 DEF Inv

\* A step that leaves the page and the panes alone.
LEMMA QuietInv ==
  ASSUME Inv, NEW v, Good(v), Become(v), UNCHANGED connVars, UNCHANGED <<page, pane>>, left' \in Budget
  PROVE  Inv'
<1>1. page' \in {"visible", "hidden"} /\ pane' \in [Pane -> PaneState]
  BY DEF Inv, TypeOK, MuxTypeOK
<1>2. Shows'
  BY DEF Inv, Shows
<1>3. QED
  BY <1>1, <1>2, BrowserInv

\* The same, where the panes are left alone.
LEMMA PageInv ==
  ASSUME Inv, NEW v, Good(v), Become(v), UNCHANGED connVars, UNCHANGED pane, left' \in Budget,
         page' \in {"visible", "hidden"}
  PROVE  Inv'
<1>1. pane' \in [Pane -> PaneState]
  BY DEF Inv, TypeOK, MuxTypeOK
<1>2. Shows'
  BY DEF Inv, Shows
<1>3. QED
  BY <1>1, <1>2, BrowserInv

\* A pane is mounted: TerminalClient opens its stream.
LEMMA MountInv ==
  ASSUME Inv, NEW p \in Pane, Mount(p), UNCHANGED connVars
  PROVE  Inv'
<1> DEFINE v == OpenStream(World)
           shown == [at |-> "shown", cur |-> mux.next, probed |-> FALSE]
<1>1. Good(World) /\ World.mux = mux /\ pane \in [Pane -> PaneState] /\ left \in Budget
  BY WorldFacts
<1>2. mux.next <= MaxId /\ Become(v) /\ pane' = [pane EXCEPT ![p] = shown] /\ page' = page /\ Spend("mounts")
  BY DEF Mount
<1>3. Good(v) /\ mux.next \in Id
  BY <1>1, <1>2, OpenStreamGood
<1>4. shown \in PaneState
  BY <1>3 DEF PaneState
<1>5. pane' \in [Pane -> PaneState] /\ \A q \in Pane : pane'[q] = IF q = p THEN shown ELSE pane[q]
  BY <1>1, <1>2, <1>4
<1>6. Shows'
  BY <1>3, <1>5 DEF Inv, Shows
<1>7. page' \in {"visible", "hidden"} /\ left' \in Budget
  BY <1>1, <1>2, SpendFacts DEF Inv, TypeOK, MuxTypeOK
<1> HIDE DEF v
<1>8. QED
  BY <1>2, <1>3, <1>5, <1>6, <1>7, BrowserInv

\* A pane is unmounted: its stream is closed.
LEMMA UnmountInv ==
  ASSUME Inv, NEW p \in Pane, Unmount(p), UNCHANGED connVars
  PROVE  Inv'
<1> DEFINE v == CloseStream(World, pane[p].cur)
           off == [at |-> "unmounted", cur |-> NoStream, probed |-> FALSE]
<1>1. Good(World) /\ pane \in [Pane -> PaneState] /\ left \in Budget
  BY WorldFacts
<1>2. /\ pane[p].at # "unmounted" /\ Become(v) /\ pane' = [pane EXCEPT ![p] = off]
      /\ page' = page /\ left' = left
  BY DEF Unmount
<1>3. pane[p].cur \in Id
  BY <1>2 DEF Inv, Shows
<1>4. Good(v)
  BY <1>1, <1>3, CloseStreamGood
<1>5. off \in PaneState /\ off.at = "unmounted"
  BY DEF PaneState
<1>6. pane' \in [Pane -> PaneState] /\ \A q \in Pane : pane'[q] = IF q = p THEN off ELSE pane[q]
  BY <1>1, <1>2, <1>5
<1>7. Shows'
  BY <1>5, <1>6 DEF Inv, Shows
<1>8. page' \in {"visible", "hidden"} /\ left' \in Budget
  BY <1>1, <1>2 DEF Inv, TypeOK, MuxTypeOK
<1> HIDE DEF v
<1>9. QED
  BY <1>2, <1>4, <1>6, <1>7, <1>8, BrowserInv

\* The page is hidden, frozen, shown or woken.
LEMMA VisibilityInv ==
  ASSUME Inv, Hide \/ PageHide \/ Freeze \/ Show \/ Wake, UNCHANGED connVars
  PROVE  Inv'
<1>1. Good(World) /\ left \in Budget
  BY WorldFacts
<1>2. CASE Hide
  <2> DEFINE v == [World EXCEPT !.mux.grace = TRUE]
  <2>1. Become(v) /\ page' = "hidden" /\ pane' = pane /\ Spend("toggles")
    BY <1>2 DEF Hide
  <2>2. Good(v) /\ left' \in Budget
    BY <1>1, <2>1, FlagsGood, SpendFacts
  <2> HIDE DEF v
  <2>3. QED
    BY <2>1, <2>2, PageInv
<1>3. CASE PageHide
  <2> DEFINE u == SuspendLiveStreams(World)
             v == [u EXCEPT !.mux.grace = TRUE]
  <2>1. Become(v) /\ page' = "hidden" /\ pane' = pane /\ Spend("toggles")
    BY <1>3 DEF PageHide
  <2>2. Good(u)
    BY <1>1, SuspendGood
  <2> HIDE DEF u
  <2>3. Good(v) /\ left' \in Budget
    BY <1>1, <2>1, <2>2, FlagsGood, SpendFacts
  <2> HIDE DEF v
  <2>4. QED
    BY <2>1, <2>3, PageInv
<1>4. CASE Freeze
  <2> DEFINE v == SuspendLiveStreams(World)
  <2>1. Become(v) /\ page' = page /\ pane' = pane /\ left' = left
    BY <1>4 DEF Freeze
  <2>2. Good(v)
    BY <1>1, SuspendGood
  <2> HIDE DEF v
  <2>3. QED
    BY <1>1, <2>1, <2>2, QuietInv
<1>5. CASE Show
  <2> DEFINE t == [World EXCEPT !.mux.grace = FALSE]
             u == ResumeSuspended(t)
             v == HandleWake(u)
  <2>1. Become(v) /\ page' = "visible" /\ pane' = pane /\ Spend("toggles")
    BY <1>5 DEF Show
  <2>2. Good(t) /\ left' \in Budget
    BY <1>1, <2>1, FlagsGood, SpendFacts
  <2> HIDE DEF t
  <2>3. Good(u)
    BY <2>2, ResumeGood
  <2> HIDE DEF u
  <2>4. Good(v)
    BY <2>3, HandleWakeGood
  <2> HIDE DEF v
  <2>5. QED
    BY <2>1, <2>2, <2>4, PageInv
<1>6. CASE Wake
  <2> DEFINE v == HandleWake(World)
  <2>1. Become(v) /\ page' = page /\ pane' = pane /\ Spend("toggles")
    BY <1>6 DEF Wake
  <2>2. Good(v) /\ left' \in Budget
    BY <1>1, <2>1, HandleWakeGood, SpendFacts
  <2> HIDE DEF v
  <2>3. QED
    BY <2>1, <2>2, QuietInv
<1>7. QED
  BY <1>2, <1>3, <1>4, <1>5, <1>6

\* A timer of the mux fires.
LEMMA TimersInv ==
  ASSUME Inv, ReconnectFires \/ HeartbeatTick \/ ProbeExpires \/ GraceFires, UNCHANGED connVars
  PROVE  Inv'
<1>1. Good(World) /\ left \in Budget /\ World.mux = mux /\ mux \in Mux
  BY WorldFacts
<1>2. CASE ReconnectFires
  <2> DEFINE u == [World EXCEPT !.mux.timer = FALSE]
             v == Connect(u)
  <2>1. Become(v) /\ page' = page /\ pane' = pane /\ left' = left
    BY <1>2 DEF ReconnectFires
  <2>2. Good(u)
    BY <1>1, FlagsGood
  <2> HIDE DEF u
  <2>3. Good(v)
    BY <2>2, ConnectGood
  <2> HIDE DEF v
  <2>4. QED
    BY <1>1, <2>1, <2>3, QuietInv
<1>3. CASE HeartbeatTick
  <2> DEFINE age == IF mux.ping = NoPing THEN 1 ELSE mux.ping + 1
             u == [World EXCEPT !.mux.ping = age]
             v == IF mux.ping = 2 THEN ForceClose(World) ELSE u
  <2>1. [World EXCEPT !.mux.ping = IF @ = NoPing THEN 1 ELSE @ + 1] = u
    BY <1>1
  <2>2. Become(v) /\ page' = page /\ pane' = pane /\ left' = left
    BY <1>3, <2>1 DEF HeartbeatTick
  <2>3. mux.ping # 2 => age \in {NoPing} \cup 0..2
    BY <1>1 DEF Mux, NoPing
  <2> HIDE DEF age
  <2>4. Good(v)
    BY <1>1, <2>3, ForceCloseGood, PingGood
  <2> HIDE DEF v
  <2>5. QED
    BY <1>1, <2>2, <2>4, QuietInv
<1>4. CASE ProbeExpires
  <2> DEFINE u == [World EXCEPT !.mux.probe = FALSE]
             v == ForceClose(u)
  <2>1. Become(v) /\ page' = page /\ pane' = pane /\ left' = left
    BY <1>4 DEF ProbeExpires
  <2>2. Good(u)
    BY <1>1, FlagsGood
  <2> HIDE DEF u
  <2>3. Good(v)
    BY <2>2, ForceCloseGood
  <2> HIDE DEF v
  <2>4. QED
    BY <1>1, <2>1, <2>3, QuietInv
<1>5. CASE GraceFires
  <2> DEFINE u == [World EXCEPT !.mux.grace = FALSE]
             v == IF page = "hidden" THEN SuspendLiveStreams(u) ELSE u
  <2>1. Become(v) /\ page' = page /\ pane' = pane /\ left' = left
    BY <1>5 DEF GraceFires
  <2>2. Good(u)
    BY <1>1, FlagsGood
  <2> HIDE DEF u
  <2>3. Good(v)
    BY <2>2, SuspendGood
  <2> HIDE DEF v
  <2>4. QED
    BY <1>1, <2>1, <2>3, QuietInv
<1>6. QED
  BY <1>2, <1>3, <1>4, <1>5

-----------------------------------------------------------------------------
(* Frames, and the events of a socket *)

\* A frame is taken from the socket: the streams are as they were.
LEMMA TookGood ==
  ASSUME Inv, NEW n \in DOMAIN sock, sock[n].down # <<>>
  PROVE  Good(Took(n)) /\ Took(n).mux.stream = mux.stream /\ Took(n).mux.next = mux.next
<1> DEFINE m == [mux EXCEPT !.ping = NoPing, !.probe = FALSE]
           s == [sock[n] EXCEPT !.down = Tail(@)]
           v == Took(n)
<1>1. /\ Good(World) /\ World.mux = mux /\ World.sock = sock /\ mux \in Mux
      /\ sock \in Seq(Socket) /\ Len(sock) \in Nat /\ n \in 1..Len(sock) /\ sock[n] \in Socket
  BY WorldFacts
<1>2. m \in Mux /\ m.ws = mux.ws /\ m.next = mux.next /\ m.stream = mux.stream
  BY <1>1 DEF Mux
<1>3. s \in Socket /\ s.client = sock[n].client /\ s.net = sock[n].net /\ s.up = sock[n].up
  <2>1. sock[n].down \in Seq(Frame) /\ Tail(sock[n].down) \in Seq(Frame)
    BY <1>1 DEF Socket
  <2>2. QED
    BY <1>1, <2>1 DEF Socket
<1>4. v = [mux |-> m, sock |-> [sock EXCEPT ![n] = s]]
  BY DEF Took
<1> HIDE DEF m, s
<1>5. /\ v.mux = m /\ v.sock \in Seq(Socket) /\ Len(v.sock) = Len(sock)
      /\ v.sock[n] = s /\ \A l \in 1..Len(sock) : l # n => v.sock[l] = sock[l]
  BY <1>1, <1>3, <1>4
<1>6. v \in Worlds
  BY <1>2, <1>4, <1>5 DEF Worlds
<1> HIDE DEF v
<1>7. Suspends(v) \subseteq Suspends(World)
  BY <1>1, <1>2, <1>5 DEF Suspends
<1>8. v.mux.next >= 1
  BY <1>1, <1>2, <1>5 DEF Good
<1>9. \A l \in 1..Len(World.sock) :
        /\ v.sock[l].client = World.sock[l].client
        /\ v.sock[l].net = World.sock[l].net /\ v.sock[l].up = World.sock[l].up
  BY <1>1, <1>3, <1>5
<1>10. Good(v)
  BY <1>1, <1>2, <1>5, <1>6, <1>7, <1>8, <1>9, Eases
<1>11. QED
  BY <1>2, <1>5, <1>10 DEF v

\* A pane hears that its stream ended.
LEMMA PaneClosedInv ==
  ASSUME Inv, UNCHANGED connVars, UNCHANGED <<page, left>>,
         NEW w, Good(w), w.mux.next = mux.next, NEW i, NEW code, PaneClosed(w, i, code)
  PROVE  Inv'
<1> DEFINE owners == {p \in Pane : pane[p].at = "shown" /\ pane[p].cur = i}
           reopen == {p \in owners : code # "missing" /\ ~pane[p].probed}
           v == IF reopen = {} THEN w ELSE OpenStream(w)
           again == [at |-> "shown", cur |-> mux.next, probed |-> TRUE]
<1>1. /\ reopen # {} => mux.next <= MaxId
      /\ Become(v)
      /\ pane' = [p \in Pane |->
                    IF p \in reopen THEN again
                    ELSE IF p \in owners THEN [pane[p] EXCEPT !.at = "lost"]
                    ELSE pane[p]]
  BY DEF PaneClosed
<1>2. Good(v) /\ (reopen # {} => mux.next \in Id)
  BY <1>1, OpenStreamGood
<1>3. pane \in [Pane -> PaneState] /\ left \in Budget
  BY WorldFacts
<1>4. ASSUME NEW p \in Pane
      PROVE  pane'[p] \in PaneState /\ (pane'[p].at # "unmounted" => pane'[p].cur \in Id)
  <2>1. pane[p] \in PaneState /\ (pane[p].at # "unmounted" => pane[p].cur \in Id)
    BY <1>3 DEF Inv, Shows
  <2>2. CASE p \in reopen
    <3>1. mux.next \in Id
      BY <1>2, <2>2
    <3>2. pane'[p] = again
      BY <1>1, <2>2
    <3>3. QED
      BY <3>1, <3>2 DEF PaneState
  <2>3. CASE p \notin reopen /\ p \in owners
    <3>1. pane'[p] = [pane[p] EXCEPT !.at = "lost"]
      BY <1>1, <2>3
    <3>2. pane[p].at = "shown"
      BY <2>3
    <3>3. QED
      BY <2>1, <3>1, <3>2 DEF PaneState
  <2>4. CASE p \notin owners
    <3>1. pane'[p] = pane[p]
      BY <1>1, <2>4
    <3>2. QED
      BY <2>1, <3>1
  <2>5. QED
    BY <2>2, <2>3, <2>4
<1>5. pane' \in [Pane -> PaneState] /\ Shows'
  <2>1. pane' \in [Pane -> PaneState]
    BY <1>1, <1>4
  <2>2. QED
    BY <1>4, <2>1 DEF Shows
<1>6. page' \in {"visible", "hidden"} /\ left' \in Budget
  BY <1>3 DEF Inv, TypeOK, MuxTypeOK
<1> HIDE DEF v
<1>7. QED
  BY <1>1, <1>2, <1>5, <1>6, BrowserInv

\* A frame arrives: opened, or closed and its echo.
LEMMA ReceiveInv ==
  ASSUME Inv, NEW n \in DOMAIN sock, Receive(n), UNCHANGED connVars
  PROVE  Inv'
<1> DEFINE f == Head(sock[n].down)
           w == Took(n)
           u == [w EXCEPT !.mux.stream[f.id] = "absent"]
<1>1. sock[n].down # <<>> /\ UNCHANGED <<page, left>>
  BY DEF Receive
<1>2. left \in Budget /\ left' \in Budget /\ sock[n] \in Socket
  BY <1>1, WorldFacts
<1>3. f.id \in Id
  <2>1. sock[n].down \in Seq(Frame)
    BY <1>2 DEF Socket
  <2>2. f \in Frame
    BY <1>1, <2>1
  <2>3. QED
    BY <2>2 DEF Frame
<1>4. Good(w) /\ w.mux.next = mux.next
  BY <1>1, TookGood
<1>5. \/ Become(w) /\ UNCHANGED pane
      \/ Become(HandleOpened(w, f)) /\ UNCHANGED pane
      \/ Become(HandleClosed(w, f)) /\ UNCHANGED pane
      \/ PaneClosed(SyncHeartbeat(u), f.id, f.code)
  BY DEF Receive
<1>6. Good(HandleOpened(w, f)) /\ Good(HandleClosed(w, f))
  <2>1. Good([w EXCEPT !.mux.echo[f.id] = FALSE])
    BY <1>3, <1>4, EndsGood
  <2>2. QED
    BY <1>4, <2>1 DEF HandleOpened, HandleClosed
<1>7. Good(u) /\ u.mux.next = mux.next
  <2>1. Good(u)
    BY <1>3, <1>4, EndsGood
  <2>2. w \in Worlds
    BY <1>4 DEF Good
  <2>3. QED
    BY <1>4, <2>1, <2>2 DEF Worlds, Mux
<1> HIDE DEF u, w, f
<1>8. Good(SyncHeartbeat(u)) /\ SyncHeartbeat(u).mux.next = mux.next
  BY <1>7, SyncHeartbeatGood
<1>9. CASE PaneClosed(SyncHeartbeat(u), f.id, f.code)
  BY <1>1, <1>8, <1>9, PaneClosedInv
<1>10. QED
  BY <1>1, <1>2, <1>4, <1>5, <1>6, <1>9, QuietInv

\* Whatever arrives answers the pending ping.
LEMMA InboundInv ==
  ASSUME Inv, NEW n \in DOMAIN sock, Inbound(n), UNCHANGED connVars
  PROVE  Inv'
<1> DEFINE u == [World EXCEPT !.mux.ping = NoPing]
           v == [u EXCEPT !.mux.probe = FALSE]
<1>1. /\ Good(World) /\ World.mux = mux /\ World.sock = sock /\ mux \in Mux
      /\ left \in Budget /\ Len(sock) <= MaxSockets
  BY WorldFacts DEF Inv
<1>2. Good(u)
  BY <1>1, PingGood
<1>3. v.mux = [mux EXCEPT !.ping = NoPing, !.probe = FALSE] /\ v.sock = sock
  BY <1>1 DEF World, Mux
<1> HIDE DEF u
<1>4. Good(v)
  BY <1>2, FlagsGood
<1>5. UNCHANGED <<page, pane, left>> /\ Become(v)
  BY <1>1, <1>3 DEF Inbound, Become
<1> HIDE DEF v
<1>6. QED
  BY <1>1, <1>4, <1>5, QuietInv

\* The world in which a dialled socket has opened.
Opened(n) == [World EXCEPT !.sock[n].client = "open", !.sock[n].net = "ok"]

\* It is a good one: what the daemon will read first is what onopen sends.
LEMMA OpenedGood ==
  ASSUME Inv, NEW n \in DOMAIN sock, sock[n].client = "connecting"
  PROVE  LET w == Opened(n) IN
         /\ Good(w) /\ w.mux = mux /\ Len(w.sock) = Len(sock)
         /\ w.sock[n].client = "open" /\ w.sock[n].net = "ok" /\ w.sock[n].up = <<>>
         /\ w.sock[n].down = sock[n].down
         /\ \A l \in 1..Len(sock) : l # n => w.sock[l] = sock[l]
         /\ n \in 1..Len(sock) /\ n \in 1..MaxSockets /\ conn[n].state = "none"
<1> DEFINE s == [sock[n] EXCEPT !.client = "open", !.net = "ok"]
           w == Opened(n)
<1>1. /\ Good(World) /\ World.mux = mux /\ World.sock = sock /\ mux \in Mux
      /\ sock \in Seq(Socket) /\ Len(sock) \in Nat /\ n \in 1..Len(sock) /\ sock[n] \in Socket
  BY WorldFacts
<1>2. /\ s \in Socket /\ s.client = "open" /\ s.net = "ok" /\ s.up = <<>> /\ s.down = sock[n].down
      /\ sock[n].net = "dialling"
  <2>1. sock[n].net = "dialling" /\ sock[n].up = <<>>
    BY <1>1 DEF Good, Dialling
  <2>2. QED
    BY <1>1, <2>1 DEF Socket
<1>3. w = [mux |-> mux, sock |-> [sock EXCEPT ![n] = s]]
  <2> DEFINE r == [sock EXCEPT ![n].client = "open"]
  <2>1. w = [mux |-> mux, sock |-> [r EXCEPT ![n].net = "ok"]]
    <3> DEFINE u == [World EXCEPT !.sock[n].client = "open"]
    <3>1. u = [mux |-> mux, sock |-> r]
      BY DEF World
    <3>2. w = [u EXCEPT !.sock[n].net = "ok"]
      BY DEF World, Opened
    <3> HIDE DEF u, r, w
    <3>3. QED
      BY <3>1, <3>2
  <2>2. DOMAIN r = 1..Len(sock) /\ r[n] = [sock[n] EXCEPT !.client = "open"]
    BY <1>1
  <2>3. [r[n] EXCEPT !.net = "ok"] = s
    BY <1>1, <2>2 DEF Socket
  <2>4. [r EXCEPT ![n].net = "ok"] = [sock EXCEPT ![n] = s]
    BY <1>1, <2>2, <2>3
  <2>5. QED
    BY <2>1, <2>4
<1> HIDE DEF s, w
<1>4. /\ w.mux = mux /\ w.sock \in Seq(Socket) /\ Len(w.sock) = Len(sock)
      /\ w.sock[n] = s /\ \A l \in 1..Len(sock) : l # n => w.sock[l] = sock[l]
  BY <1>1, <1>2, <1>3
<1>5. w \in Worlds
  BY <1>1, <1>3, <1>4 DEF Worlds
<1>7. conn[n].state = "none" /\ n \in 1..MaxSockets
  <2>1. Len(sock) <= MaxSockets /\ MaxSockets \in Nat
    BY BoundFacts DEF Inv
  <2>2. QED
    BY <1>1, <1>2, <2>1 DEF Good, Dialling
<1>8. Dialling(w)
  BY <1>1, <1>2, <1>4, <1>7 DEF Good, Dialling
<1>9. GaveUp(w)
  <2>1. SUFFICES ASSUME IsOpen(w.sock, mux.ws), w.sock[mux.ws].net = "ok",
                        NEW i \in Id, mux.stream[i] = "suspended"
                 PROVE  Releases(w.sock[mux.ws].up, conn[mux.ws].streams[i], i)
    BY <1>4 DEF GaveUp
  <2>2. CASE mux.ws = n
    <3>1. conn[n].streams[i] = Unregistered
      BY <1>7 DEF Inv, Unreached
    <3>2. QED
      BY <1>2, <1>4, <2>2, <3>1, ReleasesNothing
  <2>3. CASE mux.ws # n
    <3>1. mux.ws \in 1..Len(sock)
      BY <1>1, <2>1 DEF Good, IsOpen, NoSocket
    <3>2. w.sock[mux.ws] = sock[mux.ws]
      BY <1>4, <2>3, <3>1
    <3>3. IsOpen(sock, mux.ws) /\ sock[mux.ws].net = "ok"
      BY <2>1, <3>2 DEF IsOpen
    <3>4. QED
      BY <1>1, <2>1, <3>2, <3>3 DEF Good, GaveUp
  <2>4. QED
    BY <2>2, <2>3
<1>10. Good(w)
  BY <1>1, <1>4, <1>5, <1>8, <1>9 DEF Good
<1>11. QED
  BY <1>1, <1>2, <1>4, <1>7, <1>10 DEF w

\* onopen of the current socket: a stream that was given up is not opened again.
LEMMA SocketOpenedInv ==
  ASSUME Inv, NEW n \in DOMAIN sock, SocketOpened(n), UNCHANGED connVars
  PROVE  Inv'
<1> DEFINE w == Opened(n)
           opens == Each("open", Live(mux))
           v == SyncHeartbeat(Send(w, opens))
<1>1. sock[n].client = "connecting"
  BY DEF SocketOpened
<1>2. Good(w) /\ w.mux = mux
  BY <1>1, OpenedGood
<1>3. Become(v) /\ UNCHANGED <<page, pane, left>>
  BY <1>2 DEF SocketOpened, Opened
<1> HIDE DEF w
<1>4. opens \in Seq(Message) /\ \A j \in 1..Len(opens) : opens[j].id \in Live(mux)
  <2>1. Live(mux) \in SUBSET Id
    BY DEF Live
  <2>2. QED
    BY <2>1, EachFacts
<1>5. ASSUME NEW i \in Suspends(w), NEW j \in 1..Len(opens)
      PROVE  opens[j] # [op |-> "open", id |-> i]
  <2>1. i \notin Live(mux)
    BY <1>2, <1>5 DEF Suspends, Live
  <2>2. SUFFICES ASSUME opens[j] = [op |-> "open", id |-> i] PROVE FALSE
    OBVIOUS
  <2>3. opens[j].id = i
    BY <2>2
  <2>4. QED
    BY <1>4, <2>1, <2>3
<1> HIDE DEF opens
<1>6. Good(v)
  BY <1>2, <1>4, <1>5, SendGood, SyncHeartbeatGood
<1> HIDE DEF v
<1>7. QED
  BY <1>3, <1>6, WorldFacts, QuietInv

\* A dialling socket fails, or a closing one has closed.
LEMMA SocketEndsInv ==
  ASSUME Inv, NEW n \in DOMAIN sock, ConnectFails(n) \/ SocketClosed(n), UNCHANGED connVars
  PROVE  Inv'
<1> DEFINE u == [World EXCEPT !.sock[n].client = "closed"]
           t == StopHeartbeat(u)
           v == ScheduleReconnect(t)
<1>1. Good(World) /\ World.sock = sock /\ n \in 1..Len(sock) /\ left \in Budget
  BY WorldFacts
<1>2. Become(v) /\ UNCHANGED <<page, pane>> /\ left' \in Budget
  BY <1>1, SpendFacts DEF ConnectFails, SocketClosed
<1>3. Good(u)
  BY <1>1, ClosingGood
<1> HIDE DEF u
<1>4. Good(t)
  BY <1>3, StopHeartbeatGood
<1> HIDE DEF t
<1>5. Good(v)
  BY <1>4, ScheduleReconnectGood
<1> HIDE DEF v
<1>6. QED
  BY <1>2, <1>5, QuietInv

\* A connection is cut without a word.
LEMMA CutInv ==
  ASSUME Inv, NEW n \in DOMAIN sock, Cut(n), UNCHANGED <<muxVars, connVars>>
  PROVE  Inv'
<1> DEFINE s == [sock[n] EXCEPT !.net = "cut", !.up = <<>>, !.down = <<>>]
           v == [mux |-> mux, sock |-> [sock EXCEPT ![n] = s]]
<1>1. /\ Good(World) /\ World.mux = mux /\ World.sock = sock /\ mux \in Mux
      /\ sock \in Seq(Socket) /\ Len(sock) \in Nat /\ n \in 1..Len(sock) /\ sock[n] \in Socket
      /\ left \in Budget /\ Len(sock) <= MaxSockets
  BY WorldFacts DEF Inv
<1>2. s \in Socket /\ s.client = sock[n].client /\ s.net = "cut" /\ sock[n].net = "ok"
  <2>1. sock[n].net = "ok" /\ <<>> \in Seq(Message) /\ <<>> \in Seq(Frame)
    BY DEF Cut
  <2>2. QED
    BY <1>1, <2>1 DEF Socket
<1>3. sock' = v.sock /\ mux' = v.mux /\ UNCHANGED <<page, pane>> /\ left' \in Budget
  BY <1>1, SpendFacts DEF Cut, muxVars
<1> HIDE DEF s
<1>4. /\ v.mux = mux /\ v.sock \in Seq(Socket) /\ Len(v.sock) = Len(sock)
      /\ v.sock[n] = s /\ \A l \in 1..Len(sock) : l # n => v.sock[l] = sock[l]
  BY <1>1, <1>2
<1>5. v \in Worlds
  BY <1>1, <1>4 DEF Worlds
<1> HIDE DEF v
<1>6. Suspends(v) \subseteq Suspends(World) /\ v.mux.next >= 1
  BY <1>1, <1>4 DEF Suspends, Good
<1>7. Good(v)
  BY <1>1, <1>2, <1>4, <1>5, <1>6, Eases
<1>8. Become(v)
  BY <1>1, <1>3, <1>4 DEF Become
<1>9. QED
  BY <1>3, <1>7, <1>8, QuietInv

-----------------------------------------------------------------------------
(* The daemon *)

\* What the invariant says of the daemon, in the form it is used.
LEMMA ConnFacts ==
  ASSUME Inv
  PROVE  /\ conn \in [1..MaxSockets -> Conn]
         /\ object \in Seq(Object) /\ Len(object) \in Nat /\ DOMAIN object = 1..Len(object)
         /\ \A n \in 1..MaxSockets :
              conn[n] \in Conn /\ conn[n].streams \in [Id -> Nat] /\ conn[n].control \in Seq(Frame)
         /\ \A k \in DOMAIN object :
              object[k] \in Object /\ object[k].conn \in 1..MaxSockets /\ object[k].id \in Id
<1>1. conn \in [1..MaxSockets -> Conn] /\ object \in Seq(Object)
  BY DEF Inv, TypeOK, ConnTypeOK
<1>2. \A n \in 1..MaxSockets : conn[n] \in Conn
  BY <1>1
<1>3. \A k \in DOMAIN object : object[k] \in Object
  BY <1>1
<1>4. QED
  BY <1>1, <1>2, <1>3 DEF Conn, Object

\* Along a socket that is not cut, what the daemon does brings no stream back.
LEMMA DaemonInv ==
  ASSUME Inv, UNCHANGED muxVars, left' \in Budget,
         sock' \in Seq(Socket), Len(sock') = Len(sock),
         ConnTypeOK', Unreached', Resolves', NoStrayProcess',
         \A n \in 1..Len(sock) :
           /\ sock'[n].client = sock[n].client
           /\ \/ sock'[n].net = "cut" /\ sock[n].net # "dialling"
              \/ /\ sock'[n].net = sock[n].net
                 /\ sock[n].net = "dialling" => sock'[n].up = sock[n].up
                 /\ \A i \in Id : Releases(sock[n].up, conn[n].streams[i], i)
                                    => Releases(sock'[n].up, conn'[n].streams[i], i),
         \A n \in 1..MaxSockets :
           \/ conn'[n].state = conn[n].state
           \/ n <= Len(sock) /\ sock'[n].net # "dialling"
  PROVE  Inv'
<1>1. mux' = mux /\ page' = page /\ pane' = pane
  BY DEF muxVars
<1>2. /\ Good(World) /\ World.mux = mux /\ World.sock = sock /\ mux \in Mux
      /\ Len(sock) \in Nat /\ Len(sock) <= MaxSockets /\ MaxSockets \in Nat
  BY WorldFacts, BoundFacts DEF Inv
<1>3. World' \in Worlds /\ World'.mux = mux /\ World'.sock = sock'
  BY <1>1, <1>2 DEF World, Worlds
<1>4. Dialling(World)'
  <2>1. \A n \in 1..Len(sock) :
          /\ sock'[n].client = "connecting" => sock'[n].net = "dialling"
          /\ sock'[n].net = "dialling" => sock'[n].up = <<>>
    BY <1>2 DEF Good, Dialling
  <2>2. ASSUME NEW n \in 1..MaxSockets, conn'[n].state # "none"
        PROVE  n <= Len(sock) /\ sock'[n].net # "dialling"
    <3>1. CASE conn'[n].state = conn[n].state
      <4>1. n <= Len(sock) /\ sock[n].net # "dialling"
        BY <1>2, <2>2, <3>1 DEF Good, Dialling
      <4>2. n \in 1..Len(sock)
        BY <1>2, <4>1
      <4>3. QED
        BY <4>1, <4>2
    <3>2. CASE n <= Len(sock) /\ sock'[n].net # "dialling"
      BY <3>2
    <3>3. QED
      BY <3>1, <3>2
  <2>3. QED
    BY <1>3, <2>1, <2>2 DEF Dialling
<1>5. GaveUp(World)'
  <2>1. SUFFICES ASSUME IsOpen(sock', mux.ws), sock'[mux.ws].net = "ok",
                        NEW i \in Id, mux.stream[i] = "suspended"
                 PROVE  Releases(sock'[mux.ws].up, conn'[mux.ws].streams[i], i)
    BY <1>1, <1>3 DEF GaveUp
  <2>2. mux.ws \in 1..Len(sock)
    BY <1>2, <2>1 DEF Good, IsOpen, NoSocket
  <2>3. IsOpen(sock, mux.ws) /\ sock[mux.ws].net = "ok"
    BY <2>1, <2>2 DEF IsOpen
  <2>4. Releases(sock[mux.ws].up, conn[mux.ws].streams[i], i)
    BY <1>2, <2>1, <2>3 DEF Good, GaveUp
  <2>5. QED
    BY <2>1, <2>2, <2>4
<1>6. Good(World)'
  BY <1>2, <1>3, <1>4, <1>5 DEF Good
<1>7. TypeOK'
  BY <1>1 DEF Inv, TypeOK, WireTypeOK, MuxTypeOK
<1>8. Shows'
  BY <1>1 DEF Inv, Shows
<1>9. QED
  BY <1>2, <1>6, <1>7, <1>8 DEF Inv

\* A step that leaves the sockets alone and registers nothing.
LEMMA LocalInv ==
  ASSUME Inv, UNCHANGED muxVars, UNCHANGED sock, left' \in Budget,
         ConnTypeOK', Resolves', NoStrayProcess',
         \A n \in 1..MaxSockets :
           /\ conn'[n].state = conn[n].state
           /\ \A i \in Id : conn'[n].streams[i] \in {conn[n].streams[i], Unregistered}
  PROVE  Inv'
<1>1. Unreached'
  BY DEF Inv, Unreached
<1>2. sock' \in Seq(Socket) /\ Len(sock') = Len(sock) /\ Len(sock) \in Nat /\ Len(sock) <= MaxSockets /\ MaxSockets \in Nat
  BY WorldFacts, BoundFacts DEF Inv
<1>3. ASSUME NEW n \in 1..Len(sock), NEW i \in Id, Releases(sock[n].up, conn[n].streams[i], i)
      PROVE  Releases(sock'[n].up, conn'[n].streams[i], i)
  <2>1. n \in 1..MaxSockets
    BY <1>2
  <2>2. conn'[n].streams[i] \in {conn[n].streams[i], Unregistered}
    BY <2>1
  <2>3. QED
    BY <1>3, <2>2 DEF Releases
<1>4. QED
  BY <1>1, <1>2, <1>3, DaemonInv

\* A closed object keeps its connection and its id, and gives its attach client up.
LEMMA TornDownFacts ==
  ASSUME NEW obj \in Seq(Object), NEW S, NEW late \in BOOLEAN
  PROVE  LET t == TornDown(obj, S, late) IN
         /\ t \in Seq(Object) /\ DOMAIN t = DOMAIN obj
         /\ \A k \in DOMAIN obj :
              /\ t[k].conn = obj[k].conn /\ t[k].id = obj[k].id /\ t[k].at = obj[k].at
              /\ t[k].process => obj[k].process
              /\ k \in S /\ t[k].process => obj[k].at = "forked"
<1> DEFINE t == TornDown(obj, S, late)
<1>1. DOMAIN t = 1..Len(obj) /\ Len(obj) \in Nat /\ DOMAIN obj = 1..Len(obj)
  BY DEF TornDown
<1>2. ASSUME NEW k \in DOMAIN obj
      PROVE  /\ t[k] \in Object
             /\ t[k].conn = obj[k].conn /\ t[k].id = obj[k].id /\ t[k].at = obj[k].at
             /\ t[k].process => obj[k].process
             /\ k \in S /\ t[k].process => obj[k].at = "forked"
  <2>1. obj[k] \in Object
    OBVIOUS
  <2>2. CASE k \in S
    <3> DEFINE q == obj[k].queued /\ late
               p == obj[k].process /\ obj[k].at = "forked"
    <3>1. t[k] = [obj[k] EXCEPT !.torn = TRUE, !.queued = q, !.process = p]
      BY <2>2 DEF TornDown
    <3>2. q \in BOOLEAN /\ p \in BOOLEAN /\ (p => obj[k].process /\ obj[k].at = "forked")
      BY <2>1 DEF Object
    <3> HIDE DEF p, q
    <3>3. /\ t[k] \in Object /\ t[k].process = p
          /\ t[k].conn = obj[k].conn /\ t[k].id = obj[k].id /\ t[k].at = obj[k].at
      BY <2>1, <3>1, <3>2 DEF Object
    <3>4. QED
      BY <3>2, <3>3
  <2>3. CASE k \notin S
    <3>1. t[k] = obj[k]
      BY <2>3 DEF TornDown
    <3>2. QED
      BY <2>1, <2>3, <3>1
  <2>4. QED
    BY <2>2, <2>3
<1>3. t \in Seq(Object)
  <2>1. t = [k \in 1..Len(obj) |-> t[k]]
    BY <1>1 DEF TornDown
  <2>2. t \in [1..Len(obj) -> Object]
    BY <1>1, <1>2, <2>1
  <2>3. QED
    BY <1>1, <2>2
<1>4. QED
  BY <1>1, <1>2, <1>3

\* An id is unregistered, and its object closed: the attach client goes with it.
Closes(obj, n, i, late) ==
  /\ conn' = [conn EXCEPT ![n].streams[i] = Unregistered,
                          ![n].control = Append(@, Closed(i, "normal"))]
  /\ object' = TornDown(obj, {conn[n].streams[i]}, late)

\* An id is unregistered and its object closed: all the others are as they were.
LEMMA CloseFacts ==
  ASSUME Inv, NEW obj \in Seq(Object), DOMAIN obj = DOMAIN object,
         \A k \in DOMAIN object : /\ obj[k].conn = object[k].conn /\ obj[k].id = object[k].id
                                  /\ obj[k].at = object[k].at /\ obj[k].process = object[k].process,
         NEW n \in 1..MaxSockets, NEW i \in Id, NEW late \in BOOLEAN,
         Closes(obj, n, i, late)
  PROVE  /\ ConnTypeOK' /\ Resolves' /\ NoStrayProcess'
         /\ \A m \in 1..MaxSockets :
              /\ conn'[m].state = conn[m].state
              /\ \A j \in Id : conn'[m].streams[j] = IF m = n /\ j = i THEN Unregistered ELSE conn[m].streams[j]
<1> DEFINE x == conn[n].streams[i]
           more == Append(conn[n].control, Closed(i, "normal"))
           c == [conn[n] EXCEPT !.streams = [conn[n].streams EXCEPT ![i] = Unregistered], !.control = more]
<1>1. /\ conn \in [1..MaxSockets -> Conn] /\ conn[n] \in Conn /\ conn[n].streams \in [Id -> Nat]
      /\ conn[n].control \in Seq(Frame)
      /\ \A k \in DOMAIN object : object[k] \in Object /\ object[k].conn \in 1..MaxSockets /\ object[k].id \in Id
  BY ConnFacts
<1>2. more \in Seq(Frame)
  <2>1. Closed(i, "normal") \in Frame
    BY DEF Closed, Frame
  <2>2. QED
    BY <1>1, <2>1
<1>3. conn' = [conn EXCEPT ![n] = c]
  <2>1. conn' = [[conn EXCEPT ![n].streams[i] = Unregistered] EXCEPT ![n].control = Append(@, Closed(i, "normal"))]
    BY DEF Closes
  <2>2. QED
    BY <1>1, <2>1 DEF Conn
<1>4. /\ c \in Conn /\ c.state = conn[n].state
      /\ \A j \in Id : c.streams[j] = IF j = i THEN Unregistered ELSE conn[n].streams[j]
  <2>1. [conn[n].streams EXCEPT ![i] = Unregistered] \in [Id -> Nat]
    BY <1>1 DEF Unregistered
  <2>2. QED
    BY <1>1, <1>2, <2>1 DEF Conn
<1> HIDE DEF c
<1>5. /\ conn' \in [1..MaxSockets -> Conn]
      /\ \A m \in 1..MaxSockets : conn'[m] = IF m = n THEN c ELSE conn[m]
  BY <1>1, <1>3, <1>4
<1>6. \A m \in 1..MaxSockets :
        /\ conn'[m].state = conn[m].state
        /\ \A j \in Id : conn'[m].streams[j] = IF m = n /\ j = i THEN Unregistered ELSE conn[m].streams[j]
  BY <1>4, <1>5
<1>7. /\ object' \in Seq(Object) /\ DOMAIN object' = DOMAIN object
      /\ \A k \in DOMAIN object :
           /\ object'[k].conn = object[k].conn /\ object'[k].id = object[k].id /\ object'[k].at = object[k].at
           /\ object'[k].process => object[k].process
           /\ k = x /\ object'[k].process => object[k].at = "forked"
  <2>1. object' = TornDown(obj, {x}, late)
    BY DEF Closes
  <2>2. QED
    BY <2>1, TornDownFacts
<1>8. ConnTypeOK'
  BY <1>5, <1>7 DEF ConnTypeOK
<1>9. Resolves'
  BY <1>7 DEF Inv, Resolves
<1>10. NoStrayProcess'
  <2>1. SUFFICES ASSUME NEW k \in DOMAIN object, object'[k].process, object'[k].at # "forked"
                 PROVE  conn'[object'[k].conn].streams[object'[k].id] = k
    BY <1>7 DEF NoStrayProcess, Registered
  <2>2. object[k].process /\ object[k].at # "forked" /\ k # x
    BY <1>7, <2>1
  <2>3. conn[object[k].conn].streams[object[k].id] = k
    BY <2>2 DEF Inv, NoStrayProcess, Registered
  <2>4. ~(object[k].conn = n /\ object[k].id = i)
    BY <2>2, <2>3
  <2>5. object[k].conn \in 1..MaxSockets /\ object[k].id \in Id
    BY <1>1
  <2> DEFINE m == object[k].conn
             j == object[k].id
  <2> HIDE DEF m, j
  <2>6. conn'[m].streams[j] = conn[m].streams[j]
    <3>1. m \in 1..MaxSockets /\ j \in Id /\ ~(m = n /\ j = i)
      BY <2>4, <2>5 DEF m, j
    <3>2. QED
      BY ONLY <1>6, <3>1
  <2>7. object'[k].conn = object[k].conn /\ object'[k].id = object[k].id
    BY <1>7
  <2>8. QED
    BY <2>3, <2>6, <2>7 DEF m, j
<1>11. QED
  BY <1>6, <1>8, <1>9, <1>10

\* The daemon accepts a connection.
LEMMA AcceptInv ==
  ASSUME Inv, NEW n \in DOMAIN sock, Accept(n), UNCHANGED muxVars
  PROVE  Inv'
<1> DEFINE c == [conn[n] EXCEPT !.state = "up"]
<1>1. /\ n \in 1..Len(sock) /\ n \in 1..MaxSockets /\ sock \in Seq(Socket) /\ left \in Budget
      /\ sock[n].net = "ok" /\ conn' = [conn EXCEPT ![n] = c]
      /\ sock' = sock /\ left' = left /\ object' = object
  <2>1. n \in 1..Len(sock) /\ Len(sock) \in Nat /\ Len(sock) <= MaxSockets /\ MaxSockets \in Nat
    BY WorldFacts, BoundFacts DEF Inv
  <2>2. QED
    BY <2>1, WorldFacts DEF Accept
<1>2. conn \in [1..MaxSockets -> Conn] /\ conn[n] \in Conn
      /\ \A k \in DOMAIN object : object[k].conn \in 1..MaxSockets
  BY <1>1, ConnFacts
<1>3. c \in Conn /\ c.streams = conn[n].streams /\ c.state = "up"
  BY <1>2 DEF Conn
<1> HIDE DEF c
<1>4. /\ conn' \in [1..MaxSockets -> Conn]
      /\ \A m \in 1..MaxSockets : conn'[m] = IF m = n THEN c ELSE conn[m]
  BY <1>1, <1>2, <1>3
<1>5. \A m \in 1..MaxSockets : conn'[m].streams = conn[m].streams
  BY <1>3, <1>4
<1>6. ConnTypeOK'
  BY <1>1, <1>4 DEF Inv, TypeOK, ConnTypeOK
<1>7. Unreached'
  BY <1>3, <1>4 DEF Inv, Unreached
<1>8. Resolves' /\ NoStrayProcess'
  BY <1>1, <1>2, <1>5 DEF Inv, Resolves, NoStrayProcess, Registered
<1>9. ASSUME NEW m \in 1..Len(sock), NEW i \in Id, Releases(sock[m].up, conn[m].streams[i], i)
      PROVE  Releases(sock'[m].up, conn'[m].streams[i], i)
  <2>1. m \in 1..MaxSockets
    BY WorldFacts, BoundFacts DEF Inv
  <2>2. QED
    BY <1>1, <1>5, <1>9, <2>1
<1>10. \A m \in 1..MaxSockets : conn'[m].state = conn[m].state \/ (m <= Len(sock) /\ sock'[m].net # "dialling")
  BY <1>1, <1>4
<1>11. QED
  BY <1>1, <1>6, <1>7, <1>8, <1>9, <1>10, DaemonInv

\* The queue of a connection loses its head.
LEMMA SockPut ==
  ASSUME Inv, NEW n \in 1..MaxSockets, NEW f \in Frame, Put(n, f)
  PROVE  /\ sock' \in Seq(Socket) /\ Len(sock') = Len(sock)
         /\ \A m \in 1..Len(sock) :
              sock'[m].client = sock[m].client /\ sock'[m].net = sock[m].net /\ sock'[m].up = sock[m].up
<1>1. sock \in Seq(Socket) /\ Len(sock) \in Nat
  BY WorldFacts
<1>2. CASE n \notin 1..Len(sock)
  <2>1. sock' = sock
    BY <1>1, <1>2 DEF Put
  <2>2. QED
    BY <1>1, <2>1
<1>3. CASE n \in 1..Len(sock)
  <2> DEFINE s == [sock[n] EXCEPT !.down = Append(@, f)]
  <2>1. sock[n] \in Socket
    BY <1>1, <1>3
  <2>2. Append(sock[n].down, f) \in Seq(Frame)
    BY <2>1 DEF Socket
  <2>3. s \in Socket /\ s.client = sock[n].client /\ s.net = sock[n].net /\ s.up = sock[n].up
    BY <2>1, <2>2 DEF Socket
  <2>4. sock' = [sock EXCEPT ![n] = s] \/ sock' = sock
    BY DEF Put
  <2> HIDE DEF s
  <2>5. QED
    BY <1>1, <1>3, <2>3, <2>4
<1>4. QED
  BY <1>2, <1>3

\* The writer moves a frame to the socket.
LEMMA WriteInv ==
  ASSUME Inv, UNCHANGED muxVars,
         \/ \E n \in DOMAIN sock : WriteControl(n)
         \/ \E k \in DOMAIN object : WriteOpened(k)
  PROVE  Inv'
<1>1. CASE \E n \in DOMAIN sock : WriteControl(n)
  <2>1. PICK n \in DOMAIN sock : WriteControl(n)
    BY <1>1
  <2>2. n \in 1..MaxSockets
    BY WorldFacts, BoundFacts DEF Inv
  <2> DEFINE f == Head(conn[n].control)
             rest == Tail(conn[n].control)
             c == [conn[n] EXCEPT !.control = rest]
  <2>3. /\ conn \in [1..MaxSockets -> Conn] /\ conn[n] \in Conn /\ conn[n].control # <<>>
        /\ f \in Frame /\ rest \in Seq(Frame)
    BY <2>1, <2>2, ConnFacts DEF WriteControl
  <2>4. Put(n, f) /\ conn' = [conn EXCEPT ![n] = c] /\ left' = left /\ object' = object
    BY <2>1 DEF WriteControl
  <2>5. c \in Conn /\ c.state = conn[n].state /\ c.streams = conn[n].streams
    BY <2>3 DEF Conn
  <2> HIDE DEF c, f, rest
  <2>6. conn' \in [1..MaxSockets -> Conn]
        /\ \A m \in 1..MaxSockets : conn'[m].state = conn[m].state /\ conn'[m].streams = conn[m].streams
    BY <2>2, <2>3, <2>4, <2>5
  <2>7. /\ sock' \in Seq(Socket) /\ Len(sock') = Len(sock)
        /\ \A m \in 1..Len(sock) :
             sock'[m].client = sock[m].client /\ sock'[m].net = sock[m].net /\ sock'[m].up = sock[m].up
    BY <2>2, <2>3, <2>4, SockPut
  <2>8. ConnTypeOK' /\ Unreached' /\ Resolves'
    BY <2>4, <2>6 DEF Inv, TypeOK, ConnTypeOK, Unreached, Resolves
  <2>9. NoStrayProcess'
    BY <2>4, <2>6, ConnFacts DEF Inv, NoStrayProcess, Registered
  <2>10. \A m \in 1..Len(sock) : m \in 1..MaxSockets
    BY WorldFacts, BoundFacts DEF Inv
  <2>11. ASSUME NEW m \in 1..Len(sock), NEW i \in Id, Releases(sock[m].up, conn[m].streams[i], i)
         PROVE  Releases(sock'[m].up, conn'[m].streams[i], i)
    BY <2>6, <2>7, <2>10, <2>11
  <2>12. left' \in Budget
    BY <2>4, WorldFacts
  <2>13. QED
    BY <2>6, <2>7, <2>8, <2>9, <2>11, <2>12, DaemonInv
<1>2. CASE \E k \in DOMAIN object : WriteOpened(k)
  <2>1. PICK k \in DOMAIN object : WriteOpened(k)
    BY <1>2
  <2> DEFINE n == object[k].conn
             f == [op |-> "opened", id |-> object[k].id]
             o == [object[k] EXCEPT !.queued = FALSE]
  <2>2. /\ object \in Seq(Object) /\ object[k] \in Object /\ n \in 1..MaxSockets /\ object[k].id \in Id
        /\ DOMAIN object = 1..Len(object) /\ Len(object) \in Nat
    BY ConnFacts
  <2>3. Put(n, f) /\ object' = [object EXCEPT ![k] = o] /\ left' = left /\ conn' = conn
    BY <2>1 DEF WriteOpened
  <2>4. f \in Frame
    BY <2>2 DEF Frame
  <2>5. /\ o \in Object /\ o.conn = n /\ o.id = object[k].id /\ o.at = object[k].at
        /\ o.process = object[k].process
    BY <2>2 DEF Object
  <2>6. /\ sock' \in Seq(Socket) /\ Len(sock') = Len(sock)
        /\ \A m \in 1..Len(sock) :
             sock'[m].client = sock[m].client /\ sock'[m].net = sock[m].net /\ sock'[m].up = sock[m].up
    BY <2>2, <2>3, <2>4, SockPut
  <2> HIDE DEF o, f
  <2>7. /\ object' \in Seq(Object) /\ DOMAIN object' = DOMAIN object
        /\ \A l \in DOMAIN object : object'[l] = IF l = k THEN o ELSE object[l]
    BY <2>2, <2>3, <2>5
  <2>8. \A l \in DOMAIN object :
           /\ object'[l].conn = object[l].conn /\ object'[l].id = object[l].id
           /\ object'[l].at = object[l].at /\ object'[l].process = object[l].process
    BY <2>5, <2>7
  <2>9. ConnTypeOK' /\ Unreached' /\ Resolves'
    BY <2>3, <2>7, <2>8 DEF Inv, TypeOK, ConnTypeOK, Unreached, Resolves
  <2>10. NoStrayProcess'
    BY <2>3, <2>7, <2>8 DEF Inv, NoStrayProcess, Registered
  <2>11. left' \in Budget
    BY <2>3, WorldFacts
  <2>12. QED
    BY <2>3, <2>6, <2>9, <2>10, <2>11, DaemonInv
<1>3. QED
  BY <1>1, <1>2

\* One object moves on; it has an attach client only between fork and publication,
\* or while it has its id.
LEMMA ObjectInv ==
  ASSUME Inv, UNCHANGED muxVars, UNCHANGED <<sock, left, conn>>,
         NEW k \in DOMAIN object, NEW o \in Object, object' = [object EXCEPT ![k] = o],
         o.conn = object[k].conn, o.id = object[k].id, o.at # "resolving",
         o.process => Registered(k) \/ o.at = "forked"
  PROVE  Inv'
<1>1. object \in Seq(Object) /\ left \in Budget
  BY ConnFacts, WorldFacts
<1>2. /\ object' \in Seq(Object) /\ DOMAIN object' = DOMAIN object
      /\ \A l \in DOMAIN object : object'[l] = IF l = k THEN o ELSE object[l]
  BY <1>1
<1>3. ConnTypeOK' /\ Resolves'
  BY <1>2 DEF Inv, TypeOK, ConnTypeOK, Resolves
<1>4. NoStrayProcess'
  BY <1>2 DEF Inv, NoStrayProcess, Registered
<1>5. QED
  BY <1>1, <1>3, <1>4, LocalInv

\* attachStream forks, publishes or reaps; a pump leaves.
LEMMA AttachInv ==
  ASSUME Inv, UNCHANGED muxVars, NEW k \in DOMAIN object, AttachForks(k) \/ AttachPublishes(k) \/ PumpLeaves(k)
  PROVE  Inv'
<1>1. object[k] \in Object
  BY ConnFacts
<1>2. CASE AttachForks(k)
  <2> DEFINE o == [object[k] EXCEPT !.at = "forked", !.process = TRUE]
  <2>1. object' = [object EXCEPT ![k] = o] /\ UNCHANGED <<sock, left, conn>>
    BY <1>2 DEF AttachForks
  <2>2. o \in Object /\ o.conn = object[k].conn /\ o.id = object[k].id /\ o.at = "forked"
    BY <1>1 DEF Object
  <2> HIDE DEF o
  <2>3. QED
    BY <2>1, <2>2, ObjectInv
<1>3. CASE AttachPublishes(k)
  <2> DEFINE r == Registered(k)
             o == [object[k] EXCEPT !.at = "done", !.process = r, !.pump = r, !.queued = r]
  <2>1. object' = [object EXCEPT ![k] = o] /\ UNCHANGED <<sock, left, conn>>
    BY <1>3 DEF AttachPublishes
  <2>2. r \in BOOLEAN
    BY DEF Registered
  <2>3. r => Registered(k)
    OBVIOUS
  <2> HIDE DEF r
  <2>4. o \in Object /\ o.conn = object[k].conn /\ o.id = object[k].id /\ o.at = "done" /\ o.process = r
    BY <1>1, <2>2 DEF Object
  <2> HIDE DEF o
  <2>5. QED
    BY <2>1, <2>3, <2>4, ObjectInv
<1>4. CASE PumpLeaves(k)
  <2> DEFINE o == [object[k] EXCEPT !.pump = FALSE]
  <2>1. object' = [object EXCEPT ![k] = o] /\ UNCHANGED <<sock, left, conn>>
    BY <1>4 DEF PumpLeaves
  <2>2. /\ o \in Object /\ o.conn = object[k].conn /\ o.id = object[k].id
        /\ o.at = object[k].at /\ o.process = object[k].process
    BY <1>1 DEF Object
  <2> HIDE DEF o
  <2>3. /\ object' \in Seq(Object) /\ DOMAIN object' = DOMAIN object
        /\ \A l \in DOMAIN object : object'[l] = IF l = k THEN o ELSE object[l]
    BY <2>1, <2>2, ConnFacts
  <2>4. \A l \in DOMAIN object :
           /\ object'[l].conn = object[l].conn /\ object'[l].id = object[l].id
           /\ object'[l].at = object[l].at /\ object'[l].process = object[l].process
    BY <2>2, <2>3
  <2>5. ConnTypeOK' /\ Resolves'
    BY <2>1, <2>3, <2>4 DEF Inv, TypeOK, ConnTypeOK, Resolves
  <2>6. NoStrayProcess'
    BY <2>1, <2>3, <2>4 DEF Inv, NoStrayProcess, Registered
  <2>7. QED
    BY <2>1, <2>5, <2>6, WorldFacts, LocalInv
<1>5. QED
  BY <1>2, <1>3, <1>4

\* attachStream gives its stream up.
LEMMA FailClosedInv ==
  ASSUME Inv, UNCHANGED muxVars, UNCHANGED sock, left' \in Budget,
         NEW k \in DOMAIN object, object[k].at = "resolving",
         NEW code \in {"normal", "failed", "missing"}, FailClosed(k, code)
  PROVE  Inv'
<1> DEFINE n == object[k].conn
           i == object[k].id
           x == IF conn[n].streams[i] = k THEN Unregistered ELSE conn[n].streams[i]
           more == IF conn[n].state = "up" THEN Append(conn[n].control, Closed(i, code)) ELSE conn[n].control
           c == [conn[n] EXCEPT !.streams = [conn[n].streams EXCEPT ![i] = x], !.control = more]
           o == [object[k] EXCEPT !.at = "done", !.torn = TRUE]
<1>1. /\ conn \in [1..MaxSockets -> Conn] /\ n \in 1..MaxSockets /\ i \in Id
      /\ conn[n] \in Conn /\ conn[n].streams \in [Id -> Nat] /\ conn[n].control \in Seq(Frame)
      /\ object \in Seq(Object) /\ object[k] \in Object
  BY ConnFacts
<1>2. x \in Nat /\ x \in {conn[n].streams[i], Unregistered} /\ (conn[n].streams[i] # k => x = conn[n].streams[i])
  BY <1>1 DEF Unregistered
<1>3. more \in Seq(Frame)
  <2>1. Closed(i, code) \in Frame
    BY <1>1 DEF Closed, Frame
  <2>2. QED
    BY <1>1, <2>1
<1>4. conn' = [conn EXCEPT ![n] = c] /\ object' = [object EXCEPT ![k] = o]
  <2>1. object' = [object EXCEPT ![k] = o]
    BY DEF FailClosed
  <2>2. conn' = [[conn EXCEPT ![n].streams[i] = x] EXCEPT ![n].control = more]
    BY DEF FailClosed
  <2> HIDE DEF more, x
  <2>3. QED
    BY <1>1, <2>1, <2>2 DEF Conn
<1> HIDE DEF x, more
<1>5. /\ c \in Conn /\ c.state = conn[n].state
      /\ \A j \in Id : c.streams[j] = IF j = i THEN x ELSE conn[n].streams[j]
  <2>1. [conn[n].streams EXCEPT ![i] = x] \in [Id -> Nat]
    BY <1>1, <1>2
  <2>2. QED
    BY <1>1, <1>3, <2>1 DEF Conn
<1>6. /\ o \in Object /\ o.conn = n /\ o.id = i /\ o.at = "done" /\ o.process = object[k].process
  BY <1>1 DEF Object
<1>7. ~object[k].process
  BY DEF Inv, Resolves
<1> HIDE DEF c, o
<1>8. /\ conn' \in [1..MaxSockets -> Conn]
      /\ \A m \in 1..MaxSockets : conn'[m] = IF m = n THEN c ELSE conn[m]
  BY <1>1, <1>4, <1>5
<1>9. /\ object' \in Seq(Object) /\ DOMAIN object' = DOMAIN object
      /\ \A l \in DOMAIN object : object'[l] = IF l = k THEN o ELSE object[l]
  BY <1>1, <1>4, <1>6
<1>10. \A m \in 1..MaxSockets :
         /\ conn'[m].state = conn[m].state
         /\ \A j \in Id : conn'[m].streams[j] = IF m = n /\ j = i THEN x ELSE conn[m].streams[j]
  BY <1>5, <1>8
<1>11. ConnTypeOK' /\ Resolves'
  BY <1>6, <1>8, <1>9 DEF Inv, ConnTypeOK, Resolves
<1>12. NoStrayProcess'
  <2>1. SUFFICES ASSUME NEW l \in DOMAIN object, object'[l].process, object'[l].at # "forked"
                 PROVE  conn'[object'[l].conn].streams[object'[l].id] = l
    BY <1>9 DEF NoStrayProcess, Registered
  <2>2. l # k /\ object'[l] = object[l]
    BY <1>6, <1>7, <1>9, <2>1
  <2>3. conn[object[l].conn].streams[object[l].id] = l
    BY <2>1, <2>2 DEF Inv, NoStrayProcess, Registered
  <2>4. object[l].conn \in 1..MaxSockets /\ object[l].id \in Id
    BY ConnFacts
  <2>5. conn'[object[l].conn].streams[object[l].id] = l
    BY <1>2, <1>10, <2>2, <2>3, <2>4
  <2>6. QED
    BY <2>2, <2>5
<1>13. \A m \in 1..MaxSockets :
         /\ conn'[m].state = conn[m].state
         /\ \A j \in Id : conn'[m].streams[j] \in {conn[m].streams[j], Unregistered}
  BY <1>2, <1>10
<1>14. QED
  BY <1>11, <1>12, <1>13, LocalInv

\* It does so when its stream was closed, and when the attach failed.
LEMMA AttachEndsInv ==
  ASSUME Inv, UNCHANGED muxVars, NEW k \in DOMAIN object, AttachAbandons(k) \/ AttachFails(k)
  PROVE  Inv'
<1>1. left \in Budget
  BY WorldFacts
<1>2. CASE AttachAbandons(k)
  <2>1. object[k].at = "resolving" /\ FailClosed(k, "normal") /\ sock' = sock /\ left' = left
    BY <1>2 DEF AttachAbandons
  <2>2. QED
    BY <1>1, <2>1, FailClosedInv
<1>3. CASE AttachFails(k)
  <2>1. object[k].at = "resolving" /\ Spend("fails") /\ sock' = sock
    BY <1>3 DEF AttachFails
  <2>2. PICK code \in {"failed", "missing"} : FailClosed(k, code)
    BY <1>3 DEF AttachFails
  <2>3. left' \in Budget
    BY <1>1, <2>1, SpendFacts
  <2>4. QED
    BY <2>1, <2>2, <2>3, FailClosedInv
<1>4. QED
  BY <1>2, <1>3

\* A pump reads an end, and closes the id it was started for.
LEMMA PumpEndsInv ==
  ASSUME Inv, UNCHANGED muxVars, NEW k \in DOMAIN object, PumpEnds(k)
  PROVE  Inv'
<1> DEFINE n == object[k].conn
           i == object[k].id
           j == conn[n].streams[i]
           o == [object[k] EXCEPT !.pump = FALSE]
           ended == [object EXCEPT ![k].pump = FALSE]
<1>1. object \in Seq(Object) /\ object[k] \in Object /\ n \in 1..MaxSockets /\ i \in Id
  BY ConnFacts
<1>2. left' \in Budget /\ sock' = sock
  BY WorldFacts, SpendFacts DEF PumpEnds
<1>3. /\ o \in Object /\ o.conn = n /\ o.id = i /\ o.at = object[k].at /\ o.process = object[k].process
  BY <1>1 DEF Object
<1>4. ended = [object EXCEPT ![k] = o]
  OBVIOUS
<1> HIDE DEF o, ended
<1>0. /\ ended \in Seq(Object) /\ DOMAIN ended = DOMAIN object /\ ended[k] = o
      /\ \A l \in DOMAIN object : l # k => ended[l] = object[l]
  BY <1>1, <1>3, <1>4
<1>5. /\ ended \in Seq(Object) /\ DOMAIN ended = DOMAIN object
      /\ \A l \in DOMAIN object : /\ ended[l].conn = object[l].conn /\ ended[l].id = object[l].id
                                  /\ ended[l].at = object[l].at /\ ended[l].process = object[l].process
  BY <1>0, <1>3
<1>6. CASE j = Unregistered
  <2>1. object' = ended /\ conn' = conn
    BY <1>6 DEF PumpEnds, ended
  <2>2. ConnTypeOK' /\ Resolves'
    BY <1>5, <2>1 DEF Inv, TypeOK, ConnTypeOK, Resolves
  <2>3. NoStrayProcess'
    BY <1>5, <2>1 DEF Inv, NoStrayProcess, Registered
  <2>4. QED
    BY <1>2, <2>1, <2>2, <2>3, LocalInv
<1>7. CASE j # Unregistered
  <2>1. /\ conn' = [conn EXCEPT ![n].streams[i] = Unregistered,
                                ![n].control = Append(@, Closed(i, "normal"))]
        /\ \E late \in BOOLEAN : object' = TornDown(ended, {j}, late)
    BY <1>7 DEF PumpEnds, ended
  <2>2. PICK late \in BOOLEAN : object' = TornDown(ended, {j}, late)
    BY <2>1
  <2>3. /\ ConnTypeOK' /\ Resolves' /\ NoStrayProcess'
        /\ \A m \in 1..MaxSockets :
             /\ conn'[m].state = conn[m].state
             /\ \A l \in Id : conn'[m].streams[l] = IF m = n /\ l = i THEN Unregistered ELSE conn[m].streams[l]
    <3>1. Closes(ended, n, i, late)
      BY <2>1, <2>2 DEF Closes
    <3>2. QED
      BY <1>1, <1>5, <3>1, CloseFacts
  <2>4. \A m \in 1..MaxSockets :
          /\ conn'[m].state = conn[m].state
          /\ \A l \in Id : conn'[m].streams[l] \in {conn[m].streams[l], Unregistered}
    BY <2>3
  <2>5. QED
    BY <1>2, <2>3, <2>4, LocalInv
<1>8. QED
  BY <1>6, <1>7

\* The read loop: whatever the message is, a stream that was given up stays so.
LEMMA ReadInv ==
  ASSUME Inv, UNCHANGED muxVars, NEW n \in DOMAIN sock, Read(n)
  PROVE  Inv'
<1> DEFINE msg == Head(sock[n].up)
           i == msg.id
           s == [sock[n] EXCEPT !.up = Tail(@)]
           sk == [sock EXCEPT ![n].up = Tail(@)]
           x == conn[n].streams[i]
<1>1. /\ sock \in Seq(Socket) /\ Len(sock) \in Nat /\ n \in 1..Len(sock) /\ sock[n] \in Socket
      /\ Len(sock) <= MaxSockets /\ n \in 1..MaxSockets /\ left \in Budget /\ left' = left
      /\ conn[n].state = "up" /\ sock[n].up # <<>>
  <2>1. sock \in Seq(Socket) /\ Len(sock) \in Nat /\ n \in 1..Len(sock) /\ sock[n] \in Socket /\ left \in Budget
    BY WorldFacts
  <2>2. Len(sock) <= MaxSockets /\ MaxSockets \in Nat
    BY BoundFacts DEF Inv
  <2>3. QED
    BY <2>1, <2>2 DEF Read
<1>2. sock[n].up \in Seq(Message) /\ msg \in Message /\ Tail(sock[n].up) \in Seq(Message)
  BY <1>1 DEF Socket
<1>3. i \in Id /\ msg.op \in {"open", "close"} /\ msg = [op |-> msg.op, id |-> i]
  BY <1>2 DEF Message
<1>4. s \in Socket /\ s.client = sock[n].client /\ s.net = sock[n].net /\ s.up = Tail(sock[n].up)
  BY <1>1, <1>2 DEF Socket
<1>5. sk = [sock EXCEPT ![n] = s]
  OBVIOUS
<1>6. /\ sock' = sk
      /\ \/ msg.op = "open" /\ StartStream(n, i, sk)
         \/ msg.op # "open" /\ CloseById(n, i, sk)
  BY DEF Read, StartStream, CloseById
<1> HIDE DEF s, sk
<1>7. /\ sock' \in Seq(Socket) /\ Len(sock') = Len(sock) /\ sock'[n] = s
      /\ \A m \in 1..Len(sock) : m # n => sock'[m] = sock[m]
  BY <1>1, <1>4, <1>5, <1>6
<1>8. /\ conn \in [1..MaxSockets -> Conn] /\ conn[n] \in Conn /\ conn[n].streams \in [Id -> Nat]
      /\ object \in Seq(Object) /\ Len(object) \in Nat /\ DOMAIN object = 1..Len(object)
      /\ \A k \in DOMAIN object : object[k] \in Object /\ object[k].conn \in 1..MaxSockets /\ object[k].id \in Id
  BY <1>1, ConnFacts
<1>9. sock[n].net # "dialling"
  BY <1>1, WorldFacts DEF Good, Dialling
<1>10. ASSUME ConnTypeOK', Resolves', NoStrayProcess', Unreached',
              \A m \in 1..MaxSockets :
                /\ conn'[m].state = conn[m].state
                /\ \A j \in Id : ~(m = n /\ j = i) => conn'[m].streams[j] = conn[m].streams[j],
              msg.op = "close" => conn'[n].streams[i] = Unregistered
       PROVE  Inv'
  <2>1. ASSUME NEW m \in 1..Len(sock), NEW j \in Id, Releases(sock[m].up, conn[m].streams[j], j)
        PROVE  Releases(sock'[m].up, conn'[m].streams[j], j)
    <3>1. m \in 1..MaxSockets
      BY <1>1, BoundFacts
    <3>2. CASE m # n
      <4>1. sock'[m] = sock[m] /\ conn'[m].streams[j] = conn[m].streams[j]
        BY <1>7, <1>10, <3>1, <3>2
      <4>2. QED
        BY <2>1, <4>1
    <3>3. CASE m = n
      <4>1. sock'[n].up = Tail(sock[n].up)
        BY <1>4, <1>7
      <4>2. msg = [op |-> "close", id |-> j] => conn'[n].streams[j] = Unregistered
        <5>1. SUFFICES ASSUME msg = [op |-> "close", id |-> j] PROVE conn'[n].streams[j] = Unregistered
          OBVIOUS
        <5>2. msg.op = "close" /\ i = j
          BY <5>1
        <5>3. QED
          BY <1>10, <5>2
      <4>3. msg # [op |-> "open", id |-> j] => conn'[n].streams[j] \in {conn[n].streams[j], Unregistered}
        <5>1. SUFFICES ASSUME msg # [op |-> "open", id |-> j], j = i
                       PROVE  conn'[n].streams[j] = Unregistered
          BY <1>1, <1>10
        <5>2. msg.op = "close"
          BY <1>3, <5>1
        <5>3. QED
          BY <1>10, <5>1, <5>2
      <4>4. Releases(sock[n].up, conn[n].streams[j], j)
        BY <2>1, <3>3
      <4> HIDE DEF msg, i
      <4>5. Releases(Tail(sock[n].up), conn'[n].streams[j], j)
        BY <1>1, <1>2, <4>2, <4>3, <4>4, ReleasesRead DEF msg
      <4>6. QED
        BY <3>3, <4>1, <4>5
    <3>4. QED
      BY <3>2, <3>3
  <2>2. \A m \in 1..Len(sock) :
          /\ sock'[m].client = sock[m].client /\ sock'[m].net = sock[m].net
          /\ sock[m].net = "dialling" => sock'[m].up = sock[m].up
    BY <1>4, <1>7, <1>9
  <2>3. QED
    BY <1>1, <1>7, <1>10, <2>1, <2>2, DaemonInv
<1>11. CASE conn' = conn /\ object' = object /\ (msg.op = "close" => x = Unregistered)
  <2>1. ConnTypeOK' /\ Resolves' /\ Unreached'
    BY <1>11 DEF Inv, TypeOK, ConnTypeOK, Resolves, Unreached
  <2>2. NoStrayProcess'
    BY <1>11 DEF Inv, NoStrayProcess, Registered
  <2>3. QED
    BY <1>10, <1>11, <2>1, <2>2
<1>12. CASE msg.op = "open" /\ x = Unregistered
  <2> DEFINE k == Len(object) + 1
             o == [conn |-> n, id |-> i, at |-> "resolving", process |-> FALSE,
                   queued |-> FALSE, pump |-> FALSE, torn |-> FALSE]
             c == [conn[n] EXCEPT !.streams = [conn[n].streams EXCEPT ![i] = k]]
  <2>1. conn' = [conn EXCEPT ![n] = c] /\ object' = Append(object, o)
    BY <1>6, <1>12 DEF StartStream
  <2>2. k \in Nat /\ k # Unregistered /\ k \notin DOMAIN object
    BY <1>8 DEF Unregistered
  <2>3. o \in Object /\ o.process = FALSE /\ o.at = "resolving"
    BY <1>1, <1>3 DEF Object
  <2>4. /\ c \in Conn /\ c.state = "up"
        /\ \A j \in Id : j # i => c.streams[j] = conn[n].streams[j]
    <3>1. [conn[n].streams EXCEPT ![i] = k] \in [Id -> Nat]
      BY <1>8, <2>2
    <3>2. QED
      BY <1>1, <1>8, <3>1 DEF Conn
  <2> HIDE DEF c, o
  <2>5. conn' \in [1..MaxSockets -> Conn] /\ \A m \in 1..MaxSockets : conn'[m] = IF m = n THEN c ELSE conn[m]
    BY <1>8, <2>1, <2>4
  <2>6. /\ object' \in Seq(Object) /\ DOMAIN object' = DOMAIN object \cup {k} /\ object'[k] = o
        /\ \A l \in DOMAIN object : object'[l] = object[l]
    BY <1>8, <2>1, <2>3
  <2> HIDE DEF k
  <2>7. \A m \in 1..MaxSockets :
          /\ conn'[m].state = conn[m].state
          /\ \A j \in Id : ~(m = n /\ j = i) => conn'[m].streams[j] = conn[m].streams[j]
    BY <1>1, <2>4, <2>5
  <2>8. ConnTypeOK'
    BY <2>5, <2>6 DEF ConnTypeOK
  <2>9. Resolves'
    BY <2>3, <2>6 DEF Inv, Resolves
  <2>10. Unreached'
    BY <1>1, <2>5, <2>7 DEF Inv, Unreached
  <2>11. NoStrayProcess'
    <3>1. SUFFICES ASSUME NEW l \in DOMAIN object', object'[l].process, object'[l].at # "forked"
                   PROVE  conn'[object'[l].conn].streams[object'[l].id] = l
      BY DEF NoStrayProcess, Registered
    <3>2. l \in DOMAIN object /\ object'[l] = object[l]
      BY <2>3, <2>6, <3>1
    <3>3. conn[object[l].conn].streams[object[l].id] = l
      BY <3>1, <3>2 DEF Inv, NoStrayProcess, Registered
    <3>4. object[l].conn \in 1..MaxSockets /\ object[l].id \in Id /\ l # Unregistered
      BY <1>8, <3>2 DEF Unregistered
    <3>5. ~(object[l].conn = n /\ object[l].id = i)
      BY <1>12, <3>3, <3>4
    <3>6. conn'[object[l].conn].streams[object[l].id] = conn[object[l].conn].streams[object[l].id]
      BY <2>7, <3>4, <3>5
    <3>7. QED
      BY <3>2, <3>3, <3>6
  <2>12. QED
    BY <1>10, <1>12, <2>7, <2>8, <2>9, <2>10, <2>11
<1>13. CASE msg.op = "close" /\ x # Unregistered
  <2>1. /\ conn' = [conn EXCEPT ![n].streams[i] = Unregistered,
                                ![n].control = Append(@, Closed(i, "normal"))]
        /\ \E late \in BOOLEAN : object' = TornDown(object, {x}, late)
    BY <1>6, <1>13 DEF CloseById
  <2>2. PICK late \in BOOLEAN : object' = TornDown(object, {x}, late)
    BY <2>1
  <2>3. /\ ConnTypeOK' /\ Resolves' /\ NoStrayProcess'
        /\ \A m \in 1..MaxSockets :
             /\ conn'[m].state = conn[m].state
             /\ \A l \in Id : conn'[m].streams[l] = IF m = n /\ l = i THEN Unregistered ELSE conn[m].streams[l]
    <3>1. Closes(object, n, i, late) /\ i \in Id
      BY <1>3, <2>1, <2>2 DEF Closes
    <3> HIDE DEF i, msg
    <3>2. QED
      BY <1>1, <1>8, <3>1, CloseFacts
  <2>4. Unreached'
    BY <2>3 DEF Inv, Unreached
  <2>5. QED
    BY <1>1, <1>3, <1>10, <2>3, <2>4
<1>14. QED
  <2>1. CASE msg.op = "open" /\ x # Unregistered
    BY <1>6, <1>11, <2>1 DEF StartStream
  <2>2. CASE msg.op = "close" /\ x = Unregistered
    BY <1>6, <1>11, <2>2 DEF CloseById
  <2>3. QED
    BY <1>3, <1>12, <1>13, <2>1, <2>2

\* The connection goes down with all of its streams.
LEMMA TeardownInv ==
  ASSUME Inv, UNCHANGED muxVars, NEW n \in DOMAIN sock, Teardown(n)
  PROVE  Inv'
<1> DEFINE s == [sock[n] EXCEPT !.net = "cut", !.up = <<>>, !.down = <<>>]
           none == [i \in Id |-> Unregistered]
           c == [conn[n] EXCEPT !.state = "down", !.control = <<>>, !.streams = none]
           S == {k \in DOMAIN object : object[k].conn = n /\ Registered(k)}
<1>1. /\ sock \in Seq(Socket) /\ Len(sock) \in Nat /\ n \in 1..Len(sock) /\ sock[n] \in Socket
      /\ Len(sock) <= MaxSockets /\ n \in 1..MaxSockets /\ left \in Budget /\ left' = left
      /\ conn[n].state = "up"
  <2>1. sock \in Seq(Socket) /\ Len(sock) \in Nat /\ n \in 1..Len(sock) /\ sock[n] \in Socket /\ left \in Budget
    BY WorldFacts
  <2>2. Len(sock) <= MaxSockets /\ MaxSockets \in Nat
    BY BoundFacts DEF Inv
  <2>3. QED
    BY <2>1, <2>2 DEF Teardown
<1>2. sock' = [sock EXCEPT ![n] = s] /\ conn' = [conn EXCEPT ![n] = c] /\ object' = TornDown(object, S, FALSE)
  BY DEF Teardown
<1>3. s \in Socket /\ s.client = sock[n].client /\ s.net = "cut"
  <2>1. <<>> \in Seq(Message) /\ <<>> \in Seq(Frame)
    OBVIOUS
  <2>2. QED
    BY <1>1, <2>1 DEF Socket
<1>4. /\ conn \in [1..MaxSockets -> Conn] /\ conn[n] \in Conn
      /\ object \in Seq(Object)
      /\ \A k \in DOMAIN object : object[k] \in Object /\ object[k].conn \in 1..MaxSockets /\ object[k].id \in Id
  BY <1>1, ConnFacts
<1>5. c \in Conn /\ c.state = "down" /\ c.streams = none /\ \A i \in Id : c.streams[i] = Unregistered
  <2>1. none \in [Id -> Nat] /\ <<>> \in Seq(Frame)
    BY DEF Unregistered
  <2>2. QED
    BY <1>4, <2>1 DEF Conn
<1>6. /\ object' \in Seq(Object) /\ DOMAIN object' = DOMAIN object
      /\ \A k \in DOMAIN object :
           /\ object'[k].conn = object[k].conn /\ object'[k].id = object[k].id /\ object'[k].at = object[k].at
           /\ object'[k].process => object[k].process
           /\ k \in S /\ object'[k].process => object[k].at = "forked"
  <2>1. PICK late \in BOOLEAN : object' = TornDown(object, S, late)
    BY <1>2
  <2> HIDE DEF S
  <2>2. QED
    BY <1>4, <2>1, TornDownFacts
<1> HIDE DEF s, c
<1>7. /\ conn' \in [1..MaxSockets -> Conn]
      /\ \A m \in 1..MaxSockets : conn'[m] = IF m = n THEN c ELSE conn[m]
  BY <1>1, <1>2, <1>4, <1>5
<1>8. /\ sock' \in Seq(Socket) /\ Len(sock') = Len(sock) /\ sock'[n] = s
      /\ \A m \in 1..Len(sock) : m # n => sock'[m] = sock[m]
  BY <1>1, <1>2, <1>3
<1>9. ConnTypeOK'
  BY <1>6, <1>7 DEF ConnTypeOK
<1>10. Resolves'
  BY <1>6 DEF Inv, Resolves
<1>11. Unreached'
  BY <1>5, <1>7 DEF Inv, Unreached
<1>12. NoStrayProcess'
  <2>1. SUFFICES ASSUME NEW k \in DOMAIN object, object'[k].process, object'[k].at # "forked"
                 PROVE  conn'[object'[k].conn].streams[object'[k].id] = k
    BY <1>6 DEF NoStrayProcess, Registered
  <2>2. object[k].process /\ object[k].at # "forked" /\ k \notin S
    BY <1>6, <2>1
  <2>3. Registered(k)
    BY <2>2 DEF Inv, NoStrayProcess
  <2>4. object[k].conn # n /\ object[k].conn \in 1..MaxSockets
    BY <1>4, <2>2, <2>3
  <2>5. conn'[object[k].conn] = conn[object[k].conn]
    BY <1>7, <2>4
  <2>6. QED
    BY <1>6, <2>3, <2>5 DEF Registered
<1>13. sock[n].net # "dialling"
  BY <1>1, WorldFacts DEF Good, Dialling
<1>14. ASSUME NEW m \in 1..Len(sock)
       PROVE  /\ sock'[m].client = sock[m].client
              /\ \/ sock'[m].net = "cut" /\ sock[m].net # "dialling"
                 \/ /\ sock'[m].net = sock[m].net
                    /\ sock[m].net = "dialling" => sock'[m].up = sock[m].up
                    /\ \A i \in Id : Releases(sock[m].up, conn[m].streams[i], i)
                                       => Releases(sock'[m].up, conn'[m].streams[i], i)
  <2>1. CASE m = n
    BY <1>3, <1>8, <1>13, <2>1
  <2>2. CASE m # n
    <3>1. m \in 1..MaxSockets
      BY <1>1, BoundFacts
    <3>2. sock'[m] = sock[m] /\ conn'[m] = conn[m]
      BY <1>7, <1>8, <2>2, <3>1
    <3>3. QED
      BY <3>2
  <2>3. QED
    BY <2>1, <2>2
<1>15. ASSUME NEW m \in 1..MaxSockets
       PROVE  conn'[m].state = conn[m].state \/ (m <= Len(sock) /\ sock'[m].net # "dialling")
  BY <1>1, <1>3, <1>7, <1>8
<1>16. QED
  BY <1>1, <1>8, <1>9, <1>10, <1>11, <1>12, <1>14, <1>15, DaemonInv

-----------------------------------------------------------------------------
(* Every step, and what follows *)

\* Every step keeps the invariant.
LEMMA NextInv ==
  ASSUME Inv, [Next]_vars
  PROVE  Inv'
<1>1. CASE Browser /\ UNCHANGED connVars
  BY <1>1, MountInv, UnmountInv, VisibilityInv, TimersInv, ReceiveInv, InboundInv, SocketOpenedInv,
     SocketEndsInv DEF Browser
<1>2. CASE Daemon /\ UNCHANGED muxVars
  BY <1>2, AcceptInv, ReadInv, TeardownInv, WriteInv, AttachEndsInv, AttachInv, PumpEndsInv DEF Daemon
<1>3. CASE \E n \in DOMAIN sock : Cut(n) /\ UNCHANGED <<muxVars, connVars>>
  BY <1>3, CutInv
<1>4. CASE UNCHANGED vars
  <2>1. UNCHANGED <<sock, left, mux, page, pane, conn, object>>
    BY <1>4 DEF vars, muxVars, connVars
  <2>2. Good(World)'
    BY <2>1 DEF Inv, Good, Dialling, GaveUp, World
  <2>3. TypeOK'
    BY <2>1 DEF Inv, TypeOK, WireTypeOK, MuxTypeOK, ConnTypeOK
  <2>4. QED
    BY <2>1, <2>2, <2>3 DEF Inv, Shows, Unreached, Resolves, NoStrayProcess, Registered
<1>5. QED
  BY <1>1, <1>2, <1>3, <1>4 DEF Next

\* The inductive invariant: what the lemmas above add up to.
THEOREM MuxInvariant == Spec => []Inv
<1>1. Init => Inv
  BY InitInv
<1>2. Inv /\ [Next]_vars => Inv'
  BY NextInv
<1>3. QED
  BY <1>1, <1>2, PTL DEF Spec

\* The mux, the sockets and the daemon's tables are of their types.
THEOREM MuxTypes == Spec => []TypeOK
<1>1. Inv => TypeOK
  BY DEF Inv
<1>2. QED
  BY <1>1, MuxInvariant, PTL

\* Suspension reaches the daemon (lib/relay-mux.ts:370 suspendLiveStreams): once its
\* close has been read, a stream that a hidden page gave up is not registered on the
\* open socket, whatever reconnects, resumes and attaches were under way.
THEOREM SuspendedIsReleasedAlways == Spec => []SuspendedIsReleased
<1>1. Inv => SuspendedIsReleased
  <2>1. SUFFICES ASSUME Inv, IsOpen(sock, mux.ws), sock[mux.ws].net = "ok", NEW i \in Id,
                        mux.stream[i] = "suspended", ~InTransit(mux.ws, "close", i)
                 PROVE  conn[mux.ws].streams[i] = Unregistered
    BY DEF SuspendedIsReleased, Current
  <2>2. Good(World) /\ World.mux = mux /\ World.sock = sock /\ sock \in Seq(Socket)
    BY <2>1, WorldFacts
  <2>3. Releases(sock[mux.ws].up, conn[mux.ws].streams[i], i)
    BY <2>1, <2>2 DEF Good, GaveUp
  <2>4. DOMAIN sock[mux.ws].up = 1..Len(sock[mux.ws].up)
    <3>1. mux.ws \in 1..Len(sock) /\ Len(sock) \in Nat
      BY <2>1, <2>2 DEF Good, IsOpen, NoSocket
    <3>2. sock[mux.ws] \in Socket
      BY <2>2, <3>1
    <3>3. QED
      BY <3>2 DEF Socket
  <2>5. QED
    BY <2>1, <2>3, <2>4 DEF Releases, InTransit
<1>2. QED
  BY <1>1, MuxInvariant, PTL

\* An attach client is owned (api/terminals_ws.go:764-812 publish-or-reap): it belongs
\* to the object registered under its id, or its goroutine is about to decide.
THEOREM NoStrayProcessAlways == Spec => []NoStrayProcess
<1>1. Inv => NoStrayProcess
  BY DEF Inv
<1>2. QED
  BY <1>1, MuxInvariant, PTL

-----------------------------------------------------------------------------
(* Live streams: messages to the daemon, and the closes it has to tell *)

Said(up, op, i) == \E j \in 1..Len(up) : up[j] = [op |-> op, id |-> i]

Once(q, i) == \E j \in 1..Len(q) : q[j] = Closed(i, "normal")
Twice(q, i) == \E j, l \in 1..Len(q) : j < l /\ q[j] = Closed(i, "normal") /\ q[l] = Closed(i, "normal")

\* No close of the stream is the last word on it.
Reopened(up, i) ==
  \A j \in 1..Len(up) : up[j] = [op |-> "close", id |-> i] =>
    \E l \in 1..Len(up) : j < l /\ up[l] = [op |-> "open", id |-> i]

\* A close on its way will find the stream registered.
WillClose(up, k, i) ==
  \E j \in 1..Len(up) :
    /\ up[j] = [op |-> "close", id |-> i]
    /\ k # Unregistered \/ \E l \in 1..Len(up) : l < j /\ up[l] = [op |-> "open", id |-> i]

\* What is known of stream i (st and echo at the mux, k at the daemon) by the
\* messages on their way up and the frames on their way down, h whether it may be
\* closed without a message: a live stream is registered, or a message will open
\* it, or it hears that it ended, of which an echo it awaits would eat one.
Serves(st, echo, k, up, q, h, i) ==
  /\ st = "live" => Reopened(up, i) /\ (k # Unregistered \/ Said(up, "open", i) \/ Once(q, i))
  /\ st = "live" /\ echo => k # Unregistered \/ Said(up, "open", i) \/ Twice(q, i)
  /\ echo /\ h => Once(q, i) \/ WillClose(up, k, i)

\* What is said stays said when messages are added.
LEMMA MoreSaid ==
  ASSUME NEW up \in Seq(Message), NEW more \in Seq(Message), NEW i, NEW op, NEW k
  PROVE  /\ Said(up, op, i) \/ Said(more, op, i) => Said(up \o more, op, i)
         /\ WillClose(up, k, i) => WillClose(up \o more, k, i)
         /\ Reopened(up, i) /\ ~Said(more, "close", i) => Reopened(up \o more, i)
<1> DEFINE all == up \o more
<1>1. /\ Len(all) = Len(up) + Len(more) /\ Len(up) \in Nat /\ Len(more) \in Nat
      /\ \A j \in 1..Len(up) : j \in 1..Len(all) /\ all[j] = up[j]
      /\ \A j \in 1..Len(more) : Len(up) + j \in 1..Len(all) /\ all[Len(up) + j] = more[j]
      /\ \A j \in 1..Len(all) : j \notin 1..Len(up) => j - Len(up) \in 1..Len(more) /\ all[j] = more[j - Len(up)]
  OBVIOUS
<1> HIDE DEF all
<1>2. Said(up, op, i) \/ Said(more, op, i) => Said(all, op, i)
  BY <1>1 DEF Said
<1>3. WillClose(up, k, i) => WillClose(all, k, i)
  <2>1. SUFFICES ASSUME WillClose(up, k, i) PROVE WillClose(all, k, i)
    OBVIOUS
  <2>2. PICK j \in 1..Len(up) :
          /\ up[j] = [op |-> "close", id |-> i]
          /\ k # Unregistered \/ \E l \in 1..Len(up) : l < j /\ up[l] = [op |-> "open", id |-> i]
    BY <2>1 DEF WillClose
  <2>3. QED
    BY <1>1, <2>2 DEF WillClose
<1>4. ASSUME Reopened(up, i), ~Said(more, "close", i)
      PROVE  Reopened(all, i)
  <2>1. SUFFICES ASSUME NEW j \in 1..Len(all), all[j] = [op |-> "close", id |-> i]
                 PROVE  \E l \in 1..Len(all) : j < l /\ all[l] = [op |-> "open", id |-> i]
    BY DEF Reopened
  <2>2. j \in 1..Len(up) /\ up[j] = [op |-> "close", id |-> i]
    BY <1>1, <1>4, <2>1 DEF Said
  <2>3. PICK l \in 1..Len(up) : j < l /\ up[l] = [op |-> "open", id |-> i]
    BY <1>4, <2>2 DEF Reopened
  <2>4. QED
    BY <1>1, <2>3
<1>5. QED
  BY <1>2, <1>3, <1>4 DEF all

\* A stream that is opened, or opened again.
LEMMA ServesOpened ==
  ASSUME NEW up \in Seq(Message), NEW more \in Seq(Message), NEW i, NEW k, NEW q, NEW h \in BOOLEAN,
         NEW st, NEW echo \in BOOLEAN, Serves(st, echo, k, up, q, h, i),
         Said(more, "open", i), ~Said(more, "close", i)
  PROVE  Serves("live", echo, k, up \o more, q, h, i)
<1> DEFINE all == up \o more
<1>1. Said(all, "open", i) /\ (WillClose(up, k, i) => WillClose(all, k, i))
  BY MoreSaid
<1>2. Reopened(all, i)
  <2>1. SUFFICES ASSUME NEW j \in 1..Len(all), all[j] = [op |-> "close", id |-> i]
                 PROVE  \E l \in 1..Len(all) : j < l /\ all[l] = [op |-> "open", id |-> i]
    BY DEF Reopened
  <2>2. PICK c \in 1..Len(more) : more[c] = [op |-> "open", id |-> i]
    BY DEF Said
  <2>3. /\ Len(all) = Len(up) + Len(more) /\ Len(up) \in Nat /\ Len(more) \in Nat
        /\ Len(up) + c \in 1..Len(all) /\ all[Len(up) + c] = more[c]
        /\ \A l \in 1..Len(all) : l \notin 1..Len(up) => l - Len(up) \in 1..Len(more) /\ all[l] = more[l - Len(up)]
    OBVIOUS
  <2> HIDE DEF all
  <2>4. j \in 1..Len(up)
    BY <2>1, <2>3 DEF Said
  <2>5. QED
    BY <2>2, <2>3, <2>4
<1> HIDE DEF all
<1>3. QED
  BY <1>1, <1>2 DEF Serves, all

\* A live stream that is given up: its close finds it registered, or it has ended.
LEMMA ServesSuspended ==
  ASSUME NEW up \in Seq(Message), NEW more \in Seq(Message), NEW i, NEW k, NEW q, NEW h \in BOOLEAN,
         NEW echo \in BOOLEAN, NEW echo2 \in BOOLEAN, Serves("live", echo, k, up, q, h, i), Said(more, "close", i)
  PROVE  Serves("suspended", echo2, k, up \o more, q, h, i)
<1> DEFINE all == up \o more
<1>1. CASE Once(q, i)
  BY <1>1 DEF Serves
<1>2. CASE ~Once(q, i)
  <2>1. PICK c \in 1..Len(more) : more[c] = [op |-> "close", id |-> i]
    BY DEF Said
  <2>2. /\ Len(all) = Len(up) + Len(more) /\ Len(up) \in Nat /\ Len(more) \in Nat
        /\ Len(up) + c \in 1..Len(all) /\ all[Len(up) + c] = more[c]
        /\ \A j \in 1..Len(up) : j \in 1..Len(all) /\ j < Len(up) + c /\ all[j] = up[j]
    OBVIOUS
  <2>3. k # Unregistered \/ Said(up, "open", i)
    BY <1>2 DEF Serves
  <2> HIDE DEF all
  <2>4. WillClose(all, k, i)
    <3>1. CASE k # Unregistered
      BY <2>1, <2>2, <3>1 DEF WillClose
    <3>2. CASE Said(up, "open", i)
      <4>1. PICK l \in 1..Len(up) : up[l] = [op |-> "open", id |-> i]
        BY <3>2 DEF Said
      <4>2. l \in 1..Len(all) /\ l < Len(up) + c /\ all[l] = [op |-> "open", id |-> i]
        BY <2>2, <4>1
      <4>3. QED
        BY <2>1, <2>2, <4>2 DEF WillClose
    <3>3. QED
      BY <2>3, <3>1, <3>2
  <2>5. QED
    BY <2>4 DEF Serves, all
<1>3. QED
  BY <1>1, <1>2

\* Messages of other streams, and a stream and a mux that ask for less.
LEMMA ServesMore ==
  ASSUME NEW up \in Seq(Message), NEW more \in Seq(Message), NEW i, NEW k, NEW q, NEW h \in BOOLEAN,
         NEW st, NEW echo \in BOOLEAN, Serves(st, echo, k, up, q, h, i), ~Said(more, "close", i)
  PROVE  Serves(st, echo, k, up \o more, q, h, i)
BY MoreSaid DEF Serves

\* A stream that is given up, an echo that arrived, an end that is ruled out: less is asked.
LEMMA ServesLess ==
  ASSUME NEW up, NEW i, NEW k, NEW q, NEW h \in BOOLEAN, NEW h2 \in BOOLEAN,
         NEW st, NEW st2, NEW echo \in BOOLEAN, NEW echo2 \in BOOLEAN, Serves(st, echo, k, up, q, h, i),
         st2 = "live" => st = "live", echo2 => echo, h2 => h
  PROVE  Serves(st2, echo2, k, up, q, h2, i)
BY DEF Serves

\* The queue: a frame is appended, another one is put in, the first is taken.
LEMMA QueueGrows ==
  ASSUME NEW a \in Seq(Frame), NEW b \in Seq(Frame), NEW x \in Frame, NEW i
  PROVE  LET q == a \o b
             r == a \o Append(b, x)
         IN /\ Once(q, i) => Once(r, i)
            /\ Twice(q, i) => Twice(r, i)
            /\ x = Closed(i, "normal") => Once(r, i) /\ (Once(q, i) => Twice(r, i))
<1> DEFINE q == a \o b
           r == a \o Append(b, x)
<1>1. /\ Len(q) \in Nat /\ Len(r) = Len(q) + 1 /\ r[Len(q) + 1] = x
      /\ \A j \in 1..Len(q) : r[j] = q[j]
  OBVIOUS
<1> HIDE DEF q, r
<1>2. Once(q, i) => Once(r, i)
  BY <1>1 DEF Once
<1>3. Twice(q, i) => Twice(r, i)
  BY <1>1 DEF Twice
<1>4. ASSUME x = Closed(i, "normal")
      PROVE  Once(r, i) /\ (Once(q, i) => Twice(r, i))
  <2>1. Len(q) + 1 \in 1..Len(r) /\ r[Len(q) + 1] = Closed(i, "normal")
    BY <1>1, <1>4
  <2>2. ASSUME Once(q, i) PROVE Twice(r, i)
    <3>1. PICK j \in 1..Len(q) : q[j] = Closed(i, "normal")
      BY <2>2 DEF Once
    <3>2. j \in 1..Len(r) /\ j < Len(q) + 1 /\ r[j] = Closed(i, "normal")
      BY <1>1, <3>1
    <3>3. QED
      BY <2>1, <3>2 DEF Twice
  <2>3. QED
    BY <2>1, <2>2 DEF Once
<1>5. QED
  BY <1>2, <1>3, <1>4 DEF q, r

\* A frame is put in between.
LEMMA QueueInserted ==
  ASSUME NEW a \in Seq(Frame), NEW b \in Seq(Frame), NEW x \in Frame, NEW i
  PROVE  LET q == a \o b
             r == Append(a, x) \o b
         IN (Once(q, i) => Once(r, i)) /\ (Twice(q, i) => Twice(r, i))
<1> DEFINE q == a \o b
           r == Append(a, x) \o b
           at(j) == IF j <= Len(a) THEN j ELSE j + 1
<1>1. /\ Len(q) \in Nat /\ Len(a) \in Nat /\ Len(q) >= Len(a) /\ Len(r) = Len(q) + 1
      /\ \A j \in 1..Len(q) : at(j) \in 1..Len(r) /\ r[at(j)] = q[j]
  OBVIOUS
<1>2. \A j, l \in 1..Len(q) : j < l => at(j) < at(l)
  BY <1>1
<1> HIDE DEF q, r, at
<1>3. Once(q, i) => Once(r, i)
  BY <1>1 DEF Once
<1>4. Twice(q, i) => Twice(r, i)
  BY <1>1, <1>2 DEF Twice
<1>5. QED
  BY <1>3, <1>4 DEF q, r

\* A frame is moved from one queue to the next.
LEMMA QueueMoves ==
  ASSUME NEW a \in Seq(Frame), NEW b \in Seq(Frame), b # <<>>
  PROVE  Append(a, Head(b)) \o Tail(b) = a \o b
OBVIOUS

\* A frame is taken: of two closes one is left.
LEMMA QueueTaken ==
  ASSUME NEW a \in Seq(Frame), NEW b \in Seq(Frame), a # <<>>, NEW i
  PROVE  LET q == a \o b
             r == Tail(a) \o b
         IN /\ Twice(q, i) => Once(r, i)
            /\ Head(a) # Closed(i, "normal") => (Once(q, i) => Once(r, i)) /\ (Twice(q, i) => Twice(r, i))
<1> DEFINE q == a \o b
           r == Tail(a) \o b
<1>1. /\ Len(r) \in Nat /\ Len(q) = Len(r) + 1 /\ Head(a) = q[1]
      /\ \A j \in 1..Len(r) : r[j] = q[j + 1]
  OBVIOUS
<1> HIDE DEF q, r
<1>2. \A j \in 1..Len(q) : j # 1 => j - 1 \in 1..Len(r) /\ r[j - 1] = q[j]
  <2>1. SUFFICES ASSUME NEW j \in 1..Len(q), j # 1 PROVE j - 1 \in 1..Len(r) /\ r[j - 1] = q[j]
    OBVIOUS
  <2>2. j - 1 \in 1..Len(r) /\ (j - 1) + 1 = j
    BY <1>1, <2>1
  <2>3. r[j - 1] = q[(j - 1) + 1]
    BY <1>1, <2>2
  <2>4. QED
    BY <2>2, <2>3
<1>3. ASSUME Twice(q, i) PROVE Once(r, i)
  <2>1. PICK j, l \in 1..Len(q) : j < l /\ q[l] = Closed(i, "normal")
    BY <1>3 DEF Twice
  <2>2. l # 1
    BY <1>1, <2>1
  <2>3. QED
    BY <1>2, <2>1, <2>2 DEF Once
<1>4. ASSUME Head(a) # Closed(i, "normal"), Once(q, i) PROVE Once(r, i)
  <2>1. PICK j \in 1..Len(q) : q[j] = Closed(i, "normal")
    BY <1>4 DEF Once
  <2>2. j # 1
    BY <1>1, <1>4, <2>1
  <2>3. QED
    BY <1>2, <2>1, <2>2 DEF Once
<1>5. ASSUME Head(a) # Closed(i, "normal"), Twice(q, i) PROVE Twice(r, i)
  <2>1. PICK j, l \in 1..Len(q) : j < l /\ q[j] = Closed(i, "normal") /\ q[l] = Closed(i, "normal")
    BY <1>5 DEF Twice
  <2>2. j # 1 /\ l # 1
    BY <1>1, <1>5, <2>1
  <2>3. /\ j - 1 \in 1..Len(r) /\ r[j - 1] = q[j]
        /\ l - 1 \in 1..Len(r) /\ r[l - 1] = q[l] /\ j - 1 < l - 1
    BY <1>1, <1>2, <2>1, <2>2
  <2>4. QED
    BY <2>1, <2>3 DEF Twice
<1>6. QED
  BY <1>3, <1>4, <1>5 DEF q, r

\* The queue tells no less than it did.
LEMMA ServesQueue ==
  ASSUME NEW up, NEW i, NEW k, NEW q, NEW r, NEW h \in BOOLEAN, NEW h2 \in BOOLEAN,
         NEW st, NEW echo \in BOOLEAN, Serves(st, echo, k, up, q, h, i),
         Once(q, i) => Once(r, i), Twice(q, i) => Twice(r, i), h2 => h
  PROVE  Serves(st, echo, k, up, r, h2, i)
BY DEF Serves

\* A live stream that may be closed without a message, and awaits an echo, has been
\* told of a close, or a message will open it.
LEMMA EchoTold ==
  ASSUME NEW up, NEW i, NEW k, NEW q, Serves("live", TRUE, k, up, q, TRUE, i)
  PROVE  Once(q, i) \/ Said(up, "open", i)
<1>1. CASE Once(q, i)
  BY <1>1
<1>2. CASE WillClose(up, k, i)
  <2>1. PICK j \in 1..Len(up) : up[j] = [op |-> "close", id |-> i]
    BY <1>2 DEF WillClose
  <2>2. QED
    BY <2>1 DEF Serves, Reopened, Said
<1>3. QED
  BY <1>1, <1>2 DEF Serves

\* What the messages that are left say, when the first is read.
LEMMA RestFacts ==
  ASSUME NEW up \in Seq(Message), up # <<>>
  PROVE  /\ Len(up) \in Nat /\ Len(up) > 0 /\ Len(Tail(up)) = Len(up) - 1 /\ Head(up) = up[1]
         /\ \A j \in 1..Len(Tail(up)) : j + 1 \in 1..Len(up) /\ Tail(up)[j] = up[j + 1]
         /\ \A l \in 1..Len(up) : l > 1 => l - 1 \in 1..Len(Tail(up)) /\ Tail(up)[l - 1] = up[l]
<1> DEFINE rest == Tail(up)
<1>1. /\ Len(up) \in Nat /\ Len(up) > 0 /\ Len(rest) = Len(up) - 1 /\ Head(up) = up[1]
      /\ \A j \in 1..Len(rest) : j + 1 \in 1..Len(up) /\ rest[j] = up[j + 1]
  OBVIOUS
<1> HIDE DEF rest
<1>2. \A l \in 1..Len(up) : l > 1 => l - 1 \in 1..Len(rest) /\ rest[l - 1] = up[l]
  <2>1. SUFFICES ASSUME NEW l \in 1..Len(up), l > 1 PROVE l - 1 \in 1..Len(rest) /\ rest[l - 1] = up[l]
    OBVIOUS
  <2>2. l - 1 \in 1..Len(rest) /\ (l - 1) + 1 = l
    BY <1>1, <2>1
  <2>3. rest[l - 1] = up[(l - 1) + 1]
    BY <1>1, <2>2
  <2>4. QED
    BY <2>2, <2>3
<1>3. QED
  BY <1>1, <1>2 DEF rest

\* A close that was followed by an open still is.
LEMMA RestReopened ==
  ASSUME NEW up \in Seq(Message), up # <<>>, NEW i
  PROVE  Reopened(up, i) => Reopened(Tail(up), i)
<1> DEFINE rest == Tail(up)
<1>1. SUFFICES ASSUME Reopened(up, i), NEW j \in 1..Len(rest), rest[j] = [op |-> "close", id |-> i]
               PROVE  \E l \in 1..Len(rest) : j < l /\ rest[l] = [op |-> "open", id |-> i]
  BY DEF Reopened
<1>2. /\ Len(up) \in Nat /\ Len(up) > 0 /\ Len(rest) = Len(up) - 1
      /\ \A m \in 1..Len(rest) : m + 1 \in 1..Len(up) /\ rest[m] = up[m + 1]
      /\ \A l \in 1..Len(up) : l > 1 => l - 1 \in 1..Len(rest) /\ rest[l - 1] = up[l]
  BY RestFacts
<1> HIDE DEF rest
<1>3. j + 1 \in 1..Len(up) /\ up[j + 1] = [op |-> "close", id |-> i]
  BY <1>1, <1>2
<1>4. PICK l \in 1..Len(up) : j + 1 < l /\ up[l] = [op |-> "open", id |-> i]
  BY <1>1, <1>3 DEF Reopened
<1>5. l > 1 /\ j < l - 1
  BY <1>2, <1>4
<1>6. QED
  BY <1>2, <1>4, <1>5

\* An open is still to come, unless it was the one that was read.
LEMMA RestSaid ==
  ASSUME NEW up \in Seq(Message), up # <<>>, NEW i, Said(up, "open", i), Head(up) # [op |-> "open", id |-> i]
  PROVE  Said(Tail(up), "open", i)
<1> DEFINE rest == Tail(up)
<1>0. /\ Len(up) \in Nat /\ Len(up) > 0 /\ Head(up) = up[1]
      /\ \A l \in 1..Len(up) : l > 1 => l - 1 \in 1..Len(rest) /\ rest[l - 1] = up[l]
  BY RestFacts
<1> HIDE DEF rest
<1>1. PICK l \in 1..Len(up) : up[l] = [op |-> "open", id |-> i]
  BY DEF Said
<1>2. l > 1
  BY <1>0, <1>1
<1>3. QED
  BY <1>0, <1>1, <1>2 DEF Said, rest

\* Behind the close that was read an open is to come.
LEMMA RestOpens ==
  ASSUME NEW up \in Seq(Message), up # <<>>, NEW i, Reopened(up, i), Head(up) = [op |-> "close", id |-> i]
  PROVE  Said(Tail(up), "open", i)
<1> DEFINE rest == Tail(up)
<1>0. /\ Len(up) \in Nat /\ Len(up) > 0 /\ Head(up) = up[1]
      /\ \A l \in 1..Len(up) : l > 1 => l - 1 \in 1..Len(rest) /\ rest[l - 1] = up[l]
  BY RestFacts
<1> HIDE DEF rest
<1>1. 1 \in 1..Len(up) /\ up[1] = [op |-> "close", id |-> i]
  BY <1>0
<1>2. PICK l \in 1..Len(up) : 1 < l /\ up[l] = [op |-> "open", id |-> i]
  BY <1>1 DEF Reopened
<1>3. QED
  BY <1>0, <1>2 DEF Said, rest

\* A close on its way is, unless it was read, still on its way to a registered stream.
LEMMA RestCloses ==
  ASSUME NEW up \in Seq(Message), up # <<>>, NEW i, NEW k, NEW k2, WillClose(up, k, i),
         Head(up) = [op |-> "open", id |-> i] => k2 # Unregistered,
         Head(up) = [op |-> "close", id |-> i] => k = Unregistered,
         Head(up) # [op |-> "close", id |-> i] => (k # Unregistered => k2 # Unregistered)
  PROVE  WillClose(Tail(up), k2, i)
<1> DEFINE rest == Tail(up)
<1>1. /\ Len(up) \in Nat /\ Len(up) > 0 /\ Head(up) = up[1]
      /\ \A l \in 1..Len(up) : l > 1 => l - 1 \in 1..Len(rest) /\ rest[l - 1] = up[l]
  BY RestFacts
<1> HIDE DEF rest
<1>2. PICK j \in 1..Len(up) :
        /\ up[j] = [op |-> "close", id |-> i]
        /\ k # Unregistered \/ \E l \in 1..Len(up) : l < j /\ up[l] = [op |-> "open", id |-> i]
  BY DEF WillClose
<1>3. j > 1
  <2>1. SUFFICES ASSUME j = 1 PROVE FALSE
    BY <1>1
  <2>2. Head(up) = [op |-> "close", id |-> i]
    BY <1>1, <1>2, <2>1
  <2>3. k # Unregistered
    BY <1>1, <1>2, <2>1
  <2>4. QED
    BY <2>2, <2>3
<1>4. j - 1 \in 1..Len(rest) /\ rest[j - 1] = [op |-> "close", id |-> i]
  BY <1>1, <1>2, <1>3
<1>5. CASE k2 # Unregistered
  BY <1>4, <1>5 DEF WillClose, rest
<1>6. CASE k2 = Unregistered
  <2>1. Head(up) # [op |-> "open", id |-> i]
    BY <1>6
  <2>2. k = Unregistered
    BY <1>6
  <2>3. PICK l \in 1..Len(up) : l < j /\ up[l] = [op |-> "open", id |-> i]
    BY <1>2, <2>2
  <2>4. l > 1
    BY <1>1, <2>1, <2>3
  <2>5. l - 1 \in 1..Len(rest) /\ rest[l - 1] = [op |-> "open", id |-> i] /\ l - 1 < j - 1
    BY <1>1, <2>3, <2>4
  <2>6. QED
    BY <1>4, <2>5 DEF WillClose, rest
<1>7. QED
  BY <1>5, <1>6

-----------------------------------------------------------------------------
(* Live streams: what the operators of the mux make of them *)

\* What may close a stream without a message: an end of its own, or the pump of an
\* object that had its id before.
Haunted(n, i) ==
  \/ left.ends > 0
  \/ \E k \in DOMAIN object : object[k].conn = n /\ object[k].id = i /\ object[k].torn /\ object[k].pump

Reach(w) == IsOpen(w.sock, w.mux.ws) /\ w.sock[w.mux.ws].net = "ok"

\* What is known of a stream once the messages `more` have been sent.
ServesIn(w, more, i) ==
  Serves(w.mux.stream[i], w.mux.echo[i], conn[w.mux.ws].streams[i], w.sock[w.mux.ws].up \o more,
         w.sock[w.mux.ws].down \o conn[w.mux.ws].control, Haunted(w.mux.ws, i), i)

Normal(q) == \A j \in 1..Len(q) : q[j].op = "closed" => q[j].code = "normal"

Sound(w) ==
  \A n \in 1..Len(w.sock) :
    Normal(w.sock[n].down) /\ (w.sock[n].net = "ok" => conn[n].state # "down")

Silent(w) == \A i \in Id : w.mux.stream[i] = "absent" => ~w.mux.echo[i]

\* While an attach client may end by itself, nothing is cut: one socket, which stays.
Steady(w) ==
  /\ left.cuts = 0 /\ Len(w.sock) <= 1 /\ w.mux.ws = Len(w.sock)
  /\ \A n \in 1..Len(w.sock) : w.sock[n].client \in {"connecting", "open"} /\ w.sock[n].net # "cut"
  /\ ~OnOpen(w) => ~w.mux.probe /\ \A i \in Id : ~w.mux.echo[i]

Served(w, more) ==
  /\ Reach(w) => \A i \in Id : ServesIn(w, more, i)
  /\ Sound(w) /\ Silent(w)
  /\ left.ends > 0 => Steady(w)

\* Each(op, S) says op of the streams of S, and nothing else.
LEMMA EachSaid ==
  ASSUME NEW op \in {"open", "close"}, NEW S \in SUBSET Id, NEW op2, NEW i
  PROVE  Said(Each(op, S), op2, i) <=> op2 = op /\ i \in S
<1> DEFINE r == Each(op, S)
<1>1. /\ \A j \in 1..Len(r) : r[j].op = op /\ r[j].id \in S
      /\ \A s \in S : \E j \in 1..Len(r) : r[j] = [op |-> op, id |-> s]
  BY EachFacts
<1> HIDE DEF r
<1>2. ASSUME Said(r, op2, i) PROVE op2 = op /\ i \in S
  <2>1. PICK j \in 1..Len(r) : r[j] = [op |-> op2, id |-> i]
    BY <1>2 DEF Said
  <2>2. r[j].op = op2 /\ r[j].id = i
    BY <2>1
  <2>3. QED
    BY <1>1, <2>2
<1>3. ASSUME op2 = op, i \in S PROVE Said(r, op2, i)
  BY <1>1, <1>3 DEF Said
<1>4. QED
  BY <1>2, <1>3 DEF r

Shaped(w) == w \in Worlds /\ w.mux.ws \in 0..Len(w.sock)

\* A good world is of the right shape.
LEMMA GoodShaped == \A w : Good(w) => Shaped(w)
BY DEF Good, Shaped

\* The types of a world of that shape.
LEMMA WorldTypes ==
  ASSUME NEW w, Shaped(w)
  PROVE  /\ w \in Worlds /\ w.mux \in Mux /\ w.sock \in Seq(Socket) /\ Len(w.sock) \in Nat
         /\ w.mux.ws \in 0..Len(w.sock)
         /\ w.mux.stream \in [Id -> {"absent", "live", "suspended"}] /\ w.mux.echo \in [Id -> BOOLEAN]
         /\ \A n \in 1..Len(w.sock) :
              w.sock[n] \in Socket /\ w.sock[n].up \in Seq(Message) /\ w.sock[n].down \in Seq(Frame)
         /\ Reach(w) => w.mux.ws \in 1..Len(w.sock)
<1>1. /\ w \in Worlds /\ w.mux \in Mux /\ w.sock \in Seq(Socket) /\ Len(w.sock) \in Nat
      /\ w.mux.ws \in 0..Len(w.sock)
  BY DEF Shaped, Worlds
<1>2. \A n \in 1..Len(w.sock) : w.sock[n] \in Socket
  BY <1>1
<1>3. QED
  BY <1>1, <1>2 DEF Mux, Socket, Reach, IsOpen, NoSocket

\* Haunted is a truth value.
LEMMA HauntedType == \A n, i : Haunted(n, i) \in BOOLEAN
BY DEF Haunted

\* The sockets are closed or cut at most, and the mux awaits no more.
LEMMA ServedEases ==
  ASSUME NEW w, Shaped(w), NEW more, Served(w, more), NEW v \in Worlds,
         v.mux.ws \in {w.mux.ws, NoSocket},
         \A i \in Id : /\ v.mux.stream[i] = "live" => w.mux.stream[i] = "live"
                       /\ v.mux.echo[i] => w.mux.echo[i],
         Silent(v), Len(v.sock) = Len(w.sock),
         \A n \in 1..Len(w.sock) :
           /\ v.sock[n].client \in {w.sock[n].client, "closing", "closed"}
           /\ \/ /\ v.sock[n].net = w.sock[n].net /\ v.sock[n].up = w.sock[n].up
                 /\ v.sock[n].down = w.sock[n].down
              \/ v.sock[n].net = "cut" /\ v.sock[n].down = <<>>,
         left.ends > 0 => Steady(v)
  PROVE  Served(v, more)
<1>1. /\ Len(w.sock) \in Nat /\ w.mux.echo \in [Id -> BOOLEAN] /\ w.mux.ws \in 0..Len(w.sock)
      /\ v.mux.echo \in [Id -> BOOLEAN]
  BY WorldTypes DEF Worlds, Mux
<1>2. Sound(v)
  <2>1. SUFFICES ASSUME NEW n \in 1..Len(w.sock)
                 PROVE  Normal(v.sock[n].down) /\ (v.sock[n].net = "ok" => conn[n].state # "down")
    BY DEF Sound
  <2>2. Normal(w.sock[n].down) /\ (w.sock[n].net = "ok" => conn[n].state # "down")
    BY DEF Served, Sound
  <2>3. Normal(<<>>)
    BY DEF Normal
  <2>4. QED
    BY <2>2, <2>3
<1>3. ASSUME Reach(v), NEW i \in Id
      PROVE  ServesIn(v, more, i)
  <2>1. v.mux.ws = w.mux.ws /\ w.mux.ws \in 1..Len(w.sock) /\ v.sock[w.mux.ws].client = "open" /\ v.sock[w.mux.ws].net = "ok"
    BY <1>1, <1>3 DEF Reach, IsOpen, NoSocket
  <2>2. /\ Reach(w) /\ v.sock[w.mux.ws].up = w.sock[w.mux.ws].up
        /\ v.sock[w.mux.ws].down = w.sock[w.mux.ws].down
    BY <1>3, <2>1 DEF Reach, IsOpen
  <2>3. ServesIn(w, more, i)
    BY <2>2 DEF Served
  <2>4. /\ w.mux.echo[i] \in BOOLEAN /\ v.mux.echo[i] \in BOOLEAN
        /\ v.mux.stream[i] = "live" => w.mux.stream[i] = "live"
        /\ v.mux.echo[i] => w.mux.echo[i]
    BY <1>1
  <2> DEFINE up == w.sock[w.mux.ws].up \o more
             q == w.sock[w.mux.ws].down \o conn[w.mux.ws].control
             k == conn[w.mux.ws].streams[i]
             h == Haunted(w.mux.ws, i)
  <2>5. h \in BOOLEAN
    BY HauntedType
  <2>6. Serves(w.mux.stream[i], w.mux.echo[i], k, up, q, h, i)
    BY <2>3 DEF ServesIn
  <2>7. ServesIn(v, more, i) = Serves(v.mux.stream[i], v.mux.echo[i], k, up, q, h, i)
    BY <2>1, <2>2 DEF ServesIn
  <2> HIDE DEF up, q, k, h
  <2>8. QED
    BY <2>4, <2>5, <2>6, <2>7, ServesLess
<1>4. QED
  BY <1>2, <1>3 DEF Served

\* Timers and pings.
LEMMA ServedFlags ==
  ASSUME NEW w, Shaped(w), NEW more, Served(w, more), NEW v, NEW m \in Mux, v = [w EXCEPT !.mux = m],
         m.ws = w.mux.ws, m.stream = w.mux.stream, m.echo = w.mux.echo,
         m.probe => w.mux.probe \/ OnOpen(w)
  PROVE  Served(v, more)
<1>1. w \in Worlds /\ v = [mux |-> m, sock |-> w.sock]
  BY DEF Shaped, Worlds
<1>2. v \in Worlds /\ v.mux = m /\ v.sock = w.sock
  BY <1>1 DEF Worlds
<1>3. Silent(v) /\ (left.ends > 0 => Steady(v))
  BY <1>2 DEF Served, Silent, Steady, OnOpen
<1>4. QED
  BY <1>2, <1>3, ServedEases

\* The heartbeat is stopped: nothing is probed.
LEMMA StopHeartbeatServed ==
  ASSUME NEW w, Shaped(w), NEW more, Served(w, more)
  PROVE  Served(StopHeartbeat(w), more)
<1> DEFINE m == [w.mux EXCEPT !.beat = FALSE, !.ping = NoPing, !.probe = FALSE]
<1>1. w \in Worlds /\ w.mux \in Mux
  BY WorldTypes
<1>2. m \in Mux /\ m.ws = w.mux.ws /\ m.stream = w.mux.stream /\ m.echo = w.mux.echo /\ ~m.probe
  BY <1>1 DEF Mux
<1>3. StopHeartbeat(w) = [w EXCEPT !.mux = m]
  BY <1>1 DEF StopHeartbeat, Worlds
<1> HIDE DEF m
<1>4. QED
  BY <1>2, <1>3, ServedFlags

\* The heartbeat is started or stopped.
LEMMA SyncHeartbeatServed ==
  ASSUME NEW w, Shaped(w), NEW more, Served(w, more)
  PROVE  Served(SyncHeartbeat(w), more)
<1> DEFINE m == [w.mux EXCEPT !.beat = TRUE, !.ping = NoPing]
           begun == [w EXCEPT !.mux = m]
<1>1. w \in Worlds /\ w.mux \in Mux
  BY WorldTypes
<1>2. m \in Mux /\ m.ws = w.mux.ws /\ m.stream = w.mux.stream /\ m.echo = w.mux.echo /\ m.probe = w.mux.probe
  BY <1>1 DEF Mux
<1>3. [w EXCEPT !.mux.beat = TRUE, !.mux.ping = NoPing] = begun
  BY <1>1 DEF Worlds
<1>4. SyncHeartbeat(w) \in {begun, StopHeartbeat(w), w}
  BY <1>3 DEF SyncHeartbeat
<1> HIDE DEF m
<1>5. Served(begun, more)
  BY <1>2, ServedFlags
<1> HIDE DEF begun
<1>6. QED
  BY <1>4, <1>5, StopHeartbeatServed

\* A timer is set or cleared, a ping grows older.
LEMMA FlagsServed ==
  ASSUME NEW w, Shaped(w), NEW more, Served(w, more), NEW b \in BOOLEAN, NEW age \in {NoPing} \cup 0..2
  PROVE  /\ Served([w EXCEPT !.mux.grace = b], more)
         /\ Served([w EXCEPT !.mux.timer = b], more)
         /\ Served([w EXCEPT !.mux.probe = FALSE], more)
         /\ Served([w EXCEPT !.mux.ping = age], more)
<1> DEFINE m1 == [w.mux EXCEPT !.grace = b]
           m2 == [w.mux EXCEPT !.timer = b]
           m3 == [w.mux EXCEPT !.probe = FALSE]
           m4 == [w.mux EXCEPT !.ping = age]
<1>1. w \in Worlds /\ w.mux \in Mux
  BY WorldTypes
<1>2. \A m \in {m1, m2, m3, m4} : /\ m \in Mux /\ m.ws = w.mux.ws /\ m.stream = w.mux.stream
                                  /\ m.echo = w.mux.echo /\ (m.probe => w.mux.probe)
  <2>1. \A m \in {m1, m2} : /\ m \in Mux /\ m.ws = w.mux.ws /\ m.stream = w.mux.stream
                            /\ m.echo = w.mux.echo /\ m.probe = w.mux.probe
    BY <1>1 DEF Mux
  <2>2. /\ m3 \in Mux /\ m3.ws = w.mux.ws /\ m3.stream = w.mux.stream
        /\ m3.echo = w.mux.echo /\ m3.probe = FALSE
    BY <1>1 DEF Mux
  <2>3. /\ m4 \in Mux /\ m4.ws = w.mux.ws /\ m4.stream = w.mux.stream
        /\ m4.echo = w.mux.echo /\ m4.probe = w.mux.probe
    BY <1>1 DEF Mux
  <2> HIDE DEF m1, m2, m3, m4
  <2>4. QED
    BY <2>1, <2>2, <2>3
<1>3. /\ [w EXCEPT !.mux.grace = b] = [w EXCEPT !.mux = m1]
      /\ [w EXCEPT !.mux.timer = b] = [w EXCEPT !.mux = m2]
      /\ [w EXCEPT !.mux.probe = FALSE] = [w EXCEPT !.mux = m3]
      /\ [w EXCEPT !.mux.ping = age] = [w EXCEPT !.mux = m4]
  OBVIOUS
<1> HIDE DEF m1, m2, m3, m4
<1>4. /\ Served([w EXCEPT !.mux = m1], more) /\ Served([w EXCEPT !.mux = m2], more)
      /\ Served([w EXCEPT !.mux = m3], more) /\ Served([w EXCEPT !.mux = m4], more)
  BY <1>2, ServedFlags
<1>5. QED
  BY <1>3, <1>4

\* A new socket is not open yet.
LEMMA ConnectServed ==
  ASSUME NEW w, Shaped(w), NEW more, Served(w, more)
  PROVE  Served(Connect(w), more)
<1> DEFINE v == Connect(w)
           fresh == Len(w.sock) + 1
<1>0. CASE w.mux.ws # NoSocket /\ w.sock[w.mux.ws].client \in {"open", "connecting"}
  BY <1>0 DEF Connect
<1>1. CASE ~(w.mux.ws # NoSocket /\ w.sock[w.mux.ws].client \in {"open", "connecting"})
  <2>1. w \in Worlds /\ w.mux \in Mux /\ w.sock \in Seq(Socket) /\ Len(w.sock) \in Nat
    BY WorldTypes
  <2>2. v = [w EXCEPT !.sock = Append(w.sock, Dialled), !.mux = [w.mux EXCEPT !.ws = fresh]]
    BY <1>1 DEF Connect
  <2>3. v.sock = Append(w.sock, Dialled) /\ v.mux = [w.mux EXCEPT !.ws = fresh]
    BY <2>1, <2>2 DEF Worlds
  <2>4. /\ v.mux.ws = fresh /\ v.mux.stream = w.mux.stream /\ v.mux.echo = w.mux.echo
        /\ v.mux.probe = w.mux.probe
    BY <2>1, <2>3 DEF Mux
  <2>5. /\ Len(v.sock) = fresh /\ v.sock[fresh] = Dialled
        /\ \A n \in 1..Len(w.sock) : v.sock[n] = w.sock[n]
        /\ \A n \in 1..Len(v.sock) : n = fresh \/ n \in 1..Len(w.sock)
    BY <2>1, <2>3
  <2> HIDE DEF v
  <2>6. Dialled.client = "connecting" /\ Dialled.net = "dialling" /\ Dialled.down = <<>>
    BY DEF Dialled
  <2>7. ~Reach(v) /\ ~OnOpen(v)
    BY <2>4, <2>5, <2>6 DEF Reach, OnOpen, IsOpen
  <2>8. Sound(v)
    BY <2>5, <2>6 DEF Served, Sound, Normal
  <2>9. Silent(v)
    BY <2>4 DEF Served, Silent
  <2>10. ASSUME left.ends > 0 PROVE Steady(v)
    <3>1. Steady(w)
      BY <2>10 DEF Served
    <3>2. w.mux.ws = Len(w.sock) /\ ~(w.mux.ws \in 1..Len(w.sock))
      <4>1. SUFFICES ASSUME w.mux.ws \in 1..Len(w.sock) PROVE FALSE
        BY <3>1 DEF Steady
      <4>2. w.mux.ws # NoSocket /\ w.sock[w.mux.ws].client \in {"open", "connecting"}
        BY <3>1, <4>1 DEF Steady, NoSocket
      <4>3. QED
        BY <1>1, <4>2
    <3>3. Len(w.sock) = 0 /\ fresh = 1
      BY <2>1, <3>2
    <3>4. ~OnOpen(w)
      BY <3>2, <3>3 DEF OnOpen, IsOpen, NoSocket
    <3>5. QED
      BY <2>4, <2>5, <2>6, <3>1, <3>3, <3>4 DEF Steady
  <2>11. QED
    BY <2>7, <2>8, <2>9, <2>10 DEF Served, v
<1>2. QED
  BY <1>0, <1>1

\* A socket ends: not while nothing is cut.
LEMMA ScheduleReconnectServed ==
  ASSUME NEW w, Shaped(w), NEW more, Served(w, more), ~(left.ends > 0)
  PROVE  Served(ScheduleReconnect(w), more)
<1> DEFINE idle == [w.mux EXCEPT !.ws = NoSocket]
           v == [w EXCEPT !.mux = idle]
           waits == [w EXCEPT !.mux.timer = TRUE]
<1>1. w \in Worlds /\ w.mux \in Mux /\ Len(w.sock) \in Nat
  BY WorldTypes
<1>2. idle \in Mux /\ idle.ws = NoSocket /\ idle.stream = w.mux.stream /\ idle.echo = w.mux.echo
  BY <1>1 DEF Mux, NoSocket
<1>3. ScheduleReconnect(w) \in {w, v, waits}
  BY DEF ScheduleReconnect
<1>4. v = [mux |-> idle, sock |-> w.sock]
  BY <1>1 DEF Worlds
<1> HIDE DEF idle
<1>5. v \in Worlds /\ v.mux = idle /\ v.sock = w.sock
  BY <1>1, <1>2, <1>4 DEF Worlds
<1> HIDE DEF v
<1>6. Silent(v)
  BY <1>2, <1>5 DEF Served, Silent
<1>7. Served(v, more)
  BY <1>2, <1>5, <1>6, ServedEases
<1>8. Served(waits, more)
  BY FlagsServed
<1>9. QED
  BY <1>3, <1>7, <1>8

\* A socket is closed from this side: no attach client ends by itself then.
LEMMA ClosingServed ==
  ASSUME NEW w, Shaped(w), NEW more, Served(w, more), ~(left.ends > 0),
         NEW n \in 1..Len(w.sock), NEW how \in {"closing", "closed"}
  PROVE  Served([w EXCEPT !.sock[n].client = how], more)
<1> DEFINE s == [w.sock[n] EXCEPT !.client = how]
           v == [w EXCEPT !.sock[n].client = how]
<1>1. w \in Worlds /\ w.mux \in Mux /\ w.sock \in Seq(Socket) /\ w.sock[n] \in Socket /\ Len(w.sock) \in Nat
  BY WorldTypes
<1>2. s \in Socket /\ s.client = how /\ s.net = w.sock[n].net /\ s.up = w.sock[n].up /\ s.down = w.sock[n].down
  BY <1>1 DEF Socket
<1>3. v = [w EXCEPT !.sock = [w.sock EXCEPT ![n] = s]]
  OBVIOUS
<1>4. v.sock = [w.sock EXCEPT ![n] = s] /\ v.mux = w.mux
  BY <1>1, <1>3 DEF Worlds
<1>5. /\ v.sock \in Seq(Socket) /\ Len(v.sock) = Len(w.sock) /\ v.sock[n] = s
      /\ \A l \in 1..Len(w.sock) : l # n => v.sock[l] = w.sock[l]
  BY <1>1, <1>2, <1>4
<1>6. v \in Worlds
  BY <1>1, <1>3, <1>4, <1>5 DEF Worlds
<1> HIDE DEF s, v
<1>7. Silent(v)
  BY <1>4 DEF Served, Silent
<1>8. \A l \in 1..Len(w.sock) :
        /\ v.sock[l].client \in {w.sock[l].client, "closing", "closed"}
        /\ v.sock[l].net = w.sock[l].net /\ v.sock[l].up = w.sock[l].up /\ v.sock[l].down = w.sock[l].down
  BY <1>2, <1>5
<1>9. Served(v, more)
  BY <1>4, <1>5, <1>6, <1>7, <1>8, ServedEases
<1>10. QED
  BY <1>9 DEF v

\* The same of the socket that the mux uses.
LEMMA ForceCloseServed ==
  ASSUME NEW w, Shaped(w), NEW more, Served(w, more), ~(left.ends > 0)
  PROVE  Served(ForceClose(w), more)
<1>1. CASE w.mux.ws # NoSocket /\ w.sock[w.mux.ws].client \in {"open", "connecting"}
  <2>1. w.mux.ws \in 1..Len(w.sock)
    BY <1>1, WorldTypes DEF NoSocket
  <2>2. QED
    BY <1>1, <2>1, ClosingServed DEF ForceClose
<1>2. CASE ~(w.mux.ws # NoSocket /\ w.sock[w.mux.ws].client \in {"open", "connecting"})
  BY <1>2 DEF ForceClose
<1>3. QED
  BY <1>1, <1>2

\* A waking page probes its socket or dials.
LEMMA HandleWakeServed ==
  ASSUME NEW w, Good(w), NEW more, Served(w, more)
  PROVE  Served(HandleWake(w), more)
<1> DEFINE dials == [w EXCEPT !.mux.timer = FALSE]
           m == [[w.mux EXCEPT !.ping = IF @ = NoPing THEN 0 ELSE @] EXCEPT !.probe = TRUE]
           probes == [w EXCEPT !.mux = m]
<1>1. w \in Worlds /\ w.mux \in Mux
  BY WorldTypes, GoodShaped
<1>2. (IF w.mux.ping = NoPing THEN 0 ELSE w.mux.ping) \in {NoPing} \cup 0..2
  BY <1>1 DEF Mux
<1>3. m \in Mux /\ m.ws = w.mux.ws /\ m.stream = w.mux.stream /\ m.echo = w.mux.echo
  BY <1>1, <1>2 DEF Mux
<1>4. [SendPing(w, 0) EXCEPT !.mux.probe = TRUE] = probes
  BY <1>1 DEF SendPing, Worlds
<1>5. HandleWake(w) = w \/ HandleWake(w) = Connect(dials) \/ (HandleWake(w) = probes /\ OnOpen(w))
  BY <1>4 DEF HandleWake
<1> HIDE DEF m
<1>6. OnOpen(w) => Served(probes, more)
  BY <1>3, ServedFlags, GoodShaped
<1>7. Shaped(dials) /\ Served(dials, more)
  BY FlagsGood, FlagsServed, GoodShaped, 0 \in {NoPing} \cup 0..2
<1> HIDE DEF probes, dials
<1>8. Served(Connect(dials), more)
  BY <1>7, ConnectServed
<1>9. QED
  BY <1>5, <1>6, <1>8

\* The messages are sent: into the socket, when it can be reached.
LEMMA SendServed ==
  ASSUME NEW w, Shaped(w), NEW more \in Seq(Message), Served(w, more)
  PROVE  Served(Send(w, more), <<>>) /\ Shaped(Send(w, more))
<1> DEFINE t == Transmit(w.sock, w.mux.ws, more)
           v == Send(w, more)
           n == w.mux.ws
<1>1. /\ w \in Worlds /\ w.sock \in Seq(Socket) /\ n \in 0..Len(w.sock) /\ Len(w.sock) \in Nat
      /\ (Reach(w) => n \in 1..Len(w.sock))
      /\ \A l \in 1..Len(w.sock) : w.sock[l].up \in Seq(Message)
  BY WorldTypes
<1>2. /\ t \in Seq(Socket) /\ Len(t) = Len(w.sock)
      /\ \A l \in 1..Len(w.sock) :
           /\ t[l].client = w.sock[l].client /\ t[l].net = w.sock[l].net
           /\ t[l].up = IF l = n /\ Reach(w) THEN w.sock[l].up \o more ELSE w.sock[l].up
  <2>1. \A l \in 1..Len(w.sock) :
          /\ t[l].client = w.sock[l].client /\ t[l].net = w.sock[l].net
          /\ t[l].up = IF l = n /\ IsOpen(w.sock, n) /\ w.sock[n].net = "ok" THEN w.sock[l].up \o more ELSE w.sock[l].up
    BY <1>1, TransmitFacts
  <2>2. t \in Seq(Socket) /\ Len(t) = Len(w.sock)
    BY <1>1, TransmitFacts
  <2> HIDE DEF t
  <2>3. QED
    BY <2>1, <2>2 DEF Reach
<1>3. \A l \in 1..Len(w.sock) : t[l].down = w.sock[l].down
  <2>1. CASE Reach(w)
    <3>1. t = [w.sock EXCEPT ![n] = [w.sock[n] EXCEPT !.up = @ \o more]]
      BY <2>1 DEF Transmit, Reach
    <3>2. w.sock[n] \in Socket
      BY <1>1, <2>1
    <3>3. QED
      BY <1>1, <2>1, <3>1, <3>2 DEF Socket
  <2>2. CASE ~Reach(w)
    BY <2>2 DEF Transmit, Reach
  <2>3. QED
    BY <2>1, <2>2
<1>4. v.mux = w.mux /\ v.sock = t /\ Shaped(v)
  BY <1>1, <1>2 DEF Send, Worlds, Shaped
<1>a. \A l \in 1..Len(w.sock) : (w.sock[l].up \o more) \o <<>> = w.sock[l].up \o more
  BY <1>1
<1> HIDE DEF t, v
<1>5. Sound(v) /\ Silent(v)
  BY <1>1, <1>2, <1>3, <1>4 DEF Served, Sound, Silent, Normal
<1>6. ASSUME left.ends > 0 PROVE Steady(v)
  <2>1. Steady(w)
    BY <1>6 DEF Served
  <2>2. OnOpen(v) <=> OnOpen(w)
    BY <1>1, <1>2, <1>4 DEF OnOpen, IsOpen, NoSocket
  <2>3. QED
    BY <1>2, <1>4, <2>1, <2>2 DEF Steady
<1>7. ASSUME Reach(v), NEW i \in Id
      PROVE  ServesIn(v, <<>>, i)
  <2>1. Reach(w)
    BY <1>1, <1>2, <1>4, <1>7 DEF Reach, IsOpen, NoSocket
  <2>2. n \in 1..Len(w.sock) /\ t[n].up = w.sock[n].up \o more /\ t[n].down = w.sock[n].down
    BY <1>1, <1>2, <1>3, <2>1
  <2>3. t[n].up \o <<>> = w.sock[n].up \o more
    BY <1>a, <2>2
  <2>4. ServesIn(w, more, i)
    BY <2>1 DEF Served
  <2>5. QED
    BY <1>4, <2>2, <2>3, <2>4 DEF ServesIn
<1>8. QED
  BY <1>4, <1>5, <1>6, <1>7 DEF Served, v

\* The streams of the mux change, and messages are to be sent: enough is said of each.
LEMMA ServedChanges ==
  ASSUME NEW w, Shaped(w), Served(w, <<>>), NEW v, NEW m \in Mux, v = [w EXCEPT !.mux = m],
         m.ws = w.mux.ws, m.probe = w.mux.probe, NEW more \in Seq(Message),
         \A i \in Id : m.stream[i] = "absent" => ~m.echo[i],
         \A i \in Id : m.echo[i] => w.mux.echo[i] \/ OnOpen(w),
         \A i \in Id : \A up \in Seq(Message) : \A h \in BOOLEAN : \A k, q :
           Serves(w.mux.stream[i], w.mux.echo[i], k, up, q, h, i)
             => Serves(m.stream[i], m.echo[i], k, up \o more, q, h, i)
  PROVE  Served(v, more)
<1> DEFINE n == w.mux.ws
<1>1. /\ w \in Worlds /\ w.mux \in Mux /\ (Reach(w) => n \in 1..Len(w.sock))
      /\ \A l \in 1..Len(w.sock) : w.sock[l].up \in Seq(Message)
  BY WorldTypes
<1>2. v.mux = m /\ v.sock = w.sock
  BY <1>1 DEF Worlds
<1>3. Sound(v) /\ Silent(v)
  BY <1>2 DEF Served, Sound, Silent
<1>4. ASSUME left.ends > 0 PROVE Steady(v)
  BY <1>2, <1>4 DEF Served, Steady, OnOpen
<1>5. ASSUME Reach(v), NEW i \in Id
      PROVE  ServesIn(v, more, i)
  <2>1. Reach(w) /\ OnOpen(w)
    BY <1>2, <1>5 DEF Reach, OnOpen
  <2>2. ServesIn(w, <<>>, i)
    BY <2>1 DEF Served
  <2> DEFINE up == w.sock[n].up
             q == w.sock[n].down \o conn[n].control
             k == conn[n].streams[i]
             h == Haunted(n, i)
  <2>3. up \in Seq(Message) /\ up \o <<>> = up /\ h \in BOOLEAN
    BY <1>1, <2>1, HauntedType
  <2>4. Serves(w.mux.stream[i], w.mux.echo[i], k, up, q, h, i)
    BY <2>2, <2>3 DEF ServesIn
  <2>5. ServesIn(v, more, i) = Serves(m.stream[i], m.echo[i], k, up \o more, q, h, i)
    BY <1>2 DEF ServesIn
  <2> HIDE DEF up, q, k, h
  <2>6. QED
    BY <2>1, <2>3, <2>4, <2>5
<1>6. QED
  BY <1>3, <1>4, <1>5 DEF Served

\* Every live stream is given up: its close will be answered, or it has ended.
LEMMA SuspendServed ==
  ASSUME NEW w, Shaped(w), Served(w, <<>>)
  PROVE  Served(SuspendLiveStreams(w), <<>>)
<1> DEFINE live == Live(w.mux)
           m == [w.mux EXCEPT
                   !.grace = FALSE,
                   !.stream = [i \in Id |-> IF i \in live THEN "suspended" ELSE @[i]],
                   !.echo = [i \in Id |-> @[i] \/ (i \in live /\ OnOpen(w))]]
           u == [w EXCEPT !.mux = m]
           closes == Each("close", live)
<1>1. /\ w \in Worlds /\ w.mux \in Mux
      /\ w.mux.stream \in [Id -> {"absent", "live", "suspended"}] /\ w.mux.echo \in [Id -> BOOLEAN]
  BY WorldTypes
<1>2. live \in SUBSET Id /\ closes \in Seq(Message)
  <2>1. live \in SUBSET Id
    BY DEF Live
  <2>2. QED
    BY <2>1, EachFacts
<1>3. /\ m \in Mux /\ m.ws = w.mux.ws /\ m.probe = w.mux.probe
      /\ \A i \in Id : m.stream[i] = IF i \in live THEN "suspended" ELSE w.mux.stream[i]
      /\ \A i \in Id : m.echo[i] = (w.mux.echo[i] \/ (i \in live /\ OnOpen(w)))
  <2>1. [i \in Id |-> IF i \in live THEN "suspended" ELSE w.mux.stream[i]] \in [Id -> {"absent", "live", "suspended"}]
    BY <1>1
  <2>2. [i \in Id |-> w.mux.echo[i] \/ (i \in live /\ OnOpen(w))] \in [Id -> BOOLEAN]
    OBVIOUS
  <2>3. QED
    BY <1>1, <2>1, <2>2 DEF Mux
<1> HIDE DEF m
<1>4. \A i \in Id : m.stream[i] = "absent" => ~m.echo[i]
  BY <1>3 DEF Served, Silent
<1>5. ASSUME NEW i \in Id, NEW up \in Seq(Message), NEW h \in BOOLEAN, NEW k, NEW q,
             Serves(w.mux.stream[i], w.mux.echo[i], k, up, q, h, i)
      PROVE  Serves(m.stream[i], m.echo[i], k, up \o closes, q, h, i)
  <2>0. w.mux.echo[i] \in BOOLEAN /\ m.echo[i] \in BOOLEAN
    BY <1>1, <1>3 DEF Mux
  <2>1. CASE i \in live
    <3>1. Said(closes, "close", i)
      BY <1>2, <2>1, EachSaid
    <3>2. w.mux.stream[i] = "live" /\ m.stream[i] = "suspended"
      BY <1>3, <2>1 DEF Live
    <3>3. Serves("live", w.mux.echo[i], k, up, q, h, i)
      BY <1>5, <3>2
    <3> HIDE DEF closes
    <3>4. Serves("suspended", m.echo[i], k, up \o closes, q, h, i)
      BY <1>2, <2>0, <3>1, <3>3, ServesSuspended
    <3>5. QED
      BY <3>2, <3>4
  <2>2. CASE i \notin live
    <3>1. ~Said(closes, "close", i)
      BY <1>2, <2>2, EachSaid
    <3>2. w.mux.stream[i] = m.stream[i] /\ w.mux.echo[i] = m.echo[i]
      BY <1>3, <2>0, <2>2
    <3> HIDE DEF closes
    <3>3. Serves(w.mux.stream[i], w.mux.echo[i], k, up \o closes, q, h, i)
      BY <1>2, <1>5, <2>0, <3>1, ServesMore
    <3>4. QED
      BY <3>2, <3>3
  <2>3. QED
    BY <2>1, <2>2
<1>6. \A i \in Id : m.echo[i] => w.mux.echo[i] \/ OnOpen(w)
  BY <1>3
<1> HIDE DEF closes, live
<1>7. Served(u, closes)
  <2>1. \A i \in Id : \A up \in Seq(Message) : \A h \in BOOLEAN : \A k, q :
           Serves(w.mux.stream[i], w.mux.echo[i], k, up, q, h, i)
             => Serves(m.stream[i], m.echo[i], k, up \o closes, q, h, i)
    BY <1>5
  <2>2. m \in Mux /\ m.ws = w.mux.ws /\ m.probe = w.mux.probe /\ closes \in Seq(Message)
    BY <1>2, <1>3
  <2>3. u = [w EXCEPT !.mux = m]
    OBVIOUS
  <2> HIDE DEF u
  <2>4. QED
    BY <1>4, <1>6, <2>1, <2>2, <2>3, ServedChanges
<1>8. Shaped(u)
  BY <1>1, <1>3 DEF Shaped, Worlds
<1> HIDE DEF u
<1>9. Served(SyncHeartbeat(Send(u, closes)), <<>>)
  BY <1>2, <1>7, <1>8, SendServed, SyncHeartbeatServed
<1>10. QED
  BY <1>9 DEF SuspendLiveStreams, u, m, closes, live

\* Every stream that was given up is opened again, behind its close.
LEMMA ResumeServed ==
  ASSUME NEW w, Good(w), Served(w, <<>>)
  PROVE  Served(ResumeSuspended(w), <<>>)
<1> DEFINE back == {i \in Id : w.mux.stream[i] = "suspended"}
           m == [w.mux EXCEPT !.stream = [i \in Id |-> IF i \in back THEN "live" ELSE @[i]]]
           u == [w EXCEPT !.mux = m]
           opens == Each("open", back)
<1>1. /\ w \in Worlds /\ w.mux \in Mux /\ w.mux.next >= 1 /\ Shaped(w)
      /\ w.mux.stream \in [Id -> {"absent", "live", "suspended"}] /\ w.mux.echo \in [Id -> BOOLEAN]
  BY WorldTypes, GoodShaped DEF Good
<1>2. back \in SUBSET Id /\ opens \in Seq(Message)
  BY EachFacts
<1>3. /\ m \in Mux /\ m.ws = w.mux.ws /\ m.next = w.mux.next /\ m.probe = w.mux.probe /\ m.echo = w.mux.echo
      /\ \A i \in Id : m.stream[i] = IF i \in back THEN "live" ELSE w.mux.stream[i]
      /\ \A i \in Id : m.stream[i] # "suspended"
  <2>1. [i \in Id |-> IF i \in back THEN "live" ELSE w.mux.stream[i]] \in [Id -> {"absent", "live", "suspended"}]
    BY <1>1
  <2>2. QED
    BY <1>1, <2>1 DEF Mux
<1>4. ResumeSuspended(w) = IF back = {} THEN w ELSE SyncHeartbeat(Connect(Send(u, opens)))
  BY DEF ResumeSuspended
<1>5. u.mux = m
  BY <1>1 DEF Worlds
<1> HIDE DEF m
<1>6. Good(u)
  BY <1>1, <1>3, EasesMux
<1>7. \A i \in Id : m.stream[i] = "absent" => ~m.echo[i]
  BY <1>3 DEF Served, Silent
<1>8. ASSUME NEW i \in Id, NEW up \in Seq(Message), NEW h \in BOOLEAN, NEW k, NEW q,
             Serves(w.mux.stream[i], w.mux.echo[i], k, up, q, h, i)
      PROVE  Serves(m.stream[i], m.echo[i], k, up \o opens, q, h, i)
  <2>0. w.mux.echo[i] \in BOOLEAN /\ m.echo[i] = w.mux.echo[i] /\ ~Said(opens, "close", i)
    BY <1>1, <1>2, <1>3, EachSaid
  <2>1. CASE i \in back
    <3>1. Said(opens, "open", i) /\ m.stream[i] = "live"
      BY <1>2, <1>3, <2>1, EachSaid
    <3> HIDE DEF opens
    <3>2. Serves("live", w.mux.echo[i], k, up \o opens, q, h, i)
      BY <1>2, <1>8, <2>0, <3>1, ServesOpened
    <3>3. QED
      BY <2>0, <3>1, <3>2
  <2>2. CASE i \notin back
    <3>1. w.mux.stream[i] = m.stream[i]
      BY <1>3, <2>2
    <3> HIDE DEF opens
    <3>2. Serves(w.mux.stream[i], w.mux.echo[i], k, up \o opens, q, h, i)
      BY <1>2, <1>8, <2>0, ServesMore
    <3>3. QED
      BY <2>0, <3>1, <3>2
  <2>3. QED
    BY <2>1, <2>2
<1>9. Suspends(u) = {}
  BY <1>3, <1>5 DEF Suspends
<1> HIDE DEF opens, back
<1>10. Served(u, opens)
  <2>0. Shaped(w)
    BY <1>1
  <2>1. \A i \in Id : \A up \in Seq(Message) : \A h \in BOOLEAN : \A k, q :
           Serves(w.mux.stream[i], w.mux.echo[i], k, up, q, h, i)
             => Serves(m.stream[i], m.echo[i], k, up \o opens, q, h, i)
    BY <1>8
  <2>2. m \in Mux /\ m.ws = w.mux.ws /\ m.probe = w.mux.probe /\ opens \in Seq(Message)
    BY <1>2, <1>3
  <2>3. u = [w EXCEPT !.mux = m]
    OBVIOUS
  <2>5. \A i \in Id : m.echo[i] => w.mux.echo[i] \/ OnOpen(w)
    BY <1>3
  <2> HIDE DEF u
  <2>4. QED
    BY <1>7, <2>0, <2>1, <2>2, <2>3, <2>5, ServedChanges
<1> HIDE DEF u
<1>11. Good(Send(u, opens)) /\ Served(Send(u, opens), <<>>)
  BY <1>2, <1>6, <1>9, <1>10, GoodShaped, SendGood, SendServed
<1>12. Good(Connect(Send(u, opens))) /\ Served(Connect(Send(u, opens)), <<>>)
  BY <1>11, ConnectGood, ConnectServed, GoodShaped
<1>13. Served(SyncHeartbeat(Connect(Send(u, opens))), <<>>)
  BY <1>12, SyncHeartbeatServed, GoodShaped
<1>14. QED
  BY <1>4, <1>13

\* A stream of a fresh id is opened: no close of it was ever told.
LEMMA OpenStreamServed ==
  ASSUME NEW w, Good(w), w.mux.next <= MaxId, Served(w, <<>>)
  PROVE  Served(OpenStream(w), <<>>)
<1> DEFINE i == w.mux.next
           m == [w.mux EXCEPT !.next = i + 1, !.stream[i] = "live"]
           w1 == [w EXCEPT !.mux.next = i + 1, !.mux.stream[i] = "live"]
           opens == Each("open", {i})
           w2 == SyncHeartbeat(Send(Connect(w1), opens))
<1>1. /\ w \in Worlds /\ w.mux \in Mux /\ Shaped(w) /\ i \in Nat /\ i >= 1 /\ i \in Id
      /\ w.mux.stream \in [Id -> {"absent", "live", "suspended"}] /\ w.mux.echo \in [Id -> BOOLEAN]
  BY BoundFacts, WorldTypes, GoodShaped DEF Good, Worlds, Mux, Id
<1>2. /\ m \in Mux /\ m.ws = w.mux.ws /\ m.next = i + 1 /\ m.probe = w.mux.probe /\ m.echo = w.mux.echo
      /\ m.stream[i] = "live" /\ \A k \in Id : k # i => m.stream[k] = w.mux.stream[k]
  <2>1. /\ [w.mux.stream EXCEPT ![i] = "live"] \in [Id -> {"absent", "live", "suspended"}]
        /\ [w.mux.stream EXCEPT ![i] = "live"][i] = "live"
        /\ \A k \in Id : k # i => [w.mux.stream EXCEPT ![i] = "live"][k] = w.mux.stream[k]
        /\ i + 1 \in Nat
    BY <1>1
  <2>2. m = [w.mux EXCEPT !.next = i + 1, !.stream = [w.mux.stream EXCEPT ![i] = "live"]]
    BY <1>1 DEF Mux
  <2>3. QED
    BY <1>1, <2>1, <2>2 DEF Mux
<1>3. w1 = [w EXCEPT !.mux = m]
  BY <1>1 DEF Worlds, Mux
<1>4. w1.mux = m
  BY <1>1, <1>3 DEF Worlds
<1>5. /\ opens \in Seq(Message) /\ \A j \in 1..Len(opens) : opens[j].id = i
      /\ \A k : Said(opens, "open", k) <=> k = i
      /\ \A k : ~Said(opens, "close", k)
  <2>1. {i} \in SUBSET Id
    BY <1>1
  <2>2. QED
    BY <2>1, EachFacts, EachSaid
<1>6. OpenStream(w) = IF page = "hidden" THEN [w2 EXCEPT !.mux.grace = TRUE] ELSE w2
  BY DEF OpenStream
<1> HIDE DEF m, w1, opens
<1>7. Good(w1)
  BY <1>1, <1>2, <1>3, EasesMux
<1>8. Served(w1, opens)
  <2>1. ASSUME NEW s \in Id, NEW up \in Seq(Message), NEW h \in BOOLEAN, NEW k, NEW q,
               Serves(w.mux.stream[s], w.mux.echo[s], k, up, q, h, s)
        PROVE  Serves(m.stream[s], m.echo[s], k, up \o opens, q, h, s)
    <3>0. w.mux.echo[s] \in BOOLEAN /\ m.echo[s] = w.mux.echo[s] /\ ~Said(opens, "close", s)
      BY <1>1, <1>2, <1>5
    <3>1. CASE s = i
      <4>1. Said(opens, "open", s) /\ m.stream[s] = "live"
        BY <1>2, <1>5, <3>1
      <4>2. Serves("live", w.mux.echo[s], k, up \o opens, q, h, s)
        BY <1>5, <2>1, <3>0, <4>1, ServesOpened
      <4>3. QED
        BY <3>0, <4>1, <4>2
    <3>2. CASE s # i
      <4>1. w.mux.stream[s] = m.stream[s]
        BY <1>2, <3>2
      <4>2. Serves(w.mux.stream[s], w.mux.echo[s], k, up \o opens, q, h, s)
        BY <1>5, <2>1, <3>0, ServesMore
      <4>3. QED
        BY <3>0, <4>1, <4>2
    <3>3. QED
      BY <3>1, <3>2
  <2>2. \A s \in Id : \A up \in Seq(Message) : \A h \in BOOLEAN : \A k, q :
           Serves(w.mux.stream[s], w.mux.echo[s], k, up, q, h, s)
             => Serves(m.stream[s], m.echo[s], k, up \o opens, q, h, s)
    BY <2>1
  <2>0. Shaped(w)
    BY <1>1
  <2>3. \A s \in Id : m.stream[s] = "absent" => ~m.echo[s]
    BY <1>2 DEF Served, Silent
  <2>6. \A s \in Id : m.echo[s] => w.mux.echo[s] \/ OnOpen(w)
    BY <1>2
  <2>4. m \in Mux /\ m.ws = w.mux.ws /\ m.probe = w.mux.probe /\ opens \in Seq(Message)
    BY <1>2, <1>5
  <2>5. QED
    BY <1>3, <2>0, <2>2, <2>3, <2>4, <2>6, ServedChanges
<1>9. i \notin Suspends(w1)
  BY <1>2, <1>4 DEF Suspends
<1>10. Good(Connect(w1)) /\ Suspends(Connect(w1)) = Suspends(w1) /\ Served(Connect(w1), opens)
  BY <1>7, <1>8, ConnectGood, ConnectServed, GoodShaped DEF Suspends
<1>11. \A k \in Suspends(Connect(w1)) : \A j \in 1..Len(opens) : opens[j] # [op |-> "open", id |-> k]
  <2>1. SUFFICES ASSUME NEW k \in Suspends(Connect(w1)), NEW j \in 1..Len(opens), opens[j] = [op |-> "open", id |-> k]
                 PROVE FALSE
    OBVIOUS
  <2>2. opens[j].id = k
    BY <2>1
  <2>3. QED
    BY <1>5, <1>9, <1>10, <2>2
<1>12. Good(Send(Connect(w1), opens)) /\ Served(Send(Connect(w1), opens), <<>>)
  BY <1>5, <1>10, <1>11, SendGood, SendServed, GoodShaped
<1>13. Good(w2) /\ Served(w2, <<>>)
  BY <1>12, SyncHeartbeatGood, SyncHeartbeatServed, GoodShaped
<1> HIDE DEF w2
<1>14. Served([w2 EXCEPT !.mux.grace = TRUE], <<>>)
  BY <1>13, FlagsServed, GoodShaped, 0 \in {NoPing} \cup 0..2
<1>15. QED
  BY <1>6, <1>13, <1>14

\* A stream is forgotten, and its close is sent.
LEMMA CloseStreamServed ==
  ASSUME NEW w, Good(w), NEW i \in Id, Served(w, <<>>)
  PROVE  Served(CloseStream(w, i), <<>>)
<1> DEFINE m == [w.mux EXCEPT !.stream[i] = "absent", !.echo[i] = FALSE]
           gone == [w EXCEPT !.mux = m]
           closes == Each("close", {i})
<1>1. /\ w \in Worlds /\ w.mux \in Mux /\ w.mux.next >= 1 /\ Shaped(w)
      /\ w.mux.stream \in [Id -> {"absent", "live", "suspended"}] /\ w.mux.echo \in [Id -> BOOLEAN]
  BY WorldTypes, GoodShaped DEF Good
<1>2. /\ m \in Mux /\ m.ws = w.mux.ws /\ m.next = w.mux.next /\ m.probe = w.mux.probe
      /\ m.stream[i] = "absent" /\ m.echo[i] = FALSE
      /\ \A k \in Id : k # i => m.stream[k] = w.mux.stream[k] /\ m.echo[k] = w.mux.echo[k]
  BY <1>1 DEF Mux
<1>3. [w EXCEPT !.mux.stream[i] = "absent", !.mux.echo[i] = FALSE] = gone
  BY <1>1 DEF Worlds, Mux
<1>4. closes \in Seq(Message) /\ (\A k : Said(closes, "close", k) <=> k = i)
  <2>1. {i} \in SUBSET Id
    OBVIOUS
  <2>2. QED
    BY <2>1, EachFacts, EachSaid
<1>5. \/ CloseStream(w, i) = w
      \/ CloseStream(w, i) = SyncHeartbeat(Send(gone, closes))
      \/ CloseStream(w, i) = SyncHeartbeat(gone)
  BY <1>3 DEF CloseStream
<1> HIDE DEF m, closes
<1>6. Good(gone)
  BY <1>1, <1>2, EasesMux
<1>7. ASSUME NEW more \in Seq(Message), \A k : Said(more, "close", k) => k = i
      PROVE  Served(gone, more)
  <2>1. ASSUME NEW s \in Id, NEW up \in Seq(Message), NEW h \in BOOLEAN, NEW k, NEW q,
               Serves(w.mux.stream[s], w.mux.echo[s], k, up, q, h, s)
        PROVE  Serves(m.stream[s], m.echo[s], k, up \o more, q, h, s)
    <3>1. CASE s = i
      BY <1>2, <3>1 DEF Serves
    <3>2. CASE s # i
      <4>1. w.mux.stream[s] = m.stream[s] /\ w.mux.echo[s] = m.echo[s] /\ w.mux.echo[s] \in BOOLEAN
        BY <1>1, <1>2, <3>2
      <4>2. ~Said(more, "close", s)
        BY <1>7, <3>2
      <4>3. Serves(w.mux.stream[s], w.mux.echo[s], k, up \o more, q, h, s)
        BY <2>1, <4>1, <4>2, ServesMore
      <4>4. QED
        BY <4>1, <4>3
    <3>3. QED
      BY <3>1, <3>2
  <2>2. \A s \in Id : \A up \in Seq(Message) : \A h \in BOOLEAN : \A k, q :
           Serves(w.mux.stream[s], w.mux.echo[s], k, up, q, h, s)
             => Serves(m.stream[s], m.echo[s], k, up \o more, q, h, s)
    BY <2>1
  <2>0. Shaped(w)
    BY <1>1
  <2>3. \A s \in Id : m.stream[s] = "absent" => ~m.echo[s]
    BY <1>2 DEF Served, Silent
  <2>6. \A s \in Id : m.echo[s] => w.mux.echo[s] \/ OnOpen(w)
    BY <1>2
  <2>4. m \in Mux /\ m.ws = w.mux.ws /\ m.probe = w.mux.probe /\ gone = [w EXCEPT !.mux = m]
    BY <1>2
  <2> HIDE DEF gone
  <2>5. QED
    BY <2>0, <2>2, <2>3, <2>4, <2>6, ServedChanges
<1>8. Served(gone, closes) /\ Served(gone, <<>>)
  <2>1. <<>> \in Seq(Message) /\ \A k : Said(<<>>, "close", k) => k = i
    BY DEF Said
  <2>2. QED
    BY <1>4, <1>7, <2>1
<1> HIDE DEF gone
<1>9. Served(SyncHeartbeat(gone), <<>>)
  BY <1>6, <1>8, SyncHeartbeatServed, GoodShaped
<1>10. Served(SyncHeartbeat(Send(gone, closes)), <<>>)
  BY <1>4, <1>6, <1>8, SendServed, SyncHeartbeatServed, GoodShaped
<1>11. QED
  BY <1>5, <1>9, <1>10

-----------------------------------------------------------------------------
(* Live streams: the steps of the browser *)

\* An id belongs to an object of its own, and an object that was closed to no id.
Owned ==
  \A n \in 1..MaxSockets, i \in Id :
    LET k == conn[n].streams[i] IN
    k # Unregistered => k \in DOMAIN object /\ object[k].conn = n /\ object[k].id = i
Retired ==
  \A k \in DOMAIN object : /\ object[k].torn => ~Registered(k)
                           /\ conn[object[k].conn].state # "none"

\* No attach fails, so every close the daemon tells of is a normal one.
Kept ==
  /\ Served(World, <<>>)
  /\ left.fails = 0
  /\ \A n \in 1..MaxSockets : Normal(conn[n].control)
  /\ Owned /\ Retired

\* What is left of the budget, as far as it matters.
Saves == /\ left'.ends = left.ends /\ left'.fails = left.fails
         /\ left.ends > 0 => left'.cuts = left.cuts

\* What a step of the browser or the network spends; a cut rules ends out.
LEMMA SavesSpent ==
  ASSUME Inv, Kept, UNCHANGED left \/ Spend("toggles") \/ Spend("mounts") \/ Spend("cuts")
  PROVE  Saves
<1>1. left \in Budget /\ left.cuts \in Nat
  BY WorldFacts DEF Budget
<1>2. CASE UNCHANGED left
  BY <1>2 DEF Saves
<1>3. CASE Spend("toggles") \/ Spend("mounts")
  BY <1>1, <1>3 DEF Saves, Spend, Budget
<1>4. CASE Spend("cuts")
  <2>1. left.cuts > 0 /\ left' = [left EXCEPT !.cuts = @ - 1]
    BY <1>4 DEF Spend
  <2>2. ~(left.ends > 0)
    BY <1>1, <2>1 DEF Kept, Served, Steady
  <2>3. QED
    BY <1>1, <2>1, <2>2 DEF Saves, Budget
<1>5. QED
  BY <1>2, <1>3, <1>4

\* A step of the browser that makes a served world keeps what is known.
LEMMA BrowserKept ==
  ASSUME Inv, Kept, NEW v, Good(v), Served(v, <<>>), Become(v), UNCHANGED connVars, Saves
  PROVE  Kept'
<1>1. conn' = conn /\ object' = object
  BY DEF connVars
<1>2. v \in Worlds /\ mux' = v.mux /\ sock' = v.sock
  BY DEF Become, Good
<1>3. World' = v
  BY <1>2 DEF World, Worlds
<1>4. left'.ends = left.ends /\ left'.fails = left.fails /\ (left.ends > 0 => left'.cuts = left.cuts)
  BY DEF Saves
<1>6. \A i \in Id : Reach(v) => ServesIn(v, <<>>, i)'
  <2>1. SUFFICES ASSUME NEW i \in Id, Reach(v) PROVE ServesIn(v, <<>>, i)'
    OBVIOUS
  <2>2. ServesIn(v, <<>>, i)
    BY <2>1 DEF Served
  <2>3. Haunted(v.mux.ws, i)' = Haunted(v.mux.ws, i)
    BY <1>1, <1>4 DEF Haunted
  <2>4. QED
    BY <1>1, <2>2, <2>3 DEF ServesIn
<1>7. Sound(World)' /\ Silent(World)'
  BY <1>1, <1>3 DEF Served, Sound, Silent
<1>8. ASSUME left'.ends > 0 PROVE Steady(World)'
  BY <1>3, <1>4, <1>8 DEF Served, Steady
<1>9. Served(World, <<>>)'
  BY <1>3, <1>6, <1>7, <1>8 DEF Served
<1>10. Owned' /\ Retired' /\ \A n \in 1..MaxSockets : Normal(conn'[n].control)
  BY <1>1 DEF Kept, Owned, Retired, Registered
<1>11. QED
  BY <1>4, <1>9, <1>10 DEF Kept

\* What is known of the world, in the form it is used.
LEMMA KeptFacts ==
  ASSUME Inv, Kept
  PROVE  /\ Good(World) /\ Shaped(World) /\ Served(World, <<>>) /\ World.mux = mux /\ World.sock = sock
         /\ 0 \in {NoPing} \cup 0..2 /\ NoPing \in {NoPing} \cup 0..2
BY WorldFacts, GoodShaped DEF Kept

\* A pane is mounted or unmounted.
LEMMA PanesKept ==
  ASSUME Inv, Kept, NEW p \in Pane, Mount(p) \/ Unmount(p), UNCHANGED connVars
  PROVE  Kept'
<1>1. Good(World) /\ Served(World, <<>>) /\ World.mux = mux
  BY KeptFacts
<1>2. CASE Mount(p)
  <2> DEFINE v == OpenStream(World)
  <2>1. mux.next <= MaxId /\ Become(v) /\ Spend("mounts")
    BY <1>2 DEF Mount
  <2>2. Good(v) /\ Served(v, <<>>)
    BY <1>1, <2>1, OpenStreamGood, OpenStreamServed
  <2>3. Saves
    BY <2>1, SavesSpent
  <2> HIDE DEF v
  <2>4. QED
    BY <2>1, <2>2, <2>3, BrowserKept
<1>3. CASE Unmount(p)
  <2> DEFINE v == CloseStream(World, pane[p].cur)
  <2>1. pane[p].at # "unmounted" /\ Become(v) /\ left' = left
    BY <1>3 DEF Unmount
  <2>2. pane[p].cur \in Id
    BY <2>1 DEF Inv, Shows
  <2>3. Good(v) /\ Served(v, <<>>)
    BY <1>1, <2>2, CloseStreamGood, CloseStreamServed
  <2>4. Saves
    BY <2>1, SavesSpent
  <2> HIDE DEF v
  <2>5. QED
    BY <2>1, <2>3, <2>4, BrowserKept
<1>4. QED
  BY <1>2, <1>3

\* The page is hidden, frozen, shown or woken.
LEMMA VisibilityKept ==
  ASSUME Inv, Kept, Hide \/ PageHide \/ Freeze \/ Show \/ Wake, UNCHANGED connVars
  PROVE  Kept'
<1>1. Good(World) /\ Served(World, <<>>) /\ 0 \in {NoPing} \cup 0..2
  BY KeptFacts
<1>2. Saves
  BY SavesSpent DEF Hide, PageHide, Freeze, Show, Wake
<1>3. CASE Hide
  <2> DEFINE v == [World EXCEPT !.mux.grace = TRUE]
  <2>1. Become(v)
    BY <1>3 DEF Hide
  <2>2. Good(v) /\ Served(v, <<>>)
    BY <1>1, FlagsGood, FlagsServed, GoodShaped
  <2> HIDE DEF v
  <2>3. QED
    BY <1>2, <2>1, <2>2, BrowserKept
<1>4. CASE PageHide
  <2> DEFINE u == SuspendLiveStreams(World)
             v == [u EXCEPT !.mux.grace = TRUE]
  <2>1. Become(v)
    BY <1>4 DEF PageHide
  <2>2. Good(u) /\ Served(u, <<>>)
    BY <1>1, SuspendGood, SuspendServed, GoodShaped
  <2> HIDE DEF u
  <2>3. Good(v) /\ Served(v, <<>>)
    BY <1>1, <2>2, FlagsGood, FlagsServed, GoodShaped
  <2> HIDE DEF v
  <2>4. QED
    BY <1>2, <2>1, <2>3, BrowserKept
<1>5. CASE Freeze
  <2> DEFINE v == SuspendLiveStreams(World)
  <2>1. Become(v)
    BY <1>5 DEF Freeze
  <2>2. Good(v) /\ Served(v, <<>>)
    BY <1>1, SuspendGood, SuspendServed, GoodShaped
  <2> HIDE DEF v
  <2>3. QED
    BY <1>2, <2>1, <2>2, BrowserKept
<1>6. CASE Show
  <2> DEFINE t == [World EXCEPT !.mux.grace = FALSE]
             u == ResumeSuspended(t)
             v == HandleWake(u)
  <2>1. Become(v)
    BY <1>6 DEF Show
  <2>2. Good(t) /\ Served(t, <<>>)
    BY <1>1, FlagsGood, FlagsServed, GoodShaped
  <2> HIDE DEF t
  <2>3. Good(u) /\ Served(u, <<>>)
    BY <2>2, ResumeGood, ResumeServed
  <2> HIDE DEF u
  <2>4. Good(v) /\ Served(v, <<>>)
    BY <2>3, HandleWakeGood, HandleWakeServed
  <2> HIDE DEF v
  <2>5. QED
    BY <1>2, <2>1, <2>4, BrowserKept
<1>7. CASE Wake
  <2> DEFINE v == HandleWake(World)
  <2>1. Become(v)
    BY <1>7 DEF Wake
  <2>2. Good(v) /\ Served(v, <<>>)
    BY <1>1, HandleWakeGood, HandleWakeServed
  <2> HIDE DEF v
  <2>3. QED
    BY <1>2, <2>1, <2>2, BrowserKept
<1>8. QED
  BY <1>3, <1>4, <1>5, <1>6, <1>7

\* A timer of the mux fires.
LEMMA TimersKept ==
  ASSUME Inv, Kept, ReconnectFires \/ HeartbeatTick \/ ProbeExpires \/ GraceFires, UNCHANGED connVars
  PROVE  Kept'
<1>1. /\ Good(World) /\ Shaped(World) /\ Served(World, <<>>) /\ World.mux = mux /\ World.sock = sock
      /\ 0 \in {NoPing} \cup 0..2 /\ mux \in Mux /\ Len(sock) \in Nat
  BY KeptFacts, WorldFacts
<1>2. Saves
  BY SavesSpent DEF ReconnectFires, HeartbeatTick, ProbeExpires, GraceFires
<1>3. OnOpen(World) => mux.ws \in 1..Len(sock)
  BY <1>1 DEF Shaped, OnOpen, IsOpen, NoSocket
<1>4. CASE ReconnectFires
  <2> DEFINE u == [World EXCEPT !.mux.timer = FALSE]
             v == Connect(u)
  <2>1. Become(v)
    BY <1>4 DEF ReconnectFires
  <2>2. Good(u) /\ Served(u, <<>>)
    BY <1>1, FlagsGood, FlagsServed
  <2> HIDE DEF u
  <2>3. Good(v) /\ Served(v, <<>>)
    BY <2>2, ConnectGood, ConnectServed, GoodShaped
  <2> HIDE DEF v
  <2>4. QED
    BY <1>2, <2>1, <2>3, BrowserKept
<1>5. CASE HeartbeatTick
  <2> DEFINE age == IF mux.ping = NoPing THEN 1 ELSE mux.ping + 1
             u == [World EXCEPT !.mux.ping = age]
             v == IF mux.ping = 2 THEN ForceClose(World) ELSE u
  <2>1. [World EXCEPT !.mux.ping = IF @ = NoPing THEN 1 ELSE @ + 1] = u
    BY <1>1
  <2>2. Become(v)
    BY <1>5, <2>1 DEF HeartbeatTick
  <2>3. mux.ping # 2 => age \in {NoPing} \cup 0..2
    BY <1>1 DEF Mux, NoPing
  <2>4. ~(left.ends > 0)
    <3>1. OnOpen(World) /\ sock[mux.ws].net = "cut"
      BY <1>5 DEF HeartbeatTick
    <3>2. QED
      BY <1>1, <1>3, <3>1 DEF Served, Steady
  <2> HIDE DEF age
  <2>5. mux.ping # 2 => Good(u) /\ Served(u, <<>>)
    BY <1>1, <2>3, PingGood, FlagsServed, TRUE \in BOOLEAN
  <2>6. Good(ForceClose(World)) /\ Served(ForceClose(World), <<>>)
    BY <1>1, <2>4, ForceCloseGood, ForceCloseServed
  <2>7. Good(v) /\ Served(v, <<>>)
    BY <2>5, <2>6
  <2> HIDE DEF v
  <2>8. QED
    BY <1>2, <2>2, <2>7, BrowserKept
<1>6. CASE ProbeExpires
  <2> DEFINE u == [World EXCEPT !.mux.probe = FALSE]
             v == ForceClose(u)
  <2>1. Become(v)
    BY <1>6 DEF ProbeExpires
  <2>2. ~(left.ends > 0)
    <3>1. mux.probe /\ (OnOpen(World) => sock[mux.ws].net = "cut")
      BY <1>6 DEF ProbeExpires
    <3>2. QED
      BY <1>1, <1>3, <3>1 DEF Served, Steady
  <2>3. Good(u) /\ Served(u, <<>>)
    BY <1>1, FlagsGood, FlagsServed
  <2> HIDE DEF u
  <2>4. Good(v) /\ Served(v, <<>>)
    BY <2>2, <2>3, ForceCloseGood, ForceCloseServed, GoodShaped
  <2> HIDE DEF v
  <2>5. QED
    BY <1>2, <2>1, <2>4, BrowserKept
<1>7. CASE GraceFires
  <2> DEFINE u == [World EXCEPT !.mux.grace = FALSE]
             v == IF page = "hidden" THEN SuspendLiveStreams(u) ELSE u
  <2>1. Become(v)
    BY <1>7 DEF GraceFires
  <2>2. Good(u) /\ Served(u, <<>>)
    BY <1>1, FlagsGood, FlagsServed
  <2> HIDE DEF u
  <2>3. Good(v) /\ Served(v, <<>>)
    BY <2>2, SuspendGood, SuspendServed, GoodShaped
  <2> HIDE DEF v
  <2>4. QED
    BY <1>2, <2>1, <2>3, BrowserKept
<1>8. QED
  BY <1>4, <1>5, <1>6, <1>7

\* Whatever arrives answers the pending ping.
LEMMA InboundKept ==
  ASSUME Inv, Kept, NEW n \in DOMAIN sock, Inbound(n), UNCHANGED connVars
  PROVE  Kept'
<1> DEFINE u == [World EXCEPT !.mux.ping = NoPing]
           v == [u EXCEPT !.mux.probe = FALSE]
<1>1. /\ Good(World) /\ Shaped(World) /\ Served(World, <<>>) /\ World.mux = mux /\ World.sock = sock
      /\ NoPing \in {NoPing} \cup 0..2 /\ 0 \in {NoPing} \cup 0..2 /\ mux \in Mux /\ Len(sock) <= MaxSockets
  BY KeptFacts, WorldFacts DEF Inv
<1>2. Good(u) /\ Served(u, <<>>)
  BY <1>1, PingGood, FlagsServed, TRUE \in BOOLEAN
<1>3. v.mux = [mux EXCEPT !.ping = NoPing, !.probe = FALSE] /\ v.sock = sock
  BY <1>1 DEF World, Mux
<1> HIDE DEF u
<1>4. Good(v) /\ Served(v, <<>>)
  BY <1>1, <1>2, FlagsGood, FlagsServed, GoodShaped, FALSE \in BOOLEAN
<1>5. Become(v) /\ UNCHANGED left
  BY <1>1, <1>3 DEF Inbound, Become
<1>6. Saves
  BY <1>5, SavesSpent
<1> HIDE DEF v
<1>7. QED
  BY <1>4, <1>5, <1>6, BrowserKept

\* A socket ends, or is cut: not while an attach client may end by itself.
LEMMA SocketEndsKept ==
  ASSUME Inv, Kept, NEW n \in DOMAIN sock, ConnectFails(n) \/ SocketClosed(n), UNCHANGED connVars
  PROVE  Kept'
<1> DEFINE u == [World EXCEPT !.sock[n].client = "closed"]
           t == StopHeartbeat(u)
           v == ScheduleReconnect(t)
<1>1. /\ Good(World) /\ Shaped(World) /\ Served(World, <<>>) /\ World.mux = mux /\ World.sock = sock
      /\ n \in 1..Len(sock) /\ left \in Budget /\ left.cuts \in Nat
  BY KeptFacts, WorldFacts DEF Budget
<1>2. Become(v) /\ (UNCHANGED left \/ Spend("cuts"))
  BY DEF ConnectFails, SocketClosed
<1>3. Saves
  BY <1>2, SavesSpent
<1>4. ~(left.ends > 0)
  <2>1. CASE ConnectFails(n)
    <3>1. left.cuts > 0
      BY <2>1 DEF ConnectFails, Spend
    <3>2. QED
      BY <1>1, <3>1 DEF Served, Steady
  <2>2. CASE SocketClosed(n)
    <3>1. sock[n].client = "closing" \/ sock[n].net = "cut"
      BY <2>2 DEF SocketClosed
    <3>2. QED
      BY <1>1, <3>1 DEF Served, Steady
  <2>3. QED
    BY <2>1, <2>2
<1>5. Good(u) /\ Served(u, <<>>)
  BY <1>1, <1>4, ClosingGood, ClosingServed
<1> HIDE DEF u
<1>6. Good(t) /\ Served(t, <<>>)
  BY <1>5, StopHeartbeatGood, StopHeartbeatServed, GoodShaped
<1> HIDE DEF t
<1>7. Good(v) /\ Served(v, <<>>)
  BY <1>4, <1>6, ScheduleReconnectGood, ScheduleReconnectServed, GoodShaped
<1> HIDE DEF v
<1>8. QED
  BY <1>2, <1>3, <1>7, BrowserKept

\* A connection is cut: its socket is not reached any more.
LEMMA CutKept ==
  ASSUME Inv, Kept, NEW n \in DOMAIN sock, Cut(n), UNCHANGED <<muxVars, connVars>>, Inv'
  PROVE  Kept'
<1> DEFINE s == [sock[n] EXCEPT !.net = "cut", !.up = <<>>, !.down = <<>>]
           v == [mux |-> mux, sock |-> [sock EXCEPT ![n] = s]]
<1>1. /\ Shaped(World) /\ Served(World, <<>>) /\ World.mux = mux /\ World.sock = sock /\ mux \in Mux
      /\ sock \in Seq(Socket) /\ Len(sock) \in Nat /\ n \in 1..Len(sock) /\ sock[n] \in Socket
      /\ left \in Budget /\ left.cuts \in Nat
  BY KeptFacts, WorldFacts DEF Budget
<1>2. Spend("cuts") /\ sock' = [sock EXCEPT ![n] = s] /\ mux' = mux
  BY DEF Cut, muxVars
<1>3. s \in Socket /\ s.client = sock[n].client /\ s.net = "cut" /\ s.down = <<>>
  <2>1. <<>> \in Seq(Message) /\ <<>> \in Seq(Frame)
    OBVIOUS
  <2>2. QED
    BY <1>1, <2>1 DEF Socket
<1> HIDE DEF s
<1>4. /\ v.mux = mux /\ v.sock \in Seq(Socket) /\ Len(v.sock) = Len(sock)
      /\ v.sock[n] = s /\ \A l \in 1..Len(sock) : l # n => v.sock[l] = sock[l]
  BY <1>1, <1>3
<1>5. v \in Worlds /\ v = World'
  BY <1>1, <1>2, <1>4 DEF Worlds, World
<1>6. Good(v)
  <2>1. Good(World)'
    BY DEF Inv
  <2>2. conn' = conn
    BY DEF connVars
  <2>3. QED
    BY <1>5, <2>1, <2>2 DEF Good, Dialling, GaveUp
<1> HIDE DEF v
<1>7. ~(left.ends > 0)
  BY <1>1, <1>2 DEF Served, Steady, Spend
<1>8. Silent(v)
  BY <1>1, <1>4 DEF Served, Silent
<1>9. Served(v, <<>>)
  <2>1. \A l \in 1..Len(World.sock) :
           /\ v.sock[l].client = World.sock[l].client
           /\ \/ /\ v.sock[l].net = World.sock[l].net /\ v.sock[l].up = World.sock[l].up
                 /\ v.sock[l].down = World.sock[l].down
              \/ v.sock[l].net = "cut" /\ v.sock[l].down = <<>>
    BY <1>1, <1>3, <1>4
  <2>2. v.mux.ws = World.mux.ws /\ v.mux.stream = World.mux.stream /\ v.mux.echo = World.mux.echo
        /\ Len(v.sock) = Len(World.sock)
    BY <1>1, <1>4
  <2>3. QED
    BY <1>1, <1>5, <1>7, <1>8, <2>1, <2>2, ServedEases
<1>10. Saves
  BY <1>2, SavesSpent
<1>11. Become(v) /\ UNCHANGED connVars
  BY <1>2, <1>5 DEF Become, World, Inv
<1>12. QED
  BY <1>6, <1>9, <1>10, <1>11, BrowserKept

\* onopen: every live stream is opened, before the daemon knows any.
LEMMA SocketOpenedKept ==
  ASSUME Inv, Kept, NEW n \in DOMAIN sock, SocketOpened(n), UNCHANGED connVars
  PROVE  Kept'
<1> DEFINE w == Opened(n)
           opens == Each("open", Live(mux))
           v == SyncHeartbeat(Send(w, opens))
<1>1. sock[n].client = "connecting" /\ UNCHANGED left
  BY DEF SocketOpened
<1>2. /\ Good(w) /\ w.mux = mux /\ Len(w.sock) = Len(sock)
      /\ w.sock[n].client = "open" /\ w.sock[n].net = "ok" /\ w.sock[n].up = <<>>
      /\ w.sock[n].down = sock[n].down
      /\ \A l \in 1..Len(sock) : l # n => w.sock[l] = sock[l]
      /\ n \in 1..Len(sock) /\ n \in 1..MaxSockets /\ conn[n].state = "none"
  BY <1>1, OpenedGood
<1>3. Become(v)
  BY <1>2 DEF SocketOpened, Opened
<1> HIDE DEF w
<1>4. /\ Good(World) /\ Shaped(World) /\ Served(World, <<>>) /\ World.mux = mux /\ World.sock = sock
      /\ mux \in Mux /\ Len(sock) \in Nat /\ mux.ws \in 0..Len(sock)
      /\ mux.stream \in [Id -> {"absent", "live", "suspended"}] /\ mux.echo \in [Id -> BOOLEAN]
      /\ \A l \in 1..Len(sock) : sock[l].up \in Seq(Message)
  BY KeptFacts, WorldTypes
<1>5. /\ opens \in Seq(Message) /\ \A j \in 1..Len(opens) : opens[j].id \in Live(mux)
      /\ \A i : Said(opens, "open", i) <=> i \in Live(mux)
      /\ \A i : ~Said(opens, "close", i)
  <2>1. Live(mux) \in SUBSET Id
    BY DEF Live
  <2>2. QED
    BY <2>1, EachFacts, EachSaid
<1>6. ASSUME NEW i \in Suspends(w), NEW j \in 1..Len(opens)
      PROVE  opens[j] # [op |-> "open", id |-> i]
  <2>1. i \notin Live(mux)
    BY <1>2, <1>6 DEF Suspends, Live
  <2>2. SUFFICES ASSUME opens[j] = [op |-> "open", id |-> i] PROVE FALSE
    OBVIOUS
  <2>3. opens[j].id = i
    BY <2>2
  <2>4. QED
    BY <1>5, <2>1, <2>3
<1> HIDE DEF opens
<1>7. Sound(w) /\ Silent(w)
  BY <1>2, <1>4 DEF Served, Sound, Silent
<1>8. OnOpen(World) => OnOpen(w)
  BY <1>2, <1>4 DEF OnOpen, IsOpen, NoSocket
<1>9. ASSUME left.ends > 0 PROVE Steady(w)
  BY <1>2, <1>4, <1>8, <1>9 DEF Served, Steady
<1>10. ASSUME Reach(w), NEW i \in Id
       PROVE  ServesIn(w, opens, i)
  <2>1. CASE mux.ws = n
    <3>1. conn[n].streams[i] = Unregistered
      BY <1>2 DEF Inv, Unreached
    <3>2. w.sock[n].up \o opens = opens
      BY <1>2, <1>5
    <3>3. mux.stream[i] = "live" => Said(opens, "open", i)
      BY <1>5 DEF Live
    <3>4. Reopened(opens, i)
      BY <1>5 DEF Reopened, Said
    <3>5. ~(mux.echo[i] /\ Haunted(n, i))
      <4>1. ASSUME mux.echo[i], left.ends > 0 PROVE FALSE
        <5>1. ~OnOpen(World)
          BY <1>1, <1>4, <2>1 DEF OnOpen, IsOpen
        <5>2. QED
          BY <1>4, <4>1, <5>1 DEF Served, Steady
      <4>2. ASSUME NEW k \in DOMAIN object, object[k].conn = n PROVE FALSE
        BY <1>2, <4>2 DEF Kept, Retired
      <4>3. QED
        BY <4>1, <4>2 DEF Haunted
    <3>6. QED
      BY <1>2, <2>1, <3>2, <3>3, <3>4, <3>5 DEF ServesIn, Serves
  <2>2. CASE mux.ws # n
    <3>1. mux.ws \in 1..Len(sock) /\ w.sock[mux.ws] = sock[mux.ws]
      BY <1>2, <1>4, <1>10, <2>2 DEF Reach, IsOpen, NoSocket
    <3>2. ServesIn(World, <<>>, i)
      BY <1>2, <1>4, <1>10, <3>1 DEF Reach, IsOpen, Served
    <3> DEFINE up == sock[mux.ws].up
               q == sock[mux.ws].down \o conn[mux.ws].control
               k == conn[mux.ws].streams[i]
               h == Haunted(mux.ws, i)
    <3>3. up \in Seq(Message) /\ up \o <<>> = up /\ h \in BOOLEAN /\ mux.echo[i] \in BOOLEAN
      BY <1>4, <3>1, HauntedType
    <3>4. Serves(mux.stream[i], mux.echo[i], k, up, q, h, i)
      BY <1>4, <3>2, <3>3 DEF ServesIn
    <3>5. ServesIn(w, opens, i) = Serves(mux.stream[i], mux.echo[i], k, up \o opens, q, h, i)
      BY <1>2, <3>1 DEF ServesIn
    <3> HIDE DEF up, q, k, h
    <3>6. QED
      BY <1>5, <3>3, <3>4, <3>5, ServesMore
  <2>3. QED
    BY <2>1, <2>2
<1>11. Served(w, opens)
  BY <1>7, <1>9, <1>10 DEF Served
<1>12. Good(Send(w, opens)) /\ Served(Send(w, opens), <<>>)
  BY <1>2, <1>5, <1>6, <1>11, SendGood, SendServed, GoodShaped
<1>13. Good(v) /\ Served(v, <<>>)
  BY <1>12, SyncHeartbeatGood, SyncHeartbeatServed, GoodShaped
<1>14. Saves
  BY <1>1, SavesSpent
<1> HIDE DEF v
<1>15. QED
  BY <1>3, <1>13, <1>14, BrowserKept

\* A frame is taken: if it is a close, it is the echo that was awaited, or the
\* stream ends with it.
LEMMA TookServed ==
  ASSUME Inv, Kept, NEW n \in DOMAIN sock, sock[n].down # <<>>, NEW v \in Worlds,
         v.sock = Took(n).sock, v.mux.ws = mux.ws, v.mux.probe = FALSE, Silent(v),
         \A i \in Id : /\ v.mux.stream[i] = "live" => mux.stream[i] = "live"
                       /\ v.mux.echo[i] => mux.echo[i],
         \A i \in Id : Head(sock[n].down) = Closed(i, "normal") =>
           ~v.mux.echo[i] /\ (v.mux.stream[i] = "live" => mux.echo[i])
  PROVE  Served(v, <<>>)
<1> DEFINE s == [sock[n] EXCEPT !.down = Tail(@)]
<1>1. /\ Shaped(World) /\ Served(World, <<>>) /\ World.mux = mux /\ World.sock = sock
      /\ mux \in Mux /\ sock \in Seq(Socket) /\ Len(sock) \in Nat /\ mux.ws \in 0..Len(sock)
      /\ n \in 1..Len(sock) /\ sock[n] \in Socket
      /\ mux.echo \in [Id -> BOOLEAN] /\ v.mux.echo \in [Id -> BOOLEAN]
      /\ \A l \in 1..Len(sock) : sock[l].up \in Seq(Message) /\ sock[l].down \in Seq(Frame)
  BY KeptFacts, WorldTypes, WorldFacts DEF Worlds, Mux
<1>0. Len(sock) <= MaxSockets /\ MaxSockets \in Nat
  BY BoundFacts DEF Inv
<1>2. s.client = sock[n].client /\ s.net = sock[n].net /\ s.up = sock[n].up /\ s.down = Tail(sock[n].down)
  BY <1>1 DEF Socket
<1>3. v.sock = [sock EXCEPT ![n] = s]
  BY DEF Took
<1> HIDE DEF s
<1>4. /\ Len(v.sock) = Len(sock) /\ v.sock[n] = s
      /\ \A l \in 1..Len(sock) : l # n => v.sock[l] = sock[l]
  BY <1>1, <1>3
<1>5. \A l \in 1..Len(sock) :
        /\ v.sock[l].client = sock[l].client /\ v.sock[l].net = sock[l].net /\ v.sock[l].up = sock[l].up
        /\ v.sock[l].down = IF l = n THEN Tail(sock[l].down) ELSE sock[l].down
  BY <1>2, <1>4
<1>6. Sound(v)
  <2>1. Normal(sock[n].down)
    BY <1>1 DEF Served, Sound
  <2>2. /\ Len(Tail(sock[n].down)) = Len(sock[n].down) - 1 /\ Len(sock[n].down) \in Nat
        /\ \A j \in 1..Len(Tail(sock[n].down)) : Tail(sock[n].down)[j] = sock[n].down[j + 1]
    BY <1>1
  <2>3. Normal(Tail(sock[n].down))
    BY <2>1, <2>2 DEF Normal
  <2>4. SUFFICES ASSUME NEW l \in 1..Len(sock)
                 PROVE  Normal(v.sock[l].down) /\ (v.sock[l].net = "ok" => conn[l].state # "down")
    BY <1>4 DEF Sound
  <2>5. Normal(sock[l].down) /\ (sock[l].net = "ok" => conn[l].state # "down")
    BY <1>1 DEF Served, Sound
  <2>6. QED
    BY <1>5, <2>3, <2>5
<1>7. OnOpen(v) <=> OnOpen(World)
  BY <1>1, <1>5 DEF OnOpen, IsOpen, NoSocket
<1>8. ASSUME left.ends > 0 PROVE Steady(v)
  <2>1. Steady(World)
    BY <1>1, <1>8 DEF Served
  <2>2. QED
    BY <1>1, <1>4, <1>5, <1>7, <2>1 DEF Steady
<1>9. ASSUME Reach(v), NEW i \in Id
      PROVE  ServesIn(v, <<>>, i)
  <2>1. mux.ws \in 1..Len(sock) /\ mux.ws \in 1..MaxSockets /\ Reach(World)
    BY <1>0, <1>1, <1>5, <1>9 DEF Reach, IsOpen, NoSocket
  <2> DEFINE a == sock[mux.ws].down
             b == conn[mux.ws].control
             up == sock[mux.ws].up
             q == a \o b
             r == v.sock[mux.ws].down \o b
             k == conn[mux.ws].streams[i]
             h == Haunted(mux.ws, i)
  <2>2. /\ h \in BOOLEAN /\ mux.echo[i] \in BOOLEAN /\ v.mux.echo[i] \in BOOLEAN
        /\ up \o <<>> = up /\ v.sock[mux.ws].up = up
        /\ a \in Seq(Frame) /\ b \in Seq(Frame)
    BY <1>1, <1>5, <2>1, HauntedType, ConnFacts
  <2>3. Serves(mux.stream[i], mux.echo[i], k, up, q, h, i)
    BY <1>1, <2>1, <2>2 DEF Served, ServesIn
  <2>4. ServesIn(v, <<>>, i) = Serves(v.mux.stream[i], v.mux.echo[i], k, up, r, h, i)
    BY <2>2 DEF ServesIn
  <2>5. CASE mux.ws # n
    <3>1. r = q
      BY <1>5, <2>1, <2>5
    <3> HIDE DEF r, q, k, h, up, a, b
    <3>2. QED
      BY <2>2, <2>3, <2>4, <3>1, ServesLess
  <2>6. CASE mux.ws = n
    <3>1. a # <<>> /\ r = Tail(a) \o b /\ a = sock[n].down
      BY <1>5, <2>1, <2>6
    <3>2. /\ Twice(q, i) => Once(r, i)
          /\ Head(a) # Closed(i, "normal") => (Once(q, i) => Once(r, i)) /\ (Twice(q, i) => Twice(r, i))
      <4> HIDE DEF a, b
      <4>1. QED
        BY <2>2, <3>1, QueueTaken
    <3> HIDE DEF r, q, k, h, up, a, b
    <3>3. CASE Head(a) # Closed(i, "normal")
      <4>1. Serves(mux.stream[i], mux.echo[i], k, up, r, h, i)
        BY <2>2, <2>3, <3>2, <3>3, ServesQueue
      <4>2. QED
        BY <2>2, <2>4, <4>1, ServesLess
    <3>4. CASE Head(a) = Closed(i, "normal")
      <4>1. ~v.mux.echo[i] /\ (v.mux.stream[i] = "live" => mux.stream[i] = "live" /\ mux.echo[i])
        BY <3>1, <3>4
      <4>2. QED
        BY <2>3, <2>4, <3>2, <4>1 DEF Serves
    <3>5. QED
      BY <3>3, <3>4
  <2>7. QED
    BY <2>5, <2>6
<1>10. QED
  BY <1>6, <1>8, <1>9 DEF Served

\* A frame arrives: the mux may take a close for its echo, one more is to come then.
LEMMA ReceiveKept ==
  ASSUME Inv, Kept, NEW n \in DOMAIN sock, Receive(n), UNCHANGED connVars
  PROVE  Kept'
<1> DEFINE f == Head(sock[n].down)
           w == Took(n)
           m == [mux EXCEPT !.ping = NoPing, !.probe = FALSE]
           m1 == [m EXCEPT !.echo[f.id] = FALSE]
           m2 == [m EXCEPT !.stream[f.id] = "absent"]
           heard == [w EXCEPT !.mux.echo[f.id] = FALSE]
           ends == [w EXCEPT !.mux.stream[f.id] = "absent"]
<1>1. /\ sock[n].down # <<>> /\ UNCHANGED left /\ Saves
      /\ Served(World, <<>>) /\ World.mux = mux /\ World.sock = sock
      /\ mux \in Mux /\ n \in 1..Len(sock) /\ sock[n] \in Socket
  BY KeptFacts, WorldFacts, SavesSpent DEF Receive
<1>2. sock[n].down \in Seq(Frame) /\ f \in Frame /\ f.id \in Id
  <2>1. sock[n].down \in Seq(Frame)
    BY <1>1 DEF Socket
  <2>2. f \in Frame
    BY <1>1, <2>1
  <2>3. QED
    BY <2>1, <2>2 DEF Frame
<1>3. f.op = "closed" => f.code = "normal"
  <2>1. Normal(sock[n].down)
    BY <1>1 DEF Served, Sound
  <2>2. f = sock[n].down[1] /\ 1 \in 1..Len(sock[n].down)
    BY <1>1, <1>2
  <2>3. QED
    BY <2>1, <2>2 DEF Normal
<1>4. \A i \in Id : f = Closed(i, "normal") => i = f.id /\ f.op = "closed"
  <2>1. SUFFICES ASSUME NEW i \in Id, f = Closed(i, "normal") PROVE i = f.id /\ f.op = "closed"
    OBVIOUS
  <2>2. f.id = i /\ f.op = "closed"
    BY <2>1 DEF Closed
  <2>3. QED
    BY <2>2
<1>5. Good(w)
  BY <1>1, TookGood
<1>6. w.mux = m /\ w \in Worlds
  BY <1>5 DEF Took, Good
<1>7. /\ m \in Mux /\ m.ws = mux.ws /\ m.next = mux.next /\ m.probe = FALSE
      /\ m.stream = mux.stream /\ m.echo = mux.echo
  BY <1>1 DEF Mux
<1>8. /\ mux.stream \in [Id -> {"absent", "live", "suspended"}] /\ mux.echo \in [Id -> BOOLEAN]
  BY <1>1 DEF Mux
<1>h. \A i \in Id : mux.stream[i] = "absent" => ~mux.echo[i]
  BY <1>1 DEF Served, Silent
<1> HIDE DEF m, f, w
<1>9. /\ m1 \in Mux /\ m1.ws = mux.ws /\ m1.probe = FALSE /\ m1.stream = mux.stream
      /\ ~m1.echo[f.id] /\ \A i \in Id : i # f.id => m1.echo[i] = mux.echo[i]
  BY <1>2, <1>7, <1>8 DEF Mux
<1>10. /\ m2 \in Mux /\ m2.ws = mux.ws /\ m2.probe = FALSE /\ m2.echo = mux.echo /\ m2.next = mux.next
       /\ m2.stream[f.id] = "absent" /\ \A i \in Id : i # f.id => m2.stream[i] = mux.stream[i]
  BY <1>2, <1>7, <1>8 DEF Mux
<1>11. heard = [w EXCEPT !.mux = m1] /\ ends = [w EXCEPT !.mux = m2]
  BY <1>6
<1>12. /\ heard \in Worlds /\ heard.mux = m1 /\ heard.sock = w.sock
       /\ ends \in Worlds /\ ends.mux = m2 /\ ends.sock = w.sock
  BY <1>6, <1>9, <1>10, <1>11 DEF Worlds
<1>13. Good(heard) /\ Good(ends)
  BY <1>2, <1>5, EndsGood
<1> HIDE DEF m1, m2, heard, ends
<1>14. CASE mux.stream[f.id] = "absent"
  <2>1. Become(w)
    BY <1>14 DEF Receive, w, f
  <2>2. Silent(w)
    BY <1>6, <1>7, <1>h DEF Silent
  <2>3. \A i \in Id : f = Closed(i, "normal") => ~w.mux.echo[i] /\ w.mux.stream[i] # "live"
    BY <1>4, <1>6, <1>7, <1>14, <1>h
  <2>4. Served(w, <<>>)
    BY <1>1, <1>6, <1>7, <2>2, <2>3, TookServed DEF w, f
  <2>5. QED
    BY <1>1, <1>5, <2>1, <2>4, BrowserKept
<1>15. ASSUME mux.stream[f.id] # "absent", f.op = "closed" => mux.stream[f.id] = "suspended" \/ mux.echo[f.id]
       PROVE  Served(heard, <<>>)
  <2>1. Silent(heard)
    BY <1>9, <1>12, <1>h DEF Silent
  <2>2. \A i \in Id : f = Closed(i, "normal") =>
          ~heard.mux.echo[i] /\ (heard.mux.stream[i] = "live" => mux.echo[i])
    BY <1>4, <1>9, <1>12, <1>15
  <2>3. \A i \in Id : /\ heard.mux.stream[i] = "live" => mux.stream[i] = "live"
                      /\ heard.mux.echo[i] => mux.echo[i]
    BY <1>9, <1>12
  <2>4. QED
    BY <1>1, <1>9, <1>12, <2>1, <2>2, <2>3, TookServed DEF w, f
<1>16. CASE mux.stream[f.id] # "absent" /\ f.op = "opened"
  <2>1. Become(HandleOpened(w, f))
    BY <1>16 DEF Receive, w, f
  <2>2. Become(heard) /\ Served(heard, <<>>)
    BY <1>15, <1>16, <2>1 DEF HandleOpened, heard
  <2>3. QED
    BY <1>1, <1>13, <2>2, BrowserKept
<1>17. CASE mux.stream[f.id] # "absent" /\ f.op # "opened" /\ IsEcho(mux, f)
  <2>1. Become(HandleClosed(w, f))
    BY <1>17 DEF Receive, w, f
  <2>2. f.op = "closed"
    BY <1>2, <1>17 DEF Frame
  <2>3. Become(heard)
    BY <1>3, <2>1, <2>2 DEF HandleClosed, heard
  <2>4. Served(heard, <<>>)
    BY <1>15, <1>17 DEF IsEcho
  <2>5. QED
    BY <1>1, <1>13, <2>3, <2>4, BrowserKept
<1>18. CASE mux.stream[f.id] # "absent" /\ f.op # "opened" /\ ~IsEcho(mux, f)
  <2> DEFINE u == SyncHeartbeat(ends)
             reopen == {p \in Pane : /\ pane[p].at = "shown" /\ pane[p].cur = f.id
                                     /\ f.code # "missing" /\ ~pane[p].probed}
             v == IF reopen = {} THEN u ELSE OpenStream(u)
  <2>1. PaneClosed(u, f.id, f.code)
    BY <1>18 DEF Receive, w, f, ends
  <2>2. f.op = "closed"
    BY <1>2, <1>18 DEF Frame
  <2>3. ~mux.echo[f.id]
    BY <1>3, <1>18, <2>2 DEF IsEcho
  <2>4. Silent(ends)
    BY <1>10, <1>12, <1>h, <2>3 DEF Silent
  <2>5. \A i \in Id : f = Closed(i, "normal") => ~ends.mux.echo[i] /\ ends.mux.stream[i] # "live"
    BY <1>4, <1>10, <1>12, <2>3
  <2>6. \A i \in Id : /\ ends.mux.stream[i] = "live" => mux.stream[i] = "live"
                      /\ ends.mux.echo[i] => mux.echo[i]
    BY <1>10, <1>12
  <2>7. Served(ends, <<>>)
    BY <1>1, <1>10, <1>12, <2>4, <2>5, <2>6, TookServed DEF w, f
  <2>8. Good(u) /\ u.mux.next = mux.next /\ Served(u, <<>>)
    BY <1>10, <1>12, <1>13, <2>7, SyncHeartbeatGood, SyncHeartbeatServed, GoodShaped
  <2> HIDE DEF u
  <2>9. Become(v) /\ (reopen # {} => mux.next <= MaxId)
    <3>1. reopen = {p \in {p \in Pane : pane[p].at = "shown" /\ pane[p].cur = f.id} : f.code # "missing" /\ ~pane[p].probed}
      OBVIOUS
    <3> HIDE DEF reopen
    <3>2. QED
      BY <2>1, <3>1 DEF PaneClosed
  <2> HIDE DEF reopen
  <2>10. Good(v) /\ Served(v, <<>>)
    BY <2>8, <2>9, OpenStreamGood, OpenStreamServed
  <2> HIDE DEF v
  <2>11. QED
    BY <1>1, <2>9, <2>10, BrowserKept
<1>19. QED
  BY <1>14, <1>16, <1>17, <1>18

-----------------------------------------------------------------------------
(* Live streams: the steps of the daemon *)

\* What is known of stream i along socket n outlives the step.
Serving(st, echo, n, i) ==
  Serves(st, echo, conn[n].streams[i], sock[n].up, sock[n].down \o conn[n].control, Haunted(n, i), i)
Sustains(n, i) == \A st : \A echo \in BOOLEAN : Serving(st, echo, n, i) => Serving(st, echo, n, i)'

\* A step of the daemon that sustains every stream keeps what is known.
LEMMA DaemonKept ==
  ASSUME Inv, Kept, UNCHANGED muxVars, sock' \in Seq(Socket), Len(sock') = Len(sock),
         left'.fails = left.fails, left'.cuts = left.cuts, left'.ends > 0 => left.ends > 0,
         \A n \in 1..Len(sock) :
           /\ sock'[n].client = sock[n].client /\ Normal(sock'[n].down)
           /\ \/ sock'[n].net = sock[n].net
              \/ sock'[n].net = "cut" /\ ~(left.ends > 0)
           /\ sock'[n].net = "ok" => conn'[n].state # "down" /\ \A i \in Id : Sustains(n, i),
         \A n \in 1..MaxSockets : Normal(conn'[n].control),
         Owned', Retired'
  PROVE  Kept'
<1>1. mux' = mux
  BY DEF muxVars
<1>2. /\ Shaped(World) /\ Served(World, <<>>) /\ World.mux = mux /\ World.sock = sock
      /\ mux \in Mux /\ mux.ws \in 0..Len(sock) /\ Len(sock) \in Nat
      /\ mux.echo \in [Id -> BOOLEAN]
      /\ \A n \in 1..Len(sock) : sock[n].up \in Seq(Message)
  BY KeptFacts, WorldTypes
<1>3. World'.mux = mux /\ World'.sock = sock'
  BY <1>1 DEF World
<1>4. \A n \in 1..Len(sock) : sock'[n].up \in Seq(Message)
  <2>1. \A n \in 1..Len(sock) : sock'[n] \in Socket
    OBVIOUS
  <2>2. QED
    BY <2>1 DEF Socket
<1>5. Sound(World)' /\ Silent(World)'
  <2>1. Sound(World)'
    BY <1>3 DEF Sound
  <2>2. Silent(World)'
    BY <1>2, <1>3 DEF Served, Silent
  <2>3. QED
    BY <2>1, <2>2
<1>6. ASSUME left'.ends > 0 PROVE Steady(World)'
  <2>1. left.ends > 0 /\ Steady(World)
    BY <1>2, <1>6 DEF Served
  <2>2. \A n \in 1..Len(sock) : sock'[n].client = sock[n].client /\ sock'[n].net = sock[n].net
    BY <2>1
  <2>3. OnOpen(World)' <=> OnOpen(World)
    BY <1>2, <1>3, <2>2 DEF OnOpen, IsOpen, NoSocket
  <2>4. QED
    BY <1>2, <1>3, <2>1, <2>2, <2>3 DEF Steady
<1>7. ASSUME Reach(World)', NEW i \in Id
      PROVE  ServesIn(World, <<>>, i)'
  <2>1. PICK n \in 1..Len(sock) : n = mux.ws
    BY <1>2, <1>3, <1>7 DEF Reach, IsOpen, NoSocket
  <2>2. sock'[n].net = "ok" /\ sock'[n].client = "open"
    BY <1>3, <1>7, <2>1 DEF Reach, IsOpen
  <2>3. Reach(World) /\ Sustains(n, i)
    BY <1>2, <1>3, <1>7, <2>1, <2>2 DEF Reach, IsOpen
  <2>4. ServesIn(World, <<>>, i)
    BY <1>2, <2>3 DEF Served
  <2>5. sock[n].up \o <<>> = sock[n].up /\ sock'[n].up \o <<>> = sock'[n].up
    BY <1>2, <1>4
  <2>6. Serving(mux.stream[i], mux.echo[i], n, i)
    BY <1>2, <2>1, <2>4, <2>5 DEF ServesIn, Serving
  <2>7. PICK st, echo : st = mux.stream[i] /\ echo = mux.echo[i]
    OBVIOUS
  <2>8. echo \in BOOLEAN /\ Serving(st, echo, n, i)
    BY <1>2, <2>6, <2>7
  <2>9. Serving(st, echo, n, i)'
    BY <2>3, <2>8 DEF Sustains
  <2>10. Serves(st, echo, conn'[n].streams[i], sock'[n].up, sock'[n].down \o conn'[n].control, Haunted(n, i)', i)
    BY <2>9 DEF Serving
  <2>11. mux'.ws = n /\ mux'.stream[i] = st /\ mux'.echo[i] = echo
    BY <1>1, <2>1, <2>7
  <2>12. Haunted(mux.ws, i)' = Haunted(n, i)'
    BY <2>11 DEF Haunted
  <2>13. ServesIn(World, <<>>, i)' = Serves(st, echo, conn'[n].streams[i], sock'[n].up \o <<>>,
                                            sock'[n].down \o conn'[n].control, Haunted(n, i)', i)
    BY <1>3, <2>11, <2>12 DEF ServesIn, World
  <2>14. QED
    BY <2>5, <2>10, <2>13
<1>8. Served(World, <<>>)'
  BY <1>5, <1>6, <1>7 DEF Served
<1>9. QED
  BY <1>8 DEF Kept

\* The stream is as it was, and the queue tells no less of it.
LEMMA SustainsQueue ==
  ASSUME NEW n, NEW i, sock'[n].up = sock[n].up, conn'[n].streams[i] = conn[n].streams[i],
         LET q == sock[n].down \o conn[n].control
             r == sock'[n].down \o conn'[n].control
         IN (Once(q, i) => Once(r, i)) /\ (Twice(q, i) => Twice(r, i)),
         Haunted(n, i)' => Haunted(n, i)
  PROVE  Sustains(n, i)
<1> DEFINE q == sock[n].down \o conn[n].control
           r == sock'[n].down \o conn'[n].control
           h == Haunted(n, i)
           h2 == Haunted(n, i)'
<1>1. h \in BOOLEAN /\ h2 \in BOOLEAN /\ (h2 => h) /\ (Once(q, i) => Once(r, i)) /\ (Twice(q, i) => Twice(r, i))
  BY HauntedType DEF Haunted
<1>2. SUFFICES ASSUME NEW st, NEW echo \in BOOLEAN, Serving(st, echo, n, i) PROVE Serving(st, echo, n, i)'
  BY DEF Sustains
<1>3. Serves(st, echo, conn[n].streams[i], sock[n].up, q, h, i)
  BY <1>2 DEF Serving
<1>4. Serving(st, echo, n, i)' = Serves(st, echo, conn[n].streams[i], sock[n].up, r, h2, i)
  BY DEF Serving
<1> HIDE DEF q, r, h, h2
<1>5. QED
  BY <1>1, <1>3, <1>4, ServesQueue

\* What is known of the sockets and the connections, in the form it is used.
LEMMA DaemonFacts ==
  ASSUME Inv, Kept
  PROVE  /\ sock \in Seq(Socket) /\ Len(sock) \in Nat /\ Len(sock) <= MaxSockets /\ MaxSockets \in Nat
         /\ \A n \in 1..Len(sock) :
              /\ n \in 1..MaxSockets /\ sock[n] \in Socket
              /\ sock[n].up \in Seq(Message) /\ sock[n].down \in Seq(Frame)
              /\ Normal(sock[n].down) /\ (sock[n].net = "ok" => conn[n].state # "down")
         /\ \A n \in 1..MaxSockets : conn[n].state # "none" => n \in 1..Len(sock)
         /\ \A k \in DOMAIN object : object[k].conn \in 1..Len(sock)
<1>1. /\ sock \in Seq(Socket) /\ Len(sock) \in Nat /\ Len(sock) <= MaxSockets /\ MaxSockets \in Nat
      /\ World.sock = sock
  BY WorldFacts, BoundFacts DEF Inv
<1>2. \A n \in 1..Len(sock) : n \in 1..MaxSockets /\ sock[n] \in Socket
  BY <1>1
<1>3. \A n \in 1..Len(sock) : Normal(sock[n].down) /\ (sock[n].net = "ok" => conn[n].state # "down")
  BY <1>1 DEF Kept, Served, Sound
<1>4. \A n \in 1..MaxSockets : conn[n].state # "none" => n \in 1..Len(sock)
  BY <1>1, WorldFacts DEF Good, Dialling
<1>5. \A k \in DOMAIN object : object[k].conn \in 1..MaxSockets /\ conn[object[k].conn].state # "none"
  BY ConnFacts DEF Kept, Retired
<1>6. QED
  BY <1>1, <1>2, <1>3, <1>4, <1>5 DEF Socket

\* A normal close is appended.
LEMMA NormalGrows ==
  ASSUME NEW q \in Seq(Frame), Normal(q), NEW f \in Frame, f.op = "closed" => f.code = "normal"
  PROVE  Normal(Append(q, f))
BY DEF Normal

\* A frame is taken.
LEMMA NormalTaken ==
  ASSUME NEW q \in Seq(Frame), Normal(q), q # <<>>
  PROVE  Normal(Tail(q)) /\ (Head(q).op = "closed" => Head(q).code = "normal")
<1>1. /\ Len(Tail(q)) = Len(q) - 1 /\ Len(q) \in Nat /\ Head(q) = q[1] /\ 1 \in 1..Len(q)
      /\ \A j \in 1..Len(Tail(q)) : Tail(q)[j] = q[j + 1] /\ j + 1 \in 1..Len(q)
  OBVIOUS
<1>2. QED
  BY <1>1 DEF Normal

\* A step that leaves the streams alone, and starts no pump of a closed object.
LEMMA QueuesKept ==
  ASSUME Inv, Kept, UNCHANGED muxVars, sock' \in Seq(Socket), Len(sock') = Len(sock), left' = left,
         \A n \in 1..Len(sock) :
           /\ sock'[n].client = sock[n].client /\ sock'[n].net = sock[n].net /\ sock'[n].up = sock[n].up
           /\ Normal(sock'[n].down)
           /\ sock[n].net = "ok" =>
                \A i \in Id : LET q == sock[n].down \o conn[n].control
                                  r == sock'[n].down \o conn'[n].control
                              IN (Once(q, i) => Once(r, i)) /\ (Twice(q, i) => Twice(r, i)),
         \A n \in 1..MaxSockets : /\ conn'[n].state \in {conn[n].state, "up"}
                                  /\ conn'[n].streams = conn[n].streams /\ Normal(conn'[n].control),
         DOMAIN object' = DOMAIN object,
         \A k \in DOMAIN object : /\ object'[k].conn = object[k].conn /\ object'[k].id = object[k].id
                                  /\ object'[k].torn = object[k].torn
                                  /\ object'[k].torn /\ object'[k].pump => object[k].pump
  PROVE  Kept'
<1>1. \A n \in 1..Len(sock) : n \in 1..MaxSockets /\ (sock[n].net = "ok" => conn[n].state # "down")
  BY DaemonFacts
<1>2. \A k \in DOMAIN object : object[k].conn \in 1..MaxSockets
  BY ConnFacts
<1>3. ASSUME NEW n \in 1..Len(sock), NEW i \in Id, sock[n].net = "ok"
      PROVE  Sustains(n, i)
  <2>1. Haunted(n, i)' => Haunted(n, i)
    BY DEF Haunted
  <2>2. conn'[n].streams[i] = conn[n].streams[i]
    BY <1>1
  <2>3. QED
    BY <1>3, <2>1, <2>2, SustainsQueue
<1>4. Owned'
  BY DEF Kept, Owned
<1>5. Retired'
  BY <1>2 DEF Kept, Retired, Registered
<1>6. \A n \in 1..Len(sock) : sock'[n].net = "ok" => conn'[n].state # "down" /\ \A i \in Id : Sustains(n, i)
  BY <1>1, <1>3
<1>7. QED
  BY <1>4, <1>5, <1>6, DaemonKept

\* The daemon accepts a connection.
LEMMA AcceptKept ==
  ASSUME Inv, Kept, NEW n \in DOMAIN sock, Accept(n), UNCHANGED muxVars
  PROVE  Kept'
<1>1. /\ conn' = [conn EXCEPT ![n] = [conn[n] EXCEPT !.state = "up"]]
      /\ sock' = sock /\ left' = left /\ object' = object
  BY DEF Accept
<1>2. /\ conn \in [1..MaxSockets -> Conn] /\ n \in 1..MaxSockets /\ conn[n] \in Conn
  BY ConnFacts, DaemonFacts, WorldFacts
<1>3. \A m \in 1..MaxSockets :
        /\ conn'[m].state \in {conn[m].state, "up"}
        /\ conn'[m].streams = conn[m].streams /\ conn'[m].control = conn[m].control
  BY <1>1, <1>2 DEF Conn
<1>4. \A m \in 1..MaxSockets : Normal(conn'[m].control)
  BY <1>3 DEF Kept
<1>5. \A m \in 1..Len(sock) : m \in 1..MaxSockets /\ Normal(sock[m].down)
  BY DaemonFacts
<1>6. sock' \in Seq(Socket)
  BY <1>1, DaemonFacts
<1>7. QED
  BY <1>1, <1>3, <1>4, <1>5, <1>6, QueuesKept

\* The writer moves a frame to the socket, or puts an `opened` before the closes.
LEMMA WriteKept ==
  ASSUME Inv, Kept, UNCHANGED muxVars,
         \/ \E n \in DOMAIN sock : WriteControl(n)
         \/ \E k \in DOMAIN object : WriteOpened(k)
  PROVE  Kept'
<1>0. /\ sock \in Seq(Socket) /\ Len(sock) \in Nat
      /\ \A m \in 1..Len(sock) : /\ m \in 1..MaxSockets /\ sock[m] \in Socket
                                 /\ sock[m].down \in Seq(Frame) /\ Normal(sock[m].down)
      /\ \A m \in 1..MaxSockets : conn[m].control \in Seq(Frame) /\ Normal(conn[m].control)
  BY DaemonFacts, ConnFacts DEF Kept
<1>1. ASSUME NEW n \in DOMAIN sock, NEW f \in Frame, f.op = "closed" => f.code = "normal", Put(n, f)
      PROVE  /\ sock' \in Seq(Socket) /\ Len(sock') = Len(sock)
             /\ \A m \in 1..Len(sock) :
                  /\ sock'[m].client = sock[m].client /\ sock'[m].net = sock[m].net /\ sock'[m].up = sock[m].up
                  /\ sock'[m].down = IF m = n /\ sock[m].net = "ok" THEN Append(sock[m].down, f) ELSE sock[m].down
                  /\ Normal(sock'[m].down)
  <2>1. n \in 1..Len(sock)
    BY <1>0
  <2> DEFINE s == [sock[n] EXCEPT !.down = Append(@, f)]
  <2>2. Append(sock[n].down, f) \in Seq(Frame)
    BY <1>0, <2>1
  <2>3. /\ s \in Socket /\ s.client = sock[n].client /\ s.net = sock[n].net /\ s.up = sock[n].up
        /\ s.down = Append(sock[n].down, f)
    BY <1>0, <2>1, <2>2 DEF Socket
  <2>4. sock' = IF sock[n].net = "ok" THEN [sock EXCEPT ![n] = s] ELSE sock
    BY <1>1 DEF Put
  <2> HIDE DEF s
  <2>5. /\ sock' \in Seq(Socket) /\ Len(sock') = Len(sock)
        /\ \A m \in 1..Len(sock) :
             /\ sock'[m].client = sock[m].client /\ sock'[m].net = sock[m].net /\ sock'[m].up = sock[m].up
             /\ sock'[m].down = IF m = n /\ sock[m].net = "ok" THEN Append(sock[m].down, f) ELSE sock[m].down
    <3>1. CASE sock[n].net = "ok"
      <4>1. sock' = [sock EXCEPT ![n] = s]
        BY <2>4, <3>1
      <4>2. /\ sock' \in Seq(Socket) /\ Len(sock') = Len(sock) /\ sock'[n] = s
            /\ \A m \in 1..Len(sock) : m # n => sock'[m] = sock[m]
        BY <1>0, <2>1, <2>3, <4>1
      <4>3. QED
        BY <2>3, <3>1, <4>2
    <3>2. CASE sock[n].net # "ok"
      BY <1>0, <2>4, <3>2
    <3>3. QED
      BY <3>1, <3>2
  <2>6. Normal(Append(sock[n].down, f))
    BY <1>0, <1>1, <2>1, NormalGrows
  <2>7. QED
    BY <1>0, <2>5, <2>6
<1>2. CASE \E n \in DOMAIN sock : WriteControl(n)
  <2>1. PICK n \in DOMAIN sock : WriteControl(n)
    BY <1>2
  <2> DEFINE b == conn[n].control
  <2>2. /\ n \in 1..Len(sock) /\ n \in 1..MaxSockets /\ b \in Seq(Frame) /\ b # <<>> /\ Head(b) \in Frame
        /\ conn \in [1..MaxSockets -> Conn] /\ conn[n] \in Conn /\ Normal(b)
    BY <1>0, <2>1, ConnFacts DEF WriteControl
  <2>3. /\ Put(n, Head(b)) /\ left' = left /\ object' = object
        /\ conn' = [conn EXCEPT ![n] = [conn[n] EXCEPT !.control = Tail(b)]]
    BY <2>1 DEF WriteControl
  <2>4. Normal(Tail(b)) /\ (Head(b).op = "closed" => Head(b).code = "normal")
    BY <2>2, NormalTaken
  <2>5. \A m \in 1..MaxSockets :
          /\ conn'[m].state = conn[m].state /\ conn'[m].streams = conn[m].streams
          /\ conn'[m].control = IF m = n THEN Tail(b) ELSE conn[m].control
    BY <2>2, <2>3 DEF Conn
  <2>6. /\ sock' \in Seq(Socket) /\ Len(sock') = Len(sock)
        /\ \A m \in 1..Len(sock) :
             /\ sock'[m].client = sock[m].client /\ sock'[m].net = sock[m].net /\ sock'[m].up = sock[m].up
             /\ sock'[m].down = IF m = n /\ sock[m].net = "ok" THEN Append(sock[m].down, Head(b)) ELSE sock[m].down
             /\ Normal(sock'[m].down)
    BY <1>1, <2>2, <2>3, <2>4
  <2>7. ASSUME NEW m \in 1..Len(sock), sock[m].net = "ok"
        PROVE  sock'[m].down \o conn'[m].control = sock[m].down \o conn[m].control
    <3>1. CASE m = n
      <4>1. Append(sock[n].down, Head(b)) \o Tail(b) = sock[n].down \o b
        BY <1>0, <2>2, QueueMoves
      <4>2. QED
        BY <1>0, <2>5, <2>6, <2>7, <3>1, <4>1
    <3>2. CASE m # n
      BY <1>0, <2>5, <2>6, <3>2
    <3>3. QED
      BY <3>1, <3>2
  <2>8. \A m \in 1..MaxSockets : Normal(conn'[m].control)
    BY <1>0, <2>4, <2>5
  <2> HIDE DEF b
  <2>9. QED
    BY <2>3, <2>5, <2>6, <2>7, <2>8, QueuesKept
<1>3. CASE \E k \in DOMAIN object : WriteOpened(k)
  <2>1. PICK k \in DOMAIN object : WriteOpened(k)
    BY <1>3
  <2>2. PICK n : n = object[k].conn
    OBVIOUS
  <2> DEFINE f == [op |-> "opened", id |-> object[k].id]
             o == [object[k] EXCEPT !.queued = FALSE]
  <2>3. /\ n \in DOMAIN sock /\ object[k] \in Object /\ object[k].id \in Id /\ object \in Seq(Object)
    BY <1>0, <2>2, DaemonFacts, ConnFacts
  <2>4. f \in Frame /\ f.op = "opened"
    BY <2>3 DEF Frame
  <2>5. o.conn = object[k].conn /\ o.id = object[k].id /\ o.torn = object[k].torn /\ o.pump = object[k].pump
    BY <2>3 DEF Object
  <2>6. Put(n, f) /\ left' = left /\ conn' = conn /\ object' = [object EXCEPT ![k] = o]
    BY <2>1, <2>2 DEF WriteOpened
  <2> HIDE DEF f, o
  <2>7. /\ sock' \in Seq(Socket) /\ Len(sock') = Len(sock)
        /\ \A m \in 1..Len(sock) :
             /\ sock'[m].client = sock[m].client /\ sock'[m].net = sock[m].net /\ sock'[m].up = sock[m].up
             /\ sock'[m].down = IF m = n /\ sock[m].net = "ok" THEN Append(sock[m].down, f) ELSE sock[m].down
             /\ Normal(sock'[m].down)
    BY <1>1, <2>3, <2>4, <2>6
  <2>8. /\ DOMAIN object' = DOMAIN object
        /\ \A l \in DOMAIN object : /\ object'[l].conn = object[l].conn /\ object'[l].id = object[l].id
                                    /\ object'[l].torn = object[l].torn /\ object'[l].pump = object[l].pump
    BY <2>3, <2>5, <2>6
  <2>9. ASSUME NEW m \in 1..Len(sock), sock[m].net = "ok", NEW i \in Id
        PROVE  LET q == sock[m].down \o conn[m].control
                   r == sock'[m].down \o conn'[m].control
               IN (Once(q, i) => Once(r, i)) /\ (Twice(q, i) => Twice(r, i))
    <3>1. sock[m].down \in Seq(Frame) /\ conn[m].control \in Seq(Frame)
      BY <1>0
    <3>2. CASE m = n
      <4>1. sock'[m].down = Append(sock[m].down, f) /\ conn'[m].control = conn[m].control
        BY <2>6, <2>7, <2>9, <3>2
      <4>2. QED
        BY <2>4, <3>1, <4>1, QueueInserted
    <3>3. CASE m # n
      BY <2>6, <2>7, <3>3
    <3>4. QED
      BY <3>2, <3>3
  <2>10. \A m \in 1..MaxSockets : Normal(conn'[m].control)
    BY <1>0, <2>6
  <2>11. QED
    BY <2>6, <2>7, <2>8, <2>9, <2>10, QueuesKept
<1>4. QED
  BY <1>2, <1>3

\* attachStream forks, publishes or reaps; a pump leaves.
LEMMA AttachKept ==
  ASSUME Inv, Kept, UNCHANGED muxVars, NEW k \in DOMAIN object, AttachForks(k) \/ AttachPublishes(k) \/ PumpLeaves(k)
  PROVE  Kept'
<1>0. object[k] \in Object /\ object \in Seq(Object)
  BY ConnFacts
<1>1. ASSUME NEW o, o.conn = object[k].conn, o.id = object[k].id, o.torn = object[k].torn,
             o.torn /\ o.pump => object[k].pump, object' = [object EXCEPT ![k] = o],
             UNCHANGED <<sock, left, conn>>
      PROVE  Kept'
  <2>1. /\ DOMAIN object' = DOMAIN object
        /\ \A l \in DOMAIN object : object'[l] = IF l = k THEN o ELSE object[l]
    BY <1>0, <1>1
  <2>2. \A l \in DOMAIN object : /\ object'[l].conn = object[l].conn /\ object'[l].id = object[l].id
                                 /\ object'[l].torn = object[l].torn
                                 /\ object'[l].torn /\ object'[l].pump => object[l].pump
    BY <1>1, <2>1
  <2>3. \A n \in 1..Len(sock) : Normal(sock[n].down)
    BY DaemonFacts
  <2>4. \A n \in 1..MaxSockets : Normal(conn[n].control)
    BY DEF Kept
  <2>5. sock \in Seq(Socket)
    BY DaemonFacts
  <2>6. QED
    BY <1>1, <2>1, <2>2, <2>3, <2>4, <2>5, QueuesKept
<1>2. CASE AttachForks(k)
  <2> DEFINE o == [object[k] EXCEPT !.at = "forked", !.process = TRUE]
  <2>1. object' = [object EXCEPT ![k] = o] /\ UNCHANGED <<sock, left, conn>>
    BY <1>2 DEF AttachForks
  <2>2. o.conn = object[k].conn /\ o.id = object[k].id /\ o.torn = object[k].torn /\ o.pump = object[k].pump
    BY <1>0 DEF Object
  <2> HIDE DEF o
  <2>3. QED
    BY <1>1, <2>1, <2>2
<1>3. CASE AttachPublishes(k)
  <2> DEFINE r == Registered(k)
             o == [object[k] EXCEPT !.at = "done", !.process = r, !.pump = r, !.queued = r]
  <2>1. object' = [object EXCEPT ![k] = o] /\ UNCHANGED <<sock, left, conn>>
    BY <1>3 DEF AttachPublishes
  <2>2. object[k].torn => ~r
    BY DEF Kept, Retired
  <2> HIDE DEF r
  <2>3. o.conn = object[k].conn /\ o.id = object[k].id /\ o.torn = object[k].torn /\ o.pump = r
    BY <1>0 DEF Object
  <2> HIDE DEF o
  <2>4. QED
    BY <1>1, <2>1, <2>2, <2>3
<1>4. CASE PumpLeaves(k)
  <2> DEFINE o == [object[k] EXCEPT !.pump = FALSE]
  <2>1. object' = [object EXCEPT ![k] = o] /\ UNCHANGED <<sock, left, conn>>
    BY <1>4 DEF PumpLeaves
  <2>2. o.conn = object[k].conn /\ o.id = object[k].id /\ o.torn = object[k].torn /\ ~o.pump
    BY <1>0 DEF Object
  <2> HIDE DEF o
  <2>3. QED
    BY <1>1, <2>1, <2>2
<1>5. QED
  BY <1>2, <1>3, <1>4

\* What a closed object is marked with.
LEMMA TornDownMarks ==
  ASSUME NEW obj \in Seq(Object), NEW S, NEW late \in BOOLEAN, NEW k \in DOMAIN obj
  PROVE  LET t == TornDown(obj, S, late) IN
         t[k].torn = (obj[k].torn \/ k \in S) /\ t[k].pump = obj[k].pump
<1> DEFINE t == TornDown(obj, S, late)
<1>1. obj[k] \in Object
  OBVIOUS
<1>2. CASE k \in S
  <2> DEFINE q == obj[k].queued /\ late
             p == obj[k].process /\ obj[k].at = "forked"
  <2>1. t[k] = [obj[k] EXCEPT !.torn = TRUE, !.queued = q, !.process = p]
    BY <1>2 DEF TornDown
  <2> HIDE DEF p, q
  <2>2. t[k].torn = TRUE /\ t[k].pump = obj[k].pump
    BY <1>1, <2>1 DEF Object
  <2>3. QED
    BY <1>2, <2>2
<1>3. CASE k \notin S
  <2>1. t[k] = obj[k] /\ obj[k].torn \in BOOLEAN
    BY <1>1, <1>3 DEF TornDown, Object
  <2>2. QED
    BY <1>3, <2>1
<1>4. QED
  BY <1>2, <1>3

\* An id is unregistered and its object closed: a frame tells so, and the pump of
\* the object may go on to close the id, and no other.
LEMMA CloseMarks ==
  ASSUME Inv, Kept, NEW obj \in Seq(Object), DOMAIN obj = DOMAIN object,
         \A k \in DOMAIN object : /\ obj[k].conn = object[k].conn /\ obj[k].id = object[k].id
                                  /\ obj[k].torn = object[k].torn /\ (obj[k].pump => object[k].pump),
         NEW n \in 1..MaxSockets, NEW i \in Id, NEW late \in BOOLEAN,
         Closes(obj, n, i, late), conn[n].streams[i] # Unregistered, left'.ends > 0 => left.ends > 0
  PROVE  /\ Owned' /\ Retired'
         /\ \A m \in 1..MaxSockets :
              /\ conn'[m].state = conn[m].state /\ Normal(conn'[m].control)
              /\ \A j \in Id : conn'[m].streams[j] = IF m = n /\ j = i THEN Unregistered ELSE conn[m].streams[j]
              /\ conn'[m].control = IF m = n THEN Append(conn[m].control, Closed(i, "normal")) ELSE conn[m].control
         /\ \A m \in 1..MaxSockets, j \in Id : ~(m = n /\ j = i) => (Haunted(m, j)' => Haunted(m, j))
<1> DEFINE x == conn[n].streams[i]
           more == Append(conn[n].control, Closed(i, "normal"))
           c == [conn[n] EXCEPT !.streams = [conn[n].streams EXCEPT ![i] = Unregistered], !.control = more]
<1>1. /\ conn \in [1..MaxSockets -> Conn] /\ conn[n] \in Conn /\ conn[n].streams \in [Id -> Nat]
      /\ conn[n].control \in Seq(Frame)
      /\ \A k \in DOMAIN object : object[k].conn \in 1..MaxSockets /\ object[k].id \in Id /\ k # Unregistered
  BY ConnFacts DEF Unregistered
<1>2. Closed(i, "normal") \in Frame /\ Closed(i, "normal").code = "normal"
  BY DEF Closed, Frame
<1>3. more \in Seq(Frame) /\ Normal(more)
  <2>1. Normal(conn[n].control)
    BY DEF Kept
  <2>2. QED
    BY <1>1, <1>2, <2>1, NormalGrows
<1>4. conn' = [conn EXCEPT ![n] = c]
  <2>1. conn' = [[conn EXCEPT ![n].streams[i] = Unregistered] EXCEPT ![n].control = Append(@, Closed(i, "normal"))]
    BY DEF Closes
  <2>2. QED
    BY <1>1, <2>1 DEF Conn
<1>5. /\ c.state = conn[n].state /\ c.control = more
      /\ \A j \in Id : c.streams[j] = IF j = i THEN Unregistered ELSE conn[n].streams[j]
  BY <1>1 DEF Conn
<1> HIDE DEF c
<1>6. \A m \in 1..MaxSockets : conn'[m] = IF m = n THEN c ELSE conn[m]
  BY <1>1, <1>4
<1>7. \A m \in 1..MaxSockets :
        /\ conn'[m].state = conn[m].state
        /\ \A j \in Id : conn'[m].streams[j] = IF m = n /\ j = i THEN Unregistered ELSE conn[m].streams[j]
        /\ conn'[m].control = IF m = n THEN more ELSE conn[m].control
  BY <1>5, <1>6
<1>8. \A m \in 1..MaxSockets : Normal(conn'[m].control)
  BY <1>3, <1>7 DEF Kept
<1>9. /\ DOMAIN object' = DOMAIN object
      /\ \A k \in DOMAIN object :
           /\ object'[k].conn = object[k].conn /\ object'[k].id = object[k].id
           /\ object'[k].torn = (object[k].torn \/ k = x)
           /\ object'[k].pump => object[k].pump
  <2>1. object' = TornDown(obj, {x}, late)
    BY DEF Closes
  <2>2. /\ DOMAIN object' = DOMAIN obj
        /\ \A k \in DOMAIN obj : object'[k].conn = obj[k].conn /\ object'[k].id = obj[k].id
    BY <2>1, TornDownFacts
  <2>3. \A k \in DOMAIN obj : object'[k].torn = (obj[k].torn \/ k = x) /\ object'[k].pump = obj[k].pump
    BY <2>1, TornDownMarks
  <2>4. QED
    BY <2>2, <2>3
<1>10. x \in DOMAIN object /\ object[x].conn = n /\ object[x].id = i
  BY DEF Kept, Owned
<1> HIDE DEF x, more
<1>11. Owned'
  BY <1>7, <1>9 DEF Kept, Owned
<1>12. Retired'
  <2>1. SUFFICES ASSUME NEW k \in DOMAIN object
                 PROVE  /\ object'[k].torn => conn'[object[k].conn].streams[object[k].id] # k
                        /\ conn'[object[k].conn].state # "none"
    BY <1>9 DEF Retired, Registered
  <2>2. PICK m \in 1..MaxSockets, j \in Id : m = object[k].conn /\ j = object[k].id
    BY <1>1
  <2>3. conn[m].state # "none" /\ (object[k].torn => conn[m].streams[j] # k) /\ k # Unregistered
    BY <1>1, <2>2 DEF Kept, Retired, Registered
  <2>4. k = x => m = n /\ j = i
    BY <1>10, <2>2
  <2>5. object'[k].torn = (object[k].torn \/ k = x)
    BY <1>9
  <2>6. conn'[m].state = conn[m].state
        /\ conn'[m].streams[j] = IF m = n /\ j = i THEN Unregistered ELSE conn[m].streams[j]
    BY <1>7, <2>2
  <2>7. (object'[k].torn => conn'[m].streams[j] # k) /\ conn'[m].state # "none"
    BY ONLY <2>3, <2>4, <2>5, <2>6
  <2>8. QED
    BY <2>2, <2>7
<1>13. ASSUME NEW m \in 1..MaxSockets, NEW j \in Id, ~(m = n /\ j = i), Haunted(m, j)'
       PROVE  Haunted(m, j)
  BY <1>9, <1>10, <1>13 DEF Haunted
<1>14. QED
  BY <1>7, <1>8, <1>11, <1>12, <1>13 DEF more

\* attachStream gives up: its stream was closed, or its connection is down.
LEMMA AttachEndsKept ==
  ASSUME Inv, Kept, UNCHANGED muxVars, NEW k \in DOMAIN object, AttachAbandons(k) \/ AttachFails(k)
  PROVE  Kept'
<1>1. ~AttachFails(k)
  BY DEF AttachFails, Spend, Kept
<1>2. /\ ~StillLive(k) /\ FailClosed(k, "normal") /\ sock' = sock /\ left' = left
  BY <1>1 DEF AttachAbandons
<1>3. PICK n \in 1..MaxSockets, i \in Id : n = object[k].conn /\ i = object[k].id
  BY ConnFacts
<1> DEFINE x == IF conn[n].streams[i] = k THEN Unregistered ELSE conn[n].streams[i]
           more == IF conn[n].state = "up" THEN Append(conn[n].control, Closed(i, "normal")) ELSE conn[n].control
           c == [conn[n] EXCEPT !.streams = [conn[n].streams EXCEPT ![i] = x], !.control = more]
           o == [object[k] EXCEPT !.at = "done", !.torn = TRUE]
<1>4. /\ conn \in [1..MaxSockets -> Conn] /\ conn[n] \in Conn /\ conn[n].streams \in [Id -> Nat]
      /\ conn[n].control \in Seq(Frame) /\ object \in Seq(Object) /\ object[k] \in Object
      /\ \A l \in DOMAIN object : object[l].conn \in 1..MaxSockets /\ object[l].id \in Id /\ l # Unregistered
      /\ conn[n].state \in {"none", "up", "down"}
  BY ConnFacts DEF Unregistered, Conn
<1>5. conn[n].state # "none" /\ (object[k].torn => conn[n].streams[i] # k)
  BY <1>3 DEF Kept, Retired, Registered
<1>6. more \in Seq(Frame) /\ Normal(more)
  <2>1. Closed(i, "normal") \in Frame /\ Closed(i, "normal").code = "normal" /\ Normal(conn[n].control)
    BY DEF Closed, Frame, Kept
  <2>2. QED
    BY <1>4, <2>1, NormalGrows
<1>7. conn' = [conn EXCEPT ![n] = c] /\ object' = [object EXCEPT ![k] = o]
  <2>1. object' = [object EXCEPT ![k] = o]
    BY <1>2 DEF FailClosed
  <2>2. conn' = [[conn EXCEPT ![n].streams[i] = x] EXCEPT ![n].control = more]
    BY <1>2, <1>3 DEF FailClosed
  <2> HIDE DEF more, x
  <2>3. QED
    BY <1>4, <2>1, <2>2 DEF Conn
<1>8. x \in {conn[n].streams[i], Unregistered} /\ x # k /\ (conn[n].streams[i] # k => x = conn[n].streams[i])
  BY <1>4
<1>9. conn[n].state = "up" => more = Append(conn[n].control, Closed(i, "normal"))
  OBVIOUS
<1> HIDE DEF x, more
<1>10. /\ c.state = conn[n].state /\ c.control = more
       /\ \A j \in Id : c.streams[j] = IF j = i THEN x ELSE conn[n].streams[j]
  BY <1>4 DEF Conn
<1>11. o.conn = n /\ o.id = i /\ o.torn = TRUE /\ o.pump = object[k].pump
  BY <1>3, <1>4 DEF Object
<1> HIDE DEF c, o
<1>12. \A m \in 1..MaxSockets : conn'[m] = IF m = n THEN c ELSE conn[m]
  BY <1>4, <1>7
<1>13. /\ DOMAIN object' = DOMAIN object
       /\ \A l \in DOMAIN object : object'[l] = IF l = k THEN o ELSE object[l]
  BY <1>4, <1>7
<1>14. \A m \in 1..MaxSockets :
         /\ conn'[m].state = conn[m].state
         /\ \A j \in Id : conn'[m].streams[j] = IF m = n /\ j = i THEN x ELSE conn[m].streams[j]
         /\ conn'[m].control = IF m = n THEN more ELSE conn[m].control
  BY <1>10, <1>12
<1>15. Owned'
  BY <1>3, <1>8, <1>11, <1>13, <1>14 DEF Kept, Owned
<1>16. Retired'
  <2>1. SUFFICES ASSUME NEW l \in DOMAIN object
                 PROVE  /\ object'[l].torn => conn'[object'[l].conn].streams[object'[l].id] # l
                        /\ conn'[object'[l].conn].state # "none"
    BY <1>13 DEF Retired, Registered
  <2>2. PICK m \in 1..MaxSockets, j \in Id : m = object[l].conn /\ j = object[l].id
    BY <1>4
  <2>3. conn[m].state # "none" /\ (object[l].torn => conn[m].streams[j] # l) /\ l # Unregistered
    BY <1>4, <2>2 DEF Kept, Retired, Registered
  <2>4. object'[l].conn = m /\ object'[l].id = j /\ (l # k => object'[l].torn = object[l].torn)
    BY <1>3, <1>11, <1>13, <2>2
  <2>5. l = k => m = n /\ j = i
    BY <1>3, <2>2
  <2>6. QED
    BY <1>8, <1>14, <2>3, <2>4, <2>5
<1>17. ASSUME NEW m \in 1..Len(sock), NEW j \in Id, sock[m].net = "ok"
       PROVE  Sustains(m, j)
  <2>1. m \in 1..MaxSockets /\ conn[m].state # "down" /\ sock[m].down \in Seq(Frame)
        /\ conn[m].control \in Seq(Frame)
    BY <1>17, DaemonFacts, ConnFacts
  <2>2. m = n => object[k].torn /\ conn[n].state = "up"
    BY <1>2, <1>3, <1>4, <1>5, <2>1 DEF StillLive
  <2>3. Haunted(m, j)' => Haunted(m, j)
    <3>1. \A l \in DOMAIN object : object'[l].conn = m /\ object'[l].torn =>
            object[l].conn = m /\ object[l].torn
      BY <1>11, <1>13, <2>2, <1>3
    <3>2. \A l \in DOMAIN object : object'[l].id = object[l].id /\ object'[l].pump = object[l].pump
      BY <1>3, <1>11, <1>13
    <3>3. QED
      BY <1>2, <1>13, <3>1, <3>2 DEF Haunted
  <2>4. conn'[m].streams[j] = conn[m].streams[j]
    BY <1>5, <1>8, <1>14, <2>1, <2>2
  <2>5. LET q == sock[m].down \o conn[m].control
            r == sock'[m].down \o conn'[m].control
        IN (Once(q, j) => Once(r, j)) /\ (Twice(q, j) => Twice(r, j))
    <3>1. CASE m = n
      <4>1. conn'[m].control = Append(conn[m].control, Closed(i, "normal")) /\ Closed(i, "normal") \in Frame
        BY <1>9, <1>14, <2>1, <2>2, <3>1 DEF Closed, Frame
      <4>2. QED
        BY <1>2, <2>1, <4>1, QueueGrows
    <3>2. CASE m # n
      BY <1>2, <1>14, <2>1, <3>2
    <3>3. QED
      BY <3>1, <3>2
  <2>6. QED
    BY <1>2, <2>3, <2>4, <2>5, SustainsQueue
<1>18. \A m \in 1..MaxSockets : Normal(conn'[m].control)
  BY <1>6, <1>14 DEF Kept
<1>19. /\ sock \in Seq(Socket)
       /\ \A m \in 1..Len(sock) : m \in 1..MaxSockets /\ Normal(sock[m].down)
                                  /\ (sock[m].net = "ok" => conn[m].state # "down")
  BY DaemonFacts
<1>20. QED
  BY <1>2, <1>14, <1>15, <1>16, <1>17, <1>18, <1>19, DaemonKept

\* A pump that ends closes the id it had, whichever object has it by now.
LEMMA PumpEndsKept ==
  ASSUME Inv, Kept, UNCHANGED muxVars, NEW k \in DOMAIN object, PumpEnds(k)
  PROVE  Kept'
<1>1. PICK n \in 1..MaxSockets, i \in Id : n = object[k].conn /\ i = object[k].id
  BY ConnFacts
<1> DEFINE o == [object[k] EXCEPT !.pump = FALSE]
           ended == [object EXCEPT ![k].pump = FALSE]
<1>2. /\ object \in Seq(Object) /\ object[k] \in Object /\ left \in Budget /\ left.ends \in Nat
      /\ object[k].pump /\ sock' = sock
  BY ConnFacts, WorldFacts DEF PumpEnds, Budget
<1>3. left'.fails = left.fails /\ left'.cuts = left.cuts /\ (left'.ends > 0 => left.ends > 0)
      /\ (~object[k].torn => left.ends > 0)
  <2>1. CASE object[k].torn
    BY <2>1 DEF PumpEnds
  <2>2. CASE ~object[k].torn
    <3>1. left.ends > 0 /\ left' = [left EXCEPT !.ends = @ - 1]
      BY <2>2 DEF PumpEnds, Spend
    <3>2. QED
      BY <1>2, <3>1 DEF Budget
  <2>3. QED
    BY <2>1, <2>2
<1>4. Haunted(n, i)
  BY <1>1, <1>2, <1>3 DEF Haunted
<1>5. /\ o \in Object /\ o.conn = n /\ o.id = i /\ o.torn = object[k].torn /\ ~o.pump
  BY <1>1, <1>2 DEF Object
<1>6. ended = [object EXCEPT ![k] = o]
  OBVIOUS
<1> HIDE DEF o
<1>7. /\ ended \in Seq(Object) /\ DOMAIN ended = DOMAIN object
      /\ \A l \in DOMAIN object : ended[l] = IF l = k THEN o ELSE object[l]
  <2> HIDE DEF ended
  <2>1. QED
    BY <1>2, <1>5, <1>6
<1>8. \A l \in DOMAIN object :
        /\ ended[l].conn = object[l].conn /\ ended[l].id = object[l].id
        /\ ended[l].torn = object[l].torn /\ (ended[l].pump => object[l].pump)
  <2> HIDE DEF ended
  <2>1. QED
    BY <1>1, <1>5, <1>7
<1>9. /\ sock \in Seq(Socket)
      /\ \A m \in 1..Len(sock) : m \in 1..MaxSockets /\ Normal(sock[m].down)
                                 /\ (sock[m].net = "ok" => conn[m].state # "down")
      /\ \A m \in 1..MaxSockets : Normal(conn[m].control)
  BY DaemonFacts DEF Kept
<1>10. CASE conn[n].streams[i] = Unregistered
  <2>1. object' = ended /\ conn' = conn
    BY <1>1, <1>10 DEF PumpEnds
  <2> HIDE DEF ended
  <2>2. ASSUME NEW m \in 1..Len(sock), NEW j \in Id PROVE Sustains(m, j)
    <3>1. Haunted(m, j)' => Haunted(m, j)
      BY <1>3, <1>7, <1>8, <2>1 DEF Haunted
    <3>2. QED
      BY <1>2, <2>1, <3>1, SustainsQueue
  <2>3. Owned'
    BY <1>7, <1>8, <2>1 DEF Kept, Owned
  <2>4. Retired'
    BY <1>7, <1>8, <2>1 DEF Kept, Retired, Registered
  <2>5. QED
    BY <1>2, <1>3, <1>9, <2>1, <2>2, <2>3, <2>4, DaemonKept
<1>11. CASE conn[n].streams[i] # Unregistered
  <2>1. /\ conn' = [conn EXCEPT ![n].streams[i] = Unregistered,
                                ![n].control = Append(@, Closed(i, "normal"))]
        /\ \E late \in BOOLEAN : object' = TornDown(ended, {conn[n].streams[i]}, late)
    BY <1>1, <1>11 DEF PumpEnds
  <2> HIDE DEF ended
  <2>2. PICK late \in BOOLEAN : object' = TornDown(ended, {conn[n].streams[i]}, late)
    BY <2>1
  <2>3. Closes(ended, n, i, late)
    BY <2>1, <2>2 DEF Closes
  <2>4. /\ Owned' /\ Retired'
        /\ \A m \in 1..MaxSockets :
             /\ conn'[m].state = conn[m].state /\ Normal(conn'[m].control)
             /\ \A j \in Id : conn'[m].streams[j] = IF m = n /\ j = i THEN Unregistered ELSE conn[m].streams[j]
             /\ conn'[m].control = IF m = n THEN Append(conn[m].control, Closed(i, "normal")) ELSE conn[m].control
        /\ \A m \in 1..MaxSockets, j \in Id : ~(m = n /\ j = i) => (Haunted(m, j)' => Haunted(m, j))
    BY <1>3, <1>7, <1>8, <1>11, <2>3, CloseMarks
  <2>5. ASSUME NEW m \in 1..Len(sock), NEW j \in Id PROVE Sustains(m, j)
    <3> DEFINE a == sock[m].down
               b == conn[m].control
               q == a \o b
               r == sock'[m].down \o conn'[m].control
    <3>1. m \in 1..MaxSockets /\ a \in Seq(Frame) /\ b \in Seq(Frame)
      BY DaemonFacts, ConnFacts
    <3>2. CASE m # n
      <4>1. conn'[m].streams[j] = conn[m].streams[j] /\ r = q /\ (Haunted(m, j)' => Haunted(m, j))
        BY <1>2, <2>4, <3>1, <3>2
      <4>2. QED
        BY <1>2, <4>1, SustainsQueue
    <3>3. CASE m = n
      <4>1. r = a \o Append(b, Closed(i, "normal")) /\ Closed(i, "normal") \in Frame
        BY <1>2, <2>4, <3>1, <3>3 DEF Closed, Frame
      <4>2. /\ Once(q, j) => Once(r, j)
            /\ Twice(q, j) => Twice(r, j)
            /\ j = i => Once(r, j) /\ (Once(q, j) => Twice(r, j))
        <5> HIDE DEF a, b
        <5>1. QED
          BY <3>1, <4>1, QueueGrows
      <4>3. CASE j # i
        <5>1. conn'[m].streams[j] = conn[m].streams[j] /\ (Haunted(m, j)' => Haunted(m, j))
          BY <2>4, <3>1, <4>3
        <5>2. QED
          BY <1>2, <4>2, <5>1, SustainsQueue
      <4>4. CASE j = i
        <5> DEFINE h == Haunted(m, j)
                   h2 == Haunted(m, j)'
                   k1 == conn[m].streams[j]
                   k2 == conn'[m].streams[j]
                   up == sock[m].up
        <5>1. SUFFICES ASSUME NEW st, NEW echo \in BOOLEAN, Serving(st, echo, m, j)
                       PROVE  Serving(st, echo, m, j)'
          BY DEF Sustains
        <5>2. Serves(st, echo, k1, up, q, h, j)
          BY <5>1 DEF Serving
        <5>3. h \in BOOLEAN /\ h2 \in BOOLEAN /\ h
          BY <1>4, <3>3, <4>4 DEF Haunted
        <5>4. Serving(st, echo, m, j)' = Serves(st, echo, k2, up, r, h2, j)
          BY <1>2 DEF Serving
        <5>6. Once(r, j) /\ (Once(q, j) => Twice(r, j)) /\ (Twice(q, j) => Twice(r, j))
          BY <4>2, <4>4
        <5> HIDE DEF h, h2, k1, k2, q, r, up
        <5>7. st = "live" /\ echo => Once(q, j) \/ Said(up, "open", j)
          <6>1. ASSUME st = "live", echo PROVE Serves("live", TRUE, k1, up, q, TRUE, j)
            <7>1. h = TRUE /\ echo = TRUE
              BY <5>3, <6>1
            <7>2. QED
              BY <5>2, <6>1, <7>1
          <6>2. QED
            BY <6>1, EchoTold
        <5>8. Serves(st, echo, k2, up, r, h2, j)
          BY <5>2, <5>6, <5>7 DEF Serves
        <5>5. QED
          BY <5>4, <5>8
      <4>5. QED
        BY <4>3, <4>4
    <3>4. QED
      BY <3>2, <3>3
  <2>6. QED
    BY <1>2, <1>3, <1>9, <2>4, <2>5, DaemonKept
<1>12. QED
  BY <1>10, <1>11

\* The connection goes down, and with it its streams: nobody counts on it any more.
LEMMA TeardownKept ==
  ASSUME Inv, Kept, UNCHANGED muxVars, NEW n \in DOMAIN sock, Teardown(n)
  PROVE  Kept'
<1> DEFINE s == [sock[n] EXCEPT !.net = "cut", !.up = <<>>, !.down = <<>>]
           none == [i \in Id |-> Unregistered]
           c == [conn[n] EXCEPT !.state = "down", !.control = <<>>, !.streams = none]
           S == {k \in DOMAIN object : object[k].conn = n /\ Registered(k)}
<1>1. /\ sock \in Seq(Socket) /\ Len(sock) \in Nat /\ n \in 1..Len(sock) /\ sock[n] \in Socket
      /\ n \in 1..MaxSockets /\ conn \in [1..MaxSockets -> Conn] /\ conn[n] \in Conn
      /\ object \in Seq(Object)
      /\ \A k \in DOMAIN object : /\ object[k] \in Object /\ object[k].conn \in 1..MaxSockets
                                  /\ object[k].id \in Id /\ k # Unregistered
      /\ \A m \in 1..Len(sock) : m \in 1..MaxSockets /\ Normal(sock[m].down)
                                 /\ (sock[m].net = "ok" => conn[m].state # "down")
      /\ \A m \in 1..MaxSockets : Normal(conn[m].control)
  BY DaemonFacts, ConnFacts DEF Kept, Unregistered
<1>2. /\ sock' = [sock EXCEPT ![n] = s] /\ conn' = [conn EXCEPT ![n] = c]
      /\ object' = TornDown(object, S, FALSE) /\ left' = left
  BY DEF Teardown
<1>3. ~(left.ends > 0)
  <2>1. sock[n].net = "cut" \/ sock[n].client \in {"closing", "closed"}
    BY DEF Teardown
  <2>2. Served(World, <<>>) /\ World.sock = sock
    BY KeptFacts
  <2>3. QED
    BY <1>1, <2>1, <2>2 DEF Served, Steady
<1>4. Normal(<<>>) /\ <<>> \in Seq(Message) /\ <<>> \in Seq(Frame)
  BY DEF Normal
<1>5. s \in Socket /\ s.client = sock[n].client /\ s.net = "cut" /\ s.down = <<>>
  BY <1>1, <1>4 DEF Socket
<1>6. c.state = "down" /\ c.control = <<>> /\ \A i \in Id : c.streams[i] = Unregistered
  BY <1>1 DEF Conn
<1>7. /\ DOMAIN object' = DOMAIN object
      /\ \A k \in DOMAIN object :
           /\ object'[k].conn = object[k].conn /\ object'[k].id = object[k].id
           /\ object'[k].torn = (object[k].torn \/ k \in S) /\ object'[k].pump = object[k].pump
  <2>1. PICK late \in BOOLEAN : object' = TornDown(object, S, late)
    BY <1>2
  <2> HIDE DEF S
  <2>2. QED
    BY <1>1, <2>1, TornDownFacts, TornDownMarks
<1>8. \A k \in S : object[k].conn = n
  OBVIOUS
<1> HIDE DEF s, c, S
<1>9. \A m \in 1..MaxSockets : conn'[m] = IF m = n THEN c ELSE conn[m]
  BY <1>1, <1>2
<1>10. /\ sock' \in Seq(Socket) /\ Len(sock') = Len(sock) /\ sock'[n] = s
       /\ \A m \in 1..Len(sock) : m # n => sock'[m] = sock[m]
  BY <1>1, <1>2, <1>5
<1>11. \A m \in 1..MaxSockets : Normal(conn'[m].control)
  BY <1>1, <1>4, <1>6, <1>9
<1>12. Owned'
  BY <1>6, <1>7, <1>9 DEF Kept, Owned
<1>13. Retired'
  <2>1. SUFFICES ASSUME NEW k \in DOMAIN object
                 PROVE  /\ object'[k].torn => conn'[object[k].conn].streams[object[k].id] # k
                        /\ conn'[object[k].conn].state # "none"
    BY <1>7 DEF Retired, Registered
  <2>2. CASE object[k].conn = n
    BY <1>1, <1>6, <1>9, <2>2
  <2>3. CASE object[k].conn # n
    <3>1. conn'[object[k].conn] = conn[object[k].conn] /\ object'[k].torn = object[k].torn
      BY <1>1, <1>7, <1>8, <1>9, <2>3 DEF Object
    <3>2. QED
      BY <3>1 DEF Kept, Retired, Registered
  <2>4. QED
    BY <2>2, <2>3
<1>14. ASSUME NEW m \in 1..Len(sock), m # n, NEW j \in Id PROVE Sustains(m, j)
  <2>1. sock'[m] = sock[m] /\ conn'[m] = conn[m]
    BY <1>1, <1>9, <1>10, <1>14
  <2>2. Haunted(m, j)' => Haunted(m, j)
    BY <1>2, <1>7, <1>8, <1>14 DEF Haunted
  <2>3. QED
    BY <2>1, <2>2, SustainsQueue
<1>15. ASSUME NEW m \in 1..Len(sock)
       PROVE  /\ sock'[m].client = sock[m].client /\ Normal(sock'[m].down)
              /\ \/ sock'[m].net = sock[m].net
                 \/ sock'[m].net = "cut" /\ ~(left.ends > 0)
              /\ sock'[m].net = "ok" => conn'[m].state # "down" /\ \A i \in Id : Sustains(m, i)
  <2>1. CASE m = n
    BY <1>3, <1>4, <1>5, <1>10, <2>1
  <2>2. CASE m # n
    <3>1. sock'[m] = sock[m] /\ conn'[m] = conn[m]
      BY <1>1, <1>9, <1>10, <2>2
    <3>2. QED
      BY <1>1, <1>14, <2>2, <3>1
  <2>3. QED
    BY <2>1, <2>2
<1>16. QED
  BY <1>2, <1>10, <1>11, <1>12, <1>13, <1>15, DaemonKept

\* A message is read: the stream it names is registered, or its close is answered.
LEMMA SustainsRead ==
  ASSUME NEW n, NEW i, NEW j, NEW op \in {"open", "close"}, sock[n].up \in Seq(Message), sock[n].up # <<>>,
         Head(sock[n].up) = [op |-> op, id |-> i], sock'[n].up = Tail(sock[n].up),
         LET q == sock[n].down \o conn[n].control
             r == sock'[n].down \o conn'[n].control
         IN /\ Once(q, j) => Once(r, j)
            /\ Twice(q, j) => Twice(r, j)
            /\ j = i /\ op = "close" => conn[n].streams[i] = Unregistered \/ Once(r, i)
            /\ (Haunted(n, j)' => Haunted(n, j)) \/ Once(r, j),
         j = i /\ op = "open" => conn'[n].streams[i] # Unregistered,
         j # i \/ op # "close" => (conn[n].streams[j] # Unregistered => conn'[n].streams[j] # Unregistered)
  PROVE  Sustains(n, j)
<1> DEFINE q == sock[n].down \o conn[n].control
           r == sock'[n].down \o conn'[n].control
           k == conn[n].streams[j]
           k2 == conn'[n].streams[j]
           up == sock[n].up
           h == Haunted(n, j)
           h2 == Haunted(n, j)'
           opens == [op |-> "open", id |-> j]
           closes == [op |-> "close", id |-> j]
<1>1. /\ Head(up) = opens => j = i /\ op = "open"
      /\ Head(up) = closes => j = i /\ op = "close"
      /\ Head(up) # closes => j # i \/ op # "close"
  <2> DEFINE msg == [op |-> op, id |-> i]
  <2>1. msg.op = op /\ msg.id = i /\ opens.op = "open" /\ opens.id = j /\ closes.op = "close" /\ closes.id = j
    OBVIOUS
  <2>2. Head(up) = msg
    OBVIOUS
  <2>3. j = i /\ op = "close" => msg = closes
    OBVIOUS
  <2> HIDE DEF msg, up, opens, closes
  <2>4. QED
    BY <2>1, <2>2, <2>3
<1>2. /\ Once(q, j) => Once(r, j)
      /\ Twice(q, j) => Twice(r, j)
      /\ Head(up) = opens => k2 # Unregistered
      /\ Head(up) = closes => k = Unregistered \/ Once(r, j)
      /\ Head(up) # closes => (k # Unregistered => k2 # Unregistered)
      /\ (h2 => h) \/ Once(r, j)
      /\ h \in BOOLEAN /\ h2 \in BOOLEAN /\ up \in Seq(Message) /\ up # <<>>
  <2>1. h \in BOOLEAN /\ h2 \in BOOLEAN
    BY DEF Haunted
  <2>2. (Head(up) = opens => k2 # Unregistered) /\ (Head(up) # closes => (k # Unregistered => k2 # Unregistered))
    BY <1>1
  <2>3. Head(up) = closes => k = Unregistered \/ Once(r, j)
    BY <1>1
  <2>4. QED
    BY <2>1, <2>2, <2>3
<1>3. SUFFICES ASSUME NEW st, NEW echo \in BOOLEAN, Serving(st, echo, n, j)
               PROVE  Serving(st, echo, n, j)'
  BY DEF Sustains
<1>4. Serves(st, echo, k, up, q, h, j)
  BY <1>3 DEF Serving
<1>5. Serving(st, echo, n, j)' = Serves(st, echo, k2, Tail(up), r, h2, j)
  BY DEF Serving
<1> HIDE DEF q, r, k, k2, up, h, h2, opens, closes
<1>6. /\ Reopened(up, j) => Reopened(Tail(up), j)
      /\ Said(up, "open", j) => Said(Tail(up), "open", j) \/ k2 # Unregistered
      /\ Reopened(up, j) /\ k # Unregistered => Said(Tail(up), "open", j) \/ k2 # Unregistered
      /\ WillClose(up, k, j) => WillClose(Tail(up), k2, j) \/ Once(r, j)
  <2>1. Reopened(up, j) => Reopened(Tail(up), j)
    BY <1>2, RestReopened
  <2>2. Said(up, "open", j) => Said(Tail(up), "open", j) \/ k2 # Unregistered
    BY <1>2, RestSaid DEF opens
  <2>3. ASSUME Reopened(up, j), k # Unregistered PROVE Said(Tail(up), "open", j) \/ k2 # Unregistered
    <3>1. CASE Head(up) # closes
      BY <1>2, <2>3, <3>1
    <3>2. CASE Head(up) = closes
      BY <1>2, <2>3, <3>2, RestOpens DEF closes
    <3>3. QED
      BY <3>1, <3>2
  <2>4. ASSUME WillClose(up, k, j), ~Once(r, j) PROVE WillClose(Tail(up), k2, j)
    <3>1. /\ Head(up) = [op |-> "open", id |-> j] => k2 # Unregistered
          /\ Head(up) = [op |-> "close", id |-> j] => k = Unregistered
          /\ Head(up) # [op |-> "close", id |-> j] => (k # Unregistered => k2 # Unregistered)
      BY <1>2, <2>4 DEF opens, closes
    <3>2. QED
      BY <1>2, <2>4, <3>1, RestCloses
  <2>5. QED
    BY <2>1, <2>2, <2>3, <2>4
<1>7. Serves(st, echo, k2, Tail(up), r, h2, j)
  BY <1>2, <1>3, <1>4, <1>6 DEF Serves
<1>8. QED
  BY <1>5, <1>7

\* The read loop.
LEMMA ReadKept ==
  ASSUME Inv, Kept, UNCHANGED muxVars, NEW n \in DOMAIN sock, Read(n)
  PROVE  Kept'
<1> DEFINE msg == Head(sock[n].up)
           s == [sock[n] EXCEPT !.up = Tail(@)]
<1>1. /\ sock \in Seq(Socket) /\ Len(sock) \in Nat /\ n \in 1..Len(sock) /\ sock[n] \in Socket
      /\ n \in 1..MaxSockets /\ left' = left /\ conn[n].state = "up" /\ sock[n].up # <<>>
      /\ sock[n].up \in Seq(Message)
      /\ \A m \in 1..Len(sock) : m \in 1..MaxSockets /\ Normal(sock[m].down)
                                 /\ (sock[m].net = "ok" => conn[m].state # "down")
                                 /\ sock[m].down \in Seq(Frame) /\ conn[m].control \in Seq(Frame)
      /\ \A m \in 1..MaxSockets : Normal(conn[m].control)
  BY DaemonFacts, ConnFacts DEF Read, Kept
<1>2. msg \in Message /\ Tail(sock[n].up) \in Seq(Message)
  BY <1>1
<1>3. PICK i \in Id, op \in {"open", "close"} : i = msg.id /\ op = msg.op /\ msg = [op |-> op, id |-> i]
  BY <1>2 DEF Message
<1>4. s \in Socket /\ s.client = sock[n].client /\ s.net = sock[n].net /\ s.up = Tail(sock[n].up) /\ s.down = sock[n].down
  BY <1>1, <1>2 DEF Socket
<1>5. /\ sock' = [sock EXCEPT ![n] = s]
      /\ op = "open" => StartStream(n, i, sock')
      /\ op = "close" => CloseById(n, i, sock')
  BY <1>3 DEF Read, StartStream, CloseById
<1>6. sock[n].up # <<>> /\ Head(sock[n].up) = [op |-> op, id |-> i]
  BY <1>1, <1>3
<1> HIDE DEF s, msg
<1>7. /\ sock' \in Seq(Socket) /\ Len(sock') = Len(sock) /\ sock'[n] = s
      /\ \A m \in 1..Len(sock) : m # n => sock'[m] = sock[m]
      /\ \A m \in 1..Len(sock) : /\ sock'[m].client = sock[m].client /\ sock'[m].net = sock[m].net
                                 /\ sock'[m].down = sock[m].down
  BY <1>1, <1>4, <1>5
<1>8. /\ conn \in [1..MaxSockets -> Conn] /\ conn[n] \in Conn /\ conn[n].streams \in [Id -> Nat]
      /\ object \in Seq(Object) /\ Len(object) \in Nat /\ DOMAIN object = 1..Len(object)
      /\ \A k \in DOMAIN object : object[k] \in Object /\ object[k].conn \in 1..MaxSockets /\ object[k].id \in Id
  BY <1>1, ConnFacts
\* What the message does to the streams is enough.
<1>10. ASSUME Owned', Retired', \A m \in 1..MaxSockets : Normal(conn'[m].control),
              \A m \in 1..MaxSockets :
                /\ conn'[m].state = conn[m].state
                /\ \A j \in Id : ~(m = n /\ j = i) => conn'[m].streams[j] = conn[m].streams[j]
                /\ m # n => conn'[m].control = conn[m].control,
              conn'[n].control \in {conn[n].control, Append(conn[n].control, Closed(i, "normal"))},
              op = "close" => conn[n].streams[i] = Unregistered \/ conn'[n].control = Append(conn[n].control, Closed(i, "normal")),
              op = "open" => conn'[n].streams[i] # Unregistered,
              \A m \in 1..MaxSockets, j \in Id :
                ~(m = n /\ j = i /\ conn'[n].control = Append(conn[n].control, Closed(i, "normal"))) =>
                  (Haunted(m, j)' => Haunted(m, j))
       PROVE  Kept'
  <2>1. ASSUME NEW m \in 1..Len(sock), NEW j \in Id, m # n PROVE Sustains(m, j)
    <3>1. /\ sock'[m] = sock[m] /\ conn'[m].streams[j] = conn[m].streams[j]
          /\ conn'[m].control = conn[m].control /\ (Haunted(m, j)' => Haunted(m, j))
      BY <1>1, <1>7, <1>10, <2>1
    <3>2. QED
      BY <3>1, SustainsQueue
  <2>2. ASSUME NEW j \in Id PROVE Sustains(n, j)
    <3> DEFINE told == conn'[n].control = Append(conn[n].control, Closed(i, "normal"))
               q == sock[n].down \o conn[n].control
               r == sock'[n].down \o conn'[n].control
    <3>1. sock'[n].down = sock[n].down /\ sock'[n].up = Tail(sock[n].up)
      BY <1>1, <1>4, <1>7
    <3>2. told => Once(r, i) /\ (Once(q, j) => Once(r, j)) /\ (Twice(q, j) => Twice(r, j))
      <4>1. Closed(i, "normal") \in Frame /\ sock[n].down \in Seq(Frame) /\ conn[n].control \in Seq(Frame)
        BY <1>1 DEF Closed, Frame
      <4>2. told => Once(r, i)
        BY <3>1, <4>1, QueueGrows
      <4>3. told => (Once(q, j) => Once(r, j)) /\ (Twice(q, j) => Twice(r, j))
        BY <3>1, <4>1, QueueGrows
      <4>4. QED
        BY <4>2, <4>3
    <3>3. ~told => r = q
      BY <1>10, <3>1
    <3>4. /\ Once(q, j) => Once(r, j)
          /\ Twice(q, j) => Twice(r, j)
      BY <3>2, <3>3
    <3>5. j = i /\ op = "close" => conn[n].streams[i] = Unregistered \/ Once(r, i)
      BY <1>10, <3>2
    <3>6. (Haunted(n, j)' => Haunted(n, j)) \/ Once(r, j)
      <4>1. CASE told /\ j = i
        BY <3>2, <4>1
      <4>2. CASE ~(told /\ j = i)
        BY <1>1, <1>10, <4>2
      <4>3. QED
        BY <4>1, <4>2
    <3>7. /\ j = i /\ op = "open" => conn'[n].streams[i] # Unregistered
          /\ j # i \/ op # "close" => (conn[n].streams[j] # Unregistered => conn'[n].streams[j] # Unregistered)
      BY <1>1, <1>10
    <3> HIDE DEF told
    <3>8. QED
      BY <1>1, <1>6, <3>1, <3>4, <3>5, <3>6, <3>7, SustainsRead
  <2>3. \A m \in 1..Len(sock) : sock'[m].net = "ok" => conn'[m].state # "down" /\ \A j \in Id : Sustains(m, j)
    BY <1>1, <1>7, <1>10, <2>1, <2>2
  <2>4. \A m \in 1..Len(sock) : Normal(sock'[m].down)
    BY <1>1, <1>7
  <2>5. left'.fails = left.fails /\ left'.cuts = left.cuts /\ (left'.ends > 0 => left.ends > 0)
    BY <1>1
  <2>6. QED
    BY <1>7, <1>10, <2>3, <2>4, <2>5, DaemonKept
<1>11. CASE conn' = conn /\ object' = object /\ (op = "close" => conn[n].streams[i] = Unregistered)
            /\ (op = "open" => conn[n].streams[i] # Unregistered)
  <2>1. Owned' /\ Retired'
    BY <1>11 DEF Kept, Owned, Retired, Registered
  <2>2. \A m \in 1..MaxSockets, j \in Id : Haunted(m, j)' => Haunted(m, j)
    BY <1>1, <1>11 DEF Haunted
  <2>3. QED
    BY <1>1, <1>10, <1>11, <2>1, <2>2
<1>12. CASE op = "open" /\ conn[n].streams[i] = Unregistered
  <2> DEFINE k == Len(object) + 1
             o == [conn |-> n, id |-> i, at |-> "resolving", process |-> FALSE,
                   queued |-> FALSE, pump |-> FALSE, torn |-> FALSE]
             c == [conn[n] EXCEPT !.streams = [conn[n].streams EXCEPT ![i] = k]]
  <2>1. conn' = [conn EXCEPT ![n] = c] /\ object' = Append(object, o)
    BY <1>5, <1>12 DEF StartStream
  <2>2. k \in Nat /\ k # Unregistered /\ k \notin DOMAIN object
    BY <1>8 DEF Unregistered
  <2>3. o \in Object /\ o.torn = FALSE /\ o.conn = n /\ o.id = i
    BY <1>1 DEF Object
  <2>4. /\ c.state = conn[n].state /\ c.control = conn[n].control
        /\ \A j \in Id : c.streams[j] = IF j = i THEN k ELSE conn[n].streams[j]
    BY <1>8 DEF Conn
  <2> HIDE DEF c, o
  <2>5. \A m \in 1..MaxSockets : conn'[m] = IF m = n THEN c ELSE conn[m]
    BY <1>8, <2>1
  <2>6. /\ DOMAIN object' = DOMAIN object \cup {k} /\ object'[k] = o
        /\ \A l \in DOMAIN object : object'[l] = object[l]
    BY <1>8, <2>1, <2>3
  <2> HIDE DEF k
  <2>7. \A m \in 1..MaxSockets :
          /\ conn'[m].state = conn[m].state /\ conn'[m].control = conn[m].control
          /\ \A j \in Id : conn'[m].streams[j] = IF m = n /\ j = i THEN k ELSE conn[m].streams[j]
    BY <2>4, <2>5
  <2>8. Owned'
    BY <2>3, <2>6, <2>7 DEF Kept, Owned
  <2>9. Retired'
    <3>1. SUFFICES ASSUME NEW l \in DOMAIN object'
                   PROVE  /\ object'[l].torn => conn'[object'[l].conn].streams[object'[l].id] # l
                          /\ conn'[object'[l].conn].state # "none"
      BY DEF Retired, Registered
    <3>2. CASE l = k
      BY <1>1, <2>3, <2>6, <2>7, <3>2
    <3>3. CASE l # k
      <4>1. l \in DOMAIN object /\ object'[l] = object[l]
        BY <2>6, <3>1, <3>3
      <4>2. PICK m \in 1..MaxSockets, j \in Id : m = object[l].conn /\ j = object[l].id
        BY <1>8, <4>1
      <4>3. conn[m].state # "none" /\ (object[l].torn => conn[m].streams[j] # l)
        BY <4>1, <4>2 DEF Kept, Retired, Registered
      <4>4. QED
        BY <2>7, <3>3, <4>1, <4>2, <4>3
    <3>4. QED
      BY <3>2, <3>3
  <2>10. \A m \in 1..MaxSockets, j \in Id : Haunted(m, j)' => Haunted(m, j)
    BY <1>1, <2>3, <2>6 DEF Haunted
  <2>11. QED
    BY <1>1, <1>10, <1>12, <2>2, <2>7, <2>8, <2>9, <2>10
<1>13. CASE op = "close" /\ conn[n].streams[i] # Unregistered
  <2>1. PICK late \in BOOLEAN : Closes(object, n, i, late)
    BY <1>5, <1>13 DEF CloseById, Closes
  <2>2. /\ Owned' /\ Retired'
        /\ \A m \in 1..MaxSockets :
             /\ conn'[m].state = conn[m].state /\ Normal(conn'[m].control)
             /\ \A j \in Id : conn'[m].streams[j] = IF m = n /\ j = i THEN Unregistered ELSE conn[m].streams[j]
             /\ conn'[m].control = IF m = n THEN Append(conn[m].control, Closed(i, "normal")) ELSE conn[m].control
        /\ \A m \in 1..MaxSockets, j \in Id : ~(m = n /\ j = i) => (Haunted(m, j)' => Haunted(m, j))
    <3>1. left'.ends > 0 => left.ends > 0
      BY <1>1
    <3>2. PICK obj \in Seq(Object) : obj = object
      BY <1>8
    <3>3. /\ DOMAIN obj = DOMAIN object /\ Closes(obj, n, i, late)
          /\ \A k \in DOMAIN object : /\ obj[k].conn = object[k].conn /\ obj[k].id = object[k].id
                                       /\ obj[k].torn = object[k].torn /\ (obj[k].pump => object[k].pump)
      BY <2>1, <3>2
    <3>4. QED
      BY <1>1, <1>13, <3>1, <3>3, CloseMarks
  <2>3. QED
    BY <1>1, <1>10, <1>13, <2>2
<1>14. QED
  BY <1>5, <1>11, <1>12, <1>13 DEF StartStream, CloseById

-----------------------------------------------------------------------------
(* Live streams: no terminal is shown that has silently ended *)

\* No attach fails, and not both a cut and an end of an attach client are allowed.
Calm == left.fails = 0 /\ (left.cuts = 0 \/ left.ends = 0)

\* At the start nothing is awaited.
LEMMA InitKept == Init /\ Calm => Kept
<1> SUFFICES ASSUME Init, Calm PROVE Kept
  OBVIOUS
<1>1. Inv
  BY InitInv
<1>2. /\ World.mux = mux /\ World.sock = sock /\ Len(sock) = 0 /\ left \in Budget
  BY <1>1, WorldFacts DEF Init
<1>3. /\ mux.ws = NoSocket /\ ~mux.probe
      /\ \A i \in Id : ~mux.echo[i]
  BY DEF Init, MuxInit
<1>4. /\ object = <<>>
      /\ \A n \in 1..MaxSockets : conn[n].control = <<>> /\ \A i \in Id : conn[n].streams[i] = Unregistered
  BY DEF Init, ConnInit
<1>5. Sound(World) /\ Silent(World)
  BY <1>2, <1>3 DEF Sound, Silent
<1>6. ASSUME left.ends > 0 PROVE Steady(World)
  <2>1. left.cuts = 0
    BY <1>2, <1>6 DEF Calm, Budget
  <2>2. QED
    BY <1>2, <1>3, <2>1 DEF Steady, NoSocket
<1>7. ~Reach(World)
  BY <1>2, <1>3 DEF Reach, IsOpen
<1>8. Served(World, <<>>)
  BY <1>5, <1>6, <1>7 DEF Served
<1>9. (\A n \in 1..MaxSockets : Normal(conn[n].control)) /\ Owned /\ Retired
  BY <1>4 DEF Normal, Owned, Retired
<1>10. QED
  BY <1>8, <1>9 DEF Kept, Calm

\* Every step keeps what is known of the live streams.
LEMMA NextKept ==
  ASSUME Inv, Kept, [Next]_vars
  PROVE  Kept'
<1>1. CASE Browser /\ UNCHANGED connVars
  BY <1>1, PanesKept, VisibilityKept, TimersKept, ReceiveKept, InboundKept, SocketOpenedKept,
     SocketEndsKept DEF Browser
<1>2. CASE Daemon /\ UNCHANGED muxVars
  BY <1>2, AcceptKept, ReadKept, TeardownKept, WriteKept, AttachEndsKept, AttachKept, PumpEndsKept DEF Daemon
<1>3. CASE \E n \in DOMAIN sock : Cut(n) /\ UNCHANGED <<muxVars, connVars>>
  BY <1>3, NextInv, CutKept
<1>4. CASE UNCHANGED vars
  <2>1. UNCHANGED <<sock, left, mux, page, pane, conn, object>>
    BY <1>4 DEF vars, muxVars, connVars
  <2>2. World' = World /\ \A n, i : Haunted(n, i)' = Haunted(n, i)
    BY <2>1 DEF World, Haunted
  <2>3. Served(World, <<>>)'
    BY <2>1, <2>2 DEF Kept, Served, ServesIn, Reach, Sound, Silent, Steady, OnOpen, Haunted
  <2>4. QED
    BY <2>1, <2>3 DEF Kept, Owned, Retired, Registered
<1>5. QED
  BY <1>1, <1>2, <1>3, <1>4 DEF Next

\* What is kept says that every live stream is served.
LEMMA KeptServes == Inv /\ Kept => LiveIsServed
<1>1. SUFFICES ASSUME Inv, Kept, IsOpen(sock, mux.ws), sock[mux.ws].net = "ok",
                      NEW i \in Id, mux.stream[i] = "live"
               PROVE  \/ conn[mux.ws].streams[i] # Unregistered
                      \/ InTransit(mux.ws, "open", i)
                      \/ \E j \in DOMAIN sock[mux.ws].down : sock[mux.ws].down[j].id = i
                      \/ \E j \in DOMAIN conn[mux.ws].control : conn[mux.ws].control[j].id = i
  BY DEF LiveIsServed, Current
<1>2. PICK n : n = mux.ws
  OBVIOUS
<1>3. /\ Served(World, <<>>) /\ World.mux = mux /\ World.sock = sock
      /\ n \in 1..Len(sock) /\ n \in 1..MaxSockets
      /\ sock[n].up \in Seq(Message) /\ sock[n].down \in Seq(Frame) /\ conn[n].control \in Seq(Frame)
  <2>1. Served(World, <<>>) /\ World.mux = mux /\ World.sock = sock /\ mux.ws \in 0..Len(sock)
    BY <1>1, KeptFacts, WorldTypes
  <2>2. n \in 1..Len(sock)
    BY <1>1, <1>2, <2>1, DaemonFacts DEF IsOpen, NoSocket
  <2>3. QED
    BY <1>1, <2>1, <2>2, DaemonFacts, ConnFacts
<1> DEFINE up == sock[n].up
           q == sock[n].down \o conn[n].control
<1>4. conn[n].streams[i] # Unregistered \/ Said(up, "open", i) \/ Once(q, i)
  <2>1. ServesIn(World, <<>>, i)
    BY <1>1, <1>2, <1>3 DEF Served, Reach
  <2>2. up \o <<>> = up
    BY <1>3
  <2>3. QED
    BY <1>1, <1>2, <1>3, <2>1, <2>2 DEF ServesIn, Serves
<1>5. Said(up, "open", i) => InTransit(n, "open", i)
  <2>1. DOMAIN up = 1..Len(up)
    BY <1>3
  <2>2. QED
    BY <2>1 DEF Said, InTransit
<1>6. ASSUME Once(q, i)
      PROVE  \/ \E j \in DOMAIN sock[n].down : sock[n].down[j].id = i
             \/ \E j \in DOMAIN conn[n].control : conn[n].control[j].id = i
  <2>1. PICK j \in 1..Len(q) : q[j] = Closed(i, "normal")
    BY <1>6 DEF Once
  <2>2. q[j].id = i
    BY <2>1 DEF Closed
  <2>3. PICK a \in Seq(Frame), b \in Seq(Frame) : a = sock[n].down /\ b = conn[n].control
    BY <1>3
  <2>4. /\ Len(a) \in Nat /\ Len(b) \in Nat /\ Len(a \o b) = Len(a) + Len(b)
        /\ DOMAIN a = 1..Len(a) /\ DOMAIN b = 1..Len(b) /\ j \in 1..Len(a \o b)
    <3>1. a \o b = q
      BY <2>3
    <3>2. j \in 1..Len(a \o b)
      BY <2>1, <3>1
    <3>3. /\ Len(a) \in Nat /\ Len(b) \in Nat /\ Len(a \o b) = Len(a) + Len(b)
          /\ DOMAIN a = 1..Len(a) /\ DOMAIN b = 1..Len(b)
      OBVIOUS
    <3>4. QED
      BY <3>2, <3>3
  <2>5. CASE j \in 1..Len(a)
    <3>1. (a \o b)[j] = a[j]
      BY <2>5
    <3>2. QED
      BY <2>2, <2>3, <2>4, <2>5, <3>1
  <2>6. CASE j \notin 1..Len(a)
    <3>1. j - Len(a) \in DOMAIN b
      BY <2>4, <2>6
    <3>2. (a \o b)[j] = b[j - Len(a)]
      BY <2>4, <2>6
    <3>3. QED
      BY <2>2, <2>3, <3>1, <3>2
  <2>7. QED
    BY <2>5, <2>6
<1>7. QED
  BY <1>2, <1>4, <1>5, <1>6

\* No silent end (lib/relay-mux.ts:330-368, awaitingCloseEcho): where no attach fails,
\* and not both cuts and ends happen, a terminal that the tab shows live over its open
\* socket is registered with the daemon, or about to be, or about to hear that it ended.
THEOREM LiveIsServedCalm == Calm /\ Spec => []LiveIsServed
<1>1. Init /\ Calm => Kept
  BY InitKept
<1>2. Inv /\ Kept /\ [Next]_vars => Kept'
  BY NextKept
<1>3. Inv /\ Kept => LiveIsServed
  BY KeptServes
<1>4. QED
  BY <1>1, <1>2, <1>3, MuxInvariant, PTL DEF Spec

=============================================================================
