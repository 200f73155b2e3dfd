--------------------------- MODULE StateLinkProofs --------------------------
(***************************************************************************)
(* The safety of the state socket and its provider for every set of        *)
(* servers, every budget and any number of frames in transit.              *)
(*                                                                         *)
(* What the runs check of a quiet link is not inductive: it says nothing   *)
(* while frames are under way.  The invariants here say it of the last     *)
(* request about a key on its way up and the last frame about it on its    *)
(* way down, which is what each end will believe once they have arrived.   *)
(***************************************************************************)
EXTENDS StateLink, SequenceTheorems, FiniteSetTheorems, TLAPS

\* Nothing in q is about K; what q says last about K is in P, where P \subseteq K.
Silent(q, K) == \A i \in DOMAIN q : q[i] \notin K
EndsIn(q, K, P) == \E i \in DOMAIN q : q[i] \in P /\ \A j \in DOMAIN q : j > i => q[j] \notin K

Asks(k) == Op({"subscribe", "unsubscribe"}, {k})
Joins(k) == Op({"subscribe"}, {k})
Ends(s) == Op({"gone"}, {s})
Tells(s) == Ends(s) \cup [op : {"ack", "sessions"}, key : {s}, snapshot : Nat]
Shows(s) == [op : {"ack", "sessions"}, key : {s}, snapshot : {daemon.shown[s]}]

Ups == [op : {"hello"}] \cup Op({"subscribe", "unsubscribe"}, Key)
Downs == [op : {"version"}, boot : Nat] \cup Op({"gone"}, Server)
           \cup [op : {"ack"}, key : Key, snapshot : Nat]
           \cup [op : {"sessions"}, key : Server, snapshot : Nat]

Linked == IsOpen(socket) /\ wire.ok

TypeInv == LinkTypeOK /\ tab \in Tab /\ reloads \in Nat

Guards == Subs(socket) = tab.subscribed \cup (IF tab.metrics THEN {Metrics} ELSE {})

\* What is subscribed has a slice: a frame about it is not dropped.
Slots == \A s \in tab.subscribed : tab.slices[s].present

Boots ==
  /\ reloads <= daemon.boot
  /\ tab.boot # NoBoot => reloads <= tab.boot /\ tab.boot <= daemon.boot
  /\ \A i \in DOMAIN wire.down : wire.down[i].op = "version" => wire.down[i].boot = daemon.boot

\* The last request about a key with a reference subscribes, or nothing is asked any
\* more and the daemon has it, or will be heard to have ended it.
Agreed(k) ==
  \/ EndsIn(wire.up, Asks(k), Joins(k))
  \/ Silent(wire.up, Asks(k)) /\ (k \in daemon.subs \/ ~Silent(wire.down, Ends(k)))

EndsMeet == Linked => \A k \in Key : socket.refs[k] > 0 => Agreed(k)

\* The last frame about a server has what the hub shows, or nothing is under way and
\* the slice has it.
Current(s) ==
  \/ EndsIn(wire.down, Tells(s), Shows(s))
  \/ Silent(wire.down, Tells(s)) /\ tab.slices[s].sessions = daemon.shown[s]

ShowsMeet ==
  Linked => \A s \in tab.subscribed \cap daemon.subs : Silent(wire.up, Asks(s)) => Current(s)

Inv == TypeInv /\ Guards /\ Slots /\ Boots /\ EndsMeet /\ ShowsMeet

-----------------------------------------------------------------------------
(* Sequences of frames *)

\* A frame taken off the head leaves the end of the sequence as it was.
LEMMA TailKeeps ==
  ASSUME NEW S, NEW q \in Seq(S), q # <<>>, NEW K, NEW P
  PROVE  /\ Tail(q) \in Seq(S) /\ Head(q) \in S
         /\ Silent(q, K) => Silent(Tail(q), K)
         /\ Head(q) \notin K /\ ~Silent(q, K) => ~Silent(Tail(q), K)
         /\ EndsIn(q, K, P) => \/ EndsIn(Tail(q), K, P)
                               \/ Head(q) \in P /\ Silent(Tail(q), K)
         /\ \A i \in DOMAIN Tail(q) : i + 1 \in DOMAIN q /\ Tail(q)[i] = q[i + 1]
<1> DEFINE t == Tail(q)
<1>1. /\ Head(q) \in S /\ Head(q) = q[1]
      /\ t \in Seq(S) /\ Len(t) = Len(q) - 1 /\ Len(q) \in Nat \ {0}
      /\ \A i \in 1..Len(t) : t[i] = q[i + 1]
  BY HeadTailProperties, EmptySeq
<1>2. DOMAIN q = 1..Len(q) /\ DOMAIN t = 1..Len(t)
  BY <1>1, LenProperties
<1>3. \A i \in DOMAIN t : i \in Nat /\ i + 1 \in DOMAIN q /\ t[i] = q[i + 1]
  BY <1>1, <1>2
<1>4. \A j \in DOMAIN q : j = 1 \/ (j - 1 \in DOMAIN t /\ t[j - 1] = q[j])
  BY <1>1, <1>2
<1>5. Silent(q, K) => Silent(t, K)
  BY <1>3 DEF Silent
<1>6. Head(q) \notin K /\ ~Silent(q, K) => ~Silent(t, K)
  BY <1>1, <1>4 DEF Silent
<1>7. ASSUME EndsIn(q, K, P)
      PROVE  EndsIn(t, K, P) \/ (Head(q) \in P /\ Silent(t, K))
  <2>1. PICK i \in DOMAIN q : q[i] \in P /\ \A j \in DOMAIN q : j > i => q[j] \notin K
    BY <1>7 DEF EndsIn
  <2>2. CASE i = 1
    <3>1. \A j \in DOMAIN t : j + 1 > 1
      BY <1>3
    <3>2. Silent(t, K)
      BY <1>3, <2>1, <2>2, <3>1 DEF Silent
    <3>3. QED
      BY <1>1, <2>1, <2>2, <3>2
  <2>3. CASE i # 1
    <3>1. i - 1 \in DOMAIN t /\ t[i - 1] = q[i] /\ i \in Nat
      BY <1>2, <1>4, <2>3
    <3>2. ASSUME NEW j \in DOMAIN t, j > i - 1 PROVE t[j] \notin K
      <4>1. j + 1 \in DOMAIN q /\ j + 1 > i /\ t[j] = q[j + 1]
        BY <1>3, <3>1, <3>2
      <4>2. QED
        BY <2>1, <4>1
    <3>3. QED
      BY <2>1, <3>1, <3>2 DEF EndsIn
  <2>4. QED
    BY <2>2, <2>3
<1>8. QED
  BY <1>1, <1>3, <1>5, <1>6, <1>7

\* What is sent after it decides the end of a sequence, if it is about K at all.
LEMMA ConcatKeeps ==
  ASSUME NEW S, NEW q \in Seq(S), NEW r \in Seq(S), NEW K, NEW P
  PROVE  /\ q \o r \in Seq(S)
         /\ Silent(q \o r, K) <=> Silent(q, K) /\ Silent(r, K)
         /\ EndsIn(r, K, P) => EndsIn(q \o r, K, P)
         /\ Silent(r, K) /\ EndsIn(q, K, P) => EndsIn(q \o r, K, P)
         /\ \A i \in DOMAIN (q \o r) :
              \/ i \in DOMAIN q /\ (q \o r)[i] = q[i]
              \/ i - Len(q) \in DOMAIN r /\ (q \o r)[i] = r[i - Len(q)]
<1> DEFINE c == q \o r
<1>1. /\ c \in Seq(S) /\ Len(c) = Len(q) + Len(r)
      /\ \A i \in 1..Len(q) + Len(r) : c[i] = IF i <= Len(q) THEN q[i] ELSE r[i - Len(q)]
  BY ConcatProperties
<1>2. /\ DOMAIN q = 1..Len(q) /\ DOMAIN r = 1..Len(r) /\ DOMAIN c = 1..Len(c)
      /\ Len(q) \in Nat /\ Len(r) \in Nat
  BY <1>1, LenProperties
<1> HIDE DEF c
<1>3. /\ \A i \in DOMAIN q : i \in Nat /\ i <= Len(q) /\ i \in DOMAIN c /\ c[i] = q[i]
      /\ \A i \in DOMAIN r : i \in Nat /\ i > 0 /\ i + Len(q) \in DOMAIN c /\ c[i + Len(q)] = r[i]
  BY <1>1, <1>2
<1>4. \A i \in DOMAIN c : /\ i \in Nat
                          /\ \/ i \in DOMAIN q /\ c[i] = q[i]
                             \/ i > Len(q) /\ i - Len(q) \in DOMAIN r /\ c[i] = r[i - Len(q)]
  BY <1>1, <1>2
<1>5. Silent(c, K) <=> Silent(q, K) /\ Silent(r, K)
  BY <1>3, <1>4 DEF Silent
<1>6. ASSUME EndsIn(r, K, P) PROVE EndsIn(c, K, P)
  <2>1. PICK i \in DOMAIN r : r[i] \in P /\ \A j \in DOMAIN r : j > i => r[j] \notin K
    BY <1>6 DEF EndsIn
  <2>2. ASSUME NEW j \in DOMAIN c, j > i + Len(q) PROVE c[j] \notin K
    <3>1. j > Len(q) /\ j \in Nat
      BY <1>2, <1>3, <1>4, <2>2
    <3>2. j - Len(q) \in DOMAIN r /\ c[j] = r[j - Len(q)]
      BY <1>2, <1>3, <1>4, <3>1
    <3>3. j - Len(q) > i
      BY <1>2, <1>3, <2>2, <3>1
    <3>4. QED
      BY <2>1, <3>2, <3>3
  <2>3. QED
    BY <1>3, <2>1, <2>2 DEF EndsIn
<1>7. ASSUME Silent(r, K), EndsIn(q, K, P) PROVE EndsIn(c, K, P)
  <2>1. PICK i \in DOMAIN q : q[i] \in P /\ \A j \in DOMAIN q : j > i => q[j] \notin K
    BY <1>7 DEF EndsIn
  <2>2. ASSUME NEW j \in DOMAIN c, j > i PROVE c[j] \notin K
    BY <1>4, <1>7, <2>1, <2>2 DEF Silent
  <2>3. QED
    BY <1>3, <2>1, <2>2 DEF EndsIn
<1>8. QED
  BY <1>1, <1>4, <1>5, <1>6, <1>7 DEF c

\* SetToSeq lists every element of a finite set once.
LEMMA SetToSeqFacts ==
  ASSUME NEW S, IsFiniteSet(S)
  PROVE  /\ SetToSeq(S) \in Seq(S)
         /\ \A k \in S : \E i \in DOMAIN SetToSeq(S) : SetToSeq(S)[i] = k
         /\ \A i, j \in DOMAIN SetToSeq(S) : SetToSeq(S)[i] = SetToSeq(S)[j] => i = j
<1> DEFINE n == Cardinality(S)
           f == SetToSeq(S)
<1>1. n \in Nat /\ ExistsBijection(1..n, S)
  BY FS_CardinalityType
<1>2. PICK g : g \in Bijection(1..n, S)
  BY <1>1 DEF ExistsBijection
<1>3. g \in [1..n -> S] /\ IsInjective(g)
  BY <1>2 DEF Bijection, Injection
<1>4. f \in [1..n -> S] /\ IsInjective(f)
  BY <1>3 DEF SetToSeq
<1>5. f \in Injection(1..n, S)
  BY <1>4 DEF Injection
<1>6. f \in Surjection(1..n, S)
  <2>1. IsFiniteSet(1..n) /\ Cardinality(1..n) = n
    BY <1>1, FS_Interval
  <2> HIDE DEF f
  <2>2. QED
    BY <1>5, <2>1, FS_Injection
<1>7. f \in Seq(S) /\ DOMAIN f = 1..n
  BY <1>1, <1>4
<1>8. QED
  BY <1>4, <1>6, <1>7 DEF IsInjective, Surjection

LEMMA EachFacts ==
  ASSUME NEW S \in SUBSET Key, NEW op \in {"subscribe", "unsubscribe"}
  PROVE  /\ Each(op, S) \in Seq(Ups)
         /\ \A k \in Key \ S : Silent(Each(op, S), Asks(k))
         /\ op = "subscribe" => \A k \in S : EndsIn(Each(op, S), Asks(k), Joins(k))
<1> DEFINE ks == SetToSeq(S)
           e == Each(op, S)
<1>1. IsFiniteSet(S)
  <2>1. IsFiniteSet(Key)
    BY ServersOK, FS_AddElement DEF Key
  <2>2. QED
    BY <2>1, FS_Subset
<1>2. /\ ks \in Seq(S)
      /\ \A k \in S : \E i \in DOMAIN ks : ks[i] = k
      /\ \A i, j \in DOMAIN ks : ks[i] = ks[j] => i = j
  BY <1>1, SetToSeqFacts
<1>3. e = [i \in DOMAIN ks |-> [op |-> op, key |-> ks[i]]]
  BY DEF Each
<1> HIDE DEF ks, e
<1>4. DOMAIN ks = 1..Len(ks) /\ Len(ks) \in Nat /\ \A i \in DOMAIN ks : ks[i] \in S
  BY <1>2, LenProperties, ElementOfSeq
<1>5. DOMAIN e = DOMAIN ks /\ \A i \in DOMAIN ks : e[i] = [op |-> op, key |-> ks[i]]
  BY <1>3
<1>6. e \in Seq(Ups)
  <2>1. \A i \in DOMAIN ks : [op |-> op, key |-> ks[i]] \in Ups
    BY <1>4 DEF Ups, Op
  <2>2. e \in [1..Len(ks) -> Ups]
    BY <1>3, <1>4, <2>1
  <2>3. QED
    BY <1>4, <2>2
<1>7. \A i \in DOMAIN ks : \A k : e[i] \in Asks(k) => ks[i] = k
  BY <1>5 DEF Asks, Op
<1>8. \A i \in DOMAIN ks : op = "subscribe" => e[i] \in Joins(ks[i])
  BY <1>5 DEF Joins, Op
<1>9. \A k \in Key \ S : Silent(e, Asks(k))
  BY <1>4, <1>5, <1>7 DEF Silent
<1>10. ASSUME op = "subscribe", NEW k \in S PROVE EndsIn(e, Asks(k), Joins(k))
  <2>1. PICK i \in DOMAIN ks : ks[i] = k
    BY <1>2
  <2>2. e[i] \in Joins(k)
    BY <1>8, <1>10, <2>1
  <2>3. \A j \in DOMAIN ks : j > i => e[j] \notin Asks(k)
    BY <1>2, <1>4, <1>7, <2>1
  <2>4. QED
    BY <1>5, <2>1, <2>2, <2>3 DEF EndsIn
<1>11. QED
  BY <1>6, <1>9, <1>10 DEF e

-----------------------------------------------------------------------------
(* Steps that leave what the link says as it is *)

LEMMA InitInv == Init => Inv
<1> SUFFICES ASSUME Init PROVE Inv
  OBVIOUS
<1> USE DEF Init, LinkInit
<1>1. socket \in Socket /\ wire \in Wire
  BY DEF Socket, Wire, Fresh, Dialling, Op, Key, NoPing
<1>2. daemon \in Daemon /\ host \in Host /\ left \in Budget
  BY BudgetsOK DEF Daemon, Host, None
<1>3. tab \in Tab /\ reloads \in Nat
  BY DEF Tab, Loaded, Absent, Slice, None, NoBoot
<1>4. TypeInv
  BY <1>1, <1>2, <1>3 DEF TypeInv, LinkTypeOK
<1>5. Guards
  BY DEF Guards, Subs, Fresh, Loaded
<1>6. Slots /\ Boots
  BY DEF Slots, Boots, Loaded, Dialling, NoBoot
<1>7. ~Linked
  BY DEF Linked, IsOpen, Fresh
<1>8. QED
  BY <1>4, <1>5, <1>6, <1>7 DEF Inv, EndsMeet, ShowsMeet

LEMMA SpendKeeps ==
  ASSUME left \in Budget,
         NEW what \in {"cuts", "kills", "births", "changes", "restarts", "fails", "moves", "wakes"},
         Spend(what)
  PROVE  left' \in Budget
BY DEF Spend, Budget

\* A step that changes neither the subscriptions nor what is shown, on either side, and
\* that loses all that was in transit if it touches the connection.
LEMMA CalmStep ==
  ASSUME Inv, TypeInv', reloads' = reloads, socket'.refs = socket.refs,
         tab'.subscribed = tab.subscribed, tab'.metrics = tab.metrics, tab'.boot = tab.boot,
         \A s \in Server : /\ tab'.slices[s].present = tab.slices[s].present
                           /\ tab'.slices[s].sessions = tab.slices[s].sessions,
         daemon'.boot >= daemon.boot,
         wire'.down = <<>> \/ (wire'.down = wire.down /\ daemon'.boot = daemon.boot),
         Linked' => /\ Linked /\ wire' = wire
                    /\ daemon'.subs = daemon.subs /\ daemon'.shown = daemon.shown
  PROVE  Inv'
<1> USE DEF Inv
<1>1. Guards'
  BY DEF Guards, Subs
<1>2. tab.subscribed \subseteq Server
  BY DEF TypeInv, Tab
<1>3. Slots'
  BY <1>2 DEF Slots
<1>4. Boots'
  <2>1. daemon.boot \in Nat /\ daemon'.boot \in Nat /\ reloads \in Nat
    BY DEF TypeInv, LinkTypeOK, Daemon
  <2>2. tab.boot # NoBoot => tab.boot \in Nat
    BY DEF TypeInv, Tab
  <2>3. QED
    BY <2>1, <2>2 DEF Boots
<1>5. EndsMeet'
  BY DEF EndsMeet, Agreed
<1>6. ShowsMeet'
  <2> SUFFICES ASSUME Linked', NEW s \in (tab.subscribed \cap daemon.subs), Silent(wire.up, Asks(s))
               PROVE  Current(s)'
    BY DEF ShowsMeet
  <2>1. Current(s) /\ s \in Server
    BY <1>2 DEF ShowsMeet
  <2>2. QED
    BY <2>1 DEF Current, Shows
<1>7. QED
  BY <1>1, <1>3, <1>4, <1>5, <1>6

LEMMA TabSteps ==
  ASSUME Inv,
         \/ \E to \in Server \cup {NoServer} : Navigate(to)
         \/ \E s \in Server : Attach(s)
         \/ FetchAnswered \/ FetchFails \/ \E list \in SUBSET Server : ListArrives(list)
  PROVE  Inv'
<1> USE DEF Inv, TypeInv, LinkTypeOK
<1>1. UNCHANGED <<socket, wire, daemon, host, reloads>>
  BY DEF Navigate, Attach, FetchAnswered, FetchFails, ListArrives
<1>2. left' \in Budget
  <2>1. ASSUME NEW what \in {"moves", "fails"}, Spend(what) PROVE left' \in Budget
    BY <2>1, SpendKeeps
  <2>2. QED
    BY <2>1 DEF Navigate, Attach, FetchAnswered, FetchFails, ListArrives
<1>3. /\ tab' \in Tab /\ tab'.subscribed = tab.subscribed /\ tab'.metrics = tab.metrics
      /\ tab'.boot = tab.boot /\ tab'.slices = tab.slices
  <2>1. CASE \E to \in Server \cup {NoServer} : Navigate(to)
    BY <2>1 DEF Navigate, Tab
  <2>2. CASE \E s \in Server : Attach(s)
    <3>1. PICK s \in Server : tab' = [tab EXCEPT !.others = @ \cup {s}, !.effect = TRUE]
      BY <2>2 DEF Attach
    <3>2. QED
      BY <3>1 DEF Tab
  <2>3. CASE FetchAnswered \/ FetchFails
    BY <2>3 DEF FetchAnswered, FetchFails
  <2>4. CASE \E list \in SUBSET Server : ListArrives(list)
    <3>1. PICK list \in SUBSET Server : tab' = [tab EXCEPT !.known = list, !.effect = TRUE]
      BY <2>4 DEF ListArrives
    <3>2. QED
      BY <3>1 DEF Tab
  <2>5. QED
    BY <2>1, <2>2, <2>3, <2>4
<1>4. TypeInv'
  BY <1>1, <1>2, <1>3
<1>5. daemon'.boot >= daemon.boot
  BY <1>1 DEF Daemon
<1>6. QED
  <2>1. Linked' => Linked
    BY <1>1 DEF Linked
  <2>2. QED
    BY <1>1, <1>3, <1>4, <1>5, <2>1, CalmStep

\* The timers, the wakes and the heartbeat of the socket.
LEMMA SocketSteps ==
  ASSUME Inv, TabKeeps,
         ReconnectFires \/ HeartbeatTick \/ Inbound \/ ProbeExpires \/ HandleWake
  PROVE  Inv'
<1> USE DEF Inv, TypeInv, LinkTypeOK
<1>1. UNCHANGED <<daemon, host, tab, fetch, reloads>>
  BY DEF TabKeeps, ReconnectFires, HeartbeatTick, Inbound, ProbeExpires, HandleWake
<1>2. left' \in Budget
  <2>1. Spend("wakes") => left' \in Budget
    BY SpendKeeps
  <2>2. QED
    BY <2>1 DEF ReconnectFires, HeartbeatTick, Inbound, ProbeExpires, HandleWake
<1>3. /\ socket' \in Socket /\ wire' \in Wire
      /\ socket'.refs = socket.refs /\ (wire'.down = <<>> \/ wire'.down = wire.down)
      /\ Linked' => Linked /\ wire' = wire
  <2>1. ASSUME socket' = [socket EXCEPT !.timer = FALSE, !.state = "connecting"], wire' = Dialling
        PROVE  <1>3
    <3>1. /\ socket' \in Socket /\ socket'.refs = socket.refs /\ ~Linked'
      BY <2>1 DEF Linked, IsOpen, Socket
    <3>2. Dialling \in Wire /\ Dialling.down = <<>>
      BY DEF Wire, Dialling
    <3>3. QED
      BY <2>1, <3>1, <3>2
  <2>2. CASE ReconnectFires
    BY <2>1, <2>2 DEF ReconnectFires
  <2>3. CASE HeartbeatTick
    BY <2>3 DEF HeartbeatTick, ForceClose, SendPing, Socket, NoPing, Linked, IsOpen
  <2>4. CASE Inbound
    BY <2>4 DEF Inbound, NoteInbound, Socket, NoPing, Linked, IsOpen
  <2>5. CASE ProbeExpires
    BY <2>5 DEF ProbeExpires, ForceClose, Socket, Linked, IsOpen
  <2>6. CASE HandleWake
    <3>1. CASE socket' = [SendPing(socket, 0) EXCEPT !.probe = TRUE] /\ IsOpen(socket) /\ UNCHANGED wire
      <4>1. /\ SendPing(socket, 0) \in Socket /\ SendPing(socket, 0).refs = socket.refs
            /\ SendPing(socket, 0).state = socket.state
        BY DEF SendPing, Socket, NoPing
      <4>2. /\ socket' \in Socket /\ socket'.refs = socket.refs /\ socket'.state = socket.state
        BY <3>1, <4>1 DEF Socket
      <4>3. QED
        BY <3>1, <4>2 DEF Linked, IsOpen
    <3>2. QED
      BY <2>1, <2>6, <3>1 DEF HandleWake
  <2>7. QED
    BY <2>2, <2>3, <2>4, <2>5, <2>6
<1>4. TypeInv'
  BY <1>1, <1>2, <1>3
<1>5. daemon'.boot >= daemon.boot
  BY <1>1 DEF Daemon
<1>6. QED
  BY <1>1, <1>3, <1>4, <1>5, CalmStep

\* A cut, a daemon that stops and starts, and the tmux servers.
LEMMA SurroundingSteps ==
  ASSUME Inv, TabKeeps,
         \/ Cut \/ DaemonStops \/ DaemonStarts
         \/ \E s \in Server : Change(s) \/ Kill(s) \/ Birth(s)
  PROVE  Inv'
<1> USE DEF Inv, TypeInv, LinkTypeOK
<1>1. UNCHANGED <<socket, tab, fetch, reloads>>
  BY DEF TabKeeps, Cut, DaemonStops, DaemonStarts, Change, Kill, Birth
<1>2. left' \in Budget
  <2>1. ASSUME NEW what \in {"cuts", "restarts", "changes", "kills", "births"}, Spend(what)
        PROVE  left' \in Budget
    BY <2>1, SpendKeeps
  <2>2. QED
    BY <2>1 DEF Cut, DaemonStops, DaemonStarts, Change, Kill, Birth
<1>3. /\ wire' \in Wire /\ daemon' \in Daemon /\ host' \in Host
      /\ daemon'.boot >= daemon.boot
      /\ wire'.down = <<>> \/ (wire'.down = wire.down /\ daemon'.boot = daemon.boot)
      /\ Linked' => Linked /\ wire' = wire /\ daemon'.subs = daemon.subs /\ daemon'.shown = daemon.shown
  <2>1. Severed \in Wire /\ Severed.down = <<>> /\ ~Severed.ok
    BY DEF Severed, Wire
  <2>2. CASE Cut
    BY <1>1, <2>1, <2>2 DEF Cut, Linked, Daemon
  <2>3. CASE DaemonStops
    BY <1>1, <2>1, <2>3 DEF DaemonStops, Linked, Daemon, None
  <2>4. CASE DaemonStarts
    <3>1. UNCHANGED <<socket, wire, host>> /\ daemon' = [daemon EXCEPT !.up = TRUE]
      BY <2>4 DEF DaemonStarts
    <3>2. /\ daemon' \in Daemon /\ daemon'.boot = daemon.boot /\ daemon.boot \in Nat
          /\ daemon'.subs = daemon.subs /\ daemon'.shown = daemon.shown
      BY <3>1 DEF Daemon
    <3>3. QED
      BY <3>1, <3>2 DEF Linked
  <2>5. CASE \E s \in Server : Change(s) \/ Kill(s) \/ Birth(s)
    <3>1. UNCHANGED <<wire, daemon>>
      BY <2>5 DEF Change, Kill, Birth
    <3>2. host' \in Host
      BY <2>5 DEF Change, Kill, Birth, Host
    <3>3. QED
      BY <1>1, <3>1, <3>2 DEF Linked, Daemon
  <2>6. QED
    BY <2>2, <2>3, <2>4, <2>5
<1>4. TypeInv'
  BY <1>1, <1>2, <1>3
<1>5. QED
  BY <1>1, <1>3, <1>4, CalmStep

\* The dots change neither what is subscribed nor what is shown.
LEMMA MarkKeeps ==
  ASSUME tab \in Tab, NEW connected \in BOOLEAN, NEW debounce \in BOOLEAN, NEW up \in BOOLEAN,
         tab' = Mark([tab EXCEPT !.connected = connected, !.debounce = debounce], up)
         \/ tab' = Mark([tab EXCEPT !.debounce = debounce, !.connected = connected], up)
  PROVE  /\ tab' \in Tab
         /\ tab'.subscribed = tab.subscribed /\ tab'.metrics = tab.metrics /\ tab'.boot = tab.boot
         /\ \A s \in Server : /\ tab'.slices[s].present = tab.slices[s].present
                              /\ tab'.slices[s].sessions = tab.slices[s].sessions
<1> DEFINE t == [tab EXCEPT !.connected = connected, !.debounce = debounce]
<1>1. tab' = Mark(t, up) /\ t \in Tab
  BY DEF Tab
<1>2. /\ t.subscribed = tab.subscribed /\ t.metrics = tab.metrics /\ t.boot = tab.boot
      /\ t.slices = tab.slices
  BY DEF Tab
<1> HIDE DEF t
<1> DEFINE new == [s \in Server |->
             IF s \in t.acked /\ t.slices[s].present
               THEN [t.slices[s] EXCEPT !.connected = up] ELSE t.slices[s]]
<1>3. tab' = [t EXCEPT !.slices = new]
  BY <1>1 DEF Mark
<1>4. t.slices \in [Server -> Slice]
  BY <1>1 DEF Tab
<1>5. \A s \in Server : /\ new[s] \in Slice
                        /\ new[s].present = t.slices[s].present
                        /\ new[s].sessions = t.slices[s].sessions
  BY <1>4 DEF Slice
<1>6. new \in [Server -> Slice]
  BY <1>5
<1> HIDE DEF new
<1>7. tab' \in Tab /\ tab'.slices = new /\ tab'.subscribed = t.subscribed
      /\ tab'.metrics = t.metrics /\ tab'.boot = t.boot
  BY <1>1, <1>3, <1>6 DEF Tab
<1>8. QED
  BY <1>2, <1>5, <1>7

\* onclose, and the dots that go gray three seconds later.
LEMMA CloseSteps ==
  ASSUME Inv, SocketCloses \/ DebounceFires
  PROVE  Inv'
<1> USE DEF Inv, TypeInv, LinkTypeOK
<1>1. CASE SocketCloses
  <2>1. left' \in Budget
    <3>1. Spend("cuts") => left' \in Budget
      BY SpendKeeps
    <3>2. QED
      BY <1>1, <3>1 DEF SocketCloses
  <2>2. socket' \in Socket /\ socket'.refs = socket.refs /\ ~Linked'
    BY <1>1 DEF SocketCloses, OnClose, NoteInbound, Socket, NoPing, Linked, IsOpen
  <2>3. wire' \in Wire /\ wire'.down = <<>>
    BY <1>1 DEF SocketCloses, Severed, Wire
  <2>4. tab' \in Tab /\ tab' = [tab EXCEPT !.debounce = TRUE] /\ UNCHANGED <<daemon, host, reloads>>
    BY <1>1 DEF SocketCloses, Tab
  <2>5. TypeInv' /\ daemon'.boot >= daemon.boot
    BY <2>1, <2>2, <2>3, <2>4 DEF Daemon
  <2>6. /\ tab'.subscribed = tab.subscribed /\ tab'.metrics = tab.metrics
        /\ tab'.boot = tab.boot /\ tab'.slices = tab.slices
    BY <2>4 DEF Tab
  <2>7. QED
    BY <2>2, <2>3, <2>4, <2>5, <2>6, CalmStep
<1>2. CASE DebounceFires
  <2>1. UNCHANGED <<socket, wire, daemon, host, left, reloads>>
    BY <1>2 DEF DebounceFires
  <2>2. /\ tab' \in Tab
        /\ tab'.subscribed = tab.subscribed /\ tab'.metrics = tab.metrics /\ tab'.boot = tab.boot
        /\ \A s \in Server : /\ tab'.slices[s].present = tab.slices[s].present
                             /\ tab'.slices[s].sessions = tab.slices[s].sessions
    BY <1>2, MarkKeeps DEF DebounceFires
  <2>3. TypeInv' /\ daemon'.boot >= daemon.boot /\ (Linked' => Linked)
    BY <2>1, <2>2 DEF Daemon, Linked
  <2>4. QED
    BY <2>1, <2>2, <2>3, CalmStep
<1>3. QED
  BY <1>1, <1>2

-----------------------------------------------------------------------------
(* A connection that opens, and what the daemon does *)

LEMMA WireFacts ==
  ASSUME wire \in Wire
  PROVE  /\ wire.up \in Seq(Ups) /\ wire.down \in Seq(Downs) /\ wire.ok \in BOOLEAN
         /\ \A w : w = [wire EXCEPT !.up = w.up, !.down = w.down]
                   /\ w.up \in Seq(Ups) /\ w.down \in Seq(Downs) => w \in Wire
BY DEF Wire, Ups, Downs

LEMMA SocketOpensInv ==
  ASSUME Inv, SocketOpens
  PROVE  Inv'
<1> USE DEF Inv, TypeInv, LinkTypeOK
<1> DEFINE subs == Each("subscribe", Subs(socket))
           hello == <<[op |-> "hello"]>>
<1>1. UNCHANGED <<host, left, reloads>>
  BY DEF SocketOpens
<1>2. /\ tab' \in Tab
      /\ tab'.subscribed = tab.subscribed /\ tab'.metrics = tab.metrics /\ tab'.boot = tab.boot
      /\ \A s \in Server : /\ tab'.slices[s].present = tab.slices[s].present
                           /\ tab'.slices[s].sessions = tab.slices[s].sessions
  BY MarkKeeps DEF SocketOpens
<1>3. /\ socket' \in Socket /\ socket'.refs = socket.refs
  BY DEF SocketOpens, Socket
<1>4. /\ daemon' \in Daemon /\ daemon'.subs = {} /\ daemon'.boot = daemon.boot
  BY DEF SocketOpens, Daemon
<1>5. /\ subs \in Seq(Ups) /\ hello \in Seq(Ups)
      /\ \A k \in Subs(socket) : EndsIn(subs, Asks(k), Joins(k))
  <2>1. Subs(socket) \in SUBSET Key
    BY DEF Subs
  <2>2. hello \in Seq(Ups)
    BY DEF Ups
  <2>3. QED
    BY <2>1, <2>2, EachFacts
<1>6. wire' = [ok |-> TRUE, up |-> hello \o subs, down |-> <<>>]
  BY DEF SocketOpens, Dialling, OpenSends
<1> HIDE DEF subs, hello
<1>7. hello \o subs \in Seq(Ups)
      /\ \A k \in Subs(socket) : EndsIn(hello \o subs, Asks(k), Joins(k))
  <2>1. ASSUME NEW k \in Subs(socket) PROVE EndsIn(hello \o subs, Asks(k), Joins(k))
    BY <1>5, ConcatKeeps
  <2>2. QED
    BY <1>5, <2>1, ConcatProperties
<1>8. wire' \in Wire /\ wire'.down = <<>> /\ wire'.up = hello \o subs
  BY <1>6, <1>7 DEF Wire, Ups
<1>9. TypeInv'
  BY <1>1, <1>2, <1>3, <1>4, <1>8
<1>10. Guards'
  BY <1>2, <1>3 DEF Guards, Subs
<1>11. Slots'
  BY <1>2 DEF Slots, Tab
<1>12. Boots'
  BY <1>1, <1>2, <1>4, <1>8 DEF Boots
<1>13. EndsMeet'
  BY <1>3, <1>7, <1>8 DEF EndsMeet, Agreed, Subs
<1>14. ShowsMeet'
  BY <1>4 DEF ShowsMeet
<1>15. QED
  BY <1>9, <1>10, <1>11, <1>12, <1>13, <1>14

\* What a step of the daemon has to show of each key and server, when it puts r on the
\* wire and the tab does nothing.
LEMMA DaemonStep ==
  ASSUME Inv, UNCHANGED <<socket, host, left, tab, fetch, reloads>>,
         daemon' \in Daemon, daemon'.boot = daemon.boot,
         wire.ok, wire'.ok = wire.ok, NEW r \in Seq(Downs),
         wire' = [wire EXCEPT !.up = wire'.up, !.down = wire'.down],
         wire'.up \in Seq(Ups), wire'.down = wire.down \o r,
         \A i \in DOMAIN r : r[i].op = "version" => r[i].boot = daemon.boot,
         \A k \in Key : Agreed(k) => Agreed(k)',
         \A s \in tab.subscribed \cap daemon'.subs : Silent(wire'.up, Asks(s)) =>
           \/ EndsIn(r, Tells(s), Shows(s)')
           \/ /\ s \in daemon.subs /\ Silent(wire.up, Asks(s)) /\ daemon'.shown[s] = daemon.shown[s]
              /\ Silent(r, Tells(s))
  PROVE  Inv'
<1> USE DEF Inv, TypeInv, LinkTypeOK
<1>1. wire.down \in Seq(Downs)
  BY WireFacts
<1>2. wire.down \o r \in Seq(Downs)
  BY <1>1, ConcatProperties
<1>3. wire' \in Wire
  BY <1>2, WireFacts
<1>4. TypeInv'
  BY <1>3
<1>5. Guards' /\ Slots'
  BY DEF Guards, Subs, Slots
<1>6. Boots'
  <2>1. \A i \in DOMAIN (wire.down \o r) :
              \/ i \in DOMAIN wire.down /\ (wire.down \o r)[i] = wire.down[i]
              \/ i - Len(wire.down) \in DOMAIN r /\ (wire.down \o r)[i] = r[i - Len(wire.down)]
    BY <1>1, ConcatKeeps
  <2>2. ASSUME NEW i \in DOMAIN (wire.down \o r), (wire.down \o r)[i].op = "version"
        PROVE  (wire.down \o r)[i].boot = daemon.boot
    BY <2>1, <2>2 DEF Boots
  <2>3. QED
    BY <2>2 DEF Boots
<1>7. Linked' => Linked
  BY DEF Linked
<1>8. EndsMeet'
  BY <1>7 DEF EndsMeet
<1>9. ShowsMeet'
  <2> SUFFICES ASSUME Linked', NEW s \in (tab.subscribed \cap daemon'.subs), Silent(wire'.up, Asks(s))
               PROVE  Current(s)'
    BY DEF ShowsMeet
  <2>1. CASE EndsIn(r, Tells(s), Shows(s)')
    <3>1. EndsIn(wire.down \o r, Tells(s), Shows(s)')
      BY <1>1, <2>1, ConcatKeeps
    <3>2. QED
      BY <3>1 DEF Current
  <2>2. CASE /\ s \in daemon.subs /\ Silent(wire.up, Asks(s)) /\ daemon'.shown[s] = daemon.shown[s]
             /\ Silent(r, Tells(s))
    <3>1. Current(s) /\ Shows(s)' = Shows(s)
      BY <1>7, <2>2 DEF ShowsMeet, Shows
    <3>2. /\ EndsIn(wire.down, Tells(s), Shows(s)) => EndsIn(wire.down \o r, Tells(s), Shows(s))
          /\ Silent(wire.down, Tells(s)) => Silent(wire.down \o r, Tells(s))
      BY <1>1, <2>2, ConcatKeeps
    <3>3. QED
      BY <2>2, <3>1, <3>2 DEF Current
  <2>3. QED
    BY <2>1, <2>2
<1>10. QED
  BY <1>4, <1>5, <1>6, <1>8, <1>9

\* What reading a request leaves of the requests about another key.
LEMMA ReadFacts ==
  ASSUME wire \in Wire, wire.up # <<>>, NEW r \in Seq(Downs), NEW k
  PROVE  /\ Tail(wire.up) \in Seq(Ups) /\ Head(wire.up) \in Ups
         /\ Silent(wire.up, Asks(k)) => Silent(Tail(wire.up), Asks(k))
         /\ Head(wire.up) \notin Asks(k) /\ Silent(Tail(wire.up), Asks(k)) => Silent(wire.up, Asks(k))
         /\ EndsIn(wire.up, Asks(k), Joins(k)) => \/ EndsIn(Tail(wire.up), Asks(k), Joins(k))
                                                  \/ /\ Head(wire.up) \in Joins(k)
                                                     /\ Silent(Tail(wire.up), Asks(k))
         /\ Head(wire.up) \in Asks(k) => ~Silent(wire.up, Asks(k))
         /\ Silent(wire.down \o r, Ends(k)) => Silent(wire.down, Ends(k))
<1>1. wire.up \in Seq(Ups) /\ wire.down \in Seq(Downs)
  BY WireFacts
<1>2. Head(wire.up) \in Asks(k) => ~Silent(wire.up, Asks(k))
  <2>1. 1 \in DOMAIN wire.up /\ Head(wire.up) = wire.up[1]
    BY <1>1, EmptySeq, LenProperties
  <2>2. QED
    BY <2>1 DEF Silent
<1>3. Silent(wire.down \o r, Ends(k)) => Silent(wire.down, Ends(k))
  BY <1>1, ConcatKeeps
<1>4. QED
  BY <1>1, <1>2, <1>3, TailKeeps

LEMMA DaemonReadInv ==
  ASSUME Inv, DaemonRead, TabKeeps
  PROVE  Inv'
<1> USE DEF Inv, TypeInv, LinkTypeOK
<1> DEFINE msg == Head(wire.up)
           rest == Tail(wire.up)
<1>1. /\ UNCHANGED <<socket, host, left, tab, fetch, reloads>>
      /\ wire.ok /\ wire.up # <<>> /\ rest \in Seq(Ups) /\ msg \in Ups
  <2>1. <<>> \in Seq(Downs)
    BY EmptySeq
  <2>2. QED
    BY <2>1, ReadFacts DEF DaemonRead, TabKeeps
<1>2. /\ wire.up \in Seq(Ups) /\ wire.down \in Seq(Downs) /\ daemon \in Daemon
      /\ DOMAIN wire = {"ok", "up", "down"} /\ wire = [ok |-> wire.ok, up |-> wire.up, down |-> wire.down]
  BY WireFacts DEF Wire
<1>3. CASE msg.op = "hello"
  <2> DEFINE r == <<[op |-> "version", boot |-> daemon.boot]>>
  <2>1. daemon' = daemon /\ wire' = [wire EXCEPT !.up = rest, !.down = wire.down \o r]
    <3>1. Append(wire.down, r[1]) = wire.down \o r
      BY <1>2, AppendIsConcat DEF Downs, Daemon
    <3>2. QED
      BY <1>3, <3>1 DEF DaemonRead, Hello
  <2>2. r \in Seq(Downs) /\ r[1].boot = daemon.boot /\ DOMAIN r = {1}
    BY <1>2 DEF Downs, Daemon
  <2>3. \A k : /\ msg \notin Asks(k) /\ msg \notin Joins(k)
               /\ Silent(r, Ends(k)) /\ Silent(r, Tells(k))
    BY <1>3 DEF Asks, Joins, Ends, Tells, Op, Silent
  <2> HIDE DEF r, rest, msg
  <2>4. wire'.ok = wire.ok /\ wire'.up = rest /\ wire'.down = wire.down \o r
    BY <1>2, <2>1
  <2>5. ASSUME NEW k \in Key, Agreed(k) PROVE Agreed(k)'
    BY <1>1, <2>1, <2>2, <2>3, <2>4, <2>5, ReadFacts DEF Agreed, rest, msg
  <2>6. ASSUME NEW s \in (tab.subscribed \cap daemon'.subs), Silent(rest, Asks(s))
        PROVE  s \in daemon.subs /\ Silent(wire.up, Asks(s)) /\ daemon'.shown[s] = daemon.shown[s]
    BY <1>1, <2>1, <2>2, <2>3, <2>6, ReadFacts DEF rest, msg
  <2>7. QED
    <3>1. \A i \in DOMAIN r : r[i].op = "version" => r[i].boot = daemon.boot
      BY <2>2
    <3>2. wire' = [wire EXCEPT !.up = wire'.up, !.down = wire'.down]
      BY <2>1, <2>4
    <3>3. daemon' \in Daemon /\ daemon'.boot = daemon.boot
      BY <1>2, <2>1
    <3>4. QED
      BY <1>1, <2>2, <2>3, <2>4, <2>5, <2>6, <3>1, <3>2, <3>3, DaemonStep
<1>4. CASE msg.op = "subscribe"
  <2> DEFINE k == msg.key
             cached == IF k \in daemon.subs \/ k = Metrics \/ daemon.shown[k] = None THEN <<>>
                       ELSE <<Frame("sessions", k)>>
             ack == IF k = Metrics THEN [op |-> "ack", key |-> k, snapshot |-> None] ELSE Frame("ack", k)
             r == cached \o <<ack>>
  <2>1. k \in Key /\ msg = [op |-> "subscribe", key |-> k]
    BY <1>1, <1>4 DEF Ups, Op
  <2>2. daemon' = [daemon EXCEPT !.subs = @ \cup {k}]
    BY <1>4 DEF DaemonRead, Subscribe
  <2>3. wire' = [wire EXCEPT !.up = rest, !.down = (wire.down \o cached) \o <<ack>>]
    BY <1>2, <1>4 DEF DaemonRead, Subscribe
  <2>4. k # Metrics => k \in Server /\ daemon.shown[k] \in Nat
    BY <1>2, <2>1 DEF Key, Daemon
  <2>5. cached \in Seq(Downs) /\ ack \in Downs /\ <<ack>> \in Seq(Downs)
    <3>1. k # Metrics => Frame("sessions", k) \in Downs /\ Frame("ack", k) \in Downs
      BY <2>1, <2>4 DEF Frame, Downs
    <3>2. k = Metrics => ack \in Downs
      BY <2>1 DEF Downs, None
    <3>3. QED
      BY <3>1, <3>2
  <2>6. \A x : /\ Silent(cached, Ends(x)) /\ Silent(<<ack>>, Ends(x))
               /\ x # k => Silent(cached, Tells(x)) /\ Silent(<<ack>>, Tells(x))
    BY DEF Silent, Ends, Tells, Op, Frame
  <2>7. k # Metrics => EndsIn(<<ack>>, Tells(k), Shows(k))
    BY DEF EndsIn, Shows, Frame
  <2>8. \A i \in DOMAIN cached : cached[i].op # "version"
    BY DEF Frame
  <2>9. ack.op # "version"
    BY DEF Frame
  <2> HIDE DEF cached, ack
  <2>10. /\ r \in Seq(Downs) /\ (wire.down \o cached) \o <<ack>> = wire.down \o r
         /\ \A i \in DOMAIN r : r[i].op # "version"
    <3>1. r \in Seq(Downs)
      BY <2>5, ConcatProperties
    <3>2. (wire.down \o cached) \o <<ack>> = wire.down \o r
      BY <1>2, <2>5, ConcatAssociative
    <3>3. \A i \in DOMAIN r : \/ i \in DOMAIN cached /\ r[i] = cached[i]
                              \/ i - Len(cached) \in DOMAIN <<ack>> /\ r[i] = <<ack>>[i - Len(cached)]
      BY <2>5, ConcatKeeps
    <3>4. \A i \in DOMAIN <<ack>> : <<ack>>[i] = ack
      OBVIOUS
    <3>5. QED
      BY <2>8, <2>9, <3>1, <3>2, <3>3, <3>4
  <2>11. \A x : /\ Silent(r, Ends(x))
                /\ x # k => Silent(r, Tells(x))
    BY <2>5, <2>6, ConcatKeeps
  <2>12. k # Metrics => EndsIn(r, Tells(k), Shows(k))
    <3> DEFINE last == <<ack>>
    <3>1. last \in Seq(Downs)
      BY <2>5
    <3> HIDE DEF last
    <3>2. EndsIn(last, Tells(k), Shows(k)) => EndsIn(cached \o last, Tells(k), Shows(k))
      BY <2>5, <3>1, ConcatKeeps
    <3>3. QED
      BY <2>7, <3>2 DEF last
  <2> HIDE DEF r
  <2>13. /\ wire'.ok = wire.ok /\ wire'.up = rest /\ wire'.down = wire.down \o r
         /\ wire' = [wire EXCEPT !.up = wire'.up, !.down = wire'.down]
    BY <1>2, <2>3, <2>10
  <2>14. /\ daemon' \in Daemon /\ daemon'.boot = daemon.boot /\ daemon'.shown = daemon.shown
         /\ daemon'.subs = daemon.subs \cup {k}
    BY <1>2, <2>1, <2>2 DEF Daemon
  <2>15. \A x : x # k => msg \notin Asks(x) /\ msg \notin Joins(x)
    BY DEF Asks, Joins, Op
  <2>16. msg \in Asks(k)
    BY <2>1 DEF Asks, Op
  <2> HIDE DEF k, rest, msg
  <2>17. ASSUME NEW x \in Key, Agreed(x) PROVE Agreed(x)'
    <3>1. CASE x = k
      BY <1>1, <2>10, <2>13, <2>14, <2>16, <2>17, <3>1, ReadFacts DEF Agreed, rest, msg
    <3>2. CASE x # k
      BY <1>1, <2>10, <2>13, <2>14, <2>15, <2>17, <3>2, ReadFacts DEF Agreed, rest, msg
    <3>3. QED
      BY <3>1, <3>2
  <2>18. ASSUME NEW s \in (tab.subscribed \cap daemon'.subs), Silent(rest, Asks(s))
         PROVE  \/ EndsIn(r, Tells(s), Shows(s)')
                \/ /\ s \in daemon.subs /\ Silent(wire.up, Asks(s)) /\ daemon'.shown[s] = daemon.shown[s]
                   /\ Silent(r, Tells(s))
    <3>1. Shows(s)' = Shows(s)
      BY <2>14 DEF Shows
    <3>2. CASE s = k
      <4>1. s # Metrics
        BY ServersOK DEF Tab
      <4>2. QED
        BY <2>12, <3>1, <3>2, <4>1
    <3>3. CASE s # k
      BY <1>1, <2>10, <2>11, <2>14, <2>15, <2>18, <3>3, ReadFacts DEF rest, msg
    <3>4. QED
      BY <3>2, <3>3
  <2>19. QED
    <3>1. \A i \in DOMAIN r : r[i].op = "version" => r[i].boot = daemon.boot
      BY <2>10
    <3>2. QED
      BY <1>1, <2>10, <2>13, <2>14, <2>17, <2>18, <3>1, DaemonStep
<1>5. CASE msg.op = "unsubscribe"
  <2> DEFINE k == msg.key
             r == <<>>
  <2>1. k \in Key /\ msg = [op |-> "unsubscribe", key |-> k]
    BY <1>1, <1>5 DEF Ups, Op
  <2>2. daemon' = [daemon EXCEPT !.subs = @ \ {k}] /\ wire' = [wire EXCEPT !.up = rest]
    BY <1>5 DEF DaemonRead, Unsubscribe
  <2>3. r \in Seq(Downs) /\ wire.down \o r = wire.down /\ \A K : Silent(r, K)
    BY <1>2, ConcatEmptySeq DEF Silent
  <2> HIDE DEF r
  <2>4. /\ wire'.ok = wire.ok /\ wire'.up = rest /\ wire'.down = wire.down \o r
        /\ wire' = [wire EXCEPT !.up = wire'.up, !.down = wire'.down]
    BY <1>2, <2>2, <2>3
  <2>5. /\ daemon' \in Daemon /\ daemon'.boot = daemon.boot /\ daemon'.shown = daemon.shown
        /\ daemon'.subs = daemon.subs \ {k}
    BY <1>2, <2>2 DEF Daemon
  <2>6. /\ \A x : x # k => msg \notin Asks(x) /\ msg \notin Joins(x)
        /\ msg \in Asks(k) /\ msg \notin Joins(k)
    BY <2>1 DEF Asks, Joins, Op
  <2> HIDE DEF k, rest, msg
  <2>7. ASSUME NEW x \in Key, Agreed(x) PROVE Agreed(x)'
    <3>1. CASE x = k
      BY <1>1, <2>3, <2>4, <2>5, <2>6, <2>7, <3>1, ReadFacts DEF Agreed, rest, msg
    <3>2. CASE x # k
      BY <1>1, <2>3, <2>4, <2>5, <2>6, <2>7, <3>2, ReadFacts DEF Agreed, rest, msg
    <3>3. QED
      BY <3>1, <3>2
  <2>8. ASSUME NEW s \in (tab.subscribed \cap daemon'.subs), Silent(rest, Asks(s))
        PROVE  s \in daemon.subs /\ Silent(wire.up, Asks(s)) /\ daemon'.shown[s] = daemon.shown[s]
    BY <1>1, <2>3, <2>5, <2>6, <2>8, ReadFacts DEF rest, msg
  <2>9. QED
    <3>1. \A i \in DOMAIN r : r[i].op = "version" => r[i].boot = daemon.boot
      BY DEF r
    <3>2. QED
      BY <1>1, <2>3, <2>4, <2>5, <2>7, <2>8, <3>1, DaemonStep
<1>6. QED
  BY <1>1, <1>3, <1>4, <1>5 DEF Ups, Op

\* A poll puts at most one frame on the wire: the first that shows a change, or the end of
\* a server that is gone.
LEMMA PollInv ==
  ASSUME Inv, TabKeeps, NEW z \in Server, Poll(z)
  PROVE  Inv'
<1> USE DEF Inv, TypeInv, LinkTypeOK
<1>1. /\ UNCHANGED <<socket, host, left, tab, fetch, reloads>>
      /\ wire.up \in Seq(Ups) /\ wire.down \in Seq(Downs) /\ daemon \in Daemon
      /\ wire = [ok |-> wire.ok, up |-> wire.up, down |-> wire.down]
  BY WireFacts DEF Poll, TabKeeps, Wire
<1>2. ASSUME daemon' \in Daemon, daemon'.boot = daemon.boot, NEW r \in Seq(Downs), Push(r),
             \A i \in DOMAIN r : r[i].op # "version",
             \A k \in Key : k \in daemon.subs => k \in daemon'.subs \/ ~Silent(r, Ends(k)),
             \A s \in daemon'.subs \cap Server :
               /\ s \in daemon.subs
               /\ \/ EndsIn(r, Tells(s), Shows(s)')
                  \/ daemon'.shown[s] = daemon.shown[s] /\ Silent(r, Tells(s))
      PROVE  Inv'
  <2>1. CASE ~wire.ok
    <3>1. wire' = wire
      BY <1>2, <2>1 DEF Push
    <3>2. ~Linked' /\ TypeInv'
      BY <1>1, <1>2, <2>1, <3>1 DEF Linked
    <3>3. daemon'.boot >= daemon.boot
      BY <1>1, <1>2 DEF Daemon
    <3>4. QED
      BY <1>1, <1>2, <3>1, <3>2, <3>3, CalmStep
  <2>2. CASE wire.ok
    <3>1. wire' = [wire EXCEPT !.down = wire.down \o r]
      BY <1>2, <2>2 DEF Push
    <3>2. /\ wire'.ok = wire.ok /\ wire'.up = wire.up /\ wire'.down = wire.down \o r
          /\ wire' = [wire EXCEPT !.up = wire'.up, !.down = wire'.down]
      BY <1>1, <3>1
    <3>3. ASSUME NEW k \in Key, Agreed(k) PROVE Agreed(k)'
      <4>1. Silent(wire.down \o r, Ends(k)) <=> Silent(wire.down, Ends(k)) /\ Silent(r, Ends(k))
        BY <1>1, <1>2, ConcatKeeps
      <4>2. QED
        BY <1>2, <3>2, <3>3, <4>1 DEF Agreed
    <3>4. ASSUME NEW s \in (tab.subscribed \cap daemon'.subs), Silent(wire.up, Asks(s))
          PROVE  \/ EndsIn(r, Tells(s), Shows(s)')
                 \/ /\ s \in daemon.subs /\ daemon'.shown[s] = daemon.shown[s]
                    /\ Silent(r, Tells(s))
      <4>1. s \in Server
        BY DEF Tab
      <4>2. QED
        BY <1>2, <4>1
    <3>5. /\ \A i \in DOMAIN r : r[i].op = "version" => r[i].boot = daemon.boot
          /\ wire'.up \in Seq(Ups) /\ r \in Seq(Downs)
      BY <1>1, <1>2, <3>2
    <3>6. \A s \in tab.subscribed \cap daemon'.subs : Silent(wire'.up, Asks(s)) =>
            \/ EndsIn(r, Tells(s), Shows(s)')
            \/ /\ s \in daemon.subs /\ Silent(wire.up, Asks(s)) /\ daemon'.shown[s] = daemon.shown[s]
               /\ Silent(r, Tells(s))
      BY <3>2, <3>4
    <3>7. daemon' \in Daemon /\ daemon'.boot = daemon.boot
      BY <1>2
    <3>8. QED
      BY <1>1, <2>2, <3>2, <3>3, <3>5, <3>6, <3>7, DaemonStep
  <2>3. QED
    BY <2>1, <2>2
<1>3. CASE PollShows(z)
  <2> DEFINE f == [op |-> "sessions", key |-> z, snapshot |-> host.version[z]]
             r == IF z \in daemon.subs THEN <<f>> ELSE <<>>
  <2>1. daemon' = [daemon EXCEPT !.shown[z] = host.version[z]] /\ Push(r)
    BY <1>3 DEF PollShows
  <2>2. /\ daemon' \in Daemon /\ daemon'.boot = daemon.boot /\ daemon'.subs = daemon.subs
        /\ daemon'.shown[z] = host.version[z]
        /\ \A s \in Server : s # z => daemon'.shown[s] = daemon.shown[s]
    BY <1>1, <2>1 DEF Daemon, Host
  <2>3. f \in Downs /\ f.op # "version"
    BY DEF Downs, Host
  <2>4. z \in daemon.subs => EndsIn(r, Tells(z), Shows(z)')
    BY <2>2 DEF EndsIn, Shows
  <2>5. \A s : s # z => Silent(r, Tells(s))
    BY DEF Silent, Tells, Ends, Op
  <2>6. r \in Seq(Downs) /\ \A i \in DOMAIN r : r[i].op # "version"
    BY <2>3
  <2> HIDE DEF f, r
  <2>7. QED
    BY <1>2, <2>1, <2>2, <2>4, <2>5, <2>6
<1>4. CASE PollReaps(z)
  <2> DEFINE f == [op |-> "gone", key |-> z]
             r == IF z \in daemon.subs THEN <<f>> ELSE <<>>
  <2>1. daemon' = [daemon EXCEPT !.shown[z] = None, !.subs = @ \ {z}] /\ Push(r)
    BY <1>4 DEF PollReaps
  <2>2. /\ daemon' \in Daemon /\ daemon'.boot = daemon.boot /\ daemon'.subs = daemon.subs \ {z}
        /\ \A s \in Server : s # z => daemon'.shown[s] = daemon.shown[s]
    BY <1>1, <2>1 DEF Daemon, None
  <2>3. f \in Downs /\ f.op # "version"
    BY DEF Downs, Op
  <2>4. z \in daemon.subs => ~Silent(r, Ends(z))
    BY DEF Silent, Ends, Op
  <2>5. \A s : s # z => Silent(r, Tells(s))
    BY DEF Silent, Tells, Ends, Op
  <2>6. r \in Seq(Downs) /\ \A i \in DOMAIN r : r[i].op # "version"
    BY <2>3
  <2> HIDE DEF f, r
  <2>7. QED
    BY <1>2, <2>1, <2>2, <2>4, <2>5, <2>6
<1>5. QED
  BY <1>3, <1>4 DEF Poll

-----------------------------------------------------------------------------
(* What the tab does with a frame *)

\* What taking the first frame off the wire leaves of the frames about a server.
LEMMA ReceiveFacts ==
  ASSUME wire \in Wire, wire.down # <<>>, NEW s, NEW P, P \subseteq Tells(s)
  PROVE  /\ Tail(wire.down) \in Seq(Downs) /\ Head(wire.down) \in Downs
         /\ Head(wire.down) = wire.down[1] /\ 1 \in DOMAIN wire.down
         /\ Head(wire.down) \notin Ends(s) /\ ~Silent(wire.down, Ends(s))
              => ~Silent(Tail(wire.down), Ends(s))
         /\ Silent(wire.down, Tells(s)) => Silent(Tail(wire.down), Tells(s)) /\ Head(wire.down) \notin Tells(s)
         /\ EndsIn(wire.down, Tells(s), P) => \/ EndsIn(Tail(wire.down), Tells(s), P)
                                              \/ /\ Head(wire.down) \in P
                                                 /\ Silent(Tail(wire.down), Tells(s))
         /\ \A i \in DOMAIN Tail(wire.down) : i + 1 \in DOMAIN wire.down
                                           /\ Tail(wire.down)[i] = wire.down[i + 1]
<1>1. wire.down \in Seq(Downs)
  BY WireFacts
<1>2. 1 \in DOMAIN wire.down /\ Head(wire.down) = wire.down[1]
  BY <1>1, EmptySeq, LenProperties
<1>3. Silent(wire.down, Tells(s)) => Head(wire.down) \notin Tells(s)
  BY <1>2 DEF Silent
<1>4. QED
  BY <1>1, <1>2, <1>3, TailKeeps

\* A frame that ends no subscription: the slice it is about takes what it shows.
LEMMA ReceiveStep ==
  ASSUME Inv, UNCHANGED <<daemon, host, left, reloads>>, wire.down # <<>>,
         socket' = NoteInbound(socket), wire' = [wire EXCEPT !.down = Tail(@)],
         tab' \in Tab, tab'.subscribed = tab.subscribed, tab'.metrics = tab.metrics,
         tab'.boot = tab.boot \/ (tab'.boot = daemon.boot /\ Head(wire.down).op = "version"),
         Head(wire.down).op # "gone",
         \A s \in Server :
           /\ tab'.slices[s].present = tab.slices[s].present
           /\ Head(wire.down) \notin Tells(s) => tab'.slices[s].sessions = tab.slices[s].sessions
           /\ Head(wire.down) \in Tells(s) /\ tab.slices[s].present
                => tab'.slices[s].sessions = Head(wire.down).snapshot
  PROVE  Inv'
<1> USE DEF Inv, TypeInv, LinkTypeOK
<1>1. /\ socket' \in Socket /\ socket'.refs = socket.refs /\ socket'.state = socket.state
  BY DEF NoteInbound, Socket, NoPing
<1>2. Tail(wire.down) \in Seq(Downs)
  BY ReceiveFacts
<1>3. wire' \in Wire /\ wire'.up = wire.up /\ wire'.ok = wire.ok /\ wire'.down = Tail(wire.down)
  BY <1>2, WireFacts DEF Wire
<1>4. TypeInv'
  BY <1>1, <1>3
<1>5. Guards'
  BY <1>1 DEF Guards, Subs
<1>6. Slots'
  BY DEF Slots, Tab
<1>7. Boots'
  <2>1. \A i \in DOMAIN Tail(wire.down) : i + 1 \in DOMAIN wire.down
                                        /\ Tail(wire.down)[i] = wire.down[i + 1]
    BY ReceiveFacts
  <2>2. reloads <= daemon.boot /\ daemon.boot <= daemon.boot
    BY DEF Boots, Daemon
  <2>3. QED
    BY <1>3, <2>1, <2>2 DEF Boots
<1>8. Linked' => Linked
  BY <1>1, <1>3 DEF Linked, IsOpen
<1>9. EndsMeet'
  <2> SUFFICES ASSUME Linked', NEW k \in Key, socket.refs[k] > 0 PROVE Agreed(k)'
    BY <1>1 DEF EndsMeet
  <2>1. Agreed(k)
    BY <1>8 DEF EndsMeet
  <2>2. Head(wire.down) \notin Ends(k)
    BY DEF Ends, Op
  <2>3. ~Silent(wire.down, Ends(k)) => ~Silent(Tail(wire.down), Ends(k))
    BY <2>2, ReceiveFacts
  <2>4. QED
    BY <1>3, <2>1, <2>3 DEF Agreed
<1>10. ShowsMeet'
  <2> SUFFICES ASSUME Linked', NEW s \in (tab.subscribed \cap daemon.subs), Silent(wire.up, Asks(s))
               PROVE  Current(s)'
    BY <1>3 DEF ShowsMeet
  <2>1. Current(s) /\ s \in Server /\ tab.slices[s].present
    BY <1>8 DEF ShowsMeet, Slots, Tab
  <2>2. Shows(s)' = Shows(s)
    BY DEF Shows
  <2>3. Shows(s) \subseteq Tells(s) /\ \A f \in Shows(s) : f.snapshot = daemon.shown[s]
    BY <2>1 DEF Shows, Tells, Daemon
  <2>4. CASE EndsIn(wire.down, Tells(s), Shows(s))
    <3>1. \/ EndsIn(Tail(wire.down), Tells(s), Shows(s))
          \/ Head(wire.down) \in Shows(s) /\ Silent(Tail(wire.down), Tells(s))
      BY <2>3, <2>4, ReceiveFacts
    <3>2. QED
      BY <1>3, <2>1, <2>2, <2>3, <3>1 DEF Current
  <2>5. CASE Silent(wire.down, Tells(s)) /\ tab.slices[s].sessions = daemon.shown[s]
    <3>1. Silent(Tail(wire.down), Tells(s)) /\ Head(wire.down) \notin Tells(s)
      BY <2>5, ReceiveFacts
    <3>2. QED
      BY <1>3, <2>1, <2>2, <2>5, <3>1 DEF Current
  <2>6. QED
    BY <2>1, <2>4, <2>5 DEF Current
<1>11. QED
  BY <1>4, <1>5, <1>6, <1>7, <1>9, <1>10

LEMMA ReceiveUpdateInv ==
  ASSUME Inv, wire.down # <<>>, UNCHANGED <<daemon, host, left>>,
         Head(wire.down).op \notin {"gone", "version"},
         ReceiveUpdate(Head(wire.down), [wire EXCEPT !.down = Tail(@)])
  PROVE  Inv'
<1> DEFINE f == Head(wire.down)
<1> USE DEF Inv, TypeInv, LinkTypeOK
<1>1. f \in Downs
  <2>1. {} \subseteq Tells(None)
    OBVIOUS
  <2>2. QED
    BY <2>1, ReceiveFacts
<1>2. /\ f.op \in {"ack", "sessions"} /\ f.key \in Key /\ f.snapshot \in Nat
      /\ f = [op |-> f.op, key |-> f.key, snapshot |-> f.snapshot]
  BY <1>1 DEF Downs, Op, Key
<1>3. f \in Tells(f.key) /\ \A s : f \in Tells(s) => s = f.key
  BY <1>2 DEF Tells, Ends, Op
<1> HIDE DEF f
<1>4. /\ tab' \in Tab /\ tab'.subscribed = tab.subscribed /\ tab'.metrics = tab.metrics
      /\ tab'.boot = tab.boot
      /\ \A s \in Server :
           /\ tab'.slices[s].present = tab.slices[s].present
           /\ f \notin Tells(s) => tab'.slices[s].sessions = tab.slices[s].sessions
           /\ f \in Tells(s) /\ tab.slices[s].present => tab'.slices[s].sessions = f.snapshot
  <2>1. CASE f.key = Metrics
    <3>1. tab' = tab
      BY <2>1 DEF ReceiveUpdate, f
    <3>2. \A s \in Server : f \notin Tells(s)
      BY <1>3, <2>1, ServersOK
    <3>3. QED
      BY <3>1, <3>2
  <2>2. CASE f.key # Metrics
    <3>1. f.key \in Server
      BY <1>2, <2>2 DEF Key
    <3>2. PICK t \in Tab, change \in Slice :
            /\ tab' = [t EXCEPT !.slices[f.key] = IF @.present THEN change ELSE @]
            /\ t.slices = tab.slices /\ t.subscribed = tab.subscribed
            /\ t.metrics = tab.metrics /\ t.boot = tab.boot
            /\ tab.slices[f.key].present => change.present
            /\ change.sessions = f.snapshot
      <4>1. tab.slices[f.key] \in Slice
        BY <3>1 DEF Tab
      <4>2. CASE f.op = "ack"
        <5> DEFINE t == [tab EXCEPT !.acked = @ \cup {f.key}]
                   change == [tab.slices[f.key] EXCEPT !.connected = tab.connected, !.sessions = f.snapshot,
                                                       !.received = @ \/ f.snapshot # None]
        <5>1. /\ t \in Tab /\ t.slices = tab.slices /\ t.subscribed = tab.subscribed
              /\ t.metrics = tab.metrics /\ t.boot = tab.boot
          BY <3>1 DEF Tab
        <5>2. /\ change \in Slice /\ change.present = tab.slices[f.key].present
              /\ change.sessions = f.snapshot
          BY <1>2, <4>1 DEF Slice, Tab
        <5>3. tab' = Update(t, f.key, change)
          BY <2>2, <4>2 DEF ReceiveUpdate, OnAck, f
        <5> HIDE DEF t, change
        <5>4. tab' = [t EXCEPT !.slices[f.key] = IF @.present THEN change ELSE @]
          BY <5>3 DEF Update
        <5>5. QED
          BY <5>1, <5>2, <5>4
      <4>3. CASE f.op # "ack"
        <5> DEFINE change == [tab.slices[f.key] EXCEPT !.connected = TRUE, !.sessions = f.snapshot,
                                                       !.received = TRUE]
        <5>1. /\ change \in Slice /\ change.present = tab.slices[f.key].present
              /\ change.sessions = f.snapshot
          BY <1>2, <4>1 DEF Slice
        <5>2. tab' = Update(tab, f.key, change)
          BY <2>2, <4>3 DEF ReceiveUpdate, OnSessions, f
        <5> HIDE DEF change
        <5>3. tab' = [tab EXCEPT !.slices[f.key] = IF @.present THEN change ELSE @]
          BY <5>2 DEF Update
        <5>4. QED
          BY <5>1, <5>3
      <4>4. QED
        BY <4>2, <4>3
    <3>3. t.slices \in [Server -> Slice]
      BY <3>2 DEF Tab
    <3>4. /\ tab' \in Tab
          /\ tab'.slices = [t.slices EXCEPT ![f.key] = IF @.present THEN change ELSE @]
          /\ tab'.subscribed = t.subscribed /\ tab'.metrics = t.metrics /\ tab'.boot = t.boot
      BY <3>1, <3>2, <3>3 DEF Tab
    <3>5. QED
      BY <1>3, <3>1, <3>2, <3>3, <3>4 DEF Slice
  <2>3. QED
    BY <2>1, <2>2
<1>5. /\ socket' = NoteInbound(socket) /\ wire' = [wire EXCEPT !.down = Tail(@)]
      /\ UNCHANGED reloads
  BY DEF ReceiveUpdate
<1>6. QED
  BY <1>2, <1>4, <1>5, ReceiveStep DEF f

\* A reload dials again, with nothing subscribed; a version that does not reload is
\* remembered.
LEMMA ReceiveVersionInv ==
  ASSUME Inv, wire.down # <<>>, UNCHANGED <<daemon, host, left>>,
         Head(wire.down).op = "version",
         ReceiveVersion(Head(wire.down), [wire EXCEPT !.down = Tail(@)])
  PROVE  Inv'
<1> DEFINE f == Head(wire.down)
<1> USE DEF Inv, TypeInv, LinkTypeOK
<1>1. f.boot = daemon.boot /\ daemon.boot \in Nat
  <2>1. {} \subseteq Tells(None)
    OBVIOUS
  <2>2. f = wire.down[1] /\ 1 \in DOMAIN wire.down
    BY <2>1, ReceiveFacts
  <2>3. QED
    BY <2>2 DEF Boots, Daemon
<1> HIDE DEF f
<1>2. CASE ShouldReload(tab.boot, f.boot)
  <2>1. /\ tab' = Loaded(tab.current) /\ socket' = Fresh /\ wire' = Dialling
        /\ reloads' = reloads + 1
    BY <1>2 DEF ReceiveVersion, Reload, f
  <2>2. tab' \in Tab /\ tab'.subscribed = {} /\ tab'.metrics = FALSE /\ tab'.boot = NoBoot
    BY <2>1 DEF Tab, Loaded, Absent, Slice, None, NoBoot
  <2>3. /\ socket' \in Socket /\ Subs(socket)' = {} /\ ~Linked'
    BY <2>1 DEF Socket, Fresh, NoPing, Subs, Linked, IsOpen
  <2>4. wire' \in Wire /\ wire'.down = <<>>
    BY <2>1 DEF Wire, Dialling
  <2>5. reloads' <= daemon.boot
    <3>1. tab.boot \in Nat /\ reloads <= tab.boot /\ tab.boot <= daemon.boot /\ tab.boot # daemon.boot
      BY <1>1, <1>2 DEF ShouldReload, Boots, Tab
    <3>2. QED
      BY <1>1, <2>1, <3>1
  <2>6. TypeInv'
    BY <2>1, <2>2, <2>3, <2>4
  <2>7. Guards' /\ Slots' /\ Boots'
    BY <2>2, <2>3, <2>4, <2>5 DEF Guards, Slots, Boots
  <2>8. QED
    BY <2>3, <2>6, <2>7 DEF EndsMeet, ShowsMeet
<1>3. CASE ~ShouldReload(tab.boot, f.boot)
  <2>1. /\ tab' = [tab EXCEPT !.boot = IF @ = NoBoot THEN f.boot ELSE @]
        /\ socket' = NoteInbound(socket) /\ wire' = [wire EXCEPT !.down = Tail(@)]
        /\ UNCHANGED reloads
    BY <1>3 DEF ReceiveVersion, f
  <2>2. /\ tab' \in Tab /\ tab'.subscribed = tab.subscribed /\ tab'.metrics = tab.metrics
        /\ tab'.slices = tab.slices
        /\ tab'.boot = tab.boot \/ tab'.boot = daemon.boot
    BY <1>1, <2>1 DEF Tab
  <2>3. \A s : f \notin Tells(s)
    BY DEF f, Tells, Ends, Op
  <2>4. QED
    BY <2>1, <2>2, <2>3, ReceiveStep DEF f
<1>4. QED
  BY <1>2, <1>3

\* The end of a subscription: the guard, the reference and the slice go together.
LEMMA ReceiveGoneInv ==
  ASSUME Inv, wire.down # <<>>, UNCHANGED <<daemon, host, left>>,
         Head(wire.down).op = "gone",
         ReceiveGone(Head(wire.down), [wire EXCEPT !.down = Tail(@)])
  PROVE  Inv'
<1> DEFINE f == Head(wire.down)
           z == f.key
           w == [wire EXCEPT !.down = Tail(@)]
           r == Each("unsubscribe", {z})
<1> USE DEF Inv, TypeInv, LinkTypeOK
<1>1. z \in Server /\ f = [op |-> "gone", key |-> z] /\ Tail(wire.down) \in Seq(Downs)
  <2>1. {} \subseteq Tells(None)
    OBVIOUS
  <2>2. f \in Downs /\ Tail(wire.down) \in Seq(Downs)
    BY <2>1, ReceiveFacts
  <2>3. QED
    BY <2>2 DEF Downs, Op
<1>2. z \in Key /\ z # Metrics
  BY <1>1, ServersOK DEF Key
<1>3. r \in Seq(Ups) /\ \A k \in Key : k # z => Silent(r, Asks(k))
  BY <1>2, EachFacts
<1>4. /\ w \in Wire /\ w.up = wire.up /\ w.ok = wire.ok /\ w.down = Tail(wire.down)
      /\ wire.up \in Seq(Ups)
  BY <1>1, WireFacts DEF Wire
<1>5. \A s : s # z => f \notin Ends(s) /\ f \notin Tells(s)
  BY <1>1 DEF Ends, Tells, Op
<1> HIDE DEF r
<1>6. /\ tab' = OnGone(tab, z) /\ socket' = RemoveSub(NoteInbound(socket), z)
      /\ wire' = Send(w, socket, RemoveSubSends(socket, z)) /\ UNCHANGED reloads
  BY DEF ReceiveGone
<1> HIDE DEF f, z, w
<1>7. RemoveSubSends(socket, z) = r
  BY <1>2 DEF RemoveSubSends, Socket, r
<1>8. /\ wire' \in Wire /\ wire'.ok = wire.ok /\ wire'.down = Tail(wire.down)
      /\ Linked => wire'.up = wire.up \o r
  <2>1. wire.up \o r \in Seq(Ups)
    BY <1>3, <1>4, ConcatProperties
  <2>2. CASE Linked
    <3>1. wire' = [w EXCEPT !.up = wire.up \o r]
      BY <1>4, <1>6, <1>7, <2>2 DEF Send, Linked
    <3>2. QED
      BY <1>4, <2>1, <3>1 DEF Wire, Ups
  <2>3. CASE ~Linked
    BY <1>4, <1>6, <2>3 DEF Send, Linked
  <2>4. QED
    BY <2>2, <2>3
<1>9. /\ socket' \in Socket /\ socket'.refs = [socket.refs EXCEPT ![z] = 0]
      /\ socket'.state = socket.state
  <2> DEFINE n == NoteInbound(socket)
  <2>1. n \in Socket /\ n.refs = socket.refs /\ n.state = socket.state
    BY DEF NoteInbound, Socket, NoPing
  <2> HIDE DEF n
  <2>2. n.refs[z] <= 1
    BY <1>2, <2>1 DEF Socket
  <2>3. socket' = [n EXCEPT !.refs[z] = 0]
    BY <1>6, <2>2 DEF RemoveSub, n
  <2>4. [n.refs EXCEPT ![z] = 0] \in [Key -> 0..1]
    <3>1. n.refs \in [Key -> 0..1] /\ 0 \in 0..1
      BY <2>1 DEF Socket
    <3>2. QED
      BY <3>1
  <2>5. QED
    BY <2>1, <2>3, <2>4 DEF Socket
<1>10. /\ tab' \in Tab /\ tab'.subscribed = tab.subscribed \ {z} /\ tab'.metrics = tab.metrics
       /\ tab'.boot = tab.boot /\ tab'.slices = [tab.slices EXCEPT ![z] = Absent]
  <2>1. Absent \in Slice
    BY DEF Absent, Slice, None
  <2>2. QED
    BY <1>1, <1>6, <2>1 DEF OnGone, Tab
<1>11. TypeInv'
  BY <1>6, <1>8, <1>9, <1>10
<1>12. Guards'
  BY <1>2, <1>9, <1>10 DEF Guards, Subs, Socket
<1>13. Slots'
  BY <1>10 DEF Slots, Tab
<1>14. Boots'
  <2>1. {} \subseteq Tells(None)
    OBVIOUS
  <2>2. \A i \in DOMAIN Tail(wire.down) : i + 1 \in DOMAIN wire.down
                                        /\ Tail(wire.down)[i] = wire.down[i + 1]
    BY <2>1, ReceiveFacts
  <2>3. QED
    BY <1>6, <1>8, <1>10, <2>2 DEF Boots
<1>15. Linked' => Linked
  BY <1>8, <1>9 DEF Linked, IsOpen
<1>16. EndsMeet'
  <2> SUFFICES ASSUME Linked', NEW k \in Key, socket'.refs[k] > 0 PROVE Agreed(k)'
    BY DEF EndsMeet
  <2>1. k # z /\ socket.refs[k] > 0
    BY <1>2, <1>9 DEF Socket
  <2>2. Agreed(k)
    BY <1>15, <2>1 DEF EndsMeet
  <2>3. ~Silent(wire.down, Ends(k)) => ~Silent(Tail(wire.down), Ends(k))
    <3>1. {} \subseteq Tells(k) /\ f \notin Ends(k)
      BY <1>5, <2>1
    <3>2. QED
      BY <3>1, ReceiveFacts DEF f
  <2>4. /\ EndsIn(wire.up, Asks(k), Joins(k)) => EndsIn(wire.up \o r, Asks(k), Joins(k))
        /\ Silent(wire.up, Asks(k)) => Silent(wire.up \o r, Asks(k))
    <3>1. Silent(r, Asks(k))
      BY <1>3, <2>1
    <3>2. QED
      BY <1>3, <1>4, <3>1, ConcatKeeps
  <2>5. QED
    BY <1>8, <1>15, <2>2, <2>3, <2>4 DEF Agreed
<1>17. ShowsMeet'
  <2> SUFFICES ASSUME Linked', NEW s \in (tab'.subscribed \cap daemon.subs), Silent(wire'.up, Asks(s))
               PROVE  Current(s)'
    BY DEF ShowsMeet
  <2>1. s # z /\ s \in tab.subscribed /\ s \in Server
    BY <1>10 DEF Tab
  <2>2. Silent(wire.up, Asks(s))
    <3>1. Silent(wire.up \o r, Asks(s))
      BY <1>8, <1>15
    <3>2. Silent(wire.up \o r, Asks(s)) => Silent(wire.up, Asks(s))
      BY <1>3, <1>4, ConcatKeeps
    <3>3. QED
      BY <3>1, <3>2
  <2>3. Current(s)
    BY <1>15, <2>1, <2>2 DEF ShowsMeet
  <2>4. Shows(s)' = Shows(s) /\ Shows(s) \subseteq Tells(s)
    BY <2>1 DEF Shows, Tells, Daemon
  <2>5. f \notin Shows(s)
    BY <1>5, <2>1, <2>4
  <2>6. /\ EndsIn(wire.down, Tells(s), Shows(s)) => EndsIn(Tail(wire.down), Tells(s), Shows(s))
        /\ Silent(wire.down, Tells(s)) => Silent(Tail(wire.down), Tells(s))
    BY <2>4, <2>5, ReceiveFacts DEF f
  <2>7. tab'.slices[s] = tab.slices[s]
    BY <1>10, <2>1 DEF Tab
  <2>8. QED
    BY <1>8, <2>3, <2>4, <2>6, <2>7 DEF Current
<1>18. QED
  BY <1>11, <1>12, <1>13, <1>14, <1>16, <1>17

LEMMA ReceiveInv ==
  ASSUME Inv, Receive
  PROVE  Inv'
BY ReceiveGoneInv, ReceiveVersionInv, ReceiveUpdateInv DEF Receive

-----------------------------------------------------------------------------
(* The effects *)

\* The effects subscribe what is newly attached, which had no reference, and release
\* what is left, which had one.
LEMMA EffectsInv ==
  ASSUME Inv, Effects
  PROVE  Inv'
<1> USE DEF Inv, TypeInv, LinkTypeOK
<1> DEFINE joins == AttachedSet \ tab.subscribed
           leaves == tab.subscribed \ AttachedSet
           metrics == AttachedSet = {}
           refs == [k \in Key |->
                     IF k \in joins \/ (k = Metrics /\ metrics /\ ~tab.metrics) THEN AddSub(socket, k).refs[k]
                     ELSE IF k \in leaves \/ (k = Metrics /\ ~metrics /\ tab.metrics) THEN RemoveSub(socket, k).refs[k]
                     ELSE socket.refs[k]]
           begins == {k \in Key : socket.refs[k] = 0 /\ refs[k] > 0}
           ends == {k \in leaves \cup (IF ~metrics /\ tab.metrics THEN {Metrics} ELSE {}) : socket.refs[k] <= 1}
           slices == [s \in Server |-> IF s \in joins THEN EmptySlice
                                       ELSE IF s \in leaves THEN Absent ELSE tab.slices[s]]
           sub == Each("subscribe", begins)
           uns == Each("unsubscribe", ends)
           r == sub \o uns
<1>1. /\ UNCHANGED <<daemon, host, left, reloads>>
      /\ tab' = [tab EXCEPT !.effect = FALSE, !.subscribed = AttachedSet, !.metrics = metrics,
                            !.acked = @ \ leaves, !.slices = slices]
      /\ socket' = [socket EXCEPT !.refs = refs]
      /\ wire' = Send(wire, socket, r)
  BY DEF Effects
<1>2. /\ AttachedSet \subseteq Server /\ tab.subscribed \subseteq Server /\ Server \subseteq Key
      /\ Metrics \in Key /\ Metrics \notin Server
  BY ServersOK DEF AttachedSet, Tab, Key
<1>3. /\ socket.refs \in [Key -> 0..1]
      /\ \A s \in Server : socket.refs[s] > 0 <=> s \in tab.subscribed
      /\ socket.refs[Metrics] > 0 <=> tab.metrics
  BY <1>2 DEF Guards, Subs, Socket, Tab
<1>4. /\ \A k \in Key : socket.refs[k] = 0 => AddSub(socket, k).refs[k] = 1
      /\ \A k \in Key : RemoveSub(socket, k).refs[k] = 0
  BY DEF AddSub, RemoveSub, Socket
<1>5. \A s \in Server : refs[s] = IF s \in AttachedSet THEN 1 ELSE 0
  <2> SUFFICES ASSUME NEW s \in Server PROVE refs[s] = IF s \in AttachedSet THEN 1 ELSE 0
    OBVIOUS
  <2>1. s \in Key /\ s # Metrics
    BY <1>2
  <2>2. refs[s] = IF s \in joins THEN AddSub(socket, s).refs[s]
                  ELSE IF s \in leaves THEN RemoveSub(socket, s).refs[s] ELSE socket.refs[s]
    BY <2>1
  <2>3. socket.refs[s] = 0 \/ socket.refs[s] = 1
    BY <1>3, <2>1
  <2>4. QED
    BY <1>3, <1>4, <2>1, <2>2, <2>3
<1>6. refs[Metrics] = IF metrics THEN 1 ELSE 0
  <2>1. Metrics \notin joins /\ Metrics \notin leaves
    BY <1>2
  <2>2. refs[Metrics] = IF metrics /\ ~tab.metrics THEN AddSub(socket, Metrics).refs[Metrics]
                        ELSE IF ~metrics /\ tab.metrics THEN RemoveSub(socket, Metrics).refs[Metrics]
                        ELSE socket.refs[Metrics]
    BY <1>2, <2>1
  <2>3. socket.refs[Metrics] = 0 \/ socket.refs[Metrics] = 1
    BY <1>2, <1>3
  <2>4. QED
    BY <1>2, <1>3, <1>4, <2>2, <2>3
<1>7. DOMAIN refs = Key
  OBVIOUS
<1>8. begins \in SUBSET Key /\ ends \in SUBSET Key /\ \A k \in ends : refs[k] = 0
  BY <1>2, <1>5, <1>6
<1>9. \A k \in Key : k \in begins <=> socket.refs[k] = 0 /\ refs[k] > 0
  OBVIOUS
<1>10. \A s \in Server : slices[s] = IF s \in joins THEN EmptySlice
                                     ELSE IF s \in leaves THEN Absent ELSE tab.slices[s]
  OBVIOUS
<1>11. slices \in [Server -> Slice]
  BY DEF Tab, Slice, EmptySlice, Absent, None
<1> HIDE DEF refs, begins, ends, slices
<1>12. refs \in [Key -> 0..1]
  <2>1. \A k \in Key : refs[k] \in 0..1
    BY <1>2, <1>5, <1>6 DEF Key
  <2>2. refs = [k \in Key |-> refs[k]]
    BY DEF refs
  <2>3. QED
    BY <2>1, <2>2
<1>13. /\ sub \in Seq(Ups) /\ uns \in Seq(Ups) /\ r \in Seq(Ups) /\ wire.up \in Seq(Ups)
       /\ wire.up \o r \in Seq(Ups)
  BY <1>8, EachFacts, ConcatProperties, WireFacts
<1>14. \A k \in Key : /\ k \in begins => EndsIn(r, Asks(k), Joins(k))
                      /\ k \notin begins /\ k \notin ends => Silent(r, Asks(k))
  <2>1. \A k \in Key : k \notin ends => Silent(uns, Asks(k))
    BY <1>8, EachFacts
  <2>2. \A k \in Key : k \notin begins => Silent(sub, Asks(k))
    BY <1>8, EachFacts
  <2>3. \A k \in begins : EndsIn(sub, Asks(k), Joins(k))
    BY <1>8, EachFacts
  <2>4. begins \cap ends = {}
    BY <1>8, <1>9
  <2> HIDE DEF sub, uns
  <2>5. ASSUME NEW k \in begins PROVE EndsIn(r, Asks(k), Joins(k))
    <3>1. Silent(uns, Asks(k)) /\ EndsIn(sub, Asks(k), Joins(k))
      BY <1>8, <2>1, <2>3, <2>4
    <3>2. QED
      BY <1>13, <3>1, ConcatKeeps
  <2>6. ASSUME NEW k \in Key, k \notin begins, k \notin ends PROVE Silent(r, Asks(k))
    BY <1>13, <2>1, <2>2, <2>6, ConcatKeeps
  <2>7. QED
    BY <2>5, <2>6
<1> HIDE DEF r
<1>15. /\ wire' \in Wire /\ wire'.ok = wire.ok /\ wire'.down = wire.down
       /\ Linked => wire'.up = wire.up \o r
  <2>1. CASE Linked
    <3>1. wire' = [wire EXCEPT !.up = wire.up \o r]
      BY <1>1, <2>1 DEF Send, Linked
    <3>2. QED
      BY <1>13, <3>1 DEF Wire, Ups
  <2>2. CASE ~Linked
    BY <1>1, <2>2 DEF Send, Linked
  <2>3. QED
    BY <2>1, <2>2
<1>16. socket' \in Socket /\ socket'.refs = refs /\ socket'.state = socket.state
  BY <1>1, <1>12 DEF Socket
<1>17. /\ tab' \in Tab /\ tab'.subscribed = AttachedSet /\ tab'.metrics = metrics
       /\ tab'.boot = tab.boot /\ tab'.slices = slices
  BY <1>1, <1>2, <1>11 DEF Tab
<1>18. TypeInv'
  BY <1>1, <1>15, <1>16, <1>17
<1>19. Guards'
  <2>1. Subs(socket)' = {k \in Key : refs[k] > 0}
    BY <1>16 DEF Subs
  <2>2. ASSUME NEW k \in Key
        PROVE  refs[k] > 0 <=> k \in AttachedSet \/ (k = Metrics /\ metrics)
    <3>1. CASE k \in Server
      BY <1>2, <1>5, <3>1
    <3>2. CASE k = Metrics
      BY <1>2, <1>6, <3>2
    <3>3. QED
      BY <3>1, <3>2 DEF Key
  <2>3. {k \in Key : refs[k] > 0} = AttachedSet \cup (IF metrics THEN {Metrics} ELSE {})
    BY <1>2, <2>2
  <2>4. QED
    BY <1>17, <2>1, <2>3 DEF Guards
<1>20. Slots'
  <2> SUFFICES ASSUME NEW s \in AttachedSet PROVE slices[s].present
    BY <1>17 DEF Slots
  <2>1. CASE s \in tab.subscribed
    BY <1>2, <1>10, <2>1 DEF Slots
  <2>2. CASE s \notin tab.subscribed
    BY <1>2, <1>10, <2>2 DEF EmptySlice, Absent
  <2>3. QED
    BY <2>1, <2>2
<1>21. Boots'
  BY <1>1, <1>15, <1>17 DEF Boots
<1>22. Linked' => Linked
  BY <1>15, <1>16 DEF Linked, IsOpen
<1>23. EndsMeet'
  <2> SUFFICES ASSUME Linked', NEW k \in Key, refs[k] > 0 PROVE Agreed(k)'
    BY <1>16 DEF EndsMeet
  <2>1. k \notin ends
    BY <1>8
  <2>2. CASE k \in begins
    <3>1. EndsIn(wire.up \o r, Asks(k), Joins(k))
      BY <1>13, <1>14, <2>2, ConcatKeeps
    <3>2. QED
      BY <1>15, <1>22, <3>1 DEF Agreed
  <2>3. CASE k \notin begins
    <3>1. Agreed(k)
      BY <1>3, <1>9, <1>22, <2>3 DEF EndsMeet
    <3>2. /\ EndsIn(wire.up, Asks(k), Joins(k)) => EndsIn(wire.up \o r, Asks(k), Joins(k))
          /\ Silent(wire.up, Asks(k)) => Silent(wire.up \o r, Asks(k))
      <4>1. Silent(r, Asks(k))
        BY <1>14, <2>1, <2>3
      <4>2. QED
        BY <1>13, <4>1, ConcatKeeps
    <3>3. QED
      BY <1>1, <1>15, <1>22, <3>1, <3>2 DEF Agreed
  <2>4. QED
    BY <2>2, <2>3
<1>24. ShowsMeet'
  <2> SUFFICES ASSUME Linked', NEW s \in (AttachedSet \cap daemon.subs), Silent(wire.up \o r, Asks(s))
               PROVE  Current(s)'
    BY <1>1, <1>15, <1>17, <1>22 DEF ShowsMeet
  <2>1. Silent(wire.up, Asks(s)) /\ Silent(r, Asks(s))
    BY <1>13, ConcatKeeps
  <2>2. s \in tab.subscribed
    <3>1. s \notin begins
      <4>1. ~EndsIn(r, Asks(s), Joins(s))
        BY <2>1 DEF EndsIn, Silent, Joins, Asks, Op
      <4>2. QED
        BY <1>2, <1>14, <4>1
    <3>2. refs[s] = 1
      BY <1>2, <1>5
    <3>3. QED
      BY <1>2, <1>3, <1>9, <3>1, <3>2
  <2>3. Current(s) /\ slices[s] = tab.slices[s]
    BY <1>2, <1>10, <1>22, <2>1, <2>2 DEF ShowsMeet
  <2>4. QED
    BY <1>1, <1>15, <1>17, <2>3 DEF Current, Shows
<1>25. QED
  BY <1>18, <1>19, <1>20, <1>21, <1>23, <1>24

-----------------------------------------------------------------------------
(* The theorems *)

LEMMA NextInv == Inv /\ [Next]_vars => Inv'
<1> SUFFICES ASSUME Inv, [Next]_vars PROVE Inv'
  OBVIOUS
<1>1. CASE Next
  <2>1. CASE \/ \E to \in Server \cup {NoServer} : Navigate(to)
             \/ \E s \in Server : Attach(s)
             \/ FetchAnswered \/ FetchFails \/ \E list \in SUBSET Server : ListArrives(list)
    BY <2>1, TabSteps
  <2>2. CASE (ReconnectFires \/ HeartbeatTick \/ Inbound \/ ProbeExpires \/ HandleWake) /\ TabKeeps
    BY <2>2, SocketSteps
  <2>3. CASE \/ (Cut \/ DaemonStops \/ DaemonStarts) /\ TabKeeps
             \/ \E s \in Server : (Change(s) \/ Kill(s) \/ Birth(s)) /\ TabKeeps
    BY <2>3, SurroundingSteps
  <2>4. CASE SocketCloses \/ DebounceFires
    BY <2>4, CloseSteps
  <2>5. CASE DaemonRead /\ TabKeeps
    BY <2>5, DaemonReadInv
  <2>6. CASE \E s \in Server : Poll(s) /\ TabKeeps
    BY <2>6, PollInv
  <2>7. QED
    BY <1>1, <2>1, <2>2, <2>3, <2>4, <2>5, <2>6, EffectsInv, ReceiveInv, SocketOpensInv DEF Next
<1>2. CASE UNCHANGED vars
  BY <1>2 DEF vars, Inv, TypeInv, LinkTypeOK, Guards, Subs, Slots, Boots, EndsMeet, ShowsMeet,
              Linked, IsOpen, Agreed, Current, Shows
<1>3. QED
  BY <1>1, <1>2

\* The socket, the provider and the daemon keep their types, and the invariants above hold
\* at every step of StateLink, whatever is under way.
THEOREM LinkInvariant == Spec => []Inv
<1>1. QED
  BY InitInv, NextInv, PTL DEF Spec

\* The guards of the provider are the references of its socket; once what the tab asked
\* has arrived, the daemon has every referenced subscription, or a `gone` on its way says
\* that it ended it (session-context.tsx:1107-1126, state-socket.ts:207-233).
THEOREM EndsAgreeAlways == Spec => []EndsAgree
<1>1. Inv => EndsAgree
  <2> SUFFICES ASSUME Inv PROVE EndsAgree
    OBVIOUS
  <2> USE DEF Inv
  <2>1. ASSUME Linked, wire.up = <<>>, NEW k \in Key, socket.refs[k] > 0
        PROVE  k \in daemon.subs \/ \E i \in DOMAIN wire.down : wire.down[i] = [op |-> "gone", key |-> k]
    <3>1. Agreed(k)
      BY <2>1 DEF EndsMeet
    <3>2. ~EndsIn(wire.up, Asks(k), Joins(k))
      BY <2>1 DEF EndsIn
    <3>3. ~Silent(wire.down, Ends(k)) => \E i \in DOMAIN wire.down : wire.down[i] = [op |-> "gone", key |-> k]
      BY DEF Silent, Ends, Op
    <3>4. QED
      BY <3>1, <3>2, <3>3 DEF Agreed
  <2>2. QED
    BY <2>1 DEF EndsAgree, Guards, Linked
<1>2. QED
  BY <1>1, LinkInvariant, PTL

\* With nothing in transit, a tab shows of every server it is subscribed to what the hub
\* has shown last: a snapshot that the hub will not send again is never missed, whatever
\* crossed on the way (sse.go:1103-1197, 2291-2334).
THEOREM QuietTabAgreesAlways == Spec => []QuietTabAgrees
<1>1. Inv => QuietTabAgrees
  <2> SUFFICES ASSUME Inv, Linked, wire.up = <<>>, wire.down = <<>>, NEW s \in (tab.subscribed \cap daemon.subs)
               PROVE  tab.slices[s].sessions = daemon.shown[s]
    BY DEF QuietTabAgrees, Linked
  <2>1. Silent(wire.up, Asks(s)) /\ ~EndsIn(wire.down, Tells(s), Shows(s))
    BY DEF Silent, EndsIn
  <2>2. QED
    BY <2>1 DEF Inv, ShowsMeet, Current
<1>2. QED
  BY <1>1, LinkInvariant, PTL

\* A tab reloads itself at most once for each restart of the daemon: every version on the
\* wire is of the boot that runs, and the one remembered is no older than the last reload
\* (session-context.tsx:482-500).
THEOREM ReloadsFollowRestartsAlways == Spec => []ReloadsFollowRestarts
<1>1. Inv => ReloadsFollowRestarts
  BY DEF Inv, Boots, ReloadsFollowRestarts
<1>2. QED
  BY <1>1, LinkInvariant, PTL

=============================================================================
