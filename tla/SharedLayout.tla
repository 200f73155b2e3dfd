---------------------------- MODULE SharedLayout ----------------------------
(***************************************************************************)
(* The layouts of a server's windows are shared: browser tabs show them,   *)
(* write them and borrow surfaces of other windows, each from a snapshot   *)
(* that may be old.  A tab draws what it just asked for before the daemon  *)
(* answers (pendingLayout of app.tsx).  The daemon checks a plain write    *)
(* against the windows it read before (api/windows.go), and moves a        *)
(* surface by a chain of two writes under a lock (api/layout_borrow.go).   *)
(*                                                                         *)
(* A layout is the set of its leaves: arrangements are of LayoutVerbs.     *)
(***************************************************************************)
EXTENDS Integers, FiniteSets, SequencesExt

CONSTANTS
  Tab,        \* browser tabs
  Windows,    \* the windows, in the order of the server's list
  Kinds,      \* the surfaces each window has of its own; "tty" is one
  Lendable,   \* the foreign leaves, as [kind, home]
  MaxMoves    \* bound: requests, windows that die and navigations, together

Window == ToSet(Windows)
Kind == UNION {Kinds[w] : w \in Window}

ASSUME SharedBounds ==
  /\ MaxMoves \in Nat /\ Windows \in Seq(Window)
  /\ "own" \notin Window   \* what marks a leaf of the window itself is no window
  /\ \A w \in Window : "tty" \in Kinds[w]
  /\ Lendable \subseteq [kind : Kind, home : Window]
  /\ \A leaf \in Lendable : leaf.kind \in Kinds[leaf.home]

Bare(kind) == [kind |-> kind, home |-> "own"]
Leaves == {Bare(kind) : kind \in Kind} \cup Lendable
Layouts == (SUBSET Leaves) \ {{}}
Dead == {}      \* the layout of a window that is gone
None == [kind |-> "none"]

VARIABLES
  stored,    \* the layout of each window
  seen,      \* the windows in the last record that reached each tab
  at,        \* the window each tab shows
  overlay,   \* pendingLayout: None or the window and the layout
  posts,     \* the requests, in the order they were made
  lock,      \* layoutWriteMu: the request that holds it, or 0
  kills, visits,
  accepted,  \* ghost: what the daemon wrote, by window
  raced      \* ghost: a write went between another one and what it was decided on

vars == <<stored, seen, at, overlay, posts, lock, kills, visits, accepted, raced>>

-----------------------------------------------------------------------------
(* Reading *)

Alive(ws) == {w \in Window : ws[w] # Dead}
Holders(ws, leaf) == {w \in Alive(ws) : leaf \in ws[w]}

\* foreignHoldings: the first of the list, of two.
Holder(ws, leaf) ==
  LET held == {i \in DOMAIN Windows : Windows[i] \in Holders(ws, leaf)}
  IN IF held = {} THEN None ELSE [kind |-> "held", by |-> Windows[Min(held)]]

OrTty(layout) == IF layout = {} THEN {Bare("tty")} ELSE layout

\* pruneDeadLeaves: what a dead window lent is not drawn.
Pruned(layout, ws) ==
  OrTty({leaf \in layout : leaf.home = "own" \/ leaf.home \in Alive(ws)})

\* pendingLayoutSettled: it compares with the window of the route.
Settled(t) == overlay[t] # None /\ seen[t][at[t]] = overlay[t].value

\* layout: what the tab draws.
Drawn(t) ==
  LET pending == overlay[t] # None /\ ~Settled(t) /\ overlay[t].win = at[t]
  IN Pruned(IF pending THEN overlay[t].value ELSE seen[t][at[t]], seen[t])

-----------------------------------------------------------------------------
(* Tabs *)

Post(t, op, leaf, value) ==
  [by |-> t, op |-> op, win |-> at[t], leaf |-> leaf, value |-> value,
   stage |-> "sent", chain |-> <<>>, fresh |-> TRUE]

MovesLeft == Len(posts) + kills + visits < MaxMoves

Done == [stage |-> "done"]

Send(post) == MovesLeft /\ posts' = Append(posts, post)

\* setPendingLayout, and the request.
Overlaid(t, op, leaf, value) ==
  /\ Send(Post(t, op, leaf, value))
  /\ overlay' = [overlay EXCEPT ![t] = [kind |-> "pending", win |-> at[t], value |-> value]]
  /\ UNCHANGED <<stored, seen, at, lock, kills, visits, accepted, raced>>

ApplyLayout(t, next) == Overlaid(t, "set", None, next)

ToggleSurface(t, kind) ==
  LET drawn == Drawn(t)
      next == IF Bare(kind) \in drawn THEN drawn \ {Bare(kind)} ELSE drawn \cup {Bare(kind)}
  IN next # {} /\ ApplyLayout(t, next)

SwitchView(t, kind) == ApplyLayout(t, {Bare(kind)})

CloseForeign(t, leaf) ==
  leaf \in Drawn(t) \cap Lendable /\ Drawn(t) # {leaf} /\ ApplyLayout(t, Drawn(t) \ {leaf})

\* borrowInto: a plain write, unless the tab sees that a third window holds it.
BorrowInto(t, leaf) ==
  LET holder == Holder(seen[t], leaf)
      next == Drawn(t) \cup {leaf}
  IN /\ leaf.home # at[t] /\ leaf.home \in Alive(seen[t]) /\ leaf \notin Drawn(t)
     /\ IF holder = None \/ holder.by = at[t] THEN ApplyLayout(t, next) ELSE Overlaid(t, "borrow", leaf, next)

\* sendHome: nothing is drawn ahead.
SendHome(t, leaf) ==
  /\ leaf \in Drawn(t) \cap Lendable
  /\ Send(Post(t, "return", leaf, {}))
  /\ UNCHANGED <<stored, seen, at, overlay, lock, kills, visits, accepted, raced>>

Verb(t) ==
  /\ at[t] \in Alive(seen[t])
  /\ \/ \E kind \in Kinds[at[t]] : ToggleSurface(t, kind) \/ SwitchView(t, kind)
     \/ \E leaf \in Lendable : CloseForeign(t, leaf) \/ BorrowInto(t, leaf) \/ SendHome(t, leaf)

Navigate(t) ==
  /\ MovesLeft
  /\ \E w \in Alive(seen[t]) \ {at[t]} : at' = [at EXCEPT ![t] = w]
  /\ visits' = visits + 1
  /\ UNCHANGED <<stored, seen, overlay, posts, lock, kills, accepted, raced>>

\* A record arrives; one between two others may be skipped.
Deliver(t) ==
  /\ seen[t] # stored
  /\ seen' = [seen EXCEPT ![t] = stored]
  /\ UNCHANGED <<stored, at, overlay, posts, lock, kills, visits, accepted, raced>>

\* The effect that clears a settled overlay.
ClearSettled(t) ==
  /\ Settled(t)
  /\ overlay' = [overlay EXCEPT ![t] = None]
  /\ UNCHANGED <<stored, seen, at, posts, lock, kills, visits, accepted, raced>>

SlipRejected(i) ==
  /\ posts[i].stage = "rejected"
  /\ posts' = [posts EXCEPT ![i] = Done]
  /\ UNCHANGED <<stored, seen, at, overlay, lock, kills, visits, accepted, raced>>

\* The catch of a request: it takes back its own overlay and no newer one.
Rejected(i) ==
  LET t == posts[i].by
      mine == overlay[t] # None /\ overlay[t].win = posts[i].win /\ overlay[t].value = posts[i].value
  IN /\ posts[i].stage = "rejected"
     /\ posts' = [posts EXCEPT ![i] = Done]
     /\ overlay' = [overlay EXCEPT ![t] = IF mine THEN None ELSE @]
     /\ UNCHANGED <<stored, seen, at, lock, kills, visits, accepted, raced>>

-----------------------------------------------------------------------------
(* The daemon *)

SlipRefuse(i) ==
  /\ posts' = [posts EXCEPT ![i].stage = "rejected"]
  /\ UNCHANGED <<stored, seen, at, overlay, lock, kills, visits, accepted, raced>>

Refuse(i) ==
  /\ posts' = [posts EXCEPT ![i].stage = "rejected"]
  /\ lock' = IF lock = i THEN 0 ELSE lock
  /\ UNCHANGED <<stored, seen, at, overlay, kills, visits, accepted, raced>>

SlipHeldElsewhere(value, win, except) == FALSE

\* CheckLiveInOnePlaceExcept, on the windows as they are read now.
HeldElsewhere(value, win, except) ==
  \E leaf \in (value \cap Lendable) \ {except} :
    LET holder == Holder(stored, leaf) IN holder # None /\ holder.by # win

\* The requests that were decided on what a write changes are stale from then on.
Stale(ps, i) ==
  [j \in DOMAIN ps |-> IF j # i /\ ps[j].stage = "decided" THEN [ps[j] EXCEPT !.fresh = FALSE] ELSE ps[j]]

\* set-option; a window that is gone fails the request and the rest of its chain.
Write(i, win, value, rest) ==
  IF stored[win] = Dead THEN Refuse(i)
  ELSE /\ stored' = [stored EXCEPT ![win] = value]
       /\ accepted' = [accepted EXCEPT ![win] = @ \cup {value}]
       /\ raced' = (raced \/ ~posts[i].fresh)
       /\ posts' = Stale([posts EXCEPT ![i] = IF rest = <<>> THEN Done ELSE [@ EXCEPT !.chain = rest]], i)
       /\ lock' = IF rest = <<>> /\ lock = i THEN 0 ELSE lock
       /\ UNCHANGED <<seen, at, overlay, kills, visits>>

Decide(i, chain, newLock) ==
  /\ posts' = [posts EXCEPT ![i].stage = "decided", ![i].chain = chain]
  /\ lock' = newLock
  /\ UNCHANGED <<stored, seen, at, overlay, kills, visits, accepted, raced>>

\* handleWindowOptions: only a layout with foreign leaves is checked, and not under the lock.
HandleSet(i) ==
  LET p == posts[i] IN
  /\ p.stage = "sent" /\ p.op = "set"
  /\ IF p.value \cap Lendable # {} /\ HeldElsewhere(p.value, p.win, None)
       THEN Refuse(i) ELSE Decide(i, <<[win |-> p.win, value |-> p.value]>>, lock)

SlipBorrowChain(p, holder) ==
  <<[win |-> p.win, value |-> p.value],
    [win |-> holder, value |-> OrTty(stored[holder] \ {p.leaf})]>>

\* The holder's removal is written first.
BorrowChain(p, holder) ==
  <<[win |-> holder, value |-> OrTty(stored[holder] \ {p.leaf})],
    [win |-> p.win, value |-> p.value]>>

\* handleLayoutBorrow.
HandleBorrow(i) ==
  LET p == posts[i]
      holder == Holder(stored, p.leaf)
  IN /\ p.stage = "sent" /\ p.op = "borrow" /\ lock = 0
     /\ IF stored[p.win] = Dead \/ stored[p.leaf.home] = Dead \/ HeldElsewhere(p.value, p.win, p.leaf)
          THEN Refuse(i)
        ELSE IF holder = None \/ holder.by = p.win
          THEN Decide(i, <<[win |-> p.win, value |-> p.value]>>, i)
        ELSE Decide(i, BorrowChain(p, holder.by), i)

\* handleLayoutReturn: the home gets its slot back if it is alive and has none.
HandleReturn(i) ==
  LET p == posts[i]
      home == p.leaf.home
      back == [win |-> home, value |-> stored[home] \cup {Bare(p.leaf.kind)}]
      minus == [win |-> p.win, value |-> OrTty(stored[p.win] \ {p.leaf})]
      readd == home # p.win /\ stored[home] # Dead /\ Bare(p.leaf.kind) \notin stored[home]
  IN /\ p.stage = "sent" /\ p.op = "return" /\ lock = 0
     /\ IF p.leaf \notin stored[p.win] THEN Refuse(i)
        ELSE Decide(i, IF readd THEN <<minus, back>> ELSE <<minus>>, i)

WriteNext(i) ==
  LET p == posts[i] IN p.stage = "decided" /\ Write(i, p.chain[1].win, p.chain[1].value, Tail(p.chain))

\* The connection fails: before the daemon has the request.
Lost(i) == posts[i].stage = "sent" /\ Refuse(i)

Kill(w) ==
  /\ MovesLeft /\ stored[w] # Dead
  /\ stored' = [stored EXCEPT ![w] = Dead]
  /\ kills' = kills + 1
  /\ UNCHANGED <<seen, at, overlay, posts, lock, visits, accepted, raced>>

-----------------------------------------------------------------------------

Init ==
  /\ stored = [w \in Window |-> {Bare("tty")}]
  /\ seen = [t \in Tab |-> stored]
  /\ at \in [Tab -> Window]
  /\ overlay = [t \in Tab |-> None]
  /\ posts = <<>> /\ lock = 0 /\ kills = 0 /\ visits = 0
  /\ accepted = [w \in Window |-> {}]
  /\ raced = FALSE

Handle(i) == HandleSet(i) \/ HandleBorrow(i) \/ HandleReturn(i) \/ WriteNext(i)

Next ==
  \/ \E t \in Tab : Verb(t) \/ Navigate(t) \/ Deliver(t) \/ ClearSettled(t)
  \/ \E i \in DOMAIN posts : Rejected(i) \/ Handle(i) \/ Lost(i)
  \/ \E w \in Window : Kill(w)

\* The daemon answers, records reach the tabs, and the browser runs its effects.
Fairness ==
  /\ \A t \in Tab : WF_vars(Deliver(t)) /\ WF_vars(ClearSettled(t))
  /\ \A i \in 1..MaxMoves : WF_vars(i \in DOMAIN posts /\ (Rejected(i) \/ Handle(i)))

Spec == Init /\ [][Next]_vars /\ Fairness

-----------------------------------------------------------------------------

\* Every layout has a leaf, and the lock is of a request that has begun its move.
TypeOK ==
  /\ \A w \in Window : stored[w] \in Layouts \cup {Dead}
  /\ \A t \in Tab : at[t] \in Window /\ \A w \in Window : seen[t][w] \in Layouts \cup {Dead}
  /\ lock # 0 => posts[lock].stage = "decided" /\ posts[lock].op \in {"borrow", "return"}

\* Unless a write has gone between the check of another one and its write, a lent
\* surface is in one window at most, at every instant of a move; and no window is
\* lent its own.
LiveInOnePlace ==
  /\ ~raced => \A leaf \in Lendable : Cardinality(Holders(stored, leaf)) <= 1
  /\ \A leaf \in Lendable : leaf.home \notin Holders(stored, leaf)

\* What a tab draws ahead of the daemon is on its way, or was stored at some time:
\* what the daemon has refused is not drawn.
OverlayHasReason ==
  \A t \in Tab : overlay[t] # None =>
    \/ overlay[t].value \in accepted[overlay[t].win]
    \/ \E i \in DOMAIN posts :
         /\ posts[i].stage # "done" /\ posts[i].by = t
         /\ posts[i].win = overlay[t].win /\ posts[i].value = overlay[t].value

\* What a tab draws ahead of the daemon, in a window that is alive.
Ahead(t) ==
  overlay[t] # None /\ overlay[t].win = at[t] /\ ~Settled(t) /\ seen[t][at[t]] # Dead

\* app.tsx:1136-1146: the overlay is drawn "while a verb's POST is in flight", and
\* is "cleared the moment the SSE record carries the written value" or the POST
\* rejects; so a tab that stays comes back to what is stored.
OverlaySettles == \A t \in Tab : Ahead(t) ~> ~Ahead(t)

=============================================================================
