----------------------------- MODULE TabProofs -----------------------------
(***************************************************************************)
(* What a tab of the browser draws before the daemon has answered it: the  *)
(* shared layouts, then the optimistic rows, for every set of tabs,        *)
(* windows, sessions and names and any number of requests.                 *)
(*                                                                         *)
(* Layouts.  That a surface is in one window at most is not inductive:     *)
(* between the two writes of a move it depends on what the second one will *)
(* write.  The invariant speaks of the whole chain a request has still to  *)
(* write: every surface in it is held by its own windows only, as long as  *)
(* nothing has been written since it was decided.  That an overlay has a   *)
(* reason needs that the last write of a chain is the layout which the tab *)
(* drew ahead.                                                             *)
(*                                                                         *)
(* Rows.  That what was asked for is drawn is not inductive either: a      *)
(* snapshot puts other entries in the place of those that carry the marks, *)
(* and a handler takes away the marks of the call which a ref names.  The  *)
(* invariant adds where a window may be meanwhile (to the tab, on the wire *)
(* and in tmux): a row is hidden in its session until the window has left  *)
(* that for good.                                                          *)
(***************************************************************************)
EXTENDS SharedLayout, OptimisticRows, SeqFilterProofs, SequenceTheorems, FiniteSetTheorems

NoneOfItsOwn(layout, w) == \A leaf \in Lendable : leaf.home = w => leaf \notin layout

WriteStep == [win : Window, value : Layouts]
Pending == [kind : {"pending"}, win : Window, value : Layouts]
Request == [by : Tab, op : {"set", "borrow", "return"}, win : Window, leaf : Lendable \cup {None},
            value : SUBSET Leaves, stage : {"sent", "decided", "rejected"},
            chain : Seq(WriteStep), fresh : BOOLEAN]

\* Every layout that is stored, drawn or on its way has a leaf: no write closes a window.
TypeInv ==
  /\ stored \in [Window -> SUBSET Leaves]
  /\ seen \in [Tab -> [Window -> SUBSET Leaves]]
  /\ at \in [Tab -> Window]
  /\ overlay \in [Tab -> {None} \cup Pending]
  /\ posts \in Seq(Request \cup {Done})
  /\ lock \in Nat /\ kills \in Nat /\ visits \in Nat /\ raced \in BOOLEAN
  /\ accepted \in [Window -> SUBSET Layouts]

OwnStays ==
  /\ \A w \in Window : NoneOfItsOwn(stored[w], w)
  /\ \A t \in Tab : \A w \in Window : NoneOfItsOwn(seen[t][w], w)
  /\ \A t \in Tab : overlay[t] # None => NoneOfItsOwn(overlay[t].value, overlay[t].win)

\* The writes left of a request that was decided: one or two, of different windows, the
\* last of which is the layout that was asked for.
WellPlanned(p) ==
  /\ Len(p.chain) \in {1, 2}
  /\ \A m \in DOMAIN p.chain : NoneOfItsOwn(p.chain[m].value, p.chain[m].win)
  /\ p.op # "return" => p.chain[Len(p.chain)] = [win |-> p.win, value |-> p.value]
  /\ Len(p.chain) = 2 => p.chain[1].win # p.chain[2].win

Shaped(p) ==
  /\ p.op = "return" => p.value = {}
  /\ p.op # "return" => p.value # {} /\ NoneOfItsOwn(p.value, p.win)
  /\ p.op # "set" => p.leaf \in Lendable
  /\ p.stage = "decided" => WellPlanned(p)

Plans == \A i \in DOMAIN posts : posts[i].stage # "done" => Shaped(posts[i])

\* The lock is of the one borrow or return that has begun.
LockHeld ==
  /\ lock # 0 => lock \in DOMAIN posts
  /\ \A i \in DOMAIN posts : lock = i <=> posts[i].stage = "decided" /\ posts[i].op # "set"

AtMostOne(ws) == \A leaf \in Lendable : \A v, w \in Holders(ws, leaf) : v = w

\* What a chain writes is held by nobody else when it is written.
Safe(ws, chain) ==
  /\ \A leaf \in chain[1].value \cap Lendable : Holders(ws, leaf) \subseteq {chain[1].win}
  /\ Len(chain) = 2 => \A leaf \in chain[2].value \cap Lendable :
       Holders(ws, leaf) \subseteq {chain[1].win, chain[2].win} /\ leaf \notin chain[1].value

OnePlace ==
  ~raced => /\ AtMostOne(stored)
            /\ \A i \in DOMAIN posts :
                 posts[i].stage = "decided" /\ posts[i].fresh => Safe(stored, posts[i].chain)

Inv == TypeInv /\ OwnStays /\ Plans /\ LockHeld /\ OnePlace /\ OverlayHasReason

-----------------------------------------------------------------------------
(* Layouts *)

LEMMA BareFacts ==
  /\ \A kind : Bare(kind) \notin Lendable
  /\ \A w \in Window : Bare("tty") \in Leaves
  /\ \A w \in Window : \A kind \in Kinds[w] : Bare(kind) \in Leaves
  /\ Lendable \subseteq Leaves
  /\ \A leaf \in Lendable : /\ leaf.home \in Window /\ leaf.home # "own" /\ Bare(leaf.kind) \in Leaves
                            /\ leaf # None
<1>1. \A w \in Window : \A kind \in Kinds[w] : Bare(kind) \in Leaves
  BY DEF Leaves, Kind
<1>2. \A leaf \in Lendable : leaf.home \in Window /\ leaf.home # "own" /\ Bare(leaf.kind) \in Leaves
  BY <1>1, SharedBounds
<1>3. \A kind : Bare(kind).home = "own"
  BY DEF Bare
<1>4. \A leaf \in Lendable : leaf # None
  <2>1. \A leaf \in Lendable : "home" \in DOMAIN leaf
    BY SharedBounds
  <2>2. "home" \notin DOMAIN None
    BY DEF None
  <2>3. QED
    BY <2>1, <2>2
<1>5. QED
  BY <1>1, <1>2, <1>3, <1>4, SharedBounds DEF Leaves

LEMMA LayoutsFacts == \A layout : layout \in Layouts <=> layout \subseteq Leaves /\ layout # {}
BY DEF Layouts

\* A layout without a leaf gets the terminal of its window, which is never lent.
LEMMA OrTtyFacts ==
  ASSUME NEW layout \in SUBSET Leaves, NEW w \in Window
  PROVE  /\ OrTty(layout) \in Layouts
         /\ OrTty(layout) \cap Lendable = layout \cap Lendable
         /\ NoneOfItsOwn(layout, w) => NoneOfItsOwn(OrTty(layout), w)
<1> HIDE DEF Leaves
<1>1. \/ OrTty(layout) = layout /\ layout # {}
      \/ OrTty(layout) = {Bare("tty")} /\ layout = {}
  BY DEF OrTty
<1>2. OrTty(layout) \in Layouts
  BY <1>1, BareFacts, LayoutsFacts
<1>3. OrTty(layout) \cap Lendable = layout \cap Lendable
  BY <1>1, BareFacts
<1>4. QED
  BY <1>2, <1>3 DEF NoneOfItsOwn

\* Holder finds a window iff one holds the leaf.
LEMMA HolderFacts ==
  ASSUME NEW ws, NEW leaf
  PROVE  \/ Holder(ws, leaf) = None /\ Holders(ws, leaf) = {}
         \/ /\ Holder(ws, leaf) # None
            /\ Holder(ws, leaf).by \in Holders(ws, leaf)
<1> DEFINE held == {i \in DOMAIN Windows : Windows[i] \in Holders(ws, leaf)}
<1>1. DOMAIN Windows = 1..Len(Windows) /\ Len(Windows) \in Nat
  BY SharedBounds, LenProperties
<1>2. Window = {Windows[i] : i \in DOMAIN Windows}
  BY DEF Window, ToSet
<1>3. Holders(ws, leaf) \subseteq Window
  BY DEF Holders, Alive
<1>4. Holder(ws, leaf) = IF held = {} THEN None ELSE [kind |-> "held", by |-> Windows[Min(held)]]
  BY DEF Holder
<1>5. held \subseteq Nat
  BY <1>1
<1>6. CASE held = {}
  BY <1>2, <1>3, <1>4, <1>6
<1>7. CASE held # {}
  <2>1. \E m \in held : \A n \in held : m <= n
    <3> HIDE DEF held
    <3> QED BY <1>5, <1>7, LeastNatural
  <2>2. Min(held) \in held
    <3> HIDE DEF held
    <3> QED BY <2>1 DEF Min
  <2>3. Windows[Min(held)] \in Holders(ws, leaf)
    BY <2>2
  <2> HIDE DEF held
  <2>4. QED
    BY <1>4, <1>7, <2>3 DEF None
<1>8. QED
  BY <1>6, <1>7

\* What a tab draws is a layout that its window may have.
LEMMA DrawnFacts ==
  ASSUME Inv, NEW t \in Tab
  PROVE  Drawn(t) \in Layouts /\ NoneOfItsOwn(Drawn(t), at[t])
<1> DEFINE pending == overlay[t] # None /\ ~Settled(t) /\ overlay[t].win = at[t]
           layout == IF pending THEN overlay[t].value ELSE seen[t][at[t]]
           kept == {leaf \in layout : leaf.home = "own" \/ leaf.home \in Alive(seen[t])}
<1>1. at[t] \in Window /\ seen[t][at[t]] \in SUBSET Leaves /\ overlay[t] \in {None} \cup Pending
  BY DEF Inv, TypeInv
<1>2. Drawn(t) = OrTty(kept)
  BY DEF Drawn, Pruned
<1>3. layout \in SUBSET Leaves
  <2> HIDE DEF Leaves
  <2> QED BY <1>1 DEF Pending, Layouts
<1>4. NoneOfItsOwn(layout, at[t])
  BY <1>1 DEF Inv, OwnStays
<1>5. kept \in SUBSET Leaves /\ NoneOfItsOwn(kept, at[t])
  <2> HIDE DEF layout, Leaves
  <2> QED BY <1>3, <1>4 DEF NoneOfItsOwn
<1> HIDE DEF kept
<1>6. QED
  BY <1>1, <1>2, <1>5, OrTtyFacts

-----------------------------------------------------------------------------
(* Steps of a tab *)

LEMMA PostFacts ==
  ASSUME TypeInv
  PROVE  /\ DOMAIN posts = 1..Len(posts) /\ Len(posts) \in Nat
         /\ \A i \in DOMAIN posts : /\ i \in Nat \ {0} /\ posts[i] \in Request \cup {Done}
                                    /\ posts[i].stage # "done" => posts[i] \in Request
BY LenProperties, ElementOfSeq DEF TypeInv, Done

LEMMA InitInv == Init => Inv
<1> SUFFICES ASSUME Init PROVE Inv
  OBVIOUS
<1> USE DEF Init
<1>1. \A w \in Window : {Bare("tty")} \in SUBSET Leaves
  BY BareFacts
<1>2. stored \in [Window -> SUBSET Leaves]
  <2> HIDE DEF Leaves
  <2> QED BY <1>1
<1>3. TypeInv
  <2>1. posts \in Seq(Request \cup {Done})
    BY EmptySeq
  <2> HIDE DEF Leaves, Request
  <2>2. QED
    BY <1>2, <2>1 DEF TypeInv
<1>4. OwnStays
  BY BareFacts DEF OwnStays, NoneOfItsOwn
<1>5. Plans /\ LockHeld /\ OverlayHasReason
  BY DEF Plans, LockHeld, OverlayHasReason
<1>6. AtMostOne(stored)
  BY BareFacts DEF AtMostOne, Holders, Alive
<1>7. QED
  BY <1>3, <1>4, <1>5, <1>6 DEF Inv, OnePlace

\* A tab sends at most one request, and draws nothing ahead that it has not sent.
LEMMA SendStep ==
  ASSUME Inv, UNCHANGED <<stored, seen, at, lock, kills, visits, accepted, raced>>,
         NEW p \in Request, posts' = Append(posts, p), p.stage = "sent", Shaped(p),
         NEW t \in Tab, overlay' \in [Tab -> {None} \cup Pending],
         \A x \in Tab : \/ overlay'[x] = overlay[x]
                        \/ /\ x = p.by /\ p.op # "return"
                           /\ overlay'[x] = [kind |-> "pending", win |-> p.win, value |-> p.value]
  PROVE  Inv'
<1> USE DEF Inv
<1>1. /\ DOMAIN posts = 1..Len(posts) /\ Len(posts) \in Nat
      /\ posts' \in Seq(Request \cup {Done}) /\ Len(posts') = Len(posts) + 1
      /\ DOMAIN posts' = 1..Len(posts')
      /\ \A i \in DOMAIN posts : posts'[i] = posts[i]
      /\ posts'[Len(posts) + 1] = p
  <2>1. posts \in Seq(Request \cup {Done}) /\ p \in Request \cup {Done}
    BY DEF TypeInv
  <2> HIDE DEF Inv, Request, Done
  <2>2. QED
    BY <2>1, AppendProperties, LenProperties
<1>2. \A i \in DOMAIN posts' : (i \in DOMAIN posts /\ posts'[i] = posts[i]) \/ (i \notin DOMAIN posts /\ posts'[i] = p)
  BY <1>1
<1>3. TypeInv'
  BY <1>1 DEF TypeInv
<1>4. OwnStays'
  BY DEF OwnStays, Shaped
<1>5. Plans'
  BY <1>2 DEF Plans
<1>6. LockHeld'
  BY <1>1, <1>2 DEF LockHeld, TypeInv
<1>7. OnePlace'
  BY <1>2 DEF OnePlace
<1>8. OverlayHasReason'
  <2> SUFFICES ASSUME NEW x \in Tab, overlay'[x] # None
               PROVE  \/ overlay'[x].value \in accepted[overlay'[x].win]
                      \/ \E i \in DOMAIN posts' :
                           /\ posts'[i].stage # "done" /\ posts'[i].by = x
                           /\ posts'[i].win = overlay'[x].win /\ posts'[i].value = overlay'[x].value
    BY DEF OverlayHasReason
  <2>1. CASE overlay'[x] = overlay[x]
    BY <1>1, <2>1 DEF OverlayHasReason
  <2>2. CASE overlay'[x] # overlay[x]
    <3>1. Len(posts) + 1 \in DOMAIN posts'
      BY <1>1
    <3>2. QED
      BY <1>1, <2>2, <3>1
  <2>3. QED
    BY <2>1, <2>2
<1>9. QED
  BY <1>3, <1>4, <1>5, <1>6, <1>7, <1>8

\* Navigation, a record that arrives, and an overlay that is cleared.
LEMMA QuietStep ==
  ASSUME Inv, UNCHANGED <<stored, posts, lock, kills, accepted, raced>>,
         visits' \in Nat, at' \in [Tab -> Window],
         overlay' \in [Tab -> {None} \cup Pending],
         \A t \in Tab : overlay'[t] = overlay[t] \/ overlay'[t] = None,
         seen' \in [Tab -> [Window -> SUBSET Leaves]],
         \A t \in Tab : seen'[t] = seen[t] \/ seen'[t] = stored
  PROVE  Inv'
<1> USE DEF Inv
<1>1. TypeInv'
  BY DEF TypeInv
<1>2. OwnStays'
  BY DEF OwnStays
<1>3. Plans' /\ LockHeld' /\ OnePlace'
  BY DEF Plans, LockHeld, OnePlace
<1>4. OverlayHasReason'
  BY DEF OverlayHasReason
<1>5. QED
  BY <1>1, <1>2, <1>3, <1>4

LEMMA OverlaidInv ==
  ASSUME Inv, NEW t \in Tab, NEW op \in {"set", "borrow"}, NEW leaf \in Lendable \cup {None},
         op = "borrow" => leaf \in Lendable,
         NEW value \in Layouts, NoneOfItsOwn(value, at[t]), Overlaid(t, op, leaf, value)
  PROVE  Inv'
<1> DEFINE p == Post(t, op, leaf, value)
           o == [kind |-> "pending", win |-> at[t], value |-> value]
<1>1. at[t] \in Window /\ overlay \in [Tab -> {None} \cup Pending]
  BY DEF Inv, TypeInv
<1>2. p \in Request /\ p.stage = "sent" /\ p.by = t /\ p.win = at[t] /\ p.value = value /\ p.op = op
  <2> HIDE DEF Leaves
  <2>1. <<>> \in Seq(WriteStep)
    BY EmptySeq
  <2>2. QED
    BY <1>1, <2>1 DEF Post, Request, Layouts
<1>3. Shaped(p)
  BY LayoutsFacts DEF Shaped, Post
<1>4. o \in Pending
  BY <1>1 DEF Pending
<1>5. overlay' = [overlay EXCEPT ![t] = o] /\ posts' = Append(posts, p)
  BY DEF Overlaid, Send
<1> HIDE DEF p
<1>6. overlay' \in [Tab -> {None} \cup Pending]
  BY <1>1, <1>4, <1>5
<1>7. \A x \in Tab : \/ overlay'[x] = overlay[x]
                     \/ /\ x = p.by /\ p.op # "return"
                        /\ overlay'[x] = [kind |-> "pending", win |-> p.win, value |-> p.value]
  BY <1>1, <1>2, <1>5
<1>8. UNCHANGED <<stored, seen, at, lock, kills, visits, accepted, raced>>
  BY DEF Overlaid
<1>9. QED
  BY <1>2, <1>3, <1>5, <1>6, <1>7, <1>8, SendStep

LEMMA VerbInv ==
  ASSUME Inv, NEW t \in Tab, Verb(t)
  PROVE  Inv'
<1> HIDE DEF Leaves
<1>1. at[t] \in Window
  BY DEF Inv, TypeInv
<1>2. Drawn(t) \in Layouts /\ NoneOfItsOwn(Drawn(t), at[t])
  BY DrawnFacts
<1>3. ASSUME NEW value \in Layouts, NoneOfItsOwn(value, at[t]), ApplyLayout(t, value) PROVE Inv'
  BY <1>3, OverlaidInv DEF ApplyLayout
<1>4. ASSUME NEW kind \in Kinds[at[t]], ToggleSurface(t, kind) \/ SwitchView(t, kind) PROVE Inv'
  <2>1. Bare(kind) \in Leaves /\ Bare(kind) \notin Lendable
    BY <1>1, BareFacts
  <2>2. CASE ToggleSurface(t, kind)
    <3> DEFINE next == IF Bare(kind) \in Drawn(t) THEN Drawn(t) \ {Bare(kind)} ELSE Drawn(t) \cup {Bare(kind)}
    <3>1. next # {} /\ ApplyLayout(t, next)
      BY <2>2 DEF ToggleSurface
    <3>2. next \in Layouts /\ NoneOfItsOwn(next, at[t])
      BY <1>2, <2>1, <3>1, LayoutsFacts DEF NoneOfItsOwn
    <3> HIDE DEF next
    <3>3. QED
      BY <1>3, <3>1, <3>2
  <2>3. CASE SwitchView(t, kind)
    <3>1. {Bare(kind)} \in Layouts /\ NoneOfItsOwn({Bare(kind)}, at[t])
      BY <2>1, LayoutsFacts DEF NoneOfItsOwn
    <3>2. QED
      BY <1>3, <2>3, <3>1 DEF SwitchView
  <2>4. QED
    BY <1>4, <2>2, <2>3
<1>5. ASSUME NEW leaf \in Lendable, CloseForeign(t, leaf) PROVE Inv'
  <2>1. Drawn(t) \ {leaf} \in Layouts /\ NoneOfItsOwn(Drawn(t) \ {leaf}, at[t])
    BY <1>2, <1>5, LayoutsFacts DEF CloseForeign, NoneOfItsOwn
  <2>2. QED
    BY <1>3, <1>5, <2>1 DEF CloseForeign
<1>6. ASSUME NEW leaf \in Lendable, BorrowInto(t, leaf) PROVE Inv'
  <2> DEFINE next == Drawn(t) \cup {leaf}
  <2>1. next \in Layouts /\ NoneOfItsOwn(next, at[t])
    BY <1>2, <1>6, BareFacts, LayoutsFacts DEF BorrowInto, NoneOfItsOwn
  <2>2. ApplyLayout(t, next) \/ Overlaid(t, "borrow", leaf, next)
    BY <1>6 DEF BorrowInto
  <2> HIDE DEF next
  <2>3. QED
    BY <1>3, <2>1, <2>2, OverlaidInv
<1>7. ASSUME NEW leaf \in Lendable, SendHome(t, leaf) PROVE Inv'
  <2> DEFINE p == Post(t, "return", leaf, {})
  <2>1. p \in Request /\ p.stage = "sent"
    <3>1. <<>> \in Seq(WriteStep) /\ {} \in SUBSET Leaves
      BY EmptySeq
    <3>2. QED
      BY <1>1, <3>1 DEF Post, Request
  <2>2. Shaped(p)
    BY DEF Shaped, Post
  <2>3. posts' = Append(posts, p) /\ overlay' = overlay
        /\ UNCHANGED <<stored, seen, at, lock, kills, visits, accepted, raced>>
    BY <1>7 DEF SendHome, Send
  <2> HIDE DEF p
  <2>4. overlay' \in [Tab -> {None} \cup Pending]
    BY <2>3 DEF Inv, TypeInv
  <2>5. QED
    BY <2>1, <2>2, <2>3, <2>4, SendStep
<1>8. QED
  BY <1>4, <1>5, <1>6, <1>7 DEF Verb

LEMMA TabInv ==
  ASSUME Inv, NEW t \in Tab, Navigate(t) \/ Deliver(t) \/ ClearSettled(t)
  PROVE  Inv'
<1> HIDE DEF Leaves
<1>1. /\ at \in [Tab -> Window] /\ overlay \in [Tab -> {None} \cup Pending]
      /\ seen \in [Tab -> [Window -> SUBSET Leaves]] /\ visits \in Nat
      /\ stored \in [Window -> SUBSET Leaves]
  BY DEF Inv, TypeInv
<1>2. UNCHANGED <<stored, posts, lock, kills, accepted, raced>>
  BY DEF Navigate, Deliver, ClearSettled
<1>3. visits' \in Nat /\ at' \in [Tab -> Window]
  BY <1>1 DEF Navigate, Deliver, ClearSettled, Alive
<1>4. /\ overlay' \in [Tab -> {None} \cup Pending]
      /\ \A x \in Tab : overlay'[x] = overlay[x] \/ overlay'[x] = None
  BY <1>1 DEF Navigate, Deliver, ClearSettled
<1>5. /\ seen' \in [Tab -> [Window -> SUBSET Leaves]]
      /\ \A x \in Tab : seen'[x] = seen[x] \/ seen'[x] = stored
  BY <1>1 DEF Navigate, Deliver, ClearSettled
<1>6. QED
  BY <1>2, <1>3, <1>4, <1>5, QuietStep

-----------------------------------------------------------------------------
(* Steps of one request that write nothing *)

LEMMA SetPost ==
  ASSUME TypeInv, NEW i \in DOMAIN posts, NEW p \in Request \cup {Done},
         NEW new, new = [posts EXCEPT ![i] = p]
  PROVE  /\ new \in Seq(Request \cup {Done}) /\ DOMAIN new = DOMAIN posts /\ new[i] = p
         /\ \A j \in DOMAIN posts : j # i => new[j] = posts[j]
<1>1. posts \in Seq(Request \cup {Done})
  BY DEF TypeInv
<1>2. DOMAIN posts = 1..Len(posts) /\ i \in 1..Len(posts)
  BY <1>1, LenProperties
<1> HIDE DEF Request, Done
<1>3. /\ [posts EXCEPT ![i] = p] \in Seq(Request \cup {Done})
      /\ Len([posts EXCEPT ![i] = p]) = Len(posts)
  BY <1>1, <1>2, ExceptSeq
<1>4. QED
  BY <1>1, <1>2, <1>3, LenProperties

LEMMA RequestStep ==
  ASSUME Inv, UNCHANGED <<stored, seen, at, kills, visits, accepted, raced>>,
         NEW i \in DOMAIN posts, posts[i].stage # "done",
         NEW p \in Request \cup {Done}, posts' = [posts EXCEPT ![i] = p],
         p.stage # "done" =>
           /\ Shaped(p) /\ p.by = posts[i].by /\ p.win = posts[i].win /\ p.value = posts[i].value,
         overlay' \in [Tab -> {None} \cup Pending],
         \A t \in Tab : overlay'[t] = overlay[t] \/ overlay'[t] = None,
         p.stage = "done" /\ overlay'[posts[i].by] # None =>
           ~(overlay[posts[i].by].win = posts[i].win /\ overlay[posts[i].by].value = posts[i].value),
         lock' \in DOMAIN posts \cup {0},
         lock' = i <=> p.stage = "decided" /\ p.op # "set",
         \A j \in DOMAIN posts : j # i => (lock' = j <=> lock = j),
         ~raced /\ p.stage = "decided" => Safe(stored, p.chain)
  PROVE  Inv'
<1> USE DEF Inv
<1>1. /\ posts' \in Seq(Request \cup {Done}) /\ DOMAIN posts' = DOMAIN posts /\ posts'[i] = p
      /\ \A j \in DOMAIN posts : j # i => posts'[j] = posts[j]
  BY SetPost
<1>2. TypeInv'
  <2>1. lock' \in Nat
    BY PostFacts
  <2>2. QED
    BY <1>1, <2>1 DEF TypeInv
<1>3. OwnStays'
  BY DEF OwnStays
<1>4. Plans'
  BY <1>1 DEF Plans
<1>5. LockHeld'
  BY <1>1 DEF LockHeld
<1>6. OnePlace'
  BY <1>1 DEF OnePlace
<1>7. OverlayHasReason'
  <2> SUFFICES ASSUME NEW t \in Tab, overlay'[t] # None, overlay[t].value \notin accepted[overlay[t].win]
               PROVE  \E j \in DOMAIN posts' :
                        /\ posts'[j].stage # "done" /\ posts'[j].by = t
                        /\ posts'[j].win = overlay[t].win /\ posts'[j].value = overlay[t].value
    BY DEF OverlayHasReason
  <2>1. PICK j \in DOMAIN posts : /\ posts[j].stage # "done" /\ posts[j].by = t
                                  /\ posts[j].win = overlay[t].win /\ posts[j].value = overlay[t].value
    BY DEF OverlayHasReason
  <2>2. QED
    BY <1>1, <2>1
<1>8. QED
  BY <1>2, <1>3, <1>4, <1>5, <1>6, <1>7

LEMMA RejectedInv ==
  ASSUME Inv, NEW i \in DOMAIN posts, Rejected(i)
  PROVE  Inv'
<1> DEFINE t == posts[i].by
           mine == overlay[t] # None /\ overlay[t].win = posts[i].win /\ overlay[t].value = posts[i].value
<1>1. /\ posts[i].stage = "rejected" /\ posts' = [posts EXCEPT ![i] = Done]
      /\ overlay' = [overlay EXCEPT ![t] = IF mine THEN None ELSE @]
      /\ UNCHANGED <<stored, seen, at, lock, kills, visits, accepted, raced>>
  BY DEF Rejected
<1>2. posts[i] \in Request /\ t \in Tab /\ overlay \in [Tab -> {None} \cup Pending]
  BY <1>1, PostFacts DEF Inv, TypeInv, Request
<1>3. /\ overlay' \in [Tab -> {None} \cup Pending]
      /\ \A x \in Tab : overlay'[x] = overlay[x] \/ overlay'[x] = None
      /\ overlay'[t] # None => ~mine /\ overlay[t] # None
  BY <1>1, <1>2
<1>4. lock # i /\ lock \in DOMAIN posts \cup {0}
  BY <1>1 DEF Inv, LockHeld
<1>5. Done.stage = "done"
  BY DEF Done
<1>6. QED
  BY <1>1, <1>2, <1>3, <1>4, <1>5, RequestStep

\* A refusal, on either side of the check, gives the lock back.
LEMMA RefuseInv ==
  ASSUME Inv, NEW i \in DOMAIN posts, posts[i].stage # "done", Refuse(i)
  PROVE  Inv'
<1> DEFINE p == [posts[i] EXCEPT !.stage = "rejected"]
<1>1. /\ posts' = [posts EXCEPT ![i] = p] /\ lock' = IF lock = i THEN 0 ELSE lock
      /\ UNCHANGED <<stored, seen, at, overlay, kills, visits, accepted, raced>>
  BY DEF Refuse
<1>2. posts[i] \in Request /\ Shaped(posts[i])
  BY PostFacts DEF Inv, Plans
<1>3. p \in Request /\ p.stage = "rejected" /\ p.by = posts[i].by /\ p.win = posts[i].win
      /\ p.value = posts[i].value /\ p.op = posts[i].op /\ p.leaf = posts[i].leaf
  BY <1>2 DEF Request
<1> HIDE DEF p
<1>4. Shaped(p)
  BY <1>2, <1>3 DEF Shaped
<1>5. /\ lock' \in DOMAIN posts \cup {0} /\ lock' # i
      /\ \A j \in DOMAIN posts : j # i => (lock' = j <=> lock = j)
  BY <1>1, PostFacts DEF Inv, LockHeld
<1>6. overlay' \in [Tab -> {None} \cup Pending]
  BY <1>1 DEF Inv, TypeInv
<1>7. QED
  BY <1>1, <1>3, <1>4, <1>5, <1>6, RequestStep

\* A request that is decided: its chain is well planned, safe as things are stored, and
\* a move holds the lock from then on.
LEMMA DecideInv ==
  ASSUME Inv, NEW i \in DOMAIN posts, posts[i].stage = "sent",
         NEW chain \in Seq(WriteStep), NEW newLock, Decide(i, chain, newLock),
         \A p \in Request : p.op = posts[i].op /\ p.win = posts[i].win /\ p.value = posts[i].value
                              /\ p.chain = chain => WellPlanned(p),
         ~raced => Safe(stored, chain),
         IF posts[i].op = "set" THEN newLock = lock ELSE lock = 0 /\ newLock = i
  PROVE  Inv'
<1> DEFINE p == [posts[i] EXCEPT !.stage = "decided", !.chain = chain]
<1>1. posts[i] \in Request /\ Shaped(posts[i])
  BY PostFacts DEF Inv, Plans
<1>2. p \in Request /\ p.stage = "decided" /\ p.by = posts[i].by /\ p.win = posts[i].win
      /\ p.value = posts[i].value /\ p.op = posts[i].op /\ p.leaf = posts[i].leaf /\ p.chain = chain
  BY <1>1 DEF Request
<1>3. posts' = [posts EXCEPT ![i] = p]
  BY DEF Decide
<1>4. lock' = newLock /\ UNCHANGED <<stored, seen, at, overlay, kills, visits, accepted, raced>>
  BY DEF Decide
<1> HIDE DEF p
<1>5. Shaped(p)
  BY <1>1, <1>2 DEF Shaped
<1>6. /\ lock' \in DOMAIN posts \cup {0}
      /\ lock' = i <=> p.stage = "decided" /\ p.op # "set"
      /\ \A j \in DOMAIN posts : j # i => (lock' = j <=> lock = j)
  BY <1>2, <1>4, PostFacts DEF Inv, LockHeld
<1>7. overlay' \in [Tab -> {None} \cup Pending]
  BY <1>4 DEF Inv, TypeInv
<1>8. QED
  BY <1>2, <1>3, <1>4, <1>5, <1>6, <1>7, RequestStep

-----------------------------------------------------------------------------
(* What the daemon decides *)

LEMMA HoldersFacts ==
  ASSUME NEW ws, NEW leaf, NEW w
  PROVE  w \in Holders(ws, leaf) <=> w \in Window /\ leaf \in ws[w]
BY DEF Holders, Alive, Dead

\* A layout that passes the check holds nothing that another window holds.
LEMMA CheckedFacts ==
  ASSUME AtMostOne(stored), NEW value, NEW win, NEW except, ~HeldElsewhere(value, win, except),
         NEW leaf \in value \cap Lendable, leaf # except
  PROVE  Holders(stored, leaf) \subseteq {win}
<1>1. Holder(stored, leaf) = None \/ Holder(stored, leaf).by = win
  BY DEF HeldElsewhere
<1>2. QED
  BY <1>1, HolderFacts DEF AtMostOne

LEMMA OneStep ==
  ASSUME NEW c \in WriteStep
  PROVE  /\ <<c>> \in Seq(WriteStep) /\ Len(<<c>>) = 1 /\ DOMAIN <<c>> = {1} /\ <<c>>[1] = c
         /\ Tail(<<c>>) = <<>>
<1> HIDE DEF WriteStep
<1> QED OBVIOUS

LEMMA TwoSteps ==
  ASSUME NEW b \in WriteStep, NEW c \in WriteStep
  PROVE  /\ <<b, c>> \in Seq(WriteStep) /\ Len(<<b, c>>) = 2 /\ DOMAIN <<b, c>> = {1, 2}
         /\ <<b, c>>[1] = b /\ <<b, c>>[2] = c
<1> HIDE DEF WriteStep
<1> QED OBVIOUS

\* A window without one of its leaves, in its place.
LEMMA WithoutFacts ==
  ASSUME Inv, NEW w \in Window, NEW leaf \in Lendable
  PROVE  LET rest == OrTty(stored[w] \ {leaf}) IN
         /\ [win |-> w, value |-> rest] \in WriteStep
         /\ NoneOfItsOwn(rest, w)
         /\ \A x \in Lendable : x \in rest <=> x \in stored[w] /\ x # leaf
         /\ ~raced => \A x \in rest \cap Lendable : Holders(stored, x) \subseteq {w}
<1> DEFINE rest == OrTty(stored[w] \ {leaf})
<1> HIDE DEF Leaves
<1>1. stored[w] \in SUBSET Leaves /\ NoneOfItsOwn(stored[w], w)
  BY DEF Inv, TypeInv, OwnStays
<1>2. stored[w] \ {leaf} \in SUBSET Leaves /\ NoneOfItsOwn(stored[w] \ {leaf}, w)
  BY <1>1 DEF NoneOfItsOwn
<1>3. rest \in Layouts /\ rest \cap Lendable = (stored[w] \ {leaf}) \cap Lendable /\ NoneOfItsOwn(rest, w)
  BY <1>2, OrTtyFacts
<1> HIDE DEF rest
<1>4. [win |-> w, value |-> rest] \in WriteStep
  BY <1>3 DEF WriteStep
<1>5. \A x \in Lendable : x \in rest <=> x \in stored[w] /\ x # leaf
  BY <1>3
<1>6. ASSUME ~raced, NEW x \in rest \cap Lendable PROVE Holders(stored, x) \subseteq {w}
  <2>1. w \in Holders(stored, x)
    BY <1>5, <1>6, HoldersFacts
  <2>2. QED
    BY <1>6, <2>1 DEF Inv, OnePlace, AtMostOne
<1>7. QED
  BY <1>3, <1>4, <1>5, <1>6 DEF rest

LEMMA HandleSetInv ==
  ASSUME Inv, NEW i \in DOMAIN posts, HandleSet(i)
  PROVE  Inv'
<1> DEFINE p == posts[i]
           c == [win |-> p.win, value |-> p.value]
<1>1. p.stage = "sent" /\ p.op = "set"
  BY DEF HandleSet
<1>2. p \in Request /\ Shaped(p)
  BY <1>1, PostFacts DEF Inv, Plans
<1>3. c \in WriteStep /\ NoneOfItsOwn(c.value, c.win)
  <2> HIDE DEF Leaves
  <2> QED BY <1>1, <1>2, LayoutsFacts DEF Shaped, WriteStep, Request
<1>4. CASE Refuse(i)
  BY <1>1, <1>4, RefuseInv
<1>5. CASE ~(p.value \cap Lendable # {} /\ HeldElsewhere(p.value, p.win, None)) /\ Decide(i, <<c>>, lock)
  <2>1. \A q \in Request : q.op = p.op /\ q.win = p.win /\ q.value = p.value /\ q.chain = <<c>>
                             => WellPlanned(q)
    BY <1>3, OneStep DEF WellPlanned
  <2>2. ASSUME ~raced PROVE Safe(stored, <<c>>)
    <3>1. ASSUME NEW leaf \in p.value \cap Lendable PROVE Holders(stored, leaf) \subseteq {p.win}
      <4>1. leaf # None
        BY BareFacts
      <4>2. ~HeldElsewhere(p.value, p.win, None) /\ AtMostOne(stored)
        BY <1>5, <2>2 DEF Inv, OnePlace
      <4>3. QED
        BY <4>1, <4>2, CheckedFacts
    <3>2. QED
      BY <1>3, <3>1, OneStep DEF Safe
  <2>3. <<c>> \in Seq(WriteStep)
    BY <1>3, OneStep
  <2> HIDE DEF c
  <2>4. QED
    BY <1>1, <1>5, <2>1, <2>2, <2>3, DecideInv
<1>6. QED
  BY <1>4, <1>5 DEF HandleSet

LEMMA HandleBorrowInv ==
  ASSUME Inv, NEW i \in DOMAIN posts, HandleBorrow(i)
  PROVE  Inv'
<1> DEFINE p == posts[i]
           holder == Holder(stored, p.leaf)
           c == [win |-> p.win, value |-> p.value]
<1>1. p.stage = "sent" /\ p.op = "borrow" /\ lock = 0
  BY DEF HandleBorrow
<1>2. p \in Request /\ Shaped(p) /\ p.leaf \in Lendable
  BY <1>1, PostFacts DEF Inv, Plans, Shaped
<1>3. c \in WriteStep /\ NoneOfItsOwn(c.value, c.win) /\ p.win \in Window
  <2> HIDE DEF Leaves
  <2> QED BY <1>1, <1>2, LayoutsFacts DEF Shaped, WriteStep, Request
<1>4. \/ Refuse(i)
      \/ /\ ~HeldElsewhere(p.value, p.win, p.leaf)
         /\ \/ (holder = None \/ holder.by = p.win) /\ Decide(i, <<c>>, i)
            \/ /\ holder # None /\ holder.by # p.win
               /\ Decide(i, BorrowChain(p, holder.by), i)
  BY DEF HandleBorrow
<1>5. ASSUME ~raced, ~HeldElsewhere(p.value, p.win, p.leaf),
             NEW leaf \in p.value \cap Lendable, leaf # p.leaf
      PROVE  Holders(stored, leaf) \subseteq {p.win}
  <2>1. AtMostOne(stored)
    BY <1>5 DEF Inv, OnePlace
  <2>2. QED
    BY <1>5, <2>1, CheckedFacts
<1>6. CASE Refuse(i)
  BY <1>1, <1>6, RefuseInv
<1>7. CASE /\ ~HeldElsewhere(p.value, p.win, p.leaf)
           /\ (holder = None \/ holder.by = p.win) /\ Decide(i, <<c>>, i)
  <2>1. \A q \in Request : q.op = p.op /\ q.win = p.win /\ q.value = p.value /\ q.chain = <<c>>
                             => WellPlanned(q)
    BY <1>3, OneStep DEF WellPlanned
  <2>2. ASSUME ~raced PROVE Safe(stored, <<c>>)
    <3>1. Holders(stored, p.leaf) \subseteq {p.win}
      BY <1>2, <1>7, <2>2, HolderFacts DEF Inv, OnePlace, AtMostOne
    <3>2. \A leaf \in p.value \cap Lendable : Holders(stored, leaf) \subseteq {p.win}
      BY <1>5, <1>7, <2>2, <3>1
    <3>3. QED
      BY <1>3, <3>2, OneStep DEF Safe
  <2>3. <<c>> \in Seq(WriteStep)
    BY <1>3, OneStep
  <2> HIDE DEF c
  <2>4. QED
    BY <1>1, <1>7, <2>1, <2>2, <2>3, DecideInv
<1>8. CASE /\ ~HeldElsewhere(p.value, p.win, p.leaf)
           /\ holder # None /\ holder.by # p.win
           /\ Decide(i, BorrowChain(p, holder.by), i)
  <2> DEFINE h == holder.by
             rest == OrTty(stored[h] \ {p.leaf})
             b == [win |-> h, value |-> rest]
  <2>1. h \in Holders(stored, p.leaf) /\ h \in Window /\ h # p.win
    <3>1. h \in Holders(stored, p.leaf)
      BY <1>8, HolderFacts
    <3>2. QED
      BY <1>8, <3>1, HoldersFacts
  <2> HIDE DEF h
  <2>2. /\ b \in WriteStep /\ NoneOfItsOwn(rest, h)
        /\ \A x \in Lendable : x \in rest <=> x \in stored[h] /\ x # p.leaf
        /\ ~raced => \A x \in rest \cap Lendable : Holders(stored, x) \subseteq {h}
    BY <1>2, <2>1, WithoutFacts
  <2>3. BorrowChain(p, h) = <<b, c>>
    BY DEF BorrowChain
  <2> HIDE DEF rest
  <2>4. \A q \in Request : q.op = p.op /\ q.win = p.win /\ q.value = p.value /\ q.chain = <<b, c>>
                             => WellPlanned(q)
    BY <1>3, <2>1, <2>2, TwoSteps DEF WellPlanned
  <2>5. ASSUME ~raced PROVE Safe(stored, <<b, c>>)
    <3>1. Holders(stored, p.leaf) \subseteq {h}
      BY <1>2, <2>1, <2>5 DEF Inv, OnePlace, AtMostOne
    <3>2. ASSUME NEW leaf \in p.value \cap Lendable
          PROVE  Holders(stored, leaf) \subseteq {h, p.win} /\ leaf \notin rest
      <4>1. CASE leaf = p.leaf
        BY <1>2, <2>2, <3>1, <4>1
      <4>2. CASE leaf # p.leaf
        <5>1. Holders(stored, leaf) \subseteq {p.win}
          BY <1>5, <1>8, <2>5, <4>2
        <5>2. leaf \notin stored[h]
          BY <2>1, <5>1, HoldersFacts
        <5>3. QED
          BY <2>2, <5>1, <5>2
      <4>3. QED
        BY <4>1, <4>2
    <3>3. QED
      BY <1>3, <2>2, <2>5, <3>2, TwoSteps DEF Safe
  <2>6. <<b, c>> \in Seq(WriteStep) /\ Decide(i, <<b, c>>, i)
    BY <1>3, <1>8, <2>2, <2>3, TwoSteps DEF h
  <2> HIDE DEF b, c
  <2>7. QED
    BY <1>1, <2>4, <2>5, <2>6, DecideInv
<1>9. QED
  BY <1>4, <1>6, <1>7, <1>8

LEMMA HandleReturnInv ==
  ASSUME Inv, NEW i \in DOMAIN posts, HandleReturn(i)
  PROVE  Inv'
<1> DEFINE p == posts[i]
           home == p.leaf.home
           rest == OrTty(stored[p.win] \ {p.leaf})
           again == stored[home] \cup {Bare(p.leaf.kind)}
           minus == [win |-> p.win, value |-> rest]
           back == [win |-> home, value |-> again]
           readd == home # p.win /\ stored[home] # Dead /\ Bare(p.leaf.kind) \notin stored[home]
<1> HIDE DEF Leaves
<1>1. p.stage = "sent" /\ p.op = "return" /\ lock = 0
  BY DEF HandleReturn
<1>2. p \in Request /\ p.leaf \in Lendable /\ p.win \in Window /\ home \in Window
  <2>1. p \in Request /\ p.leaf \in Lendable
    BY <1>1, PostFacts DEF Inv, Plans, Shaped
  <2>2. QED
    BY <2>1, BareFacts DEF Request
<1>3. /\ minus \in WriteStep /\ NoneOfItsOwn(rest, p.win)
      /\ \A x \in Lendable : x \in rest <=> x \in stored[p.win] /\ x # p.leaf
      /\ ~raced => \A x \in rest \cap Lendable : Holders(stored, x) \subseteq {p.win}
  BY <1>2, WithoutFacts
<1>4. /\ Refuse(i) \/ Decide(i, IF readd THEN <<minus, back>> ELSE <<minus>>, i)
  BY DEF HandleReturn
<1>5. /\ back \in WriteStep /\ NoneOfItsOwn(again, home)
      /\ again \cap Lendable = stored[home] \cap Lendable
  <2>1. Bare(p.leaf.kind) \in Leaves /\ Bare(p.leaf.kind) \notin Lendable
    BY <1>2, BareFacts
  <2>2. stored[home] \in SUBSET Leaves /\ NoneOfItsOwn(stored[home], home)
    BY <1>2 DEF Inv, TypeInv, OwnStays
  <2>3. again \in Layouts
    BY <2>1, <2>2, LayoutsFacts
  <2>4. again \cap Lendable = stored[home] \cap Lendable
    BY <2>1
  <2>5. NoneOfItsOwn(again, home)
    BY <2>2, <2>4 DEF NoneOfItsOwn
  <2> HIDE DEF again
  <2>6. back \in WriteStep
    BY <1>2, <2>3 DEF WriteStep
  <2>7. QED
    BY <2>4, <2>5, <2>6
<1> HIDE DEF rest, again
<1>6. CASE Refuse(i)
  BY <1>1, <1>6, RefuseInv
<1>7. CASE ~readd /\ Decide(i, <<minus>>, i)
  <2>1. \A q \in Request : q.op = p.op /\ q.win = p.win /\ q.value = p.value /\ q.chain = <<minus>>
                             => WellPlanned(q)
    BY <1>1, <1>3, OneStep DEF WellPlanned
  <2>2. ~raced => Safe(stored, <<minus>>)
    BY <1>3, OneStep DEF Safe
  <2>3. <<minus>> \in Seq(WriteStep)
    BY <1>3, OneStep
  <2> HIDE DEF minus
  <2>4. QED
    BY <1>1, <1>7, <2>1, <2>2, <2>3, DecideInv
<1>8. CASE readd /\ Decide(i, <<minus, back>>, i)
  <2>1. \A q \in Request : q.op = p.op /\ q.win = p.win /\ q.value = p.value /\ q.chain = <<minus, back>>
                             => WellPlanned(q)
    BY <1>1, <1>3, <1>5, <1>8, TwoSteps DEF WellPlanned
  <2>2. ASSUME ~raced PROVE Safe(stored, <<minus, back>>)
    <3>1. ASSUME NEW leaf \in again \cap Lendable
          PROVE  Holders(stored, leaf) \subseteq {p.win, home} /\ leaf \notin rest
      <4>1. home \in Holders(stored, leaf)
        BY <1>2, <1>5, HoldersFacts
      <4>2. Holders(stored, leaf) \subseteq {home}
        BY <2>2, <4>1 DEF Inv, OnePlace, AtMostOne
      <4>3. leaf \notin stored[p.win]
        BY <1>2, <1>8, <4>2, HoldersFacts
      <4>4. QED
        BY <1>3, <4>2, <4>3
    <3>2. QED
      BY <1>3, <2>2, <3>1, TwoSteps DEF Safe
  <2>3. <<minus, back>> \in Seq(WriteStep)
    BY <1>3, <1>5, TwoSteps
  <2> HIDE DEF minus, back, readd
  <2>4. QED
    BY <1>1, <1>8, <2>1, <2>2, <2>3, DecideInv
<1>9. QED
  BY <1>4, <1>6, <1>7, <1>8

-----------------------------------------------------------------------------
(* A write, and a window that goes *)

LEMMA ChainFacts ==
  ASSUME NEW chain \in Seq(WriteStep), Len(chain) \in {1, 2}
  PROVE  /\ chain[1] \in WriteStep /\ DOMAIN chain = 1..Len(chain) /\ Tail(chain) \in Seq(WriteStep)
         /\ Len(chain) = 1 => Tail(chain) = <<>>
         /\ Len(chain) = 2 => /\ chain[2] \in WriteStep /\ Tail(chain) # <<>>
                              /\ Len(Tail(chain)) = 1 /\ Tail(chain)[1] = chain[2]
                              /\ DOMAIN Tail(chain) = {1}
<1> HIDE DEF WriteStep
<1>1. chain # <<>> /\ DOMAIN chain = 1..Len(chain)
  BY EmptySeq, LenProperties
<1>2. /\ Tail(chain) \in Seq(WriteStep) /\ Len(Tail(chain)) = Len(chain) - 1
      /\ \A m \in 1..Len(Tail(chain)) : Tail(chain)[m] = chain[m + 1]
  BY <1>1, HeadTailProperties
<1>3. chain[1] \in WriteStep
  BY <1>1, ElementOfSeq
<1>4. CASE Len(chain) = 1
  <2>1. Len(Tail(chain)) = 0
    BY <1>2, <1>4
  <2>2. Tail(chain) = <<>>
    BY <1>2, <2>1, EmptySeq
  <2>3. QED
    BY <1>1, <1>2, <1>3, <1>4, <2>2
<1>5. CASE Len(chain) = 2
  <2>1. chain[2] \in WriteStep
    BY <1>5, ElementOfSeq
  <2>2. Len(Tail(chain)) = 1
    BY <1>2, <1>5
  <2>3. DOMAIN Tail(chain) = 1..1
    BY <1>2, <2>2, LenProperties
  <2>4. 1..1 = {1}
    OBVIOUS
  <2> DEFINE tl == Tail(chain)
  <2>5. \A m \in 1..Len(tl) : tl[m] = chain[m + 1]
    BY <1>2
  <2>6. Tail(chain) # <<>> /\ Tail(chain)[1] = chain[2]
    <3>1. Len(tl) = 1
      BY <2>2
    <3> HIDE DEF tl
    <3>2. Len(<<>>) = 0
      BY EmptySeq
    <3>3. tl # <<>>
      BY <3>1, <3>2
    <3>4. 1 \in 1..Len(tl) /\ 1 + 1 = 2
      BY <3>1
    <3>5. tl[1] = chain[2]
      <4>1. tl[1] = chain[1 + 1]
        BY <2>5, <3>4
      <4>2. QED
        BY <3>4, <4>1
    <3>6. QED
      BY <3>3, <3>5 DEF tl
  <2>7. QED
    BY <1>1, <1>2, <1>3, <1>5, <2>1, <2>2, <2>3, <2>4, <2>6
<1>6. QED
  BY <1>4, <1>5

\* The requests after a write: the one that wrote, and the others, stale if decided.
LEMMA StaleFacts ==
  ASSUME TypeInv, NEW i \in DOMAIN posts, NEW p \in Request \cup {Done},
         posts' = Stale([posts EXCEPT ![i] = p], i)
  PROVE  /\ posts' \in Seq(Request \cup {Done}) /\ DOMAIN posts' = DOMAIN posts /\ posts'[i] = p
         /\ \A j \in DOMAIN posts : j # i =>
              \/ posts[j].stage # "decided" /\ posts'[j] = posts[j]
              \/ /\ posts[j].stage = "decided" /\ posts[j] \in Request
                 /\ posts'[j] = [posts[j] EXCEPT !.fresh = FALSE]
<1> DEFINE ps == [posts EXCEPT ![i] = p]
<1>1. /\ ps \in Seq(Request \cup {Done}) /\ DOMAIN ps = DOMAIN posts /\ ps[i] = p
      /\ \A j \in DOMAIN posts : j # i => ps[j] = posts[j]
  BY SetPost
<1> HIDE DEF ps
<1>2. posts' = [j \in DOMAIN ps |-> IF j # i /\ ps[j].stage = "decided"
                                      THEN [ps[j] EXCEPT !.fresh = FALSE] ELSE ps[j]]
  BY DEF Stale, ps
<1>3. \A j \in DOMAIN posts : posts[j].stage = "decided" => posts[j] \in Request
  BY PostFacts
<1>4. \A q \in Request : [q EXCEPT !.fresh = FALSE] \in Request
  BY DEF Request
<1>5. \A j \in DOMAIN posts : posts'[j] \in Request \cup {Done}
  <2>1. \A j \in DOMAIN posts : posts[j] \in Request \cup {Done}
    BY PostFacts
  <2> HIDE DEF Request
  <2>2. QED
    BY <1>1, <1>2, <1>3, <1>4, <2>1
<1>6. DOMAIN posts' = 1..Len(posts) /\ Len(posts) \in Nat /\ DOMAIN posts = 1..Len(posts)
  BY <1>1, <1>2, PostFacts
<1>7. posts' \in [1..Len(posts) -> Request \cup {Done}]
  <2> HIDE DEF Request
  <2> QED BY <1>1, <1>2, <1>5, <1>6
<1>8. posts' \in Seq(Request \cup {Done})
  <2> HIDE DEF Request, Done
  <2> DEFINE n == Len(posts)
         S == Request \cup {Done}
         ps2 == posts'
  <2>1. n \in Nat /\ ps2 \in [1..n -> S]
    BY <1>6, <1>7
  <2>2. ps2 \in Seq(S)
    <3> HIDE DEF n, S, ps2
    <3> QED BY <2>1
  <2>3. QED
    BY <2>2
<1>9. QED
  BY <1>1, <1>2, <1>3, <1>6, <1>8

LEMMA WriteNextInv ==
  ASSUME Inv, NEW i \in DOMAIN posts, WriteNext(i)
  PROVE  Inv'
<1> USE DEF Inv
<1> DEFINE p == posts[i]
           win == p.chain[1].win
           value == p.chain[1].value
           rest == Tail(p.chain)
           q == IF rest = <<>> THEN Done ELSE [p EXCEPT !.chain = rest]
<1> HIDE DEF Leaves
<1>1. p.stage = "decided" /\ Write(i, win, value, rest)
  BY DEF WriteNext
<1>2. p \in Request /\ Shaped(p) /\ WellPlanned(p) /\ p.chain \in Seq(WriteStep)
  BY <1>1, PostFacts DEF Plans, Shaped, Request
<1>3. CASE stored[win] = Dead
  <2>1. Refuse(i)
    BY <1>1, <1>3 DEF Write
  <2>2. QED
    BY <1>1, <2>1, RefuseInv
<1>4. CASE stored[win] # Dead
  <2>1. /\ stored' = [stored EXCEPT ![win] = value]
        /\ accepted' = [accepted EXCEPT ![win] = @ \cup {value}]
        /\ raced' = (raced \/ ~p.fresh)
        /\ posts' = Stale([posts EXCEPT ![i] = q], i)
        /\ lock' = IF rest = <<>> /\ lock = i THEN 0 ELSE lock
        /\ UNCHANGED <<seen, at, overlay, kills, visits>>
    BY <1>1, <1>4 DEF Write
  <2>2. /\ p.chain[1] \in WriteStep /\ DOMAIN p.chain = 1..Len(p.chain) /\ rest \in Seq(WriteStep)
        /\ Len(p.chain) = 1 \/ Len(p.chain) = 2
        /\ Len(p.chain) = 1 => rest = <<>>
        /\ Len(p.chain) = 2 => /\ p.chain[2] \in WriteStep /\ rest # <<>>
                               /\ Len(rest) = 1 /\ rest[1] = p.chain[2] /\ DOMAIN rest = {1}
    BY <1>2, ChainFacts DEF WellPlanned
  <2> HIDE DEF rest
  <2>3. q \in Request \cup {Done}
    BY <1>2, <2>2 DEF Request
  <2>4. /\ rest = <<>> => q.stage = "done"
        /\ rest # <<>> => /\ q.stage = "decided" /\ q.op = p.op /\ q.by = p.by /\ q.win = p.win
                          /\ q.value = p.value /\ q.leaf = p.leaf /\ q.chain = rest /\ q.fresh = p.fresh
    BY <1>1, <1>2 DEF Done, Request
  <2> HIDE DEF q
  <2>5. /\ posts' \in Seq(Request \cup {Done}) /\ DOMAIN posts' = DOMAIN posts /\ posts'[i] = q
        /\ \A j \in DOMAIN posts : j # i =>
              \/ posts[j].stage # "decided" /\ posts'[j] = posts[j]
              \/ /\ posts[j].stage = "decided" /\ posts[j] \in Request
                 /\ posts'[j] = [posts[j] EXCEPT !.fresh = FALSE]
    BY <2>1, <2>3, StaleFacts
  <2>6. \A j \in DOMAIN posts : j # i =>
          /\ posts'[j].stage = posts[j].stage
          /\ posts'[j].stage = "decided" => posts'[j].fresh = FALSE
          /\ posts[j].stage # "done" =>
               /\ posts'[j].by = posts[j].by /\ posts'[j].win = posts[j].win
               /\ posts'[j].value = posts[j].value /\ posts'[j].op = posts[j].op
               /\ posts'[j].leaf = posts[j].leaf /\ posts'[j].chain = posts[j].chain
    BY <2>5 DEF Request
  <2>7. win \in Window /\ value \in Layouts /\ NoneOfItsOwn(value, win)
    BY <1>2, <2>2 DEF WriteStep, WellPlanned
  <2> HIDE DEF win, value
  <2>8. /\ stored \in [Window -> SUBSET Leaves]
        /\ stored'[win] = value /\ \A w \in Window : w # win => stored'[w] = stored[w]
    BY <2>1, <2>7 DEF TypeInv
  <2>9. TypeInv'
    <3>1. value \in SUBSET Leaves
      BY <2>7, LayoutsFacts
    <3>2. stored' \in [Window -> SUBSET Leaves]
      BY <2>1, <2>8, <3>1
    <3>3. accepted' \in [Window -> SUBSET Layouts]
      BY <2>1, <2>7 DEF TypeInv
    <3>4. lock' \in Nat /\ raced' \in BOOLEAN
      BY <1>2, <2>1 DEF TypeInv, Request
    <3>5. QED
      BY <2>1, <2>5, <3>2, <3>3, <3>4 DEF TypeInv
  <2>10. OwnStays'
    BY <2>1, <2>7, <2>8 DEF OwnStays
  <2>11. Plans'
    <3>1. q.stage # "done" => Shaped(q)
      BY <1>1, <1>2, <2>2, <2>4 DEF Shaped, WellPlanned
    <3>2. \A j \in DOMAIN posts : j # i /\ posts[j].stage # "done" => Shaped(posts'[j])
      BY <2>6 DEF Plans, Shaped, WellPlanned
    <3>3. QED
      BY <2>5, <2>6, <3>1, <3>2 DEF Plans
  <2>12. LockHeld'
    <3>1. i # 0 /\ \A j \in DOMAIN posts : j # 0
      BY PostFacts
    <3>2. \A j \in DOMAIN posts : j # i =>
            (posts'[j].stage = "decided" /\ posts'[j].op # "set" <=> posts[j].stage = "decided" /\ posts[j].op # "set")
      BY <2>6
    <3>3. q.stage = "decided" /\ q.op # "set" <=> rest # <<>> /\ p.op # "set"
      BY <2>4
    <3>4. lock = i <=> p.op # "set"
      BY <1>1 DEF LockHeld
    <3>5. /\ lock # 0 => lock \in DOMAIN posts
          /\ \A j \in DOMAIN posts : lock = j <=> posts[j].stage = "decided" /\ posts[j].op # "set"
      BY DEF LockHeld
    <3>6. lock' # 0 => lock' \in DOMAIN posts'
      BY <2>1, <2>5, <3>5
    <3>7. lock' = i <=> posts'[i].stage = "decided" /\ posts'[i].op # "set"
      BY <2>1, <2>5, <3>1, <3>3, <3>4, <2>4
    <3>8. \A j \in DOMAIN posts : j # i => (lock' = j <=> lock = j)
      BY <2>1, <3>1
    <3>9. \A j \in DOMAIN posts : j # i =>
            (lock' = j <=> posts'[j].stage = "decided" /\ posts'[j].op # "set")
      BY <3>2, <3>5, <3>8
    <3>10. QED
      BY <2>5, <3>6, <3>7, <3>9 DEF LockHeld
  <2>13. OnePlace'
    <3> SUFFICES ASSUME ~raced'
                 PROVE  /\ AtMostOne(stored')
                        /\ q.stage = "decided" => Safe(stored', q.chain)
      BY <2>5, <2>6 DEF OnePlace
    <3>1. ~raced /\ p.fresh
      BY <2>1
    <3>2. AtMostOne(stored) /\ Safe(stored, p.chain)
      BY <1>1, <3>1 DEF OnePlace
    <3>3. \A leaf \in value \cap Lendable : Holders(stored, leaf) \subseteq {win}
      BY <3>2 DEF Safe, win, value
    <3>4. \A leaf \in Lendable : \A w : w \in Holders(stored', leaf) =>
            IF w = win THEN leaf \in value ELSE w \in Holders(stored, leaf)
      BY <2>8, HoldersFacts
    <3>5. AtMostOne(stored')
      BY <3>2, <3>3, <3>4 DEF AtMostOne
    <3>6. ASSUME q.stage = "decided" PROVE Safe(stored', q.chain)
      <4>1. /\ Len(p.chain) = 2 /\ q.chain = rest /\ Len(rest) = 1 /\ rest[1] = p.chain[2]
            /\ p.chain[1].win = win /\ p.chain[1].value = value
        BY <2>2, <2>4, <3>6 DEF win, value
      <4>2. \A leaf \in p.chain[2].value \cap Lendable :
              Holders(stored, leaf) \subseteq {win, p.chain[2].win} /\ leaf \notin value
        BY <3>2, <4>1 DEF Safe
      <4>3. \A leaf \in p.chain[2].value \cap Lendable : Holders(stored', leaf) \subseteq {p.chain[2].win}
        BY <3>4, <4>2
      <4>4. QED
        BY <4>1, <4>3 DEF Safe
    <3>7. QED
      BY <3>5, <3>6
  <2>14. OverlayHasReason'
    <3> SUFFICES ASSUME NEW t \in Tab, overlay[t] # None
                 PROVE  \/ overlay[t].value \in accepted'[overlay[t].win]
                        \/ \E j \in DOMAIN posts' :
                             /\ posts'[j].stage # "done" /\ posts'[j].by = t
                             /\ posts'[j].win = overlay[t].win /\ posts'[j].value = overlay[t].value
      BY <2>1 DEF OverlayHasReason
    <3>1. overlay[t].win \in Window /\ overlay[t].value \in Layouts
      BY DEF TypeInv, Pending
    <3>2. CASE overlay[t].value \in accepted[overlay[t].win]
      BY <2>1, <2>7, <3>1, <3>2 DEF TypeInv
    <3>3. CASE \E j \in DOMAIN posts :
                 /\ posts[j].stage # "done" /\ posts[j].by = t
                 /\ posts[j].win = overlay[t].win /\ posts[j].value = overlay[t].value
      <4>1. PICK j \in DOMAIN posts :
                 /\ posts[j].stage # "done" /\ posts[j].by = t
                 /\ posts[j].win = overlay[t].win /\ posts[j].value = overlay[t].value
        BY <3>3
      <4>2. CASE j # i
        BY <2>5, <2>6, <4>1, <4>2
      <4>3. CASE j = i /\ rest # <<>>
        BY <2>4, <2>5, <4>1, <4>3
      <4>4. CASE j = i /\ rest = <<>>
        <5>1. p.op # "return"
          BY <1>2, <3>1, <4>1, <4>4, LayoutsFacts DEF Shaped
        <5>2. p.chain[1] = [win |-> p.win, value |-> p.value]
          BY <1>2, <2>2, <4>4, <5>1 DEF WellPlanned
        <5>3. win = overlay[t].win /\ value = overlay[t].value
          BY <4>1, <4>4, <5>2 DEF win, value
        <5>4. QED
          BY <2>1, <2>7, <5>3 DEF TypeInv
      <4>5. QED
        BY <4>2, <4>3, <4>4
    <3>4. QED
      BY <3>2, <3>3 DEF OverlayHasReason
  <2>15. QED
    BY <2>9, <2>10, <2>11, <2>12, <2>13, <2>14
<1>5. QED
  BY <1>3, <1>4

LEMMA KillInv ==
  ASSUME Inv, NEW w \in Window, Kill(w)
  PROVE  Inv'
<1> USE DEF Inv
<1> HIDE DEF Leaves
<1>1. /\ stored' = [stored EXCEPT ![w] = Dead] /\ kills' = kills + 1
      /\ UNCHANGED <<seen, at, overlay, posts, lock, visits, accepted, raced>>
  BY DEF Kill
<1>2. /\ stored \in [Window -> SUBSET Leaves] /\ stored' \in [Window -> SUBSET Leaves]
      /\ stored'[w] = {} /\ \A x \in Window : x # w => stored'[x] = stored[x]
  BY <1>1 DEF TypeInv, Dead
<1>3. TypeInv'
  BY <1>1, <1>2 DEF TypeInv
<1>4. OwnStays'
  BY <1>1, <1>2 DEF OwnStays, NoneOfItsOwn
<1>5. Plans' /\ LockHeld' /\ OverlayHasReason'
  BY <1>1 DEF Plans, LockHeld, OverlayHasReason
<1>6. \A leaf \in Lendable : Holders(stored', leaf) \subseteq Holders(stored, leaf)
  BY <1>2, HoldersFacts
<1>7. OnePlace'
  <2>1. ASSUME AtMostOne(stored) PROVE AtMostOne(stored')
    BY <1>6, <2>1 DEF AtMostOne
  <2>2. ASSUME NEW chain, Safe(stored, chain) PROVE Safe(stored', chain)
    BY <1>6, <2>2 DEF Safe
  <2>3. QED
    BY <1>1, <2>1, <2>2 DEF OnePlace
<1>8. QED
  BY <1>3, <1>4, <1>5, <1>7

-----------------------------------------------------------------------------
(* The theorems *)

LEMMA NextInv == Inv /\ [Next]_vars => Inv'
<1> SUFFICES ASSUME Inv, [Next]_vars PROVE Inv'
  OBVIOUS
<1>1. CASE \E t \in Tab : Verb(t) \/ Navigate(t) \/ Deliver(t) \/ ClearSettled(t)
  BY <1>1, VerbInv, TabInv
<1>2. CASE \E i \in DOMAIN posts : Rejected(i) \/ Handle(i) \/ Lost(i)
  <2>1. PICK i \in DOMAIN posts : Rejected(i) \/ Handle(i) \/ Lost(i)
    BY <1>2
  <2>2. CASE Lost(i)
    BY <2>2, RefuseInv DEF Lost
  <2>3. QED
    BY <2>1, <2>2, RejectedInv, HandleSetInv, HandleBorrowInv, HandleReturnInv, WriteNextInv DEF Handle
<1>3. CASE \E w \in Window : Kill(w)
  BY <1>3, KillInv
<1>4. CASE UNCHANGED vars
  BY <1>4 DEF vars, Inv, TypeInv, OwnStays, Plans, LockHeld, OnePlace, OverlayHasReason
<1>5. QED
  BY <1>1, <1>2, <1>3, <1>4 DEF Next


\* The invariant of the shared layouts: their types, what a request has still to write,
\* whose the lock is, and that no write under way would put a surface in two windows.
THEOREM LayoutInvariant == Spec => []Inv
<1>1. QED
  BY InitInv, NextInv, PTL DEF Spec

\* Every layout that is stored or drawn has a leaf, and the lock is of a move that has
\* begun: no order of requests, deaths and lost connections leaves it with nobody.
THEOREM LayoutTypes == Spec => []TypeOK
<1>1. Inv => TypeOK
  <2> SUFFICES ASSUME Inv PROVE TypeOK
    OBVIOUS
  <2> HIDE DEF Leaves
  <2>1. \A w \in Window : stored[w] \in Layouts \cup {Dead}
    BY LayoutsFacts DEF Inv, TypeInv, Dead
  <2>2. \A t \in Tab : at[t] \in Window /\ \A w \in Window : seen[t][w] \in Layouts \cup {Dead}
    BY LayoutsFacts DEF Inv, TypeInv, Dead
  <2>3. ASSUME lock # 0 PROVE posts[lock].stage = "decided" /\ posts[lock].op \in {"borrow", "return"}
    <3>1. lock \in DOMAIN posts /\ posts[lock].stage = "decided" /\ posts[lock].op # "set"
      BY <2>3 DEF Inv, LockHeld
    <3>2. posts[lock] \in Request
      BY <3>1, PostFacts DEF Inv
    <3>3. QED
      BY <3>1, <3>2 DEF Request
  <2>4. QED
    BY <2>1, <2>2, <2>3 DEF TypeOK
<1>2. QED
  BY <1>1, LayoutInvariant, PTL

\* A lent surface is in one window at most through every step of every move, but for the
\* writes that went between the check of another one and its write; and no window ever
\* gets back its own surface as a lent one.
THEOREM LiveInOnePlaceAlways == Spec => []LiveInOnePlace
<1>1. Inv => LiveInOnePlace
  <2> SUFFICES ASSUME Inv PROVE LiveInOnePlace
    OBVIOUS
  <2>1. ASSUME ~raced, NEW leaf \in Lendable PROVE Cardinality(Holders(stored, leaf)) <= 1
    <3> DEFINE H == Holders(stored, leaf)
    <3>1. \A v, w \in H : v = w
      BY <2>1 DEF Inv, OnePlace, AtMostOne
    <3> HIDE DEF H
    <3>2. CASE H = {}
      <4>1. Cardinality(H) = 0
        BY <3>2, FS_EmptySet
      <4>2. QED
        BY <4>1 DEF H
    <3>3. CASE H # {}
      <4>1. PICK w : H = {w}
        BY <3>1, <3>3
      <4>2. Cardinality(H) = 1
        BY <4>1, FS_Singleton
      <4>3. QED
        BY <4>2 DEF H
    <3>4. QED
      BY <3>2, <3>3
  <2>2. ASSUME NEW leaf \in Lendable PROVE leaf.home \notin Holders(stored, leaf)
    BY <2>2, BareFacts DEF Inv, OwnStays, NoneOfItsOwn, Holders
  <2>3. QED
    BY <2>1, <2>2 DEF LiveInOnePlace
<1>2. QED
  BY <1>1, LayoutInvariant, PTL

\* What a tab draws ahead of the daemon is under way or has been stored: whatever the
\* order of answers, of tabs and of deaths, a refused layout is not left on the screen.
THEOREM OverlayHasReasonAlways == Spec => []OverlayHasReason
<1>1. Inv => OverlayHasReason
  BY DEF Inv
<1>2. QED
  BY <1>1, LayoutInvariant, PTL

\* Borrows and returns exclude each other: two of them never have writes left at once.
MovesExclude ==
  \A i, j \in DOMAIN posts :
    /\ posts[i].stage = "decided" /\ posts[i].op # "set"
    /\ posts[j].stage = "decided" /\ posts[j].op # "set"
    => i = j

\* The lock of the moves serialises them, also when a window dies in the middle of one.
THEOREM MovesExcludeAlways == Spec => []MovesExclude
<1>1. Inv => MovesExclude
  BY DEF Inv, LockHeld, MovesExclude
<1>2. QED
  BY <1>1, LayoutInvariant, PTL
-----------------------------------------------------------------------------
\* ---- the optimistic rows

\* Where window w is: to the tab, in the snapshot on its way (if none is, in the next), and now.
Raw(w) == tab.raw[w].home
Wired(w) == IF wire = <<>> THEN tmux[w].home ELSE wire[1][w].home
Lives(w) == tmux[w].home

\* What a tab keeps, but for its ghosts and new names of sessions, which nothing here is about.
TabOf(t) == [raw : World, entries : [WindowId -> Entry], ghosts : {t.ghosts}, ids : Nat,
             killed : SUBSET Session, renamed : {t.renamed}, last : [Hook -> Call \cup {NoCall}],
             target : Call \cup {NoCall}, mounted : SUBSET {"shell", "sidebar"}]

\* What may still happen.
Budgeted ==
  left \in [hooks : SUBSET Hook, calls : Int, underWay : Nat, fails : Int, births : Int, deaths : Int,
            moves : Int, misroutes : Int, unmounts : Int, homes : {left.homes}]

\* The types of the variables.
RowTypes ==
  /\ tmux \in World
  /\ wire = <<>> \/ \E world \in World : wire = <<world>>
  /\ tab \in TabOf(tab)
  /\ calls \subseteq [call : Call, stage : {"sent", "done", "failed"}] /\ IsFiniteSet(calls)
  /\ Budgeted

\* The setups of which the theorem speaks: a hook has one call at a time, so that no ref is
\* of another call; no window comes back to a session, and no session changes its name, while
\* a request about it may be under way; the dialog, whose handlers show a row again without
\* asking for which call, has no other hook that hides rows beside it.
Apart ==
  /\ left.underWay <= 1 /\ left.moves = 0
  /\ "renameSession" \notin left.hooks
  /\ "rename" \notin left.hooks \/ "move" \notin left.hooks
  /\ "dialog" \in left.hooks => left.hooks \subseteq {"dialog", "create"}

\* A call is about what its hook is for; a hook has one, and its ref names it.
Meant(a) ==
  /\ a.hook \in left.hooks
  /\ a.hook \in {"kill", "move", "rename"} => a.window # 0
  /\ a.hook = "killSession" => a.window = 0
  /\ a.hook = "rename" => a.to \in Name
  /\ a.hook = "move" => a.to \in Session \ {a.session}

Asked ==
  /\ \A c \in calls : Meant(c.call)
  /\ \A c, d \in calls : c.call.hook = d.call.hook => c = d
  /\ \A c \in calls : c.call.hook # "dialog" => tab.last[c.call.hook] = c.call
  /\ tab.target # NoCall => tab.target.hook = "dialog" /\ "dialog" \in left.hooks

\* A window is made once and ends once.
Onward ==
  \A w \in WindowId :
    /\ Lives(w) = Unborn => Wired(w) = Unborn
    /\ Wired(w) = Unborn => Raw(w) = Unborn
    /\ Raw(w) = Gone => Wired(w) = Gone
    /\ Wired(w) = Gone => Lives(w) = Gone

\* A session that was killed stays hidden.
Shut(s) == /\ s \in tab.killed /\ "dialog" \notin left.hooks
           /\ \A c \in calls : c.call.hook = "killSession" => c.call.session # s

\* A row is hidden in session s.
Hid(w, s) == tab.entries[w].session = s /\ tab.entries[w].killed

\* A window is in s or has ended, wherever one looks.
Stays(w, s) == Raw(w) \in {s, Gone} /\ Wired(w) \in {s, Gone} /\ Lives(w) \in {s, Gone}

\* A window moves on only where the tab hides it; no snapshot holds two moves.
Agree ==
  \A w \in WindowId :
    /\ Raw(w) \in Session =>
         \/ Stays(w, Raw(w))
         \/ "move" \in left.hooks /\ (Shut(Raw(w)) \/ Hid(w, Raw(w)))
    /\ Wired(w) \in Session /\ Wired(w) # Raw(w) => Lives(w) \in {Wired(w), Gone}

\* A call that hides the row of a window.
Hides(a) == a.hook \in {"kill", "dialog", "move"} /\ a.window # 0

\* A window that is to go is hidden in its session, or has left it for good.
MarkedBy(c) ==
  LET w == c.call.window
      s == c.call.session
  IN /\ Raw(w) = s => Hid(w, s) \/ Shut(s)
     /\ Raw(w) # s => Wired(w) # s /\ Lives(w) # s
     /\ Raw(w) # Unborn
     /\ IF c.call.hook = "move" /\ c.stage = "done" THEN Lives(w) # s ELSE Stays(w, s)
     /\ \A d \in calls : Hides(d.call) /\ d.call.window = w /\ d.call.session = s => d = c

\* A window that is to be called something stays in its session, and is drawn so there.
NamedBy(c) ==
  LET w == c.call.window
      s == c.call.session
  IN /\ Stays(w, s)
     /\ Raw(w) = s => Shut(s) \/ (tab.entries[w].session = s /\ tab.entries[w].pending = c.call.to)

\* What the dialog is open for is still what it was opened for, or is gone.
Aimed(a) ==
  a.window # 0 => Stays(a.window, a.session)
                  /\ (Raw(a.window) = a.session => tab.entries[a.window].session = a.session)

\* A call that hides a session.
Strikes(a) == a.hook = "killSession" \/ (a.hook = "dialog" /\ a.window = 0)

\* Every call has its marks.
Shows ==
  /\ \A c \in calls : Hides(c.call) => MarkedBy(c)
  /\ \A c \in calls : Strikes(c.call) => c.call.session \in tab.killed
  /\ \A c \in calls : c.call.hook = "rename" => NamedBy(c)
  /\ tab.target # NoCall => Aimed(tab.target)

\* The inductive invariant.
RowInv == RowTypes /\ Apart /\ Asked /\ Onward /\ Agree /\ Shows

\* The marks on a row.
Ses(t, w) == t.entries[w].session
Kil(t, w) == t.entries[w].killed
Pen(t, w) == t.entries[w].pending

\* Two tabs that differ in their entries only, among what matters here; and in their refs only.
Same(t, u) ==
  /\ u \in TabOf(u)
  /\ u.raw = t.raw /\ u.killed = t.killed /\ u.last = t.last /\ u.target = t.target
Alike(t, u) ==
  /\ u \in TabOf(u)
  /\ u.raw = t.raw /\ u.killed = t.killed /\ u.target = t.target /\ u.entries = t.entries

\* A call is about the entry of its window only in the session it means.
Hit(t, c, w) == w = c.window /\ Ses(t, w) = c.session

\* A tab in which that entry has another mark or another name.
Changed(t, u, c, field, value) ==
  /\ Same(t, u)
  /\ \A w \in WindowId :
       /\ Ses(u, w) = Ses(t, w)
       /\ Kil(u, w) = IF Hit(t, c, w) /\ field = "killed" THEN value ELSE Kil(t, w)
       /\ Pen(u, w) = IF Hit(t, c, w) /\ field = "pending" THEN value ELSE Pen(t, w)

\* What is no session.
LEMMA NoSession ==
  /\ Unborn \notin Session /\ Gone \notin Session /\ NoName \notin Session
  /\ Unborn # Gone /\ NoName \notin Name
BY RowBounds DEF Unborn, Gone, NoName

\* Changing one field of an entry leaves the others, and the entries of other windows.
LEMMA ChangeFacts ==
  ASSUME NEW t, t \in TabOf(t), NEW c \in Call, NEW field, NEW value,
         \/ field = "killed" /\ value \in BOOLEAN
         \/ field = "pending" /\ value \in Name \cup {NoName}
  PROVE  Changed(t, Change(t, c, field, value), c, field, value)
<1> DEFINE u == Change(t, c, field, value)
<1>0. c # NoCall
  BY NoSession DEF Call, NoCall
<1>1. CASE c.window # 0 /\ t.entries[c.window].session = c.session
  <2> DEFINE e == t.entries[c.window]
             f == [e EXCEPT ![field] = value]
  <2>1. c.window \in WindowId /\ c.session \in Session
    BY <1>1 DEF Call
  <2>2. e \in [session : Session, killed : BOOLEAN, name : Name, pending : Name \cup {NoName}]
    BY <1>1, <2>1, NoSession DEF TabOf, Entry, NoEntry
  <2>3. /\ f \in Entry /\ f.session = e.session
        /\ f.killed = IF field = "killed" THEN value ELSE e.killed
        /\ f.pending = IF field = "pending" THEN value ELSE e.pending
    BY <2>2 DEF Entry
  <2>4. u = [t EXCEPT !.entries = [t.entries EXCEPT ![c.window] = f]]
    BY <1>0, <1>1, <2>1 DEF Change, TabOf
  <2> HIDE DEF f, u
  <2>5. /\ u.entries = [t.entries EXCEPT ![c.window] = f] /\ u.raw = t.raw /\ u.killed = t.killed
        /\ u.last = t.last /\ u.target = t.target /\ u.ids = t.ids /\ u.mounted = t.mounted
        /\ u.ghosts = t.ghosts /\ u.renamed = t.renamed
    BY <2>4 DEF TabOf
  <2>6. u \in TabOf(u)
    BY <2>1, <2>3, <2>4, <2>5 DEF TabOf
  <2>7. ASSUME NEW w \in WindowId
        PROVE  u.entries[w] = IF w = c.window THEN f ELSE t.entries[w]
    BY <2>1, <2>5 DEF TabOf
  <2>8. QED
    BY <1>1, <2>3, <2>5, <2>6, <2>7 DEF Changed, Same, Hit, Ses, Kil, Pen, u
<1>2. CASE ~(c.window # 0 /\ t.entries[c.window].session = c.session)
  <2>1. u = t
    BY <1>2 DEF Change
  <2>2. ASSUME NEW w \in WindowId PROVE ~Hit(t, c, w)
    BY <1>2 DEF Hit, Ses, WindowId
  <2>3. QED
    BY <2>1, <2>2 DEF Changed, Same
<1>3. QED
  BY <1>1, <1>2

\* A snapshot replaces what is known of the windows; the mark of a window that stays in
\* its session stays.
LEMMA SetWindowsFacts ==
  ASSUME NEW t, t \in TabOf(t), NEW world \in World
  PROVE  /\ Same(t, SetWindows(t, world))
         /\ \A w \in WindowId : world[w].home \in Session =>
              /\ Ses(SetWindows(t, world), w) = world[w].home
              /\ Ses(t, w) = world[w].home =>
                   /\ Kil(SetWindows(t, world), w) = Kil(t, w)
                   /\ Pen(SetWindows(t, world), w) = Pen(t, w)
<1> DEFINE u == SetWindows(t, world)
           E(w) == LET e == t.entries[w]
                       s == world[w].home
                   IN IF s \in Session
                      THEN [session |-> s, name |-> world[w].name,
                            killed |-> e.session = s /\ e.killed,
                            pending |-> IF e.session = s THEN e.pending ELSE NoName]
                      ELSE IF e.session \in Sessions(world) THEN NoEntry ELSE e
           es == [w \in WindowId |-> E(w)]
<1>1. u = [t EXCEPT !.entries = es, !.ghosts = Reconciled(t.ghosts, t, world)]
  BY DEF SetWindows, TabOf
<1>2. ASSUME NEW w \in WindowId PROVE E(w) \in Entry
  <2>1. t.entries[w] \in Entry /\ world[w].name \in Name
    BY DEF TabOf, World
  <2>2. CASE world[w].home \in Session
    <3>1. (t.entries[w].session = world[w].home /\ t.entries[w].killed) \in BOOLEAN
      OBVIOUS
    <3>2. (IF t.entries[w].session = world[w].home THEN t.entries[w].pending ELSE NoName) \in Name \cup {NoName}
      BY <2>1 DEF Entry, NoEntry
    <3>3. QED
      BY <2>1, <2>2, <3>1, <3>2 DEF Entry
  <2>3. CASE world[w].home \notin Session
    BY <2>1, <2>3 DEF Entry
  <2>4. QED
    BY <2>2, <2>3
<1>3. es \in [WindowId -> Entry]
  BY <1>2
<1> HIDE DEF u, es
<1>4. /\ u.entries = es /\ u.raw = t.raw /\ u.killed = t.killed /\ u.last = t.last
      /\ u.target = t.target /\ u \in TabOf(u)
  BY <1>1, <1>3 DEF TabOf
<1>5. ASSUME NEW w \in WindowId, world[w].home \in Session
      PROVE  /\ Ses(u, w) = world[w].home
             /\ Ses(t, w) = Ses(u, w) => Kil(u, w) = Kil(t, w) /\ Pen(u, w) = Pen(t, w)
  <2>1. u.entries[w] = E(w)
    BY <1>4 DEF es
  <2>2. t.entries[w] \in Entry
    BY DEF TabOf
  <2>3. t.entries[w].killed \in BOOLEAN
    <3>1. CASE t.entries[w] = NoEntry
      BY <3>1 DEF NoEntry
    <3>2. CASE t.entries[w] \in [session : Session, killed : BOOLEAN, name : Name, pending : Name \cup {NoName}]
      BY <3>2
    <3>3. QED
      BY <2>2, <3>1, <3>2 DEF Entry
  <2>4. QED
    BY <1>5, <2>1, <2>3 DEF Ses, Kil, Pen
<1>6. QED
  BY <1>4, <1>5 DEF u, Same

\* Clearing a session takes its entries away and no other's.
LEMMA ClearFacts ==
  ASSUME NEW t, t \in TabOf(t), NEW s \in Session
  PROVE  /\ Same(t, ClearSession(t, s))
         /\ \A w \in WindowId :
              ClearSession(t, s).entries[w] = IF Ses(t, w) = s THEN NoEntry ELSE t.entries[w]
<1> DEFINE u == ClearSession(t, s)
           es == [w \in WindowId |-> IF t.entries[w].session = s THEN NoEntry ELSE t.entries[w]]
<1>1. u = [t EXCEPT !.entries = es, !.ghosts = SelectSeq(t.ghosts, LAMBDA g : g.session # s)]
  BY DEF ClearSession, TabOf
<1>2. es \in [WindowId -> Entry]
  BY DEF TabOf, Entry
<1> HIDE DEF u, es
<1>3. /\ u.entries = es /\ u.raw = t.raw /\ u.killed = t.killed /\ u.last = t.last
      /\ u.target = t.target /\ u \in TabOf(u)
  BY <1>1, <1>2 DEF TabOf
<1>4. QED
  BY <1>3 DEF u, es, Ses, Same

\* A session is hidden, or shown again.
Struck(t, u, killed) ==
  /\ u \in TabOf(u)
  /\ u.raw = t.raw /\ u.killed = killed /\ u.target = t.target /\ u.entries = t.entries
  /\ u.last = t.last

\* Ghosts, refs and new names of sessions mark no row.
LEMMA GhostFacts ==
  ASSUME NEW t, t \in TabOf(t)
  PROVE  /\ \A s : Alike(t, AddGhost(t, s)) /\ AddGhost(t, s).last = t.last
         /\ \A id : Alike(t, RemoveGhost(t, id)) /\ RemoveGhost(t, id).last = t.last
         /\ Alike(t, Confirmed(t)) /\ Confirmed(t).last = t.last
<1>1. ASSUME NEW s PROVE Alike(t, AddGhost(t, s)) /\ AddGhost(t, s).last = t.last
  <2> DEFINE gs == Append(t.ghosts, [id |-> t.ids + 1, session |-> s, snapshot |-> Known(t, s)])
  <2>1. AddGhost(t, s) = [t EXCEPT !.ids = t.ids + 1, !.ghosts = gs]
    BY DEF AddGhost, TabOf
  <2> HIDE DEF gs
  <2>2. t.ids + 1 \in Nat
    BY DEF TabOf
  <2>3. QED
    BY <2>1, <2>2 DEF Alike, TabOf
<1>2. ASSUME NEW id PROVE Alike(t, RemoveGhost(t, id)) /\ RemoveGhost(t, id).last = t.last
  <2> DEFINE gs == SelectSeq(t.ghosts, LAMBDA g : g.id # id)
  <2>1. RemoveGhost(t, id) = [t EXCEPT !.ghosts = gs]
    BY DEF RemoveGhost, TabOf
  <2> HIDE DEF gs
  <2>2. QED
    BY <2>1 DEF Alike, TabOf
<1>3. Alike(t, Confirmed(t)) /\ Confirmed(t).last = t.last
  <2> DEFINE arrived == {r[1] : r \in {p \in ToSet(t.renamed) : p[2] \in Sessions(t.raw)}}
             rs == SelectSeq(t.renamed, LAMBDA r : r[1] \notin arrived)
  <2>1. Confirmed(t) = [t EXCEPT !.renamed = rs]
    BY DEF Confirmed, TabOf
  <2> HIDE DEF rs
  <2>2. QED
    BY <2>1 DEF Alike, TabOf
<1>4. QED
  BY <1>1, <1>2, <1>3

\* A ref that has been written.
Recalled(t, h, c) == [t EXCEPT !.last[h] = c]

\* Writing a ref marks no row.
LEMMA RefFacts ==
  ASSUME NEW t, t \in TabOf(t), NEW h \in Hook, NEW c \in Call \cup {NoCall}
  PROVE  /\ Alike(t, Recalled(t, h, c))
         /\ \A k \in Hook : Recalled(t, h, c).last[k] = IF k = h THEN c ELSE t.last[k]
<1> DEFINE u == Recalled(t, h, c)
<1> DEFINE ls == [t.last EXCEPT ![h] = c]
<1>1. u = [t EXCEPT !.last = ls]
  BY DEF TabOf, Recalled
<1>2. ls \in [Hook -> Call \cup {NoCall}] /\ \A k \in Hook : ls[k] = IF k = h THEN c ELSE t.last[k]
  BY DEF TabOf
<1> HIDE DEF ls, u
<1>3. Alike(t, u) /\ u.last = ls
  BY <1>1, <1>2 DEF Alike, TabOf
<1>4. QED
  BY <1>2, <1>3 DEF u

\* Hiding a session, or showing it again, touches no row.
LEMMA StrikeFacts ==
  ASSUME NEW t, t \in TabOf(t), NEW killed \in SUBSET Session,
         NEW u, u = [t EXCEPT !.killed = killed]
  PROVE  Struck(t, u, killed)
BY DEF Struck, TabOf

\* The marks on a row and the name on it.
LEMMA MarkFacts ==
  ASSUME NEW t, t \in TabOf(t), NEW c \in Call
  PROVE  /\ Changed(t, KillWindow(t, c), c, "killed", TRUE)
         /\ Changed(t, RestoreWindow(t, c), c, "killed", FALSE)
         /\ Changed(t, ClearRename(t, c), c, "pending", NoName)
         /\ c.to \in Name => Changed(t, RenameWindow(t, c), c, "pending", c.to)
<1>1. Changed(t, Change(t, c, "killed", TRUE), c, "killed", TRUE)
  BY ChangeFacts
<1>2. Changed(t, Change(t, c, "killed", FALSE), c, "killed", FALSE)
  BY ChangeFacts
<1>3. Changed(t, Change(t, c, "pending", NoName), c, "pending", NoName)
  BY ChangeFacts
<1>4. c.to \in Name => Changed(t, Change(t, c, "pending", c.to), c, "pending", c.to)
  BY ChangeFacts
<1>5. QED
  BY <1>1, <1>2, <1>3, <1>4 DEF KillWindow, RestoreWindow, ClearRename, RenameWindow

\* The tab once the call c has shown what it asks for.
ShownAs(t, u, c) ==
  /\ u \in TabOf(u) /\ u.raw = t.raw /\ u.target = t.target
  /\ u.killed = IF Strikes(c) THEN t.killed \cup {c.session} ELSE t.killed
  /\ \A k \in Hook : u.last[k] = IF k = c.hook /\ k # "dialog" THEN c ELSE t.last[k]
  /\ \A w \in WindowId :
       /\ Ses(u, w) = Ses(t, w)
       /\ Kil(u, w) = IF Hides(c) /\ Hit(t, c, w) THEN TRUE ELSE Kil(t, w)
       /\ Pen(u, w) = IF c.hook = "rename" /\ Hit(t, c, w) THEN c.to ELSE Pen(t, w)

\* What a call shows before it is sent.
LEMMA ShownFacts ==
  ASSUME NEW t, t \in TabOf(t), NEW c \in Call, Meant(c), c.hook # "renameSession"
  PROVE  ShownAs(t, Shown(t, c), c)
<1> DEFINE h == c.hook
           v == Recalled(t, h, c)
           u == Shown(t, c)
<1>1. /\ h \in Hook /\ c.session \in Session /\ c.window \in WindowId \cup {0}
      /\ h \in {"kill", "dialog", "killSession", "rename", "create", "move"}
  BY DEF Call, Hook, KillHooks
<1>2. Alike(t, v) /\ \A k \in Hook : v.last[k] = IF k = h THEN c ELSE t.last[k]
  <2>1. c \in Call \cup {NoCall} /\ h \in Hook
    BY <1>1
  <2>2. QED
    BY <2>1, RefFacts
<1>3. v \in TabOf(v) /\ v.killed \cup {c.session} \in SUBSET Session
      /\ t.killed \cup {c.session} \in SUBSET Session /\ v.killed = t.killed
  BY <1>1, <1>2 DEF TabOf, Alike
<1>4. \A w \in WindowId : /\ Ses(v, w) = Ses(t, w) /\ Kil(v, w) = Kil(t, w) /\ Pen(v, w) = Pen(t, w)
                          /\ Hit(v, c, w) = Hit(t, c, w)
  BY <1>2 DEF Alike, Ses, Kil, Pen, Hit
<1>5. CASE h = "kill"
  <2>1. u = KillWindow(v, c)
    BY <1>5 DEF Shown, Recalled
  <2>2. ~Strikes(c) /\ Hides(c) /\ h # "rename" /\ h # "dialog"
    BY <1>5 DEF Strikes, Hides, Meant
  <2> HIDE DEF u, v
  <2>3. Changed(v, u, c, "killed", TRUE)
    BY <1>3, <2>1, MarkFacts
  <2> QED
    BY <1>2, <1>4, <2>2, <2>3 DEF u, Changed, Same, Alike, ShownAs
<1>6. CASE h = "dialog" /\ c.window # 0
  <2>1. u = KillWindow(t, c)
    BY <1>6 DEF Shown, Recalled
  <2>2. ~Strikes(c) /\ Hides(c) /\ h = "dialog" /\ h # "rename"
    BY <1>6 DEF Strikes, Hides
  <2> HIDE DEF u, v
  <2>3. Changed(t, u, c, "killed", TRUE)
    BY <2>1, MarkFacts
  <2> QED
    BY <2>2, <2>3 DEF u, Changed, Same, ShownAs
<1>7. CASE h = "dialog" /\ c.window = 0
  <2>1. u = [t EXCEPT !.killed = t.killed \cup {c.session}]
    BY <1>7 DEF Shown, Recalled, TabOf
  <2>2. Strikes(c) /\ ~Hides(c) /\ h = "dialog" /\ h # "rename"
    BY <1>7 DEF Strikes, Hides
  <2> HIDE DEF u, v
  <2>3. Struck(t, u, t.killed \cup {c.session})
    BY <1>3, <2>1, StrikeFacts
  <2> QED
    BY <2>2, <2>3 DEF u, Struck, ShownAs, Ses, Kil, Pen
<1>8. CASE h = "killSession"
  <2>1. u = [v EXCEPT !.killed = v.killed \cup {c.session}]
    BY <1>3, <1>8 DEF Shown, Recalled, TabOf
  <2>2. Strikes(c) /\ ~Hides(c) /\ h # "dialog" /\ h # "rename"
    BY <1>8 DEF Strikes, Hides
  <2> HIDE DEF u, v
  <2>3. Struck(v, u, v.killed \cup {c.session})
    BY <1>3, <2>1, StrikeFacts
  <2> QED
    BY <1>2, <1>3, <2>2, <2>3 DEF u, Struck, Alike, ShownAs, Ses, Kil, Pen
<1>9. CASE h = "rename"
  <2>1. u = RenameWindow(v, c)
    BY <1>9 DEF Shown, Recalled
  <2>2. ~Strikes(c) /\ ~Hides(c) /\ h # "dialog" /\ c.to \in Name
    BY <1>9 DEF Strikes, Hides, Meant
  <2> HIDE DEF u, v
  <2>3. Changed(v, u, c, "pending", c.to)
    BY <1>3, <2>1, <2>2, MarkFacts
  <2> QED
    BY <1>2, <1>4, <1>9, <2>2, <2>3 DEF u, Changed, Same, Alike, ShownAs
<1>10. CASE h = "create"
  <2>1. u = AddGhost(v, c.session)
    BY <1>10 DEF Shown, Recalled
  <2>2. ~Strikes(c) /\ ~Hides(c) /\ h # "dialog" /\ h # "rename"
    BY <1>10 DEF Strikes, Hides
  <2> HIDE DEF u, v
  <2>3. Alike(v, u) /\ u.last = v.last
    BY <1>3, <2>1, GhostFacts
  <2> QED
    BY <1>2, <2>2, <2>3 DEF u, Alike, ShownAs, Ses, Kil, Pen
<1>11. CASE h = "move"
  <2> DEFINE x == KillWindow(v, c)
  <2>1. u = AddGhost(x, c.to)
    BY <1>11 DEF Shown, Recalled
  <2>2. ~Strikes(c) /\ Hides(c) /\ h # "rename" /\ h # "dialog"
    BY <1>11 DEF Strikes, Hides, Meant
  <2> HIDE DEF u, v
  <2>3. Changed(v, x, c, "killed", TRUE)
    BY <1>3, MarkFacts
  <2> HIDE DEF x
  <2>4. Alike(x, u) /\ u.last = x.last
    BY <2>1, <2>3, GhostFacts DEF Changed, Same
  <2>5. \A w \in WindowId : Ses(u, w) = Ses(x, w) /\ Kil(u, w) = Kil(x, w) /\ Pen(u, w) = Pen(x, w)
    BY <2>4 DEF Alike, Ses, Kil, Pen
  <2> QED
    BY <1>2, <1>4, <2>2, <2>3, <2>4, <2>5 DEF u, Alike, Changed, Same, ShownAs
<1>12. QED
  BY <1>1, <1>5, <1>6, <1>7, <1>8, <1>9, <1>10, <1>11

\* The tab once the answer of the call a has been handled: the marks of a are gone, and
\* where a session was killed its entries.
Takes(a, stage, t, w) == a.hook = "killSession" /\ stage = "done" /\ Ses(t, w) = a.session
\* The marks after the handlers of the call a.
AnsweredAs(t, u, a, stage) ==
  /\ u \in TabOf(u) /\ u.raw = t.raw /\ u.target = t.target
  /\ u.killed = IF a.hook = "killSession" /\ stage = "failed" THEN t.killed \ {a.session} ELSE t.killed
  /\ \A k \in Hook \ {a.hook} : u.last[k] = t.last[k]
  /\ \A w \in WindowId :
       /\ Takes(a, stage, t, w) => Ses(u, w) = NoName
       /\ ~Takes(a, stage, t, w) =>
            /\ Ses(u, w) = Ses(t, w)
            /\ ~(Hides(a) /\ Hit(t, a, w)) \/ (a.hook = "move" /\ stage = "done") => Kil(u, w) = Kil(t, w)
            /\ ~(a.hook = "rename" /\ Hit(t, a, w)) => Pen(u, w) = Pen(t, w)

\* The tab after them.
AfterHandler(t, h, stage) == IF stage = "done" THEN Succeeded(t, h) ELSE RolledBack(t, h)

\* A tab that changes less than it may.
LEMMA AlikeAnswered ==
  ASSUME NEW t, t \in TabOf(t), NEW u, Alike(t, u), NEW a, a.hook # "killSession", NEW stage,
         \A k \in Hook \ {a.hook} : u.last[k] = t.last[k]
  PROVE  AnsweredAs(t, u, a, stage)
<1>1. \A w \in WindowId : Ses(u, w) = Ses(t, w) /\ Kil(u, w) = Kil(t, w) /\ Pen(u, w) = Pen(t, w)
  BY DEF Alike, Ses, Kil, Pen
<1>2. QED
  BY <1>1 DEF Alike, AnsweredAs, Takes

\* What is done to the ref and the ghosts after the rows.
LEMMA ThenAlike ==
  ASSUME NEW t, NEW u, NEW v, NEW a, NEW stage, AnsweredAs(t, u, a, stage), Alike(u, v),
         \A k \in Hook \ {a.hook} : v.last[k] = u.last[k]
  PROVE  AnsweredAs(t, v, a, stage)
<1>1. \A w \in WindowId : Ses(v, w) = Ses(u, w) /\ Kil(v, w) = Kil(u, w) /\ Pen(v, w) = Pen(u, w)
  BY DEF Alike, Ses, Kil, Pen
<1>2. \A k \in Hook \ {a.hook} : v.last[k] = t.last[k]
  BY DEF AnsweredAs
<1>3. QED
  BY <1>1, <1>2 DEF Alike, AnsweredAs

\* A ref that is forgotten leaves the marks as they are.
LEMMA ForgetFacts ==
  ASSUME NEW t, t \in TabOf(t), NEW h \in Hook
  PROVE  Alike(t, Forget(t, h)) /\ \A k \in Hook \ {h} : Forget(t, h).last[k] = t.last[k]
<1>1. Forget(t, h) = Recalled(t, h, NoCall)
  BY DEF Forget, Recalled
<1>2. NoCall \in Call \cup {NoCall}
  OBVIOUS
<1>3. QED
  BY <1>1, <1>2, RefFacts

\* The handlers take back the marks of the call that their ref names, and no other.
LEMMA HandlerFacts ==
  ASSUME NEW t, t \in TabOf(t), NEW a \in Call, NEW stage \in {"done", "failed"},
         a.hook \notin {"dialog", "renameSession"}, t.last[a.hook] = a, Meant(a)
  PROVE  AnsweredAs(t, AfterHandler(t, a.hook, stage), a, stage)
<1> DEFINE h == a.hook
           u == AfterHandler(t, h, stage)
<1>1. /\ h \in Hook /\ a.session \in Session /\ a # NoCall
      /\ h \in {"kill", "killSession", "rename", "create", "move"}
  BY NoSession DEF Call, Hook, KillHooks, NoCall
<1>2. Alike(t, t)
  BY DEF Alike
<1>3. CASE h \in {"kill", "move"}
  <2> DEFINE x == RestoreWindow(t, a)
  <2>1. Changed(t, x, a, "killed", FALSE)
    BY MarkFacts
  <2>2. Hides(a) /\ h # "killSession" /\ h # "rename"
    BY <1>3 DEF Hides, Meant
  <2> HIDE DEF x, u
  <2>3. stage = "failed" \/ h = "kill" => AnsweredAs(t, x, a, stage)
    BY <1>3, <2>1, <2>2 DEF Changed, Same, AnsweredAs, Takes
  <2>4. x \in TabOf(x)
    BY <2>1 DEF Changed, Same
  <2>5. CASE h = "kill" /\ stage = "failed"
    <3>1. u = x
      BY <2>5 DEF AfterHandler, RolledBack, x, u
    <3>2. QED
      BY <2>3, <2>5, <3>1 DEF u
  <2>6. CASE h = "kill" /\ stage = "done"
    <3>1. u = Forget(x, h)
      BY <2>6 DEF AfterHandler, Succeeded, x, u
    <3>2. QED
      BY <1>1, <2>3, <2>4, <2>6, <3>1, ForgetFacts, ThenAlike DEF u
  <2>7. CASE h = "move" /\ stage = "failed"
    <3>1. u = RemoveGhost(x, a.ghost)
      BY <1>1, <2>7 DEF AfterHandler, RolledBack, x, u
    <3>2. Alike(x, u) /\ u.last = x.last
      BY <2>4, <3>1, GhostFacts
    <3>3. QED
      BY <2>3, <2>7, <3>2, ThenAlike DEF u
  <2>8. CASE h = "move" /\ stage = "done"
    <3>1. u = Forget(t, h)
      BY <2>8 DEF AfterHandler, Succeeded, u
    <3>2. QED
      BY <1>1, <2>2, <3>1, ForgetFacts, AlikeAnswered DEF u
  <2>9. QED
    BY <1>3, <2>5, <2>6, <2>7, <2>8
<1>4. CASE h = "rename"
  <2> DEFINE x == ClearRename(t, a)
  <2>1. Changed(t, x, a, "pending", NoName)
    BY MarkFacts
  <2>2. ~Hides(a) /\ h # "killSession"
    BY <1>4 DEF Hides
  <2> HIDE DEF x, u
  <2>3. AnsweredAs(t, x, a, stage)
    BY <1>4, <2>1, <2>2 DEF Changed, Same, AnsweredAs, Takes
  <2>4. x \in TabOf(x)
    BY <2>1 DEF Changed, Same
  <2>5. u = t \/ u = x \/ u = Forget(x, h)
    BY <1>4 DEF AfterHandler, RolledBack, Succeeded, x, u
  <2>6. AnsweredAs(t, t, a, stage)
    BY <1>2, <2>2, AlikeAnswered
  <2>7. AnsweredAs(t, Forget(x, h), a, stage)
    BY <1>1, <2>3, <2>4, ForgetFacts, ThenAlike
  <2>8. QED
    BY <2>3, <2>5, <2>6, <2>7 DEF u
<1>5. CASE h = "create"
  <2> DEFINE x == RemoveGhost(t, a.ghost)
  <2> HIDE DEF x, u
  <2>1. Alike(t, x) /\ x.last = t.last /\ h # "killSession"
    BY <1>5, GhostFacts DEF x
  <2>2. x \in TabOf(x)
    BY <2>1 DEF Alike
  <2>3. u = t \/ u = Forget(x, h) \/ u = Forget(t, h)
    BY <1>5 DEF AfterHandler, RolledBack, Succeeded, x, u
  <2>4. AnsweredAs(t, t, a, stage) /\ AnsweredAs(t, x, a, stage)
    BY <1>2, <2>1, AlikeAnswered
  <2>5. AnsweredAs(t, Forget(x, h), a, stage) /\ AnsweredAs(t, Forget(t, h), a, stage)
    BY <1>1, <2>2, <2>4, ForgetFacts, ThenAlike
  <2>6. QED
    BY <2>3, <2>4, <2>5 DEF u
<1>6. CASE h = "killSession" /\ stage = "failed"
  <2>1. u = [t EXCEPT !.killed = t.killed \ {a.session}]
    BY <1>1, <1>6 DEF AfterHandler, RolledBack, Unmarked, TabOf, u
  <2>2. t.killed \ {a.session} \in SUBSET Session
    BY DEF TabOf
  <2> HIDE DEF u
  <2>3. Struck(t, u, t.killed \ {a.session})
    BY <2>1, <2>2, StrikeFacts
  <2>4. QED
    BY <1>6, <2>3 DEF Struck, AnsweredAs, Takes, Ses, Kil, Pen, u
<1>7. CASE h = "killSession" /\ stage = "done"
  <2> DEFINE x == ClearSession(t, a.session)
  <2>1. u = Forget(x, h)
    BY <1>1, <1>7 DEF AfterHandler, Succeeded, x, u
  <2>2. Same(t, x) /\ \A w \in WindowId : x.entries[w] = IF Ses(t, w) = a.session THEN NoEntry ELSE t.entries[w]
    BY <1>1, ClearFacts
  <2> HIDE DEF u, x
  <2>3. \A w \in WindowId :
          /\ Ses(t, w) = a.session => Ses(x, w) = NoName
          /\ Ses(t, w) # a.session => Ses(x, w) = Ses(t, w) /\ Kil(x, w) = Kil(t, w) /\ Pen(x, w) = Pen(t, w)
    BY <2>2 DEF Ses, Kil, Pen, NoEntry
  <2>4. AnsweredAs(t, x, a, stage)
    BY <1>7, <2>2, <2>3 DEF Same, AnsweredAs, Takes
  <2>5. QED
    BY <1>1, <2>1, <2>2, <2>4, ForgetFacts, ThenAlike DEF Same, u
<1>8. QED
  BY <1>1, <1>3, <1>4, <1>5, <1>6, <1>7

\* The dialog's handlers look at what it is open for by then.
LEMMA DialogFacts ==
  ASSUME NEW t, t \in TabOf(t), NEW stage \in {"done", "failed"}, NEW u,
         u = AfterHandler(t, "dialog", stage)
  PROVE  /\ u \in TabOf(u) /\ u.raw = t.raw /\ u.target = t.target /\ u.last = t.last
         /\ t.target # NoCall /\ t.target.window # 0 => \A w \in WindowId : Ses(u, w) = Ses(t, w)
<1>1. CASE t.target = NoCall
  BY <1>1 DEF AfterHandler, RolledBack, Succeeded
<1>2. CASE t.target # NoCall
  <2>1. t.target \in Call /\ t.target.session \in Session
    BY <1>2 DEF TabOf, Call
  <2>2. CASE t.target.window # 0
    <3>1. u = RestoreWindow(t, t.target)
      BY <1>2, <2>2 DEF AfterHandler, RolledBack, Succeeded
    <3>2. Changed(t, u, t.target, "killed", FALSE)
      BY <2>1, <3>1, MarkFacts
    <3>3. QED
      BY <3>2 DEF Changed, Same
  <2>3. CASE t.target.window = 0
    <3>1. u = Unmarked(t, t.target.session) \/ u = ClearSession(t, t.target.session)
      BY <1>2, <2>3 DEF AfterHandler, RolledBack, Succeeded
    <3>2. CASE u = ClearSession(t, t.target.session)
      BY <2>1, <2>3, <3>2, ClearFacts DEF Same
    <3>3. CASE u = Unmarked(t, t.target.session)
      <4>1. u = [t EXCEPT !.killed = t.killed \ {t.target.session}]
        BY <3>3 DEF Unmarked, TabOf
      <4>2. t.killed \ {t.target.session} \in SUBSET Session
        BY DEF TabOf
      <4>3. QED
        BY <2>3, <4>1, <4>2, StrikeFacts DEF Struck
    <3>4. QED
      BY <3>1, <3>2, <3>3
  <2>4. QED
    BY <2>2, <2>3
<1>3. QED
  BY <1>1, <1>2

\* Where a window may be said to be.
LEMMA Places ==
  ASSUME RowTypes
  PROVE  /\ \A w \in WindowId : /\ Raw(w) \in Session \cup {Unborn, Gone}
                                /\ Wired(w) \in Session \cup {Unborn, Gone}
                                /\ Lives(w) \in Session \cup {Unborn, Gone}
         /\ tab \in TabOf(tab) /\ tab.raw \in World
         /\ \A c \in calls : c.call \in Call /\ c.stage \in {"sent", "done", "failed"}
<1>1. tab.raw \in World /\ tab \in TabOf(tab)
  BY DEF RowTypes, TabOf
<1>2. ASSUME NEW world \in World, NEW w \in WindowId PROVE world[w].home \in Session \cup {Unborn, Gone}
  BY DEF World
<1>3. wire = <<>> \/ wire[1] \in World
  BY DEF RowTypes
<1>4. QED
  BY <1>1, <1>2, <1>3 DEF RowTypes, Raw, Wired, Lives

\* A row that is drawn is of a window nothing is asked of, where it is or was.
LEMMA DrawnRowFacts ==
  ASSUME RowInv, NEW s \in Session, NEW w, w \in DrawnWindows(tab, s)
  PROVE  /\ w \in WindowId /\ w # 0
         /\ Stays(w, s) /\ Raw(w) = s /\ Ses(tab, w) = s
         /\ \A d \in calls : ~(Hides(d.call) /\ d.call.window = w /\ d.call.session = s)
<1>1. /\ w \in WindowId /\ w # 0 /\ Raw(w) = s /\ Ses(tab, w) = s /\ s \notin tab.killed /\ ~Kil(tab, w)
  BY DEF DrawnWindows, Living, Raw, Ses, Kil, WindowId
<1>2. ~Shut(s) /\ ~Hid(w, s)
  BY <1>1 DEF Shut, Hid, Kil
<1>3. Stays(w, s)
  BY <1>1, <1>2 DEF RowInv, Agree
<1>4. ASSUME NEW d \in calls, Hides(d.call), d.call.window = w, d.call.session = s PROVE FALSE
  <2>1. MarkedBy(d)
    BY <1>4 DEF RowInv, Shows
  <2>2. QED
    BY <1>1, <1>2, <1>4, <2>1 DEF MarkedBy
<1>5. QED
  BY <1>1, <1>3, <1>4

\* Nothing is under way of a hook that may start a call.
LEMMA NoneUnderWay ==
  ASSUME RowInv, NEW h, Cardinality(UnderWay(h)) < left.underWay
  PROVE  \A d \in calls : d.call.hook # h
<1>1. IsFiniteSet(UnderWay(h))
  BY FS_Subset DEF RowInv, RowTypes, UnderWay
<1>2. Cardinality(UnderWay(h)) \in Nat /\ (Cardinality(UnderWay(h)) = 0 <=> UnderWay(h) = {})
  BY <1>1, FS_CardinalityType, FS_EmptySet
<1>3. left.underWay \in Nat /\ left.underWay <= 1
  BY DEF RowInv, RowTypes, Budgeted, Apart
<1>4. UnderWay(h) = {}
  BY <1>2, <1>3
<1>5. QED
  BY <1>4 DEF UnderWay

\* The budget, as far as it matters.
LEMMA LeftSpent ==
  ASSUME RowInv, NEW f \in {"calls", "fails", "births", "deaths", "unmounts"},
         left' = [left EXCEPT ![f] = @ - 1]
  PROVE  Budgeted' /\ left'.hooks = left.hooks /\ Apart'
<1>1. Budgeted
  BY DEF RowInv, RowTypes
<1>2. left[f] - 1 \in Int
  BY <1>1 DEF Budgeted
<1>3. QED
  BY <1>1, <1>2 DEF RowInv, Apart, Budgeted

\* A call is made: what it is about is where the tab has it, and nothing else hides it.
LEMMA ExecuteKeeps ==
  ASSUME RowInv, NEW c \in Call, NEW t, Execute(c, t), Meant(c),
         t \in TabOf(t), t.raw = tab.raw, t.killed = tab.killed, t.entries = tab.entries,
         t.last = tab.last, t.target \in {NoCall, tab.target},
         Hides(c) \/ c.hook = "rename" =>
           Stays(c.window, c.session) /\ (Raw(c.window) = c.session => Ses(tab, c.window) = c.session),
         Hides(c) => \A d \in calls : ~(Hides(d.call) /\ d.call.window = c.window /\ d.call.session = c.session),
         c.hook = "killSession" => c.session \notin tab.killed
  PROVE  RowInv'
<1> DEFINE new == [call |-> c, stage |-> "sent"]
<1>1. /\ c.hook \in left.hooks /\ Cardinality(UnderWay(c.hook)) < left.underWay
      /\ tab' = Shown(t, c) /\ calls' = calls \cup {new} /\ left' = [left EXCEPT !.calls = @ - 1]
      /\ tmux' = tmux /\ wire' = wire
  BY DEF Execute
<1> HIDE DEF new
<1>2. new.call = c /\ new.stage = "sent"
  BY DEF new
<1>3. c.hook # "renameSession" /\ c.session \in Session /\ c.hook \in Hook /\ c.window \in WindowId \cup {0}
  BY <1>1 DEF RowInv, Apart, Call
<1>4. ShownAs(t, tab', c)
  BY <1>1, <1>3, ShownFacts
<1>5. \A d \in calls : d.call.hook # c.hook
  BY <1>1, NoneUnderWay
<1>6. \A w \in WindowId : Raw(w)' = Raw(w) /\ Wired(w)' = Wired(w) /\ Lives(w)' = Lives(w)
  BY <1>1, <1>4 DEF Raw, Wired, Lives, ShownAs
<1>7. \A w \in WindowId : Ses(t, w) = Ses(tab, w) /\ Kil(t, w) = Kil(tab, w) /\ Pen(t, w) = Pen(tab, w)
                          /\ Hit(t, c, w) = Hit(tab, c, w)
  BY DEF Ses, Kil, Pen, Hit
<1>8. left'.hooks = left.hooks /\ Apart' /\ Budgeted'
  BY <1>1, LeftSpent
<1>9. RowTypes'
  <2>1. calls' \subseteq [call : Call, stage : {"sent", "done", "failed"}] /\ IsFiniteSet(calls')
    <3>1. new \in [call : Call, stage : {"sent", "done", "failed"}]
      BY DEF new
    <3>2. QED
      BY <1>1, <3>1, FS_AddElement DEF RowInv, RowTypes
  <2>2. tab' \in TabOf(tab')
    BY <1>4 DEF ShownAs
  <2>3. QED
    BY <1>1, <1>8, <2>1, <2>2 DEF RowInv, RowTypes
<1>10. Asked'
  <2>1. \A d \in calls : Meant(d.call)'
    BY <1>8 DEF RowInv, Asked, Meant
  <2>2. Meant(c)'
    BY <1>8 DEF Meant
  <2>3. \A d, e \in calls' : d.call.hook = e.call.hook => d = e
    BY <1>1, <1>2, <1>5 DEF RowInv, Asked
  <2>4. \A d \in calls' : d.call.hook # "dialog" => tab'.last[d.call.hook] = d.call
    <3>1. \A d \in calls : d.call.hook # "dialog" => tab'.last[d.call.hook] = d.call
      <4>1. \A d \in calls : d.call.hook \in Hook
        BY Places DEF RowInv, Call
      <4>2. QED
        BY <1>4, <1>5, <4>1 DEF RowInv, Asked, ShownAs
    <3>2. QED
      BY <1>1, <1>2, <1>3, <1>4, <3>1 DEF ShownAs
  <2>5. tab'.target # NoCall => tab'.target.hook = "dialog" /\ "dialog" \in left'.hooks
    BY <1>4, <1>8 DEF RowInv, Asked, ShownAs
  <2>6. QED
    BY <1>1, <1>2, <2>1, <2>2, <2>3, <2>4, <2>5 DEF Asked
<1>11. Onward'
  BY <1>6 DEF RowInv, Onward
<1>12. ASSUME NEW s \in Session, Shut(s) PROVE Shut(s)'
  BY <1>1, <1>2, <1>4, <1>8, <1>12 DEF Shut, ShownAs
<1>13. ASSUME NEW w \in WindowId, NEW s \in Session, Hid(w, s) PROVE Hid(w, s)'
  BY <1>4, <1>7, <1>13 DEF Hid, ShownAs, Ses, Kil
<1>14. ASSUME NEW w \in WindowId, NEW s PROVE Stays(w, s)' = Stays(w, s)
  BY <1>6 DEF Stays
<1>15. Agree'
  <2>1. ASSUME NEW w \in WindowId, Raw(w) \in Session
        PROVE  \/ Stays(w, Raw(w))'
               \/ "move" \in left'.hooks /\ (Shut(Raw(w))' \/ Hid(w, Raw(w))')
    <3>1. Stays(w, Raw(w)) \/ ("move" \in left.hooks /\ (Shut(Raw(w)) \/ Hid(w, Raw(w))))
      BY <2>1 DEF RowInv, Agree
    <3>2. PICK s \in Session : s = Raw(w) /\ s = Raw(w)'
      BY <1>6, <2>1
    <3>3. QED
      BY <1>8, <1>12, <1>13, <1>14, <3>1, <3>2
  <2>2. QED
    BY <1>6, <2>1 DEF RowInv, Agree
<1>16. ASSUME NEW d \in calls, Hides(d.call) PROVE MarkedBy(d)'
  <2>1. MarkedBy(d) /\ d.call.window \in WindowId /\ d.call.session \in Session
    BY <1>16, Places DEF RowInv, Shows, Hides, Call
  <2>2. \A e \in calls' : Hides(e.call) /\ e.call.window = d.call.window /\ e.call.session = d.call.session => e = d
    BY <1>1, <1>2, <1>16, <2>1 DEF MarkedBy
  <2>3. QED
    BY <1>6, <1>12, <1>13, <1>14, <2>1, <2>2 DEF MarkedBy
<1>17. ASSUME Hides(c) PROVE MarkedBy(new)'
  <2>1. c.window \in WindowId /\ Stays(c.window, c.session)
    BY <1>3, <1>17 DEF Hides
  <2>2. \A e \in calls' : Hides(e.call) /\ e.call.window = c.window /\ e.call.session = c.session => e = new
    BY <1>1, <1>17
  <2>3. Raw(c.window) = c.session => Hid(c.window, c.session)'
    BY <1>4, <1>7, <1>17, <2>1 DEF Hid, Hit, ShownAs, Ses, Kil
  <2>4. Raw(c.window) # c.session => Wired(c.window) # c.session /\ Lives(c.window) # c.session
    BY <1>3, <2>1, NoSession DEF RowInv, Onward, Stays
  <2>5. Raw(c.window) # Unborn
    BY <1>3, <2>1, NoSession DEF Stays
  <2>6. QED
    BY <1>2, <1>6, <1>14, <2>1, <2>2, <2>3, <2>4, <2>5 DEF MarkedBy
<1>18. ASSUME NEW d \in calls, d.call.hook = "rename" PROVE NamedBy(d)'
  <2>1. NamedBy(d) /\ d.call.window \in WindowId /\ d.call.session \in Session
    BY <1>18, Places DEF RowInv, Shows, Asked, Meant, Call
  <2>2. c.hook # "rename"
    BY <1>5, <1>18
  <2>3. Ses(tab', d.call.window) = Ses(tab, d.call.window) /\ Pen(tab', d.call.window) = Pen(tab, d.call.window)
    BY <1>4, <1>7, <2>1, <2>2 DEF ShownAs
  <2>4. QED
    BY <1>6, <1>12, <1>14, <2>1, <2>3 DEF NamedBy, Ses, Pen
<1>19. ASSUME c.hook = "rename" PROVE NamedBy(new)'
  <2>1. c.window \in WindowId /\ Stays(c.window, c.session)
    BY <1>3, <1>19 DEF Meant
  <2>2. Raw(c.window) = c.session => Ses(tab', c.window) = c.session /\ Pen(tab', c.window) = c.to
    BY <1>4, <1>7, <1>19, <2>1 DEF Hit, ShownAs
  <2>3. QED
    BY <1>2, <1>6, <1>14, <2>1, <2>2 DEF NamedBy, Ses, Pen
<1>20. tab'.target # NoCall => Aimed(tab.target)'
  <2>1. SUFFICES ASSUME tab'.target # NoCall, tab'.target.window # 0 PROVE Aimed(tab.target)'
    BY DEF Aimed
  <2>2. tab'.target = tab.target
    BY <1>4, <2>1 DEF ShownAs
  <2>3. tab.target.window \in WindowId /\ Aimed(tab.target)
    BY <2>1, <2>2, Places DEF RowInv, Shows, TabOf, Call
  <2>4. Ses(tab', tab.target.window) = Ses(tab, tab.target.window)
    BY <1>4, <1>7, <2>3 DEF ShownAs
  <2>5. QED
    BY <1>6, <1>14, <2>2, <2>3, <2>4 DEF Aimed, Ses
<1>21. Shows'
  <2>1. \A d \in calls' : Strikes(d.call) => d.call.session \in tab'.killed
    BY <1>1, <1>2, <1>4 DEF RowInv, Shows, ShownAs
  <2>2. \A d \in calls' : Hides(d.call) => MarkedBy(d)'
    BY <1>1, <1>2, <1>16, <1>17
  <2>3. \A d \in calls' : d.call.hook = "rename" => NamedBy(d)'
    BY <1>1, <1>2, <1>18, <1>19
  <2>4. QED
    BY <1>20, <2>1, <2>2, <2>3 DEF Shows
<1>22. QED
  BY <1>8, <1>9, <1>10, <1>11, <1>15, <1>21 DEF RowInv

\* A step of the tab that makes no mark and takes none.
LEMMA TabKeeps ==
  ASSUME RowInv, tmux' = tmux, wire' = wire, calls' = calls,
         Budgeted', left'.hooks = left.hooks, Apart',
         tab' \in TabOf(tab'), tab'.raw = tab.raw, tab'.killed = tab.killed, tab'.entries = tab.entries,
         tab'.last = tab.last,
         \/ tab'.target \in {NoCall, tab.target}
         \/ tab'.target.hook = "dialog" /\ "dialog" \in left.hooks /\ Aimed(tab'.target)
  PROVE  RowInv'
<1>1. \A w \in WindowId : Raw(w)' = Raw(w) /\ Wired(w)' = Wired(w) /\ Lives(w)' = Lives(w)
  BY DEF Raw, Wired, Lives
<1>2. \A s : Shut(s)' = Shut(s) /\ \A w \in WindowId : Hid(w, s)' = Hid(w, s) /\ Stays(w, s)' = Stays(w, s)
  BY <1>1 DEF Shut, Hid, Stays
<1>3. RowTypes'
  BY DEF RowInv, RowTypes
<1>4. Asked'
  BY DEF RowInv, Asked, Meant
<1>5. Onward' /\ Agree'
  BY <1>1, <1>2 DEF RowInv, Onward, Agree
<1>6. ASSUME NEW d \in calls
      PROVE  /\ Hides(d.call) => MarkedBy(d)'
             /\ Strikes(d.call) => d.call.session \in tab'.killed
             /\ d.call.hook = "rename" => NamedBy(d)'
  <2>1. d.call.hook = "rename" => d.call.window # 0
    BY DEF RowInv, Asked, Meant
  <2>2. d.call.window \in WindowId \cup {0}
    BY Places DEF RowInv, Call
  <2>3. Hides(d.call) => MarkedBy(d) /\ d.call.window \in WindowId
    BY <2>2 DEF RowInv, Shows, Hides
  <2>4. d.call.hook = "rename" => NamedBy(d) /\ d.call.window \in WindowId
    BY <2>1, <2>2 DEF RowInv, Shows
  <2>5. Hides(d.call) => MarkedBy(d)'
    BY <1>1, <1>2, <2>3 DEF MarkedBy
  <2>6. d.call.hook = "rename" => NamedBy(d)'
    BY <1>1, <1>2, <2>4 DEF NamedBy
  <2>7. QED
    BY <2>5, <2>6 DEF RowInv, Shows
<1>7. tab'.target # NoCall => Aimed(tab.target)'
  <2>1. SUFFICES ASSUME tab'.target # NoCall, tab'.target.window # 0 PROVE Aimed(tab.target)'
    BY DEF Aimed
  <2>2. Aimed(tab'.target)
    BY <2>1 DEF RowInv, Shows
  <2>3. tab'.target.window \in WindowId
    BY <2>1 DEF TabOf, Call
  <2>4. QED
    BY <1>1, <1>2, <2>1, <2>2, <2>3 DEF Aimed
<1>8. Shows'
  BY <1>6, <1>7 DEF Shows
<1>9. QED
  BY <1>3, <1>4, <1>5, <1>8 DEF RowInv

\* Where windows live changes: one ends, one begins, or one moves for the call c, which
\* has then been served.
Ends(w) == Lives(w) \in Session /\ Lives(w)' = Gone
Begins(w) == Lives(w) = Unborn /\ Lives(w)' \in Session
MovesFor(c, w) == c.call.hook = "move" /\ w = c.call.window /\ Lives(w) \in Session /\ Lives(w)' = c.call.to

\* A step of the world that ends, begins or moves windows keeps the invariant.
LEMMA WorldKeeps ==
  ASSUME RowInv, tab' = tab, tmux' \in World,
         wire' = <<>> \/ \E world \in World : wire' = <<world>>,
         Budgeted', left'.hooks = left.hooks, Apart',
         NEW c, NEW stage,
         \/ calls' = calls
         \/ /\ c \in calls /\ c.stage = "sent" /\ stage \in {"done", "failed"}
            /\ calls' = (calls \ {c}) \cup {[c EXCEPT !.stage = stage]},
         \A w \in WindowId :
           /\ \/ Wired(w)' = Wired(w)
              \/ Wired(w) = Lives(w) /\ Wired(w)' = Lives(w)'
           /\ \/ Lives(w)' = Lives(w)
              \/ Ends(w)
              \/ Begins(w)
              \/ calls' # calls /\ stage = "done" /\ MovesFor(c, w),
         calls' # calls /\ stage = "done" /\ c.call.hook = "move" => MovesFor(c, c.call.window)
  PROVE  RowInv'
<1> USE NoSession
<1>1. \A w \in WindowId : Raw(w)' = Raw(w)
  BY DEF Raw
<1>2. /\ \A w \in WindowId : /\ Raw(w) \in Session \cup {Unborn, Gone}
                             /\ Wired(w) \in Session \cup {Unborn, Gone}
                             /\ Lives(w) \in Session \cup {Unborn, Gone}
      /\ \A d \in calls : d.call \in Call /\ d.stage \in {"sent", "done", "failed"}
  BY Places DEF RowInv
<1> DEFINE new == [c EXCEPT !.stage = stage]
<1>3. calls' # calls => /\ c \in calls /\ c.stage = "sent" /\ stage \in {"done", "failed"}
                        /\ calls' = (calls \ {c}) \cup {new}
                        /\ new \in [call : Call, stage : {"sent", "done", "failed"}]
                        /\ new.call = c.call /\ new.stage = stage
  <2>1. calls \subseteq [call : Call, stage : {"sent", "done", "failed"}]
    BY DEF RowInv, RowTypes
  <2>2. QED
    BY <2>1
<1> HIDE DEF new
<1>4. ASSUME NEW d \in calls'
      PROVE  \E e \in calls : /\ e.call = d.call
                              /\ d.stage = e.stage \/ (e = c /\ d.stage = stage /\ calls' # calls /\ e.stage = "sent")
  BY <1>3
<1>5. \A e \in calls : \E d \in calls' : d.call = e.call
  BY <1>3
<1>6. RowTypes'
  <2>1. calls' \subseteq [call : Call, stage : {"sent", "done", "failed"}] /\ IsFiniteSet(calls')
    <3>1. IsFiniteSet(calls) /\ calls \subseteq [call : Call, stage : {"sent", "done", "failed"}]
      BY DEF RowInv, RowTypes
    <3>2. IsFiniteSet(calls \ {c})
      BY <3>1, FS_Subset
    <3>3. IsFiniteSet((calls \ {c}) \cup {new})
      BY <3>2, FS_AddElement
    <3>4. QED
      BY <1>3, <3>1, <3>3
  <2>2. QED
    BY <2>1 DEF RowInv, RowTypes
<1>7. Asked'
  <2>1. \A d \in calls' : Meant(d.call)'
    BY <1>4 DEF RowInv, Asked, Meant
  <2>2. \A d, e \in calls' : d.call.hook = e.call.hook => d = e
    BY <1>3 DEF RowInv, Asked
  <2>3. \A d \in calls' : d.call.hook # "dialog" => tab'.last[d.call.hook] = d.call
    BY <1>4 DEF RowInv, Asked
  <2>4. QED
    BY <2>1, <2>2, <2>3 DEF RowInv, Asked
\* The window that moves is hidden where it was, and no other call is about it there.
<1>8. ASSUME NEW w \in WindowId, calls' # calls, stage = "done", MovesFor(c, w)
      PROVE  /\ "move" \in left.hooks /\ c \in calls
             /\ c.call.to \in Session \ {c.call.session} /\ c.call.session \in Session
             /\ Raw(w) = c.call.session /\ Wired(w) = c.call.session /\ Lives(w) = c.call.session
             /\ Hid(w, c.call.session) \/ Shut(c.call.session)
             /\ \A d \in calls : Hides(d.call) /\ d.call.window = w => d = c
             /\ \A d \in calls : d.call.hook # "rename"
             /\ "dialog" \notin left.hooks
  <2>1. /\ c \in calls /\ c.stage = "sent" /\ c.call.hook = "move" /\ w = c.call.window
        /\ Lives(w) \in Session
    BY <1>3, <1>8 DEF MovesFor
  <2>2. Meant(c.call) /\ c.call.session \in Session
    BY <1>2, <2>1 DEF RowInv, Asked, Call
  <2>3. Hides(c.call)
    BY <2>1, <2>2 DEF Meant, Hides
  <2>4. MarkedBy(c)
    BY <2>1, <2>3 DEF RowInv, Shows
  <2>5. Stays(w, c.call.session)
    BY <2>1, <2>4 DEF MarkedBy
  <2>6. Raw(w) = c.call.session /\ Wired(w) = c.call.session /\ Lives(w) = c.call.session
    BY <2>1, <2>5 DEF Stays, RowInv, Onward
  <2>7. "move" \in left.hooks /\ "dialog" \notin left.hooks /\ "rename" \notin left.hooks
    BY <2>1, <2>2 DEF Meant, RowInv, Apart
  <2>8. ASSUME NEW d \in calls, Hides(d.call), d.call.window = w PROVE d = c
    <3>1. MarkedBy(d) /\ Meant(d.call)
      BY <2>8 DEF RowInv, Shows, Asked
    <3>2. d.call.hook = "move" => d = c
      BY <2>1 DEF RowInv, Asked
    <3>3. d.call.hook # "move" => Stays(w, d.call.session)
      BY <2>8, <3>1 DEF MarkedBy
    <3>4. d.call.hook # "move" => d.call.session = c.call.session
      BY <2>2, <2>6, <3>3 DEF Stays
    <3>5. QED
      BY <2>1, <2>3, <2>4, <2>8, <3>2, <3>4 DEF MarkedBy
  <2>9. \A d \in calls : d.call.hook # "rename"
    BY <2>7 DEF RowInv, Asked, Meant
  <2>10. QED
    BY <2>1, <2>2, <2>4, <2>6, <2>7, <2>8, <2>9 DEF MarkedBy, Meant
<1>9. \A s : Shut(s)' = Shut(s) /\ \A w : Hid(w, s)' = Hid(w, s)
  <2>1. \A s : (\A d \in calls' : d.call.hook = "killSession" => d.call.session # s)
               <=> (\A d \in calls : d.call.hook = "killSession" => d.call.session # s)
    <3>1. ASSUME NEW s, NEW e \in calls, e.call.hook = "killSession", e.call.session = s
          PROVE  \E d \in calls' : d.call.hook = "killSession" /\ d.call.session = s
      BY <1>5, <3>1
    <3>2. ASSUME NEW s, NEW d \in calls', d.call.hook = "killSession", d.call.session = s
          PROVE  \E e \in calls : e.call.hook = "killSession" /\ e.call.session = s
      BY <1>4, <3>2
    <3>3. QED
      BY <3>1, <3>2
  <2>2. QED
    BY <2>1 DEF Shut, Hid
<1>10. ASSUME NEW w \in WindowId, NEW s \in Session, Stays(w, s),
              ~(calls' # calls /\ stage = "done" /\ MovesFor(c, w))
       PROVE  Stays(w, s)'
  BY <1>1, <1>10 DEF Stays, Ends, Begins
<1>11. Onward'
  <2>1. ASSUME NEW w \in WindowId
        PROVE  /\ Lives(w)' = Unborn => Wired(w)' = Unborn
               /\ Wired(w)' = Unborn => Raw(w)' = Unborn
               /\ Raw(w)' = Gone => Wired(w)' = Gone
               /\ Wired(w)' = Gone => Lives(w)' = Gone
    <3>1. /\ Lives(w) = Unborn => Wired(w) = Unborn
          /\ Wired(w) = Unborn => Raw(w) = Unborn
          /\ Raw(w) = Gone => Wired(w) = Gone
          /\ Wired(w) = Gone => Lives(w) = Gone
      BY DEF RowInv, Onward
    <3>2. CASE calls' # calls /\ stage = "done" /\ MovesFor(c, w)
      BY <1>1, <1>8, <3>2 DEF MovesFor
    <3>3. CASE Lives(w)' = Lives(w) \/ Ends(w) \/ Begins(w)
      BY <1>1, <3>1, <3>3 DEF Ends, Begins
    <3>4. QED
      BY <3>2, <3>3
  <2>2. QED
    BY <2>1 DEF Onward
<1>12. Agree'
  <2>1. ASSUME NEW w \in WindowId
        PROVE  /\ Raw(w)' \in Session =>
                    \/ Stays(w, Raw(w))'
                    \/ "move" \in left'.hooks /\ (Shut(Raw(w))' \/ Hid(w, Raw(w))')
               /\ Wired(w)' \in Session /\ Wired(w)' # Raw(w)' => Lives(w)' \in {Wired(w)', Gone}
    <3>1. /\ Raw(w) \in Session =>
               \/ Stays(w, Raw(w))
               \/ "move" \in left.hooks /\ (Shut(Raw(w)) \/ Hid(w, Raw(w)))
          /\ Wired(w) \in Session /\ Wired(w) # Raw(w) => Lives(w) \in {Wired(w), Gone}
          /\ Lives(w) = Unborn => Wired(w) = Unborn
      BY DEF RowInv, Agree, Onward
    <3>2. PICK s : s = Raw(w) /\ s = Raw(w)'
      BY <1>1
    <3>3. CASE calls' # calls /\ stage = "done" /\ MovesFor(c, w)
      <4>1. /\ "move" \in left.hooks /\ (Hid(w, s) \/ Shut(s))
            /\ s = Wired(w) /\ s = Lives(w) /\ Lives(w)' \in Session
        BY <1>8, <3>2, <3>3 DEF MovesFor
      <4>2. QED
        BY <1>8, <1>9, <3>2, <3>3, <4>1
    <3>4. CASE ~(calls' # calls /\ stage = "done" /\ MovesFor(c, w))
      <4>1. s \in Session =>
               \/ Stays(w, s)'
               \/ "move" \in left'.hooks /\ (Shut(s)' \/ Hid(w, s)')
        BY <1>9, <1>10, <3>1, <3>2, <3>4
      <4>2. Wired(w)' \in Session /\ Wired(w)' # s => Lives(w)' \in {Wired(w)', Gone}
        BY <3>1, <3>2, <3>4 DEF Ends, Begins
      <4>3. QED
        BY <3>2, <4>1, <4>2
    <3>5. QED
      BY <3>3, <3>4
  <2>2. QED
    BY <2>1 DEF Agree
<1>13. ASSUME NEW d \in calls', Hides(d.call) PROVE MarkedBy(d)'
  <2>1. PICK e \in calls : /\ e.call = d.call
                           /\ d.stage = e.stage \/ (e = c /\ d.stage = stage /\ calls' # calls /\ e.stage = "sent")
    BY <1>4
  <2>2. MarkedBy(e) /\ Hides(e.call) /\ Meant(e.call)
    BY <1>13, <2>1 DEF RowInv, Shows, Asked
  <2> DEFINE w == d.call.window
             s == d.call.session
  <2>3. w \in WindowId /\ s \in Session
    BY <1>2, <1>13, <2>1 DEF Hides, Call
  <2>4. \A f \in calls' : Hides(f.call) /\ f.call.window = w /\ f.call.session = s => f = d
    <3>1. ASSUME NEW f \in calls', Hides(f.call), f.call.window = w, f.call.session = s PROVE f = d
      <4>1. PICK g \in calls : g.call = f.call
        BY <1>4
      <4>2. g = e
        BY <2>1, <2>2, <3>1, <4>1 DEF MarkedBy
      <4>3. QED
        BY <1>7, <2>1, <4>1, <4>2 DEF Asked
    <3>2. QED
      BY <3>1
  <2>5. (Raw(w) = s => Hid(w, s) \/ Shut(s)) /\ Raw(w) # Unborn
    BY <2>1, <2>2 DEF MarkedBy
  <2>6. CASE calls' # calls /\ stage = "done" /\ MovesFor(c, w)
    <3>1. e = c /\ c.call.hook = "move" /\ c.call.session = s /\ Raw(w) = s /\ Lives(w)' = c.call.to
          /\ c.call.to # s
      BY <1>8, <2>1, <2>2, <2>3, <2>6 DEF MovesFor
    <3>2. c \in calls /\ c.stage = "sent" /\ c \notin calls'
      <4>1. c # new
        BY <1>3, <2>6
      <4>2. QED
        BY <1>3, <2>6, <4>1
    <3>3. d.stage = stage
      <4>1. d \in (calls \ {c}) \cup {new}
        BY <1>3, <2>6
      <4>2. d \in calls => d = c
        BY <2>1, <3>1 DEF RowInv, Asked
      <4>3. QED
        BY <1>3, <2>6, <4>1, <4>2
    <3>4. QED
      BY <1>1, <1>9, <2>1, <2>3, <2>4, <2>5, <2>6, <3>1, <3>3 DEF MarkedBy
  <2>7. CASE ~(calls' # calls /\ stage = "done" /\ MovesFor(c, w))
    <3>1. d.stage = e.stage \/ ~(d.call.hook = "move" /\ d.stage = "done")
      BY <2>1, <2>7
    <3>2. Raw(w) # s => Wired(w)' # s /\ Lives(w)' # s
      <4>1. Raw(w) # s => Wired(w) # s /\ Lives(w) # s /\ Lives(w) # Unborn
        BY <2>1, <2>2, <2>3, <2>5 DEF MarkedBy, RowInv, Onward
      <4>2. QED
        BY <2>3, <2>7, <4>1 DEF Ends, Begins
    <3>3. IF e.call.hook = "move" /\ e.stage = "done" THEN Lives(w) # s ELSE Stays(w, s)
      BY <2>1, <2>2 DEF MarkedBy
    <3>4. Lives(w) # Unborn
      BY <2>3, <2>5 DEF RowInv, Onward
    <3>5. CASE d.call.hook = "move" /\ d.stage = "done"
      <4>1. e.stage = "done"
        BY <2>1, <3>1, <3>5
      <4>2. Lives(w) # s
        BY <2>1, <3>3, <3>5, <4>1
      <4>3. Lives(w)' # s
        BY <2>3, <2>7, <3>4, <4>2 DEF Ends, Begins
      <4>4. QED
        BY <1>1, <1>9, <2>3, <2>4, <2>5, <3>2, <3>5, <4>3 DEF MarkedBy
    <3>6. CASE ~(d.call.hook = "move" /\ d.stage = "done")
      <4>1. Stays(w, s)
        BY <2>1, <3>3, <3>6
      <4>2. Stays(w, s)'
        BY <1>10, <2>3, <2>7, <4>1
      <4>3. QED
        BY <1>1, <1>9, <2>3, <2>4, <2>5, <3>2, <3>6, <4>2 DEF MarkedBy
    <3>7. QED
      BY <3>5, <3>6
  <2>8. QED
    BY <2>6, <2>7
<1>14. ASSUME NEW d \in calls', d.call.hook = "rename" PROVE NamedBy(d)'
  <2>1. PICK e \in calls : e.call = d.call
    BY <1>4
  <2>2. NamedBy(e) /\ Meant(e.call) /\ e.call \in Call
    BY <1>2, <1>14, <2>1 DEF RowInv, Shows, Asked
  <2> DEFINE w == d.call.window
             s == d.call.session
  <2>3. w \in WindowId /\ s \in Session
    BY <1>14, <2>1, <2>2 DEF Meant, Call
  <2>4. ~(calls' # calls /\ stage = "done" /\ MovesFor(c, w))
    BY <1>8, <1>14, <2>1, <2>3
  <2>5. Stays(w, s)'
    BY <1>10, <2>1, <2>2, <2>3, <2>4 DEF NamedBy
  <2>6. QED
    BY <1>1, <1>9, <2>1, <2>2, <2>3, <2>5 DEF NamedBy
<1>15. tab'.target # NoCall => Aimed(tab.target)'
  <2>1. SUFFICES ASSUME tab.target # NoCall, tab.target.window # 0 PROVE Aimed(tab.target)'
    BY DEF Aimed
  <2> DEFINE w == tab.target.window
             s == tab.target.session
  <2>2. w \in WindowId /\ s \in Session /\ Aimed(tab.target) /\ "dialog" \in left.hooks
    BY <2>1, Places DEF RowInv, Shows, Asked, TabOf, Call
  <2>3. Stays(w, s)'
    BY <1>8, <1>10, <2>1, <2>2 DEF Aimed
  <2>4. QED
    BY <1>1, <2>1, <2>2, <2>3 DEF Aimed
<1>16. Shows'
  <2>1. \A d \in calls' : Strikes(d.call) => d.call.session \in tab'.killed
    BY <1>4 DEF RowInv, Shows
  <2>2. QED
    BY <1>13, <1>14, <1>15, <2>1 DEF Shows
<1>17. QED
  BY <1>6, <1>7, <1>11, <1>12, <1>16 DEF RowInv

\* A snapshot arrives: where a window stays in its session, its marks stay too.
LEMMA SyncKeeps == RowInv /\ Sync => RowInv'
<1> SUFFICES ASSUME RowInv, Sync PROVE RowInv'
  OBVIOUS
<1> USE NoSession
<1>1. PICK world \in World : wire = <<world>>
  BY DEF Sync, RowInv, RowTypes
<1> DEFINE t == [tab EXCEPT !.raw = world]
           u == SetWindows(t, world)
<1>2. tab \in TabOf(tab)
  BY DEF RowInv, RowTypes
<1>3. /\ t \in TabOf(t) /\ t.raw = world /\ t.entries = tab.entries /\ t.killed = tab.killed
      /\ t.last = tab.last /\ t.target = tab.target
  BY <1>2 DEF TabOf
<1>4. tab' = Confirmed(u) /\ wire' = <<>> /\ tmux' = tmux /\ calls' = calls /\ left' = left
  BY <1>1 DEF Sync
<1> HIDE DEF t
<1>5. /\ Same(t, u)
      /\ \A w \in WindowId : world[w].home \in Session =>
           /\ Ses(u, w) = world[w].home
           /\ Ses(t, w) = world[w].home => Kil(u, w) = Kil(t, w) /\ Pen(u, w) = Pen(t, w)
  BY <1>3, SetWindowsFacts
<1> HIDE DEF u
<1>6. Alike(u, tab') /\ tab'.last = u.last
  BY <1>4, <1>5, GhostFacts DEF Same
<1>7. /\ tab' \in TabOf(tab') /\ tab'.raw = world /\ tab'.killed = tab.killed
      /\ tab'.last = tab.last /\ tab'.target = tab.target
  BY <1>3, <1>5, <1>6 DEF Alike, Same
<1>8. \A w \in WindowId : Raw(w)' = Wired(w) /\ Wired(w)' = Lives(w) /\ Lives(w)' = Lives(w) /\ world[w].home = Wired(w)
  BY <1>1, <1>4, <1>7 DEF Raw, Wired, Lives
<1>9. \A w \in WindowId : Wired(w) \in Session =>
           /\ Ses(tab', w) = Wired(w)
           /\ Ses(tab, w) = Wired(w) => Kil(tab', w) = Kil(tab, w) /\ Pen(tab', w) = Pen(tab, w)
  <2>1. \A w \in WindowId : /\ Ses(tab', w) = Ses(u, w) /\ Kil(tab', w) = Kil(u, w) /\ Pen(tab', w) = Pen(u, w)
                            /\ Ses(tab, w) = Ses(t, w) /\ Kil(tab, w) = Kil(t, w) /\ Pen(tab, w) = Pen(t, w)
    BY <1>3, <1>6 DEF Alike, Ses, Kil, Pen
  <2>2. QED
    BY <1>5, <1>8, <2>1
<1>10. \A s : Shut(s)' = Shut(s)
  BY <1>4, <1>7 DEF Shut
<1>11. ASSUME NEW w \in WindowId, NEW s \in Session, Hid(w, s), Wired(w) = s PROVE Hid(w, s)'
  BY <1>9, <1>11 DEF Hid, Ses, Kil
<1>12. RowTypes'
  BY <1>4, <1>7 DEF RowInv, RowTypes, Budgeted
<1>13. Apart' /\ Asked'
  BY <1>4, <1>7 DEF RowInv, Apart, Asked, Meant
<1>14. Onward'
  BY <1>8 DEF RowInv, Onward
<1>15. ASSUME NEW w \in WindowId, NEW s \in Session, Stays(w, s) PROVE Stays(w, s)'
  BY <1>8, <1>15 DEF Stays
<1>16. Agree'
  <2>1. ASSUME NEW w \in WindowId, Raw(w)' \in Session
        PROVE  \/ Stays(w, Raw(w))'
               \/ "move" \in left'.hooks /\ (Shut(Raw(w))' \/ Hid(w, Raw(w))')
    <3>1. PICK s \in Session : s = Raw(w)' /\ s = Wired(w)
      BY <1>8, <2>1
    <3>2. CASE s = Raw(w)
      <4>1. Stays(w, s) \/ ("move" \in left.hooks /\ (Shut(s) \/ Hid(w, s)))
        BY <3>2 DEF RowInv, Agree
      <4>2. QED
        BY <1>4, <1>10, <1>11, <1>15, <3>1, <4>1
    <3>3. CASE s # Raw(w)
      <4>1. Lives(w) \in {s, Gone}
        BY <3>1, <3>3 DEF RowInv, Agree
      <4>2. Stays(w, s)'
        BY <1>8, <3>1, <4>1 DEF Stays
      <4>3. QED
        BY <3>1, <4>2
    <3>4. QED
      BY <3>2, <3>3
  <2>2. QED
    BY <1>8, <2>1 DEF Agree
<1>17. ASSUME NEW d \in calls, Hides(d.call) PROVE MarkedBy(d)'
  <2> DEFINE w == d.call.window
             s == d.call.session
  <2>1. MarkedBy(d) /\ w \in WindowId /\ s \in Session
    BY <1>17, Places DEF RowInv, Shows, Hides, Call
  <2>2. /\ Lives(w) = Unborn => Wired(w) = Unborn
        /\ Wired(w) = Unborn => Raw(w) = Unborn
        /\ Raw(w) = Gone => Wired(w) = Gone
        /\ Wired(w) = Gone => Lives(w) = Gone
    BY <2>1 DEF RowInv, Onward
  <2>3. Wired(w) = s => Hid(w, s)' \/ Shut(s)'
    BY <1>10, <1>11, <2>1 DEF MarkedBy
  <2>4. Wired(w) # s => Lives(w) # s
    <3>1. CASE Raw(w) # s
      BY <2>1, <3>1 DEF MarkedBy
    <3>2. CASE Stays(w, s)
      BY <2>1, <2>2, <3>2 DEF Stays
    <3>3. QED
      BY <2>1, <3>1, <3>2 DEF MarkedBy
  <2>5. QED
    BY <1>4, <1>8, <1>15, <2>1, <2>2, <2>3, <2>4 DEF MarkedBy
<1>18. ASSUME NEW d \in calls, d.call.hook = "rename" PROVE NamedBy(d)'
  <2> DEFINE w == d.call.window
             s == d.call.session
  <2>1. NamedBy(d) /\ w \in WindowId /\ s \in Session
    BY <1>18, Places DEF RowInv, Shows, Asked, Meant, Call
  <2>2. Wired(w) = s => Raw(w) = s
    BY <2>1 DEF RowInv, Onward, NamedBy, Stays
  <2>3. Wired(w) = s => Shut(s)' \/ (Ses(tab', w) = s /\ Pen(tab', w) = d.call.to)
    <3>1. Wired(w) = s => Shut(s) \/ (Ses(tab, w) = s /\ Pen(tab, w) = d.call.to)
      BY <2>1, <2>2 DEF NamedBy, Ses, Pen
    <3>2. QED
      BY <1>9, <1>10, <2>1, <3>1
  <2>4. Stays(w, s)'
    BY <1>15, <2>1 DEF NamedBy
  <2>5. QED
    BY <1>8, <2>1, <2>3, <2>4 DEF NamedBy, Ses, Pen
<1>19. tab'.target # NoCall => Aimed(tab.target)'
  <2>1. SUFFICES ASSUME tab'.target # NoCall, tab'.target.window # 0 PROVE Aimed(tab.target)'
    BY DEF Aimed
  <2> DEFINE w == tab.target.window
             s == tab.target.session
  <2>2. w \in WindowId /\ s \in Session /\ Aimed(tab.target)
    BY <1>2, <1>7, <2>1 DEF RowInv, Shows, TabOf, Call
  <2>3. Stays(w, s)' /\ (Wired(w) = s => Ses(tab', w) = s)
    BY <1>7, <1>9, <1>15, <2>1, <2>2 DEF Aimed
  <2>4. QED
    BY <1>7, <1>8, <2>2, <2>3 DEF Aimed, Ses
<1>20. Shows'
  <2>1. \A d \in calls' : Strikes(d.call) => d.call.session \in tab'.killed
    BY <1>4, <1>7 DEF RowInv, Shows
  <2>2. QED
    BY <1>4, <1>17, <1>18, <1>19, <2>1 DEF Shows
<1>21. QED
  BY <1>12, <1>13, <1>14, <1>16, <1>20 DEF RowInv

\* An answer is handled: the marks it takes are of its own call.
LEMMA AnswerKeeps == ASSUME RowInv, NEW c \in calls, Answer(c) PROVE RowInv'
<1> USE NoSession
<1> DEFINE a == c.call
<1>1. /\ a \in Call /\ a.hook \in Hook /\ a.session \in Session /\ c.stage \in {"done", "failed"}
      /\ Meant(a) /\ a.hook # "renameSession" /\ tab \in TabOf(tab)
  BY Places DEF RowInv, Answer, Asked, Meant, Apart, Call
<1>2. /\ tab' = AfterHandler(tab, a.hook, c.stage) /\ calls' = calls \ {c}
      /\ tmux' = tmux /\ wire' = wire /\ left' = left
  BY DEF Answer, AfterHandler
<1>3. \A d \in calls' : d \in calls /\ d # c /\ d.call.hook # a.hook
  BY <1>2 DEF RowInv, Asked
<1>4. IsFiniteSet(calls') /\ calls' \subseteq [call : Call, stage : {"sent", "done", "failed"}]
  <2>1. IsFiniteSet(calls) /\ calls \subseteq [call : Call, stage : {"sent", "done", "failed"}]
    BY DEF RowInv, RowTypes
  <2>2. QED
    BY <1>2, <2>1, FS_Subset
<1>5. Apart' /\ Budgeted'
  BY <1>2 DEF RowInv, Apart, RowTypes, Budgeted
<1>6. CASE a.hook = "dialog"
  <2>1. /\ tab' \in TabOf(tab') /\ tab'.raw = tab.raw /\ tab'.target = tab.target /\ tab'.last = tab.last
        /\ tab.target # NoCall /\ tab.target.window # 0 => \A w \in WindowId : Ses(tab', w) = Ses(tab, w)
    BY <1>1, <1>2, <1>6, DialogFacts
  <2>2. left.hooks \subseteq {"dialog", "create"}
    BY <1>1, <1>6 DEF Meant, RowInv, Apart
  <2>3. \A d \in calls' : d.call.hook = "create"
    BY <1>3, <1>6, <2>2 DEF RowInv, Asked, Meant
  <2>4. \A w \in WindowId : Raw(w)' = Raw(w) /\ Wired(w)' = Wired(w) /\ Lives(w)' = Lives(w)
    BY <1>2, <2>1 DEF Raw, Wired, Lives
  <2>5. RowTypes'
    BY <1>2, <1>4, <1>5, <2>1 DEF RowInv, RowTypes
  <2>6. Asked'
    BY <1>2, <1>3, <2>1 DEF RowInv, Asked, Meant
  <2>7. Onward'
    BY <2>4 DEF RowInv, Onward
  <2>8. Agree'
    <3>1. \A w \in WindowId : Raw(w) \in Session => Stays(w, Raw(w))
      BY <2>2 DEF RowInv, Agree
    <3>2. \A w \in WindowId : Raw(w) \in Session => Stays(w, Raw(w))'
      BY <2>4, <3>1 DEF Stays
    <3>3. QED
      BY <2>4, <3>2 DEF RowInv, Agree
  <2>9. tab'.target # NoCall => Aimed(tab.target)'
    <3>1. SUFFICES ASSUME tab.target # NoCall, tab.target.window # 0 PROVE Aimed(tab.target)'
      BY <2>1 DEF Aimed
    <3> DEFINE w == tab.target.window
    <3>2. w \in WindowId /\ Aimed(tab.target)
      BY <1>1, <3>1 DEF RowInv, Shows, TabOf, Call
    <3>3. Ses(tab', w) = Ses(tab, w)
      BY <2>1, <3>1, <3>2
    <3>4. QED
      BY <2>1, <2>4, <3>1, <3>2, <3>3 DEF Aimed, Stays, Ses
  <2>10. \A d \in calls' : ~Hides(d.call) /\ ~Strikes(d.call) /\ d.call.hook # "rename"
    BY <2>3 DEF Hides, Strikes
  <2>11. Shows'
    BY <2>9, <2>10 DEF Shows
  <2>12. QED
    BY <1>5, <2>5, <2>6, <2>7, <2>8, <2>11 DEF RowInv
<1>7. CASE a.hook # "dialog"
  <2>1. AnsweredAs(tab, tab', a, c.stage)
    <3>1. tab.last[a.hook] = a
      BY <1>7 DEF RowInv, Asked
    <3>2. QED
      BY <1>1, <1>2, <1>7, <3>1, HandlerFacts
  <2>2. \A w \in WindowId : Raw(w)' = Raw(w) /\ Wired(w)' = Wired(w) /\ Lives(w)' = Lives(w)
    BY <1>2, <2>1 DEF Raw, Wired, Lives, AnsweredAs
  <2>3. \A w \in WindowId : \A s : Stays(w, s)' = Stays(w, s)
    BY <2>2 DEF Stays
  <2>4. ASSUME NEW s \in Session, Shut(s) PROVE Shut(s)'
    BY <1>2, <1>3, <2>1, <2>4 DEF Shut, AnsweredAs
  <2>5. a.hook = "killSession" /\ c.stage = "done" => Shut(a.session)'
    <3>1. SUFFICES ASSUME a.hook = "killSession", c.stage = "done" PROVE Shut(a.session)'
      OBVIOUS
    <3>2. a.session \in tab.killed
      BY <3>1 DEF RowInv, Shows, Strikes
    <3>3. "dialog" \notin left.hooks
      BY <1>1, <3>1 DEF Meant, RowInv, Apart
    <3>4. QED
      BY <1>2, <1>3, <2>1, <3>1, <3>2, <3>3 DEF Shut, AnsweredAs
  <2>6. ASSUME NEW w \in WindowId, NEW s \in Session, Hid(w, s)
        PROVE  \/ Hid(w, s)' \/ Shut(s)'
               \/ Hides(a) /\ w = a.window /\ s = a.session /\ ~(a.hook = "move" /\ c.stage = "done")
    <3>1. CASE Takes(a, c.stage, tab, w)
      BY <2>5, <2>6, <3>1 DEF Takes, Hid, Ses
    <3>2. CASE ~Takes(a, c.stage, tab, w)
      BY <2>1, <2>6, <3>2 DEF AnsweredAs, Hit, Hid, Ses, Kil
    <3>3. QED
      BY <3>1, <3>2
  <2>7. RowTypes'
    BY <1>2, <1>4, <1>5, <2>1 DEF RowInv, RowTypes, AnsweredAs
  <2>8. Asked'
    <3>1. \A d \in calls' : d.call.hook # "dialog" => tab'.last[d.call.hook] = d.call
      <4>1. \A d \in calls : d.call.hook \in Hook
        BY Places DEF RowInv, Call
      <4>2. QED
        BY <1>3, <2>1, <4>1 DEF RowInv, Asked, AnsweredAs
    <3>2. QED
      BY <1>2, <1>3, <2>1, <3>1 DEF RowInv, Asked, Meant, AnsweredAs
  <2>9. Onward'
    BY <2>2 DEF RowInv, Onward
  <2>10. Agree'
    <3>1. ASSUME NEW w \in WindowId, Raw(w) \in Session
          PROVE  \/ Stays(w, Raw(w))'
                 \/ "move" \in left'.hooks /\ (Shut(Raw(w))' \/ Hid(w, Raw(w))')
      <4>1. PICK s \in Session : s = Raw(w) /\ s = Raw(w)'
        BY <2>2, <3>1
      <4>2. Stays(w, s) \/ ("move" \in left.hooks /\ (Shut(s) \/ Hid(w, s)))
        BY <4>1 DEF RowInv, Agree
      <4>3. ASSUME Hides(a), w = a.window, s = a.session, ~(a.hook = "move" /\ c.stage = "done")
            PROVE  Stays(w, s)
        BY <4>3 DEF RowInv, Shows, MarkedBy
      <4>4. QED
        BY <1>2, <2>3, <2>4, <2>6, <4>1, <4>2, <4>3
    <3>2. QED
      BY <2>2, <3>1 DEF RowInv, Agree
  <2>11. ASSUME NEW d \in calls', Hides(d.call) PROVE MarkedBy(d)'
    <3> DEFINE w == d.call.window
               s == d.call.session
    <3>1. MarkedBy(d) /\ w \in WindowId /\ s \in Session /\ d # c /\ d \in calls
      BY <1>3, <2>11, Places DEF RowInv, Shows, Hides, Call
    <3>2. ~(Hides(a) /\ a.window = w /\ a.session = s)
      BY <3>1 DEF MarkedBy
    <3>3. Raw(w) = s => Hid(w, s)' \/ Shut(s)'
      BY <2>4, <2>6, <3>1, <3>2 DEF MarkedBy
    <3>4. QED
      BY <1>3, <2>2, <2>3, <3>1, <3>3 DEF MarkedBy
  <2>12. ASSUME NEW d \in calls', d.call.hook = "rename" PROVE NamedBy(d)'
    <3> DEFINE w == d.call.window
               s == d.call.session
    <3>1. NamedBy(d) /\ w \in WindowId /\ s \in Session /\ a.hook # "rename"
      BY <1>3, <2>12, Places DEF RowInv, Shows, Asked, Meant, Call
    <3>2. Raw(w) = s => Shut(s)' \/ (Ses(tab', w) = s /\ Pen(tab', w) = d.call.to)
      <4>1. Raw(w) = s => Shut(s) \/ (Ses(tab, w) = s /\ Pen(tab, w) = d.call.to)
        BY <3>1 DEF NamedBy, Ses, Pen
      <4>2. Takes(a, c.stage, tab, w) /\ Ses(tab, w) = s => Shut(s)'
        BY <2>5 DEF Takes
      <4>3. ~Takes(a, c.stage, tab, w) => Ses(tab', w) = Ses(tab, w) /\ Pen(tab', w) = Pen(tab, w)
        BY <2>1, <3>1 DEF AnsweredAs
      <4>4. QED
        BY <2>4, <3>1, <4>1, <4>2, <4>3
    <3>3. QED
      BY <2>2, <2>3, <3>1, <3>2 DEF NamedBy, Ses, Pen
  <2>13. tab'.target # NoCall => Aimed(tab.target)'
    <3>1. SUFFICES ASSUME tab.target # NoCall, tab.target.window # 0 PROVE Aimed(tab.target)'
      BY <2>1 DEF Aimed, AnsweredAs
    <3> DEFINE w == tab.target.window
    <3>2. w \in WindowId /\ Aimed(tab.target) /\ "dialog" \in left.hooks
      BY <1>1, <3>1 DEF RowInv, Shows, Asked, TabOf, Call
    <3>3. a.hook = "create"
      BY <1>1, <1>7, <3>2 DEF RowInv, Apart, Meant
    <3>4. Ses(tab', w) = Ses(tab, w)
      BY <2>1, <3>2, <3>3 DEF AnsweredAs, Takes
    <3>5. QED
      BY <2>1, <2>2, <2>3, <3>1, <3>2, <3>4 DEF Aimed, Ses, AnsweredAs
  <2>14. ASSUME NEW d \in calls', Strikes(d.call) PROVE d.call.session \in tab'.killed
    <3>1. d.call.session \in tab.killed /\ d \in calls /\ Meant(d.call) /\ d.call.hook # a.hook
      BY <1>3, <2>14 DEF RowInv, Shows, Asked
    <3>2. a.hook # "killSession"
      BY <1>1, <2>14, <3>1 DEF Strikes, Meant, RowInv, Apart
    <3>3. QED
      BY <2>1, <3>1, <3>2 DEF AnsweredAs
  <2>15. Shows'
    BY <2>11, <2>12, <2>13, <2>14 DEF Shows
  <2>16. QED
    BY <1>5, <2>7, <2>8, <2>9, <2>10, <2>15 DEF RowInv
<1>8. QED
  BY <1>6, <1>7

\* A row's control, for calls that are about one window.
LEMMA RowControls ==
  ASSUME RowInv, NEW s \in Session, NEW w \in WindowId, NEW hook \in {"kill", "rename", "move"}, NEW to,
         w \in DrawnWindows(tab, s), Execute(On(hook, s, w, to), tab),
         to \in Session \cup Name \cup {NoName},
         hook = "rename" => to \in Name,
         hook = "move" => to \in Session \ {s}
  PROVE  RowInv'
<1> DEFINE c == On(hook, s, w, to)
<1>1. tab \in TabOf(tab) /\ tab.ids \in Nat
  BY DEF RowInv, RowTypes, TabOf
<1>2. c.hook = hook /\ c.session = s /\ c.window = w /\ c.to = to
  BY DEF On
<1>3. c \in Call
  <2>1. (IF hook \in {"create", "move"} THEN tab.ids + 1 ELSE 0) \in Nat
    BY <1>1
  <2>2. QED
    BY <2>1 DEF On, Call, Hook, KillHooks
<1>4. /\ w # 0 /\ Stays(w, s) /\ Raw(w) = s /\ Ses(tab, w) = s
      /\ \A d \in calls : ~(Hides(d.call) /\ d.call.window = w /\ d.call.session = s)
  BY DrawnRowFacts
<1> HIDE DEF c
<1>5. hook \in left.hooks /\ Execute(c, tab)
  BY <1>2 DEF Execute, c
<1>6. Meant(c)
  BY <1>2, <1>4, <1>5 DEF Meant
<1>7. QED
  BY <1>1, <1>2, <1>3, <1>4, <1>5, <1>6, ExecuteKeeps

\* And for calls that are about a session.
LEMMA SessionControls ==
  ASSUME RowInv, NEW s \in Session, NEW hook \in {"killSession", "renameSession", "create"}, NEW to,
         s \in DrawnSessions(tab), Execute(On(hook, s, 0, to), tab),
         to \in Session \cup Name \cup {NoName}
  PROVE  RowInv'
<1> DEFINE c == On(hook, s, 0, to)
<1>1. tab \in TabOf(tab) /\ tab.ids \in Nat /\ s \notin tab.killed
  BY DEF RowInv, RowTypes, TabOf, DrawnSessions
<1>2. c.hook = hook /\ c.session = s /\ c.window = 0 /\ c.to = to
  BY DEF On
<1>3. c \in Call
  <2>1. (IF hook \in {"create", "move"} THEN tab.ids + 1 ELSE 0) \in Nat
    BY <1>1
  <2>2. QED
    BY <2>1 DEF On, Call, Hook, KillHooks
<1> HIDE DEF c
<1>4. hook \in left.hooks /\ Execute(c, tab)
  BY <1>2 DEF Execute, c
<1>5. Meant(c) /\ ~Hides(c) /\ c.hook # "rename"
  BY <1>2, <1>4 DEF Meant, Hides
<1>6. QED
  BY <1>1, <1>2, <1>3, <1>4, <1>5, ExecuteKeeps

\* The dialog, which is opened for a row and asks first.
LEMMA DialogSteps ==
  ASSUME RowInv,
         \/ \E s \in Session, w \in WindowId \cup {0} : OpenDialog(s, w)
         \/ ConfirmKill
         \/ CancelDialog
  PROVE  RowInv'
<1>1. tab \in TabOf(tab) /\ tab.ids \in Nat /\ Budgeted /\ Apart
  BY DEF RowInv, RowTypes, TabOf
<1>2. ASSUME NEW s \in Session, NEW w \in WindowId \cup {0}, OpenDialog(s, w) PROVE RowInv'
  <2> DEFINE a == On("dialog", s, w, NoName)
  <2>1. a \in Call /\ a.hook = "dialog" /\ a.window = w /\ a.session = s
    BY DEF On, Call, Hook, KillHooks
  <2>2. tab' = [tab EXCEPT !.target = a] /\ "dialog" \in left.hooks
        /\ UNCHANGED <<tmux, wire, calls, left>>
    BY <1>2 DEF OpenDialog
  <2> HIDE DEF a
  <2>3. /\ tab' \in TabOf(tab') /\ tab'.raw = tab.raw /\ tab'.killed = tab.killed
        /\ tab'.entries = tab.entries /\ tab'.last = tab.last /\ tab'.target = a
    BY <1>1, <2>1, <2>2 DEF TabOf
  <2>4. Aimed(a)
    <3>1. w # 0 => w \in DrawnWindows(tab, s)
      BY <1>2 DEF OpenDialog
    <3>2. w # 0 => Stays(w, s) /\ Ses(tab, w) = s
      BY <3>1, DrawnRowFacts
    <3>3. QED
      BY <2>1, <3>2 DEF Aimed, Ses
  <2>5. Budgeted' /\ Apart' /\ left'.hooks = left.hooks
    BY <1>1, <2>2 DEF Budgeted, Apart
  <2>6. QED
    BY <2>1, <2>2, <2>3, <2>4, <2>5, TabKeeps
<1>3. CASE CancelDialog
  <2>1. tab' = [tab EXCEPT !.target = NoCall] /\ UNCHANGED <<tmux, wire, calls, left>>
    BY <1>3 DEF CancelDialog
  <2>2. /\ tab' \in TabOf(tab') /\ tab'.raw = tab.raw /\ tab'.killed = tab.killed
        /\ tab'.entries = tab.entries /\ tab'.last = tab.last /\ tab'.target = NoCall
    BY <1>1, <2>1 DEF TabOf
  <2>3. Budgeted' /\ Apart' /\ left'.hooks = left.hooks
    BY <1>1, <2>1 DEF Budgeted, Apart
  <2>4. QED
    BY <2>1, <2>2, <2>3, TabKeeps
<1>4. CASE ConfirmKill
  <2> DEFINE c == tab.target
             t == [tab EXCEPT !.target = NoCall]
  <2>1. c # NoCall /\ Execute(c, t)
    BY <1>4 DEF ConfirmKill
  <2>2. c \in Call /\ c.hook = "dialog" /\ "dialog" \in left.hooks /\ Aimed(c)
    BY <1>1, <2>1 DEF TabOf, RowInv, Asked, Shows
  <2>3. /\ t \in TabOf(t) /\ t.raw = tab.raw /\ t.killed = tab.killed
        /\ t.entries = tab.entries /\ t.last = tab.last /\ t.target = NoCall
    BY <1>1 DEF TabOf
  <2> HIDE DEF t
  <2>4. Meant(c)
    BY <2>2 DEF Meant
  <2>5. \A d \in calls : ~Hides(d.call)
    <3>1. \A d \in calls : d.call.hook # "dialog"
      BY <2>1, <2>2, NoneUnderWay DEF Execute
    <3>2. \A d \in calls : d.call.hook = "create"
      BY <2>2, <3>1 DEF RowInv, Asked, Meant, Apart
    <3>3. QED
      BY <3>2 DEF Hides
  <2>6. Hides(c) => Stays(c.window, c.session) /\ (Raw(c.window) = c.session => Ses(tab, c.window) = c.session)
    BY <2>2 DEF Hides, Aimed, Ses
  <2>7. QED
    BY <2>1, <2>2, <2>3, <2>4, <2>5, <2>6, ExecuteKeeps
<1>5. QED
  BY <1>2, <1>3, <1>4

\* What the user does, and what a component that goes away leaves.
LEMMA UserKeeps == RowInv /\ User => RowInv'
<1> SUFFICES ASSUME RowInv, User PROVE RowInv'
  OBVIOUS
<1>1. ASSUME NEW s \in Session, KillSessionRow(s) \/ CreateWindow(s) PROVE RowInv'
  BY <1>1, SessionControls DEF KillSessionRow, CreateWindow
<1>2. ASSUME NEW s \in Session, NEW new \in Session, RenameSessionRow(s, new) PROVE RowInv'
  BY <1>2, SessionControls DEF RenameSessionRow
<1>3. ASSUME NEW s \in Session, NEW w \in WindowId, KillRow(s, w) PROVE RowInv'
  BY <1>3, RowControls DEF KillRow
<1>4. ASSUME NEW s \in Session, NEW w \in WindowId, NEW n \in Name, RenameRow(s, w, n) PROVE RowInv'
  BY <1>4, RowControls DEF RenameRow
<1>5. ASSUME NEW s \in Session, NEW w \in WindowId, NEW dst \in Session, DropOnSession(s, w, dst) PROVE RowInv'
  BY <1>5, RowControls DEF DropOnSession
<1>6. ASSUME NEW s \in Session, OpenDialog(s, 0) \/ \E w \in WindowId : OpenDialog(s, w) PROVE RowInv'
  BY <1>6, DialogSteps
<1>7. CASE ConfirmKill \/ CancelDialog
  BY <1>7, DialogSteps
<1>8. ASSUME NEW owner, Unmount(owner) PROVE RowInv'
  <2>1. tab \in TabOf(tab)
    BY DEF RowInv, RowTypes
  <2>2. PICK target : /\ target \in {NoCall, tab.target}
                      /\ tab' = [tab EXCEPT !.mounted = @ \ {owner}, !.target = target]
    <3>1. tab' = [tab EXCEPT !.mounted = @ \ {owner}, !.target = IF owner = "sidebar" THEN NoCall ELSE tab.target]
      BY <1>8, <2>1 DEF Unmount, TabOf
    <3>2. QED
      BY <3>1
  <2>3. /\ tab' \in TabOf(tab') /\ tab'.raw = tab.raw /\ tab'.killed = tab.killed
        /\ tab'.entries = tab.entries /\ tab'.last = tab.last /\ tab'.target = target
    <3>1. tab.mounted \ {owner} \in SUBSET {"shell", "sidebar"} /\ target \in Call \cup {NoCall}
      BY <2>1, <2>2 DEF TabOf
    <3>2. QED
      BY <2>1, <2>2, <3>1 DEF TabOf
  <2>4. left' = [left EXCEPT !.unmounts = @ - 1] /\ UNCHANGED <<tmux, wire, calls>>
    BY <1>8 DEF Unmount
  <2>5. Budgeted' /\ left'.hooks = left.hooks /\ Apart'
    BY <2>4, LeftSpent
  <2>6. QED
    BY <2>2, <2>3, <2>4, <2>5, TabKeeps
<1>9. QED
  BY <1>1, <1>2, <1>3, <1>4, <1>5, <1>6, <1>7, <1>8 DEF User

\* One window gets another home.
LEMMA PutFacts ==
  ASSUME RowTypes, NEW w \in WindowId, NEW s \in Session \cup {Unborn, Gone}
  PROVE  /\ Put(w, s) \in World
         /\ \A v \in WindowId : Put(w, s)[v].home = IF v = w THEN s ELSE tmux[v].home
BY DEF RowTypes, World, Put

\* All windows of a session get another home, and no others.
LEMMA RehomeFacts ==
  ASSUME RowTypes, NEW s \in Session, NEW to \in Session \cup {Unborn, Gone}
  PROVE  /\ Rehome(s, to) \in World
         /\ \A v \in WindowId : Rehome(s, to)[v].home = IF tmux[v].home = s THEN to ELSE tmux[v].home
BY DEF RowTypes, World, Rehome

\* What a request does to the windows.
LEMMA EffectFacts ==
  ASSUME RowInv, NEW c \in calls, tmux' \in Effects(c.call)
  PROVE  /\ tmux' \in World
         /\ \A w \in WindowId : Lives(w)' = Lives(w) \/ Ends(w) \/ Begins(w) \/ MovesFor(c, w)
         /\ c.call.hook = "move" => MovesFor(c, c.call.window)
<1> DEFINE a == c.call
<1>1. /\ a \in Call /\ a.hook \in Hook /\ a.session \in Session /\ a.window \in WindowId \cup {0}
      /\ Meant(a) /\ a.hook # "renameSession" /\ RowTypes
  BY Places DEF RowInv, Asked, Apart, Meant, Call
<1>2. CASE a.hook = "kill" \/ (a.hook = "dialog" /\ a.window # 0)
  <2>1. IsAlive(a.window) /\ tmux' = Put(a.window, Gone) /\ a.window \in WindowId
    BY <1>1, <1>2 DEF Effects, Meant
  <2>2. tmux' \in World /\ \A v \in WindowId : tmux'[v].home = IF v = a.window THEN Gone ELSE tmux[v].home
    BY <1>1, <2>1, PutFacts
  <2>3. QED
    BY <1>2, <2>1, <2>2 DEF Lives, Ends, IsAlive
<1>3. CASE a.hook = "killSession" \/ (a.hook = "dialog" /\ a.window = 0)
  <2>1. tmux' = Rehome(a.session, Gone)
    BY <1>3 DEF Effects
  <2>2. tmux' \in World
        /\ \A v \in WindowId : tmux'[v].home = IF tmux[v].home = a.session THEN Gone ELSE tmux[v].home
    BY <1>1, <2>1, RehomeFacts
  <2>3. QED
    BY <1>1, <1>3, <2>2 DEF Lives, Ends
<1>4. CASE a.hook = "rename"
  <2>1. a.window \in WindowId /\ a.to \in Name /\ tmux' = [tmux EXCEPT ![a.window].name = a.to]
    BY <1>1, <1>4 DEF Effects, Meant
  <2>2. tmux' \in World /\ \A v \in WindowId : tmux'[v].home = tmux[v].home
    BY <1>1, <2>1 DEF RowTypes, World
  <2>3. QED
    BY <1>4, <2>2 DEF Lives
<1>5. CASE a.hook = "create"
  <2>1. PICK w \in Fresh, s \in Session : tmux' = Put(w, s)
    BY <1>5 DEF Effects, Sessions
  <2>2. w \in WindowId /\ tmux[w].home = Unborn
    BY <2>1 DEF Fresh
  <2>3. tmux' \in World /\ \A v \in WindowId : tmux'[v].home = IF v = w THEN s ELSE tmux[v].home
    BY <1>1, <2>1, <2>2, PutFacts
  <2>4. QED
    BY <1>5, <2>2, <2>3 DEF Lives, Begins
<1>6. CASE a.hook = "move"
  <2>1. IsAlive(a.window) /\ tmux' = Put(a.window, a.to) /\ a.window \in WindowId /\ a.to \in Session
    BY <1>1, <1>6 DEF Effects, Meant
  <2>2. tmux' \in World /\ \A v \in WindowId : tmux'[v].home = IF v = a.window THEN a.to ELSE tmux[v].home
    BY <1>1, <2>1, PutFacts
  <2>3. QED
    BY <1>6, <2>1, <2>2 DEF Lives, MovesFor, IsAlive
<1>7. QED
  BY <1>1, <1>2, <1>3, <1>4, <1>5, <1>6 DEF Hook, KillHooks

\* A snapshot that is on its way stays as it was sent; the next one is what there is.
LEMMA WireKept ==
  ASSUME wire' = wire
  PROVE  \A w \in WindowId : Wired(w)' = Wired(w) \/ (Wired(w) = Lives(w) /\ Wired(w)' = Lives(w)')
BY DEF Wired, Lives

\* The daemon serves a request.
LEMMA ServeKeeps == ASSUME RowInv, NEW c \in calls, Serve(c) PROVE RowInv'
<1>1. /\ c.stage = "sent" /\ tmux' \in Effects(c.call)
      /\ calls' = (calls \ {c}) \cup {[c EXCEPT !.stage = "done"]}
      /\ wire' = wire /\ tab' = tab /\ left' = left
  BY DEF Serve
<1>2. calls' # calls
  <2>1. c \in [call : Call, stage : {"sent", "done", "failed"}]
    BY DEF RowInv, RowTypes
  <2>2. [c EXCEPT !.stage = "done"].stage = "done"
    BY <2>1
  <2>3. c \notin calls'
    BY <1>1, <2>2
  <2>4. QED
    BY <2>3
<1>3. /\ tmux' \in World
      /\ \A w \in WindowId : Lives(w)' = Lives(w) \/ Ends(w) \/ Begins(w) \/ MovesFor(c, w)
      /\ c.call.hook = "move" => MovesFor(c, c.call.window)
  BY <1>1, EffectFacts
<1>4. \A w \in WindowId : Wired(w)' = Wired(w) \/ (Wired(w) = Lives(w) /\ Wired(w)' = Lives(w)')
  BY <1>1, WireKept
<1>5. /\ wire' = <<>> \/ \E world \in World : wire' = <<world>>
      /\ Budgeted' /\ left'.hooks = left.hooks /\ Apart'
  BY <1>1 DEF RowInv, RowTypes, Budgeted, Apart
<1>6. "done" \in {"done", "failed"}
  OBVIOUS
<1>7. QED
  BY <1>1, <1>2, <1>3, <1>4, <1>5, <1>6, WorldKeeps

\* A request fails.
LEMMA FailKeeps == ASSUME RowInv, NEW c \in calls, Fail(c) PROVE RowInv'
<1>1. /\ c.stage = "sent"
      /\ calls' = (calls \ {c}) \cup {[c EXCEPT !.stage = "failed"]}
      /\ wire' = wire /\ tab' = tab /\ tmux' = tmux
      /\ left' = left \/ left' = [left EXCEPT !.fails = @ - 1]
  BY DEF Fail
<1>2. Budgeted' /\ left'.hooks = left.hooks /\ Apart'
  <2>1. CASE left' = left
    BY <2>1 DEF RowInv, RowTypes, Budgeted, Apart
  <2>2. CASE left' = [left EXCEPT !.fails = @ - 1]
    BY <2>2, LeftSpent
  <2>3. QED
    BY <1>1, <2>1, <2>2
<1>3. \A w \in WindowId : Lives(w)' = Lives(w) /\ Wired(w)' = Wired(w)
  BY <1>1 DEF Lives, Wired
<1>4. tmux' \in World /\ (wire' = <<>> \/ \E world \in World : wire' = <<world>>)
  BY <1>1 DEF RowInv, RowTypes
<1>5. PICK stage : stage = "failed"
  OBVIOUS
<1>6. /\ c \in calls /\ c.stage = "sent" /\ stage \in {"done", "failed"} /\ stage # "done"
      /\ calls' = (calls \ {c}) \cup {[c EXCEPT !.stage = stage]}
  BY <1>1, <1>5
<1>7. \A w \in WindowId :
        /\ Wired(w)' = Wired(w) \/ (Wired(w) = Lives(w) /\ Wired(w)' = Lives(w)')
        /\ Lives(w)' = Lives(w) \/ Ends(w) \/ Begins(w) \/ (calls' # calls /\ stage = "done" /\ MovesFor(c, w))
  BY <1>3
<1>8. QED
  BY <1>1, <1>2, <1>4, <1>6, <1>7, WorldKeeps

\* Somebody else makes or kills a window.
LEMMA ElsewhereKeeps == RowInv /\ Elsewhere => RowInv'
<1> SUFFICES ASSUME RowInv, Elsewhere PROVE RowInv'
  OBVIOUS
<1>1. wire' = wire /\ tab' = tab /\ calls' = calls
  BY DEF Elsewhere
<1>2. \A w \in WindowId : Wired(w)' = Wired(w) \/ (Wired(w) = Lives(w) /\ Wired(w)' = Lives(w)')
  BY <1>1, WireKept
<1>3. RowTypes /\ (wire' = <<>> \/ \E world \in World : wire' = <<world>>)
  BY <1>1 DEF RowInv, RowTypes
<1>4. ASSUME NEW v \in WindowId, NEW s \in Session \cup {Gone}, tmux' = Put(v, s),
             (Lives(v) = Unborn /\ s \in Session) \/ (Lives(v) \in Session /\ s = Gone),
             Budgeted', left'.hooks = left.hooks, Apart'
      PROVE  RowInv'
  <2>1. tmux' \in World /\ \A w \in WindowId : tmux'[w].home = IF w = v THEN s ELSE tmux[w].home
    BY <1>3, <1>4, PutFacts
  <2>2. \A w \in WindowId : Lives(w)' = Lives(w) \/ Ends(w) \/ Begins(w)
    BY <1>4, <2>1 DEF Lives, Ends, Begins
  <2>3. QED
    BY <1>1, <1>2, <1>3, <1>4, <2>1, <2>2, WorldKeeps
<1>5. CASE \E w \in Fresh, s \in Session : tmux' = Put(w, s) /\ left' = [left EXCEPT !.births = @ - 1]
  <2>1. PICK w \in Fresh, s \in Session : tmux' = Put(w, s) /\ left' = [left EXCEPT !.births = @ - 1]
    BY <1>5
  <2>2. w \in WindowId /\ Lives(w) = Unborn
    BY <2>1 DEF Fresh, Lives
  <2>3. Budgeted' /\ left'.hooks = left.hooks /\ Apart'
    BY <2>1, LeftSpent
  <2>4. QED
    BY <1>4, <2>1, <2>2, <2>3
<1>6. CASE \E w \in WindowId : IsAlive(w) /\ tmux' = Put(w, Gone) /\ left' = [left EXCEPT !.deaths = @ - 1]
  <2>1. PICK w \in WindowId : IsAlive(w) /\ tmux' = Put(w, Gone) /\ left' = [left EXCEPT !.deaths = @ - 1]
    BY <1>6
  <2>2. Lives(w) \in Session
    BY <2>1 DEF IsAlive, Lives
  <2>3. Budgeted' /\ left'.hooks = left.hooks /\ Apart'
    BY <2>1, LeftSpent
  <2>4. QED
    BY <1>4, <2>1, <2>2, <2>3
<1>7. ~(left.moves > 0)
  BY DEF RowInv, Apart
<1>8. QED
  BY <1>5, <1>6, <1>7 DEF Elsewhere

\* A snapshot is sent.
LEMMA PushKeeps == RowInv /\ Push => RowInv'
<1> SUFFICES ASSUME RowInv, Push PROVE RowInv'
  OBVIOUS
<1>1. wire = <<>> /\ wire' = <<tmux>> /\ tmux' = tmux /\ tab' = tab /\ calls' = calls /\ left' = left
  BY DEF Push
<1>2. \A w \in WindowId : Lives(w)' = Lives(w) /\ Wired(w)' = Wired(w)
  BY <1>1 DEF Lives, Wired
<1>3. tmux' \in World /\ \E world \in World : wire' = <<world>>
  BY <1>1 DEF RowInv, RowTypes
<1>4. Budgeted' /\ left'.hooks = left.hooks /\ Apart'
  BY <1>1 DEF RowInv, RowTypes, Budgeted, Apart
<1>5. QED
  BY <1>1, <1>2, <1>3, <1>4, WorldKeeps

\* A ghost runs out.
LEMMA ExpireKeeps == ASSUME RowInv, NEW g, Expire(g) PROVE RowInv'
<1>1. tab \in TabOf(tab) /\ tab' = RemoveGhost(tab, g.id) /\ UNCHANGED <<tmux, wire, calls, left>>
  BY DEF Expire, RowInv, RowTypes
<1>2. Alike(tab, tab') /\ tab'.last = tab.last
  BY <1>1, GhostFacts
<1>3. Budgeted' /\ left'.hooks = left.hooks /\ Apart'
  BY <1>1 DEF RowInv, RowTypes, Budgeted, Apart
<1>4. QED
  BY <1>1, <1>2, <1>3, TabKeeps DEF Alike

\* Every step keeps the invariant.
LEMMA RowNextKeeps == RowInv /\ [RowsNext]_rowVars => RowInv'
<1> SUFFICES ASSUME RowInv, [RowsNext]_rowVars PROVE RowInv'
  OBVIOUS
<1>1. CASE User
  BY <1>1, UserKeeps
<1>2. CASE Elsewhere
  BY <1>2, ElsewhereKeeps
<1>3. CASE Daemon
  BY <1>3, ServeKeeps, FailKeeps, PushKeeps DEF Daemon
<1>4. CASE Handlers
  BY <1>4, SyncKeeps, AnswerKeeps, ExpireKeeps DEF Handlers
<1>5. CASE UNCHANGED rowVars
  <2>1. tab \in TabOf(tab) /\ UNCHANGED <<tmux, wire, tab, calls, left>>
    BY <1>5 DEF rowVars, RowInv, RowTypes
  <2>2. Budgeted' /\ left'.hooks = left.hooks /\ Apart'
    BY <2>1 DEF RowInv, RowTypes, Budgeted, Apart
  <2>3. tab' \in TabOf(tab')
    BY <2>1
  <2>4. QED
    BY <2>1, <2>2, <2>3, TabKeeps
<1>6. QED
  BY <1>1, <1>2, <1>3, <1>4, <1>5 DEF RowsNext

\* It holds at first, of a setup that keeps the calls apart.
LEMMA RowStarts == RowsInit /\ Apart => RowInv
<1> SUFFICES ASSUME RowsInit, Apart PROVE RowInv
  OBVIOUS
<1> USE NoSession
<1>1. PICK setup \in Setups : Start(setup)
  BY DEF RowsInit
<1> DEFINE first == CHOOSE n \in Name : TRUE
           world == [w \in WindowId |->
                       [home |-> IF w \in DOMAIN setup.homes THEN setup.homes[w] ELSE Unborn, name |-> first]]
           empty == [raw |-> world, entries |-> [w \in WindowId |-> NoEntry], ghosts |-> <<>>, ids |-> 0,
                     killed |-> {}, renamed |-> <<>>, last |-> [h \in Hook |-> NoCall],
                     target |-> NoCall, mounted |-> {"shell", "sidebar"}]
<1>2. tmux = world /\ tab = SetWindows(empty, world) /\ left = setup
  BY <1>1 DEF Start
<1>3. /\ setup \in [hooks : SUBSET Hook, calls : Nat, underWay : Nat, fails : Nat, births : Nat,
                    deaths : Nat, moves : Nat, misroutes : Nat, unmounts : Nat, homes : Seq(Session)]
      /\ Name # {}
  BY RowBounds
<1>4. first \in Name
  BY <1>3
<1> HIDE DEF first
<1>5. world \in World
  <2>1. setup.homes \in Seq(Session)
    BY <1>3
  <2>2. \A w \in DOMAIN setup.homes : setup.homes[w] \in Session
    BY <2>1
  <2>3. QED
    BY <1>4, <2>2 DEF World
<1> HIDE DEF world
<1>6. empty \in TabOf(empty)
  BY <1>5 DEF TabOf, Entry
<1>7. empty.raw = world /\ empty.target = NoCall
  OBVIOUS
<1> HIDE DEF empty
<1>8. /\ tab \in TabOf(tab) /\ tab.raw = world /\ tab.target = NoCall
  BY <1>2, <1>5, <1>6, <1>7, SetWindowsFacts DEF Same
<1>9. wire = <<>> /\ calls = {}
  BY DEF RowsInit
<1>10. Budgeted
  BY <1>2, <1>3 DEF Budgeted
<1>11. RowTypes
  BY <1>2, <1>5, <1>8, <1>9, <1>10, FS_EmptySet DEF RowTypes
<1>12. \A w \in WindowId : Raw(w) = Lives(w) /\ Wired(w) = Lives(w) /\ (Lives(w) # Unborn => Lives(w) \in Session \cup {Gone})
  BY <1>2, <1>8, <1>9, <1>11, Places DEF Raw, Wired, Lives
<1>13. Onward /\ Agree
  BY <1>12 DEF Onward, Agree, Stays
<1>14. Asked /\ Shows
  BY <1>8, <1>9 DEF Asked, Shows
<1>15. QED
  BY <1>11, <1>13, <1>14 DEF RowInv

\* What the invariant says of a row that was asked to go, or to be called something else.
LEMMA RowInvImplies == RowInv => AskedIsDrawn
<1> SUFFICES ASSUME RowInv, NEW c \in calls
             PROVE  LET a == c.call IN
    /\ a.hook \in {"kill", "dialog", "move"} /\ a.window # 0 => a.window \notin DrawnWindows(tab, a.session)
    /\ a.hook \in {"dialog", "killSession"} /\ a.window = 0 => a.session \notin DrawnSessions(tab)
    /\ a.hook = "rename" /\ a.window \in DrawnWindows(tab, a.session) => DrawnName(tab, a.window) = a.to
    /\ a.hook = "renameSession" /\ a.session \in DrawnSessions(tab) /\ a.to \notin Sessions(tab.raw)
         => NewName(tab, a.session) = a.to
  BY DEF AskedIsDrawn
<1> DEFINE a == c.call
<1>1. a.session \in Session /\ Meant(a) /\ a.hook # "renameSession"
  BY Places DEF RowInv, Asked, Meant, Apart, Call
<1>2. Hides(a) => a.window \notin DrawnWindows(tab, a.session)
  BY <1>1, DrawnRowFacts
<1>3. Strikes(a) => a.session \notin DrawnSessions(tab)
  BY DEF RowInv, Shows, DrawnSessions
<1>4. a.hook = "rename" /\ a.window \in DrawnWindows(tab, a.session) => DrawnName(tab, a.window) = a.to
  <2>1. SUFFICES ASSUME a.hook = "rename", a.window \in DrawnWindows(tab, a.session)
                 PROVE  DrawnName(tab, a.window) = a.to
    OBVIOUS
  <2>2. NamedBy(c) /\ a.to \in Name
    BY <1>1, <2>1 DEF RowInv, Shows, Meant
  <2>3. Raw(a.window) = a.session /\ a.session \notin tab.killed
    BY <2>1 DEF DrawnWindows, Living, Raw
  <2>4. tab.entries[a.window].pending = a.to /\ a.to # NoName
    BY <2>2, <2>3, NoSession DEF NamedBy, Shut
  <2>5. QED
    BY <2>4 DEF DrawnName
<1>5. QED
  BY <1>1, <1>2, <1>3, <1>4 DEF Hides, Strikes

(* What a request asks for is what the tab draws until its answer is handled: a row that is
   to go is not drawn in its session, one that is to be renamed has its new name. *)
THEOREM AskedIsDrawnApart == Apart /\ RowsSpec => []AskedIsDrawn
<1>1. RowsInit /\ Apart => RowInv
  BY RowStarts
<1>2. RowInv /\ [RowsNext]_rowVars => RowInv'
  BY RowNextKeeps
<1>3. RowInv => AskedIsDrawn
  BY RowInvImplies
<1>4. QED
  BY <1>1, <1>2, <1>3, PTL DEF RowsSpec

=============================================================================
