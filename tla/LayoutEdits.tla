----------------------------- MODULE LayoutEdits ----------------------------
(***************************************************************************)
(* One viewer edits the layout of a window, verb after verb (the verbs of  *)
(* app.tsx, which all end in applyLayout).  The daemon stores a tree only  *)
(* if it is canonical, and reading it back may lose what is not there any  *)
(* more.  Every tree that a long sequence of verbs leads to is a state.    *)
(***************************************************************************)
EXTENDS LayoutVerbs

CONSTANTS
  Surfaces,     \* the leaves that may be added
  Available,    \* the own kinds a window may show
  MaxLeaves,    \* bound: leaves of a tree
  Uneven        \* shares a viewer may have dragged the first split to, as pairs

ASSUME EditBounds == MaxLeaves \in Nat /\ "tty" \in Available

VARIABLE tree

Mine == "mine"   \* the window that has the layout

Init ==
  \E preset \in Presets : \E k \in [1..Arity(preset) -> Available] :
    tree = EffectiveLayout(Legacy(preset, k), Available)

\* applyLayout: refused with 400 where it is not canonical.
Apply(next) ==
  /\ next # NoTree /\ Len(LeafNodes(next)) <= MaxLeaves
  /\ IsCanonicalTree(next, Mine)
  /\ tree' = Stored(next)

\* The shares a viewer sees: those of the template, or some of his own.
Views(n) ==
  {WithTemplateSizes(n)}
    \cup (IF IsLeaf(n) THEN {} ELSE {[n EXCEPT !.sizes = u] : u \in {x \in Uneven : Len(x) = Len(n.kids)}})

\* Bound.
Room == Len(LeafNodes(tree)) < MaxLeaves

Add == Room /\ \E new \in Surfaces : \E next \in AddSurface(tree, new) : Apply(next)
Close == \E id \in Ids(tree) : Apply(CloseSurface(tree, id))
Toggle == \E kind \in Available : \E next \in ToggleSurface(tree, kind) : Apply(next)
SwitchView == \E kind \in Available : Apply(Leaf(kind, Own))
PromoteOne == \E id \in Ids(tree) : Apply(Promote(tree, id))
SwapOne == \E id \in Ids(tree), side \in Sides : \E next \in SwapDirectional(tree, id, side) : Apply(next)
Jump == \E name \in ToSet(TemplateNames) : Apply(ApplyTemplate(tree, name))
Cycle == Apply(CycleTemplate(tree))

\* The shares of the viewer do not count in what is stored.
Drop ==
  \E id \in Ids(tree), hit \in Hits(tree) :
    LET r == ResolveDrop(tree, id, hit) IN hit.target # id /\ r.kind = "move" /\ Apply(r.tree)

Borrow ==
  Room /\ \E new \in Surfaces, hit \in Hits(tree) :
    LET r == ResolveExternalDrop(tree, new, hit) IN r.kind = "move" /\ Apply(r.tree)

\* A window that lent a surface is gone, and the next write stores what is left.
LenderDies == \E alive \in SUBSET {s.home : s \in Surfaces} : Apply(PruneDeadLeaves(tree, alive))

CapabilityLost == \E now \in SUBSET Available : "tty" \in now /\ Apply(EffectiveLayout(tree, now))

Next ==
  \/ Add \/ Close \/ Toggle \/ SwitchView \/ PromoteOne \/ SwapOne \/ Jump \/ Cycle
  \/ Drop \/ Borrow \/ LenderDies \/ CapabilityLost

Spec == Init /\ [][Next]_tree

-----------------------------------------------------------------------------

LeafBag(n) ==
  LET ls == LeafNodes(n)
      named(l) == [kind |-> l.kind, home |-> l.home]
  IN [x \in {named(l) : l \in ToSet(ls)} |-> Cardinality({i \in DOMAIN ls : named(ls[i]) = x})]

Drops ==
  {d \in [id : Ids(tree), hit : Hits(tree)] : d.hit.kind # "center" /\ d.hit.target # d.id}

\* A verb that rearranges loses no surface, doubles none and sends none to another
\* window, and the daemon accepts the tree it makes, as it does those of an addition
\* and of a close (the templates of a tree with a borrowed leaf excepted).
VerbsKeepLeaves ==
  LET accepted(n) == IsCanonicalTree(n, Mine)
      kept(n) == accepted(n) /\ LeafBag(n) = LeafBag(tree)
  IN /\ kept(Parse(tree))
     /\ \A new \in Surfaces : \A next \in AddSurface(tree, new) : accepted(next)
     /\ \A id \in Ids(tree) : CloseSurface(tree, id) = NoTree \/ accepted(CloseSurface(tree, id))
     /\ \A id \in Ids(tree) : kept(Promote(tree, id))
     /\ \A id \in Ids(tree), side \in Sides : \A next \in SwapDirectional(tree, id, side) : kept(next)
     /\ \A d \in Drops : LET r == ResolveDrop(tree, d.id, d.hit) IN r.kind = "move" => kept(r.tree)
     /\ ~HasForeign(tree) => kept(CycleTemplate(tree))

Opposite(side) ==
  CASE side = "left" -> "right" [] side = "right" -> "left" [] side = "top" -> "bottom" [] side = "bottom" -> "top"

SideHalf(side) ==
  [x |-> IF side = "right" THEN Half ELSE Zero, y |-> IF side = "bottom" THEN Half ELSE Zero,
   w |-> IF SideDir(side) = "h" THEN Half ELSE One, h |-> IF SideDir(side) = "v" THEN Half ELSE One]

Neighbour(boxes, at, side) ==
  boxes[CHOOSE i \in DOMAIN boxes \ {at} : Beyond(boxes[at], boxes[i], side)]

InPlace(boxes, at, hit) ==
  LET mine == boxes[at]
      theirs == Neighbour(boxes, at, Opposite(hit.side))
  IN /\ SumOf(Map(boxes, LAMBDA b : Times(b.w, b.h))) = One
     /\ hit.kind = "root" => mine = SideHalf(hit.side)
     /\ hit.kind = "edge" => theirs.w = mine.w /\ theirs.h = mine.h

\* A drop on the edge of the layout gives half of it, along the whole side; a drop
\* on the edge of a tile leaves the two with equal shares, side by side.
DropTakesItsPlace ==
  \A n \in {Sized(view) : view \in Views(tree)}, d \in Drops :
    LET r == ResolveDrop(n, d.id, d.hit) IN
    r.kind = "move" => InPlace(Boxes(r.tree, Whole), r.at, d.hit)

Pairs(count) == {p \in (1..count) \X (1..count) : p[1] < p[2]}

\* How each two leaves stand: along the axis of the lowest split that holds both,
\* in reading order.  With that order it determines a canonical tree.
Arrangement(n) ==
  LET paths == Paths(n)
      common(i, j) == LongestCommonPrefix({paths[i], paths[j]})
  IN [pair \in Pairs(Len(paths)) |->
        GetAt(n, common(pair[1], pair[2])).dir]

\* What is left of a tree once the leaves at some of its places are gone.
LeavesRest(n, out, gone) ==
  LET kept == SelectSeq([i \in DOMAIN Paths(n) |-> i], LAMBDA i : i \notin gone)
      before == Arrangement(n)
  IN /\ LeafNodes(out) = [i \in DOMAIN kept |-> LeafNodes(n)[kept[i]]]
     /\ Arrangement(out) = [pair \in Pairs(Len(kept)) |-> before[<<kept[pair[1]], kept[pair[2]]>>]]

Lenders == {s.home : s \in Surfaces} \ {Own}
Rendered(n, now, alive) == PruneDeadLeaves(EffectiveLayout(n, now), alive)
Hidden(n, now, alive) ==
  {i \in DOMAIN Paths(n) : LET l == LeafNodes(n)[i] IN
     IF IsForeign(l) THEN l.home \notin alive ELSE l.kind \notin now}

\* The remaining structure is kept (surface-layout.ts:495): a tile that is closed,
\* and all that go at once with a capability and a lender, leave the others in their
\* order and each two of them side by side or one above the other as they were.
CloseKeepsTheRest ==
  /\ \A id \in Ids(tree) :
       IsLeaf(tree) \/ LeavesRest(tree, CloseSurface(tree, id), {IndexOf(tree, id)})
  /\ \A now \in {a \in SUBSET Available : "tty" \in a}, alive \in SUBSET Lenders :
       LET gone == Hidden(tree, now, alive)
       IN gone = DOMAIN Paths(tree) \/ LeavesRest(tree, Rendered(tree, now, alive), gone)

\* As drawn for a viewer who has moved no divider: a tile that closes leaves all but
\* its neighbours alone, and they absorb its share (surface-layout.ts:495,
\* app.tsx:2164).  TLC refutes it.
NeighboursAbsorb ==
  \A id \in Ids(tree) :
    LET k == IndexOf(tree, id)
        drawn(n) == Boxes(WithTemplateSizes(n), Whole)
        inside == Front(PathOf(tree, id))
        beside(i) == IsPrefix(inside, Paths(tree)[i])
    IN IsLeaf(tree) \/
       \A i \in DOMAIN Paths(tree) \ {k} :
         beside(i) \/ drawn(CloseSurface(tree, id))[IF i < k THEN i ELSE i - 1] = drawn(tree)[i]

RECURSIVE CycleTimes(_, _)
CycleTimes(n, k) == IF k = 0 THEN n ELSE CycleTimes(Stored(CycleTemplate(n)), k - 1)

\* Cycling through all templates comes back to the tree it began with, every tile
\* in its place.
CycleComesBack ==
  ~HasForeign(tree) /\ TemplateOf(tree) # "custom" =>
    CycleTimes(tree, Len(TemplatesFor(Len(LeafNodes(tree))))) = tree

\* promote: the leaf takes slot A, which is the main tile of the template.
PromoteReachesSlotA ==
  \A id \in Ids(tree) :
    LET at == PlaceOf(TemplateOf(tree), Len(LeafNodes(tree)))[1]
        named(l) == [kind |-> l.kind, home |-> l.home]
    IN named(LeafNodes(Promote(tree, id))[at]) = named(LeafNodes(tree)[IndexOf(tree, id)])

=============================================================================
