----------------------------- MODULE LayoutVerbs ----------------------------
(***************************************************************************)
(* What the stored layout of a window is read as, and what each verb makes *)
(* of it (lib/surface-layout.ts, lib/layout-drop.ts).                      *)
(*                                                                         *)
(* Measured pixels are left out: a split may go along either axis, and any *)
(* result may be refused for want of space; so a verb that measures is the *)
(* set of its results.                                                     *)
(***************************************************************************)
EXTENDS LayoutTree

-----------------------------------------------------------------------------
(* Reading *)

\* The presets of the retired grammar, as trees.
Legacy(preset, k) ==
  LET l == Map(k, LAMBDA kind : Leaf(kind, Own)) IN
  CASE preset = "single" -> l[1]
    [] preset \in {"split-h", "row"} -> Split("h", l)
    [] preset \in {"split-v", "col"} -> Split("v", l)
    [] preset = "main-left" -> Split("h", <<l[1], Split("v", Tail(l))>>)
    [] preset = "main-right" -> Split("h", <<Split("v", Tail(l)), l[1]>>)
    [] preset = "main-top" -> Split("v", <<l[1], Split("h", Tail(l))>>)

Arity(preset) ==
  IF preset = "single" THEN 1 ELSE IF preset \in {"split-h", "split-v"} THEN 2 ELSE 3

Presets == {"single", "split-h", "split-v", "row", "col", "main-left", "main-right", "main-top"}

\* parseLayoutTree: a value is a tree that somebody wrote, or nothing.
Parse(value) ==
  IF value # NoTree /\ IsCanonicalTree(value, NoOwner) THEN value ELSE NoTree

\* degradeLayout: the own surfaces that the window cannot show are dropped.
RECURSIVE DegradeLayout(_, _)
DegradeLayout(n, available) ==
  LET gone == Places(LeafNodes(n), LAMBDA l : ~IsForeign(l) /\ l.kind \notin available) IN
  IF gone = <<>> THEN n ELSE IF IsLeaf(n) THEN NoTree
  ELSE DegradeLayout(RemoveNodeAt(n, Paths(n)[gone[1]]), available)

\* effectiveLayout: what is rendered; nothing is written back.
EffectiveLayout(value, available) ==
  LET parsed == Parse(value)
      out == IF parsed = NoTree THEN NoTree ELSE DegradeLayout(parsed, available)
  IN IF out = NoTree THEN Tty ELSE out

-----------------------------------------------------------------------------
(* Verbs *)

SlipAddSurface(n, new) ==
  {InsertBeside(n, Paths(n)[i], side, new) : i \in DOMAIN LeafNodes(n), side \in {"right", "bottom"}}

\* addSurface: beside the focused tile, or beside any other where that does not fit.
AddSurface(n, new) ==
  LET there == IF IsForeign(new) THEN \E id \in Ids(n) : id.kind = new.kind /\ id.home = new.home
               ELSE new.kind # "tty" /\ new.kind \in BareKinds(n)
  IN IF there THEN {}
     ELSE {InsertBeside(n, Paths(n)[i], side, new) : i \in DOMAIN LeafNodes(n), side \in {"right", "bottom"}}

CloseSurface(n, id) == RemoveLeaf(n, id)

\* toggleSurface: the first bare leaf of the kind is closed, or one is added.
ToggleSurface(n, kind) ==
  LET id == [kind |-> kind, home |-> Own, nth |-> 1] IN
  IF id \in Ids(n) THEN {CloseSurface(n, id)} \ {NoTree} ELSE AddSurface(n, Leaf(kind, Own))

\* promote: swapped with the first leaf whose kind is that of slot A.
Promote(n, id) ==
  LET kind == SlotOrder(n)[1]
      main == Places(Kinds(n), LAMBDA k : k = kind)[1]
  IN IF id \notin Ids(n) THEN n ELSE SwapLeaves(n, id, LeafIds(n)[main])

\* The box beyond an edge: how far it is, and how long they face each other.
Beyond(a, b, side) ==
  LET less(p, q) == p[1] * q[2] < q[1] * p[2]
      facing(p, lp, q, lq) == less(q, Plus(p, lp)) /\ less(p, Plus(q, lq))
  IN CASE side = "left" -> Plus(b.x, b.w) = a.x /\ facing(a.y, a.h, b.y, b.h)
       [] side = "right" -> Plus(a.x, a.w) = b.x /\ facing(a.y, a.h, b.y, b.h)
       [] side = "top" -> Plus(b.y, b.h) = a.y /\ facing(a.x, a.w, b.x, b.w)
       [] side = "bottom" -> Plus(a.y, a.h) = b.y /\ facing(a.x, a.w, b.x, b.w)

\* swapDirectional: swapped with a leaf that touches the edge.
SwapDirectional(n, id, side) ==
  LET boxes == Boxes(n, Whole)
      ids == LeafIds(n)
      at == IndexOf(n, id)
  IN {SwapLeaves(n, id, ids[i]) : i \in {j \in DOMAIN ids : j # at /\ Beyond(boxes[at], boxes[j], side)}}

ApplyTemplate(n, name) ==
  IF name \in ToSet(TemplatesFor(Len(LeafNodes(n)))) THEN Template(name, SlotOrder(n)) ELSE NoTree

CycleTemplate(n) ==
  LET ring == TemplatesFor(Len(LeafNodes(n)))
      at == {i \in DOMAIN ring : ring[i] = TemplateOf(n)}
      next == IF at = {} THEN 1 ELSE ((CHOOSE i \in at : TRUE) % Len(ring)) + 1
  IN IF ring = <<>> THEN n ELSE Template(ring[next], SlotOrder(n))

-----------------------------------------------------------------------------
(* Drag and drop *)

\* hitTest: the edge of the layout, the edge of a tile, or its center.
Hits(n) ==
  [kind : {"root"}, side : Sides, target : {NoTree}]
    \cup [kind : {"edge"}, side : Sides, target : Ids(n)]
    \cup [kind : {"center"}, target : Ids(n)]

Noop == [kind |-> "noop"]

SlipRootDestHalf(n, child) == n

\* rootDestHalf: the child gets half of the axis, the others share the rest as before.
RootDestHalf(n, child) ==
  LET rest == SumOf(RemoveAt(SizesOf(n), child))
      shrunk == Map(SizesOf(n), LAMBDA share : Times(Half, Over(share, rest)))
  IN [n EXCEPT !.sizes = ReplaceAt(shrunk, child, Half)]

TargetPath(n, hit) == IF hit.kind = "root" THEN <<>> ELSE PathOf(n, hit.target)

Unchanged(n, out) == Stored(out) = Stored(n)

\* The generic edit: a clone is inserted before the original is removed.
Cloned(n, path, hit) ==
  LET leaf(by) == [GetAt(n, path) EXCEPT !.by = by]
  IN InsertBeside(SetAt(n, path, leaf("old")), TargetPath(n, hit), hit.side, leaf("clone"))

WithoutOriginal(n) == Normalise(RemoveNodeAt(n, PathBy(n, "old")))

\* At the edge of the layout the removal has made the clone more than half of it.
Halved(n, hit) ==
  LET at == PathBy(n, "clone") IN
  IF hit.kind = "root" /\ Len(at) = 1 /\ n.dir = SideDir(hit.side) THEN RootDestHalf(n, at[1]) ELSE n

Rearranged(n, id, hit) == Halved(WithoutOriginal(Cloned(n, PathOf(n, id), hit)), hit)

Moved(out, at) == [kind |-> "move", tree |-> out, at |-> at]
MovedClone(out) == Moved(out, PlaceBy(out, "clone"))
UnlessNoop(n, r) == IF Unchanged(n, r.tree) THEN Noop ELSE r

\* resolveDrop, of a leaf of the tree; n carries the viewer's shares.
ResolveDrop(n, id, hit) ==
  UnlessNoop(n, IF hit.kind = "center"
                  THEN Moved(SwapLeaves(n, id, hit.target), IndexOf(n, hit.target))
                  ELSE MovedClone(Rearranged(n, id, hit)))

\* resolveExternalDrop: of a leaf that is not in the tree yet.
ResolveExternalDrop(n, new, hit) ==
  IF hit.kind = "center" THEN Noop
  ELSE MovedClone(InsertBeside(n, TargetPath(n, hit), hit.side, [new EXCEPT !.by = "clone"]))

=============================================================================
