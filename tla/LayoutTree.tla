----------------------------- MODULE LayoutTree -----------------------------
(***************************************************************************)
(* The split tree of a window's center (lib/layout-tree.ts).  A leaf is a  *)
(* surface of this window or of another one, a split lays its children out *)
(* from left to right ("h") or from top to bottom ("v").  A split may      *)
(* carry the share of each child; without them the shares are equal.       *)
(*                                                                         *)
(* Shares are fractions, exact here and floating point in the code.  Gaps  *)
(* between tiles are left out, and the characters of the stored string.    *)
(***************************************************************************)
EXTENDS Integers, FiniteSets, SequencesExt

\* A sequence with an operator applied to each element, as a tuple.
Map(s, Op(_)) == <<>> \o [i \in DOMAIN s |-> Op(s[i])]

\* The places that hold an element of a kind, in order.
Places(s, Test(_)) == SelectSeq([i \in DOMAIN s |-> i], LAMBDA i : Test(s[i]))

\* Sequences, one after another.
RECURSIVE Concat(_)
Concat(ss) == IF ss = <<>> THEN <<>> ELSE Head(ss) \o Concat(Tail(ss))

-----------------------------------------------------------------------------
(* Fractions *)

RECURSIVE Gcd(_, _)
Gcd(a, b) == IF b = 0 THEN a ELSE Gcd(b, a % b)

Frac(a, b) == <<a \div Gcd(a, b), b \div Gcd(a, b)>>
Plus(p, q) == Frac(p[1] * q[2] + q[1] * p[2], p[2] * q[2])
Times(p, q) == Frac(p[1] * q[1], p[2] * q[2])
Over(p, q) == Frac(p[1] * q[2], p[2] * q[1])
Half == <<1, 2>>
One == <<1, 1>>
Zero == <<0, 1>>

RECURSIVE SumOf(_)
SumOf(fs) == IF fs = <<>> THEN Zero ELSE Plus(Head(fs), SumOf(Tail(fs)))

-----------------------------------------------------------------------------
(* Nodes *)

Own == "own"      \* the home of a bare leaf
NoTree == <<>>    \* null

\* by: which object a leaf is, where an edit has two with the same address.
Leaf(kind, home) == [kind |-> kind, home |-> home, by |-> "tree"]
Tty == Leaf("tty", Own)

IsLeaf(n) == "kind" \in DOMAIN n
IsForeign(l) == l.home # Own

Split(dir, kids) == [dir |-> dir, kids |-> kids, sizes |-> <<>>]

\* splitNode: a split with a single child is that child.
SplitNode(dir, kids, sizes) ==
  IF Len(kids) = 1 THEN kids[1] ELSE [dir |-> dir, kids |-> kids, sizes |-> sizes]

SizesOf(s) ==
  IF Len(s.sizes) = Len(s.kids) THEN s.sizes ELSE Map(s.kids, LAMBDA kid : <<1, Len(s.kids)>>)

\* The leaves in reading order, and the path to each of them.
RECURSIVE LeafNodes(_)
LeafNodes(n) ==
  IF IsLeaf(n) THEN <<n>> ELSE Concat(Map(n.kids, LAMBDA kid : LeafNodes(kid)))

RECURSIVE Paths(_)
Paths(n) ==
  IF IsLeaf(n) THEN << <<>> >>
  ELSE Concat([i \in DOMAIN n.kids |-> Map(Paths(n.kids[i]), LAMBDA path : <<i>> \o path)])

Kinds(n) == Map(LeafNodes(n), LAMBDA l : l.kind)
HasForeign(n) == \E l \in ToSet(LeafNodes(n)) : IsForeign(l)
BareKinds(n) == {l.kind : l \in {x \in ToSet(LeafNodes(n)) : ~IsForeign(x)}}

\* The address of a leaf; duplicate ones, which only tty has, are numbered.
LeafIds(n) ==
  LET ls == LeafNodes(n)
      same(i, j) == ls[i].kind = ls[j].kind /\ ls[i].home = ls[j].home
  IN <<>> \o [i \in DOMAIN ls |-> [kind |-> ls[i].kind, home |-> ls[i].home,
                                   nth |-> Cardinality({j \in 1..i : same(i, j)})]]

Ids(n) == ToSet(LeafIds(n))
IndexOf(n, id) == LET ids == LeafIds(n) IN CHOOSE i \in DOMAIN ids : ids[i] = id
PathOf(n, id) == Paths(n)[IndexOf(n, id)]

\* pathOfNode: the leaf that is a given object.
PlaceBy(n, by) == LET ls == LeafNodes(n) IN CHOOSE i \in DOMAIN ls : ls[i].by = by
PathBy(n, by) == Paths(n)[PlaceBy(n, by)]

-----------------------------------------------------------------------------
(* Canonical form *)

RECURSIVE Alternates(_)
Alternates(n) ==
  IF IsLeaf(n) THEN TRUE
  ELSE /\ Len(n.kids) >= 2
       /\ Len(n.sizes) \in {0, Len(n.kids)}
       /\ n.dir \notin {kid.dir : kid \in {k \in ToSet(n.kids) : ~IsLeaf(k)}}
       /\ \A kid \in ToSet(n.kids) : Alternates(kid)

IsCanonicalTree(n, owner) ==
  LET ls == LeafNodes(n)
      legal(l) == IsForeign(l) => l.kind # "gui" /\ l.home # owner
      twice(i, j) == i # j /\ ls[i].home = ls[j].home /\ ls[i].kind = ls[j].kind
  IN /\ \A i \in DOMAIN ls : legal(ls[i])
     /\ \A i, j \in DOMAIN ls : twice(i, j) => ls[i].kind = "tty" /\ ~IsForeign(ls[i])
     /\ Alternates(n)

NoOwner == "none"

-----------------------------------------------------------------------------
(* Operations *)

RECURSIVE Strip(_)
Strip(n) ==
  IF IsLeaf(n) THEN n ELSE Split(n.dir, Map(n.kids, LAMBDA kid : Strip(kid)))

\* The tree with other leaves in its places; shares stay with the places.
RECURSIVE WithLeaves(_, _)
WithLeaves(n, ls) ==
  IF IsLeaf(n) THEN ls[1]
  ELSE LET upto == [i \in 0..Len(n.kids) |-> Len(LeafNodes(Split(n.dir, SubSeq(n.kids, 1, i))))]
       IN [n EXCEPT !.kids = <<>> \o [i \in DOMAIN n.kids |->
             WithLeaves(n.kids[i], SubSeq(ls, upto[i - 1] + 1, upto[i]))]]

\* serializeLayoutTree: what is stored has no shares, and no objects.
RECURSIVE Stored(_)
Stored(n) ==
  IF IsLeaf(n) THEN [n EXCEPT !.by = "tree"] ELSE Split(n.dir, Map(n.kids, LAMBDA kid : Stored(kid)))

RECURSIVE HasExplicitSizes(_)
HasExplicitSizes(n) ==
  ~IsLeaf(n) /\ (n.sizes # <<>> \/ \E i \in DOMAIN n.kids : HasExplicitSizes(n.kids[i]))

\* extractSizes: the shares of every split written out.
RECURSIVE Sized(_)
Sized(n) ==
  IF IsLeaf(n) THEN n
  ELSE [n EXCEPT !.kids = Map(n.kids, LAMBDA kid : Sized(kid)), !.sizes = SizesOf(n)]

RECURSIVE SetAt(_, _, _)
SetAt(n, path, value) ==
  IF path = <<>> THEN value
  ELSE [n EXCEPT !.kids[path[1]] = SetAt(n.kids[path[1]], Tail(path), value)]

RECURSIVE GetAt(_, _)
GetAt(n, path) == IF path = <<>> THEN n ELSE GetAt(n.kids[path[1]], Tail(path))

\* Slip: the directions not compared.
RECURSIVE SlipNormSized(_)
SlipNormSized(n) ==
  IF IsLeaf(n) THEN n
  ELSE LET kid == Map(n.kids, LAMBDA k : SlipNormSized(k))
       IN SplitNode(n.dir,
            Concat([i \in DOMAIN kid |-> IF IsLeaf(kid[i]) THEN <<kid[i]>> ELSE kid[i].kids]),
            <<>>)

\* A child with its parent's direction is merged into it, its shares multiplied.
RECURSIVE NormSized(_)
NormSized(n) ==
  IF IsLeaf(n) THEN n
  ELSE LET kid == Map(n.kids, LAMBDA k : NormSized(k))
           size == SizesOf(n)
           merged(i) == ~IsLeaf(kid[i]) /\ kid[i].dir = n.dir
           shares(i) == Map(SizesOf(kid[i]), LAMBDA share : Times(share, size[i]))
       IN SplitNode(n.dir,
            Concat([i \in DOMAIN kid |-> IF merged(i) THEN kid[i].kids ELSE <<kid[i]>>]),
            Concat([i \in DOMAIN kid |-> IF merged(i) THEN shares(i) ELSE <<size[i]>>]))

Like(n, out) == IF HasExplicitSizes(n) THEN out ELSE Strip(out)

Normalise(n) == Like(n, NormSized(n))

Scaled(shares) == LET whole == SumOf(shares) IN Map(shares, LAMBDA x : Over(x, whole))

\* removeAt, below the root: the others take over the share, in proportion to their own.
RECURSIVE Without(_, _)
Without(n, path) ==
  LET at == path[1]
      last == Len(path) = 1
  IN SplitNode(n.dir,
       IF last THEN RemoveAt(n.kids, at) ELSE ReplaceAt(n.kids, at, Without(n.kids[at], Tail(path))),
       Scaled(IF last THEN RemoveAt(SizesOf(n), at) ELSE SizesOf(n)))

RemoveNodeAt(n, path) == IF path = <<>> THEN NoTree ELSE Like(n, NormSized(Without(n, path)))

RemoveLeaf(n, id) == IF id \in Ids(n) THEN RemoveNodeAt(n, PathOf(n, id)) ELSE NoTree

\* pruneDeadLeaves: what a dead window lent is dropped; a layout is never empty.
RECURSIVE PruneDeadLeaves(_, _)
PruneDeadLeaves(n, alive) ==
  LET dead == Places(LeafNodes(n), LAMBDA l : IsForeign(l) /\ l.home \notin alive) IN
  IF dead = <<>> THEN n ELSE IF IsLeaf(n) THEN Tty
  ELSE PruneDeadLeaves(RemoveNodeAt(n, Paths(n)[dead[1]]), alive)

Sides == {"left", "right", "top", "bottom"}
SideDir(side) == IF side \in {"left", "right"} THEN "h" ELSE "v"

\* The target is wrapped in a split with the new leaf, and shares its place by half.
InsertBeside(n, path, side, new) ==
  LET at == GetAt(n, path)
      pair == IF side \in {"left", "top"} THEN <<new, at>> ELSE <<at, new>>
  IN Like(n, NormSized(SetAt(n, path,
       SplitNode(SideDir(side), pair, IF HasExplicitSizes(n) THEN <<Half, Half>> ELSE <<>>))))

SwapLeaves(n, a, b) ==
  IF ~({a, b} \subseteq Ids(n)) THEN n
  ELSE LET p == PathOf(n, a)
           q == PathOf(n, b)
       IN SetAt(SetAt(n, p, GetAt(n, q)), q, GetAt(n, p))

-----------------------------------------------------------------------------
(* Templates *)

TemplateNames == <<"row", "col", "main-left", "main-right", "main-top", "main-bottom">>

MainShare == <<29, 50>>    \* TEMPLATE_MAIN_FRACTION
RestShare == <<21, 50>>

\* Slot 1 is the main tile.
Template(name, slots) ==
  LET bare == Map(slots, LAMBDA kind : Leaf(kind, Own))
      flat(dir) == SplitNode(dir, bare, <<>>)
      first(dir, cross) == SplitNode(dir, <<bare[1], SplitNode(cross, Tail(bare), <<>>)>>, <<MainShare, RestShare>>)
      last(dir, cross) == SplitNode(dir, <<SplitNode(cross, Tail(bare), <<>>), bare[1]>>, <<RestShare, MainShare>>)
      few == Len(slots) < 3
  IN CASE name = "row" -> flat("h")
       [] name = "col" -> flat("v")
       [] name = "main-left" -> IF few THEN flat("h") ELSE first("h", "v")
       [] name = "main-right" -> IF few THEN flat("h") ELSE last("h", "v")
       [] name = "main-top" -> IF few THEN flat("v") ELSE first("v", "h")
       [] name = "main-bottom" -> IF few THEN flat("v") ELSE last("v", "h")

\* structureSig: the leaves are numbered in reading order, so their names do not count.
RECURSIVE Shape(_)
Shape(n) == IF IsLeaf(n) THEN Tty ELSE Split(n.dir, Map(n.kids, LAMBDA kid : Shape(kid)))

MaxSlots == 5   \* INDEX_KINDS
Blank(n) == [i \in 1..n |-> "tty"]

\* The shape of each template, by the number of its slots.
TemplateShapes ==
  [count \in 2..MaxSlots |-> Map(TemplateNames, LAMBDA name : Shape(Template(name, Blank(count))))]

SlipPlaceOf(name, count) == [slot \in 1..count |-> slot]

\* The reading-order place of each slot.
PlaceOf(name, count) ==
  IF name \in {"main-right", "main-bottom"} /\ count >= 3
    THEN [slot \in 1..count |-> IF slot = 1 THEN count ELSE slot - 1]
    ELSE [slot \in 1..count |-> slot]

TemplateOf(n) ==
  LET count == Len(LeafNodes(n))
      shape == Shape(n)
      fits == Places(TemplateShapes[count], LAMBDA template : template = shape)
  IN IF count = 1 THEN "single"
     ELSE IF count > MaxSlots \/ fits = <<>> THEN "custom" ELSE TemplateNames[fits[1]]

\* slotOrder: the kinds of the leaves, the main tile's first.
SlotOrder(n) ==
  LET kinds == Kinds(n) IN Map(PlaceOf(TemplateOf(n), Len(kinds)), LAMBDA i : kinds[i])

\* The templates whose shapes differ.
TemplatesFor(count) ==
  LET shape == TemplateShapes[count]
      new(i) == \A j \in 1..(i - 1) : shape[j] # shape[i]
  IN IF count < 2 \/ count > MaxSlots THEN <<>>
     ELSE Concat([i \in DOMAIN shape |-> IF new(i) THEN <<TemplateNames[i]>> ELSE <<>>])

\* templateSizes: the shares of the template a tree looks like.
WithTemplateSizes(n) ==
  IF TemplateOf(n) \in {"single", "custom"} THEN n
  ELSE WithLeaves(Template(TemplateOf(n), Blank(Len(LeafNodes(n)))), LeafNodes(n))

-----------------------------------------------------------------------------
(* Geometry, in shares of the whole *)

Whole == [x |-> Zero, y |-> Zero, w |-> One, h |-> One]

\* layoutRects: the box of each leaf in reading order.
RECURSIVE Boxes(_, _)
Boxes(n, b) ==
  IF IsLeaf(n) THEN <<b>>
  ELSE LET s == SizesOf(n)
           before(i) == SumOf(SubSeq(s, 1, i - 1))
           part(i) == IF n.dir = "h"
             THEN [b EXCEPT !.x = Plus(b.x, Times(b.w, before(i))), !.w = Times(b.w, s[i])]
             ELSE [b EXCEPT !.y = Plus(b.y, Times(b.h, before(i))), !.h = Times(b.h, s[i])]
       IN Concat([i \in DOMAIN n.kids |-> Boxes(n.kids[i], part(i))])

=============================================================================
