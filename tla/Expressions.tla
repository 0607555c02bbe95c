---------------------------- MODULE Expressions ----------------------------
(***************************************************************************)
(* Expression trees and the clean-up that keeps them in a standard shape   *)
(* (core/Storage.hh, core/Cleanup.cc, the tree walking parts of            *)
(* core/Algorithm.cc).                                                     *)
(*                                                                         *)
(* A node is its name, its multiplier and its children.  Names are         *)
(* "\prod", "\sum", "\pow" (written without the backslash), "1" for a      *)
(* number, and the letters: symbols that have no children but an index.    *)
(* Multipliers are integers, brackets and parent relations (layout, index  *)
(* positions) are left out, and so are derivatives, components and the     *)
(* other node kinds of Cleanup.cc.                                         *)
(***************************************************************************)
EXTENDS Integers, Sequences, SequencesExt

CONSTANT Letter   \* the symbols of the expressions, with their index

ASSUME LetterAssumption == Letter \cap {"1", "prod", "sum", "pow"} = {}

Node(name, mult, children) == [name |-> name, mult |-> mult, children |-> children]
Number(k) == Node("1", k, <<>>)
Scale(node, k) == [node EXCEPT !.mult = @ * k]

IsRational(node) == node.name = "1"

\* FoldLeft of SequencesExt, in time linear in the sequence.
Fold(Op(_, _), base, seq) ==
  LET upTo[k \in 0..Len(seq)] == IF k = 0 THEN base ELSE Op(upTo[k - 1], seq[k])
  IN upTo[Len(seq)]

\* The sequence of Op of each element, written out.
Each(seq, Op(_)) == <<>> \o [i \in 1..Len(seq) |-> Op(seq[i])]

-----------------------------------------------------------------------------
(* A node is addressed by its path from the root.                           *)

Parent(path) == Front(path)

RECURSIVE At(_, _)
At(tree, path) ==
  IF path = <<>> THEN tree ELSE At(tree.children[Head(path)], Tail(path))

RECURSIVE Put(_, _, _)
Put(tree, path, node) ==
  IF path = <<>> THEN node
  ELSE [tree EXCEPT !.children[Head(path)] = Put(@, Tail(path), node)]

\* post_order_iterator::descend_all: down the first children to a leaf.
RECURSIVE DescendAll(_, _)
DescendAll(tree, path) ==
  IF At(tree, path).children = <<>> THEN path
  ELSE DescendAll(tree, Append(path, 1))

\* operator++ of the post-order iterator: into the next sibling, else up.
NextPostOrder(tree, path) ==
  LET up == Parent(path)
  IN IF Last(path) < Len(At(tree, up).children)
     THEN DescendAll(tree, Append(up, Last(path) + 1))
     ELSE up

-----------------------------------------------------------------------------
(* Cleanup.cc                                                               *)

\* Children named `name` replaced by their own children: tree.flatten, erase.
RECURSIVE Flattened(_, _)
Flattened(children, name) ==
  LET Opened(x) == IF x.name = name THEN Flattened(x.children, name) ELSE <<x>>
  IN FlattenSeq(Each(children, Opened))

RECURSIVE FlattenedFactor(_)
FlattenedFactor(children) ==
  Fold(LAMBDA k, x : IF x.name = "prod"
                         THEN k * x.mult * FlattenedFactor(x.children) ELSE k,
           1, children)

\* A mutant of NumericalFlat: the multipliers of other factors stay.
NumericalFlatNumbersOnly(node) ==
  LET Numbers == SelectSeq(node.children, IsRational)
  IN [node EXCEPT
        !.mult = Fold(LAMBDA k, x : k * x.mult, @, Numbers),
        !.children = SelectSeq(@, LAMBDA x : ~IsRational(x))]

\* cleanup_numericalflat: the numbers of a product move to its multiplier.
NumericalFlat(node) ==
  [node EXCEPT
     !.mult = Fold(LAMBDA k, x : k * x.mult, @, node.children),
     !.children = LET Symbolic(x) == ~IsRational(x)
                      Unit(x) == [x EXCEPT !.mult = 1]
                  IN Each(SelectSeq(@, Symbolic), Unit)]

\* push_down_multiplier: the multiplier of a sum belongs to its terms.
RECURSIVE PushDown(_)
PushDown(node) ==
  LET Pushed(x) == PushDown(Scale(x, node.mult))
  IN IF node.mult = 1 \/ node.name # "sum" THEN node
     ELSE Node("sum", 1, Each(node.children, Pushed))

\* cleanup_productlike: numbers are collected only when nothing was nested.
CleanupProduct(node) ==
  LET nested == \E i \in 1..Len(node.children) : node.children[i].name = "prod"
      Collapsed(flat) ==
        CASE Len(flat.children) = 1 ->
               PushDown([flat.children[1] EXCEPT !.mult = flat.mult])
          [] Len(flat.children) = 0 -> Number(flat.mult)
          [] OTHER -> flat
  IN Collapsed(IF nested
               THEN Node("prod", node.mult * FlattenedFactor(node.children),
                         Flattened(node.children, "prod"))
               ELSE NumericalFlat(node))

\* cleanup_sumlike: zeroes go, a lone term replaces the sum, sums in it open.
CleanupSum(node) ==
  LET NotZero(x) == x.mult # 0
      terms == SelectSeq(node.children, NotZero)
      Opened(x) == IF x.name = "sum"
                   THEN Each(x.children, LAMBDA y : Scale(y, x.mult)) ELSE <<x>>
      open == FlattenSeq(Each(terms, Opened))
  IN CASE terms = <<>>   -> Node("sum", 0, <<>>)
       [] Len(terms) = 1 -> Scale(terms[1], node.mult)
       [] open # node.children -> Node("sum", node.mult, open)
       [] OTHER -> PushDown(node)

\* cleanup_dispatch: repeated until the node no longer changes.
RECURSIVE Cleanup(_)
Cleanup(node) ==
  LET AsProduct(x) == IF x.name = "prod" THEN CleanupProduct(x) ELSE x
      AsSum(x) == IF x.name = "sum" THEN CleanupSum(x) ELSE x
      AsNumbers(x) == IF x.name = "prod" THEN NumericalFlat(x) ELSE x
      Until(result) == IF result = node THEN node ELSE Cleanup(result)
  IN IF node.mult = 0 THEN Number(0)
     ELSE Until(AsNumbers(AsSum(AsProduct(node))))

\* cleanup_dispatch_deep: from the leaves up, once over a new expression.
RECURSIVE CleanupDeep(_)
CleanupDeep(node) ==
  Cleanup([node EXCEPT !.children = Each(@, CleanupDeep)])

-----------------------------------------------------------------------------
(* The parts of Algorithm.cc that move multipliers and zeroes up the tree.  *)

\* pushup_multiplier: into the terms of a sum, or to the product around.
RECURSIVE PushUp(_, _)
PushUp(tree, path) ==
  LET node == At(tree, path)
      up   == Parent(path)
      unit == Put(tree, path, [node EXCEPT !.mult = 1])
      inProduct == path # <<>> /\ At(tree, up).name = "prod"
  IN CASE node.mult = 1 -> tree
       [] node.name = "sum" -> Put(tree, path, PushDown(node))
       [] node.name # "sum" /\ node.mult # 1 /\ inProduct ->
            PushUp(Put(unit, up, Scale(At(unit, up), node.mult)), up)
       [] OTHER -> tree

\* propagate_zeroes: a zero at `path` empties the products around it and
\* leaves the sum it is a term of; the tree and where the walk goes on.
RECURSIVE PropagateZeroes(_, _)
PropagateZeroes(tree, path) ==
  LET up    == Parent(path)
      above == At(tree, up)
      spot  == Last(path)
      rest  == RemoveAt(above.children, spot)
      inProduct == Len(up) > 0 /\ At(tree, Parent(up)).name = "prod"
      AboveIsZero == PropagateZeroes(Put(tree, up, [above EXCEPT !.mult = 0]), up)
  IN IF path = <<>> THEN [tree |-> tree, path |-> path]
     ELSE CASE above.name = "prod" -> AboveIsZero
            [] above.name = "pow" /\ spot = 1 -> AboveIsZero
            [] above.name = "pow" /\ spot = 2 ->
                 [tree |-> Put(tree, up, Number(above.mult)), path |-> up]
            [] above.name = "sum" /\ Len(rest) > 1 ->
                 LET without == Put(tree, up, [above EXCEPT !.children = rest])
                 IN [tree |-> without,
                     path |-> IF spot <= Len(rest)
                              THEN DescendAll(without, path) ELSE up]
            [] above.name = "sum" /\ Len(rest) = 1 /\ up = <<>> ->
                 [tree |-> tree, path |-> path]
            [] above.name = "sum" /\ Len(rest) = 1 /\ inProduct ->
                 LET around == Scale(At(tree, Parent(up)), rest[1].mult)
                     term   == [rest[1] EXCEPT !.mult = 1]
                     opened == IF term.name = "prod" THEN term.children ELSE <<term>>
                 IN [tree |-> Put(tree, Parent(up), [around EXCEPT !.children =
                                ReplaceSubSeqAt(Last(up), opened, <<above>>, @)]),
                     path |-> up]
            [] OTHER -> [tree |-> Put(tree, up, rest[1]), path |-> up]
=============================================================================
