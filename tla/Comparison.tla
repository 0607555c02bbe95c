---------------------------- MODULE Comparison -----------------------------
(***************************************************************************)
(* The order of expressions and the commutation of factors                 *)
(* (core/Compare.cc), under the declarations of a session.                 *)
(*                                                                         *)
(* A declaration record stands for what the property store answers:        *)
(*   list  - the objects of one {...}::Commuting, AntiCommuting or         *)
(*           NonCommuting list, and listSign its sign (1, -1 or 0);        *)
(*   self  - the name whose objects are SelfCommuting..., and selfSign,    *)
(*           which is 1 also without such a declaration: then nothing asks *)
(*           SelfCommuting::sign, whose own answer is -1;                  *)
(*   order - the names in one {...}::SortOrder, in their order.            *)
(* The list is of letters without index, `self` is the name of letters     *)
(* with one; names stand for themselves by their rank.  No object is an    *)
(* index or carries implicit indices.                                      *)
(***************************************************************************)
EXTENDS Expressions

CONSTANTS HeadRank,    \* [Letter -> Nat]: where its name sorts as a string
          IndexRank    \* [Letter -> Nat]: ditto of its index, 0 without one

ASSUME RankAssumption ==
  /\ HeadRank \in [Letter -> 1..99]
  /\ IndexRank \in [Letter -> Nat]

IsLetter(node) == node.name \in Letter

\* The value of a comparison of strings: "1" < "A" ... < "\pow" < "\prod" ...
NameRank(name) ==
  CASE name = "1" -> 0
    [] name = "pow" -> 100 [] name = "prod" -> 101 [] name = "sum" -> 102
    [] OTHER -> HeadRank[name]

Arity(node) ==
  IF IsLetter(node) THEN (IF IndexRank[node.name] = 0 THEN 0 ELSE 1)
  ELSE Len(node.children)

Less(a, b, weight) == IF a = b THEN 0 ELSE IF a < b THEN weight ELSE -weight

\* subtree_compare: 2 or -2 for a difference of substance, 1 or -1 for one in
\* the names of indices only, 0 for none.  The multiplier of the top nodes
\* counts only if `mults`, and not between a number and a symbol.
RECURSIVE SubtreeCompare(_, _, _)
SubtreeCompare(one, two, mults) ==
  LET byMult == IF mults /\ (IsRational(one) <=> IsRational(two))
                THEN Less(one.mult, two.mult, 2) ELSE 0
      byName == Less(NameRank(one.name), NameRank(two.name), 2)
      byArity == Less(Arity(one), Arity(two), 2)
      ofChildren == Each(Zip(one.children, two.children),
                         LAMBDA pair : SubtreeCompare(pair[1], pair[2], TRUE))
      \* the first decisive difference, or else the first one
      Prefer(found, r) ==
        IF found \in {2, -2} \/ (found # 0 /\ r \notin {2, -2}) THEN found ELSE r
      byRest == IF IsLetter(one)
                THEN <<Less(IndexRank[one.name], IndexRank[two.name], 1)>>
                ELSE ofChildren
      Decide(above) == IF above # 0 THEN above ELSE Fold(Prefer, 0, byRest)
  IN Decide(Fold(Prefer, 0, <<byMult, byName, byArity>>))

\* subtree_exact_equal, the multipliers of the top nodes aside or not.
ExactEqual(one, two, mults) == SubtreeCompare(one, two, mults) = 0

-----------------------------------------------------------------------------
(* Ex_comparator                                                            *)

Position(seq, e) == SelectInSeq(seq, LAMBDA x : x = e)

\* get_composite<SortOrder>: the serial number of an object, 0 if not listed.
Serial(order, node) ==
  IF IsLetter(node) THEN Position(order, HeadRank[node.name]) ELSE 0

\* should_swap: by the SortOrder that holds both, else by the comparison.
ShouldSwap(order, one, two, comparison) ==
  LET num1 == Serial(order, one)
      num2 == Serial(order, two)
  IN CASE num1 = 0 \/ num2 = 0 -> comparison < 0
       [] num1 # 0 /\ num2 # 0 /\ comparison \in {-1, 0, 1} -> comparison = -1
       [] OTHER -> num1 > num2

Product(ints) == Fold(LAMBDA a, b : a * b, 1, ints)

\* The common sign of all members, 0 when they differ (can_swap_sum_obj).
CommonSign(signs) ==
  IF \A i \in 1..Len(signs) : signs[i] = signs[1] THEN signs[1] ELSE 0

InList(declared, one, two) ==
  /\ one.name # two.name
  /\ {one.name, two.name} \subseteq ToSet(declared.list)

InSelf(declared, node) ==
  IsLetter(node) /\ IndexRank[node.name] # 0
                 /\ HeadRank[node.name] = declared.self

\* can_swap: 1, -1 or 0.  A product swaps by its factors, a sum by its terms
\* when they agree; what has no rule commutes, a power among it.
RECURSIVE CanSwap(_, _, _)
CanSwap(declared, one, two) ==
  LET Over(node, Sign(_)) == Each(node.children, Sign)
      Signs(node, other) == Over(node, LAMBDA x : CanSwap(declared, x, other))
      SumWith(sum, other) == CommonSign(Signs(sum, other))
      ProdWith(prod, other) == Product(Signs(prod, other))
  IN CASE InList(declared, one, two) -> declared.listSign
       [] InSelf(declared, one) /\ InSelf(declared, two) -> declared.selfSign
       [] one.name = "prod" /\ two.name = "prod" ->
            Product(Over(two, LAMBDA x : ProdWith(one, x)))
       [] one.name = "prod" /\ two.name = "sum" ->
            Product(Over(one, LAMBDA x : SumWith(two, x)))
       [] one.name = "sum" /\ two.name = "prod" ->
            Product(Over(two, LAMBDA x : SumWith(one, x)))
       [] one.name = "sum" /\ two.name = "sum" ->
            CommonSign(Over(one, LAMBDA x : SumWith(two, x)))
       [] one.name = "prod" /\ two.name \notin {"prod", "sum"} -> ProdWith(one, two)
       [] two.name = "prod" /\ one.name \notin {"prod", "sum"} -> ProdWith(two, one)
       [] one.name = "sum" /\ two.name \notin {"prod", "sum"} -> SumWith(one, two)
       [] two.name = "sum" /\ one.name \notin {"prod", "sum"} -> SumWith(two, one)
       [] OTHER -> 1

\* can_move_adjacent: what factor `first` gains on its way to factor `second`.
CanMoveAdjacent(declared, factors, first, second) ==
  Product([k \in 1..(second - first - 1) |->
             CanSwap(declared, factors[first], factors[first + k])])
=============================================================================
