------------------------------ MODULE Algebra ------------------------------
(***************************************************************************)
(* A session that applies algorithms to one expression: sort_product,      *)
(* sort_sum, collect_terms, collect_factors, distribute and expand_power   *)
(* (core/algorithms), walked over the tree by Algorithm::apply_deep and    *)
(* followed by the post_process of the default environment, with           *)
(* deep=True, repeat=False and depth=0, the defaults of every call.        *)
(***************************************************************************)
EXTENDS Comparison

CONSTANTS Input,         \* expressions as the parser hands them over
          Declarations   \* the declarations a session may have made

VARIABLES ex,        \* the expression
          declared,  \* what was declared before it was entered
          stage,     \* "typed", "entered", or "aborted" by an assertion
          value,     \* history: the value of the expression as typed
          exact      \* history: no algorithm was called that may change it

vars == <<ex, declared, stage, value, exact>>

-----------------------------------------------------------------------------
(* The algorithms, at one node.  A result says whether the algorithm        *)
(* reported l_applied.                                                      *)

Result(node, applied) == [node |-> node, applied |-> applied]
Changed(node, result) == Result(result, result # node)

\* One exchange of a bubble sort, and the sort: `steps` are the positions
\* compared, in order.
BubbleSort(node, steps, Swaps(_, _), Sign(_, _)) ==
  LET Compared(n, j) ==
        LET one == n.children[j]
            two == n.children[j + 1]
            Exchanged(sign) ==
              IF sign = 0 THEN n
              ELSE [n EXCEPT !.mult = @ * sign,
                             !.children[j] = two, !.children[j + 1] = one]
        IN IF Swaps(one, two) THEN Exchanged(Sign(one, two)) ELSE n
  IN Changed(node, Fold(Compared, node, steps))

\* A mutant of FullPasses: one pass only.
OnePass(n) == [k \in 1..n |-> k]

\* sort_product: as many full passes as there are neighbours.
FullPasses(n) == [k \in 1..(n * n) |-> ((k - 1) % n) + 1]

SortProductAt(node) ==
  LET n == Len(node.children) - 1
      Swaps(one, two) ==
        ShouldSwap(declared.order, one, two, SubtreeCompare(one, two, TRUE))
      Sign(one, two) == CanSwap(declared, one, two)
  IN BubbleSort(node, FullPasses(n), Swaps, Sign)

\* sort_sum: passes that get shorter, whatever the terms are.
SortSumAt(node) ==
  LET n == Len(node.children) - 1
      Swaps(one, two) ==
        ShouldSwap(declared.order, one, two, SubtreeCompare(one, two, FALSE))
      Sign(one, two) == 1
      Pass(i) == [j \in 1..(n + 1 - i) |-> j]
  IN BubbleSort(node, FlattenSeq([i \in 1..n |-> Pass(i)]), Swaps, Sign)

\* collect_from_hash_map, remove_zeroed_terms: equal terms are added to the
\* first of them.
CollectTermsAt(node) ==
  LET terms == node.children
      Alike(i) == {j \in 1..Len(terms) : ExactEqual(terms[i], terms[j], FALSE)}
      Added(i) ==
        LET alike == Alike(i)
            Add(k, j) == IF j \in alike THEN k + terms[j].mult ELSE k
        IN IF \E j \in alike : j < i THEN Scale(terms[i], 0)
           ELSE [terms[i] EXCEPT !.mult = Fold(Add, 0, [j \in 1..Len(terms) |-> j])]
      added == Each([i \in 1..Len(terms) |-> i], Added)
      Sum(left) == CASE left = <<>>   -> Number(0)
                     [] Len(left) = 1 -> left[1]
                     [] OTHER -> [node EXCEPT !.children = left]
  IN Result(Sum(Each(SelectSeq(added, LAMBDA x : x.mult # 0), PushDown)),
            \E i, j \in 1..Len(terms) : i < j /\ ExactEqual(terms[i], terms[j], FALSE))

\* A mutant of WithTerm: the sign of the term is lost.
WithTermUnscaled(product, term, k) ==
  [product EXCEPT !.mult = @ * k, !.children = Append(@, [term EXCEPT !.mult = 1])]

\* A term of a sum with multiplier k joins the factors of a product.
WithTerm(product, term, k) ==
  [product EXCEPT !.mult = @ * k * term.mult,
                  !.children = Append(@, [term EXCEPT !.mult = 1])]

\* distribute: the sums among the factors multiplied out, left to right.
DistributeAt(node) ==
  LET Times(products, factor) ==
        IF factor.name # "sum"
        THEN Each(products, LAMBDA x : [x EXCEPT !.children = Append(@, factor)])
        ELSE FlattenSeq(Each(products, LAMBDA x :
               Each(factor.children, LAMBDA term : WithTerm(x, term, factor.mult))))
      Sum(products) ==
        IF Len(products) = 1 THEN Result(node, FALSE)
        ELSE Result(Cleanup(Node("sum", 1, Each(products, Cleanup))), TRUE)
  IN Sum(Fold(Times, <<Node("prod", node.mult, <<>>)>>, node.children))

\* expand_power: a product of copies of the base, for exponents above one.
ExpandPowerAt(node) ==
  LET base == node.children[1]
      num  == node.children[2].mult
      ones == [i \in 1..num |-> [base EXCEPT !.mult = 1]]
  IN IF num <= 1 THEN Result(node, FALSE)
     ELSE Result(Cleanup(Node("prod", node.mult * base.mult ^ num, ones)), TRUE)

-----------------------------------------------------------------------------
(* collect_factors                                                          *)

Abort == Node("abort", 1, <<>>)
Erased == Node("erased", 1, <<>>)

Base(factor) == IF factor.name = "pow" THEN factor.children[1] ELSE factor
Exponent(factor) == IF factor.name = "pow" THEN factor.children[2].mult ELSE 1

\* fill_hash_map: factors with an index are not collected.
Collectable(factor) ==
  factor # Erased /\ ~(IsLetter(factor) /\ IndexRank[factor.name] # 0)

\* Factors that hash alike are handled together.  The hash is of addresses:
\* which comes first is open, and `classes` is that choice, with one class
\* for each letter and one for what is no letter.
HashOrder(factors, classes) ==
  LET Class(i) == Position(classes, IF IsLetter(Base(factors[i]))
                                    THEN Base(factors[i]).name ELSE "other")
      InClass(c) == SelectSeq([i \in 1..Len(factors) |-> i],
                              LAMBDA i : Collectable(factors[i]) /\ Class(i) = c)
  IN FlattenSeq([c \in 1..Len(classes) |-> InClass(c)])

\* The factor that replaces one whose collected exponent is k.
Powered(base, k) ==
  CASE k = 1 -> base
    [] k = 0 -> Number(1)
    [] OTHER -> Node("pow", 1, <<base, Number(k)>>)

\* One round of apply: factor i takes over the later equal factors that can
\* be moved to it; the sign they pick up on the way is dropped.
Absorb(factors, i) ==
  LET Movable(list, j) ==
        /\ Collectable(list[j])
        /\ ExactEqual(Base(list[i]), Base(list[j]), TRUE)
        /\ LET between == SelectSeq(SubSeq(list, i, j), LAMBDA x : x # Erased)
           IN CanMoveAdjacent(declared, between, 1, Len(between)) # 0
      Take(s, j) ==
        IF j > i /\ Movable(s.list, j)
        THEN [list |-> [s.list EXCEPT ![j] = Erased],
              total |-> s.total + Exponent(s.list[j]), taken |-> TRUE]
        ELSE s
      Replaced(end) ==
        IF end.taken
        THEN [end.list EXCEPT ![i] = Powered(Base(factors[i]), end.total)]
        ELSE factors
  IN Replaced(Fold(Take, [list |-> factors, total |-> Exponent(factors[i]),
                          taken |-> FALSE], [j \in 1..Len(factors) |-> j]))

\* An assertion wants the base of every collected factor to have multiplier 1.
CollectFactorsAt(node, classes) ==
  LET order == HashOrder(node.children, classes)
      Round(list, i) ==
        IF Abort \in ToSet(list) \/ list[i] = Erased THEN list
        ELSE IF Base(list[i]).mult # 1 THEN [list EXCEPT ![i] = Abort]
        ELSE Absorb(list, i)
      Left(end) ==
        IF Abort \in ToSet(end) THEN Result(Abort, FALSE)
        ELSE Result(Cleanup([node EXCEPT !.children =
                               SelectSeq(end, LAMBDA x : x # Erased)]),
                    end # node.children)
  IN Left(Fold(Round, node.children, order))

-----------------------------------------------------------------------------
(* Algorithm::apply_deep and the call                                       *)

\* can_apply.  Only products are declared Distributable.
CanApply(algorithm, node) ==
  CASE algorithm \in {"sort_product", "collect_factors"} -> node.name = "prod"
    [] algorithm \in {"sort_sum", "collect_terms"} -> node.name = "sum"
    [] algorithm = "distribute" ->
         /\ node.name = "prod"
         /\ \E i \in 1..Len(node.children) : node.children[i].name = "sum"
    [] algorithm = "expand_power" ->
         node.name = "pow" /\ IsRational(node.children[2])

Apply(algorithm, node, classes) ==
  CASE algorithm = "sort_product"    -> SortProductAt(node)
    [] algorithm = "sort_sum"        -> SortSumAt(node)
    [] algorithm = "collect_terms"   -> CollectTermsAt(node)
    [] algorithm = "collect_factors" -> CollectFactorsAt(node, classes)
    [] algorithm = "distribute"      -> DistributeAt(node)
    [] algorithm = "expand_power"    -> ExpandPowerAt(node)

\* collect_terms hands the multiplier of a lone term to the product around.
AfterApply(algorithm, tree, path, result) ==
  LET changed == Put(tree, path, result.node)
  IN IF /\ algorithm = "collect_terms"
        /\ result.node.name # At(tree, path).name /\ result.node # Number(0)
     THEN PushUp(changed, path) ELSE changed

\* The walk, children before parents: a node above a change is cleaned up
\* before it is looked at, and a zero restarts the walk where it ends up.
RECURSIVE Walk(_, _, _, _, _)
Walk(algorithm, classes, tree, path, deepest) ==
  LET Step(t, p, d) == IF path = <<>> THEN t ELSE Walk(algorithm, classes, t, p, d)
      FromZero(zeroed) == Step(zeroed.tree, zeroed.path, Len(path))
      Applied(clean, floor, result, after) ==
        CASE result.node = Abort -> Abort
          [] result.node # Abort /\ ~result.applied ->
               Step(after, NextPostOrder(clean, path), floor)
          [] result.applied /\ result.node.mult = 0 ->
               FromZero(PropagateZeroes(after, path))
          [] OTHER -> Step(after, NextPostOrder(clean, path), Len(path))
      Finish(clean, floor, result) ==
        Applied(clean, floor, result, AfterApply(algorithm, clean, path, result))
      Visit(clean, floor) ==
        IF CanApply(algorithm, At(clean, path))
        THEN Finish(clean, floor, Apply(algorithm, At(clean, path), classes))
        ELSE Step(clean, NextPostOrder(clean, path), floor)
      above == deepest > Len(path)
  IN Visit(IF above THEN Put(tree, path, Cleanup(At(tree, path))) ELSE tree,
           IF above THEN Len(path) ELSE deepest)

\* The post_process of the default environment.
PostProcess == "collect_terms"

ApplyDeep(algorithm, classes, tree) ==
  Walk(algorithm, classes, tree, DescendAll(tree, <<>>), -1)

\* Algorithms one after the other; a failed assertion ends the session, and an
\* expression without children is not given to the post-process.
InTurn(algorithms, classes, tree) ==
  LET Then(t, algorithm) ==
        IF t = Abort \/ (t.children = <<>> /\ algorithm = PostProcess) THEN t
        ELSE ApplyDeep(algorithm, classes, t)
  IN Fold(Then, tree, algorithms)

-----------------------------------------------------------------------------
(* The value of an expression: the reference the algorithms are held to.    *)
(* A word is a sequence of letters with power 1 or -1, a value a set of     *)
(* words with their coefficients, and two words are one when the declared   *)
(* rules (as the manual describes them) turn one into the other.            *)

Power(letter, k) == [letter |-> letter, power |-> k]
Monomial(word, k) == [word |-> word, coefficient |-> k]

\* What exchanging two letters does: their sign, or 0 when they may not.
Exchange(a, b) ==
  CASE {a, b} \subseteq ToSet(declared.list) /\ a # b -> declared.listSign
    [] /\ HeadRank[a] = declared.self /\ HeadRank[b] = declared.self
       /\ IndexRank[a] # 0 /\ IndexRank[b] # 0 -> declared.selfSign
    [] OTHER -> 1

LetterRank(letter) == 100 * HeadRank[letter] + IndexRank[letter]

\* A word in its standard order, with its sign; two equal letters that
\* anticommute with themselves make it vanish.
RECURSIVE Standard(_)
Standard(m) ==
  LET w == m.word
      At2(i) == Exchange(w[i].letter, w[i + 1].letter)
      Swaps == {i \in 1..(Len(w) - 1) :
                  /\ LetterRank(w[i].letter) > LetterRank(w[i + 1].letter)
                  /\ At2(i) # 0}
      Same(i) == w[i].letter = w[i + 1].letter
      Cancels == {i \in 1..(Len(w) - 1) :
                    Same(i) /\ w[i].power # w[i + 1].power}
      Vanishes == \E i \in 1..(Len(w) - 1) : Same(i) /\ At2(i) = -1
      Least(S) == CHOOSE i \in S : \A j \in S : i <= j
  IN IF Swaps # {}
     THEN LET i == Least(Swaps)
          IN Standard(Monomial([w EXCEPT ![i] = w[i + 1], ![i + 1] = w[i]],
                               m.coefficient * At2(i)))
     ELSE IF Cancels # {}
     THEN LET i == Least(Cancels)
          IN Standard(Monomial(SubSeq(w, 1, i - 1) \o SubSeq(w, i + 2, Len(w)),
                               m.coefficient))
     ELSE IF Vanishes THEN Monomial(w, 0) ELSE m

\* The monomials of an expression, multiplied out and not yet added up.
RECURSIVE Monomials(_)
Monomials(node) ==
  LET Scaled(ms) == Each(ms, LAMBDA m : [m EXCEPT !.coefficient = @ * node.mult])
      Times(ms, ns) ==
        FlattenSeq(Each(ms, LAMBDA m : Each(ns, LAMBDA n :
          Monomial(m.word \o n.word, m.coefficient * n.coefficient))))
      One == <<Monomial(<<>>, 1)>>
      Parts == Each(node.children, Monomials)
      Factors == IF node.name = "prod" THEN Parts
                 ELSE [i \in 1..node.children[2].mult |-> Parts[1]]
  IN CASE node.name = "1" -> Scaled(One)
       [] IsLetter(node)  -> Scaled(<<Monomial(<<Power(node.name, 1)>>, 1)>>)
       [] node.name = "sum" -> Scaled(FlattenSeq(Parts))
       [] node.name = "prod" \/ (node.name = "pow" /\ node.children[2].mult >= 0) ->
            Scaled(Fold(Times, One, Factors))
       [] OTHER ->   \* a negative power, of a letter
            Scaled(<<Monomial([i \in 1..(-node.children[2].mult) |->
                                 Power(node.children[1].name, -1)], 1)>>)

Value(node) ==
  LET ms == Each(Monomials(node), Standard)
      Coefficient(w) == Fold(LAMBDA k, m : IF m.word = w THEN k + m.coefficient
                                               ELSE k, 0, ms)
  IN {m \in {Monomial(w, Coefficient(w)) : w \in {ms[i].word : i \in 1..Len(ms)}} :
        m.coefficient # 0}

-----------------------------------------------------------------------------
(* The session                                                              *)

Init ==
  /\ declared \in Declarations
  /\ ex \in Input
  /\ stage = "typed"
  /\ value = {}
  /\ exact = TRUE

\* The expression is cleaned up and post-processed when it is entered.
Enter ==
  /\ stage = "typed"
  /\ ex' = InTurn(<<PostProcess>>, <<>>, CleanupDeep(ex))
  /\ stage' = "entered"
  /\ value' = Value(ex)
  /\ UNCHANGED <<declared, exact>>

Call(algorithm, classes) ==
  /\ stage = "entered"
  /\ \E called \in {InTurn(<<algorithm, PostProcess>>, classes, ex)} :
       IF called = Abort THEN stage' = "aborted" /\ UNCHANGED ex
       ELSE ex' = called /\ UNCHANGED stage
  /\ UNCHANGED <<declared, value>>

RECURSIVE Nodes(_)
Nodes(node) == {node} \cup UNION {Nodes(node.children[i]) : i \in 1..Len(node.children)}

HasPower(node) == \E n \in Nodes(node) : n.name = "pow"
AllCommute == declared.listSign = 1

SortProduct ==
  /\ Call("sort_product", <<>>)
  /\ exact' = (exact /\ (AllCommute \/ ~HasPower(ex)))

CollectFactors ==
  /\ \E classes \in SetToSeqs({x \in Letter : IndexRank[x] = 0} \cup {"other"}) :
       Call("collect_factors", classes)
  /\ exact' = (exact /\ AllCommute)

SortSum      == Call("sort_sum", <<>>)      /\ UNCHANGED exact
CollectTerms == Call("collect_terms", <<>>) /\ UNCHANGED exact
Distribute   == Call("distribute", <<>>)    /\ UNCHANGED exact
ExpandPower  == Call("expand_power", <<>>)  /\ UNCHANGED exact

Next == Enter \/ SortProduct \/ SortSum \/ CollectTerms \/ CollectFactors
          \/ Distribute \/ ExpandPower

AlgebraSpec == Init /\ [][Next]_vars

-----------------------------------------------------------------------------
(* Properties                                                               *)

\* No algorithm changes the value of the expression, whatever is declared and
\* in whatever order they are called: signs of exchanged factors, multipliers
\* moved up, down and out, zeroes, and the post-processing included.  Two of
\* them keep it under a condition only: sort_product while there is no power,
\* because a power commutes with everything, and collect_factors while all
\* letters of the list commute, because it drops the sign of a move.
AlgorithmsKeepTheValue ==
  stage # "typed" /\ exact => Value(ex) = value

IsClean(node) ==
  LET names == {node.children[i].name : i \in 1..Len(node.children)}
      mults == {node.children[i].mult : i \in 1..Len(node.children)}
  IN CASE node.name = "prod" -> /\ Len(node.children) > 1 /\ mults = {1}
                                /\ names \cap {"prod", "1"} = {}
       [] node.name = "sum"  -> /\ Len(node.children) > 1 /\ node.mult = 1
                                /\ "sum" \notin names /\ 0 \notin mults
       [] OTHER -> TRUE

\* After every call the whole tree has the standard shape the next algorithm
\* relies on: no product in a product, no sum in a sum, no lone factor or
\* term, no number among factors, multipliers where they belong, and zero
\* only as the whole expression.
ExpressionIsClean == stage # "typed" =>
  /\ \A node \in Nodes(ex) : IsClean(node)
  /\ \A node \in Nodes(ex) : node.mult = 0 => node = ex /\ ex = Number(0)

\* Three letters that sort_product orders in a circle: a SortOrder of some
\* names, and the names themselves for the others.
OrderIsCircular ==
  LET After(x, y) == LET one == Node(x, 1, <<>>)
                         two == Node(y, 1, <<>>)
                     IN ShouldSwap(declared.order, one, two,
                                   SubtreeCompare(one, two, TRUE))
  IN \E x, y, z \in Letter : After(x, y) /\ After(y, z) /\ After(z, x)

\* Expanded, distributed and sorted, an expression that is zero by the rules
\* declared is seen to be zero: equal products end up in the same order and
\* are collected.  Not so when the order has a circle, nor for the square of
\* an object that anticommutes with itself, which no algorithm here drops.
ZeroIsRecognised ==
  LET calls == <<"expand_power", PostProcess, "distribute", PostProcess,
                 "sort_product", PostProcess>>
  IN /\ stage # "typed" /\ declared.selfSign # -1 /\ ~OrderIsCircular
     /\ Value(ex) = {}
     => InTurn(calls, <<>>, ex) = Number(0)

\* "Sort factors in a product, taking into account any SortOrder properties.
\* Also takes into account commutativity properties" (sort_product.cnb:12).
SortKeepsTheValue == [][SortProduct => Value(ex') = Value(ex)]_vars
=============================================================================
