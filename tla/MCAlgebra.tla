----------------------------- MODULE MCAlgebra -----------------------------
(* Small expressions over three letters and one with an index, for TLC.    *)
EXTENDS Algebra

MCLetter == {"A", "B", "P_m", "P_n"}
MCHeadRank == [x \in MCLetter |->
                 CASE x = "A" -> 1 [] x = "B" -> 2 [] OTHER -> 3]
MCIndexRank == [x \in MCLetter |->
                  CASE x = "P_m" -> 1 [] x = "P_n" -> 2 [] OTHER -> 0]

L(letter) == Node(letter, 1, <<>>)
Sum(x, y) == Node("sum", 1, <<x, y>>)
Prod(xs) == Node("prod", 1, xs)
Pow(x, k) == Node("pow", 1, <<x, Number(k)>>)
Times(k, x) == Prod(<<Number(k), x>>)

Leaf == {L(x) : x \in MCLetter}
Compound == {Sum(L("A"), L("B")), Sum(L("A"), Times(-1, L("P_m"))),
             Pow(L("A"), 2), Pow(L("A"), -1), Pow(Times(2, L("B")), 2),
             Pow(Sum(L("A"), L("B")), 2)}

Pair == {Prod(<<x, y>>) : x, y \in {L("A"), L("B"), L("P_m")}}
SomePair == {Prod(<<L(x[1]), L(x[2])>>) :
               x \in {<<"A", "B">>, <<"B", "A">>, <<"B", "P_n">>, <<"P_n", "B">>}}
Letters3 == {Prod(<<x, y, z>>) : x, y, z \in Leaf}

MCInput ==
  Letters3
    \cup {Prod(<<Times(-1, x), Times(2, y)>>) : x, y \in Leaf}
    \cup {Prod(<<x, y, z>>) :
            x \in Compound, y \in {L("A"), L("B")}, z \in {L("B"), L("P_n")}}
    \cup {Prod(<<x, y>>) : x, y \in Compound \ {Pow(Sum(L("A"), L("B")), 2)}}
    \cup {Sum(x, Times(k, y)) : x, y \in Pair, k \in {-1, 2}}
    \cup {Prod(<<L("A"), Sum(y, Times(-1, z))>>) : y, z \in SomePair}
    \cup {Sum(x, Prod(<<L("B"), Sum(y, Times(-1, z))>>)) :
            x \in {L("A"), Pow(L("B"), 2)}, y, z \in SomePair}

\* Names stand by their rank: 1 is A, 2 is B, 3 is P.
Rule(listSign, selfSign, order) ==
  [list |-> <<"A", "B">>, listSign |-> listSign,
   self |-> 3, selfSign |-> selfSign, order |-> order]

MCDeclarations == {Rule(1, 1, <<>>), Rule(-1, -1, <<>>), Rule(0, 0, <<2, 1>>),
                   Rule(-1, 0, <<2, 1>>), Rule(1, 1, <<3, 1>>)}

NonCommuting == {Rule(0, 1, <<>>)}
=============================================================================
