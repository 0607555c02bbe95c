----------------------------- MODULE TreeChecks -----------------------------
(***************************************************************************)
(* What the tree container promises, said of the children of every node    *)
(* and of nothing else: where each call of LinkedTree puts the nodes, and  *)
(* which nodes each walk of TreeWalks comes to.                            *)
(***************************************************************************)
EXTENDS TreeWalks

(* s after the first i of u, and u without its elements i to j. *)
Into(u, i, s)    == SubSeq(u, 1, i) \o s \o SubSeq(u, i + 1, Len(u))
Without(u, i, j) == SubSeq(u, 1, i - 1) \o SubSeq(u, j + 1, Len(u))

Put(k, p, i, s) == [k EXCEPT ![p] = Into(@, i, s)]
Drop(k, S) == [p \in DOMAIN k |-> IF p \in S THEN <<>> ELSE k[p]]

Over(k, n)   == CHOOSE p \in DOMAIN k : Contains(k[p], n)
Place(k, n)  == CHOOSE i \in DOMAIN k[Over(k, n)] : k[Over(k, n)][i] = n
Before(k, n, s) == Put(k, Over(k, n), Place(k, n) - 1, s)
After(k, n, s)  == Put(k, Over(k, n), Place(k, n), s)
AtEnd(k, p, s)  == Put(k, p, Len(k[p]), s)
From(k, first, last) ==
  SubSeq(k[Over(k, first)], Place(k, first), Place(k, last))
Cut(k, first, last) ==
  [k EXCEPT ![Over(k, first)] = Without(@, Place(k, first), Place(k, last))]

(* n and all that is below it. *)
Under(k, n) ==
  {n} \cup InAll({S \in SUBSET Node :
                   \A p \in S \cup {n} : ToSet(k[p]) \subseteq S})
Exchanged(k, one, two) ==
  [p \in DOMAIN k |-> [i \in DOMAIN k[p] |->
     CASE k[p][i] = one -> two [] k[p][i] = two -> one [] OTHER -> k[p][i]]]

InForest(k) == UNION {ToSet(k[p]) : p \in DOMAIN k}

(* After the call the children are k; a new node has the value x, the nodes *)
(* that stay have kept theirs, and the memory of the others is free.        *)
Gives(m, k, x) ==
  /\ Kids(m) = k
  /\ \A n \in Node : m[n].data = IF n \notin InForest(k) THEN Freed
                                 ELSE IF n \in Fresh(mem) THEN x
                                 ELSE mem[n].data

(* Every call with a new node n puts n, without children, where it says.    *)
NewNodesGoWhereTheySay(k, n, x) ==
  /\ \A t \in Tree : k[head(t)] = <<>> =>
        Gives(set_head(mem, t, n, x), AtEnd(k, head(t), <<n>>), x)
  /\ \A t \in Tree :
        Gives(insert_at_end_moved(mem, t, n, x), AtEnd(k, head(t), <<n>>), x)
  /\ \A p \in Alive(mem) :
        /\ Gives(insert_at_end(mem, p, n, x), AtEnd(k, p, <<n>>), x)
        /\ Gives(append_child(mem, p, n, x), AtEnd(k, p, <<n>>), x)
        /\ Gives(prepend_child(mem, p, n, x), Put(k, p, 0, <<n>>), x)
        /\ Gives(insert(mem, p, n, x), Before(k, p, <<n>>), x)
        /\ Gives(insert_after(mem, p, n, x), After(k, p, <<n>>), x)
        /\ \A q \in RangeEnds(p) :
             LET s == From(k, p, q)
             IN  Gives(wrap(mem, p, q, n, x),
                       [Cut(Before(k, p, <<n>>), p, q) EXCEPT ![n] = s], x)

(* Erased nodes go with all that is below them, and no other node does.     *)
OnlyErasedNodesGo(k) ==
  /\ \A t \in Tree :
        Gives(clear(mem, t), Drop(k, Under(k, head(t))), Blank)
  /\ \A p \in Alive(mem) :
        /\ Gives(erase(mem, p), Drop(Cut(k, p, p), Under(k, p)), Blank)
        /\ Gives(erase_children(mem, p), Drop(k, Under(k, p)), Blank)

(* Rearranging moves what it names, with all that is below it, to the place *)
(* it names, and leaves every other node among the siblings it had.         *)
OthersStayInPlace(k) == \A p \in Alive(mem) :
  /\ k[p] # <<>> =>
       Gives(flatten(mem, p), After([k EXCEPT ![p] = <<>>], p, k[p]), Blank)
  /\ \A r \in RangeEnds(p), q \in Alive(mem) :
       LET s == From(k, p, r)
       IN  (\A i \in DOMAIN s : q \notin Under(k, s[i])) =>
             Gives(reparent(mem, q, p, r), AtEnd(Cut(k, p, r), q, s), Blank)
  /\ \A q \in Alive(mem) \ Under(k, p) :
       /\ Gives(move_after(mem, q, p), After(Cut(k, p, p), q, <<p>>), Blank)
       /\ Gives(move_before(mem, q, p), Before(Cut(k, p, p), q, <<p>>), Blank)
       /\ p \notin Under(k, q) =>
            /\ Gives(swap(mem, q, p), Exchanged(k, q, p), Blank)
            /\ ~ Adjacent(q, p) =>
                 Gives(move_ontop(mem, q, p),
                       Drop(Cut(Before(Cut(k, p, p), q, <<p>>), q, q),
                            Under(k, q)), Blank)

(* A copy grows node by node, down and to the right as its source does,    *)
(* and is complete when the call returns: node for node the same data, and  *)
(* the children of a copy are the copies of the children, in order.         *)
CopyIsFaithful == InPhase("done") =>
  LET k == Kids(mem)
  IN  \E of \in [Under(k, copying.top) -> Under(k, copying.start)] :
        /\ of[copying.top] = copying.start
        /\ \A n \in DOMAIN of :
             /\ mem[n].data = mem[of[n]].data
             /\ k[of[n]] = [i \in DOMAIN k[n] |-> of[k[n][i]]]

(* Every call does to the children of every node what tree.hh says of it,   *)
(* those that copy included; what this forest looks like is all an          *)
(* algorithm knows of an expression.                                        *)
CallsDoWhatTheySay ==
  /\ LET k == Kids(mem)
     IN  ~ Copying =>
           /\ \A n \in Fresh(mem), x \in Data : NewNodesGoWhereTheySay(k, n, x)
           /\ OnlyErasedNodesGo(k)
           /\ OthersStayInPlace(k)
  /\ CopyIsFaithful

(* Memory is neither lost nor shared: a node is in use exactly when a walk   *)
(* from the head of some tree comes to it, and it then is in one place of    *)
(* one list, whose links agree in both directions and with its owner.  So no *)
(* subtree hangs below itself or is left to no tree, which no single call    *)
(* could repair, and erase() of a tree frees all it had.                     *)
EveryNodeHasOnePlace ==
  LET k == Kids(mem)
  IN  /\ LinksAgree
      /\ \A n \in Node : n \in Alive(mem) <=> \E t \in Tree : n \in InTree(mem, t)
      /\ \A n \in Node : n \in Alive(mem) <=> n \in InForest(k)
      /\ \A p, q \in DOMAIN k : \A i \in DOMAIN k[p], j \in DOMAIN k[q] :
           k[p][i] = k[q][j] => p = q /\ i = j

(* replace_match.cc: "Replace the first term that matches with 'current'":  *)
(* the kept term is where the match was.  (The code does not keep this when *)
(* the match is the last term: see the README.)                             *)
ReplacedTermStaysInTheSum ==
  \A t \in Tree, n \in Fresh(mem), x \in Data : \A sum \in InTree(mem, t) :
    \A i \in DOMAIN Kids(mem)[sum] :
      ~ Copying => Kids(replace_match(mem, t, Kids(mem)[sum][i], n, x))[sum]
                     = [Kids(mem)[sum] EXCEPT ![i] = n]
-----------------------------------------------------------------------------
Walk(first, step(_)) ==
  LET onwards[n \in Ptr \cup {Null}] ==
        IF n \in Node THEN <<n>> \o onwards[step(n)] ELSE <<>>
  IN  onwards[first]

(* n and all below it once more, by the walk down. *)
Branch(k, n) == ToSet(PreOrder(k, n))

(* Depth of n below p in the forest k. *)
Level(k, p, n) ==
  LET up[q \in DOMAIN k] == IF q = p THEN 0 ELSE 1 + up[Over(k, q)]
  IN  up[n]

(* Iterators of a tree come to each of its nodes once and to no other, in   *)
(* their order.                                                             *)
TreeIsWalked(k, t) ==
  LET all  == Tail(PreOrder(k, head(t)))
      next(n) == pre_order_inc(mem, n)
      prev(n) == pre_order_dec(mem, n)
  IN  /\ Walk(mem[head(t)].next_sibling, next) = all
      /\ Walk(pre_order_dec(mem, feet(t)), prev) = Reverse(all)
      /\ \A i \in DOMAIN all :
           LET after == i + Cardinality(Branch(k, all[i]))
               rest  == IF after \in DOMAIN all THEN all[after] ELSE feet(t)
           IN  next_skip_children(mem, all[i]) = rest /\ from_end(mem, all[i]) = rest

FixedDepthIsWalked(k, t) == Len(k[head(t)]) = 1 =>
  LET top == k[head(t)][1]
      next(n) == fixed_depth_inc(mem, top, n)
  IN  \A d \in 1..Cardinality(Node) :
        LET level == SelectSeq(PreOrder(k, top), LAMBDA n : Level(k, top, n) = d)
            first == begin_fixed(mem, top, d)
        IN  IF level = <<>> THEN first = Null ELSE Walk(first, next) = level

(* The tree below p: data, and the trees below its children. *)
Shape(k, p) == LET rel[n \in DOMAIN k] ==
                     <<mem[n].data, [i \in DOMAIN k[n] |-> rel[k[n][i]]]>>
               IN  rel[p]

QuestionsAreAnswered(k, n) ==
  /\ Branch(k, n) = Under(k, n)
  /\ number_of_children(mem, n) = Len(k[n])
  /\ number_of_children_to_last(mem, n) = Len(k[n])
  /\ \A i \in DOMAIN k[n] :
       child(mem, n, i - 1) = k[n][i] /\ index(mem, k[n][i]) = i - 1
  /\ \A t \in Tree : n \in Branch(k, head(t)) =>
       depth_of(mem, n) = Level(k, head(t), n) - 1

PairsAreCompared(k, one, two) ==
  /\ equal_subtree(mem, one, two) <=> Shape(k, one) = Shape(k, two)
  /\ \A top \in Alive(mem) :
       mem[top].parent = Null /\ {one, two} \subseteq Branch(k, top) \ {top} =>
         LET both == {p \in Branch(k, top) : {one, two} \subseteq Branch(k, p) \ {p}}
         IN  both = {p \in Branch(k, top) :
                       lowest_common_ancestor(mem, one, two) \in Branch(k, p)}

(* The walks and questions of tree.hh, which follow links of every kind,    *)
(* agree with the children of every node; an erased or moved node that one  *)
(* link still leads to shows up here.                                       *)
WalksAreComplete ==
  LET k == Kids(mem)
  IN  /\ \A t \in Tree : TreeIsWalked(k, t) /\ FixedDepthIsWalked(k, t)
      /\ \A n \in Alive(mem) : QuestionsAreAnswered(k, n)
      /\ \A one, two \in Alive(mem) : PairsAreCompared(k, one, two)
=============================================================================
