----------------------------- MODULE TreeWalks -----------------------------
(***************************************************************************)
(* The iterators of core/tree.hh and the questions asked of a tree, as     *)
(* walks along the links.                                                  *)
(***************************************************************************)
EXTENDS LinkedTree, SequencesExt

(* The children of every node, and the top level of every tree, in order. *)
Kids(m) ==
  LET onwards[n \in Ptr \cup {Null}] ==
        IF n \in Node THEN <<n>> \o onwards[m[n].next_sibling] ELSE <<>>
  IN  [p \in Node \cup {head(t) : t \in Tree} |->
         IF p \in Node THEN onwards[m[p].first_child]
         ELSE onwards[m[p].next_sibling]]

(* p and all that is below it in k, a parent before its children. *)
PreOrder(k, p) ==
  LET under[n \in DOMAIN k] ==
        <<n>> \o FlattenSeq([i \in DOMAIN k[n] |-> under[k[n][i]]])
  IN  under[p]
-----------------------------------------------------------------------------
(* pre_order_iterator *)
next_skip_children(m, n) ==
  LET rightwards[k \in Ptr \cup {Null}] ==
        IF k = Null THEN Null
        ELSE IF m[k].next_sibling # Null THEN m[k].next_sibling
        ELSE rightwards[m[k].parent]
  IN  rightwards[n]

pre_order_inc(m, n) ==
  IF m[n].first_child # Null THEN m[n].first_child ELSE next_skip_children(m, n)

Mutant_pre_order_dec(m, n) ==   \* down one level only
  IF m[n].prev_sibling = Null THEN m[n].parent
  ELSE IF m[m[n].prev_sibling].last_child = Null THEN m[n].prev_sibling
  ELSE m[m[n].prev_sibling].last_child

pre_order_dec(m, n) ==
  LET deepest[k \in Ptr] == IF m[k].last_child = Null THEN k
                            ELSE deepest[m[k].last_child]
  IN  IF m[n].prev_sibling # Null THEN deepest[m[n].prev_sibling]
      ELSE m[n].parent

(* A pre-order iterator made from the end of the children of p. *)
from_end(m, p) ==
  next_skip_children(m, IF m[p].last_child # Null THEN m[p].last_child ELSE p)

(* fixed_depth_iterator: up past the ends of sibling lists, along, and down *)
(* again by as many levels; lvl counts the levels still to go down.         *)
fixed_depth_inc(m, top, n) ==
  LET walk[at \in {"upper", "lower", "along", "down"} \X Ptr \X Nat] ==
        LET k == at[2]  lvl == at[3]
        IN  CASE at[1] = "upper" ->
                   IF k = top \/ m[k].parent = Null THEN Null
                   ELSE IF m[m[k].parent].next_sibling = Null
                        THEN walk[<<"upper", m[k].parent, lvl + 1>>]
                        ELSE walk[<<"lower", m[k].parent, lvl + 1>>]
              [] at[1] = "lower" -> walk[<<"along", m[k].next_sibling, lvl>>]
              [] at[1] = "along" ->
                   IF m[k].first_child # Null THEN walk[<<"down", k, lvl>>]
                   ELSE IF m[k].next_sibling = Null THEN walk[<<"upper", k, lvl>>]
                   ELSE walk[<<"along", m[k].next_sibling, lvl>>]
              [] at[1] = "down" ->
                   IF lvl = 0 THEN k
                   ELSE IF m[k].first_child # Null
                        THEN walk[<<"down", m[k].first_child, lvl - 1>>]
                   ELSE IF m[k].next_sibling = Null THEN walk[<<"upper", k, lvl>>]
                   ELSE walk[<<"lower", k, lvl>>]
  IN  IF m[n].next_sibling # Null THEN m[n].next_sibling
      ELSE walk[<<"upper", n, 0>>]

(* Null stands for the range_error. *)
begin_fixed(m, pos, dp) ==
  LET walk[at \in Ptr \X Nat \X BOOLEAN] ==
        LET k == at[1]  depth == at[2]
        IN  IF depth = dp THEN k
            ELSE IF m[k].first_child # Null /\ ~ at[3]
                 THEN walk[<<m[k].first_child, depth + 1, FALSE>>]
            ELSE IF m[k].next_sibling # Null
                 THEN walk[<<m[k].next_sibling, depth, FALSE>>]
            ELSE IF k = pos \/ m[k].parent = Null THEN Null
            ELSE walk[<<m[k].parent, depth - 1, TRUE>>]
  IN  walk[<<pos, 0, FALSE>>]
-----------------------------------------------------------------------------
number_of_children(m, p) ==
  LET count[n \in Ptr \cup {Null}] ==
        IF n = Null THEN 0 ELSE 1 + count[m[n].next_sibling]
  IN  count[m[p].first_child]

(* The version of an iterator stops at the last child. *)
number_of_children_to_last(m, p) ==
  LET count[n \in Node] ==
        IF n = m[p].last_child THEN 1 ELSE 1 + count[m[n].next_sibling]
  IN  IF m[p].first_child = Null THEN 0 ELSE count[m[p].first_child]

index(m, n) ==
  LET before[k \in Node] ==
        IF m[k].prev_sibling \in Node THEN 1 + before[m[k].prev_sibling] ELSE 0
  IN  before[n]

child(m, p, num) ==
  LET nth[i \in Nat] == IF i = 0 THEN m[p].first_child
                        ELSE m[nth[i - 1]].next_sibling
  IN  nth[num]

depth_of(m, n) ==
  LET up[k \in Node] == IF m[k].parent = Null THEN 0 ELSE 1 + up[m[k].parent]
  IN  up[n]

lowest_common_ancestor(m, one, two) ==
  LET above[k \in Node] ==
        IF m[k].parent = Null THEN {} ELSE {m[k].parent} \cup above[m[k].parent]
      first[k \in Node] ==
        LET p == m[k].parent
        IN  IF p \in above[one] \/ m[p].parent = Null THEN p ELSE first[p]
  IN  first[two]

(* equal_subtree(one, two): both walked in step, until one leaves its       *)
(* subtree.                                                                 *)
Alike(m, one, two) ==
  /\ m[one].data = m[two].data
  /\ number_of_children(m, one) = number_of_children(m, two)

equal_subtree(m, one, two) ==
  LET equal[at \in Ptr \X Ptr] ==
        \/ at[1] = from_end(m, one) \/ at[2] \notin Node
        \/ Alike(m, at[1], at[2])
           /\ equal[<<pre_order_inc(m, at[1]), pre_order_inc(m, at[2])>>]
      start(n) == IF m[n].first_child = Null THEN from_end(m, n)
                  ELSE m[n].first_child
  IN  Alike(m, one, two) /\ equal[<<start(one), start(two)>>]
=============================================================================
