---------------------------- MODULE LinkedTree ----------------------------
(***************************************************************************)
(* The tree container that stores every expression (core/tree.hh): nodes   *)
(* with five links each, under a dummy head and feet per tree, which keep  *)
(* the top level a list without ends.  The operations the program calls    *)
(* are operators from one memory to the next, so that each can be compared *)
(* with what it promises (TreeChecks); the actions perform one call each,  *)
(* except for a copy, which goes node by node.                             *)
(***************************************************************************)
EXTENDS Naturals, FiniteSets

CONSTANTS Node,     \* the memory tree nodes can be allocated in
          Tree,     \* tree objects; all allocate from the same memory
          Data,     \* values stored at nodes
          Blank,    \* the value of a default-constructed node
          Freed,    \* marks memory that holds no node
          Null

head(t) == <<"head", t>>
feet(t) == <<"feet", t>>
Dummy == {"head", "feet"} \X Tree
Ptr == Node \cup Dummy

ASSUME TreeAssumption ==
  /\ Node \cap Dummy = {} /\ Null \notin Ptr
  /\ Freed \notin Data \cup {Blank}

VARIABLES mem,      \* the nodes, dummies included
          copying   \* a copy under way, or Null

vars == <<mem, copying>>

tree_node(p, b, a, x) ==
  [parent |-> p, first_child |-> Null, last_child |-> Null,
   prev_sibling |-> b, next_sibling |-> a, data |-> x]

Unused == tree_node(Null, Null, Null, Freed)

Alive(m) == {n \in Node : m[n].data # Freed}
Fresh(m) == Node \ Alive(m)

head_initialise == [x \in Ptr |->
  IF x \in Node THEN Unused
  ELSE IF x[1] = "head" THEN tree_node(Null, Null, feet(x[2]), Blank)
  ELSE tree_node(Null, head(x[2]), Null, Blank)]

Init == mem = head_initialise /\ copying = Null
-----------------------------------------------------------------------------
(* The nodes in every set that holds n and is closed under the walk: those  *)
(* the walk comes to.                                                       *)
InAll(sets) == {n \in Node : \A S \in sets : n \in S}

(* first and the siblings after it, up to last. *)
Chain(m, first, last) ==
  InAll({S \in SUBSET Node :
           /\ first \in S
           /\ \A k \in S \ {last} : m[k].next_sibling \in Node
                                      => m[k].next_sibling \in S})

(* What a walk down and to the right from n comes to, n included. *)
Reach(m, n) ==
  InAll({S \in SUBSET Node :
           /\ n \in Node => n \in S
           /\ \A k \in S : \A j \in {m[k].first_child, m[k].next_sibling} :
                 j \in Node => j \in S})

Below(m, n) == Reach(m, m[n].first_child)
InTree(m, t) == Reach(m, m[head(t)].next_sibling)
Subtree(m, n) == {n} \cup Below(m, n)

(* The two halves of every rearrangement.  The siblings first..last leave   *)
(* their place ...                                                          *)
Unlink(m, first, last) ==
  LET p == m[first].parent
      b == m[first].prev_sibling
      a == m[last].next_sibling
  IN  [x \in Ptr |-> [m[x] EXCEPT
         !.first_child  = IF x = p /\ b = Null THEN a ELSE @,
         !.last_child   = IF x = p /\ a = Null THEN b ELSE @,
         !.next_sibling = IF x = b THEN a ELSE @,
         !.prev_sibling = IF x = a THEN b ELSE @]]

(* ... and first..last enter one: below p, between b and a.                 *)
LinkIn(m, first, last, p, b, a) ==
  LET moved == Chain(m, first, last)
  IN  [x \in Ptr |-> [m[x] EXCEPT
         !.parent       = IF x \in moved THEN p ELSE @,
         !.first_child  = IF x = p /\ b = Null THEN first ELSE @,
         !.last_child   = IF x = p /\ a = Null THEN last ELSE @,
         !.next_sibling = IF x = last THEN a ELSE IF x = b THEN first ELSE @,
         !.prev_sibling = IF x = first THEN b ELSE IF x = a THEN last ELSE @]]

Construct(m, n, x) == [m EXCEPT ![n] = tree_node(Null, Null, Null, x)]
Deallocate(m, S) == [x \in Ptr |-> IF x \in S THEN Unused ELSE m[x]]

Move(m, n, p, b, a) == LinkIn(Unlink(m, n, n), n, n, p, b, a)
New(m, n, x, p, b, a) == LinkIn(Construct(m, n, x), n, n, p, b, a)
-----------------------------------------------------------------------------
(* Insertion: n is the memory the allocator returns. *)
append_child(m, p, n, x)  == New(m, n, x, p, m[p].last_child, Null)
prepend_child(m, p, n, x) == New(m, n, x, p, Null, m[p].first_child)
insert(m, pos, n, x) ==
  New(m, n, x, m[pos].parent, m[pos].prev_sibling, pos)
insert_after(m, pos, n, x) ==
  New(m, n, x, m[pos].parent, pos, m[pos].next_sibling)
set_head(m, t, n, x) == insert(m, feet(t), n, x)

(* At the end of the children of p there is no node to insert before: the   *)
(* sibling version appends, the one for temporaries takes the feet.         *)
insert_at_end(m, p, n, x)        == append_child(m, p, n, x)
insert_at_end_moved(m, t, n, x)  == insert(m, feet(t), n, x)

erase_children(m, pos) ==
  Deallocate([m EXCEPT ![pos].first_child = Null, ![pos].last_child = Null],
             Below(m, pos))
Mutant_erase(m, pos) ==   \* what lies below the children is not released
  Deallocate(Unlink(m, pos, pos), {pos} \cup Chain(m, m[pos].first_child, Null))
erase(m, pos) == Deallocate(Unlink(m, pos, pos), Subtree(m, pos))
clear(m, t) ==
  Deallocate([m EXCEPT ![head(t)].next_sibling = feet(t),
                       ![feet(t)].prev_sibling = head(t)],
             InTree(m, t))

flatten(m, pos) ==
  LET first == m[pos].first_child
      last  == m[pos].last_child
  IN  LinkIn([m EXCEPT ![pos].first_child = Null, ![pos].last_child = Null],
             first, last, m[pos].parent, pos, m[pos].next_sibling)

Mutant_reparent(m, pos, first, last) ==   \* the last child is read too early
  LinkIn(Unlink(m, first, last), first, last, pos, m[pos].last_child, Null)
reparent(m, pos, first, last) ==
  LET out == Unlink(m, first, last)
  IN  LinkIn(out, first, last, pos, out[pos].last_child, Null)

wrap(m, first, last, n, x) == reparent(insert(m, first, n, x), n, first, last)

(* The neighbour on the far side is read after src has left its place. *)
move_after(m, dst, src) ==
  IF src = m[dst].next_sibling \/ src = dst THEN m
  ELSE Move(m, src, m[dst].parent, dst, Unlink(m, src, src)[dst].next_sibling)

move_before(m, dst, src) ==
  IF src = m[dst].prev_sibling \/ src = dst THEN m
  ELSE Move(m, src, m[dst].parent, Unlink(m, src, src)[dst].prev_sibling, dst)

(* Here both neighbours are read before anything is moved. *)
move_ontop(m, dst, src) ==
  Move(erase(m, dst), src,
       m[dst].parent, m[dst].prev_sibling, m[dst].next_sibling)

swap_with_next(m, n) ==
  LET nxt == m[n].next_sibling
  IN  Move(m, n, m[n].parent, nxt, m[nxt].next_sibling)

swap(m, one, two) ==
  IF m[one].next_sibling = two THEN swap_with_next(m, one)
  ELSE IF m[two].next_sibling = one THEN swap_with_next(m, two)
  ELSE LinkIn(LinkIn(m, one, one, m[two].parent, m[two].prev_sibling,
                     m[two].next_sibling),
              two, two, m[one].parent, m[one].prev_sibling,
              m[one].next_sibling)

(* The first half of replace(pos, from): a new node, with the data of the   *)
(* source, takes the place of pos.                                          *)
replace_top(m, pos, n, x) ==
  LET bare == erase_children(m, pos)
      out  == Unlink(Construct(bare, n, x), pos, pos)
  IN  Deallocate(LinkIn(out, n, n, m[pos].parent, m[pos].prev_sibling,
                        m[pos].next_sibling), {pos})

(* algorithms/replace_match.cc, for a sum in tree t of which only term      *)
(* matches: that is erased, and the kept expression, of which n is the top, *)
(* is inserted before what follows it.                                      *)
replace_match(m, t, term, n, x) ==
  LET sib == m[term].next_sibling
      out == erase(m, term)
  IN  IF sib = Null THEN insert_at_end_moved(out, t, n, x)
      ELSE insert(out, sib, n, x)
-----------------------------------------------------------------------------
(* One call, as long as none is under way. *)
Call(m) == copying = Null /\ mem' = m /\ UNCHANGED copying

SetHead(t, n, x)      == mem[head(t)].next_sibling = feet(t) /\ Call(set_head(mem, t, n, x))
AppendChild(p, n, x)  == Call(append_child(mem, p, n, x))
PrependChild(p, n, x) == Call(prepend_child(mem, p, n, x))
Insert(pos, n, x)     == Call(insert(mem, pos, n, x))
InsertAtEnd(p, n, x)  == Call(insert_at_end(mem, p, n, x))
InsertAtEndMoved(t, n, x) ==
  mem[head(t)].next_sibling # feet(t) /\ Call(insert_at_end_moved(mem, t, n, x))
InsertAfter(pos, n, x) == Call(insert_after(mem, pos, n, x))
ReplaceData(pos, x)    == Call([mem EXCEPT ![pos].data = x])
EraseChildren(pos)     == Call(erase_children(mem, pos))
Erase(pos)             == Call(erase(mem, pos))
Clear(t)               == Call(clear(mem, t))
Flatten(pos) == mem[pos].first_child # Null /\ Call(flatten(mem, pos))

(* Ranges of siblings, and nodes that do not lie below what is moved there. *)
RangeEnds(first) == Chain(mem, first, Null)
OutsideOf(first, last) ==
  Alive(mem) \ UNION {Subtree(mem, k) : k \in Chain(mem, first, last)}

Reparent(pos, first, last) == Call(reparent(mem, pos, first, last))
ReparentAll(pos, from) ==
  /\ mem[from].first_child # Null
  /\ Call(reparent(mem, pos, mem[from].first_child, mem[from].last_child))
Wrap(first, last, n, x) == Call(wrap(mem, first, last, n, x))
MoveAfter(dst, src)     == Call(move_after(mem, dst, src))
MoveBefore(dst, src)    == Call(move_before(mem, dst, src))

Adjacent(one, two) ==
  mem[one].next_sibling = two \/ mem[two].next_sibling = one
MoveOntop(dst, src) == ~ Adjacent(dst, src) /\ Call(move_ontop(mem, dst, src))
SwapWithNext(n) == mem[n].next_sibling \in Node /\ Call(swap_with_next(mem, n))
Swap(one, two)  == Call(swap(mem, one, two))
-----------------------------------------------------------------------------
(* The copying loop of replace(pos, from) and, around it, that of copy_.    *)
(* That copy_ has a node to replace for every node it copies is a guard      *)
(* here: a run without a deadlock shows that no copy ever stops at it.       *)
Copying == copying # Null
InPhase(p) == Copying /\ copying.phase = p
Continue(changed) == copying' = changed

(* m is the memory with the node to be replaced in place.  The source must  *)
(* not contain that node nor lie below it, and there is memory for a copy.  *)
Begin(m, pos, src, n, all) ==
  LET placed == replace_top(m, pos, n, m[src].data)
  IN  /\ n \in Fresh(erase_children(m, pos))
      /\ Cardinality(Fresh(placed)) >= Cardinality(Below(m, src))
      /\ pos \notin Subtree(m, src) /\ src \notin Subtree(m, pos)
      /\ mem' = placed
      /\ Continue([phase |-> "down", start |-> src, from |-> src, top |-> n,
                   to |-> n, last |-> placed[src].next_sibling, all |-> all])

Replace(pos, src, n) == ~ Copying /\ Begin(mem, pos, src, n, FALSE)

(* The others insert a blank node d first and replace that one. *)
AppendSubtree(p, src, d, n) ==
  ~ Copying /\ Begin(append_child(mem, p, d, Blank), d, src, n, FALSE)
PrependSubtree(p, src, d, n) ==
  ~ Copying /\ Begin(prepend_child(mem, p, d, Blank), d, src, n, FALSE)
InsertSubtree(pos, src, d, n) ==
  ~ Copying /\ Begin(insert(mem, pos, d, Blank), d, src, n, FALSE)
InsertSubtreeAtEnd(t, src, d, n) ==
  /\ ~ Copying /\ mem[head(t)].next_sibling # feet(t)
  /\ Begin(insert_at_end_moved(mem, t, d, Blank), d, src, n, FALSE)

CopyDown(n) ==
  /\ InPhase("down") /\ mem[copying.from].first_child # Null
  /\ LET from == mem[copying.from].first_child
     IN  /\ mem' = append_child(mem, copying.to, n, mem[from].data)
         /\ Continue([copying EXCEPT !.from = from, !.to = n])

AtBottom == \/ InPhase("up")
            \/ InPhase("down") /\ mem[copying.from].first_child = Null
NoneRight == mem[copying.from].next_sibling = Null /\ copying.from # copying.start

CopyUp ==
  /\ AtBottom /\ NoneRight
  /\ Continue([copying EXCEPT !.phase = "up",
                              !.from = mem[copying.from].parent,
                              !.to = mem[copying.to].parent])
  /\ UNCHANGED mem

CopyRight(n) ==
  /\ AtBottom /\ ~ NoneRight
  /\ LET from == mem[copying.from].next_sibling
         p    == mem[copying.to].parent
     IN  /\ from # copying.last
         /\ mem' = append_child(mem, p, n, mem[from].data)
         /\ Continue([copying EXCEPT !.phase = "down", !.from = from, !.to = n])

CopyEnds ==
  /\ AtBottom /\ ~ NoneRight
  /\ mem[copying.from].next_sibling = copying.last
  /\ Continue([copying EXCEPT !.phase = "done"])
  /\ UNCHANGED mem

(* copy_: the other tree's top-level nodes first, each before the last one; *)
(* then the copy of each in its place.                                      *)
CopyTree(t, u) ==
  /\ ~ Copying /\ t # u
  /\ mem' = clear(mem, t)
  /\ Cardinality(Fresh(mem')) > Cardinality(InTree(mem, u))
  /\ Continue([phase |-> "heads", start |-> head(u), top |-> head(t),
               from |-> mem[head(u)].next_sibling, to |-> feet(t),
               last |-> feet(u), all |-> TRUE])

CopyHead(n) ==
  /\ InPhase("heads") /\ copying.from # copying.last
  /\ mem' = insert(mem, copying.to, n, mem[copying.from].data)
  /\ Continue([copying EXCEPT !.from = mem[copying.from].next_sibling, !.to = n])

HeadsCopied ==
  /\ InPhase("heads") /\ copying.from = copying.last
  /\ Continue([copying EXCEPT !.phase = "next",
                              !.from = mem[copying.start].next_sibling,
                              !.to = mem[copying.top].next_sibling])
  /\ UNCHANGED mem

CopyNext(n) ==
  /\ InPhase("next") /\ copying.from \in Node /\ copying.to \in Alive(mem)
  /\ Begin(mem, copying.to, copying.from, n, TRUE)

CopyReturns ==
  /\ \/ /\ InPhase("done") /\ copying.all
        /\ Continue([copying EXCEPT !.phase = "next",
                                    !.from = mem[copying.start].next_sibling,
                                    !.to = mem[copying.top].next_sibling])
     \/ /\ \/ InPhase("done") /\ ~ copying.all
           \/ InPhase("next") /\ copying.from \notin Node
        /\ copying' = Null
  /\ UNCHANGED mem

CopyStep ==
  \/ CopyUp \/ CopyEnds \/ HeadsCopied \/ CopyReturns
  \/ \E n \in Fresh(mem) : CopyDown(n) \/ CopyRight(n) \/ CopyHead(n)
  \/ \E n \in Node : CopyNext(n)
-----------------------------------------------------------------------------
NewNode(n, x) ==
  \/ \E t \in Tree : SetHead(t, n, x) \/ InsertAtEndMoved(t, n, x)
  \/ \E p \in Alive(mem) :
       \/ AppendChild(p, n, x) \/ PrependChild(p, n, x) \/ InsertAtEnd(p, n, x)
       \/ Insert(p, n, x) \/ InsertAfter(p, n, x)
       \/ \E q \in RangeEnds(p) : Wrap(p, q, n, x)

Removal ==
  \/ \E t \in Tree : Clear(t)
  \/ \E p \in Alive(mem) : Erase(p) \/ EraseChildren(p)

Rearrange == \E p \in Alive(mem) :
  \/ Flatten(p) \/ SwapWithNext(p) \/ MoveAfter(p, p) \/ MoveBefore(p, p)
  \/ \E x \in Data : ReplaceData(p, x)
  \/ \E r \in RangeEnds(p) : \E q \in OutsideOf(p, r) : Reparent(q, p, r)
  \/ \E q \in OutsideOf(p, p) :
       \/ MoveAfter(q, p) \/ MoveBefore(q, p) \/ ReparentAll(q, p)
       \/ p \notin Subtree(mem, q) /\ (MoveOntop(q, p) \/ Swap(q, p))

StartCopy ==
  \/ \E t, u \in Tree : CopyTree(t, u)
  \/ \E src \in Alive(mem), n \in Node :
       \/ \E p \in Alive(mem) : Replace(p, src, n)
       \/ \E d \in Fresh(mem) \ {n} :
            \/ \E t \in Tree : InsertSubtreeAtEnd(t, src, d, n)
            \/ \E p \in Alive(mem) :
                 \/ AppendSubtree(p, src, d, n) \/ PrependSubtree(p, src, d, n)
                 \/ InsertSubtree(p, src, d, n)

Next == \/ Removal \/ Rearrange \/ StartCopy \/ CopyStep
        \/ \E n \in Fresh(mem), x \in Data : NewNode(n, x)

Spec == Init /\ [][Next]_vars
-----------------------------------------------------------------------------
(* debug_verify_consistency, and what it takes for granted: links only to   *)
(* live nodes, the other end of every link links back, siblings agree on    *)
(* their parent, the top level hangs between the head and feet of a tree.   *)
(* A link wrong for one moment only shows up in a later call, elsewhere.    *)
LinkAgrees(m, x) ==
  LET p == m[x].parent
      b == m[x].prev_sibling
      a == m[x].next_sibling
  IN  /\ p \in Alive(m) \cup {Null}
      /\ b \in Alive(m) \cup {Null} \cup {head(t) : t \in Tree}
      /\ a \in Alive(m) \cup {Null} \cup {feet(t) : t \in Tree}
      /\ IF b = Null THEN p # Null /\ m[p].first_child = x
         ELSE m[b].next_sibling = x /\ m[b].parent = p
      /\ IF a = Null THEN p # Null /\ m[p].last_child = x
         ELSE m[a].prev_sibling = x /\ m[a].parent = p

ChildrenAgree(m, x) ==
  LET f == m[x].first_child
      l == m[x].last_child
  IN  /\ f = Null <=> l = Null
      /\ f # Null => /\ f \in Alive(m) /\ l \in Alive(m)
                     /\ m[f].parent = x /\ m[f].prev_sibling = Null
                     /\ m[l].parent = x /\ m[l].next_sibling = Null

TopAgrees(m, t) ==
  LET f == m[head(t)].next_sibling
      l == m[feet(t)].prev_sibling
  IN  /\ f \in Alive(m) \cup {feet(t)} /\ m[f].prev_sibling = head(t)
      /\ l \in Alive(m) \cup {head(t)} /\ m[l].next_sibling = feet(t)

LinksAgreeIn(m) == /\ \A x \in Alive(m) : LinkAgrees(m, x) /\ ChildrenAgree(m, x)
                   /\ \A t \in Tree : TopAgrees(m, t)

LinksAgree == LinksAgreeIn(mem)
=============================================================================
