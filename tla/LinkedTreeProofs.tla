------------------------- MODULE LinkedTreeProofs -------------------------
(***************************************************************************)
(* That the links of the tree container agree after every call and in     *)
(* every step of a copy, for any memory and any number of trees.           *)
(***************************************************************************)
EXTENDS LinkedTree, TLAPS

Link == Ptr \cup {Null}
TreeNode == [parent : Link, first_child : Link, last_child : Link,
             prev_sibling : Link, next_sibling : Link,
             data : Data \cup {Blank, Freed}]
Memory == [Ptr -> TreeNode]

LEMMA PtrFacts ==
  /\ Node \subseteq Ptr /\ Null \notin Ptr /\ Null \notin Node
  /\ \A t \in Tree : /\ head(t) \in Ptr /\ feet(t) \in Ptr
                     /\ head(t) \notin Node /\ feet(t) \notin Node
  /\ Freed \notin Data /\ Freed # Blank
  BY TreeAssumption DEF Ptr, Dummy, head, feet

LEMMA AliveFacts ==
  ASSUME NEW m \in Memory
  PROVE  /\ Alive(m) \subseteq Node
         /\ \A x \in Node : x \in Alive(m) <=> m[x].data # Freed
  BY DEF Alive

(* What each of the building blocks does to each field of each node. *)
Unlinked(m, r, p, b, a) ==
  /\ r \in Memory
  /\ \A x \in Ptr :
       /\ r[x].parent = m[x].parent
       /\ r[x].data = m[x].data
       /\ r[x].first_child = IF x = p /\ b = Null THEN a ELSE m[x].first_child
       /\ r[x].last_child = IF x = p /\ a = Null THEN b ELSE m[x].last_child
       /\ r[x].next_sibling = IF x = b THEN a ELSE m[x].next_sibling
       /\ r[x].prev_sibling = IF x = a THEN b ELSE m[x].prev_sibling

LEMMA UnlinkFields ==
  ASSUME NEW m \in Memory, NEW first \in Ptr, NEW last \in Ptr
  PROVE  Unlinked(m, Unlink(m, first, last), m[first].parent,
                  m[first].prev_sibling, m[last].next_sibling)
<1> DEFINE p == m[first].parent
           b == m[first].prev_sibling
           a == m[last].next_sibling
           r == Unlink(m, first, last)
           fst(x) == IF x = p /\ b = Null THEN a ELSE m[x].first_child
           lst(x) == IF x = p /\ a = Null THEN b ELSE m[x].last_child
           nxt(x) == IF x = b THEN a ELSE m[x].next_sibling
           prv(x) == IF x = a THEN b ELSE m[x].prev_sibling
<1>1. r = [x \in Ptr |-> [m[x] EXCEPT
         !.first_child  = fst(x), !.last_child   = lst(x),
         !.next_sibling = nxt(x), !.prev_sibling = prv(x)]]
  BY DEF Unlink
<1>2. b \in Link /\ a \in Link
  BY DEF Memory, TreeNode
<1> HIDE DEF r, p, b, a
<1>3. ASSUME NEW x \in Ptr
      PROVE  /\ m[x] \in TreeNode /\ fst(x) \in Link
             /\ lst(x) \in Link /\ nxt(x) \in Link /\ prv(x) \in Link
  <2>1. m[x] \in TreeNode
    BY DEF Memory
  <2> QED
    BY <2>1, <1>2 DEF TreeNode
<1> HIDE DEF fst, lst, nxt, prv
<1>4. ASSUME NEW x \in Ptr
      PROVE  /\ r[x] \in TreeNode
             /\ r[x].parent = m[x].parent /\ r[x].data = m[x].data
             /\ r[x].first_child = fst(x) /\ r[x].last_child = lst(x)
             /\ r[x].next_sibling = nxt(x) /\ r[x].prev_sibling = prv(x)
  <2>1. r[x] = [m[x] EXCEPT !.first_child = fst(x), !.last_child = lst(x),
                            !.next_sibling = nxt(x), !.prev_sibling = prv(x)]
    BY ONLY <1>1, <1>4
  <2> QED
    BY ONLY <2>1, <1>3, <1>4 DEF TreeNode
<1>5. r \in Memory
  BY ONLY <1>1, <1>4 DEF Memory
<1>6. Unlinked(m, r, p, b, a)
  BY ONLY <1>4, <1>5 DEF Unlinked, fst, lst, nxt, prv
<1> QED
  BY ONLY <1>6 DEF r, p, b, a

LinkedIn(m, r, S, first, last, p, b, a) ==
  /\ r \in Memory
  /\ \A x \in Ptr :
       /\ r[x].parent = IF x \in S THEN p ELSE m[x].parent
       /\ r[x].data = m[x].data
       /\ r[x].first_child =
            IF x = p /\ b = Null THEN first ELSE m[x].first_child
       /\ r[x].last_child =
            IF x = p /\ a = Null THEN last ELSE m[x].last_child
       /\ r[x].next_sibling = IF x = last THEN a
            ELSE IF x = b THEN first ELSE m[x].next_sibling
       /\ r[x].prev_sibling = IF x = first THEN b
            ELSE IF x = a THEN last ELSE m[x].prev_sibling

LEMMA LinkInFields ==
  ASSUME NEW m \in Memory, NEW first \in Ptr, NEW last \in Ptr,
         NEW p \in Link, NEW b \in Link, NEW a \in Link
  PROVE  LinkedIn(m, LinkIn(m, first, last, p, b, a), Chain(m, first, last),
                  first, last, p, b, a)
<1> DEFINE S == Chain(m, first, last)
           r == LinkIn(m, first, last, p, b, a)
           up(x) == IF x \in S THEN p ELSE m[x].parent
           fst(x) == IF x = p /\ b = Null THEN first ELSE m[x].first_child
           lst(x) == IF x = p /\ a = Null THEN last ELSE m[x].last_child
           nxt(x) == IF x = last THEN a ELSE IF x = b THEN first ELSE m[x].next_sibling
           prv(x) == IF x = first THEN b ELSE IF x = a THEN last ELSE m[x].prev_sibling
<1>1. r = [x \in Ptr |-> [m[x] EXCEPT
         !.parent       = up(x), !.first_child  = fst(x), !.last_child   = lst(x),
         !.next_sibling = nxt(x), !.prev_sibling = prv(x)]]
  BY DEF LinkIn
<1> HIDE DEF S, r
<1>2. ASSUME NEW x \in Ptr
      PROVE  /\ m[x] \in TreeNode /\ up(x) \in Link /\ fst(x) \in Link
             /\ lst(x) \in Link /\ nxt(x) \in Link /\ prv(x) \in Link
  <2>1. first \in Link /\ last \in Link /\ m[x] \in TreeNode
    BY DEF Link, Memory
  <2> QED
    BY <2>1 DEF TreeNode
<1> HIDE DEF up, fst, lst, nxt, prv
<1>3. ASSUME NEW x \in Ptr
      PROVE  /\ r[x] \in TreeNode
             /\ r[x].parent = up(x) /\ r[x].data = m[x].data
             /\ r[x].first_child = fst(x) /\ r[x].last_child = lst(x)
             /\ r[x].next_sibling = nxt(x) /\ r[x].prev_sibling = prv(x)
  <2>1. r[x] = [m[x] EXCEPT !.parent = up(x), !.first_child = fst(x),
                            !.last_child = lst(x), !.next_sibling = nxt(x),
                            !.prev_sibling = prv(x)]
    BY <1>1
  <2> QED
    BY <2>1, <1>2 DEF TreeNode
<1>4. r \in Memory
  BY <1>1, <1>3 DEF Memory
<1> QED
  BY <1>3, <1>4 DEF LinkedIn, up, fst, lst, nxt, prv, S, r

LEMMA ConstructFields ==
  ASSUME NEW m \in Memory, NEW n \in Node, NEW x \in Data \cup {Blank},
         NEW r, r = Construct(m, n, x)
  PROVE  /\ r \in Memory
         /\ r[n].parent = Null /\ r[n].first_child = Null
         /\ r[n].last_child = Null /\ r[n].prev_sibling = Null
         /\ r[n].next_sibling = Null /\ r[n].data = x
         /\ \A y \in Ptr \ {n} : r[y] = m[y]
  BY PtrFacts DEF Construct, Memory, TreeNode, Link, tree_node

LEMMA DeallocateFields ==
  ASSUME NEW m \in Memory, NEW S \in SUBSET Node, NEW r, r = Deallocate(m, S)
  PROVE  /\ r \in Memory
         /\ \A x \in S : r[x].data = Freed
         /\ \A x \in Ptr \ S : r[x] = m[x]
  BY PtrFacts DEF Deallocate, Memory, TreeNode, Link, Unused, tree_node

-----------------------------------------------------------------------------
(* A memory in the middle of a call: the nodes of M are alive but in no      *)
(* list, and everything else agrees.                                         *)
Heads == {head(t) : t \in Tree}
Feets == {feet(t) : t \in Tree}
InLists(m, M) == Alive(m) \ M

Linked(m, M, x) ==
  LET p == m[x].parent
      b == m[x].prev_sibling
      a == m[x].next_sibling
  IN  /\ p \in Alive(m) \cup {Null}
      /\ b \in InLists(m, M) \cup {Null} \cup Heads
      /\ a \in InLists(m, M) \cup {Null} \cup Feets
      /\ b = Null => p # Null /\ m[p].first_child = x
      /\ b # Null => m[b].next_sibling = x /\ m[b].parent = p
      /\ a = Null => p # Null /\ m[p].last_child = x
      /\ a # Null => m[a].prev_sibling = x /\ m[a].parent = p

Parental(m, M, x) ==
  LET f == m[x].first_child
      l == m[x].last_child
  IN  /\ f = Null <=> l = Null
      /\ f # Null => /\ f \in InLists(m, M) /\ l \in InLists(m, M)
                     /\ m[f].parent = x /\ m[f].prev_sibling = Null
                     /\ m[l].parent = x /\ m[l].next_sibling = Null

(* T is the top level of tree t: what its head leads to, up to its feet.     *)
TopLevel(m, M, t, T) ==
  /\ T \subseteq InLists(m, M)
  /\ \A k \in T \cup {head(t), feet(t)} : m[k].parent = Null
  /\ \A k \in T \cup {head(t)} :
       /\ m[k].next_sibling \in T \cup {feet(t)}
       /\ m[m[k].next_sibling].prev_sibling = k
  /\ \A k \in T \cup {feet(t)} :
       /\ m[k].prev_sibling \in T \cup {head(t)}
       /\ m[m[k].prev_sibling].next_sibling = k

(* Every list has a beginning, every branch a root. *)
NoRing(m, M) ==
  \A S \in SUBSET InLists(m, M) :
    S # {} => \E x \in S : m[x].prev_sibling \notin S
NoCycle(m) ==
  \A S \in SUBSET Alive(m) : S # {} => \E x \in S : m[x].parent \notin S

Loose(m, M) ==
  /\ m \in Memory /\ M \subseteq Alive(m)
  /\ \A x \in InLists(m, M) : Linked(m, M, x)
  /\ \A x \in Alive(m) : Parental(m, M, x)
  /\ \A t \in Tree : \E T : TopLevel(m, M, t, T)
  /\ NoRing(m, M) /\ NoCycle(m)

Sound(m) == Loose(m, {})

(* S is the siblings first..last, linked to each other from end to end. *)
Segment(m, S, first, last) ==
  /\ first \in S /\ last \in S /\ S \subseteq Alive(m)
  /\ \A k \in S \ {first} :
       /\ m[k].prev_sibling \in S \ {last}
       /\ m[m[k].prev_sibling].next_sibling = k
  /\ \A k \in S \ {last} :
       /\ m[k].next_sibling \in S \ {first}
       /\ m[m[k].next_sibling].prev_sibling = k
  /\ \A T \in SUBSET S :
       T # {} => \E x \in T : x = first \/ m[x].prev_sibling \notin T

(* b and a are neighbours below p, or the ends of its list. *)
Slot(m, M, p, b, a) ==
  /\ p \in Alive(m) \cup {Null}
  /\ b \in InLists(m, M) \cup {Null} \cup Heads
  /\ a \in InLists(m, M) \cup {Null} \cup Feets
  /\ b = Null => p # Null /\ m[p].first_child = a
  /\ b # Null => m[b].next_sibling = a /\ m[b].parent = p
  /\ a = Null => p # Null /\ m[p].last_child = b
  /\ a # Null => m[a].prev_sibling = b /\ m[a].parent = p

(* p has no ancestor in S and is not there itself. *)
Outside(m, S, p) ==
  \E A \in SUBSET (Alive(m) \ S) :
    /\ p \in A \cup {Null}
    /\ \A k \in A : m[k].parent \in A \cup {Null}

(* While the copying loop runs, every node it has made stands for a node     *)
(* of the source, parents for parents.                                       *)
CopyRuns(m, c) ==
  /\ c.start \in Alive(m) /\ c.from \in Alive(m)
  /\ c.last = m[c.start].next_sibling
  /\ \E K \in SUBSET Alive(m) : \E g \in [K -> Alive(m)] :
       /\ c.top \in K /\ c.to \in K /\ c.start \notin K
       /\ \A x \in Alive(m) : m[x].parent \in K => x \in K
       /\ \A k \in K \ {c.top} :
            m[k].parent \in K /\ m[g[k]].parent = g[m[k].parent]
       /\ g[c.top] = c.start /\ g[c.to] = c.from

HeadsRun(m, c) ==
  \E t, u \in Tree :
    /\ c.start = head(u) /\ c.top = head(t)
    /\ c.last = feet(u)
    /\ c.to \in Alive(m) \cup Feets
    /\ \E T : TopLevel(m, {}, u, T) /\ c.from \in T \cup {feet(u)}

CopyRecord(c) ==
  c = [phase |-> c.phase, start |-> c.start, from |-> c.from, top |-> c.top,
       to |-> c.to, last |-> c.last, all |-> c.all]

CopySound(m, c) ==
  c # Null =>
    /\ CopyRecord(c) /\ c.phase \in {"down", "up", "heads", "next", "done"}
    /\ c.phase \in {"down", "up"} => CopyRuns(m, c)
    /\ c.phase = "heads" => HeadsRun(m, c)
    /\ c.phase = "done" => c.start \in Alive(m)
    /\ c.phase = "next" => c.from \in Alive(m) \cup {Null} \cup Feets

TreeInv == Sound(mem) /\ CopySound(mem, copying)
-----------------------------------------------------------------------------
LEMMA DummyFacts ==
  /\ Heads \subseteq Ptr /\ Feets \subseteq Ptr
  /\ Heads \cap Node = {} /\ Feets \cap Node = {} /\ Heads \cap Feets = {}
  /\ Null \notin Heads /\ Null \notin Feets
<1>1. \A t, u \in Tree : head(t) # feet(u)
  BY DEF head, feet
<1> QED
  BY <1>1, PtrFacts DEF Heads, Feets

(* The walk along a segment comes to all of it and to nothing else. *)
LEMMA SegmentChain ==
  ASSUME NEW m, NEW S, NEW first, NEW last, Segment(m, S, first, last)
  PROVE  Chain(m, first, last) = S
<1> DEFINE Closed(C) == /\ first \in C
                        /\ \A k \in C \ {last} : m[k].next_sibling \in Node
                                                   => m[k].next_sibling \in C
<1>1. S \in SUBSET Node /\ Closed(S)
  BY DEF Segment, Alive
<1>2. ASSUME NEW C \in SUBSET Node, Closed(C)
      PROVE  S \subseteq C
  <2> SUFFICES ASSUME S \ C # {} PROVE FALSE
    OBVIOUS
  <2>1. PICK x \in S \ C : x = first \/ m[x].prev_sibling \notin S \ C
    BY DEF Segment
  <2>2. x # first
    BY <1>2
  <2> QED
    BY <1>1, <1>2, <2>1, <2>2 DEF Segment
<1>3. Chain(m, first, last) = {n \in Node : \A C \in SUBSET Node : Closed(C) => n \in C}
  BY DEF Chain, InAll
<1> QED
  BY <1>1, <1>2, <1>3

LEMMA SegmentElsewhere ==
  ASSUME NEW m, NEW r, NEW S, NEW first, NEW last, Segment(m, S, first, last),
         S \subseteq Alive(r),
         \A k \in S \ {first} : r[k].prev_sibling = m[k].prev_sibling,
         \A k \in S \ {last} : r[k].next_sibling = m[k].next_sibling
  PROVE  Segment(r, S, first, last)
  BY DEF Segment

LEMMA SingleSegment ==
  ASSUME NEW m, NEW n \in Alive(m)
  PROVE  Segment(m, {n}, n, n)
  BY DEF Segment

(* A segment that is put into a slot becomes a part of its list. *)
Entered(m, M, S, first, last, p, b, a, r) ==
  /\ Loose(r, M \ S) /\ LinkedIn(m, r, S, first, last, p, b, a)
  /\ Alive(r) = Alive(m)
  /\ \A t \in Tree : \A T : TopLevel(m, M, t, T) =>
       TopLevel(r, M \ S, t, IF b \in T \cup {head(t)} THEN T \cup S ELSE T)

LEMMA EnterKeeps ==
  ASSUME NEW m, NEW M, NEW S, NEW first, NEW last, NEW p, NEW b, NEW a, NEW r,
         LinkedIn(m, r, S, first, last, p, b, a),
         Loose(m, M), S \subseteq M, Segment(m, S, first, last),
         Slot(m, M, p, b, a), Outside(m, S, p)
  PROVE  Entered(m, M, S, first, last, p, b, a, r)
<1> DEFINE N == M \ S
<1>1. m \in Memory /\ Alive(m) \subseteq Node /\ Node \subseteq Ptr
  BY AliveFacts, PtrFacts DEF Loose
<1>2. /\ first \in S /\ last \in S /\ S \subseteq Node
      /\ p \in Node \cup {Null} /\ b \in Link /\ a \in Link /\ p \in Link
      /\ b \notin S /\ a \notin S /\ (b # a \/ b = Null)
  <2>1. /\ first \in S /\ last \in S /\ S \subseteq Node
        /\ p \in Node \cup {Null}
    BY <1>1 DEF Segment, Slot
  <2>2. /\ b \in Node \cup {Null} \cup Heads /\ b \notin S
        /\ a \in Node \cup {Null} \cup Feets /\ a \notin S
    BY <1>1, <2>1, DummyFacts, PtrFacts DEF Slot, InLists
  <2>3. b # a \/ b = Null
    <3> SUFFICES ASSUME b = a, b # Null PROVE FALSE
      OBVIOUS
    <3>1. b \in InLists(m, M) /\ m[b].prev_sibling = b
      BY DummyFacts DEF Slot
    <3>2. {b} \in SUBSET InLists(m, M) /\ \A x \in {b} : m[x].prev_sibling \in {b}
      BY <3>1
    <3> QED
      BY <3>2 DEF Loose, NoRing
  <2> QED
    BY <2>1, <2>2, <2>3, <1>1, DummyFacts DEF Link
<1>3. LinkedIn(m, r, S, first, last, p, b, a)
  OBVIOUS
<1>4. Alive(r) = Alive(m) /\ InLists(r, N) = InLists(m, M) \cup S
  <2>1. Alive(r) = Alive(m)
    BY <1>1, <1>3 DEF LinkedIn, Alive
  <2> QED
    BY <2>1 DEF InLists, Segment
<1>5. ASSUME NEW x \in InLists(m, M)
      PROVE  Linked(r, N, x)
  <2>1. Linked(m, M, x) /\ x \in Node /\ x \notin S /\ x \in Ptr
    BY <1>1 DEF Loose, InLists
  <2>2. /\ r[x].parent = m[x].parent
        /\ r[x].next_sibling = IF x = b THEN first ELSE m[x].next_sibling
        /\ r[x].prev_sibling = IF x = a THEN last ELSE m[x].prev_sibling
    BY <2>1, <1>2, <1>3 DEF LinkedIn
  <2> QED
    BY <2>1, <2>2, <1>1, <1>2, <1>3, <1>4, DummyFacts, PtrFacts DEF LinkedIn, Linked, Slot, InLists
<1>6. ASSUME NEW x \in S
      PROVE  Linked(r, N, x)
  <2>1. x \in Ptr /\ x # b /\ x # a /\ x \in Node
    BY <1>1, <1>2
  <2>2. /\ r[x].parent = p
        /\ r[x].next_sibling = IF x = last THEN a ELSE m[x].next_sibling
        /\ r[x].prev_sibling = IF x = first THEN b ELSE m[x].prev_sibling
    BY <2>1, <1>2, <1>3 DEF LinkedIn
  <2> QED
    BY <2>1, <2>2, <1>1, <1>2, <1>3, <1>4, DummyFacts, PtrFacts
       DEF LinkedIn, Linked, Slot, Segment, InLists
<1>7. ASSUME NEW x \in Alive(m)
      PROVE  Parental(r, N, x)
  <2>1. Parental(m, M, x) /\ x \in Ptr /\ x # Null
    BY <1>1, PtrFacts DEF Loose
  <2> QED
    BY <2>1, <1>1, <1>2, <1>3, <1>4, DummyFacts, PtrFacts
       DEF LinkedIn, Parental, Slot, Segment, InLists
<1>8. ASSUME NEW t \in Tree, NEW T, TopLevel(m, M, t, T)
      PROVE  TopLevel(r, N, t, IF b \in T \cup {head(t)} THEN T \cup S ELSE T)
  <2> DEFINE U == T \cup {head(t), feet(t)}
  <2>1. /\ T \subseteq InLists(m, M) /\ U \subseteq Ptr /\ U \cap S = {}
        /\ head(t) \notin T /\ feet(t) \notin T /\ head(t) # feet(t)
        /\ Null \notin U
    <3>1. T \subseteq InLists(m, M)
      BY <1>8 DEF TopLevel
    <3>2. T \subseteq Node /\ T \cap S = {}
      BY <3>1, <1>1 DEF InLists
    <3>3. head(t) \in Heads /\ feet(t) \in Feets
      BY DEF Heads, Feets
    <3> QED
      BY <3>1, <3>2, <3>3, <1>1, <1>2, PtrFacts, DummyFacts
  <2>2. b \in T \cup {head(t)} <=> a \in T \cup {feet(t)}
    <3>1. ASSUME b \in T \cup {head(t)} PROVE a \in T \cup {feet(t)}
      BY <3>1, <2>1, <1>8 DEF TopLevel, Slot
    <3>2. ASSUME a \in T \cup {feet(t)} PROVE b \in T \cup {head(t)}
      BY <3>2, <2>1, <1>8 DEF TopLevel, Slot
    <3> QED
      BY <3>1, <3>2
  <2>3. ASSUME NEW k \in U
        PROVE  /\ r[k].parent = m[k].parent
               /\ r[k].next_sibling = IF k = b THEN first ELSE m[k].next_sibling
               /\ r[k].prev_sibling = IF k = a THEN last ELSE m[k].prev_sibling
    BY <2>1, <1>2, <1>3 DEF LinkedIn
  <2>4. CASE b \notin T \cup {head(t)}
    <3>1. a \notin T \cup {feet(t)}
      BY <2>2, <2>4
    <3>2. \A k \in T \cup {head(t)} : r[k].next_sibling = m[k].next_sibling
      BY <2>3, <2>4
    <3>3. \A k \in T \cup {feet(t)} : r[k].prev_sibling = m[k].prev_sibling
      BY <2>3, <3>1
    <3>4. \A k \in U : r[k].parent = m[k].parent
      BY <2>3
    <3>5. T \subseteq InLists(r, N)
      BY <1>4, <2>1
    <3>6. ASSUME NEW k \in T \cup {head(t)}
          PROVE  /\ r[k].next_sibling \in T \cup {feet(t)}
                 /\ r[r[k].next_sibling].prev_sibling = k
      BY <3>2, <3>3, <1>8 DEF TopLevel
    <3>7. ASSUME NEW k \in T \cup {feet(t)}
          PROVE  /\ r[k].prev_sibling \in T \cup {head(t)}
                 /\ r[r[k].prev_sibling].next_sibling = k
      BY <3>2, <3>3, <1>8 DEF TopLevel
    <3>8. \A k \in U : r[k].parent = Null
      BY <3>4, <1>8 DEF TopLevel
    <3> QED
      BY <3>5, <3>6, <3>7, <3>8, <2>4 DEF TopLevel
  <2>5. CASE b \in T \cup {head(t)}
    <3>1. p = Null /\ m[b].next_sibling = a /\ m[a].prev_sibling = b
      BY <2>1, <2>2, <2>5, <1>8 DEF TopLevel, Slot
    <3>2. ASSUME NEW k \in S
          PROVE  /\ r[k].parent = Null
                 /\ r[k].next_sibling = IF k = last THEN a ELSE m[k].next_sibling
                 /\ r[k].prev_sibling = IF k = first THEN b ELSE m[k].prev_sibling
      BY <3>1, <1>1, <1>2, <1>3 DEF LinkedIn
    <3>3. T \cup S \subseteq InLists(r, N)
      BY <1>4, <2>1
    <3>4. \A k \in T \cup S \cup {head(t), feet(t)} : r[k].parent = Null
      BY <2>3, <3>2, <1>8 DEF TopLevel
    <3>5. ASSUME NEW k \in T \cup S \cup {head(t)}
          PROVE  /\ r[k].next_sibling \in T \cup S \cup {feet(t)}
                 /\ r[r[k].next_sibling].prev_sibling = k
      <4>1. CASE k \in S /\ k # last
        <5>1. m[k].next_sibling \in S \ {first}
          BY <4>1 DEF Segment
        <5> QED
          BY <4>1, <5>1, <3>2 DEF Segment
      <4>2. CASE k = last
        BY <4>2, <3>2, <2>2, <2>3, <2>5, <1>2
      <4>3. CASE k = b
        BY <4>3, <3>2, <2>3, <2>5, <1>2
      <4>4. CASE k \notin S /\ k # b
        <5>1. k \in T \cup {head(t)} /\ r[k].next_sibling = m[k].next_sibling
          BY <4>4, <2>3
        <5>2. m[k].next_sibling # a
          BY <5>1, <4>4, <3>1, <1>8 DEF TopLevel
        <5> QED
          BY <5>1, <5>2, <2>3, <1>8 DEF TopLevel
      <4> QED
        BY <4>1, <4>2, <4>3, <4>4
    <3>6. ASSUME NEW k \in T \cup S \cup {feet(t)}
          PROVE  /\ r[k].prev_sibling \in T \cup S \cup {head(t)}
                 /\ r[r[k].prev_sibling].next_sibling = k
      <4>1. CASE k \in S /\ k # first
        <5>1. m[k].prev_sibling \in S \ {last}
          BY <4>1 DEF Segment
        <5> QED
          BY <4>1, <5>1, <3>2 DEF Segment
      <4>2. CASE k = first
        BY <4>2, <3>2, <2>3, <2>5, <1>2
      <4>3. CASE k = a
        BY <4>3, <3>2, <2>2, <2>3, <2>5, <1>2
      <4>4. CASE k \notin S /\ k # a
        <5>1. k \in T \cup {feet(t)} /\ r[k].prev_sibling = m[k].prev_sibling
          BY <4>4, <2>3
        <5>2. m[k].prev_sibling # b
          BY <5>1, <4>4, <3>1, <1>8 DEF TopLevel
        <5> QED
          BY <5>1, <5>2, <2>3, <1>8 DEF TopLevel
      <4> QED
        BY <4>1, <4>2, <4>3, <4>4
    <3> QED
      BY <3>3, <3>4, <3>5, <3>6, <2>5, <1>8 DEF TopLevel
  <2> QED
    BY <2>4, <2>5
<1>9. NoRing(r, N)
  <2> SUFFICES ASSUME NEW T \in SUBSET (InLists(m, M) \cup S), T # {},
                      \A x \in T : r[x].prev_sibling \in T
               PROVE  FALSE
    BY <1>4 DEF NoRing
  <2>1. T \subseteq Ptr
    BY <1>1, <1>2 DEF InLists
  <2>2. T \cap S = {}
    <3> SUFFICES ASSUME T \cap S # {} PROVE FALSE
      OBVIOUS
    <3>1. PICK x \in T \cap S : x = first \/ m[x].prev_sibling \notin T \cap S
      BY DEF Segment
    <3>2. x # a /\ x \in Ptr
      BY <1>2, <2>1
    <3>3. x = first
      BY <3>1, <3>2, <1>3 DEF LinkedIn, Segment
    <3>4. b \in T
      BY <3>3, <3>2, <1>3 DEF LinkedIn
    <3>5. PICK y \in T \ S : m[y].prev_sibling \notin T \ S
      <4>1. T \ S # {} /\ T \ S \in SUBSET InLists(m, M)
        BY <3>4, <1>2
      <4> QED
        BY <4>1 DEF NoRing, Loose
    <3>6. y \in InLists(m, M) /\ y \in Ptr /\ y # first
      BY <2>1, <1>2
    <3>7. m[y].prev_sibling \notin S
      BY <3>6, <1>1, <1>2, DummyFacts, PtrFacts DEF Loose, Linked, InLists
    <3>8. y = a
      BY <3>5, <3>6, <3>7, <1>3 DEF LinkedIn
    <3>9. m[y].prev_sibling = b
      BY <3>6, <3>8, <1>1, PtrFacts DEF Slot, InLists
    <3> QED
      BY <3>4, <3>5, <3>9, <1>2
  <2>3. PICK y \in T : m[y].prev_sibling \notin T
    BY <2>2 DEF NoRing, Loose
  <2>4. y \in Ptr /\ y # first
    BY <2>1, <2>2, <1>2
  <2>5. r[y].prev_sibling \in T
    OBVIOUS
  <2> QED
    BY <2>2, <2>3, <2>4, <2>5, <1>2, <1>3 DEF LinkedIn
<1>10. NoCycle(r)
  <2> SUFFICES ASSUME NEW T \in SUBSET Alive(m), T # {},
                      \A x \in T : r[x].parent \in T
               PROVE  FALSE
    BY <1>4 DEF NoCycle
  <2>1. T \subseteq Ptr /\ Null \notin T
    BY <1>1, PtrFacts
  <2>2. PICK A \in SUBSET (Alive(m) \ S) :
          p \in A \cup {Null} /\ \A k \in A : m[k].parent \in A \cup {Null}
    BY DEF Outside
  <2>3. CASE T \cap S = {}
    <3>1. \A x \in T : m[x].parent \in T
      BY <2>1, <2>3, <1>3 DEF LinkedIn
    <3> QED
      BY <3>1 DEF Loose, NoCycle
  <2>4. CASE T \cap S # {}
    <3>1. p \in T
      BY <2>1, <2>4, <1>3 DEF LinkedIn
    <3>2. T \cap A # {}
      BY <3>1, <2>1, <2>2
    <3>3. \A x \in T \cap A : m[x].parent \in T \cap A
      BY <2>1, <2>2, <1>3 DEF LinkedIn
    <3> QED
      BY <3>2, <3>3 DEF Loose, NoCycle
  <2> QED
    BY <2>3, <2>4
<1> QED
  <2>1. \A t \in Tree : \E T : TopLevel(r, N, t, T)
    BY <1>8 DEF Loose
  <2>2. r \in Memory /\ N \subseteq Alive(r)
    BY <1>3, <1>4 DEF LinkedIn, Loose
  <2>3. \A x \in InLists(r, N) : Linked(r, N, x)
    BY <1>4, <1>5, <1>6
  <2>4. \A x \in Alive(r) : Parental(r, N, x)
    BY <1>4, <1>7
  <2>5. Loose(r, N)
    BY <2>1, <2>2, <2>3, <2>4, <1>9, <1>10 DEF Loose
  <2> QED
    BY <2>5, <1>3, <1>4, <1>8 DEF Entered

LEMMA LinkInKeeps ==
  ASSUME NEW m, NEW M, NEW S, NEW first, NEW last, NEW p, NEW b, NEW a, NEW r,
         r = LinkIn(m, first, last, p, b, a),
         Loose(m, M), S \subseteq M, Segment(m, S, first, last),
         Slot(m, M, p, b, a), Outside(m, S, p)
  PROVE  Entered(m, M, S, first, last, p, b, a, r)
<1>1. /\ m \in Memory /\ Alive(m) \subseteq Node /\ Node \subseteq Ptr
      /\ first \in Ptr /\ last \in Ptr
  BY AliveFacts, PtrFacts DEF Loose, Segment
<1>2. p \in Link /\ b \in Link /\ a \in Link
  BY <1>1, DummyFacts DEF Slot, Link, InLists
<1>3. LinkedIn(m, r, S, first, last, p, b, a)
  BY <1>1, <1>2, LinkInFields, SegmentChain
<1> QED
  BY <1>3, EnterKeeps

(* The nodes of a segment have one parent; its neighbours are not in it. *)
LEMMA SegmentBounds ==
  ASSUME NEW m, NEW M, NEW S, NEW first, NEW last,
         Loose(m, M), S \subseteq InLists(m, M), Segment(m, S, first, last)
  PROVE  /\ \A k \in S : m[k].parent = m[first].parent
         /\ m[first].prev_sibling \notin S /\ m[last].next_sibling \notin S
<1>1. /\ \A k \in S : Linked(m, M, k)
      /\ S \subseteq Node /\ Null \notin S /\ S \cap Heads = {} /\ S \cap Feets = {}
  <2>1. S \subseteq Node /\ \A k \in S : Linked(m, M, k)
    BY DEF Loose, InLists, Alive
  <2> QED
    BY <2>1, PtrFacts, DummyFacts
<1>2. \A k \in S : m[k].parent = m[first].parent
  <2> SUFFICES ASSUME {k \in S : m[k].parent # m[first].parent} # {} PROVE FALSE
    OBVIOUS
  <2>1. PICK x \in {k \in S : m[k].parent # m[first].parent} :
          x = first \/ m[x].prev_sibling \notin {k \in S : m[k].parent # m[first].parent}
    BY DEF Segment
  <2>2. x # first /\ m[x].prev_sibling \in S
    BY <2>1 DEF Segment
  <2>3. m[m[x].prev_sibling].parent = m[x].parent
    BY <1>1, <2>2 DEF Linked
  <2> QED
    BY <2>1, <2>2, <2>3
<1>3. m[first].prev_sibling \notin S
  <2> SUFFICES ASSUME m[first].prev_sibling \in S PROVE FALSE
    OBVIOUS
  <2>1. \A k \in S : m[k].prev_sibling \in S
    BY DEF Segment
  <2>2. S # {} /\ S \in SUBSET InLists(m, M)
    BY DEF Segment
  <2> QED
    BY <2>1, <2>2 DEF Loose, NoRing
<1>4. m[last].next_sibling \notin S
  <2> SUFFICES ASSUME m[last].next_sibling \in S PROVE FALSE
    OBVIOUS
  <2> DEFINE a == m[last].next_sibling
  <2>1. last \in S /\ first \in S
    BY DEF Segment
  <2>2. m[a].prev_sibling = last
    BY <1>1, <2>1 DEF Linked
  <2>3. CASE a = first
    BY <2>1, <2>2, <2>3, <1>3
  <2>4. CASE a # first
    BY <2>2, <2>4 DEF Segment
  <2> QED
    BY <2>3, <2>4
<1> QED
  BY <1>2, <1>3, <1>4

(* A segment lies in the top level of a tree, or outside it. *)
LEMMA SegmentInTop ==
  ASSUME NEW m, NEW M, NEW S, NEW first, NEW last, Segment(m, S, first, last),
         NEW t \in Tree, NEW T, TopLevel(m, M, t, T)
  PROVE  S \subseteq T \/ S \cap T = {}
<1>1. S \subseteq Node /\ head(t) \notin S /\ feet(t) \notin S
  BY PtrFacts DEF Segment, Alive
<1>2. ASSUME S \cap T # {} PROVE first \in T
  <2>1. PICK x \in S \cap T : x = first \/ m[x].prev_sibling \notin S \cap T
    BY <1>2 DEF Segment
  <2>2. CASE x # first
    <3>1. m[x].prev_sibling \in S
      BY <2>1, <2>2 DEF Segment
    <3>2. m[x].prev_sibling \in T
      BY <3>1, <2>1, <1>1 DEF TopLevel
    <3> QED
      BY <3>1, <3>2, <2>1, <2>2
  <2> QED
    BY <2>1, <2>2
<1>3. ASSUME first \in T PROVE S \subseteq T
  <2> SUFFICES ASSUME S \ T # {} PROVE FALSE
    OBVIOUS
  <2>1. PICK x \in S \ T : x = first \/ m[x].prev_sibling \notin S \ T
    BY DEF Segment
  <2>2. x # first
    BY <1>3, <2>1
  <2>3. m[x].prev_sibling \in T /\ m[m[x].prev_sibling].next_sibling = x
    BY <2>1, <2>2 DEF Segment
  <2>4. x \in T \cup {feet(t)}
    BY <2>3 DEF TopLevel
  <2> QED
    BY <2>1, <2>4, <1>1
<1> QED
  BY <1>2, <1>3

(* What is taken out leaves its neighbours linked to each other. *)
Left(m, M, S, first, last, p, b, a, r) ==
  /\ Loose(r, M \cup S) /\ Unlinked(m, r, p, b, a)
  /\ Segment(r, S, first, last) /\ Alive(r) = Alive(m)
  /\ b \notin S /\ a \notin S /\ \A k \in S : m[k].parent = p
  /\ Slot(r, M \cup S, p, b, a)
  /\ \A t \in Tree : \A T : TopLevel(m, M, t, T)
       => TopLevel(r, M \cup S, t, T \ S)

LEMMA LeaveKeeps ==
  ASSUME NEW m, NEW M, NEW S, NEW first, NEW last, NEW r,
         Unlinked(m, r, m[first].parent, m[first].prev_sibling, m[last].next_sibling),
         Loose(m, M), S \subseteq InLists(m, M), Segment(m, S, first, last)
  PROVE  Left(m, M, S, first, last, m[first].parent, m[first].prev_sibling,
              m[last].next_sibling, r)
<1> DEFINE N == M \cup S
           p == m[first].parent
           b == m[first].prev_sibling
           a == m[last].next_sibling
<1>1. m \in Memory /\ Alive(m) \subseteq Node /\ Node \subseteq Ptr
  BY AliveFacts, PtrFacts DEF Loose
<1>2. /\ first \in S /\ last \in S /\ S \subseteq Alive(m) /\ S \subseteq Node
      /\ b \notin S /\ a \notin S
      /\ \A k \in S : m[k].parent = p
  <2>1. /\ \A k \in S : m[k].parent = m[first].parent
        /\ m[first].prev_sibling \notin S /\ m[last].next_sibling \notin S
    BY SegmentBounds
  <2> QED
    BY <2>1, <1>1 DEF Segment
<1>3. Linked(m, M, first) /\ Linked(m, M, last) /\ p = m[last].parent
  BY <1>2 DEF Loose
<1>4. Unlinked(m, r, p, b, a)
  OBVIOUS
<1>5. Alive(r) = Alive(m) /\ InLists(r, N) = InLists(m, M) \ S
  <2>1. Alive(r) = Alive(m)
    BY <1>1, <1>4 DEF Unlinked, Alive
  <2> QED
    BY <2>1 DEF InLists
<1>6. /\ p \in Alive(m) \cup {Null}
      /\ b \in InLists(r, N) \cup {Null} \cup Heads
      /\ a \in InLists(r, N) \cup {Null} \cup Feets
      /\ b # Null => m[b].next_sibling = first /\ m[b].parent = p
      /\ a # Null => m[a].prev_sibling = last /\ m[a].parent = p
      /\ b = Null => p # Null /\ m[p].first_child = first
      /\ a = Null => p # Null /\ m[p].last_child = last
  BY <1>2, <1>3, <1>5 DEF Linked
<1>7. b \in Link /\ a \in Link /\ (b # Null => b \in Ptr) /\ (a # Null => a \in Ptr)
      /\ (p # Null => p \in Ptr) /\ Null \notin Ptr
  BY <1>1, <1>5, <1>6, DummyFacts, PtrFacts DEF Link, InLists
<1>8. Segment(r, S, first, last)
  BY <1>1, <1>2, <1>4, <1>5, SegmentElsewhere DEF Unlinked
<1>9. (b # a \/ b = Null)
  <2> SUFFICES ASSUME b = a, b # Null PROVE FALSE
    OBVIOUS
  <2>1. b \in InLists(m, M)
    BY <1>5, <1>6, DummyFacts
  <2>2. {b} \cup S \in SUBSET InLists(m, M) /\ {b} \cup S # {}
    BY <2>1
  <2>3. \A k \in S : m[k].prev_sibling \in {b} \cup S
    BY <1>2 DEF Segment
  <2>4. m[b].prev_sibling \in S
    BY <1>2, <1>6
  <2> QED
    BY <2>2, <2>3, <2>4 DEF Loose, NoRing
<1>10. Slot(r, N, p, b, a)
  BY <1>4, <1>5, <1>6, <1>7 DEF Slot, Unlinked
<1>11. ASSUME NEW x \in InLists(m, M) \ S
       PROVE  Linked(r, N, x)
  <2>1. Linked(m, M, x) /\ x \in Node /\ x \notin S /\ x \in Ptr
    BY <1>1 DEF Loose, InLists
  <2>2. /\ r[x].parent = m[x].parent
        /\ r[x].next_sibling = IF x = b THEN a ELSE m[x].next_sibling
        /\ r[x].prev_sibling = IF x = a THEN b ELSE m[x].prev_sibling
    BY <2>1, <1>4 DEF Unlinked
  <2> QED
    BY <2>1, <2>2, <1>1, <1>2, <1>4, <1>5, <1>6, <1>7, DummyFacts, PtrFacts
       DEF Unlinked, Linked, InLists, Segment
<1>12. ASSUME NEW x \in Alive(m)
       PROVE  Parental(r, N, x)
  <2> DEFINE f == m[x].first_child
             l == m[x].last_child
  <2>1. Parental(m, M, x) /\ x \in Ptr /\ x # Null /\ r[x].parent = m[x].parent
    BY <1>1, <1>4, PtrFacts DEF Loose, Unlinked
  <2>2. f \in S => f = first
    BY <2>1, <1>1, <1>2, PtrFacts DEF Parental, Segment
  <2>3. l \in S => l = last
    BY <2>1, <1>1, <1>2, PtrFacts DEF Parental, Segment
  <2>4. \A y \in Ptr :
          /\ r[y].parent = m[y].parent
          /\ r[y].first_child = IF y = p /\ b = Null THEN a ELSE m[y].first_child
          /\ r[y].last_child = IF y = p /\ a = Null THEN b ELSE m[y].last_child
          /\ r[y].next_sibling = IF y = b THEN a ELSE m[y].next_sibling
          /\ r[y].prev_sibling = IF y = a THEN b ELSE m[y].prev_sibling
    BY <1>4 DEF Unlinked
  <2>5. /\ f = Null <=> l = Null
        /\ f # Null => /\ f \in InLists(m, M) /\ l \in InLists(m, M)
                       /\ m[f].parent = x /\ m[f].prev_sibling = Null
                       /\ m[l].parent = x /\ m[l].next_sibling = Null
                       /\ f \in Ptr /\ l \in Ptr
    BY <2>1, <1>1 DEF Parental, InLists
  <2>6. CASE x # p
    <3>1. f # first \/ f = Null
      BY <2>5, <2>6, <1>2
    <3>2. l # last \/ l = Null
      BY <2>5, <2>6, <1>2
    <3>3. r[x].first_child = f /\ r[x].last_child = l
      BY <2>1, <2>4, <2>6
    <3>4. f # Null => /\ f \in InLists(r, N) /\ r[f].parent = x
                      /\ r[f].prev_sibling = Null
      <4>1. f # a \/ a = Null
        BY <2>5, <2>6, <1>6
      <4> QED
        BY <4>1, <2>2, <2>4, <2>5, <3>1, <1>5, <1>7
    <3>5. l # Null => /\ l \in InLists(r, N) /\ r[l].parent = x
                      /\ r[l].next_sibling = Null
      <4>1. l # b \/ b = Null
        BY <2>5, <2>6, <1>6
      <4> QED
        BY <4>1, <2>3, <2>4, <2>5, <3>2, <1>5, <1>7
    <3> QED
      BY <2>5, <3>3, <3>4, <3>5 DEF Parental
  <2>7. CASE x = p
    <3>0. first # Null /\ last # Null
      BY <1>2, PtrFacts
    <3>1. CASE b = Null /\ a = Null
      BY <2>1, <2>4, <2>7, <3>1 DEF Parental
    <3>2. CASE b = Null /\ a # Null
      <4>1. f = first /\ r[x].first_child = a /\ r[x].last_child = l
        BY <2>1, <2>4, <2>7, <3>2, <1>6
      <4>2. l # last
        BY <2>5, <4>1, <3>0, <3>2
      <4>3. a \in InLists(r, N)
        BY <3>2, <2>1, <2>7, <1>6 DEF Feets, TopLevel, Loose
      <4>4. l \in InLists(r, N) /\ r[l].parent = x /\ r[l].next_sibling = Null
        BY <4>1, <4>2, <2>3, <2>4, <2>5, <3>0, <3>2, <1>5, <1>7
      <4>5. r[a].parent = x /\ r[a].prev_sibling = Null
        BY <2>4, <2>7, <3>2, <1>6, <1>7
      <4>6. a # Null /\ l # Null
        BY <4>1, <2>5, <3>0, <3>2
      <4> QED
        BY <4>1, <4>3, <4>4, <4>5, <4>6 DEF Parental
    <3>3. CASE b # Null /\ a = Null
      <4>1. l = last /\ r[x].first_child = f /\ r[x].last_child = b
        BY <2>1, <2>4, <2>7, <3>3, <1>6
      <4>2. f # first
        BY <2>5, <4>1, <3>0, <3>3
      <4>3. b \in InLists(r, N)
        BY <3>3, <2>1, <2>7, <1>6 DEF Heads, TopLevel, Loose
      <4>4. f \in InLists(r, N) /\ r[f].parent = x /\ r[f].prev_sibling = Null
        BY <4>1, <4>2, <2>2, <2>4, <2>5, <3>0, <3>3, <1>5, <1>7
      <4>5. r[b].parent = x /\ r[b].next_sibling = Null
        BY <2>4, <2>7, <3>3, <1>6, <1>7
      <4>6. b # Null /\ f # Null
        BY <4>1, <2>5, <3>0, <3>3
      <4> QED
        BY <4>1, <4>3, <4>4, <4>5, <4>6 DEF Parental
    <3>4. CASE b # Null /\ a # Null
      <4>1. r[x].first_child = f /\ r[x].last_child = l
        BY <2>1, <2>4, <2>7, <3>4
      <4>2. f # first \/ f = Null
        BY <2>5, <3>4
      <4>3. l # last \/ l = Null
        BY <2>5, <3>4
      <4>4. f # a \/ f = Null
        BY <2>5, <3>4, <1>6, <3>0
      <4>5. l # b \/ l = Null
        BY <2>5, <3>4, <1>6, <3>0
      <4>6. f # Null => /\ f \in InLists(r, N) /\ r[f].parent = x
                        /\ r[f].prev_sibling = Null
        BY <4>2, <4>4, <2>2, <2>4, <2>5, <1>5
      <4>7. l # Null => /\ l \in InLists(r, N) /\ r[l].parent = x
                        /\ r[l].next_sibling = Null
        BY <4>3, <4>5, <2>3, <2>4, <2>5, <1>5
      <4> QED
        BY <4>1, <4>6, <4>7, <2>5 DEF Parental
    <3> QED
      BY <3>1, <3>2, <3>3, <3>4
  <2> QED
    BY <2>6, <2>7
<1>13. ASSUME NEW t \in Tree, NEW T, TopLevel(m, M, t, T)
       PROVE  TopLevel(r, N, t, T \ S)
  <2>1. /\ T \subseteq InLists(m, M) /\ T \subseteq Ptr /\ head(t) \in Ptr /\ feet(t) \in Ptr
        /\ head(t) \notin T /\ feet(t) \notin T /\ head(t) # feet(t)
        /\ Null \notin T /\ Null # head(t) /\ Null # feet(t)
        /\ head(t) \notin S /\ feet(t) \notin S
    <3>1. T \subseteq InLists(m, M)
      BY <1>13 DEF TopLevel
    <3>2. T \subseteq Node
      BY <3>1, <1>1 DEF InLists
    <3>3. head(t) \in Heads /\ feet(t) \in Feets
      BY DEF Heads, Feets
    <3> QED
      BY <3>1, <3>2, <3>3, <1>1, <1>2, PtrFacts, DummyFacts
  <2>2. ASSUME NEW k \in T \cup {head(t), feet(t)}
        PROVE  /\ r[k].parent = m[k].parent
               /\ r[k].next_sibling = IF k = b THEN a ELSE m[k].next_sibling
               /\ r[k].prev_sibling = IF k = a THEN b ELSE m[k].prev_sibling
    BY <2>1, <1>4 DEF Unlinked
  <2>3. T \ S \subseteq InLists(r, N)
    BY <2>1, <1>5
  <2>4. \A k \in T \cup {head(t), feet(t)} : r[k].parent = Null
    BY <2>2, <1>13 DEF TopLevel
  <2>5. CASE S \subseteq T
    <3>1. b \in (T \ S) \cup {head(t)} /\ a \in (T \ S) \cup {feet(t)}
      BY <2>5, <1>2, <1>13 DEF TopLevel
    <3>2. m[b].next_sibling = first /\ m[a].prev_sibling = last
      BY <3>1, <1>6, <2>1
    <3>3. ASSUME NEW k \in (T \ S) \cup {head(t)}
          PROVE  /\ r[k].next_sibling \in (T \ S) \cup {feet(t)}
                 /\ r[r[k].next_sibling].prev_sibling = k
      <4>1. CASE k = b
        BY <4>1, <3>1, <2>2
      <4>2. CASE k # b
        <5>1. r[k].next_sibling = m[k].next_sibling
          BY <4>2, <2>2
        <5>2. /\ m[k].next_sibling \in T \cup {feet(t)}
              /\ m[m[k].next_sibling].prev_sibling = k
          BY <1>13 DEF TopLevel
        <5>3. k \notin S
          BY <2>1
        <5>4. m[k].next_sibling \notin S /\ m[k].next_sibling # a
          BY <5>2, <5>3, <4>2, <3>2, <1>2 DEF Segment
        <5> QED
          BY <5>1, <5>2, <5>4, <2>2
      <4> QED
        BY <4>1, <4>2
    <3>4. ASSUME NEW k \in (T \ S) \cup {feet(t)}
          PROVE  /\ r[k].prev_sibling \in (T \ S) \cup {head(t)}
                 /\ r[r[k].prev_sibling].next_sibling = k
      <4>1. CASE k = a
        BY <4>1, <3>1, <2>2
      <4>2. CASE k # a
        <5>1. r[k].prev_sibling = m[k].prev_sibling
          BY <4>2, <2>2
        <5>2. /\ m[k].prev_sibling \in T \cup {head(t)}
              /\ m[m[k].prev_sibling].next_sibling = k
          BY <1>13 DEF TopLevel
        <5>3. k \notin S
          BY <2>1
        <5>4. m[k].prev_sibling \notin S /\ m[k].prev_sibling # b
          BY <5>2, <5>3, <4>2, <3>2, <1>2 DEF Segment
        <5> QED
          BY <5>1, <5>2, <5>4, <2>2
      <4> QED
        BY <4>1, <4>2
    <3> QED
      BY <2>3, <2>4, <3>3, <3>4 DEF TopLevel
  <2>6. CASE S \cap T = {}
    <3>1. b \notin T \cup {head(t)} /\ a \notin T \cup {feet(t)}
      BY <2>1, <2>6, <1>2, <1>6, <1>13 DEF TopLevel
    <3>2. T \ S = T /\ T \subseteq InLists(r, N)
      BY <2>3, <2>6
    <3>3. \A k \in T \cup {head(t)} : r[k].next_sibling = m[k].next_sibling
      BY <2>2, <3>1
    <3>4. \A k \in T \cup {feet(t)} : r[k].prev_sibling = m[k].prev_sibling
      BY <2>2, <3>1
    <3>5. ASSUME NEW k \in T \cup {head(t)}
          PROVE  /\ r[k].next_sibling \in T \cup {feet(t)}
                 /\ r[r[k].next_sibling].prev_sibling = k
      BY <3>3, <3>4, <1>13 DEF TopLevel
    <3>6. ASSUME NEW k \in T \cup {feet(t)}
          PROVE  /\ r[k].prev_sibling \in T \cup {head(t)}
                 /\ r[r[k].prev_sibling].next_sibling = k
      BY <3>3, <3>4, <1>13 DEF TopLevel
    <3>7. TopLevel(r, N, t, T)
      BY <3>2, <3>5, <3>6, <2>4 DEF TopLevel
    <3> QED
      BY <3>2, <3>7
  <2> QED
    BY <2>5, <2>6, <1>13, SegmentInTop
<1>14. NoRing(r, N)
  <2> SUFFICES ASSUME NEW T \in SUBSET (InLists(m, M) \ S), T # {},
                      \A x \in T : r[x].prev_sibling \in T
               PROVE  FALSE
    BY <1>5 DEF NoRing
  <2>1. T \subseteq Ptr
    BY <1>1 DEF InLists
  <2>2. CASE a \notin T
    <3>1. \A x \in T : m[x].prev_sibling \in T
      BY <2>1, <2>2, <1>4 DEF Unlinked
    <3> QED
      BY <3>1 DEF Loose, NoRing
  <2>3. CASE a \in T
    <3>1. b \in T /\ m[a].prev_sibling = last
      BY <2>1, <2>3, <1>4, <1>6, <1>7 DEF Unlinked
    <3>2. \A x \in T \ {a} : m[x].prev_sibling \in T
      BY <2>1, <1>4 DEF Unlinked
    <3>3. \A x \in S : m[x].prev_sibling \in T \cup S
      BY <3>1 DEF Segment
    <3>4. \A x \in T \cup S : m[x].prev_sibling \in T \cup S
      BY <3>1, <3>2, <3>3, <1>2
    <3>5. T \cup S \in SUBSET InLists(m, M) /\ T \cup S # {}
      BY <2>3
    <3> QED
      BY <3>4, <3>5 DEF Loose, NoRing
  <2> QED
    BY <2>2, <2>3
<1>15. NoCycle(r)
  <2>1. \A x \in Alive(m) : r[x].parent = m[x].parent
    BY <1>1, <1>4 DEF Unlinked
  <2> QED
    BY <2>1, <1>5 DEF Loose, NoCycle
<1>16. Loose(r, N)
  <2>1. \A t \in Tree : \E T : TopLevel(r, N, t, T)
    BY <1>13 DEF Loose
  <2>2. r \in Memory /\ N \subseteq Alive(r)
    BY <1>2, <1>4, <1>5 DEF Unlinked, Loose
  <2>3. \A x \in InLists(r, N) : Linked(r, N, x)
    BY <1>5, <1>11
  <2>4. \A x \in Alive(r) : Parental(r, N, x)
    BY <1>5, <1>12
  <2> QED
    BY <2>1, <2>2, <2>3, <2>4, <1>14, <1>15 DEF Loose
<1> QED
  BY <1>2, <1>4, <1>5, <1>8, <1>10, <1>13, <1>16 DEF Left

LEMMA UnlinkKeeps ==
  ASSUME NEW m, NEW M, NEW S, NEW first, NEW last, NEW r,
         r = Unlink(m, first, last),
         Loose(m, M), S \subseteq InLists(m, M), Segment(m, S, first, last)
  PROVE  Left(m, M, S, first, last, m[first].parent, m[first].prev_sibling,
              m[last].next_sibling, r)
<1>1. m \in Memory /\ first \in Ptr /\ last \in Ptr
  BY AliveFacts, PtrFacts DEF Loose, Segment
<1> QED
  BY <1>1, UnlinkFields, LeaveKeeps

(* The top level depends on its own nodes and the two dummies. *)
LEMMA TopSame ==
  ASSUME NEW m, NEW M, NEW r, NEW N, NEW t, NEW T, TopLevel(m, M, t, T),
         T \subseteq InLists(r, N), T \subseteq Node, t \in Tree,
         \A k \in T \cup {head(t), feet(t)} :
           /\ r[k].parent = m[k].parent
           /\ r[k].next_sibling = m[k].next_sibling \/ k = feet(t)
           /\ r[k].prev_sibling = m[k].prev_sibling \/ k = head(t)
  PROVE  TopLevel(r, N, t, T)
<1>0. head(t) # feet(t) /\ head(t) \notin T /\ feet(t) \notin T
  BY PtrFacts DEF head, feet, TopLevel
<1>1. \A k \in T \cup {head(t), feet(t)} : r[k].parent = Null
  BY DEF TopLevel
<1>2. ASSUME NEW k \in T \cup {head(t)}
      PROVE  /\ r[k].next_sibling \in T \cup {feet(t)}
             /\ r[r[k].next_sibling].prev_sibling = k
  <2>1. r[k].next_sibling = m[k].next_sibling /\ m[k].next_sibling \in T \cup {feet(t)}
        /\ m[m[k].next_sibling].prev_sibling = k
    BY <1>0 DEF TopLevel
  <2> QED
    BY <2>1, <1>0
<1>3. ASSUME NEW k \in T \cup {feet(t)}
      PROVE  /\ r[k].prev_sibling \in T \cup {head(t)}
             /\ r[r[k].prev_sibling].next_sibling = k
  <2>1. r[k].prev_sibling = m[k].prev_sibling /\ m[k].prev_sibling \in T \cup {head(t)}
        /\ m[m[k].prev_sibling].next_sibling = k
    BY <1>0 DEF TopLevel
  <2> QED
    BY <2>1, <1>0
<1> QED
  BY <1>1, <1>2, <1>3 DEF TopLevel

-----------------------------------------------------------------------------
(* A new node, in no list yet. *)
Constructed(m, n, r) ==
  /\ Loose(r, {n}) /\ Alive(r) = Alive(m) \cup {n}
  /\ \A y \in Ptr \ {n} : r[y] = m[y]
  /\ r[n].parent = Null
  /\ \A k \in Alive(r) : r[k].parent # n
  /\ \A p \in Alive(m) \cup {Null} : Outside(r, {n}, p)
  /\ \A p, b, a : Slot(m, {}, p, b, a) => Slot(r, {n}, p, b, a)
  /\ \A t \in Tree : \A T : TopLevel(m, {}, t, T) => TopLevel(r, {n}, t, T)

LEMMA ConstructKeeps ==
  ASSUME NEW m, NEW n \in Node \ Alive(m), NEW x \in Data \cup {Blank},
         NEW r, r = Construct(m, n, x), Sound(m)
  PROVE  Constructed(m, n, r)
<1>1. /\ m \in Memory /\ Alive(m) \subseteq Node /\ Node \subseteq Ptr
      /\ Null \notin Ptr /\ InLists(m, {}) = Alive(m)
  BY AliveFacts, PtrFacts DEF Sound, Loose, InLists
<1>2. /\ r \in Memory
      /\ r[n].parent = Null /\ r[n].first_child = Null
      /\ r[n].last_child = Null /\ r[n].prev_sibling = Null
      /\ r[n].next_sibling = Null /\ r[n].data = x
      /\ \A y \in Ptr \ {n} : r[y] = m[y]
  BY <1>1, ConstructFields
<1>3. /\ n \notin Alive(m) /\ n \in Node /\ n \in Ptr /\ n # Null
      /\ n \notin Heads /\ n \notin Feets
  BY <1>1, PtrFacts, DummyFacts
<1>4. Alive(r) = Alive(m) \cup {n} /\ InLists(r, {n}) = Alive(m)
  <2>1. x # Freed
    BY PtrFacts
  <2>2. Alive(r) = Alive(m) \cup {n}
    BY <1>1, <1>2, <1>3, <2>1 DEF Alive
  <2> QED
    BY <2>2, <1>1, <1>3 DEF InLists
<1>5. ASSUME NEW y \in Alive(m)
      PROVE  /\ r[y] = m[y] /\ y # n /\ Linked(m, {}, y) /\ Parental(m, {}, y)
             /\ m[y].parent \in Alive(m) \cup {Null}
  <2>1. r[y] = m[y] /\ y # n /\ Parental(m, {}, y) /\ Linked(m, {}, y)
    BY <1>1, <1>2, <1>3 DEF Sound, Loose
  <2> QED
    BY <2>1 DEF Linked
<1>6. \A d \in Heads \cup Feets : r[d] = m[d]
  BY <1>2, <1>3, DummyFacts
<1>7. ASSUME NEW y \in Alive(m)
      PROVE  Linked(r, {n}, y) /\ Parental(r, {n}, y)
  <2>1. Linked(r, {n}, y)
    BY <1>1, <1>4, <1>5, <1>6 DEF Linked
  <2>2. Parental(r, {n}, y)
    BY <1>1, <1>4, <1>5, <1>6 DEF Parental
  <2> QED
    BY <2>1, <2>2
<1>8. Parental(r, {n}, n)
  BY <1>2 DEF Parental
<1>9. ASSUME NEW t \in Tree, NEW T, TopLevel(m, {}, t, T)
      PROVE  TopLevel(r, {n}, t, T)
  <2>1. T \subseteq Alive(m) /\ head(t) \in Heads /\ feet(t) \in Feets
    BY <1>1, <1>9 DEF TopLevel, Heads, Feets
  <2>2. T \subseteq Node /\ \A k \in T \cup {head(t), feet(t)} : r[k] = m[k]
    BY <2>1, <1>1, <1>5, <1>6
  <2>3. T \subseteq InLists(r, {n})
    BY <2>1, <1>4
  <2> QED
    BY <2>2, <2>3, <1>9, TopSame
<1>10. NoRing(r, {n})
  <2>1. \A y \in Alive(m) : r[y].prev_sibling = m[y].prev_sibling
    BY <1>5
  <2>2. InLists(r, {n}) = InLists(m, {}) /\ NoRing(m, {})
    BY <1>1, <1>4 DEF Sound, Loose
  <2> SUFFICES ASSUME NEW T \in SUBSET Alive(m), T # {}
               PROVE  \E y \in T : r[y].prev_sibling \notin T
    BY <1>4 DEF NoRing
  <2>3. PICK y \in T : m[y].prev_sibling \notin T
    BY <2>2, <1>1 DEF NoRing
  <2> QED
    BY <2>1, <2>3
<1>11. NoCycle(r)
  <2> SUFFICES ASSUME NEW T \in SUBSET Alive(r), T # {},
                      \A y \in T : r[y].parent \in T
               PROVE  FALSE
    BY DEF NoCycle
  <2>1. n \notin T
    BY <1>1, <1>2, <1>4, <1>3
  <2>2. T \in SUBSET Alive(m) /\ \A y \in T : m[y].parent \in T
    BY <2>1, <1>4, <1>5
  <2> QED
    BY <2>2 DEF Sound, Loose, NoCycle
<1>12. Loose(r, {n})
  <2>1. \A t \in Tree : \E T : TopLevel(r, {n}, t, T)
    BY <1>9 DEF Sound, Loose
  <2>2. \A y \in InLists(r, {n}) : Linked(r, {n}, y)
    BY <1>4, <1>7
  <2>3. \A y \in Alive(r) : Parental(r, {n}, y)
    BY <1>4, <1>7, <1>8
  <2> QED
    BY <2>1, <2>2, <2>3, <1>2, <1>4, <1>10, <1>11 DEF Loose
<1>13. \A k \in Alive(r) : r[k].parent # n
  BY <1>1, <1>2, <1>3, <1>4, <1>5
<1>14. ASSUME NEW p \in Alive(m) \cup {Null}
       PROVE  Outside(r, {n}, p)
  <2>1. Alive(m) \in SUBSET (Alive(r) \ {n})
    BY <1>3, <1>4
  <2>2. \A k \in Alive(m) : r[k].parent \in Alive(m) \cup {Null}
    BY <1>5
  <2> QED
    BY <2>1, <2>2 DEF Outside
<1>15. ASSUME NEW p, NEW b, NEW a, Slot(m, {}, p, b, a)
       PROVE  Slot(r, {n}, p, b, a)
  BY <1>15, <1>1, <1>4, <1>5, <1>6 DEF Slot
<1> QED
  BY <1>2, <1>4, <1>9, <1>12, <1>13, <1>14, <1>15 DEF Constructed

(* A new node in a slot. *)
Placed(m, n, p, b, a, r) ==
  /\ Sound(r) /\ Alive(r) = Alive(m) \cup {n}
  /\ r[n].parent = p
  /\ \A y \in Alive(m) : r[y].parent = m[y].parent /\ m[y].parent # n
  /\ \A y \in Ptr \ {n} :
       /\ r[y].next_sibling = IF y = b THEN n ELSE m[y].next_sibling
       /\ r[y].prev_sibling = IF y = a THEN n ELSE m[y].prev_sibling
  /\ \A t \in Tree : \A T : TopLevel(m, {}, t, T) =>
       TopLevel(r, {}, t, IF b \in T \cup {head(t)} THEN T \cup {n} ELSE T)

LEMMA NewKeeps ==
  ASSUME NEW m, NEW n \in Node \ Alive(m), NEW x \in Data \cup {Blank},
         NEW p, NEW b, NEW a, NEW r, r = New(m, n, x, p, b, a),
         Sound(m), Slot(m, {}, p, b, a)
  PROVE  Placed(m, n, p, b, a, r)
<1> DEFINE c == Construct(m, n, x)
<1>1. Constructed(m, n, c) /\ r = LinkIn(c, n, n, p, b, a)
  BY ConstructKeeps DEF New
<1> HIDE DEF c
<1>2. /\ Loose(c, {n}) /\ Alive(c) = Alive(m) \cup {n} /\ n \in Alive(c)
      /\ \A y \in Ptr \ {n} : c[y] = m[y]
      /\ \A k \in Alive(c) : c[k].parent # n
      /\ Slot(c, {n}, p, b, a)
      /\ \A t \in Tree : \A T : TopLevel(m, {}, t, T) => TopLevel(c, {n}, t, T)
  BY <1>1 DEF Constructed
<1>3. /\ Alive(m) \subseteq Node /\ Node \subseteq Ptr /\ p \in Alive(m) \cup {Null}
      /\ n \notin Alive(m)
  BY PtrFacts DEF Slot, Alive
<1>4. Outside(c, {n}, p)
  BY <1>1, <1>3 DEF Constructed
<1>5. Segment(c, {n}, n, n) /\ {n} \subseteq {n} /\ {n} \ {n} = {}
  BY <1>2, SingleSegment
<1>6. Entered(c, {n}, {n}, n, n, p, b, a, r)
  BY <1>1, <1>2, <1>4, <1>5, LinkInKeeps
<1>7. /\ Sound(r) /\ LinkedIn(c, r, {n}, n, n, p, b, a) /\ Alive(r) = Alive(c)
      /\ \A t \in Tree : \A T : TopLevel(c, {n}, t, T) =>
           TopLevel(r, {}, t, IF b \in T \cup {head(t)} THEN T \cup {n} ELSE T)
  BY <1>5, <1>6 DEF Entered, Sound
<1>8. r[n].parent = p
  BY <1>3, <1>7 DEF LinkedIn
<1>9. \A y \in Alive(m) : r[y].parent = m[y].parent /\ m[y].parent # n
  BY <1>2, <1>3, <1>7 DEF LinkedIn
<1>10. \A y \in Ptr \ {n} :
         /\ r[y].next_sibling = IF y = b THEN n ELSE m[y].next_sibling
         /\ r[y].prev_sibling = IF y = a THEN n ELSE m[y].prev_sibling
  BY <1>2, <1>7 DEF LinkedIn
<1> QED
  BY <1>2, <1>7, <1>8, <1>9, <1>10 DEF Placed

(* Nodes are released together with everything below them. *)
Released(m, M, D, r) ==
  /\ Sound(r) /\ Alive(r) = Alive(m) \ D
  /\ \A x \in Ptr \ D : r[x] = m[x]
  /\ \A t \in Tree : \A T : TopLevel(m, M, t, T) => TopLevel(r, {}, t, T)
  /\ \A p, b, a : Slot(m, M, p, b, a) /\ p \notin D /\ b \notin D /\ a \notin D
       => Slot(r, {}, p, b, a)

LEMMA DeallocateKeeps ==
  ASSUME NEW m, NEW M, NEW D \in SUBSET Node, NEW r, r = Deallocate(m, D),
         Loose(m, M), M \subseteq D,
         \A x \in Alive(m) \ D : m[x].parent \notin D,
         \A x \in InLists(m, M) : x \in D => m[x].parent \in D
  PROVE  Released(m, M, D, r)
<1>1. /\ m \in Memory /\ Alive(m) \subseteq Node /\ Node \subseteq Ptr
      /\ Null \notin Ptr
  BY AliveFacts, PtrFacts DEF Loose
<1>2. /\ r \in Memory /\ \A x \in D : r[x].data = Freed
      /\ \A x \in Ptr \ D : r[x] = m[x]
  BY <1>1, DeallocateFields
<1>3. /\ Alive(r) = Alive(m) \ D /\ InLists(r, {}) = Alive(m) \ D
      /\ Alive(m) \ D \subseteq InLists(m, M)
      /\ InLists(m, M) \ D = Alive(m) \ D
  <2>1. Alive(r) = Alive(m) \ D
    BY <1>1, <1>2 DEF Alive
  <2> QED
    BY <2>1 DEF InLists
<1>4. \A d \in Heads \cup Feets : r[d] = m[d] /\ d \notin D
  BY <1>2, DummyFacts
<1>5. ASSUME NEW x \in Alive(m) \ D
      PROVE  /\ r[x] = m[x] /\ Linked(m, M, x) /\ Parental(m, M, x)
             /\ m[x].parent \notin D
  BY <1>1, <1>2, <1>3 DEF Loose
<1>6. ASSUME NEW x \in Alive(m) \ D
      PROVE  Linked(r, {}, x)
  <2>1. m[x].prev_sibling \notin D
    BY <1>5, <1>1, <1>4 DEF Linked
  <2>2. m[x].next_sibling \notin D
    BY <1>5, <1>1, <1>4 DEF Linked
  <2>3. m[x].prev_sibling \in (Alive(m) \ D) \cup {Null} \cup Heads
    BY <2>1, <1>3, <1>5 DEF Linked
  <2>4. m[x].next_sibling \in (Alive(m) \ D) \cup {Null} \cup Feets
    BY <2>2, <1>3, <1>5 DEF Linked
  <2>5. m[x].parent \in (Alive(m) \ D) \cup {Null}
    BY <1>5 DEF Linked
  <2> QED
    BY <2>3, <2>4, <2>5, <1>2, <1>3, <1>4, <1>5 DEF Linked
<1>7. ASSUME NEW x \in Alive(m) \ D
      PROVE  Parental(r, {}, x)
  BY <1>1, <1>2, <1>3, <1>5 DEF Parental
<1>8. ASSUME NEW t \in Tree, NEW T, TopLevel(m, M, t, T)
      PROVE  TopLevel(r, {}, t, T)
  <2>1. T \subseteq InLists(m, M) /\ head(t) \in Heads /\ feet(t) \in Feets
        /\ \A k \in T : m[k].parent = Null
    BY <1>8 DEF TopLevel, Heads, Feets
  <2>2. T \cap D = {}
    BY <2>1, <1>1
  <2>3. T \subseteq InLists(r, {})
    BY <2>1, <2>2, <1>3
  <2>4. T \subseteq Node /\ \A k \in T \cup {head(t), feet(t)} : r[k] = m[k]
    BY <2>3, <2>1, <1>1, <1>3, <1>4, <1>5
  <2> QED
    BY <2>3, <2>4, <1>8, TopSame
<1>9. NoRing(r, {})
  <2>1. \A y \in Alive(m) \ D : r[y].prev_sibling = m[y].prev_sibling
    BY <1>5
  <2> QED
    BY <2>1, <1>3 DEF Loose, NoRing
<1>10. NoCycle(r)
  <2>1. \A y \in Alive(m) \ D : r[y].parent = m[y].parent
    BY <1>5
  <2> QED
    BY <2>1, <1>3 DEF Loose, NoCycle
<1>11. Sound(r)
  <2>1. \A t \in Tree : \E T : TopLevel(r, {}, t, T)
    BY <1>8 DEF Loose
  <2> QED
    BY <2>1, <1>2, <1>3, <1>6, <1>7, <1>9, <1>10 DEF Sound, Loose
<1>12. ASSUME NEW p, NEW b, NEW a, Slot(m, M, p, b, a),
              p \notin D, b \notin D, a \notin D
       PROVE  Slot(r, {}, p, b, a)
  <2>1. /\ p \in (Alive(m) \ D) \cup {Null}
        /\ b \in (Alive(m) \ D) \cup {Null} \cup Heads
        /\ a \in (Alive(m) \ D) \cup {Null} \cup Feets
    BY <1>12, <1>3 DEF Slot
  <2> QED
    BY <2>1, <1>12, <1>3, <1>4, <1>5 DEF Slot
<1> QED
  BY <1>2, <1>3, <1>8, <1>11, <1>12 DEF Released

-----------------------------------------------------------------------------
(* What a sound memory says of each node, in one place. *)
LEMMA SoundFacts ==
  ASSUME NEW m, Sound(m)
  PROVE  /\ m \in Memory /\ Alive(m) \subseteq Node /\ Node \subseteq Ptr
         /\ Null \notin Ptr /\ InLists(m, {}) = Alive(m)
         /\ \A x \in Alive(m) : Linked(m, {}, x) /\ Parental(m, {}, x)
         /\ \A t \in Tree : \E T : TopLevel(m, {}, t, T)
         /\ \A d \in Heads \cup Feets : m[d].parent = Null /\ d \notin Node
  <1>1. \A t \in Tree : m[head(t)].parent = Null /\ m[feet(t)].parent = Null
    BY DEF Sound, Loose, TopLevel
  <1> QED
    BY <1>1, AliveFacts, PtrFacts DEF Sound, Loose, InLists, Heads, Feets

(* The nodes a walk reaches from n: closed under the walk, and no more. *)
WalkClosed(m, n, C) ==
  /\ n \in Node => n \in C
  /\ \A k \in C : /\ m[k].first_child \in Node => m[k].first_child \in C
                  /\ m[k].next_sibling \in Node => m[k].next_sibling \in C

LEMMA ReachFacts ==
  ASSUME NEW m, NEW n
  PROVE  /\ Reach(m, n) \subseteq Node /\ WalkClosed(m, n, Reach(m, n))
         /\ \A C \in SUBSET Node : WalkClosed(m, n, C) => Reach(m, n) \subseteq C
<1>1. ASSUME NEW C \in SUBSET Node
      PROVE  WalkClosed(m, n, C) <=>
               /\ n \in Node => n \in C
               /\ \A k \in C : \A j \in {m[k].first_child, m[k].next_sibling} :
                     j \in Node => j \in C
  BY DEF WalkClosed
<1>2. Reach(m, n) = {k \in Node : \A C \in SUBSET Node : WalkClosed(m, n, C) => k \in C}
  BY <1>1 DEF Reach, InAll
<1>3. Reach(m, n) \subseteq Node
  BY <1>2
<1>4. \A C \in SUBSET Node : WalkClosed(m, n, C) => Reach(m, n) \subseteq C
  BY <1>2
<1>5. n \in Node => n \in Reach(m, n)
  BY <1>2 DEF WalkClosed
<1>6. ASSUME NEW k \in Reach(m, n)
      PROVE  /\ m[k].first_child \in Node => m[k].first_child \in Reach(m, n)
             /\ m[k].next_sibling \in Node => m[k].next_sibling \in Reach(m, n)
  <2>1. \A C \in SUBSET Node : WalkClosed(m, n, C) => k \in C
    BY <1>2
  <2>2. \A C \in SUBSET Node : WalkClosed(m, n, C) =>
          /\ m[k].first_child \in Node => m[k].first_child \in C
          /\ m[k].next_sibling \in Node => m[k].next_sibling \in C
    BY <2>1 DEF WalkClosed
  <2> QED
    BY <2>2, <1>2
<1> QED
  BY <1>3, <1>4, <1>5, <1>6 DEF WalkClosed

(* Every child of a node that a closed set holds is in the set too. *)
LEMMA ChildrenClosed ==
  ASSUME NEW m, Sound(m), NEW D \in SUBSET Node, NEW P \in SUBSET Node,
         \A k \in P : m[k].first_child \in Node => m[k].first_child \in D,
         \A k \in D : m[k].next_sibling \in Node => m[k].next_sibling \in D,
         NEW x \in Alive(m), m[x].parent \in P
  PROVE  x \in D
<1> DEFINE T == {y \in Alive(m) : m[y].parent \in P /\ y \notin D}
<1>1. SUFFICES ASSUME T # {} PROVE FALSE
  OBVIOUS
<1>2. PICK y \in T : m[y].prev_sibling \notin T
  <2>1. NoRing(m, {}) /\ T \in SUBSET InLists(m, {})
    BY SoundFacts DEF Sound, Loose
  <2> HIDE DEF T
  <2> QED
    BY <1>1, <2>1 DEF NoRing
<1>3. /\ y \in Alive(m) /\ m[y].parent \in P /\ y \notin D /\ y \in Node
      /\ Linked(m, {}, y) /\ m[y].parent \in Node
  BY <1>2, SoundFacts
<1>4. CASE m[y].prev_sibling = Null
  BY <1>3, <1>4 DEF Linked
<1>5. CASE m[y].prev_sibling \in Heads
  BY <1>3, <1>5, SoundFacts DEF Linked
<1>6. CASE m[y].prev_sibling \in Alive(m)
  <2>1. m[m[y].prev_sibling].parent = m[y].parent /\ m[m[y].prev_sibling].next_sibling = y
    BY <1>3, <1>6, SoundFacts DEF Linked
  <2>2. m[y].prev_sibling \in D
    BY <2>1, <1>2, <1>3, <1>6
  <2> QED
    BY <2>1, <2>2, <1>3
<1> QED
  BY <1>3, <1>4, <1>5, <1>6, SoundFacts DEF Linked

(* The nodes below n are those whose parent is n or below n; n is not. *)
LEMMA BelowFacts ==
  ASSUME NEW m, Sound(m), NEW n \in Alive(m)
  PROVE  /\ Below(m, n) \subseteq Alive(m) /\ n \notin Below(m, n)
         /\ \A x \in Below(m, n) : m[x].parent \in Below(m, n) \cup {n}
         /\ \A x \in Alive(m) : m[x].parent \in Below(m, n) \cup {n} => x \in Below(m, n)
<1> DEFINE f == m[n].first_child
           D == Below(m, n)
           C == {x \in D \cap Alive(m) : m[x].parent \in D \cup {n}}
<1>1. /\ D \subseteq Node /\ WalkClosed(m, f, D)
      /\ \A E \in SUBSET Node : WalkClosed(m, f, E) => D \subseteq E
  BY ReachFacts DEF Below
<1> HIDE DEF D
<1>2. n \in Node /\ Parental(m, {}, n) /\ Alive(m) \subseteq Node
  BY SoundFacts
<1>3. f \in Node => f \in C
  BY <1>1, <1>2, SoundFacts DEF Parental, WalkClosed, InLists
<1>4. ASSUME NEW k \in C
      PROVE  /\ m[k].first_child \in Node => m[k].first_child \in C
             /\ m[k].next_sibling \in Node => m[k].next_sibling \in C
  <2>1. /\ k \in D /\ k \in Alive(m) /\ m[k].parent \in D \cup {n}
        /\ Linked(m, {}, k) /\ Parental(m, {}, k)
    BY SoundFacts
  <2>2. ASSUME m[k].first_child \in Node PROVE m[k].first_child \in C
    <3>1. m[k].first_child \in D
      BY <2>1, <2>2, <1>1 DEF WalkClosed
    <3>2. m[k].first_child \in Alive(m) /\ m[m[k].first_child].parent = k
      BY <2>1, <2>2, SoundFacts DEF Parental
    <3> QED
      BY <3>1, <3>2, <2>1
  <2>3. ASSUME m[k].next_sibling \in Node PROVE m[k].next_sibling \in C
    <3>1. m[k].next_sibling \in D
      BY <2>1, <2>3, <1>1 DEF WalkClosed
    <3>2. m[k].next_sibling \in Alive(m) /\ m[m[k].next_sibling].parent = m[k].parent
      BY <2>1, <2>3, SoundFacts DEF Linked
    <3> QED
      BY <3>1, <3>2, <2>1
  <2> QED
    BY <2>2, <2>3
<1>5. D \subseteq C
  <2>1. WalkClosed(m, f, C) /\ C \in SUBSET Node
    BY <1>1, <1>3, <1>4 DEF WalkClosed
  <2> QED
    BY <2>1, <1>1
<1>6. ASSUME NEW x \in Alive(m), m[x].parent \in D \cup {n} PROVE x \in D
  <2>1. \A k \in D \cup {n} : m[k].first_child \in Node => m[k].first_child \in D
    BY <1>1 DEF WalkClosed
  <2>2. \A k \in D : m[k].next_sibling \in Node => m[k].next_sibling \in D
    BY <1>1 DEF WalkClosed
  <2>3. D \cup {n} \in SUBSET Node
    BY <1>1, <1>2
  <2> QED
    BY <2>1, <2>2, <2>3, <1>1, <1>6, ChildrenClosed
<1>7. n \notin D
  <2> SUFFICES ASSUME n \in D PROVE FALSE
    OBVIOUS
  <2>1. \A x \in D : m[x].parent \in D
    BY <1>5
  <2>2. D \in SUBSET Alive(m)
    BY <1>5
  <2> QED
    BY <2>1, <2>2 DEF Sound, Loose, NoCycle
<1> QED
  BY <1>5, <1>6, <1>7 DEF D

(* The nodes of S and all below them. *)
Desc(m, S) == UNION {Subtree(m, k) : k \in S}

LEMMA DescFacts ==
  ASSUME NEW m, Sound(m), NEW S \in SUBSET Alive(m)
  PROVE  /\ S \subseteq Desc(m, S) /\ Desc(m, S) \subseteq Alive(m)
         /\ \A x \in Desc(m, S) \ S : m[x].parent \in Desc(m, S)
         /\ \A x \in Alive(m) : m[x].parent \in Desc(m, S) => x \in Desc(m, S)
<1>1. ASSUME NEW k \in S
      PROVE  /\ Subtree(m, k) \subseteq Alive(m) /\ k \in Subtree(m, k)
             /\ \A x \in Subtree(m, k) \ {k} : m[x].parent \in Subtree(m, k)
             /\ \A x \in Alive(m) : m[x].parent \in Subtree(m, k) => x \in Subtree(m, k)
  BY BelowFacts DEF Subtree
<1>2. \A x : x \in Desc(m, S) <=> \E k \in S : x \in Subtree(m, k)
  BY DEF Desc
<1> QED
  BY <1>1, <1>2

LEMMA OutsideDesc ==
  ASSUME NEW m, Sound(m), NEW S \in SUBSET Alive(m),
         NEW p \in (Alive(m) \ Desc(m, S)) \cup {Null}
  PROVE  Outside(m, S, p)
<1> DEFINE A == Alive(m) \ Desc(m, S)
<1>1. A \in SUBSET (Alive(m) \ S)
  BY DescFacts
<1>2. \A k \in A : m[k].parent \in A \cup {Null}
  <2>1. \A k \in Alive(m) : m[k].parent \in Alive(m) \cup {Null}
    BY SoundFacts DEF Linked
  <2> QED
    BY <2>1, DescFacts
<1> QED
  BY <1>1, <1>2 DEF Outside

(* The parent of the nodes of S is not below them. *)
LEMMA ParentOutside ==
  ASSUME NEW m, Sound(m), NEW S \in SUBSET Alive(m), S # {},
         NEW p, \A k \in S : m[k].parent = p
  PROVE  p \in (Alive(m) \ Desc(m, S)) \cup {Null}
<1>1. p \in Alive(m) \cup {Null}
  BY SoundFacts DEF Linked
<1>2. p \notin Desc(m, S)
  <2> SUFFICES ASSUME p \in Desc(m, S) PROVE FALSE
    OBVIOUS
  <2>1. \A x \in Desc(m, S) : m[x].parent \in Desc(m, S)
    BY DescFacts
  <2>2. Desc(m, S) \in SUBSET Alive(m) /\ Desc(m, S) # {}
    BY DescFacts
  <2> QED
    BY <2>1, <2>2 DEF Sound, Loose, NoCycle
<1> QED
  BY <1>1, <1>2

LEMMA OutsideSame ==
  ASSUME NEW m, NEW r, NEW S, NEW p, Outside(m, S, p), Alive(r) = Alive(m),
         \A x \in Alive(m) : r[x].parent = m[x].parent
  PROVE  Outside(r, S, p)
  BY DEF Outside

-----------------------------------------------------------------------------
(* The places next to a node and at the ends of a list. *)
LEMMA Slots ==
  ASSUME NEW m, NEW M, Loose(m, M)
  PROVE  /\ \A x \in InLists(m, M) :
              /\ Slot(m, M, m[x].parent, m[x].prev_sibling, x)
              /\ Slot(m, M, m[x].parent, x, m[x].next_sibling)
         /\ \A p \in Alive(m) :
              /\ Slot(m, M, p, m[p].last_child, Null)
              /\ Slot(m, M, p, Null, m[p].first_child)
         /\ \A t \in Tree :
              Slot(m, M, m[feet(t)].parent, m[feet(t)].prev_sibling, feet(t))
<1>1. Alive(m) \subseteq Node /\ Null \notin Node /\ InLists(m, M) \subseteq Alive(m)
  BY PtrFacts DEF Alive, InLists
<1>2. ASSUME NEW x \in InLists(m, M)
      PROVE  /\ Slot(m, M, m[x].parent, m[x].prev_sibling, x)
             /\ Slot(m, M, m[x].parent, x, m[x].next_sibling)
  <2>1. Linked(m, M, x) /\ x # Null
    BY <1>1 DEF Loose
  <2>2. Slot(m, M, m[x].parent, m[x].prev_sibling, x)
    BY <2>1 DEF Linked, Slot
  <2>3. Slot(m, M, m[x].parent, x, m[x].next_sibling)
    BY <2>1 DEF Linked, Slot
  <2> QED
    BY <2>2, <2>3
<1>3. ASSUME NEW p \in Alive(m)
      PROVE  /\ Slot(m, M, p, m[p].last_child, Null)
             /\ Slot(m, M, p, Null, m[p].first_child)
  <2>1. Parental(m, M, p) /\ p # Null
    BY <1>1 DEF Loose
  <2>2. Slot(m, M, p, m[p].last_child, Null)
    BY <2>1 DEF Parental, Slot
  <2>3. Slot(m, M, p, Null, m[p].first_child)
    BY <2>1 DEF Parental, Slot
  <2> QED
    BY <2>2, <2>3
<1>4. ASSUME NEW t \in Tree
      PROVE  Slot(m, M, m[feet(t)].parent, m[feet(t)].prev_sibling, feet(t))
  <2>1. PICK T : TopLevel(m, M, t, T)
    BY DEF Loose
  <2>2. /\ m[feet(t)].parent = Null /\ m[feet(t)].prev_sibling \in T \cup {head(t)}
        /\ m[m[feet(t)].prev_sibling].next_sibling = feet(t)
        /\ m[m[feet(t)].prev_sibling].parent = Null /\ T \subseteq InLists(m, M)
    BY <2>1 DEF TopLevel
  <2>3. /\ feet(t) \in Feets /\ head(t) \in Heads /\ feet(t) # Null
        /\ m[feet(t)].prev_sibling # Null
    BY <1>1, <2>2, PtrFacts DEF Heads, Feets
  <2> QED
    BY <2>2, <2>3 DEF Slot
<1> QED
  BY <1>2, <1>3, <1>4

ChainClosed(m, first, last, C) ==
  /\ first \in C
  /\ \A k \in C \ {last} : m[k].next_sibling \in Node => m[k].next_sibling \in C

LEMMA ChainFacts ==
  ASSUME NEW m, NEW first \in Node, NEW last
  PROVE  /\ Chain(m, first, last) \subseteq Node
         /\ ChainClosed(m, first, last, Chain(m, first, last))
         /\ \A C \in SUBSET Node :
              ChainClosed(m, first, last, C) => Chain(m, first, last) \subseteq C
<1> DEFINE S == Chain(m, first, last)
<1>1. S = {k \in Node : \A C \in SUBSET Node : ChainClosed(m, first, last, C) => k \in C}
  BY DEF Chain, InAll, ChainClosed
<1> HIDE DEF S
<1>2. S \subseteq Node /\ \A C \in SUBSET Node : ChainClosed(m, first, last, C) => S \subseteq C
  BY <1>1
<1>3. first \in S
  BY <1>1 DEF ChainClosed
<1>4. ASSUME NEW k \in S \ {last}, m[k].next_sibling \in Node
      PROVE  m[k].next_sibling \in S
  <2>1. \A C \in SUBSET Node : ChainClosed(m, first, last, C) => k \in C
    BY <1>1
  <2>2. \A C \in SUBSET Node : ChainClosed(m, first, last, C) => m[k].next_sibling \in C
    BY <2>1, <1>4 DEF ChainClosed
  <2> QED
    BY <2>2, <1>1, <1>4
<1> QED
  BY <1>2, <1>3, <1>4 DEF ChainClosed, S

(* x and the siblings before it. *)
LEMMA SiblingsBefore ==
  ASSUME NEW m, Sound(m), NEW x \in Alive(m)
  PROVE  \E B \in SUBSET Alive(m) :
           /\ x \in B
           /\ \A k \in B : m[k].prev_sibling \in Node => m[k].prev_sibling \in B
           /\ \A k \in B \ {x} : m[k].next_sibling \in B
<1> DEFINE Closed(C) == /\ x \in C
                        /\ \A k \in C : m[k].prev_sibling \in Node
                                          => m[k].prev_sibling \in C
           B == {k \in Node : \A C \in SUBSET Node : Closed(C) => k \in C}
           E == {k \in B \cap Alive(m) : k = x \/ m[k].next_sibling \in B}
<1>1. B \in SUBSET Node /\ \A C \in SUBSET Node : Closed(C) => B \subseteq C
  OBVIOUS
<1>2. x \in B
  BY SoundFacts
<1>3. ASSUME NEW k \in B, m[k].prev_sibling \in Node
      PROVE  m[k].prev_sibling \in B
  BY <1>3
<1> HIDE DEF B
<1>4. Closed(E) /\ E \in SUBSET Node
  <2>1. x \in E
    BY <1>2
  <2>2. ASSUME NEW k \in E, m[k].prev_sibling \in Node
        PROVE  m[k].prev_sibling \in E
    <3>1. Linked(m, {}, k) /\ k \in B
      BY SoundFacts
    <3>2. m[k].prev_sibling \in Alive(m) /\ m[m[k].prev_sibling].next_sibling = k
      BY <3>1, <2>2, SoundFacts DEF Linked
    <3> QED
      BY <3>1, <3>2, <2>2, <1>3
  <2> QED
    BY <2>1, <2>2, <1>1
<1>5. B \subseteq E
  BY <1>1, <1>4
<1> QED
  BY <1>2, <1>3, <1>5

(* A range of siblings is a segment. *)
LEMMA RangeSegment ==
  ASSUME NEW m, Sound(m), NEW first \in Alive(m), NEW last \in Chain(m, first, Null)
  PROVE  Segment(m, Chain(m, first, last), first, last)
<1> DEFINE R == Chain(m, first, Null)
           S == Chain(m, first, last)
<1>1. /\ first \in Node /\ Alive(m) \subseteq Node /\ Null \notin Node
      /\ \A k \in Alive(m) : Linked(m, {}, k)
      /\ \A k \in Alive(m) : m[k].next_sibling \in Node => m[k].next_sibling \in Alive(m)
  BY SoundFacts DEF Linked
<1>2. /\ R \subseteq Node /\ ChainClosed(m, first, Null, R)
      /\ \A C \in SUBSET Node : ChainClosed(m, first, Null, C) => R \subseteq C
  BY <1>1, ChainFacts
<1>3. /\ S \subseteq Node /\ ChainClosed(m, first, last, S)
      /\ \A C \in SUBSET Node : ChainClosed(m, first, last, C) => S \subseteq C
  BY <1>1, ChainFacts
<1>4. R \subseteq Alive(m) /\ last \in R /\ last \in Alive(m)
  <2>1. ChainClosed(m, first, Null, Alive(m))
    BY <1>1 DEF ChainClosed
  <2> QED
    BY <2>1, <1>1, <1>2
<1> HIDE DEF R, S
<1>5. PICK B \in SUBSET Alive(m) :
        /\ last \in B
        /\ \A k \in B : m[k].prev_sibling \in Node => m[k].prev_sibling \in B
        /\ \A k \in B \ {last} : m[k].next_sibling \in B
  BY <1>4, SiblingsBefore
<1>6. first \in B
  <2> SUFFICES ASSUME first \notin B PROVE FALSE
    OBVIOUS
  <2>1. ASSUME NEW k \in Alive(m) \ B, m[k].next_sibling \in Node
        PROVE  m[k].next_sibling \in Alive(m) \ B
    <3>1. m[k].next_sibling \in Alive(m) /\ m[m[k].next_sibling].prev_sibling = k
      BY <2>1, <1>1 DEF Linked
    <3> QED
      BY <3>1, <1>1, <1>5
  <2>2. ChainClosed(m, first, Null, Alive(m) \ B)
    BY <2>1 DEF ChainClosed
  <2> QED
    BY <2>2, <1>1, <1>2, <1>4, <1>5
<1>7. S \subseteq B
  <2>1. ChainClosed(m, first, last, B)
    BY <1>5, <1>6 DEF ChainClosed
  <2> QED
    BY <2>1, <1>1, <1>3
<1>8. first \in S /\ last \in S
  <2>1. first \in S
    BY <1>3 DEF ChainClosed
  <2> SUFFICES ASSUME last \notin S PROVE FALSE
    BY <2>1
  <2>2. ChainClosed(m, first, Null, S)
    BY <1>3 DEF ChainClosed
  <2> QED
    BY <2>2, <1>2, <1>3, <1>4
<1>9. ASSUME NEW k \in S \ {last}
      PROVE  m[k].next_sibling \in S /\ m[m[k].next_sibling].prev_sibling = k
  <2>1. m[k].next_sibling \in Node /\ k \in Alive(m)
    BY <1>1, <1>5, <1>7
  <2>2. m[k].next_sibling \in S
    BY <2>1, <1>3 DEF ChainClosed
  <2> QED
    BY <2>1, <2>2, <1>1 DEF Linked
<1>10. ASSUME NEW k \in S \ {first}
       PROVE  m[k].prev_sibling \in S \ {last}
  <2> DEFINE E == {i \in S : i = first \/ m[i].prev_sibling \in S \ {last}}
  <2>1. ChainClosed(m, first, last, E)
    BY <1>8, <1>9 DEF ChainClosed
  <2>2. S \subseteq E
    BY <2>1, <1>3
  <2> QED
    BY <2>2
<1>11. ASSUME NEW k \in S \ {first}
       PROVE  m[m[k].prev_sibling].next_sibling = k
  <2>1. k \in Alive(m) /\ m[k].prev_sibling # Null
    BY <1>1, <1>3, <1>5, <1>7, <1>10
  <2> QED
    BY <2>1, <1>1 DEF Linked
<1>12. NoRing(m, {}) /\ S \in SUBSET InLists(m, {}) /\ S # {}
  BY <1>5, <1>7, <1>8, SoundFacts DEF Sound, Loose
<1>13. ASSUME NEW k \in S \ {last}
       PROVE  m[k].next_sibling # first
  <2> SUFFICES ASSUME m[k].next_sibling = first PROVE FALSE
    OBVIOUS
  <2>1. m[first].prev_sibling \in S
    BY <1>9
  <2>2. \A i \in S : m[i].prev_sibling \in S
    BY <2>1, <1>10
  <2> QED
    BY <2>2, <1>12 DEF NoRing
<1>14. \A T \in SUBSET S : T # {} => \E x \in T : x = first \/ m[x].prev_sibling \notin T
  BY <1>12 DEF NoRing
<1>15. S \subseteq Alive(m)
  BY <1>5, <1>7
<1>16. Segment(m, S, first, last)
  BY <1>8, <1>9, <1>10, <1>11, <1>13, <1>14, <1>15 DEF Segment
<1> QED
  BY <1>16 DEF S

(* The children of a node are the range from its first child to its last. *)
LEMMA ChildrenRange ==
  ASSUME NEW m, Sound(m), NEW n \in Alive(m), m[n].first_child # Null
  PROVE  m[n].last_child \in Chain(m, m[n].first_child, Null)
<1> DEFINE f == m[n].first_child
           l == m[n].last_child
<1>1. /\ f \in Alive(m) /\ l \in Alive(m) /\ m[l].parent = n /\ l \in Node /\ f \in Node
      /\ Null \notin Node /\ n # Null
  BY SoundFacts DEF Parental
<1>2. PICK B \in SUBSET Alive(m) :
        /\ l \in B
        /\ \A k \in B : m[k].prev_sibling \in Node => m[k].prev_sibling \in B
        /\ \A k \in B \ {l} : m[k].next_sibling \in B
  BY <1>1, SiblingsBefore
<1> HIDE DEF f, l
<1>3. \A k \in B : Linked(m, {}, k) /\ k \in Node
  BY SoundFacts
<1>4. NoRing(m, {}) /\ \A S \in SUBSET Alive(m) : S \in SUBSET InLists(m, {})
  BY SoundFacts DEF Sound, Loose
<1>5. ASSUME NEW k \in B, m[k].parent = n, m[k].prev_sibling \notin B
      PROVE  k = f
  <2>1. m[k].prev_sibling = Null \/ m[k].prev_sibling \in Heads
    BY <1>2, <1>3, <1>5, SoundFacts DEF Linked
  <2>2. m[k].prev_sibling = Null
    BY <2>1, <1>1, <1>3, <1>5, SoundFacts, DummyFacts DEF Linked
  <2> QED
    BY <2>2, <1>3, <1>5 DEF Linked, f
<1> DEFINE E == {k \in B : m[k].parent = n}
<1>6. ASSUME NEW k \in E, m[k].prev_sibling \in B
      PROVE  m[k].prev_sibling \in E /\ m[m[k].prev_sibling].next_sibling = k
  <2>1. m[k].prev_sibling # Null
    BY <1>3, <1>1, <1>6
  <2> QED
    BY <2>1, <1>3, <1>6 DEF Linked
<1>7. f \in E
  <2>1. PICK z \in E : m[z].prev_sibling \notin E
    <3>1. E \in SUBSET InLists(m, {}) /\ E # {}
      BY <1>1, <1>2, <1>4
    <3> HIDE DEF E
    <3> QED
      BY <3>1, <1>4 DEF NoRing
  <2>2. z \in B /\ m[z].parent = n /\ m[z].prev_sibling \notin B
    BY <2>1, <1>6
  <2> QED
    BY <2>1, <2>2, <1>5
<1> DEFINE R == Chain(m, f, Null)
<1>8. ChainClosed(m, f, Null, R)
  BY <1>1, ChainFacts
<1> HIDE DEF R
<1>9. E \subseteq R
  <2> SUFFICES ASSUME E \ R # {} PROVE FALSE
    OBVIOUS
  <2>1. PICK x \in E \ R : m[x].prev_sibling \notin E \ R
    <3>1. E \ R \in SUBSET InLists(m, {})
      BY <1>4
    <3> QED
      BY <3>1, <1>4 DEF NoRing
  <2>2. CASE m[x].prev_sibling \in B
    <3>1. m[x].prev_sibling \in R /\ m[m[x].prev_sibling].next_sibling = x
      BY <2>1, <2>2, <1>6
    <3>2. x \in Node /\ m[x].prev_sibling # Null
      BY <1>1, <1>3, <2>2
    <3> QED
      BY <3>1, <3>2, <2>1, <1>8 DEF ChainClosed
  <2>3. CASE m[x].prev_sibling \notin B
    <3>1. x = f
      BY <2>1, <2>3, <1>5
    <3> QED
      BY <3>1, <2>1, <1>8 DEF ChainClosed
  <2> QED
    BY <2>2, <2>3
<1>10. l \in E
  BY <1>1, <1>2
<1> QED
  BY <1>9, <1>10 DEF R, f, l

-----------------------------------------------------------------------------
(* The calls, one by one: insertion ... *)
LEMMA Insertions ==
  ASSUME NEW m, Sound(m), NEW n \in Node \ Alive(m), NEW x \in Data \cup {Blank}
  PROVE  /\ \A p \in Alive(m) :
              /\ Placed(m, n, p, m[p].last_child, Null, append_child(m, p, n, x))
              /\ Placed(m, n, p, Null, m[p].first_child, prepend_child(m, p, n, x))
              /\ Placed(m, n, m[p].parent, m[p].prev_sibling, p, insert(m, p, n, x))
              /\ Placed(m, n, m[p].parent, p, m[p].next_sibling, insert_after(m, p, n, x))
         /\ \A t \in Tree :
              Placed(m, n, m[feet(t)].parent, m[feet(t)].prev_sibling, feet(t),
                     insert(m, feet(t), n, x))
<1>1. Loose(m, {}) /\ Sound(m) /\ InLists(m, {}) = Alive(m)
  BY SoundFacts DEF Sound
<1>2. ASSUME NEW p \in Alive(m)
      PROVE  /\ Slot(m, {}, p, m[p].last_child, Null)
             /\ Slot(m, {}, p, Null, m[p].first_child)
             /\ Slot(m, {}, m[p].parent, m[p].prev_sibling, p)
             /\ Slot(m, {}, m[p].parent, p, m[p].next_sibling)
  BY <1>1, Slots
<1>3. ASSUME NEW t \in Tree
      PROVE  Slot(m, {}, m[feet(t)].parent, m[feet(t)].prev_sibling, feet(t))
  BY <1>1, Slots
<1>4. ASSUME NEW p, NEW b, NEW a, Slot(m, {}, p, b, a)
      PROVE  Placed(m, n, p, b, a, New(m, n, x, p, b, a))
  BY <1>1, <1>4, NewKeeps
<1>5. ASSUME NEW p \in Alive(m)
      PROVE  /\ Placed(m, n, p, m[p].last_child, Null, append_child(m, p, n, x))
             /\ Placed(m, n, p, Null, m[p].first_child, prepend_child(m, p, n, x))
             /\ Placed(m, n, m[p].parent, m[p].prev_sibling, p, insert(m, p, n, x))
             /\ Placed(m, n, m[p].parent, p, m[p].next_sibling, insert_after(m, p, n, x))
  BY <1>2, <1>4 DEF append_child, prepend_child, insert, insert_after
<1>6. ASSUME NEW t \in Tree
      PROVE  Placed(m, n, m[feet(t)].parent, m[feet(t)].prev_sibling, feet(t),
                    insert(m, feet(t), n, x))
  BY <1>3, <1>4 DEF insert
<1> QED
  BY <1>5, <1>6

(* What loses its children ... *)
Emptied(m, pos) ==
  [m EXCEPT ![pos].first_child = Null, ![pos].last_child = Null]

LEMMA EmptiedFields ==
  ASSUME NEW m \in Memory, NEW pos \in Ptr, NEW c, c = Emptied(m, pos)
  PROVE  /\ c \in Memory
         /\ \A x \in Ptr :
              /\ c[x].parent = m[x].parent /\ c[x].data = m[x].data
              /\ c[x].next_sibling = m[x].next_sibling
              /\ c[x].prev_sibling = m[x].prev_sibling
              /\ c[x].first_child = IF x = pos THEN Null ELSE m[x].first_child
              /\ c[x].last_child = IF x = pos THEN Null ELSE m[x].last_child
<1>1. m[pos] \in TreeNode /\ Null \in Link
  BY DEF Memory, Link
<1>2. c = [m EXCEPT ![pos] = [m[pos] EXCEPT !.first_child = Null, !.last_child = Null]]
  BY <1>1 DEF Memory, TreeNode, Emptied
<1>3. [m[pos] EXCEPT !.first_child = Null, !.last_child = Null] \in TreeNode
  BY <1>1 DEF TreeNode
<1>4. c \in Memory /\ \A x \in Ptr \ {pos} : c[x] = m[x]
  BY <1>2, <1>3 DEF Memory
<1>5. c[pos] = [m[pos] EXCEPT !.first_child = Null, !.last_child = Null]
  BY <1>1, <1>2 DEF Memory
<1>6. /\ c[pos].parent = m[pos].parent /\ c[pos].data = m[pos].data
      /\ c[pos].next_sibling = m[pos].next_sibling
      /\ c[pos].prev_sibling = m[pos].prev_sibling
      /\ c[pos].first_child = Null /\ c[pos].last_child = Null
  BY <1>1, <1>5 DEF TreeNode
<1>7. ASSUME NEW x \in Ptr
      PROVE  /\ c[x].parent = m[x].parent /\ c[x].data = m[x].data
             /\ c[x].next_sibling = m[x].next_sibling
             /\ c[x].prev_sibling = m[x].prev_sibling
             /\ c[x].first_child = IF x = pos THEN Null ELSE m[x].first_child
             /\ c[x].last_child = IF x = pos THEN Null ELSE m[x].last_child
  <2>1. CASE x = pos
    BY <2>1, <1>6
  <2>2. CASE x # pos
    BY <2>2, <1>4
  <2> QED
    BY <2>1, <2>2
<1> QED
  BY <1>4, <1>7

(* ... removal ... *)
Childless(m, pos, r) ==
  /\ Sound(r) /\ Alive(r) = Alive(m) \ Below(m, pos) /\ pos \in Alive(r)
  /\ \A x \in Ptr \ Below(m, pos) :
       /\ r[x].parent = m[x].parent /\ r[x].data = m[x].data
       /\ r[x].prev_sibling = m[x].prev_sibling /\ r[x].next_sibling = m[x].next_sibling
  /\ \A x \in Alive(r) : r[x].parent # pos
  /\ \A t \in Tree : \A T : TopLevel(m, {}, t, T) => TopLevel(r, {}, t, T)

LEMMA EraseChildrenSound ==
  ASSUME NEW m, Sound(m), NEW pos \in Alive(m), NEW r, r = erase_children(m, pos)
  PROVE  Childless(m, pos, r)
<1> DEFINE c == Emptied(m, pos)
           D == Below(m, pos)
           f == m[pos].first_child
           l == m[pos].last_child
<1>1. /\ m \in Memory /\ Alive(m) \subseteq Node /\ Node \subseteq Ptr /\ Null \notin Ptr
      /\ pos \in Ptr /\ pos # Null /\ Parental(m, {}, pos) /\ InLists(m, {}) = Alive(m)
      /\ Loose(m, {}) /\ Linked(m, {}, pos)
  BY SoundFacts DEF Sound
<1>2. /\ D \subseteq Alive(m) /\ pos \notin D
      /\ \A x \in D : m[x].parent \in D \cup {pos}
      /\ \A x \in Alive(m) : m[x].parent \in D \cup {pos} => x \in D
  BY BelowFacts
<1>3. /\ c \in Memory
      /\ \A x \in Ptr :
           /\ c[x].parent = m[x].parent /\ c[x].data = m[x].data
           /\ c[x].next_sibling = m[x].next_sibling
           /\ c[x].prev_sibling = m[x].prev_sibling
           /\ c[x].first_child = IF x = pos THEN Null ELSE m[x].first_child
           /\ c[x].last_child = IF x = pos THEN Null ELSE m[x].last_child
  BY <1>1, EmptiedFields
<1>4. r = Deallocate(c, D) /\ D \in SUBSET Node
  BY <1>1, <1>2 DEF erase_children, Emptied
<1> HIDE DEF c, D
<1>5. Alive(c) = Alive(m)
  BY <1>1, <1>3 DEF Alive
<1>6. PICK S \in SUBSET Alive(m) :
        /\ Loose(c, S) /\ \A x \in Alive(m) : m[x].parent = pos => x \in S
        /\ \A x \in S : m[x].parent = pos
        /\ \A t \in Tree : \A T : TopLevel(m, {}, t, T) => TopLevel(c, S, t, T)
  <2>1. CASE f = Null
    <3>1. l = Null
      BY <1>1, <2>1 DEF Parental
    <3>2. c = m
      <4>1. \A x \in Ptr : c[x] = m[x]
        <5>1. \A x \in Ptr : c[x] \in TreeNode /\ m[x] \in TreeNode
          BY <1>1, <1>3 DEF Memory
        <5> QED
          BY <1>3, <2>1, <3>1, <5>1 DEF TreeNode
      <4> QED
        BY <4>1, <1>1, <1>3 DEF Memory
    <3>3. \A x \in Alive(m) : m[x].parent # pos
      <4>1. {} \in SUBSET Node /\ {pos} \in SUBSET Node
        BY <1>1
      <4>2. \A k \in {pos} : m[k].first_child \notin Node
        BY <1>1, <2>1
      <4> QED
        BY <4>1, <4>2, ChildrenClosed
    <3> QED
      BY <3>2, <3>3, <1>1
  <2>2. CASE f # Null
    <3> DEFINE S == Chain(m, f, l)
    <3>1. /\ f \in Alive(m) /\ l \in Alive(m) /\ m[f].parent = pos
          /\ m[f].prev_sibling = Null /\ m[l].next_sibling = Null
      BY <1>1, <2>2 DEF Parental
    <3>2. Segment(m, S, f, l)
      BY <2>2, <3>1, ChildrenRange, RangeSegment
    <3> HIDE DEF S
    <3>3. S \subseteq Alive(m)
      BY <3>2 DEF Segment
    <3>4. Unlinked(m, c, m[f].parent, m[f].prev_sibling, m[l].next_sibling)
      BY <1>1, <1>3, <3>1 DEF Unlinked
    <3>5. Left(m, {}, S, f, l, m[f].parent, m[f].prev_sibling, m[l].next_sibling, c)
      BY <1>1, <3>2, <3>3, <3>4, LeaveKeeps
    <3>6. \A x \in S : m[x].parent = pos
      BY <3>1, <3>5 DEF Left
    <3>7. ASSUME NEW x \in Alive(m), m[x].parent = pos PROVE x \in S
      <4>1. S \in SUBSET Node /\ {pos} \in SUBSET Node
        BY <1>1, <3>3
      <4>2. \A k \in {pos} : m[k].first_child \in S
        BY <3>2 DEF Segment
      <4>3. \A k \in S : m[k].next_sibling \in Node => m[k].next_sibling \in S
        BY <3>1, <3>2, <1>1 DEF Segment
      <4> QED
        BY <4>1, <4>2, <4>3, <3>7, ChildrenClosed
    <3>8. Loose(c, S)
      BY <3>5 DEF Left
    <3>9. ASSUME NEW t \in Tree, NEW T, TopLevel(m, {}, t, T)
          PROVE  TopLevel(c, S, t, T)
      <4>1. TopLevel(c, {} \cup S, t, T \ S)
        BY <3>5, <3>9 DEF Left
      <4>2. T \ S = T
        BY <3>6, <3>9, <1>1 DEF TopLevel
      <4>3. {} \cup S = S
        OBVIOUS
      <4> QED
        BY <4>1, <4>2, <4>3
    <3> QED
      BY <3>3, <3>6, <3>7, <3>8, <3>9
  <2> QED
    BY <2>1, <2>2
<1>7. Released(c, S, D, r)
  <2>1. S \subseteq D
    BY <1>2, <1>6
  <2>2. \A x \in Alive(c) \ D : c[x].parent \notin D
    BY <1>1, <1>2, <1>3, <1>5
  <2>3. \A x \in InLists(c, S) : x \in D => c[x].parent \in D
    BY <1>1, <1>2, <1>3, <1>5, <1>6 DEF InLists
  <2> QED
    BY <2>1, <2>2, <2>3, <1>4, <1>6, DeallocateKeeps
<1>8. /\ Sound(r) /\ Alive(r) = Alive(m) \ D /\ \A x \in Ptr \ D : r[x] = c[x]
      /\ \A t \in Tree : \A T : TopLevel(m, {}, t, T) => TopLevel(r, {}, t, T)
  BY <1>5, <1>6, <1>7 DEF Released
<1>9. pos \in Alive(r) /\ \A x \in Alive(r) : r[x].parent # pos
  <2>1. \A x \in Alive(r) : r[x].parent = m[x].parent
    BY <1>1, <1>3, <1>8
  <2> QED
    BY <2>1, <1>2, <1>8
<1> QED
  BY <1>3, <1>8, <1>9 DEF Childless, D

LEMMA EraseSound ==
  ASSUME NEW m, Sound(m), NEW pos \in Alive(m), NEW r, r = erase(m, pos)
  PROVE  /\ Sound(r) /\ Alive(r) = Alive(m) \ Subtree(m, pos)
         /\ \A x \in Alive(r) : r[x].parent = m[x].parent
         /\ Slot(r, {}, m[pos].parent, m[pos].prev_sibling, m[pos].next_sibling)
<1> DEFINE u == Unlink(m, pos, pos)
           D == Subtree(m, pos)
           p == m[pos].parent
           b == m[pos].prev_sibling
           a == m[pos].next_sibling
<1>1. /\ Alive(m) \subseteq Node /\ Node \subseteq Ptr /\ Null \notin Ptr
      /\ Loose(m, {}) /\ InLists(m, {}) = Alive(m) /\ Linked(m, {}, pos)
  BY SoundFacts DEF Sound
<1>2. /\ D \subseteq Alive(m) /\ pos \in D
      /\ \A x \in D \ {pos} : m[x].parent \in D
      /\ \A x \in Alive(m) : m[x].parent \in D => x \in D
  BY BelowFacts DEF Subtree
<1>3. Left(m, {}, {pos}, pos, pos, p, b, a, u)
  <2>1. Segment(m, {pos}, pos, pos) /\ {pos} \subseteq InLists(m, {})
    BY <1>1, SingleSegment
  <2> QED
    BY <2>1, <1>1, UnlinkKeeps
<1>4. r = Deallocate(u, D)
  BY DEF erase
<1> HIDE DEF u, D
<1>5. /\ Loose(u, {pos}) /\ Slot(u, {pos}, p, b, a) /\ Alive(u) = Alive(m)
      /\ \A x \in Ptr : u[x].parent = m[x].parent
  BY <1>3 DEF Left, Unlinked
<1>6. Released(u, {pos}, D, r)
  <2>1. \A x \in Alive(u) \ D : u[x].parent \notin D
    BY <1>1, <1>2, <1>5
  <2>2. \A x \in InLists(u, {pos}) : x \in D => u[x].parent \in D
    BY <1>1, <1>2, <1>5 DEF InLists
  <2>3. {pos} \subseteq D /\ D \in SUBSET Node
    BY <1>1, <1>2
  <2> QED
    BY <2>1, <2>2, <2>3, <1>4, <1>5, DeallocateKeeps
<1>7. p \notin D
  <2> SUFFICES ASSUME p \in D PROVE FALSE
    OBVIOUS
  <2>1. \A x \in D : m[x].parent \in D
    BY <1>2
  <2> QED
    BY <2>1, <1>2 DEF Sound, Loose, NoCycle
<1>8. b \notin D /\ a \notin D
  <2>1. b # pos /\ a # pos
    BY <1>3 DEF Left
  <2>2. b \in Alive(m) => m[b].parent = p
    BY <1>1 DEF Linked
  <2>3. a \in Alive(m) => m[a].parent = p
    BY <1>1 DEF Linked
  <2> QED
    BY <2>1, <2>2, <2>3, <1>2, <1>7
<1>9. Slot(r, {}, p, b, a)
  BY <1>5, <1>6, <1>7, <1>8 DEF Released
<1>10. \A x \in Alive(r) : r[x].parent = m[x].parent
  BY <1>1, <1>5, <1>6 DEF Released
<1> QED
  BY <1>5, <1>6, <1>9, <1>10 DEF Released, D

(* The top level of one tree is a segment between its head and its feet. *)
LEMMA TopSegment ==
  ASSUME NEW m, Sound(m), NEW t \in Tree, NEW T, TopLevel(m, {}, t, T)
  PROVE  IF T = {} THEN m[head(t)].next_sibling = feet(t) /\ m[feet(t)].prev_sibling = head(t)
         ELSE Segment(m, T, m[head(t)].next_sibling, m[feet(t)].prev_sibling)
<1> DEFINE first == m[head(t)].next_sibling
           last == m[feet(t)].prev_sibling
<1>1. /\ T \subseteq Alive(m) /\ T \subseteq Node /\ head(t) \notin T /\ feet(t) \notin T
      /\ head(t) # feet(t) /\ NoRing(m, {}) /\ T \in SUBSET InLists(m, {})
  <2>1. T \subseteq Alive(m) /\ T \subseteq Node /\ T \in SUBSET InLists(m, {})
    BY SoundFacts DEF TopLevel
  <2>2. head(t) \notin T /\ feet(t) \notin T
    BY <2>1, PtrFacts
  <2>3. head(t) # feet(t)
    BY DEF head, feet
  <2>4. NoRing(m, {})
    BY DEF Sound, Loose
  <2> QED
    BY <2>1, <2>2, <2>3, <2>4
<1>2. /\ first \in T \cup {feet(t)} /\ m[first].prev_sibling = head(t)
      /\ last \in T \cup {head(t)} /\ m[last].next_sibling = feet(t)
      /\ \A k \in T : /\ m[k].next_sibling \in T \cup {feet(t)}
                      /\ m[k].prev_sibling \in T \cup {head(t)}
                      /\ m[m[k].next_sibling].prev_sibling = k
                      /\ m[m[k].prev_sibling].next_sibling = k
  BY DEF TopLevel
<1>3. CASE T = {}
  BY <1>2, <1>3
<1>4. CASE T # {}
  <2>1. PICK x \in T : m[x].prev_sibling \notin T
    BY <1>1, <1>4 DEF NoRing
  <2>2. first \in T
    BY <1>2, <2>1
  <2>3. last \in T
    BY <1>1, <1>2, <2>2
  <2>4. ASSUME NEW k \in T \ {first}
        PROVE  /\ m[k].prev_sibling \in T \ {last}
               /\ m[m[k].prev_sibling].next_sibling = k
    BY <1>1, <1>2
  <2>5. ASSUME NEW k \in T \ {last}
        PROVE  /\ m[k].next_sibling \in T \ {first}
               /\ m[m[k].next_sibling].prev_sibling = k
    BY <1>1, <1>2
  <2>6. \A R \in SUBSET T : R # {} => \E y \in R : y = first \/ m[y].prev_sibling \notin R
    BY <1>1 DEF NoRing
  <2>7. Segment(m, T, first, last)
    BY <1>1, <2>2, <2>3, <2>4, <2>5, <2>6 DEF Segment
  <2> QED
    BY <2>7, <1>4
<1> QED
  BY <1>3, <1>4

LEMMA ClearSound ==
  ASSUME NEW m, Sound(m), NEW t \in Tree, NEW r, r = clear(m, t)
  PROVE  /\ Sound(r)
         /\ \A u \in Tree \ {t} :
              /\ r[head(u)].next_sibling = m[head(u)].next_sibling
              /\ \A U : TopLevel(m, {}, u, U) => TopLevel(r, {}, u, U)
<1> DEFINE c == [m EXCEPT ![head(t)].next_sibling = feet(t),
                          ![feet(t)].prev_sibling = head(t)]
           D == InTree(m, t)
           first == m[head(t)].next_sibling
           last == m[feet(t)].prev_sibling
<1>1. /\ m \in Memory /\ Alive(m) \subseteq Node /\ Node \subseteq Ptr /\ Null \notin Ptr
      /\ InLists(m, {}) = Alive(m) /\ Loose(m, {}) /\ NoRing(m, {})
      /\ head(t) \in Ptr /\ feet(t) \in Ptr /\ head(t) # feet(t)
      /\ head(t) \notin Node /\ feet(t) \notin Node
  BY SoundFacts, PtrFacts DEF Sound, Loose, head, feet
<1>2. PICK T : TopLevel(m, {}, t, T)
  BY SoundFacts
<1>3. /\ T \subseteq Alive(m)
      /\ first \in T \cup {feet(t)} /\ m[first].prev_sibling = head(t)
      /\ last \in T \cup {head(t)} /\ m[last].next_sibling = feet(t)
      /\ \A k \in T : /\ m[k].next_sibling \in T \cup {feet(t)}
                      /\ m[k].prev_sibling \in T \cup {head(t)}
                      /\ m[m[k].next_sibling].prev_sibling = k
                      /\ m[m[k].prev_sibling].next_sibling = k
                      /\ m[k].parent = Null
      /\ m[head(t)].parent = Null
  BY <1>1, <1>2 DEF TopLevel
<1>4. /\ D \subseteq Node /\ WalkClosed(m, first, D)
      /\ \A C \in SUBSET Node : WalkClosed(m, first, C) => D \subseteq C
  BY ReachFacts DEF InTree
<1>5. /\ c \in Memory
      /\ \A x \in Ptr :
           /\ c[x].parent = m[x].parent /\ c[x].data = m[x].data
           /\ c[x].next_sibling = IF x = head(t) THEN feet(t) ELSE m[x].next_sibling
           /\ c[x].prev_sibling = IF x = feet(t) THEN head(t) ELSE m[x].prev_sibling
           /\ c[x].first_child = m[x].first_child
           /\ c[x].last_child = m[x].last_child
  <2>1. /\ m[head(t)] \in TreeNode /\ m[feet(t)] \in TreeNode
        /\ head(t) \in Link /\ feet(t) \in Link
    BY <1>1 DEF Memory, Link
  <2> DEFINE h == [m[head(t)] EXCEPT !.next_sibling = feet(t)]
             e == [m[feet(t)] EXCEPT !.prev_sibling = head(t)]
  <2>2. /\ h \in TreeNode /\ h.next_sibling = feet(t) /\ h.parent = m[head(t)].parent
        /\ h.data = m[head(t)].data /\ h.prev_sibling = m[head(t)].prev_sibling
        /\ h.first_child = m[head(t)].first_child /\ h.last_child = m[head(t)].last_child
    BY <2>1 DEF TreeNode
  <2>3. /\ e \in TreeNode /\ e.prev_sibling = head(t) /\ e.parent = m[feet(t)].parent
        /\ e.data = m[feet(t)].data /\ e.next_sibling = m[feet(t)].next_sibling
        /\ e.first_child = m[feet(t)].first_child /\ e.last_child = m[feet(t)].last_child
    BY <2>1 DEF TreeNode
  <2>4. c = [m EXCEPT ![head(t)] = h, ![feet(t)] = e]
    BY <1>1 DEF Memory
  <2> HIDE DEF c, h, e
  <2>5. c \in Memory /\ c[head(t)] = h /\ c[feet(t)] = e
        /\ \A x \in Ptr \ {head(t), feet(t)} : c[x] = m[x]
    BY <1>1, <2>2, <2>3, <2>4 DEF Memory
  <2>6. ASSUME NEW x \in Ptr
        PROVE  /\ c[x].parent = m[x].parent /\ c[x].data = m[x].data
               /\ c[x].next_sibling = IF x = head(t) THEN feet(t) ELSE m[x].next_sibling
               /\ c[x].prev_sibling = IF x = feet(t) THEN head(t) ELSE m[x].prev_sibling
               /\ c[x].first_child = m[x].first_child
               /\ c[x].last_child = m[x].last_child
    <3>1. CASE x = head(t)
      BY <3>1, <2>2, <2>5, <1>1
    <3>2. CASE x = feet(t)
      BY <3>2, <2>3, <2>5, <1>1
    <3>3. CASE x # head(t) /\ x # feet(t)
      BY <3>3, <2>5
    <3> QED
      BY <3>1, <3>2, <3>3
  <2> QED
    BY <2>5, <2>6
<1>6. r = Deallocate(c, D)
  BY DEF clear
<1>7. T \subseteq D
  <2> SUFFICES ASSUME T \ D # {} PROVE FALSE
    OBVIOUS
  <2>1. PICK x \in T \ D : m[x].prev_sibling \notin T \ D
    <3>1. T \ D \in SUBSET InLists(m, {})
      BY <1>1, <1>3
    <3> HIDE DEF D
    <3> QED
      BY <3>1, <1>1 DEF NoRing
  <2>2. x \in Node
    BY <1>1, <1>3
  <2>3. CASE m[x].prev_sibling = head(t)
    <3>1. x = first
      BY <1>3, <2>1, <2>3
    <3> QED
      BY <3>1, <2>1, <2>2, <1>4 DEF WalkClosed
  <2>4. CASE m[x].prev_sibling \in D
    <3>1. m[m[x].prev_sibling].next_sibling = x
      BY <1>3, <2>1
    <3> QED
      BY <3>1, <2>1, <2>2, <2>4, <1>4 DEF WalkClosed
  <2> QED
    BY <2>1, <2>3, <2>4, <1>3
<1> HIDE DEF c, D
<1>8. ASSUME NEW x \in D
      PROVE  x \in Alive(m) /\ (x \in T \/ m[x].parent \in D)
  <2> DEFINE C == {y \in D \cap Alive(m) : y \in T \/ m[y].parent \in D}
  <2>1. first \in Node => first \in C
    BY <1>1, <1>3, <1>7
  <2>2. ASSUME NEW k \in C
        PROVE  /\ m[k].first_child \in Node => m[k].first_child \in C
               /\ m[k].next_sibling \in Node => m[k].next_sibling \in C
    <3>1. k \in D /\ k \in Alive(m) /\ Linked(m, {}, k) /\ Parental(m, {}, k)
      BY SoundFacts
    <3>2. ASSUME m[k].first_child \in Node PROVE m[k].first_child \in C
      <4>1. m[k].first_child \in D
        BY <3>1, <3>2, <1>4 DEF WalkClosed
      <4>2. m[k].first_child \in Alive(m) /\ m[m[k].first_child].parent = k
        BY <3>1, <3>2, <1>1 DEF Parental
      <4> QED
        BY <4>1, <4>2, <3>1
    <3>3. ASSUME m[k].next_sibling \in Node PROVE m[k].next_sibling \in C
      <4>1. m[k].next_sibling \in D
        BY <3>1, <3>3, <1>4 DEF WalkClosed
      <4>2. m[k].next_sibling \in Alive(m) /\ m[m[k].next_sibling].parent = m[k].parent
        BY <3>1, <3>3, SoundFacts DEF Linked
      <4>3. k \in T => m[k].next_sibling \in T
        BY <3>3, <1>1, <1>3
      <4> QED
        BY <4>1, <4>2, <4>3
    <3> QED
      BY <3>2, <3>3
  <2>3. WalkClosed(m, first, C) /\ C \in SUBSET Node
    BY <2>1, <2>2, <1>1 DEF WalkClosed
  <2>4. D \subseteq C
    BY <2>3, <1>4
  <2> QED
    BY <2>4
<1>9. ASSUME NEW x \in Alive(m), m[x].parent \in D PROVE x \in D
  <2>1. \A k \in D : /\ m[k].first_child \in Node => m[k].first_child \in D
                     /\ m[k].next_sibling \in Node => m[k].next_sibling \in D
    BY <1>4 DEF WalkClosed
  <2> QED
    BY <2>1, <1>4, <1>9, ChildrenClosed
<1>10. /\ Loose(c, T) /\ Alive(c) = Alive(m)
       /\ \A u \in Tree \ {t} : \A U : TopLevel(m, {}, u, U) => TopLevel(c, T, u, U)
  <2>1. Alive(c) = Alive(m)
    BY <1>1, <1>5 DEF Alive
  <2>2. CASE T = {}
    <3>1. first = feet(t) /\ last = head(t)
      BY <1>2, <2>2, TopSegment
    <3>2. c = m
      <4>1. \A x \in Ptr : c[x] \in TreeNode /\ m[x] \in TreeNode
        BY <1>1, <1>5 DEF Memory
      <4>2. \A x \in Ptr : c[x] = m[x]
        BY <1>5, <3>1, <4>1 DEF TreeNode
      <4> QED
        BY <4>2, <1>1, <1>5 DEF Memory
    <3> QED
      BY <2>1, <2>2, <3>2, <1>1
  <2>3. CASE T # {}
    <3>1. Segment(m, T, first, last)
      BY <1>2, <2>3, TopSegment
    <3>2. first \in T /\ last \in T /\ m[first].parent = Null
      BY <3>1, <1>3 DEF Segment
    <3>3. Unlinked(m, c, m[first].parent, m[first].prev_sibling, m[last].next_sibling)
      BY <3>2, <1>1, <1>3, <1>5 DEF Unlinked
    <3> HIDE DEF first, last
    <3>8. T \subseteq InLists(m, {}) /\ Loose(m, {})
      BY <1>1, <1>3
    <3>4. Left(m, {}, T, first, last, m[first].parent, m[first].prev_sibling,
               m[last].next_sibling, c)
      BY <3>1, <3>3, <3>8, LeaveKeeps
    <3>5. {} \cup T = T
      OBVIOUS
    <3>6. ASSUME NEW u \in Tree \ {t}, NEW U, TopLevel(m, {}, u, U)
          PROVE  TopLevel(c, T, u, U)
      <4>1. TopLevel(c, {} \cup T, u, U \ T)
        BY <3>4, <3>6 DEF Left
      <4>2. ~ (T \subseteq U)
        <5>1. feet(t) # feet(u) /\ U \subseteq Node
          BY <3>6, <1>1 DEF feet, TopLevel
        <5>2. last \in U => m[last].next_sibling \in U \cup {feet(u)}
          BY <3>6 DEF TopLevel
        <5> QED
          BY <5>1, <5>2, <3>2, <1>1, <1>3
      <4>3. T \cap U = {}
        BY <4>2, <3>1, <3>6, SegmentInTop
      <4>4. U \ T = U
        BY <4>3
      <4> QED
        BY <4>1, <4>4, <3>5
    <3>7. Loose(c, T)
      BY <3>4, <3>5 DEF Left
    <3> QED
      BY <2>1, <3>6, <3>7
  <2> QED
    BY <2>2, <2>3
<1>11. Released(c, T, D, r)
  <2>1. \A x \in Alive(c) \ D : c[x].parent \notin D
    BY <1>1, <1>5, <1>9, <1>10
  <2>2. \A x \in InLists(c, T) : x \in D => c[x].parent \in D
    BY <1>1, <1>5, <1>8, <1>10 DEF InLists
  <2> QED
    BY <2>1, <2>2, <1>4, <1>6, <1>7, <1>10, DeallocateKeeps
<1>12. \A u \in Tree \ {t} : r[head(u)].next_sibling = m[head(u)].next_sibling
  <2>1. \A u \in Tree \ {t} : head(u) \in Ptr /\ head(u) \notin D /\ head(u) # head(t)
    BY <1>4, PtrFacts DEF head
  <2> QED
    BY <2>1, <1>5, <1>11 DEF Released
<1> QED
  BY <1>10, <1>11, <1>12 DEF Released

LEMMA OutsideParent ==
  ASSUME NEW m, NEW S, NEW x, x # Null, Outside(m, S, x)
  PROVE  Outside(m, S, m[x].parent) /\ x \in Alive(m) \ S
  BY DEF Outside

(* A segment is not an ancestor of the other nodes of its list, ... *)
LEMMA SiblingOutside ==
  ASSUME NEW m, Sound(m), NEW S, NEW first, NEW last, Segment(m, S, first, last),
         NEW x \in Alive(m) \ S, m[x].parent = m[first].parent
  PROVE  Outside(m, S, x)
<1>1. S \in SUBSET Alive(m) /\ S # {} /\ S \subseteq InLists(m, {}) /\ Loose(m, {})
  BY SoundFacts DEF Segment, Sound
<1>2. \A k \in S : m[k].parent = m[first].parent
  BY <1>1, SegmentBounds
<1>3. m[first].parent \in (Alive(m) \ Desc(m, S)) \cup {Null}
  BY <1>1, <1>2, ParentOutside
<1>4. x \notin Desc(m, S)
  BY <1>1, <1>3, SoundFacts, DescFacts
<1> QED
  BY <1>1, <1>4, OutsideDesc

(* ... and what does not lie below a node does not lie below its children. *)
LEMMA ChildrenOutside ==
  ASSUME NEW m, Sound(m), NEW n \in Alive(m), NEW S \in SUBSET Alive(m),
         \A k \in S : m[k].parent = n, NEW x, Outside(m, {n}, x)
  PROVE  Outside(m, S, x)
<1>1. n # Null
  BY SoundFacts
<1>2. PICK A \in SUBSET (Alive(m) \ {n}) :
        x \in A \cup {Null} /\ \A k \in A : m[k].parent \in A \cup {Null}
  BY DEF Outside
<1>3. A \in SUBSET (Alive(m) \ S)
  BY <1>1, <1>2
<1> QED
  BY <1>2, <1>3 DEF Outside

LEMMA SubtreeOutside ==
  ASSUME NEW m, Sound(m), NEW n \in Alive(m), NEW x \in Alive(m) \ Subtree(m, n)
  PROVE  Outside(m, {n}, x)
<1>1. Desc(m, {n}) = Subtree(m, n)
  BY DEF Desc
<1> QED
  BY <1>1, OutsideDesc

-----------------------------------------------------------------------------
(* ... and rearrangement: siblings leave their place and enter another one  *)
(* that does not lie below them. *)
LEMMA Relinked ==
  ASSUME NEW m, Sound(m), NEW S, NEW first, NEW last, Segment(m, S, first, last),
         NEW u, Left(m, {}, S, first, last, m[first].parent,
                     m[first].prev_sibling, m[last].next_sibling, u),
         NEW p, NEW b, NEW a, Slot(u, S, p, b, a),
         Outside(m, S, p),
         NEW r, r = LinkIn(u, first, last, p, b, a)
  PROVE  Entered(u, S, S, first, last, p, b, a, r) /\ Sound(r)
<1>1. S \in SUBSET Alive(m) /\ Alive(m) \subseteq Ptr
  BY SoundFacts DEF Segment
<1>2. /\ Loose(u, S) /\ Segment(u, S, first, last) /\ Alive(u) = Alive(m)
      /\ \A x \in Ptr : u[x].parent = m[x].parent
  <2>1. {} \cup S = S
    OBVIOUS
  <2> QED
    BY <2>1 DEF Left, Unlinked
<1>4. Outside(u, S, p)
  BY <1>1, <1>2, OutsideSame
<1>5. Entered(u, S, S, first, last, p, b, a, r)
  BY <1>2, <1>4, LinkInKeeps
<1>6. S \ S = {}
  OBVIOUS
<1> QED
  BY <1>5, <1>6 DEF Entered, Sound

LEMMA UnlinkSound ==
  ASSUME NEW m, Sound(m), NEW S, NEW first, NEW last, Segment(m, S, first, last)
  PROVE  Left(m, {}, S, first, last, m[first].parent, m[first].prev_sibling,
              m[last].next_sibling, Unlink(m, first, last))
<1>1. S \subseteq InLists(m, {}) /\ Loose(m, {})
  BY SoundFacts DEF Segment, Sound
<1> QED
  BY <1>1, UnlinkKeeps

LEMMA LeftFacts ==
  ASSUME NEW m, NEW S, NEW first, NEW last, NEW p, NEW b, NEW a, NEW u,
         Left(m, {}, S, first, last, p, b, a, u)
  PROVE  /\ Loose(u, S) /\ Alive(u) = Alive(m) /\ InLists(u, S) = Alive(m) \ S
         /\ Slot(u, S, p, b, a) /\ b \notin S /\ a \notin S
         /\ \A k \in S : m[k].parent = p
         /\ \A x \in Ptr : u[x].parent = m[x].parent
         /\ \A t \in Tree : \A T : TopLevel(m, {}, t, T) => TopLevel(u, S, t, T \ S)
<1>1. {} \cup S = S
  OBVIOUS
<1> QED
  BY <1>1 DEF Left, Unlinked, InLists

LEMMA ReparentSound ==
  ASSUME NEW m, Sound(m), NEW S, NEW first, NEW last, Segment(m, S, first, last),
         NEW pos \in Alive(m), Outside(m, S, pos)
  PROVE  Sound(reparent(m, pos, first, last))
<1> DEFINE u == Unlink(m, first, last)
<1>1. Left(m, {}, S, first, last, m[first].parent, m[first].prev_sibling,
           m[last].next_sibling, u)
  BY UnlinkSound
<1>2. reparent(m, pos, first, last) = LinkIn(u, first, last, pos, u[pos].last_child, Null)
  BY DEF reparent
<1> HIDE DEF u
<1>3. Slot(u, S, pos, u[pos].last_child, Null)
  BY <1>1, LeftFacts, Slots
<1> QED
  BY <1>1, <1>2, <1>3, Relinked

LEMMA FlattenSound ==
  ASSUME NEW m, Sound(m), NEW pos \in Alive(m), m[pos].first_child # Null
  PROVE  Sound(flatten(m, pos))
<1> DEFINE c == Emptied(m, pos)
           f == m[pos].first_child
           l == m[pos].last_child
           S == Chain(m, f, l)
<1>1. /\ m \in Memory /\ Alive(m) \subseteq Node /\ Node \subseteq Ptr /\ Null \notin Ptr
      /\ pos \in Ptr /\ pos # Null /\ Parental(m, {}, pos) /\ InLists(m, {}) = Alive(m)
      /\ Loose(m, {}) /\ Linked(m, {}, pos)
  BY SoundFacts DEF Sound
<1>2. /\ f \in Alive(m) /\ l \in Alive(m) /\ m[f].parent = pos
      /\ m[f].prev_sibling = Null /\ m[l].next_sibling = Null
  BY <1>1 DEF Parental
<1>3. Segment(m, S, f, l)
  BY <1>2, ChildrenRange, RangeSegment
<1>4. flatten(m, pos) = LinkIn(c, f, l, m[pos].parent, pos, m[pos].next_sibling)
  BY DEF flatten, Emptied
<1>5. Unlinked(m, c, pos, Null, Null)
  BY <1>1, EmptiedFields DEF Unlinked
<1> HIDE DEF S, c
<1>6. Left(m, {}, S, f, l, m[f].parent, m[f].prev_sibling, m[l].next_sibling, c)
  <2>1. S \subseteq InLists(m, {})
    BY <1>1, <1>3 DEF Segment
  <2> QED
    BY <2>1, <1>1, <1>2, <1>3, <1>5, LeaveKeeps
<1>7. /\ Loose(c, S) /\ InLists(c, S) = Alive(m) \ S
      /\ \A k \in S : m[k].parent = pos
  BY <1>2, <1>6, LeftFacts
<1>8. S \in SUBSET Alive(m) /\ S # {}
  BY <1>3 DEF Segment
<1>9. pos \in (Alive(m) \ Desc(m, S)) \cup {Null}
  BY <1>7, <1>8, ParentOutside
<1>10. Outside(m, S, m[pos].parent)
  BY <1>8, <1>9, <1>1, OutsideDesc, OutsideParent
<1>11. Slot(c, S, m[pos].parent, pos, m[pos].next_sibling)
  <2>1. pos \in InLists(c, S)
    BY <1>1, <1>7, <1>8, <1>9, DescFacts
  <2>2. c[pos].parent = m[pos].parent /\ c[pos].next_sibling = m[pos].next_sibling
    BY <1>1, <1>5 DEF Unlinked
  <2> QED
    BY <2>1, <2>2, <1>7, Slots
<1> QED
  BY <1>3, <1>4, <1>6, <1>10, <1>11, Relinked

(* One node that moves. *)
LEMMA MoveSound ==
  ASSUME NEW m, Sound(m), NEW n \in Alive(m), NEW p, NEW b, NEW a,
         Slot(Unlink(m, n, n), {n}, p, b, a), Outside(m, {n}, p)
  PROVE  Sound(Move(m, n, p, b, a))
<1>1. Segment(m, {n}, n, n)
  BY SingleSegment
<1>2. Left(m, {}, {n}, n, n, m[n].parent, m[n].prev_sibling, m[n].next_sibling,
           Unlink(m, n, n))
  BY <1>1, UnlinkSound
<1> QED
  BY <1>1, <1>2, Relinked DEF Move

LEMMA MoveNextTo ==
  ASSUME NEW m, Sound(m), NEW n \in Alive(m), NEW dst \in Alive(m),
         Outside(m, {n}, dst), NEW u, u = Unlink(m, n, n)
  PROVE  /\ Sound(Move(m, n, m[dst].parent, dst, u[dst].next_sibling))
         /\ Sound(Move(m, n, m[dst].parent, u[dst].prev_sibling, dst))
<1>1. Segment(m, {n}, n, n) /\ dst \in Ptr /\ dst # Null
  BY SingleSegment, SoundFacts
<1>2. Left(m, {}, {n}, n, n, m[n].parent, m[n].prev_sibling, m[n].next_sibling, u)
  BY <1>1, UnlinkSound
<1>3. /\ Loose(u, {n}) /\ InLists(u, {n}) = Alive(m) \ {n}
      /\ \A x \in Ptr : u[x].parent = m[x].parent
  BY <1>2, LeftFacts
<1>4. Outside(m, {n}, m[dst].parent) /\ dst \in InLists(u, {n})
  BY <1>1, <1>3, OutsideParent
<1>5. /\ Slot(u, {n}, m[dst].parent, dst, u[dst].next_sibling)
      /\ Slot(u, {n}, m[dst].parent, u[dst].prev_sibling, dst)
  BY <1>1, <1>3, <1>4, Slots
<1> QED
  BY <1>4, <1>5, MoveSound

LEMMA SwapNextSound ==
  ASSUME NEW m, Sound(m), NEW n \in Alive(m), m[n].next_sibling \in Node
  PROVE  Sound(swap_with_next(m, n))
<1> DEFINE nxt == m[n].next_sibling
           u == Unlink(m, n, n)
<1>1. /\ Segment(m, {n}, n, n) /\ Linked(m, {}, n) /\ NoRing(m, {})
      /\ InLists(m, {}) = Alive(m) /\ Alive(m) \subseteq Ptr
  BY SingleSegment, SoundFacts DEF Sound, Loose
<1>2. nxt \in Alive(m) /\ m[nxt].prev_sibling = n /\ m[nxt].parent = m[n].parent
  BY <1>1, SoundFacts DEF Linked
<1>3. Left(m, {}, {n}, n, n, m[n].parent, m[n].prev_sibling, nxt, u)
  BY <1>1, UnlinkSound
<1>4. nxt # n
  BY <1>3 DEF Left
<1>5. m[n].prev_sibling # nxt
  <2> SUFFICES ASSUME m[n].prev_sibling = nxt PROVE FALSE
    OBVIOUS
  <2>1. {n, nxt} \in SUBSET InLists(m, {}) /\ {n, nxt} # {}
    BY <1>1, <1>2
  <2>2. \A x \in {n, nxt} : m[x].prev_sibling \in {n, nxt}
    BY <1>2
  <2> QED
    BY <2>1, <2>2, <1>1 DEF NoRing
<1>6. u[nxt].next_sibling = m[nxt].next_sibling
  BY <1>1, <1>2, <1>3, <1>5 DEF Left, Unlinked
<1>7. Outside(m, {n}, nxt)
  BY <1>1, <1>2, <1>4, SiblingOutside
<1>8. swap_with_next(m, n) = Move(m, n, m[nxt].parent, nxt, u[nxt].next_sibling)
  BY <1>2, <1>6 DEF swap_with_next
<1> HIDE DEF nxt
<1> QED
  BY <1>2, <1>7, <1>8, MoveNextTo

LEMMA WrapSound ==
  ASSUME NEW m, Sound(m), NEW S, NEW first, NEW last, Segment(m, S, first, last),
         NEW n \in Node \ Alive(m), NEW x \in Data \cup {Blank}
  PROVE  Sound(wrap(m, first, last, n, x))
<1> DEFINE r == insert(m, first, n, x)
<1>1. /\ first \in Alive(m) /\ S \subseteq Alive(m) /\ first \in S /\ n \notin S
      /\ Alive(m) \subseteq Ptr /\ S \subseteq InLists(m, {}) /\ Loose(m, {})
  BY SoundFacts DEF Segment, Sound
<1>2. Placed(m, n, m[first].parent, m[first].prev_sibling, first, r)
  BY <1>1, Insertions
<1>3. wrap(m, first, last, n, x) = reparent(r, n, first, last)
  BY DEF wrap
<1> HIDE DEF r
<1>4. /\ \A k \in S : m[k].parent = m[first].parent
      /\ m[first].prev_sibling \notin S
  BY <1>1, SegmentBounds
<1>5. /\ Sound(r) /\ Alive(r) = Alive(m) \cup {n} /\ r[n].parent = m[first].parent
      /\ r[first].parent = m[first].parent
      /\ \A k \in S \ {first} : r[k].prev_sibling = m[k].prev_sibling
      /\ \A k \in S \ {last} : r[k].next_sibling = m[k].next_sibling
  BY <1>1, <1>2, <1>4 DEF Placed
<1>6. Segment(r, S, first, last)
  BY <1>1, <1>5, SegmentElsewhere
<1>7. Outside(r, S, n)
  BY <1>1, <1>5, <1>6, SiblingOutside
<1> QED
  BY <1>3, <1>5, <1>6, <1>7, ReparentSound

LEMMA MovesSound ==
  ASSUME NEW m, Sound(m), NEW n \in Alive(m), NEW dst \in Alive(m),
         Outside(m, {n}, dst)
  PROVE  Sound(move_after(m, dst, n)) /\ Sound(move_before(m, dst, n))
<1>1. /\ Sound(Move(m, n, m[dst].parent, dst, Unlink(m, n, n)[dst].next_sibling))
      /\ Sound(Move(m, n, m[dst].parent, Unlink(m, n, n)[dst].prev_sibling, dst))
  BY MoveNextTo
<1> QED
  BY <1>1 DEF move_after, move_before

(* A slot stays one when a node leaves that is not at its side. *)
LEMMA SlotStays ==
  ASSUME NEW m, NEW M, NEW n \in InLists(m, M), Loose(m, M), NEW u,
         Left(m, M, {n}, n, n, m[n].parent, m[n].prev_sibling, m[n].next_sibling, u),
         NEW p, NEW b, NEW a, Slot(m, M, p, b, a), b # n, a # n
  PROVE  Slot(u, M \cup {n}, p, b, a)
<1> DEFINE P == m[n].parent
           B == m[n].prev_sibling
           A == m[n].next_sibling
<1>1. /\ Alive(m) \subseteq Ptr /\ Heads \subseteq Ptr /\ Feets \subseteq Ptr
      /\ Null \notin Ptr /\ Linked(m, M, n)
      /\ InLists(m, M) \subseteq Ptr
  BY AliveFacts, PtrFacts, DummyFacts DEF Loose, InLists
<1>2. /\ Alive(u) = Alive(m) /\ InLists(u, M \cup {n}) = InLists(m, M) \ {n}
      /\ \A x \in Ptr :
           /\ u[x].parent = m[x].parent
           /\ u[x].first_child = IF x = P /\ B = Null THEN A ELSE m[x].first_child
           /\ u[x].last_child = IF x = P /\ A = Null THEN B ELSE m[x].last_child
           /\ u[x].next_sibling = IF x = B THEN A ELSE m[x].next_sibling
           /\ u[x].prev_sibling = IF x = A THEN B ELSE m[x].prev_sibling
  BY DEF Left, Unlinked, InLists
<1>3. /\ B = Null => P # Null /\ m[P].first_child = n
      /\ B # Null => m[B].next_sibling = n /\ m[B].parent = P
      /\ A = Null => P # Null /\ m[P].last_child = n
      /\ A # Null => m[A].prev_sibling = n /\ m[A].parent = P
  BY <1>1 DEF Linked
<1> HIDE DEF P, B, A
<1>4. /\ p \in Alive(m) \cup {Null}
      /\ b \in InLists(m, M) \cup {Null} \cup Heads
      /\ a \in InLists(m, M) \cup {Null} \cup Feets
      /\ b = Null => p # Null /\ m[p].first_child = a
      /\ b # Null => m[b].next_sibling = a /\ m[b].parent = p
      /\ a = Null => p # Null /\ m[p].last_child = b
      /\ a # Null => m[a].prev_sibling = b /\ m[a].parent = p
  BY DEF Slot
<1>5. /\ p # Null => p \in Ptr
      /\ b # Null => b \in Ptr
      /\ a # Null => a \in Ptr
  BY <1>1, <1>4
<1>6. b = Null => p # Null /\ u[p].first_child = a
  BY <1>2, <1>3, <1>4, <1>5
<1>7. b # Null => u[b].next_sibling = a /\ u[b].parent = p
  BY <1>2, <1>3, <1>4, <1>5
<1>8. a = Null => p # Null /\ u[p].last_child = b
  BY <1>2, <1>3, <1>4, <1>5
<1>9. a # Null => u[a].prev_sibling = b /\ u[a].parent = p
  BY <1>2, <1>3, <1>4, <1>5
<1> QED
  BY <1>2, <1>4, <1>6, <1>7, <1>8, <1>9 DEF Slot

LEMMA MoveOntopSound ==
  ASSUME NEW m, Sound(m), NEW dst \in Alive(m), NEW n \in Alive(m) \ Subtree(m, dst),
         Outside(m, {n}, dst), m[dst].next_sibling # n, m[n].next_sibling # dst
  PROVE  Sound(move_ontop(m, dst, n))
<1> DEFINE e == erase(m, dst)
           u == Unlink(e, n, n)
           p == m[dst].parent
           b == m[dst].prev_sibling
           a == m[dst].next_sibling
<1>1. /\ Sound(e) /\ Alive(e) = Alive(m) \ Subtree(m, dst)
      /\ \A x \in Alive(e) : e[x].parent = m[x].parent
      /\ Slot(e, {}, p, b, a)
  BY EraseSound
<1>2. a # n /\ b # n
  <2>1. Linked(m, {}, dst) /\ n # Null
    BY SoundFacts
  <2> QED
    BY <2>1 DEF Linked
<1>3. move_ontop(m, dst, n) = Move(e, n, p, b, a)
  BY DEF move_ontop
<1> HIDE DEF e
<1>4. n \in Alive(e) /\ n \in InLists(e, {}) /\ Loose(e, {})
  BY <1>1, SoundFacts DEF Sound
<1>5. Segment(e, {n}, n, n)
  BY <1>4, SingleSegment
<1>6. Left(e, {}, {n}, n, n, e[n].parent, e[n].prev_sibling, e[n].next_sibling, u)
  BY <1>1, <1>5, UnlinkSound
<1> HIDE DEF p, b, a, u
<1>7. Slot(u, {n}, p, b, a)
  <2>1. Slot(u, {} \cup {n}, p, b, a)
    BY <1>1, <1>2, <1>4, <1>6, SlotStays
  <2>2. {} \cup {n} = {n}
    OBVIOUS
  <2> QED
    BY <2>1, <2>2
<1>8. Outside(e, {n}, p)
  <2>1. Outside(m, {n}, p)
    BY SoundFacts, OutsideParent DEF p
  <2>2. PICK A \in SUBSET (Alive(m) \ {n}) :
          p \in A \cup {Null} /\ \A k \in A : m[k].parent \in A \cup {Null}
    BY <2>1 DEF Outside
  <2>3. p \in Alive(e) \cup {Null}
    BY <1>1 DEF Slot
  <2> DEFINE E == A \cap Alive(e)
  <2>4. E \in SUBSET (Alive(e) \ {n}) /\ p \in E \cup {Null}
    BY <2>2, <2>3
  <2>5. ASSUME NEW k \in E PROVE e[k].parent \in E \cup {Null}
    <3>1. e[k].parent \in Alive(e) \cup {Null}
      BY <1>1, SoundFacts DEF Linked
    <3> QED
      BY <3>1, <1>1, <2>2
  <2> HIDE DEF E
  <2> QED
    BY <2>4, <2>5 DEF Outside
<1> QED
  BY <1>1, <1>3, <1>4, <1>7, <1>8, MoveSound DEF u

LEMMA OutsideBoth ==
  ASSUME NEW m, NEW x, NEW y, NEW p, Outside(m, {x}, p), Outside(m, {y}, p)
  PROVE  Outside(m, {x, y}, p)
<1>1. PICK A \in SUBSET (Alive(m) \ {x}) :
        p \in A \cup {Null} /\ \A k \in A : m[k].parent \in A \cup {Null}
  BY DEF Outside
<1>2. PICK B \in SUBSET (Alive(m) \ {y}) :
        p \in B \cup {Null} /\ \A k \in B : m[k].parent \in B \cup {Null}
  BY DEF Outside
<1>3. A \cap B \in SUBSET (Alive(m) \ {x, y}) /\ p \in (A \cap B) \cup {Null}
  BY <1>1, <1>2
<1>4. \A k \in A \cap B : m[k].parent \in (A \cap B) \cup {Null}
  BY <1>1, <1>2
<1> QED
  BY <1>3, <1>4 DEF Outside

LEMMA OutsideUnion ==
  ASSUME NEW m, NEW S, NEW p, NEW q, Outside(m, S, p), Outside(m, S, q)
  PROVE  \E A \in SUBSET (Alive(m) \ S) :
           /\ p \in A \cup {Null} /\ q \in A \cup {Null}
           /\ \A k \in A : m[k].parent \in A \cup {Null}
<1>1. PICK A \in SUBSET (Alive(m) \ S) :
        p \in A \cup {Null} /\ \A k \in A : m[k].parent \in A \cup {Null}
  BY DEF Outside
<1>2. PICK B \in SUBSET (Alive(m) \ S) :
        q \in B \cup {Null} /\ \A k \in B : m[k].parent \in B \cup {Null}
  BY DEF Outside
<1>3. A \cup B \in SUBSET (Alive(m) \ S)
  OBVIOUS
<1> QED
  BY <1>1, <1>2, <1>3

(* A slot stays one when a node enters another one. *)
LEMMA SlotElsewhere ==
  ASSUME NEW m, NEW n, NEW o, n \in Node, o \in Node, n # o,
         NEW r, NEW P, NEW B, NEW A, LinkedIn(m, r, {n}, n, n, P, B, A),
         NEW p, NEW b, NEW a, Slot(m, {n} \cup {o}, p, b, a),
         ~ (p = P /\ b = B), ~ (p = P /\ a = A),
         b # Null => b # B, a # Null => a # A,
         Alive(m) = Alive(r), Alive(m) \subseteq Node
  PROVE  Slot(r, {o}, p, b, a)
<1>1. /\ Node \subseteq Ptr /\ Heads \subseteq Ptr /\ Feets \subseteq Ptr
      /\ Null \notin Ptr /\ Heads \cap Node = {} /\ Feets \cap Node = {}
  BY PtrFacts, DummyFacts
<1>2. /\ p \in Alive(m) \cup {Null}
      /\ b \in (Alive(m) \ {n, o}) \cup {Null} \cup Heads
      /\ a \in (Alive(m) \ {n, o}) \cup {Null} \cup Feets
      /\ b = Null => p # Null /\ m[p].first_child = a
      /\ b # Null => m[b].next_sibling = a /\ m[b].parent = p
      /\ a = Null => p # Null /\ m[p].last_child = b
      /\ a # Null => m[a].prev_sibling = b /\ m[a].parent = p
  BY DEF Slot, InLists
<1>3. /\ p # Null => p \in Ptr
      /\ b # Null => b \in Ptr /\ b # n
      /\ a # Null => a \in Ptr /\ a # n
  BY <1>1, <1>2
<1>4. b = Null => p # Null /\ r[p].first_child = a
  BY <1>2, <1>3 DEF LinkedIn
<1>5. b # Null => r[b].next_sibling = a /\ r[b].parent = p
  BY <1>2, <1>3 DEF LinkedIn
<1>6. a = Null => p # Null /\ r[p].last_child = b
  BY <1>2, <1>3 DEF LinkedIn
<1>7. a # Null => r[a].prev_sibling = b /\ r[a].parent = p
  BY <1>2, <1>3 DEF LinkedIn
<1>8. /\ b \in InLists(r, {o}) \cup {Null} \cup Heads
      /\ a \in InLists(r, {o}) \cup {Null} \cup Feets
  BY <1>2 DEF InLists
<1> QED
  BY <1>2, <1>4, <1>5, <1>6, <1>7, <1>8 DEF Slot

(* Two nodes that are not neighbours change places: both leave, one enters  *)
(* the place of the other, the other that of the first.                     *)
LEMMA SwapFarSound ==
  ASSUME NEW m, Sound(m), NEW one \in Alive(m), NEW two \in Alive(m), one # two,
         Outside(m, {one}, two), Outside(m, {two}, one),
         m[one].next_sibling # two, m[two].next_sibling # one,
         NEW r,
         r = LinkIn(LinkIn(m, one, one, m[two].parent, m[two].prev_sibling,
                           m[two].next_sibling),
                    two, two, m[one].parent, m[one].prev_sibling,
                    m[one].next_sibling)
  PROVE  Sound(r)
<1> DEFINE P1 == m[one].parent
           B1 == m[one].prev_sibling
           A1 == m[one].next_sibling
           P2 == m[two].parent
           B2 == m[two].prev_sibling
           A2 == m[two].next_sibling
           m1 == Unlink(m, one, one)
           m2 == Unlink(m1, two, two)
           m3 == LinkIn(m2, one, one, P2, B2, A2)
           n1 == LinkIn(m, one, one, P2, B2, A2)
<1>1. /\ m \in Memory /\ Alive(m) \subseteq Node /\ Node \subseteq Ptr /\ Null \notin Ptr
      /\ InLists(m, {}) = Alive(m) /\ Loose(m, {})
      /\ Linked(m, {}, one) /\ Linked(m, {}, two)
      /\ Segment(m, {one}, one, one) /\ Segment(m, {two}, two, two)
  BY SoundFacts, SingleSegment DEF Sound
<1>2. /\ B1 # two /\ A1 # two /\ B2 # one /\ A2 # one
      /\ A1 # one /\ B1 # one /\ A2 # two /\ B2 # two
      /\ ~ (P1 = P2 /\ B1 = B2) /\ ~ (P1 = P2 /\ A1 = A2)
      /\ B1 # Null => B1 # B2
      /\ A1 # Null => A1 # A2
      /\ P1 \in Link /\ P2 \in Link /\ B1 \in Link /\ B2 \in Link
      /\ A1 \in Link /\ A2 \in Link
  <2>1. /\ m[one] \in TreeNode /\ m[two] \in TreeNode
    BY <1>1 DEF Memory
  <2>2. P1 \in Link /\ P2 \in Link /\ B1 \in Link /\ B2 \in Link
        /\ A1 \in Link /\ A2 \in Link
    BY <2>1 DEF TreeNode
  <2>3. A1 # one /\ B1 # one /\ A2 # two /\ B2 # two
    <3>1. {one} \subseteq InLists(m, {}) /\ {two} \subseteq InLists(m, {})
      BY <1>1
    <3> QED
      BY <3>1, <1>1, SegmentBounds
  <2> QED
    BY <2>2, <2>3, <1>1 DEF Linked
<1>3. Left(m, {}, {one}, one, one, P1, B1, A1, m1)
  BY <1>1, UnlinkSound
<1>4. r = LinkIn(n1, two, two, P1, B1, A1)
  OBVIOUS
<1> HIDE DEF P1, B1, A1, P2, B2, A2
<1>5. LinkedIn(m, n1, {one}, one, one, P2, B2, A2)
  <2>1. Chain(m, one, one) = {one}
    BY <1>1, SegmentChain
  <2>2. LinkedIn(m, LinkIn(m, one, one, P2, B2, A2), Chain(m, one, one),
                 one, one, P2, B2, A2)
    <3>1. m \in Memory /\ one \in Ptr /\ P2 \in Link /\ B2 \in Link /\ A2 \in Link
      BY <1>1, <1>2
    <3> QED
      BY ONLY <3>1, LinkInFields
  <2> QED
    BY ONLY <2>1, <2>2 DEF n1
<1> HIDE DEF n1
<1>6. LinkedIn(n1, r, {two}, two, two, P1, B1, A1)
  <2>1. n1 \in Memory /\ two \in Alive(n1)
    BY <1>1, <1>5 DEF LinkedIn, Alive
  <2>2. Chain(n1, two, two) = {two}
    BY <2>1, SingleSegment, SegmentChain
  <2>3. LinkedIn(n1, LinkIn(n1, two, two, P1, B1, A1), Chain(n1, two, two),
                 two, two, P1, B1, A1)
    <3>1. n1 \in Memory /\ two \in Ptr /\ P1 \in Link /\ B1 \in Link /\ A1 \in Link
      BY <2>1, <1>1, <1>2
    <3> QED
      BY ONLY <3>1, LinkInFields
  <2> QED
    BY ONLY <2>2, <2>3, <1>4
<1> HIDE DEF m1
<1>7. /\ Loose(m1, {one}) /\ Slot(m1, {one}, P1, B1, A1) /\ Alive(m1) = Alive(m)
      /\ two \in InLists(m1, {one}) /\ two \in Alive(m1)
      /\ Unlinked(m, m1, P1, B1, A1)
  <2>1. Unlinked(m, m1, P1, B1, A1)
    BY <1>3 DEF Left
  <2> QED
    BY <2>1, <1>3, LeftFacts
<1>8. m1[two].parent = P2 /\ m1[two].prev_sibling = B2 /\ m1[two].next_sibling = A2
  BY <1>1, <1>2, <1>7 DEF Unlinked, P2, B2, A2
<1>9. Left(m1, {one}, {two}, two, two, P2, B2, A2, m2)
  <2>1. Segment(m1, {two}, two, two) /\ {two} \subseteq InLists(m1, {one})
    BY <1>7, SingleSegment
  <2> QED
    BY <2>1, <1>7, <1>8, UnlinkKeeps
<1>10. Slot(m2, {one} \cup {two}, P1, B1, A1)
  BY <1>2, <1>7, <1>8, <1>9, SlotStays
<1> HIDE DEF m2
<1>11. /\ Loose(m2, {one} \cup {two}) /\ Slot(m2, {one} \cup {two}, P2, B2, A2)
       /\ Unlinked(m1, m2, P2, B2, A2) /\ Alive(m2) = Alive(m)
  BY <1>7, <1>9 DEF Left
<1>12. PICK A \in SUBSET (Alive(m) \ {one, two}) :
         /\ P1 \in A \cup {Null} /\ P2 \in A \cup {Null}
         /\ \A k \in A : m[k].parent \in A \cup {Null}
  <2>1. Outside(m, {one}, P2) /\ Outside(m, {two}, P1)
    BY <1>1, OutsideParent DEF P1, P2
  <2>2. Outside(m, {one}, P1) /\ Outside(m, {two}, P2)
    <3>1. {one} \in SUBSET Alive(m) /\ {one} # {} /\ \A k \in {one} : m[k].parent = P1
      BY DEF P1
    <3>2. {two} \in SUBSET Alive(m) /\ {two} # {} /\ \A k \in {two} : m[k].parent = P2
      BY DEF P2
    <3> QED
      BY <3>1, <3>2, ParentOutside, OutsideDesc
  <2>3. Outside(m, {one, two}, P1)
    BY <2>1, <2>2, OutsideBoth
  <2>4. Outside(m, {one, two}, P2)
    BY <2>1, <2>2, OutsideBoth
  <2> QED
    BY <2>3, <2>4, OutsideUnion
<1>13. Entered(m2, {one} \cup {two}, {one}, one, one, P2, B2, A2, m3)
  <2>1. \A k \in A : m2[k].parent = m[k].parent
    BY <1>1, <1>7, <1>11, <1>12 DEF Unlinked
  <2>2. Outside(m2, {one}, P2)
    BY <2>1, <1>11, <1>12 DEF Outside
  <2>3. Segment(m2, {one}, one, one) /\ {one} \subseteq {one} \cup {two}
    BY <1>11, SingleSegment
  <2> QED
    BY <2>2, <2>3, <1>11, LinkInKeeps
<1> HIDE DEF m3
<1>14. /\ Loose(m3, {two}) /\ LinkedIn(m2, m3, {one}, one, one, P2, B2, A2)
       /\ Alive(m3) = Alive(m)
  <2>1. ({one} \cup {two}) \ {one} = {two}
    OBVIOUS
  <2> QED
    BY <2>1, <1>11, <1>13 DEF Entered
<1>15. LinkedIn(m3, r, {two}, two, two, P1, B1, A1)
  <2>1. r \in Memory
    BY <1>6 DEF LinkedIn
  <2>2. ASSUME NEW x \in Ptr
        PROVE  /\ r[x].parent = IF x \in {two} THEN P1 ELSE m3[x].parent
               /\ r[x].data = m3[x].data
    BY ONLY <2>2, <1>5, <1>6, <1>7, <1>11, <1>14 DEF LinkedIn, Unlinked
  <2>3. ASSUME NEW x \in Ptr
        PROVE  /\ r[x].first_child = IF x = P1 /\ B1 = Null THEN two ELSE m3[x].first_child
               /\ r[x].last_child = IF x = P1 /\ A1 = Null THEN two ELSE m3[x].last_child
    BY ONLY <2>3, <1>5, <1>6, <1>7, <1>11, <1>14 DEF LinkedIn, Unlinked
  <2>4. ASSUME NEW x \in Ptr
        PROVE  r[x].next_sibling = IF x = two THEN A1
                 ELSE IF x = B1 THEN two ELSE m3[x].next_sibling
    BY ONLY <2>4, <1>5, <1>6, <1>7, <1>11, <1>14 DEF LinkedIn, Unlinked
  <2>5. ASSUME NEW x \in Ptr
        PROVE  r[x].prev_sibling = IF x = two THEN B1
                 ELSE IF x = A1 THEN two ELSE m3[x].prev_sibling
    BY ONLY <2>5, <1>5, <1>6, <1>7, <1>11, <1>14 DEF LinkedIn, Unlinked
  <2> QED
    BY ONLY <2>1, <2>2, <2>3, <2>4, <2>5 DEF LinkedIn
<1>16. Slot(m3, {two}, P1, B1, A1)
  BY <1>1, <1>2, <1>10, <1>11, <1>14, SlotElsewhere
<1>17. Outside(m3, {two}, P1)
  <2>1. \A k \in A : m3[k].parent = m[k].parent
    BY <1>1, <1>7, <1>11, <1>12, <1>14 DEF Unlinked, LinkedIn
  <2> QED
    BY <2>1, <1>12, <1>14 DEF Outside
<1>18. Entered(m3, {two}, {two}, two, two, P1, B1, A1, r)
  <2>1. Segment(m3, {two}, two, two)
    BY <1>14, SingleSegment
  <2> QED
    BY <2>1, <1>14, <1>15, <1>16, <1>17, EnterKeeps
<1>19. {two} \ {two} = {}
  OBVIOUS
<1> QED
  BY <1>18, <1>19 DEF Entered, Sound

SameLinks(m, r) ==
  /\ r \in Memory /\ Alive(r) = Alive(m)
  /\ \A y \in Ptr : r[y].parent = m[y].parent
  /\ \A y \in Ptr : r[y].first_child = m[y].first_child
  /\ \A y \in Ptr : r[y].last_child = m[y].last_child
  /\ \A y \in Ptr : r[y].next_sibling = m[y].next_sibling
  /\ \A y \in Ptr : r[y].prev_sibling = m[y].prev_sibling

LEMMA SameLinksSound ==
  ASSUME NEW m, Sound(m), NEW r, SameLinks(m, r)
  PROVE  Sound(r)
<1>1. /\ m \in Memory /\ Alive(m) \subseteq Node /\ Node \subseteq Ptr /\ Null \notin Ptr
      /\ Loose(m, {}) /\ InLists(m, {}) = Alive(m)
      /\ Heads \subseteq Ptr /\ Feets \subseteq Ptr
      /\ \A y \in Alive(m) : Linked(m, {}, y) /\ Parental(m, {}, y)
  BY SoundFacts, DummyFacts DEF Sound
<1>2. /\ r \in Memory
      /\ \A y \in Ptr : r[y].parent = m[y].parent
      /\ \A y \in Ptr : r[y].first_child = m[y].first_child
      /\ \A y \in Ptr : r[y].last_child = m[y].last_child
      /\ \A y \in Ptr : r[y].next_sibling = m[y].next_sibling
      /\ \A y \in Ptr : r[y].prev_sibling = m[y].prev_sibling
  BY DEF SameLinks
<1>3. Alive(r) = Alive(m)
  BY DEF SameLinks
<1>4. InLists(r, {}) = InLists(m, {})
  BY <1>3 DEF InLists
<1>5. ASSUME NEW y \in Alive(m) PROVE Linked(r, {}, y)
  <2>1. Linked(m, {}, y) /\ y \in Ptr
    BY <1>1
  <2>2. /\ m[y].parent # Null => m[y].parent \in Ptr
        /\ m[y].prev_sibling # Null => m[y].prev_sibling \in Ptr
        /\ m[y].next_sibling # Null => m[y].next_sibling \in Ptr
    BY <1>1, <2>1 DEF Linked
  <2>3. /\ r[y].parent = m[y].parent /\ r[y].prev_sibling = m[y].prev_sibling
        /\ r[y].next_sibling = m[y].next_sibling
    BY <1>2, <2>1
  <2>4. /\ m[y].parent # Null => /\ r[m[y].parent].first_child = m[m[y].parent].first_child
                                 /\ r[m[y].parent].last_child = m[m[y].parent].last_child
        /\ m[y].prev_sibling # Null =>
             /\ r[m[y].prev_sibling].next_sibling = m[m[y].prev_sibling].next_sibling
             /\ r[m[y].prev_sibling].parent = m[m[y].prev_sibling].parent
        /\ m[y].next_sibling # Null =>
             /\ r[m[y].next_sibling].prev_sibling = m[m[y].next_sibling].prev_sibling
             /\ r[m[y].next_sibling].parent = m[m[y].next_sibling].parent
    BY <1>2, <2>2
  <2> QED
    BY <1>3, <1>4, <2>1, <2>3, <2>4 DEF Linked
<1>6. ASSUME NEW y \in Alive(m) PROVE Parental(r, {}, y)
  <2>1. Parental(m, {}, y) /\ y \in Ptr
    BY <1>1
  <2>2. /\ m[y].first_child # Null => m[y].first_child \in Ptr /\ m[y].last_child \in Ptr
    BY <1>1, <2>1 DEF Parental
  <2> QED
    BY <1>2, <1>4, <2>1, <2>2 DEF Parental
<1>7. ASSUME NEW t \in Tree PROVE \E T : TopLevel(r, {}, t, T)
  <2>1. PICK T : TopLevel(m, {}, t, T)
    BY SoundFacts
  <2>2. T \subseteq InLists(r, {}) /\ T \subseteq Node
    BY <2>1, <1>1, <1>4 DEF TopLevel
  <2>3. \A k \in T \cup {head(t), feet(t)} : k \in Ptr
    BY <2>2, <1>1, PtrFacts
  <2>4. \A k \in T \cup {head(t), feet(t)} :
          /\ r[k].parent = m[k].parent
          /\ r[k].next_sibling = m[k].next_sibling \/ k = feet(t)
          /\ r[k].prev_sibling = m[k].prev_sibling \/ k = head(t)
    BY <2>3, <1>2
  <2>5. TopLevel(r, {}, t, T)
    BY <2>1, <2>2, <2>4, TopSame
  <2> QED
    BY <2>5
<1>8. NoRing(r, {})
  <2>1. NoRing(m, {})
    BY <1>1 DEF Loose
  <2>2. \A y \in InLists(m, {}) : r[y].prev_sibling = m[y].prev_sibling
    BY <1>1, <1>2
  <2> QED
    BY <2>1, <2>2, <1>4 DEF NoRing
<1>9. NoCycle(r)
  <2>1. NoCycle(m)
    BY <1>1 DEF Loose
  <2>2. \A y \in Alive(m) : r[y].parent = m[y].parent
    BY <1>1, <1>2
  <2> QED
    BY <2>1, <2>2, <1>3 DEF NoCycle
<1>10. {} \subseteq Alive(r)
  OBVIOUS
<1> QED
  BY <1>1, <1>2, <1>3, <1>4, <1>5, <1>6, <1>7, <1>8, <1>9, <1>10 DEF Sound, Loose

LEMMA DataSound ==
  ASSUME NEW m, Sound(m), NEW pos \in Alive(m), NEW x \in Data,
         NEW r, r = [m EXCEPT ![pos].data = x]
  PROVE  Sound(r)
<1>1. /\ m \in Memory /\ Alive(m) \subseteq Node /\ Node \subseteq Ptr /\ Null \notin Ptr
  BY SoundFacts
<1>2. /\ r \in Memory
      /\ \A y \in Ptr : r[y].parent = m[y].parent
      /\ \A y \in Ptr : r[y].first_child = m[y].first_child
      /\ \A y \in Ptr : r[y].last_child = m[y].last_child
      /\ \A y \in Ptr : r[y].next_sibling = m[y].next_sibling
      /\ \A y \in Ptr : r[y].prev_sibling = m[y].prev_sibling
      /\ \A y \in Ptr \ {pos} : r[y].data = m[y].data
      /\ r[pos].data = x
  <2>1. m[pos] \in TreeNode
    BY <1>1 DEF Memory
  <2> DEFINE k == [m[pos] EXCEPT !.data = x]
  <2>2. /\ k \in TreeNode /\ k.parent = m[pos].parent
        /\ k.first_child = m[pos].first_child /\ k.last_child = m[pos].last_child
        /\ k.next_sibling = m[pos].next_sibling /\ k.prev_sibling = m[pos].prev_sibling
        /\ k.data = x
    BY <2>1 DEF TreeNode
  <2>3. r = [m EXCEPT ![pos] = k]
    BY <1>1 DEF Memory
  <2> HIDE DEF k
  <2>4. r \in Memory /\ r[pos] = k /\ \A y \in Ptr \ {pos} : r[y] = m[y]
    BY <1>1, <2>2, <2>3 DEF Memory
  <2> QED
    BY <2>2, <2>4
<1>3. Alive(r) = Alive(m)
  BY <1>1, <1>2, PtrFacts DEF Alive
<1> QED
  BY <1>2, <1>3, SameLinksSound DEF SameLinks

-----------------------------------------------------------------------------
(* The calls, one after another. *)
LEMMA NewNodeSound ==
  ASSUME Sound(mem), NEW n \in Fresh(mem), NEW x \in Data, NewNode(n, x)
  PROVE  Sound(mem')
<1>1. n \in Node \ Alive(mem) /\ x \in Data \cup {Blank}
  BY DEF Fresh
<1> DEFINE I(r) == \E p, b, a : Placed(mem, n, p, b, a, r)
<1>2. \A t \in Tree : I(insert(mem, feet(t), n, x))
  BY <1>1, Insertions
<1>3. \A p \in Alive(mem) : /\ I(append_child(mem, p, n, x)) /\ I(prepend_child(mem, p, n, x))
                            /\ I(insert(mem, p, n, x)) /\ I(insert_after(mem, p, n, x))
  BY <1>1, Insertions
<1>4. \A r : I(r) => Sound(r)
  BY DEF Placed
<1> HIDE DEF I
<1>5. CASE \E t \in Tree : SetHead(t, n, x) \/ InsertAtEndMoved(t, n, x)
  BY <1>2, <1>4, <1>5 DEF SetHead, InsertAtEndMoved, Call, set_head, insert_at_end_moved
<1>6. ASSUME NEW p \in Alive(mem),
             \/ AppendChild(p, n, x) \/ PrependChild(p, n, x) \/ InsertAtEnd(p, n, x)
             \/ Insert(p, n, x) \/ InsertAfter(p, n, x)
      PROVE  Sound(mem')
  BY <1>3, <1>4, <1>6
     DEF AppendChild, PrependChild, InsertAtEnd, Insert, InsertAfter, Call, insert_at_end
<1>7. ASSUME NEW p \in Alive(mem), NEW q \in RangeEnds(p), Wrap(p, q, n, x)
      PROVE  Sound(mem')
  <2>1. Segment(mem, Chain(mem, p, q), p, q)
    BY RangeSegment DEF RangeEnds
  <2> QED
    BY <2>1, <1>1, <1>7, WrapSound DEF Wrap, Call
<1> QED
  BY <1>5, <1>6, <1>7 DEF NewNode

LEMMA RemovalSound ==
  ASSUME Sound(mem), Removal
  PROVE  Sound(mem')
<1>1. ASSUME NEW t \in Tree, Clear(t) PROVE Sound(mem')
  BY <1>1, ClearSound DEF Clear, Call
<1>2. ASSUME NEW p \in Alive(mem), Erase(p) PROVE Sound(mem')
  BY <1>2, EraseSound DEF Erase, Call
<1>3. ASSUME NEW p \in Alive(mem), EraseChildren(p) PROVE Sound(mem')
  BY <1>3, EraseChildrenSound DEF EraseChildren, Call, Childless
<1> QED
  BY <1>1, <1>2, <1>3 DEF Removal

LEMMA RearrangeSound ==
  ASSUME Sound(mem), Rearrange
  PROVE  Sound(mem')
<1>1. PICK p \in Alive(mem) :
        \/ Flatten(p) \/ SwapWithNext(p) \/ MoveAfter(p, p) \/ MoveBefore(p, p)
        \/ \E x \in Data : ReplaceData(p, x)
        \/ \E r \in RangeEnds(p) : \E q \in OutsideOf(p, r) : Reparent(q, p, r)
        \/ \E q \in OutsideOf(p, p) :
             \/ MoveAfter(q, p) \/ MoveBefore(q, p) \/ ReparentAll(q, p)
             \/ p \notin Subtree(mem, q) /\ (MoveOntop(q, p) \/ Swap(q, p))
  BY DEF Rearrange
<1>2. CASE Flatten(p)
  BY <1>2, FlattenSound DEF Flatten, Call
<1>3. CASE SwapWithNext(p)
  BY <1>3, SwapNextSound DEF SwapWithNext, Call
<1>4. CASE MoveAfter(p, p) \/ MoveBefore(p, p)
  BY <1>4 DEF MoveAfter, MoveBefore, Call, move_after, move_before
<1>5. CASE \E x \in Data : ReplaceData(p, x)
  BY <1>5, DataSound DEF ReplaceData, Call
<1>6. ASSUME NEW r \in RangeEnds(p), NEW q \in OutsideOf(p, r), Reparent(q, p, r)
      PROVE  Sound(mem')
  <2> DEFINE S == Chain(mem, p, r)
  <2>1. Segment(mem, S, p, r)
    BY RangeSegment DEF RangeEnds
  <2>2. q \in Alive(mem) \ Desc(mem, S)
    BY DEF OutsideOf, Desc
  <2> HIDE DEF S
  <2>3. S \in SUBSET Alive(mem)
    BY <2>1 DEF Segment
  <2>4. Outside(mem, S, q)
    BY <2>2, <2>3, OutsideDesc
  <2> QED
    BY <2>1, <2>2, <2>4, <1>6, ReparentSound DEF Reparent, Call
<1>7. ASSUME NEW q \in OutsideOf(p, p)
      PROVE  q \in Alive(mem) \ Subtree(mem, p) /\ Outside(mem, {p}, q)
  <2>1. Chain(mem, p, p) = {p}
    <3>1. Segment(mem, {p}, p, p)
      BY SingleSegment
    <3> QED
      BY <3>1, SegmentChain
  <2>2. q \in Alive(mem) \ Subtree(mem, p)
    BY <2>1 DEF OutsideOf
  <2> QED
    BY <2>2, SubtreeOutside
<1>8. ASSUME NEW q \in OutsideOf(p, p), MoveAfter(q, p) \/ MoveBefore(q, p)
      PROVE  Sound(mem')
  BY <1>7, <1>8, MovesSound DEF MoveAfter, MoveBefore, Call
<1>9. ASSUME NEW q \in OutsideOf(p, p), ReparentAll(q, p)
      PROVE  Sound(mem')
  <2> DEFINE f == mem[p].first_child
             l == mem[p].last_child
             S == Chain(mem, f, l)
  <2>1. /\ f # Null /\ Parental(mem, {}, p) /\ mem' = reparent(mem, q, f, l)
        /\ Alive(mem) \subseteq Node /\ InLists(mem, {}) = Alive(mem)
    BY <1>9, SoundFacts DEF ReparentAll, Call
  <2>2. f \in Alive(mem) /\ mem[f].parent = p
    BY <2>1 DEF Parental
  <2>3. Segment(mem, S, f, l)
    BY <2>1, <2>2, ChildrenRange, RangeSegment
  <2> HIDE DEF S, f, l
  <2>4. S \in SUBSET Alive(mem) /\ S \subseteq InLists(mem, {}) /\ Loose(mem, {})
    BY <2>1, <2>3 DEF Segment, Sound
  <2>5. \A k \in S : mem[k].parent = p
    BY <2>2, <2>3, <2>4, SegmentBounds
  <2>6. Outside(mem, S, q) /\ q \in Alive(mem)
    BY <1>7, <2>4, <2>5, ChildrenOutside
  <2> QED
    BY <2>1, <2>3, <2>6, ReparentSound
<1>10. ASSUME NEW q \in OutsideOf(p, p), p \notin Subtree(mem, q), MoveOntop(q, p)
       PROVE  Sound(mem')
  <2>1. mem[q].next_sibling # p /\ mem[p].next_sibling # q /\ mem' = move_ontop(mem, q, p)
    BY <1>10 DEF MoveOntop, Adjacent, Call
  <2> QED
    BY <2>1, <1>7, <1>10, MoveOntopSound
<1>11. ASSUME NEW q \in OutsideOf(p, p), p \notin Subtree(mem, q), Swap(q, p)
       PROVE  Sound(mem')
  <2>1. /\ Outside(mem, {p}, q) /\ Outside(mem, {q}, p) /\ q \in Alive(mem) /\ p # q
        /\ p \in Node /\ q \in Node
    BY <1>7, <1>11, SubtreeOutside, SoundFacts DEF Subtree
  <2>2. mem' = swap(mem, q, p)
    BY <1>11 DEF Swap, Call
  <2>3. CASE mem[q].next_sibling = p
    BY <2>1, <2>2, <2>3, SwapNextSound DEF swap
  <2>4. CASE mem[q].next_sibling # p /\ mem[p].next_sibling = q
    BY <2>1, <2>2, <2>4, SwapNextSound DEF swap
  <2>5. CASE mem[q].next_sibling # p /\ mem[p].next_sibling # q
    BY <2>1, <2>2, <2>5, SwapFarSound DEF swap
  <2> QED
    BY <2>3, <2>4, <2>5
<1> QED
  BY <1>1, <1>2, <1>3, <1>4, <1>5, <1>6, <1>8, <1>9, <1>10, <1>11

-----------------------------------------------------------------------------
(* A new node in the place of pos, of which nothing is left: what replace    *)
(* does before it copies.                                                    *)
Replaced(m, pos, n, r) ==
  /\ Sound(r) /\ Alive(r) = (Alive(m) \ Subtree(m, pos)) \cup {n}
  /\ n \notin Alive(m) \ Subtree(m, pos)
  /\ \A x \in Alive(r) : r[x].parent # n
  /\ \A t \in Tree : \A T : TopLevel(m, {}, t, T) =>
       TopLevel(r, {}, t, IF pos \in T THEN (T \ {pos}) \cup {n} ELSE T)

LEMMA ReplaceTopSound ==
  ASSUME NEW m, Sound(m), NEW pos \in Alive(m),
         NEW n \in Fresh(erase_children(m, pos)), NEW x \in Data \cup {Blank},
         NEW r, r = replace_top(m, pos, n, x)
  PROVE  Replaced(m, pos, n, r)
<1> DEFINE bare == erase_children(m, pos)
           c == Construct(bare, n, x)
           out == Unlink(c, pos, pos)
           p == m[pos].parent
           b == m[pos].prev_sibling
           a == m[pos].next_sibling
           l == LinkIn(out, n, n, p, b, a)
<1>1. Childless(m, pos, bare)
  BY EraseChildrenSound
<1>2. n \in Node \ Alive(bare)
  BY DEF Fresh
<1>3. r = Deallocate(l, {pos})
  BY DEF replace_top
<1> HIDE DEF bare
<1>4. Constructed(bare, n, c)
  BY <1>1, <1>2, ConstructKeeps DEF Childless
<1> HIDE DEF c
<1>5. /\ Sound(bare) /\ pos \in Alive(bare) /\ Alive(bare) = Alive(m) \ Below(m, pos)
      /\ \A k \in Alive(bare) : bare[k].parent # pos
      /\ \A t \in Tree : \A T : TopLevel(m, {}, t, T) => TopLevel(bare, {}, t, T)
  BY <1>1 DEF Childless
<1>6. /\ Loose(c, {n}) /\ Alive(c) = Alive(bare) \cup {n}
      /\ \A y \in Ptr \ {n} : c[y] = bare[y]
      /\ \A k \in Alive(c) : c[k].parent # n
      /\ \A q \in Alive(bare) \cup {Null} : Outside(c, {n}, q)
      /\ \A t \in Tree : \A T : TopLevel(bare, {}, t, T) => TopLevel(c, {n}, t, T)
  BY <1>4 DEF Constructed
<1>7. /\ n # pos /\ pos \in Alive(c) /\ pos \in InLists(c, {n}) /\ pos \in Ptr
      /\ Alive(bare) \subseteq Ptr /\ Null \notin Ptr /\ n \in Ptr
      /\ pos \in Node /\ pos \notin Below(m, pos)
  BY <1>2, <1>5, <1>6, SoundFacts, BelowFacts DEF InLists
<1>8. c[pos].parent = p /\ c[pos].prev_sibling = b /\ c[pos].next_sibling = a
      /\ bare[pos].parent = p
  BY <1>1, <1>6, <1>7 DEF Childless
<1>9. Left(c, {n}, {pos}, pos, pos, p, b, a, out)
  <2>1. Segment(c, {pos}, pos, pos) /\ {pos} \subseteq InLists(c, {n})
    BY <1>7, SingleSegment
  <2> QED
    BY <2>1, <1>6, <1>8, UnlinkKeeps
<1> HIDE DEF out, p, b, a
<1>10. /\ Loose(out, {n} \cup {pos}) /\ Slot(out, {n} \cup {pos}, p, b, a)
       /\ Alive(out) = Alive(c) /\ \A y \in Ptr : out[y].parent = c[y].parent
       /\ \A t \in Tree : \A T : TopLevel(c, {n}, t, T) =>
            TopLevel(out, {n} \cup {pos}, t, T \ {pos})
  BY <1>9 DEF Left, Unlinked
<1>11. p \in Alive(bare) \cup {Null} /\ p # pos /\ p # n
  <2>1. Linked(bare, {}, pos) /\ NoCycle(bare)
    BY <1>5, SoundFacts DEF Sound, Loose
  <2>2. p \in Alive(bare) \cup {Null}
    BY <2>1, <1>8 DEF Linked
  <2>3. bare[pos].parent # pos
    BY <1>5
  <2> QED
    BY <2>2, <2>3, <1>2, <1>7, <1>8
<1>12. Outside(out, {n}, p)
  <2>1. Outside(c, {n}, p)
    BY <1>6, <1>11
  <2>2. \A y \in Alive(c) : out[y].parent = c[y].parent
    BY <1>6, <1>7, <1>10
  <2> QED
    BY <2>1, <2>2, <1>10, OutsideSame
<1>13. Entered(out, {n} \cup {pos}, {n}, n, n, p, b, a, l)
  <2>1. Segment(out, {n}, n, n) /\ {n} \subseteq {n} \cup {pos}
    BY <1>6, <1>10, SingleSegment
  <2> QED
    BY <2>1, <1>10, <1>12, LinkInKeeps
<1> HIDE DEF l
<1>14. /\ Loose(l, {pos}) /\ Alive(l) = Alive(c)
       /\ LinkedIn(out, l, {n}, n, n, p, b, a)
       /\ \A t \in Tree : \A T : TopLevel(out, {n} \cup {pos}, t, T) =>
            TopLevel(l, {pos}, t, IF b \in T \cup {head(t)} THEN T \cup {n} ELSE T)
  <2>1. ({n} \cup {pos}) \ {n} = {pos}
    BY <1>7
  <2> QED
    BY <2>1, <1>10, <1>13 DEF Entered
<1>15. l[n].parent = p /\ \A y \in Alive(bare) : l[y].parent = bare[y].parent
  BY <1>2, <1>6, <1>7, <1>10, <1>14 DEF LinkedIn
<1>16. Released(l, {pos}, {pos}, r)
  <2>1. \A y \in Alive(l) \ {pos} : l[y].parent \notin {pos}
    BY <1>5, <1>6, <1>11, <1>14, <1>15
  <2>2. \A y \in InLists(l, {pos}) : y \in {pos} => l[y].parent \in {pos}
    BY DEF InLists
  <2>3. {pos} \in SUBSET Node
    BY <1>7
  <2> QED
    BY <2>1, <2>2, <2>3, <1>3, <1>14, DeallocateKeeps
<1>17. /\ Sound(r) /\ Alive(r) = Alive(l) \ {pos}
       /\ \A y \in Ptr \ {pos} : r[y] = l[y]
       /\ \A t \in Tree : \A T : TopLevel(l, {pos}, t, T) => TopLevel(r, {}, t, T)
  BY <1>16 DEF Released
<1>18. Alive(r) = (Alive(m) \ Subtree(m, pos)) \cup {n}
       /\ n \notin Alive(m) \ Subtree(m, pos)
  BY <1>2, <1>5, <1>6, <1>7, <1>14, <1>17 DEF Subtree
<1>19. \A y \in Alive(r) : r[y].parent # n
  <2>1. \A y \in Alive(bare) : bare[y].parent # n
    BY <1>2, <1>6, <1>7
  <2> QED
    BY <2>1, <1>6, <1>7, <1>11, <1>14, <1>15, <1>17
<1>20. ASSUME NEW t \in Tree, NEW T, TopLevel(m, {}, t, T)
       PROVE  TopLevel(r, {}, t, IF pos \in T THEN (T \ {pos}) \cup {n} ELSE T)
  <2>1. TopLevel(out, {n} \cup {pos}, t, T \ {pos})
    BY <1>5, <1>6, <1>10, <1>20
  <2>2. TopLevel(r, {}, t, IF b \in (T \ {pos}) \cup {head(t)}
                           THEN (T \ {pos}) \cup {n} ELSE T \ {pos})
    BY <2>1, <1>14, <1>17
  <2>3. b \in (T \ {pos}) \cup {head(t)} <=> pos \in T
    <3>1. Linked(m, {}, pos) /\ T \subseteq Node /\ head(t) # Null /\ pos # feet(t)
      BY <1>7, <1>20, SoundFacts, PtrFacts DEF TopLevel
    <3>2. b # Null => m[b].next_sibling = pos
      BY <3>1 DEF Linked, b
    <3>3. pos \in T => b \in T \cup {head(t)}
      BY <1>20 DEF TopLevel, b
    <3>4. b \in T \cup {head(t)} => pos \in T
      BY <3>1, <3>2, <1>20, SoundFacts DEF TopLevel
    <3>5. b # pos
      BY <1>9 DEF Left
    <3> QED
      BY <3>3, <3>4, <3>5
  <2>4. pos \notin T => T \ {pos} = T
    OBVIOUS
  <2> QED
    BY <2>2, <2>3, <2>4
<1> QED
  BY <1>17, <1>18, <1>19, <1>20 DEF Replaced

LEMMA DataFacts ==
  ASSUME NEW m, Sound(m), NEW x \in Alive(m)
  PROVE  m[x].data \in Data \cup {Blank}
<1>1. m[x] \in TreeNode /\ m[x].data # Freed
  BY SoundFacts DEF Memory, Alive
<1> QED
  BY <1>1 DEF TreeNode

LEMMA BeginKeeps ==
  ASSUME NEW m, Sound(m), NEW pos \in Alive(m), NEW src \in Alive(m),
         NEW n \in Node, NEW all, Begin(m, pos, src, n, all)
  PROVE  TreeInv'
<1> DEFINE r == replace_top(m, pos, n, m[src].data)
<1>1. /\ n \in Fresh(erase_children(m, pos)) /\ src \notin Subtree(m, pos)
      /\ mem' = r
      /\ copying' = [phase |-> "down", start |-> src, from |-> src, top |-> n,
                     to |-> n, last |-> r[src].next_sibling, all |-> all]
  BY DEF Begin, Continue
<1>2. Replaced(m, pos, n, r)
  BY <1>1, DataFacts, ReplaceTopSound
<1> HIDE DEF r
<1>3. /\ copying'.phase = "down" /\ copying'.start = src /\ copying'.from = src
      /\ copying'.top = n /\ copying'.to = n /\ copying'.last = r[src].next_sibling
      /\ CopyRecord(copying')
  BY <1>1 DEF CopyRecord
<1>4. /\ Sound(r) /\ src \in Alive(r) /\ n \in Alive(r) /\ src # n
      /\ \A x \in Alive(r) : r[x].parent # n
  BY <1>1, <1>2 DEF Replaced
<1>5. CopyRuns(r, copying')
  <2> DEFINE K == {n}
             g == [k \in K |-> src]
  <2>1. K \in SUBSET Alive(r) /\ g \in [K -> Alive(r)]
    BY <1>4
  <2>2. /\ n \in K /\ src \notin K /\ g[n] = src
        /\ \A x \in Alive(r) : r[x].parent \in K => x \in K
    BY <1>4
  <2>3. \A k \in K \ {n} : r[k].parent \in K /\ r[g[k]].parent = g[r[k].parent]
    OBVIOUS
  <2> QED
    BY <2>1, <2>2, <2>3, <1>3, <1>4 DEF CopyRuns
<1> QED
  BY <1>1, <1>3, <1>4, <1>5 DEF TreeInv, CopySound

LEMMA StartCopyKeeps ==
  ASSUME TreeInv, StartCopy
  PROVE  TreeInv'
<1>1. Sound(mem)
  BY DEF TreeInv
<1>2. ASSUME NEW t \in Tree, NEW u \in Tree, CopyTree(t, u) PROVE TreeInv'
  <2>1. /\ t # u /\ mem' = clear(mem, t)
        /\ copying' = [phase |-> "heads", start |-> head(u), top |-> head(t),
                       from |-> mem[head(u)].next_sibling, to |-> feet(t),
                       last |-> feet(u), all |-> TRUE]
    BY <1>2 DEF CopyTree, Continue
  <2>2. Sound(mem') /\ \A U : TopLevel(mem, {}, u, U) => TopLevel(mem', {}, u, U)
    BY <1>1, <2>1, ClearSound
  <2>3. PICK U : TopLevel(mem, {}, u, U)
    BY <1>1, SoundFacts
  <2>4. TopLevel(mem', {}, u, U) /\ mem[head(u)].next_sibling \in U \cup {feet(u)}
    BY <2>2, <2>3 DEF TopLevel
  <2>5. /\ CopyRecord(copying') /\ copying'.phase = "heads"
        /\ copying'.start = head(u) /\ copying'.top = head(t)
        /\ copying'.from = mem[head(u)].next_sibling /\ copying'.to = feet(t)
        /\ copying'.last = feet(u)
    BY <2>1 DEF CopyRecord
  <2>6. HeadsRun(mem', copying')
    BY <2>4, <2>5 DEF HeadsRun, Feets
  <2> QED
    BY <2>2, <2>5, <2>6 DEF TreeInv, CopySound
<1>3. ASSUME NEW src \in Alive(mem), NEW n \in Node, NEW p \in Alive(mem),
             Replace(p, src, n)
      PROVE  TreeInv'
  BY <1>1, <1>3, BeginKeeps DEF Replace
<1>4. ASSUME NEW src \in Alive(mem), NEW n \in Node, NEW d \in Fresh(mem) \ {n},
             NEW m, NEW p, NEW b, NEW a, Placed(mem, d, p, b, a, m),
             Begin(m, d, src, n, FALSE)
      PROVE  TreeInv'
  <2>1. Sound(m) /\ d \in Alive(m) /\ src \in Alive(m)
    BY <1>4 DEF Placed
  <2> QED
    BY <2>1, <1>4, BeginKeeps
<1>5. ASSUME NEW src \in Alive(mem), NEW n \in Node, NEW d \in Fresh(mem) \ {n},
             \/ \E t \in Tree : InsertSubtreeAtEnd(t, src, d, n)
             \/ \E p \in Alive(mem) :
                  \/ AppendSubtree(p, src, d, n) \/ PrependSubtree(p, src, d, n)
                  \/ InsertSubtree(p, src, d, n)
      PROVE  TreeInv'
  <2>1. d \in Node \ Alive(mem) /\ Blank \in Data \cup {Blank}
    BY DEF Fresh
  <2>2. ASSUME NEW t \in Tree, InsertSubtreeAtEnd(t, src, d, n) PROVE TreeInv'
    <3>1. Placed(mem, d, mem[feet(t)].parent, mem[feet(t)].prev_sibling, feet(t),
                 insert(mem, feet(t), d, Blank))
      BY <1>1, <2>1, Insertions
    <3> QED
      BY <3>1, <1>4, <2>2 DEF InsertSubtreeAtEnd, insert_at_end_moved
  <2>3. ASSUME NEW p \in Alive(mem),
               \/ AppendSubtree(p, src, d, n) \/ PrependSubtree(p, src, d, n)
               \/ InsertSubtree(p, src, d, n)
        PROVE  TreeInv'
    <3>1. /\ Placed(mem, d, p, mem[p].last_child, Null, append_child(mem, p, d, Blank))
          /\ Placed(mem, d, p, Null, mem[p].first_child, prepend_child(mem, p, d, Blank))
          /\ Placed(mem, d, mem[p].parent, mem[p].prev_sibling, p, insert(mem, p, d, Blank))
      BY <1>1, <2>1, Insertions
    <3> QED
      BY <3>1, <1>4, <2>3 DEF AppendSubtree, PrependSubtree, InsertSubtree
  <2> QED
    BY <1>5, <2>2, <2>3
<1> QED
  BY <1>2, <1>3, <1>5 DEF StartCopy

(* What the copying loop changes in its own state. *)
Continued(c, d, ph, f, o) ==
  /\ CopyRecord(d) /\ d.phase = ph /\ d.from = f /\ d.to = o
  /\ d.start = c.start /\ d.top = c.top /\ d.last = c.last /\ d.all = c.all

LEMMA ContinueFields ==
  ASSUME NEW c, CopyRecord(c), NEW ph, NEW f, NEW o
  PROVE  /\ Continued(c, [c EXCEPT !.phase = ph, !.from = f, !.to = o], ph, f, o)
         /\ Continued(c, [c EXCEPT !.from = f, !.to = o], c.phase, f, o)
         /\ Continued(c, [c EXCEPT !.phase = ph], ph, c.from, c.to)
<1> DEFINE R(q, x, y) == [phase |-> q, start |-> c.start, from |-> x, top |-> c.top,
                          to |-> y, last |-> c.last, all |-> c.all]
<1>1. ASSUME NEW d, d = [c EXCEPT !.phase = ph, !.from = f, !.to = o]
      PROVE  d = R(ph, f, o)
  BY <1>1 DEF CopyRecord
<1>3. ASSUME NEW d, d = [c EXCEPT !.from = f, !.to = o]
      PROVE  d = R(c.phase, f, o)
  BY <1>3 DEF CopyRecord
<1>4. ASSUME NEW d, d = [c EXCEPT !.phase = ph]
      PROVE  d = R(ph, c.from, c.to)
  BY <1>4 DEF CopyRecord
<1>2. ASSUME NEW q, NEW x, NEW y PROVE Continued(c, R(q, x, y), q, x, y)
  BY DEF Continued, CopyRecord
<1> HIDE DEF R
<1> QED
  BY <1>1, <1>2, <1>3, <1>4

(* While the loop is at a node, its counterpart has a parent unless it is   *)
(* the first, and then so has the node, which is below the first one.       *)
CopyMap(m, c, K, g) ==
  /\ K \in SUBSET Alive(m) /\ g \in [K -> Alive(m)]
  /\ c.top \in K /\ c.to \in K /\ c.start \notin K
  /\ \A x \in Alive(m) : m[x].parent \in K => x \in K
  /\ \A k \in K \ {c.top} : m[k].parent \in K /\ m[g[k]].parent = g[m[k].parent]
  /\ g[c.top] = c.start /\ g[c.to] = c.from

LEMMA CopyRunsFacts ==
  ASSUME NEW m, Sound(m), NEW c, CopyRuns(m, c)
  PROVE  /\ c.start \in Alive(m) /\ c.from \in Alive(m) /\ c.to \in Alive(m)
         /\ c.last = m[c.start].next_sibling
         /\ \E K, g : CopyMap(m, c, K, g)
         /\ c.from # c.start =>
              m[c.to].parent \in Alive(m) /\ m[c.from].parent \in Alive(m)
<1>1. /\ c.start \in Alive(m) /\ c.from \in Alive(m)
      /\ c.last = m[c.start].next_sibling
  BY DEF CopyRuns
<1>2. PICK K, g : CopyMap(m, c, K, g)
  BY DEF CopyRuns, CopyMap
<1>3. c.to \in Alive(m)
  BY <1>2 DEF CopyMap
<1>4. ASSUME c.from # c.start
      PROVE  m[c.to].parent \in Alive(m) /\ m[c.from].parent \in Alive(m)
  <2>1. c.to \in K \ {c.top}
    BY <1>2, <1>4 DEF CopyMap
  <2>2. m[c.to].parent \in K /\ m[c.from].parent = g[m[c.to].parent]
    BY <2>1, <1>2 DEF CopyMap
  <2> QED
    BY <2>2, <1>2 DEF CopyMap
<1> QED
  BY <1>1, <1>2, <1>3, <1>4

(* A copy is appended below the counterpart of the parent of its source. *)
LEMMA CopyGrows ==
  ASSUME NEW m, Sound(m), NEW c, CopyRuns(m, c), NEW K, NEW g, CopyMap(m, c, K, g),
         NEW p \in K, NEW f \in Alive(m), m[f].parent = g[p],
         NEW n \in Fresh(m), NEW r, r = append_child(m, p, n, m[f].data),
         NEW d, NEW ph, Continued(c, d, ph, f, n)
  PROVE  Sound(r) /\ CopyRuns(r, d) /\ Placed(m, n, p, m[p].last_child, Null, r)
<1>1. /\ K \in SUBSET Alive(m) /\ g \in [K -> Alive(m)] /\ p \in Alive(m)
      /\ c.top \in K /\ c.to \in K /\ c.start \notin K
      /\ \A x \in Alive(m) : m[x].parent \in K => x \in K
      /\ \A k \in K \ {c.top} : m[k].parent \in K /\ m[g[k]].parent = g[m[k].parent]
      /\ g[c.top] = c.start /\ g[c.to] = c.from
  BY DEF CopyMap
<1>2. /\ c.start \in Alive(m) /\ c.last = m[c.start].next_sibling
      /\ n \in Node \ Alive(m) /\ Alive(m) \subseteq Ptr
  BY SoundFacts DEF CopyRuns, Fresh
<1>3. Placed(m, n, p, m[p].last_child, Null, r)
  <2>1. m[f].data \in Data \cup {Blank}
    BY DataFacts
  <2> QED
    BY <2>1, <1>1, <1>2, Insertions
<1>4. /\ Sound(r) /\ Alive(r) = Alive(m) \cup {n} /\ r[n].parent = p
      /\ \A y \in Alive(m) : r[y].parent = m[y].parent /\ m[y].parent # n
      /\ \A y \in Ptr \ {n} :
           r[y].next_sibling = IF y = m[p].last_child THEN n ELSE m[y].next_sibling
  BY <1>3 DEF Placed
<1>5. d.last = r[d.start].next_sibling
  <2>1. Parental(m, {}, p) /\ c.start # Null
    BY <1>1, <1>2, SoundFacts
  <2>2. c.start # m[p].last_child
    BY <2>1, <1>1, <1>2 DEF Parental
  <2> QED
    BY <2>2, <1>2, <1>4 DEF Continued
<1> DEFINE L == K \cup {n}
           h == [k \in L |-> IF k = n THEN f ELSE g[k]]
<1>6. /\ L \in SUBSET Alive(r) /\ h \in [L -> Alive(r)]
      /\ h[n] = f /\ \A k \in K : h[k] = g[k]
      /\ K \subseteq L /\ n \in L /\ n \notin K
  BY <1>1, <1>2, <1>4
<1>7. L = K \cup {n}
  OBVIOUS
<1> HIDE DEF L, h
<1>8. d.top \in L /\ d.to \in L /\ d.start \notin L /\ h[d.top] = d.start /\ h[d.to] = d.from
  BY <1>1, <1>2, <1>6, <1>7 DEF Continued
<1>9. \A x \in Alive(r) : r[x].parent \in L => x \in L
  BY <1>1, <1>4, <1>6, <1>7
<1>10. ASSUME NEW k \in L \ {d.top}
       PROVE  r[k].parent \in L /\ r[h[k]].parent = h[r[k].parent]
  <2>1. CASE k = n
    BY <2>1, <1>1, <1>4, <1>6
  <2>2. CASE k # n
    <3>1. k \in K \ {c.top}
      BY <2>2, <1>7 DEF Continued
    <3>2. m[k].parent \in K /\ m[g[k]].parent = g[m[k].parent] /\ g[k] \in Alive(m)
      BY <3>1, <1>1
    <3>3. r[k].parent = m[k].parent /\ r[g[k]].parent = m[g[k]].parent
      BY <3>1, <3>2, <1>1, <1>4
    <3> QED
      BY <3>1, <3>2, <3>3, <1>6
  <2> QED
    BY <2>1, <2>2
<1>11. d.start \in Alive(r) /\ d.from \in Alive(r)
  BY <1>2, <1>4 DEF Continued
<1> QED
  BY <1>3, <1>4, <1>5, <1>6, <1>8, <1>9, <1>10, <1>11 DEF CopyRuns

(* The children of the source have their copies next. *)
LEMMA CopyDownKeeps ==
  ASSUME TreeInv, NEW n \in Fresh(mem), CopyDown(n)
  PROVE  /\ TreeInv' /\ Continued(copying, copying', "down", copying'.from, n)
         /\ copying.to \in Alive(mem)
         /\ Placed(mem, n, copying.to, mem[copying.to].last_child, Null, mem')
<1> DEFINE f == mem[copying.from].first_child
<1>1. /\ copying # Null /\ copying.phase = "down" /\ f # Null
      /\ mem' = append_child(mem, copying.to, n, mem[f].data)
      /\ copying' = [copying EXCEPT !.from = f, !.to = n]
  BY DEF CopyDown, InPhase, Copying, Continue
<1>2. Sound(mem) /\ CopyRecord(copying) /\ CopyRuns(mem, copying)
  BY <1>1 DEF TreeInv, CopySound
<1>3. Continued(copying, copying', "down", f, n)
  BY <1>1, <1>2, ContinueFields
<1>4. PICK K, g : CopyMap(mem, copying, K, g)
  BY <1>2, CopyRunsFacts
<1>5. copying.to \in K /\ g[copying.to] = copying.from /\ copying.from \in Alive(mem)
      /\ copying.to \in Alive(mem)
  BY <1>2, <1>4 DEF CopyMap, CopyRuns
<1>6. f \in Alive(mem) /\ mem[f].parent = g[copying.to]
  <2>1. Parental(mem, {}, copying.from) /\ InLists(mem, {}) = Alive(mem)
    BY <1>2, <1>5, SoundFacts
  <2> QED
    BY <2>1, <1>1, <1>5 DEF Parental
<1> HIDE DEF f
<1>7. /\ Sound(mem') /\ CopyRuns(mem', copying')
      /\ Placed(mem, n, copying.to, mem[copying.to].last_child, Null, mem')
  BY <1>1, <1>2, <1>3, <1>4, <1>5, <1>6, CopyGrows
<1> QED
  BY <1>3, <1>5, <1>7 DEF TreeInv, CopySound, Continued

(* The loop reads the links of its node and of the counterpart only when    *)
(* they lead to nodes. *)
LEMMA CopyRightFacts ==
  ASSUME TreeInv, AtBottom, Copying
  PROVE  /\ CopyRuns(mem, copying) /\ copying.from \in Alive(mem) /\ copying.to \in Alive(mem)
         /\ copying.from # copying.start =>
              mem[copying.to].parent \in Alive(mem) /\ mem[copying.from].parent \in Alive(mem)
         /\ ~ NoneRight /\ mem[copying.from].next_sibling # copying.last =>
              /\ copying.from # copying.start
              /\ mem[copying.from].next_sibling \in Alive(mem)
              /\ mem[mem[copying.from].next_sibling].parent = mem[copying.from].parent
<1>1. Sound(mem) /\ CopyRuns(mem, copying)
  BY DEF TreeInv, CopySound, AtBottom, InPhase, Copying
<1>2. /\ copying.from \in Alive(mem) /\ copying.to \in Alive(mem)
      /\ copying.last = mem[copying.start].next_sibling
      /\ copying.from # copying.start =>
           mem[copying.to].parent \in Alive(mem) /\ mem[copying.from].parent \in Alive(mem)
  BY <1>1, CopyRunsFacts
<1>3. ASSUME ~ NoneRight, mem[copying.from].next_sibling # copying.last
      PROVE  /\ copying.from # copying.start
             /\ mem[copying.from].next_sibling \in Alive(mem)
             /\ mem[mem[copying.from].next_sibling].parent = mem[copying.from].parent
  <2>1. copying.from # copying.start
    BY <1>2, <1>3
  <2>2. mem[copying.from].next_sibling # Null
    BY <2>1, <1>3 DEF NoneRight
  <2>3. mem[copying.from].parent # Null
    BY <2>1, <1>1, <1>2, SoundFacts
  <2>4. /\ Linked(mem, {}, copying.from) /\ InLists(mem, {}) = Alive(mem)
        /\ \A d \in Feets : mem[d].parent = Null
    BY <1>1, <1>2, SoundFacts
  <2> QED
    BY <2>1, <2>2, <2>3, <2>4 DEF Linked
<1> QED
  BY <1>1, <1>2, <1>3

LEMMA CopyRightKeeps ==
  ASSUME TreeInv, NEW n \in Fresh(mem), CopyRight(n)
  PROVE  /\ TreeInv' /\ Continued(copying, copying', "down", copying'.from, n)
         /\ mem[copying.to].parent \in Alive(mem)
         /\ Placed(mem, n, mem[copying.to].parent,
                   mem[mem[copying.to].parent].last_child, Null, mem')
<1> DEFINE f == mem[copying.from].next_sibling
           p == mem[copying.to].parent
<1>1. /\ copying # Null /\ AtBottom /\ Copying /\ ~ NoneRight /\ f # copying.last
      /\ mem' = append_child(mem, p, n, mem[f].data)
      /\ copying' = [copying EXCEPT !.phase = "down", !.from = f, !.to = n]
  BY DEF CopyRight, AtBottom, InPhase, Copying, Continue
<1>2. Sound(mem) /\ CopyRecord(copying)
  BY <1>1 DEF TreeInv, CopySound
<1>3. Continued(copying, copying', "down", f, n)
  BY <1>1, <1>2, ContinueFields
<1>4. /\ CopyRuns(mem, copying) /\ copying.from # copying.start
      /\ f \in Alive(mem) /\ mem[f].parent = mem[copying.from].parent
      /\ p \in Alive(mem)
  BY <1>1, CopyRightFacts
<1>5. PICK K, g : CopyMap(mem, copying, K, g)
  BY <1>2, <1>4, CopyRunsFacts
<1>6. p \in K /\ mem[copying.from].parent = g[p]
  BY <1>4, <1>5 DEF CopyMap
<1> HIDE DEF f, p
<1>7. /\ Sound(mem') /\ CopyRuns(mem', copying')
      /\ Placed(mem, n, p, mem[p].last_child, Null, mem')
  BY <1>1, <1>2, <1>3, <1>4, <1>5, <1>6, CopyGrows
<1> QED
  BY <1>3, <1>4, <1>7 DEF TreeInv, CopySound, Continued, f, p

LEMMA CopyUpKeeps ==
  ASSUME TreeInv, CopyUp
  PROVE  TreeInv'
<1> DEFINE f == mem[copying.from].parent
           o == mem[copying.to].parent
<1>1. /\ copying # Null /\ AtBottom /\ Copying /\ copying.from # copying.start
      /\ mem' = mem
      /\ copying' = [copying EXCEPT !.phase = "up", !.from = f, !.to = o]
  BY DEF CopyUp, NoneRight, AtBottom, InPhase, Copying, Continue
<1>2. Sound(mem) /\ CopyRecord(copying)
  BY <1>1 DEF TreeInv, CopySound
<1>3. Continued(copying, copying', "up", f, o)
  BY <1>1, <1>2, ContinueFields
<1>4. CopyRuns(mem, copying) /\ f \in Alive(mem)
  BY <1>1, CopyRightFacts
<1>5. PICK K, g : CopyMap(mem, copying, K, g)
  BY <1>2, <1>4, CopyRunsFacts
<1>6. o \in K /\ f = g[o]
  BY <1>1, <1>5 DEF CopyMap
<1> HIDE DEF f, o
<1>7. CopyRuns(mem, copying')
  BY <1>3, <1>4, <1>5, <1>6 DEF CopyRuns, CopyMap, Continued
<1> QED
  BY <1>1, <1>2, <1>3, <1>7 DEF TreeInv, CopySound, Continued

LEMMA CopyEndsKeeps ==
  ASSUME TreeInv, CopyEnds
  PROVE  TreeInv'
<1>1. /\ copying # Null /\ AtBottom /\ Copying /\ mem' = mem
      /\ copying' = [copying EXCEPT !.phase = "done"]
  BY DEF CopyEnds, AtBottom, InPhase, Copying, Continue
<1>2. Sound(mem) /\ CopyRecord(copying)
  BY <1>1 DEF TreeInv, CopySound
<1>3. Continued(copying, copying', "done", copying.from, copying.to)
  BY <1>1, <1>2, ContinueFields
<1>4. copying.start \in Alive(mem)
  BY <1>1, CopyRightFacts DEF CopyRuns
<1> QED
  BY <1>1, <1>2, <1>3, <1>4 DEF TreeInv, CopySound, Continued

LEMMA CopyHeadKeeps ==
  ASSUME TreeInv, NEW n \in Fresh(mem), CopyHead(n)
  PROVE  TreeInv'
<1>1. /\ copying # Null /\ copying.phase = "heads" /\ copying.from # copying.last
      /\ mem' = insert(mem, copying.to, n, mem[copying.from].data)
      /\ copying' = [copying EXCEPT !.from = mem[copying.from].next_sibling, !.to = n]
  BY DEF CopyHead, InPhase, Copying, Continue
<1>2. Sound(mem) /\ CopyRecord(copying) /\ HeadsRun(mem, copying)
  BY <1>1 DEF TreeInv, CopySound
<1>3. Continued(copying, copying', "heads", mem[copying.from].next_sibling, n)
  BY <1>1, <1>2, ContinueFields
<1>4. PICK t \in Tree, u \in Tree :
        /\ copying.start = head(u) /\ copying.top = head(t)
        /\ copying.last = feet(u) /\ copying.to \in Alive(mem) \cup Feets
        /\ \E T : TopLevel(mem, {}, u, T) /\ copying.from \in T \cup {feet(u)}
  BY <1>2 DEF HeadsRun
<1>5. PICK U : TopLevel(mem, {}, u, U) /\ copying.from \in U
  BY <1>1, <1>4
<1>6. /\ n \in Node \ Alive(mem) /\ copying.from \in Alive(mem)
      /\ mem[copying.from].next_sibling \in U \cup {feet(u)}
  BY <1>2, <1>5, SoundFacts DEF Fresh, TopLevel
<1>7. PICK p, b, a : Placed(mem, n, p, b, a, mem')
  <2>1. mem[copying.from].data \in Data \cup {Blank}
    BY <1>2, <1>6, DataFacts
  <2>2. copying.to \in Alive(mem) \/ \E v \in Tree : copying.to = feet(v)
    BY <1>4 DEF Feets
  <2> QED
    BY <2>1, <2>2, <1>1, <1>2, <1>6, Insertions
<1>8. /\ Sound(mem') /\ n \in Alive(mem')
      /\ TopLevel(mem', {}, u, IF b \in U \cup {head(u)} THEN U \cup {n} ELSE U)
  BY <1>5, <1>7 DEF Placed
<1>9. HeadsRun(mem', copying')
  <2>1. copying'.from \in (IF b \in U \cup {head(u)} THEN U \cup {n} ELSE U) \cup {feet(u)}
    BY <1>3, <1>6 DEF Continued
  <2> QED
    BY <2>1, <1>3, <1>4, <1>8 DEF HeadsRun, Continued
<1> QED
  BY <1>3, <1>8, <1>9 DEF TreeInv, CopySound, Continued

LEMMA HeadsCopiedKeeps ==
  ASSUME TreeInv, HeadsCopied
  PROVE  TreeInv'
<1>1. /\ copying # Null /\ copying.phase = "heads" /\ mem' = mem
      /\ copying' = [copying EXCEPT !.phase = "next",
                                    !.from = mem[copying.start].next_sibling,
                                    !.to = mem[copying.top].next_sibling]
  BY DEF HeadsCopied, InPhase, Copying, Continue
<1>2. Sound(mem) /\ CopyRecord(copying) /\ HeadsRun(mem, copying)
  BY <1>1 DEF TreeInv, CopySound
<1>3. Continued(copying, copying', "next", mem[copying.start].next_sibling,
                mem[copying.top].next_sibling)
  BY <1>1, <1>2, ContinueFields
<1>4. mem[copying.start].next_sibling \in Alive(mem) \cup Feets
  <2>1. PICK u \in Tree : copying.start = head(u) /\ \E T : TopLevel(mem, {}, u, T)
    BY <1>2 DEF HeadsRun
  <2> QED
    BY <2>1, <1>2, SoundFacts DEF TopLevel, Feets
<1> QED
  BY <1>1, <1>2, <1>3, <1>4 DEF TreeInv, CopySound, Continued

LEMMA CopyNextKeeps ==
  ASSUME TreeInv, NEW n \in Node, CopyNext(n)
  PROVE  TreeInv'
<1>1. /\ copying # Null /\ copying.phase = "next" /\ copying.from \in Node
      /\ copying.to \in Alive(mem)
      /\ Begin(mem, copying.to, copying.from, n, TRUE)
  BY DEF CopyNext, InPhase, Copying
<1>2. Sound(mem) /\ copying.from \in Alive(mem)
  BY <1>1, PtrFacts, DummyFacts DEF TreeInv, CopySound
<1> QED
  BY <1>1, <1>2, BeginKeeps

LEMMA CopyReturnsKeeps ==
  ASSUME TreeInv, CopyReturns
  PROVE  TreeInv'
<1>1. Sound(mem) /\ mem' = mem
  BY DEF TreeInv, CopyReturns
<1>2. CASE copying' = Null
  BY <1>1, <1>2 DEF TreeInv, CopySound
<1>3. CASE /\ InPhase("done") /\ copying.all
           /\ Continue([copying EXCEPT !.phase = "next",
                                       !.from = mem[copying.start].next_sibling,
                                       !.to = mem[copying.top].next_sibling])
  <2>1. copying # Null /\ copying.phase = "done"
    BY <1>3 DEF InPhase, Copying
  <2>2. CopyRecord(copying) /\ copying.start \in Alive(mem)
    BY <2>1 DEF TreeInv, CopySound
  <2>3. Continued(copying, copying', "next", mem[copying.start].next_sibling,
                  mem[copying.top].next_sibling)
    BY <1>3, <2>2, ContinueFields DEF Continue
  <2>4. mem[copying.start].next_sibling \in Alive(mem) \cup {Null} \cup Feets
    BY <1>1, <2>2, SoundFacts DEF Linked
  <2> QED
    BY <1>1, <2>3, <2>4 DEF TreeInv, CopySound, Continued
<1> QED
  BY <1>2, <1>3 DEF CopyReturns

-----------------------------------------------------------------------------
LEMMA InitSound ==
  ASSUME Init
  PROVE  TreeInv
<1>1. mem = head_initialise /\ copying = Null
  BY DEF Init
<1>2. ASSUME NEW x \in Node PROVE mem[x] = Unused
  BY <1>1, <1>2, PtrFacts DEF head_initialise
<1>3. ASSUME NEW t \in Tree
      PROVE  /\ mem[head(t)] = tree_node(Null, Null, feet(t), Blank)
             /\ mem[feet(t)] = tree_node(Null, head(t), Null, Blank)
  <2>1. /\ head(t) \in Ptr /\ feet(t) \in Ptr /\ head(t) \notin Node /\ feet(t) \notin Node
        /\ head(t)[1] = "head" /\ head(t)[2] = t /\ feet(t)[1] = "feet" /\ feet(t)[2] = t
    BY PtrFacts DEF head, feet
  <2> QED
    BY <2>1, <1>1 DEF head_initialise
<1>4. Alive(mem) = {}
  BY <1>2 DEF Alive, Unused, tree_node
<1>5. mem \in Memory
  <2>1. ASSUME NEW x \in Ptr PROVE mem[x] \in TreeNode
    <3>1. CASE x \in Node
      BY <3>1, <1>2 DEF Unused, tree_node, TreeNode, Link
    <3>2. CASE x \notin Node
      <4>1. PICK t \in Tree : x = head(t) \/ x = feet(t)
        BY <3>2 DEF Ptr, Dummy, head, feet
      <4>2. head(t) \in Link /\ feet(t) \in Link /\ Null \in Link
        BY PtrFacts DEF Link
      <4>3. /\ tree_node(Null, Null, feet(t), Blank) \in TreeNode
            /\ tree_node(Null, head(t), Null, Blank) \in TreeNode
        BY <4>2 DEF tree_node, TreeNode
      <4> QED
        BY <4>1, <4>3, <1>3
    <3> QED
      BY <3>1, <3>2
  <2>2. mem = [x \in Ptr |-> mem[x]]
    BY <1>1 DEF head_initialise
  <2> QED
    BY <2>1, <2>2 DEF Memory
<1>6. ASSUME NEW t \in Tree PROVE TopLevel(mem, {}, t, {})
  <2>1. /\ mem[head(t)].parent = Null /\ mem[head(t)].next_sibling = feet(t)
        /\ mem[feet(t)].parent = Null /\ mem[feet(t)].prev_sibling = head(t)
    <3>1. \A p, b, a, x : /\ tree_node(p, b, a, x).parent = p
                          /\ tree_node(p, b, a, x).prev_sibling = b
                          /\ tree_node(p, b, a, x).next_sibling = a
      BY DEF tree_node
    <3> QED
      BY <3>1, <1>3
  <2> QED
    BY <2>1 DEF TopLevel
<1>7. NoRing(mem, {}) /\ NoCycle(mem)
  BY <1>4 DEF NoRing, NoCycle, InLists
<1>8. Sound(mem)
  BY <1>4, <1>5, <1>6, <1>7 DEF Sound, Loose, InLists
<1> QED
  BY <1>1, <1>8 DEF TreeInv, CopySound

LEMMA NextSound ==
  ASSUME TreeInv, [Next]_vars
  PROVE  TreeInv'
<1>1. Sound(mem)
  BY DEF TreeInv
<1>2. ASSUME Sound(mem'), copying' = Null PROVE TreeInv'
  BY <1>2 DEF TreeInv, CopySound
<1>3. CASE Removal
  <2>1. copying' = Null
    BY <1>3 DEF Removal, Clear, Erase, EraseChildren, Call
  <2> QED
    BY <2>1, <1>1, <1>2, <1>3, RemovalSound
<1>4. CASE Rearrange
  <2>1. copying' = Null
    BY <1>4 DEF Rearrange, Flatten, SwapWithNext, MoveAfter, MoveBefore, ReplaceData,
                Reparent, ReparentAll, MoveOntop, Swap, Call
  <2> QED
    BY <2>1, <1>1, <1>2, <1>4, RearrangeSound
<1>5. ASSUME NEW n \in Fresh(mem), NEW x \in Data, NewNode(n, x) PROVE TreeInv'
  <2>1. copying' = Null
    BY <1>5 DEF NewNode, SetHead, InsertAtEndMoved, AppendChild, PrependChild,
                InsertAtEnd, Insert, InsertAfter, Wrap, Call
  <2> QED
    BY <2>1, <1>1, <1>2, <1>5, NewNodeSound
<1>6. CASE StartCopy
  BY <1>6, StartCopyKeeps
<1>7. CASE CopyStep
  BY <1>7, CopyUpKeeps, CopyEndsKeeps, HeadsCopiedKeeps, CopyReturnsKeeps,
     CopyDownKeeps, CopyRightKeeps, CopyHeadKeeps, CopyNextKeeps DEF CopyStep
<1>8. CASE UNCHANGED vars
  BY <1>8 DEF vars, TreeInv
<1> QED
  BY <1>3, <1>4, <1>5, <1>6, <1>7, <1>8 DEF Next

(* Whatever is called, and in the middle of every copy, the memory is that  *)
(* of trees: no list without a beginning, no branch without a root, and the *)
(* copying loop has its counterpart for every node it is at.                *)
THEOREM TreeStaysSound == Spec => []TreeInv
<1>1. Init => TreeInv
  BY InitSound
<1>2. TreeInv /\ [Next]_vars => TreeInv'
  BY NextSound
<1> QED
  BY <1>1, <1>2, PTL DEF Spec

(* Both ends of every link agree after every call and every step of a copy  *)
(* (tree.hh, debug_verify_consistency and what it takes for granted).       *)
THEOREM LinksStayInAgreement == Spec => []LinksAgree
<1>1. ASSUME TreeInv PROVE LinksAgree
  <2>1. Sound(mem) /\ InLists(mem, {}) = Alive(mem)
    BY <1>1, SoundFacts DEF TreeInv
  <2>2. ASSUME NEW x \in Alive(mem) PROVE LinkAgrees(mem, x)
    <3>1. Linked(mem, {}, x)
      BY <2>1, SoundFacts
    <3> QED
      BY <3>1, <2>1 DEF Linked, LinkAgrees, Heads, Feets
  <2>3. ASSUME NEW x \in Alive(mem) PROVE ChildrenAgree(mem, x)
    <3>1. Parental(mem, {}, x)
      BY <2>1, SoundFacts
    <3> QED
      BY <3>1, <2>1 DEF Parental, ChildrenAgree
  <2>4. ASSUME NEW t \in Tree PROVE TopAgrees(mem, t)
    <3>1. PICK T : TopLevel(mem, {}, t, T)
      BY <2>1, SoundFacts
    <3> QED
      BY <3>1, <2>1 DEF TopLevel, TopAgrees
  <2> QED
    BY <2>2, <2>3, <2>4 DEF LinksAgree, LinksAgreeIn
<1>2. TreeInv => LinksAgree
  BY <1>1
<1> QED
  BY <1>2, TreeStaysSound, PTL
=============================================================================
