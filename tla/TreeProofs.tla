---------------------------- MODULE TreeProofs -----------------------------
(***************************************************************************)
(* That every call on the tree container does to the children of every     *)
(* node what tree.hh says of it, that every live node has one place in one *)
(* tree, and that a finished copy of a subtree is the same node for node:  *)
(* for any memory and any number of trees.                                 *)
(***************************************************************************)
EXTENDS Integers, TreeChecks, LinkedTreeProofs, FiniteSetTheorems, SequenceTheorems

(* What holds a list of siblings: a node its children, the head of a tree   *)
(* its top level.  Position 0 of a list and the one after its last node are *)
(* what the links at its ends lead to.                                      *)
Owner == Node \cup Heads
parentOf(p) == IF p \in Node THEN p ELSE Null
beginOf(p) == IF p \in Node THEN Null ELSE p
endOf(p)   == IF p \in Node THEN Null ELSE feet(p[2])
firstOf(m, p) == IF p \in Node THEN m[p].first_child ELSE m[p].next_sibling
lastOf(m, p)  == IF p \in Node THEN m[p].last_child ELSE m[feet(p[2])].prev_sibling

At(p, s, i) == IF i = 0 THEN beginOf(p) ELSE IF i = Len(s) + 1 THEN endOf(p) ELSE s[i]
onward(m, p, s, i) == IF i = 0 THEN firstOf(m, p) ELSE m[s[i]].next_sibling
backward(m, p, s, i) == IF i = Len(s) + 1 THEN lastOf(m, p) ELSE m[s[i]].prev_sibling

(* s is what the links say of the list of p. *)
ListOf(m, p, s) ==
  /\ \A i \in 0..Len(s) : onward(m, p, s, i) = At(p, s, i + 1)
  /\ \A i \in 1..(Len(s) + 1) : backward(m, p, s, i) = At(p, s, i - 1)
  /\ \A i \in 1..Len(s) : m[s[i]].parent = parentOf(p)

Once(k) == \A p, q \in Owner : \A i \in 1..Len(k[p]), j \in 1..Len(k[q]) :
  k[p][i] = k[q][j] => p = q /\ i = j
Listed(k, n) == \E p \in Owner : \E i \in 1..Len(k[p]) : k[p][i] = n

(* k is what the links say of all lists; the nodes of M are in none, and    *)
(* memory that holds no node leads nowhere.                                 *)
Arranged(m, M, k) ==
  /\ m \in Memory /\ M \subseteq Alive(m)
  /\ k \in [Owner -> Seq(Node)] /\ Once(k)
  /\ \A p \in Owner : ListOf(m, p, k[p])
  /\ \A n \in Node : Listed(k, n) <=> n \in Alive(m) \ M
  /\ \A n \in Node \ Alive(m) : m[n] = Unused

(* The nodes of s, which are in no list, are linked to each other. *)
Strand(m, s) ==
  /\ s \in Seq(Node) /\ s # <<>>
  /\ \A i, j \in 1..Len(s) : s[i] = s[j] => i = j
  /\ \A i \in 1..(Len(s) - 1) :
       m[s[i]].next_sibling = s[i + 1] /\ m[s[i + 1]].prev_sibling = s[i]
-----------------------------------------------------------------------------
LEMMA LeastNatural ==
  ASSUME NEW S \in SUBSET Nat, S # {}
  PROVE  \E n \in S : \A m \in S : n <= m
<1> DEFINE T == {0..n : n \in S}
           R == StrictSubsetOrdering(Nat)
<1>1. T \subseteq FiniteSubsetsOf(Nat) /\ T # {}
  <2>1. ASSUME NEW n \in S
        PROVE  0..n \in FiniteSubsetsOf(Nat)
    <3>1. IsFiniteSet(0..n)
      BY FS_Interval
    <3> QED
      BY <3>1 DEF FiniteSubsetsOf
  <2> QED
    BY <2>1
<1>2. PICK t \in T : \A u \in T : <<u, t>> \notin R
  <2>1. IsWellFoundedOn(R, FiniteSubsetsOf(Nat))
    BY FS_StrictSubsetOrderingWellFounded
  <2> HIDE DEF T, R
  <2> QED
    BY <1>1, <2>1, WFMin
<1>3. PICK n \in S : t = 0..n
  OBVIOUS
<1>4. ASSUME NEW m \in S, m < n
      PROVE  FALSE
  <2>1. 0..m \in T /\ 0..m \subseteq 0..n /\ 0..m # 0..n /\ 0..n \in SUBSET Nat
    BY <1>4
  <2> QED
    BY <1>2, <1>3, <2>1 DEF StrictSubsetOrdering
<1> QED
  BY <1>4

LEMMA OwnerFacts ==
  /\ Null \notin Owner /\ Node \subseteq Owner /\ Owner \subseteq Ptr
  /\ \A p \in Owner : p \notin Node =>
       /\ p \in Heads /\ endOf(p) \in Feets /\ p = head(p[2]) /\ p[2] \in Tree
  /\ \A p, q \in Owner : p \notin Node /\ q \notin Node
       /\ endOf(p) = endOf(q) => p = q
  BY DummyFacts, PtrFacts DEF Owner, Heads, Feets, endOf, head, feet

(* Nodes put into a list, and taken out of it. *)
LEMMA PutSeq ==
  ASSUME NEW S, NEW u \in Seq(S), NEW s \in Seq(S), NEW i \in 0..Len(u),
         NEW v, v = Into(u, i, s)
  PROVE  /\ v \in Seq(S) /\ Len(v) = Len(u) + Len(s)
         /\ \A j \in 1..Len(v) :
              v[j] = IF j <= i THEN u[j]
                     ELSE IF j <= i + Len(s) THEN s[j - i] ELSE u[j - Len(s)]
<1> DEFINE a == SubSeq(u, 1, i)
           b == SubSeq(u, i + 1, Len(u))
           c == a \o s
<1>0. Len(u) \in Nat /\ Len(s) \in Nat /\ i \in Nat
  OBVIOUS
<1>1. a \in Seq(S) /\ Len(a) = i /\ \A j \in 1..i : a[j] = u[j]
  BY <1>0, SubSeqProperties
<1>2. b \in Seq(S) /\ Len(b) = Len(u) - i /\ \A j \in 1..(Len(u) - i) : b[j] = u[i + j]
  BY <1>0, SubSeqProperties
<1> HIDE DEF a, b
<1>3. c \in Seq(S) /\ Len(c) = i + Len(s)
      /\ \A j \in 1..(i + Len(s)) : c[j] = IF j <= i THEN u[j] ELSE s[j - i]
  <2>1. c \in Seq(S) /\ Len(c) = Len(a) + Len(s)
        /\ \A j \in 1..(Len(a) + Len(s)) :
             c[j] = IF j <= Len(a) THEN a[j] ELSE s[j - Len(a)]
    BY <1>1, ConcatProperties
  <2> QED
    BY <2>1, <1>0, <1>1
<1> HIDE DEF c
<1>4. v = c \o b
  BY DEF a, b, c, Into
<1>5. v \in Seq(S) /\ Len(v) = Len(c) + Len(b)
      /\ \A j \in 1..(Len(c) + Len(b)) :
           v[j] = IF j <= Len(c) THEN c[j] ELSE b[j - Len(c)]
  <2>1. c \in Seq(S) /\ b \in Seq(S)
    BY <1>2, <1>3
  <2> QED
    BY <2>1, <1>4, ConcatProperties
<1>6. ASSUME NEW j \in 1..Len(v)
      PROVE  v[j] = IF j <= i THEN u[j]
                    ELSE IF j <= i + Len(s) THEN s[j - i] ELSE u[j - Len(s)]
  <2>1. j \in 1..(Len(c) + Len(b)) /\ Len(c) = i + Len(s)
    BY <1>3, <1>5
  <2>2. CASE j <= Len(c)
    BY <2>1, <2>2, <1>0, <1>3, <1>5
  <2>3. CASE j > Len(c)
    <3>1. j - Len(c) \in 1..(Len(u) - i)
      BY ONLY <2>1, <2>3, <1>0, <1>2
    <3>2. b[j - Len(c)] = u[i + (j - Len(c))]
      BY <3>1, <1>2
    <3>3. i + (j - Len(c)) = j - Len(s) /\ ~ j <= Len(c) /\ ~ j <= i + Len(s) /\ ~ j <= i
      BY <2>1, <2>3, <1>0
    <3>4. v[j] = b[j - Len(c)]
      BY <2>1, <3>3, <1>5
    <3> QED
      BY <3>2, <3>3, <3>4
  <2> QED
    BY <2>2, <2>3, <2>1, <1>0
<1> QED
  BY <1>0, <1>2, <1>3, <1>5, <1>6

LEMMA CutSeq ==
  ASSUME NEW S, NEW u \in Seq(S), NEW i \in 1..Len(u), NEW j \in i..Len(u),
         NEW v, v = Without(u, i, j)
  PROVE  /\ v \in Seq(S) /\ Len(v) = Len(u) - (j - i + 1)
         /\ \A l \in 1..Len(v) :
              v[l] = IF l < i THEN u[l] ELSE u[l + (j - i + 1)]
<1> DEFINE a == SubSeq(u, 1, i - 1)
           b == SubSeq(u, j + 1, Len(u))
<1>0. Len(u) \in Nat /\ i \in Nat /\ j \in Nat /\ i >= 1 /\ i <= j /\ j <= Len(u)
  OBVIOUS
<1>1. a \in Seq(S) /\ Len(a) = i - 1 /\ \A l \in 1..(i - 1) : a[l] = u[l]
  BY <1>0, SubSeqProperties
<1>2. b \in Seq(S) /\ Len(b) = Len(u) - j /\ \A l \in 1..(Len(u) - j) : b[l] = u[j + l]
  BY <1>0, SubSeqProperties
<1>3. v = a \o b
  BY DEF Without
<1> HIDE DEF a, b
<1>4. v \in Seq(S) /\ Len(v) = Len(a) + Len(b)
      /\ \A l \in 1..(Len(a) + Len(b)) :
           v[l] = IF l <= Len(a) THEN a[l] ELSE b[l - Len(a)]
  <2>1. a \in Seq(S) /\ b \in Seq(S)
    BY <1>1, <1>2
  <2> QED
    BY ONLY <2>1, <1>3, ConcatProperties
<1>5. ASSUME NEW l \in 1..Len(v)
      PROVE  v[l] = IF l < i THEN u[l] ELSE u[l + (j - i + 1)]
  <2>1. CASE l < i
    BY <2>1, <1>0, <1>1, <1>4
  <2>2. CASE l >= i
    <3>1. l - Len(a) \in 1..(Len(u) - j) /\ l > Len(a) /\ l \in 1..(Len(a) + Len(b))
      BY <2>2, <1>0, <1>1, <1>2, <1>4
    <3>2. b[l - Len(a)] = u[j + (l - Len(a))]
      BY <3>1, <1>2
    <3>3. j + (l - Len(a)) = l + (j - i + 1) /\ ~ l <= Len(a) /\ ~ l < i
      BY <3>1, <2>2, <1>0, <1>1
    <3>4. v[l] = b[l - Len(a)]
      BY <3>1, <3>3, <1>4
    <3> QED
      BY <3>2, <3>3, <3>4
  <2> QED
    BY <2>1, <2>2, <1>0
<1>6. Len(v) = Len(u) - (j - i + 1)
  BY <1>0, <1>1, <1>2, <1>4
<1> QED
  BY <1>4, <1>5, <1>6

-----------------------------------------------------------------------------
(* b and a are what stands on both sides of the place after the first i of  *)
(* the list of p; nothing else in the tree is one of them.                  *)
Gap(k, p, i, b, a) ==
  /\ b \in Link /\ a \in Link /\ b \notin Feets /\ a \notin Heads
  /\ \A q \in Owner : \A j \in 1..Len(k[q]) :
       /\ k[q][j] = b <=> q = p /\ j = i
       /\ k[q][j] = a <=> q = p /\ j = i + 1
  /\ \A q \in Owner \ Node : /\ q = b <=> q = p /\ i = 0
                             /\ endOf(q) = a <=> q = p /\ i = Len(k[p])
  /\ b = Null <=> p \in Node /\ i = 0
  /\ a = Null <=> p \in Node /\ i = Len(k[p])
  /\ b \in Node => Listed(k, b)
  /\ a \in Node => Listed(k, a)

LEMMA GapFacts ==
  ASSUME NEW k \in [Owner -> Seq(Node)], Once(k),
         NEW p \in Owner, NEW i \in 0..Len(k[p])
  PROVE  Gap(k, p, i, At(p, k[p], i), At(p, k[p], i + 1))
<1> DEFINE u == k[p]
           b == At(p, u, i)
           a == At(p, u, i + 1)
<1>1. u \in Seq(Node) /\ Len(u) \in Nat /\ i \in Nat /\ i <= Len(u)
      /\ \A j \in 1..Len(u) : u[j] \in Node
  OBVIOUS
<1>2. /\ \A q \in Owner : \A j \in 1..Len(k[q]) : k[q][j] \in Node /\ j \in Nat /\ j >= 1
      /\ \A q \in Owner : \A j \in 1..Len(k[q]), l \in 1..Len(u) :
            k[q][j] = u[l] <=> q = p /\ j = l
  BY DEF Once
<1>3. b = IF i = 0 THEN beginOf(p) ELSE u[i]
  BY <1>1 DEF At
<1>4. a = IF i = Len(u) THEN endOf(p) ELSE u[i + 1]
  BY <1>1 DEF At
<1>5. i # 0 => i \in 1..Len(u)
  BY <1>1
<1>6. i # Len(u) => i + 1 \in 1..Len(u)
  BY <1>1
<1>7. /\ beginOf(p) \notin Node /\ endOf(p) \notin Node
      /\ beginOf(p) \in Link \ Feets /\ endOf(p) \in Link \ Heads
      /\ beginOf(p) = Null <=> p \in Node
      /\ endOf(p) = Null <=> p \in Node
      /\ \A q \in Owner \ Node : /\ q = beginOf(p) <=> q = p
                                 /\ endOf(q) = endOf(p) <=> q = p
      /\ \A q \in Owner \ Node : q \in Heads /\ endOf(q) \in Feets
  BY OwnerFacts, DummyFacts, PtrFacts DEF beginOf, endOf, Link
<1>8. /\ Node \subseteq Link /\ Null \notin Node /\ Node \cap Heads = {} /\ Node \cap Feets = {}
  BY PtrFacts, DummyFacts DEF Link
<1> HIDE DEF a, b, u
<1>9. /\ b \in Link /\ b \notin Feets
      /\ \A q \in Owner : \A j \in 1..Len(k[q]) : k[q][j] = b <=> q = p /\ j = i
      /\ \A q \in Owner \ Node : q = b <=> q = p /\ i = 0
      /\ b = Null <=> p \in Node /\ i = 0
      /\ b \in Node => Listed(k, b)
  <2>1. CASE i = 0
    <3>1. b = beginOf(p) /\ \A q \in Owner : \A j \in 1..Len(k[q]) : j # i
      BY <2>1, <1>3, <1>2
    <3> QED
      BY <2>1, <3>1, <1>2, <1>7
  <2>2. CASE i # 0
    <3>1. b = u[i] /\ b \in Node /\ i \in 1..Len(u)
      BY <2>2, <1>1, <1>3, <1>5
    <3>2. Listed(k, b)
      BY <3>1 DEF Listed, u
    <3> QED
      BY <2>2, <3>1, <3>2, <1>2, <1>7, <1>8
  <2> QED
    BY <2>1, <2>2
<1>10. /\ a \in Link /\ a \notin Heads
       /\ \A q \in Owner : \A j \in 1..Len(k[q]) : k[q][j] = a <=> q = p /\ j = i + 1
       /\ \A q \in Owner \ Node : endOf(q) = a <=> q = p /\ i = Len(u)
       /\ a = Null <=> p \in Node /\ i = Len(u)
       /\ a \in Node => Listed(k, a)
  <2>1. CASE i = Len(u)
    <3>1. /\ a = endOf(p) /\ a \notin Node
          /\ \A q \in Owner : \A j \in 1..Len(k[q]) : q = p => j # i + 1
      BY <2>1, <1>1, <1>4, <1>7 DEF u
    <3> QED
      BY <2>1, <3>1, <1>2, <1>7
  <2>2. CASE i # Len(u)
    <3>1. a = u[i + 1] /\ a \in Node /\ i + 1 \in 1..Len(u)
      BY <2>2, <1>1, <1>4, <1>6
    <3>2. Listed(k, a)
      BY <3>1 DEF Listed, u
    <3> QED
      BY <2>2, <3>1, <3>2, <1>2, <1>7, <1>8
  <2> QED
    BY <2>1, <2>2
<1> QED
  BY <1>9, <1>10 DEF Gap, a, b, u

(* A list stays what it is as long as its links do. *)
LEMMA ListSame ==
  ASSUME NEW m, NEW r, NEW p, NEW w, ListOf(m, p, w),
         firstOf(r, p) = firstOf(m, p), lastOf(r, p) = lastOf(m, p),
         \A j \in 1..Len(w) : /\ r[w[j]].parent = m[w[j]].parent
                              /\ r[w[j]].next_sibling = m[w[j]].next_sibling
                              /\ r[w[j]].prev_sibling = m[w[j]].prev_sibling,
         Len(w) \in Nat
  PROVE  ListOf(r, p, w)
<1>1. ASSUME NEW i \in 0..Len(w)
      PROVE  onward(r, p, w, i) = onward(m, p, w, i)
  BY DEF onward
<1>2. ASSUME NEW i \in 1..(Len(w) + 1)
      PROVE  backward(r, p, w, i) = backward(m, p, w, i)
  BY DEF backward
<1>3. \A i \in 1..Len(w) : r[w[i]].parent = parentOf(p)
  BY DEF ListOf
<1> QED
  BY <1>1, <1>2, <1>3 DEF ListOf

(* v is u with s after its first i nodes, as the list of p; d nodes from    *)
(* the i-th on have left u for v.                                           *)
PutIn(p, u, i, s, v) ==
  /\ Len(v) = Len(u) + Len(s)
  /\ \A j \in 1..Len(v) :
       v[j] = IF j <= i THEN u[j]
              ELSE IF j <= i + Len(s) THEN s[j - i] ELSE u[j - Len(s)]
  /\ \A j \in 0..(Len(v) + 1) :
       At(p, v, j) = IF j <= i THEN At(p, u, j)
                     ELSE IF j <= i + Len(s) THEN s[j - i] ELSE At(p, u, j - Len(s))

CutOut(p, u, i, d, v) ==
  /\ Len(v) = Len(u) - d
  /\ \A l \in 1..Len(v) : v[l] = IF l < i THEN u[l] ELSE u[l + d]
  /\ \A l \in 0..(Len(v) + 1) :
       At(p, v, l) = IF l < i THEN At(p, u, l) ELSE At(p, u, l + d)

LEMMA PutFields ==
  ASSUME NEW k \in [Owner -> Seq(Node)], NEW p \in Owner, NEW i \in 0..Len(k[p]),
         NEW s \in Seq(Node), NEW h, h = Put(k, p, i, s)
  PROVE  /\ h \in [Owner -> Seq(Node)] /\ PutIn(p, k[p], i, s, h[p])
         /\ \A q \in Owner \ {p} : h[q] = k[q]
<1> DEFINE u == k[p]
           v == Into(u, i, s)
<1>1. u \in Seq(Node) /\ Len(u) \in Nat /\ Len(s) \in Nat /\ i \in Nat /\ i <= Len(u)
      /\ i \in 0..Len(u)
  OBVIOUS
<1> HIDE DEF u
<1>0. v = Into(u, i, s)
  OBVIOUS
<1> HIDE DEF v
<1>2. /\ v \in Seq(Node) /\ Len(v) = Len(u) + Len(s)
      /\ \A j \in 1..Len(v) :
           v[j] = IF j <= i THEN u[j]
                  ELSE IF j <= i + Len(s) THEN s[j - i] ELSE u[j - Len(s)]
  <2>1. u \in Seq(Node) /\ s \in Seq(Node) /\ i \in 0..Len(u)
    BY <1>1
  <2> QED
    BY ONLY <2>1, <1>0, PutSeq
<1>3. h = [k EXCEPT ![p] = v]
  BY DEF Put, u, v
<1>4. h \in [Owner -> Seq(Node)] /\ h[p] = v /\ \A q \in Owner \ {p} : h[q] = k[q]
  BY <1>2, <1>3
<1>5. ASSUME NEW j \in 0..(Len(v) + 1)
      PROVE  At(p, v, j) =
                IF j <= i THEN At(p, u, j)
                ELSE IF j <= i + Len(s) THEN s[j - i] ELSE At(p, u, j - Len(s))
  <2>1. CASE j = 0
    BY <2>1, <1>1 DEF At
  <2>2. CASE j = Len(v) + 1
    <3>1. j - Len(s) = Len(u) + 1 /\ ~ j <= i /\ ~ j <= i + Len(s) /\ j # 0
          /\ j - Len(s) # 0
      BY <2>2, <1>1, <1>2
    <3> QED
      BY <2>2, <3>1 DEF At
  <2>3. CASE j # 0 /\ j # Len(v) + 1
    <3>0. j \in 1..Len(v) /\ j \in Nat
      BY <2>3, <1>1, <1>2
    <3>1. j \in 1..Len(v) /\ At(p, v, j) = v[j] /\ j \in Nat
      BY <2>3, <3>0 DEF At
    <3>2. CASE j <= i
      <4>1. At(p, u, j) = u[j]
        BY <3>1, <3>2, <1>1 DEF At
      <4> QED
        BY <4>1, <3>1, <3>2, <1>2
    <3>3. CASE j > i /\ j <= i + Len(s)
      BY <3>1, <3>3, <1>1, <1>2
    <3>4. CASE j > i + Len(s)
      <4>1. j - Len(s) # 0 /\ j - Len(s) # Len(u) + 1 /\ ~ j <= i
            /\ ~ j <= i + Len(s)
        BY <2>3, <3>1, <3>4, <1>1, <1>2
      <4>2. At(p, u, j - Len(s)) = u[j - Len(s)]
        BY <4>1 DEF At
      <4> QED
        BY <4>1, <4>2, <3>1, <1>2
    <3> QED
      BY <3>1, <3>2, <3>3, <3>4, <1>1
  <2> QED
    BY <2>1, <2>2, <2>3
<1>6. PutIn(p, u, i, s, v)
  BY <1>2, <1>5 DEF PutIn
<1> QED
  BY <1>4, <1>6 DEF u

LEMMA CutFields ==
  ASSUME NEW k \in [Owner -> Seq(Node)], NEW p \in Owner,
         NEW i \in 1..Len(k[p]), NEW j \in i..Len(k[p]), NEW d, d = j - i + 1,
         NEW h, h = [k EXCEPT ![p] = Without(@, i, j)]
  PROVE  /\ h \in [Owner -> Seq(Node)] /\ CutOut(p, k[p], i, d, h[p])
         /\ \A q \in Owner \ {p} : h[q] = k[q]
<1> DEFINE u == k[p]
           v == Without(u, i, j)
<1>1. u \in Seq(Node) /\ Len(u) \in Nat /\ i \in Nat /\ j \in Nat /\ d \in Nat
      /\ i <= j /\ j <= Len(u) /\ i \in 1..Len(u) /\ j \in i..Len(u) /\ 1 <= i /\ 1 <= d
      /\ d = j - i + 1
  OBVIOUS
<1> HIDE DEF u
<1>2. /\ v \in Seq(Node) /\ Len(v) = Len(u) - d
      /\ \A l \in 1..Len(v) : v[l] = IF l < i THEN u[l] ELSE u[l + d]
  BY <1>1, CutSeq
<1> HIDE DEF v
<1>3. h = [k EXCEPT ![p] = v]
  BY DEF u, v
<1>4. h \in [Owner -> Seq(Node)] /\ h[p] = v /\ \A q \in Owner \ {p} : h[q] = k[q]
  BY <1>2, <1>3
<1>5. ASSUME NEW l \in 0..(Len(v) + 1)
      PROVE  At(p, v, l) = IF l < i THEN At(p, u, l) ELSE At(p, u, l + d)
  <2>1. CASE l = 0
    BY <2>1, <1>1 DEF At
  <2>2. CASE l = Len(v) + 1
    <3>1. l + d = Len(u) + 1 /\ ~ l < i /\ l # 0 /\ l + d # 0
      BY <2>2, <1>1, <1>2
    <3> QED
      BY <2>2, <3>1 DEF At
  <2>3. CASE l # 0 /\ l # Len(v) + 1
    <3>a. Len(v) \in Nat
      BY <1>2
    <3>0. l \in 1..Len(v) /\ l \in Nat
      BY ONLY <2>3, <3>a, l \in 0..(Len(v) + 1)
    <3>1. l \in 1..Len(v) /\ At(p, v, l) = v[l] /\ l \in Nat
      BY <2>3, <3>0 DEF At
    <3>2. CASE l < i
      <4>1. At(p, u, l) = u[l]
        BY <3>1, <3>2, <1>1 DEF At
      <4> QED
        BY <4>1, <3>1, <3>2, <1>2
    <3>3. CASE ~ l < i
      <4>1. l + d # 0 /\ l + d # Len(u) + 1
        BY <3>1, <1>1, <1>2
      <4>2. At(p, u, l + d) = u[l + d]
        BY <4>1 DEF At
      <4> QED
        BY <4>2, <3>1, <3>3, <1>2
    <3> QED
      BY <3>2, <3>3
  <2> QED
    BY <2>1, <2>2, <2>3
<1>6. CutOut(p, u, i, d, v)
  BY <1>2, <1>5 DEF CutOut
<1> QED
  BY <1>4, <1>6 DEF u

-----------------------------------------------------------------------------
LEMMA ArrangedFacts ==
  ASSUME NEW m, NEW M, NEW k, Arranged(m, M, k)
  PROVE  /\ m \in Memory /\ Alive(m) \subseteq Node /\ M \subseteq Alive(m)
         /\ k \in [Owner -> Seq(Node)] /\ Once(k)
         /\ \A p \in Owner : k[p] \in Seq(Node) /\ Len(k[p]) \in Nat
         /\ \A p \in Owner : \A i \in 1..Len(k[p]) :
              k[p][i] \in Alive(m) \ M /\ k[p][i] \in Node
         /\ \A n \in Alive(m) \ M : Listed(k, n)
         /\ \A n \in Node : Listed(k, n) => n \in Alive(m) \ M
         /\ \A n \in Node : n \notin Alive(m) => m[n] = Unused
<1>1. \A p \in Owner : k[p] \in Seq(Node) /\ Len(k[p]) \in Nat
  BY DEF Arranged
<1>2. \A p \in Owner : \A i \in 1..Len(k[p]) : Listed(k, k[p][i]) /\ k[p][i] \in Node
  BY <1>1 DEF Listed
<1> QED
  BY <1>1, <1>2, AliveFacts DEF Arranged

LEMMA SameNode ==
  ASSUME NEW m \in Memory, NEW r \in Memory, NEW x \in Ptr,
         r[x].parent = m[x].parent, r[x].first_child = m[x].first_child,
         r[x].last_child = m[x].last_child, r[x].data = m[x].data,
         r[x].prev_sibling = m[x].prev_sibling,
         r[x].next_sibling = m[x].next_sibling
  PROVE  r[x] = m[x]
<1>1. r[x] \in TreeNode /\ m[x] \in TreeNode
  BY DEF Memory
<1> QED
  BY <1>1 DEF TreeNode

LEMMA SameAlive ==
  ASSUME NEW m \in Memory, NEW r \in Memory, \A x \in Ptr : r[x].data = m[x].data
  PROVE  Alive(r) = Alive(m)
  BY PtrFacts DEF Alive

(* A strand enters the place after the first i nodes of the list of p. *)
LEMMA LinkInArranges ==
  ASSUME NEW m, NEW M, NEW k, NEW s, NEW p \in Alive(m) \cup Heads,
         NEW i \in 0..Len(k[p]), NEW r, NEW h, h = Put(k, p, i, s),
         Arranged(m, M, k), Strand(m, s), ToSet(s) \subseteq M,
         NEW b, b = At(p, k[p], i), NEW a, a = At(p, k[p], i + 1),
         LinkedIn(m, r, ToSet(s), s[1], s[Len(s)], parentOf(p), b, a)
  PROVE  Arranged(r, M \ ToSet(s), h)
<1> DEFINE S == ToSet(s)
           N == M \ S
           u == k[p]
           v == h[p]
           L == Len(s)
<1>1. p \in Owner /\ p \notin (Node \ Alive(m))
  BY ArrangedFacts, DummyFacts DEF Owner
<1>2. /\ m \in Memory /\ Alive(m) \subseteq Node /\ M \subseteq Alive(m)
      /\ k \in [Owner -> Seq(Node)] /\ Once(k)
      /\ \A q \in Owner : k[q] \in Seq(Node) /\ Len(k[q]) \in Nat
      /\ \A q \in Owner : \A j \in 1..Len(k[q]) :
           k[q][j] \in Alive(m) \ M /\ k[q][j] \in Node
      /\ \A n \in Alive(m) \ M : Listed(k, n)
      /\ \A n \in Node : Listed(k, n) => n \in Alive(m) \ M
      /\ \A n \in Node : n \notin Alive(m) => m[n] = Unused
  BY ArrangedFacts
<1>3. /\ s \in Seq(Node) /\ L \in Nat /\ L >= 1
      /\ \A j \in 1..L : s[j] \in Node /\ s[j] \in S
      /\ \A j, l \in 1..L : s[j] = s[l] => j = l
      /\ \A x \in S : \E j \in 1..L : x = s[j]
      /\ \A j \in 1..(L - 1) : /\ m[s[j]].next_sibling = s[j + 1]
                               /\ m[s[j + 1]].prev_sibling = s[j]
  BY DEF Strand, ToSet
<1>4. Gap(k, p, i, b, a)
  BY <1>1, <1>2, GapFacts
<1>5. /\ h \in [Owner -> Seq(Node)] /\ Len(v) = Len(u) + L
      /\ \A q \in Owner \ {p} : h[q] = k[q]
      /\ \A j \in 1..Len(v) :
           v[j] = IF j <= i THEN u[j] ELSE IF j <= i + L THEN s[j - i] ELSE u[j - L]
      /\ \A j \in 0..(Len(v) + 1) :
           At(p, v, j) = IF j <= i THEN At(p, u, j)
                         ELSE IF j <= i + L THEN s[j - i] ELSE At(p, u, j - L)
  <2> HIDE DEF S, N, u, v, L
  <2>0. /\ k \in [Owner -> Seq(Node)] /\ p \in Owner /\ i \in 0..Len(k[p])
        /\ s \in Seq(Node) /\ h = Put(k, p, i, s)
    BY <1>1, <1>2, <1>3
  <2>1. /\ h \in [Owner -> Seq(Node)] /\ PutIn(p, k[p], i, s, h[p])
        /\ \A q \in Owner \ {p} : h[q] = k[q]
    BY ONLY <2>0, PutFields
  <2> QED
    BY <2>1 DEF PutIn, u, v, L
<1>6. LinkedIn(m, r, S, s[1], s[L], parentOf(p), b, a)
  OBVIOUS
<1>7. i \in Nat /\ i <= Len(u) /\ Len(u) \in Nat
  BY <1>1, <1>2
<1>20. L \in Nat /\ L >= 1
  BY <1>3
<1>0. b = At(p, u, i) /\ a = At(p, u, i + 1)
  OBVIOUS
<1> HIDE DEF S, u, v, L
<1>8. r \in Memory /\ Alive(r) = Alive(m)
  BY <1>2, <1>6, SameAlive DEF LinkedIn
<1>9. \A q \in Owner : \A j \in 1..Len(k[q]) : k[q][j] \notin S
  BY <1>2, <1>3 DEF S
<1>10. /\ s[1] \in S /\ s[L] \in S /\ 1 \in 1..L /\ L \in 1..L
  BY <1>3
<1>11. b \notin S /\ a \notin S /\ S \subseteq M /\ S \subseteq Node
  BY <1>2, <1>4 DEF Gap, S
<1>12. Once(h)
  <2>1. ASSUME NEW q \in Owner, NEW g \in Owner,
               NEW j \in 1..Len(h[q]), NEW l \in 1..Len(h[g]), h[q][j] = h[g][l],
               q # p
        PROVE  q = g /\ j = l
    <3>1. h[q] = k[q] /\ h[q][j] \notin S
      BY <2>1, <1>5, <1>9
    <3>2. CASE g = p
      <4>1. l \in 1..Len(v) /\ h[g][l] = v[l] /\ l \in Nat
        BY <3>2, <1>5 DEF v
      <4>2. CASE l <= i
        <5>1. l \in 1..Len(u) /\ v[l] = u[l]
          BY <4>1, <4>2, <1>5, <1>7
        <5> QED
          BY <5>1, <4>1, <3>1, <3>2, <2>1, <1>1, <1>2 DEF Once, u
      <4>3. CASE l > i /\ l <= i + L
        <5>1. v[l] = s[l - i] /\ l - i \in 1..L
          BY <4>1, <4>3, <1>5, <1>7, <1>3
        <5> QED
          BY <5>1, <4>1, <3>1, <2>1, <1>3
      <4>4. CASE l > i + L
        <5>0. /\ l \in 1..Len(v) /\ Len(v) = Len(u) + L /\ Len(u) \in Nat
              /\ L \in Nat /\ i \in Nat
          BY ONLY <4>1, <1>5, <1>7, <1>3
        <5>1. l - L \in 1..Len(u) /\ v[l] = u[l - L]
          <6>1. l - L \in 1..Len(u) /\ ~(l <= i) /\ ~(l <= i + L)
            BY ONLY <5>0, <4>4
          <6> QED
            BY ONLY <6>1, <5>0, <1>5
        <5> QED
          BY ONLY <5>1, <4>1, <3>1, <3>2, <2>1, <1>1, <1>2 DEF Once, u
      <4> QED
        <5>1. l \in Nat /\ i \in Nat /\ L \in Nat
          BY ONLY <4>1, <1>7, <1>3
        <5>2. l <= i \/ (l > i /\ l <= i + L) \/ l > i + L
          BY ONLY <5>1
        <5> QED
          BY Zenon, <5>2, <4>2, <4>3, <4>4
    <3>3. CASE g # p
      BY ONLY <3>1, <3>3, <2>1, <1>5, <1>2 DEF Once
    <3> QED
      BY <3>2, <3>3
  <2>2. ASSUME NEW j \in 1..Len(v), NEW l \in 1..Len(v), v[j] = v[l]
        PROVE  j = l
    <3>1. \A x, y \in 1..Len(u) : u[x] = u[y] => x = y
      BY ONLY <1>1, <1>2 DEF Once, u
    <3>2. \A x \in 1..Len(u) : u[x] \notin S
      BY <1>1, <1>9 DEF u
    <3>3. /\ j \in Nat
          /\ j <= i => v[j] = u[j] /\ j \in 1..Len(u)
          /\ j > i /\ j <= i + L => v[j] = s[j - i] /\ j - i \in 1..L
          /\ j > i + L => v[j] = u[j - L] /\ j - L \in 1..Len(u)
      BY <1>5, <1>7, <1>3
    <3>4. /\ l \in Nat
          /\ l <= i => v[l] = u[l] /\ l \in 1..Len(u)
          /\ l > i /\ l <= i + L => v[l] = s[l - i] /\ l - i \in 1..L
          /\ l > i + L => v[l] = u[l - L] /\ l - L \in 1..Len(u)
      BY <1>5, <1>7, <1>3
    <3>5. CASE j > i /\ j <= i + L
      <4>1. v[j] = s[j - i] /\ j - i \in 1..L /\ v[j] \in S
        BY <3>3, <3>5, <1>3
      <4>2. l > i /\ l <= i + L
        BY <4>1, <3>4, <3>2, <2>2, <1>7, <1>3
      <4>3. v[l] = s[l - i] /\ l - i \in 1..L
        BY <3>4, <4>2
      <4>4. j - i = l - i
        BY <4>1, <4>3, <2>2, <1>3
      <4> QED
        BY <4>4, <3>3, <3>4, <1>7
    <3>6. CASE ~ (j > i /\ j <= i + L)
      <4>1. v[j] \notin S
        BY ONLY <3>2, <3>3, <3>6, <1>7, <1>3
      <4>2. ~ (l > i /\ l <= i + L)
        BY <4>1, <3>4, <2>2, <1>3
      <4>3. PICK x \in 1..Len(u) : v[j] = u[x] /\ x = IF j <= i THEN j ELSE j - L
        BY ONLY <3>3, <3>6, <1>7, <1>3
      <4>4. PICK y \in 1..Len(u) : v[l] = u[y] /\ y = IF l <= i THEN l ELSE l - L
        BY <3>4, <4>2, <1>7, <1>3
      <4>5. x = y
        BY <4>3, <4>4, <3>1, <2>2
      <4> QED
        BY <4>3, <4>4, <4>5, <4>2, <3>3, <3>4, <3>6, <1>7, <1>3
    <3> QED
      BY <3>5, <3>6
  <2> QED
    BY ONLY <2>1, <2>2, <1>1 DEF Once, v
<1>13. \A n \in Node : Listed(h, n) <=> n \in Alive(r) \ N
  <2>1. ASSUME NEW n \in Node, Listed(h, n)
        PROVE  n \in Alive(m) \ N
    <3>1. PICK q \in Owner : \E j \in 1..Len(h[q]) : h[q][j] = n
      BY <2>1 DEF Listed
    <3>2. PICK j \in 1..Len(h[q]) : h[q][j] = n
      BY <3>1
    <3>3. CASE q # p
      BY <3>2, <3>3, <1>2, <1>5
    <3>4. CASE q = p
      <4>1. j \in 1..Len(v) /\ v[j] = n /\ j \in Nat
        BY <3>2, <3>4 DEF v
      <4>2. CASE j <= i
        <5>1. j \in 1..Len(u) /\ n = u[j]
          BY <4>1, <4>2, <1>5, <1>7
        <5> QED
          BY <5>1, <1>1, <1>2 DEF u
      <4>3. CASE j > i /\ j <= i + L
        <5>1. n = s[j - i] /\ j - i \in 1..L
          BY <4>1, <4>3, <1>5, <1>7, <1>3
        <5> QED
          BY <5>1, <1>3, <1>11, <1>2
      <4>4. CASE j > i + L
        <5>0. j - L \in 1..Len(u) /\ ~ (j <= i) /\ ~ (j <= i + L)
          <6>1. Len(v) = Len(u) + L
            BY ONLY <1>5
          <6> QED
            BY ONLY <6>1, <4>1, <4>4, <1>7, <1>20
        <5>1. j - L \in 1..Len(u) /\ n = u[j - L]
          BY ONLY <5>0, <4>1, <1>5
        <5> QED
          BY <5>1, <1>1, <1>2 DEF u
      <4> QED
        BY <4>1, <4>2, <4>3, <4>4, <1>7, <1>3
    <3> QED
      BY <3>3, <3>4
  <2>2. ASSUME NEW n \in Alive(m) \ N
        PROVE  Listed(h, n)
    <3>1. CASE n \in S
      <4>1. PICK j \in 1..L : n = s[j]
        BY <3>1, <1>3
      <4>2. i + j \in 1..Len(v) /\ v[i + j] = s[j]
        BY <1>5, <1>7, <1>3
      <4> QED
        BY <4>1, <4>2, <1>1 DEF Listed, v
    <3>2. CASE n \notin S
      <4>1. PICK q \in Owner : \E j \in 1..Len(k[q]) : k[q][j] = n
        BY <3>2, <1>2 DEF Listed
      <4>2. PICK j \in 1..Len(k[q]) : k[q][j] = n
        BY <4>1
      <4>3. CASE q # p
        BY <4>2, <4>3, <1>5 DEF Listed
      <4>4. CASE q = p
        <5>1. j \in 1..Len(u) /\ u[j] = n
          BY <4>2, <4>4 DEF u
        <5>2. CASE j <= i
          <6>1. j \in 1..Len(v) /\ v[j] = n
            BY ONLY <5>1, <5>2, <1>5, <1>7, <1>3
          <6> QED
            BY <6>1, <1>1 DEF Listed, v
        <5>3. CASE j > i
          <6>1. j + L \in 1..Len(v) /\ j + L > i + L /\ (j + L) - L = j
            BY ONLY <5>1, <5>3, <1>5, <1>7, <1>3
          <6>2. v[j + L] = u[j]
            BY ONLY <6>1, <5>3, <1>5, <1>7, <1>3
          <6> QED
            BY <6>1, <6>2, <5>1, <1>1 DEF Listed, v
        <5> QED
          BY <5>1, <5>2, <5>3, <1>7
      <4> QED
        BY <4>3, <4>4
    <3> QED
      BY <3>1, <3>2
  <2> QED
    BY <2>1, <2>2, <1>8, <1>2
<1>14. ASSUME NEW n \in Node, n \notin Alive(r)
       PROVE  r[n] = Unused
  <2>1. n \notin S /\ n # b /\ n # a /\ n # p /\ n \in Ptr /\ n # parentOf(p)
    BY <1>14, <1>1, <1>2, <1>4, <1>8, <1>11, PtrFacts DEF Gap, parentOf
  <2>2. r[n] = m[n]
    BY <2>1, <1>2, <1>6, <1>8, <1>10, SameNode DEF LinkedIn
  <2> QED
    BY <2>2, <1>14, <1>2, <1>8
<1>15. ASSUME NEW q \in Owner \ {p}
       PROVE  ListOf(r, q, h[q])
  <2>1. h[q] = k[q] /\ ListOf(m, q, k[q])
    BY <1>5 DEF Arranged
  <2>2. ASSUME NEW j \in 1..Len(k[q])
        PROVE  /\ r[k[q][j]].parent = m[k[q][j]].parent
               /\ r[k[q][j]].next_sibling = m[k[q][j]].next_sibling
               /\ r[k[q][j]].prev_sibling = m[k[q][j]].prev_sibling
    <3>1. k[q][j] \notin S /\ k[q][j] # b /\ k[q][j] # a /\ k[q][j] \in Ptr
      BY <1>2, <1>4, <1>9, PtrFacts DEF Gap
    <3> QED
      BY <3>1, <1>6, <1>10 DEF LinkedIn
  <2>3. firstOf(r, q) = firstOf(m, q)
    <3>1. CASE q \in Node
      <4>1. q # parentOf(p) \/ b # Null
        BY <3>1, <1>4, PtrFacts DEF Gap, parentOf
      <4> QED
        BY <3>1, <4>1, <1>6, PtrFacts DEF LinkedIn, firstOf
    <3>2. CASE q \notin Node
      <4>1. q # b /\ q # s[L] /\ q \in Ptr
        BY <3>2, <1>4, <1>10, <1>11, OwnerFacts DEF Gap
      <4> QED
        BY <3>2, <4>1, <1>6 DEF LinkedIn, firstOf
    <3> QED
      BY <3>1, <3>2
  <2>4. lastOf(r, q) = lastOf(m, q)
    <3>1. CASE q \in Node
      <4>1. q # parentOf(p) \/ a # Null
        BY <3>1, <1>4, PtrFacts DEF Gap, parentOf
      <4> QED
        BY <3>1, <4>1, <1>6, PtrFacts DEF LinkedIn, lastOf
    <3>2. CASE q \notin Node
      <4>1. /\ endOf(q) = feet(q[2]) /\ endOf(q) # a /\ endOf(q) # s[1]
            /\ endOf(q) \in Ptr
        BY <3>2, <1>4, <1>10, <1>11, OwnerFacts, DummyFacts DEF Gap, endOf
      <4> QED
        BY <3>2, <4>1, <1>6 DEF LinkedIn, lastOf
    <3> QED
      BY <3>1, <3>2
  <2> QED
    BY <2>1, <2>2, <2>3, <2>4, <1>2, ListSame
<1>16. ListOf(r, p, v)
  <2>1. /\ \A j \in 0..Len(u) : onward(m, p, u, j) = At(p, u, j + 1)
        /\ \A j \in 1..(Len(u) + 1) : backward(m, p, u, j) = At(p, u, j - 1)
        /\ \A j \in 1..Len(u) : m[u[j]].parent = parentOf(p)
    BY <1>1 DEF Arranged, ListOf, u
  <2>2. ASSUME NEW j \in 1..Len(u)
        PROVE  /\ u[j] \in Node /\ u[j] \in Ptr /\ u[j] \notin S
               /\ u[j] = b <=> j = i
               /\ u[j] = a <=> j = i + 1
    BY <1>1, <1>2, <1>4, <1>9, PtrFacts DEF Gap, u
  <2>3. ASSUME NEW j \in 1..Len(v)
        PROVE  r[v[j]].parent = parentOf(p)
    <3>1. CASE j <= i
      <4>1. v[j] = u[j] /\ j \in 1..Len(u)
        BY <3>1, <1>5, <1>7
      <4> QED
        BY ONLY <4>1, <2>1, <2>2, <1>6 DEF LinkedIn
    <3>2. CASE j > i /\ j <= i + L
      <4>1. v[j] = s[j - i] /\ j - i \in 1..L
        BY <3>2, <1>5, <1>7, <1>3
      <4>2. s[j - i] \in S /\ s[j - i] \in Ptr
        BY <4>1, <1>3, PtrFacts
      <4> QED
        BY <4>1, <4>2, <1>6 DEF LinkedIn
    <3>3. CASE j > i + L
      <4>1. v[j] = u[j - L] /\ j - L \in 1..Len(u)
        BY <3>3, <1>5, <1>7, <1>3
      <4>2. u[j - L] \in Ptr /\ u[j - L] \notin S /\ m[u[j - L]].parent = parentOf(p)
        BY ONLY <4>1, <2>1, <2>2
      <4> QED
        BY ONLY <4>1, <4>2, <1>6 DEF LinkedIn
    <3> QED
      BY <3>1, <3>2, <3>3, <1>7, <1>3
  <2>4. ASSUME NEW j \in 0..Len(v)
        PROVE  onward(r, p, v, j) = At(p, v, j + 1)
    <3>0. j \in Nat /\ j + 1 \in 0..(Len(v) + 1)
      BY <1>5, <1>7, <1>3
    <3>1. CASE j = 0
      <4>1. onward(r, p, v, j) = firstOf(r, p) /\ onward(m, p, u, 0) = firstOf(m, p)
        BY <3>1 DEF onward
      <4>2. CASE i = 0
        <5>1. At(p, v, j + 1) = s[1] /\ b = beginOf(p)
          BY <1>0, <4>2, <3>1, <3>0, <1>5, <1>7, <1>3 DEF At
        <5>2. CASE p \in Node
          BY <4>1, <5>1, <5>2, <1>6, PtrFacts DEF LinkedIn, firstOf, beginOf, parentOf
        <5>3. CASE p \notin Node
          <6>1. p \in Ptr /\ p # s[L] /\ b = p
            BY <5>1, <5>3, <1>1, <1>10, <1>11, OwnerFacts DEF beginOf
          <6> QED
            BY <4>1, <5>1, <5>3, <6>1, <1>6 DEF LinkedIn, firstOf
        <5> QED
          BY <5>2, <5>3
      <4>3. CASE i # 0
        <5>1. At(p, v, j + 1) = At(p, u, j + 1) /\ At(p, u, j + 1) = firstOf(m, p)
          BY <4>1, <4>3, <3>1, <3>0, <2>1, <1>5, <1>7
        <5>2. /\ p \notin Node => p # b /\ p # s[L] /\ p \in Ptr
              /\ p \in Node => b # Null
          BY <4>3, <1>1, <1>4, <1>10, <1>11, OwnerFacts DEF Gap
        <5>3. firstOf(r, p) = firstOf(m, p)
          BY <5>2, <1>6, PtrFacts DEF LinkedIn, firstOf
        <5> QED
          BY <4>1, <5>1, <5>3
      <4> QED
        BY <4>2, <4>3
    <3>2. CASE j # 0 /\ j <= i
      <4>1. /\ v[j] = u[j] /\ j \in 1..Len(u) /\ j \in 0..Len(u)
            /\ onward(r, p, v, j) = r[u[j]].next_sibling
            /\ onward(m, p, u, j) = m[u[j]].next_sibling
        BY <3>0, <3>2, <1>5, <1>7 DEF onward
      <4>2. u[j] # s[L] /\ u[j] \in Ptr /\ (u[j] = b <=> j = i)
        BY <4>1, <2>2, <1>10
      <4>3. CASE j = i
        <5>1. At(p, v, j + 1) = s[1]
          BY ONLY <4>3, <3>0, <1>5, <1>7, <1>3
        <5> QED
          BY <4>1, <4>2, <4>3, <5>1, <1>6 DEF LinkedIn
      <4>4. CASE j # i
        <5>1. At(p, v, j + 1) = At(p, u, j + 1)
          BY <4>4, <3>0, <3>2, <1>5, <1>7
        <5> QED
          BY <4>1, <4>2, <4>4, <5>1, <2>1, <1>6 DEF LinkedIn
      <4> QED
        BY <4>3, <4>4
    <3>3. CASE j > i /\ j <= i + L
      <4>1. /\ v[j] = s[j - i] /\ j - i \in 1..L /\ j # 0
            /\ onward(r, p, v, j) = r[s[j - i]].next_sibling
        BY ONLY <3>0, <3>3, <1>5, <1>7, <1>3 DEF onward
      <4>2. s[j - i] # b /\ s[j - i] \in Ptr /\ (s[j - i] = s[L] <=> j - i = L)
        BY ONLY <4>1, <1>3, <1>10, <1>11, PtrFacts
      <4>3. CASE j - i = L
        <5>1. At(p, v, j + 1) = At(p, u, (j + 1) - L) /\ (j + 1) - L = i + 1
          <6>1. ~ (j + 1 <= i) /\ ~ (j + 1 <= i + L) /\ (j + 1) - L = i + 1
            BY ONLY <4>3, <3>0, <1>7, <1>20
          <6> QED
            BY ONLY <6>1, <3>0, <1>5
        <5> QED
          BY ONLY <1>0, <4>1, <4>2, <4>3, <5>1, <1>6 DEF LinkedIn
      <4>4. CASE j - i # L
        <5>0. /\ (j + 1) - i = (j - i) + 1 /\ j - i \in 1..(L - 1)
              /\ ~ (j + 1 <= i) /\ j + 1 <= i + L
          <6>1. /\ j - i \in 1..L /\ j - i # L /\ j \in Nat /\ i \in Nat /\ L \in Nat
                /\ j > i
            BY <4>1, <4>4, <3>0, <3>3, <1>7, <1>20
          <6> QED
            BY ONLY <6>1
        <5>1. /\ At(p, v, j + 1) = s[(j + 1) - i] /\ (j + 1) - i = (j - i) + 1
              /\ j - i \in 1..(L - 1)
          BY <5>0, <3>0, <1>5
        <5>2. m[s[j - i]].next_sibling = s[(j - i) + 1]
          BY <5>1, <1>3
        <5> QED
          BY <4>1, <4>2, <4>4, <5>1, <5>2, <1>6 DEF LinkedIn
      <4> QED
        BY <4>3, <4>4
    <3>4. CASE j > i + L
      <4>1. /\ v[j] = u[j - L] /\ j - L \in 1..Len(u) /\ j - L \in 0..Len(u) /\ j # 0
            /\ j - L # i
        BY <3>0, <3>4, <1>5, <1>7, <1>3
      <4>2. /\ onward(r, p, v, j) = r[u[j - L]].next_sibling
            /\ onward(m, p, u, j - L) = m[u[j - L]].next_sibling
        BY <4>1, <1>3 DEF onward
      <4>3. u[j - L] # s[L] /\ u[j - L] \in Ptr /\ u[j - L] # b
        BY <4>1, <2>2, <1>10
      <4>4. At(p, v, j + 1) = At(p, u, (j + 1) - L) /\ (j + 1) - L = (j - L) + 1
        BY <3>0, <3>4, <1>5, <1>7, <1>3
      <4> QED
        BY ONLY <4>1, <4>2, <4>3, <4>4, <2>1, <1>6 DEF LinkedIn
    <3> QED
      BY <3>0, <3>1, <3>2, <3>3, <3>4, <1>7, <1>3
  <2>5. ASSUME NEW j \in 1..(Len(v) + 1)
        PROVE  backward(r, p, v, j) = At(p, v, j - 1)
    <3>0. j \in Nat /\ j >= 1 /\ j - 1 \in 0..(Len(v) + 1) /\ j <= Len(u) + L + 1
          /\ Len(v) = Len(u) + L
      BY <1>5, <1>7, <1>3
    <3>1. CASE j = Len(v) + 1
      <4>1. /\ backward(r, p, v, j) = lastOf(r, p)
            /\ backward(m, p, u, Len(u) + 1) = lastOf(m, p)
        BY <3>1 DEF backward
      <4>2. CASE i = Len(u)
        <5>0. /\ ~ (j - 1 <= i) /\ j - 1 <= i + L /\ (j - 1) - i = L
              /\ i + 1 = Len(u) + 1 /\ i + 1 # 0
          BY <4>2, <3>1, <3>0, <1>7, <1>3
        <5>1. At(p, v, j - 1) = s[L] /\ a = endOf(p)
          BY <1>0, <5>0, <3>0, <1>5 DEF At
        <5>2. CASE p \in Node
          BY <4>1, <5>1, <5>2, <1>6, PtrFacts DEF LinkedIn, lastOf, endOf, parentOf
        <5>3. CASE p \notin Node
          <6>1. endOf(p) \in Ptr /\ endOf(p) # s[1] /\ endOf(p) = feet(p[2])
            BY <5>3, <1>1, <1>10, <1>11, OwnerFacts, DummyFacts DEF endOf
          <6> QED
            BY <4>1, <5>1, <5>3, <6>1, <1>6 DEF LinkedIn, lastOf
        <5> QED
          BY <5>2, <5>3
      <4>3. CASE i # Len(u)
        <5>1. /\ At(p, v, j - 1) = At(p, u, (j - 1) - L) /\ (j - 1) - L = (Len(u) + 1) - 1
              /\ Len(u) + 1 \in 1..(Len(u) + 1)
          BY <4>3, <3>1, <3>0, <1>5, <1>7, <1>3
        <5>2. /\ p \notin Node => /\ endOf(p) # a /\ endOf(p) # s[1] /\ endOf(p) \in Ptr
                                  /\ endOf(p) = feet(p[2])
              /\ p \in Node => a # Null
          BY <4>3, <1>1, <1>4, <1>10, <1>11, OwnerFacts, DummyFacts DEF Gap, endOf, u
        <5>3. lastOf(r, p) = lastOf(m, p)
          BY <5>2, <1>6, PtrFacts DEF LinkedIn, lastOf
        <5> QED
          BY <4>1, <5>1, <5>3, <2>1
      <4> QED
        BY <4>2, <4>3
    <3>2. CASE j <= i
      <4>1. /\ v[j] = u[j] /\ j \in 1..Len(u) /\ j \in 1..(Len(u) + 1)
            /\ j # Len(v) + 1 /\ j # Len(u) + 1 /\ j # i + 1
        BY <3>0, <3>2, <1>5, <1>7, <1>3
      <4>2. u[j] # s[1] /\ u[j] \in Ptr /\ u[j] # a
        BY <4>1, <2>2, <1>10
      <4>3. At(p, v, j - 1) = At(p, u, j - 1)
        BY <3>0, <3>2, <1>5, <1>7
      <4>4. /\ backward(r, p, v, j) = r[u[j]].prev_sibling
            /\ m[u[j]].prev_sibling = At(p, u, j - 1)
        BY <4>1, <2>1 DEF backward
      <4> QED
        BY <4>2, <4>3, <4>4, <1>6 DEF LinkedIn
    <3>3. CASE j > i /\ j <= i + L
      <4>1. /\ v[j] = s[j - i] /\ j - i \in 1..L /\ j # Len(v) + 1
            /\ backward(r, p, v, j) = r[s[j - i]].prev_sibling
        BY ONLY <1>20, <3>0, <3>3, <1>5, <1>7, <1>3 DEF backward
      <4>2. s[j - i] # a /\ s[j - i] \in Ptr /\ (s[j - i] = s[1] <=> j - i = 1)
        BY ONLY <4>1, <1>3, <1>10, <1>11, PtrFacts
      <4>3. CASE j - i = 1
        <5>1. At(p, v, j - 1) = At(p, u, i) /\ j - 1 = i
          BY ONLY <4>3, <3>0, <1>5, <1>7, <1>3
        <5> QED
          BY <1>0, <4>1, <4>2, <4>3, <5>1, <1>6 DEF LinkedIn
      <4>4. CASE j - i # 1
        <5>0. /\ (j - 1) - i = (j - i) - 1 /\ ~ (j - 1 <= i) /\ j - 1 <= i + L
              /\ (j - i) - 1 \in 1..(L - 1) /\ ((j - i) - 1) + 1 = j - i
          <6>1. /\ j - i \in 1..L /\ j - i # 1 /\ j \in Nat /\ i \in Nat /\ L \in Nat
                /\ j > i
            BY <4>1, <4>4, <3>0, <3>3, <1>7, <1>20
          <6> QED
            BY ONLY <6>1
        <5>1. /\ At(p, v, j - 1) = s[(j - 1) - i] /\ (j - 1) - i = (j - i) - 1
              /\ (j - i) - 1 \in 1..(L - 1) /\ ((j - i) - 1) + 1 = j - i
          BY <5>0, <3>0, <1>5
        <5>2. m[s[j - i]].prev_sibling = s[(j - i) - 1]
          BY <5>1, <1>3
        <5> QED
          BY <4>1, <4>2, <4>4, <5>1, <5>2, <1>6 DEF LinkedIn
      <4> QED
        BY <4>3, <4>4
    <3>4. CASE j > i + L /\ j # Len(v) + 1
      <4>0. /\ j \in 1..Len(v) /\ ~ j <= i /\ ~ j <= i + L /\ j - L # Len(u) + 1
            /\ j - L \in 1..Len(u) /\ j - L \in 1..(Len(u) + 1)
        <5>1. /\ j \in Nat /\ i \in Nat /\ L \in Nat /\ Len(u) \in Nat
              /\ Len(v) = Len(u) + L /\ j > i + L /\ j # Len(v) + 1 /\ j <= Len(u) + L + 1
          BY <3>0, <3>4, <1>7, <1>20
        <5> QED
          BY ONLY <5>1
      <4>1. /\ v[j] = u[j - L] /\ j - L \in 1..Len(u) /\ j - L \in 1..(Len(u) + 1)
            /\ j - L # Len(u) + 1
        BY <4>0, <1>5
      <4>2. /\ backward(r, p, v, j) = r[u[j - L]].prev_sibling
            /\ m[u[j - L]].prev_sibling = At(p, u, (j - L) - 1)
        BY <4>1, <3>4, <2>1 DEF backward
      <4>3. u[j - L] # s[1] /\ u[j - L] \in Ptr /\ (u[j - L] = a <=> j - L = i + 1)
        BY <4>1, <2>2, <1>10
      <4>4. CASE j - L = i + 1
        <5>0. /\ (j - 1) - i = L /\ ~ (j - 1 <= i) /\ j - 1 <= i + L
          BY <4>4, <3>0, <1>7, <1>3
        <5>1. At(p, v, j - 1) = s[(j - 1) - i] /\ (j - 1) - i = L
          BY <5>0, <3>0, <1>5
        <5> QED
          BY <4>2, <4>3, <4>4, <5>1, <1>6 DEF LinkedIn
      <4>5. CASE j - L # i + 1
        <5>1. At(p, v, j - 1) = At(p, u, (j - 1) - L) /\ (j - 1) - L = (j - L) - 1
          BY ONLY <4>5, <3>0, <3>4, <1>5, <1>7, <1>3
        <5> QED
          BY <4>2, <4>3, <4>5, <5>1, <1>6 DEF LinkedIn
      <4> QED
        BY <4>4, <4>5
    <3> QED
      BY <3>0, <3>1, <3>2, <3>3, <3>4, <1>7, <1>3
  <2> QED
    BY <2>3, <2>4, <2>5 DEF ListOf
<1>17. \A q \in Owner : ListOf(r, q, h[q])
  BY <1>15, <1>16 DEF v
<1>18. N \subseteq Alive(r) /\ N = M \ ToSet(s)
  BY <1>2, <1>8 DEF N, S
<1> HIDE DEF N
<1>19. Arranged(r, N, h)
  BY <1>5, <1>8, <1>12, <1>13, <1>14, <1>17, <1>18 DEF Arranged
<1> QED
  BY <1>18, <1>19

(* Only a live node and a head have something in their list. *)
LEMMA OwnerAlive ==
  ASSUME NEW m, NEW M, NEW k, Arranged(m, M, k),
         NEW p \in Owner, NEW i \in 1..Len(k[p])
  PROVE  p \in Alive(m) \cup Heads
<1> SUFFICES ASSUME p \in Node, p \notin Alive(m) PROVE FALSE
  BY DEF Owner
<1>1. /\ m[p] = Unused /\ Len(k[p]) \in Nat /\ Len(k[p]) >= 1 /\ 1 \in 1..Len(k[p])
      /\ k[p][1] \in Node
  BY ArrangedFacts
<1>2. onward(m, p, k[p], 0) = At(p, k[p], 1)
  BY <1>1 DEF Arranged, ListOf
<1>3. At(p, k[p], 1) = k[p][1]
  BY <1>1 DEF At
<1>4. onward(m, p, k[p], 0) = Null
  BY <1>1 DEF onward, firstOf, Unused, tree_node
<1> QED
  BY <1>1, <1>2, <1>3, <1>4, PtrFacts

(* The nodes i to j of the list of p leave it. *)
LEMMA UnlinkArranges ==
  ASSUME NEW m, NEW M, NEW k, NEW p \in Owner,
         NEW i \in 1..Len(k[p]), NEW j \in i..Len(k[p]), NEW r,
         NEW h, h = [k EXCEPT ![p] = Without(@, i, j)],
         NEW s, s = SubSeq(k[p], i, j),
         Arranged(m, M, k),
         NEW b, b = At(p, k[p], i - 1), NEW a, a = At(p, k[p], j + 1),
         Unlinked(m, r, parentOf(p), b, a)
  PROVE  Arranged(r, M \cup ToSet(s), h) /\ Strand(r, s)
<1> DEFINE S == ToSet(s)
           N == M \cup S
           u == k[p]
           v == h[p]
           d == j - i + 1
<1>1. p \in Owner /\ p \notin (Node \ Alive(m))
  BY OwnerAlive, DummyFacts
<1>2. /\ m \in Memory /\ Alive(m) \subseteq Node /\ M \subseteq Alive(m)
      /\ k \in [Owner -> Seq(Node)] /\ Once(k)
      /\ \A q \in Owner : k[q] \in Seq(Node) /\ Len(k[q]) \in Nat
      /\ \A q \in Owner : \A l \in 1..Len(k[q]) :
           k[q][l] \in Alive(m) \ M /\ k[q][l] \in Node
      /\ \A n \in Alive(m) \ M : Listed(k, n)
      /\ \A n \in Node : Listed(k, n) => n \in Alive(m) \ M
      /\ \A n \in Node : n \notin Alive(m) => m[n] = Unused
  BY ArrangedFacts
<1>3. /\ i \in Nat /\ j \in Nat /\ Len(u) \in Nat /\ d \in Nat /\ d >= 1
      /\ 1 <= i /\ i <= j /\ j <= Len(u) /\ d = j - i + 1
  BY <1>1, <1>2
<1>4. u \in Seq(Node) /\ \A l \in 1..Len(u) : u[l] \in Node /\ u[l] \in Alive(m) \ M
  BY <1>1, <1>2
<1>5. /\ h \in [Owner -> Seq(Node)] /\ Len(v) = Len(u) - d
      /\ \A q \in Owner \ {p} : h[q] = k[q]
      /\ \A l \in 1..Len(v) : v[l] = IF l < i THEN u[l] ELSE u[l + d]
      /\ \A l \in 0..(Len(v) + 1) :
           At(p, v, l) = IF l < i THEN At(p, u, l) ELSE At(p, u, l + d)
  <2> HIDE DEF S, N, u, v, d
  <2>0. /\ k \in [Owner -> Seq(Node)] /\ p \in Owner
        /\ i \in 1..Len(k[p]) /\ j \in i..Len(k[p]) /\ d = j - i + 1
        /\ h = [k EXCEPT ![p] = Without(@, i, j)]
    BY <1>1, <1>2, <1>3
  <2>1. /\ h \in [Owner -> Seq(Node)] /\ CutOut(p, k[p], i, d, h[p])
        /\ \A q \in Owner \ {p} : h[q] = k[q]
    BY ONLY <2>0, CutFields
  <2> QED
    BY <2>1 DEF CutOut, u, v
<1>6. /\ s \in Seq(Node) /\ Len(s) = d
      /\ \A l \in 1..d : s[l] = u[i + l - 1]
  <2> HIDE DEF S, N, v, d, u
  <2>1. s = SubSeq(u, i, j) /\ \A l \in i..j : u[l] \in Node
    BY <1>3, <1>4 DEF u
  <2>2. /\ s \in Seq(Node) /\ Len(s) = IF i <= j THEN j - i + 1 ELSE 0
        /\ \A l \in 1..(j - i + 1) : s[l] = u[i + l - 1]
    BY ONLY <2>1, <1>3, SubSeqProperties
  <2> QED
    BY <2>2, <1>3
<1>7. Unlinked(m, r, parentOf(p), b, a)
  OBVIOUS
<1>8. Gap(k, p, i - 1, b, u[i]) /\ Gap(k, p, j, u[j], a)
  <2>1. /\ i - 1 \in 0..Len(k[p]) /\ j \in 0..Len(k[p]) /\ (i - 1) + 1 = i
        /\ At(p, u, i) = u[i] /\ At(p, u, j) = u[j]
    BY <1>3 DEF At
  <2> QED
    BY <2>1, <1>1, <1>2, GapFacts
<1>0. b = At(p, u, i - 1) /\ a = At(p, u, j + 1)
  OBVIOUS
<1> HIDE DEF S, u, v, d
<1>9. r \in Memory /\ Alive(r) = Alive(m)
  BY <1>2, <1>7, SameAlive DEF Unlinked
<1>10. S = {u[l] : l \in i..j}
  <2>1. ASSUME NEW l \in i..j
        PROVE  u[l] \in S
    <3>1. l - i + 1 \in 1..d /\ i + (l - i + 1) - 1 = l /\ DOMAIN s = 1..d
      BY <1>3, <1>6
    <3>2. s[l - i + 1] = u[l]
      BY <3>1, <1>6
    <3> QED
      BY <3>1, <3>2 DEF S, ToSet
  <2>2. ASSUME NEW l \in DOMAIN s
        PROVE  s[l] \in {u[x] : x \in i..j}
    <3>1. l \in 1..d /\ s[l] = u[i + l - 1]
      BY <1>6
    <3>2. i + l - 1 \in i..j
      BY ONLY <3>1, <1>3
    <3> QED
      BY <3>1, <3>2
  <2> QED
    BY <2>1, <2>2 DEF S, ToSet
<1>11. /\ \A x, y \in 1..Len(u) : u[x] = u[y] => x = y
       /\ \A q \in Owner \ {p} : \A x \in 1..Len(k[q]), y \in 1..Len(u) : k[q][x] # u[y]
       /\ \A x \in 1..Len(u) : u[x] \in S <=> x \in i..j
       /\ S \subseteq Node /\ S \subseteq Alive(m)
  <2>1. /\ \A x, y \in 1..Len(u) : u[x] = u[y] => x = y
        /\ \A q \in Owner \ {p} : \A x \in 1..Len(k[q]), y \in 1..Len(u) : k[q][x] # u[y]
    BY <1>1, <1>2 DEF Once, u
  <2>2. i..j \subseteq 1..Len(u)
    BY <1>3
  <2>3. \A x \in 1..Len(u) : u[x] \in S <=> x \in i..j
    BY ONLY <2>1, <2>2, <1>10
  <2>4. S \subseteq Node /\ S \subseteq Alive(m)
    BY ONLY <2>2, <1>4, <1>10
  <2> QED
    BY ONLY <2>1, <2>3, <2>4
<1>12. ASSUME NEW l \in 1..Len(v)
       PROVE  \E x \in 1..Len(u) : /\ v[l] = u[x] /\ x \notin i..j
                                   /\ x = IF l < i THEN l ELSE l + d
  <2>0. l \in Nat /\ l >= 1 /\ l <= Len(u) - d
    BY <1>3, <1>5
  <2>1. CASE l < i
    <3>1. l \in 1..Len(u) /\ l \notin i..j
      BY <2>0, <2>1, <1>3
    <3> QED
      BY <2>1, <3>1, <1>5
  <2>2. CASE ~ l < i
    <3>1. l + d \in 1..Len(u) /\ l + d \notin i..j
      BY <2>0, <2>2, <1>3
    <3> QED
      BY <2>2, <3>1, <1>5
  <2> QED
    BY <2>1, <2>2
<1>13. Once(h)
  <2>1. ASSUME NEW q \in Owner, NEW g \in Owner,
               NEW x \in 1..Len(h[q]), NEW y \in 1..Len(h[g]), h[q][x] = h[g][y],
               q # p
        PROVE  q = g /\ x = y
    <3>1. h[q] = k[q]
      BY <2>1, <1>5
    <3>2. CASE g = p
      <4>1. y \in 1..Len(v) /\ h[g][y] = v[y]
        BY <3>2 DEF v
      <4> QED
        BY <4>1, <3>1, <2>1, <1>11, <1>12
    <3>3. CASE g # p
      BY <3>1, <3>3, <2>1, <1>5, <1>2 DEF Once
    <3> QED
      BY <3>2, <3>3
  <2>2. ASSUME NEW x \in 1..Len(v), NEW y \in 1..Len(v), v[x] = v[y]
        PROVE  x = y
    <3>1. PICK e \in 1..Len(u) : v[x] = u[e] /\ e \notin i..j /\ e = IF x < i THEN x ELSE x + d
      BY <1>12
    <3>2. PICK f \in 1..Len(u) : v[y] = u[f] /\ f \notin i..j /\ f = IF y < i THEN y ELSE y + d
      BY <1>12
    <3>3. e = f
      BY <3>1, <3>2, <2>2, <1>11
    <3>4. x \in Nat /\ y \in Nat
      BY <1>3, <1>5
    <3> QED
      BY ONLY <3>1, <3>2, <3>3, <3>4, <1>3
  <2> QED
    BY <2>1, <2>2, <1>1 DEF Once, v
<1>14. \A n \in Node : Listed(h, n) <=> n \in Alive(r) \ N
  <2>1. ASSUME NEW n \in Node, Listed(h, n)
        PROVE  n \in Alive(m) \ N
    <3>1. PICK q \in Owner : \E x \in 1..Len(h[q]) : h[q][x] = n
      BY <2>1 DEF Listed
    <3>2. PICK x \in 1..Len(h[q]) : h[q][x] = n
      BY <3>1
    <3>3. CASE q # p
      <4>1. n \in Alive(m) \ M /\ x \in 1..Len(k[q]) /\ k[q][x] = n
        BY <3>2, <3>3, <1>2, <1>5
      <4>2. n \notin S
        <5>1. i..j \subseteq 1..Len(u)
          BY <1>3
        <5> QED
          BY <4>1, <5>1, <3>3, <1>10, <1>11
      <4> QED
        BY <4>1, <4>2
    <3>4. CASE q = p
      <4>1. PICK y \in 1..Len(u) : n = u[y] /\ y \notin i..j
        BY <3>2, <3>4, <1>12 DEF v
      <4> QED
        BY <4>1, <1>4, <1>11
    <3> QED
      BY <3>3, <3>4
  <2>2. ASSUME NEW n \in Alive(m) \ N
        PROVE  Listed(h, n)
    <3>1. PICK q \in Owner : \E x \in 1..Len(k[q]) : k[q][x] = n
      BY <1>2 DEF Listed
    <3>2. PICK x \in 1..Len(k[q]) : k[q][x] = n
      BY <3>1
    <3>3. CASE q # p
      BY <3>2, <3>3, <1>5 DEF Listed
    <3>4. CASE q = p
      <4>1. x \in 1..Len(u) /\ u[x] = n /\ x \notin i..j
        BY <3>2, <3>4, <1>11 DEF u
      <4>2. PICK y \in 1..Len(v) : x = IF y < i THEN y ELSE y + d
        <5>1. CASE x < i
          <6>1. x \in 1..Len(v)
            BY <4>1, <5>1, <1>3, <1>5
          <6> QED
            BY <5>1, <6>1
        <5>2. CASE ~ x < i
          <6>1. x - d \in 1..Len(v) /\ ~ (x - d < i) /\ x = (x - d) + d
            BY <4>1, <5>2, <1>3, <1>5
          <6> QED
            BY <6>1
        <5> QED
          BY <5>1, <5>2
      <4>3. v[y] = u[x]
        BY <4>2, <1>5
      <4> QED
        BY <4>1, <4>3, <1>1 DEF Listed, v
    <3> QED
      BY <3>3, <3>4
  <2> QED
    BY <2>1, <2>2, <1>9, <1>2
<1>15. ASSUME NEW n \in Node, n \notin Alive(r)
       PROVE  r[n] = Unused
  <2>1. n # b /\ n # a /\ n # p /\ n \in Ptr /\ n # parentOf(p)
    BY <1>15, <1>1, <1>2, <1>8, <1>9, PtrFacts DEF Gap, parentOf
  <2>2. r[n] = m[n]
    BY <2>1, <1>2, <1>7, <1>9, SameNode DEF Unlinked
  <2> QED
    BY <2>2, <1>15, <1>2, <1>9
<1>16. ASSUME NEW q \in Owner \ {p}
       PROVE  ListOf(r, q, h[q])
  <2>1. h[q] = k[q] /\ ListOf(m, q, k[q])
    BY <1>5 DEF Arranged
  <2>2. ASSUME NEW x \in 1..Len(k[q])
        PROVE  /\ r[k[q][x]].parent = m[k[q][x]].parent
               /\ r[k[q][x]].next_sibling = m[k[q][x]].next_sibling
               /\ r[k[q][x]].prev_sibling = m[k[q][x]].prev_sibling
    <3>1. k[q][x] # b /\ k[q][x] # a /\ k[q][x] \in Ptr
      BY <1>2, <1>8, PtrFacts DEF Gap
    <3> QED
      BY <3>1, <1>7 DEF Unlinked
  <2>3. firstOf(r, q) = firstOf(m, q)
    <3>1. CASE q \in Node
      <4>1. q # parentOf(p) \/ b # Null
        BY <3>1, <1>8, PtrFacts DEF Gap, parentOf
      <4> QED
        BY <3>1, <4>1, <1>7, PtrFacts DEF Unlinked, firstOf
    <3>2. CASE q \notin Node
      <4>1. q # b /\ q \in Ptr
        BY <3>2, <1>8, OwnerFacts DEF Gap
      <4> QED
        BY <3>2, <4>1, <1>7 DEF Unlinked, firstOf
    <3> QED
      BY <3>1, <3>2
  <2>4. lastOf(r, q) = lastOf(m, q)
    <3>1. CASE q \in Node
      <4>1. q # parentOf(p) \/ a # Null
        BY <3>1, <1>8, PtrFacts DEF Gap, parentOf
      <4> QED
        BY <3>1, <4>1, <1>7, PtrFacts DEF Unlinked, lastOf
    <3>2. CASE q \notin Node
      <4>1. endOf(q) = feet(q[2]) /\ endOf(q) # a /\ endOf(q) \in Ptr
        BY <3>2, <1>8, OwnerFacts, DummyFacts DEF Gap, endOf
      <4> QED
        BY <3>2, <4>1, <1>7 DEF Unlinked, lastOf
    <3> QED
      BY <3>1, <3>2
  <2> QED
    BY <2>1, <2>2, <2>3, <2>4, <1>2, ListSame
<1>22. /\ \A l \in 0..Len(u) : onward(m, p, u, l) = At(p, u, l + 1)
       /\ \A l \in 1..(Len(u) + 1) : backward(m, p, u, l) = At(p, u, l - 1)
       /\ \A l \in 1..Len(u) : m[u[l]].parent = parentOf(p)
  BY <1>1 DEF Arranged, ListOf, u
<1>23. ASSUME NEW l \in 1..Len(u)
       PROVE  /\ u[l] \in Ptr
              /\ u[l] = b <=> l = i - 1
              /\ u[l] = a <=> l = j + 1
  BY ONLY <1>1, <1>4, <1>8, PtrFacts DEF Gap, u
<1>24. Len(v) = Len(u) - d
  BY <1>5
<1>17. ListOf(r, p, v)
  <2>1. ASSUME NEW l \in 1..Len(v)
        PROVE  r[v[l]].parent = parentOf(p)
    <3>1. PICK x \in 1..Len(u) : v[l] = u[x]
      BY <1>12
    <3>2. u[x] \in Ptr /\ m[u[x]].parent = parentOf(p)
      BY ONLY <1>22, <1>23
    <3>3. r[u[x]].parent = m[u[x]].parent
      BY ONLY <3>2, <1>7 DEF Unlinked
    <3> QED
      BY ONLY <3>1, <3>2, <3>3
  <2>2. ASSUME NEW l \in 0..Len(v)
        PROVE  onward(r, p, v, l) = At(p, v, l + 1)
    <3>0. l \in Nat /\ l + 1 \in 0..(Len(v) + 1) /\ l <= Len(u) - d
      BY <1>3, <1>24
    <3>1. CASE l = 0
      <4>1. onward(r, p, v, l) = firstOf(r, p) /\ onward(m, p, u, 0) = firstOf(m, p)
        BY <3>1 DEF onward
      <4>2. CASE i = 1
        <5>0. ~ (l + 1 < i) /\ (l + 1) + d = j + 1 /\ i - 1 = 0
          BY <4>2, <3>1, <1>3
        <5>1. At(p, v, l + 1) = a /\ b = beginOf(p)
          BY ONLY <1>0, <5>0, <3>0, <1>5 DEF At
        <5>2. CASE p \in Node
          BY <4>1, <5>1, <5>2, <1>7, PtrFacts DEF Unlinked, firstOf, beginOf, parentOf
        <5>3. CASE p \notin Node
          <6>1. p \in Ptr /\ b = p
            BY <5>1, <5>3, <1>1, OwnerFacts DEF beginOf
          <6> QED
            BY <4>1, <5>1, <5>3, <6>1, <1>7 DEF Unlinked, firstOf
        <5> QED
          BY <5>2, <5>3
      <4>3. CASE i # 1
        <5>0. l + 1 < i /\ 0 \in 0..Len(u) /\ l + 1 = 0 + 1 /\ i - 1 # 0
          BY <4>3, <3>1, <1>3
        <5>1. At(p, v, l + 1) = At(p, u, l + 1) /\ At(p, u, l + 1) = firstOf(m, p)
          BY <4>1, <5>0, <3>0, <1>5, <1>22
        <5>2. /\ p \notin Node => p # b /\ p \in Ptr
              /\ p \in Node => b # Null
          BY <5>0, <1>1, <1>8, OwnerFacts DEF Gap
        <5>3. firstOf(r, p) = firstOf(m, p)
          BY <5>2, <1>7, PtrFacts DEF Unlinked, firstOf
        <5> QED
          BY <4>1, <5>1, <5>3
      <4> QED
        BY <4>2, <4>3
    <3>2. CASE l # 0 /\ l < i
      <4>0. l \in 1..Len(v) /\ l \in 1..Len(u) /\ l \in 0..Len(u) /\ l <= i - 1
        BY <3>0, <3>2, <1>3, <1>24
      <4>1. /\ v[l] = u[l]
            /\ onward(r, p, v, l) = r[u[l]].next_sibling
            /\ m[u[l]].next_sibling = At(p, u, l + 1)
        BY <4>0, <3>2, <1>5, <1>22 DEF onward
      <4>2. CASE l = i - 1
        <5>0. ~ (l + 1 < i) /\ (l + 1) + d = j + 1
          BY <4>2, <3>0, <1>3
        <5>1. At(p, v, l + 1) = a
          BY <1>0, <5>0, <3>0, <1>5
        <5> QED
          BY <4>0, <4>1, <4>2, <5>1, <1>7, <1>23 DEF Unlinked
      <4>3. CASE l # i - 1
        <5>0. l + 1 < i
          BY <4>0, <4>3, <3>0, <1>3
        <5>1. At(p, v, l + 1) = At(p, u, l + 1)
          BY <5>0, <3>0, <1>5
        <5> QED
          BY <4>0, <4>1, <4>3, <5>1, <1>7, <1>23 DEF Unlinked
      <4> QED
        BY <4>2, <4>3
    <3>3. CASE l >= i
      <4>0. /\ l \in 1..Len(v) /\ ~ l < i /\ l + d \in 1..Len(u) /\ l + d \in 0..Len(u)
            /\ l + d # 0 /\ l # 0 /\ l + d # i - 1 /\ ~ (l + 1 < i)
            /\ (l + 1) + d = (l + d) + 1
        BY <3>0, <3>3, <1>3, <1>24
      <4>1. /\ v[l] = u[l + d]
            /\ onward(r, p, v, l) = r[u[l + d]].next_sibling
            /\ m[u[l + d]].next_sibling = At(p, u, (l + d) + 1)
        BY <4>0, <1>5, <1>22 DEF onward
      <4>2. At(p, v, l + 1) = At(p, u, (l + 1) + d)
        BY <4>0, <3>0, <1>5
      <4> QED
        BY <4>0, <4>1, <4>2, <1>7, <1>23 DEF Unlinked
    <3> QED
      BY <3>0, <3>1, <3>2, <3>3, <1>3
  <2>3. ASSUME NEW l \in 1..(Len(v) + 1)
        PROVE  backward(r, p, v, l) = At(p, v, l - 1)
    <3>0. /\ l \in Nat /\ l >= 1 /\ l - 1 \in 0..(Len(v) + 1) /\ l <= (Len(u) - d) + 1
      BY <1>3, <1>24
    <3>1. CASE l = Len(v) + 1
      <4>1. /\ backward(r, p, v, l) = lastOf(r, p)
            /\ backward(m, p, u, Len(u) + 1) = lastOf(m, p)
        BY <3>1 DEF backward
      <4>2. CASE j = Len(u)
        <5>0. l - 1 = i - 1 /\ l - 1 < i /\ j + 1 = Len(u) + 1 /\ j + 1 # 0
          BY <4>2, <3>1, <1>3, <1>24
        <5>1. At(p, v, l - 1) = b /\ a = endOf(p)
          BY ONLY <1>0, <5>0, <3>0, <1>5 DEF At
        <5>2. CASE p \in Node
          BY <4>1, <5>1, <5>2, <1>7, PtrFacts DEF Unlinked, lastOf, endOf, parentOf
        <5>3. CASE p \notin Node
          <6>1. endOf(p) \in Ptr /\ endOf(p) = feet(p[2])
            BY <5>3, <1>1, OwnerFacts, DummyFacts DEF endOf
          <6> QED
            BY <4>1, <5>1, <5>3, <6>1, <1>7 DEF Unlinked, lastOf
        <5> QED
          BY <5>2, <5>3
      <4>3. CASE j # Len(u)
        <5>0. /\ ~ (l - 1 < i) /\ (l - 1) + d = (Len(u) + 1) - 1
              /\ Len(u) + 1 \in 1..(Len(u) + 1)
          BY <4>3, <3>1, <3>0, <1>3, <1>24
        <5>1. At(p, v, l - 1) = At(p, u, (l - 1) + d)
          BY <5>0, <3>0, <1>5
        <5>4. lastOf(m, p) = At(p, u, (Len(u) + 1) - 1)
          BY <5>0, <4>1, <1>22
        <5>2. /\ p \notin Node => endOf(p) # a /\ endOf(p) \in Ptr /\ endOf(p) = feet(p[2])
              /\ p \in Node => a # Null
          BY <4>3, <1>1, <1>8, OwnerFacts, DummyFacts DEF Gap, endOf, u
        <5>3. lastOf(r, p) = lastOf(m, p)
          BY <5>2, <1>7, PtrFacts DEF Unlinked, lastOf
        <5> QED
          BY <4>1, <5>0, <5>1, <5>3, <5>4
      <4> QED
        BY <4>2, <4>3
    <3>2. CASE l < i /\ l # Len(v) + 1
      <4>0. /\ l \in 1..Len(v) /\ l \in 1..Len(u) /\ l \in 1..(Len(u) + 1) /\ l # Len(u) + 1
            /\ l # j + 1 /\ l - 1 < i
        BY ONLY <3>0, <3>2, <1>3, <1>24
      <4>1. /\ v[l] = u[l]
            /\ backward(r, p, v, l) = r[u[l]].prev_sibling
            /\ m[u[l]].prev_sibling = At(p, u, l - 1)
        BY <4>0, <3>2, <1>5, <1>22 DEF backward
      <4>2. At(p, v, l - 1) = At(p, u, l - 1)
        BY <4>0, <3>0, <1>5
      <4> QED
        BY <4>0, <4>1, <4>2, <1>7, <1>23 DEF Unlinked
    <3>3. CASE l >= i /\ l # Len(v) + 1
      <4>0. /\ l \in 1..Len(v) /\ ~ l < i /\ l + d \in 1..Len(u) /\ l + d \in 1..(Len(u) + 1)
            /\ l + d # Len(u) + 1
        <5>1. /\ l \in Nat /\ d \in Nat /\ i \in Nat /\ Len(u) \in Nat
              /\ Len(v) = Len(u) - d /\ l <= (Len(u) - d) + 1 /\ l # (Len(u) - d) + 1
              /\ l >= i /\ 1 <= i
          BY <3>0, <3>3, <1>3, <1>24
        <5> QED
          BY ONLY <5>1
      <4>1. /\ v[l] = u[l + d]
            /\ backward(r, p, v, l) = r[u[l + d]].prev_sibling
            /\ m[u[l + d]].prev_sibling = At(p, u, (l + d) - 1)
        BY <4>0, <3>3, <1>5, <1>22 DEF backward
      <4>2. CASE l = i
        <5>0. l + d = j + 1 /\ l - 1 = i - 1 /\ l - 1 < i
          BY <4>2, <3>0, <1>3
        <5>1. At(p, v, l - 1) = b
          BY <1>0, <5>0, <3>0, <1>5
        <5> QED
          BY <4>0, <4>1, <5>0, <5>1, <1>7, <1>23 DEF Unlinked
      <4>3. CASE l # i
        <5>0. /\ l + d # j + 1 /\ ~ (l - 1 < i) /\ (l - 1) + d = (l + d) - 1
          BY <4>3, <3>3, <3>0, <1>3
        <5>1. At(p, v, l - 1) = At(p, u, (l - 1) + d)
          BY <5>0, <3>0, <1>5
        <5> QED
          BY <4>0, <4>1, <5>0, <5>1, <1>7, <1>23 DEF Unlinked
      <4> QED
        BY <4>2, <4>3
    <3> QED
      BY <3>0, <3>1, <3>2, <3>3, <1>3
  <2> QED
    BY <2>1, <2>2, <2>3 DEF ListOf
<1>18. Strand(r, s)
  <2>1. s # <<>>
    BY ONLY <1>3, <1>6
  <2>2. ASSUME NEW x \in 1..Len(s), NEW y \in 1..Len(s), s[x] = s[y]
        PROVE  x = y
    <3>0. x \in Nat /\ y \in Nat /\ i + x - 1 \in 1..Len(u) /\ i + y - 1 \in 1..Len(u)
      BY ONLY <1>3, <1>6
    <3>1. /\ x \in Nat /\ y \in Nat /\ i + x - 1 \in 1..Len(u) /\ i + y - 1 \in 1..Len(u)
          /\ s[x] = u[i + x - 1] /\ s[y] = u[i + y - 1]
      BY <3>0, <1>6
    <3>2. i + x - 1 = i + y - 1
      BY <3>1, <2>2, <1>11
    <3> QED
      BY <3>1, <3>2, <1>3
  <2>3. ASSUME NEW x \in 1..(Len(s) - 1)
        PROVE  r[s[x]].next_sibling = s[x + 1] /\ r[s[x + 1]].prev_sibling = s[x]
    <3> DEFINE y == i + x - 1
    <3>0. x \in Nat /\ 1 <= x /\ x + 1 <= d
      BY <1>3, <1>6
    <3>1. /\ x \in 1..d /\ x + 1 \in 1..d /\ y + 1 = i + (x + 1) - 1
          /\ y \in Nat /\ i <= y /\ y + 1 <= j
      BY <3>0, <1>3
    <3>2. s[x] = u[y] /\ s[x + 1] = u[y + 1]
      BY <3>1, <1>6
    <3> HIDE DEF y
    <3>3. /\ y \in 1..Len(u) /\ y + 1 \in 1..Len(u) /\ y \in 0..Len(u)
          /\ y + 1 \in 1..(Len(u) + 1) /\ y # 0 /\ y + 1 # 0 /\ y + 1 # Len(u) + 1
          /\ y # Len(u) + 1 /\ (y + 1) - 1 = y /\ y # i - 1 /\ y + 1 # j + 1
      BY ONLY <3>1, <1>3
    <3>4. At(p, u, y + 1) = u[y + 1] /\ At(p, u, y) = u[y]
      BY <3>3 DEF At
    <3>5. m[u[y]].next_sibling = u[y + 1]
      BY <3>3, <3>4, <1>22 DEF onward
    <3>6. m[u[y + 1]].prev_sibling = u[y]
      BY <3>3, <3>4, <1>22 DEF backward
    <3>7. u[y] \in Ptr /\ u[y + 1] \in Ptr /\ u[y] # b /\ u[y + 1] # a
      BY ONLY <3>3, <1>23
    <3>8. /\ r[u[y]].next_sibling = m[u[y]].next_sibling
          /\ r[u[y + 1]].prev_sibling = m[u[y + 1]].prev_sibling
      BY ONLY <3>7, <1>7 DEF Unlinked
    <3> QED
      BY ONLY <3>2, <3>5, <3>6, <3>8
  <2> QED
    BY <2>1, <2>2, <2>3, <1>6 DEF Strand
<1>19. \A q \in Owner : ListOf(r, q, h[q])
  BY <1>16, <1>17 DEF v
<1>20. N \subseteq Alive(r) /\ N = M \cup ToSet(s)
  BY <1>2, <1>9, <1>11 DEF S
<1> HIDE DEF N
<1>21. Arranged(r, N, h)
  BY <1>5, <1>9, <1>13, <1>14, <1>15, <1>19, <1>20 DEF Arranged
<1> QED
  BY <1>18, <1>20, <1>21

-----------------------------------------------------------------------------
(* A new node is in no list and has no children. *)
LEMMA ConstructArranges ==
  ASSUME NEW m, NEW k, NEW n \in Node \ Alive(m), NEW x \in Data \cup {Blank},
         NEW r, r = Construct(m, n, x), Arranged(m, {}, k)
  PROVE  /\ Arranged(r, {n}, k) /\ Strand(r, <<n>>)
         /\ Alive(r) = Alive(m) \cup {n} /\ r[n].data = x
         /\ \A y \in Ptr \ {n} : r[y] = m[y]
<1>1. /\ m \in Memory /\ Alive(m) \subseteq Node
      /\ k \in [Owner -> Seq(Node)] /\ Once(k)
      /\ \A q \in Owner : k[q] \in Seq(Node) /\ Len(k[q]) \in Nat
      /\ \A q \in Owner : \A l \in 1..Len(k[q]) : k[q][l] \in Alive(m) /\ k[q][l] \in Node
      /\ \A y \in Alive(m) : Listed(k, y)
      /\ \A y \in Node : Listed(k, y) => y \in Alive(m)
      /\ \A y \in Node : y \notin Alive(m) => m[y] = Unused
  BY ArrangedFacts
<1>2. /\ r \in Memory /\ n \in Node
      /\ r[n].parent = Null /\ r[n].first_child = Null
      /\ r[n].last_child = Null /\ r[n].prev_sibling = Null
      /\ r[n].next_sibling = Null /\ r[n].data = x
      /\ \A y \in Ptr \ {n} : r[y] = m[y]
  BY <1>1, ConstructFields
<1>3. Alive(r) = Alive(m) \cup {n}
  BY <1>1, <1>2, PtrFacts DEF Alive
<1>4. ASSUME NEW q \in Owner
      PROVE  ListOf(r, q, k[q])
  <2>1. /\ ListOf(m, q, k[q]) /\ Len(k[q]) \in Nat
        /\ \A l \in 1..Len(k[q]) : r[k[q][l]] = m[k[q][l]]
    BY <1>1, <1>2, PtrFacts DEF Arranged
  <2>2. firstOf(r, q) = firstOf(m, q) /\ lastOf(r, q) = lastOf(m, q)
    <3>1. CASE q = n
      <4>1. m[n] = Unused /\ q \in Node
        BY <3>1, <1>1
      <4> QED
        BY <3>1, <4>1, <1>2 DEF firstOf, lastOf, Unused, tree_node
    <3>2. CASE q # n
      <4>1. /\ q \in Ptr /\ q # n
            /\ q \notin Node => feet(q[2]) \in Ptr /\ feet(q[2]) # n
        BY <3>2, <1>2, OwnerFacts, PtrFacts
      <4> QED
        BY <4>1, <1>2 DEF firstOf, lastOf
    <3> QED
      BY <3>1, <3>2
  <2> QED
    BY <2>1, <2>2, ListSame
<1>5. \A y \in Node \ Alive(r) : r[y] = Unused
  BY <1>1, <1>2, <1>3, PtrFacts
<1>6. \A y \in Node : Listed(k, y) <=> y \in Alive(r) \ {n}
  BY <1>1, <1>3
<1>7. Arranged(r, {n}, k)
  BY <1>1, <1>2, <1>3, <1>4, <1>5, <1>6 DEF Arranged
<1>8. Strand(r, <<n>>)
  BY DEF Strand
<1> QED
  BY <1>2, <1>3, <1>7, <1>8

(* All of a list leaves. *)
LEMMA EmptyArranges ==
  ASSUME NEW m, NEW k, NEW p \in Alive(m) \cup Heads, NEW r,
         Arranged(m, {}, k),
         k[p] = <<>> => r = m,
         k[p] # <<>> => Unlinked(m, r, parentOf(p), beginOf(p), endOf(p))
  PROVE  /\ Arranged(r, ToSet(k[p]), [k EXCEPT ![p] = <<>>])
         /\ k[p] # <<>> => Strand(r, k[p])
<1>1. /\ p \in Owner /\ k[p] \in Seq(Node) /\ Len(k[p]) \in Nat
      /\ k \in [Owner -> Seq(Node)]
  <2>1. /\ Alive(m) \subseteq Node /\ k \in [Owner -> Seq(Node)]
        /\ \A q \in Owner : k[q] \in Seq(Node) /\ Len(k[q]) \in Nat
    BY ArrangedFacts
  <2>2. p \in Owner
    BY <2>1 DEF Owner
  <2> QED
    BY ONLY <2>1, <2>2
<1>2. CASE k[p] = <<>>
  <2>1. ToSet(k[p]) = {} /\ [k EXCEPT ![p] = <<>>] = k
    BY <1>1, <1>2 DEF ToSet
  <2> QED
    BY <1>2, <2>1
<1>3. CASE k[p] # <<>>
  <2>1. /\ 1 \in 1..Len(k[p]) /\ Len(k[p]) \in 1..Len(k[p])
        /\ Len(k[p]) >= 1
    BY <1>1, <1>3
  <2>2. At(p, k[p], 1 - 1) = beginOf(p) /\ At(p, k[p], Len(k[p]) + 1) = endOf(p)
    BY <2>1, <1>1 DEF At
  <2>3. SubSeq(k[p], 1, Len(k[p])) = k[p]
    BY <1>1, SubSeqFull
  <2> DEFINE h == [k EXCEPT ![p] = Without(@, 1, Len(k[p]))]
  <2>4. Without(k[p], 1, Len(k[p])) = <<>>
    <3>1. /\ Without(k[p], 1, Len(k[p])) \in Seq(Node)
          /\ Len(Without(k[p], 1, Len(k[p]))) = Len(k[p]) - ((Len(k[p]) - 1) + 1)
      BY <1>1, <2>1, CutSeq
    <3>2. Len(Without(k[p], 1, Len(k[p]))) = 0
      BY <1>1, <3>1
    <3> QED
      BY <3>1, <3>2
  <2>5. h = [k EXCEPT ![p] = <<>>]
    BY <2>4
  <2> HIDE DEF h
  <2>6. Unlinked(m, r, parentOf(p), At(p, k[p], 1 - 1), At(p, k[p], Len(k[p]) + 1))
    BY <1>3, <2>2
  <2>7. Arranged(r, {} \cup ToSet(k[p]), h) /\ Strand(r, k[p])
    <3>1. /\ p \in Owner /\ 1 \in 1..Len(k[p]) /\ Len(k[p]) \in 1..Len(k[p])
          /\ h = [k EXCEPT ![p] = Without(@, 1, Len(k[p]))]
          /\ k[p] = SubSeq(k[p], 1, Len(k[p]))
          /\ Arranged(m, {}, k)
      BY <1>1, <2>1, <2>3 DEF h
    <3>2. beginOf(p) = At(p, k[p], 1 - 1) /\ endOf(p) = At(p, k[p], Len(k[p]) + 1)
      BY <2>2
    <3> QED
      BY ONLY <3>1, <3>2, <1>3, k[p] # <<>> => Unlinked(m, r, parentOf(p), beginOf(p), endOf(p)), UnlinkArranges
  <2> QED
    BY <2>5, <2>7
<1> QED
  BY <1>2, <1>3

(* Nodes are released that are in no list but those of their own. *)
LEMMA DeallocateArranges ==
  ASSUME NEW m, NEW M, NEW k, NEW D \in SUBSET Owner, NEW r,
         r = Deallocate(m, D \cap Node), Arranged(m, M, k), M \subseteq D,
         \A q \in Owner \ D : \A i \in 1..Len(k[q]) : k[q][i] \notin D,
         \A q \in D : q \in Node => \A i \in 1..Len(k[q]) : k[q][i] \in D,
         \A q \in D : q \notin Node => k[q] = <<>>
  PROVE  Arranged(r, {}, Drop(k, D)) /\ Alive(r) = Alive(m) \ D
<1> DEFINE h == Drop(k, D)
           S == D \cap Node
<1>1. /\ m \in Memory /\ Alive(m) \subseteq Node /\ M \subseteq Alive(m)
      /\ k \in [Owner -> Seq(Node)] /\ Once(k)
      /\ \A q \in Owner : k[q] \in Seq(Node) /\ Len(k[q]) \in Nat
      /\ \A q \in Owner : \A l \in 1..Len(k[q]) :
           k[q][l] \in Alive(m) \ M /\ k[q][l] \in Node
      /\ \A n \in Alive(m) \ M : Listed(k, n)
      /\ \A n \in Node : Listed(k, n) => n \in Alive(m) \ M
      /\ \A n \in Node : n \notin Alive(m) => m[n] = Unused
  BY ArrangedFacts
<1>2. /\ r \in Memory
      /\ \A x \in S : r[x] = Unused
      /\ \A x \in Ptr \ S : r[x] = m[x]
  <2>1. S \in SUBSET Node /\ r = Deallocate(m, S)
    OBVIOUS
  <2> HIDE DEF S
  <2>2. r \in Memory /\ \A x \in Ptr \ S : r[x] = m[x]
    <3>1. m \in Memory
      BY <1>1
    <3> QED
      BY ONLY <3>1, <2>1, DeallocateFields
  <2>3. \A x \in S : r[x] = Unused
    BY <2>1, PtrFacts DEF Deallocate
  <2> QED
    BY <2>2, <2>3
<1>3. Alive(r) = Alive(m) \ D
  <2>1. \A x \in Node : x \in D => r[x].data = Freed
    <3>1. Unused.data = Freed
      BY DEF Unused, tree_node
    <3> QED
      BY <3>1, <1>2
  <2>2. \A x \in Node : x \notin D => r[x].data = m[x].data
    BY <1>2, PtrFacts
  <2> QED
    BY <2>1, <2>2 DEF Alive
<1>4. /\ DOMAIN k = Owner /\ h \in [Owner -> Seq(Node)]
      /\ \A q \in Owner : h[q] = IF q \in D THEN <<>> ELSE k[q]
  BY <1>1 DEF Drop
<1> HIDE DEF h, S
<1>5. Once(h)
  BY <1>1, <1>4 DEF Once
<1>6. \A n \in Node : Listed(h, n) <=> n \in Alive(r) \ {}
  <2>1. ASSUME NEW n \in Node, Listed(h, n)
        PROVE  n \in Alive(r)
    <3>1. PICK q \in Owner : \E x \in 1..Len(h[q]) : h[q][x] = n
      BY <2>1 DEF Listed
    <3>2. PICK x \in 1..Len(h[q]) : h[q][x] = n
      BY <3>1
    <3>3. q \notin D /\ h[q] = k[q]
      BY <3>2, <1>4
    <3> QED
      BY <3>2, <3>3, <1>1, <1>3
  <2>2. ASSUME NEW n \in Alive(r)
        PROVE  Listed(h, n)
    <3>1. n \in Alive(m) /\ n \notin D /\ n \notin M
      BY <2>2, <1>3
    <3>2. PICK q \in Owner : \E x \in 1..Len(k[q]) : k[q][x] = n
      BY <3>1, <1>1 DEF Listed
    <3>3. PICK x \in 1..Len(k[q]) : k[q][x] = n
      BY <3>2
    <3>4. q \notin D
      <4>1. CASE q \in Node
        BY <4>1, <3>1, <3>3
      <4>2. CASE q \notin Node
        <5>1. k[q] # <<>>
          BY <3>3, <1>1
        <5> QED
          BY <4>2, <5>1
      <4> QED
        BY <4>1, <4>2
    <3> QED
      BY <3>3, <3>4, <1>4 DEF Listed
  <2> QED
    BY <2>1, <2>2
<1>7. ASSUME NEW q \in Owner
      PROVE  ListOf(r, q, h[q])
  <2>1. CASE q \in D /\ q \in Node
    <3>0. r[q] = Unused /\ h[q] = <<>>
      BY <2>1, <1>2, <1>4 DEF S
    <3>1. r[q] = Unused /\ h[q] = <<>> /\ Len(h[q]) = 0
      BY <3>0
    <3>2. firstOf(r, q) = Null /\ lastOf(r, q) = Null
      BY <3>1, <2>1 DEF firstOf, lastOf, Unused, tree_node
    <3>3. \A i \in 0..Len(h[q]) : onward(r, q, h[q], i) = At(q, h[q], i + 1)
      BY <2>1, <3>1, <3>2 DEF onward, At, endOf
    <3>4. \A i \in 1..(Len(h[q]) + 1) : backward(r, q, h[q], i) = At(q, h[q], i - 1)
      BY <2>1, <3>1, <3>2 DEF backward, At, beginOf
    <3>5. 1..Len(h[q]) = {}
      BY <3>1
    <3> QED
      BY <3>3, <3>4, <3>5 DEF ListOf
  <2>2. CASE q \notin D \/ q \notin Node
    <3>1. h[q] = k[q] /\ ListOf(m, q, k[q]) /\ Len(k[q]) \in Nat
      BY <2>2, <1>1, <1>4 DEF Arranged
    <3>2. \A l \in 1..Len(k[q]) : r[k[q][l]] = m[k[q][l]]
      <4>1. CASE q \notin D
        BY <4>1, <1>1, <1>2, PtrFacts DEF S
      <4>2. CASE q \in D
        BY <4>2, <2>2
      <4> QED
        BY <4>1, <4>2
    <3>3. /\ q \in Ptr /\ q \notin S
          /\ q \notin Node => feet(q[2]) \in Ptr /\ feet(q[2]) \notin S
      BY <2>2, OwnerFacts, PtrFacts DEF S
    <3>4. firstOf(r, q) = firstOf(m, q) /\ lastOf(r, q) = lastOf(m, q)
      BY <3>3, <1>2 DEF firstOf, lastOf
    <3> QED
      BY <3>1, <3>2, <3>4, ListSame
  <2> QED
    BY <2>1, <2>2
<1>8. \A n \in Node \ Alive(r) : r[n] = Unused
  BY <1>1, <1>2, <1>3, PtrFacts DEF S
<1>9. Arranged(r, {}, h)
  BY <1>2, <1>4, <1>5, <1>6, <1>7, <1>8 DEF Arranged
<1> QED
  BY <1>3, <1>9 DEF h

-----------------------------------------------------------------------------
(* What a walk to the right makes of every node. *)
Walked(m, f) ==
  f = [n \in Ptr \cup {Null} |->
         IF n \in Node THEN <<n>> \o f[m[n].next_sibling] ELSE <<>>]

LEMMA KidsWalk ==
  ASSUME NEW m
  PROVE  LET f == CHOOSE g : Walked(m, g)
         IN  Kids(m) = [p \in Owner |->
               IF p \in Node THEN f[m[p].first_child] ELSE f[m[p].next_sibling]]
  BY DEF Kids, Walked, Owner, Heads

(* The rest of a list, from its x-th node on. *)
LEMMA RestOfList ==
  ASSUME NEW u \in Seq(Node), NEW x \in 1..Len(u)
  PROVE  /\ x + 1 \in 1..Len(u) =>
              SubSeq(u, x, Len(u)) = <<u[x]>> \o SubSeq(u, x + 1, Len(u))
         /\ x = Len(u) => SubSeq(u, x, Len(u)) = <<u[x]>> \o <<>>
<1>1. Len(u) \in Nat /\ Len(u) \in x..Len(u) /\ x + 1 \in Int
  OBVIOUS
<1>2. SubSeq(u, x, Len(u)) = <<u[x]>> \o SubSeq(u, x + 1, Len(u))
  BY <1>1, SubSeqRecursiveFirst
<1>3. x = Len(u) => SubSeq(u, x + 1, Len(u)) = <<>>
  BY <1>1, SubSeqEmpty
<1> QED
  BY <1>2, <1>3

LEMMA WalkExists ==
  ASSUME NEW m, NEW k, Arranged(m, {}, k)
  PROVE  \E f : Walked(m, f)
<1> DEFINE rest(n) == CHOOSE s : \E q \in Owner : \E x \in 1..Len(k[q]) :
                        n = k[q][x] /\ s = SubSeq(k[q], x, Len(k[q]))
           value(n) == IF n \notin Node THEN <<>>
                       ELSE IF n \in Alive(m) THEN rest(n) ELSE <<n>>
           f == [n \in Link |-> value(n)]
<1>1. /\ \A q \in Owner : k[q] \in Seq(Node) /\ Len(k[q]) \in Nat
      /\ \A q \in Owner : \A l \in 1..Len(k[q]) : k[q][l] \in Alive(m) /\ k[q][l] \in Node
      /\ \A y \in Alive(m) : Listed(k, y)
      /\ \A y \in Node : y \notin Alive(m) => m[y] = Unused
      /\ Once(k)
  BY ArrangedFacts
<1>2. ASSUME NEW q \in Owner, NEW x \in 1..Len(k[q])
      PROVE  rest(k[q][x]) = SubSeq(k[q], x, Len(k[q]))
  <2>1. \A g \in Owner : \A y \in 1..Len(k[g]) :
          k[q][x] = k[g][y] => g = q /\ y = x
    BY <1>1 DEF Once
  <2>2. \A s : (\E g \in Owner : \E y \in 1..Len(k[g]) :
                  k[q][x] = k[g][y] /\ s = SubSeq(k[g], y, Len(k[g])))
               <=> s = SubSeq(k[q], x, Len(k[q]))
    BY <2>1
  <2> QED
    BY <2>2
<1> HIDE DEF rest
<1>3. ASSUME NEW q \in Owner, NEW x \in 1..Len(k[q])
      PROVE  f[k[q][x]] = SubSeq(k[q], x, Len(k[q]))
  BY <1>1, <1>2, PtrFacts DEF Link
<1>4. \A n \in Link \ Node : f[n] = <<>>
  OBVIOUS
<1>5. ASSUME NEW n \in Node
      PROVE  f[n] = <<n>> \o f[m[n].next_sibling]
  <2>1. CASE n \in Alive(m)
    <3>1. PICK q \in Owner : \E x \in 1..Len(k[q]) : k[q][x] = n
      BY <2>1, <1>1 DEF Listed
    <3>2. PICK x \in 1..Len(k[q]) : k[q][x] = n
      BY <3>1
    <3>3. /\ x \in 0..Len(k[q]) /\ x # 0 /\ Len(k[q]) \in Nat /\ x \in Nat
          /\ x + 1 # 0 /\ x <= Len(k[q])
      BY <1>1
    <3>4. m[n].next_sibling = At(q, k[q], x + 1)
      BY <3>2, <3>3 DEF Arranged, ListOf, onward
    <3>5. CASE x = Len(k[q])
      <4>1. At(q, k[q], x + 1) = endOf(q) /\ endOf(q) \in Link \ Node
        BY <3>3, <3>5, OwnerFacts, PtrFacts, DummyFacts DEF At, endOf, Link
      <4>2. SubSeq(k[q], x, Len(k[q])) = <<n>> \o <<>>
        BY <3>2, <3>5, <1>1, RestOfList
      <4>3. f[n] = SubSeq(k[q], x, Len(k[q]))
        BY <3>2, <1>3
      <4>4. f[endOf(q)] = <<>>
        BY <4>1, <1>4
      <4> HIDE DEF f
      <4> QED
        BY ONLY <4>1, <4>2, <4>3, <4>4, <3>4
    <3>6. CASE x # Len(k[q])
      <4>1. x + 1 \in 1..Len(k[q]) /\ x + 1 # Len(k[q]) + 1
        BY <3>3, <3>6
      <4>2. At(q, k[q], x + 1) = k[q][x + 1]
        BY <3>3, <4>1 DEF At
      <4>3. SubSeq(k[q], x, Len(k[q])) = <<n>> \o SubSeq(k[q], x + 1, Len(k[q]))
        BY <3>2, <4>1, <1>1, RestOfList
      <4> QED
        BY <4>1, <4>2, <4>3, <3>2, <3>4, <1>3
    <3> QED
      BY <3>5, <3>6
  <2>2. CASE n \notin Alive(m)
    <3>1. m[n].next_sibling = Null /\ Null \in Link \ Node
      BY <2>2, <1>1, PtrFacts DEF Unused, tree_node, Link
    <3>2. f[n] = <<n>> /\ f[Null] = <<>>
      BY <2>2, <3>1, PtrFacts DEF Link
    <3>3. <<n>> \o <<>> = <<n>>
      OBVIOUS
    <3> HIDE DEF f
    <3> QED
      BY ONLY <3>1, <3>2, <3>3
  <2> QED
    BY <2>1, <2>2
<1>6. f = [n \in Ptr \cup {Null} |->
             IF n \in Node THEN <<n>> \o f[m[n].next_sibling] ELSE <<>>]
  <2>1. \A n \in Link : f[n] = IF n \in Node THEN <<n>> \o f[m[n].next_sibling] ELSE <<>>
    BY <1>4, <1>5
  <2> HIDE DEF value
  <2>2. f = [n \in Link |-> f[n]]
    OBVIOUS
  <2> HIDE DEF f
  <2>3. f = [n \in Link |-> IF n \in Node THEN <<n>> \o f[m[n].next_sibling] ELSE <<>>]
    BY ONLY <2>1, <2>2
  <2> QED
    BY <2>3 DEF Link
<1> HIDE DEF f
<1> QED
  BY <1>6 DEF Walked

(* A walk along the links comes to each list from end to end. *)
LEMMA WalkGives ==
  ASSUME NEW m, NEW k, Arranged(m, {}, k), NEW f, Walked(m, f), NEW q \in Owner
  PROVE  f[firstOf(m, q)] = k[q]
<1> DEFINE u == k[q]
           T == {d \in Nat : \E x \in 1..Len(u) :
                   d = Len(u) - x /\ f[u[x]] # SubSeq(u, x, Len(u))}
<1>1. /\ u \in Seq(Node) /\ Len(u) \in Nat
      /\ \A x \in 1..Len(u) : u[x] \in Node
      /\ \A x \in 0..Len(u) : onward(m, q, u, x) = At(q, u, x + 1)
  BY ArrangedFacts DEF Arranged, ListOf
<1> HIDE DEF u
<1>2. /\ \A n \in Node : f[n] = <<n>> \o f[m[n].next_sibling]
      /\ \A n \in Link \ Node : f[n] = <<>>
  <2>1. \A n \in Link : f[n] = IF n \in Node THEN <<n>> \o f[m[n].next_sibling] ELSE <<>>
    BY DEF Walked, Link
  <2> QED
    BY <2>1, PtrFacts DEF Link
<1>3. endOf(q) \in Link \ Node
  BY OwnerFacts, PtrFacts, DummyFacts DEF endOf, Link
<1>4. ASSUME NEW x \in 1..Len(u),
             \A y \in 1..Len(u) : Len(u) - y < Len(u) - x => f[u[y]] = SubSeq(u, y, Len(u))
      PROVE  f[u[x]] = SubSeq(u, x, Len(u))
  <2>1. x \in 0..Len(u) /\ x # 0 /\ x \in Nat /\ x + 1 # 0
    BY <1>1
  <2>2. m[u[x]].next_sibling = At(q, u, x + 1)
    BY <2>1, <1>1 DEF onward
  <2>3. f[u[x]] = <<u[x]>> \o f[At(q, u, x + 1)]
    BY <2>2, <1>1, <1>2
  <2>4. CASE x = Len(u)
    <3>1. At(q, u, x + 1) = endOf(q)
      BY <2>1, <2>4 DEF At
    <3>2. SubSeq(u, x, Len(u)) = <<u[x]>> \o <<>>
      BY <2>4, <1>1, RestOfList
    <3> QED
      BY <3>1, <3>2, <2>3, <1>2, <1>3
  <2>5. CASE x # Len(u)
    <3>1. x + 1 \in 1..Len(u) /\ x + 1 # Len(u) + 1 /\ Len(u) - (x + 1) < Len(u) - x
      BY <2>1, <2>5, <1>1
    <3>2. At(q, u, x + 1) = u[x + 1]
      BY <2>1, <3>1 DEF At
    <3>3. SubSeq(u, x, Len(u)) = <<u[x]>> \o SubSeq(u, x + 1, Len(u))
      BY <3>1, <1>1, RestOfList
    <3>4. f[u[x + 1]] = SubSeq(u, x + 1, Len(u))
      BY <3>1, <1>4
    <3> QED
      BY <3>2, <3>3, <3>4, <2>3
  <2> QED
    BY <2>4, <2>5
<1>5. T = {}
  <2> SUFFICES ASSUME T # {} PROVE FALSE
    OBVIOUS
  <2>1. PICK d \in T : \A e \in T : d <= e
    <3>1. T \in SUBSET Nat /\ T # {}
      OBVIOUS
    <3> HIDE DEF T
    <3> QED
      BY <3>1, LeastNatural
  <2>2. PICK x \in 1..Len(u) : d = Len(u) - x /\ f[u[x]] # SubSeq(u, x, Len(u))
    OBVIOUS
  <2>3. ASSUME NEW y \in 1..Len(u), Len(u) - y < Len(u) - x
        PROVE  f[u[y]] = SubSeq(u, y, Len(u))
    <3> SUFFICES ASSUME f[u[y]] # SubSeq(u, y, Len(u)) PROVE FALSE
      OBVIOUS
    <3>1. Len(u) \in Nat /\ x \in 1..Len(u) /\ y \in 1..Len(u)
      BY <1>1
    <3>2. Len(u) - y \in Nat
      BY ONLY <3>1
    <3>3. Len(u) - y \in T
      BY <3>2
    <3>4. d <= Len(u) - y
      BY <3>3, <2>1
    <3>5. d = Len(u) - x /\ Len(u) - y < Len(u) - x
      BY <2>2, <2>3
    <3> QED
      BY ONLY <3>1, <3>4, <3>5
  <2> QED
    BY <2>2, <2>3, <1>4
<1>6. \A x \in 1..Len(u) : f[u[x]] = SubSeq(u, x, Len(u))
  <2> SUFFICES ASSUME NEW x \in 1..Len(u), f[u[x]] # SubSeq(u, x, Len(u)) PROVE FALSE
    OBVIOUS
  <2>1. Len(u) \in Nat /\ x \in 1..Len(u)
    BY <1>1
  <2>2. Len(u) - x \in Nat
    BY ONLY <2>1
  <2>3. Len(u) - x \in T
    BY <2>2
  <2> QED
    BY <2>3, <1>5
<1>7. firstOf(m, q) = At(q, u, 1)
  <2>1. 0 \in 0..Len(u) /\ 0 + 1 = 1
    BY <1>1
  <2> QED
    BY <2>1, <1>1 DEF onward
<1>8. CASE Len(u) = 0
  <2>1. At(q, u, 1) = endOf(q) /\ u = <<>>
    BY <1>1, <1>8 DEF At
  <2> QED
    BY <2>1, <1>2, <1>3, <1>7 DEF u
<1>9. CASE Len(u) # 0
  <2>1. 1 \in 1..Len(u) /\ At(q, u, 1) = u[1] /\ SubSeq(u, 1, Len(u)) = u
    BY <1>1, <1>9, SubSeqFull DEF At
  <2> QED
    BY <2>1, <1>6, <1>7 DEF u
<1> QED
  BY <1>8, <1>9

LEMMA KidsOf ==
  ASSUME NEW m, NEW k, Arranged(m, {}, k)
  PROVE  Kids(m) = k
<1> DEFINE f == CHOOSE g : Walked(m, g)
<1>1. Walked(m, f)
  BY WalkExists
<1>2. Kids(m) = [p \in Owner |->
               IF p \in Node THEN f[m[p].first_child] ELSE f[m[p].next_sibling]]
  BY KidsWalk
<1> HIDE DEF f
<1>3. \A q \in Owner : f[firstOf(m, q)] = k[q]
  BY <1>1, WalkGives
<1>4. \A q \in Owner : k[q] = IF q \in Node THEN f[m[q].first_child] ELSE f[m[q].next_sibling]
  BY <1>3 DEF firstOf
<1>5. k = [q \in Owner |-> k[q]]
  BY ArrangedFacts
<1> QED
  BY <1>2, <1>4, <1>5

-----------------------------------------------------------------------------
(* Where a node stands, and what its links and those of its list lead to.   *)
LEMMA NodeLinks ==
  ASSUME NEW m, NEW M, NEW k, Arranged(m, M, k), NEW p \in Owner,
         NEW i \in 1..Len(k[p]), NEW n, n = k[p][i]
  PROVE  /\ n \in Alive(m) \ M /\ n \in Node /\ p \in Alive(m) \cup Heads
         /\ Len(k[p]) \in Nat /\ i \in 0..Len(k[p]) /\ i - 1 \in 0..Len(k[p])
         /\ m[n].parent = parentOf(p)
         /\ m[n].prev_sibling = At(p, k[p], i - 1)
         /\ m[n].next_sibling = At(p, k[p], i + 1)
         /\ n = At(p, k[p], i)
         /\ Over(k, n) = p /\ Place(k, n) = i
<1>1. /\ k \in [Owner -> Seq(Node)] /\ Once(k)
      /\ \A q \in Owner : k[q] \in Seq(Node) /\ Len(k[q]) \in Nat
      /\ n \in Alive(m) \ M /\ n \in Node
  BY ArrangedFacts
<1>2. /\ i \in 0..Len(k[p]) /\ i \in 1..(Len(k[p]) + 1) /\ i - 1 \in 0..Len(k[p])
      /\ i # 0 /\ i # Len(k[p]) + 1
  BY <1>1
<1>3. /\ m[n].parent = parentOf(p)
      /\ m[n].prev_sibling = At(p, k[p], i - 1)
      /\ m[n].next_sibling = At(p, k[p], i + 1)
  BY <1>2 DEF Arranged, ListOf, onward, backward
<1>4. n = At(p, k[p], i)
  BY <1>2 DEF At
<1>5. /\ DOMAIN k = Owner
      /\ \A q \in Owner : DOMAIN k[q] = 1..Len(k[q])
  BY <1>1
<1>6. \A q \in Owner : \A j \in 1..Len(k[q]) : k[q][j] = n <=> q = p /\ j = i
  BY <1>1 DEF Once
<1>7. \A q : q \in DOMAIN k /\ Contains(k[q], n) <=> q = p
  BY <1>5, <1>6 DEF Contains
<1>8. Over(k, n) = p
  BY <1>7 DEF Over
<1>9. \A j : j \in DOMAIN k[p] /\ k[p][j] = n <=> j = i
  BY <1>5, <1>6
<1>10. Place(k, n) = i
  BY <1>8, <1>9 DEF Place
<1>11. p \in Alive(m) \cup Heads
  BY OwnerAlive
<1> QED
  BY <1>1, <1>2, <1>3, <1>4, <1>8, <1>10, <1>11

LEMMA Standing ==
  ASSUME NEW m, NEW M, NEW k, Arranged(m, M, k), NEW n \in Alive(m) \ M
  PROVE  \E p \in Owner : \E i \in 1..Len(k[p]) : n = k[p][i]
  BY ArrangedFacts DEF Listed

LEMMA EndLinks ==
  ASSUME NEW m, NEW M, NEW k, Arranged(m, M, k), NEW p \in Owner
  PROVE  /\ Len(k[p]) \in Nat /\ 0 \in 0..Len(k[p]) /\ Len(k[p]) \in 0..Len(k[p])
         /\ firstOf(m, p) = At(p, k[p], 1) /\ lastOf(m, p) = At(p, k[p], Len(k[p]))
         /\ beginOf(p) = At(p, k[p], 0) /\ endOf(p) = At(p, k[p], Len(k[p]) + 1)
<1>1. k[p] \in Seq(Node) /\ Len(k[p]) \in Nat
  BY ArrangedFacts
<1>2. /\ 0 \in 0..Len(k[p]) /\ 0 + 1 = 1 /\ Len(k[p]) \in 0..Len(k[p])
      /\ Len(k[p]) + 1 \in 1..(Len(k[p]) + 1) /\ Len(k[p]) + 1 - 1 = Len(k[p])
      /\ Len(k[p]) + 1 # 0
  BY <1>1
<1>3. /\ onward(m, p, k[p], 0) = At(p, k[p], 0 + 1)
      /\ backward(m, p, k[p], Len(k[p]) + 1) = At(p, k[p], Len(k[p]) + 1 - 1)
  BY <1>2 DEF Arranged, ListOf
<1>4. /\ onward(m, p, k[p], 0) = firstOf(m, p)
      /\ backward(m, p, k[p], Len(k[p]) + 1) = lastOf(m, p)
  BY DEF onward, backward
<1>5. beginOf(p) = At(p, k[p], 0) /\ endOf(p) = At(p, k[p], Len(k[p]) + 1)
  BY <1>2 DEF At
<1> QED
  BY <1>1, <1>2, <1>3, <1>4, <1>5

(* What b and a are allowed to be when something is linked in. *)
LEMMA GapLinks ==
  ASSUME NEW m, NEW M, NEW k, Arranged(m, M, k), NEW p \in Owner,
         NEW i \in 0..Len(k[p])
  PROVE  /\ At(p, k[p], i) \in Link /\ At(p, k[p], i + 1) \in Link
         /\ parentOf(p) \in Link
<1>1. k \in [Owner -> Seq(Node)] /\ Once(k)
  BY ArrangedFacts
<1>2. Gap(k, p, i, At(p, k[p], i), At(p, k[p], i + 1))
  BY <1>1, GapFacts
<1> QED
  BY <1>2, PtrFacts DEF Gap, parentOf, Link
-----------------------------------------------------------------------------
(* From m a call leads to r, where the children are h; a new node has the   *)
(* value x and the others have kept theirs.                                 *)
Yields(m, r, h, x) ==
  /\ Arranged(r, {}, h)
  /\ \A y \in Alive(r) : r[y].data = IF y \in Alive(m) THEN m[y].data ELSE x

LEMMA YieldsGives ==
  ASSUME NEW r, NEW h, NEW x, mem \in Memory, Yields(mem, r, h, x)
  PROVE  Gives(r, h, x)
<1>1. /\ r \in Memory /\ Alive(r) \subseteq Node
      /\ h \in [Owner -> Seq(Node)]
      /\ \A p \in Owner : h[p] \in Seq(Node)
      /\ \A p \in Owner : \A i \in 1..Len(h[p]) : h[p][i] \in Alive(r)
      /\ \A n \in Alive(r) : Listed(h, n)
      /\ \A n \in Node : n \notin Alive(r) => r[n] = Unused
  BY ArrangedFacts DEF Yields
<1>2. \A p \in Owner : ToSet(h[p]) = {h[p][i] : i \in 1..Len(h[p])}
  BY <1>1 DEF ToSet
<1>3. InForest(h) = Alive(r)
  BY <1>1, <1>2 DEF InForest, Listed
<1>4. ASSUME NEW n \in Node
      PROVE  r[n].data = IF n \notin InForest(h) THEN Freed
                         ELSE IF n \in Fresh(mem) THEN x ELSE mem[n].data
  <2>1. CASE n \in Alive(r)
    BY <2>1, <1>3 DEF Yields, Fresh
  <2>2. CASE n \notin Alive(r)
    BY <2>2, <1>1, <1>3 DEF Unused, tree_node
  <2> QED
    BY <2>1, <2>2
<1>5. Kids(r) = h
  BY KidsOf DEF Yields
<1> QED
  BY <1>4, <1>5 DEF Gives

LEMMA SingleChain ==
  ASSUME NEW m, NEW n \in Alive(m)
  PROVE  Chain(m, n, n) = {n} /\ ToSet(<<n>>) = {n} /\ <<n>>[1] = n /\ Len(<<n>>) = 1
<1>1. Chain(m, n, n) = {n}
  <2>1. Segment(m, {n}, n, n)
    BY SingleSegment
  <2> QED
    BY ONLY <2>1, SegmentChain
<1>2. ToSet(<<n>>) = {n}
  BY DEF ToSet
<1> QED
  BY <1>1, <1>2

NewYieldsAt(m, r, h, n, x) ==
  Yields(m, r, h, x) /\ Alive(r) = Alive(m) \cup {n}

LEMMA NewYields ==
  ASSUME NEW m, NEW k, Arranged(m, {}, k), NEW n \in Node \ Alive(m),
         NEW x \in Data \cup {Blank}, NEW p \in Alive(m) \cup Heads,
         NEW i \in 0..Len(k[p]), NEW b, b = At(p, k[p], i),
         NEW a, a = At(p, k[p], i + 1),
         NEW r, r = New(m, n, x, parentOf(p), b, a)
  PROVE  NewYieldsAt(m, r, Put(k, p, i, <<n>>), n, x)
<1> DEFINE c == Construct(m, n, x)
           h == Put(k, p, i, <<n>>)
<1>1. /\ m \in Memory /\ Alive(m) \subseteq Node /\ p \in Owner
  BY ArrangedFacts DEF Owner
<1>0. c = Construct(m, n, x) /\ r = LinkIn(c, n, n, parentOf(p), b, a)
      /\ h = Put(k, p, i, <<n>>)
  BY DEF New
<1> HIDE DEF c, h
<1>2. /\ Arranged(c, {n}, k) /\ Strand(c, <<n>>)
      /\ Alive(c) = Alive(m) \cup {n} /\ c[n].data = x
      /\ \A y \in Ptr \ {n} : c[y] = m[y]
  <2>1. Arranged(m, {}, k) /\ c = Construct(m, n, x)
    BY <1>0
  <2> QED
    <3>1. Arranged(c, {n}, k) /\ Strand(c, <<n>>)
      BY ONLY <2>1, ConstructArranges
    <3>2. c[n].data = x /\ \A y \in Ptr \ {n} : c[y] = m[y]
      BY <2>1, <1>1, ConstructFields
    <3>3. Alive(c) = Alive(m) \cup {n}
      BY <3>2, <1>1, PtrFacts DEF Alive
    <3> QED
      BY <3>1, <3>2, <3>3
<1>3. b \in Link /\ a \in Link /\ parentOf(p) \in Link
  BY <1>1, GapLinks
<1>4. c \in Memory /\ n \in Ptr
  BY <1>2, PtrFacts DEF Arranged
<1>5. Chain(c, n, n) = {n} /\ ToSet(<<n>>) = {n} /\ <<n>>[1] = n /\ Len(<<n>>) = 1
  BY <1>2, SingleChain
<1>6. LinkedIn(c, LinkIn(c, n, n, parentOf(p), b, a), Chain(c, n, n), n, n,
               parentOf(p), b, a)
  BY ONLY <1>3, <1>4, LinkInFields
<1>7. LinkedIn(c, r, {n}, n, n, parentOf(p), b, a)
  BY ONLY <1>0, <1>5, <1>6
<1>8. LinkedIn(c, r, ToSet(<<n>>), <<n>>[1], <<n>>[Len(<<n>>)], parentOf(p), b, a)
  BY <1>5, <1>7
<1>9. p \in Alive(c) \cup Heads /\ ToSet(<<n>>) \subseteq {n} /\ h = Put(k, p, i, <<n>>)
  BY <1>0, <1>2, <1>5
<1>10. Arranged(r, {n} \ ToSet(<<n>>), h)
  BY <1>2, <1>8, <1>9, LinkInArranges
<1>11. {n} \ ToSet(<<n>>) = {}
  BY <1>5
<1>12. r \in Memory /\ \A y \in Ptr : r[y].data = c[y].data
  BY <1>7 DEF LinkedIn
<1>13. Alive(r) = Alive(c)
  BY <1>4, <1>12, SameAlive
<1>14. \A y \in Alive(r) : r[y].data = IF y \in Alive(m) THEN m[y].data ELSE x
  BY <1>1, <1>2, <1>12, <1>13, PtrFacts
<1> QED
  BY <1>2, <1>10, <1>11, <1>13, <1>14 DEF NewYieldsAt, Yields, h

(* A new node enters the list of p after the first i nodes. *)
NewAt(m, k, n, x, p, i) ==
  New(m, n, x, parentOf(p), At(p, k[p], i), At(p, k[p], i + 1))

LEMMA NewAtYields ==
  ASSUME NEW m, NEW k, Arranged(m, {}, k), NEW n \in Node \ Alive(m),
         NEW x \in Data \cup {Blank}, NEW p \in Alive(m) \cup Heads,
         NEW i \in 0..Len(k[p])
  PROVE  /\ Yields(m, NewAt(m, k, n, x, p, i), Put(k, p, i, <<n>>), x)
         /\ Alive(NewAt(m, k, n, x, p, i)) = Alive(m) \cup {n}
<1> DEFINE b == At(p, k[p], i)
           a == At(p, k[p], i + 1)
           r == NewAt(m, k, n, x, p, i)
<1>1. b = At(p, k[p], i) /\ a = At(p, k[p], i + 1) /\ r = New(m, n, x, parentOf(p), b, a)
  BY DEF NewAt
<1> HIDE DEF a, b, r
<1>2. NewYieldsAt(m, r, Put(k, p, i, <<n>>), n, x)
  BY <1>1, NewYields
<1> QED
  BY <1>2 DEF NewYieldsAt, r

(* The memory of a forest between two calls. *)
Stored(m, k) == Sound(m) /\ Arranged(m, {}, k)

LEMMA StoredFacts ==
  ASSUME NEW m, NEW k, Stored(m, k)
  PROVE  /\ Sound(m) /\ Arranged(m, {}, k) /\ m \in Memory /\ Alive(m) \subseteq Node
         /\ k \in [Owner -> Seq(Node)] /\ DOMAIN k = Owner /\ Once(k)
         /\ Alive(m) \cup Heads \subseteq Owner
         /\ \A p \in Owner : k[p] \in Seq(Node) /\ Len(k[p]) \in Nat
         /\ \A p \in Owner : \A i \in 1..Len(k[p]) : k[p][i] \in Alive(m) /\ k[p][i] \in Node
         /\ \A t \in Tree : m[feet(t)].parent = Null /\ m[head(t)].parent = Null
<1>1. \A t \in Tree : m[feet(t)].parent = Null /\ m[head(t)].parent = Null
  BY SoundFacts DEF Stored, Heads, Feets
<1>2. /\ m \in Memory /\ Alive(m) \subseteq Node
      /\ k \in [Owner -> Seq(Node)] /\ Once(k)
      /\ \A p \in Owner : k[p] \in Seq(Node) /\ Len(k[p]) \in Nat
      /\ \A p \in Owner : \A i \in 1..Len(k[p]) : k[p][i] \in Alive(m) /\ k[p][i] \in Node
  BY ArrangedFacts DEF Stored
<1> QED
  BY <1>1, <1>2 DEF Stored, Owner

LEMMA TopLinks ==
  ASSUME NEW m, NEW M, NEW k, Arranged(m, M, k), NEW t \in Tree
  PROVE  /\ head(t) \in Owner /\ parentOf(head(t)) = Null
         /\ m[head(t)].next_sibling = At(head(t), k[head(t)], 1)
         /\ m[feet(t)].prev_sibling = At(head(t), k[head(t)], Len(k[head(t)]))
         /\ feet(t) = At(head(t), k[head(t)], Len(k[head(t)]) + 1)
         /\ head(t) = At(head(t), k[head(t)], 0)
<1>1. head(t) \in Owner /\ head(t) \notin Node /\ head(t)[2] = t
  BY PtrFacts DEF Owner, Heads, head
<1>2. /\ firstOf(m, head(t)) = At(head(t), k[head(t)], 1)
      /\ lastOf(m, head(t)) = At(head(t), k[head(t)], Len(k[head(t)]))
      /\ beginOf(head(t)) = At(head(t), k[head(t)], 0)
      /\ endOf(head(t)) = At(head(t), k[head(t)], Len(k[head(t)]) + 1)
  BY <1>1, EndLinks
<1> QED
  BY <1>1, <1>2 DEF firstOf, lastOf, beginOf, endOf, parentOf

LEMMA ChildLinks ==
  ASSUME NEW m, NEW M, NEW k, Arranged(m, M, k), NEW p \in Node
  PROVE  /\ p \in Owner /\ parentOf(p) = p
         /\ m[p].first_child = At(p, k[p], 1)
         /\ m[p].last_child = At(p, k[p], Len(k[p]))
         /\ Null = At(p, k[p], 0) /\ Null = At(p, k[p], Len(k[p]) + 1)
<1>1. p \in Owner
  BY DEF Owner
<1> QED
  BY <1>1, EndLinks DEF firstOf, lastOf, beginOf, endOf, parentOf

LEMMA InsertYields ==
  ASSUME NEW m, NEW k, Stored(m, k), NEW n \in Node \ Alive(m),
         NEW x \in Data \cup {Blank}, NEW pos \in Alive(m)
  PROVE  /\ Yields(m, insert(m, pos, n, x), Before(k, pos, <<n>>), x)
         /\ Yields(m, insert_after(m, pos, n, x), After(k, pos, <<n>>), x)
         /\ Alive(insert(m, pos, n, x)) = Alive(m) \cup {n}
<1>1. /\ Arranged(m, {}, k) /\ pos \in Alive(m) \ {}
  BY StoredFacts
<1>a. PICK p \in Owner : \E i \in 1..Len(k[p]) : pos = k[p][i]
  BY <1>1, Standing
<1>2. PICK i \in 1..Len(k[p]) : pos = k[p][i]
  BY <1>a
<1>3. /\ p \in Alive(m) \cup Heads
      /\ i \in 0..Len(k[p]) /\ i - 1 \in 0..Len(k[p]) /\ i - 1 + 1 = i
      /\ m[pos].parent = parentOf(p)
      /\ m[pos].prev_sibling = At(p, k[p], i - 1)
      /\ m[pos].next_sibling = At(p, k[p], i + 1)
      /\ pos = At(p, k[p], i)
      /\ Over(k, pos) = p /\ Place(k, pos) = i
  BY <1>1, <1>2, NodeLinks
<1>4. /\ insert(m, pos, n, x) = NewAt(m, k, n, x, p, i - 1)
      /\ insert_after(m, pos, n, x) = NewAt(m, k, n, x, p, i)
  BY <1>3 DEF insert, insert_after, NewAt
<1>5. /\ Before(k, pos, <<n>>) = Put(k, p, i - 1, <<n>>)
      /\ After(k, pos, <<n>>) = Put(k, p, i, <<n>>)
  BY <1>3 DEF Before, After
<1>6. /\ Yields(m, insert(m, pos, n, x), Put(k, p, i - 1, <<n>>), x)
      /\ Alive(insert(m, pos, n, x)) = Alive(m) \cup {n}
  BY ONLY <1>1, <1>3, <1>4, NewAtYields
<1>7. Yields(m, insert_after(m, pos, n, x), Put(k, p, i, <<n>>), x)
  BY ONLY <1>1, <1>3, <1>4, NewAtYields
<1> QED
  BY <1>5, <1>6, <1>7

LEMMA ChildYields ==
  ASSUME NEW m, NEW k, Stored(m, k), NEW n \in Node \ Alive(m),
         NEW x \in Data \cup {Blank}, NEW p \in Alive(m)
  PROVE  /\ Yields(m, append_child(m, p, n, x), AtEnd(k, p, <<n>>), x)
         /\ Yields(m, prepend_child(m, p, n, x), Put(k, p, 0, <<n>>), x)
         /\ Alive(append_child(m, p, n, x)) = Alive(m) \cup {n}
         /\ Alive(prepend_child(m, p, n, x)) = Alive(m) \cup {n}
<1>1. /\ Arranged(m, {}, k) /\ p \in Alive(m) \cup Heads /\ p \in Node
  BY StoredFacts
<1>2. /\ p \in Owner /\ parentOf(p) = p
      /\ m[p].first_child = At(p, k[p], 0 + 1)
      /\ m[p].last_child = At(p, k[p], Len(k[p]))
      /\ Null = At(p, k[p], 0) /\ Null = At(p, k[p], Len(k[p]) + 1)
  BY <1>1, ChildLinks
<1>3. 0 \in 0..Len(k[p]) /\ Len(k[p]) \in 0..Len(k[p])
  BY <1>1, <1>2, EndLinks
<1>4. /\ append_child(m, p, n, x) = NewAt(m, k, n, x, p, Len(k[p]))
      /\ prepend_child(m, p, n, x) = NewAt(m, k, n, x, p, 0)
  BY <1>2 DEF append_child, prepend_child, NewAt
<1>5. /\ Yields(m, append_child(m, p, n, x), Put(k, p, Len(k[p]), <<n>>), x)
      /\ Alive(append_child(m, p, n, x)) = Alive(m) \cup {n}
  BY ONLY <1>1, <1>3, <1>4, NewAtYields
<1>6. /\ Yields(m, prepend_child(m, p, n, x), Put(k, p, 0, <<n>>), x)
      /\ Alive(prepend_child(m, p, n, x)) = Alive(m) \cup {n}
  BY ONLY <1>1, <1>3, <1>4, NewAtYields
<1> QED
  BY <1>5, <1>6 DEF AtEnd

LEMMA TopYields ==
  ASSUME NEW m, NEW k, Stored(m, k), NEW n \in Node \ Alive(m),
         NEW x \in Data \cup {Blank}, NEW t \in Tree
  PROVE  /\ Yields(m, insert(m, feet(t), n, x), AtEnd(k, head(t), <<n>>), x)
         /\ Alive(insert(m, feet(t), n, x)) = Alive(m) \cup {n}
<1> DEFINE p == head(t)
<1>1. /\ Arranged(m, {}, k) /\ p \in Alive(m) \cup Heads /\ m[feet(t)].parent = Null
  BY StoredFacts DEF Heads
<1>2. /\ p \in Owner /\ parentOf(p) = Null
      /\ m[feet(t)].prev_sibling = At(p, k[p], Len(k[p]))
      /\ feet(t) = At(p, k[p], Len(k[p]) + 1)
  BY <1>1, TopLinks
<1> HIDE DEF p
<1>3. Len(k[p]) \in 0..Len(k[p])
  BY <1>1, <1>2, EndLinks
<1>4. insert(m, feet(t), n, x) = NewAt(m, k, n, x, p, Len(k[p]))
  BY <1>1, <1>2 DEF insert, NewAt
<1>5. /\ Yields(m, insert(m, feet(t), n, x), Put(k, p, Len(k[p]), <<n>>), x)
      /\ Alive(insert(m, feet(t), n, x)) = Alive(m) \cup {n}
  BY ONLY <1>1, <1>3, <1>4, NewAtYields
<1> QED
  BY <1>5 DEF AtEnd, p

-----------------------------------------------------------------------------
(* A strand that is put into the list of q, after its first l nodes. *)
LinkAt(m, k, s, q, l) ==
  LinkIn(m, s[1], s[Len(s)], parentOf(q), At(q, k[q], l), At(q, k[q], l + 1))

Kept(m, r) == r \in Memory /\ \A y \in Ptr : r[y].data = m[y].data

(* k without the nodes i to j of the list of p. *)
Less(k, p, i, j) == [k EXCEPT ![p] = Without(@, i, j)]

(* The strand s has left its list, and the lists are c; it has entered one, *)
(* and they are h.                                                          *)
SetOut(m, M, c, s, r) ==
  /\ Arranged(r, M \cup ToSet(s), c) /\ Strand(r, s)
  /\ Kept(m, r) /\ Alive(r) = Alive(m)
  /\ \A x \in Ptr : r[x].parent = m[x].parent
SetIn(m, M, h, s, r) ==
  /\ Arranged(r, M \ ToSet(s), h)
  /\ Kept(m, r) /\ Alive(r) = Alive(m)

LEMMA StrandFacts ==
  ASSUME NEW m, NEW s, Strand(m, s)
  PROVE  /\ s \in Seq(Node) /\ Len(s) \in Nat /\ Len(s) # 0
         /\ 1 \in 1..Len(s) /\ Len(s) \in 1..Len(s)
         /\ ToSet(s) = {s[i] : i \in 1..Len(s)} /\ ToSet(s) \subseteq Node
<1>1. s \in Seq(Node) /\ s # <<>>
  BY DEF Strand
<1> QED
  BY <1>1 DEF ToSet

LEMMA StrandChain ==
  ASSUME NEW m, NEW s, Strand(m, s), ToSet(s) \subseteq Alive(m)
  PROVE  Chain(m, s[1], s[Len(s)]) = ToSet(s)
<1> DEFINE S == ToSet(s)
           L == Len(s)
<1>1. /\ L \in Nat /\ L # 0 /\ 1 \in 1..L /\ L \in 1..L
      /\ \A x \in S : \E i \in 1..L : x = s[i]
      /\ \A i \in 1..L : s[i] \in S
      /\ \A i, j \in 1..L : s[i] = s[j] => i = j
      /\ \A i \in 1..(L - 1) :
           m[s[i]].next_sibling = s[i + 1] /\ m[s[i + 1]].prev_sibling = s[i]
  BY StrandFacts DEF Strand
<1> HIDE DEF S, L
<1>2. ASSUME NEW x \in S \ {s[1]}
      PROVE  /\ m[x].prev_sibling \in S \ {s[L]}
             /\ m[m[x].prev_sibling].next_sibling = x
  <2>1. PICK i \in 1..L : x = s[i]
    BY <1>1
  <2>2. i # 1
    BY <2>1
  <2>3. i - 1 \in 1..(L - 1) /\ i - 1 \in 1..L /\ i - 1 # L /\ i - 1 + 1 = i
    BY <1>1, <2>2
  <2>4. m[s[i]].prev_sibling = s[i - 1] /\ m[s[i - 1]].next_sibling = s[i]
    BY <1>1, <2>3
  <2>5. s[i - 1] \in S /\ s[i - 1] # s[L]
    BY <1>1, <2>3
  <2> QED
    BY <2>1, <2>4, <2>5
<1>3. ASSUME NEW x \in S \ {s[L]}
      PROVE  /\ m[x].next_sibling \in S \ {s[1]}
             /\ m[m[x].next_sibling].prev_sibling = x
  <2>1. PICK i \in 1..L : x = s[i]
    BY <1>1
  <2>2. i # L
    BY <2>1
  <2>3. i \in 1..(L - 1) /\ i + 1 \in 1..L /\ i + 1 # 1
    BY <1>1, <2>2
  <2>4. m[s[i]].next_sibling = s[i + 1] /\ m[s[i + 1]].prev_sibling = s[i]
    BY <1>1, <2>3
  <2>5. s[i + 1] \in S /\ s[i + 1] # s[1]
    BY <1>1, <2>3
  <2> QED
    BY <2>1, <2>4, <2>5
<1>4. ASSUME NEW T \in SUBSET S, T # {}
      PROVE  \E x \in T : x = s[1] \/ m[x].prev_sibling \notin T
  <2> DEFINE I == {i \in 1..L : s[i] \in T}
  <2>1. I \in SUBSET Nat /\ I # {}
    BY <1>1, <1>4
  <2>2. PICK i \in I : \A j \in I : i <= j
    BY ONLY <2>1, LeastNatural
  <2>3. i \in 1..L /\ s[i] \in T
    OBVIOUS
  <2>4. CASE i = 1
    BY <2>3, <2>4
  <2>5. CASE i # 1
    <3>1. i - 1 \in 1..(L - 1) /\ i - 1 \in 1..L /\ i - 1 + 1 = i /\ ~ i <= i - 1
      BY <1>1, <2>3, <2>5
    <3>2. m[s[i]].prev_sibling = s[i - 1]
      BY <1>1, <3>1
    <3>3. s[i - 1] \notin T
      BY <3>1, <2>2
    <3> QED
      BY <2>3, <3>2, <3>3
  <2> QED
    BY <2>4, <2>5
<1>5. Segment(m, S, s[1], s[L])
  <2>1. s[1] \in S /\ s[L] \in S /\ S \subseteq Alive(m)
    BY <1>1 DEF S
  <2> QED
    BY <2>1, <1>2, <1>3, <1>4 DEF Segment
<1> QED
  BY <1>5, SegmentChain DEF S, L

LEMMA StrandEnters ==
  ASSUME NEW m, NEW M, NEW k, NEW s, Arranged(m, M, k), Strand(m, s),
         ToSet(s) \subseteq M, NEW q \in Alive(m) \cup Heads, NEW l \in 0..Len(k[q]),
         NEW r, r = LinkAt(m, k, s, q, l)
  PROVE  SetIn(m, M, Put(k, q, l, s), s, r)
<1> DEFINE b == At(q, k[q], l)
           a == At(q, k[q], l + 1)
<1>1. /\ m \in Memory /\ M \subseteq Alive(m) /\ Alive(m) \subseteq Node
  BY ArrangedFacts
<1>2. /\ 1 \in 1..Len(s) /\ Len(s) \in 1..Len(s)
      /\ \A i \in 1..Len(s) : s[i] \in Node
  BY StrandFacts
<1>3. Chain(m, s[1], s[Len(s)]) = ToSet(s)
  BY <1>1, StrandChain
<1>4. q \in Owner
  BY <1>1 DEF Owner
<1>5. b \in Link /\ a \in Link /\ parentOf(q) \in Link
  BY <1>4, GapLinks
<1>6. r = LinkIn(m, s[1], s[Len(s)], parentOf(q), b, a)
  BY DEF LinkAt
<1>7. s[1] \in Ptr /\ s[Len(s)] \in Ptr
  BY <1>2, PtrFacts
<1> HIDE DEF a, b
<1>8. LinkedIn(m, LinkIn(m, s[1], s[Len(s)], parentOf(q), b, a),
               Chain(m, s[1], s[Len(s)]), s[1], s[Len(s)], parentOf(q), b, a)
  BY ONLY <1>1, <1>5, <1>7, LinkInFields
<1>9. LinkedIn(m, r, ToSet(s), s[1], s[Len(s)], parentOf(q), b, a)
  BY ONLY <1>3, <1>6, <1>8
<1>10. b = At(q, k[q], l) /\ a = At(q, k[q], l + 1)
  BY DEF a, b
<1>11. Arranged(r, M \ ToSet(s), Put(k, q, l, s))
  BY <1>9, <1>10, LinkInArranges
<1>12. Kept(m, r)
  BY <1>9 DEF LinkedIn, Kept
<1>13. Alive(r) = Alive(m)
  BY <1>1, <1>12, SameAlive DEF Kept
<1> QED
  BY <1>11, <1>12, <1>13 DEF SetIn

LEMMA RangeLeaves ==
  ASSUME NEW m, NEW M, NEW k, Arranged(m, M, k), NEW p \in Owner,
         NEW i \in 1..Len(k[p]), NEW j \in i..Len(k[p]),
         NEW r, r = Unlink(m, k[p][i], k[p][j]), NEW s, s = SubSeq(k[p], i, j)
  PROVE  /\ SetOut(m, M, Less(k, p, i, j), s, r)
         /\ s[1] = k[p][i] /\ s[Len(s)] = k[p][j]
<1> DEFINE b == At(p, k[p], i - 1)
           a == At(p, k[p], j + 1)
<1>1. /\ m \in Memory /\ k[p] \in Seq(Node) /\ Len(k[p]) \in Nat
  BY ArrangedFacts
<1>2. j \in 1..Len(k[p]) /\ i <= j /\ i \in Nat /\ j \in Nat /\ i >= 1
  BY <1>1
<1>3. k[p][i] \in Node /\ m[k[p][i]].parent = parentOf(p) /\ m[k[p][i]].prev_sibling = b
  BY ONLY Arranged(m, M, k), NodeLinks
<1>4. k[p][j] \in Node /\ m[k[p][j]].next_sibling = a
  BY ONLY Arranged(m, M, k), <1>2, NodeLinks
<1>5. b = At(p, k[p], i - 1) /\ a = At(p, k[p], j + 1)
  OBVIOUS
<1> HIDE DEF a, b
<1>6. Unlinked(m, Unlink(m, k[p][i], k[p][j]), m[k[p][i]].parent,
               m[k[p][i]].prev_sibling, m[k[p][j]].next_sibling)
  BY <1>1, <1>3, <1>4, PtrFacts, UnlinkFields
<1>7. Unlinked(m, r, parentOf(p), b, a)
  BY ONLY <1>3, <1>4, <1>6, r = Unlink(m, k[p][i], k[p][j])
<1>8. /\ Arranged(r, M \cup ToSet(s), Less(k, p, i, j))
      /\ Strand(r, s)
  BY <1>5, <1>7, UnlinkArranges DEF Less
<1>9. Kept(m, r) /\ \A x \in Ptr : r[x].parent = m[x].parent
  BY <1>7 DEF Unlinked, Kept
<1>10. Alive(r) = Alive(m)
  BY <1>1, <1>9, SameAlive DEF Kept
<1>11. s[1] = k[p][i] /\ s[Len(s)] = k[p][j]
  <2>1. Len(s) = j - i + 1 /\ \A l \in 1..(j - i + 1) : s[l] = k[p][i + l - 1]
    BY ONLY s = SubSeq(k[p], i, j), <1>1, <1>2, SubSeqProperties
  <2>2. /\ 1 \in 1..(j - i + 1) /\ j - i + 1 \in 1..(j - i + 1)
        /\ i + 1 - 1 = i /\ i + (j - i + 1) - 1 = j
    BY ONLY <1>2
  <2> QED
    BY <2>1, <2>2
<1> QED
  BY <1>8, <1>9, <1>10, <1>11 DEF SetOut

Moved(m, r, h, x) == Yields(m, r, h, x) /\ Alive(r) = Alive(m)

(* Siblings leave the list they are in and enter one. *)
LEMMA MoveYields ==
  ASSUME NEW m, NEW k, Arranged(m, {}, k), NEW p \in Owner,
         NEW i \in 1..Len(k[p]), NEW j \in i..Len(k[p]),
         NEW c, c = Less(k, p, i, j),
         NEW s, s = SubSeq(k[p], i, j), NEW u, u = Unlink(m, k[p][i], k[p][j]),
         NEW q \in Alive(m) \cup Heads, NEW l \in 0..Len(c[q]),
         NEW b, b = At(q, c[q], l), NEW a, a = At(q, c[q], l + 1), NEW x,
         NEW r, r = LinkIn(u, k[p][i], k[p][j], parentOf(q), b, a)
  PROVE  Moved(m, r, Put(c, q, l, s), x)
<1>a. /\ Arranged(m, {}, k) /\ c = Less(k, p, i, j) /\ s = SubSeq(k[p], i, j)
      /\ u = Unlink(m, k[p][i], k[p][j])
  OBVIOUS
<1>0. SetOut(m, {}, c, s, u) /\ s[1] = k[p][i] /\ s[Len(s)] = k[p][j]
  <2>1. SetOut(m, {}, Less(k, p, i, j), s, u)
    BY ONLY <1>a, RangeLeaves
  <2>2. s[1] = k[p][i]
    BY ONLY <1>a, RangeLeaves
  <2>3. s[Len(s)] = k[p][j]
    BY ONLY <1>a, RangeLeaves
  <2> QED
    BY <2>1, <2>2, <2>3
<1>1. /\ Arranged(u, {} \cup ToSet(s), c) /\ {} \cup ToSet(s) = ToSet(s)
      /\ Strand(u, s) /\ Kept(m, u) /\ Alive(u) = Alive(m)
  BY <1>0 DEF SetOut
<1>2. /\ Arranged(u, ToSet(s), c) /\ ToSet(s) \subseteq ToSet(s)
      /\ q \in Alive(u) \cup Heads
  BY <1>1
<1>3. r = LinkAt(u, c, s, q, l)
  BY <1>0 DEF LinkAt
<1>4. SetIn(u, ToSet(s), Put(c, q, l, s), s, r)
  BY <1>1, <1>2, <1>3, StrandEnters
<1>5. m \in Memory /\ u \in Memory /\ Alive(m) \subseteq Node /\ Node \subseteq Ptr
  BY <1>1, ArrangedFacts, PtrFacts
<1>6. /\ Arranged(r, ToSet(s) \ ToSet(s), Put(c, q, l, s))
      /\ Kept(u, r) /\ Alive(r) = Alive(u)
  BY ONLY <1>4 DEF SetIn
<1>7. \A y \in Alive(r) : r[y].data = m[y].data
  <2>1. Alive(r) \subseteq Ptr
    BY ONLY <1>1, <1>5, <1>6
  <2> QED
    BY ONLY <2>1, <1>1, <1>6 DEF Kept
<1>8. ToSet(s) \ ToSet(s) = {}
  OBVIOUS
<1> QED
  BY Zenon, <1>1, <1>6, <1>7, <1>8 DEF Moved, Yields

LEMMA RangeFacts ==
  ASSUME NEW m, NEW M, NEW k, Arranged(m, M, k), NEW p \in Owner,
         NEW i \in 1..Len(k[p]), NEW j \in i..Len(k[p])
  PROVE  /\ j \in 1..Len(k[p])
         /\ From(k, k[p][i], k[p][j]) = SubSeq(k[p], i, j)
         /\ Cut(k, k[p][i], k[p][j]) = Less(k, p, i, j)
<1>1. Len(k[p]) \in Nat
  BY ArrangedFacts
<1>2. j \in 1..Len(k[p])
  BY <1>1
<1>3. /\ Over(k, k[p][i]) = p /\ Place(k, k[p][i]) = i
      /\ Over(k, k[p][j]) = p /\ Place(k, k[p][j]) = j
  BY <1>2, NodeLinks
<1> QED
  BY <1>2, <1>3 DEF From, Cut, Less

(* What siblings leave behind is a list for each owner still. *)
LEMMA CutLists ==
  ASSUME NEW m, NEW M, NEW k, Arranged(m, M, k), NEW p \in Owner,
         NEW i \in 1..Len(k[p]), NEW j \in i..Len(k[p]),
         NEW c, c = Less(k, p, i, j)
  PROVE  /\ c \in [Owner -> Seq(Node)] /\ CutOut(p, k[p], i, j - i + 1, c[p])
         /\ \A q \in Owner \ {p} : c[q] = k[q]
         /\ \A q \in Owner : c[q] \in Seq(Node) /\ Len(c[q]) \in Nat
<1>1. k \in [Owner -> Seq(Node)]
  BY ArrangedFacts
<1>2. /\ c \in [Owner -> Seq(Node)] /\ CutOut(p, k[p], i, j - i + 1, c[p])
      /\ \A q \in Owner \ {p} : c[q] = k[q]
  BY <1>1, CutFields DEF Less
<1> QED
  BY <1>2

LEMMA ReparentYields ==
  ASSUME NEW m, NEW k, Arranged(m, {}, k), NEW p \in Owner,
         NEW i \in 1..Len(k[p]), NEW j \in i..Len(k[p]),
         NEW first, first = k[p][i], NEW last, last = k[p][j],
         NEW pos \in Alive(m), NEW x
  PROVE  Moved(m, reparent(m, pos, first, last),
               AtEnd(Cut(k, first, last), pos, From(k, first, last)), x)
<1> DEFINE c == Less(k, p, i, j)
           s == SubSeq(k[p], i, j)
           u == Unlink(m, first, last)
           r == reparent(m, pos, first, last)
<1>1. /\ c = Less(k, p, i, j) /\ s = SubSeq(k[p], i, j)
      /\ u = Unlink(m, k[p][i], k[p][j])
  OBVIOUS
<1>2. Cut(k, first, last) = c /\ From(k, first, last) = s
  BY RangeFacts
<1>3. r = LinkIn(u, first, last, pos, u[pos].last_child, Null)
  BY DEF reparent
<1> HIDE DEF c, s, u, r
<1>4. pos \in Node /\ pos \in Owner /\ pos \in Alive(m) \cup Heads
  BY ArrangedFacts DEF Owner
<1>5. Arranged(u, {} \cup ToSet(s), c)
  BY <1>1, RangeLeaves DEF SetOut
<1>6. /\ parentOf(pos) = pos /\ u[pos].last_child = At(pos, c[pos], Len(c[pos]))
      /\ Null = At(pos, c[pos], Len(c[pos]) + 1)
  BY <1>4, <1>5, ChildLinks
<1>7. Len(c[pos]) \in 0..Len(c[pos])
  BY <1>4, <1>5, EndLinks
<1>8. r = LinkIn(u, k[p][i], k[p][j], parentOf(pos), u[pos].last_child, Null)
  BY <1>3, <1>6
<1>9. Moved(m, r, Put(c, pos, Len(c[pos]), s), x)
  BY <1>1, <1>4, <1>6, <1>7, <1>8, MoveYields
<1> QED
  BY <1>2, <1>9 DEF AtEnd, r
-----------------------------------------------------------------------------
LEMMA SameLists ==
  ASSUME NEW h \in [Owner -> Seq(Node)], NEW g \in [Owner -> Seq(Node)],
         \A q \in Owner : /\ Len(h[q]) = Len(g[q])
                          /\ \A l \in 1..Len(g[q]) : h[q][l] = g[q][l]
  PROVE  h = g
<1>1. ASSUME NEW q \in Owner
      PROVE  h[q] = g[q]
  <2>1. h[q] \in Seq(Node) /\ g[q] \in Seq(Node)
    OBVIOUS
  <2> QED
    BY <2>1, SeqEqual
<1> QED
  BY <1>1

(* Taking out one node of a list and putting one in. *)
OneOut(k, p, i, c) ==
  /\ c \in [Owner -> Seq(Node)] /\ \A q \in Owner \ {p} : c[q] = k[q]
  /\ Len(c[p]) = Len(k[p]) - 1
  /\ \A x \in 1..(Len(k[p]) - 1) : c[p][x] = IF x < i THEN k[p][x] ELSE k[p][x + 1]
OneIn(k, p, c, l, n, h) ==
  /\ h \in [Owner -> Seq(Node)] /\ \A q \in Owner \ {p} : h[q] = k[q]
  /\ Len(h[p]) = Len(k[p])
  /\ \A x \in 1..Len(k[p]) : h[p][x] = IF x <= l THEN c[p][x]
                                      ELSE IF x = l + 1 THEN n ELSE c[p][x - 1]

LEMMA OneLists ==
  ASSUME NEW m, NEW M, NEW k, Arranged(m, M, k), NEW p \in Owner,
         NEW i \in 1..Len(k[p]), NEW n \in Node, NEW l \in 0..(Len(k[p]) - 1)
  PROVE  /\ SubSeq(k[p], i, i) = <<k[p][i]>>
         /\ OneOut(k, p, i, Less(k, p, i, i))
         /\ OneIn(k, p, Less(k, p, i, i), l, n, Put(Less(k, p, i, i), p, l, <<n>>))
<1> DEFINE u == k[p]
           c == Less(k, p, i, i)
           s == <<n>>
           h == Put(c, p, l, s)
<1>1. u \in Seq(Node) /\ Len(u) \in Nat /\ i \in i..Len(u) /\ i \in Nat
  BY ArrangedFacts
<1>2. /\ c \in [Owner -> Seq(Node)] /\ CutOut(p, u, i, i - i + 1, c[p])
      /\ \A q \in Owner \ {p} : c[q] = k[q]
  BY <1>1, CutLists
<1>3. Len(c[p]) = Len(u) - (i - i + 1) /\
      \A x \in 1..Len(c[p]) : c[p][x] = IF x < i THEN u[x] ELSE u[x + (i - i + 1)]
  BY <1>2 DEF CutOut
<1>4. SubSeq(u, i, i) = <<u[i]>>
  <2>1. SubSeq(u, i, i) = <<u[i]>> \o SubSeq(u, i + 1, i)
    BY <1>1, SubSeqRecursiveFirst
  <2>2. SubSeq(u, i + 1, i) = <<>>
    BY <1>1, SubSeqEmpty
  <2>3. <<u[i]>> \o <<>> = <<u[i]>>
    OBVIOUS
  <2> QED
    BY ONLY <2>1, <2>2, <2>3
<1> HIDE DEF c, u
<1>5. /\ Len(c[p]) = Len(u) - 1
      /\ \A x \in 1..(Len(u) - 1) : c[p][x] = IF x < i THEN u[x] ELSE u[x + 1]
  BY ONLY <1>1, <1>3
<1>6. l \in 0..Len(c[p]) /\ s \in Seq(Node) /\ Len(s) = 1 /\ s[1] = n /\ l \in Nat
  BY <1>5 DEF u
<1>7. h = Put(c, p, l, s)
  OBVIOUS
<1> HIDE DEF h, s
<1>8. /\ h \in [Owner -> Seq(Node)] /\ PutIn(p, c[p], l, s, h[p])
      /\ \A q \in Owner \ {p} : h[q] = c[q]
  <2>1. p \in Owner /\ c \in [Owner -> Seq(Node)]
    BY <1>2
  <2>2. PutIn(p, c[p], l, s, h[p])
    BY ONLY <2>1, <1>6, <1>7, PutFields
  <2>3. h \in [Owner -> Seq(Node)]
    BY ONLY <2>1, <1>6, <1>7, PutFields
  <2>4. \A q \in Owner \ {p} : h[q] = c[q]
    BY ONLY <2>1, <1>6, <1>7, PutFields
  <2> QED
    BY <2>2, <2>3, <2>4
<1>9. /\ Len(h[p]) = Len(c[p]) + Len(s)
      /\ \A x \in 1..Len(h[p]) :
           h[p][x] = IF x <= l THEN c[p][x]
                     ELSE IF x <= l + Len(s) THEN s[x - l]
                     ELSE c[p][x - Len(s)]
  BY <1>8 DEF PutIn
<1>10. Len(h[p]) = Len(u)
  BY ONLY <1>1, <1>5, <1>6, <1>9
<1>11. ASSUME NEW x \in 1..Len(u)
       PROVE  h[p][x] = IF x <= l THEN c[p][x]
                        ELSE IF x = l + 1 THEN n ELSE c[p][x - 1]
  <2>1. CASE x <= l
    BY <2>1, <1>9, <1>10
  <2>2. CASE x = l + 1
    <3>1. ~ x <= l /\ x <= l + Len(s) /\ x - l = 1
      BY ONLY <2>2, <1>6
    <3> QED
      BY <3>1, <2>2, <1>6, <1>9, <1>10
  <2>3. CASE ~ x <= l /\ x # l + 1
    <3>1. ~ x <= l + Len(s) /\ x - Len(s) = x - 1
      BY ONLY <2>3, <1>6, <1>1
    <3>2. h[p][x] = c[p][x - Len(s)]
      BY <3>1, <2>3, <1>9, <1>10
    <3> QED
      BY <3>1, <3>2, <2>3
  <2> QED
    BY <2>1, <2>2, <2>3
<1> QED
  BY <1>2, <1>4, <1>5, <1>8, <1>10, <1>11 DEF OneOut, OneIn, c, h, u, s

(* A node put back where it was taken out. *)
LEMMA BackAgain ==
  ASSUME NEW m, NEW M, NEW k, Arranged(m, M, k), NEW p \in Owner,
         NEW i \in 1..Len(k[p])
  PROVE  Put(Less(k, p, i, i), p, i - 1, <<k[p][i]>>) = k
<1> DEFINE u == k[p]
           c == Less(k, p, i, i)
           h == Put(c, p, i - 1, <<u[i]>>)
<1>1. /\ k \in [Owner -> Seq(Node)] /\ Len(u) \in Nat /\ u[i] \in Node
      /\ i - 1 \in 0..(Len(u) - 1) /\ i \in Nat
  BY ArrangedFacts
<1>2. /\ \A x \in 1..(Len(u) - 1) : c[p][x] = IF x < i THEN u[x] ELSE u[x + 1]
      /\ h \in [Owner -> Seq(Node)] /\ \A q \in Owner \ {p} : h[q] = k[q]
      /\ Len(h[p]) = Len(u)
      /\ \A x \in 1..Len(u) : h[p][x] = IF x <= i - 1 THEN c[p][x]
                                        ELSE IF x = i - 1 + 1 THEN u[i] ELSE c[p][x - 1]
  <2>1. OneOut(k, p, i, c)
    BY <1>1, OneLists
  <2>2. OneIn(k, p, c, i - 1, u[i], h)
    BY <1>1, OneLists
  <2> HIDE DEF c, h
  <2> QED
    BY <2>1, <2>2 DEF OneOut, OneIn
<1> HIDE DEF c, h, u
<1>3. ASSUME NEW x \in 1..Len(u)
      PROVE  h[p][x] = u[x]
  <2>1. CASE x < i
    <3>1. x <= i - 1 /\ x \in 1..(Len(u) - 1)
      BY <2>1, <1>1
    <3> QED
      BY <3>1, <2>1, <1>2
  <2>2. CASE x = i
    <3>1. ~ x <= i - 1 /\ x = i - 1 + 1
      BY <2>2, <1>1
    <3> QED
      BY <3>1, <2>2, <1>2
  <2>3. CASE x > i
    <3>1. /\ ~ x <= i - 1 /\ x # i - 1 + 1 /\ x - 1 \in 1..(Len(u) - 1)
          /\ ~ x - 1 < i /\ x - 1 + 1 = x
      BY <2>3, <1>1
    <3> QED
      BY <3>1, <1>2
  <2> QED
    BY <2>1, <2>2, <2>3, <1>1
<1>4. h = k
  <2>1. \A q \in Owner : /\ Len(h[q]) = Len(k[q])
                         /\ \A l \in 1..Len(k[q]) : h[q][l] = k[q][l]
    BY <1>2, <1>3 DEF u
  <2> QED
    BY <2>1, <1>1, <1>2, SameLists
<1> QED
  BY <1>4 DEF c, h, u
-----------------------------------------------------------------------------
(* One node leaves its list; what it leaves behind. *)
LEMMA NodeLeaves ==
  ASSUME NEW m, NEW k, Arranged(m, {}, k), NEW src \in Alive(m),
         NEW u, u = Unlink(m, src, src), NEW c, c = Cut(k, src, src)
  PROVE  /\ Arranged(u, {src}, c) /\ Alive(u) = Alive(m)
         /\ \A x \in Ptr : u[x].parent = m[x].parent
<1>1. PICK p \in Owner : \E i \in 1..Len(k[p]) : src = k[p][i]
  BY Standing
<1>2. PICK i \in 1..Len(k[p]) : src = k[p][i]
  BY <1>1
<1>3. i \in i..Len(k[p]) /\ src \in Node
  BY <1>2, ArrangedFacts
<1>4. c = Less(k, p, i, i)
  BY <1>2, <1>3, RangeFacts
<1>5. SubSeq(k[p], i, i) = <<src>>
  <2>1. 0 \in 0..(Len(k[p]) - 1)
    BY <1>3, ArrangedFacts
  <2> QED
    BY <2>1, <1>2, <1>3, OneLists
<1>6. u = Unlink(m, k[p][i], k[p][i])
  BY <1>2
<1>7. SetOut(m, {}, Less(k, p, i, i), SubSeq(k[p], i, i), u)
  BY ONLY <1>3, <1>6, Arranged(m, {}, k), RangeLeaves
<1>8. SetOut(m, {}, c, <<src>>, u)
  BY ONLY <1>4, <1>5, <1>7
<1>9. {} \cup ToSet(<<src>>) = {src}
  BY DEF ToSet
<1> QED
  BY <1>8, <1>9 DEF SetOut

(* One node leaves its list and enters the place after the first l of       *)
(* another one.                                                             *)
LEMMA NodeMoves ==
  ASSUME NEW m, NEW k, Arranged(m, {}, k), NEW src \in Alive(m),
         NEW c, c = Cut(k, src, src),
         NEW q \in Alive(m) \cup Heads, NEW l \in 0..Len(c[q]),
         NEW pa, pa = parentOf(q), NEW b, b = At(q, c[q], l),
         NEW a, a = At(q, c[q], l + 1), NEW x
  PROVE  Moved(m, Move(m, src, pa, b, a), Put(c, q, l, <<src>>), x)
<1>1. PICK p \in Owner : \E i \in 1..Len(k[p]) : src = k[p][i]
  BY Standing
<1>2. PICK i \in 1..Len(k[p]) : src = k[p][i]
  BY <1>1
<1>3. i \in i..Len(k[p]) /\ src \in Node
  BY <1>2, ArrangedFacts
<1>4. c = Less(k, p, i, i)
  BY <1>2, <1>3, RangeFacts
<1>5. SubSeq(k[p], i, i) = <<src>>
  <2>1. 0 \in 0..(Len(k[p]) - 1)
    BY <1>3, ArrangedFacts
  <2> QED
    BY <2>1, <1>2, <1>3, OneLists
<1> DEFINE r == Move(m, src, pa, b, a)
           u == Unlink(m, src, src)
           s == <<src>>
<1>6. /\ r = LinkIn(u, k[p][i], k[p][i], parentOf(q), b, a)
      /\ u = Unlink(m, k[p][i], k[p][i]) /\ s = SubSeq(k[p], i, i)
  BY <1>2, <1>5 DEF Move
<1> HIDE DEF r, u, s
<1>7. Moved(m, r, Put(c, q, l, s), x)
  BY <1>3, <1>4, <1>6, MoveYields
<1> QED
  BY <1>7 DEF r, s

LEMMA MoveNext ==
  ASSUME NEW m, NEW k, Arranged(m, {}, k), NEW src \in Alive(m),
         NEW dst \in Alive(m), src # dst, NEW x
  PROVE  /\ Moved(m, move_after(m, dst, src), After(Cut(k, src, src), dst, <<src>>), x)
         /\ Moved(m, move_before(m, dst, src), Before(Cut(k, src, src), dst, <<src>>), x)
<1> DEFINE c == Cut(k, src, src)
           u == Unlink(m, src, src)
<1>0. c = Cut(k, src, src) /\ u = Unlink(m, src, src)
  OBVIOUS
<1> HIDE DEF c, u
<1>1. /\ Arranged(u, {src}, c) /\ Alive(u) = Alive(m)
      /\ \A y \in Ptr : u[y].parent = m[y].parent
  <2>1. Arranged(m, {}, k)
    OBVIOUS
  <2>2. Arranged(u, {src}, c)
    BY ONLY <1>0, <2>1, NodeLeaves
  <2>3. Alive(u) = Alive(m)
    BY ONLY <1>0, <2>1, NodeLeaves
  <2>4. \A y \in Ptr : u[y].parent = m[y].parent
    BY ONLY <1>0, <2>1, NodeLeaves
  <2> QED
    BY <2>2, <2>3, <2>4
<1>2. dst \in Alive(u) \ {src} /\ dst \in Node /\ src \in Node /\ dst \in Ptr
  BY <1>1, ArrangedFacts, PtrFacts
<1>3. PICK q \in Owner : \E l \in 1..Len(c[q]) : dst = c[q][l]
  BY <1>1, <1>2, Standing
<1>4. PICK l \in 1..Len(c[q]) : dst = c[q][l]
  BY <1>3
<1>5. /\ q \in Alive(u) \cup Heads /\ l \in 0..Len(c[q]) /\ l - 1 \in 0..Len(c[q])
      /\ u[dst].parent = parentOf(q)
      /\ u[dst].prev_sibling = At(q, c[q], l - 1)
      /\ u[dst].next_sibling = At(q, c[q], l + 1)
      /\ dst = At(q, c[q], l)
      /\ Over(c, dst) = q /\ Place(c, dst) = l
  BY <1>1, <1>4, NodeLinks
<1>6. q \in Alive(m) \cup Heads /\ m[dst].parent = parentOf(q)
  BY <1>1, <1>2, <1>5
<1>7. /\ After(c, dst, <<src>>) = Put(c, q, l, <<src>>)
      /\ Before(c, dst, <<src>>) = Put(c, q, l - 1, <<src>>)
  BY <1>5 DEF After, Before
<1>8. ASSUME NEW y \in Owner, NEW i \in 1..Len(k[y]), src = k[y][i], i # Len(k[y]),
             dst = k[y][i + 1]
      PROVE  Yields(m, m, Before(c, dst, <<src>>), x)
  <2>1. i \in i..Len(k[y]) /\ i \in 0..(Len(k[y]) - 1) /\ i \in 1..(Len(k[y]) - 1)
        /\ i + 1 \in 1..Len(k[y])
    BY <1>8, ArrangedFacts
  <2>2. c = Less(k, y, i, i)
    BY <1>0, <1>8, <2>1, RangeFacts
  <2>3. OneOut(k, y, i, c)
    BY <1>2, <2>1, <2>2, OneLists
  <2>4. c[y][i] = dst /\ i \in 1..Len(c[y])
    BY <2>1, <2>3, <1>8 DEF OneOut
  <2>5. Over(c, dst) = y /\ Place(c, dst) = i
    BY <1>1, <2>4, NodeLinks
  <2>6. Before(c, dst, <<src>>) = Put(c, y, i - 1, <<k[y][i]>>)
    BY <2>5, <1>8 DEF Before
  <2>7. Put(c, y, i - 1, <<k[y][i]>>) = k
    BY <2>2, BackAgain
  <2> QED
    BY <2>6, <2>7 DEF Yields
<1>9. ASSUME NEW y \in Owner, NEW i \in 1..Len(k[y]), src = k[y][i], i # 1,
             dst = k[y][i - 1]
      PROVE  Yields(m, m, After(c, dst, <<src>>), x)
  <2>1. i \in i..Len(k[y]) /\ 0 \in 0..(Len(k[y]) - 1) /\ i - 1 \in 1..(Len(k[y]) - 1)
        /\ i - 1 < i
    BY <1>9, ArrangedFacts
  <2>2. c = Less(k, y, i, i)
    BY <1>0, <1>9, <2>1, RangeFacts
  <2>3. OneOut(k, y, i, c)
    BY <1>2, <2>1, <2>2, OneLists
  <2>4. c[y][i - 1] = dst /\ i - 1 \in 1..Len(c[y])
    BY <2>1, <2>3, <1>9 DEF OneOut
  <2>5. Over(c, dst) = y /\ Place(c, dst) = i - 1
    BY <1>1, <2>4, NodeLinks
  <2>6. After(c, dst, <<src>>) = Put(c, y, i - 1, <<k[y][i]>>)
    BY <2>5, <1>9 DEF After
  <2>7. Put(c, y, i - 1, <<k[y][i]>>) = k
    BY <2>2, BackAgain
  <2> QED
    BY <2>6, <2>7 DEF Yields
<1>10. Moved(m, move_after(m, dst, src), After(c, dst, <<src>>), x)
  <2>1. CASE src = m[dst].next_sibling
    <3>1. move_after(m, dst, src) = m
      BY <2>1 DEF move_after
    <3>2. PICK y \in Owner : \E i \in 1..Len(k[y]) : dst = k[y][i]
      BY Standing
    <3>3. PICK i \in 1..Len(k[y]) : dst = k[y][i]
      BY <3>2
    <3>4. i \in Nat /\ i # 0 /\ i + 1 # 0 /\ Len(k[y]) \in Nat
      BY ArrangedFacts
    <3>5. src = At(y, k[y], i + 1) /\ endOf(y) \notin Node
      BY <2>1, <3>3, NodeLinks, OwnerFacts, DummyFacts, PtrFacts DEF endOf
    <3>6. i + 1 # Len(k[y]) + 1 /\ src = k[y][i + 1]
      BY <1>2, <3>4, <3>5 DEF At
    <3>7. i + 1 \in 1..Len(k[y]) /\ i + 1 # 1 /\ i + 1 - 1 = i
      BY <3>4, <3>6
    <3>8. Yields(m, m, After(c, dst, <<src>>), x)
      BY <3>3, <3>6, <3>7, <1>9
    <3> QED
      BY <3>1, <3>8 DEF Moved
  <2>2. CASE src # m[dst].next_sibling
    <3>1. move_after(m, dst, src) = Move(m, src, m[dst].parent, dst, u[dst].next_sibling)
      BY <1>0, <2>2 DEF move_after
    <3>2. Moved(m, Move(m, src, m[dst].parent, dst, u[dst].next_sibling),
                Put(c, q, l, <<src>>), x)
      BY ONLY <1>0, <1>5, <1>6, Arranged(m, {}, k), NodeMoves
    <3> QED
      BY <3>1, <3>2, <1>7
  <2> QED
    BY <2>1, <2>2
<1>11. Moved(m, move_before(m, dst, src), Before(c, dst, <<src>>), x)
  <2>1. CASE src = m[dst].prev_sibling
    <3>1. move_before(m, dst, src) = m
      BY <2>1 DEF move_before
    <3>2. PICK y \in Owner : \E i \in 1..Len(k[y]) : dst = k[y][i]
      BY Standing
    <3>3. PICK i \in 1..Len(k[y]) : dst = k[y][i]
      BY <3>2
    <3>4. i \in Nat /\ i # 0 /\ Len(k[y]) \in Nat /\ i <= Len(k[y])
      BY ArrangedFacts
    <3>5. src = At(y, k[y], i - 1) /\ beginOf(y) \notin Node
      BY <2>1, <3>3, NodeLinks, OwnerFacts, DummyFacts, PtrFacts DEF beginOf
    <3>6. i - 1 # Len(k[y]) + 1
      BY <3>4
    <3>7. i - 1 # 0 /\ src = k[y][i - 1]
      BY <1>2, <3>6, <3>5 DEF At
    <3>8. i - 1 \in 1..Len(k[y]) /\ i - 1 # Len(k[y]) /\ i - 1 + 1 = i
      BY <3>4, <3>7
    <3>9. Yields(m, m, Before(c, dst, <<src>>), x)
      BY <3>3, <3>7, <3>8, <1>8
    <3> QED
      BY <3>1, <3>9 DEF Moved
  <2>2. CASE src # m[dst].prev_sibling
    <3>1. move_before(m, dst, src) = Move(m, src, m[dst].parent, u[dst].prev_sibling, dst)
      BY <1>0, <2>2 DEF move_before
    <3>2. l - 1 + 1 = l
      BY <1>5
    <3>3. Moved(m, Move(m, src, m[dst].parent, u[dst].prev_sibling, dst),
                Put(c, q, l - 1, <<src>>), x)
      BY ONLY <1>0, <1>5, <1>6, <3>2, Arranged(m, {}, k), NodeMoves
    <3> QED
      BY <3>1, <3>3, <1>7
  <2> QED
    BY <2>1, <2>2
<1> QED
  BY <1>0, <1>10, <1>11

(* Two neighbours change places. *)
LEMMA SwapNextYields ==
  ASSUME NEW m, NEW k, Arranged(m, {}, k), NEW one \in Alive(m), NEW two \in Node,
         m[one].next_sibling = two, NEW x
  PROVE  /\ Moved(m, swap_with_next(m, one), Exchanged(k, one, two), x)
         /\ Moved(m, swap_with_next(m, one), Exchanged(k, two, one), x)
<1> DEFINE c == Cut(k, one, one)

<1>1. PICK p \in Owner : \E i \in 1..Len(k[p]) : one = k[p][i]
  BY Standing
<1>2. PICK i \in 1..Len(k[p]) : one = k[p][i]
  BY <1>1
<1>3. /\ i \in Nat /\ i # 0 /\ i + 1 # 0 /\ Len(k[p]) \in Nat
      /\ k \in [Owner -> Seq(Node)] /\ Once(k) /\ k[p] \in Seq(Node)
  BY ArrangedFacts
<1>4. /\ p \in Alive(m) \cup Heads /\ m[one].parent = parentOf(p)
      /\ two = At(p, k[p], i + 1) /\ endOf(p) \notin Node
  BY <1>2, NodeLinks, OwnerFacts, DummyFacts, PtrFacts DEF endOf
<1>5. i + 1 # Len(k[p]) + 1 /\ two = k[p][i + 1]
  BY <1>3, <1>4 DEF At
<1>6. /\ i + 1 \in 1..Len(k[p]) /\ i \in 0..(Len(k[p]) - 1) /\ i \in 1..(Len(k[p]) - 1)
      /\ i \in i..Len(k[p]) /\ i < Len(k[p])
  BY <1>3, <1>5
<1>7. c = Less(k, p, i, i)
  BY <1>2, <1>6, RangeFacts
<1> HIDE DEF c
<1>8. OneOut(k, p, i, c) /\ CutOut(p, k[p], i, i - i + 1, c[p])
  <2>1. OneOut(k, p, i, c)
    BY <1>5, <1>6, <1>7, OneLists
  <2>2. CutOut(p, k[p], i, i - i + 1, c[p])
    BY <1>6, <1>7, CutLists
  <2> QED
    BY <2>1, <2>2
<1>9. Len(c[p]) = Len(k[p]) - 1 /\ i \in 0..Len(c[p])
      /\ At(p, c[p], i) = two /\ At(p, c[p], i + 1) = At(p, k[p], i + 1 + 1)
  <2>1. Len(c[p]) = Len(k[p]) - 1
    BY <1>8 DEF OneOut
  <2>2. /\ i \in 0..Len(c[p]) /\ i \in 0..(Len(c[p]) + 1) /\ i + 1 \in 0..(Len(c[p]) + 1)
        /\ ~ i < i /\ ~ i + 1 < i /\ i + (i - i + 1) = i + 1
        /\ i + 1 + (i - i + 1) = i + 1 + 1
    BY ONLY <2>1, <1>3, <1>6
  <2>3. \A l \in 0..(Len(c[p]) + 1) :
          At(p, c[p], l) = IF l < i THEN At(p, k[p], l) ELSE At(p, k[p], l + (i - i + 1))
    BY <1>8 DEF CutOut
  <2>4. At(p, c[p], i) = At(p, k[p], i + 1) /\ At(p, c[p], i + 1) = At(p, k[p], i + 1 + 1)
    BY ONLY <2>2, <2>3
  <2> QED
    BY <2>1, <2>2, <2>4, <1>4
<1>10. m[two].next_sibling = At(p, k[p], i + 1 + 1)
  BY ONLY Arranged(m, {}, k), <1>5, <1>6, NodeLinks
<1>11. swap_with_next(m, one) = Move(m, one, m[one].parent, two, m[two].next_sibling)
  BY DEF swap_with_next
<1>12. c = Cut(k, one, one) /\ Arranged(m, {}, k)
  BY DEF c
<1>13. Moved(m, Move(m, one, m[one].parent, two, m[two].next_sibling),
             Put(c, p, i, <<one>>), x)
  BY ONLY <1>4, <1>9, <1>10, <1>12, NodeMoves
<1> DEFINE h == Put(c, p, i, <<one>>)
<1>14. OneIn(k, p, c, i, one, h)
  BY <1>2, <1>6, <1>7, ArrangedFacts, OneLists
<1> HIDE DEF h
<1>15. one # two
  BY <1>2, <1>3, <1>5, <1>6 DEF Once
<1>16. ASSUME NEW g, g = Exchanged(k, one, two) \/ g = Exchanged(k, two, one)
       PROVE  h = g
  <2>1. /\ DOMAIN k = Owner /\ \A q \in Owner : k[q] \in Seq(Node) /\ Len(k[q]) \in Nat
        /\ \A q \in Owner : DOMAIN k[q] = 1..Len(k[q])
        /\ one \in Node /\ two \in Node
        /\ \A q \in Owner : \A l \in 1..Len(k[q]) : k[q][l] \in Node
    BY <1>3, <1>2
  <2> DEFINE other(n) == IF n = one THEN two ELSE IF n = two THEN one ELSE n
  <2>2. g = [q \in Owner |-> [l \in 1..Len(k[q]) |-> other(k[q][l])]]
    BY <1>15, <1>16, <2>1 DEF Exchanged
  <2>3. \A q \in Owner : \A l \in 1..Len(k[q]) : other(k[q][l]) \in Node
    BY <2>1
  <2> HIDE DEF other
  <2>4. ASSUME NEW q \in Owner
        PROVE  /\ g[q] \in Seq(Node) /\ Len(g[q]) = Len(k[q])
               /\ \A l \in 1..Len(k[q]) : g[q][l] = other(k[q][l])
    <3>1. g[q] = [l \in 1..Len(k[q]) |-> other(k[q][l])]
      BY <2>2
    <3>2. Len(k[q]) \in Nat /\ \A l \in 1..Len(k[q]) : other(k[q][l]) \in Node
      BY <2>1, <2>3
    <3>3. g[q] \in [1..Len(k[q]) -> Node]
      BY <3>1, <3>2
    <3>4. g[q] \in Seq(Node) /\ Len(g[q]) = Len(k[q])
      BY <3>2, <3>3, SeqDef, LenProperties
    <3> QED
      BY <3>1, <3>4
  <2>5. g \in [Owner -> Seq(Node)]
    BY <2>2, <2>4
  <2>6. ASSUME NEW q \in Owner
        PROVE  Len(h[q]) = Len(g[q]) /\ \A l \in 1..Len(g[q]) : h[q][l] = g[q][l]
    <3>1. CASE q # p
      <4>1. \A l \in 1..Len(k[q]) : k[q][l] # one /\ k[q][l] # two
        BY <3>1, <1>2, <1>3, <1>5, <1>6 DEF Once
      <4>2. h[q] = k[q]
        BY <3>1, <1>14 DEF OneIn
      <4> QED
        BY <4>1, <4>2, <2>4 DEF other
    <3>2. CASE q = p
      <4>1. /\ Len(h[p]) = Len(k[p])
            /\ \A l \in 1..Len(k[p]) : h[p][l] = IF l <= i THEN c[p][l]
                   ELSE IF l = i + 1 THEN one ELSE c[p][l - 1]
        BY <1>14 DEF OneIn
      <4>2. \A l \in 1..(Len(k[p]) - 1) : c[p][l] = IF l < i THEN k[p][l] ELSE k[p][l + 1]
        BY <1>8 DEF OneOut
      <4>3. \A l \in 1..Len(k[p]) : /\ k[p][l] = one <=> l = i
                                    /\ k[p][l] = two <=> l = i + 1
        BY <1>2, <1>3, <1>5, <1>6 DEF Once
      <4>4. ASSUME NEW l \in 1..Len(k[p])
            PROVE  h[p][l] = other(k[p][l])
        <5>1. CASE l < i
          <6>1. l <= i /\ l # i /\ l # i + 1 /\ l \in 1..(Len(k[p]) - 1)
            BY ONLY <5>1, <1>3, <1>6
          <6> QED
            BY <6>1, <5>1, <4>1, <4>2, <4>3 DEF other
        <5>2. CASE l = i
          <6>1. l <= i /\ ~ l < i
            BY ONLY <5>2, <1>3
          <6>2. h[p][l] = two
            BY <6>1, <5>2, <4>1, <4>2, <1>5, <1>6
          <6> QED
            BY <6>2, <5>2, <4>3 DEF other
        <5>3. CASE l = i + 1
          <6>1. ~ l <= i
            BY ONLY <5>3, <1>3
          <6>2. h[p][l] = one
            BY <6>1, <5>3, <4>1
          <6> QED
            BY <6>2, <5>3, <4>3, <1>15 DEF other
        <5>4. CASE l > i + 1
          <6>1. /\ ~ l <= i /\ l # i /\ l # i + 1 /\ l - 1 \in 1..(Len(k[p]) - 1)
                /\ ~ l - 1 < i /\ l - 1 + 1 = l
            BY ONLY <5>4, <1>3, <1>6
          <6>2. h[p][l] = k[p][l]
            BY <6>1, <4>1, <4>2
          <6> QED
            BY <6>1, <6>2, <4>3 DEF other
        <5> QED
          BY <5>1, <5>2, <5>3, <5>4, <1>3
      <4> QED
        BY <4>1, <4>4, <3>2, <2>4
    <3> QED
      BY <3>1, <3>2
  <2>7. h \in [Owner -> Seq(Node)]
    BY <1>14 DEF OneIn
  <2> QED
    BY <2>5, <2>6, <2>7, SameLists
<1>17. h = Exchanged(k, one, two) /\ h = Exchanged(k, two, one)
  BY <1>16
<1> QED
  BY <1>11, <1>13, <1>17 DEF h
-----------------------------------------------------------------------------
(* The children of a node leave it. *)
LEMMA ChildrenLeave ==
  ASSUME NEW m, NEW k, Arranged(m, {}, k), NEW pos \in Alive(m),
         NEW e, e = Emptied(m, pos), NEW g, g = [k EXCEPT ![pos] = <<>>]
  PROVE  /\ Arranged(e, ToSet(k[pos]), g) /\ Kept(m, e) /\ Alive(e) = Alive(m)
         /\ k[pos] # <<>> => Strand(e, k[pos])
<1>1. /\ pos \in Node /\ pos \in Ptr /\ pos \in Alive(m) \cup Heads /\ m \in Memory
      /\ k[pos] \in Seq(Node) /\ Len(k[pos]) \in Nat
  BY ArrangedFacts, PtrFacts DEF Owner
<1>2. /\ e \in Memory
      /\ \A x \in Ptr :
           /\ e[x].parent = m[x].parent /\ e[x].data = m[x].data
           /\ e[x].next_sibling = m[x].next_sibling
           /\ e[x].prev_sibling = m[x].prev_sibling
           /\ e[x].first_child = IF x = pos THEN Null ELSE m[x].first_child
           /\ e[x].last_child = IF x = pos THEN Null ELSE m[x].last_child
  BY <1>1, EmptiedFields
<1>3. beginOf(pos) = Null /\ endOf(pos) = Null /\ parentOf(pos) = pos
  BY <1>1 DEF beginOf, endOf, parentOf
<1>4. Unlinked(m, e, parentOf(pos), beginOf(pos), endOf(pos))
  BY <1>2, <1>3, PtrFacts DEF Unlinked
<1>5. k[pos] = <<>> => e = m
  <2> SUFFICES ASSUME k[pos] = <<>> PROVE e = m
    OBVIOUS
  <2>1. /\ m[pos].first_child = At(pos, k[pos], 1)
        /\ m[pos].last_child = At(pos, k[pos], Len(k[pos]))
        /\ Null = At(pos, k[pos], 0) /\ Null = At(pos, k[pos], Len(k[pos]) + 1)
    BY <1>1, ChildLinks
  <2>2. Len(k[pos]) = 0
    OBVIOUS
  <2>3. m[pos].first_child = Null /\ m[pos].last_child = Null
    BY <2>1, <2>2
  <2>4. \A x \in Ptr : e[x] = m[x]
    BY <1>1, <1>2, <2>3, SameNode
  <2> QED
    BY <1>1, <1>2, <2>4 DEF Memory
<1>6. /\ Arranged(e, ToSet(k[pos]), [k EXCEPT ![pos] = <<>>])
      /\ k[pos] # <<>> => Strand(e, k[pos])
  BY <1>1, <1>4, <1>5, EmptyArranges
<1>7. Kept(m, e)
  BY <1>2 DEF Kept
<1>8. Alive(e) = Alive(m)
  BY <1>1, <1>2, SameAlive
<1> QED
  BY <1>6, <1>7, <1>8

LEMMA FlattenYields ==
  ASSUME NEW m, NEW k, Stored(m, k), NEW pos \in Alive(m), k[pos] # <<>>, NEW x
  PROVE  Moved(m, flatten(m, pos), After([k EXCEPT ![pos] = <<>>], pos, k[pos]), x)
<1> DEFINE e == Emptied(m, pos)
           g == [k EXCEPT ![pos] = <<>>]
           s == k[pos]
           r == flatten(m, pos)
<1>0. /\ Arranged(m, {}, k) /\ e = Emptied(m, pos) /\ g = [k EXCEPT ![pos] = <<>>]
      /\ r = LinkIn(e, m[pos].first_child, m[pos].last_child, m[pos].parent, pos,
                    m[pos].next_sibling)
  BY StoredFacts DEF flatten, Emptied
<1>1. /\ pos \in Node /\ m \in Memory /\ s \in Seq(Node) /\ Len(s) \in Nat
      /\ pos \in Ptr /\ Alive(m) \subseteq Node
      /\ \A i \in 1..Len(s) : s[i] \in Node
  BY StoredFacts, PtrFacts DEF Owner
<1> HIDE DEF e, r
<1>2. Arranged(e, ToSet(s), g) /\ Kept(m, e) /\ Alive(e) = Alive(m) /\ Strand(e, s)
  <2>1. Arranged(e, ToSet(s), g) /\ Strand(e, s)
    BY <1>0, ChildrenLeave
  <2>2. Kept(m, e)
    BY <1>0, ChildrenLeave
  <2>3. Alive(e) = Alive(m)
    BY <1>1, <2>2, SameAlive DEF Kept
  <2> QED
    BY <2>1, <2>2, <2>3
<1> HIDE DEF g
<1>3. \A y \in Ptr : e[y].parent = m[y].parent /\ e[y].next_sibling = m[y].next_sibling
  BY <1>0, <1>1, EmptiedFields
<1>4. pos \notin ToSet(s)
  <2> SUFFICES ASSUME pos \in ToSet(s) PROVE FALSE
    OBVIOUS
  <2>1. PICK i \in 1..Len(s) : pos = s[i]
    BY <1>1 DEF ToSet
  <2>2. pos \in Owner /\ parentOf(pos) = pos
    BY <1>1 DEF Owner, parentOf
  <2>3. m[pos].parent = parentOf(pos)
    BY <1>0, <2>1, <2>2, NodeLinks
  <2>4. NoCycle(m)
    BY DEF Stored, Sound, Loose
  <2>5. {pos} \in SUBSET Alive(m) /\ {pos} # {}
    OBVIOUS
  <2> QED
    BY <2>2, <2>3, <2>4, <2>5 DEF NoCycle
<1> HIDE DEF s
<1>5. PICK q \in Owner : \E l \in 1..Len(g[q]) : pos = g[q][l]
  BY <1>2, <1>4, Standing
<1>6. PICK l \in 1..Len(g[q]) : pos = g[q][l]
  BY <1>5
<1>7. /\ q \in Alive(e) \cup Heads /\ l \in 0..Len(g[q])
      /\ e[pos].parent = parentOf(q) /\ e[pos].next_sibling = At(q, g[q], l + 1)
      /\ pos = At(q, g[q], l) /\ Over(g, pos) = q /\ Place(g, pos) = l
  BY <1>2, <1>6, NodeLinks
<1>8. m[pos].first_child = s[1] /\ m[pos].last_child = s[Len(s)]
  <2>1. /\ m[pos].first_child = At(pos, s, 1) /\ m[pos].last_child = At(pos, s, Len(s))
    BY <1>0, <1>1, ChildLinks DEF s
  <2>2. Len(s) # 0 /\ 1 # Len(s) + 1 /\ Len(s) # Len(s) + 1
    BY <1>1 DEF s
  <2> QED
    BY <2>1, <2>2 DEF At
<1>9. r = LinkAt(e, g, s, q, l)
  BY <1>0, <1>1, <1>3, <1>7, <1>8 DEF LinkAt
<1>10. SetIn(e, ToSet(s), Put(g, q, l, s), s, r)
  BY <1>2, <1>7, <1>9, StrandEnters
<1>11. ToSet(s) \ ToSet(s) = {}
  OBVIOUS
<1>12. After(g, pos, s) = Put(g, q, l, s)
  BY <1>7 DEF After
<1>13. Yields(m, r, Put(g, q, l, s), x) /\ Alive(r) = Alive(m)
  BY <1>1, <1>2, <1>10, <1>11, PtrFacts DEF SetIn, Yields, Kept
<1> QED
  BY <1>12, <1>13 DEF Moved, r, g, s

(* The data of a node changes; its links do not. *)
LEMMA DataYields ==
  ASSUME NEW m, NEW k, Arranged(m, {}, k), NEW r \in Memory, NEW n \in Alive(m),
         SameLinks(m, r), \A y \in Ptr \ {n} : r[y].data = m[y].data
  PROVE  Arranged(r, {}, k)
<1>1. /\ m \in Memory /\ Alive(m) \subseteq Node /\ k \in [Owner -> Seq(Node)] /\ Once(k)
      /\ \A q \in Owner : ListOf(m, q, k[q]) /\ k[q] \in Seq(Node) /\ Len(k[q]) \in Nat
      /\ \A q \in Owner : \A l \in 1..Len(k[q]) : k[q][l] \in Node
      /\ \A y \in Node : Listed(k, y) <=> y \in Alive(m) \ {}
      /\ \A y \in Node \ Alive(m) : m[y] = Unused
  <2>1. /\ \A q \in Owner : ListOf(m, q, k[q])
        /\ \A y \in Node : Listed(k, y) <=> y \in Alive(m) \ {}
        /\ \A y \in Node \ Alive(m) : m[y] = Unused
    BY DEF Arranged
  <2> QED
    BY <2>1, ArrangedFacts
<1>2. /\ Alive(r) = Alive(m) /\ Node \subseteq Ptr
      /\ \A t \in Tree : feet(t) \in Ptr
      /\ \A y \in Ptr : /\ r[y].parent = m[y].parent
                        /\ r[y].first_child = m[y].first_child
                        /\ r[y].last_child = m[y].last_child
                        /\ r[y].next_sibling = m[y].next_sibling
                        /\ r[y].prev_sibling = m[y].prev_sibling
  BY PtrFacts DEF SameLinks
<1>3. ASSUME NEW q \in Owner
      PROVE  ListOf(r, q, k[q])
  <2>1. q \in Ptr /\ (q \notin Node => feet(q[2]) \in Ptr)
    BY <1>2, OwnerFacts
  <2>2. firstOf(r, q) = firstOf(m, q) /\ lastOf(r, q) = lastOf(m, q)
    BY <1>2, <2>1 DEF firstOf, lastOf
  <2>3. \A j \in 1..Len(k[q]) : /\ r[k[q][j]].parent = m[k[q][j]].parent
                                /\ r[k[q][j]].next_sibling = m[k[q][j]].next_sibling
                                /\ r[k[q][j]].prev_sibling = m[k[q][j]].prev_sibling
    BY <1>1, <1>2
  <2> QED
    BY <1>1, <2>2, <2>3, ListSame
<1>4. ASSUME NEW y \in Node \ Alive(r)
      PROVE  r[y] = Unused
  <2>1. y \in Ptr /\ y # n /\ m[y] = Unused /\ r[y].data = m[y].data
    BY <1>1, <1>2
  <2>2. r[y] = m[y]
    BY <1>1, <1>2, <2>1, SameNode
  <2> QED
    BY <2>1, <2>2
<1> QED
  BY <1>1, <1>2, <1>3, <1>4 DEF Arranged
-----------------------------------------------------------------------------
(* What a link leads to that leads to a node. *)
LEMMA FirstIs ==
  ASSUME NEW m, NEW M, NEW k, Arranged(m, M, k), NEW q \in Owner,
         firstOf(m, q) \in Node
  PROVE  1 \in 1..Len(k[q]) /\ firstOf(m, q) = k[q][1]
<1>1. Len(k[q]) \in Nat /\ firstOf(m, q) = At(q, k[q], 1) /\ endOf(q) \notin Node
  BY EndLinks, OwnerFacts, DummyFacts, PtrFacts DEF endOf
<1>2. 1 # Len(k[q]) + 1 /\ firstOf(m, q) = k[q][1]
  BY <1>1 DEF At
<1> QED
  BY <1>1, <1>2

LEMMA NextIs ==
  ASSUME NEW m, NEW M, NEW k, Arranged(m, M, k), NEW q \in Owner,
         NEW i \in 1..Len(k[q]), m[k[q][i]].next_sibling \in Node
  PROVE  i + 1 \in 1..Len(k[q]) /\ m[k[q][i]].next_sibling = k[q][i + 1]
<1>1. /\ Len(k[q]) \in Nat /\ m[k[q][i]].next_sibling = At(q, k[q], i + 1)
      /\ endOf(q) \notin Node
  BY NodeLinks, OwnerFacts, DummyFacts, PtrFacts DEF endOf
<1>2. i + 1 # 0
  BY <1>1
<1>3. i + 1 # Len(k[q]) + 1 /\ m[k[q][i]].next_sibling = k[q][i + 1]
  BY <1>1, <1>2 DEF At
<1>4. i + 1 \in 1..Len(k[q])
  BY <1>1, <1>3
<1> QED
  BY <1>3, <1>4

LEMMA ListClosed ==
  ASSUME NEW m, NEW M, NEW k, Arranged(m, M, k), NEW p \in Owner, NEW D,
         firstOf(m, p) \in Node => firstOf(m, p) \in D,
         \A y \in D : m[y].next_sibling \in Node => m[y].next_sibling \in D,
         NEW i \in 1..Len(k[p])
  PROVE  k[p][i] \in D
<1> DEFINE T == {j \in Nat : j \in 1..Len(k[p]) /\ k[p][j] \notin D}
<1>1. /\ Len(k[p]) \in Nat
      /\ \A j \in 1..Len(k[p]) : k[p][j] \in Node /\ j \in Nat /\ j >= 1
  BY ArrangedFacts
<1>2. T = {}
  <2> SUFFICES ASSUME T # {} PROVE FALSE
    OBVIOUS
  <2>1. PICK j \in T : \A l \in T : j <= l
    <3>1. T \in SUBSET Nat /\ T # {}
      OBVIOUS
    <3> HIDE DEF T
    <3> QED
      BY <3>1, LeastNatural
  <2>2. j \in 1..Len(k[p]) /\ k[p][j] \notin D /\ k[p][j] \in Node
    BY <1>1
  <2>3. CASE j = 1
    <3>1. firstOf(m, p) = At(p, k[p], 1)
      BY EndLinks
    <3>2. At(p, k[p], 1) = k[p][1]
      BY <2>2, <2>3, <1>1 DEF At
    <3> QED
      BY <3>1, <3>2, <2>2, <2>3
  <2>4. CASE j # 1
    <3>1. /\ j - 1 \in 1..Len(k[p]) /\ j - 1 \in Nat /\ ~ j <= j - 1 /\ j - 1 + 1 = j
          /\ j # 0 /\ j # Len(k[p]) + 1
      BY ONLY <1>1, <2>2, <2>4
    <3>2. k[p][j - 1] \in D
      BY <3>1, <2>1
    <3>3. m[k[p][j - 1]].next_sibling = At(p, k[p], j)
      BY ONLY Arranged(m, M, k), <3>1, NodeLinks
    <3>4. At(p, k[p], j) = k[p][j]
      BY <3>1 DEF At
    <3> QED
      BY <3>2, <3>3, <3>4, <2>2
  <2> QED
    BY <2>3, <2>4
<1> QED
  BY <1>1, <1>2

(* D is all that is below n. *)
Beneath(m, k, n, D) ==
  /\ D \subseteq Alive(m) /\ Under(k, n) = {n} \cup D
  /\ \A p \in D \cup {n} : \A i \in 1..Len(k[p]) : k[p][i] \in D
  /\ \A q \in Owner : \A i \in 1..Len(k[q]) : k[q][i] \in D => q \in D \cup {n}

LEMMA UnderFacts ==
  ASSUME NEW m, NEW k, Arranged(m, {}, k), NEW n \in Owner,
         NEW D, D = Reach(m, firstOf(m, n))
  PROVE  Beneath(m, k, n, D)
<1> DEFINE Closed(S) == \A p \in S \cup {n} : \A i \in 1..Len(k[p]) : k[p][i] \in S
           Owned(S) == {y \in S : \E q \in S \cup {n} : \E i \in 1..Len(k[q]) : y = k[q][i]}
<1>1. /\ D \subseteq Node
      /\ firstOf(m, n) \in Node => firstOf(m, n) \in D
      /\ \A y \in D : /\ m[y].first_child \in Node => m[y].first_child \in D
                      /\ m[y].next_sibling \in Node => m[y].next_sibling \in D
      /\ \A C \in SUBSET Node : WalkClosed(m, firstOf(m, n), C) => D \subseteq C
  BY ReachFacts DEF WalkClosed
<1>2. /\ Node \subseteq Owner /\ Once(k)
      /\ \A q \in Owner : k[q] \in Seq(Node) /\ Len(k[q]) \in Nat
      /\ \A q \in Owner : \A i \in 1..Len(k[q]) : k[q][i] \in Alive(m) /\ k[q][i] \in Node
  BY ArrangedFacts DEF Owner
<1>3. \A y \in Node : firstOf(m, y) = m[y].first_child
  BY DEF firstOf
<1>4. Closed(D)
  <2> SUFFICES ASSUME NEW p \in D \cup {n}, NEW i \in 1..Len(k[p])
               PROVE  k[p][i] \in D
    OBVIOUS
  <2>1. p \in Owner /\ (firstOf(m, p) \in Node => firstOf(m, p) \in D)
    BY <1>1, <1>2, <1>3
  <2> QED
    BY <2>1, <1>1, ListClosed
<1>5. ASSUME NEW S \in SUBSET Node, Closed(S)
      PROVE  D \subseteq Owned(S)
  <2>1. firstOf(m, n) \in Node => firstOf(m, n) \in Owned(S)
    BY <1>5, FirstIs
  <2>2. ASSUME NEW y \in Owned(S), m[y].first_child \in Node
        PROVE  m[y].first_child \in Owned(S)
    <3>1. y \in Owner /\ y \in Node /\ firstOf(m, y) \in Node
      BY <1>2, <1>3, <2>2
    <3>2. 1 \in 1..Len(k[y]) /\ m[y].first_child = k[y][1]
      BY <3>1, <1>3, FirstIs
    <3> QED
      BY <3>2, <1>5
  <2>3. ASSUME NEW y \in Owned(S), m[y].next_sibling \in Node
        PROVE  m[y].next_sibling \in Owned(S)
    <3>1. PICK q \in S \cup {n} : \E i \in 1..Len(k[q]) : y = k[q][i]
      OBVIOUS
    <3>2. PICK i \in 1..Len(k[q]) : y = k[q][i]
      BY <3>1
    <3>3. q \in Owner
      BY <1>2
    <3>4. i + 1 \in 1..Len(k[q]) /\ m[y].next_sibling = k[q][i + 1]
      BY <3>2, <3>3, <2>3, NextIs
    <3> QED
      BY <3>4, <1>5
  <2>4. Owned(S) \in SUBSET Node
    OBVIOUS
  <2> HIDE DEF Owned
  <2>5. WalkClosed(m, firstOf(m, n), Owned(S))
    BY <2>1, <2>2, <2>3 DEF WalkClosed
  <2> QED
    BY <2>4, <2>5, <1>1
<1>6. D \subseteq Owned(D)
  BY <1>1, <1>4, <1>5
<1>7. D \subseteq Alive(m)
  BY <1>1, <1>2, <1>6
<1>8. ASSUME NEW q \in Owner, NEW i \in 1..Len(k[q]), k[q][i] \in D
      PROVE  q \in D \cup {n}
  <2>1. PICK p \in D \cup {n} : \E j \in 1..Len(k[p]) : k[q][i] = k[p][j]
    BY <1>8, <1>6
  <2>2. p \in Owner
    BY <1>1, <1>2
  <2> QED
    BY <2>1, <2>2, <1>2 DEF Once
<1>9. Under(k, n) = {n} \cup D
  <2> DEFINE X == {S \in SUBSET Node : \A p \in S \cup {n} : ToSet(k[p]) \subseteq S}
  <2>1. \A q \in Owner : ToSet(k[q]) = {k[q][i] : i \in 1..Len(k[q])}
    BY <1>2 DEF ToSet
  <2>2. ASSUME NEW S \in SUBSET Node
        PROVE  S \in X <=> Closed(S)
    <3>1. \A p \in S \cup {n} : p \in Owner
      BY <1>2
    <3>2. ASSUME NEW p \in S \cup {n}
          PROVE  ToSet(k[p]) \subseteq S <=> \A i \in 1..Len(k[p]) : k[p][i] \in S
      <4>1. ToSet(k[p]) = {k[p][i] : i \in 1..Len(k[p])}
        BY <3>1, <2>1
      <4> QED
        BY ONLY <4>1
    <3> QED
      BY <3>2
  <2>3. D \in X
    BY <2>2, <1>1, <1>4
  <2>4. \A S \in X : D \subseteq S
    BY <2>2, <1>5
  <2>5. InAll(X) = D
    BY <2>3, <2>4, <1>1 DEF InAll
  <2> QED
    BY <2>5 DEF Under
<1> QED
  BY <1>4, <1>7, <1>8, <1>9 DEF Beneath
-----------------------------------------------------------------------------
(* From u, reached from m, the nodes of D are released. *)
Lessened(m, r, D, h, x) == Yields(m, r, h, x) /\ Alive(r) = Alive(m) \ D

LEMMA ReleaseYields ==
  ASSUME NEW m, m \in Memory, NEW u, NEW M, NEW c, Arranged(u, M, c), Kept(m, u),
         NEW D \in SUBSET Owner, M \subseteq D,
         \A q \in Owner \ D : \A i \in 1..Len(c[q]) : c[q][i] \notin D,
         \A q \in D : q \in Node => \A i \in 1..Len(c[q]) : c[q][i] \in D,
         \A q \in D : q \notin Node => c[q] = <<>>,
         NEW r, r = Deallocate(u, D \cap Node), NEW x
  PROVE  Lessened(m, r, D, Drop(c, D), x)
<1>1. Arranged(r, {}, Drop(c, D))
  BY DeallocateArranges
<1>3. /\ u \in Memory /\ r \in Memory
      /\ \A y \in D \cap Node : r[y].data = Freed
      /\ \A y \in Ptr \ (D \cap Node) : r[y] = u[y]
  BY ArrangedFacts, DeallocateFields
<1>4. Alive(u) = Alive(m)
  BY <1>3, SameAlive DEF Kept
<1>5. Alive(u) \subseteq Node /\ Node \subseteq Ptr
  BY <1>3, AliveFacts, PtrFacts
<1>2. Alive(r) = Alive(u) \ D
  <2>1. \A y \in Node : r[y].data # Freed <=> u[y].data # Freed /\ y \notin D
    BY ONLY <1>3, <1>5
  <2> QED
    BY ONLY <2>1 DEF Alive
<1>6. \A y \in Alive(r) : r[y].data = m[y].data /\ y \in Alive(m)
  BY <1>2, <1>3, <1>4, <1>5 DEF Kept
<1> QED
  BY <1>1, <1>2, <1>4, <1>6 DEF Lessened, Yields

LEMMA DropSame ==
  ASSUME NEW k \in [Owner -> Seq(Node)], NEW p \in Owner, NEW D
  PROVE  Drop([k EXCEPT ![p] = <<>>], D) = Drop(k, {p} \cup D)
  BY DEF Drop

LEMMA EraseChildrenYields ==
  ASSUME NEW m, NEW k, Arranged(m, {}, k), NEW pos \in Alive(m), NEW x
  PROVE  Lessened(m, erase_children(m, pos), Below(m, pos), Drop(k, Under(k, pos)), x)
<1> DEFINE e == Emptied(m, pos)
           g == [k EXCEPT ![pos] = <<>>]
           D == Below(m, pos)
           r == erase_children(m, pos)
<1>1. /\ pos \in Node /\ pos \in Owner /\ m \in Memory /\ Alive(m) \subseteq Node
      /\ k \in [Owner -> Seq(Node)] /\ Node \subseteq Owner
      /\ \A q \in Owner : k[q] \in Seq(Node) /\ Len(k[q]) \in Nat
  BY ArrangedFacts DEF Owner
<1>2. D = Reach(m, firstOf(m, pos))
  BY <1>1 DEF Below, firstOf
<1>3. r = Deallocate(e, D)
  BY DEF erase_children, Emptied
<1>4. e = Emptied(m, pos) /\ g = [k EXCEPT ![pos] = <<>>]
  OBVIOUS
<1> HIDE DEF D, r, e
<1>5. Arranged(e, ToSet(k[pos]), g)
  BY <1>4, ChildrenLeave
<1>6. Kept(m, e)
  BY <1>4, ChildrenLeave
<1>7. Beneath(m, k, pos, D)
  BY <1>1, <1>2, UnderFacts
<1>8. /\ D \subseteq Alive(m) /\ Under(k, pos) = {pos} \cup D
      /\ \A p \in D \cup {pos} : \A i \in 1..Len(k[p]) : k[p][i] \in D
      /\ \A q \in Owner : \A i \in 1..Len(k[q]) : k[q][i] \in D => q \in D \cup {pos}
  BY <1>7 DEF Beneath
<1>9. /\ g[pos] = <<>> /\ Len(g[pos]) = 0
      /\ \A q \in Owner \ {pos} : g[q] = k[q]
  BY <1>1
<1>10. Drop(g, D) = Drop(k, Under(k, pos))
  <2>1. Drop([k EXCEPT ![pos] = <<>>], D) = Drop(k, {pos} \cup D)
    BY <1>1, DropSame
  <2>2. Under(k, pos) = {pos} \cup D
    BY <1>8
  <2>3. g = [k EXCEPT ![pos] = <<>>]
    OBVIOUS
  <2> HIDE DEF g
  <2> QED
    BY ONLY <2>1, <2>2, <2>3
<1> HIDE DEF g
<1>11. D \in SUBSET Owner /\ D \cap Node = D /\ r = Deallocate(e, D \cap Node)
  BY <1>1, <1>3, <1>8
<1>12. ToSet(k[pos]) \subseteq D
  BY <1>1, <1>8 DEF ToSet
<1>13. ASSUME NEW q \in Owner \ D, NEW i \in 1..Len(g[q])
       PROVE  g[q][i] \notin D
  BY <1>8, <1>9
<1>14. ASSUME NEW q \in D, NEW i \in 1..Len(g[q])
       PROVE  g[q][i] \in D
  BY <1>8, <1>9, <1>11
<1>15. \A q \in D : q \in Node
  BY <1>1, <1>8
<1>16. Lessened(m, r, D, Drop(g, D), x)
  BY <1>1, <1>5, <1>6, <1>11, <1>12, <1>13, <1>14, <1>15, ReleaseYields
<1> QED
  BY <1>10, <1>16 DEF D, r

LEMMA EraseYields ==
  ASSUME NEW m, NEW k, Arranged(m, {}, k), NEW pos \in Alive(m), NEW x
  PROVE  Lessened(m, erase(m, pos), Under(k, pos),
                  Drop(Cut(k, pos, pos), Under(k, pos)), x)
<1> DEFINE u == Unlink(m, pos, pos)
           c == Cut(k, pos, pos)
           B == Below(m, pos)
           D == Under(k, pos)
           r == erase(m, pos)
<1>1. /\ pos \in Node /\ pos \in Owner /\ m \in Memory /\ Alive(m) \subseteq Node
      /\ k \in [Owner -> Seq(Node)] /\ Node \subseteq Owner /\ Once(k)
      /\ \A q \in Owner : k[q] \in Seq(Node) /\ Len(k[q]) \in Nat
      /\ pos \in Ptr
  BY ArrangedFacts, PtrFacts DEF Owner
<1>2. B = Reach(m, firstOf(m, pos)) /\ r = Deallocate(u, {pos} \cup B)
  BY <1>1 DEF Below, firstOf, erase, Subtree
<1>3. u = Unlink(m, pos, pos) /\ c = Cut(k, pos, pos)
  OBVIOUS
<1>a. PICK p \in Owner : \E i \in 1..Len(k[p]) : pos = k[p][i]
  BY Standing
<1>b. PICK i \in 1..Len(k[p]) : pos = k[p][i]
  BY <1>a
<1> HIDE DEF u, c, B, D, r
<1>4. Arranged(u, {pos}, c)
  BY <1>3, NodeLeaves
<1>5. Kept(m, u)
  BY <1>1, <1>3, UnlinkFields DEF Unlinked, Kept
<1>6. Beneath(m, k, pos, B)
  BY <1>1, <1>2, UnderFacts
<1>7. /\ B \subseteq Alive(m) /\ D = {pos} \cup B
      /\ \A q \in B \cup {pos} : \A l \in 1..Len(k[q]) : k[q][l] \in B
      /\ \A q \in Owner : \A l \in 1..Len(k[q]) : k[q][l] \in B => q \in B \cup {pos}
  BY <1>6 DEF Beneath, D
<1>8. ASSUME NEW q \in Owner, NEW l \in 1..Len(c[q])
      PROVE  c[q][l] # pos /\ \E y \in 1..Len(k[q]) : c[q][l] = k[q][y]
  <2>1. c[q][l] # pos
    BY <1>4, ArrangedFacts
  <2>2. i \in i..Len(k[p]) /\ 0 \in 0..(Len(k[p]) - 1)
    BY <1>1
  <2>3. c = Less(k, p, i, i)
    BY <1>3, <1>b, <2>2, RangeFacts
  <2>4. OneOut(k, p, i, c)
    BY <1>1, <2>2, <2>3, OneLists
  <2>5. CASE q = p
    <3>1. l \in 1..(Len(k[p]) - 1)
      BY <2>4, <2>5 DEF OneOut
    <3>2. l \in 1..Len(k[p]) /\ l + 1 \in 1..Len(k[p])
      BY ONLY <3>1, <1>1
    <3>3. c[p][l] = IF l < i THEN k[p][l] ELSE k[p][l + 1]
      BY <3>1, <2>4 DEF OneOut
    <3> QED
      BY <2>1, <2>5, <3>2, <3>3
  <2>6. CASE q # p
    <3>1. c[q] = k[q]
      BY <2>4, <2>6 DEF OneOut
    <3> QED
      BY <2>1, <3>1
  <2> QED
    BY <2>5, <2>6
<1>9. D \in SUBSET Owner /\ {pos} \subseteq D /\ D \cap Node = D
      /\ r = Deallocate(u, D \cap Node)
  BY <1>1, <1>2, <1>7
<1>10. ASSUME NEW q \in Owner \ D, NEW l \in 1..Len(c[q])
       PROVE  c[q][l] \notin D
  BY <1>7, <1>8
<1>11. ASSUME NEW q \in D, NEW l \in 1..Len(c[q])
       PROVE  c[q][l] \in D
  BY ONLY <1>7, <1>8, <1>9
<1>12. \A q \in D : q \in Node
  BY <1>1, <1>7
<1>13. Lessened(m, r, D, Drop(c, D), x)
  BY <1>1, <1>4, <1>5, <1>9, <1>10, <1>11, <1>12, ReleaseYields
<1> QED
  BY <1>13 DEF D, r, c

LEMMA ClearYields ==
  ASSUME NEW m, NEW k, Arranged(m, {}, k), NEW t \in Tree, NEW x
  PROVE  Yields(m, clear(m, t), Drop(k, Under(k, head(t))), x)
<1> DEFINE p == head(t)
           e == [m EXCEPT ![head(t)].next_sibling = feet(t),
                          ![feet(t)].prev_sibling = head(t)]
           g == [k EXCEPT ![p] = <<>>]
           B == InTree(m, t)
           D == {p} \cup B
           r == clear(m, t)
<1>1. /\ p \in Heads /\ p \in Owner /\ p \notin Node /\ p[2] = t
      /\ m \in Memory /\ Alive(m) \subseteq Node /\ p \in Ptr /\ feet(t) \in Ptr
      /\ k \in [Owner -> Seq(Node)] /\ Node \subseteq Owner /\ p # feet(t)
      /\ feet(t) \notin Node
      /\ \A q \in Owner : k[q] \in Seq(Node) /\ Len(k[q]) \in Nat
  BY ZenonT(30), ArrangedFacts, PtrFacts, DummyFacts DEF Owner, Heads, Feets, head, feet
<1>2. /\ parentOf(p) = Null /\ beginOf(p) = p /\ endOf(p) = feet(t)
      /\ B = Reach(m, firstOf(m, p))
  BY <1>1 DEF parentOf, beginOf, endOf, InTree, firstOf
<1>3. r = Deallocate(e, B)
  BY DEF clear
<1>4. /\ e \in Memory
      /\ \A y \in Ptr :
           /\ e[y].parent = m[y].parent /\ e[y].data = m[y].data
           /\ e[y].first_child = m[y].first_child
           /\ e[y].last_child = m[y].last_child
           /\ e[y].next_sibling = IF y = p THEN feet(t) ELSE m[y].next_sibling
           /\ e[y].prev_sibling = IF y = feet(t) THEN p ELSE m[y].prev_sibling
  <2>1. p \in Link /\ feet(t) \in Link
    BY <1>1 DEF Link
  <2> HIDE DEF p
  <2>2. e = [m EXCEPT ![p].next_sibling = feet(t), ![feet(t)].prev_sibling = p]
    BY DEF p
  <2> HIDE DEF e
  <2>3. /\ m[p] \in TreeNode /\ m[feet(t)] \in TreeNode
        /\ \A y \in Ptr : m[y] \in TreeNode
    BY <1>1 DEF Memory
  <2>4. /\ DOMAIN e = Ptr /\ e = [y \in Ptr |-> e[y]]
        /\ e[p] = [m[p] EXCEPT !.next_sibling = feet(t)]
        /\ e[feet(t)] = [m[feet(t)] EXCEPT !.prev_sibling = p]
        /\ \A y \in Ptr \ {p, feet(t)} : e[y] = m[y]
    BY <2>2, <1>1 DEF Memory
  <2>5. /\ e[p] \in TreeNode /\ e[p].parent = m[p].parent /\ e[p].data = m[p].data
        /\ e[p].first_child = m[p].first_child /\ e[p].last_child = m[p].last_child
        /\ e[p].next_sibling = feet(t) /\ e[p].prev_sibling = m[p].prev_sibling
    BY <2>1, <2>3, <2>4 DEF TreeNode
  <2> DEFINE f == feet(t)
  <2>6. /\ e[f] \in TreeNode /\ e[f].parent = m[f].parent /\ e[f].data = m[f].data
        /\ e[f].first_child = m[f].first_child /\ e[f].last_child = m[f].last_child
        /\ e[f].next_sibling = m[f].next_sibling /\ e[f].prev_sibling = p
    BY <2>1, <2>3, <2>4 DEF TreeNode
  <2>7. \A y \in Ptr : e[y] \in TreeNode
    BY <2>3, <2>4, <2>5, <2>6
  <2>8. e \in Memory
    BY <2>4, <2>7 DEF Memory
  <2> QED
    BY <2>4, <2>5, <2>6, <2>8, <1>1
<1> HIDE DEF p, e, r, B
<1>5. Unlinked(m, e, parentOf(p), beginOf(p), endOf(p))
  BY <1>1, <1>2, <1>4, PtrFacts DEF Unlinked
<1>6. k[p] = <<>> => e = m
  <2> SUFFICES ASSUME k[p] = <<>> PROVE e = m
    OBVIOUS
  <2>1. /\ m[p].next_sibling = At(p, k[p], 1)
        /\ m[feet(t)].prev_sibling = At(p, k[p], Len(k[p]))
        /\ feet(t) = At(p, k[p], Len(k[p]) + 1)
        /\ p = At(p, k[p], 0)
    BY TopLinks DEF p
  <2>2. Len(k[p]) = 0
    OBVIOUS
  <2>3. m[p].next_sibling = feet(t) /\ m[feet(t)].prev_sibling = p
    BY <2>1, <2>2
  <2>4. \A y \in Ptr : e[y] = m[y]
    BY <1>1, <1>4, <2>3, SameNode
  <2> QED
    BY <1>1, <1>4, <2>4 DEF Memory
<1>7. Arranged(e, ToSet(k[p]), g)
  BY <1>1, <1>5, <1>6, EmptyArranges
<1>8. Kept(m, e)
  BY <1>4 DEF Kept
<1>9. Beneath(m, k, p, B)
  BY <1>1, <1>2, UnderFacts
<1>10. /\ B \subseteq Alive(m) /\ Under(k, p) = D
       /\ \A q \in B \cup {p} : \A i \in 1..Len(k[q]) : k[q][i] \in B
       /\ \A q \in Owner : \A i \in 1..Len(k[q]) : k[q][i] \in B => q \in B \cup {p}
  BY <1>9 DEF Beneath
<1>11. /\ g[p] = <<>> /\ Len(g[p]) = 0
       /\ \A q \in Owner \ {p} : g[q] = k[q]
  BY <1>1
<1>12. Drop(g, D) = Drop(k, D)
  <2>1. Drop(g, D) = Drop(k, {p} \cup D) /\ {p} \cup D = D
    BY <1>1, DropSame
  <2> QED
    BY <2>1
<1>13. ASSUME NEW q \in Owner, NEW i \in 1..Len(g[q])
       PROVE  g[q][i] \in Node /\ g[q][i] # p /\ q # p /\ g[q][i] = k[q][i]
              /\ i \in 1..Len(k[q])
  BY <1>1, <1>11
<1> HIDE DEF g
<1>14. D \in SUBSET Owner /\ D \cap Node = B /\ r = Deallocate(e, D \cap Node)
  <2>1. B \subseteq Node
    BY <1>1, <1>10
  <2>2. D \cap Node = B
    BY <2>1, <1>1
  <2>3. D \in SUBSET Owner
    BY <2>1, <1>1
  <2> HIDE DEF D
  <2> QED
    BY <2>2, <2>3, <1>3
<1>15. ToSet(k[p]) \subseteq D
  BY <1>1, <1>10 DEF ToSet
<1>16. ASSUME NEW q \in Owner \ D, NEW i \in 1..Len(g[q])
       PROVE  g[q][i] \notin D
  BY <1>10, <1>13
<1>17. ASSUME NEW q \in D, NEW i \in 1..Len(g[q])
       PROVE  g[q][i] \in D
  BY <1>10, <1>13, <1>14
<1>18. \A q \in D : q \notin Node => g[q] = <<>>
  BY <1>1, <1>10, <1>11
<1> HIDE DEF D
<1>19. Lessened(m, r, D, Drop(g, D), x)
  BY <1>1, <1>7, <1>8, <1>14, <1>15, <1>16, <1>17, <1>18, ReleaseYields
<1> QED
  BY <1>10, <1>12, <1>19 DEF Lessened, r, p

-----------------------------------------------------------------------------
(* The ends of a range of siblings. *)
LEMMA RangeEndsAre ==
  ASSUME NEW m, NEW M, NEW k, Arranged(m, M, k), NEW p \in Owner,
         NEW i \in 1..Len(k[p]), NEW last \in Chain(m, k[p][i], Null)
  PROVE  \E j \in i..Len(k[p]) : last = k[p][j]
<1> DEFINE C == {k[p][j] : j \in i..Len(k[p])}
<1>1. /\ Len(k[p]) \in Nat /\ k[p][i] \in Node /\ i \in i..Len(k[p])
      /\ \A j \in i..Len(k[p]) : j \in 1..Len(k[p]) /\ k[p][j] \in Node
      /\ \A j \in i..Len(k[p]) : j + 1 \in 1..Len(k[p]) => j + 1 \in i..Len(k[p])
  BY ArrangedFacts
<1>2. C \in SUBSET Node
  BY <1>1
<1>3. ChainClosed(m, k[p][i], Null, C)
  <2>1. k[p][i] \in C
    BY <1>1
  <2>2. ASSUME NEW y \in C \ {Null}, m[y].next_sibling \in Node
        PROVE  m[y].next_sibling \in C
    <3>1. PICK j \in i..Len(k[p]) : y = k[p][j]
      OBVIOUS
    <3>2. j + 1 \in 1..Len(k[p]) /\ m[y].next_sibling = k[p][j + 1]
      BY <3>1, <2>2, <1>1, NextIs
    <3> QED
      BY <3>2, <1>1
  <2> HIDE DEF C
  <2> QED
    BY <2>1, <2>2 DEF ChainClosed
<1>4. Chain(m, k[p][i], Null) \subseteq C
  <2> HIDE DEF C
  <2> QED
    BY <1>1, <1>2, <1>3, ChainFacts
<1> QED
  BY <1>4

(* A node that is not alive has no children. *)
LEMMA DeadList ==
  ASSUME NEW m, NEW M, NEW k, Arranged(m, M, k), NEW n \in Node \ Alive(m)
  PROVE  n \in Owner /\ k[n] = <<>> /\ Len(k[n]) = 0
<1>1. n \in Owner /\ k[n] \in Seq(Node) /\ Len(k[n]) \in Nat /\ n \notin Heads
  BY ArrangedFacts, DummyFacts DEF Owner
<1>2. ASSUME Len(k[n]) # 0
      PROVE  FALSE
  <2>1. 1 \in 1..Len(k[n])
    BY <1>1, <1>2
  <2> QED
    BY <1>1, <2>1, OwnerAlive
<1> QED
  BY <1>1, <1>2

LEMMA WrapYields ==
  ASSUME NEW m, NEW k, Stored(m, k), NEW n \in Node \ Alive(m),
         NEW x \in Data \cup {Blank}, NEW p \in Owner,
         NEW i \in 1..Len(k[p]), NEW j \in i..Len(k[p]),
         NEW first, first = k[p][i], NEW last, last = k[p][j],
         NEW s, s = From(k, first, last)
  PROVE  Yields(m, wrap(m, first, last, n, x),
                [Cut(Before(k, first, <<n>>), first, last) EXCEPT ![n] = s], x)
<1> DEFINE b == Before(k, first, <<n>>)
           r == insert(m, first, n, x)
           c == Cut(b, first, last)
<1>1. /\ Arranged(m, {}, k) /\ k \in [Owner -> Seq(Node)] /\ k[p] \in Seq(Node)
      /\ Len(k[p]) \in Nat /\ j \in 1..Len(k[p]) /\ first \in Alive(m) /\ last \in Node
      /\ \A l \in 1..Len(k[p]) : k[p][l] \in Node
  BY StoredFacts
<1>2. Over(k, first) = p /\ Place(k, first) = i /\ i - 1 \in 0..Len(k[p])
  BY <1>1, NodeLinks
<1>3. b = Put(k, p, i - 1, <<n>>)
  BY <1>2 DEF Before
<1> HIDE DEF b, r
<1>4. /\ Yields(m, r, b, x) /\ Alive(r) = Alive(m) \cup {n}
  <2>1. Yields(m, r, b, x)
    BY <1>1, InsertYields DEF b, r
  <2>2. Alive(r) = Alive(m) \cup {n}
    BY <1>1, InsertYields DEF r
  <2> QED
    BY <2>1, <2>2
<1>5. Arranged(r, {}, b) /\ n \in Alive(r)
  BY <1>4 DEF Yields
<1> DEFINE v == <<n>>
<1>6. v \in Seq(Node) /\ Len(v) = 1 /\ b = Put(k, p, i - 1, v) /\ v[1] = n
  BY <1>3
<1> HIDE DEF v
<1>7. PutIn(p, k[p], i - 1, v, b[p]) /\ \A q \in Owner \ {p} : b[q] = k[q]
  <2>1. PutIn(p, k[p], i - 1, v, b[p])
    BY ONLY <1>1, <1>2, <1>6, PutFields
  <2>2. \A q \in Owner \ {p} : b[q] = k[q]
    BY <1>1, <1>6 DEF Put
  <2> QED
    BY <2>1, <2>2
<1>8. Len(b[p]) = Len(k[p]) + 1 /\ b[p] \in Seq(Node)
  BY <1>5, <1>6, <1>7, ArrangedFacts DEF PutIn
<1>9. ASSUME NEW l \in i..Len(k[p])
      PROVE  l + 1 \in 1..Len(b[p]) /\ b[p][l + 1] = k[p][l]
  <2>1. /\ l + 1 \in 1..Len(b[p]) /\ ~ l + 1 <= i - 1 /\ ~ l + 1 <= i - 1 + Len(v)
        /\ l + 1 - Len(v) = l
    BY ONLY <1>8, <1>6, <1>1
  <2>2. b[p][l + 1] = k[p][l + 1 - Len(v)]
    BY <2>1, <1>7 DEF PutIn
  <2> QED
    BY <2>1, <2>2
<1>10. /\ i + 1 \in 1..Len(b[p]) /\ j + 1 \in (i + 1)..Len(b[p])
       /\ first = b[p][i + 1] /\ last = b[p][j + 1]
  <2>1. i \in i..Len(k[p])
    BY <1>1
  <2>2. i \in 1..Len(k[p]) /\ j \in i..Len(k[p])
    OBVIOUS
  <2>3. j + 1 \in (i + 1)..Len(b[p])
    BY ONLY <2>2, <1>1, <1>8
  <2> QED
    BY <2>1, <2>3, <1>9
<1>11. Moved(r, reparent(r, n, first, last), AtEnd(Cut(b, first, last), n, From(b, first, last)), x)
  <2>1. Arranged(r, {}, b) /\ p \in Owner
    BY <1>5
  <2> QED
    BY ONLY <2>1, <1>5, <1>10, ReparentYields
<1>12. From(b, first, last) = s
  <2>1. s = SubSeq(k[p], i, j)
    BY <1>1, RangeFacts
  <2>2. From(b, first, last) = SubSeq(b[p], i + 1, j + 1)
    BY <1>5, <1>10, RangeFacts
  <2>3. /\ SubSeq(k[p], i, j) \in Seq(Node) /\ Len(SubSeq(k[p], i, j)) = j - i + 1
        /\ \A l \in 1..(j - i + 1) : SubSeq(k[p], i, j)[l] = k[p][i + l - 1]
    BY <1>1, SubSeqProperties
  <2>4. /\ SubSeq(b[p], i + 1, j + 1) \in Seq(Node)
        /\ Len(SubSeq(b[p], i + 1, j + 1)) = j + 1 - (i + 1) + 1
        /\ \A l \in 1..(j + 1 - (i + 1) + 1) :
             SubSeq(b[p], i + 1, j + 1)[l] = b[p][i + 1 + l - 1]
    <3> DEFINE y == b[p]
               e == i + 1
               f == j + 1
    <3>1. y \in Seq(Node) /\ e \in 1..(Len(y) + 1) /\ f \in (e - 1)..Len(y)
      BY <1>1, <1>8, <1>10
    <3>2. e <= f
      BY <1>1, <1>8, <1>10
    <3> HIDE DEF y, e, f
    <3>3. SubSeq(y, e, f) \in Seq(Node) /\ Len(SubSeq(y, e, f)) = f - e + 1
          /\ \A l \in 1..(f - e + 1) : SubSeq(y, e, f)[l] = y[e + l - 1]
      BY ONLY <3>1, <3>2, SubSeqProperties
    <3> QED
      BY ONLY <3>3 DEF y, e, f
  <2> DEFINE y == SubSeq(k[p], i, j)
             z == SubSeq(b[p], i + 1, j + 1)
  <2>5. ASSUME NEW l \in 1..Len(y)
        PROVE  z[l] = y[l]
    <3>1. /\ l \in 1..(j - i + 1) /\ l \in 1..(j + 1 - (i + 1) + 1)
          /\ i + l - 1 \in i..Len(k[p]) /\ i + l - 1 + 1 = i + 1 + l - 1
      BY <2>3, <1>1
    <3>2. b[p][i + l - 1 + 1] = k[p][i + l - 1]
      BY <3>1, <1>9
    <3>3. y[l] = k[p][i + l - 1]
      BY <3>1, <2>3
    <3>4. z[l] = b[p][i + 1 + l - 1]
      BY <3>1, <2>4
    <3> HIDE DEF y, z
    <3> QED
      BY ONLY <3>1, <3>2, <3>3, <3>4
  <2>6. y \in Seq(Node) /\ z \in Seq(Node) /\ Len(y) = Len(z)
    BY <2>3, <2>4, <1>1
  <2> HIDE DEF y, z
  <2>7. z = y
    BY <2>5, <2>6, SeqEqual
  <2> QED
    BY <2>1, <2>2, <2>7 DEF y, z
<1>13. c = Less(b, p, i + 1, j + 1)
  BY <1>5, <1>10, RangeFacts
<1> HIDE DEF c
<1>14. p # n /\ n \in Owner /\ k[n] = <<>>
  BY <1>1, DeadList, OwnerAlive, DummyFacts
<1>15. c[n] = <<>> /\ c \in [Owner -> Seq(Node)]
  <2>1. c \in [Owner -> Seq(Node)] /\ c[n] = b[n]
    BY <1>5, <1>10, <1>13, <1>14, CutLists
  <2>2. b[n] = k[n]
    BY <1>7, <1>14
  <2> QED
    BY <2>1, <2>2, <1>14
<1>16. AtEnd(c, n, s) = [c EXCEPT ![n] = s]
  <2>1. s \in Seq(Node)
    <3>1. s = SubSeq(k[p], i, j)
      BY <1>1, RangeFacts
    <3> QED
      BY <3>1, <1>1, SubSeqProperties
  <2>2. Len(c[n]) = 0
    BY <1>15
  <2>3. SubSeq(c[n], 1, 0) = <<>> /\ SubSeq(c[n], 0 + 1, 0) = <<>>
    BY <1>15, SubSeqEmpty
  <2>4. <<>> \o s \o <<>> = s
    BY <2>1
  <2>5. Into(c[n], 0, s) = s
    BY <2>2, <2>3, <2>4 DEF Into
  <2>6. AtEnd(c, n, s) = Put(c, n, 0, s)
    BY <2>2 DEF AtEnd
  <2> QED
    BY <2>5, <2>6 DEF Put
<1>17. wrap(m, first, last, n, x) = reparent(r, n, first, last)
  BY DEF wrap, r
<1> DEFINE w == reparent(r, n, first, last)
<1>18. Arranged(w, {}, [c EXCEPT ![n] = s]) /\ Alive(w) = Alive(r)
       /\ \A y \in Alive(w) : w[y].data = IF y \in Alive(r) THEN r[y].data ELSE x
  BY <1>11, <1>12, <1>16 DEF Moved, Yields, c
<1> HIDE DEF w
<1>19. \A y \in Alive(w) : w[y].data = IF y \in Alive(m) THEN m[y].data ELSE x
  BY <1>4, <1>18 DEF Yields
<1>20. Yields(m, w, [c EXCEPT ![n] = s], x)
  BY <1>18, <1>19 DEF Yields
<1> QED
  BY <1>17, <1>20 DEF w, c, b
-----------------------------------------------------------------------------
(* The one of two nodes for the other, and every node for itself. *)
Other(one, two, n) == IF n = one THEN two ELSE IF n = two THEN one ELSE n

LEMMA OtherFacts ==
  ASSUME NEW one \in Node, NEW two \in Node, one # two
  PROVE  /\ \A n \in Node : Other(one, two, n) \in Node
         /\ \A n : Other(one, two, Other(one, two, n)) = n
         /\ \A n : n \notin Node => Other(one, two, n) = n
         /\ Other(one, two, one) = two /\ Other(one, two, two) = one
         /\ \A n : n # one /\ n # two => Other(one, two, n) = n
  BY DEF Other

LEMMA ExchangedLists ==
  ASSUME NEW k \in [Owner -> Seq(Node)], NEW one \in Node, NEW two \in Node,
         one # two, NEW h, h = Exchanged(k, one, two)
  PROVE  /\ h \in [Owner -> Seq(Node)]
         /\ \A q \in Owner : /\ Len(h[q]) = Len(k[q])
                             /\ \A l \in 1..Len(k[q]) : h[q][l] = Other(one, two, k[q][l])
<1>1. /\ DOMAIN k = Owner /\ \A q \in Owner : k[q] \in Seq(Node) /\ Len(k[q]) \in Nat
      /\ \A q \in Owner : DOMAIN k[q] = 1..Len(k[q])
      /\ \A q \in Owner : \A l \in 1..Len(k[q]) : k[q][l] \in Node
  <2>1. \A q \in Owner : k[q] \in Seq(Node)
    OBVIOUS
  <2> QED
    BY <2>1, LenProperties, ElementOfSeq
<1>2. h = [q \in Owner |-> [l \in 1..Len(k[q]) |-> Other(one, two, k[q][l])]]
  BY <1>1 DEF Exchanged, Other
<1>3. \A q \in Owner : \A l \in 1..Len(k[q]) : Other(one, two, k[q][l]) \in Node
  BY <1>1, OtherFacts
<1>4. ASSUME NEW q \in Owner
      PROVE  /\ h[q] \in Seq(Node) /\ Len(h[q]) = Len(k[q])
             /\ \A l \in 1..Len(k[q]) : h[q][l] = Other(one, two, k[q][l])
  <2>1. h[q] = [l \in 1..Len(k[q]) |-> Other(one, two, k[q][l])]
    BY <1>2
  <2>2. Len(k[q]) \in Nat /\ \A l \in 1..Len(k[q]) : Other(one, two, k[q][l]) \in Node
    BY <1>1, <1>3
  <2>3. h[q] \in [1..Len(k[q]) -> Node]
    BY <2>1, <2>2
  <2>4. h[q] \in Seq(Node) /\ Len(h[q]) = Len(k[q])
    BY ONLY <2>2, <2>3, SeqDef, LenProperties
  <2> QED
    BY <2>1, <2>4
<1> QED
  BY <1>2, <1>4

(* What stands at every place of every list, once two nodes are exchanged.  *)
LEMMA ExchangedAt ==
  ASSUME NEW k \in [Owner -> Seq(Node)], NEW one \in Node, NEW two \in Node,
         one # two, NEW h, h = Exchanged(k, one, two),
         NEW q \in Owner, NEW l \in 0..(Len(k[q]) + 1)
  PROVE  At(q, h[q], l) = Other(one, two, At(q, k[q], l))
<1>1. /\ Len(h[q]) = Len(k[q]) /\ Len(k[q]) \in Nat
      /\ \A x \in 1..Len(k[q]) : h[q][x] = Other(one, two, k[q][x])
  BY ExchangedLists, LenProperties
<1>2. Other(one, two, beginOf(q)) = beginOf(q) /\ Other(one, two, endOf(q)) = endOf(q)
  <2>1. beginOf(q) \notin Node /\ endOf(q) \notin Node
    BY OwnerFacts, DummyFacts, PtrFacts DEF beginOf, endOf
  <2> QED
    BY <2>1, OtherFacts
<1>3. l = 0 \/ l = Len(k[q]) + 1 \/ (l # 0 /\ l # Len(k[q]) + 1 /\ l \in 1..Len(k[q]))
  BY ONLY <1>1, l \in 0..(Len(k[q]) + 1)
<1> QED
  BY <1>1, <1>2, <1>3 DEF At

(* Of the links r, those of one are what those of two were in m, and the    *)
(* other way round; what led to the one leads to the other.                 *)
Crossed(m, r, one, two) ==
  /\ r \in Memory
  /\ \A x \in Ptr : r[x].data = m[x].data
  /\ r[one].parent = m[two].parent /\ r[two].parent = m[one].parent
  /\ r[one].next_sibling = m[two].next_sibling
  /\ r[two].next_sibling = m[one].next_sibling
  /\ r[one].prev_sibling = m[two].prev_sibling
  /\ r[two].prev_sibling = m[one].prev_sibling
  /\ \A x \in Ptr \ {one, two} :
       /\ r[x].parent = m[x].parent
       /\ r[x].next_sibling = IF x = m[one].prev_sibling THEN two
                              ELSE IF x = m[two].prev_sibling THEN one
                              ELSE m[x].next_sibling
       /\ r[x].prev_sibling = IF x = m[one].next_sibling THEN two
                              ELSE IF x = m[two].next_sibling THEN one
                              ELSE m[x].prev_sibling
  /\ \A x \in Ptr :
       /\ r[x].first_child = IF x = m[one].parent /\ m[one].prev_sibling = Null THEN two
                             ELSE IF x = m[two].parent /\ m[two].prev_sibling = Null THEN one
                             ELSE m[x].first_child
       /\ r[x].last_child = IF x = m[one].parent /\ m[one].next_sibling = Null THEN two
                            ELSE IF x = m[two].parent /\ m[two].next_sibling = Null THEN one
                            ELSE m[x].last_child

LEMMA SwapCrosses ==
  ASSUME NEW m \in Memory, NEW one \in Alive(m), NEW two \in Alive(m), one # two,
         one \notin {m[one].prev_sibling, m[one].next_sibling,
                     m[two].prev_sibling, m[two].next_sibling},
         two \notin {m[one].prev_sibling, m[one].next_sibling,
                     m[two].prev_sibling, m[two].next_sibling},
         NEW r,
         r = LinkIn(LinkIn(m, one, one, m[two].parent, m[two].prev_sibling,
                           m[two].next_sibling),
                    two, two, m[one].parent, m[one].prev_sibling,
                    m[one].next_sibling)
  PROVE  Crossed(m, r, one, two)
<1> DEFINE P1 == m[one].parent
           B1 == m[one].prev_sibling
           A1 == m[one].next_sibling
           P2 == m[two].parent
           B2 == m[two].prev_sibling
           A2 == m[two].next_sibling
           n1 == LinkIn(m, one, one, P2, B2, A2)
<1>1. /\ one \in Ptr /\ two \in Ptr /\ one \in Node /\ two \in Node
      /\ P1 \in Link /\ P2 \in Link /\ B1 \in Link /\ B2 \in Link
      /\ A1 \in Link /\ A2 \in Link
  <2>1. one \in Ptr /\ two \in Ptr /\ one \in Node /\ two \in Node
    BY PtrFacts DEF Alive
  <2>2. m[one] \in TreeNode /\ m[two] \in TreeNode
    BY <2>1 DEF Memory
  <2> QED
    BY <2>1, <2>2 DEF TreeNode
<1>2. r = LinkIn(n1, two, two, P1, B1, A1)
  OBVIOUS
<1>3. one \notin {B1, A1, B2, A2} /\ two \notin {B1, A1, B2, A2}
  OBVIOUS
<1> HIDE DEF P1, B1, A1, P2, B2, A2
<1>a. n1 = LinkIn(m, one, one, P2, B2, A2)
  OBVIOUS
<1> HIDE DEF n1
<1>4. LinkedIn(m, n1, {one}, one, one, P2, B2, A2)
  <2>1. Chain(m, one, one) = {one}
    BY ONLY one \in Alive(m), SingleChain
  <2>2. LinkedIn(m, LinkIn(m, one, one, P2, B2, A2), Chain(m, one, one),
                 one, one, P2, B2, A2)
    BY ONLY <1>1, m \in Memory, LinkInFields
  <2> QED
    BY ONLY <2>1, <2>2, <1>a
<1>5. LinkedIn(n1, r, {two}, two, two, P1, B1, A1)
  <2>1. n1 \in Memory /\ two \in Alive(n1)
    BY <1>1, <1>4 DEF LinkedIn, Alive
  <2>2. Chain(n1, two, two) = {two}
    BY <2>1, SingleChain
  <2>3. LinkedIn(n1, LinkIn(n1, two, two, P1, B1, A1), Chain(n1, two, two),
                 two, two, P1, B1, A1)
    BY ONLY <1>1, <2>1, LinkInFields
  <2> QED
    BY ONLY <2>2, <2>3, <1>2
<1>6. r \in Memory /\ \A x \in Ptr : r[x].data = m[x].data
  <2>1. \A x \in Ptr : n1[x].data = m[x].data
    BY ONLY <1>4 DEF LinkedIn
  <2>2. r \in Memory /\ \A x \in Ptr : r[x].data = n1[x].data
    BY ONLY <1>5 DEF LinkedIn
  <2> QED
    BY ONLY <2>1, <2>2
<1>7. /\ r[one].parent = P2 /\ r[two].parent = P1
      /\ r[one].next_sibling = A2 /\ r[two].next_sibling = A1
      /\ r[one].prev_sibling = B2 /\ r[two].prev_sibling = B1
  <2>1. /\ n1[one].parent = P2 /\ n1[one].next_sibling = A2
        /\ n1[one].prev_sibling = B2
    BY ONLY <1>1, <1>4 DEF LinkedIn
  <2>2. /\ r[two].parent = P1 /\ r[two].next_sibling = A1
        /\ r[two].prev_sibling = B1
    BY ONLY <1>1, <1>5 DEF LinkedIn
  <2>3. one \notin {two, B1, A1}
    BY ONLY <1>3, one # two
  <2>4. /\ r[one].parent = n1[one].parent
        /\ r[one].next_sibling = n1[one].next_sibling
        /\ r[one].prev_sibling = n1[one].prev_sibling
    BY ONLY <1>1, <1>5, <2>3 DEF LinkedIn
  <2> QED
    BY ONLY <2>1, <2>2, <2>4
<1>8. ASSUME NEW x \in Ptr \ {one, two}
      PROVE  /\ r[x].parent = m[x].parent
             /\ r[x].next_sibling = IF x = B1 THEN two
                                    ELSE IF x = B2 THEN one ELSE m[x].next_sibling
             /\ r[x].prev_sibling = IF x = A1 THEN two
                                    ELSE IF x = A2 THEN one ELSE m[x].prev_sibling
  BY ONLY <1>4, <1>5 DEF LinkedIn
<1>9. ASSUME NEW x \in Ptr
      PROVE  /\ r[x].first_child = IF x = P1 /\ B1 = Null THEN two
                                   ELSE IF x = P2 /\ B2 = Null THEN one
                                   ELSE m[x].first_child
             /\ r[x].last_child = IF x = P1 /\ A1 = Null THEN two
                                  ELSE IF x = P2 /\ A2 = Null THEN one
                                  ELSE m[x].last_child
  <2>1. /\ n1[x].first_child = IF x = P2 /\ B2 = Null THEN one ELSE m[x].first_child
        /\ n1[x].last_child = IF x = P2 /\ A2 = Null THEN one ELSE m[x].last_child
    BY ONLY <1>4, x \in Ptr DEF LinkedIn
  <2>2. /\ r[x].first_child = IF x = P1 /\ B1 = Null THEN two ELSE n1[x].first_child
        /\ r[x].last_child = IF x = P1 /\ A1 = Null THEN two ELSE n1[x].last_child
    BY ONLY <1>5, x \in Ptr DEF LinkedIn
  <2> QED
    BY ONLY <2>1, <2>2
<1> QED
  BY Zenon, <1>6, <1>7, <1>8, <1>9 DEF Crossed, P1, B1, A1, P2, B2, A2

(* Which node, head or feet stands before and after a node. *)
LEMMA CrossedArranges ==
  ASSUME NEW m, NEW k, Arranged(m, {}, k), NEW one \in Alive(m), NEW two \in Alive(m),
         one # two, NEW r, Crossed(m, r, one, two),
         m[one].next_sibling # two, m[two].next_sibling # one,
         NEW h, h = Exchanged(k, one, two)
  PROVE  Arranged(r, {}, h)
<1> DEFINE g(n) == Other(one, two, n)
<1>1. /\ m \in Memory /\ Alive(m) \subseteq Node /\ one \in Node /\ two \in Node
      /\ one \in Ptr /\ two \in Ptr
      /\ k \in [Owner -> Seq(Node)] /\ Once(k)
      /\ \A q \in Owner : k[q] \in Seq(Node) /\ Len(k[q]) \in Nat
      /\ \A q \in Owner : \A l \in 1..Len(k[q]) : k[q][l] \in Alive(m) /\ k[q][l] \in Ptr
  BY ArrangedFacts, PtrFacts
<1>2. PICK p \in Owner : \E i \in 1..Len(k[p]) : one = k[p][i]
  BY Standing
<1>3. PICK i \in 1..Len(k[p]) : one = k[p][i]
  BY <1>2
<1>4. PICK q \in Owner : \E j \in 1..Len(k[q]) : two = k[q][j]
  BY Standing
<1>5. PICK j \in 1..Len(k[q]) : two = k[q][j]
  BY <1>4
<1> DEFINE B1 == m[one].prev_sibling
           A1 == m[one].next_sibling
           B2 == m[two].prev_sibling
           A2 == m[two].next_sibling
<1>6. /\ h \in [Owner -> Seq(Node)]
      /\ \A w \in Owner : /\ Len(h[w]) = Len(k[w])
                          /\ \A l \in 1..Len(k[w]) : h[w][l] = g(k[w][l])
      /\ \A w \in Owner : \A l \in 0..(Len(k[w]) + 1) : At(w, h[w], l) = g(At(w, k[w], l))
  BY <1>1, ExchangedLists, ExchangedAt
<1>7. /\ \A n \in Node : g(n) \in Node
      /\ \A n : g(g(n)) = n
      /\ \A n : n \notin Node => g(n) = n
      /\ g(one) = two /\ g(two) = one
      /\ \A n : n # one /\ n # two => g(n) = n
  BY <1>1, OtherFacts
<1> HIDE DEF g
<1>8. /\ m[one].parent = parentOf(p) /\ B1 = At(p, k[p], i - 1) /\ A1 = At(p, k[p], i + 1)
      /\ m[two].parent = parentOf(q) /\ B2 = At(q, k[q], j - 1) /\ A2 = At(q, k[q], j + 1)
      /\ one = At(p, k[p], i) /\ two = At(q, k[q], j)
  <2>1. /\ m[one].parent = parentOf(p) /\ B1 = At(p, k[p], i - 1)
        /\ A1 = At(p, k[p], i + 1) /\ one = At(p, k[p], i)
    BY ONLY Arranged(m, {}, k), <1>3, NodeLinks
  <2>2. /\ m[two].parent = parentOf(q) /\ B2 = At(q, k[q], j - 1)
        /\ A2 = At(q, k[q], j + 1) /\ two = At(q, k[q], j)
    BY ONLY Arranged(m, {}, k), <1>5, NodeLinks
  <2> QED
    BY ONLY <2>1, <2>2
<1>9. /\ i \in 0..Len(k[p]) /\ i - 1 \in 0..Len(k[p]) /\ i - 1 + 1 = i
      /\ j \in 0..Len(k[q]) /\ j - 1 \in 0..Len(k[q]) /\ j - 1 + 1 = j
      /\ i \in Nat /\ j \in Nat /\ i # 0 /\ j # 0
  BY <1>1
<1>10. /\ Gap(k, p, i - 1, B1, one) /\ Gap(k, p, i, one, A1)
       /\ Gap(k, q, j - 1, B2, two) /\ Gap(k, q, j, two, A2)
  BY <1>1, <1>8, <1>9, GapFacts
<1> HIDE DEF B1, A1, B2, A2
<1>11. ASSUME NEW w \in Owner, NEW l \in 0..Len(k[w])
       PROVE  /\ Gap(k, w, l, At(w, k[w], l), At(w, k[w], l + 1))
              /\ onward(m, w, k[w], l) = At(w, k[w], l + 1)
  BY <1>1, GapFacts DEF Arranged, ListOf
<1>12. ASSUME NEW w \in Owner, NEW l \in 1..(Len(k[w]) + 1)
       PROVE  /\ Gap(k, w, l - 1, At(w, k[w], l - 1), At(w, k[w], l))
              /\ backward(m, w, k[w], l) = At(w, k[w], l - 1)
  <2>1. l - 1 \in 0..Len(k[w]) /\ l - 1 + 1 = l
    BY <1>1
  <2> QED
    BY <2>1, <1>11 DEF Arranged, ListOf
<1>13. A1 # two /\ A2 # one /\ A1 # one /\ A2 # two /\ B1 # one /\ B2 # two
       /\ B1 # two /\ B2 # one
  <2>1. A1 # two /\ A2 # one
    BY DEF A1, A2
  <2>2. A1 # one /\ A2 # two /\ B1 # one /\ B2 # two
    BY <1>1, <1>3, <1>5, <1>9, <1>10 DEF Gap
  <2>3. B1 = two => A2 = one
    BY <1>3, <1>5, <1>8, <1>9, <1>10 DEF Gap
  <2>4. B2 = one => A1 = two
    BY <1>3, <1>5, <1>8, <1>9, <1>10 DEF Gap
  <2> QED
    BY <2>1, <2>2, <2>3, <2>4
<1>14. ASSUME NEW w \in Owner, NEW l \in 1..Len(k[w]), NEW x, x = k[w][l]
       PROVE  /\ r[g(x)].parent = parentOf(w)
              /\ r[g(x)].next_sibling = g(At(w, k[w], l + 1))
              /\ r[g(x)].prev_sibling = g(At(w, k[w], l - 1))
  <2>1. /\ m[x].parent = parentOf(w) /\ m[x].next_sibling = At(w, k[w], l + 1)
        /\ m[x].prev_sibling = At(w, k[w], l - 1) /\ x \in Ptr
    BY <1>1, <1>14, NodeLinks
  <2>2. CASE x = one
    <3>1. w = p /\ l = i
      BY <2>2, <1>1, <1>3, <1>14 DEF Once
    <3>2. g(x) = two /\ g(A1) = A1 /\ g(B1) = B1
      BY <2>2, <1>7, <1>13
    <3> QED
      BY <3>1, <3>2, <1>8 DEF Crossed, A1, B1
  <2>3. CASE x = two
    <3>1. w = q /\ l = j
      BY <2>3, <1>1, <1>5, <1>14 DEF Once
    <3>2. g(x) = one /\ g(A2) = A2 /\ g(B2) = B2
      BY <2>3, <1>7, <1>13
    <3> QED
      BY <3>1, <3>2, <1>8 DEF Crossed, A2, B2
  <2>4. CASE x # one /\ x # two
    <3> DEFINE a == At(w, k[w], l + 1)
               b == At(w, k[w], l - 1)
    <3>1. /\ l \in 0..Len(k[w]) /\ l \in 1..(Len(k[w]) + 1) /\ l - 1 + 1 = l
          /\ l \in Nat /\ x = At(w, k[w], l)
      <4>1. x = At(w, k[w], l)
        BY <1>14, NodeLinks
      <4>2. Len(k[w]) \in Nat
        BY <1>1
      <4> QED
        BY <4>1, <4>2
    <3>2. Gap(k, w, l, x, a) /\ Gap(k, w, l - 1, b, x)
      BY <3>1, <1>11, <1>12
    <3>3. g(x) = x /\ x \in Ptr \ {one, two}
      BY <2>1, <2>4, <1>7
    <3>4. /\ r[x].parent = m[x].parent
          /\ r[x].next_sibling = IF x = B1 THEN two ELSE IF x = B2 THEN one ELSE a
          /\ r[x].prev_sibling = IF x = A1 THEN two ELSE IF x = A2 THEN one ELSE b
      BY <2>1, <3>3 DEF Crossed, A1, A2, B1, B2
    <3> HIDE DEF a, b
    <3>5. /\ x = B1 <=> p = w /\ l = i - 1
          /\ x = A1 <=> p = w /\ l = i + 1
          /\ x = B2 <=> q = w /\ l = j - 1
          /\ x = A2 <=> q = w /\ l = j + 1
      BY <1>10, <1>14 DEF Gap
    <3>6. /\ one = a <=> p = w /\ i = l + 1
          /\ one = b <=> p = w /\ i = l - 1
          /\ two = a <=> q = w /\ j = l + 1
          /\ two = b <=> q = w /\ j = l - 1
      BY ONLY <1>3, <1>5, <3>2 DEF Gap
    <3>7. /\ x = B1 <=> one = a
          /\ x = A1 <=> one = b
          /\ x = B2 <=> two = a
          /\ x = A2 <=> two = b
      BY ONLY <3>1, <3>5, <3>6, <1>9
    <3>8. r[x].next_sibling = g(a) /\ r[x].prev_sibling = g(b)
      BY <3>4, <3>7, <1>7
    <3> QED
      BY <2>1, <3>3, <3>4, <3>8 DEF a, b
  <2> QED
    BY <2>2, <2>3, <2>4
<1>15. ASSUME NEW w \in Owner
       PROVE  /\ firstOf(r, w) = g(At(w, k[w], 1))
              /\ lastOf(r, w) = g(At(w, k[w], Len(k[w])))
  <2> DEFINE a == At(w, k[w], 1)
             b == At(w, k[w], Len(k[w]))
             e == Len(k[w])
  <2>1. /\ e \in Nat /\ 0 \in 0..e /\ e \in 0..e /\ 0 + 1 = 1
        /\ firstOf(m, w) = a /\ lastOf(m, w) = b
        /\ beginOf(w) = At(w, k[w], 0) /\ endOf(w) = At(w, k[w], e + 1)
    BY EndLinks
  <2>2. Gap(k, w, 0, beginOf(w), a) /\ Gap(k, w, e, b, endOf(w))
    BY <2>1, <1>11
  <2> HIDE DEF a, b, e
  <2>3. /\ one = a <=> p = w /\ i = 1
        /\ two = a <=> q = w /\ j = 1
        /\ one = b <=> p = w /\ i = e
        /\ two = b <=> q = w /\ j = e
    BY <1>3, <1>5, <2>1, <2>2 DEF Gap
  <2>4. CASE w \in Node
    <3>1. /\ w \in Ptr /\ firstOf(r, w) = r[w].first_child
          /\ lastOf(r, w) = r[w].last_child
          /\ a = m[w].first_child /\ b = m[w].last_child
      BY <2>1, <2>4, PtrFacts DEF firstOf, lastOf
    <3>2. /\ w = m[one].parent /\ B1 = Null <=> p = w /\ i - 1 = 0
          /\ w = m[two].parent /\ B2 = Null <=> q = w /\ j - 1 = 0
          /\ w = m[one].parent /\ A1 = Null <=> p = w /\ i = e
          /\ w = m[two].parent /\ A2 = Null <=> q = w /\ j = e
      BY <2>4, <1>8, <1>10, PtrFacts DEF Gap, parentOf, e
    <3>3. /\ w = m[one].parent /\ B1 = Null <=> one = a
          /\ w = m[two].parent /\ B2 = Null <=> two = a
          /\ w = m[one].parent /\ A1 = Null <=> one = b
          /\ w = m[two].parent /\ A2 = Null <=> two = b
      BY ONLY <2>3, <3>2, <1>9
    <3>4. /\ r[w].first_child = IF w = m[one].parent /\ B1 = Null THEN two
                                ELSE IF w = m[two].parent /\ B2 = Null THEN one ELSE a
          /\ r[w].last_child = IF w = m[one].parent /\ A1 = Null THEN two
                               ELSE IF w = m[two].parent /\ A2 = Null THEN one ELSE b
      BY <3>1 DEF Crossed, A1, A2, B1, B2
    <3>5. r[w].first_child = g(a) /\ r[w].last_child = g(b)
      BY <3>3, <3>4, <1>7
    <3> QED
      BY <3>1, <3>5 DEF a, b, e
  <2>5. CASE w \notin Node
    <3>1. /\ w \in Ptr \ {one, two} /\ feet(w[2]) \in Ptr \ {one, two}
          /\ firstOf(r, w) = r[w].next_sibling
          /\ lastOf(r, w) = r[feet(w[2])].prev_sibling
          /\ a = m[w].next_sibling /\ b = m[feet(w[2])].prev_sibling
          /\ endOf(w) = feet(w[2])
      <4>1. endOf(w) = feet(w[2]) /\ w \in Ptr /\ endOf(w) \in Feets
        BY <2>5, OwnerFacts DEF endOf
      <4>2. endOf(w) \in Ptr /\ endOf(w) \notin Node
        BY <4>1, PtrFacts, DummyFacts
      <4> QED
        BY <4>1, <4>2, <2>1, <2>5, <1>1 DEF firstOf, lastOf
    <3>2. /\ w = B1 <=> p = w /\ i - 1 = 0
          /\ w = B2 <=> q = w /\ j - 1 = 0
          /\ endOf(w) = A1 <=> p = w /\ i = e
          /\ endOf(w) = A2 <=> q = w /\ j = e
      BY <2>5, <1>10 DEF Gap, e
    <3>3. /\ w = B1 <=> one = a
          /\ w = B2 <=> two = a
          /\ endOf(w) = A1 <=> one = b
          /\ endOf(w) = A2 <=> two = b
      BY ONLY <2>3, <3>2, <1>9
    <3>4. /\ r[w].next_sibling = IF w = B1 THEN two ELSE IF w = B2 THEN one ELSE a
          /\ r[endOf(w)].prev_sibling = IF endOf(w) = A1 THEN two
                                        ELSE IF endOf(w) = A2 THEN one ELSE b
      BY <3>1 DEF Crossed, A1, A2, B1, B2
    <3>5. r[w].next_sibling = g(a) /\ r[endOf(w)].prev_sibling = g(b)
      BY <3>3, <3>4, <1>7
    <3> QED
      BY <3>1, <3>5 DEF a, b, e
  <2> QED
    BY <2>4, <2>5
<1>16. ASSUME NEW w \in Owner
       PROVE  ListOf(r, w, h[w])
  <2>1. Len(h[w]) = Len(k[w]) /\ Len(k[w]) \in Nat
    BY <1>1, <1>6
  <2>2. \A l \in 1..Len(k[w]) : h[w][l] = g(k[w][l])
    BY <1>6
  <2>3. \A l \in 0..(Len(k[w]) + 1) : At(w, h[w], l) = g(At(w, k[w], l))
    BY <1>6
  <2>4. ASSUME NEW l \in 0..Len(k[w])
        PROVE  onward(r, w, h[w], l) = At(w, h[w], l + 1)
    <3>1. l + 1 \in 0..(Len(k[w]) + 1) /\ (l = 0 => l + 1 = 1) /\ (l # 0 => l \in 1..Len(k[w]))
      BY ONLY <2>1, <2>4
    <3>2. At(w, h[w], l + 1) = g(At(w, k[w], l + 1))
      BY <2>3, <3>1
    <3>3. CASE l = 0
      BY <3>1, <3>2, <3>3, <1>15 DEF onward
    <3>4. CASE l # 0
      <4>1. l \in 1..Len(k[w]) /\ h[w][l] = g(k[w][l])
        BY <3>1, <3>4, <2>2
      <4>2. r[g(k[w][l])].next_sibling = g(At(w, k[w], l + 1))
        BY <4>1, <1>14
      <4> QED
        BY <4>1, <4>2, <3>2, <3>4 DEF onward
    <3> QED
      BY <3>3, <3>4
  <2>5. ASSUME NEW l \in 1..(Len(k[w]) + 1)
        PROVE  backward(r, w, h[w], l) = At(w, h[w], l - 1)
    <3>1. /\ l - 1 \in 0..(Len(k[w]) + 1)
          /\ l = Len(k[w]) + 1 => l - 1 = Len(k[w])
          /\ l # Len(k[w]) + 1 => l \in 1..Len(k[w])
      BY ONLY <2>1, <2>5
    <3>2. At(w, h[w], l - 1) = g(At(w, k[w], l - 1))
      BY <2>3, <3>1
    <3>3. CASE l = Len(k[w]) + 1
      BY <3>1, <3>2, <3>3, <2>1, <1>15 DEF backward
    <3>4. CASE l # Len(k[w]) + 1
      BY ONLY <3>1, <3>2, <3>4, <2>1, <2>2, <1>14 DEF backward
    <3> QED
      BY <3>3, <3>4
  <2>6. \A l \in 1..Len(k[w]) : r[h[w][l]].parent = parentOf(w)
    BY <2>2, <1>14
  <2> QED
    BY <2>1, <2>4, <2>5, <2>6 DEF ListOf
<1>17. Once(h)
  <2>1. ASSUME NEW w \in Owner, NEW y \in Owner,
               NEW l \in 1..Len(k[w]), NEW o \in 1..Len(k[y]), h[w][l] = h[y][o]
        PROVE  w = y /\ l = o
    <3>1. g(k[w][l]) = g(k[y][o])
      BY <2>1, <1>6
    <3>2. k[w][l] = k[y][o]
      BY <3>1, <1>7
    <3> QED
      BY <3>2, <1>1 DEF Once
  <2> QED
    BY <2>1, <1>6 DEF Once
<1>18. Alive(r) = Alive(m)
  BY <1>1, SameAlive DEF Crossed
<1>19. \A n \in Node : Listed(h, n) <=> n \in Alive(r) \ {}
  <2>1. \A n \in Node : Listed(k, n) <=> n \in Alive(m)
    BY DEF Arranged
  <2>2. ASSUME NEW n \in Node, Listed(h, n)
        PROVE  n \in Alive(m)
    <3>1. PICK w \in Owner : \E l \in 1..Len(h[w]) : h[w][l] = n
      BY <2>2 DEF Listed
    <3>2. PICK l \in 1..Len(k[w]) : h[w][l] = n
      BY <3>1, <1>6
    <3>3. n = g(k[w][l])
      BY <3>2, <1>6
    <3> QED
      BY <3>3, <1>1, <1>7
  <2>3. ASSUME NEW n \in Alive(m)
        PROVE  Listed(h, n)
    <3>1. g(n) \in Alive(m)
      BY <1>7
    <3>2. PICK w \in Owner : \E l \in 1..Len(k[w]) : g(n) = k[w][l]
      BY <3>1, Standing
    <3>3. PICK l \in 1..Len(k[w]) : g(n) = k[w][l]
      BY <3>2
    <3>4. h[w][l] = n /\ l \in 1..Len(h[w])
      BY <3>3, <1>6, <1>7
    <3> QED
      BY <3>4 DEF Listed
  <2> QED
    BY <2>2, <2>3, <1>18
<1>20. ASSUME NEW n \in Node \ Alive(r)
       PROVE  r[n] = Unused
  <2>1. n \in Ptr /\ n \notin Alive(m) /\ m[n] = Unused /\ n \in Ptr \ {one, two}
    BY <1>1, <1>18, PtrFacts DEF Arranged
  <2>2. /\ n \notin {B1, A1, B2, A2} /\ n # m[one].parent /\ n # m[two].parent
    <3>1. \A y \in Node : Listed(k, y) => y \in Alive(m)
      BY DEF Arranged
    <3>2. p \in Alive(m) \cup Heads /\ q \in Alive(m) \cup Heads
      BY <1>3, <1>5, NodeLinks
    <3>3. parentOf(p) # n /\ parentOf(q) # n
      <4>1. n # Null /\ n \notin Alive(m)
        BY <2>1, PtrFacts
      <4>2. \A w \in Alive(m) \cup Heads : parentOf(w) = Null \/ parentOf(w) \in Alive(m)
        BY PtrFacts, DummyFacts DEF parentOf
      <4> QED
        BY <4>1, <4>2, <3>2
    <3> QED
      BY <2>1, <3>1, <3>3, <1>8, <1>10 DEF Gap
  <2>3. /\ r[n].parent = m[n].parent /\ r[n].data = m[n].data
        /\ r[n].next_sibling = m[n].next_sibling /\ r[n].prev_sibling = m[n].prev_sibling
        /\ r[n].first_child = m[n].first_child /\ r[n].last_child = m[n].last_child
    BY <2>1, <2>2 DEF Crossed, A1, A2, B1, B2
  <2>4. r \in Memory
    BY DEF Crossed
  <2>5. r[n] = m[n]
    BY ONLY <2>1, <2>3, <2>4, <1>1, SameNode
  <2> QED
    BY <2>1, <2>5
<1>21. r \in Memory /\ {} \subseteq Alive(r)
  BY DEF Crossed
<1> QED
  BY <1>6, <1>16, <1>17, <1>19, <1>20, <1>21 DEF Arranged

(* Two nodes that are not neighbours are at no end of the other's links. *)
LEMMA ApartLinks ==
  ASSUME NEW m, NEW k, Arranged(m, {}, k), NEW one \in Alive(m), NEW two \in Alive(m),
         m[one].next_sibling # two, m[two].next_sibling # one
  PROVE  /\ one \notin {m[one].prev_sibling, m[one].next_sibling,
                        m[two].prev_sibling, m[two].next_sibling}
         /\ two \notin {m[one].prev_sibling, m[one].next_sibling,
                        m[two].prev_sibling, m[two].next_sibling}
<1>1. ASSUME NEW n \in Alive(m), NEW o \in Alive(m)
      PROVE  /\ m[n].prev_sibling = o <=> m[o].next_sibling = n
             /\ m[n].next_sibling # n
  <2>1. /\ k \in [Owner -> Seq(Node)] /\ Once(k)
        /\ \A q \in Owner : k[q] \in Seq(Node) /\ Len(k[q]) \in Nat
    BY ArrangedFacts
  <2>2. PICK p \in Owner : \E i \in 1..Len(k[p]) : n = k[p][i]
    BY Standing
  <2>3. PICK i \in 1..Len(k[p]) : n = k[p][i]
    BY <2>2
  <2>4. PICK q \in Owner : \E j \in 1..Len(k[q]) : o = k[q][j]
    BY Standing
  <2>5. PICK j \in 1..Len(k[q]) : o = k[q][j]
    BY <2>4
  <2>6. /\ i \in 0..Len(k[p]) /\ i - 1 \in 0..Len(k[p]) /\ i - 1 + 1 = i
        /\ j \in 0..Len(k[q]) /\ i \in Nat /\ j \in Nat /\ i # i + 1
        /\ j = i - 1 <=> i = j + 1
    <3>1. Len(k[p]) \in Nat /\ Len(k[q]) \in Nat
      BY <2>1
    <3> QED
      BY <3>1
  <2>7. /\ m[n].prev_sibling = At(p, k[p], i - 1) /\ m[n].next_sibling = At(p, k[p], i + 1)
        /\ m[o].next_sibling = At(q, k[q], j + 1)
        /\ n = At(p, k[p], i) /\ o = At(q, k[q], j)
    <3>1. /\ m[n].prev_sibling = At(p, k[p], i - 1)
          /\ m[n].next_sibling = At(p, k[p], i + 1) /\ n = At(p, k[p], i)
      BY ONLY Arranged(m, {}, k), <2>3, NodeLinks
    <3>2. m[o].next_sibling = At(q, k[q], j + 1) /\ o = At(q, k[q], j)
      BY ONLY Arranged(m, {}, k), <2>5, NodeLinks
    <3> QED
      BY ONLY <3>1, <3>2
  <2>8. /\ Gap(k, p, i - 1, m[n].prev_sibling, n)
        /\ Gap(k, p, i, n, m[n].next_sibling)
        /\ Gap(k, q, j, o, m[o].next_sibling)
    BY <2>1, <2>6, <2>7, GapFacts
  <2>9. /\ m[n].prev_sibling = o <=> q = p /\ j = i - 1
        /\ m[o].next_sibling = n <=> p = q /\ i = j + 1
        /\ m[n].next_sibling = n <=> i = i + 1
    BY <2>3, <2>5, <2>8 DEF Gap
  <2> QED
    BY <2>6, <2>9
<1>2. /\ m[one].next_sibling # one /\ m[two].next_sibling # two
      /\ m[one].prev_sibling # one /\ m[two].prev_sibling # two
      /\ m[one].prev_sibling # two /\ m[two].prev_sibling # one
  BY <1>1
<1> QED
  BY <1>2

Swapped(m, k, one, two, x) ==
  Moved(m, swap(m, one, two), Exchanged(k, one, two), x)

LEMMA SwapYields ==
  ASSUME NEW m, NEW k, Arranged(m, {}, k), NEW one \in Alive(m), NEW two \in Alive(m),
         one # two, NEW x
  PROVE  Swapped(m, k, one, two, x)
<1>1. m \in Memory /\ one \in Node /\ two \in Node
  BY ArrangedFacts
<1>2. CASE m[one].next_sibling = two
  <2>1. swap(m, one, two) = swap_with_next(m, one)
    BY <1>2 DEF swap
  <2>2. Moved(m, swap_with_next(m, one), Exchanged(k, one, two), x)
    BY <1>1, <1>2, SwapNextYields
  <2> QED
    BY <2>1, <2>2 DEF Swapped
<1>3. CASE m[one].next_sibling # two /\ m[two].next_sibling = one
  <2>1. swap(m, one, two) = swap_with_next(m, two)
    BY <1>3 DEF swap
  <2>2. Moved(m, swap_with_next(m, two), Exchanged(k, one, two), x)
    BY <1>1, <1>3, SwapNextYields
  <2> QED
    BY <2>1, <2>2 DEF Swapped
<1>4. CASE m[one].next_sibling # two /\ m[two].next_sibling # one
  <2> DEFINE r == swap(m, one, two)
  <2>1. r = LinkIn(LinkIn(m, one, one, m[two].parent, m[two].prev_sibling,
                           m[two].next_sibling),
                    two, two, m[one].parent, m[one].prev_sibling,
                    m[one].next_sibling)
    BY <1>4 DEF swap
  <2>2. /\ one \notin {m[one].prev_sibling, m[one].next_sibling,
                       m[two].prev_sibling, m[two].next_sibling}
        /\ two \notin {m[one].prev_sibling, m[one].next_sibling,
                       m[two].prev_sibling, m[two].next_sibling}
    BY <1>4, ApartLinks
  <2> HIDE DEF r
  <2>3. Crossed(m, r, one, two)
    BY <1>1, <2>1, <2>2, SwapCrosses
  <2>4. Arranged(r, {}, Exchanged(k, one, two))
    BY <1>4, <2>3, CrossedArranges
  <2>5. r \in Memory /\ \A y \in Ptr : r[y].data = m[y].data
    BY <2>3 DEF Crossed
  <2>6. Alive(r) = Alive(m)
    BY <1>1, <2>5, SameAlive
  <2>7. \A y \in Alive(r) : y \in Ptr
    BY PtrFacts DEF Alive
  <2> QED
    BY <2>4, <2>5, <2>6, <2>7 DEF Swapped, Moved, Yields, r
<1> QED
  BY <1>2, <1>3, <1>4
-----------------------------------------------------------------------------
(* One node out of a list. *)
LEMMA LessFields ==
  ASSUME NEW k \in [Owner -> Seq(Node)], NEW p \in Owner, NEW i \in 1..Len(k[p]),
         NEW h, h = Less(k, p, i, i)
  PROVE  /\ h \in [Owner -> Seq(Node)] /\ CutOut(p, k[p], i, 1, h[p])
         /\ \A q \in Owner \ {p} : h[q] = k[q]
         /\ Len(k[p]) \in Nat /\ i \in Nat
<1>1. Len(k[p]) \in Nat
  BY LenProperties
<1>2. i \in i..Len(k[p]) /\ 1 = i - i + 1 /\ i \in Nat
  BY <1>1
<1>3. h = [k EXCEPT ![p] = Without(@, i, i)]
  BY DEF Less
<1> QED
  BY <1>1, <1>2, <1>3, CutFields

(* Two nodes are taken out in either order; where the one is when the other *)
(* is gone.                                                                 *)
Shifted(p, i, y, j) == IF p = y /\ j < i THEN i - 1 ELSE i

LEMMA OneGone ==
  ASSUME NEW k \in [Owner -> Seq(Node)], NEW p \in Owner, NEW i \in 1..Len(k[p]),
         NEW y \in Owner, NEW j \in 1..Len(k[y]), ~ (p = y /\ i = j),
         NEW d, d = Less(k, y, j, j), NEW z, z = Shifted(p, i, y, j)
  PROVE  z \in 1..Len(d[p]) /\ d[p][z] = k[p][i] /\ z \in Nat
<1>1. /\ CutOut(y, k[y], j, 1, d[y]) /\ \A q \in Owner \ {y} : d[q] = k[q]
      /\ Len(k[y]) \in Nat /\ j \in Nat
  BY LessFields
<1>2. Len(k[p]) \in Nat
  BY LenProperties
<1>3. CASE p # y
  BY <1>1, <1>2, <1>3 DEF Shifted
<1>4. CASE p = y /\ j < i
  <2>1. Len(d[p]) = Len(k[p]) - 1 /\ \A l \in 1..Len(d[p]) :
           d[p][l] = IF l < j THEN k[p][l] ELSE k[p][l + 1]
    BY <1>1, <1>4 DEF CutOut
  <2>2. z = i - 1
    BY <1>4 DEF Shifted
  <2>3. z \in 1..Len(d[p]) /\ ~ z < j /\ z + 1 = i
    BY ONLY <2>1, <2>2, <1>1, <1>2, <1>4, i \in 1..Len(k[p])
  <2> QED
    BY <2>1, <2>3
<1>5. CASE p = y /\ ~ j < i
  <2>1. Len(d[p]) = Len(k[p]) - 1 /\ \A l \in 1..Len(d[p]) :
           d[p][l] = IF l < j THEN k[p][l] ELSE k[p][l + 1]
    BY <1>1, <1>5 DEF CutOut
  <2>2. z = i
    BY <1>5 DEF Shifted
  <2>3. z \in 1..Len(d[p]) /\ z < j
    BY ONLY <2>1, <2>2, <1>1, <1>2, <1>5, i \in 1..Len(k[p]), j \in 1..Len(k[y]),
            ~ (p = y /\ i = j)
  <2> QED
    BY <2>1, <2>2, <2>3
<1> QED
  BY <1>3, <1>4, <1>5

LEMMA TwoGone ==
  ASSUME NEW k \in [Owner -> Seq(Node)], NEW p \in Owner, NEW i \in 1..Len(k[p]),
         NEW y \in Owner, NEW j \in 1..Len(k[y]), ~ (p = y /\ i = j)
  PROVE  Less(Less(k, p, i, i), y, Shifted(y, j, p, i), Shifted(y, j, p, i))
           = Less(Less(k, y, j, j), p, Shifted(p, i, y, j), Shifted(p, i, y, j))
<1> DEFINE d == Less(k, y, j, j)
           e == Less(k, p, i, i)
           zi == Shifted(p, i, y, j)
           zj == Shifted(y, j, p, i)
           f == Less(e, y, zj, zj)
           g == Less(d, p, zi, zi)
<1>1. zi \in 1..Len(d[p]) /\ zj \in 1..Len(e[y]) /\ zi \in Nat /\ zj \in Nat
  <2>1. zi \in 1..Len(d[p]) /\ zi \in Nat
    BY OneGone
  <2>2. zj \in 1..Len(e[y]) /\ zj \in Nat
    BY OneGone
  <2> QED
    BY <2>1, <2>2
<1>2. /\ d \in [Owner -> Seq(Node)] /\ CutOut(y, k[y], j, 1, d[y])
      /\ \A q \in Owner \ {y} : d[q] = k[q]
  BY ONLY LessFields
<1>3. /\ e \in [Owner -> Seq(Node)] /\ CutOut(p, k[p], i, 1, e[p])
      /\ \A q \in Owner \ {p} : e[q] = k[q]
  BY LessFields
<1>a. /\ zi = IF p = y /\ j < i THEN i - 1 ELSE i
      /\ zj = IF y = p /\ i < j THEN j - 1 ELSE j
  BY DEF Shifted
<1>b. f = Less(e, y, zj, zj) /\ g = Less(d, p, zi, zi)
  OBVIOUS
<1> HIDE DEF d, e, zi, zj, f, g
<1>4. /\ f \in [Owner -> Seq(Node)] /\ CutOut(y, e[y], zj, 1, f[y])
      /\ \A q \in Owner \ {y} : f[q] = e[q]
  <2>1. y \in Owner /\ e \in [Owner -> Seq(Node)] /\ zj \in 1..Len(e[y])
    BY <1>1, <1>3
  <2>2. f = Less(e, y, zj, zj)
    BY <1>b
  <2>3. f \in [Owner -> Seq(Node)]
    BY ONLY <2>1, <2>2, LessFields
  <2>4. CutOut(y, e[y], zj, 1, f[y])
    BY ONLY <2>1, <2>2, LessFields
  <2>5. \A q \in Owner \ {y} : f[q] = e[q]
    BY ONLY <2>1, <2>2 DEF Less
  <2> QED
    BY ONLY <2>3, <2>4, <2>5
<1>5. /\ g \in [Owner -> Seq(Node)] /\ CutOut(p, d[p], zi, 1, g[p])
      /\ \A q \in Owner \ {p} : g[q] = d[q]
  <2>1. p \in Owner /\ d \in [Owner -> Seq(Node)] /\ zi \in 1..Len(d[p])
    BY <1>1, <1>2
  <2> QED
    BY ONLY <2>1, <1>b, LessFields
<1>6. Len(k[p]) \in Nat /\ Len(k[y]) \in Nat /\ i \in Nat /\ j \in Nat
  <2>1. Len(k[p]) \in Nat /\ Len(k[y]) \in Nat
    BY LenProperties
  <2> QED
    BY <2>1
<1>7. ASSUME NEW q \in Owner
      PROVE  Len(f[q]) = Len(g[q]) /\ \A l \in 1..Len(g[q]) : f[q][l] = g[q][l]
  <2>1. CASE p # y
    <3>1. zi = i /\ zj = j /\ d[p] = k[p] /\ e[y] = k[y]
      BY <2>1, <1>2, <1>3, <1>a
    <3>2. f[p] = e[p] /\ g[y] = d[y]
      BY <2>1, <1>4, <1>5
    <3>3. q # p /\ q # y => f[q] = g[q]
      BY <1>2, <1>3, <1>4, <1>5
    <3>4. Len(f[p]) = Len(g[p]) /\ \A l \in 1..Len(g[p]) : f[p][l] = g[p][l]
      BY <3>1, <3>2, <1>3, <1>5 DEF CutOut
    <3>5. Len(f[y]) = Len(g[y]) /\ \A l \in 1..Len(g[y]) : f[y][l] = g[y][l]
      BY <3>1, <3>2, <1>2, <1>4 DEF CutOut
    <3> QED
      BY <3>3, <3>4, <3>5
  <2>2. CASE p = y
    <3>1. q # p => f[q] = g[q]
      BY <2>2, <1>2, <1>3, <1>4, <1>5
    <3>2. /\ Len(d[p]) = Len(k[p]) - 1 /\ Len(e[p]) = Len(k[p]) - 1
          /\ Len(f[p]) = Len(e[p]) - 1 /\ Len(g[p]) = Len(d[p]) - 1
          /\ \A l \in 1..Len(d[p]) : d[p][l] = IF l < j THEN k[p][l] ELSE k[p][l + 1]
          /\ \A l \in 1..Len(e[p]) : e[p][l] = IF l < i THEN k[p][l] ELSE k[p][l + 1]
          /\ \A l \in 1..Len(f[p]) : f[p][l] = IF l < zj THEN e[p][l] ELSE e[p][l + 1]
          /\ \A l \in 1..Len(g[p]) : g[p][l] = IF l < zi THEN d[p][l] ELSE d[p][l + 1]
      BY <2>2, <1>2, <1>3, <1>4, <1>5 DEF CutOut
    <3>3. ASSUME NEW l \in 1..Len(g[p])
          PROVE  f[p][l] = g[p][l]
      <4>1. l \in 1..Len(f[p]) /\ l \in 1..Len(d[p]) /\ l + 1 \in 1..Len(d[p])
            /\ l \in 1..Len(e[p]) /\ l + 1 \in 1..Len(e[p]) /\ l \in Nat
        BY ONLY <3>2, <1>6, <3>3
      <4>2. /\ f[p][l] = IF l < zj THEN IF l < i THEN k[p][l] ELSE k[p][l + 1]
                         ELSE IF l + 1 < i THEN k[p][l + 1] ELSE k[p][l + 1 + 1]
            /\ g[p][l] = IF l < zi THEN IF l < j THEN k[p][l] ELSE k[p][l + 1]
                         ELSE IF l + 1 < j THEN k[p][l + 1] ELSE k[p][l + 1 + 1]
        BY <3>2, <3>3, <4>1
      <4>3. i # j
        BY <2>2
      <4>4. CASE i < j
        BY ONLY <4>1, <4>2, <4>4, <1>6, <1>a, <2>2
      <4>5. CASE j < i
        BY ONLY <4>1, <4>2, <4>5, <1>6, <1>a, <2>2
      <4> QED
        BY ONLY <4>3, <4>4, <4>5, <1>6
    <3> QED
      BY <3>1, <3>2, <3>3
  <2> QED
    BY <2>1, <2>2
<1>8. f = g
  BY <1>4, <1>5, <1>7, SameLists
<1> QED
  BY <1>8 DEF d, e, zi, zj, f, g

(* A node put before another that is then taken out stands in its place. *)
LEMMA InsteadOf ==
  ASSUME NEW d \in [Owner -> Seq(Node)], NEW p \in Owner, NEW z \in 1..Len(d[p]),
         NEW n \in Node
  PROVE  /\ z + 1 \in 1..Len(Put(d, p, z - 1, <<n>>)[p])
         /\ Put(d, p, z - 1, <<n>>)[p][z + 1] = d[p][z]
         /\ Put(Less(d, p, z, z), p, z - 1, <<n>>)
              = Less(Put(d, p, z - 1, <<n>>), p, z + 1, z + 1)
<1> DEFINE s == <<n>>
<1>1. s \in Seq(Node) /\ Len(s) = 1 /\ s[1] = n
  OBVIOUS
<1> HIDE DEF s
<1> DEFINE w == z - 1
           c == Less(d, p, z, z)
           f == Put(c, p, z - 1, s)
           b == Put(d, p, z - 1, s)
           g == Less(b, p, z + 1, z + 1)
<1>2. /\ c \in [Owner -> Seq(Node)] /\ CutOut(p, d[p], z, 1, c[p])
      /\ \A q \in Owner \ {p} : c[q] = d[q]
      /\ Len(d[p]) \in Nat /\ z \in Nat
  BY LessFields
<1>3. Len(c[p]) = Len(d[p]) - 1
  BY <1>2 DEF CutOut
<1>4. w \in 0..Len(d[p]) /\ w \in 0..Len(c[p]) /\ w = z - 1
  BY ONLY <1>2, <1>3, z \in 1..Len(d[p])
<1>b. b = Put(d, p, w, s) /\ f = Put(c, p, w, s) /\ g = Less(b, p, z + 1, z + 1)
  OBVIOUS
<1> HIDE DEF c, b, f, g, w
<1>5. /\ b \in [Owner -> Seq(Node)] /\ PutIn(p, d[p], w, s, b[p])
      /\ \A q \in Owner \ {p} : b[q] = d[q]
  <2>1. b = Put(d, p, w, s) /\ d \in [Owner -> Seq(Node)]
    BY <1>b
  <2>2. b \in [Owner -> Seq(Node)]
    BY ONLY <1>1, <1>4, <2>1, p \in Owner, PutFields
  <2>3. PutIn(p, d[p], w, s, b[p])
    BY ONLY <1>1, <1>4, <2>1, p \in Owner, PutFields
  <2>4. \A q \in Owner \ {p} : b[q] = d[q]
    BY ONLY <2>1 DEF Put
  <2> QED
    BY <2>2, <2>3, <2>4
<1>6. /\ f \in [Owner -> Seq(Node)] /\ PutIn(p, c[p], w, s, f[p])
      /\ \A q \in Owner \ {p} : f[q] = c[q]
  <2>1. f = Put(c, p, w, s) /\ c \in [Owner -> Seq(Node)]
    BY <1>2, <1>b
  <2>2. f \in [Owner -> Seq(Node)]
    BY ONLY <1>1, <1>4, <2>1, p \in Owner, PutFields
  <2>3. PutIn(p, c[p], w, s, f[p])
    BY ONLY <1>1, <1>4, <2>1, p \in Owner, PutFields
  <2>4. \A q \in Owner \ {p} : f[q] = c[q]
    BY ONLY <2>1 DEF Put
  <2> QED
    BY <2>2, <2>3, <2>4
<1>7. /\ Len(b[p]) = Len(d[p]) + 1
      /\ \A j \in 1..Len(b[p]) : b[p][j] = IF j <= z - 1 THEN d[p][j]
            ELSE IF j <= z - 1 + 1 THEN s[j - (z - 1)] ELSE d[p][j - 1]
  BY <1>1, <1>4, <1>5 DEF PutIn
<1>8. z + 1 \in 1..Len(b[p]) /\ b[p][z + 1] = d[p][z]
  <2>1. z + 1 \in 1..Len(b[p]) /\ ~ z + 1 <= z - 1 /\ ~ z + 1 <= z - 1 + 1 /\ z + 1 - 1 = z
    BY ONLY <1>2, <1>7, z \in 1..Len(d[p])
  <2> QED
    BY <2>1, <1>7
<1>9. /\ g \in [Owner -> Seq(Node)] /\ CutOut(p, b[p], z + 1, 1, g[p])
      /\ \A q \in Owner \ {p} : g[q] = b[q]
  BY ONLY <1>5, <1>8, <1>b, p \in Owner, LessFields
<1>10. /\ Len(f[p]) = Len(c[p]) + 1 /\ Len(g[p]) = Len(b[p]) - 1
       /\ \A l \in 1..Len(f[p]) : f[p][l] = IF l <= z - 1 THEN c[p][l]
             ELSE IF l <= z - 1 + 1 THEN s[l - (z - 1)] ELSE c[p][l - 1]
       /\ \A l \in 1..Len(g[p]) : g[p][l] = IF l < z + 1 THEN b[p][l] ELSE b[p][l + 1]
       /\ \A l \in 1..Len(c[p]) : c[p][l] = IF l < z THEN d[p][l] ELSE d[p][l + 1]
  BY <1>1, <1>2, <1>4, <1>6, <1>9 DEF CutOut, PutIn
<1>11. ASSUME NEW l \in 1..Len(g[p])
       PROVE  f[p][l] = g[p][l]
  <2>0. l \in Nat /\ Len(g[p]) = Len(d[p]) /\ l \in 1..Len(f[p])
    BY ONLY <1>2, <1>3, <1>7, <1>10, <1>11
  <2>1. CASE l < z
    <3>1. l <= z - 1 /\ l < z + 1 /\ l \in 1..Len(c[p]) /\ l \in 1..Len(b[p])
      BY ONLY <1>2, <1>3, <1>7, <1>10, <1>11, <2>1, z \in 1..Len(d[p])
    <3> QED
      BY <3>1, <2>0, <2>1, <1>7, <1>10, <1>11
  <2>2. CASE l = z
    <3>1. ~ l <= z - 1 /\ l <= z - 1 + 1 /\ l < z + 1 /\ l \in 1..Len(b[p])
          /\ l - (z - 1) = 1
      BY ONLY <1>2, <1>3, <1>7, <1>10, <1>11, <2>2
    <3> QED
      BY <3>1, <2>0, <1>7, <1>10, <1>11
  <2>3. CASE l > z
    <3>1. /\ ~ l <= z - 1 /\ ~ l <= z - 1 + 1 /\ ~ l < z + 1
          /\ l - 1 \in 1..Len(c[p]) /\ ~ l - 1 < z /\ l - 1 + 1 = l
          /\ l + 1 \in 1..Len(b[p]) /\ ~ l + 1 <= z - 1 /\ ~ l + 1 <= z - 1 + 1
          /\ l + 1 - 1 = l
      BY ONLY <1>2, <1>3, <1>7, <1>10, <1>11, <2>0, <2>3, z \in 1..Len(d[p])
    <3>2. f[p][l] = d[p][l]
      BY ONLY <3>1, <2>0, <1>10
    <3>3. b[p][l + 1] = d[p][l + 1 - 1]
      <4> DEFINE o == l + 1
      <4>1. /\ o \in 1..Len(b[p]) /\ ~ o <= z - 1 /\ ~ o <= z - 1 + 1
        BY ONLY <3>1
      <4> HIDE DEF o
      <4>2. b[p][o] = d[p][o - 1]
        BY ONLY <4>1, <1>7
      <4> QED
        BY <4>2 DEF o
    <3>4. g[p][l] = b[p][l + 1]
      BY ONLY <3>1, <1>10, <1>11
    <3> QED
      BY <3>1, <3>2, <3>3, <3>4
  <2> QED
    BY ONLY <2>0, <2>1, <2>2, <2>3, <1>2
<1>12. ASSUME NEW q \in Owner
       PROVE  Len(f[q]) = Len(g[q]) /\ \A l \in 1..Len(g[q]) : f[q][l] = g[q][l]
  <2>1. q # p => f[q] = g[q]
    BY <1>2, <1>5, <1>6, <1>9
  <2>2. Len(f[p]) = Len(g[p])
    BY ONLY <1>2, <1>3, <1>7, <1>10
  <2> QED
    BY <2>1, <2>2, <1>11
<1>13. f = g
  BY <1>6, <1>9, <1>12, SameLists
<1> QED
  BY <1>8, <1>13 DEF c, f, b, g, s, w

LEMMA OntopYields ==
  ASSUME NEW m, NEW k, Stored(m, k), NEW dst \in Alive(m), NEW src \in Alive(m),
         NEW D, D = Under(k, dst), src \notin D,
         m[dst].next_sibling # src, m[src].next_sibling # dst, NEW x
  PROVE  Lessened(m, move_ontop(m, dst, src), D,
                  Drop(Cut(Before(Cut(k, src, src), dst, <<src>>), dst, dst), D), x)
<1> DEFINE e == erase(m, dst)
           d == Cut(k, src, src)
           u == Unlink(m, src, src)
           r == move_ontop(m, dst, src)
           ke == Drop(Cut(k, dst, dst), D)
           mb == move_before(m, dst, src)
           kb == Before(d, dst, <<src>>)
<1>1. /\ Sound(m) /\ Arranged(m, {}, k) /\ m \in Memory /\ Alive(m) \subseteq Node
      /\ k \in [Owner -> Seq(Node)] /\ Once(k) /\ Alive(m) \subseteq Owner
      /\ \A q \in Owner : k[q] \in Seq(Node) /\ Len(k[q]) \in Nat
      /\ dst \in Ptr /\ src \in Ptr /\ src \in Node /\ dst \in Node
  BY StoredFacts, PtrFacts
<1>2. Lessened(m, e, D, ke, x)
  BY <1>1, EraseYields
<1>3. PICK p \in Owner : \E i \in 1..Len(k[p]) : dst = k[p][i]
  BY <1>1, Standing
<1>4. PICK i \in 1..Len(k[p]) : dst = k[p][i]
  BY <1>3
<1>5. PICK y \in Owner : \E j \in 1..Len(k[y]) : src = k[y][j]
  <2>1. src \in Alive(m) \ {}
    OBVIOUS
  <2> QED
    BY ONLY SMTT(30), <1>1, <2>1, Standing
<1>6. PICK j \in 1..Len(k[y]) : src = k[y][j]
  BY <1>5
<1>7. D = {dst} \cup Below(m, dst) /\ Beneath(m, k, dst, Below(m, dst))
      /\ dst \notin Below(m, dst) /\ Below(m, dst) \subseteq Alive(m)
  <2>1. Below(m, dst) = Reach(m, firstOf(m, dst)) /\ dst \in Owner
    BY <1>1 DEF Below, firstOf
  <2>2. Beneath(m, k, dst, Below(m, dst))
    BY <1>1, <2>1, UnderFacts
  <2>3. dst \notin Below(m, dst) /\ Below(m, dst) \subseteq Alive(m)
    BY <1>1, BelowFacts
  <2> QED
    BY <2>2, <2>3 DEF Beneath
<1>8. p \notin D /\ y \notin D /\ dst # src
  <2>1. \A q \in Below(m, dst) \cup {dst} : \A l \in 1..Len(k[q]) : k[q][l] \in Below(m, dst)
    BY <1>7 DEF Beneath
  <2> QED
    BY <2>1, <1>4, <1>6, <1>7
<1> DEFINE zi == Shifted(p, i, y, j)
           zj == Shifted(y, j, p, i)
           lo == Less(k, p, i, i)
           c == Less(d, p, zi, zi)
<1>9. ~ (p = y /\ i = j)
  BY <1>4, <1>6, <1>8
<1>10. lo = Cut(k, dst, dst) /\ d = Less(k, y, j, j)
  <2>1. i \in i..Len(k[p]) /\ j \in j..Len(k[y])
    BY <1>1
  <2>2. Cut(k, dst, dst) = Less(k, p, i, i)
    BY <1>1, <1>4, <2>1, RangeFacts
  <2>3. Cut(k, src, src) = Less(k, y, j, j)
    BY <1>1, <1>6, <2>1, RangeFacts
  <2> QED
    BY <2>2, <2>3
<1>11. d \in [Owner -> Seq(Node)] /\ lo \in [Owner -> Seq(Node)]
  <2>1. d \in [Owner -> Seq(Node)]
    BY ONLY <1>1, <1>10, LessFields
  <2>2. lo \in [Owner -> Seq(Node)]
    BY ONLY <1>1, LessFields
  <2> QED
    BY <2>1, <2>2
<1>12. zi \in 1..Len(d[p]) /\ d[p][zi] = dst /\ zi \in Nat
  <2>1. zi = Shifted(p, i, y, j)
    OBVIOUS
  <2> HIDE DEF zi, d
  <2>2. zi \in 1..Len(d[p]) /\ d[p][zi] = k[p][i] /\ zi \in Nat
    BY ONLY SMTT(30), <1>1, <1>9, <1>10, <2>1, p \in Owner, i \in 1..Len(k[p]),
            y \in Owner, j \in 1..Len(k[y]), OneGone
  <2> QED
    BY <2>2, <1>4
<1>13. zj \in 1..Len(lo[y]) /\ lo[y][zj] = src
  <2>1. zj = Shifted(y, j, p, i) /\ lo = Less(k, p, i, i)
    OBVIOUS
  <2> HIDE DEF zj, lo
  <2>2. zj \in 1..Len(lo[y]) /\ lo[y][zj] = k[y][j]
    BY ONLY <1>1, <1>9, <2>1, p \in Owner, i \in 1..Len(k[p]),
            y \in Owner, j \in 1..Len(k[y]), OneGone
  <2> QED
    BY <2>2, <1>6
<1>14. Less(lo, y, zj, zj) = c
  <2>1. Less(Less(k, p, i, i), y, Shifted(y, j, p, i), Shifted(y, j, p, i))
          = Less(Less(k, y, j, j), p, Shifted(p, i, y, j), Shifted(p, i, y, j))
    BY ONLY <1>1, <1>9, p \in Owner, i \in 1..Len(k[p]),
            y \in Owner, j \in 1..Len(k[y]), TwoGone
  <2>2. d = Less(k, y, j, j)
    BY <1>10
  <2> HIDE DEF d
  <2> QED
    BY <2>1, <2>2
<1>a. /\ u = Unlink(m, src, src) /\ d = Cut(k, src, src) /\ kb = Before(d, dst, <<src>>)
      /\ mb = move_before(m, dst, src) /\ ke = Drop(lo, D) /\ c = Less(d, p, zi, zi)
      /\ r = Move(e, src, m[dst].parent, m[dst].prev_sibling, m[dst].next_sibling)
  BY <1>10 DEF move_ontop
<1> HIDE DEF e, d, u, r, ke, mb, kb, zi, zj, lo, c
<1>15. /\ Arranged(u, {src}, d) /\ Alive(u) = Alive(m) /\ dst \in Alive(u) \ {src}
  <2>1. Arranged(u, {src}, d)
    BY ONLY <1>1, <1>a, src \in Alive(m), NodeLeaves
  <2>2. Alive(u) = Alive(m)
    BY ONLY <1>1, <1>a, src \in Alive(m), NodeLeaves
  <2> QED
    BY <2>1, <2>2, <1>8
<1>16. /\ u[dst].prev_sibling = At(p, d[p], zi - 1)
       /\ u[dst].next_sibling = At(p, d[p], zi + 1)
       /\ Over(d, dst) = p /\ Place(d, dst) = zi
  BY <1>12, <1>15, NodeLinks
<1>17. /\ m[dst].parent = parentOf(p) /\ p \in Alive(m) \cup Heads
       /\ m[dst].prev_sibling = At(p, d[p], zi - 1)
       /\ m[dst].next_sibling = At(p, d[p], zi + 1)
  <2>1. m[dst].parent = parentOf(p) /\ p \in Alive(m) \cup Heads
    BY <1>1, <1>4, NodeLinks
  <2>2. /\ u[dst].prev_sibling = IF dst = m[src].next_sibling THEN m[src].prev_sibling
                                 ELSE m[dst].prev_sibling
        /\ u[dst].next_sibling = IF dst = m[src].prev_sibling THEN m[src].next_sibling
                                 ELSE m[dst].next_sibling
    BY <1>1, <1>a, UnlinkFields DEF Unlinked
  <2>3. dst # m[src].prev_sibling
    BY <1>1, ApartLinks
  <2> QED
    BY <2>1, <2>2, <2>3, <1>16
<1>18. kb = Put(d, p, zi - 1, <<src>>)
  BY <1>a, <1>16 DEF Before
<1>19. /\ zi + 1 \in 1..Len(kb[p]) /\ kb[p][zi + 1] = dst
       /\ Put(c, p, zi - 1, <<src>>) = Less(kb, p, zi + 1, zi + 1)
  <2>0. /\ d \in [Owner -> Seq(Node)] /\ p \in Owner /\ zi \in 1..Len(d[p])
        /\ src \in Node
    BY ONLY <1>1, <1>11, <1>12
  <2> HIDE DEF zi, d
  <2>1. zi + 1 \in 1..Len(Put(d, p, zi - 1, <<src>>)[p])
    BY ONLY <2>0, InsteadOf
  <2>2. Put(d, p, zi - 1, <<src>>)[p][zi + 1] = d[p][zi]
    BY ONLY <2>0, InsteadOf
  <2>3. Put(Less(d, p, zi, zi), p, zi - 1, <<src>>)
          = Less(Put(d, p, zi - 1, <<src>>), p, zi + 1, zi + 1)
    BY ONLY <2>0, InsteadOf
  <2> QED
    BY <2>1, <2>2, <2>3, <1>12, <1>18, <1>a
<1>20. Cut(kb, dst, dst) = Less(kb, p, zi + 1, zi + 1)
  <2>1. Moved(m, mb, kb, x)
    BY ONLY <1>1, <1>8, <1>a, src \in Alive(m), dst \in Alive(m), MoveNext
  <2>2. Arranged(mb, {}, kb)
    BY <2>1 DEF Moved, Yields
  <2> DEFINE w == zi + 1
  <2>3. w \in 1..Len(kb[p]) /\ kb[p][w] = dst /\ w \in Int
    BY <1>12, <1>19
  <2> HIDE DEF w
  <2>4. w \in w..Len(kb[p])
    <3>1. Len(kb[p]) \in Nat
      BY <2>2, ArrangedFacts
    <3> QED
      BY <3>1, <2>3
  <2>5. Cut(kb, kb[p][w], kb[p][w]) = Less(kb, p, w, w)
    BY ONLY <2>2, <2>3, <2>4, p \in Owner, RangeFacts
  <2> QED
    BY <2>3, <2>5 DEF w
<1>21. /\ Arranged(e, {}, ke) /\ Alive(e) = Alive(m) \ D
       /\ \A n \in Alive(e) : e[n].data = IF n \in Alive(m) THEN m[n].data ELSE x
  BY <1>2 DEF Lessened, Yields
<1>22. ke[y][zj] = src /\ zj \in 1..Len(ke[y]) /\ zj \in Int
  <2>1. ke[y] = lo[y]
    BY <1>8, <1>11, <1>a DEF Drop
  <2> QED
    BY <2>1, <1>13
<1>23. Cut(ke, src, src) = Drop(c, D)
  <2>1. zj \in zj..Len(ke[y])
    <3>1. Len(ke[y]) \in Nat
      BY <1>21, ArrangedFacts
    <3> QED
      BY <3>1, <1>22
  <2>2. Cut(ke, ke[y][zj], ke[y][zj]) = Less(ke, y, zj, zj)
    BY ONLY <1>21, <1>22, <2>1, y \in Owner, RangeFacts
  <2>3. Less(Drop(lo, D), y, zj, zj) = Drop(Less(lo, y, zj, zj), D)
    BY ONLY <1>8, <1>11, y \in Owner DEF Less, Drop
  <2> QED
    BY <2>2, <2>3, <1>14, <1>22, <1>a
<1>24. c \in [Owner -> Seq(Node)] /\ CutOut(p, d[p], zi, 1, c[p])
  BY <1>11, <1>12, <1>a, LessFields
<1> DEFINE l == zi - 1
           dc == Drop(c, D)
<1>25. dc[p] = c[p] /\ l \in 0..Len(dc[p]) /\ l + 1 = zi
       /\ m[dst].prev_sibling = At(p, dc[p], l) /\ m[dst].next_sibling = At(p, dc[p], l + 1)
  <2>1. dc[p] = c[p]
    BY <1>8, <1>24 DEF Drop
  <2>2. Len(d[p]) \in Nat
    BY <1>15, ArrangedFacts
  <2>3. /\ Len(c[p]) = Len(d[p]) - 1
        /\ \A o \in 0..(Len(c[p]) + 1) :
             At(p, c[p], o) = IF o < zi THEN At(p, d[p], o) ELSE At(p, d[p], o + 1)
    BY <1>24 DEF CutOut
  <2>4. /\ zi - 1 \in 0..Len(c[p]) /\ zi - 1 \in 0..(Len(c[p]) + 1) /\ zi \in 0..(Len(c[p]) + 1)
        /\ zi - 1 < zi /\ ~ zi < zi /\ zi - 1 + 1 = zi
    BY ONLY <2>2, <2>3, <1>12
  <2>5. At(p, c[p], zi - 1) = At(p, d[p], zi - 1) /\ At(p, c[p], zi) = At(p, d[p], zi + 1)
    BY ONLY <2>3, <2>4
  <2> QED
    BY <2>1, <2>4, <2>5, <1>17
<1>b. dc = Cut(ke, src, src)
  BY <1>23
<1>c. Put(dc, p, l, <<src>>) = Drop(Put(c, p, l, <<src>>), D)
  BY ONLY <1>8, <1>24, p \in Owner, dc = Drop(c, D) DEF Put, Drop
<1> HIDE DEF l, dc
<1>26. Moved(e, r, Put(dc, p, l, <<src>>), x)
  <2>1. src \in Alive(e) /\ p \in Alive(e) \cup Heads
    BY <1>8, <1>17, <1>21
  <2>2. r = Move(e, src, m[dst].parent, m[dst].prev_sibling, m[dst].next_sibling)
    BY <1>a
  <2>3. Moved(e, Move(e, src, m[dst].parent, m[dst].prev_sibling, m[dst].next_sibling),
              Put(dc, p, l, <<src>>), x)
    BY ONLY <2>1, <1>21, <1>b, <1>17, <1>25, NodeMoves
  <2> QED
    BY <2>2, <2>3
<1>27. Put(dc, p, l, <<src>>) = Drop(Cut(kb, dst, dst), D)
  BY <1>c, <1>19, <1>20 DEF l
<1>28. /\ Arranged(r, {}, Drop(Cut(kb, dst, dst), D)) /\ Alive(r) = Alive(e)
       /\ \A n \in Alive(r) : r[n].data = IF n \in Alive(e) THEN e[n].data ELSE x
  BY <1>26, <1>27 DEF Moved, Yields
<1>29. Lessened(m, r, D, Drop(Cut(kb, dst, dst), D), x)
  BY <1>21, <1>28 DEF Lessened, Yields
<1> QED
  BY <1>29, <1>a DEF r, kb, d
-----------------------------------------------------------------------------
(* The first half of a copy. *)
LEMMA ReplaceTopArranges ==
  ASSUME NEW m, NEW k, Stored(m, k), NEW pos \in Alive(m),
         NEW n \in Fresh(erase_children(m, pos)), NEW x \in Data \cup {Blank},
         NEW r, r = replace_top(m, pos, n, x)
  PROVE  \E h : Arranged(r, {}, h)
<1> DEFINE bare == erase_children(m, pos)
           cn == Construct(bare, n, x)
           out == Unlink(cn, pos, pos)
           kb == Drop(k, Under(k, pos))
           l == LinkIn(out, n, n, m[pos].parent, m[pos].prev_sibling,
                       m[pos].next_sibling)
           s == <<n>>
           e == <<pos>>
<1>1. /\ Sound(m) /\ Arranged(m, {}, k) /\ m \in Memory /\ Alive(m) \subseteq Node
      /\ pos \in Node /\ pos \in Owner /\ Node \subseteq Owner
  BY StoredFacts DEF Owner
<1>2. Lessened(m, bare, Below(m, pos), kb, x) /\ Childless(m, pos, bare)
  <2>1. Lessened(m, bare, Below(m, pos), kb, x)
    BY <1>1, EraseChildrenYields
  <2>2. Childless(m, pos, bare)
    BY <1>1, EraseChildrenSound
  <2> QED
    BY <2>1, <2>2
<1>3. /\ n \in Node \ Alive(bare) /\ pos \in Under(k, pos)
      /\ r = Deallocate(l, {pos}) /\ cn = Construct(bare, n, x)
      /\ out = Unlink(cn, pos, pos)
      /\ l = LinkIn(out, n, n, m[pos].parent, m[pos].prev_sibling, m[pos].next_sibling)
  BY DEF Fresh, replace_top, Under
<1>s. s = <<n>> /\ e = <<pos>> /\ s[1] = n /\ Len(s) = 1 /\ ToSet(s) = {n} /\ ToSet(e) = {pos}
      /\ s \in Seq(Node)
  <2>1. ToSet(<<n>>) = {n} /\ ToSet(<<pos>>) = {pos}
    BY DEF ToSet
  <2>2. s = <<n>> /\ e = <<pos>>
    OBVIOUS
  <2>3. <<n>> \in Seq(Node) /\ <<n>>[1] = n /\ Len(<<n>>) = 1
    BY <1>3
  <2> HIDE DEF s, e
  <2> QED
    BY ONLY <2>1, <2>2, <2>3
<1>4. kb = Drop(k, Under(k, pos))
  OBVIOUS
<1> HIDE DEF bare, cn, out, kb, l, s, e
<1>5. Arranged(bare, {}, kb)
  BY <1>2 DEF Lessened, Yields
<1>6. /\ Arranged(cn, {n}, kb) /\ Alive(cn) = Alive(bare) \cup {n}
      /\ \A y \in Ptr \ {n} : cn[y] = bare[y]
  <2>1. Arranged(cn, {n}, kb)
    BY ONLY <1>3, <1>5, x \in Data \cup {Blank}, ConstructArranges
  <2>2. bare \in Memory
    BY <1>5, ArrangedFacts
  <2>3. \A y \in Ptr \ {n} : cn[y] = bare[y]
    BY <1>3, <2>2, ConstructFields
  <2>4. Alive(cn) = Alive(bare) \cup {n}
    BY <1>3, <2>2, ConstructFields, PtrFacts DEF Alive
  <2> QED
    BY <2>1, <2>3, <2>4
<1>7. /\ pos \in Alive(bare) /\ pos # n /\ pos \in Ptr /\ pos \in Alive(cn) \ {n}
      /\ bare[pos].parent = m[pos].parent
      /\ bare[pos].prev_sibling = m[pos].prev_sibling
      /\ bare[pos].next_sibling = m[pos].next_sibling
  BY <1>1, <1>2, <1>3, <1>6, PtrFacts DEF Childless
<1>8. cn[pos] = bare[pos]
  BY <1>6, <1>7
<1>9. PICK p \in Owner : \E i \in 1..Len(kb[p]) : pos = kb[p][i]
  BY ONLY <1>6, <1>7, Standing
<1>10. PICK i \in 1..Len(kb[p]) : pos = kb[p][i]
  BY <1>9
<1>11. /\ p \in Alive(cn) \cup Heads /\ p # n /\ p # pos
       /\ cn[pos].parent = parentOf(p)
       /\ cn[pos].prev_sibling = At(p, kb[p], i - 1)
       /\ cn[pos].next_sibling = At(p, kb[p], i + 1)
  <2>1. /\ p \in Alive(bare) \cup Heads
        /\ bare[pos].parent = parentOf(p)
        /\ bare[pos].prev_sibling = At(p, kb[p], i - 1)
        /\ bare[pos].next_sibling = At(p, kb[p], i + 1)
    BY ONLY <1>5, <1>10, p \in Owner, NodeLinks
  <2>2. p # n
    BY <2>1, <1>3, DummyFacts
  <2>3. p # pos
    <3>1. DOMAIN k = Owner
      BY <1>1, ArrangedFacts
    <3>2. p \in Under(k, pos) => kb[p] = <<>>
      BY <3>1, <1>4 DEF Drop
    <3> QED
      BY <3>2, <1>3, <1>10
  <2> QED
    BY <2>1, <2>2, <2>3, <1>6, <1>8
<1> DEFINE c == Less(kb, p, i, i)
           w == i - 1
<1>12. /\ kb \in [Owner -> Seq(Node)] /\ Len(kb[p]) \in Nat /\ i \in i..Len(kb[p])
       /\ SubSeq(kb[p], i, i) = e
  <2>1. kb \in [Owner -> Seq(Node)] /\ Len(kb[p]) \in Nat /\ kb[p] \in Seq(Node)
    BY <1>5, ArrangedFacts
  <2>2. i \in i..Len(kb[p]) /\ 0 \in 0..(Len(kb[p]) - 1)
    BY <2>1
  <2>3. /\ SubSeq(kb[p], i, i) = <<kb[p][i]>>
        /\ OneOut(kb, p, i, Less(kb, p, i, i))
        /\ OneIn(kb, p, Less(kb, p, i, i), 0, pos,
                 Put(Less(kb, p, i, i), p, 0, <<pos>>))
    BY ONLY <1>1, <1>5, <2>2, p \in Owner, i \in 1..Len(kb[p]), OneLists
  <2> QED
    BY <2>1, <2>2, <2>3, <1>10, <1>s
<1>13. c \in [Owner -> Seq(Node)] /\ CutOut(p, kb[p], i, 1, c[p])
  BY <1>12, LessFields
<1>14. c = Less(kb, p, i, i) /\ w = i - 1
  OBVIOUS
<1> HIDE DEF c, w
<1>15. /\ Len(c[p]) = Len(kb[p]) - 1 /\ w \in 0..Len(c[p])
       /\ At(p, c[p], w) = m[pos].prev_sibling
       /\ At(p, c[p], w + 1) = m[pos].next_sibling
  <2>1. Len(c[p]) = Len(kb[p]) - 1 /\ \A o \in 0..(Len(c[p]) + 1) :
          At(p, c[p], o) = IF o < i THEN At(p, kb[p], o) ELSE At(p, kb[p], o + 1)
    BY <1>13 DEF CutOut
  <2>2. /\ w \in 0..Len(c[p]) /\ w \in 0..(Len(c[p]) + 1) /\ w + 1 \in 0..(Len(c[p]) + 1)
        /\ w < i /\ ~ w + 1 < i /\ w + 1 + 1 = i + 1
    BY ONLY <2>1, <1>12, <1>14, i \in 1..Len(kb[p])
  <2>3. At(p, c[p], w) = At(p, kb[p], w) /\ At(p, c[p], w + 1) = At(p, kb[p], w + 1 + 1)
    BY ONLY <2>1, <2>2
  <2> QED
    BY <2>1, <2>2, <2>3, <1>7, <1>8, <1>11, <1>14
<1>16. SetOut(cn, {n}, c, e, out)
  <2>1. out = Unlink(cn, kb[p][i], kb[p][i]) /\ e = SubSeq(kb[p], i, i)
    BY <1>3, <1>10, <1>12
  <2>2. SetOut(cn, {n}, Less(kb, p, i, i), e, out)
    BY ONLY <1>6, <2>1, <1>12, p \in Owner, i \in 1..Len(kb[p]), RangeLeaves
  <2> QED
    BY <2>2, <1>14
<1>17. Arranged(out, {n} \cup {pos}, c) /\ Alive(out) = Alive(cn)
  BY <1>16, <1>s DEF SetOut
<1>18. Strand(out, s)
  <2>1. s \in Seq(Node) /\ s # <<>> /\ Len(s) = 1
    BY <1>s
  <2> QED
    BY <2>1 DEF Strand
<1>19. l = LinkAt(out, c, s, p, w)
  BY <1>3, <1>s, <1>15, <1>11, <1>7, <1>8 DEF LinkAt
<1>20. SetIn(out, {n} \cup {pos}, Put(c, p, w, s), s, l)
  <2>1. ToSet(s) \subseteq {n} \cup {pos} /\ p \in Alive(out) \cup Heads
    BY <1>s, <1>11, <1>17
  <2> QED
    BY ONLY <2>1, <1>15, <1>17, <1>18, <1>19, StrandEnters
<1> DEFINE h == Put(c, p, w, s)
<1>21. Arranged(l, {pos}, h)
  <2>1. ({n} \cup {pos}) \ {n} = {pos}
    BY <1>7
  <2> QED
    BY <2>1, <1>20, <1>s DEF SetIn
<1>22. h[pos] = <<>> /\ Len(h[pos]) = 0
  <2>1. h[pos] = c[pos]
    BY <1>1, <1>11 DEF Put
  <2>2. c[pos] = kb[pos]
    BY <1>1, <1>11, <1>14 DEF Less
  <2>3. kb[pos] = <<>>
    <3>1. DOMAIN k = Owner
      BY <1>1, ArrangedFacts
    <3> QED
      BY <3>1, <1>1, <1>3, <1>4 DEF Drop
  <2> QED
    BY <2>1, <2>2, <2>3
<1> HIDE DEF h
<1>23. /\ \A q \in Owner \ {pos} : \A j \in 1..Len(h[q]) : h[q][j] \notin {pos}
       /\ \A q \in {pos} : q \in Node => \A j \in 1..Len(h[q]) : h[q][j] \in {pos}
       /\ \A q \in {pos} : q \notin Node => h[q] = <<>>
       /\ {pos} \in SUBSET Owner /\ {pos} \subseteq {pos} /\ {pos} \cap Node = {pos}
  <2>1. \A q \in Owner : \A j \in 1..Len(h[q]) : h[q][j] # pos
    BY <1>21, ArrangedFacts
  <2> QED
    BY <2>1, <1>1, <1>22
<1>24. r = Deallocate(l, {pos} \cap Node)
  BY <1>3, <1>23
<1>25. Arranged(r, {}, Drop(h, {pos}))
  BY ONLY <1>21, <1>23, <1>24, DeallocateArranges
<1> QED
  BY <1>25

-----------------------------------------------------------------------------
(* What a call yields is arranged again. *)
Orderly(m) == \E k : Arranged(m, {}, k)

LEMMA YieldsOrderly ==
  ASSUME NEW m, NEW r, NEW h, NEW x, Yields(m, r, h, x)
  PROVE  Orderly(r)
  BY DEF Yields, Orderly

LEMMA InsertionsOrderly ==
  ASSUME NEW m, NEW k, Stored(m, k), NEW n \in Node \ Alive(m),
         NEW x \in Data \cup {Blank}
  PROVE  /\ \A t \in Tree : Orderly(insert(m, feet(t), n, x))
         /\ \A p \in Alive(m) :
              /\ Orderly(append_child(m, p, n, x)) /\ Orderly(prepend_child(m, p, n, x))
              /\ Orderly(insert(m, p, n, x)) /\ Orderly(insert_after(m, p, n, x))
<1>1. ASSUME NEW t \in Tree
      PROVE  Orderly(insert(m, feet(t), n, x))
  <2>1. Yields(m, insert(m, feet(t), n, x), AtEnd(k, head(t), <<n>>), x)
    BY TopYields
  <2> QED
    BY <2>1, YieldsOrderly
<1>2. ASSUME NEW p \in Alive(m)
      PROVE  Orderly(append_child(m, p, n, x)) /\ Orderly(prepend_child(m, p, n, x))
  <2>1. Yields(m, append_child(m, p, n, x), AtEnd(k, p, <<n>>), x)
    BY ChildYields
  <2>2. Yields(m, prepend_child(m, p, n, x), Put(k, p, 0, <<n>>), x)
    BY ChildYields
  <2>3. Orderly(append_child(m, p, n, x))
    BY <2>1, YieldsOrderly
  <2>4. Orderly(prepend_child(m, p, n, x))
    BY <2>2, YieldsOrderly
  <2> QED
    BY <2>3, <2>4
<1>3. ASSUME NEW p \in Alive(m)
      PROVE  Orderly(insert(m, p, n, x)) /\ Orderly(insert_after(m, p, n, x))
  <2>1. Yields(m, insert(m, p, n, x), Before(k, p, <<n>>), x)
    BY InsertYields
  <2>2. Yields(m, insert_after(m, p, n, x), After(k, p, <<n>>), x)
    BY InsertYields
  <2>3. Orderly(insert(m, p, n, x))
    BY <2>1, YieldsOrderly
  <2>4. Orderly(insert_after(m, p, n, x))
    BY <2>2, YieldsOrderly
  <2> QED
    BY <2>3, <2>4
<1> QED
  BY <1>1, <1>2, <1>3

(* A range that starts at p, as a part of the list p is in. *)
LEMMA RangeStands ==
  ASSUME NEW m, NEW k, Arranged(m, {}, k), NEW p \in Alive(m), NEW q \in Chain(m, p, Null)
  PROVE  \E y \in Owner : \E i \in 1..Len(k[y]) : \E j \in i..Len(k[y]) :
           p = k[y][i] /\ q = k[y][j]
<1>1. p \in Alive(m) \ {}
  OBVIOUS
<1>2. PICK y \in Owner : \E i \in 1..Len(k[y]) : p = k[y][i]
  BY <1>1, Standing
<1>3. PICK i \in 1..Len(k[y]) : p = k[y][i]
  BY <1>2
<1>4. \E j \in i..Len(k[y]) : q = k[y][j]
  BY <1>3, RangeEndsAre
<1> QED
  BY <1>3, <1>4

Wrapped(m, k, p, q, n, x) ==
  Yields(m, wrap(m, p, q, n, x),
         [Cut(Before(k, p, <<n>>), p, q) EXCEPT ![n] = From(k, p, q)], x)

LEMMA RangeWraps ==
  ASSUME NEW m, NEW k, Stored(m, k), NEW p \in Alive(m), NEW q \in Chain(m, p, Null),
         NEW n \in Node \ Alive(m), NEW x \in Data \cup {Blank}
  PROVE  Wrapped(m, k, p, q, n, x)
<1>1. Arranged(m, {}, k)
  BY DEF Stored
<1>2. PICK y \in Owner : \E i \in 1..Len(k[y]) : \E j \in i..Len(k[y]) :
        p = k[y][i] /\ q = k[y][j]
  BY <1>1, RangeStands
<1>3. PICK i \in 1..Len(k[y]) : \E j \in i..Len(k[y]) : p = k[y][i] /\ q = k[y][j]
  BY <1>2
<1>4. PICK j \in i..Len(k[y]) : p = k[y][i] /\ q = k[y][j]
  BY <1>3
<1> DEFINE s == From(k, p, q)
<1>5. s = From(k, p, q)
  OBVIOUS
<1> HIDE DEF s
<1>6. Yields(m, wrap(m, p, q, n, x), [Cut(Before(k, p, <<n>>), p, q) EXCEPT ![n] = s], x)
  BY ONLY <1>4, <1>5, Stored(m, k), n \in Node \ Alive(m), x \in Data \cup {Blank},
          y \in Owner, i \in 1..Len(k[y]), WrapYields
<1> QED
  BY <1>5, <1>6 DEF Wrapped

Reparented(m, k, q, p, r, x) ==
  Moved(m, reparent(m, q, p, r), AtEnd(Cut(k, p, r), q, From(k, p, r)), x)

LEMMA RangeReparents ==
  ASSUME NEW m, NEW k, Stored(m, k), NEW p \in Alive(m), NEW r \in Chain(m, p, Null),
         NEW q \in Alive(m), NEW x
  PROVE  Reparented(m, k, q, p, r, x)
<1>1. Arranged(m, {}, k)
  BY DEF Stored
<1>2. PICK y \in Owner : \E i \in 1..Len(k[y]) : \E j \in i..Len(k[y]) :
        p = k[y][i] /\ r = k[y][j]
  BY <1>1, RangeStands
<1>3. PICK i \in 1..Len(k[y]) : \E j \in i..Len(k[y]) : p = k[y][i] /\ r = k[y][j]
  BY <1>2
<1>4. PICK j \in i..Len(k[y]) : p = k[y][i] /\ r = k[y][j]
  BY <1>3
<1>5. Moved(m, reparent(m, q, p, r), AtEnd(Cut(k, p, r), q, From(k, p, r)), x)
  BY ONLY <1>1, <1>4, y \in Owner, i \in 1..Len(k[y]), q \in Alive(m), ReparentYields
<1> QED
  BY <1>5 DEF Reparented

-----------------------------------------------------------------------------
(* Every call of the list leaves the lists in order. *)
LEMMA NewNodeOrderly ==
  ASSUME NEW k, Stored(mem, k), NEW n \in Fresh(mem), NEW x \in Data, NewNode(n, x)
  PROVE  Orderly(mem')
<1>1. n \in Node \ Alive(mem) /\ x \in Data \cup {Blank}
  BY DEF Fresh
<1>2. /\ \A t \in Tree : Orderly(insert(mem, feet(t), n, x))
      /\ \A p \in Alive(mem) :
           /\ Orderly(append_child(mem, p, n, x)) /\ Orderly(prepend_child(mem, p, n, x))
           /\ Orderly(insert(mem, p, n, x)) /\ Orderly(insert_after(mem, p, n, x))
  BY <1>1, InsertionsOrderly
<1>3. CASE \E t \in Tree : SetHead(t, n, x) \/ InsertAtEndMoved(t, n, x)
  BY <1>2, <1>3 DEF SetHead, InsertAtEndMoved, Call, set_head, insert_at_end_moved
<1>4. ASSUME NEW p \in Alive(mem),
             \/ AppendChild(p, n, x) \/ PrependChild(p, n, x) \/ InsertAtEnd(p, n, x)
             \/ Insert(p, n, x) \/ InsertAfter(p, n, x)
      PROVE  Orderly(mem')
  BY <1>2, <1>4
     DEF AppendChild, PrependChild, InsertAtEnd, Insert, InsertAfter, Call, insert_at_end
<1>5. ASSUME NEW p \in Alive(mem), NEW q \in RangeEnds(p), Wrap(p, q, n, x)
      PROVE  Orderly(mem')
  <2>1. q \in Chain(mem, p, Null) /\ mem' = wrap(mem, p, q, n, x)
    BY <1>5 DEF RangeEnds, Wrap, Call
  <2>2. Wrapped(mem, k, p, q, n, x)
    BY <2>1, <1>1, RangeWraps
  <2> QED
    BY <2>1, <2>2, YieldsOrderly DEF Wrapped
<1> QED
  BY <1>3, <1>4, <1>5 DEF NewNode

LEMMA RemovalOrderly ==
  ASSUME NEW k, Stored(mem, k), Removal
  PROVE  Orderly(mem')
<1>1. Arranged(mem, {}, k)
  BY DEF Stored
<1>2. ASSUME NEW t \in Tree, Clear(t) PROVE Orderly(mem')
  <2>1. Yields(mem, clear(mem, t), Drop(k, Under(k, head(t))), Blank)
    BY <1>1, ClearYields
  <2> QED
    BY <2>1, <1>2, YieldsOrderly DEF Clear, Call
<1>3. ASSUME NEW p \in Alive(mem), Erase(p) PROVE Orderly(mem')
  <2>1. Lessened(mem, erase(mem, p), Under(k, p),
                 Drop(Cut(k, p, p), Under(k, p)), Blank)
    BY <1>1, EraseYields
  <2> QED
    BY <2>1, <1>3, YieldsOrderly DEF Erase, Call, Lessened
<1>4. ASSUME NEW p \in Alive(mem), EraseChildren(p) PROVE Orderly(mem')
  <2>1. Lessened(mem, erase_children(mem, p), Below(mem, p), Drop(k, Under(k, p)), Blank)
    BY <1>1, EraseChildrenYields
  <2> QED
    BY <2>1, <1>4, YieldsOrderly DEF EraseChildren, Call, Lessened
<1> QED
  BY <1>2, <1>3, <1>4 DEF Removal

LEMMA UnderIsSubtree ==
  ASSUME NEW m, NEW k, Arranged(m, {}, k), NEW n \in Alive(m)
  PROVE  Under(k, n) = Subtree(m, n)
<1>1. n \in Node /\ n \in Owner
  BY ArrangedFacts DEF Owner
<1>2. Below(m, n) = Reach(m, firstOf(m, n))
  BY <1>1 DEF Below, firstOf
<1>3. Beneath(m, k, n, Below(m, n))
  BY <1>1, <1>2, UnderFacts
<1> QED
  BY <1>3 DEF Beneath, Subtree

(* The children of a node, from the first one to the last. *)
LEMMA ChildrenStand ==
  ASSUME NEW m, NEW k, Arranged(m, {}, k), NEW p \in Alive(m), m[p].first_child # Null
  PROVE  /\ k[p] # <<>> /\ p \in Owner /\ 1 \in 1..Len(k[p]) /\ Len(k[p]) \in 1..Len(k[p])
         /\ m[p].first_child = k[p][1] /\ m[p].last_child = k[p][Len(k[p])]
<1>1. p \in Node /\ Len(k[p]) \in Nat
  BY ArrangedFacts DEF Owner
<1>2. /\ p \in Owner /\ m[p].first_child = At(p, k[p], 1)
      /\ m[p].last_child = At(p, k[p], Len(k[p]))
      /\ Null = At(p, k[p], Len(k[p]) + 1)
  BY <1>1, ChildLinks
<1>3. Len(k[p]) # 0
  BY <1>2
<1>4. /\ 1 \in 1..Len(k[p]) /\ Len(k[p]) \in 1..Len(k[p])
      /\ 1 # 0 /\ 1 # Len(k[p]) + 1 /\ Len(k[p]) # Len(k[p]) + 1
  BY ONLY <1>1, <1>3
<1>5. k[p] # <<>>
  BY <1>3
<1> QED
  BY <1>2, <1>3, <1>4, <1>5 DEF At

LEMMA MovedOrderly ==
  ASSUME NEW m, NEW r, NEW h, NEW x, Moved(m, r, h, x)
  PROVE  Orderly(r)
  BY YieldsOrderly DEF Moved

LEMMA RearrangeOrderly ==
  ASSUME NEW k, Stored(mem, k), Rearrange
  PROVE  Orderly(mem')
<1>0. /\ Arranged(mem, {}, k) /\ Sound(mem) /\ mem \in Memory /\ Alive(mem) \subseteq Node
      /\ Orderly(mem)
  BY StoredFacts DEF Orderly
<1>1. PICK p \in Alive(mem) :
        \/ Flatten(p) \/ SwapWithNext(p) \/ MoveAfter(p, p) \/ MoveBefore(p, p)
        \/ \E x \in Data : ReplaceData(p, x)
        \/ \E r \in RangeEnds(p) : \E q \in OutsideOf(p, r) : Reparent(q, p, r)
        \/ \E q \in OutsideOf(p, p) :
             \/ MoveAfter(q, p) \/ MoveBefore(q, p) \/ ReparentAll(q, p)
             \/ p \notin Subtree(mem, q) /\ (MoveOntop(q, p) \/ Swap(q, p))
  BY DEF Rearrange
<1>2. CASE Flatten(p)
  <2>1. mem[p].first_child # Null /\ mem' = flatten(mem, p)
    BY <1>2 DEF Flatten, Call
  <2>2. k[p] # <<>>
    BY <1>0, <2>1, ChildrenStand
  <2>3. Moved(mem, flatten(mem, p), After([k EXCEPT ![p] = <<>>], p, k[p]), Blank)
    BY <2>2, FlattenYields
  <2> QED
    BY <2>1, <2>3, MovedOrderly
<1>3. CASE SwapWithNext(p)
  <2>1. mem[p].next_sibling \in Node /\ mem' = swap_with_next(mem, p)
    BY <1>3 DEF SwapWithNext, Call
  <2>2. Moved(mem, swap_with_next(mem, p), Exchanged(k, p, mem[p].next_sibling), Blank)
    BY <1>0, <2>1, SwapNextYields
  <2> QED
    BY <2>1, <2>2, MovedOrderly
<1>4. ASSUME NEW q \in Alive(mem), MoveAfter(q, p) \/ MoveBefore(q, p)
      PROVE  Orderly(mem')
  <2>1. mem' = move_after(mem, q, p) \/ mem' = move_before(mem, q, p)
    BY <1>4 DEF MoveAfter, MoveBefore, Call
  <2>2. CASE q = p
    <3>1. mem' = mem
      BY <2>1, <2>2 DEF move_after, move_before
    <3> QED
      BY <3>1, <1>0
  <2>3. CASE q # p
    <3>1. /\ Moved(mem, move_after(mem, q, p), After(Cut(k, p, p), q, <<p>>), Blank)
          /\ Moved(mem, move_before(mem, q, p), Before(Cut(k, p, p), q, <<p>>), Blank)
      BY <1>0, <2>3, MoveNext
    <3> QED
      BY <2>1, <3>1, MovedOrderly
  <2> QED
    BY <2>2, <2>3
<1>5. ASSUME NEW x \in Data, ReplaceData(p, x)
      PROVE  Orderly(mem')
  <2>1. mem' = [mem EXCEPT ![p].data = x] /\ p \in Ptr
    BY <1>0, <1>5, PtrFacts DEF ReplaceData, Call
  <2>2. /\ mem' \in Memory /\ mem'[p].data = x
        /\ \A y \in Ptr : /\ mem'[y].parent = mem[y].parent
                          /\ mem'[y].first_child = mem[y].first_child
                          /\ mem'[y].last_child = mem[y].last_child
                          /\ mem'[y].next_sibling = mem[y].next_sibling
                          /\ mem'[y].prev_sibling = mem[y].prev_sibling
        /\ \A y \in Ptr \ {p} : mem'[y].data = mem[y].data
    BY <1>0, <2>1 DEF Memory, TreeNode
  <2>3. Alive(mem') = Alive(mem)
    BY <1>0, <2>2, PtrFacts DEF Alive
  <2>4. SameLinks(mem, mem')
    BY <2>2, <2>3 DEF SameLinks
  <2>5. \A r : r \in Memory /\ SameLinks(mem, r) /\ (\A y \in Ptr \ {p} : r[y].data = mem[y].data)
          => Arranged(r, {}, k)
    BY <1>0, DataYields
  <2>6. Arranged(mem', {}, k)
    BY <2>2, <2>4, <2>5
  <2> QED
    BY <2>6 DEF Orderly
<1>6. ASSUME NEW r \in RangeEnds(p), NEW q \in OutsideOf(p, r), Reparent(q, p, r)
      PROVE  Orderly(mem')
  <2>1. r \in Chain(mem, p, Null) /\ q \in Alive(mem) /\ mem' = reparent(mem, q, p, r)
    BY <1>6 DEF RangeEnds, OutsideOf, Reparent, Call
  <2>2. Reparented(mem, k, q, p, r, Blank)
    BY <2>1, RangeReparents
  <2> QED
    BY <2>1, <2>2, MovedOrderly DEF Reparented
<1>7. ASSUME NEW q \in OutsideOf(p, p)
      PROVE  q \in Alive(mem) /\ q # p
  <2>1. p \in Chain(mem, p, p) /\ p \in Subtree(mem, p)
    BY <1>0 DEF Chain, InAll, Subtree
  <2> QED
    BY <2>1 DEF OutsideOf
<1>8. ASSUME NEW q \in OutsideOf(p, p), ReparentAll(q, p)
      PROVE  Orderly(mem')
  <2>1. /\ mem[p].first_child # Null
        /\ mem' = reparent(mem, q, mem[p].first_child, mem[p].last_child)
    BY <1>8 DEF ReparentAll, Call
  <2> DEFINE j == Len(k[p])
             f == mem[p].first_child
             l == mem[p].last_child
  <2>2. /\ p \in Owner /\ 1 \in 1..Len(k[p]) /\ j \in 1..Len(k[p]) /\ q \in Alive(mem)
        /\ f = k[p][1] /\ l = k[p][j]
    BY <1>0, <1>7, <2>1, ChildrenStand
  <2> HIDE DEF j, f, l
  <2>3. Moved(mem, reparent(mem, q, f, l), AtEnd(Cut(k, f, l), q, From(k, f, l)), Blank)
    BY ONLY <1>0, <2>2, ReparentYields
  <2> QED
    BY <2>1, <2>3, MovedOrderly DEF f, l
<1>9. ASSUME NEW q \in OutsideOf(p, p), p \notin Subtree(mem, q), MoveOntop(q, p)
      PROVE  Orderly(mem')
  <2>1. mem[q].next_sibling # p /\ mem[p].next_sibling # q /\ mem' = move_ontop(mem, q, p)
    BY <1>9 DEF MoveOntop, Adjacent, Call
  <2> DEFINE D == Under(k, q)
  <2>2. q \in Alive(mem) /\ p \notin D
    BY <1>0, <1>7, <1>9, UnderIsSubtree
  <2>3. D = Under(k, q)
    OBVIOUS
  <2> HIDE DEF D
  <2>4. Lessened(mem, move_ontop(mem, q, p), D,
                 Drop(Cut(Before(Cut(k, p, p), q, <<p>>), q, q), D), Blank)
    BY ONLY <2>1, <2>2, <2>3, Stored(mem, k), p \in Alive(mem), OntopYields
  <2> QED
    BY <2>1, <2>4, YieldsOrderly DEF Lessened
<1>10. ASSUME NEW q \in OutsideOf(p, p), Swap(q, p)
       PROVE  Orderly(mem')
  <2>1. mem' = swap(mem, q, p) /\ Swapped(mem, k, q, p, Blank)
    BY <1>0, <1>7, <1>10, SwapYields DEF Swap, Call
  <2> QED
    BY <2>1, MovedOrderly DEF Swapped
<1> QED
  BY <1>1, <1>2, <1>3, <1>4, <1>5, <1>6, <1>7, <1>8, <1>9, <1>10

-----------------------------------------------------------------------------
(* The steps of a copy. *)
LEMMA BeginOrderly ==
  ASSUME NEW m, Sound(m), Orderly(m), NEW pos \in Alive(m), NEW src \in Alive(m),
         NEW n \in Node, NEW all, Begin(m, pos, src, n, all)
  PROVE  Orderly(mem')
<1>1. PICK k : Arranged(m, {}, k)
  BY DEF Orderly
<1>2. /\ n \in Fresh(erase_children(m, pos))
      /\ mem' = replace_top(m, pos, n, m[src].data)
  BY DEF Begin
<1>3. Stored(m, k) /\ m[src].data \in Data \cup {Blank}
  BY <1>1, DataFacts DEF Stored
<1>4. \A r : r = replace_top(m, pos, n, m[src].data) => \E h : Arranged(r, {}, h)
  BY <1>2, <1>3, ReplaceTopArranges
<1> QED
  BY <1>2, <1>4 DEF Orderly

LEMMA StartCopyOrderly ==
  ASSUME Sound(mem), Orderly(mem), StartCopy
  PROVE  Orderly(mem')
<1>1. PICK k : Stored(mem, k)
  BY DEF Stored, Orderly
<1>2. ASSUME NEW t \in Tree, NEW u \in Tree, CopyTree(t, u) PROVE Orderly(mem')
  <2>1. mem' = clear(mem, t) /\ Arranged(mem, {}, k)
    BY <1>1, <1>2 DEF CopyTree, Stored
  <2>2. Yields(mem, clear(mem, t), Drop(k, Under(k, head(t))), Blank)
    BY <2>1, ClearYields
  <2> QED
    BY <2>1, <2>2, YieldsOrderly
<1>3. ASSUME NEW src \in Alive(mem), NEW n \in Node, NEW p \in Alive(mem),
             Replace(p, src, n)
      PROVE  Orderly(mem')
  BY <1>3, BeginOrderly DEF Replace
<1>4. ASSUME NEW src \in Alive(mem), NEW n \in Node, NEW d \in Fresh(mem) \ {n},
             NEW m, NEW p, NEW b, NEW a, Placed(mem, d, p, b, a, m), Orderly(m),
             Begin(m, d, src, n, FALSE)
      PROVE  Orderly(mem')
  <2>1. Sound(m) /\ d \in Alive(m) /\ src \in Alive(m)
    BY <1>4 DEF Placed
  <2> QED
    BY <2>1, <1>4, BeginOrderly
<1>5. ASSUME NEW src \in Alive(mem), NEW n \in Node, NEW d \in Fresh(mem) \ {n},
             \/ \E t \in Tree : InsertSubtreeAtEnd(t, src, d, n)
             \/ \E p \in Alive(mem) :
                  \/ AppendSubtree(p, src, d, n) \/ PrependSubtree(p, src, d, n)
                  \/ InsertSubtree(p, src, d, n)
      PROVE  Orderly(mem')
  <2>1. d \in Node \ Alive(mem) /\ Blank \in Data \cup {Blank}
    BY DEF Fresh
  <2>a. /\ \A t \in Tree : Orderly(insert(mem, feet(t), d, Blank))
        /\ \A p \in Alive(mem) :
             /\ Orderly(append_child(mem, p, d, Blank)) /\ Orderly(prepend_child(mem, p, d, Blank))
             /\ Orderly(insert(mem, p, d, Blank)) /\ Orderly(insert_after(mem, p, d, Blank))
    BY <1>1, <2>1, InsertionsOrderly
  <2>2. ASSUME NEW t \in Tree, InsertSubtreeAtEnd(t, src, d, n) PROVE Orderly(mem')
    <3>1. Placed(mem, d, mem[feet(t)].parent, mem[feet(t)].prev_sibling, feet(t),
                 insert(mem, feet(t), d, Blank))
      BY <2>1, Insertions
    <3>2. Orderly(insert(mem, feet(t), d, Blank))
      BY <2>a
    <3> QED
      BY <3>1, <3>2, <1>4, <2>2 DEF InsertSubtreeAtEnd, insert_at_end_moved
  <2>3. ASSUME NEW p \in Alive(mem),
               \/ AppendSubtree(p, src, d, n) \/ PrependSubtree(p, src, d, n)
               \/ InsertSubtree(p, src, d, n)
        PROVE  Orderly(mem')
    <3>1. /\ Placed(mem, d, p, mem[p].last_child, Null, append_child(mem, p, d, Blank))
          /\ Placed(mem, d, p, Null, mem[p].first_child, prepend_child(mem, p, d, Blank))
          /\ Placed(mem, d, mem[p].parent, mem[p].prev_sibling, p, insert(mem, p, d, Blank))
      BY <2>1, Insertions
    <3>2. /\ Orderly(append_child(mem, p, d, Blank)) /\ Orderly(prepend_child(mem, p, d, Blank))
          /\ Orderly(insert(mem, p, d, Blank))
      BY <2>a
    <3> QED
      BY <3>1, <3>2, <1>4, <2>3 DEF AppendSubtree, PrependSubtree, InsertSubtree
  <2> QED
    BY <1>5, <2>2, <2>3
<1> QED
  BY <1>2, <1>3, <1>5 DEF StartCopy

LEMMA CopyStepOrderly ==
  ASSUME TreeInv, Orderly(mem), CopyStep
  PROVE  Orderly(mem')
<1>1. PICK k : Stored(mem, k)
  BY DEF Stored, Orderly, TreeInv
<1>2. Sound(mem)
  BY DEF TreeInv
<1>3. CASE CopyUp \/ CopyEnds \/ HeadsCopied \/ CopyReturns
  <2>1. mem' = mem
    BY <1>3 DEF CopyUp, CopyEnds, HeadsCopied, CopyReturns
  <2> QED
    BY <2>1
<1>4. ASSUME NEW n \in Fresh(mem), NEW p \in Alive(mem), NEW f \in Alive(mem),
             mem' = append_child(mem, p, n, mem[f].data)
      PROVE  Orderly(mem')
  <2>1. n \in Node \ Alive(mem) /\ mem[f].data \in Data \cup {Blank}
    BY <1>2, DataFacts DEF Fresh
  <2>2. Orderly(append_child(mem, p, n, mem[f].data))
    BY <2>1, <1>1, InsertionsOrderly
  <2> QED
    BY <2>2, <1>4
<1>5. ASSUME NEW n \in Fresh(mem), CopyDown(n)
      PROVE  Orderly(mem')
  <2> DEFINE f == mem[copying.from].first_child
  <2>1. copying.to \in Alive(mem) /\ mem' = append_child(mem, copying.to, n, mem[f].data)
        /\ f # Null
    BY Zenon, <1>5, CopyDownKeeps DEF CopyDown
  <2>2. f \in Alive(mem)
    <3>1. CopyRuns(mem, copying)
      BY <1>5 DEF TreeInv, CopySound, CopyDown, InPhase, Copying
    <3>2. Parental(mem, {}, copying.from) /\ InLists(mem, {}) = Alive(mem)
      BY <3>1, <1>2, SoundFacts DEF CopyRuns
    <3> QED
      BY <3>2, <2>1 DEF Parental
  <2> QED
    BY ONLY <2>1, <2>2, <1>4
<1>6. ASSUME NEW n \in Fresh(mem), CopyRight(n)
      PROVE  Orderly(mem')
  <2> DEFINE f == mem[copying.from].next_sibling
             p == mem[copying.to].parent
  <2>1. /\ AtBottom /\ ~ NoneRight /\ f # copying.last /\ Copying
        /\ mem' = append_child(mem, p, n, mem[f].data)
    BY <1>6 DEF CopyRight, AtBottom, InPhase
  <2>2. f \in Alive(mem) /\ p \in Alive(mem)
    BY <2>1, CopyRightFacts
  <2> QED
    BY <2>1, <2>2, <1>4
<1>7. ASSUME NEW n \in Fresh(mem), CopyHead(n)
      PROVE  Orderly(mem')
  <2>1. /\ copying # Null /\ copying.phase = "heads" /\ copying.from # copying.last
        /\ mem' = insert(mem, copying.to, n, mem[copying.from].data)
    BY <1>7 DEF CopyHead, InPhase, Copying
  <2>2. HeadsRun(mem, copying)
    BY <2>1 DEF TreeInv, CopySound
  <2>3. PICK t \in Tree, u \in Tree :
          /\ copying.last = feet(u) /\ copying.to \in Alive(mem) \cup Feets
          /\ \E T : TopLevel(mem, {}, u, T) /\ copying.from \in T \cup {feet(u)}
    BY <2>2 DEF HeadsRun
  <2>4. copying.from \in Alive(mem)
    BY <2>1, <2>3 DEF TopLevel, InLists
  <2>5. n \in Node \ Alive(mem) /\ mem[copying.from].data \in Data \cup {Blank}
    BY <2>4, <1>2, DataFacts DEF Fresh
  <2>6. copying.to \in Alive(mem) \/ \E v \in Tree : copying.to = feet(v)
    BY <2>3 DEF Feets
  <2>7. Orderly(insert(mem, copying.to, n, mem[copying.from].data))
    BY <2>5, <2>6, <1>1, InsertionsOrderly
  <2> QED
    BY <2>1, <2>7
<1>8. ASSUME NEW n \in Node, CopyNext(n)
      PROVE  Orderly(mem')
  <2>1. /\ copying # Null /\ copying.phase = "next" /\ copying.from \in Node
        /\ copying.to \in Alive(mem)
        /\ Begin(mem, copying.to, copying.from, n, TRUE)
    BY <1>8 DEF CopyNext, InPhase, Copying
  <2>2. copying.from \in Alive(mem)
    BY <2>1, PtrFacts, DummyFacts DEF TreeInv, CopySound
  <2> QED
    BY <2>1, <2>2, <1>2, BeginOrderly
<1> QED
  BY <1>3, <1>5, <1>6, <1>7, <1>8 DEF CopyStep

LEMMA InitOrderly ==
  ASSUME Init
  PROVE  Orderly(mem)
<1>1. TreeInv
  BY InitSound
<1>2. mem = head_initialise
  BY DEF Init
<1>3. mem \in Memory /\ \A n \in Node : mem[n] = Unused
  <2>1. mem \in Memory
    BY <1>1, SoundFacts DEF TreeInv
  <2> QED
    BY <2>1, <1>2, PtrFacts DEF head_initialise
<1>4. ASSUME NEW t \in Tree
      PROVE  mem[head(t)].next_sibling = feet(t) /\ mem[feet(t)].prev_sibling = head(t)
  <2>1. /\ mem[head(t)] = tree_node(Null, Null, feet(t), Blank)
        /\ mem[feet(t)] = tree_node(Null, head(t), Null, Blank)
    <3>1. /\ head(t) \in Ptr /\ feet(t) \in Ptr /\ head(t) \notin Node /\ feet(t) \notin Node
          /\ head(t)[1] = "head" /\ head(t)[2] = t /\ feet(t)[1] = "feet" /\ feet(t)[2] = t
      BY PtrFacts DEF head, feet
    <3> QED
      BY <3>1, <1>2 DEF head_initialise
  <2>2. \A p, b, a, x : /\ tree_node(p, b, a, x).prev_sibling = b
                        /\ tree_node(p, b, a, x).next_sibling = a
    BY DEF tree_node
  <2> QED
    BY <2>1, <2>2
<1>5. \A n \in Node : /\ mem[n].first_child = Null /\ mem[n].last_child = Null
                      /\ n \notin Alive(mem)
  BY <1>3 DEF Unused, tree_node, Alive
<1> DEFINE k == [p \in Owner |-> <<>>]
<1>6. \A p \in Owner : k[p] = <<>> /\ Len(k[p]) = 0
  OBVIOUS
<1>7. k \in [Owner -> Seq(Node)]
  OBVIOUS
<1> HIDE DEF k
<1>8. ASSUME NEW p \in Owner PROVE ListOf(mem, p, k[p])
  <2> DEFINE w == k[p]
  <2>1. Len(w) = 0
    BY <1>6
  <2>2. firstOf(mem, p) = endOf(p) /\ lastOf(mem, p) = beginOf(p)
    <3>1. CASE p \in Node
      BY <3>1, <1>5 DEF firstOf, lastOf, beginOf, endOf
    <3>2. CASE p \notin Node
      <4>1. p = head(p[2]) /\ p[2] \in Tree
        BY <3>2, OwnerFacts
      <4>2. mem[head(p[2])].next_sibling = feet(p[2]) /\ mem[feet(p[2])].prev_sibling = head(p[2])
        BY <4>1, <1>4
      <4> QED
        BY <4>1, <4>2, <3>2 DEF firstOf, lastOf, beginOf, endOf
    <3> QED
      BY <3>1, <3>2
  <2> HIDE DEF w
  <2>3. /\ \A i \in 0..Len(w) : i = 0 /\ i + 1 = Len(w) + 1 /\ i + 1 # 0
        /\ \A i \in 1..(Len(w) + 1) : i = Len(w) + 1 /\ i - 1 = 0
        /\ \A i \in 1..Len(w) : FALSE
    BY ONLY <2>1
  <2>4. ListOf(mem, p, w)
    BY <2>2, <2>3 DEF ListOf, onward, backward, At
  <2> QED
    BY <2>4 DEF w
<1>9. Once(k) /\ \A n \in Node : ~ Listed(k, n)
  BY <1>6 DEF Once, Listed
<1>10. Arranged(mem, {}, k)
  BY <1>3, <1>5, <1>7, <1>8, <1>9 DEF Arranged
<1> QED
  BY <1>10 DEF Orderly

-----------------------------------------------------------------------------
LEMMA NextOrderly ==
  ASSUME TreeInv, Orderly(mem), [Next]_vars
  PROVE  Orderly(mem')
<1>1. PICK k : Stored(mem, k)
  BY DEF Stored, Orderly, TreeInv
<1>2. CASE Removal
  BY <1>1, <1>2, RemovalOrderly
<1>3. CASE Rearrange
  BY <1>1, <1>3, RearrangeOrderly
<1>4. ASSUME NEW n \in Fresh(mem), NEW x \in Data, NewNode(n, x) PROVE Orderly(mem')
  BY <1>1, <1>4, NewNodeOrderly
<1>5. CASE StartCopy
  BY <1>5, StartCopyOrderly DEF TreeInv
<1>6. CASE CopyStep
  BY <1>6, CopyStepOrderly
<1>7. CASE UNCHANGED vars
  BY <1>7 DEF vars
<1> QED
  BY <1>2, <1>3, <1>4, <1>5, <1>6, <1>7 DEF Next

-----------------------------------------------------------------------------
(* What the three groups of calls promise, of a memory that is in order.    *)
LEMMA NewNodesGo ==
  ASSUME NEW k, Stored(mem, k), NEW n \in Fresh(mem), NEW x \in Data
  PROVE  NewNodesGoWhereTheySay(k, n, x)
<1>1. /\ n \in Node \ Alive(mem) /\ x \in Data \cup {Blank} /\ mem \in Memory
  BY StoredFacts DEF Fresh
<1>2. ASSUME NEW t \in Tree
      PROVE  /\ Gives(set_head(mem, t, n, x), AtEnd(k, head(t), <<n>>), x)
             /\ Gives(insert_at_end_moved(mem, t, n, x), AtEnd(k, head(t), <<n>>), x)
  <2>1. Yields(mem, insert(mem, feet(t), n, x), AtEnd(k, head(t), <<n>>), x)
    BY <1>1, TopYields
  <2>2. Gives(insert(mem, feet(t), n, x), AtEnd(k, head(t), <<n>>), x)
    BY <1>1, <2>1, YieldsGives
  <2> QED
    BY <2>2 DEF set_head, insert_at_end_moved
<1>3. ASSUME NEW p \in Alive(mem)
      PROVE  /\ Gives(insert_at_end(mem, p, n, x), AtEnd(k, p, <<n>>), x)
             /\ Gives(append_child(mem, p, n, x), AtEnd(k, p, <<n>>), x)
             /\ Gives(prepend_child(mem, p, n, x), Put(k, p, 0, <<n>>), x)
             /\ Gives(insert(mem, p, n, x), Before(k, p, <<n>>), x)
             /\ Gives(insert_after(mem, p, n, x), After(k, p, <<n>>), x)
  <2>1. /\ Yields(mem, append_child(mem, p, n, x), AtEnd(k, p, <<n>>), x)
        /\ Yields(mem, prepend_child(mem, p, n, x), Put(k, p, 0, <<n>>), x)
    BY <1>1, ChildYields
  <2>2. /\ Yields(mem, insert(mem, p, n, x), Before(k, p, <<n>>), x)
        /\ Yields(mem, insert_after(mem, p, n, x), After(k, p, <<n>>), x)
    BY <1>1, InsertYields
  <2>3. Gives(append_child(mem, p, n, x), AtEnd(k, p, <<n>>), x)
    BY <1>1, <2>1, YieldsGives
  <2>4. Gives(prepend_child(mem, p, n, x), Put(k, p, 0, <<n>>), x)
    BY <1>1, <2>1, YieldsGives
  <2>5. Gives(insert(mem, p, n, x), Before(k, p, <<n>>), x)
    BY <1>1, <2>2, YieldsGives
  <2>6. Gives(insert_after(mem, p, n, x), After(k, p, <<n>>), x)
    BY <1>1, <2>2, YieldsGives
  <2> QED
    BY <2>3, <2>4, <2>5, <2>6 DEF insert_at_end
<1>4. ASSUME NEW p \in Alive(mem), NEW q \in RangeEnds(p)
      PROVE  LET s == From(k, p, q)
             IN  Gives(wrap(mem, p, q, n, x),
                       [Cut(Before(k, p, <<n>>), p, q) EXCEPT ![n] = s], x)
  <2>1. q \in Chain(mem, p, Null)
    BY DEF RangeEnds
  <2>2. Wrapped(mem, k, p, q, n, x)
    BY <2>1, <1>1, RangeWraps
  <2> DEFINE h == [Cut(Before(k, p, <<n>>), p, q) EXCEPT ![n] = From(k, p, q)]
  <2>3. Yields(mem, wrap(mem, p, q, n, x), h, x)
    BY <2>2 DEF Wrapped
  <2> HIDE DEF h
  <2>4. Gives(wrap(mem, p, q, n, x), h, x)
    BY <1>1, <2>3, YieldsGives
  <2> QED
    BY <2>4 DEF h
<1> QED
  BY <1>2, <1>3, <1>4 DEF NewNodesGoWhereTheySay

LEMMA ErasedNodesGo ==
  ASSUME NEW k, Stored(mem, k)
  PROVE  OnlyErasedNodesGo(k)
<1>1. Arranged(mem, {}, k) /\ mem \in Memory
  BY StoredFacts
<1>2. ASSUME NEW t \in Tree
      PROVE  Gives(clear(mem, t), Drop(k, Under(k, head(t))), Blank)
  <2>1. Yields(mem, clear(mem, t), Drop(k, Under(k, head(t))), Blank)
    BY <1>1, ClearYields
  <2> QED
    BY <1>1, <2>1, YieldsGives
<1>3. ASSUME NEW p \in Alive(mem)
      PROVE  /\ Gives(erase(mem, p), Drop(Cut(k, p, p), Under(k, p)), Blank)
             /\ Gives(erase_children(mem, p), Drop(k, Under(k, p)), Blank)
  <2>1. Lessened(mem, erase(mem, p), Under(k, p),
                 Drop(Cut(k, p, p), Under(k, p)), Blank)
    BY <1>1, EraseYields
  <2>2. Yields(mem, erase(mem, p), Drop(Cut(k, p, p), Under(k, p)), Blank)
    BY <2>1 DEF Lessened
  <2>3. Gives(erase(mem, p), Drop(Cut(k, p, p), Under(k, p)), Blank)
    BY <1>1, <2>2, YieldsGives
  <2>4. Lessened(mem, erase_children(mem, p), Below(mem, p), Drop(k, Under(k, p)), Blank)
    BY <1>1, EraseChildrenYields
  <2>5. Yields(mem, erase_children(mem, p), Drop(k, Under(k, p)), Blank)
    BY <2>4 DEF Lessened
  <2>6. Gives(erase_children(mem, p), Drop(k, Under(k, p)), Blank)
    BY <1>1, <2>5, YieldsGives
  <2> QED
    BY <2>3, <2>6
<1> QED
  BY <1>2, <1>3 DEF OnlyErasedNodesGo

LEMMA MovedGives ==
  ASSUME NEW r, NEW h, NEW x, mem \in Memory, Moved(mem, r, h, x)
  PROVE  Gives(r, h, x)
  BY YieldsGives DEF Moved

LEMMA OthersStay ==
  ASSUME NEW k, Stored(mem, k)
  PROVE  OthersStayInPlace(k)
<1>1. Arranged(mem, {}, k) /\ mem \in Memory
  BY StoredFacts
<1>2. ASSUME NEW p \in Alive(mem), k[p] # <<>>
      PROVE  Gives(flatten(mem, p), After([k EXCEPT ![p] = <<>>], p, k[p]), Blank)
  <2>1. Moved(mem, flatten(mem, p), After([k EXCEPT ![p] = <<>>], p, k[p]), Blank)
    BY <1>2, FlattenYields
  <2> QED
    BY <1>1, <2>1, MovedGives
<1>3. ASSUME NEW p \in Alive(mem), NEW r \in RangeEnds(p), NEW q \in Alive(mem)
      PROVE  LET s == From(k, p, r)
             IN  Gives(reparent(mem, q, p, r), AtEnd(Cut(k, p, r), q, s), Blank)
  <2>1. r \in Chain(mem, p, Null)
    BY DEF RangeEnds
  <2>2. Reparented(mem, k, q, p, r, Blank)
    BY <2>1, RangeReparents
  <2>3. Moved(mem, reparent(mem, q, p, r), AtEnd(Cut(k, p, r), q, From(k, p, r)), Blank)
    BY <2>2 DEF Reparented
  <2>4. Gives(reparent(mem, q, p, r), AtEnd(Cut(k, p, r), q, From(k, p, r)), Blank)
    BY <1>1, <2>3, MovedGives
  <2> QED
    BY <2>4
<1>4. ASSUME NEW p \in Alive(mem), NEW q \in Alive(mem) \ Under(k, p)
      PROVE  /\ p # q
             /\ Gives(move_after(mem, q, p), After(Cut(k, p, p), q, <<p>>), Blank)
             /\ Gives(move_before(mem, q, p), Before(Cut(k, p, p), q, <<p>>), Blank)
  <2>1. p # q
    BY DEF Under
  <2>2. /\ Moved(mem, move_after(mem, q, p), After(Cut(k, p, p), q, <<p>>), Blank)
        /\ Moved(mem, move_before(mem, q, p), Before(Cut(k, p, p), q, <<p>>), Blank)
    BY <1>1, <2>1, MoveNext
  <2>3. Gives(move_after(mem, q, p), After(Cut(k, p, p), q, <<p>>), Blank)
    BY <1>1, <2>2, MovedGives
  <2>4. Gives(move_before(mem, q, p), Before(Cut(k, p, p), q, <<p>>), Blank)
    BY <1>1, <2>2, MovedGives
  <2> QED
    BY <2>1, <2>3, <2>4
<1>5. ASSUME NEW p \in Alive(mem), NEW q \in Alive(mem) \ Under(k, p), p \notin Under(k, q)
      PROVE  Gives(swap(mem, q, p), Exchanged(k, q, p), Blank)
  <2>1. Swapped(mem, k, q, p, Blank)
    BY <1>1, <1>4, SwapYields
  <2> QED
    BY <1>1, <2>1, MovedGives DEF Swapped
<1>6. ASSUME NEW p \in Alive(mem), NEW q \in Alive(mem) \ Under(k, p),
             p \notin Under(k, q), ~ Adjacent(q, p)
      PROVE  Gives(move_ontop(mem, q, p),
                   Drop(Cut(Before(Cut(k, p, p), q, <<p>>), q, q), Under(k, q)), Blank)
  <2>1. mem[q].next_sibling # p /\ mem[p].next_sibling # q
    BY <1>6 DEF Adjacent
  <2> DEFINE D == Under(k, q)
  <2>2. D = Under(k, q) /\ p \notin D
    BY <1>6
  <2> HIDE DEF D
  <2>3. Lessened(mem, move_ontop(mem, q, p), D,
                 Drop(Cut(Before(Cut(k, p, p), q, <<p>>), q, q), D), Blank)
    BY ONLY <2>1, <2>2, Stored(mem, k), q \in Alive(mem) \ Under(k, p),
            p \in Alive(mem), OntopYields
  <2>4. Yields(mem, move_ontop(mem, q, p),
               Drop(Cut(Before(Cut(k, p, p), q, <<p>>), q, q), D), Blank)
    BY <2>3 DEF Lessened
  <2>5. Gives(move_ontop(mem, q, p),
              Drop(Cut(Before(Cut(k, p, p), q, <<p>>), q, q), D), Blank)
    BY <1>1, <2>4, YieldsGives
  <2> QED
    BY <2>5 DEF D
<1> QED
  BY <1>2, <1>3, <1>4, <1>5, <1>6 DEF OthersStayInPlace

-----------------------------------------------------------------------------
(* Whatever sequence of calls was made, between two calls and in the middle *)
(* of a copy: the sibling and parent links of all nodes and the first and   *)
(* last links of their parents are those of one family of lists, in which   *)
(* every live node stands once.                                             *)
THEOREM ListsStayInOrder == Spec => [](TreeInv /\ Orderly(mem))
<1>1. Init => TreeInv /\ Orderly(mem)
  BY InitSound, InitOrderly
<1>2. TreeInv /\ Orderly(mem) /\ [Next]_vars => TreeInv' /\ Orderly(mem)'
  BY NextSound, NextOrderly
<1> QED
  BY <1>1, <1>2, PTL DEF Spec

LEMMA OrderlyCalls ==
  ASSUME TreeInv, Orderly(mem), CopyIsFaithful
  PROVE  CallsDoWhatTheySay
<1>1. PICK k : Arranged(mem, {}, k)
  BY DEF Orderly
<1>2. Stored(mem, k) /\ Kids(mem) = k
  BY <1>1, KidsOf DEF Stored, TreeInv
<1>3. /\ \A n \in Fresh(mem), x \in Data : NewNodesGoWhereTheySay(k, n, x)
      /\ OnlyErasedNodesGo(k) /\ OthersStayInPlace(k)
  BY <1>2, NewNodesGo, ErasedNodesGo, OthersStay
<1> QED
  BY <1>2, <1>3 DEF CallsDoWhatTheySay

-----------------------------------------------------------------------------
(* Where the nodes are: a set of live nodes that no tree comes to would be  *)
(* closed under parents, which NoCycle excludes.                            *)
LEMMA TreesHoldAll ==
  ASSUME NEW m, NEW k, Stored(m, k)
  PROVE  /\ \A t \in Tree : InTree(m, t) \subseteq Alive(m)
         /\ \A n \in Alive(m) : \E t \in Tree : n \in InTree(m, t)
<1>1. Arranged(m, {}, k) /\ Sound(m) /\ Alive(m) \subseteq Node
  BY StoredFacts
<1>2. ASSUME NEW t \in Tree
      PROVE  Beneath(m, k, head(t), InTree(m, t))
  <2>1. head(t) \in Owner /\ InTree(m, t) = Reach(m, firstOf(m, head(t)))
    BY PtrFacts DEF Owner, Heads, InTree, firstOf
  <2> QED
    BY <1>1, <2>1, UnderFacts
<1>3. \A t \in Tree : InTree(m, t) \subseteq Alive(m)
  BY <1>2 DEF Beneath
<1> DEFINE S == {n \in Alive(m) : \A t \in Tree : n \notin InTree(m, t)}
<1>4. ASSUME S # {} PROVE FALSE
  <2>1. NoCycle(m) /\ S \in SUBSET Alive(m)
    BY <1>1 DEF Sound, Loose
  <2>2. PICK x \in S : m[x].parent \notin S
    BY <2>1, <1>4 DEF NoCycle
  <2>3. x \in Alive(m) \ {}
    OBVIOUS
  <2>4. PICK p \in Owner : \E i \in 1..Len(k[p]) : x = k[p][i]
    BY <1>1, <2>3, Standing
  <2>5. PICK i \in 1..Len(k[p]) : x = k[p][i]
    BY <2>4
  <2>6. m[x].parent = parentOf(p) /\ p \in Alive(m) \cup Heads
    BY <1>1, <2>5, NodeLinks
  <2>7. \E t \in Tree : p \in InTree(m, t) \cup {head(t)}
    <3>1. CASE p \in Node
      <4>1. p \in Alive(m) /\ p \notin S
        BY <3>1, <2>2, <2>6, DummyFacts DEF parentOf
      <4> QED
        BY <4>1
    <3>2. CASE p \notin Node
      BY <3>2, OwnerFacts
    <3> QED
      BY <3>1, <3>2
  <2>8. PICK t \in Tree : p \in InTree(m, t) \cup {head(t)}
    BY <2>7
  <2>9. x \in InTree(m, t)
    BY <1>2, <2>5, <2>8 DEF Beneath
  <2> QED
    BY <2>9
<1> QED
  BY <1>3, <1>4

LEMMA OrderlyPlaces ==
  ASSUME TreeInv, Orderly(mem), LinksAgree
  PROVE  EveryNodeHasOnePlace
<1>1. PICK k : Arranged(mem, {}, k)
  BY DEF Orderly
<1>2. Stored(mem, k) /\ Kids(mem) = k
  BY <1>1, KidsOf DEF Stored, TreeInv
<1>3. /\ DOMAIN k = Owner /\ Once(k) /\ Alive(mem) \subseteq Node
      /\ \A p \in Owner : DOMAIN k[p] = 1..Len(k[p])
  BY <1>2, StoredFacts
<1>4. \A n \in Node : n \in Alive(mem) <=> \E t \in Tree : n \in InTree(mem, t)
  BY <1>2, TreesHoldAll
<1>5. \A n \in Node : n \in Alive(mem) <=> n \in InForest(k)
  <2>1. \A n \in Node : Listed(k, n) <=> n \in Alive(mem)
    BY <1>1 DEF Arranged
  <2> QED
    BY <2>1, <1>3 DEF InForest, ToSet, Listed
<1>6. \A p, q \in DOMAIN k : \A i \in DOMAIN k[p], j \in DOMAIN k[q] :
        k[p][i] = k[q][j] => p = q /\ i = j
  BY <1>3 DEF Once
<1> QED
  BY <1>2, <1>4, <1>5, <1>6 DEF EveryNodeHasOnePlace

(* No call of tree.hh leaves a node that was not freed outside every tree,  *)
(* or one node at two places of a tree or of two.                           *)
THEOREM EveryNodeStaysInOnePlace == Spec => []EveryNodeHasOnePlace
  BY ListsStayInOrder, LinksStayInAgreement, OrderlyPlaces, PTL

-----------------------------------------------------------------------------
(* What is copied so far.  K are the nodes of the copy, all below top, and  *)
(* D those of the source, all below start; of every node of the copy g says *)
(* what it is a copy of, and its children are the copies of the first       *)
(* children of that.                                                        *)
Copies(m, k, top, start, K, D, g) ==
  /\ K \in SUBSET Alive(m) /\ D \in SUBSET (Alive(m) \ K) /\ g \in [K -> D]
  /\ top \in K /\ start \in D /\ g[top] = start
  /\ \A x \in Alive(m) : /\ m[x].parent \in K => x \in K
                         /\ m[x].parent \in D => x \in D
  /\ \A x \in K \ {top} : m[x].parent \in K
  /\ \A x \in D \ {start} : m[x].parent \in D
  /\ \A x \in K : m[x].data = m[g[x]].data /\ Len(k[x]) <= Len(k[g[x]])
  /\ \A x \in K : \A i \in 1..Len(k[x]) : g[k[x][i]] = k[g[x]][i]

Ends(s, n) == Len(s) # 0 /\ n = s[Len(s)]

(* A is the path from top to the place p where the copy grows: along the    *)
(* last children, and every node off the path has all its children.         *)
GrowsAt(m, k, top, K, g, A, p) ==
  /\ A \in SUBSET K /\ p \in A
  /\ \A a \in A \ {top} : m[a].parent \in A \ {p} /\ Ends(k[m[a].parent], a)
  /\ \A S \in SUBSET A : p \in S /\ (\A a \in S \ {top} : m[a].parent \in S) => S = A
  /\ \A x \in K \ A : Len(k[x]) = Len(k[g[x]])

(* When all is copied below p, the copy goes on at the parent of p.         *)
LEMMA CopyRises ==
  ASSUME NEW m, NEW k, NEW top, NEW K, NEW g, NEW A, NEW p,
         GrowsAt(m, k, top, K, g, A, p), p # top, top \in A,
         Len(k[p]) = Len(k[g[p]]), NEW q, q = m[p].parent
  PROVE  GrowsAt(m, k, top, K, g, A \ {p}, q) /\ q \in K /\ Ends(k[q], p)
<1>1. /\ A \in SUBSET K /\ p \in A
      /\ \A a \in A \ {top} : m[a].parent \in A \ {p} /\ Ends(k[m[a].parent], a)
      /\ \A S \in SUBSET A : p \in S /\ (\A a \in S \ {top} : m[a].parent \in S) => S = A
      /\ \A x \in K \ A : Len(k[x]) = Len(k[g[x]])
  BY DEF GrowsAt
<1>2. q \in A \ {p} /\ Ends(k[q], p) /\ q \in K
  BY <1>1
<1> DEFINE B == A \ {p}
<1>3. B \in SUBSET K /\ q \in B
  BY ONLY <1>1, <1>2
<1>4. ASSUME NEW a \in B \ {top}
      PROVE  m[a].parent \in B \ {q} /\ Ends(k[m[a].parent], a)
  <2>1. m[a].parent \in A \ {p} /\ Ends(k[m[a].parent], a) /\ a # p
    BY ONLY <1>1
  <2>2. m[a].parent # q
    BY Zenon, <2>1, <1>2 DEF Ends
  <2> QED
    BY ONLY <2>1, <2>2
<1>5. ASSUME NEW S \in SUBSET B, q \in S, \A a \in S \ {top} : m[a].parent \in S
      PROVE  S = B
  <2>1. S \cup {p} \in SUBSET A
    BY <1>1
  <2>2. \A a \in (S \cup {p}) \ {top} : m[a].parent \in S \cup {p}
    BY <1>5
  <2>3. S \cup {p} = A
    BY <1>1, <2>1, <2>2
  <2> QED
    BY <2>3
<1>6. \A x \in K \ B : Len(k[x]) = Len(k[g[x]])
  BY <1>1
<1> HIDE DEF B
<1>7. GrowsAt(m, k, top, K, g, B, q)
  BY <1>3, <1>4, <1>5, <1>6 DEF GrowsAt
<1> QED
  BY <1>2, <1>7 DEF B

(* r is m with a new node n, a copy of f, below p.                          *)
CopiedBelow(m, r, n, p, f) ==
  /\ n \notin Alive(m) /\ Alive(r) = Alive(m) \cup {n}
  /\ r[n].parent = p /\ r[n].data = m[f].data
  /\ \A y \in Alive(m) : /\ r[y].parent = m[y].parent /\ m[y].parent # n
                         /\ r[y].data = m[y].data

(* The lists h are the lists k with n at the end of that of p.              *)
Grown(k, p, n, h) ==
  /\ Len(h[p]) = Len(k[p]) + 1 /\ h[p][Len(k[p]) + 1] = n
  /\ \A i \in 1..Len(k[p]) : h[p][i] = k[p][i]
  /\ Len(h[n]) = 0 /\ n # p
  /\ \A y \in Node \ {n} : Len(k[y]) \in Nat
  /\ \A y \in Node : y # p /\ y # n => h[y] = k[y]

Hangs(m, k) == \A y \in Node : \A i \in 1..Len(k[y]) :
  k[y][i] \in Alive(m) /\ m[k[y][i]].parent = y

Joined(g, K, n, f) == [x \in K \cup {n} |-> IF x = n THEN f ELSE g[x]]

(* A node more: the next child of what p is a copy of.                      *)
LEMMA CopyGrowsOn ==
  ASSUME NEW m, NEW k, NEW top, NEW start, NEW K, NEW D, NEW g, NEW A, NEW p,
         Copies(m, k, top, start, K, D, g), GrowsAt(m, k, top, K, g, A, p),
         Alive(m) \subseteq Node, NEW n \in Node, NEW f \in D,
         Len(k[p]) + 1 \in 1..Len(k[g[p]]), f = k[g[p]][Len(k[p]) + 1],
         NEW r, CopiedBelow(m, r, n, p, f), NEW h, Grown(k, p, n, h),
         Hangs(m, k),
         NEW e, e = Joined(g, K, n, f)
  PROVE  /\ Copies(r, h, top, start, K \cup {n}, D, e)
         /\ GrowsAt(r, h, top, K \cup {n}, e, A \cup {n}, n)
<1>0. Alive(m) \subseteq Node /\ n \in Node /\ f \in D
  OBVIOUS
<1>p. Len(k[p]) + 1 \in 1..Len(k[g[p]]) /\ f = k[g[p]][Len(k[p]) + 1]
  OBVIOUS
<1>1. /\ K \in SUBSET Alive(m) /\ D \in SUBSET (Alive(m) \ K) /\ g \in [K -> D]
      /\ top \in K /\ start \in D /\ g[top] = start
      /\ \A x \in Alive(m) : /\ m[x].parent \in K => x \in K
                             /\ m[x].parent \in D => x \in D
      /\ \A x \in K \ {top} : m[x].parent \in K
      /\ \A x \in D \ {start} : m[x].parent \in D
  BY DEF Copies
<1>2. /\ \A x \in K : m[x].data = m[g[x]].data /\ Len(k[x]) <= Len(k[g[x]])
      /\ \A x \in K : \A i \in 1..Len(k[x]) : g[k[x][i]] = k[g[x]][i]
  BY DEF Copies
<1>3. /\ A \in SUBSET K /\ p \in A
      /\ \A a \in A \ {top} : m[a].parent \in A \ {p} /\ Ends(k[m[a].parent], a)
      /\ \A S \in SUBSET A : p \in S /\ (\A a \in S \ {top} : m[a].parent \in S) => S = A
      /\ \A x \in K \ A : Len(k[x]) = Len(k[g[x]])
  BY DEF GrowsAt
<1>4. /\ n \notin Alive(m) /\ Alive(r) = Alive(m) \cup {n}
      /\ r[n].parent = p /\ r[n].data = m[f].data
      /\ \A y \in Alive(m) : /\ r[y].parent = m[y].parent /\ m[y].parent # n
                             /\ r[y].data = m[y].data
  BY DEF CopiedBelow
<1>5. /\ Len(h[p]) = Len(k[p]) + 1 /\ h[p][Len(k[p]) + 1] = n
      /\ \A i \in 1..Len(k[p]) : h[p][i] = k[p][i]
      /\ Len(h[n]) = 0 /\ n # p
      /\ \A y \in Node \ {n} : Len(k[y]) \in Nat
      /\ \A y \in Node : y # p /\ y # n => h[y] = k[y]
  BY DEF Grown
<1>h. \A y \in Node : \A i \in 1..Len(k[y]) :
        k[y][i] \in Alive(m) /\ m[k[y][i]].parent = y
  BY DEF Hangs
<1>6. /\ e \in [K \cup {n} -> D] /\ e[n] = f /\ \A x \in K : e[x] = g[x]
      /\ n \notin K /\ n \notin D /\ n \notin A /\ p \in K /\ p \notin D
  BY <1>1, <1>3, <1>4 DEF Joined
<1>7. /\ K \cup {n} \in SUBSET Alive(r) /\ D \in SUBSET (Alive(r) \ (K \cup {n}))
      /\ top \in K \cup {n} /\ e[top] = start
  BY <1>1, <1>4, <1>6
<1>8. \A x \in Alive(r) : /\ r[x].parent \in K \cup {n} => x \in K \cup {n}
                          /\ r[x].parent \in D => x \in D
  BY <1>1, <1>4, <1>6
<1>9. /\ \A x \in (K \cup {n}) \ {top} : r[x].parent \in K \cup {n}
      /\ \A x \in D \ {start} : r[x].parent \in D
  BY ONLY <1>1, <1>4, <1>6
<1>10. ASSUME NEW x \in K \cup {n}
       PROVE  /\ r[x].data = r[e[x]].data /\ Len(h[x]) <= Len(h[e[x]])
              /\ \A i \in 1..Len(h[x]) : e[h[x][i]] = h[e[x]][i]
  <2>1. e[x] \in D /\ e[x] \in Alive(m) /\ e[x] # p /\ e[x] # n /\ e[x] \in Node
    BY ONLY <1>0, <1>1, <1>6
  <2>2. h[e[x]] = k[e[x]] /\ r[e[x]].data = m[e[x]].data /\ Len(k[e[x]]) \in Nat
    BY ONLY <2>1, <1>4, <1>5
  <2>3. CASE x = n
    <3>1. \A i \in 1..Len(h[x]) : FALSE
      BY ONLY <2>3, <1>5
    <3>2. Len(h[x]) <= Len(h[e[x]])
      BY ONLY <2>3, <2>2, <1>5
    <3>3. r[x].data = r[e[x]].data
      <4>1. e[n] = f /\ r[n].data = m[f].data
        BY ONLY <1>4, <1>6
      <4> QED
        BY ONLY <2>2, <2>3, <4>1
    <3> QED
      BY Zenon, <3>1, <3>2, <3>3
  <2>4. CASE x = p
    <3>1. /\ e[x] = g[p] /\ r[x].data = r[e[x]].data
      <4>1. e[p] = g[p] /\ p \in Alive(m) /\ p \in K
        BY ONLY <1>1, <1>6
      <4>2. r[p].data = m[p].data
        BY ONLY <4>1, <1>4
      <4>3. m[p].data = m[g[p]].data
        BY ONLY <4>1, <1>2
      <4> QED
        BY ONLY <4>1, <4>2, <4>3, <2>2, <2>4
    <3>2. Len(h[x]) <= Len(h[e[x]])
      BY ONLY <1>p, <1>0, <2>2, <2>4, <3>1, <1>5
    <3>3. ASSUME NEW i \in 1..Len(h[x])
          PROVE  e[h[x][i]] = h[e[x]][i]
      <4>1. CASE i = Len(k[p]) + 1
        BY ONLY <1>p, <1>0, <4>1, <2>2, <2>4, <3>1, <1>5, <1>6
      <4>2. CASE i # Len(k[p]) + 1
        <5>1. i \in 1..Len(k[p])
          <6>1. p \in Node \ {n}
            BY ONLY <1>0, <1>1, <1>6
          <6>2. Len(k[p]) \in Nat /\ Len(h[x]) = Len(k[p]) + 1
            BY <6>1, <2>4, <1>5
          <6> QED
            BY ONLY <6>2, <4>2, i \in 1..Len(h[x])
        <5>2. k[p][i] \in Alive(m) /\ h[x][i] = k[p][i] /\ p \in Node
          BY ONLY <1>0, <5>1, <2>4, <1>h, <1>1, <1>5, <1>6
        <5>4. k[p][i] # n /\ g[k[p][i]] = k[g[p]][i]
          <6>1. p \in K /\ n \notin Alive(m)
            BY ONLY <1>4, <1>6
          <6> QED
            BY ONLY <6>1, <5>1, <5>2, <1>2
        <5>5. k[p][i] \in K
          BY ONLY <5>1, <5>2, <1>h, <1>1, <1>6
        <5> QED
          BY ONLY <5>2, <5>4, <5>5, <2>2, <3>1, <1>6
      <4> QED
        BY Zenon, <4>1, <4>2
    <3> QED
      BY ONLY <3>1, <3>2, <3>3
  <2>5. CASE x # n /\ x # p
    <3>1. x \in K /\ x \in Node /\ h[x] = k[x] /\ e[x] = g[x]
      BY <2>5, <1>1, <1>5, <1>6
    <3>2. r[x].data = r[e[x]].data /\ Len(h[x]) <= Len(h[e[x]])
      BY <3>1, <2>2, <1>1, <1>2, <1>4
    <3>3. ASSUME NEW i \in 1..Len(h[x])
          PROVE  e[h[x][i]] = h[e[x]][i]
      <4>1. k[x][i] \in Alive(m) /\ g[k[x][i]] = k[g[x]][i]
        BY <3>1, <1>h, <1>2
      <4>5. k[x][i] \in K
        BY ONLY <3>1, <1>h, <1>1
      <4> QED
        BY <3>1, <4>1, <4>5, <2>2, <1>6
    <3> QED
      BY Zenon, <3>2, <3>3
  <2> QED
    BY Zenon, <2>3, <2>4, <2>5
<1>11. Copies(r, h, top, start, K \cup {n}, D, e)
  <2>1. start \in D
    BY ONLY <1>1
  <2>2. \A x \in K \cup {n} : r[x].data = r[e[x]].data /\ Len(h[x]) <= Len(h[e[x]])
    BY ONLY <1>10
  <2>3. \A x \in K \cup {n} : \A i \in 1..Len(h[x]) : e[h[x][i]] = h[e[x]][i]
    BY Zenon, <1>10
  <2> QED
    BY ONLY <2>1, <2>2, <2>3, <1>6, <1>7, <1>8, <1>9 DEF Copies
<1> DEFINE B == A \cup {n}
<1>12. B \in SUBSET (K \cup {n}) /\ n \in B
  BY <1>3
<1>13. ASSUME NEW a \in B \ {top}
       PROVE  r[a].parent \in B \ {n} /\ Ends(h[r[a].parent], a)
  <2>1. CASE a = n
    <3>1. Len(k[p]) \in Nat
      BY <1>1, <1>5, <1>6
    <3> QED
      <4>1. r[a].parent = p /\ p \in B \ {n}
        BY ONLY <2>1, <1>3, <1>4, <1>6
      <4>2. Len(h[p]) # 0 /\ n = h[p][Len(h[p])]
        BY ONLY <3>1, <1>5
      <4>3. Ends(h[p], n)
        BY ONLY <4>2 DEF Ends
      <4> QED
        BY ONLY <4>1, <4>3, <2>1
  <2>2. CASE a # n
    <3>1. a \in A \ {top} /\ a \in Alive(m)
      BY <2>2, <1>1, <1>3
    <3>2. /\ m[a].parent \in A \ {p} /\ Ends(k[m[a].parent], a)
          /\ r[a].parent = m[a].parent
      BY <3>1, <1>3, <1>4
    <3>3. h[m[a].parent] = k[m[a].parent] /\ m[a].parent # n
      BY <3>2, <1>1, <1>3, <1>5, <1>6
    <3> QED
      BY <3>2, <3>3
  <2> QED
    BY ONLY <2>1, <2>2
<1>14. ASSUME NEW S \in SUBSET B, n \in S, \A a \in S \ {top} : r[a].parent \in S
       PROVE  S = B
  <2>1. S \ {n} \in SUBSET A
    OBVIOUS
  <2>2. p \in S \ {n}
    <3>1. n # top /\ r[n].parent = p /\ n # p
      BY ONLY <1>1, <1>4, <1>5, <1>6
    <3> QED
      BY ONLY <3>1, <1>14
  <2>3. ASSUME NEW a \in (S \ {n}) \ {top}
        PROVE  m[a].parent \in S \ {n}
    <3>1. a \in Alive(m) /\ r[a].parent \in S
      BY <2>1, <1>1, <1>3, <1>14
    <3> QED
      BY <3>1, <1>4
  <2>4. S \ {n} = A
    BY <2>1, <2>2, <2>3, <1>3
  <2> QED
    BY ONLY <2>4, <1>14
<1>15. ASSUME NEW x \in (K \cup {n}) \ B
       PROVE  Len(h[x]) = Len(h[e[x]])
  <2>1. x \in K \ A /\ x \in Node /\ x # n /\ x # p /\ e[x] = g[x]
    BY ONLY <1>0, <1>1, <1>3, <1>6
  <2>2. g[x] \in Node /\ g[x] # n /\ g[x] # p
    BY ONLY <1>0, <2>1, <1>1, <1>6
  <2> QED
    BY <2>1, <2>2, <1>3, <1>5
<1> HIDE DEF B
<1>16. GrowsAt(r, h, top, K \cup {n}, e, B, n)
  BY <1>12, <1>13, <1>14, <1>15 DEF GrowsAt
<1> QED
  BY <1>11, <1>16 DEF B

-----------------------------------------------------------------------------
(* The state of the loop in replace: the copy grows below or beside `to', a *)
(* copy of `from'; and what it has made when it ends.                       *)
CopyTracked(m, k, c) ==
  \E K, D, g, A :
    /\ Copies(m, k, c.top, c.start, K, D, g)
    /\ GrowsAt(m, k, c.top, K, g, A, c.to) /\ g[c.to] = c.from
    /\ c.phase = "down" => Len(k[c.to]) = 0
    /\ c.phase = "up" => Len(k[c.to]) = Len(k[c.from])
CopyComplete(m, k, c) ==
  \E K, D, g : /\ Copies(m, k, c.top, c.start, K, D, g)
               /\ \A x \in K : Len(k[x]) = Len(k[g[x]])
CopyFollows(m, k, c) ==
  c # Null => /\ c.phase \in {"down", "up"} => CopyTracked(m, k, c)
              /\ c.phase = "done" => CopyComplete(m, k, c)
CopyInv == \A k : Arranged(mem, {}, k) => CopyFollows(mem, k, copying)

LEMMA Hanging ==
  ASSUME NEW m, NEW k, Arranged(m, {}, k), NEW y \in Node, NEW i \in 1..Len(k[y])
  PROVE  /\ k[y][i] \in Alive(m) /\ k[y][i] \in Node /\ m[k[y][i]].parent = y
         /\ m[k[y][i]].next_sibling = At(y, k[y], i + 1)
<1>1. y \in Owner
  BY DEF Owner
<1>2. /\ k[y][i] \in Alive(m) \ {} /\ k[y][i] \in Node /\ m[k[y][i]].parent = parentOf(y)
      /\ m[k[y][i]].next_sibling = At(y, k[y], i + 1)
  BY <1>1, NodeLinks
<1> QED
  BY <1>2 DEF parentOf

AppendedAs(m, k, n, p, f, r, h) ==
  Arranged(r, {}, h) /\ Grown(k, p, n, h) /\ CopiedBelow(m, r, n, p, f)

LEMMA AppendGrows ==
  ASSUME NEW m, NEW k, Stored(m, k), NEW p \in Alive(m), NEW f \in Alive(m),
         NEW n \in Fresh(m), NEW r, r = append_child(m, p, n, m[f].data)
  PROVE  \E h : AppendedAs(m, k, n, p, f, r, h)
<1> DEFINE h == AtEnd(k, p, <<n>>)
           x == m[f].data
<1>1. /\ Sound(m) /\ Arranged(m, {}, k) /\ k \in [Owner -> Seq(Node)] /\ Alive(m) \subseteq Node
      /\ n \in Node \ Alive(m) /\ Alive(m) \subseteq Owner /\ Node \subseteq Owner
      /\ \A y \in Owner : k[y] \in Seq(Node) /\ Len(k[y]) \in Nat
  BY StoredFacts, OwnerFacts DEF Fresh
<1>2. x \in Data \cup {Blank}
  BY <1>1, DataFacts
<1>3. x = m[f].data
  OBVIOUS
<1> HIDE DEF x
<1>4. Yields(m, r, h, x) /\ Alive(r) = Alive(m) \cup {n}
  BY <1>1, <1>2, <1>3, ChildYields
<1>5. Placed(m, n, p, m[p].last_child, Null, r)
  BY <1>1, <1>2, <1>3, Insertions
<1>6. Arranged(r, {}, h)
  BY <1>4 DEF Yields
<1>7. CopiedBelow(m, r, n, p, f)
  <2>1. /\ r[n].parent = p
        /\ \A y \in Alive(m) : r[y].parent = m[y].parent /\ m[y].parent # n
    BY <1>5 DEF Placed
  <2>2. r[n].data = x /\ \A y \in Alive(m) : r[y].data = m[y].data
    BY <1>1, <1>4 DEF Yields
  <2> QED
    BY <2>1, <2>2, <1>1, <1>3, <1>4 DEF CopiedBelow
<1>8. Grown(k, p, n, h)
  <2> DEFINE l == Len(k[p])
             s == <<n>>
  <2>1. /\ h = Put(k, p, l, s) /\ l \in 0..Len(k[p]) /\ s \in Seq(Node)
        /\ Len(s) = 1 /\ s[1] = n /\ p \in Owner /\ l \in Nat
    BY <1>1 DEF AtEnd
  <2>l. l = Len(k[p])
    OBVIOUS
  <2> HIDE DEF h, l, s
  <2>2. PutIn(p, k[p], l, s, h[p]) /\ \A q \in Owner \ {p} : h[q] = k[q]
    <3>1. h \in [Owner -> Seq(Node)] /\ PutIn(p, k[p], l, s, h[p])
      BY ONLY <1>1, <2>1, PutFields
    <3>2. \A q \in Owner \ {p} : h[q] = k[q]
      BY <1>1, <2>1 DEF Put
    <3> QED
      BY <3>1, <3>2
  <2>3. /\ Len(h[p]) = l + 1
        /\ \A j \in 1..Len(h[p]) :
             h[p][j] = IF j <= l THEN k[p][j]
                       ELSE IF j <= l + 1 THEN s[j - l] ELSE k[p][j - 1]
    BY <2>1, <2>2, <2>l DEF PutIn
  <2>4. /\ l + 1 \in 1..Len(h[p]) /\ ~ (l + 1 <= l) /\ l + 1 <= l + 1 /\ (l + 1) - l = 1
        /\ \A i \in 1..l : i \in 1..Len(h[p]) /\ i <= l
    BY ONLY <2>1, <2>3
  <2>5. h[p][l + 1] = n /\ \A i \in 1..l : h[p][i] = k[p][i]
    BY <2>1, <2>3, <2>4
  <2>6. k[n] = <<>> /\ n # p
    BY <1>1, DeadList
  <2>7. Len(h[n]) = 0 /\ \A y \in Node : y # p /\ y # n => h[y] = k[y]
    BY <2>2, <2>6, <1>1
  <2>8. \A y \in Node \ {n} : Len(k[y]) \in Nat
    BY ONLY <1>1
  <2> QED
    BY <2>3, <2>5, <2>6, <2>7, <2>8, <2>l DEF Grown
<1> HIDE DEF h
<1> QED
  BY <1>6, <1>7, <1>8 DEF AppendedAs

(* From one node of the copy to the next one.                               *)
LEMMA GrowthTracks ==
  ASSUME NEW m, NEW k, Stored(m, k), NEW c, NEW K, NEW D, NEW g, NEW A, NEW p,
         Copies(m, k, c.top, c.start, K, D, g), GrowsAt(m, k, c.top, K, g, A, p),
         Len(k[p]) + 1 \in 1..Len(k[g[p]]),
         NEW f, f = k[g[p]][Len(k[p]) + 1],
         NEW n \in Fresh(m), NEW r, r = append_child(m, p, n, m[f].data),
         NEW d, Continued(c, d, "down", f, n)
  PROVE  \E h : Arranged(r, {}, h) /\ CopyTracked(r, h, d)
<1>1. /\ Arranged(m, {}, k) /\ Alive(m) \subseteq Node /\ n \in Node
  BY StoredFacts DEF Fresh
<1>2. /\ p \in K /\ p \in Alive(m) /\ g[p] \in D /\ g[p] \in Node
      /\ \A x \in Alive(m) : m[x].parent \in D => x \in D
  BY <1>1 DEF Copies, GrowsAt
<1>3. f \in Alive(m) /\ m[f].parent = g[p]
  <2> DEFINE y == g[p]
             i == Len(k[p]) + 1
  <2>1. y \in Node /\ i \in 1..Len(k[y]) /\ f = k[y][i] /\ Arranged(m, {}, k)
    BY <1>1, <1>2
  <2> HIDE DEF y, i
  <2>2. f \in Alive(m) /\ m[f].parent = y
    BY ONLY <2>1, Hanging
  <2> QED
    BY ONLY <2>2 DEF y
<1>4. f \in D
  BY ONLY <1>2, <1>3
<1>5. PICK h : AppendedAs(m, k, n, p, f, r, h)
  BY ONLY Stored(m, k), n \in Fresh(m), r = append_child(m, p, n, m[f].data), <1>2, <1>3, AppendGrows
<1>6. Arranged(r, {}, h) /\ Grown(k, p, n, h) /\ CopiedBelow(m, r, n, p, f)
  BY Zenon, <1>5 DEF AppendedAs
<1>7. Hangs(m, k)
  BY <1>1, Hanging DEF Hangs
<1> DEFINE e == Joined(g, K, n, f)
           top == c.top
           start == c.start
<1>8. e = Joined(g, K, n, f) /\ e[n] = f
  BY DEF Joined
<1>9. /\ Copies(m, k, top, start, K, D, g) /\ GrowsAt(m, k, top, K, g, A, p)
      /\ top = c.top /\ start = c.start
  OBVIOUS
<1> HIDE DEF e, top, start
<1>10. /\ Copies(r, h, top, start, K \cup {n}, D, e)
       /\ GrowsAt(r, h, top, K \cup {n}, e, A \cup {n}, n)
  BY ONLY <1>1, <1>4, <1>6, <1>7, <1>8, <1>9, Len(k[p]) + 1 \in 1..Len(k[g[p]]),
          f = k[g[p]][Len(k[p]) + 1], CopyGrowsOn
<1>11. d.top = top /\ d.start = start /\ d.to = n /\ d.from = f /\ d.phase = "down"
  BY ONLY <1>9, Continued(c, d, "down", f, n) DEF Continued
<1>12. Len(h[n]) = 0
  BY ONLY <1>6 DEF Grown
<1>13. CopyTracked(r, h, d)
  <2>1. /\ Copies(r, h, d.top, d.start, K \cup {n}, D, e)
        /\ GrowsAt(r, h, d.top, K \cup {n}, e, A \cup {n}, d.to) /\ e[d.to] = d.from
        /\ d.phase = "down" => Len(h[d.to]) = 0
        /\ d.phase = "up" => Len(h[d.to]) = Len(h[d.from])
    BY Zenon, <1>8, <1>10, <1>11, <1>12
  <2> QED
    BY ONLY <2>1 DEF CopyTracked
<1> QED
  BY Zenon, <1>6, <1>13

-----------------------------------------------------------------------------
(* One turn of the loop. *)
LEMMA CopyDownTracks ==
  ASSUME TreeInv, NEW k, Stored(mem, k), CopyTracked(mem, k, copying),
         NEW n \in Fresh(mem), CopyDown(n)
  PROVE  \E h : Arranged(mem', {}, h) /\ CopyTracked(mem', h, copying')
<1> DEFINE c == copying
           p == c.to
           f == mem[c.from].first_child
<1>1. /\ c # Null /\ c.phase = "down" /\ f # Null
      /\ mem' = append_child(mem, p, n, mem[f].data)
      /\ copying' = [c EXCEPT !.from = f, !.to = n]
  BY DEF CopyDown, InPhase, Copying, Continue
<1>2. PICK K, D, g, A :
        /\ Copies(mem, k, c.top, c.start, K, D, g)
        /\ GrowsAt(mem, k, c.top, K, g, A, p) /\ g[p] = c.from
        /\ Len(k[p]) = 0
  BY <1>1 DEF CopyTracked
<1>3. Arranged(mem, {}, k) /\ c.from \in Alive(mem)
  BY <1>2, StoredFacts DEF Copies, GrowsAt
<1>4. 1 \in 1..Len(k[c.from]) /\ f = k[c.from][1]
  BY ONLY <1>1, <1>3, ChildrenStand
<1>5. Len(k[p]) + 1 = 1
  BY ONLY <1>2
<1>6. Len(k[p]) + 1 \in 1..Len(k[g[p]]) /\ f = k[g[p]][Len(k[p]) + 1]
  BY ONLY <1>2, <1>4, <1>5
<1>7. Continued(c, copying', "down", f, n)
  BY Zenon, <1>1, ContinueFields DEF TreeInv, CopySound
<1> HIDE DEF c, p, f
<1>8. \E h : Arranged(mem', {}, h) /\ CopyTracked(mem', h, copying')
  BY <1>1, <1>2, <1>6, <1>7, GrowthTracks
<1> QED
  BY <1>8

(* What the loop knows of `to' and `from' when it does not go down.         *)
LEMMA BottomFacts ==
  ASSUME NEW k, Stored(mem, k), AtBottom, NEW K, NEW D, NEW g, NEW A,
         Copies(mem, k, copying.top, copying.start, K, D, g),
         GrowsAt(mem, k, copying.top, K, g, A, copying.to),
         g[copying.to] = copying.from,
         copying.phase = "down" => Len(k[copying.to]) = 0,
         copying.phase = "up" => Len(k[copying.to]) = Len(k[copying.from])
  PROVE  Len(k[copying.to]) = Len(k[copying.from])
<1> DEFINE x == copying.from
<1>1. CASE InPhase("up")
  BY <1>1 DEF InPhase
<1>2. CASE InPhase("down") /\ mem[x].first_child = Null
  <2>1. /\ Arranged(mem, {}, k) /\ x \in Node /\ Len(k[x]) \in Nat /\ Null \notin Node
        /\ Len(k[copying.to]) = 0
    <3>1. x \in Alive(mem)
      BY DEF Copies, GrowsAt
    <3> QED
      BY <3>1, <1>2, StoredFacts, PtrFacts DEF InPhase
  <2>2. Null = At(x, k[x], 1)
    BY <1>2, <2>1, ChildLinks
  <2>3. ASSUME Len(k[x]) # 0 PROVE FALSE
    <3>1. 1 \in 1..Len(k[x]) /\ 1 # 0 /\ 1 # Len(k[x]) + 1
      BY ONLY <2>1, <2>3
    <3>2. k[x][1] \in Node
      BY <2>1, <3>1, Hanging
    <3>3. At(x, k[x], 1) = k[x][1]
      BY ONLY <3>1 DEF At
    <3> QED
      BY <2>1, <2>2, <3>2, <3>3
  <2> QED
    BY <2>1, <2>3
<1> QED
  BY <1>1, <1>2 DEF AtBottom

(* The place beside `to'. *)
Beside(k, top, K, D, g, A, q, x) ==
  /\ GrowsAt(mem, k, top, K, g, A, q) /\ q \in K
  /\ Len(k[q]) \in 1..Len(k[g[q]]) /\ Len(k[g[q]]) \in Nat
  /\ mem[x].parent = g[q] /\ g[q] \in D /\ g[q] \in Node
  /\ mem[x].next_sibling = At(g[q], k[g[q]], Len(k[q]) + 1)

LEMMA BesideFacts ==
  ASSUME NEW k, Stored(mem, k), NEW top, NEW start, NEW K, NEW D, NEW g, NEW A, NEW p,
         Copies(mem, k, top, start, K, D, g), GrowsAt(mem, k, top, K, g, A, p),
         Len(k[p]) = Len(k[g[p]]), p # top
  PROVE  Beside(k, top, K, D, g, A \ {p}, mem[p].parent, g[p])
<1> DEFINE q == mem[p].parent
           x == g[p]
           y == g[q]
<1>1. Arranged(mem, {}, k) /\ Alive(mem) \subseteq Node /\ \A z \in Node : Len(k[z]) \in Nat
  BY StoredFacts, OwnerFacts
<1>2. top \in A
  <2>1. A \in SUBSET K /\ \A S \in SUBSET A : p \in S /\ (\A a \in S \ {top} : mem[a].parent \in S) => S = A
    BY DEF GrowsAt
  <2>2. p \in K /\ top \in K /\ p \in A
    BY DEF GrowsAt, Copies
  <2>3. ASSUME top \notin A PROVE FALSE
    <3>1. \A a \in A : mem[a].parent \in A
      BY <2>3 DEF GrowsAt
    <3>2. A \in SUBSET Alive(mem) /\ A # {}
      BY <2>1, <2>2 DEF Copies
    <3>3. NoCycle(mem)
      BY StoredFacts DEF Sound, Loose
    <3> QED
      BY <3>1, <3>2, <3>3 DEF NoCycle
  <2> QED
    BY <2>3
<1>3. GrowsAt(mem, k, top, K, g, A \ {p}, q) /\ q \in K /\ Ends(k[q], p)
  BY <1>2, CopyRises
<1>4. /\ y \in D /\ y \in Node /\ q \in Node /\ Len(k[q]) \in Nat /\ Len(k[y]) \in Nat
      /\ Len(k[q]) <= Len(k[y])
      /\ \A i \in 1..Len(k[q]) : g[k[q][i]] = k[y][i]
  BY <1>1, <1>3 DEF Copies
<1>5. Len(k[q]) # 0 /\ p = k[q][Len(k[q])]
  BY <1>3 DEF Ends
<1>6. Len(k[q]) \in 1..Len(k[q]) /\ Len(k[q]) \in 1..Len(k[y])
  BY ONLY <1>4, <1>5
<1>7. x = k[y][Len(k[q])]
  BY <1>4, <1>5, <1>6
<1>8. mem[x].parent = y /\ mem[x].next_sibling = At(y, k[y], Len(k[q]) + 1)
  <2> DEFINE i == Len(k[q])
  <2>1. Arranged(mem, {}, k) /\ y \in Node /\ i \in 1..Len(k[y]) /\ x = k[y][i]
    BY Zenon, <1>1, <1>4, <1>6, <1>7
  <2>i. i = Len(k[q])
    OBVIOUS
  <2> HIDE DEF i, x, y, q
  <2>2. mem[k[y][i]].parent = y /\ mem[k[y][i]].next_sibling = At(y, k[y], i + 1)
    BY ONLY <2>1, Hanging
  <2> QED
    BY ONLY <2>1, <2>2, <2>i
<1> QED
  BY <1>3, <1>4, <1>6, <1>8 DEF Beside

LEMMA CopyUpTracks ==
  ASSUME TreeInv, NEW k, Stored(mem, k), CopyTracked(mem, k, copying), CopyUp
  PROVE  CopyTracked(mem, k, copying')
<1> DEFINE c == copying
           p == c.to
           q == mem[p].parent
<1>1. /\ c # Null /\ AtBottom /\ mem[c.from].next_sibling = Null /\ c.from # c.start
      /\ copying' = [c EXCEPT !.phase = "up", !.from = mem[c.from].parent, !.to = q]
  BY DEF CopyUp, AtBottom, InPhase, Copying, Continue, NoneRight
<1>2. PICK K, D, g, A :
        /\ Copies(mem, k, c.top, c.start, K, D, g)
        /\ GrowsAt(mem, k, c.top, K, g, A, p) /\ g[p] = c.from
        /\ c.phase = "down" => Len(k[c.to]) = 0
        /\ c.phase = "up" => Len(k[c.to]) = Len(k[c.from])
  BY DEF CopyTracked
<1>3. Len(k[p]) = Len(k[g[p]]) /\ p # c.top
  <2>1. Len(k[p]) = Len(k[c.from])
    BY <1>1, <1>2, BottomFacts
  <2>2. g[c.top] = c.start
    BY <1>2 DEF Copies
  <2> QED
    BY <2>1, <2>2, <1>1, <1>2
<1>4. Beside(k, c.top, K, D, g, A \ {p}, q, c.from)
  BY <1>2, <1>3, BesideFacts
<1> DEFINE y == g[q]
<1>5. /\ GrowsAt(mem, k, c.top, K, g, A \ {p}, q) /\ q \in K
      /\ Len(k[q]) \in 1..Len(k[y]) /\ Len(k[y]) \in Nat
      /\ mem[c.from].parent = y /\ y \in D /\ y \in Node
      /\ Null = At(y, k[y], Len(k[q]) + 1)
  BY Zenon, <1>1, <1>4 DEF Beside
<1>6. Len(k[q]) = Len(k[y])
  <2> DEFINE l == Len(k[q])
             j == l + 1
  <2>1. /\ l \in 1..Len(k[y]) /\ Len(k[y]) \in Nat /\ y \in Node
        /\ Null = At(y, k[y], j) /\ l = Len(k[q])
    BY <1>5
  <2>2. Arranged(mem, {}, k)
    BY StoredFacts
  <2> HIDE DEF c, p, q, y, l
  <2>3. ASSUME l # Len(k[y]) PROVE FALSE
    <3>1. j \in 1..Len(k[y]) /\ j # 0 /\ j # Len(k[y]) + 1
      BY ONLY <2>1, <2>3
    <3> HIDE DEF j
    <3>2. k[y][j] \in Node
      BY ONLY <2>1, <2>2, <3>1, Hanging
    <3>3. At(y, k[y], j) = k[y][j]
      BY ONLY <3>1 DEF At
    <3> QED
      BY ONLY <2>1, <3>2, <3>3, PtrFacts
  <2> QED
    BY ONLY <2>1, <2>3
<1>7. Continued(c, copying', "up", y, q)
  BY Zenon, <1>1, <1>5, ContinueFields DEF TreeInv, CopySound
<1>8. copying'.phase = "up" /\ copying'.from = y /\ copying'.to = q
      /\ copying'.top = c.top /\ copying'.start = c.start
  BY ONLY <1>7 DEF Continued
<1>9. /\ Copies(mem, k, copying'.top, copying'.start, K, D, g)
      /\ GrowsAt(mem, k, copying'.top, K, g, A \ {p}, copying'.to)
      /\ g[copying'.to] = copying'.from
      /\ copying'.phase = "down" => Len(k[copying'.to]) = 0
      /\ copying'.phase = "up" => Len(k[copying'.to]) = Len(k[copying'.from])
  BY Zenon, <1>2, <1>5, <1>6, <1>8
<1> QED
  BY <1>9 DEF CopyTracked

LEMMA CopyRightTracks ==
  ASSUME TreeInv, NEW k, Stored(mem, k), CopyTracked(mem, k, copying),
         NEW n \in Fresh(mem), CopyRight(n)
  PROVE  \E h : Arranged(mem', {}, h) /\ CopyTracked(mem', h, copying')
<1> DEFINE c == copying
           p == c.to
           q == mem[p].parent
           f == mem[c.from].next_sibling
<1>1. /\ c # Null /\ AtBottom /\ Copying /\ ~ NoneRight /\ f # c.last
      /\ mem' = append_child(mem, q, n, mem[f].data)
      /\ copying' = [c EXCEPT !.phase = "down", !.from = f, !.to = n]
  BY DEF CopyRight, AtBottom, InPhase, Copying, Continue
<1>2. PICK K, D, g, A :
        /\ Copies(mem, k, c.top, c.start, K, D, g)
        /\ GrowsAt(mem, k, c.top, K, g, A, p) /\ g[p] = c.from
        /\ c.phase = "down" => Len(k[c.to]) = 0
        /\ c.phase = "up" => Len(k[c.to]) = Len(k[c.from])
  BY DEF CopyTracked
<1>3. c.from # c.start /\ f \in Alive(mem)
  BY <1>1, CopyRightFacts
<1>4. Len(k[p]) = Len(k[g[p]]) /\ p # c.top
  <2>1. Len(k[p]) = Len(k[c.from])
    BY <1>1, <1>2, BottomFacts
  <2>2. g[c.top] = c.start
    BY <1>2 DEF Copies
  <2> QED
    BY <2>1, <2>2, <1>2, <1>3
<1>5. Beside(k, c.top, K, D, g, A \ {p}, q, c.from)
  BY <1>2, <1>4, BesideFacts
<1> DEFINE y == g[q]
           j == Len(k[q]) + 1
<1>6. /\ GrowsAt(mem, k, c.top, K, g, A \ {p}, q)
      /\ Len(k[q]) \in 1..Len(k[y]) /\ Len(k[y]) \in Nat /\ y \in Node
      /\ f = At(y, k[y], j)
  BY <1>5 DEF Beside
<1>7. j \in 1..Len(k[y]) /\ f = k[y][j]
  <2>1. f # Null
    BY ONLY TreeInv, Stored(mem, k), <1>3, SoundFacts DEF TreeInv
  <2>2. j # Len(k[y]) + 1
    <3>1. y \in Node /\ f = At(y, k[y], j)
      BY <1>6
    <3> HIDE DEF y, f, j
    <3> QED
      BY ONLY <3>1, <2>1 DEF At, endOf
  <2>3. j = Len(k[q]) + 1 /\ Len(k[q]) \in 1..Len(k[y]) /\ Len(k[y]) \in Nat
    BY <1>6
  <2>j. f = At(y, k[y], j)
    BY <1>6
  <2> HIDE DEF j, y, q, f
  <2>4. j \in 1..Len(k[y]) /\ j # 0
    BY ONLY <2>2, <2>3
  <2>5. At(y, k[y], j) = k[y][j]
    BY ONLY <2>2, <2>4 DEF At
  <2> QED
    BY ONLY <2>j, <2>4, <2>5
<1>8. Continued(c, copying', "down", f, n)
  BY Zenon, <1>1, ContinueFields DEF TreeInv, CopySound
<1>9. Len(k[q]) + 1 \in 1..Len(k[g[q]]) /\ f = k[g[q]][Len(k[q]) + 1]
  BY ONLY <1>7
<1> HIDE DEF c, p, q, f, y, j
<1>10. \E h : Arranged(mem', {}, h) /\ CopyTracked(mem', h, copying')
  BY Zenon, <1>1, <1>2, <1>6, <1>8, <1>9, GrowthTracks
<1> QED
  BY <1>10

LEMMA CopyEndsCompletes ==
  ASSUME TreeInv, NEW k, Stored(mem, k), CopyTracked(mem, k, copying), CopyEnds
  PROVE  CopyComplete(mem, k, copying')
<1> DEFINE c == copying
           p == c.to
<1>1. /\ c # Null /\ AtBottom /\ Copying /\ ~ NoneRight
      /\ mem[c.from].next_sibling = c.last
      /\ copying' = [c EXCEPT !.phase = "done"]
  BY DEF CopyEnds, AtBottom, InPhase, Copying, Continue
<1>2. PICK K, D, g, A :
        /\ Copies(mem, k, c.top, c.start, K, D, g)
        /\ GrowsAt(mem, k, c.top, K, g, A, p) /\ g[p] = c.from
        /\ c.phase = "down" => Len(k[c.to]) = 0
        /\ c.phase = "up" => Len(k[c.to]) = Len(k[c.from])
  BY DEF CopyTracked
<1>3. Len(k[p]) = Len(k[g[p]])
  BY <1>1, <1>2, BottomFacts
<1>4. c.from = c.start
  <2>1. CopyRuns(mem, c) /\ c.from \in Alive(mem)
    BY <1>1, CopyRightFacts
  <2>2. c.start \in Alive(mem) /\ c.last = mem[c.start].next_sibling
    BY <2>1 DEF CopyRuns
  <2>3. Linked(mem, {}, c.from) /\ Linked(mem, {}, c.start)
    BY <2>1, <2>2, SoundFacts DEF TreeInv
  <2>4. CASE c.last = Null
    BY <2>4, <1>1 DEF NoneRight
  <2>5. CASE c.last # Null
    BY <2>2, <2>3, <2>5, <1>1 DEF Linked
  <2> QED
    BY <2>4, <2>5
<1>5. p = c.top
  <2>1. ASSUME p # c.top PROVE FALSE
    <3>1. Beside(k, c.top, K, D, g, A \ {p}, mem[p].parent, c.from)
      BY <1>2, <1>3, <2>1, BesideFacts
    <3>2. mem[c.start].parent \in D
      BY <3>1, <1>4 DEF Beside
    <3>3. /\ D \in SUBSET Alive(mem) /\ c.start \in D
          /\ \A x \in D \ {c.start} : mem[x].parent \in D
      BY <1>2 DEF Copies
    <3>4. NoCycle(mem)
      BY StoredFacts DEF Sound, Loose
    <3> QED
      BY <3>2, <3>3, <3>4 DEF NoCycle
  <2> QED
    BY <2>1
<1>6. \A x \in K : Len(k[x]) = Len(k[g[x]])
  <2>1. /\ p \in A /\ \A x \in K \ A : Len(k[x]) = Len(k[g[x]])
        /\ \A S \in SUBSET A : p \in S /\ (\A a \in S \ {c.top} : mem[a].parent \in S) => S = A
    BY <1>2 DEF GrowsAt
  <2>2. {p} = A
    <3>1. {p} \in SUBSET A /\ p \in {p} /\ {p} \ {c.top} = {}
      BY <2>1, <1>5
    <3>2. \A a \in {p} \ {c.top} : mem[a].parent \in {p}
      BY <3>1
    <3> HIDE DEF p, c
    <3> QED
      BY ONLY <2>1, <3>1, <3>2
  <2> QED
    BY <2>1, <2>2, <1>3
<1>7. copying'.top = c.top /\ copying'.start = c.start
  <2>1. Continued(c, copying', "done", c.from, c.to)
    BY Zenon, <1>1, ContinueFields DEF TreeInv, CopySound
  <2> QED
    BY ONLY <2>1 DEF Continued
<1>8. Copies(mem, k, copying'.top, copying'.start, K, D, g)
  BY <1>2, <1>7
<1> QED
  BY <1>6, <1>8 DEF CopyComplete

-----------------------------------------------------------------------------
(* The first node of the copy. *)
LEMMA SubtreesApart ==
  ASSUME NEW m, Sound(m), NEW a \in Alive(m), NEW b \in Alive(m),
         a \notin Subtree(m, b), b \notin Subtree(m, a)
  PROVE  Subtree(m, a) \cap Subtree(m, b) = {}
<1> DEFINE S == Subtree(m, a) \cap Subtree(m, b)
<1>1. /\ Below(m, a) \subseteq Alive(m)
      /\ \A x \in Below(m, a) : m[x].parent \in Below(m, a) \cup {a}
      /\ \A x \in Below(m, b) : m[x].parent \in Below(m, b) \cup {b}
  BY BelowFacts
<1>2. S \in SUBSET Alive(m)
  BY <1>1 DEF Subtree
<1>3. \A x \in S : m[x].parent \in S
  BY <1>1 DEF Subtree
<1>4. NoCycle(m)
  BY DEF Sound, Loose
<1> QED
  BY <1>2, <1>3, <1>4 DEF NoCycle

(* A set closed under parents up to n, and under children, is all below n.  *)
LEMMA ClosedSubtree ==
  ASSUME NEW m, Sound(m), NEW K \in SUBSET Alive(m), NEW n \in K,
         \A x \in Alive(m) : m[x].parent \in K => x \in K,
         \A x \in K \ {n} : m[x].parent \in K
  PROVE  Subtree(m, n) = K
<1>1. /\ Below(m, n) \subseteq Alive(m)
      /\ \A x \in Below(m, n) : m[x].parent \in Below(m, n) \cup {n}
      /\ \A x \in Alive(m) : m[x].parent \in Below(m, n) \cup {n} => x \in Below(m, n)
  BY BelowFacts
<1>2. NoCycle(m)
  BY DEF Sound, Loose
<1>3. Subtree(m, n) \ K = {}
  <2> DEFINE S == Subtree(m, n) \ K
  <2>1. S \in SUBSET Alive(m) /\ \A x \in S : m[x].parent \in S
    BY <1>1 DEF Subtree
  <2> QED
    BY <2>1, <1>2 DEF NoCycle
<1>4. K \ Subtree(m, n) = {}
  <2> DEFINE S == K \ Subtree(m, n)
  <2>1. S \in SUBSET Alive(m) /\ \A x \in S : m[x].parent \in S
    BY <1>1 DEF Subtree
  <2> QED
    BY <2>1, <1>2 DEF NoCycle
<1> QED
  BY <1>3, <1>4

ReplacedBy(m, pos, n, x, r) ==
  /\ r[n].parent = m[pos].parent /\ r[n].data = x
  /\ \A y \in Alive(m) \ Subtree(m, pos) :
       r[y].parent = m[y].parent /\ r[y].data = m[y].data

LEMMA ReplaceTopFields ==
  ASSUME NEW m, Sound(m), NEW pos \in Alive(m),
         NEW n \in Fresh(erase_children(m, pos)), NEW x \in Data \cup {Blank},
         NEW r, r = replace_top(m, pos, n, x)
  PROVE  ReplacedBy(m, pos, n, x, r)
<1> DEFINE bare == erase_children(m, pos)
           c == Construct(bare, n, x)
           out == Unlink(c, pos, pos)
           p == m[pos].parent
           b == m[pos].prev_sibling
           a == m[pos].next_sibling
           l == LinkIn(out, n, n, p, b, a)
<1>1. Childless(m, pos, bare)
  BY EraseChildrenSound
<1>2. n \in Node \ Alive(bare)
  BY DEF Fresh
<1>3. r = Deallocate(l, {pos})
  BY DEF replace_top
<1>4. p \in Link /\ b \in Link /\ a \in Link /\ pos \in Ptr /\ pos \in Node /\ n \in Ptr
  BY <1>2, SoundFacts DEF Memory, TreeNode
<1> HIDE DEF bare, p, b, a
<1>5. bare \in Memory /\ Alive(bare) = Alive(m) \ Below(m, pos) /\ pos \in Alive(bare)
      /\ \A y \in Ptr \ Below(m, pos) :
           bare[y].parent = m[y].parent /\ bare[y].data = m[y].data
  BY <1>1, SoundFacts DEF Childless
<1>6. c \in Memory /\ c[n].data = x /\ \A y \in Ptr \ {n} : c[y] = bare[y]
  BY <1>2, <1>5, ConstructFields
<1> HIDE DEF c
<1>7. out \in Memory /\ \A y \in Ptr : out[y].parent = c[y].parent /\ out[y].data = c[y].data
  BY <1>4, <1>6, UnlinkFields DEF Unlinked
<1> HIDE DEF out
<1>8. Chain(out, n, n) = {n}
  <2>1. x # Freed
    BY PtrFacts
  <2>2. n \in Alive(out)
    BY <2>1, <1>2, <1>4, <1>6, <1>7 DEF Alive
  <2> QED
    BY <2>2, SingleChain
<1>9. /\ l \in Memory
      /\ \A y \in Ptr : /\ l[y].parent = IF y = n THEN p ELSE out[y].parent
                        /\ l[y].data = out[y].data
  <2>1. LinkedIn(out, l, {n}, n, n, p, b, a)
    BY <1>4, <1>7, <1>8, LinkInFields
  <2> QED
    BY <2>1 DEF LinkedIn
<1> HIDE DEF l
<1>10. \A y \in Ptr \ {pos} : r[y] = l[y]
  BY <1>3, <1>4, <1>9, DeallocateFields
<1>11. n # pos /\ Alive(m) \subseteq Ptr
  BY <1>2, <1>5, SoundFacts
<1>12. r[n].parent = p /\ r[n].data = x
  BY <1>4, <1>6, <1>7, <1>9, <1>10, <1>11
<1>13. ASSUME NEW y \in Alive(m) \ Subtree(m, pos)
       PROVE  r[y].parent = m[y].parent /\ r[y].data = m[y].data
  <2>1. y \in Ptr /\ y # pos /\ y # n /\ y \notin Below(m, pos)
    BY <1>2, <1>5, <1>11 DEF Subtree
  <2> QED
    BY <2>1, <1>5, <1>6, <1>7, <1>9, <1>10
<1> QED
  BY <1>12, <1>13 DEF ReplacedBy, p

LEMMA BeginTracks ==
  ASSUME NEW m, Sound(m), NEW pos \in Alive(m), NEW src \in Alive(m),
         NEW n \in Node, NEW all, Begin(m, pos, src, n, all),
         NEW h, Arranged(mem', {}, h)
  PROVE  CopyFollows(mem', h, copying')
<1> DEFINE r == replace_top(m, pos, n, m[src].data)
           x == m[src].data
           D == Subtree(m, src)
           K == {n}
           g == [y \in K |-> src]
<1>1. /\ n \in Fresh(erase_children(m, pos))
      /\ src \notin Subtree(m, pos) /\ pos \notin Subtree(m, src) /\ mem' = r
      /\ copying' = [phase |-> "down", start |-> src, from |-> src, top |-> n,
                     to |-> n, last |-> r[src].next_sibling, all |-> all]
  BY DEF Begin, Continue
<1>2. x \in Data \cup {Blank} /\ r = replace_top(m, pos, n, x)
  BY DataFacts
<1>3. Replaced(m, pos, n, r) /\ ReplacedBy(m, pos, n, x, r)
  BY <1>1, <1>2, ReplaceTopSound, ReplaceTopFields
<1>4. /\ copying'.phase = "down" /\ copying'.start = src /\ copying'.from = src
      /\ copying'.top = n /\ copying'.to = n
  BY <1>1
<1>5. /\ D \cap Subtree(m, pos) = {} /\ D \subseteq Alive(m) /\ src \in D
      /\ \A y \in D \ {src} : m[y].parent \in D
      /\ \A y \in Alive(m) : m[y].parent \in D => y \in D
  <2>1. D \cap Subtree(m, pos) = {}
    BY <1>1, SubtreesApart
  <2> QED
    BY <2>1, BelowFacts DEF Subtree
<1>6. /\ Alive(r) = (Alive(m) \ Subtree(m, pos)) \cup {n} /\ n \notin Alive(m) \ Subtree(m, pos)
      /\ \A y \in Alive(r) : r[y].parent # n
      /\ r[n].parent = m[pos].parent /\ r[n].data = m[src].data
      /\ \A y \in Alive(m) \ Subtree(m, pos) :
           r[y].parent = m[y].parent /\ r[y].data = m[y].data
  BY <1>3 DEF Replaced, ReplacedBy
<1>7. pos \notin D /\ n \notin D /\ D \subseteq Alive(m) \ Subtree(m, pos)
  BY <1>1, <1>5, <1>6
<1> HIDE DEF r, x, D
<1>8. Len(h[n]) = 0 /\ Len(h[src]) \in Nat
  <2>1. n \in Owner /\ src \in Owner /\ \A q \in Owner : Len(h[q]) \in Nat
    BY SoundFacts, ArrangedFacts DEF Owner
  <2>2. ASSUME Len(h[n]) # 0 PROVE FALSE
    <3>1. 1 \in 1..Len(h[n])
      BY <2>1, <2>2
    <3>2. h[n][1] \in Alive(r) /\ r[h[n][1]].parent = n
      BY <3>1, <1>1, Hanging
    <3> QED
      BY <3>2, <1>6
  <2> QED
    BY <2>1, <2>2
<1>9. /\ K \in SUBSET Alive(r) /\ D \in SUBSET (Alive(r) \ K) /\ g \in [K -> D]
      /\ n \in K /\ g[n] = src
  BY <1>5, <1>6, <1>7
<1>10. \A y \in Alive(r) : /\ r[y].parent \in K => y \in K
                           /\ r[y].parent \in D => y \in D
  BY <1>5, <1>6, <1>7
<1>11. \A y \in D \ {src} : r[y].parent \in D
  BY <1>5, <1>6, <1>7
<1>12. /\ \A y \in K : r[y].data = r[g[y]].data /\ Len(h[y]) <= Len(h[g[y]])
       /\ \A y \in K : \A i \in 1..Len(h[y]) : g[h[y][i]] = h[g[y]][i]
  <2>1. r[src].data = m[src].data
    BY <1>5, <1>6, <1>7
  <2>2. 1..Len(h[n]) = {} /\ Len(h[n]) <= Len(h[src])
    BY ONLY <1>8
  <2> QED
    BY <2>1, <2>2, <1>6
<1>13. Copies(r, h, n, src, K, D, g)
  <2>1. \A y \in K \ {n} : r[y].parent \in K
    OBVIOUS
  <2>2. src \in D
    BY <1>5
  <2> HIDE DEF K, g
  <2> QED
    BY ONLY <2>1, <2>2, <1>9, <1>10, <1>11, <1>12 DEF Copies
<1>14. GrowsAt(r, h, n, K, g, K, n)
  <2>1. /\ \A S \in SUBSET K : n \in S => S = K
        /\ K \ {n} = {} /\ K \ K = {} /\ n \in K
    OBVIOUS
  <2> HIDE DEF K, g
  <2> QED
    BY ONLY <2>1 DEF GrowsAt
<1> HIDE DEF K, g
<1>15. CopyTracked(r, h, copying')
  BY <1>4, <1>8, <1>9, <1>13, <1>14 DEF CopyTracked
<1> QED
  BY <1>1, <1>4, <1>15 DEF CopyFollows

LEMMA StartCopyFollows ==
  ASSUME TreeInv, StartCopy
  PROVE  CopyInv'
<1>1. Sound(mem)
  BY DEF TreeInv
<1> SUFFICES ASSUME NEW h, Arranged(mem', {}, h)
             PROVE  CopyFollows(mem', h, copying')
  BY DEF CopyInv
<1>2. ASSUME NEW t \in Tree, NEW u \in Tree, CopyTree(t, u)
      PROVE  CopyFollows(mem', h, copying')
  <2>1. copying' = [phase |-> "heads", start |-> head(u), top |-> head(t),
                    from |-> mem[head(u)].next_sibling, to |-> feet(t),
                    last |-> feet(u), all |-> TRUE]
    BY <1>2 DEF CopyTree, Continue
  <2>2. copying'.phase = "heads"
    BY <2>1
  <2> QED
    BY <2>2 DEF CopyFollows
<1>3. ASSUME NEW src \in Alive(mem), NEW n \in Node, NEW p \in Alive(mem),
             Replace(p, src, n)
      PROVE  CopyFollows(mem', h, copying')
  BY <1>1, <1>3, BeginTracks DEF Replace
<1>4. ASSUME NEW src \in Alive(mem), NEW n \in Node, NEW d \in Fresh(mem) \ {n},
             NEW m, NEW p, NEW b, NEW a, Placed(mem, d, p, b, a, m),
             Begin(m, d, src, n, FALSE)
      PROVE  CopyFollows(mem', h, copying')
  <2>1. Sound(m) /\ d \in Alive(m) /\ src \in Alive(m)
    BY <1>4 DEF Placed
  <2> QED
    BY <2>1, <1>4, BeginTracks
<1>5. ASSUME NEW src \in Alive(mem), NEW n \in Node, NEW d \in Fresh(mem) \ {n},
             \/ \E t \in Tree : InsertSubtreeAtEnd(t, src, d, n)
             \/ \E p \in Alive(mem) :
                  \/ AppendSubtree(p, src, d, n) \/ PrependSubtree(p, src, d, n)
                  \/ InsertSubtree(p, src, d, n)
      PROVE  CopyFollows(mem', h, copying')
  <2>1. d \in Node \ Alive(mem) /\ Blank \in Data \cup {Blank}
    BY DEF Fresh
  <2>2. ASSUME NEW t \in Tree, InsertSubtreeAtEnd(t, src, d, n)
        PROVE  CopyFollows(mem', h, copying')
    <3>1. Placed(mem, d, mem[feet(t)].parent, mem[feet(t)].prev_sibling, feet(t),
                 insert(mem, feet(t), d, Blank))
      BY <1>1, <2>1, Insertions
    <3> QED
      BY <3>1, <1>4, <2>2 DEF InsertSubtreeAtEnd, insert_at_end_moved
  <2>3. ASSUME NEW p \in Alive(mem),
               \/ AppendSubtree(p, src, d, n) \/ PrependSubtree(p, src, d, n)
               \/ InsertSubtree(p, src, d, n)
        PROVE  CopyFollows(mem', h, copying')
    <3>1. /\ Placed(mem, d, p, mem[p].last_child, Null, append_child(mem, p, d, Blank))
          /\ Placed(mem, d, p, Null, mem[p].first_child, prepend_child(mem, p, d, Blank))
          /\ Placed(mem, d, mem[p].parent, mem[p].prev_sibling, p, insert(mem, p, d, Blank))
      BY <1>1, <2>1, Insertions
    <3> QED
      BY <3>1, <1>4, <2>3 DEF AppendSubtree, PrependSubtree, InsertSubtree
  <2> QED
    BY <1>5, <2>2, <2>3
<1> QED
  BY <1>2, <1>3, <1>5 DEF StartCopy

(* Lists are determined by the memory. *)
LEMMA SameKids ==
  ASSUME NEW m, NEW h, NEW k, Arranged(m, {}, h), Arranged(m, {}, k)
  PROVE  h = k
  BY KidsOf

LEMMA CopyStepFollows ==
  ASSUME TreeInv, Orderly(mem), CopyInv, CopyStep
  PROVE  CopyInv'
<1>1. PICK k : Stored(mem, k)
  BY DEF Stored, Orderly, TreeInv
<1>2. Sound(mem) /\ CopyFollows(mem, k, copying)
  BY <1>1, StoredFacts DEF TreeInv, CopyInv
<1> SUFFICES ASSUME NEW h, Arranged(mem', {}, h)
             PROVE  CopyFollows(mem', h, copying')
  BY DEF CopyInv
<1>3. ASSUME NEW n \in Fresh(mem), CopyDown(n)
      PROVE  CopyFollows(mem', h, copying')
  <2>1. /\ copying # Null /\ copying.phase = "down"
        /\ copying' = [copying EXCEPT !.from = mem[copying.from].first_child, !.to = n]
    BY ONLY <1>3 DEF CopyDown, InPhase, Copying, Continue
  <2>2. copying'.phase = "down"
    <3>1. Continued(copying, copying', copying.phase, mem[copying.from].first_child, n)
      BY Zenon, <2>1, ContinueFields DEF TreeInv, CopySound
    <3> QED
      BY ONLY <2>1, <3>1 DEF Continued
  <2>3. CopyTracked(mem, k, copying)
    BY <2>1, <1>2 DEF CopyFollows
  <2>4. \E g : Arranged(mem', {}, g) /\ CopyTracked(mem', g, copying')
    BY <2>3, <1>1, <1>3, CopyDownTracks
  <2>5. CopyTracked(mem', h, copying')
    BY <2>4, SameKids
  <2> QED
    BY <2>2, <2>5 DEF CopyFollows
<1>4. ASSUME AtBottom PROVE CopyTracked(mem, k, copying) /\ copying # Null
  BY <1>4, <1>2 DEF CopyFollows, AtBottom, InPhase, Copying
<1>5. ASSUME NEW n \in Fresh(mem), CopyRight(n)
      PROVE  CopyFollows(mem', h, copying')
  <2>1. /\ AtBottom
        /\ copying' = [copying EXCEPT !.phase = "down",
                                      !.from = mem[copying.from].next_sibling, !.to = n]
    BY ONLY <1>5 DEF CopyRight, Continue
  <2>2. copying'.phase = "down"
    <3>1. Continued(copying, copying', "down", mem[copying.from].next_sibling, n)
      BY Zenon, <2>1, <1>4, ContinueFields DEF TreeInv, CopySound
    <3> QED
      BY ONLY <3>1 DEF Continued
  <2>3. \E g : Arranged(mem', {}, g) /\ CopyTracked(mem', g, copying')
    BY <2>1, <1>1, <1>4, <1>5, CopyRightTracks
  <2>4. CopyTracked(mem', h, copying')
    BY <2>3, SameKids
  <2> QED
    BY <2>2, <2>4 DEF CopyFollows
<1>6. mem' = mem => h = k
  BY <1>1, SameKids DEF Stored
<1>7. CASE CopyUp
  <2>1. /\ AtBottom /\ mem' = mem
        /\ copying' = [copying EXCEPT !.phase = "up", !.from = mem[copying.from].parent,
                                      !.to = mem[copying.to].parent]
    BY ONLY <1>7 DEF CopyUp, Continue
  <2>2. copying'.phase = "up"
    <3>1. Continued(copying, copying', "up", mem[copying.from].parent,
                    mem[copying.to].parent)
      BY Zenon, <2>1, <1>4, ContinueFields DEF TreeInv, CopySound
    <3> QED
      BY ONLY <3>1 DEF Continued
  <2>3. CopyTracked(mem, k, copying')
    BY <2>1, <1>1, <1>4, <1>7, CopyUpTracks
  <2> QED
    BY ONLY <2>1, <2>2, <2>3, <1>6 DEF CopyFollows
<1>8. CASE CopyEnds
  <2>1. /\ AtBottom /\ mem' = mem /\ copying' = [copying EXCEPT !.phase = "done"]
    BY ONLY <1>8 DEF CopyEnds, Continue
  <2>2. copying'.phase = "done"
    <3>1. Continued(copying, copying', "done", copying.from, copying.to)
      BY Zenon, <2>1, <1>4, ContinueFields DEF TreeInv, CopySound
    <3> QED
      BY ONLY <3>1 DEF Continued
  <2>3. CopyComplete(mem, k, copying')
    BY <2>1, <1>1, <1>4, <1>8, CopyEndsCompletes
  <2> QED
    BY <2>1, <2>2, <2>3, <1>6 DEF CopyFollows
<1>9. ASSUME NEW n \in Fresh(mem), CopyHead(n)
      PROVE  CopyFollows(mem', h, copying')
  <2>1. /\ copying # Null /\ copying.phase = "heads"
        /\ copying' = [copying EXCEPT !.from = mem[copying.from].next_sibling, !.to = n]
    BY ONLY <1>9 DEF CopyHead, InPhase, Copying, Continue
  <2>2. Continued(copying, copying', copying.phase, mem[copying.from].next_sibling, n)
    BY Zenon, <2>1, ContinueFields DEF TreeInv, CopySound
  <2> QED
    BY <2>1, <2>2 DEF CopyFollows, Continued
<1>10. CASE HeadsCopied
  <2>1. /\ copying # Null
        /\ copying' = [copying EXCEPT !.phase = "next",
                                      !.from = mem[copying.start].next_sibling,
                                      !.to = mem[copying.top].next_sibling]
    BY ONLY <1>10 DEF HeadsCopied, InPhase, Copying, Continue
  <2>2. Continued(copying, copying', "next", mem[copying.start].next_sibling,
                  mem[copying.top].next_sibling)
    BY Zenon, <2>1, ContinueFields DEF TreeInv, CopySound
  <2> QED
    BY ONLY <2>2 DEF CopyFollows, Continued
<1>11. CASE CopyReturns
  <2>1. CASE copying' = Null
    BY <2>1 DEF CopyFollows
  <2>2. CASE /\ InPhase("done") /\ copying.all
             /\ Continue([copying EXCEPT !.phase = "next",
                                         !.from = mem[copying.start].next_sibling,
                                         !.to = mem[copying.top].next_sibling])
    <3>1. copying # Null
      BY ONLY <2>2 DEF InPhase, Copying
    <3>2. Continued(copying, copying', "next", mem[copying.start].next_sibling,
                    mem[copying.top].next_sibling)
      BY Zenon, <2>2, <3>1, ContinueFields DEF TreeInv, CopySound, Continue
    <3> QED
      BY <3>2 DEF CopyFollows, Continued
  <2> QED
    BY <2>1, <2>2, <1>11 DEF CopyReturns
<1>12. ASSUME NEW n \in Node, CopyNext(n)
       PROVE  CopyFollows(mem', h, copying')
  <2>1. /\ copying # Null /\ copying.phase = "next" /\ copying.from \in Node
        /\ copying.to \in Alive(mem)
        /\ Begin(mem, copying.to, copying.from, n, TRUE)
    BY <1>12 DEF CopyNext, InPhase, Copying
  <2>2. copying.from \in Alive(mem)
    BY <2>1, PtrFacts, DummyFacts DEF TreeInv, CopySound
  <2> QED
    BY <2>1, <2>2, <1>2, BeginTracks
<1> QED
  BY <1>3, <1>5, <1>7, <1>8, <1>9, <1>10, <1>11, <1>12 DEF CopyStep

(* No other call is made while a copy is under way. *)
LEMMA CallsStandAlone ==
  ASSUME Removal \/ Rearrange \/ \E n \in Fresh(mem), x \in Data : NewNode(n, x)
  PROVE  copying' = Null
<1>1. \A m : Call(m) => copying' = Null
  BY DEF Call
<1>2. CASE Removal
  BY <1>1, <1>2 DEF Removal, Clear, Erase, EraseChildren
<1>3. CASE Rearrange
  BY <1>1, <1>3 DEF Rearrange, Flatten, SwapWithNext, MoveAfter, MoveBefore, ReplaceData,
                    Reparent, ReparentAll, MoveOntop, Swap
<1>4. ASSUME NEW n \in Fresh(mem), NEW x \in Data, NewNode(n, x) PROVE copying' = Null
  BY <1>1, <1>4 DEF NewNode, SetHead, InsertAtEndMoved, AppendChild, PrependChild,
                    InsertAtEnd, Insert, InsertAfter, Wrap
<1> QED
  BY <1>2, <1>3, <1>4

LEMMA NextFollows ==
  ASSUME TreeInv, Orderly(mem), CopyInv, [Next]_vars
  PROVE  CopyInv'
<1>1. copying' = Null => CopyInv'
  BY DEF CopyInv, CopyFollows
<1>2. CASE UNCHANGED vars
  BY <1>2 DEF vars, CopyInv
<1>3. CASE StartCopy
  BY <1>3, StartCopyFollows
<1>4. CASE CopyStep
  BY <1>4, CopyStepFollows
<1>5. CASE Removal \/ Rearrange \/ \E n \in Fresh(mem), x \in Data : NewNode(n, x)
  BY <1>1, <1>5, CallsStandAlone
<1> QED
  BY <1>2, <1>3, <1>4, <1>5 DEF Next

(* What is copied so far of a subtree is, at every moment, node for node    *)
(* what the loop of replace (tree.hh) has walked past: every node it has    *)
(* left for good has all its children, those on the way down to `to' the    *)
(* first ones.                                                              *)
THEOREM CopiesAreTracked == Spec => []CopyInv
<1>1. Init => CopyInv
  BY DEF Init, CopyInv, CopyFollows
<1>2. TreeInv /\ Orderly(mem) /\ CopyInv /\ [Next]_vars => CopyInv'
  BY NextFollows
<1> QED
  BY <1>1, <1>2, ListsStayInOrder, PTL DEF Spec

LEMMA CompleteIsFaithful ==
  ASSUME TreeInv, Orderly(mem), CopyInv
  PROVE  CopyIsFaithful
<1> SUFFICES ASSUME InPhase("done") PROVE CopyIsFaithful
  BY DEF CopyIsFaithful
<1>1. PICK k : Arranged(mem, {}, k)
  BY DEF Orderly
<1>2. Stored(mem, k) /\ Kids(mem) = k /\ Sound(mem)
  BY <1>1, KidsOf DEF Stored, TreeInv
<1>3. CopyComplete(mem, k, copying)
  BY <1>1 DEF CopyInv, CopyFollows, InPhase, Copying
<1> DEFINE top == copying.top
           start == copying.start
<1>4. PICK K, D, g : /\ Copies(mem, k, top, start, K, D, g)
                     /\ \A x \in K : Len(k[x]) = Len(k[g[x]])
  BY <1>3 DEF CopyComplete
<1>5. /\ K \in SUBSET Alive(mem) /\ D \in SUBSET Alive(mem) /\ g \in [K -> D]
      /\ top \in K /\ start \in D /\ g[top] = start
      /\ \A x \in Alive(mem) : /\ mem[x].parent \in K => x \in K
                               /\ mem[x].parent \in D => x \in D
      /\ \A x \in K \ {top} : mem[x].parent \in K
      /\ \A x \in D \ {start} : mem[x].parent \in D
  BY <1>4 DEF Copies
<1>6. /\ \A x \in K : mem[x].data = mem[g[x]].data
      /\ \A x \in K : \A i \in 1..Len(k[x]) : g[k[x][i]] = k[g[x]][i]
  BY <1>4 DEF Copies
<1>7. Under(k, top) = K /\ Under(k, start) = D
  <2>1. Subtree(mem, top) = K /\ Subtree(mem, start) = D
    BY <1>2, <1>5, ClosedSubtree
  <2>2. Under(k, top) = Subtree(mem, top) /\ Under(k, start) = Subtree(mem, start)
    BY <1>1, <1>5, UnderIsSubtree
  <2> QED
    BY <2>1, <2>2
<1>8. ASSUME NEW x \in K
      PROVE  k[g[x]] = [i \in DOMAIN k[x] |-> g[k[x][i]]]
  <2> DEFINE u == k[x]
             v == k[g[x]]
  <2>1. u \in Seq(Node) /\ v \in Seq(Node)
    BY <1>2, <1>5, StoredFacts
  <2>2. Len(u) = Len(v) /\ \A i \in 1..Len(u) : g[u[i]] = v[i]
    BY <1>4, <1>6
  <2> HIDE DEF u, v
  <2>3. DOMAIN u = 1..Len(u) /\ v = [i \in 1..Len(v) |-> v[i]]
    BY <2>1
  <2>4. v = [i \in DOMAIN u |-> g[u[i]]]
    BY <2>2, <2>3
  <2> QED
    BY <2>4 DEF u, v
<1>9. g \in [Under(k, top) -> Under(k, start)] /\ DOMAIN g = K
  BY <1>5, <1>7
<1>10. /\ g[top] = start
       /\ \A n \in DOMAIN g : /\ mem[n].data = mem[g[n]].data
                              /\ k[g[n]] = [i \in DOMAIN k[n] |-> g[k[n][i]]]
  BY <1>5, <1>6, <1>8, <1>9
<1> DEFINE Same(l, of) ==
             /\ of[copying.top] = copying.start
             /\ \A n \in DOMAIN of : /\ mem[n].data = mem[of[n]].data
                                     /\ l[of[n]] = [i \in DOMAIN l[n] |-> of[l[n][i]]]
           All(l) == [Under(l, copying.top) -> Under(l, copying.start)]
<1>11. Same(k, g) /\ g \in All(k)
  BY <1>9, <1>10
<1>12. \E of \in All(Kids(mem)) : Same(Kids(mem), of)
  <2> HIDE DEF Same, All
  <2> QED
    BY <1>2, <1>11
<1> QED
  BY <1>12 DEF CopyIsFaithful

(* A copy that is complete is faithful: replace() and the calls around it   *)
(* (append_child, insert_subtree ...) return a tree with the same data, the *)
(* same children in the same order, node for node, however large it is.     *)
THEOREM CopiesAreFaithful == Spec => []CopyIsFaithful
  BY ListsStayInOrder, CopiesAreTracked, CompleteIsFaithful, PTL

(* What append_child, insert, reparent, swap, wrap, flatten, erase and the  *)
(* other calls of tree.hh are documented to do to the children of every     *)
(* node, they do in every tree that calls can lead to, of any size, and     *)
(* what they copy is copied faithfully.                                     *)
THEOREM CallsKeepTheirWord == Spec => []CallsDoWhatTheySay
  BY ListsStayInOrder, CopiesAreFaithful, OrderlyCalls, PTL
=============================================================================
