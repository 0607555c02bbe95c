--------------------------- MODULE DocumentProofs ---------------------------
(***************************************************************************)
(* Proofs about the notebook's document, its widgets, the queue of actions *)
(* and the undo stack, for notebooks, texts and numbers of operations of   *)
(* any size.                                                               *)
(***************************************************************************)
EXTENDS Document, SequenceTheorems, TLAPS

-----------------------------------------------------------------------------
(* Sequences with an element put in or taken out.                           *)

\* r is s with e put in at n.
IsInsertion(r, S, s, n, e) ==
  /\ r \in Seq(S) /\ Len(r) = Len(s) + 1
  /\ \A k \in 1..(Len(s) + 1) :
       r[k] = IF k < n THEN s[k] ELSE IF k = n THEN e ELSE s[k - 1]

LEMMA Insertion ==
  ASSUME NEW S, NEW s, NEW n, NEW e, s \in Seq(S), n \in 1..(Len(s) + 1), e \in S
  PROVE  IsInsertion(InsertAt(s, n, e), S, s, n, e)
<1> DEFINE a == SubSeq(s, 1, n - 1)
           b == SubSeq(s, n, Len(s))
           c == <<e>>
           p == (a \o c) \o b
<1>1. /\ a \in Seq(S) /\ Len(a) = n - 1 /\ Len(s) \in Nat /\ n \in Nat /\ n >= 1
      /\ \A k \in 1..(n - 1) : a[k] = s[k]
  OBVIOUS
<1>2. /\ b \in Seq(S) /\ Len(b) = Len(s) - n + 1
      /\ \A k \in 1..(Len(s) - n + 1) : b[k] = s[k + n - 1]
  OBVIOUS
<1>3. c \in Seq(S) /\ Len(c) = 1 /\ c[1] = e
  OBVIOUS
<1>4. InsertAt(s, n, e) = p
  BY DEF InsertAt
<1> HIDE DEF a, b, c
<1>5. /\ a \o c \in Seq(S) /\ Len(a \o c) = n
      /\ \A k \in 1..n : (a \o c)[k] = IF k < n THEN s[k] ELSE e
  <2>1. /\ a \o c \in Seq(S) /\ Len(a \o c) = Len(a) + Len(c)
        /\ \A k \in 1..(Len(a) + Len(c)) :
             (a \o c)[k] = IF k <= Len(a) THEN a[k] ELSE c[k - Len(a)]
    BY <1>1, <1>3, ConcatProperties
  <2>2. ASSUME NEW k \in 1..n
        PROVE  (a \o c)[k] = IF k < n THEN s[k] ELSE e
    <3>1. CASE k < n
      BY <1>1, <1>3, <2>1, <3>1
    <3>2. CASE ~(k < n)
      <4>1. k = n /\ k - Len(a) = 1 /\ ~(k <= Len(a)) /\ k \in 1..(Len(a) + Len(c))
        BY <1>1, <1>3, <3>2
      <4> QED
        BY <1>3, <2>1, <3>2, <4>1
    <3> QED
      BY <3>1, <3>2
  <2> QED
    BY <1>1, <1>3, <2>1, <2>2
<1> DEFINE d == a \o c
<1> HIDE DEF d
<1>6. /\ p \in Seq(S) /\ Len(p) = n + (Len(s) - n + 1)
      /\ \A k \in 1..(n + (Len(s) - n + 1)) : p[k] = IF k <= n THEN d[k] ELSE b[k - n]
  <2>1. d \in Seq(S) /\ Len(d) = n
    BY <1>5 DEF d
  <2>2. /\ d \o b \in Seq(S) /\ Len(d \o b) = Len(d) + Len(b)
        /\ \A k \in 1..(Len(d) + Len(b)) :
             (d \o b)[k] = IF k <= Len(d) THEN d[k] ELSE b[k - Len(d)]
    BY <1>2, <2>1, ConcatProperties
  <2> QED
    BY <1>2, <2>1, <2>2 DEF d
<1>7. ASSUME NEW k \in 1..(Len(s) + 1)
      PROVE  p[k] = IF k < n THEN s[k] ELSE IF k = n THEN e ELSE s[k - 1]
  <2>1. CASE k <= n
    BY <1>1, <1>5, <1>6, <2>1 DEF d
  <2>2. CASE ~(k <= n)
    <3>1. p[k] = b[k - n]
      BY <1>1, <1>6, <2>2
    <3>2. k - n \in 1..(Len(s) - n + 1) /\ (k - n) + n - 1 = k - 1
      BY <1>1, <2>2
    <3> QED
      BY <1>1, <1>2, <2>2, <3>1, <3>2
  <2> QED
    BY <2>1, <2>2
<1>8. IsInsertion(p, S, s, n, e)
  BY <1>1, <1>6, <1>7 DEF IsInsertion
<1> QED
  BY <1>4, <1>8

LEMMA InsertedElements ==
  ASSUME NEW S, NEW s \in Seq(S), NEW n \in 1..(Len(s) + 1), NEW e \in S
  PROVE  /\ InsertAt(s, n, e) \in Seq(S) /\ Len(InsertAt(s, n, e)) = Len(s) + 1
         /\ \A k \in 1..(Len(s) + 1) : InsertAt(s, n, e)[k] =
              IF k < n THEN s[k] ELSE IF k = n THEN e ELSE s[k - 1]
<1>1. IsInsertion(InsertAt(s, n, e), S, s, n, e)
  BY Insertion
<1> QED
  BY <1>1 DEF IsInsertion

LEMMA RemovedElements ==
  ASSUME NEW S, NEW s \in Seq(S), NEW n \in DOMAIN s
  PROVE  /\ RemoveAt(s, n) \in Seq(S) /\ Len(RemoveAt(s, n)) = Len(s) - 1
         /\ \A k \in 1..(Len(s) - 1) :
              RemoveAt(s, n)[k] = IF k < n THEN s[k] ELSE s[k + 1]
<1> DEFINE a == SubSeq(s, 1, n - 1)
           b == SubSeq(s, n + 1, Len(s))
           p == a \o b
<1>1. /\ a \in Seq(S) /\ Len(a) = n - 1 /\ Len(s) \in Nat /\ n \in 1..Len(s)
      /\ \A k \in 1..(n - 1) : a[k] = s[k]
  OBVIOUS
<1>2. /\ b \in Seq(S) /\ Len(b) = Len(s) - n
      /\ \A k \in 1..(Len(s) - n) : b[k] = s[k + n]
  OBVIOUS
<1>3. RemoveAt(s, n) = p
  BY DEF RemoveAt
<1> HIDE DEF a, b
<1>4. /\ p \in Seq(S) /\ Len(p) = (n - 1) + (Len(s) - n)
      /\ \A k \in 1..((n - 1) + (Len(s) - n)) :
           p[k] = IF k <= n - 1 THEN a[k] ELSE b[k - (n - 1)]
  <2>1. a \in Seq(S) /\ b \in Seq(S)
    BY <1>1, <1>2
  <2>2. /\ p \in Seq(S) /\ Len(p) = Len(a) + Len(b)
        /\ \A k \in 1..(Len(a) + Len(b)) :
             p[k] = IF k <= Len(a) THEN a[k] ELSE b[k - Len(a)]
    BY <2>1, ConcatProperties, SMTT(60)
  <2> HIDE DEF p
  <2> QED
    BY <1>1, <1>2, <2>2
<1> HIDE DEF p
<1>5. ASSUME NEW k \in 1..(Len(s) - 1)
      PROVE  p[k] = IF k < n THEN s[k] ELSE s[k + 1]
  <2>1. CASE k < n
    BY <1>1, <1>4, <2>1
  <2>2. CASE ~(k < n)
    <3>1. k \in 1..((n - 1) + (Len(s) - n)) /\ ~(k <= n - 1)
      BY <1>1, <2>2
    <3>2. p[k] = b[k - (n - 1)]
      BY <1>4, <3>1
    <3>3. k - (n - 1) \in 1..(Len(s) - n) /\ k - (n - 1) + n = k + 1
      BY <1>1, <2>2
    <3> QED
      BY <1>1, <1>2, <2>2, <3>2, <3>3
  <2> QED
    BY <2>1, <2>2
<1> QED
  BY <1>1, <1>3, <1>4, <1>5

\* What is put in is taken out again.
LEMMA RemovalOfInserted ==
  ASSUME NEW S, NEW s \in Seq(S), NEW n \in 1..(Len(s) + 1), NEW e \in S
  PROVE  RemoveAt(InsertAt(s, n, e), n) = s
<1> DEFINE p == InsertAt(s, n, e)
           r == RemoveAt(p, n)
<1>1. /\ p \in Seq(S) /\ Len(p) = Len(s) + 1 /\ Len(s) \in Nat
      /\ \A k \in 1..(Len(s) + 1) :
           p[k] = IF k < n THEN s[k] ELSE IF k = n THEN e ELSE s[k - 1]
  BY InsertedElements
<1> HIDE DEF p
<1>2. n \in DOMAIN p
  BY <1>1
<1>3. /\ r \in Seq(S) /\ Len(r) = Len(p) - 1
      /\ \A k \in 1..(Len(p) - 1) : r[k] = IF k < n THEN p[k] ELSE p[k + 1]
  BY <1>1, <1>2, RemovedElements
<1> HIDE DEF r
<1>4. Len(r) = Len(s)
  BY <1>1, <1>3
<1>5. ASSUME NEW k \in 1..Len(s)
      PROVE  r[k] = s[k]
  <2>1. CASE k < n
    BY <1>1, <1>3, <2>1
  <2>2. CASE ~(k < n)
    <3>1. r[k] = p[k + 1] /\ k + 1 \in 1..(Len(s) + 1) /\ (k + 1) - 1 = k
      BY <1>1, <1>3, <2>2
    <3> QED
      BY <1>1, <2>2, <3>1
  <2> QED
    BY <2>1, <2>2
<1>6. r = s
  BY <1>3, <1>4, <1>5, SeqEqual
<1> QED
  BY <1>6 DEF r, p

-----------------------------------------------------------------------------
(* Texts.                                                                   *)

LEMMA Parts ==
  ASSUME NEW S, NEW u \in Seq(S), NEW v \in Seq(S)
  PROVE  /\ u \o v \in Seq(S) /\ Len(u \o v) = Len(u) + Len(v)
         /\ SubSeq(u \o v, 1, Len(u)) = u
         /\ SubSeq(u \o v, Len(u) + 1, Len(u \o v)) = v
<1> DEFINE w == u \o v
           a == SubSeq(w, 1, Len(u))
           b == SubSeq(w, Len(u) + 1, Len(w))
<1>1. /\ w \in Seq(S) /\ Len(w) = Len(u) + Len(v) /\ Len(u) \in Nat /\ Len(v) \in Nat
      /\ \A k \in 1..(Len(u) + Len(v)) : w[k] = IF k <= Len(u) THEN u[k] ELSE v[k - Len(u)]
  BY ConcatProperties
<1> HIDE DEF w
<1>2. /\ a \in Seq(S) /\ Len(a) = Len(u)
      /\ \A k \in 1..Len(u) : a[k] = w[k]
  BY <1>1
<1>3. /\ b \in Seq(S) /\ Len(b) = Len(v)
      /\ \A k \in 1..Len(v) : b[k] = w[Len(u) + k]
  BY <1>1
<1> HIDE DEF a, b
<1>4. a = u
  <2>1. \A k \in 1..Len(a) : a[k] = u[k]
    BY <1>1, <1>2
  <2> QED
    BY <1>2, <2>1, SeqEqual
<1>5. b = v
  <2>1. ASSUME NEW k \in 1..Len(b)
        PROVE  b[k] = v[k]
    <3>1. /\ Len(u) + k \in 1..(Len(u) + Len(v)) /\ ~(Len(u) + k <= Len(u))
          /\ (Len(u) + k) - Len(u) = k
      BY <1>1, <1>3
    <3> QED
      BY <1>1, <1>3, <3>1
  <2> QED
    BY <1>3, <2>1, SeqEqual
<1> QED
  BY <1>1, <1>4, <1>5 DEF a, b, w

LEMMA Cut ==
  ASSUME NEW S, NEW t \in Seq(S), NEW p \in 0..Len(t)
  PROVE  /\ SubSeq(t, 1, p) \in Seq(S) /\ Len(SubSeq(t, 1, p)) = p
         /\ SubSeq(t, p + 1, Len(t)) \in Seq(S)
         /\ Len(SubSeq(t, p + 1, Len(t))) = Len(t) - p
         /\ SubSeq(t, 1, p) \o SubSeq(t, p + 1, Len(t)) = t
<1>1. /\ SubSeq(t, 1, p) \in Seq(S) /\ Len(SubSeq(t, 1, p)) = p
      /\ SubSeq(t, p + 1, Len(t)) \in Seq(S)
      /\ Len(SubSeq(t, p + 1, Len(t))) = Len(t) - p
  OBVIOUS
<1>2. 1 \in 1..(Len(t) + 1) /\ p \in (1 - 1)..Len(t) /\ Len(t) \in p..Len(t)
  OBVIOUS
<1>3. SubSeq(t, 1, p) \o SubSeq(t, p + 1, Len(t)) = SubSeq(t, 1, Len(t))
  BY <1>2, ConcatAdjacentSubSeq
<1> QED
  BY <1>1, <1>3, SubSeqFull

\* Text that was inserted is erased again.
LEMMA InsertedText ==
  ASSUME NEW S, NEW t \in Seq(S), NEW p \in 0..Len(t), NEW s \in Seq(S)
  PROVE  /\ Inserted(t, p, s) \in Seq(S) /\ Len(Inserted(t, p, s)) = Len(t) + Len(s)
         /\ Erased(Inserted(t, p, s), p, p + Len(s)) = t
<1> DEFINE a == SubSeq(t, 1, p)
           b == SubSeq(t, p + 1, Len(t))
           c == a \o s
           w == c \o b
<1>1. /\ a \in Seq(S) /\ Len(a) = p /\ b \in Seq(S) /\ Len(b) = Len(t) - p /\ a \o b = t
      /\ p \in Nat /\ Len(s) \in Nat /\ Len(t) \in Nat
  <2>1. /\ a \in Seq(S) /\ Len(a) = p /\ b \in Seq(S) /\ Len(b) = Len(t) - p
        /\ a \o b = t
    BY Cut
  <2>2. Len(t) \in Nat /\ Len(s) \in Nat
    BY LenProperties
  <2>3. p \in Nat
    BY <2>2
  <2> QED
    BY <2>1, <2>2, <2>3, Zenon
<1>2. Inserted(t, p, s) = w
  BY DEF Inserted
<1> HIDE DEF a, b
<1>3. c \in Seq(S) /\ Len(c) = p + Len(s)
  <2>1. c \in Seq(S) /\ Len(c) = Len(a) + Len(s)
    <3>1. a \in Seq(S)
      BY <1>1
    <3> QED
      BY <3>1, Parts
  <2> QED
    BY <1>1, <2>1
<1>4. s \o b \in Seq(S)
  BY <1>1, Parts
<1>5. w = a \o (s \o b)
  <2>1. a \in Seq(S) /\ b \in Seq(S)
    BY <1>1
  <2> QED
    BY <2>1, ConcatAssociative
<1>6. SubSeq(w, 1, p) = a
  BY <1>1, <1>4, <1>5, Parts
<1> HIDE DEF c
<1>7. /\ w \in Seq(S) /\ Len(w) = Len(t) + Len(s)
      /\ SubSeq(w, p + Len(s) + 1, Len(w)) = b
  <2>1. /\ w \in Seq(S) /\ Len(w) = Len(c) + Len(b)
        /\ SubSeq(w, Len(c) + 1, Len(w)) = b
    <3>1. c \in Seq(S) /\ b \in Seq(S)
      BY <1>1, <1>3
    <3> QED
      BY <3>1, Parts
  <2>2. Len(c) + Len(b) = Len(t) + Len(s)
    BY <1>1, <1>3
  <2> HIDE DEF w
  <2> QED
    BY <1>3, <2>1, <2>2
<1>8. Erased(w, p, p + Len(s)) = a \o b
  BY <1>6, <1>7 DEF Erased
<1> QED
  BY <1>1, <1>2, <1>7, <1>8

\* Text that was erased is inserted again.
LEMMA ErasedText ==
  ASSUME NEW S, NEW t \in Seq(S), NEW p \in 0..Len(t), NEW to \in Nat, p <= to,
         NEW n \in Nat, n = IF to < Len(t) THEN to ELSE Len(t)
  PROVE  /\ Erased(t, p, to) \in Seq(S) /\ Len(Erased(t, p, to)) = Len(t) - (n - p)
         /\ p <= Len(Erased(t, p, to))
         /\ SubSeq(t, p + 1, n) \in Seq(S)
         /\ Inserted(Erased(t, p, to), p, SubSeq(t, p + 1, n)) = t
<1> DEFINE a == SubSeq(t, 1, p)
           r == SubSeq(t, p + 1, n)
           b == SubSeq(t, n + 1, Len(t))
           w == a \o b
<1>1. p \in Nat /\ Len(t) \in Nat /\ n \in p..Len(t)
  OBVIOUS
<1>2. a \in Seq(S) /\ Len(a) = p
  BY Cut
<1>3. b \in Seq(S) /\ Len(b) = Len(t) - n
  <2>1. n \in 0..Len(t)
    BY <1>1
  <2> QED
    BY <2>1, Cut
<1>4. r \in Seq(S) /\ Len(r) = n - p
  BY <1>1
<1>5. SubSeq(t, to + 1, Len(t)) = b
  <2>1. CASE to < Len(t)
    BY <2>1
  <2>2. CASE ~(to < Len(t))
    <3>1. Len(t) < to + 1 /\ Len(t) < n + 1 /\ to + 1 \in Int /\ n + 1 \in Int /\ Len(t) \in Int
      BY <2>2
    <3> QED
      BY <3>1, SubSeqEmpty
  <2> QED
    BY <2>1, <2>2
<1>6. Erased(t, p, to) = w
  BY <1>5 DEF Erased
<1>7. a \o (r \o b) = t
  <2>1. r \o b = SubSeq(t, p + 1, Len(t))
    <3>1. /\ p + 1 \in 1..(Len(t) + 1) /\ n \in ((p + 1) - 1)..Len(t)
          /\ Len(t) \in n..Len(t)
      BY <1>1
    <3> QED
      BY <3>1, ConcatAdjacentSubSeq
  <2> QED
    BY <2>1, Cut
<1> HIDE DEF a, b, r
<1>8. /\ w \in Seq(S) /\ Len(w) = p + (Len(t) - n) /\ SubSeq(w, 1, p) = a
      /\ SubSeq(w, p + 1, Len(w)) = b
  <2>1. /\ w \in Seq(S) /\ Len(w) = Len(a) + Len(b) /\ SubSeq(w, 1, Len(a)) = a
        /\ SubSeq(w, Len(a) + 1, Len(w)) = b
    <3>1. a \in Seq(S) /\ b \in Seq(S)
      BY <1>2, <1>3
    <3> QED
      BY <3>1, Parts
  <2> QED
    BY <1>2, <1>3, <2>1
<1>9. (a \o r) \o b = a \o (r \o b)
  <2>1. a \in Seq(S) /\ r \in Seq(S) /\ b \in Seq(S)
    BY <1>2, <1>3, <1>4
  <2> QED
    BY <2>1, ConcatAssociative
<1>10. Inserted(w, p, r) = t
  BY <1>7, <1>8, <1>9 DEF Inserted
<1> QED
  BY <1>1, <1>4, <1>6, <1>8, <1>10 DEF r

\* A text is set by erasing the old one and inserting the new one.
LEMMA TextSet ==
  ASSUME NEW S, NEW t \in Seq(S), NEW n \in Nat, Len(t) <= n
  PROVE  /\ Erased(t, 0, n) = <<>> /\ Inserted(<<>>, 0, t) = t
<1>1. SubSeq(t, 1, 0) = <<>> /\ SubSeq(t, n + 1, Len(t)) = <<>>
  BY SubSeqEmpty
<1>2. SubSeq(<<>>, 1, 0) = <<>> /\ SubSeq(<<>>, 0 + 1, 0) = <<>>
  BY SubSeqEmpty
<1>3. <<>> \in Seq(S) /\ Len(<<>>) = 0
  BY EmptySeq
<1>4. <<>> \o t = t /\ t \o <<>> = t /\ <<>> \o <<>> = <<>>
  BY <1>3, ConcatEmptySeq
<1> QED
  BY <1>1, <1>2, <1>3, <1>4 DEF Erased, Inserted

-----------------------------------------------------------------------------
(* The document and its widgets.                                            *)

Cells == [addr : Address, text : Seq(Char), kids : Seq(OutputCell)]
Boxes == [addr : Address, buffer : Seq(Char), kids : Seq(Address)]

\* The outputs of a cell and their widgets.
Twins(k, w, n) ==
  /\ Len(w) = Len(k)
  /\ \A j \in DOMAIN k : w[j] = k[j].addr /\ k[j].addr <= n
  /\ \A j, l \in DOMAIN k : k[j].addr = k[l].addr => j = l

\* A document and widgets that mirror it; no two siblings have one address, and
\* the addresses after n are free.
Shape(d, v, n) ==
  /\ d \in Seq(Cells) /\ v \in Seq(Boxes) /\ n \in Nat
  /\ Len(v) = Len(d)
  /\ \A i \in DOMAIN d : /\ v[i].addr = d[i].addr /\ d[i].addr <= n
                         /\ Twins(d[i].kids, v[i].kids, n)
  /\ \A i, k \in DOMAIN d : d[i].addr = d[k].addr => i = k

LEMMA KidAdded ==
  ASSUME NEW k \in Seq(OutputCell), NEW w \in Seq(Address), NEW n \in Nat,
         Twins(k, w, n), n + 1 \in Address, NEW t \in Nat
  PROVE  LET e == [addr |-> n + 1, text |-> t] IN
         /\ Append(k, e) \in Seq(OutputCell)
         /\ InsertAt(w, Len(k) + 1, n + 1) \in Seq(Address)
         /\ Twins(Append(k, e), InsertAt(w, Len(k) + 1, n + 1), n + 1)
<1> DEFINE e  == [addr |-> n + 1, text |-> t]
           k1 == Append(k, e)
           w1 == InsertAt(w, Len(k) + 1, n + 1)
<1>1. Len(w) = Len(k) /\ Len(k) \in Nat /\ e \in OutputCell
  BY DEF Twins, OutputCell
<1>2. /\ k1 \in Seq(OutputCell) /\ Len(k1) = Len(k) + 1
      /\ \A j \in 1..(Len(k) + 1) : k1[j] = IF j <= Len(k) THEN k[j] ELSE e
  BY <1>1
<1>3. /\ w1 \in Seq(Address) /\ Len(w1) = Len(k) + 1
      /\ \A j \in 1..(Len(k) + 1) : w1[j] = IF j <= Len(k) THEN w[j] ELSE n + 1
  <2> DEFINE m == Len(k) + 1
             a == n + 1
             w2 == InsertAt(w, m, a)
  <2>1. m \in 1..(Len(w) + 1) /\ a \in Address
    BY <1>1
  <2>2. w1 = w2
    OBVIOUS
  <2> HIDE DEF m, a, w1
  <2>3. /\ w2 \in Seq(Address) /\ Len(w2) = Len(w) + 1
        /\ \A j \in 1..(Len(w) + 1) : w2[j] =
             IF j < m THEN w[j] ELSE IF j = m THEN a ELSE w[j - 1]
    BY <2>1, InsertedElements
  <2> HIDE DEF w2
  <2> QED
    BY <1>1, <2>2, <2>3 DEF m, a
<1> HIDE DEF k1, w1
<1>4. \A j \in 1..Len(k) : w[j] = k[j].addr /\ k[j].addr <= n /\ k[j].addr \in Int
  <2>1. DOMAIN k = 1..Len(k) /\ \A j \in 1..Len(k) : k[j] \in OutputCell
    OBVIOUS
  <2>2. \A j \in 1..Len(k) : w[j] = k[j].addr /\ k[j].addr <= n
    BY <2>1 DEF Twins
  <2> QED
    BY <2>1, <2>2 DEF OutputCell, Address
<1>5. \A j, l \in 1..Len(k) : k[j].addr = k[l].addr => j = l
  BY DEF Twins
<1> HIDE DEF e
<1>6. e.addr = n + 1
  BY DEF e
<1>7. ASSUME NEW j \in 1..(Len(k) + 1)
      PROVE  /\ w1[j] = k1[j].addr /\ k1[j].addr <= n + 1
             /\ k1[j].addr = n + 1 <=> j = Len(k) + 1
             /\ j <= Len(k) => k1[j] = k[j]
  BY <1>1, <1>2, <1>3, <1>4, <1>6
<1>8. ASSUME NEW j \in 1..(Len(k) + 1), NEW l \in 1..(Len(k) + 1),
             k1[j].addr = k1[l].addr
      PROVE  j = l
  <2>1. CASE j = Len(k) + 1
    BY <1>7, <1>8, <2>1
  <2>2. CASE j # Len(k) + 1
    <3>1. l # Len(k) + 1
      BY <1>7, <1>8, <2>2
    <3>2. j \in 1..Len(k) /\ l \in 1..Len(k)
      BY <1>1, <2>2, <3>1
    <3> QED
      BY <1>5, <1>7, <1>8, <3>2
  <2> QED
    BY <2>1, <2>2
<1>9. Twins(k1, w1, n + 1)
  BY <1>1, <1>2, <1>3, <1>7, <1>8 DEF Twins
<1> QED
  BY <1>2, <1>3, <1>9 DEF k1, w1, e

LEMMA KidRemoved ==
  ASSUME NEW k \in Seq(OutputCell), NEW w \in Seq(Address), NEW n \in Nat,
         Twins(k, w, n), NEW j \in DOMAIN k
  PROVE  /\ RemoveAt(k, j) \in Seq(OutputCell) /\ RemoveAt(w, j) \in Seq(Address)
         /\ Twins(RemoveAt(k, j), RemoveAt(w, j), n)
<1> DEFINE k1 == RemoveAt(k, j)
           w1 == RemoveAt(w, j)
<1>1. Len(w) = Len(k) /\ Len(k) \in Nat /\ j \in 1..Len(k)
  BY DEF Twins
<1>2. /\ k1 \in Seq(OutputCell) /\ Len(k1) = Len(k) - 1
      /\ \A l \in 1..(Len(k) - 1) : k1[l] = IF l < j THEN k[l] ELSE k[l + 1]
  BY RemovedElements
<1>3. /\ w1 \in Seq(Address) /\ Len(w1) = Len(w) - 1
      /\ \A l \in 1..(Len(w) - 1) : w1[l] = IF l < j THEN w[l] ELSE w[l + 1]
  <2>1. j \in DOMAIN w
    BY <1>1
  <2> QED
    BY <2>1, RemovedElements
<1> HIDE DEF k1, w1
<1> DEFINE at(l) == IF l < j THEN l ELSE l + 1
<1>4. \A l \in 1..(Len(k) - 1) : /\ at(l) \in 1..Len(k) /\ k1[l] = k[at(l)]
                                 /\ w1[l] = w[at(l)]
  BY <1>1, <1>2, <1>3
<1>5. \A l, m \in 1..(Len(k) - 1) : at(l) = at(m) => l = m
  BY <1>1
<1> HIDE DEF at
<1>6. \A l \in 1..Len(k) : w[l] = k[l].addr /\ k[l].addr <= n
  BY DEF Twins
<1>7. \A l, m \in 1..Len(k) : k[l].addr = k[m].addr => l = m
  BY DEF Twins
<1>8. \A l \in 1..(Len(k) - 1) : w1[l] = k1[l].addr /\ k1[l].addr <= n
  BY <1>4, <1>6
<1>9. \A l, m \in 1..(Len(k) - 1) : k1[l].addr = k1[m].addr => l = m
  BY <1>4, <1>5, <1>7
<1>10. Twins(k1, w1, n)
  <2>1. Len(w1) = Len(k1) /\ DOMAIN k1 = 1..(Len(k) - 1)
    BY <1>1, <1>2, <1>3
  <2> QED
    BY <1>8, <1>9, <2>1 DEF Twins
<1> QED
  BY <1>2, <1>3, <1>10 DEF k1, w1

LEMMA AddressesAreNumbers == Address \subseteq Nat
BY DocumentBounds DEF Address

LEMMA CellTypes ==
  ASSUME NEW x \in Cells
  PROVE  /\ x.addr \in Address /\ x.addr \in Nat /\ x.text \in Seq(Char)
         /\ x.kids \in Seq(OutputCell)
         /\ \A j \in DOMAIN x.kids : x.kids[j].addr \in Address /\ x.kids[j].addr \in Nat
<1>1. x.addr \in Address /\ x.text \in Seq(Char) /\ x.kids \in Seq(OutputCell)
  BY DEF Cells
<1>2. \A j \in DOMAIN x.kids : x.kids[j] \in OutputCell
  BY <1>1
<1>3. \A j \in DOMAIN x.kids : x.kids[j].addr \in Address
  BY <1>2 DEF OutputCell
<1> QED
  BY <1>1, <1>3, AddressesAreNumbers

LEMMA Indexed ==
  ASSUME NEW d, NEW c, HasCell(d, c)
  PROVE  Index(d, c) \in DOMAIN d /\ d[Index(d, c)].addr = c
BY DEF HasCell, Index

LEMMA IndexOf ==
  ASSUME NEW d, NEW v, NEW n, Shape(d, v, n), NEW i \in DOMAIN d
  PROVE  /\ HasCell(d, d[i].addr) /\ Index(d, d[i].addr) = i
         /\ HasCell(v, d[i].addr) /\ Index(v, d[i].addr) = i
<1>1. DOMAIN v = DOMAIN d
  BY DEF Shape
<1>2. \A k \in DOMAIN d : v[k].addr = d[k].addr /\ (d[i].addr = d[k].addr => i = k)
  BY DEF Shape
<1> QED
  BY <1>1, <1>2 DEF HasCell, Index

LEMMA SameCells ==
  ASSUME NEW d, NEW v, NEW n, Shape(d, v, n), NEW c
  PROVE  /\ HasCell(v, c) <=> HasCell(d, c)
         /\ HasCell(d, c) => /\ Index(v, c) = Index(d, c)
                             /\ Index(d, c) \in DOMAIN d /\ Index(d, c) \in DOMAIN v
                             /\ d[Index(d, c)].addr = c /\ v[Index(d, c)].addr = c
                             /\ c <= n /\ c \in Address /\ c \in Widgets(v)
<1>1. DOMAIN v = DOMAIN d /\ \A k \in DOMAIN d : v[k].addr = d[k].addr
  BY DEF Shape
<1>2. HasCell(v, c) <=> HasCell(d, c)
  BY <1>1 DEF HasCell
<1>3. ASSUME HasCell(d, c)
      PROVE  /\ Index(v, c) = Index(d, c)
             /\ Index(d, c) \in DOMAIN d /\ Index(d, c) \in DOMAIN v
             /\ d[Index(d, c)].addr = c /\ v[Index(d, c)].addr = c
             /\ c <= n /\ c \in Address /\ c \in Widgets(v)
  <2>1. PICK i \in DOMAIN d : d[i].addr = c
    BY <1>3 DEF HasCell
  <2>2. Index(d, c) = i /\ Index(v, c) = i
    BY <2>1, IndexOf
  <2>3. c <= n
    BY <2>1 DEF Shape
  <2>4. c \in Address
    <3>1. d[i] \in Cells
      BY <2>1 DEF Shape
    <3> QED
      BY <2>1, <3>1 DEF Cells
  <2>5. c \in Widgets(v)
    BY <1>1, <2>1 DEF Widgets
  <2> QED
    BY <1>1, <2>1, <2>2, <2>3, <2>4, <2>5
<1> QED
  BY <1>2, <1>3

\* A change of one cell and its widget that leaves the address.
Changed(d, v, n, i, d1, v1, m) ==
  /\ i \in DOMAIN d /\ d1 \in Seq(Cells) /\ v1 \in Seq(Boxes)
  /\ Len(d1) = Len(d) /\ Len(v1) = Len(d) /\ m \in Nat /\ n <= m
  /\ d1[i].addr = d[i].addr /\ v1[i].addr = d[i].addr
  /\ Twins(d1[i].kids, v1[i].kids, m)
  /\ \A k \in DOMAIN d : k # i => d1[k] = d[k] /\ v1[k] = v[k]

LEMMA CellChanged ==
  ASSUME NEW d, NEW v, NEW n, NEW i, NEW d1, NEW v1, NEW m,
         Shape(d, v, n), Changed(d, v, n, i, d1, v1, m)
  PROVE  /\ Shape(d1, v1, m)
         /\ \A c : (HasCell(d1, c) <=> HasCell(d, c)) /\ Index(d1, c) = Index(d, c)
<1>1. /\ d \in Seq(Cells) /\ v \in Seq(Boxes) /\ n \in Nat
      /\ Len(v) = Len(d) /\ DOMAIN d = 1..Len(d) /\ DOMAIN v = 1..Len(d)
      /\ \A k \in DOMAIN d : /\ v[k].addr = d[k].addr /\ d[k].addr <= n
                             /\ Twins(d[k].kids, v[k].kids, n)
      /\ \A k, l \in DOMAIN d : d[k].addr = d[l].addr => k = l
  BY DEF Shape
<1>0. /\ i \in DOMAIN d /\ d1 \in Seq(Cells) /\ v1 \in Seq(Boxes)
      /\ Len(d1) = Len(d) /\ Len(v1) = Len(d) /\ m \in Nat /\ n <= m
      /\ d1[i].addr = d[i].addr /\ v1[i].addr = d[i].addr
      /\ Twins(d1[i].kids, v1[i].kids, m)
      /\ \A k \in DOMAIN d : k # i => d1[k] = d[k] /\ v1[k] = v[k]
  BY DEF Changed
<1>2. DOMAIN d1 = DOMAIN d
  BY <1>0, <1>1
<1>4. \A k \in DOMAIN d : d1[k].addr = d[k].addr /\ v1[k].addr = d[k].addr
  BY <1>0, <1>1
<1>5. ASSUME NEW k \in DOMAIN d
      PROVE  d[k].addr <= m /\ Twins(d1[k].kids, v1[k].kids, m)
  <2>1. d[k].addr \in Int
    <3>1. d[k] \in Cells
      BY <1>1
    <3> QED
      BY <3>1, CellTypes
  <2>2. d[k].addr <= m
    BY <1>0, <1>1, <2>1
  <2>3. CASE k = i
    BY <1>0, <2>2, <2>3
  <2>4. CASE k # i
    <3>1. d1[k] = d[k] /\ v1[k] = v[k]
      BY <1>0, <2>4
    <3>2. Twins(d[k].kids, v[k].kids, n)
      BY <1>1
    <3>3. \A j \in DOMAIN d[k].kids : d[k].kids[j].addr \in Int
      <4>1. d[k] \in Cells
        BY <1>1
      <4> QED
        BY <4>1, CellTypes
    <3>4. \A j \in DOMAIN d[k].kids : d[k].kids[j].addr <= m
      BY <1>0, <1>1, <3>2, <3>3 DEF Twins
    <3> QED
      BY <2>2, <3>1, <3>2, <3>4 DEF Twins
  <2> QED
    BY <2>3, <2>4
<1>6. Shape(d1, v1, m)
  <2>1. \A k \in DOMAIN d1 : /\ v1[k].addr = d1[k].addr /\ d1[k].addr <= m
                             /\ Twins(d1[k].kids, v1[k].kids, m)
    BY <1>2, <1>4, <1>5
  <2>2. \A k, l \in DOMAIN d1 : d1[k].addr = d1[l].addr => k = l
    BY <1>1, <1>2, <1>4
  <2> QED
    BY <1>0, <1>1, <2>1, <2>2 DEF Shape
<1>7. ASSUME NEW c
      PROVE  (HasCell(d1, c) <=> HasCell(d, c)) /\ Index(d1, c) = Index(d, c)
  BY <1>2, <1>4 DEF HasCell, Index
<1> QED
  BY <1>6, <1>7

\* A cell is put in, at an address that was free.
LEMMA CellAdded ==
  ASSUME NEW d, NEW v, NEW n, Shape(d, v, n), n + 1 \in Address,
         NEW i \in 1..(Len(d) + 1), NEW t \in Seq(Char)
  PROVE  LET d1 == InsertAt(d, i, Input(n + 1, t))
             v1 == InsertAt(v, i, InputWidget(n + 1, t)) IN
         /\ Shape(d1, v1, n + 1)
         /\ i \in DOMAIN d1 /\ d1[i] = Input(n + 1, t) /\ v1[i] = InputWidget(n + 1, t)
         /\ \A k \in DOMAIN d1 : k # i =>
              \E l \in DOMAIN d : d1[k] = d[l] /\ v1[k] = v[l]
         /\ \A k \in DOMAIN d :
              \E l \in DOMAIN d1 : d1[l] = d[k] /\ v1[l] = v[k]
         /\ \A c : HasCell(d1, c) <=> HasCell(d, c) \/ c = n + 1
         /\ Len(d1) = Len(d) + 1
<1> DEFINE x  == Input(n + 1, t)
           y  == InputWidget(n + 1, t)
           d1 == InsertAt(d, i, x)
           v1 == InsertAt(v, i, y)
<1>1. /\ d \in Seq(Cells) /\ v \in Seq(Boxes) /\ n \in Nat
      /\ Len(v) = Len(d) /\ DOMAIN d = 1..Len(d) /\ Len(d) \in Nat
      /\ \A k \in DOMAIN d : /\ v[k].addr = d[k].addr /\ d[k].addr <= n
                             /\ Twins(d[k].kids, v[k].kids, n)
      /\ \A k, l \in DOMAIN d : d[k].addr = d[l].addr => k = l
  BY DEF Shape
<1>2. /\ x \in Cells /\ x.addr = n + 1 /\ x.kids = <<>>
      /\ y \in Boxes /\ y.addr = n + 1 /\ y.kids = <<>>
  BY DEF Cells, Boxes, Input, InputWidget
<1> HIDE DEF x, y
<1>3. /\ d1 \in Seq(Cells) /\ Len(d1) = Len(d) + 1
      /\ \A k \in 1..(Len(d) + 1) :
           d1[k] = IF k < i THEN d[k] ELSE IF k = i THEN x ELSE d[k - 1]
  <2>1. d \in Seq(Cells) /\ x \in Cells /\ i \in 1..(Len(d) + 1)
    BY <1>1, <1>2
  <2>2. IsInsertion(d1, Cells, d, i, x)
    BY <2>1, Insertion, ZenonT(60)
  <2> HIDE DEF d1
  <2> QED
    BY <2>2 DEF IsInsertion
<1>4. /\ v1 \in Seq(Boxes) /\ Len(v1) = Len(d) + 1
      /\ \A k \in 1..(Len(d) + 1) :
           v1[k] = IF k < i THEN v[k] ELSE IF k = i THEN y ELSE v[k - 1]
  <2>1. v \in Seq(Boxes) /\ y \in Boxes /\ i \in 1..(Len(v) + 1)
    BY <1>1, <1>2
  <2>2. /\ v1 \in Seq(Boxes) /\ Len(v1) = Len(v) + 1
        /\ \A k \in 1..(Len(v) + 1) :
             v1[k] = IF k < i THEN v[k] ELSE IF k = i THEN y ELSE v[k - 1]
    BY <2>1, InsertedElements
  <2> QED
    BY <1>1, <2>2
<1> HIDE DEF d1, v1
<1> DEFINE at(k) == IF k < i THEN k ELSE k - 1
<1>5. ASSUME NEW k \in 1..(Len(d) + 1), k # i
      PROVE  at(k) \in 1..Len(d) /\ d1[k] = d[at(k)] /\ v1[k] = v[at(k)]
  <2>1. CASE k < i
    BY <1>1, <1>3, <1>4, <2>1
  <2>2. CASE ~(k < i)
    BY <1>1, <1>3, <1>4, <1>5, <2>2
  <2> QED
    BY <2>1, <2>2
<1>6. \A k, l \in 1..(Len(d) + 1) : k # i /\ l # i /\ at(k) = at(l) => k = l
  BY <1>1
<1> HIDE DEF at
<1>7. i \in 1..(Len(d) + 1) /\ d1[i] = x /\ v1[i] = y
  BY <1>1, <1>3, <1>4
<1>8. DOMAIN d1 = 1..(Len(d) + 1)
  BY <1>3
<1>9. \A k \in DOMAIN d1 : k # i =>
        \E l \in DOMAIN d : d1[k] = d[l] /\ v1[k] = v[l]
  BY <1>1, <1>5, <1>8
<1>10. ASSUME NEW k \in DOMAIN d
       PROVE  \E l \in DOMAIN d1 : d1[l] = d[k] /\ v1[l] = v[k]
  <2>1. CASE k < i
    BY <1>1, <1>3, <1>4, <1>8, <2>1
  <2>2. CASE ~(k < i)
    <3>1. k + 1 \in 1..(Len(d) + 1) /\ ~(k + 1 < i) /\ k + 1 # i /\ (k + 1) - 1 = k
      BY <1>1, <2>2
    <3> QED
      BY <1>3, <1>4, <1>8, <3>1
  <2> QED
    BY <2>1, <2>2
<1>11. ASSUME NEW c
       PROVE  HasCell(d1, c) <=> HasCell(d, c) \/ c = n + 1
  <2>1. ASSUME HasCell(d1, c)
        PROVE  HasCell(d, c) \/ c = n + 1
    BY <1>2, <1>7, <1>9, <2>1 DEF HasCell
  <2>2. ASSUME HasCell(d, c)
        PROVE  HasCell(d1, c)
    BY <1>10, <2>2 DEF HasCell
  <2>3. HasCell(d1, n + 1)
    BY <1>2, <1>7, <1>8 DEF HasCell
  <2> QED
    BY <2>1, <2>2, <2>3
<1>12. \A k \in DOMAIN d : d[k].addr \in Nat
  <2>1. \A k \in DOMAIN d : d[k] \in Cells
    BY <1>1
  <2> QED
    BY <2>1, CellTypes
<1>13. \A k \in DOMAIN d1 : k # i => d1[k].addr <= n /\ d1[k].addr \in Nat
  BY <1>1, <1>9, <1>12
<1>14. ASSUME NEW k \in DOMAIN d1
       PROVE  /\ v1[k].addr = d1[k].addr /\ d1[k].addr <= n + 1
              /\ Twins(d1[k].kids, v1[k].kids, n + 1)
  <2>1. CASE k = i
    <3>1. Twins(<<>>, <<>>, n + 1)
      BY DEF Twins
    <3> QED
      BY <1>1, <1>2, <1>7, <2>1, <3>1
  <2>2. CASE k # i
    <3>1. PICK l \in DOMAIN d : d1[k] = d[l] /\ v1[k] = v[l]
      BY <1>9, <2>2
    <3>2. v[l].addr = d[l].addr /\ Twins(d[l].kids, v[l].kids, n)
      BY <1>1
    <3>4. \A j \in DOMAIN d[l].kids : d[l].kids[j].addr \in Nat
      <4>1. d[l] \in Cells
        BY <1>1
      <4> QED
        BY <4>1, CellTypes
    <3>5. \A j \in DOMAIN d[l].kids : d[l].kids[j].addr <= n + 1
      BY <1>1, <3>2, <3>4 DEF Twins
    <3>6. Twins(d[l].kids, v[l].kids, n + 1)
      BY <3>2, <3>5 DEF Twins
    <3>7. d1[k].addr <= n + 1
      BY <1>1, <1>13, <2>2
    <3> QED
      BY <3>1, <3>2, <3>6, <3>7
  <2> QED
    BY <2>1, <2>2
<1>15. ASSUME NEW k \in DOMAIN d1, NEW l \in DOMAIN d1, d1[k].addr = d1[l].addr
       PROVE  k = l
  <2>1. CASE k = i \/ l = i
    BY <1>1, <1>2, <1>7, <1>13, <1>15, <2>1
  <2>2. CASE k # i /\ l # i
    <3>1. at(k) = at(l)
      BY <1>1, <1>5, <1>8, <1>15, <2>2
    <3> QED
      BY <1>6, <1>8, <2>2, <3>1
  <2> QED
    BY <2>1, <2>2
<1>16. Shape(d1, v1, n + 1)
  <2>1. d1 \in Seq(Cells) /\ v1 \in Seq(Boxes) /\ n + 1 \in Nat /\ Len(v1) = Len(d1)
    BY <1>1, <1>3, <1>4
  <2>2. \A k \in DOMAIN d1 : /\ v1[k].addr = d1[k].addr /\ d1[k].addr <= n + 1
                             /\ Twins(d1[k].kids, v1[k].kids, n + 1)
    BY <1>14
  <2>3. \A k, l \in DOMAIN d1 : d1[k].addr = d1[l].addr => k = l
    BY <1>15
  <2> QED
    BY <2>1, <2>2, <2>3 DEF Shape
<1>17. Len(d1) = Len(d) + 1 /\ i \in DOMAIN d1
  BY <1>3, <1>8
<1> QED
  BY <1>7, <1>9, <1>10, <1>11, <1>16, <1>17 DEF d1, v1, x, y

LEMMA CellRemoved ==
  ASSUME NEW d, NEW v, NEW n, Shape(d, v, n), NEW i \in DOMAIN d
  PROVE  LET d1 == RemoveAt(d, i)
             v1 == RemoveAt(v, i) IN
         /\ Shape(d1, v1, n)
         /\ \A k \in DOMAIN d1 :
              \E l \in DOMAIN d : l # i /\ d1[k] = d[l] /\ v1[k] = v[l]
         /\ \A c : HasCell(d1, c) <=> HasCell(d, c) /\ c # d[i].addr
<1> DEFINE d1 == RemoveAt(d, i)
           v1 == RemoveAt(v, i)
<1>1. /\ d \in Seq(Cells) /\ v \in Seq(Boxes) /\ n \in Nat
      /\ Len(v) = Len(d) /\ DOMAIN d = 1..Len(d) /\ DOMAIN v = 1..Len(d)
      /\ Len(d) \in Nat
      /\ \A k \in DOMAIN d : /\ v[k].addr = d[k].addr /\ d[k].addr <= n
                             /\ Twins(d[k].kids, v[k].kids, n)
      /\ \A k, l \in DOMAIN d : d[k].addr = d[l].addr => k = l
  BY DEF Shape
<1>2. /\ d1 \in Seq(Cells) /\ Len(d1) = Len(d) - 1
      /\ \A k \in 1..(Len(d) - 1) : d1[k] = IF k < i THEN d[k] ELSE d[k + 1]
  <2>1. d \in Seq(Cells) /\ i \in DOMAIN d
    BY <1>1
  <2> QED
    BY <2>1, RemovedElements
<1>3. /\ v1 \in Seq(Boxes) /\ Len(v1) = Len(d) - 1
      /\ \A k \in 1..(Len(d) - 1) : v1[k] = IF k < i THEN v[k] ELSE v[k + 1]
  <2>1. v \in Seq(Boxes) /\ i \in DOMAIN v
    BY <1>1
  <2>2. /\ v1 \in Seq(Boxes) /\ Len(v1) = Len(v) - 1
        /\ \A k \in 1..(Len(v) - 1) : v1[k] = IF k < i THEN v[k] ELSE v[k + 1]
    BY <2>1, RemovedElements
  <2> QED
    BY <1>1, <2>2
<1> HIDE DEF d1, v1
<1> DEFINE at(k) == IF k < i THEN k ELSE k + 1
<1>4. \A k \in 1..(Len(d) - 1) : /\ at(k) \in 1..Len(d) /\ at(k) # i
                                 /\ d1[k] = d[at(k)] /\ v1[k] = v[at(k)]
  BY <1>1, <1>2, <1>3
<1>5. \A k, l \in 1..(Len(d) - 1) : at(k) = at(l) => k = l
  BY <1>1
<1>6. ASSUME NEW k \in 1..Len(d), k # i
      PROVE  \E l \in 1..(Len(d) - 1) : at(l) = k
  <2>1. CASE k < i
    BY <1>1, <2>1
  <2>2. CASE ~(k < i)
    <3>1. k - 1 \in 1..(Len(d) - 1) /\ at(k - 1) = k
      BY <1>1, <1>6, <2>2
    <3> QED
      BY <3>1
  <2> QED
    BY <2>1, <2>2
<1> HIDE DEF at
<1>7. DOMAIN d1 = 1..(Len(d) - 1)
  BY <1>2
<1>8. \A k \in DOMAIN d1 : \E l \in DOMAIN d : l # i /\ d1[k] = d[l] /\ v1[k] = v[l]
  BY <1>1, <1>4, <1>7
<1>9. ASSUME NEW c
      PROVE  HasCell(d1, c) <=> HasCell(d, c) /\ c # d[i].addr
  <2>1. ASSUME HasCell(d1, c)
        PROVE  HasCell(d, c) /\ c # d[i].addr
    BY <1>1, <1>8, <2>1 DEF HasCell
  <2>2. ASSUME HasCell(d, c), c # d[i].addr
        PROVE  HasCell(d1, c)
    <3>1. PICK k \in DOMAIN d : d[k].addr = c
      BY <2>2 DEF HasCell
    <3>2. PICK l \in 1..(Len(d) - 1) : at(l) = k
      BY <1>1, <1>6, <2>2, <3>1
    <3> QED
      BY <1>4, <1>7, <3>1, <3>2 DEF HasCell
  <2> QED
    BY <2>1, <2>2
<1>10. Shape(d1, v1, n)
  <2>1. \A k \in DOMAIN d1 : /\ v1[k].addr = d1[k].addr /\ d1[k].addr <= n
                             /\ Twins(d1[k].kids, v1[k].kids, n)
    BY <1>1, <1>8
  <2>2. ASSUME NEW k \in DOMAIN d1, NEW l \in DOMAIN d1, d1[k].addr = d1[l].addr
        PROVE  k = l
    <3>1. k \in 1..(Len(d) - 1) /\ l \in 1..(Len(d) - 1)
      BY <1>7
    <3>2. /\ at(k) \in DOMAIN d /\ at(l) \in DOMAIN d
          /\ d[at(k)].addr = d[at(l)].addr
      BY <1>1, <1>4, <2>2, <3>1
    <3>3. at(k) = at(l)
      BY <1>1, <3>2
    <3> QED
      BY <1>5, <3>1, <3>3
  <2>3. d1 \in Seq(Cells) /\ v1 \in Seq(Boxes) /\ n \in Nat /\ Len(v1) = Len(d1)
    BY <1>1, <1>2, <1>3
  <2> QED
    BY <2>1, <2>2, <2>3 DEF Shape
<1> QED
  BY <1>8, <1>9, <1>10 DEF d1, v1

\* One field of one cell or widget is set.
WithText(d, i, t)   == [d EXCEPT ![i].text = t]
WithBuffer(v, i, u) == [v EXCEPT ![i].buffer = u]
WithKids(d, i, k)   == [d EXCEPT ![i].kids = k]

LEMMA TextChanged ==
  ASSUME NEW d, NEW v, NEW n, Shape(d, v, n), NEW i \in DOMAIN d,
         NEW t \in Seq(Char), NEW u \in Seq(Char)
  PROVE  LET d1 == WithText(d, i, t)
             v1 == WithBuffer(v, i, u) IN
         /\ Shape(d1, v1, n)
         /\ \A c : (HasCell(d1, c) <=> HasCell(d, c)) /\ Index(d1, c) = Index(d, c)
         /\ DOMAIN d1 = DOMAIN d /\ Len(d1) = Len(d)
         /\ \A k \in DOMAIN d : /\ d1[k].addr = d[k].addr /\ d1[k].kids = d[k].kids
                                /\ d1[k].text = IF k = i THEN t ELSE d[k].text
                                /\ v1[k].addr = v[k].addr
                                /\ v1[k].buffer = IF k = i THEN u ELSE v[k].buffer
         /\ WithText(d1, i, d[i].text) = d
<1> DEFINE x == [d[i] EXCEPT !.text = t]
           y == [v[i] EXCEPT !.buffer = u]
           d1 == WithText(d, i, t)
           v1 == WithBuffer(v, i, u)
<1>1. /\ d \in Seq(Cells) /\ v \in Seq(Boxes) /\ n \in Nat
      /\ DOMAIN v = DOMAIN d /\ Len(v) = Len(d) /\ v[i].addr = d[i].addr
      /\ Twins(d[i].kids, v[i].kids, n)
  BY DEF Shape
<1>2. d[i] \in Cells /\ v[i] \in Boxes
  BY <1>1
<1>3. /\ x \in Cells /\ x.addr = d[i].addr /\ x.kids = d[i].kids /\ x.text = t
      /\ y \in Boxes /\ y.addr = v[i].addr /\ y.kids = v[i].kids /\ y.buffer = u
  BY <1>2 DEF Cells, Boxes
<1>4. d1 = [d EXCEPT ![i] = x] /\ v1 = [v EXCEPT ![i] = y]
  BY <1>1 DEF WithText, WithBuffer
<1>5. [x EXCEPT !.text = d[i].text] = d[i]
  BY <1>2 DEF Cells
<1> HIDE DEF x, y, d1, v1
<1>6. /\ d1 \in Seq(Cells) /\ v1 \in Seq(Boxes)
      /\ DOMAIN d1 = DOMAIN d /\ Len(d1) = Len(d) /\ Len(v1) = Len(d)
      /\ \A k \in DOMAIN d : /\ d1[k] = IF k = i THEN x ELSE d[k]
                             /\ v1[k] = IF k = i THEN y ELSE v[k]
  BY <1>1, <1>3, <1>4
<1>7. /\ Shape(d1, v1, n)
      /\ \A c : (HasCell(d1, c) <=> HasCell(d, c)) /\ Index(d1, c) = Index(d, c)
  <2>1. Changed(d, v, n, i, d1, v1, n)
    BY <1>1, <1>3, <1>6 DEF Changed
  <2> QED
    BY <2>1, CellChanged
<1>8. \A k \in DOMAIN d : /\ d1[k].addr = d[k].addr /\ d1[k].kids = d[k].kids
                          /\ d1[k].text = IF k = i THEN t ELSE d[k].text
                          /\ v1[k].addr = v[k].addr
                          /\ v1[k].buffer = IF k = i THEN u ELSE v[k].buffer
  BY <1>3, <1>6
<1>9. WithText(d1, i, d[i].text) = d
  <2> DEFINE d2 == [d1 EXCEPT ![i] = d[i]]
  <2>1. WithText(d1, i, d[i].text) = d2
    BY <1>5, <1>6 DEF WithText
  <2>2. d2 \in Seq(Cells) /\ Len(d2) = Len(d) /\ \A k \in 1..Len(d) : d2[k] = d[k]
    BY <1>1, <1>2, <1>6
  <2> HIDE DEF d2
  <2>3. d2 = d
    BY <1>1, <2>2, SeqEqual
  <2> QED
    BY <2>1, <2>3
<1> QED
  BY <1>6, <1>7, <1>8, <1>9 DEF d1, v1

LEMMA SameFields ==
  ASSUME NEW d, NEW v, NEW n, Shape(d, v, n), NEW i \in DOMAIN d
  PROVE  WithText(d, i, d[i].text) = d /\ WithBuffer(v, i, v[i].buffer) = v
<1>1. d \in Seq(Cells) /\ v \in Seq(Boxes) /\ i \in DOMAIN v
  BY DEF Shape
<1>2. d[i] \in Cells /\ v[i] \in Boxes
  BY <1>1
<1>3. [d[i] EXCEPT !.text = d[i].text] = d[i] /\ [v[i] EXCEPT !.buffer = v[i].buffer] = v[i]
  BY <1>2 DEF Cells, Boxes
<1>4. [d EXCEPT ![i] = d[i]] = d /\ [v EXCEPT ![i] = v[i]] = v
  BY <1>1
<1> QED
  BY <1>1, <1>3, <1>4 DEF WithText, WithBuffer

LEMMA KidsChanged ==
  ASSUME NEW d, NEW v, NEW n, Shape(d, v, n), NEW i \in DOMAIN d,
         NEW m \in Nat, n <= m,
         NEW k \in Seq(OutputCell), NEW w \in Seq(Address), Twins(k, w, m)
  PROVE  LET d1 == WithKids(d, i, k)
             v1 == WithKids(v, i, w) IN
         /\ Shape(d1, v1, m)
         /\ \A c : (HasCell(d1, c) <=> HasCell(d, c)) /\ Index(d1, c) = Index(d, c)
         /\ DOMAIN d1 = DOMAIN d /\ Len(d1) = Len(d)
         /\ \A l \in DOMAIN d : /\ d1[l].addr = d[l].addr /\ d1[l].text = d[l].text
                                /\ d1[l].kids = IF l = i THEN k ELSE d[l].kids
                                /\ v1[l].addr = v[l].addr
                                /\ v1[l].buffer = v[l].buffer
         /\ WithKids(d1, i, d[i].kids) = d
<1> DEFINE x == [d[i] EXCEPT !.kids = k]
           y == [v[i] EXCEPT !.kids = w]
           d1 == WithKids(d, i, k)
           v1 == WithKids(v, i, w)
<1>1. /\ d \in Seq(Cells) /\ v \in Seq(Boxes) /\ n \in Nat
      /\ DOMAIN v = DOMAIN d /\ Len(v) = Len(d) /\ v[i].addr = d[i].addr
  BY DEF Shape
<1>2. d[i] \in Cells /\ v[i] \in Boxes
  BY <1>1
<1>3. /\ x \in Cells /\ x.addr = d[i].addr /\ x.kids = k /\ x.text = d[i].text
      /\ y \in Boxes /\ y.addr = v[i].addr /\ y.kids = w /\ y.buffer = v[i].buffer
  BY <1>2 DEF Cells, Boxes
<1>4. d1 = [d EXCEPT ![i] = x] /\ v1 = [v EXCEPT ![i] = y]
  BY <1>1 DEF WithKids
<1>5. [x EXCEPT !.kids = d[i].kids] = d[i]
  BY <1>2 DEF Cells
<1> HIDE DEF x, y, d1, v1
<1>6. /\ d1 \in Seq(Cells) /\ v1 \in Seq(Boxes)
      /\ DOMAIN d1 = DOMAIN d /\ Len(d1) = Len(d) /\ Len(v1) = Len(d)
      /\ \A l \in DOMAIN d : /\ d1[l] = IF l = i THEN x ELSE d[l]
                             /\ v1[l] = IF l = i THEN y ELSE v[l]
  BY <1>1, <1>3, <1>4
<1>7. /\ Shape(d1, v1, m)
      /\ \A c : (HasCell(d1, c) <=> HasCell(d, c)) /\ Index(d1, c) = Index(d, c)
  <2>1. Changed(d, v, n, i, d1, v1, m)
    BY <1>1, <1>3, <1>6 DEF Changed
  <2> QED
    BY <2>1, CellChanged
<1>8. \A l \in DOMAIN d : /\ d1[l].addr = d[l].addr /\ d1[l].text = d[l].text
                          /\ d1[l].kids = IF l = i THEN k ELSE d[l].kids
                          /\ v1[l].addr = v[l].addr
                          /\ v1[l].buffer = v[l].buffer
  BY <1>3, <1>6
<1>9. WithKids(d1, i, d[i].kids) = d
  <2> DEFINE d2 == [d1 EXCEPT ![i] = d[i]]
  <2>1. WithKids(d1, i, d[i].kids) = d2
    BY <1>5, <1>6 DEF WithKids
  <2>2. d2 \in Seq(Cells) /\ Len(d2) = Len(d) /\ \A l \in 1..Len(d) : d2[l] = d[l]
    BY <1>1, <1>2, <1>6
  <2> HIDE DEF d2
  <2>3. d2 = d
    BY <1>1, <2>2, SeqEqual
  <2> QED
    BY <2>1, <2>3
<1> QED
  BY <1>6, <1>7, <1>8, <1>9 DEF d1, v1

-----------------------------------------------------------------------------
(* The queue of actions, and what it does to the text of a cell.            *)

Places == Address \cup {NoCell}
InsertTexts == [act : {"InsertText"}, cell : Places, pos : Nat, text : Seq(Char)]
EraseTexts  == {a \in [act : {"EraseText"}, cell : Places, from : Nat, to : Nat] :
                  a.from <= a.to}
AddCells    == [act : {"AddCell"}, cell : Places, pos : {"before", "after"}, text : {<<>>}]
AddOutputs  == [act : {"AddCell"}, cell : Places, pos : {"child"}, text : Nat]
Positions   == [act : {"PositionCursor"}, cell : Places, pos : {"in", "next", "previous"}]
Removals    == [act : {"RemoveCell"}, cell : Places]
Outputs     == [act : {"RemoveOutput"}, cell : Places, output : Address]
Splits      == [act : {"SplitCell"}, cell : Places]
Statuses    == [act : {"SetRunStatus"}, cell : Places]
Actions == UNION {InsertTexts, EraseTexts, AddCells, AddOutputs, Positions,
                  Removals, Outputs, Splits, Statuses}

IsText(a) == a.act \in {"InsertText", "EraseText"}
InRange(a, s) == IF a.act = "InsertText" THEN a.pos <= Len(s) ELSE a.from <= Len(s)
TextAfter(a, s) == IF a.act = "InsertText" THEN Inserted(s, a.pos, a.text)
                                           ELSE Erased(s, a.from, a.to)

\* An action leads the text s of the cell c to t.
TextStep(a, c, s, t) ==
  IF IsText(a) /\ a.cell = c THEN InRange(a, s) /\ t = TextAfter(a, s) ELSE t = s

\* The queue q leads it there, over texts in which every action finds its place.
Leads(q, c, s, t) ==
  \E f \in [0..Len(q) -> Seq(Char)] :
    /\ f[0] = s /\ f[Len(q)] = t
    /\ \A m \in DOMAIN q : TextStep(q[m], c, f[m - 1], f[m])

LEMMA LeadsNowhere ==
  ASSUME NEW c, NEW s, NEW t, Leads(<<>>, c, s, t)
  PROVE  s = t
BY DEF Leads

LEMMA LeadsFirst ==
  ASSUME NEW S, NEW q \in Seq(S), q # <<>>, NEW c, NEW s, NEW t, Leads(q, c, s, t)
  PROVE  \E u \in Seq(Char) : TextStep(Head(q), c, s, u) /\ Leads(Tail(q), c, u, t)
<1>1. PICK f \in [0..Len(q) -> Seq(Char)] :
             /\ f[0] = s /\ f[Len(q)] = t
             /\ \A m \in DOMAIN q : TextStep(q[m], c, f[m - 1], f[m])
  BY DEF Leads
<1> DEFINE r == Tail(q)
           g == [m \in 0..Len(r) |-> f[m + 1]]
<1>2. /\ r \in Seq(S) /\ Len(r) = Len(q) - 1 /\ Len(q) \in Nat /\ Len(q) >= 1
      /\ Head(q) = q[1] /\ \A m \in 1..Len(r) : r[m] = q[m + 1]
  OBVIOUS
<1> HIDE DEF r
<1>3. TextStep(q[1], c, s, f[1])
  <2>1. 1 \in DOMAIN q
    BY <1>2
  <2>2. TextStep(q[1], c, f[1 - 1], f[1])
    BY <1>1, <2>1
  <2> QED
    BY <1>1, <2>2
<1>4. g \in [0..Len(r) -> Seq(Char)] /\ g[0] = f[1] /\ g[Len(r)] = t
  BY <1>1, <1>2
<1>5. ASSUME NEW m \in DOMAIN r
      PROVE  TextStep(r[m], c, g[m - 1], g[m])
  <2>1. m \in 1..Len(r) /\ m + 1 \in DOMAIN q /\ m - 1 \in 0..Len(r) /\ m \in 0..Len(r)
    BY <1>2
  <2>2. TextStep(q[m + 1], c, f[(m + 1) - 1], f[m + 1])
    BY <1>1, <2>1
  <2>3. (m + 1) - 1 = (m - 1) + 1
    BY <2>1
  <2>4. g[m - 1] = f[(m + 1) - 1] /\ g[m] = f[m + 1] /\ r[m] = q[m + 1]
    BY <1>2, <2>1, <2>3
  <2> HIDE DEF g
  <2> QED
    BY <2>2, <2>4
<1>6. Leads(r, c, f[1], t)
  <2> HIDE DEF g
  <2> QED
    BY <1>4, <1>5 DEF Leads
<1>7. f[1] \in Seq(Char)
  BY <1>2
<1> QED
  BY <1>2, <1>3, <1>6, <1>7 DEF r

LEMMA LeadsOn ==
  ASSUME NEW S, NEW q \in Seq(S), NEW r \in Seq(S), NEW c, NEW s, NEW t, NEW u,
         Leads(q, c, s, t), Leads(r, c, t, u)
  PROVE  Leads(q \o r, c, s, u)
<1>1. PICK f \in [0..Len(q) -> Seq(Char)] :
             /\ f[0] = s /\ f[Len(q)] = t
             /\ \A m \in DOMAIN q : TextStep(q[m], c, f[m - 1], f[m])
  BY DEF Leads
<1>2. PICK g \in [0..Len(r) -> Seq(Char)] :
             /\ g[0] = t /\ g[Len(r)] = u
             /\ \A m \in DOMAIN r : TextStep(r[m], c, g[m - 1], g[m])
  BY DEF Leads
<1> DEFINE p == q \o r
           h == [m \in 0..Len(p) |-> IF m <= Len(q) THEN f[m] ELSE g[m - Len(q)]]
<1>3. /\ p \in Seq(S) /\ Len(p) = Len(q) + Len(r) /\ Len(q) \in Nat /\ Len(r) \in Nat
      /\ \A m \in 1..(Len(q) + Len(r)) : p[m] = IF m <= Len(q) THEN q[m] ELSE r[m - Len(q)]
  BY ConcatProperties
<1> HIDE DEF p
<1>4. h \in [0..Len(p) -> Seq(Char)]
  BY <1>3
<1>5. \A m \in 0..Len(p) : h[m] = IF m <= Len(q) THEN f[m] ELSE g[m - Len(q)]
  OBVIOUS
<1> HIDE DEF h
<1>6. \A m \in 0..Len(r) : h[Len(q) + m] = g[m]
  <2> TAKE m \in 0..Len(r)
  <2>1. Len(q) + m \in 0..Len(p) /\ (Len(q) + m) - Len(q) = m
    BY <1>3
  <2>2. CASE m = 0
    BY <1>1, <1>2, <1>3, <1>5, <2>1, <2>2
  <2>3. CASE m # 0
    <3>1. ~(Len(q) + m <= Len(q))
      BY <1>3, <2>3
    <3> QED
      BY <1>5, <2>1, <3>1
  <2> QED
    BY <2>2, <2>3
<1>7. h[0] = s /\ h[Len(p)] = u
  <2>1. h[0] = s
    BY <1>1, <1>3, <1>5
  <2>2. Len(r) \in 0..Len(r)
    BY <1>3
  <2> QED
    BY <1>2, <1>3, <1>6, <2>1, <2>2
<1>8. ASSUME NEW m \in DOMAIN p
      PROVE  TextStep(p[m], c, h[m - 1], h[m])
  <2>0. m \in 1..(Len(q) + Len(r))
    BY <1>3
  <2>1. CASE m <= Len(q)
    <3>1. m \in DOMAIN q /\ p[m] = q[m] /\ h[m] = f[m] /\ h[m - 1] = f[m - 1]
      <4>1. /\ m \in DOMAIN q /\ p[m] = q[m] /\ m \in 0..Len(p) /\ m - 1 \in 0..Len(p)
            /\ m - 1 <= Len(q)
        BY <1>3, <2>0, <2>1
      <4> QED
        BY <1>5, <2>1, <4>1
    <3> QED
      BY <1>1, <3>1
  <2>2. CASE ~(m <= Len(q))
    <3> DEFINE k == m - Len(q)
    <3>1. k \in 1..Len(r) /\ k - 1 \in 0..Len(r) /\ Len(q) + k = m /\ Len(q) + (k - 1) = m - 1
      BY <1>3, <2>0, <2>2
    <3>2. p[m] = r[k]
      BY <1>3, <2>0, <2>2
    <3> HIDE DEF k
    <3>3. k \in DOMAIN r /\ k \in 0..Len(r)
      BY <1>3, <3>1
    <3>4. h[m] = g[k] /\ h[m - 1] = g[k - 1]
      <4>1. h[Len(q) + k] = g[k] /\ h[Len(q) + (k - 1)] = g[k - 1]
        BY <1>6, <3>1, <3>3
      <4> QED
        BY <3>1, <4>1
    <3> QED
      BY <1>2, <3>2, <3>3, <3>4
  <2> QED
    BY <2>1, <2>2
<1>9. Leads(p, c, s, u)
  BY <1>4, <1>7, <1>8 DEF Leads
<1> QED
  BY <1>9 DEF p

\* Actions on other cells, and those that are not on text, leave it alone.
LEMMA LeadsAside ==
  ASSUME NEW S, NEW q \in Seq(S), NEW c, NEW s \in Seq(Char),
         \A m \in DOMAIN q : ~(IsText(q[m]) /\ q[m].cell = c)
  PROVE  Leads(q, c, s, s)
<1> DEFINE f == [m \in 0..Len(q) |-> s]
<1>1. /\ f \in [0..Len(q) -> Seq(Char)] /\ f[0] = s /\ f[Len(q)] = s
      /\ \A m \in DOMAIN q : f[m - 1] = s /\ f[m] = s
  OBVIOUS
<1> HIDE DEF f
<1>2. \A m \in DOMAIN q : TextStep(q[m], c, f[m - 1], f[m])
  BY <1>1 DEF TextStep
<1> QED
  BY <1>1, <1>2 DEF Leads

LEMMA LeadsBy ==
  ASSUME NEW a, NEW c, NEW s \in Seq(Char), NEW t \in Seq(Char), TextStep(a, c, s, t)
  PROVE  Leads(<<a>>, c, s, t)
<1> DEFINE f == [m \in 0..1 |-> IF m = 0 THEN s ELSE t]
<1>1. f \in [0..1 -> Seq(Char)] /\ f[0] = s /\ f[1] = t /\ f[1 - 1] = s
  OBVIOUS
<1>2. Len(<<a>>) = 1 /\ DOMAIN <<a>> = {1} /\ <<a>>[1] = a
  OBVIOUS
<1> HIDE DEF f
<1>3. \A m \in DOMAIN <<a>> : TextStep(<<a>>[m], c, f[m - 1], f[m])
  BY <1>1, <1>2
<1> QED
  BY <1>1, <1>2, <1>3 DEF Leads

-----------------------------------------------------------------------------
(* The undo stack.                                                          *)

Entries == [action : Actions, newref : Places, index : Nat,
            removed : Seq(Char) \cup Seq(Cells) \cup Seq(OutputCell),
            before : Seq(Cells)]

\* Reverting the entry e on the document d finds all it needs, and gives back
\* the document as it was before.
Undoes(e, d) ==
  LET c == e.action.cell
      i == Index(d, c) IN
  /\ HasCell(d, c)
  /\ e.action.act = "InsertText" =>
       /\ e.action.pos <= Len(d[i].text)
       /\ e.before = WithText(d, i, Erased(d[i].text, e.action.pos,
                                           e.action.pos + Len(e.action.text)))
  /\ e.action.act = "EraseText" =>
       /\ e.action.from <= Len(d[i].text)
       /\ e.before = WithText(d, i, Inserted(d[i].text, e.action.from, e.removed))
  /\ e.action.act = "AddCell" =>
       /\ e.index + 1 \in DOMAIN d[i].kids
       /\ e.before = WithKids(d, i, RemoveAt(d[i].kids, e.index + 1))
  /\ e.action.act = "PositionCursor" =>
       IF e.newref = NoCell THEN e.before = d
       ELSE /\ HasCell(d, e.newref) /\ e.newref # c
            /\ e.before = RemoveAt(d, Index(d, e.newref))

\* The document that the k-th action left.
AfterStep(us, d, k) == IF k = Len(us) THEN d ELSE us[k + 1].before

\* Every action that can be undone is undone from the document it left.
Chain(us, d) ==
  \A k \in DOMAIN us : Reversible(us[k]) => Undoes(us[k], AfterStep(us, d, k))

LEMMA ChainPushed ==
  ASSUME NEW us \in Seq(Entries), NEW d, NEW d1, NEW e \in Entries, e.before = d,
         Chain(us, d), Reversible(e) => Undoes(e, d1)
  PROVE  Append(us, e) \in Seq(Entries) /\ Chain(Append(us, e), d1)
<1> DEFINE vs == Append(us, e)
<1>1. /\ vs \in Seq(Entries) /\ Len(vs) = Len(us) + 1 /\ Len(us) \in Nat
      /\ \A k \in 1..Len(us) : vs[k] = us[k]
      /\ vs[Len(us) + 1] = e
  OBVIOUS
<1> HIDE DEF vs
<1>2. ASSUME NEW k \in DOMAIN vs, Reversible(vs[k])
      PROVE  Undoes(vs[k], AfterStep(vs, d1, k))
  <2>1. k \in 1..(Len(us) + 1)
    BY <1>1
  <2>2. CASE k = Len(us) + 1
    BY <1>1, <1>2, <2>2 DEF AfterStep
  <2>3. CASE k # Len(us) + 1
    <3>1. k \in 1..Len(us) /\ k \in DOMAIN us /\ vs[k] = us[k] /\ k # Len(vs)
      BY <1>1, <2>1, <2>3
    <3>2. Undoes(us[k], AfterStep(us, d, k))
      BY <1>2, <3>1 DEF Chain
    <3>3. AfterStep(vs, d1, k) = AfterStep(us, d, k)
      <4>1. CASE k = Len(us)
        BY <1>1, <3>1, <4>1 DEF AfterStep
      <4>2. CASE k # Len(us)
        <5>1. k + 1 \in 1..Len(us)
          BY <1>1, <3>1, <4>2
        <5> QED
          BY <1>1, <3>1, <4>2, <5>1 DEF AfterStep
      <4> QED
        BY <4>1, <4>2
    <3> QED
      BY <3>1, <3>2, <3>3
  <2> QED
    BY <2>2, <2>3
<1> QED
  BY <1>1, <1>2 DEF Chain, vs

LEMMA ChainPopped ==
  ASSUME NEW us \in Seq(Entries), us # <<>>, NEW d, Chain(us, d),
         Reversible(Last(us))
  PROVE  /\ Last(us) \in Entries /\ Undoes(Last(us), d)
         /\ Front(us) \in Seq(Entries) /\ Chain(Front(us), Last(us).before)
<1> DEFINE vs == Front(us)
           e  == Last(us)
<1>1. Len(us) \in Nat /\ Len(us) >= 1 /\ Len(us) \in DOMAIN us /\ e = us[Len(us)]
  BY DEF Last
<1>2. /\ vs \in Seq(Entries) /\ Len(vs) = Len(us) - 1
      /\ \A k \in 1..(Len(us) - 1) : vs[k] = us[k]
  <2> DEFINE n == Len(us) - 1
  <2>1. vs = SubSeq(us, 1, n) /\ n \in 0..Len(us)
    BY <1>1 DEF Front
  <2> HIDE DEF n
  <2>2. /\ SubSeq(us, 1, n) \in Seq(Entries) /\ Len(SubSeq(us, 1, n)) = n
        /\ \A k \in 1..n : SubSeq(us, 1, n)[k] = us[k]
    BY <2>1
  <2> QED
    BY <2>1, <2>2 DEF n
<1> HIDE DEF vs, e
<1>3. e \in Entries
  BY <1>1
<1>4. Undoes(e, d)
  <2>1. Undoes(us[Len(us)], AfterStep(us, d, Len(us)))
    BY <1>1 DEF Chain, e
  <2> QED
    BY <1>1, <2>1 DEF AfterStep
<1>5. ASSUME NEW k \in DOMAIN vs, Reversible(vs[k])
      PROVE  Undoes(vs[k], AfterStep(vs, e.before, k))
  <2>1. k \in 1..(Len(us) - 1) /\ vs[k] = us[k] /\ k \in DOMAIN us
    BY <1>1, <1>2
  <2>2. Undoes(us[k], AfterStep(us, d, k))
    BY <1>5, <2>1 DEF Chain
  <2>3. AfterStep(us, d, k) = us[k + 1].before
    BY <1>1, <2>1 DEF AfterStep
  <2>4. AfterStep(vs, e.before, k) = us[k + 1].before
    <3>1. CASE k = Len(us) - 1
      BY <1>1, <1>2, <3>1 DEF AfterStep
    <3>2. CASE k # Len(us) - 1
      <4>1. k + 1 \in 1..(Len(us) - 1)
        BY <1>1, <2>1, <3>2
      <4> QED
        BY <1>2, <3>2, <4>1 DEF AfterStep
    <3> QED
      BY <3>1, <3>2
  <2> QED
    BY <2>1, <2>2, <2>3, <2>4
<1> QED
  BY <1>2, <1>3, <1>4, <1>5 DEF Chain, vs, e

-----------------------------------------------------------------------------
(* The inductive invariant: what the queue, the widgets and the cursor mean *)
(* for the document.                                                        *)

SameTexts(d, v) == \A i \in DOMAIN d : v[i].buffer = d[i].text

\* What a widget will show when the erasure that was announced is done.
Shown(w, e) == IF e.cell = w.addr THEN Erased(w.buffer, e.from, e.to) ELSE w.buffer

\* The queue leads the text of every cell to what its widget shows.
TextsAgree(q, d, v, e) ==
  \A i \in DOMAIN d : Leads(q, d[i].addr, d[i].text, Shown(v[i], e))

KidOf(d, c, k) ==
  \E j \in DOMAIN d[Index(d, c)].kids : d[Index(d, c)].kids[j].addr = k

CellsAreThere(q, d, e, ev) ==
  /\ \A m \in DOMAIN q : HasCell(d, q[m].cell)
  /\ \A c \in ev : HasCell(d, c)
  /\ e # NoErase => HasCell(d, e.cell)

\* The outputs that a run removes are there, and removed once.
OutputsAreThere(q, d) ==
  \A m \in DOMAIN q : q[m].act = "RemoveOutput" =>
    /\ KidOf(d, q[m].cell, q[m].output)
    /\ \A n \in DOMAIN q : q[n].act = "RemoveOutput" /\ n # m =>
         q[n].cell # q[m].cell \/ q[n].output # q[m].output

\* A removal of a cell is the last action, after one that moves the cursor off
\* the cell.
RemovalIsLast(q, d, cur, gui, e, ev) ==
  \A m \in DOMAIN q : q[m].act = "RemoveCell" =>
    /\ m = Len(q) /\ m <= 2 /\ gui = "processing" /\ e = NoErase /\ ev = {}
    /\ m = 1 => cur # q[m].cell
    /\ m = 2 => /\ q[1].act = "PositionCursor" /\ q[1].pos = "next"
                /\ q[1].cell = q[2].cell
                /\ LET i == Index(d, q[1].cell) IN d[i].text # <<>> \/ i < Len(d)

\* A cell is not split while its text is behind its buffer.
SplitIsAlone(q, d, v, gui, e) ==
  \A m \in DOMAIN q : q[m].act = "SplitCell" =>
    /\ gui = "processing" /\ e = NoErase /\ SameTexts(d, v)
    /\ \A n \in DOMAIN q : ~IsText(q[n]) /\ (q[n].act = "SplitCell" => n = m)

IdleAgrees(q, d, v, gui, e) ==
  gui = "idle" => /\ e = NoErase /\ SameTexts(d, v)
                  /\ \A m \in DOMAIN q : ~IsText(q[m])

\* There is a current cell once the first action of a new document is executed.
CursorIsThere(q, d, cur, gui, ev) ==
  \/ HasCell(d, cur)
  \/ /\ Len(q) = 1 /\ q[1].act = "PositionCursor" /\ q[1].pos = "in"
     /\ gui = "processing" /\ ev = {}

QueueFits(q, d, v, cur, gui, e, ev) ==
  /\ CellsAreThere(q, d, e, ev)
  /\ OutputsAreThere(q, d)
  /\ RemovalIsLast(q, d, cur, gui, e, ev)
  /\ SplitIsAlone(q, d, v, gui, e)
  /\ IdleAgrees(q, d, v, gui, e)
  /\ CursorIsThere(q, d, cur, gui, ev)

Good ==
  /\ Shape(doc, view, created)
  /\ pending_actions \in Seq(Actions)
  /\ QueueFits(pending_actions, doc, view, current_cell, gui_pc, erasing, evaluating)
  /\ TextsAgree(pending_actions, doc, view, erasing)
  /\ undo_stack \in Seq(Entries) /\ Chain(undo_stack, doc)
  /\ gui_pc \in {"idle", "processing"} /\ ops \in Nat

DocInv == clean => /\ corrupt \in {"no", "invalid text iterator"}
                   /\ corrupt = "no" => Good

-----------------------------------------------------------------------------
(* Taking actions from the queue and adding them to it.                     *)

LEMMA ActionTypes ==
  ASSUME NEW a \in Actions
  PROVE  /\ a.act = "InsertText" => a.pos \in Nat /\ a.text \in Seq(Char)
         /\ a.act = "EraseText" => a.from \in Nat /\ a.to \in Nat /\ a.from <= a.to
         /\ a.act = "AddCell" => \/ a.pos = "child" /\ a.text \in Nat
                                 \/ a.pos \in {"before", "after"} /\ a.text = <<>>
         /\ a.act = "PositionCursor" => a.pos \in {"in", "next", "previous"}
BY DEF Actions, InsertTexts, EraseTexts, AddCells, AddOutputs, Positions,
       Removals, Outputs, Splits, Statuses

LEMMA Taken ==
  ASSUME NEW q \in Seq(Actions), q # <<>>
  PROVE  /\ Head(q) = q[1] /\ q[1] \in Actions /\ 1 \in DOMAIN q
         /\ Len(q) \in Nat /\ Len(q) >= 1
         /\ Tail(q) \in Seq(Actions) /\ Len(Tail(q)) = Len(q) - 1
         /\ \A m \in DOMAIN Tail(q) : /\ m \in Nat /\ m >= 1 /\ m + 1 \in DOMAIN q
                                      /\ Tail(q)[m] = q[m + 1]
<1> DEFINE r == Tail(q)
<1>1. /\ r \in Seq(Actions) /\ Len(r) = Len(q) - 1 /\ Len(q) \in Nat /\ Len(q) >= 1
      /\ \A m \in 1..Len(r) : r[m] = q[m + 1]
  BY HeadTailProperties
<1>2. Head(q) = q[1] /\ 1 \in DOMAIN q /\ q[1] \in Actions
  BY <1>1
<1> HIDE DEF r
<1>3. \A m \in DOMAIN r : m \in Nat /\ m >= 1 /\ m + 1 \in DOMAIN q /\ r[m] = q[m + 1]
  BY <1>1
<1> QED
  BY <1>1, <1>2, <1>3 DEF r

\* What the first action may do to the document, the widgets and the cursor.
Takes(q, d, v, d1, v1, cur1) ==
  /\ \A c : HasCell(d, c) => HasCell(d1, c)
  /\ HasCell(d1, cur1)
  /\ \A m \in DOMAIN q : m # 1 /\ q[m].act = "RemoveOutput" =>
       KidOf(d1, q[m].cell, q[m].output)
  /\ ~IsText(q[1]) /\ SameTexts(d, v) => SameTexts(d1, v1)
  /\ q[1].act = "PositionCursor" /\ q[1].pos = "next"
        /\ (LET i == Index(d, q[1].cell) IN d[i].text # <<>> \/ i < Len(d))
     => cur1 # q[1].cell

LEMMA QueueTaken ==
  ASSUME NEW q \in Seq(Actions), q # <<>>, NEW d, NEW v, NEW cur, NEW gui, NEW e, NEW ev,
         gui = "processing", QueueFits(q, d, v, cur, gui, e, ev),
         NEW d1, NEW v1, NEW cur1, Takes(q, d, v, d1, v1, cur1)
  PROVE  QueueFits(Tail(q), d1, v1, cur1, gui, e, ev)
<1> DEFINE r == Tail(q)
<1>1. /\ q[1] \in Actions /\ 1 \in DOMAIN q /\ Len(q) \in Nat /\ Len(q) >= 1
      /\ r \in Seq(Actions) /\ Len(r) = Len(q) - 1
      /\ \A m \in DOMAIN r : m \in Nat /\ m >= 1 /\ m + 1 \in DOMAIN q /\ r[m] = q[m + 1]
  BY Taken
<1> HIDE DEF r
<1>2. CellsAreThere(r, d1, e, ev)
  BY <1>1 DEF CellsAreThere, QueueFits, Takes
<1>3. OutputsAreThere(r, d1)
  <2> SUFFICES ASSUME NEW m \in DOMAIN r, r[m].act = "RemoveOutput"
               PROVE  /\ KidOf(d1, r[m].cell, r[m].output)
                      /\ \A n \in DOMAIN r : r[n].act = "RemoveOutput" /\ n # m =>
                           r[n].cell # r[m].cell \/ r[n].output # r[m].output
    BY DEF OutputsAreThere
  <2>1. KidOf(d1, r[m].cell, r[m].output)
    BY <1>1 DEF Takes
  <2>2. ASSUME NEW n \in DOMAIN r, r[n].act = "RemoveOutput", n # m
        PROVE  r[n].cell # r[m].cell \/ r[n].output # r[m].output
    <3>1. m + 1 \in DOMAIN q /\ n + 1 \in DOMAIN q /\ n + 1 # m + 1
      BY <1>1, <2>2
    <3>2. r[m] = q[m + 1] /\ r[n] = q[n + 1]
      BY <1>1
    <3> QED
      BY <2>2, <3>1, <3>2 DEF QueueFits, OutputsAreThere
  <2> QED
    BY <2>1, <2>2
<1>4. RemovalIsLast(r, d1, cur1, gui, e, ev)
  <2> SUFFICES ASSUME NEW m \in DOMAIN r, r[m].act = "RemoveCell"
               PROVE  /\ m = Len(r) /\ m <= 2 /\ e = NoErase /\ ev = {}
                      /\ m = 1 /\ cur1 # r[m].cell
    BY DEF RemovalIsLast
  <2>1. m + 1 \in DOMAIN q /\ r[m] = q[m + 1] /\ m >= 1 /\ m \in Nat
    BY <1>1
  <2>2. /\ m + 1 = Len(q) /\ m + 1 <= 2 /\ e = NoErase /\ ev = {}
        /\ m + 1 = 2 => /\ q[1].act = "PositionCursor" /\ q[1].pos = "next"
                        /\ q[1].cell = q[2].cell
                        /\ LET i == Index(d, q[1].cell) IN d[i].text # <<>> \/ i < Len(d)
    BY <2>1 DEF QueueFits, RemovalIsLast
  <2>3. m = 1 /\ m = Len(r)
    BY <1>1, <2>1, <2>2
  <2>4. cur1 # q[1].cell /\ r[m].cell = q[1].cell
    BY <2>1, <2>2, <2>3 DEF Takes
  <2> QED
    BY <2>2, <2>3, <2>4
<1>5. SplitIsAlone(r, d1, v1, gui, e)
  <2> SUFFICES ASSUME NEW m \in DOMAIN r, r[m].act = "SplitCell"
               PROVE  /\ e = NoErase /\ SameTexts(d1, v1)
                      /\ \A n \in DOMAIN r : ~IsText(r[n]) /\ (r[n].act = "SplitCell" => n = m)
    BY DEF SplitIsAlone
  <2>1. m + 1 \in DOMAIN q /\ r[m] = q[m + 1] /\ m \in Nat
    BY <1>1
  <2>2. /\ e = NoErase /\ SameTexts(d, v)
        /\ \A n \in DOMAIN q : ~IsText(q[n]) /\ (q[n].act = "SplitCell" => n = m + 1)
    BY <2>1 DEF QueueFits, SplitIsAlone
  <2>3. SameTexts(d1, v1)
    BY <1>1, <2>2 DEF Takes
  <2>4. ASSUME NEW n \in DOMAIN r
        PROVE  ~IsText(r[n]) /\ (r[n].act = "SplitCell" => n = m)
    <3>1. n + 1 \in DOMAIN q /\ r[n] = q[n + 1] /\ n \in Nat
      BY <1>1
    <3>2. ~IsText(q[n + 1]) /\ (q[n + 1].act = "SplitCell" => n + 1 = m + 1)
      BY <2>2, <3>1
    <3> QED
      BY <2>1, <3>1, <3>2
  <2> QED
    BY <2>2, <2>3, <2>4
<1>6. IdleAgrees(r, d1, v1, gui, e)
  BY DEF IdleAgrees
<1>7. CursorIsThere(r, d1, cur1, gui, ev)
  BY DEF CursorIsThere, Takes
<1> QED
  BY <1>2, <1>3, <1>4, <1>5, <1>6, <1>7 DEF QueueFits, r

\* What may be added to the queue.
Joins(q, r, d, v, cur, gui, e) ==
  /\ HasCell(d, cur)
  /\ \A m \in DOMAIN q : q[m].act # "RemoveCell"
  /\ \A m \in DOMAIN r : /\ HasCell(d, r[m].cell)
                         /\ r[m].act \notin {"RemoveOutput", "RemoveCell"}
  /\ (\E m \in DOMAIN r : IsText(r[m])) =>
       gui = "processing" /\ \A m \in DOMAIN q : q[m].act # "SplitCell"
  /\ (\E m \in DOMAIN r : r[m].act = "SplitCell") =>
       /\ gui = "processing" /\ e = NoErase /\ SameTexts(d, v) /\ Len(r) = 1
       /\ \A m \in DOMAIN q : ~IsText(q[m]) /\ q[m].act # "SplitCell"

LEMMA QueueAppended ==
  ASSUME NEW q \in Seq(Actions), NEW r \in Seq(Actions),
         NEW d, NEW v, NEW cur, NEW gui, NEW e, NEW ev,
         QueueFits(q, d, v, cur, gui, e, ev), Joins(q, r, d, v, cur, gui, e)
  PROVE  q \o r \in Seq(Actions) /\ QueueFits(q \o r, d, v, cur, gui, e, ev)
<1> DEFINE p == q \o r
<1>1. /\ p \in Seq(Actions) /\ Len(p) = Len(q) + Len(r) /\ Len(q) \in Nat /\ Len(r) \in Nat
      /\ \A m \in 1..(Len(q) + Len(r)) : p[m] = IF m <= Len(q) THEN q[m] ELSE r[m - Len(q)]
  BY ConcatProperties
<1> HIDE DEF p
<1>2. ASSUME NEW m \in DOMAIN p
      PROVE  \/ m \in DOMAIN q /\ p[m] = q[m]
             \/ m - Len(q) \in DOMAIN r /\ p[m] = r[m - Len(q)] /\ m > Len(q)
  <2>1. m \in 1..(Len(q) + Len(r))
    BY <1>1
  <2>2. CASE m <= Len(q)
    BY <1>1, <2>1, <2>2
  <2>3. CASE ~(m <= Len(q))
    <3>1. m - Len(q) \in 1..Len(r) /\ m > Len(q)
      BY <1>1, <2>1, <2>3
    <3> QED
      BY <1>1, <2>1, <2>3, <3>1
  <2> QED
    BY <2>2, <2>3
<1>3. CellsAreThere(p, d, e, ev)
  BY <1>2 DEF CellsAreThere, QueueFits, Joins
<1>4. \A m \in DOMAIN p : p[m].act = "RemoveOutput" => m \in DOMAIN q /\ p[m] = q[m]
  BY <1>2 DEF Joins
<1>5. OutputsAreThere(p, d)
  BY <1>4 DEF OutputsAreThere, QueueFits
<1>6. RemovalIsLast(p, d, cur, gui, e, ev)
  BY <1>2 DEF RemovalIsLast, Joins
<1>7. SplitIsAlone(p, d, v, gui, e)
  <2> SUFFICES ASSUME NEW m \in DOMAIN p, p[m].act = "SplitCell"
               PROVE  /\ gui = "processing" /\ e = NoErase /\ SameTexts(d, v)
                      /\ \A n \in DOMAIN p : ~IsText(p[n]) /\ (p[n].act = "SplitCell" => n = m)
    BY DEF SplitIsAlone
  <2>1. CASE m \in DOMAIN q /\ p[m] = q[m]
    <3>1. /\ gui = "processing" /\ e = NoErase /\ SameTexts(d, v)
          /\ \A n \in DOMAIN q : ~IsText(q[n]) /\ (q[n].act = "SplitCell" => n = m)
      BY <2>1 DEF QueueFits, SplitIsAlone
    <3>2. \A n \in DOMAIN r : ~IsText(r[n]) /\ r[n].act # "SplitCell"
      BY <2>1 DEF Joins
    <3> QED
      BY <1>2, <3>1, <3>2
  <2>2. CASE m - Len(q) \in DOMAIN r /\ p[m] = r[m - Len(q)] /\ m > Len(q)
    <3>1. /\ gui = "processing" /\ e = NoErase /\ SameTexts(d, v) /\ Len(r) = 1
          /\ \A n \in DOMAIN q : ~IsText(q[n]) /\ q[n].act # "SplitCell"
      BY <2>2 DEF Joins
    <3>2. DOMAIN r = {1} /\ m - Len(q) = 1
      BY <2>2, <3>1
    <3>3. r[1].act = "SplitCell"
      BY <2>2, <3>2
    <3>4. ASSUME NEW n \in DOMAIN p
          PROVE  ~IsText(p[n]) /\ (p[n].act = "SplitCell" => n = m)
      <4>1. CASE n \in DOMAIN q /\ p[n] = q[n]
        BY <3>1, <4>1
      <4>2. CASE n - Len(q) \in DOMAIN r /\ p[n] = r[n - Len(q)]
        <5>1. n - Len(q) = 1 /\ n \in Int /\ m \in Int
          BY <1>1, <3>2, <4>2
        <5>2. n = m
          BY <1>1, <3>2, <5>1
        <5> QED
          BY <3>3, <4>2, <5>1, <5>2 DEF IsText
      <4> QED
        BY <1>2, <4>1, <4>2
    <3> QED
      BY <3>1, <3>4
  <2> QED
    BY <1>2, <2>1, <2>2
<1>8. IdleAgrees(p, d, v, gui, e)
  BY <1>2 DEF IdleAgrees, QueueFits, Joins
<1>9. CursorIsThere(p, d, cur, gui, ev)
  BY DEF CursorIsThere, Joins
<1> QED
  BY <1>1, <1>3, <1>5, <1>6, <1>7, <1>8, <1>9 DEF QueueFits, p

\* The user starts something while the program is idle.
LEMMA QueueStarted ==
  ASSUME NEW q, NEW d, NEW v, NEW cur, NEW ev,
         QueueFits(q, d, v, cur, "idle", NoErase, ev),
         NEW v1, NEW cur1, NEW e1, HasCell(d, cur1),
         e1 # NoErase => HasCell(d, e1.cell)
  PROVE  /\ QueueFits(q, d, v1, cur1, "processing", e1, ev)
         /\ SameTexts(d, v) /\ HasCell(d, cur)
         /\ \A m \in DOMAIN q : /\ ~IsText(q[m])
                                /\ q[m].act # "RemoveCell" /\ q[m].act # "SplitCell"
<1>1. "idle" # "processing"
  OBVIOUS
<1>2. /\ SameTexts(d, v) /\ HasCell(d, cur)
      /\ \A m \in DOMAIN q : /\ ~IsText(q[m])
                             /\ q[m].act # "RemoveCell" /\ q[m].act # "SplitCell"
  BY <1>1 DEF QueueFits, RemovalIsLast, SplitIsAlone, IdleAgrees, CursorIsThere
<1>3. CellsAreThere(q, d, e1, ev) /\ OutputsAreThere(q, d)
  BY DEF QueueFits, CellsAreThere
<1>4. RemovalIsLast(q, d, cur1, "processing", e1, ev)
  BY <1>2 DEF RemovalIsLast
<1>5. SplitIsAlone(q, d, v1, "processing", e1)
  BY <1>2 DEF SplitIsAlone
<1>6. IdleAgrees(q, d, v1, "processing", e1)
  BY <1>1 DEF IdleAgrees
<1>7. CursorIsThere(q, d, cur1, "processing", ev)
  BY DEF CursorIsThere
<1> QED
  BY <1>2, <1>3, <1>4, <1>5, <1>6, <1>7 DEF QueueFits

\* The first action is done on the texts: those of the cells that were there
\* became what the action leads them to, and a new cell shows its text.
TextsFollow(q, d, v, e, d1, v1) ==
  \A k \in DOMAIN d1 :
    \/ \E l \in DOMAIN d :
         /\ d1[k].addr = d[l].addr /\ Shown(v1[k], e) = Shown(v[l], e)
         /\ \A u : TextStep(q[1], d[l].addr, d[l].text, u) => d1[k].text = u
    \/ /\ d1[k].text \in Seq(Char) /\ Shown(v1[k], e) = d1[k].text
       /\ \A m \in DOMAIN q : q[m].cell # d1[k].addr

LEMMA TextsTaken ==
  ASSUME NEW q \in Seq(Actions), q # <<>>, NEW d, NEW v, NEW e, TextsAgree(q, d, v, e),
         NEW d1, NEW v1, TextsFollow(q, d, v, e, d1, v1)
  PROVE  TextsAgree(Tail(q), d1, v1, e)
<1> SUFFICES ASSUME NEW k \in DOMAIN d1
             PROVE  Leads(Tail(q), d1[k].addr, d1[k].text, Shown(v1[k], e))
  BY DEF TextsAgree
<1>0. /\ Head(q) = q[1] /\ Tail(q) \in Seq(Actions)
      /\ \A m \in DOMAIN Tail(q) : m + 1 \in DOMAIN q /\ Tail(q)[m] = q[m + 1]
  BY Taken
<1>1. ASSUME NEW l \in DOMAIN d,
             d1[k].addr = d[l].addr, Shown(v1[k], e) = Shown(v[l], e),
             \A u : TextStep(q[1], d[l].addr, d[l].text, u) => d1[k].text = u
      PROVE  Leads(Tail(q), d1[k].addr, d1[k].text, Shown(v1[k], e))
  <2>1. Leads(q, d[l].addr, d[l].text, Shown(v[l], e))
    BY DEF TextsAgree
  <2>2. PICK u \in Seq(Char) : /\ TextStep(Head(q), d[l].addr, d[l].text, u)
                               /\ Leads(Tail(q), d[l].addr, u, Shown(v[l], e))
    BY <2>1, LeadsFirst
  <2>3. d1[k].text = u
    BY <1>0, <1>1, <2>2
  <2> QED
    BY <1>1, <2>2, <2>3
<1>2. ASSUME d1[k].text \in Seq(Char), Shown(v1[k], e) = d1[k].text,
             \A m \in DOMAIN q : q[m].cell # d1[k].addr
      PROVE  Leads(Tail(q), d1[k].addr, d1[k].text, Shown(v1[k], e))
  <2>1. \A m \in DOMAIN Tail(q) : ~(IsText(Tail(q)[m]) /\ Tail(q)[m].cell = d1[k].addr)
    BY <1>0, <1>2
  <2>2. Leads(Tail(q), d1[k].addr, d1[k].text, d1[k].text)
    BY <1>0, <1>2, <2>1, LeadsAside
  <2> QED
    BY <1>2, <2>2
<1> QED
  BY <1>1, <1>2 DEF TextsFollow

\* Actions are added that lead what a widget showed to what it shows now.
LEMMA TextsAppended ==
  ASSUME NEW q \in Seq(Actions), NEW r \in Seq(Actions), NEW d, NEW v, NEW e, NEW v1, NEW e1,
         TextsAgree(q, d, v, e),
         \A i \in DOMAIN d : Leads(r, d[i].addr, Shown(v[i], e), Shown(v1[i], e1))
  PROVE  TextsAgree(q \o r, d, v1, e1)
<1> SUFFICES ASSUME NEW i \in DOMAIN d
             PROVE  Leads(q \o r, d[i].addr, d[i].text, Shown(v1[i], e1))
  BY DEF TextsAgree
<1>1. Leads(q, d[i].addr, d[i].text, Shown(v[i], e))
  BY DEF TextsAgree
<1>2. Leads(r, d[i].addr, Shown(v[i], e), Shown(v1[i], e1))
  OBVIOUS
<1> QED
  BY <1>1, <1>2, LeadsOn

\* With no action on text in the queue, the widgets show the texts, and the
\* other way round.
LEMMA TextsSettled ==
  ASSUME NEW q \in Seq(Actions), NEW d, NEW v, NEW n, Shape(d, v, n),
         SameTexts(d, v), \A m \in DOMAIN q : ~IsText(q[m])
  PROVE  TextsAgree(q, d, v, NoErase)
<1> SUFFICES ASSUME NEW i \in DOMAIN d
             PROVE  Leads(q, d[i].addr, d[i].text, Shown(v[i], NoErase))
  BY DEF TextsAgree
<1>1. d[i] \in Cells /\ v[i].addr = d[i].addr
  BY DEF Shape
<1>2. d[i].text \in Seq(Char) /\ d[i].addr # NoCell
  BY <1>1, CellTypes, DocumentBounds
<1>3. Shown(v[i], NoErase) = d[i].text
  BY <1>1, <1>2 DEF Shown, NoErase, SameTexts
<1> QED
  BY <1>2, <1>3, LeadsAside

-----------------------------------------------------------------------------
(* The actions of the queue.                                                *)

LEMMA FirstText ==
  ASSUME NEW q \in Seq(Actions), q # <<>>, NEW d, NEW v, NEW e, TextsAgree(q, d, v, e),
         NEW i \in DOMAIN d
  PROVE  \E u \in Seq(Char) : TextStep(q[1], d[i].addr, d[i].text, u)
<1>1. Leads(q, d[i].addr, d[i].text, Shown(v[i], e))
  BY DEF TextsAgree
<1>2. PICK u \in Seq(Char) : TextStep(Head(q), d[i].addr, d[i].text, u)
  BY <1>1, LeadsFirst
<1> QED
  BY <1>2, Taken

\* What every action of the queue finds.
LEMMA Found ==
  ASSUME Good, pending_actions # <<>>
  PROVE  LET a == pending_actions[1]
             i == Index(doc, a.cell) IN
         /\ a = Action /\ a \in Actions
         /\ HasCell(doc, a.cell) /\ i \in DOMAIN doc /\ doc[i].addr = a.cell
         /\ HasCell(view, a.cell) /\ Index(view, a.cell) = i /\ i \in DOMAIN view
         /\ a.cell \in Address /\ a.cell \in Widgets(view) /\ a.cell \in Places
         /\ doc[i] \in Cells /\ doc[i].text \in Seq(Char)
         /\ doc[i].kids \in Seq(OutputCell)
         /\ a.act # "PositionCursor" => HasCell(doc, current_cell)
<1> DEFINE q == pending_actions
           a == q[1]
           i == Index(doc, a.cell)
<1>1. q \in Seq(Actions) /\ Shape(doc, view, created) /\ q # <<>>
      /\ CellsAreThere(q, doc, erasing, evaluating)
      /\ CursorIsThere(q, doc, current_cell, gui_pc, evaluating)
  BY DEF Good, QueueFits
<1>2. a \in Actions /\ 1 \in DOMAIN q /\ a = Action
  BY <1>1, Taken DEF Action
<1>3. HasCell(doc, a.cell)
  BY <1>1, <1>2 DEF CellsAreThere
<1>4. /\ HasCell(view, a.cell) /\ Index(view, a.cell) = i
      /\ i \in DOMAIN doc /\ i \in DOMAIN view /\ doc[i].addr = a.cell
      /\ a.cell \in Address /\ a.cell \in Widgets(view)
  BY <1>1, <1>3, SameCells
<1>5. doc[i] \in Cells
  BY <1>1, <1>4 DEF Shape
<1>6. doc[i].text \in Seq(Char) /\ doc[i].kids \in Seq(OutputCell)
  BY <1>5, CellTypes
<1>7. a.act # "PositionCursor" => HasCell(doc, current_cell)
  BY <1>1 DEF CursorIsThere
<1>8. a.cell \in Places
  BY <1>4 DEF Places
<1> QED
  BY <1>2, <1>3, <1>4, <1>5, <1>6, <1>7, <1>8

LEMMA Remembered ==
  ASSUME Good, NEW a \in Actions, NEW newref \in Places, NEW index \in Nat,
         NEW removed \in Seq(Char) \cup Seq(Cells) \cup Seq(OutputCell), NEW d1,
         LET e == [action |-> a, newref |-> newref, index |-> index,
                   removed |-> removed, before |-> doc] IN Reversible(e) => Undoes(e, d1)
  PROVE  LET e == [action |-> a, newref |-> newref, index |-> index,
                   removed |-> removed, before |-> doc] IN
         /\ Append(undo_stack, e) \in Seq(Entries) /\ Chain(Append(undo_stack, e), d1)
<1> DEFINE e == [action |-> a, newref |-> newref, index |-> index,
                 removed |-> removed, before |-> doc]
<1>1. undo_stack \in Seq(Entries) /\ Chain(undo_stack, doc) /\ doc \in Seq(Cells)
  BY DEF Good, Shape
<1>2. e \in Entries /\ e.before = doc
  BY <1>1 DEF Entries
<1>3. Reversible(e) => Undoes(e, d1)
  OBVIOUS
<1> HIDE DEF e
<1>4. Append(undo_stack, e) \in Seq(Entries) /\ Chain(Append(undo_stack, e), d1)
  BY <1>1, <1>2, <1>3, ChainPushed, SMTT(40)
<1> QED
  BY <1>4 DEF e

\* An action on the text of a cell finds its place in it.
LEMMA TextExecuted ==
  ASSUME Good, gui_pc = "processing", pending_actions # <<>>, IsText(pending_actions[1])
  PROVE  LET a  == pending_actions[1]
             i  == Index(doc, a.cell)
             t  == doc[i].text
             t1 == TextAfter(a, t)
             d1 == WithText(doc, i, t1) IN
         /\ InRange(a, t) /\ t1 \in Seq(Char)
         /\ Shape(d1, view, created)
         /\ QueueFits(Tail(pending_actions), d1, view, current_cell, gui_pc, erasing,
                      evaluating)
         /\ TextsAgree(Tail(pending_actions), d1, view, erasing)
         /\ HasCell(d1, a.cell) /\ Index(d1, a.cell) = i /\ d1[i].text = t1
         /\ WithText(d1, i, t) = doc
<1> DEFINE q  == pending_actions
           a  == q[1]
           c  == a.cell
           i  == Index(doc, c)
           t  == doc[i].text
           t1 == TextAfter(a, t)
           d1 == WithText(doc, i, t1)
<1>1. /\ q \in Seq(Actions) /\ q # <<>> /\ Shape(doc, view, created)
      /\ QueueFits(q, doc, view, current_cell, gui_pc, erasing, evaluating)
      /\ TextsAgree(q, doc, view, erasing)
  BY DEF Good
<1>2. /\ HasCell(doc, c) /\ i \in DOMAIN doc /\ doc[i].addr = c /\ t \in Seq(Char)
      /\ HasCell(doc, current_cell)
  BY Found DEF IsText
<1>3. PICK u \in Seq(Char) : TextStep(a, c, t, u)
  BY <1>1, <1>2, FirstText
<1>4. InRange(a, t) /\ t1 \in Seq(Char)
  BY <1>3 DEF TextStep
<1> HIDE DEF t1, d1
<1>5. /\ Shape(d1, view, created)
      /\ \A x : (HasCell(d1, x) <=> HasCell(doc, x)) /\ Index(d1, x) = Index(doc, x)
      /\ DOMAIN d1 = DOMAIN doc
      /\ \A k \in DOMAIN doc : /\ d1[k].addr = doc[k].addr /\ d1[k].kids = doc[k].kids
                               /\ d1[k].text = IF k = i THEN t1 ELSE doc[k].text
      /\ WithText(d1, i, t) = doc
  <2> DEFINE b == view[i].buffer
  <2>1. b \in Seq(Char)
    <3>1. view[i] \in Boxes
      BY <1>1, <1>2 DEF Shape
    <3> QED
      BY <3>1 DEF Boxes
  <2>2. WithBuffer(view, i, b) = view
    BY <1>1, <1>2, SameFields
  <2> HIDE DEF b
  <2>3. /\ Shape(WithText(doc, i, t1), WithBuffer(view, i, b), created)
        /\ \A x : /\ HasCell(WithText(doc, i, t1), x) <=> HasCell(doc, x)
                  /\ Index(WithText(doc, i, t1), x) = Index(doc, x)
        /\ DOMAIN WithText(doc, i, t1) = DOMAIN doc
        /\ \A k \in DOMAIN doc :
             /\ WithText(doc, i, t1)[k].addr = doc[k].addr
             /\ WithText(doc, i, t1)[k].kids = doc[k].kids
             /\ WithText(doc, i, t1)[k].text = IF k = i THEN t1 ELSE doc[k].text
        /\ WithText(WithText(doc, i, t1), i, t) = doc
    BY <1>1, <1>2, <1>4, <2>1, TextChanged
  <2> QED
    BY <2>2, <2>3 DEF d1
<1>6. Takes(q, doc, view, d1, view, current_cell)
  <2>1. ASSUME NEW m \in DOMAIN q, q[m].act = "RemoveOutput"
        PROVE  KidOf(d1, q[m].cell, q[m].output)
    <3>1. KidOf(doc, q[m].cell, q[m].output) /\ HasCell(doc, q[m].cell)
      BY <1>1, <2>1 DEF QueueFits, OutputsAreThere, CellsAreThere
    <3>2. Index(doc, q[m].cell) \in DOMAIN doc
      BY <3>1, Indexed
    <3> QED
      BY <1>5, <3>1, <3>2 DEF KidOf
  <2>2. HasCell(d1, current_cell)
    BY <1>2, <1>5
  <2>3. a.act # "PositionCursor" /\ IsText(a)
    BY DEF IsText
  <2> QED
    BY <1>5, <2>1, <2>2, <2>3 DEF Takes
<1>7. QueueFits(Tail(q), d1, view, current_cell, gui_pc, erasing, evaluating)
  BY <1>1, <1>6, QueueTaken
<1>8. TextsFollow(q, doc, view, erasing, d1, view)
  <2> SUFFICES ASSUME NEW k \in DOMAIN d1
               PROVE  \A u1 : TextStep(a, doc[k].addr, doc[k].text, u1) => d1[k].text = u1
    BY <1>5 DEF TextsFollow
  <2>1. CASE k = i
    BY <1>2, <1>5, <2>1 DEF TextStep, t1
  <2>2. CASE k # i
    <3>1. doc[k].addr # c
      BY <1>1, <1>2, <1>5, <2>2 DEF Shape
    <3> QED
      BY <1>5, <2>2, <3>1 DEF TextStep
  <2> QED
    BY <2>1, <2>2
<1>9. TextsAgree(Tail(q), d1, view, erasing)
  BY <1>1, <1>8, TextsTaken
<1>10. HasCell(d1, c) /\ Index(d1, c) = i /\ d1[i].text = t1
  BY <1>2, <1>5
<1> QED
  BY <1>4, <1>5, <1>7, <1>9, <1>10 DEF t1, d1

LEMMA InsertTextGood ==
  ASSUME Good, corrupt = "no", InsertText_execute
  PROVE  Good' /\ corrupt' = "no"
<1> DEFINE q  == pending_actions
           a  == q[1]
           i  == Index(doc, a.cell)
           t  == doc[i].text
           t1 == Inserted(t, a.pos, a.text)
           d1 == WithText(doc, i, t1)
           e  == [action |-> a, newref |-> NoCell, index |-> 0, removed |-> <<>>,
                  before |-> doc]
<1>1. gui_pc = "processing" /\ q # <<>>
  BY DEF InsertText_execute, Executes
<1>2. a = Action /\ a \in Actions /\ HasCell(doc, a.cell) /\ i \in DOMAIN doc
      /\ t \in Seq(Char)
  BY <1>1, Found
<1>3. a.act = "InsertText" /\ IsText(a)
  BY <1>2 DEF InsertText_execute, Executes, Action, IsText
<1>4. a.pos \in Nat /\ a.text \in Seq(Char)
  BY <1>2, <1>3, ActionTypes
<1>5. /\ a.pos <= Len(t) /\ t1 = TextAfter(a, t)
      /\ Shape(d1, view, created)
      /\ QueueFits(Tail(q), d1, view, current_cell, gui_pc, erasing, evaluating)
      /\ TextsAgree(Tail(q), d1, view, erasing)
      /\ HasCell(d1, a.cell) /\ Index(d1, a.cell) = i /\ d1[i].text = t1
      /\ WithText(d1, i, t) = doc
  <2>1. TextAfter(a, t) = t1 /\ (InRange(a, t) => a.pos <= Len(t))
    BY <1>3 DEF TextAfter, InRange
  <2> HIDE DEF t1
  <2> QED
    BY <1>1, <1>3, <2>1, TextExecuted
<1>6. ~(Action.pos > Len(doc[Index(doc, Action.cell)].text))
  BY <1>2, <1>4, <1>5
<1>7. /\ doc' = [doc EXCEPT ![i].text = t1]
      /\ view' = view /\ stale' = stale /\ current_cell' = current_cell
      /\ created' = created
      /\ undo_stack' = Append(undo_stack, e)
      /\ pending_actions' = Tail(q) \o <<>>
      /\ UNCHANGED <<gui_pc, erasing, evaluating, corrupt, userVars>>
  BY <1>2, <1>6 DEF InsertText_execute, Undoable, Executed
<1>8. doc' = d1
  BY <1>7 DEF WithText
<1>9. pending_actions' = Tail(q) /\ Tail(q) \in Seq(Actions)
  <2>1. Tail(q) \in Seq(Actions)
    BY <1>1, Taken DEF Good
  <2> QED
    BY <1>7, <2>1, ConcatEmptySeq
<1>10. Undoes(e, d1)
  <2>1. /\ a.pos \in 0..Len(t) /\ Len(t) \in Nat /\ t \in Seq(Char)
        /\ a.text \in Seq(Char) /\ Len(a.text) \in Nat
    BY <1>2, <1>4, <1>5
  <2>2. /\ Len(t1) = Len(t) + Len(a.text)
        /\ Erased(t1, a.pos, a.pos + Len(a.text)) = t
    <3> HIDE DEF t, a
    <3> QED
      BY <2>1, InsertedText, ZenonT(60)
  <2>3. a.pos <= Len(t1)
    <3> HIDE DEF t, a, t1
    <3> QED
      BY <2>1, <2>2
  <2>4. e.before = WithText(d1, i, Erased(d1[i].text, a.pos, a.pos + Len(a.text)))
    BY <1>5, <2>2
  <2>5. e.action = a /\ e.newref = NoCell /\ e.before = doc
    OBVIOUS
  <2> HIDE DEF d1, e, t1, i, a
  <2> QED
    BY <1>3, <1>5, <2>3, <2>4, <2>5 DEF Undoes
<1>11. undo_stack' \in Seq(Entries) /\ Chain(undo_stack', d1)
  <2>1. NoCell \in Places /\ 0 \in Nat /\ <<>> \in Seq(Char)
    BY DEF Places
  <2> HIDE DEF d1
  <2> QED
    BY <1>2, <1>7, <1>10, <2>1, Remembered
<1> HIDE DEF d1, e
<1>12. gui_pc' = gui_pc /\ erasing' = erasing /\ evaluating' = evaluating
       /\ corrupt' = corrupt /\ ops' = ops
  BY <1>7 DEF userVars
<1>13. Good'
  BY <1>5, <1>7, <1>8, <1>9, <1>11, <1>12 DEF Good
<1> QED
  BY <1>12, <1>13

LEMMA EraseTextGood ==
  ASSUME Good, corrupt = "no", EraseText_execute
  PROVE  Good' /\ corrupt' = "no"
<1> DEFINE q  == pending_actions
           a  == q[1]
           i  == Index(doc, a.cell)
           t  == doc[i].text
           n  == IF a.to < Len(t) THEN a.to ELSE Len(t)
           t1 == Erased(t, a.from, a.to)
           d1 == WithText(doc, i, t1)
           s  == SubSeq(t, a.from + 1, n)
           e  == [action |-> a, newref |-> NoCell, index |-> 0, removed |-> s,
                  before |-> doc]
<1>1. gui_pc = "processing" /\ q # <<>>
  BY DEF EraseText_execute, Executes
<1>2. a = Action /\ a \in Actions /\ HasCell(doc, a.cell) /\ i \in DOMAIN doc
      /\ t \in Seq(Char)
  BY <1>1, Found
<1>3. a.act = "EraseText" /\ IsText(a)
  BY <1>2 DEF EraseText_execute, Executes, Action, IsText
<1>4. a.from \in Nat /\ a.to \in Nat /\ a.from <= a.to
  BY <1>2, <1>3, ActionTypes
<1>5. /\ a.from <= Len(t) /\ t1 = TextAfter(a, t)
      /\ Shape(d1, view, created)
      /\ QueueFits(Tail(q), d1, view, current_cell, gui_pc, erasing, evaluating)
      /\ TextsAgree(Tail(q), d1, view, erasing)
      /\ HasCell(d1, a.cell) /\ Index(d1, a.cell) = i /\ d1[i].text = t1
      /\ WithText(d1, i, t) = doc
  <2>1. TextAfter(a, t) = t1 /\ (InRange(a, t) => a.from <= Len(t))
    BY <1>3 DEF TextAfter, InRange
  <2> HIDE DEF t1
  <2> QED
    BY <1>1, <1>3, <2>1, TextExecuted
<1>6. ~(Action.from > Len(doc[Index(doc, Action.cell)].text))
  BY <1>2, <1>4, <1>5
<1>7. /\ doc' = [doc EXCEPT ![i].text = t1]
      /\ view' = view /\ stale' = stale /\ current_cell' = current_cell
      /\ created' = created
      /\ undo_stack' = Append(undo_stack, e)
      /\ pending_actions' = Tail(q) \o <<>>
      /\ UNCHANGED <<gui_pc, erasing, evaluating, corrupt, userVars>>
  BY <1>2, <1>6 DEF EraseText_execute, Undoable, Executed
<1>8. doc' = d1
  BY <1>7 DEF WithText
<1>9. pending_actions' = Tail(q) /\ Tail(q) \in Seq(Actions)
  <2>1. Tail(q) \in Seq(Actions)
    BY <1>1, Taken DEF Good
  <2> QED
    BY <1>7, <2>1, ConcatEmptySeq
<1>10. a.from <= Len(t1) /\ s \in Seq(Char) /\ Inserted(t1, a.from, s) = t
  <2>1. a.from \in 0..Len(t) /\ n \in Nat
    BY <1>2, <1>4, <1>5
  <2>2. n = IF a.to < Len(t) THEN a.to ELSE Len(t)
    OBVIOUS
  <2> HIDE DEF n
  <2> QED
    BY <1>2, <1>4, <2>1, <2>2, ErasedText, SMTT(60)
<1>11. Undoes(e, d1)
  <2>1. e.before = WithText(d1, i, Inserted(d1[i].text, a.from, e.removed))
    BY <1>5, <1>10
  <2>2. e.action = a /\ e.newref = NoCell /\ e.before = doc
    OBVIOUS
  <2> HIDE DEF d1, e, t1, i, a
  <2> QED
    BY <1>3, <1>5, <1>10, <2>1, <2>2 DEF Undoes
<1>12. undo_stack' \in Seq(Entries) /\ Chain(undo_stack', d1)
  <2>1. NoCell \in Places /\ 0 \in Nat
    BY DEF Places
  <2> HIDE DEF d1, s
  <2> QED
    BY <1>2, <1>7, <1>10, <1>11, <2>1, Remembered
<1> HIDE DEF d1, e
<1>13. gui_pc' = gui_pc /\ erasing' = erasing /\ evaluating' = evaluating
       /\ corrupt' = corrupt /\ ops' = ops
  BY <1>7 DEF userVars
<1>14. Good'
  BY <1>5, <1>7, <1>8, <1>9, <1>12, <1>13 DEF Good
<1> QED
  BY <1>13, <1>14

\* The outputs of the cell of the first action change: one is added, or the one
\* that the action removes goes.
LEMMA OutputsExecuted ==
  ASSUME Good, gui_pc = "processing", pending_actions # <<>>,
         pending_actions[1].act \in {"AddCell", "RemoveOutput"},
         NEW m \in Nat, created <= m,
         NEW ks \in Seq(OutputCell), NEW ws \in Seq(Address), Twins(ks, ws, m),
         \A x : KidOf(doc, pending_actions[1].cell, x)
                  /\ (pending_actions[1].act = "RemoveOutput" => x # pending_actions[1].output)
                  => \E j \in DOMAIN ks : ks[j].addr = x
  PROVE  LET c  == pending_actions[1].cell
             i  == Index(doc, c)
             d1 == WithKids(doc, i, ks)
             v1 == WithKids(view, i, ws) IN
         /\ Shape(d1, v1, m)
         /\ QueueFits(Tail(pending_actions), d1, v1, current_cell, gui_pc, erasing,
                      evaluating)
         /\ TextsAgree(Tail(pending_actions), d1, v1, erasing)
         /\ HasCell(d1, c) /\ Index(d1, c) = i /\ d1[i].kids = ks
         /\ WithKids(d1, i, doc[i].kids) = doc
<1> DEFINE q  == pending_actions
           a  == q[1]
           c  == a.cell
           i  == Index(doc, c)
           d1 == WithKids(doc, i, ks)
           v1 == WithKids(view, i, ws)
<1>1. /\ q \in Seq(Actions) /\ q # <<>> /\ Shape(doc, view, created)
      /\ QueueFits(q, doc, view, current_cell, gui_pc, erasing, evaluating)
      /\ TextsAgree(q, doc, view, erasing)
  BY DEF Good
<1>2. /\ HasCell(doc, c) /\ i \in DOMAIN doc /\ doc[i].addr = c
      /\ HasCell(doc, current_cell)
  BY Found
<1> HIDE DEF d1, v1
<1>3. /\ Shape(d1, v1, m)
      /\ \A x : (HasCell(d1, x) <=> HasCell(doc, x)) /\ Index(d1, x) = Index(doc, x)
      /\ DOMAIN d1 = DOMAIN doc
      /\ \A l \in DOMAIN doc : /\ d1[l].addr = doc[l].addr /\ d1[l].text = doc[l].text
                               /\ d1[l].kids = IF l = i THEN ks ELSE doc[l].kids
                               /\ v1[l].addr = view[l].addr
                               /\ v1[l].buffer = view[l].buffer
      /\ WithKids(d1, i, doc[i].kids) = doc
  <2> HIDE DEF i
  <2> QED
    BY <1>1, <1>2, KidsChanged DEF d1, v1
<1>4. ASSUME NEW n \in DOMAIN q, n # 1, q[n].act = "RemoveOutput"
      PROVE  KidOf(d1, q[n].cell, q[n].output)
  <2>1. /\ KidOf(doc, q[n].cell, q[n].output) /\ HasCell(doc, q[n].cell)
        /\ a.act = "RemoveOutput" => q[n].cell # c \/ q[n].output # a.output
    <3>1. 1 \in DOMAIN q
      BY <1>1, Taken
    <3> QED
      BY <1>1, <1>4, <3>1 DEF QueueFits, OutputsAreThere, CellsAreThere
  <2>2. Index(doc, q[n].cell) \in DOMAIN doc
    BY <2>1, Indexed
  <2>3. CASE q[n].cell = c
    <3>1. \E j \in DOMAIN ks : ks[j].addr = q[n].output
      BY <2>1, <2>3
    <3>2. d1[Index(d1, c)].kids = ks
      BY <1>2, <1>3
    <3> QED
      BY <2>3, <3>1, <3>2 DEF KidOf
  <2>4. CASE q[n].cell # c
    <3>1. Index(doc, q[n].cell) # i
      BY <1>2, <2>1, <2>4, Indexed
    <3>2. /\ Index(d1, q[n].cell) = Index(doc, q[n].cell)
          /\ d1[Index(doc, q[n].cell)].kids = doc[Index(doc, q[n].cell)].kids
      BY <1>3, <2>2, <3>1
    <3> QED
      BY <2>1, <3>2 DEF KidOf
  <2> QED
    BY <2>3, <2>4
<1>5. ~IsText(a) /\ a.act # "PositionCursor"
  BY DEF IsText
<1>6. Takes(q, doc, view, d1, v1, current_cell)
  <2>1. SameTexts(doc, view) => SameTexts(d1, v1)
    BY <1>3 DEF SameTexts
  <2> QED
    BY <1>2, <1>3, <1>4, <1>5, <2>1 DEF Takes
<1>7. QueueFits(Tail(q), d1, v1, current_cell, gui_pc, erasing, evaluating)
  BY <1>1, <1>6, QueueTaken
<1>8. TextsFollow(q, doc, view, erasing, d1, v1)
  <2>1. \A k \in DOMAIN doc : Shown(v1[k], erasing) = Shown(view[k], erasing)
    BY <1>3 DEF Shown
  <2> QED
    BY <1>3, <1>5, <2>1 DEF TextsFollow, TextStep
<1>9. TextsAgree(Tail(q), d1, v1, erasing)
  BY <1>1, <1>8, TextsTaken
<1> QED
  BY <1>2, <1>3, <1>7, <1>9 DEF d1, v1

\* The first action puts in a cell.
LEMMA CellExecuted ==
  ASSUME Good, gui_pc = "processing", pending_actions # <<>>,
         pending_actions[1].act \in {"AddCell", "PositionCursor"},
         created + 1 \in Address, NEW p \in 1..(Len(doc) + 1),
         NEW cur1, HasCell(doc, cur1) \/ cur1 = created + 1,
         pending_actions[1].act = "PositionCursor" => cur1 # pending_actions[1].cell
  PROVE  LET c  == pending_actions[1].cell
             x  == Input(created + 1, <<>>)
             d1 == InsertAt(doc, p, x)
             v1 == InsertAt(view, p, InputWidget(created + 1, <<>>)) IN
         /\ Shape(d1, v1, created + 1)
         /\ QueueFits(Tail(pending_actions), d1, v1, cur1, gui_pc, erasing,
                      evaluating)
         /\ TextsAgree(Tail(pending_actions), d1, v1, erasing)
         /\ HasCell(d1, c) /\ c # created + 1
         /\ HasCell(d1, created + 1) /\ Index(d1, created + 1) = p
         /\ RemoveAt(d1, p) = doc
<1> DEFINE q  == pending_actions
           a  == q[1]
           c  == a.cell
           n1 == created + 1
           x  == Input(n1, <<>>)
           y  == InputWidget(n1, <<>>)
           d1 == InsertAt(doc, p, x)
           v1 == InsertAt(view, p, y)
<1>1. /\ q \in Seq(Actions) /\ q # <<>> /\ Shape(doc, view, created)
      /\ QueueFits(q, doc, view, current_cell, gui_pc, erasing, evaluating)
      /\ TextsAgree(q, doc, view, erasing)
  BY DEF Good
<1>2. HasCell(doc, c)
  BY Found
<1> HIDE DEF d1, v1
<1>3. /\ Shape(d1, v1, n1)
      /\ p \in DOMAIN d1 /\ d1[p] = x /\ v1[p] = y
      /\ \A k \in DOMAIN d1 : k # p => \E l \in DOMAIN doc : d1[k] = doc[l] /\ v1[k] = view[l]
      /\ \A k \in DOMAIN doc : \E l \in DOMAIN d1 : d1[l] = doc[k] /\ v1[l] = view[k]
      /\ \A u : HasCell(d1, u) <=> HasCell(doc, u) \/ u = n1
  <2> DEFINE t == <<>>
  <2>1. t \in Seq(Char) /\ x = Input(n1, t) /\ y = InputWidget(n1, t)
    OBVIOUS
  <2> HIDE DEF t, x, y
  <2> QED
    BY <1>1, <2>1, CellAdded DEF d1, v1
<1>4. ~IsText(a) /\ x.addr = n1 /\ x.text = <<>> /\ y.addr = n1 /\ y.buffer = <<>>
  BY DEF IsText, Input, InputWidget
<1> HIDE DEF x, y
<1>5. \A u : HasCell(doc, u) => u # n1
  <2> SUFFICES ASSUME NEW u, HasCell(doc, u)
               PROVE  u # n1
    OBVIOUS
  <2>1. u <= created /\ u \in Nat /\ created \in Nat
    BY <1>1, SameCells, AddressesAreNumbers DEF Shape
  <2> QED
    BY <2>1
<1>6. Takes(q, doc, view, d1, v1, cur1)
  <2>1. ASSUME NEW m \in DOMAIN q, q[m].act = "RemoveOutput"
        PROVE  KidOf(d1, q[m].cell, q[m].output)
    <3>1. KidOf(doc, q[m].cell, q[m].output) /\ HasCell(doc, q[m].cell)
      BY <1>1, <2>1 DEF QueueFits, OutputsAreThere, CellsAreThere
    <3>2. Index(doc, q[m].cell) \in DOMAIN doc /\ doc[Index(doc, q[m].cell)].addr = q[m].cell
      BY <3>1, Indexed
    <3>3. PICK l \in DOMAIN d1 : d1[l] = doc[Index(doc, q[m].cell)]
      BY <1>3, <3>2
    <3>4. Index(d1, q[m].cell) = l
      BY <1>3, <3>2, <3>3, IndexOf
    <3> QED
      BY <3>1, <3>3, <3>4 DEF KidOf
  <2>2. SameTexts(doc, view) => SameTexts(d1, v1)
    BY <1>3, <1>4 DEF SameTexts
  <2>3. HasCell(d1, cur1)
    BY <1>3
  <2>4. a.act = "PositionCursor" => cur1 # c
    OBVIOUS
  <2> QED
    BY <1>3, <2>1, <2>2, <2>3, <2>4 DEF Takes
<1>7. QueueFits(Tail(q), d1, v1, cur1, gui_pc, erasing, evaluating)
  BY <1>1, <1>6, QueueTaken
<1>8. TextsFollow(q, doc, view, erasing, d1, v1)
  <2> SUFFICES ASSUME NEW k \in DOMAIN d1
               PROVE  \/ \E l \in DOMAIN doc :
                           /\ d1[k].addr = doc[l].addr
                           /\ Shown(v1[k], erasing) = Shown(view[l], erasing)
                           /\ \A u : TextStep(a, doc[l].addr, doc[l].text, u) => d1[k].text = u
                      \/ /\ d1[k].text \in Seq(Char)
                         /\ Shown(v1[k], erasing) = d1[k].text
                         /\ \A m \in DOMAIN q : q[m].cell # d1[k].addr
    BY DEF TextsFollow
  <2>1. CASE k # p
    BY <1>3, <1>4, <2>1 DEF TextStep
  <2>2. CASE k = p
    <3>1. \A m \in DOMAIN q : q[m].cell # n1
      BY <1>1, <1>5 DEF QueueFits, CellsAreThere
    <3>2. erasing.cell # n1
      <4>1. CASE erasing = NoErase
        BY <4>1, DocumentBounds DEF NoErase
      <4>2. CASE erasing # NoErase
        BY <1>1, <1>5, <4>2 DEF QueueFits, CellsAreThere
      <4> QED
        BY <4>1, <4>2
    <3>3. Shown(v1[k], erasing) = <<>>
      BY <1>3, <1>4, <2>2, <3>2 DEF Shown
    <3>4. d1[k].text = <<>> /\ d1[k].addr = n1 /\ <<>> \in Seq(Char)
      BY <1>3, <1>4, <2>2
    <3> QED
      BY <3>1, <3>3, <3>4
  <2> QED
    BY <2>1, <2>2
<1>9. TextsAgree(Tail(q), d1, v1, erasing)
  BY <1>1, <1>8, TextsTaken
<1>10. Index(d1, n1) = p
  BY <1>3, <1>4, IndexOf
<1>11. RemoveAt(d1, p) = doc
  <2>1. x \in Cells /\ doc \in Seq(Cells)
    <3>1. <<>> \in Seq(Char) /\ <<>> \in Seq(OutputCell)
      OBVIOUS
    <3> QED
      BY <1>1, <3>1 DEF x, Input, Cells, Shape
  <2> QED
    BY <2>1, RemovalOfInserted DEF d1
<1> QED
  BY <1>2, <1>3, <1>5, <1>7, <1>9, <1>10, <1>11 DEF d1, v1, x, y

LEMMA NewNode ==
  ASSUME NEW f \in NewNodes(1), created \in Nat
  PROVE  f[1] = created + 1 /\ created + 1 \in Address
<1>1. created + 1 \in Address /\ f = [i \in 1..1 |-> created + i]
  BY DEF NewNodes
<1> QED
  BY <1>1

LEMMA AppendedAtEnd ==
  ASSUME NEW S, NEW s \in Seq(S), NEW e \in S
  PROVE  InsertAt(s, Len(s) + 1, e) = Append(s, e)
<1> DEFINE n == Len(s) + 1
           p == InsertAt(s, n, e)
           r == Append(s, e)
<1>1. n \in 1..(Len(s) + 1) /\ n = Len(s) + 1 /\ Len(s) \in Nat
  OBVIOUS
<1>2. /\ r \in Seq(S) /\ Len(r) = Len(s) + 1
      /\ \A k \in 1..(Len(s) + 1) : r[k] = IF k < Len(s) + 1 THEN s[k] ELSE e
  OBVIOUS
<1> HIDE DEF n, r
<1>3. /\ p \in Seq(S) /\ Len(p) = Len(s) + 1
      /\ \A k \in 1..(Len(s) + 1) :
           p[k] = IF k < n THEN s[k] ELSE IF k = n THEN e ELSE s[k - 1]
  <2>1. IsInsertion(p, S, s, n, e)
    BY <1>1, Insertion, Zenon
  <2> QED
    BY <2>1 DEF IsInsertion
<1> HIDE DEF p
<1>4. \A k \in 1..Len(p) : p[k] = r[k]
  BY <1>1, <1>2, <1>3
<1>5. p = r
  BY <1>2, <1>3, <1>4, SeqEqual
<1> QED
  BY <1>5 DEF p, r, n

LEMMA AddOutputGood ==
  ASSUME Good, corrupt = "no", AddCell_execute, Action.pos = "child"
  PROVE  Good' /\ corrupt' = "no"
<1> DEFINE q  == pending_actions
           a  == q[1]
           i  == Index(doc, a.cell)
           k  == doc[i].kids
           w  == view[i].kids
           n1 == created + 1
           o  == [addr |-> n1, text |-> a.text]
           ks == Append(k, o)
           ws == InsertAt(w, Len(k) + 1, n1)
           d1 == WithKids(doc, i, ks)
           v1 == WithKids(view, i, ws)
           e  == [action |-> a, newref |-> n1, index |-> Len(k), removed |-> <<>>,
                  before |-> doc]
<1>1. gui_pc = "processing" /\ q # <<>>
  BY DEF AddCell_execute, Executes
<1>2. /\ a = Action /\ a \in Actions /\ HasCell(doc, a.cell) /\ i \in DOMAIN doc
      /\ k \in Seq(OutputCell) /\ i \in DOMAIN view /\ Index(view, a.cell) = i
  BY <1>1, Found
<1>3. a.act = "AddCell" /\ a.pos = "child" /\ a.text \in Nat
  <2>1. a.act = "AddCell" /\ a.pos = "child"
    BY <1>2 DEF AddCell_execute, Executes, Action
  <2> QED
    BY <1>2, <2>1, ActionTypes
<1>4. Shape(doc, view, created) /\ created \in Nat
  BY DEF Good, Shape
<1>5. PICK f \in NewNodes(1) :
        LET j == Len(k) + 1 IN
        /\ doc' = [doc EXCEPT ![i].kids = Append(@, [addr |-> f[1], text |-> a.text])]
        /\ view' = add_output(view, a.cell, j, f[1])
        /\ undo_stack' = Append(undo_stack,
             [action |-> a, newref |-> f[1], index |-> j - 1, removed |-> <<>>,
              before |-> doc])
        /\ created' = created + 1
        /\ UNCHANGED <<stale, current_cell>>
        /\ Executed(<<>>)
  <2>1. HasCell(doc, Action.cell)
    BY <1>2
  <2> HIDE DEF q, ks, ws, d1, v1, e, o
  <2> QED
    BY <1>2, <1>3, <2>1 DEF AddCell_execute, Undoable
<1>6. f[1] = n1 /\ n1 \in Address
  BY <1>4, NewNode
<1>7. Len(k) \in Nat /\ (Len(k) + 1) - 1 = Len(k)
  BY <1>2
<1>8. doc' = d1 /\ view' = v1 /\ undo_stack' = Append(undo_stack, e)
  <2> HIDE DEF q, a, i
  <2> QED
    BY <1>2, <1>5, <1>6, <1>7 DEF WithKids, add_output
<1>9. /\ created' = n1 /\ current_cell' = current_cell /\ gui_pc' = gui_pc
      /\ erasing' = erasing /\ evaluating' = evaluating /\ corrupt' = corrupt
      /\ ops' = ops /\ pending_actions' = Tail(q) \o <<>>
  BY <1>5 DEF Executed, userVars, Action
<1>10. pending_actions' = Tail(q) /\ Tail(q) \in Seq(Actions)
  <2>1. Tail(q) \in Seq(Actions)
    BY <1>1, Taken DEF Good
  <2> QED
    BY <1>9, <2>1, ConcatEmptySeq
<1>11. w \in Seq(Address) /\ Twins(k, w, created)
  <2>1. view[i] \in Boxes /\ Twins(k, w, created)
    BY <1>2, <1>4 DEF Shape
  <2> QED
    BY <2>1 DEF Boxes
<1>12. ks \in Seq(OutputCell) /\ ws \in Seq(Address) /\ Twins(ks, ws, n1)
  <2>1. a.text \in Nat
    BY <1>3
  <2> HIDE DEF k, w, a
  <2> QED
    BY <1>2, <1>4, <1>6, <1>11, <2>1, KidAdded
<1>13. o \in OutputCell
  BY <1>3, <1>6 DEF OutputCell
<1>14. /\ Len(ks) = Len(k) + 1 /\ \A j \in DOMAIN k : j \in DOMAIN ks /\ ks[j] = k[j]
       /\ RemoveAt(ks, Len(k) + 1) = k
  <2> HIDE DEF o, k
  <2>1. Len(ks) = Len(k) + 1 /\ \A j \in DOMAIN k : j \in DOMAIN ks /\ ks[j] = k[j]
    BY <1>2, <1>13
  <2>2. ks = InsertAt(k, Len(k) + 1, o) /\ Len(k) + 1 \in 1..(Len(k) + 1)
    BY <1>2, <1>13, AppendedAtEnd
  <2> HIDE DEF ks
  <2> DEFINE m == Len(k) + 1
  <2>3. m \in 1..(Len(k) + 1) /\ ks = InsertAt(k, m, o)
    BY <2>2
  <2> HIDE DEF m
  <2>4. RemoveAt(ks, m) = k
    BY <1>2, <1>13, <2>3, RemovalOfInserted
  <2> QED
    BY <2>1, <2>4 DEF m
<1> HIDE DEF ks, ws, d1, v1, o, k, w
<1>15. /\ Shape(d1, v1, n1)
       /\ QueueFits(Tail(q), d1, v1, current_cell, gui_pc, erasing, evaluating)
       /\ TextsAgree(Tail(q), d1, v1, erasing)
       /\ HasCell(d1, a.cell) /\ Index(d1, a.cell) = i /\ d1[i].kids = ks
       /\ WithKids(d1, i, k) = doc
  <2>1. \A x : KidOf(doc, a.cell, x) => \E j \in DOMAIN ks : ks[j].addr = x
    BY <1>14 DEF KidOf, k
  <2>2. n1 \in Nat /\ created <= n1
    BY <1>4
  <2>3. a.act \in {"AddCell", "RemoveOutput"}
    BY <1>3
  <2> HIDE DEF n1
  <2> QED
    BY <1>1, <1>12, <2>1, <2>2, <2>3, OutputsExecuted DEF d1, v1, k
<1>16. Undoes(e, d1)
  <2>1. /\ e.action = a /\ e.newref = n1 /\ e.index = Len(k) /\ e.before = doc
    OBVIOUS
  <2>2. Len(k) + 1 \in DOMAIN ks
    BY <1>7, <1>12, <1>14 DEF k
  <2> HIDE DEF e, a, i
  <2> QED
    BY <1>3, <1>14, <1>15, <2>1, <2>2 DEF Undoes
<1>17. undo_stack' \in Seq(Entries) /\ Chain(undo_stack', d1)
  <2>1. n1 \in Places /\ Len(k) \in Nat /\ <<>> \in Seq(Char)
    BY <1>6, <1>7 DEF Places, k
  <2> HIDE DEF n1
  <2> QED
    BY <1>2, <1>8, <1>16, <2>1, Remembered
<1> HIDE DEF e
<1>18. Good'
  BY <1>8, <1>9, <1>10, <1>15, <1>17 DEF Good
<1> QED
  BY <1>9, <1>18

LEMMA AddInputGood ==
  ASSUME Good, corrupt = "no", AddCell_execute, Action.pos # "child"
  PROVE  Good' /\ corrupt' = "no"
<1> DEFINE q  == pending_actions
           a  == q[1]
           i  == Index(doc, a.cell)
           n  == IF a.pos = "before" THEN i ELSE i + 1
           n1 == created + 1
           d1 == InsertAt(doc, n, Input(n1, <<>>))
           v1 == InsertAt(view, n, InputWidget(n1, <<>>))
           x  == n - 1
           e  == [action |-> a, newref |-> n1, index |-> x, removed |-> <<>>,
                  before |-> doc]
<1>1. gui_pc = "processing" /\ q # <<>>
  BY DEF AddCell_execute, Executes
<1>2. /\ a = Action /\ a \in Actions /\ HasCell(doc, a.cell) /\ i \in DOMAIN doc
      /\ HasCell(doc, current_cell)
  <2>1. a.act # "PositionCursor"
    BY <1>1, Found DEF AddCell_execute, Executes, Action
  <2> QED
    BY <1>1, <2>1, Found
<1>3. a.act = "AddCell" /\ a.text = <<>> /\ a.pos # "child"
  <2>1. a.act = "AddCell" /\ a.pos # "child"
    BY <1>2 DEF AddCell_execute, Executes, Action
  <2> QED
    BY <1>2, <2>1, ActionTypes
<1>4. Shape(doc, view, created) /\ created \in Nat /\ doc \in Seq(Cells)
  BY DEF Good, Shape
<1>5. PICK f \in NewNodes(1) :
        /\ doc' = InsertAt(doc, n, Input(f[1], a.text))
        /\ view' = add_cell(view, n, f[1], a.text)
        /\ undo_stack' = Append(undo_stack,
             [action |-> a, newref |-> f[1], index |-> n - 1, removed |-> <<>>,
              before |-> doc])
        /\ created' = created + 1
        /\ UNCHANGED <<stale, current_cell>>
        /\ Executed(<<>>)
  <2>1. HasCell(doc, Action.cell)
    BY <1>2
  <2> HIDE DEF q, d1, v1, e
  <2> QED
    BY <1>2, <1>3, <2>1 DEF AddCell_execute, Undoable
<1>6. f[1] = n1 /\ n1 \in Address
  BY <1>4, NewNode
<1>8. doc' = d1 /\ view' = v1 /\ undo_stack' = Append(undo_stack, e)
  <2> HIDE DEF q, a, i, n
  <2> QED
    BY <1>3, <1>5, <1>6 DEF add_cell
<1>9. /\ created' = n1 /\ current_cell' = current_cell /\ gui_pc' = gui_pc
      /\ erasing' = erasing /\ evaluating' = evaluating /\ corrupt' = corrupt
      /\ ops' = ops /\ pending_actions' = Tail(q) \o <<>>
  BY <1>5 DEF Executed, userVars, Action
<1>10. pending_actions' = Tail(q) /\ Tail(q) \in Seq(Actions)
  <2>1. Tail(q) \in Seq(Actions)
    BY <1>1, Taken DEF Good
  <2> QED
    BY <1>9, <2>1, ConcatEmptySeq
<1>11. n \in 1..(Len(doc) + 1) /\ x \in Nat
  BY <1>2, <1>4
<1> HIDE DEF n, d1, v1
<1>12. /\ Shape(d1, v1, n1)
       /\ QueueFits(Tail(q), d1, v1, current_cell, gui_pc, erasing, evaluating)
       /\ TextsAgree(Tail(q), d1, v1, erasing)
  BY <1>1, <1>2, <1>3, <1>6, <1>11, CellExecuted DEF d1, v1
<1>13. ~Reversible(e)
  BY <1>3 DEF Reversible
<1>14. undo_stack' \in Seq(Entries) /\ Chain(undo_stack', d1)
  <2>1. n1 \in Places /\ <<>> \in Seq(Char)
    BY <1>6 DEF Places
  <2> HIDE DEF n1, x
  <2> QED
    BY <1>2, <1>8, <1>11, <1>13, <2>1, Remembered
<1> HIDE DEF e
<1>15. Good'
  BY <1>8, <1>9, <1>10, <1>12, <1>14 DEF Good
<1> QED
  BY <1>9, <1>15

LEMMA RemoveOutputGood ==
  ASSUME Good, corrupt = "no", RemoveOutput_execute
  PROVE  Good' /\ corrupt' = "no"
<1> DEFINE q  == pending_actions
           a  == q[1]
           i  == Index(doc, a.cell)
           k  == doc[i].kids
           w  == view[i].kids
           j  == Index(k, a.output)
           ks == RemoveAt(k, j)
           ws == RemoveAt(w, j)
           d1 == WithKids(doc, i, ks)
           v1 == WithKids(view, i, ws)
           x  == j - 1
           o  == <<k[j]>>
           e  == [action |-> a, newref |-> NoCell, index |-> x, removed |-> o,
                  before |-> doc]
<1>1. gui_pc = "processing" /\ q # <<>>
  BY DEF RemoveOutput_execute, Executes
<1>2. /\ a = Action /\ a \in Actions /\ HasCell(doc, a.cell) /\ i \in DOMAIN doc
      /\ k \in Seq(OutputCell) /\ i \in DOMAIN view /\ Index(view, a.cell) = i
  BY <1>1, Found
<1>3. a.act = "RemoveOutput"
  BY <1>2 DEF RemoveOutput_execute, Executes, Action
<1>4. Shape(doc, view, created) /\ created \in Nat
  BY DEF Good, Shape
<1>5. HasCell(k, a.output)
  <2>1. KidOf(doc, a.cell, a.output)
    <3>1. 1 \in DOMAIN q
      BY <1>1, Taken DEF Good
    <3> QED
      BY <1>3, <3>1 DEF Good, QueueFits, OutputsAreThere
  <2> QED
    BY <2>1 DEF KidOf, HasCell
<1>6. j \in DOMAIN k /\ k[j].addr = a.output
  BY <1>5, Indexed
<1>7. w \in Seq(Address) /\ Twins(k, w, created)
  <2>1. view[i] \in Boxes /\ Twins(k, w, created)
    BY <1>2, <1>4 DEF Shape
  <2> QED
    BY <2>1 DEF Boxes
<1>8. /\ DOMAIN w = DOMAIN k /\ w[j] = a.output
      /\ \A l \in DOMAIN w : w[l] = a.output => l = j
  <2> HIDE DEF k, w, j
  <2> QED
    BY <1>2, <1>6, <1>7, SMTT(30) DEF Twins
<1>9. a.output \in Widgets(view)
  <2>1. a.output \in ToSet(w)
    BY <1>6, <1>8 DEF ToSet
  <2> QED
    BY <1>2, <2>1 DEF Widgets
<1>10. /\ doc' = [doc EXCEPT ![i].kids = RemoveAt(@, j)]
       /\ view' = remove_output(view, a.cell, a.output)
       /\ UNCHANGED <<stale, current_cell, created>>
       /\ undo_stack' = Append(undo_stack, e)
       /\ Executed(<<>>)
  <2>1. /\ HasCell(doc, Action.cell)
        /\ HasCell(doc[Index(doc, Action.cell)].kids, Action.output)
        /\ Action.output \in Widgets(view)
    BY <1>2, <1>5, <1>9
  <2> HIDE DEF q, d1, v1
  <2> QED
    BY <1>2, <2>1 DEF RemoveOutput_execute, Undoable
<1>11. doc' = d1 /\ view' = v1 /\ undo_stack' = Append(undo_stack, e)
  <2>1. doc' = d1
    BY <1>10 DEF WithKids
  <2>2. (CHOOSE l \in DOMAIN w : w[l] = a.output) = j
    <3> HIDE DEF w, j
    <3> QED
      BY <1>6, <1>8
  <2>3. view' = v1
    <3> HIDE DEF a, j
    <3> QED
      BY <1>2, <1>10, <2>2 DEF remove_output, WithKids
  <2> QED
    BY <1>10, <2>1, <2>3
<1>12. /\ created' = created /\ current_cell' = current_cell /\ gui_pc' = gui_pc
       /\ erasing' = erasing /\ evaluating' = evaluating /\ corrupt' = corrupt
       /\ ops' = ops /\ pending_actions' = Tail(q) \o <<>>
  BY <1>10 DEF Executed, userVars, Action
<1>13. pending_actions' = Tail(q) /\ Tail(q) \in Seq(Actions)
  <2>1. Tail(q) \in Seq(Actions)
    BY <1>1, Taken DEF Good
  <2> QED
    BY <1>12, <2>1, ConcatEmptySeq
<1>14. ks \in Seq(OutputCell) /\ ws \in Seq(Address) /\ Twins(ks, ws, created)
  <2> HIDE DEF k, w, j
  <2> QED
    BY <1>2, <1>4, <1>6, <1>7, KidRemoved
<1>15. \A y : KidOf(doc, a.cell, y) /\ y # a.output => \E l \in DOMAIN ks : ks[l].addr = y
  <2> SUFFICES ASSUME NEW l \in DOMAIN k, k[l].addr # a.output
               PROVE  \E m \in DOMAIN ks : ks[m].addr = k[l].addr
    BY DEF KidOf
  <2> HIDE DEF k, j
  <2>1. /\ Len(ks) = Len(k) - 1
        /\ \A m \in 1..(Len(k) - 1) : ks[m] = IF m < j THEN k[m] ELSE k[m + 1]
    BY <1>2, <1>6, RemovedElements
  <2> HIDE DEF ks
  <2>2. DOMAIN ks = 1..(Len(k) - 1) /\ l \in 1..Len(k) /\ j \in 1..Len(k) /\ Len(k) \in Nat
    BY <1>2, <1>6, <1>14, <2>1
  <2>3. l # j
    BY <1>6
  <2>4. CASE l < j
    BY <2>1, <2>2, <2>4
  <2>5. CASE ~(l < j)
    <3>1. l - 1 \in 1..(Len(k) - 1) /\ ~(l - 1 < j) /\ (l - 1) + 1 = l
      BY <2>2, <2>3, <2>5
    <3>2. ks[l - 1] = k[l]
      BY <2>1, <3>1
    <3> QED
      BY <2>2, <3>1, <3>2
  <2> QED
    BY <2>4, <2>5
<1>16. x \in Nat /\ o \in Seq(OutputCell)
  <2> HIDE DEF k, j
  <2>1. k[j] \in OutputCell /\ j \in 1..Len(k)
    BY <1>2, <1>6
  <2> QED
    BY <2>1
<1> HIDE DEF ks, ws, d1, v1, k, w, j
<1>17. /\ Shape(d1, v1, created)
       /\ QueueFits(Tail(q), d1, v1, current_cell, gui_pc, erasing, evaluating)
       /\ TextsAgree(Tail(q), d1, v1, erasing)
  <2>1. a.act \in {"AddCell", "RemoveOutput"} /\ created <= created
    BY <1>3, <1>4
  <2> QED
    BY <1>1, <1>3, <1>4, <1>14, <1>15, <2>1, OutputsExecuted DEF d1, v1
<1>18. ~Reversible(e)
  BY <1>3 DEF Reversible
<1>19. undo_stack' \in Seq(Entries) /\ Chain(undo_stack', d1)
  <2>1. NoCell \in Places
    BY DEF Places
  <2> HIDE DEF x, o
  <2> QED
    BY <1>2, <1>11, <1>16, <1>18, <2>1, Remembered
<1> HIDE DEF e
<1>20. Good'
  BY <1>11, <1>12, <1>13, <1>17, <1>19 DEF Good
<1> QED
  BY <1>12, <1>20

\* The cursor moves past the last cell, into a new one.
LEMMA PositionNewGood ==
  ASSUME Good, corrupt = "no", PositionCursor_execute,
         Action.pos = "next", Index(doc, Action.cell) = Len(doc),
         doc[Index(doc, Action.cell)].text # <<>>
  PROVE  Good' /\ corrupt' = "no"
<1> DEFINE q  == pending_actions
           a  == q[1]
           i  == Index(doc, a.cell)
           n  == Len(doc) + 1
           n1 == created + 1
           d1 == InsertAt(doc, n, Input(n1, <<>>))
           v1 == InsertAt(view, n, InputWidget(n1, <<>>))
           e  == [action |-> a, newref |-> n1, index |-> 0, removed |-> <<>>,
                  before |-> doc]
<1>1. gui_pc = "processing" /\ q # <<>>
  BY DEF PositionCursor_execute, Executes
<1>2. /\ a = Action /\ a \in Actions /\ HasCell(doc, a.cell) /\ i \in DOMAIN doc
  BY <1>1, Found
<1>3. a.act = "PositionCursor" /\ a.pos = "next"
  BY <1>2 DEF PositionCursor_execute, Executes, Action
<1>4. /\ Shape(doc, view, created) /\ created \in Nat /\ doc \in Seq(Cells)
      /\ Len(view) = Len(doc)
  BY DEF Good, Shape
<1>5. PICK f \in NewNodes(1) :
        /\ doc' = Append(doc, Input(f[1], <<>>))
        /\ view' = add_cell(view, Len(view) + 1, f[1], <<>>)
        /\ created' = created + 1
        /\ position_cursor(view', f[1])
        /\ undo_stack' = Append(undo_stack,
             [action |-> a, newref |-> f[1], index |-> 0, removed |-> <<>>,
              before |-> doc])
        /\ UNCHANGED stale
        /\ Executed(<<>>)
  <2>1. HasCell(doc, Action.cell)
    BY <1>2
  <2> HIDE DEF q, d1, v1, e
  <2> QED
    BY <1>2, <2>1 DEF PositionCursor_execute, Undoable
<1>6. f[1] = n1 /\ n1 \in Address
  BY <1>4, NewNode
<1>7. n \in 1..(Len(doc) + 1) /\ Input(n1, <<>>) \in Cells
  <2>1. <<>> \in Seq(Char) /\ <<>> \in Seq(OutputCell)
    OBVIOUS
  <2> QED
    BY <1>4, <1>6, <2>1 DEF Input, Cells
<1>8. doc' = d1 /\ view' = v1 /\ undo_stack' = Append(undo_stack, e)
  <2>1. d1 = Append(doc, Input(n1, <<>>))
    BY <1>4, <1>7, AppendedAtEnd
  <2> HIDE DEF q, a, i
  <2> QED
    BY <1>4, <1>5, <1>6, <2>1 DEF add_cell
<1>9. a.cell # n1
  <2>1. a.cell <= created /\ a.cell \in Nat
    BY <1>2, <1>4, SameCells, AddressesAreNumbers
  <2> QED
    BY <1>4, <2>1
<1> HIDE DEF n, d1, v1
<1>10. /\ Shape(d1, v1, n1)
       /\ QueueFits(Tail(q), d1, v1, n1, gui_pc, erasing, evaluating)
       /\ TextsAgree(Tail(q), d1, v1, erasing)
       /\ HasCell(d1, a.cell) /\ HasCell(d1, n1) /\ Index(d1, n1) = n
       /\ RemoveAt(d1, n) = doc
  BY <1>1, <1>3, <1>6, <1>7, <1>9, CellExecuted DEF d1, v1
<1>11. current_cell' = n1
  <2>1. n1 \in Widgets(v1)
    BY <1>10, SameCells
  <2> HIDE DEF n1
  <2> QED
    BY <1>5, <1>6, <1>8, <2>1 DEF position_cursor
<1>12. /\ created' = n1 /\ gui_pc' = gui_pc
       /\ erasing' = erasing /\ evaluating' = evaluating /\ corrupt' = corrupt
       /\ ops' = ops /\ pending_actions' = Tail(q) \o <<>>
  BY <1>5 DEF Executed, userVars, Action
<1>13. pending_actions' = Tail(q) /\ Tail(q) \in Seq(Actions)
  <2>1. Tail(q) \in Seq(Actions)
    BY <1>1, Taken DEF Good
  <2> QED
    BY <1>12, <2>1, ConcatEmptySeq
<1>14. Undoes(e, d1)
  <2>1. e.action = a /\ e.newref = n1 /\ e.before = doc
    OBVIOUS
  <2>2. n1 # NoCell
    BY <1>6, DocumentBounds
  <2> HIDE DEF e, a, n1
  <2> QED
    BY <1>3, <1>9, <1>10, <2>1, <2>2 DEF Undoes
<1>15. undo_stack' \in Seq(Entries) /\ Chain(undo_stack', d1)
  <2>1. n1 \in Places /\ 0 \in Nat /\ <<>> \in Seq(Char)
    BY <1>6 DEF Places
  <2> HIDE DEF n1
  <2> QED
    BY <1>2, <1>8, <1>14, <2>1, Remembered
<1> HIDE DEF e, n1
<1>16. Good'
  BY <1>8, <1>10, <1>11, <1>12, <1>13, <1>15 DEF Good
<1> QED
  BY <1>12, <1>16

\* The cursor moves to a cell that is there.
LEMMA PositionGood ==
  ASSUME Good, corrupt = "no", PositionCursor_execute,
         ~(/\ Action.pos = "next" /\ Index(doc, Action.cell) = Len(doc)
           /\ doc[Index(doc, Action.cell)].text # <<>>)
  PROVE  Good' /\ corrupt' = "no"
<1> DEFINE q  == pending_actions
           a  == q[1]
           i  == Index(doc, a.cell)
           c1 == IF a.pos = "next" /\ i < Len(doc) THEN doc[i + 1].addr
                 ELSE IF a.pos = "previous" /\ i > 1 THEN doc[i - 1].addr
                 ELSE a.cell
           e  == [action |-> a, newref |-> NoCell, index |-> 0, removed |-> <<>>,
                  before |-> doc]
<1>1. gui_pc = "processing" /\ q # <<>> /\ q \in Seq(Actions)
  BY DEF PositionCursor_execute, Executes, Good
<1>2. /\ a = Action /\ a \in Actions /\ HasCell(doc, a.cell) /\ i \in DOMAIN doc
      /\ doc[i].addr = a.cell
  BY <1>1, Found
<1>3. a.act = "PositionCursor" /\ ~(a.pos = "next" /\ i = Len(doc) /\ doc[i].text # <<>>)
  BY <1>2 DEF PositionCursor_execute, Executes, Action
<1>4. Shape(doc, view, created) /\ doc \in Seq(Cells)
  BY DEF Good, Shape
<1>5. /\ position_cursor(view, c1)
      /\ UNCHANGED <<doc, view, created, stale>>
      /\ undo_stack' = Append(undo_stack, e)
      /\ Executed(<<>>)
  <2>1. HasCell(doc, Action.cell)
    BY <1>2
  <2> HIDE DEF q
  <2> QED
    BY <1>2, <1>3, <2>1 DEF PositionCursor_execute, Undoable
<1>6. HasCell(doc, c1) /\ (a.pos = "next" /\ i < Len(doc) => c1 # a.cell)
  <2>1. i \in 1..Len(doc) /\ Len(doc) \in Nat
    BY <1>2, <1>4
  <2>2. CASE a.pos = "next" /\ i < Len(doc)
    <3>1. i + 1 \in DOMAIN doc /\ i + 1 # i /\ c1 = doc[i + 1].addr
      BY <1>4, <2>1, <2>2
    <3>2. c1 # doc[i].addr
      BY <1>2, <1>4, <3>1 DEF Shape
    <3> HIDE DEF c1, i
    <3> QED
      BY <1>2, <3>1, <3>2 DEF HasCell
  <2>3. CASE ~(a.pos = "next" /\ i < Len(doc)) /\ a.pos = "previous" /\ i > 1
    <3>1. i - 1 \in DOMAIN doc /\ c1 = doc[i - 1].addr
      BY <1>4, <2>1, <2>3
    <3> HIDE DEF c1
    <3> QED
      BY <2>3, <3>1 DEF HasCell
  <2>4. CASE ~(a.pos = "next" /\ i < Len(doc)) /\ ~(a.pos = "previous" /\ i > 1)
    <3>1. c1 = a.cell
      BY <2>4
    <3> HIDE DEF c1
    <3> QED
      BY <1>2, <2>4, <3>1
  <2> QED
    BY <2>2, <2>3, <2>4
<1> HIDE DEF c1
<1>7. current_cell' = c1
  <2>1. c1 \in Widgets(view)
    BY <1>4, <1>6, SameCells
  <2> QED
    BY <1>5, <2>1 DEF position_cursor
<1>8. /\ created' = created /\ doc' = doc /\ view' = view /\ gui_pc' = gui_pc
      /\ erasing' = erasing /\ evaluating' = evaluating /\ corrupt' = corrupt
      /\ ops' = ops /\ pending_actions' = Tail(q) \o <<>>
  BY <1>5 DEF Executed, userVars, Action
<1>9. pending_actions' = Tail(q) /\ Tail(q) \in Seq(Actions)
  <2>1. Tail(q) \in Seq(Actions)
    BY <1>1, Taken
  <2> QED
    BY <1>8, <2>1, ConcatEmptySeq
<1>10. Takes(q, doc, view, doc, view, c1)
  <2>1. ASSUME NEW m \in DOMAIN q, q[m].act = "RemoveOutput"
        PROVE  KidOf(doc, q[m].cell, q[m].output)
    BY <2>1 DEF Good, QueueFits, OutputsAreThere
  <2>2. ASSUME a.pos = "next", doc[i].text # <<>> \/ i < Len(doc)
        PROVE  c1 # a.cell
    <3>1. i \in 1..Len(doc) /\ Len(doc) \in Nat
      BY <1>2, <1>4
    <3>2. i < Len(doc)
      BY <1>3, <2>2, <3>1
    <3> QED
      BY <1>6, <2>2, <3>2
  <2> QED
    BY <1>6, <2>1, <2>2 DEF Takes
<1>11. QueueFits(Tail(q), doc, view, c1, gui_pc, erasing, evaluating)
  BY <1>1, <1>10, QueueTaken DEF Good
<1>12. TextsAgree(Tail(q), doc, view, erasing)
  <2>1. TextsFollow(q, doc, view, erasing, doc, view)
    BY <1>3 DEF TextsFollow, TextStep, IsText
  <2> QED
    BY <1>1, <2>1, TextsTaken DEF Good
<1>13. Undoes(e, doc)
  <2>1. e.action = a /\ e.newref = NoCell /\ e.before = doc
    OBVIOUS
  <2> HIDE DEF e, a
  <2> QED
    BY <1>2, <1>3, <2>1 DEF Undoes
<1>14. undo_stack' \in Seq(Entries) /\ Chain(undo_stack', doc)
  <2>1. NoCell \in Places /\ 0 \in Nat /\ <<>> \in Seq(Char)
    BY DEF Places
  <2> QED
    BY <1>2, <1>5, <1>13, <2>1, Remembered
<1> HIDE DEF e
<1>15. Good'
  BY <1>4, <1>7, <1>8, <1>9, <1>11, <1>12, <1>14 DEF Good
<1> QED
  BY <1>8, <1>15

LEMMA RemoveCellGood ==
  ASSUME Good, corrupt = "no", RemoveCell_execute
  PROVE  Good' /\ corrupt' = "no"
<1> DEFINE q  == pending_actions
           a  == q[1]
           i  == Index(doc, a.cell)
           d1 == RemoveAt(doc, i)
           v1 == RemoveAt(view, i)
           x  == i - 1
           o  == <<doc[i]>>
           e  == [action |-> a, newref |-> NoCell, index |-> x, removed |-> o,
                  before |-> doc]
<1>1. gui_pc = "processing" /\ q # <<>> /\ q \in Seq(Actions)
  BY DEF RemoveCell_execute, Executes, Good
<1>2. /\ a = Action /\ a \in Actions /\ HasCell(doc, a.cell) /\ i \in DOMAIN doc
      /\ doc[i].addr = a.cell /\ HasCell(view, a.cell) /\ Index(view, a.cell) = i
      /\ doc[i] \in Cells
  BY <1>1, Found
<1>3. a.act = "RemoveCell"
  BY <1>2 DEF RemoveCell_execute, Executes, Action
<1>4. Shape(doc, view, created) /\ doc \in Seq(Cells)
  BY DEF Good, Shape
<1>5. /\ doc' = d1 /\ view' = v1 /\ UNCHANGED created
      /\ current_cell' = IF current_cell = a.cell THEN NoCell ELSE current_cell
      /\ undo_stack' = Append(undo_stack, e)
      /\ Executed(<<>>)
  <2>1. HasCell(doc, Action.cell) /\ HasCell(view, Action.cell)
    BY <1>2
  <2> HIDE DEF q
  <2> QED
    BY <1>2, <2>1 DEF RemoveCell_execute, Undoable
<1>6. /\ Len(q) = 1 /\ current_cell # a.cell /\ erasing = NoErase /\ evaluating = {}
      /\ HasCell(doc, current_cell)
  <2>1. 1 \in DOMAIN q
    BY <1>1, Taken
  <2>2. RemovalIsLast(q, doc, current_cell, gui_pc, erasing, evaluating)
    BY DEF Good, QueueFits
  <2>3. /\ 1 = Len(q) /\ erasing = NoErase /\ evaluating = {}
        /\ current_cell # a.cell
    BY <1>3, <2>1, <2>2 DEF RemovalIsLast
  <2>4. a.act # "PositionCursor"
    BY <1>3
  <2>5. HasCell(doc, current_cell)
    BY <1>1, <2>4, Found
  <2> QED
    BY <2>3, <2>5
<1> HIDE DEF d1, v1
<1>7. /\ Shape(d1, v1, created)
      /\ \A k \in DOMAIN d1 : \E l \in DOMAIN doc : d1[k] = doc[l] /\ v1[k] = view[l]
      /\ HasCell(d1, current_cell)
  <2> HIDE DEF i
  <2>1. /\ Shape(d1, v1, created)
        /\ \A k \in DOMAIN d1 :
             \E l \in DOMAIN doc : l # i /\ d1[k] = doc[l] /\ v1[k] = view[l]
        /\ \A c : HasCell(d1, c) <=> HasCell(doc, c) /\ c # doc[i].addr
    BY <1>2, <1>4, CellRemoved DEF d1, v1
  <2> QED
    BY <1>2, <1>6, <2>1
<1>8. Tail(q) = <<>> /\ Tail(q) \in Seq(Actions)
  <2>1. Tail(q) \in Seq(Actions) /\ Len(Tail(q)) = Len(q) - 1
    BY <1>1, Taken
  <2>2. Len(Tail(q)) = 0
    BY <1>6, <2>1
  <2> QED
    BY <2>1, <2>2, EmptySeq
<1>9. /\ created' = created /\ current_cell' = current_cell /\ gui_pc' = gui_pc
      /\ erasing' = erasing /\ evaluating' = evaluating /\ corrupt' = corrupt
      /\ ops' = ops /\ pending_actions' = Tail(q) \o <<>>
  BY <1>5, <1>6 DEF Executed, userVars, Action
<1>10. pending_actions' = Tail(q)
  BY <1>8, <1>9, ConcatEmptySeq
<1>11. QueueFits(Tail(q), d1, v1, current_cell, gui_pc, erasing, evaluating)
  <2>1. DOMAIN Tail(q) = {}
    BY <1>8
  <2>2. gui_pc # "idle"
    BY <1>1
  <2> QED
    BY <1>6, <1>7, <2>1, <2>2 DEF QueueFits, CellsAreThere, OutputsAreThere,
      RemovalIsLast, SplitIsAlone, IdleAgrees, CursorIsThere
<1>12. TextsAgree(Tail(q), d1, v1, erasing)
  <2>1. \A k \in DOMAIN d1 : \E l \in DOMAIN doc :
          d1[k] = doc[l] /\ Shown(v1[k], erasing) = Shown(view[l], erasing)
    BY <1>7 DEF Shown
  <2>2. TextsFollow(q, doc, view, erasing, d1, v1)
    BY <1>3, <2>1 DEF TextsFollow, TextStep, IsText
  <2> QED
    BY <1>1, <2>2, TextsTaken DEF Good
<1>13. ~Reversible(e)
  BY <1>3 DEF Reversible
<1>14. undo_stack' \in Seq(Entries) /\ Chain(undo_stack', d1)
  <2>1. NoCell \in Places
    BY DEF Places
  <2>2. x \in Nat /\ o \in Seq(Cells)
    BY <1>2, <1>4
  <2> HIDE DEF x, o
  <2> QED
    BY <1>2, <1>5, <1>13, <2>1, <2>2, Remembered
<1> HIDE DEF e
<1>15. Good'
  BY <1>5, <1>7, <1>8, <1>9, <1>10, <1>11, <1>12, <1>14 DEF Good
<1> QED
  BY <1>9, <1>15

\* The signals of a buffer that is set to a text erase what was there and
\* insert the text.
LEMMA Signals ==
  ASSUME NEW c \in Places, Buffer(c) \in Seq(Char), NEW t \in Seq(Char),
         NEW s \in Seq(Char), Len(s) <= Len(Buffer(c)), s = Buffer(c) \/ s = t
  PROVE  LET r == BufferSignals(c, t) IN
         /\ r \in Seq(Actions) /\ Leads(r, c, s, t)
         /\ \A m \in DOMAIN r : IsText(r[m]) /\ r[m].cell = c
         /\ Buffer(c) = t => r = <<>>
<1> DEFINE b   == Buffer(c)
           x   == [act |-> "EraseText", cell |-> c, from |-> 0, to |-> Len(b)]
           y   == [act |-> "InsertText", cell |-> c, pos |-> 0, text |-> t]
           r1  == IF b = <<>> THEN <<>> ELSE <<x>>
           r2  == IF t = <<>> THEN <<>> ELSE <<y>>
           r   == BufferSignals(c, t)
<1>1. r = IF b = t THEN <<>> ELSE r1 \o r2
  BY DEF BufferSignals
<1>2. Len(b) \in Nat /\ Len(s) \in Nat /\ b \in Seq(Char)
  OBVIOUS
<1>3. x \in Actions /\ IsText(x) /\ x.cell = c
  <2>1. x \in EraseTexts /\ IsText(x) /\ x.cell = c
    BY <1>2 DEF EraseTexts, IsText
  <2> QED
    BY <2>1 DEF Actions
<1>4. y \in Actions /\ IsText(y) /\ y.cell = c
  <2>1. y \in InsertTexts /\ IsText(y) /\ y.cell = c
    BY DEF InsertTexts, IsText
  <2> QED
    BY <2>1 DEF Actions
<1>5. <<>> \in Seq(Char) /\ <<>> \in Seq(Actions) /\ DOMAIN <<>> = {}
  OBVIOUS
<1>6. Leads(<<>>, c, t, t) /\ Leads(<<>>, c, <<>>, <<>>)
  BY <1>5, LeadsAside
<1>7. TextStep(x, c, s, <<>>)
  <2>1. Erased(s, 0, Len(b)) = <<>>
    BY <1>2, TextSet
  <2>2. /\ x.act = "EraseText" /\ x.from = 0 /\ x.to = Len(b)
    OBVIOUS
  <2> HIDE DEF x
  <2> QED
    BY <1>2, <1>3, <2>1, <2>2 DEF TextStep, InRange, TextAfter
<1>8. TextStep(y, c, <<>>, t)
  <2>1. Inserted(<<>>, 0, t) = t
    <3>1. Len(t) \in Nat /\ Len(t) <= Len(t)
      OBVIOUS
    <3> QED
      BY <3>1, TextSet
  <2>2. /\ y.act = "InsertText" /\ y.pos = 0 /\ y.text = t /\ Len(<<>>) = 0
    OBVIOUS
  <2> HIDE DEF y
  <2> QED
    BY <1>4, <2>1, <2>2 DEF TextStep, InRange, TextAfter
<1> HIDE DEF x, y, r, b
<1>9. /\ r1 \in Seq(Actions) /\ Leads(r1, c, s, <<>>)
      /\ \A m \in DOMAIN r1 : r1[m] = x
  <2>1. CASE b = <<>>
    <3>1. s = <<>>
      BY <1>2, <2>1 DEF b
    <3> QED
      BY <1>5, <1>6, <2>1, <3>1
  <2>2. CASE b # <<>>
    <3>1. r1 = <<x>>
      BY <2>2
    <3>2. <<x>> \in Seq(Actions) /\ \A m \in DOMAIN <<x>> : <<x>>[m] = x
      BY <1>3
    <3>3. Leads(<<x>>, c, s, <<>>)
      BY <1>5, <1>7, LeadsBy
    <3> QED
      BY <3>1, <3>2, <3>3
  <2> QED
    BY <2>1, <2>2
<1>10. /\ r2 \in Seq(Actions) /\ Leads(r2, c, <<>>, t)
       /\ \A m \in DOMAIN r2 : r2[m] = y
  <2>1. CASE t = <<>>
    BY <1>5, <1>6, <2>1
  <2>2. CASE t # <<>>
    <3>1. r2 = <<y>>
      BY <2>2
    <3>2. <<y>> \in Seq(Actions) /\ \A m \in DOMAIN <<y>> : <<y>>[m] = y
      BY <1>4
    <3>3. Leads(<<y>>, c, <<>>, t)
      BY <1>5, <1>8, LeadsBy
    <3> QED
      BY <3>1, <3>2, <3>3
  <2> QED
    BY <2>1, <2>2
<1> HIDE DEF r1, r2
<1>11. CASE b = t
  <2>1. r = <<>> /\ s = t
    BY <1>1, <1>11 DEF b
  <2> QED
    BY <1>5, <1>6, <1>11, <2>1 DEF r
<1>12. CASE b # t
  <2>1. r = r1 \o r2
    BY <1>1, <1>12
  <2>2. r \in Seq(Actions) /\ Leads(r, c, s, t)
    BY <1>9, <1>10, <2>1, LeadsOn, ConcatProperties
  <2>3. ASSUME NEW m \in DOMAIN r
        PROVE  r[m] = x \/ r[m] = y
    <3>1. /\ DOMAIN r = 1..(Len(r1) + Len(r2)) /\ Len(r1) \in Nat /\ Len(r2) \in Nat
          /\ \A l \in 1..(Len(r1) + Len(r2)) :
               r[l] = IF l <= Len(r1) THEN r1[l] ELSE r2[l - Len(r1)]
      BY <1>9, <1>10, <2>1, ConcatProperties
    <3>2. CASE m <= Len(r1)
      <4>1. m \in DOMAIN r1 /\ r[m] = r1[m]
        BY <1>9, <3>1, <3>2
      <4> QED
        BY <1>9, <4>1
    <3>3. CASE ~(m <= Len(r1))
      <4>1. m - Len(r1) \in DOMAIN r2 /\ r[m] = r2[m - Len(r1)]
        BY <1>10, <3>1, <3>3
      <4> QED
        BY <1>10, <4>1
    <3> QED
      BY <3>2, <3>3
  <2>4. \A m \in DOMAIN r : IsText(r[m]) /\ r[m].cell = c
    BY <1>3, <1>4, <2>3
  <2> QED
    BY <1>12, <2>2, <2>4 DEF r, b
<1> QED
  BY <1>11, <1>12

\* What a widget shows is a text.
LEMMA ShownTexts ==
  ASSUME Good, NEW i \in DOMAIN doc
  PROVE  /\ view[i] \in Boxes /\ view[i].buffer \in Seq(Char)
         /\ Shown(view[i], erasing) \in Seq(Char)
         /\ doc[i].addr \in Places
<1>1. view[i] \in Boxes /\ doc[i] \in Cells
  BY DEF Good, Shape
<1>2. Leads(pending_actions, doc[i].addr, doc[i].text, Shown(view[i], erasing))
  BY DEF Good, TextsAgree
<1>3. Len(pending_actions) \in 0..Len(pending_actions)
  <2>1. pending_actions \in Seq(Actions)
    BY DEF Good
  <2> QED
    BY <2>1
<1>4. Shown(view[i], erasing) \in Seq(Char)
  BY <1>2, <1>3 DEF Leads
<1> QED
  BY <1>1, <1>4 DEF Boxes, Cells, Places

\* The first action sets a buffer, and the signals of the buffer are queued.
LEMMA SignalsQueued ==
  ASSUME Good, gui_pc = "processing", pending_actions # <<>>,
         pending_actions[1].act \in {"SplitCell", "SetRunStatus"},
         NEW d1, NEW v1, Takes(pending_actions, doc, view, d1, v1, current_cell),
         NEW r \in Seq(Actions),
         \A m \in DOMAIN r : IsText(r[m]) /\ r[m].cell = pending_actions[1].cell,
         \/ r = <<>> \/ \A m \in DOMAIN pending_actions :
                          m # 1 => pending_actions[m].act # "SplitCell"
  PROVE  /\ Tail(pending_actions) \o r \in Seq(Actions)
         /\ QueueFits(Tail(pending_actions) \o r, d1, v1, current_cell, gui_pc, erasing,
                      evaluating)
<1> DEFINE q == pending_actions
           p == Tail(q)
<1>1. /\ q \in Seq(Actions) /\ q # <<>>
      /\ QueueFits(q, doc, view, current_cell, gui_pc, erasing, evaluating)
  BY DEF Good
<1>2. /\ p \in Seq(Actions)
      /\ \A m \in DOMAIN p : m \in Nat /\ m >= 1 /\ m + 1 \in DOMAIN q /\ p[m] = q[m + 1]
  BY <1>1, Taken
<1> HIDE DEF p
<1>3. QueueFits(p, d1, v1, current_cell, gui_pc, erasing, evaluating)
  BY <1>1, QueueTaken, SMTT(30) DEF p
<1>4. \A m \in DOMAIN p : p[m].act # "RemoveCell"
  BY <1>1, <1>2, SMTT(30) DEF QueueFits, RemovalIsLast
<1>5. \A m \in DOMAIN r : r[m].act \notin {"RemoveOutput", "RemoveCell", "SplitCell"}
  BY DEF IsText
<1>6. HasCell(d1, current_cell) /\ HasCell(d1, q[1].cell)
  <2>1. HasCell(doc, q[1].cell)
    BY Found
  <2> QED
    BY <2>1 DEF Takes
<1>7. (\E m \in DOMAIN r : IsText(r[m])) => \A m \in DOMAIN p : p[m].act # "SplitCell"
  <2>1. CASE r = <<>>
    BY <2>1
  <2>2. CASE \A m \in DOMAIN q : m # 1 => q[m].act # "SplitCell"
    BY <1>2, <2>2
  <2> QED
    BY <2>1, <2>2
<1>8. Joins(p, r, d1, v1, current_cell, gui_pc, erasing)
  BY <1>4, <1>5, <1>6, <1>7 DEF Joins
<1>9. /\ p \o r \in Seq(Actions)
      /\ QueueFits(p \o r, d1, v1, current_cell, gui_pc, erasing, evaluating)
  BY <1>2, <1>3, <1>8, QueueAppended
<1> QED
  BY <1>9 DEF p

LEMMA SetRunStatusGood ==
  ASSUME Good, corrupt = "no", SetRunStatus_execute
  PROVE  \/ Good' /\ corrupt' = "no"
         \/ corrupt' = "invalid text iterator"
<1> DEFINE q  == pending_actions
           a  == q[1]
           c  == a.cell
           i  == Index(doc, c)
           t  == doc[i].text
           b  == view[i].buffer
           r  == BufferSignals(c, t)
           v1 == WithBuffer(view, i, t)
<1>1. gui_pc = "processing" /\ q # <<>> /\ q \in Seq(Actions)
  BY DEF SetRunStatus_execute, Executes, Good
<1>2. /\ a = Action /\ a \in Actions /\ HasCell(doc, c) /\ i \in DOMAIN doc
      /\ doc[i].addr = c /\ Index(view, c) = i /\ t \in Seq(Char)
  BY <1>1, Found
<1>3. a.act = "SetRunStatus"
  BY <1>2 DEF SetRunStatus_execute, Executes, Action
<1>4. HasCell(doc, current_cell)
  <2>1. a.act # "PositionCursor"
    BY <1>3
  <2> QED
    BY <1>1, <2>1, Found
<1>5. Shape(doc, view, created)
  BY DEF Good
<1>6. CASE erasing.cell = Action.cell /\ Buffer(Action.cell) # doc[Index(doc, Action.cell)].text
  BY <1>2, <1>6 DEF SetRunStatus_execute, Crash
<1>7. CASE ~(erasing.cell = Action.cell /\ Buffer(Action.cell) # doc[Index(doc, Action.cell)].text)
  <2>1. /\ view' = update_cell(view, c, t)
        /\ UNCHANGED <<doc, stale, current_cell, created, undo_stack>>
        /\ Executed(r)
    <3>1. HasCell(doc, Action.cell)
      BY <1>2
    <3> HIDE DEF q
    <3> QED
      BY <1>2, <1>7, <3>1 DEF SetRunStatus_execute
  <2>2. view' = v1
    <3> HIDE DEF i, t
    <3> QED
      BY <1>2, <2>1 DEF update_cell, WithBuffer
  <2>3. /\ created' = created /\ doc' = doc /\ current_cell' = current_cell
        /\ gui_pc' = gui_pc /\ undo_stack' = undo_stack
        /\ erasing' = erasing /\ evaluating' = evaluating /\ corrupt' = corrupt
        /\ ops' = ops /\ pending_actions' = Tail(q) \o r
    BY <2>1 DEF Executed, userVars
  <2>4. Buffer(c) = b /\ (erasing.cell = c => b = t)
    BY <1>2, <1>7 DEF Buffer
  <2>5. /\ b \in Seq(Char) /\ c \in Places
        /\ \A k \in DOMAIN doc : Shown(view[k], erasing) \in Seq(Char)
    BY <1>2, ShownTexts
  <2>6. /\ r \in Seq(Actions) /\ Leads(r, c, b, t)
        /\ \A m \in DOMAIN r : IsText(r[m]) /\ r[m].cell = c
        /\ b = t => r = <<>>
    <3>1. Len(b) <= Len(b)
      BY <2>5
    <3> HIDE DEF b, t, c
    <3> QED
      BY <1>2, <2>4, <2>5, <3>1, Signals
  <2> HIDE DEF r, v1
  <2>7. /\ Shape(doc, v1, created)
        /\ \A k \in DOMAIN doc : /\ v1[k].addr = view[k].addr
                                 /\ v1[k].buffer = IF k = i THEN t ELSE view[k].buffer
    <3>1. WithText(doc, i, t) = doc
      BY <1>2, <1>5, SameFields
    <3> HIDE DEF i, t
    <3>2. /\ Shape(WithText(doc, i, t), WithBuffer(view, i, t), created)
          /\ \A k \in DOMAIN doc :
               /\ WithBuffer(view, i, t)[k].addr = view[k].addr
               /\ WithBuffer(view, i, t)[k].buffer = IF k = i THEN t ELSE view[k].buffer
      BY <1>2, <1>5, TextChanged
    <3> QED
      BY <3>1, <3>2 DEF v1
  <2>8. Takes(q, doc, view, doc, v1, current_cell)
    <3>1. \A m \in DOMAIN q : q[m].act = "RemoveOutput" => KidOf(doc, q[m].cell, q[m].output)
      BY DEF Good, QueueFits, OutputsAreThere
    <3>2. SameTexts(doc, view) => SameTexts(doc, v1)
      BY <2>7 DEF SameTexts
    <3> QED
      BY <1>3, <1>4, <3>1, <3>2 DEF Takes
  <2>9. r = <<>> \/ \A m \in DOMAIN q : m # 1 => q[m].act # "SplitCell"
    <3>1. ASSUME NEW m \in DOMAIN q, q[m].act = "SplitCell"
          PROVE  r = <<>>
      <4>1. SameTexts(doc, view)
        BY <3>1 DEF Good, QueueFits, SplitIsAlone
      <4> QED
        BY <1>2, <2>6, <4>1 DEF SameTexts
    <3> QED
      BY <3>1
  <2>10. /\ Tail(q) \o r \in Seq(Actions)
         /\ QueueFits(Tail(q) \o r, doc, v1, current_cell, gui_pc, erasing, evaluating)
    <3>1. a.act \in {"SplitCell", "SetRunStatus"}
      BY <1>3
    <3> QED
      BY <1>1, <2>6, <2>8, <2>9, <3>1, SignalsQueued
  <2>11. TextsAgree(Tail(q), doc, view, erasing)
    <3>1. TextsFollow(q, doc, view, erasing, doc, view)
      BY <1>3 DEF TextsFollow, TextStep, IsText
    <3> QED
      BY <1>1, <3>1, TextsTaken DEF Good
  <2>12. ASSUME NEW k \in DOMAIN doc
         PROVE  Leads(r, doc[k].addr, Shown(view[k], erasing), Shown(v1[k], erasing))
    <3>0. view[k].addr = doc[k].addr
      BY <1>5 DEF Shape
    <3>1. CASE k = i /\ erasing.cell # c
      <4>1. Shown(view[k], erasing) = b /\ Shown(v1[k], erasing) = t /\ doc[k].addr = c
        BY <1>2, <2>7, <3>0, <3>1 DEF Shown
      <4> QED
        BY <2>6, <4>1
    <3>2. CASE ~(k = i /\ erasing.cell # c)
      <4>1. Shown(v1[k], erasing) = Shown(view[k], erasing)
        BY <2>4, <2>7, <3>2 DEF Shown
      <4>2. \A m \in DOMAIN r : ~(IsText(r[m]) /\ r[m].cell = doc[k].addr)
        <5>1. CASE k = i
          BY <2>4, <2>6, <3>2, <5>1
        <5>2. CASE k # i
          <6>1. doc[k].addr # c
            BY <1>2, <1>5, <5>2 DEF Shape
          <6> QED
            BY <2>6, <6>1
        <5> QED
          BY <5>1, <5>2
      <4> QED
        BY <2>5, <2>6, <4>1, <4>2, LeadsAside
    <3> QED
      BY <3>1, <3>2
  <2>13. TextsAgree(Tail(q) \o r, doc, v1, erasing)
    <3>1. Tail(q) \in Seq(Actions)
      BY <1>1, Taken
    <3> QED
      BY <2>6, <2>11, <2>12, <3>1, TextsAppended
  <2>14. Good'
    BY <2>2, <2>3, <2>7, <2>10, <2>13 DEF Good
  <2> QED
    BY <2>3, <2>14
<1> QED
  BY <1>6, <1>7

\* The text of a cell is split: the cell keeps the first part, a new cell after
\* it gets the second.
LEMMA SplitMade ==
  ASSUME NEW d, NEW v, NEW n, Shape(d, v, n), n + 1 \in Address, SameTexts(d, v),
         NEW i \in DOMAIN d, NEW s1 \in Seq(Char), NEW s2 \in Seq(Char)
  PROVE  LET c  == d[i].addr
             d1 == InsertAt(WithText(d, i, s1), i + 1, Input(n + 1, s2))
             va == InsertAt(v, i + 1, InputWidget(n + 1, s2))
             v1 == WithBuffer(va, Index(va, c), s1) IN
         /\ Shape(d1, v1, n + 1) /\ SameTexts(d1, v1)
         /\ \A x : HasCell(d, x) =>
              HasCell(d1, x) /\ \A y : KidOf(d, x, y) => KidOf(d1, x, y)
         /\ \A k \in DOMAIN d1 : d1[k].addr = c => d1[k].text = s1
<1> DEFINE c  == d[i].addr
           n1 == n + 1
           p  == i + 1
           d0 == WithText(d, i, s1)
           b  == v[i].buffer
           d1 == InsertAt(d0, p, Input(n1, s2))
           va == InsertAt(v, p, InputWidget(n1, s2))
           j  == Index(va, c)
           v1 == WithBuffer(va, j, s1)
<1>1. b \in Seq(Char) /\ n \in Nat /\ d \in Seq(Cells)
  <2>1. v[i] \in Boxes /\ n \in Nat /\ d \in Seq(Cells)
    BY DEF Shape
  <2> QED
    BY <2>1 DEF Boxes
<1>2. WithBuffer(v, i, b) = v
  BY SameFields
<1> HIDE DEF d0, b
<1>3. /\ Shape(d0, v, n)
      /\ \A x : (HasCell(d0, x) <=> HasCell(d, x)) /\ Index(d0, x) = Index(d, x)
      /\ DOMAIN d0 = DOMAIN d /\ Len(d0) = Len(d)
      /\ \A k \in DOMAIN d : /\ d0[k].addr = d[k].addr /\ d0[k].kids = d[k].kids
                             /\ d0[k].text = IF k = i THEN s1 ELSE d[k].text
  <2>1. /\ Shape(WithText(d, i, s1), WithBuffer(v, i, b), n)
        /\ \A x : /\ HasCell(WithText(d, i, s1), x) <=> HasCell(d, x)
                  /\ Index(WithText(d, i, s1), x) = Index(d, x)
        /\ DOMAIN WithText(d, i, s1) = DOMAIN d /\ Len(WithText(d, i, s1)) = Len(d)
        /\ \A k \in DOMAIN d :
             /\ WithText(d, i, s1)[k].addr = d[k].addr
             /\ WithText(d, i, s1)[k].kids = d[k].kids
             /\ WithText(d, i, s1)[k].text = IF k = i THEN s1 ELSE d[k].text
    BY <1>1, TextChanged
  <2> QED
    BY <1>2, <2>1 DEF d0
<1>4. p \in 1..(Len(d0) + 1)
  BY <1>1, <1>3
<1> HIDE DEF p, d1, va
<1>5. /\ Shape(d1, va, n1)
      /\ p \in DOMAIN d1 /\ d1[p] = Input(n1, s2) /\ va[p] = InputWidget(n1, s2)
      /\ \A k \in DOMAIN d1 : k # p => \E l \in DOMAIN d0 : d1[k] = d0[l] /\ va[k] = v[l]
      /\ \A k \in DOMAIN d0 : \E l \in DOMAIN d1 : d1[l] = d0[k] /\ va[l] = v[k]
      /\ \A u : HasCell(d1, u) <=> HasCell(d0, u) \/ u = n1
  <2>1. Shape(d0, v, n) /\ n + 1 \in Address
    BY <1>3
  <2>2. Shape(d1, va, n1)
    BY <1>4, <2>1, CellAdded DEF d1, va
  <2>3. p \in DOMAIN d1 /\ d1[p] = Input(n1, s2) /\ va[p] = InputWidget(n1, s2)
    BY <1>4, <2>1, CellAdded DEF d1, va
  <2>4. \A k \in DOMAIN d1 : k # p => \E l \in DOMAIN d0 : d1[k] = d0[l] /\ va[k] = v[l]
    BY <1>4, <2>1, CellAdded DEF d1, va
  <2>5. \A k \in DOMAIN d0 : \E l \in DOMAIN d1 : d1[l] = d0[k] /\ va[l] = v[k]
    BY <1>4, <2>1, CellAdded DEF d1, va
  <2>6. \A u : HasCell(d1, u) <=> HasCell(d0, u) \/ u = n1
    BY <1>4, <2>1, CellAdded DEF d1, va
  <2> QED
    BY <2>2, <2>3, <2>4, <2>5, <2>6
<1>6. /\ Input(n1, s2).addr = n1 /\ Input(n1, s2).text = s2
      /\ InputWidget(n1, s2).buffer = s2
  BY DEF Input, InputWidget
<1>7. HasCell(d, c) /\ HasCell(d1, c) /\ c # n1
  <2>1. HasCell(d, c)
    BY DEF HasCell
  <2>2. c <= n /\ c \in Nat
    BY <2>1, SameCells, AddressesAreNumbers
  <2> QED
    BY <1>1, <1>3, <1>5, <2>1, <2>2
<1>8. j = Index(d1, c) /\ j \in DOMAIN d1 /\ d1[j].addr = c
  BY <1>5, <1>7, SameCells
<1>9. \A k \in DOMAIN d1 : d1[k].addr = c => k = j
  BY <1>5, <1>8 DEF Shape
<1> HIDE DEF j, c, n1
<1>10. ASSUME NEW k \in DOMAIN d1, k # p
       PROVE  /\ d1[k].addr = c => d1[k].text = s1
              /\ d1[k].addr # c => d1[k].text = va[k].buffer
  <2>1. PICK l \in DOMAIN d0 : d1[k] = d0[l] /\ va[k] = v[l]
    BY <1>5, <1>10
  <2>2. l \in DOMAIN d /\ v[l].buffer = d[l].text /\ d0[l].addr = d[l].addr
        /\ d0[l].text = IF l = i THEN s1 ELSE d[l].text
    BY <1>3, <2>1 DEF SameTexts
  <2>3. d[l].addr = c <=> l = i
    BY <2>2 DEF Shape, c
  <2> QED
    BY <2>1, <2>2, <2>3
<1>11. d1[p].addr # c
  BY <1>5, <1>6, <1>7
<1>12. \A k \in DOMAIN d1 : d1[k].addr = c => d1[k].text = s1
  BY <1>10, <1>11
<1> HIDE DEF v1
<1>13. /\ Shape(d1, v1, n1)
       /\ \A k \in DOMAIN d1 : v1[k].buffer = IF k = j THEN s1 ELSE va[k].buffer
  <2> DEFINE t == d1[j].text
  <2>1. d1[j] \in Cells
    BY <1>5, <1>8 DEF Shape
  <2>2. t \in Seq(Char)
    BY <2>1 DEF Cells
  <2>3. WithText(d1, j, t) = d1
    BY <1>5, <1>8, SameFields
  <2> HIDE DEF t
  <2>4. /\ Shape(WithText(d1, j, t), WithBuffer(va, j, s1), n1)
        /\ \A k \in DOMAIN d1 :
             WithBuffer(va, j, s1)[k].buffer = IF k = j THEN s1 ELSE va[k].buffer
    <3>1. Shape(d1, va, n1) /\ j \in DOMAIN d1
      BY <1>5, <1>8
    <3> QED
      BY <2>2, <3>1, TextChanged
  <2> QED
    BY <2>3, <2>4 DEF v1
<1>14. SameTexts(d1, v1)
  <2> SUFFICES ASSUME NEW k \in DOMAIN d1
               PROVE  v1[k].buffer = d1[k].text
    BY DEF SameTexts
  <2>1. CASE k = p
    BY <1>5, <1>6, <1>8, <1>11, <1>13, <2>1
  <2>2. CASE k # p
    BY <1>8, <1>9, <1>10, <1>13, <2>2
  <2> QED
    BY <2>1, <2>2
<1>15. ASSUME NEW x, HasCell(d, x)
       PROVE  HasCell(d1, x) /\ \A y : KidOf(d, x, y) => KidOf(d1, x, y)
  <2>1. HasCell(d1, x)
    BY <1>3, <1>5, <1>15
  <2>2. ASSUME NEW y, KidOf(d, x, y)
        PROVE  KidOf(d1, x, y)
    <3> DEFINE k == Index(d, x)
    <3>1. k \in DOMAIN d /\ d[k].addr = x
      BY <1>15, Indexed
    <3>2. PICK l \in DOMAIN d1 : d1[l] = d0[k]
      BY <1>3, <1>5, <3>1
    <3>3. d1[l].addr = x /\ d1[l].kids = d[k].kids
      BY <1>3, <3>1, <3>2
    <3>4. Index(d1, x) = l
      BY <1>5, <3>3, IndexOf
    <3> QED
      BY <2>2, <3>3, <3>4 DEF KidOf
  <2> QED
    BY <2>1, <2>2
<1> QED
  BY <1>12, <1>13, <1>14, <1>15 DEF v1, d1, va, d0, j, c, n1, p

LEMMA SplitTexts ==
  ASSUME NEW t \in Seq(Char), NEW p \in 0..Len(t)
  PROVE  /\ Split(t, p)[1] \in Seq(Char) /\ Len(Split(t, p)[1]) <= Len(t)
         /\ Split(t, p)[2] \in Seq(Char)
<1> DEFINE a == SubSeq(t, 1, p)
           r == SubSeq(t, p + 1, Len(t))
<1>1. a \in Seq(Char) /\ Len(a) = p /\ r \in Seq(Char) /\ p <= Len(t)
  BY Cut
<1> HIDE DEF a, r
<1>2. r # <<>> => Tail(r) \in Seq(Char)
  BY <1>1
<1>3. Split(t, p)[1] = a
  BY DEF Split, a
<1>4. Split(t, p)[2] \in {r, Tail(r)} /\ (r = <<>> => Split(t, p)[2] = r)
  BY DEF Split, r
<1> QED
  BY <1>1, <1>2, <1>3, <1>4

LEMMA SplitCellGood ==
  ASSUME Good, corrupt = "no", SplitCell_execute
  PROVE  Good' /\ corrupt' = "no"
<1> DEFINE q  == pending_actions
           a  == q[1]
           c  == a.cell
           i  == Index(doc, c)
           t  == doc[i].text
           n1 == created + 1
<1>1. gui_pc = "processing" /\ q # <<>> /\ q \in Seq(Actions)
  BY DEF SplitCell_execute, Executes, Good
<1>2. /\ a = Action /\ a \in Actions /\ HasCell(doc, c) /\ i \in DOMAIN doc
      /\ doc[i].addr = c /\ Index(view, c) = i /\ t \in Seq(Char)
  BY <1>1, Found
<1>3. a.act = "SplitCell"
  BY <1>2 DEF SplitCell_execute, Executes, Action
<1>4. HasCell(doc, current_cell)
  <2>1. a.act # "PositionCursor"
    BY <1>3
  <2> QED
    BY <1>1, <2>1, Found
<1>5. Shape(doc, view, created) /\ created \in Nat
  BY DEF Good, Shape
<1>6. /\ erasing = NoErase /\ SameTexts(doc, view)
      /\ \A m \in DOMAIN q : ~IsText(q[m]) /\ (q[m].act = "SplitCell" => m = 1)
  <2>1. 1 \in DOMAIN q
    BY <1>1, Taken
  <2> QED
    BY <1>3, <2>1 DEF Good, QueueFits, SplitIsAlone
<1>7. Buffer(c) = t
  BY <1>2, <1>6 DEF Buffer, SameTexts
<1>8. PICK p \in 0..Len(t) : \E f \in NewNodes(1) :
        LET s     == Split(t, p)
            added == add_cell(view, i + 1, f[1], s[2]) IN
        /\ doc' = InsertAt([doc EXCEPT ![i].text = s[1]], i + 1, Input(f[1], s[2]))
        /\ view' = update_cell(added, c, s[1])
        /\ created' = created + 1
        /\ UNCHANGED <<stale, current_cell>>
        /\ undo_stack' = Append(undo_stack,
             [action |-> a, newref |-> f[1], index |-> 0, removed |-> <<>>,
              before |-> doc])
        /\ Executed(BufferSignals(c, s[1]))
  <2>1. HasCell(doc, Action.cell)
    BY <1>2
  <2>2. \A p \in 0..Len(t) : ~(p > Len(t))
    BY <1>2
  <2> HIDE DEF q
  <2> QED
    BY <1>2, <1>7, <2>1, <2>2, ZenonT(60) DEF SplitCell_execute, Undoable
<1> DEFINE s1 == Split(t, p)[1]
           s2 == Split(t, p)[2]
           d1 == InsertAt(WithText(doc, i, s1), i + 1, Input(n1, s2))
           va == InsertAt(view, i + 1, InputWidget(n1, s2))
           v1 == WithBuffer(va, Index(va, c), s1)
           r  == BufferSignals(c, s1)
           e  == [action |-> a, newref |-> n1, index |-> 0, removed |-> <<>>,
                  before |-> doc]
<1>9. PICK f \in NewNodes(1) :
        LET s     == Split(t, p)
            added == add_cell(view, i + 1, f[1], s[2]) IN
        /\ doc' = InsertAt([doc EXCEPT ![i].text = s[1]], i + 1, Input(f[1], s[2]))
        /\ view' = update_cell(added, c, s[1])
        /\ created' = created + 1
        /\ UNCHANGED <<stale, current_cell>>
        /\ undo_stack' = Append(undo_stack,
             [action |-> a, newref |-> f[1], index |-> 0, removed |-> <<>>,
              before |-> doc])
        /\ Executed(BufferSignals(c, s[1]))
  BY <1>8
<1>10. f[1] = n1 /\ n1 \in Address
  BY <1>5, NewNode
<1>11. /\ doc' = d1 /\ view' = v1 /\ undo_stack' = Append(undo_stack, e)
       /\ created' = n1 /\ Executed(r)
  <2> HIDE DEF q, a, i, t, c
  <2> QED
    BY <1>9, <1>10 DEF WithText, WithBuffer, update_cell, add_cell
<1>12. /\ current_cell' = current_cell /\ gui_pc' = gui_pc
       /\ erasing' = erasing /\ evaluating' = evaluating /\ corrupt' = corrupt
       /\ ops' = ops /\ pending_actions' = Tail(q) \o r
  <2> HIDE DEF r, d1, v1, e
  <2> QED
    BY <1>9, <1>11 DEF Executed, userVars, Action
<1>13. s1 \in Seq(Char) /\ s2 \in Seq(Char) /\ Len(s1) <= Len(t)
  BY <1>2, SplitTexts
<1> HIDE DEF s1, s2, d1, v1, r
<1>14. /\ Shape(d1, v1, n1) /\ SameTexts(d1, v1)
       /\ \A x : HasCell(doc, x) =>
            HasCell(d1, x) /\ \A y : KidOf(doc, x, y) => KidOf(d1, x, y)
       /\ \A k \in DOMAIN d1 : d1[k].addr = c => d1[k].text = s1
  <2> HIDE DEF i
  <2> QED
    BY <1>2, <1>5, <1>6, <1>10, <1>13, SplitMade DEF d1, v1
<1>15. /\ r \in Seq(Actions) /\ Leads(r, c, s1, s1)
       /\ \A m \in DOMAIN r : IsText(r[m]) /\ r[m].cell = c
  <2>1. c \in Places
    BY <1>1, Found
  <2> HIDE DEF c, t
  <2> QED
    BY <1>2, <1>7, <1>13, <2>1, Signals DEF r
<1>16. Takes(q, doc, view, d1, v1, current_cell)
  <2>1. \A m \in DOMAIN q : q[m].act = "RemoveOutput" =>
          HasCell(doc, q[m].cell) /\ KidOf(doc, q[m].cell, q[m].output)
    BY DEF Good, QueueFits, OutputsAreThere, CellsAreThere
  <2> QED
    BY <1>3, <1>4, <1>14, <2>1 DEF Takes
<1>17. /\ Tail(q) \o r \in Seq(Actions)
       /\ QueueFits(Tail(q) \o r, d1, v1, current_cell, gui_pc, erasing, evaluating)
  <2>1. a.act \in {"SplitCell", "SetRunStatus"}
    BY <1>3
  <2>2. \A m \in DOMAIN q : m # 1 => q[m].act # "SplitCell"
    BY <1>6
  <2> QED
    BY <1>1, <1>15, <1>16, <2>1, <2>2, SignalsQueued
<1>18. TextsAgree(Tail(q), d1, v1, NoErase) /\ Tail(q) \in Seq(Actions)
  <2>1. /\ Tail(q) \in Seq(Actions)
        /\ \A m \in DOMAIN Tail(q) : m + 1 \in DOMAIN q /\ Tail(q)[m] = q[m + 1]
    BY <1>1, Taken
  <2>2. \A m \in DOMAIN Tail(q) : ~IsText(Tail(q)[m])
    BY <1>6, <2>1
  <2> QED
    BY <1>14, <2>1, <2>2, TextsSettled
<1>19. ASSUME NEW k \in DOMAIN d1
       PROVE  Leads(r, d1[k].addr, Shown(v1[k], NoErase), Shown(v1[k], NoErase))
  <2>1. Shown(v1[k], NoErase) = d1[k].text /\ d1[k].text \in Seq(Char)
    <3>1. d1[k] \in Cells /\ v1[k].addr = d1[k].addr
      BY <1>14 DEF Shape
    <3>2. d1[k].text \in Seq(Char) /\ d1[k].addr # NoCell
      BY <3>1, CellTypes, DocumentBounds
    <3> QED
      BY <1>14, <3>1, <3>2 DEF Shown, NoErase, SameTexts
  <2>2. CASE d1[k].addr = c
    BY <1>14, <1>15, <2>1, <2>2
  <2>3. CASE d1[k].addr # c
    BY <1>15, <2>1, <2>3, LeadsAside
  <2> QED
    BY <2>2, <2>3
<1>20. TextsAgree(Tail(q) \o r, d1, v1, erasing)
  BY <1>6, <1>15, <1>18, <1>19, TextsAppended
<1>21. ~Reversible(e)
  BY <1>3 DEF Reversible
<1>22. undo_stack' \in Seq(Entries) /\ Chain(undo_stack', d1)
  <2>1. n1 \in Places /\ 0 \in Nat /\ <<>> \in Seq(Char)
    BY <1>10 DEF Places
  <2> HIDE DEF n1
  <2> QED
    BY <1>2, <1>11, <1>21, <2>1, Remembered
<1> HIDE DEF e
<1>23. Good'
  BY <1>11, <1>12, <1>14, <1>17, <1>20, <1>22 DEF Good
<1> QED
  BY <1>12, <1>23

LEMMA BufferSet ==
  ASSUME NEW d, NEW v, NEW n, Shape(d, v, n), NEW i \in DOMAIN d, NEW u \in Seq(Char)
  PROVE  /\ Shape(d, WithBuffer(v, i, u), n)
         /\ \A k \in DOMAIN d : /\ WithBuffer(v, i, u)[k].addr = v[k].addr
                                /\ WithBuffer(v, i, u)[k].buffer =
                                     IF k = i THEN u ELSE v[k].buffer
<1> DEFINE t == d[i].text
<1>1. d[i] \in Cells
  BY DEF Shape
<1>2. t \in Seq(Char)
  BY <1>1, CellTypes
<1>3. WithText(d, i, t) = d
  BY SameFields
<1> HIDE DEF t
<1>4. /\ Shape(WithText(d, i, t), WithBuffer(v, i, u), n)
      /\ \A k \in DOMAIN d : /\ WithBuffer(v, i, u)[k].addr = v[k].addr
                             /\ WithBuffer(v, i, u)[k].buffer =
                                  IF k = i THEN u ELSE v[k].buffer
  BY <1>2, TextChanged
<1> QED
  BY <1>3, <1>4

-----------------------------------------------------------------------------
(* The queue ends, is started, and is added to.                             *)

LEMMA QueueEndsGood ==
  ASSUME Good, process_action_queue_ends
  PROVE  Good' /\ corrupt' = "no"
<1> DEFINE e == erasing
           i == Index(view, e.cell)
           u == Erased(view[i].buffer, e.from, e.to)
<1>1. /\ corrupt = "no" /\ gui_pc = "processing" /\ pending_actions = <<>>
      /\ gui_pc' = "idle" /\ erasing' = NoErase
      /\ view' = IF e = NoErase THEN view ELSE WithBuffer(view, i, u)
      /\ doc' = doc /\ current_cell' = current_cell /\ created' = created
      /\ pending_actions' = <<>> /\ undo_stack' = undo_stack
      /\ evaluating' = evaluating /\ corrupt' = corrupt /\ ops' = ops
  <2> HIDE DEF i
  <2> QED
    BY DEF process_action_queue_ends, WithBuffer, userVars, i
<1>2. /\ Shape(doc, view, created)
      /\ QueueFits(<<>>, doc, view, current_cell, gui_pc, e, evaluating)
      /\ TextsAgree(<<>>, doc, view, e)
      /\ undo_stack \in Seq(Entries) /\ Chain(undo_stack, doc) /\ ops \in Nat
  BY <1>1 DEF Good
<1>3. \A k \in DOMAIN doc : /\ doc[k].text = Shown(view[k], e)
                            /\ Shown(view[k], e) \in Seq(Char)
                            /\ view[k].addr = doc[k].addr
                            /\ view[k].addr # NoCell
  <2> TAKE k \in DOMAIN doc
  <2>1. doc[k].text = Shown(view[k], e)
    BY <1>2, LeadsNowhere DEF TextsAgree
  <2>2. Shown(view[k], e) \in Seq(Char)
    BY ShownTexts
  <2>3. view[k].addr = doc[k].addr /\ doc[k] \in Cells
    BY <1>2 DEF Shape
  <2>4. doc[k].addr # NoCell
    BY <2>3, CellTypes, DocumentBounds
  <2> QED
    BY <2>1, <2>2, <2>3, <2>4
<1>4. Shape(doc, view', created) /\ SameTexts(doc, view')
  <2>1. CASE e = NoErase
    <3>1. view' = view
      BY <1>1, <2>1
    <3>2. \A k \in DOMAIN doc : Shown(view[k], e) = view[k].buffer
      BY <1>3, <2>1 DEF Shown, NoErase
    <3> QED
      BY <1>2, <1>3, <3>1, <3>2 DEF SameTexts
  <2>2. CASE e # NoErase
    <3>1. HasCell(doc, e.cell)
      BY <1>2, <2>2 DEF QueueFits, CellsAreThere
    <3>2. i \in DOMAIN doc /\ view[i].addr = e.cell
      BY <1>2, <3>1, SameCells
    <3>3. u = Shown(view[i], e)
      BY <3>2 DEF Shown
    <3>4. u \in Seq(Char)
      BY <1>3, <3>2, <3>3
    <3> HIDE DEF i, u
    <3>5. /\ Shape(doc, WithBuffer(view, i, u), created)
          /\ \A k \in DOMAIN doc :
               WithBuffer(view, i, u)[k].buffer = IF k = i THEN u ELSE view[k].buffer
      BY <1>2, <3>2, <3>4, BufferSet
    <3>6. \A k \in DOMAIN doc : k # i => Shown(view[k], e) = view[k].buffer
      <4>1. \A k \in DOMAIN doc : k # i => view[k].addr # e.cell
        BY <1>2, <1>3, <3>2 DEF Shape
      <4> QED
        BY <4>1 DEF Shown
    <3>7. view' = WithBuffer(view, i, u)
      BY <1>1, <2>2
    <3> QED
      BY <1>3, <3>2, <3>3, <3>5, <3>6, <3>7 DEF SameTexts
  <2> QED
    BY <2>1, <2>2
<1>5. DOMAIN <<>> = {} /\ <<>> \in Seq(Actions) /\ Len(<<>>) # 1
  OBVIOUS
<1>6. QueueFits(<<>>, doc, view', current_cell, "idle", NoErase, evaluating)
  BY <1>2, <1>4, <1>5 DEF QueueFits, CellsAreThere, OutputsAreThere, RemovalIsLast,
    SplitIsAlone, IdleAgrees, CursorIsThere
<1>7. TextsAgree(<<>>, doc, view', NoErase)
  BY <1>4, <1>5, TextsSettled
<1>8. Good'
  BY <1>1, <1>2, <1>4, <1>5, <1>6, <1>7 DEF Good
<1> QED
  BY <1>1, <1>8

\* What holds between two operations of the user.
LEMMA Idle ==
  ASSUME Good, gui_pc = "idle"
  PROVE  /\ QueueFits(pending_actions, doc, view, current_cell, "idle", NoErase, evaluating)
         /\ TextsAgree(pending_actions, doc, view, NoErase)
         /\ erasing = NoErase /\ SameTexts(doc, view) /\ HasCell(doc, current_cell)
         /\ \A m \in DOMAIN pending_actions :
              /\ ~IsText(pending_actions[m])
              /\ pending_actions[m].act # "RemoveCell"
              /\ pending_actions[m].act # "SplitCell"
         /\ \A k \in DOMAIN doc :
              /\ Shown(view[k], NoErase) = view[k].buffer
              /\ view[k].buffer = doc[k].text /\ doc[k].text \in Seq(Char)
              /\ view[k].addr = doc[k].addr
<1>1. erasing = NoErase
  BY DEF Good, QueueFits, IdleAgrees
<1>2. QueueFits(pending_actions, doc, view, current_cell, "idle", NoErase, evaluating)
  BY <1>1 DEF Good
<1>3. /\ SameTexts(doc, view) /\ HasCell(doc, current_cell)
      /\ \A m \in DOMAIN pending_actions :
           /\ ~IsText(pending_actions[m])
           /\ pending_actions[m].act # "RemoveCell"
           /\ pending_actions[m].act # "SplitCell"
  <2>1. "idle" # "processing"
    OBVIOUS
  <2> QED
    BY <1>2, <2>1 DEF QueueFits, RemovalIsLast, SplitIsAlone, IdleAgrees, CursorIsThere
<1>4. \A k \in DOMAIN doc : /\ Shown(view[k], NoErase) = view[k].buffer
                            /\ view[k].buffer = doc[k].text /\ doc[k].text \in Seq(Char)
                            /\ view[k].addr = doc[k].addr
  <2> TAKE k \in DOMAIN doc
  <2>1. view[k].addr = doc[k].addr /\ doc[k] \in Cells
    BY DEF Good, Shape
  <2>2. doc[k].text \in Seq(Char) /\ view[k].addr # NoCell
    BY <2>1, CellTypes, DocumentBounds
  <2> QED
    BY <1>3, <2>1, <2>2 DEF Shown, NoErase, SameTexts
<1> QED
  BY <1>1, <1>2, <1>3, <1>4 DEF Good

LEMMA ProcessTodoGood ==
  ASSUME Good, process_todo_queue
  PROVE  Good' /\ corrupt' = "no"
<1>1. /\ corrupt = "no" /\ gui_pc = "idle" /\ gui_pc' = "processing"
      /\ doc' = doc /\ view' = view /\ current_cell' = current_cell /\ created' = created
      /\ pending_actions' = pending_actions /\ undo_stack' = undo_stack
      /\ erasing' = erasing /\ evaluating' = evaluating /\ corrupt' = corrupt /\ ops' = ops
  BY DEF process_todo_queue, docVars, userVars
<1>2. /\ QueueFits(pending_actions, doc, view, current_cell, "idle", NoErase, evaluating)
      /\ erasing = NoErase /\ HasCell(doc, current_cell)
  BY <1>1, Idle
<1>3. QueueFits(pending_actions, doc, view, current_cell, "processing", NoErase, evaluating)
  BY <1>2, QueueStarted
<1>4. Good'
  BY <1>1, <1>2, <1>3 DEF Good
<1> QED
  BY <1>1, <1>4

LEMMA MessageGood ==
  ASSUME Good, NEW c \in evaluating, on_message(c)
  PROVE  Good' /\ corrupt' = "no"
<1> DEFINE q  == pending_actions
           x  == [act |-> "SetRunStatus", cell |-> c]
           y  == [act |-> "AddCell", cell |-> c, pos |-> "child", text |-> ops]
           r  == <<x, y>>
           ev == evaluating \ {c}
<1>1. /\ corrupt = "no" /\ gui_pc' = gui_pc
      /\ doc' = doc /\ view' = view /\ current_cell' = current_cell /\ created' = created
      /\ pending_actions' = q \o r /\ undo_stack' = undo_stack
      /\ erasing' = erasing /\ evaluating' = ev /\ corrupt' = corrupt /\ ops' = ops
  BY DEF on_message, docVars, userVars
<1>2. /\ q \in Seq(Actions) /\ ops \in Nat /\ Shape(doc, view, created)
      /\ QueueFits(q, doc, view, current_cell, gui_pc, erasing, evaluating)
      /\ TextsAgree(q, doc, view, erasing)
  BY DEF Good
<1>3. HasCell(doc, c) /\ c \in Places
  <2>1. HasCell(doc, c)
    BY <1>2 DEF QueueFits, CellsAreThere
  <2> QED
    BY <1>2, <2>1, SameCells DEF Places
<1>4. (\A m \in DOMAIN q : q[m].act # "RemoveCell") /\ HasCell(doc, current_cell)
  BY <1>2 DEF QueueFits, RemovalIsLast, CursorIsThere
<1>5. QueueFits(q, doc, view, current_cell, gui_pc, erasing, ev)
  BY <1>2, <1>4 DEF QueueFits, CellsAreThere, RemovalIsLast, CursorIsThere
<1>6. x \in Actions /\ y \in Actions
  <2>1. x \in Statuses /\ y \in AddOutputs
    BY <1>2, <1>3 DEF Statuses, AddOutputs
  <2> QED
    BY <2>1 DEF Actions
<1>7. /\ x.cell = c /\ x.act = "SetRunStatus" /\ y.cell = c /\ y.act = "AddCell"
  OBVIOUS
<1> HIDE DEF x, y
<1>8. r \in Seq(Actions) /\ \A m \in DOMAIN r : r[m] = x \/ r[m] = y
  <2>1. DOMAIN r = {1, 2} /\ r[1] = x /\ r[2] = y
    OBVIOUS
  <2> QED
    BY <1>6, <2>1
<1> HIDE DEF r
<1>9. \A m \in DOMAIN r : /\ r[m].cell = c /\ ~IsText(r[m])
                          /\ r[m].act \notin {"RemoveOutput", "RemoveCell", "SplitCell"}
  BY <1>7, <1>8 DEF IsText
<1>10. q \o r \in Seq(Actions)
       /\ QueueFits(q \o r, doc, view, current_cell, gui_pc, erasing, ev)
  <2>1. Joins(q, r, doc, view, current_cell, gui_pc, erasing)
    BY <1>3, <1>4, <1>9 DEF Joins
  <2> QED
    BY <1>2, <1>5, <1>8, <2>1, QueueAppended
<1>11. TextsAgree(q \o r, doc, view, erasing)
  <2>1. \A k \in DOMAIN doc :
          Leads(r, doc[k].addr, Shown(view[k], erasing), Shown(view[k], erasing))
    BY <1>8, <1>9, ShownTexts, LeadsAside
  <2> QED
    BY <1>2, <1>8, <2>1, TextsAppended
<1>12. Good'
  BY <1>1, <1>2, <1>10, <1>11 DEF Good
<1> QED
  BY <1>1, <1>12

-----------------------------------------------------------------------------
(* The operations of the user.                                              *)

\* The user changes the text of a widget, and the action for it is queued.
LEMMA TextQueued ==
  ASSUME Good, gui_pc = "idle", NEW i \in DOMAIN doc, NEW a \in Actions, IsText(a),
         a.cell = doc[i].addr, NEW v1, NEW e1, NEW u \in Seq(Char),
         TextStep(a, doc[i].addr, view[i].buffer, u), Shown(v1[i], e1) = u,
         \A k \in DOMAIN doc : k # i => Shown(v1[k], e1) = view[k].buffer,
         e1 # NoErase => HasCell(doc, e1.cell)
  PROVE  LET p == pending_actions \o <<a>> IN
         /\ p \in Seq(Actions)
         /\ QueueFits(p, doc, v1, doc[i].addr, "processing", e1, evaluating)
         /\ TextsAgree(p, doc, v1, e1)
<1> DEFINE q == pending_actions
           c == doc[i].addr
           r == <<a>>
<1>1. /\ q \in Seq(Actions) /\ Shape(doc, view, created)
      /\ QueueFits(q, doc, view, current_cell, "idle", NoErase, evaluating)
      /\ TextsAgree(q, doc, view, NoErase)
      /\ \A m \in DOMAIN q : ~IsText(q[m]) /\ q[m].act # "RemoveCell"
                             /\ q[m].act # "SplitCell"
      /\ \A k \in DOMAIN doc : /\ Shown(view[k], NoErase) = view[k].buffer
                               /\ view[k].buffer = doc[k].text
                               /\ doc[k].text \in Seq(Char)
  BY Idle DEF Good
<1>2. HasCell(doc, c)
  BY DEF HasCell
<1>3. QueueFits(q, doc, v1, c, "processing", e1, evaluating)
  BY <1>1, <1>2, QueueStarted
<1>4. r \in Seq(Actions) /\ \A m \in DOMAIN r : r[m] = a
  OBVIOUS
<1> HIDE DEF r
<1>5. Joins(q, r, doc, v1, c, "processing", e1)
  <2>1. \A m \in DOMAIN r : /\ HasCell(doc, r[m].cell)
                            /\ r[m].act \notin {"RemoveOutput", "RemoveCell", "SplitCell"}
    BY <1>2, <1>4 DEF IsText
  <2> QED
    BY <1>1, <1>2, <2>1 DEF Joins
<1>6. q \o r \in Seq(Actions) /\ QueueFits(q \o r, doc, v1, c, "processing", e1, evaluating)
  BY <1>1, <1>3, <1>4, <1>5, QueueAppended
<1>7. ASSUME NEW k \in DOMAIN doc
      PROVE  Leads(r, doc[k].addr, Shown(view[k], NoErase), Shown(v1[k], e1))
  <2>1. CASE k = i
    <3> DEFINE b == view[i].buffer
    <3>1. b \in Seq(Char) /\ TextStep(a, c, b, u)
      BY <1>1
    <3> HIDE DEF b, c
    <3>2. Leads(<<a>>, c, b, u)
      BY <3>1, LeadsBy
    <3> QED
      BY <1>1, <2>1, <3>2 DEF r, b, c
  <2>2. CASE k # i
    <3>1. doc[k].addr # c
      BY <1>1, <2>2 DEF Shape
    <3>2. \A m \in DOMAIN r : ~(IsText(r[m]) /\ r[m].cell = doc[k].addr)
      BY <1>4, <3>1
    <3>3. Shown(v1[k], e1) = Shown(view[k], NoErase) /\ Shown(v1[k], e1) \in Seq(Char)
      BY <1>1, <2>2
    <3> QED
      BY <1>4, <3>2, <3>3, LeadsAside
  <2> QED
    BY <2>1, <2>2
<1>8. TextsAgree(q \o r, doc, v1, e1)
  BY <1>1, <1>4, <1>7, TextsAppended
<1> QED
  BY <1>6, <1>8 DEF r

\* The user asks for something else.
LEMMA ActionQueued ==
  ASSUME Good, gui_pc = "idle", NEW a \in Actions, HasCell(doc, a.cell),
         a.act \in {"AddCell", "SplitCell", "PositionCursor"}
  PROVE  LET p == pending_actions \o <<a>> IN
         /\ p \in Seq(Actions)
         /\ QueueFits(p, doc, view, current_cell, "processing", NoErase, evaluating)
         /\ TextsAgree(p, doc, view, NoErase)
<1> DEFINE q == pending_actions
           r == <<a>>
<1>1. /\ q \in Seq(Actions) /\ Shape(doc, view, created)
      /\ QueueFits(q, doc, view, current_cell, "idle", NoErase, evaluating)
      /\ TextsAgree(q, doc, view, NoErase)
      /\ HasCell(doc, current_cell) /\ SameTexts(doc, view)
      /\ \A m \in DOMAIN q : ~IsText(q[m]) /\ q[m].act # "RemoveCell"
                             /\ q[m].act # "SplitCell"
      /\ \A k \in DOMAIN doc : /\ Shown(view[k], NoErase) = view[k].buffer
                               /\ view[k].buffer = doc[k].text
                               /\ doc[k].text \in Seq(Char)
  BY Idle DEF Good
<1>2. QueueFits(q, doc, view, current_cell, "processing", NoErase, evaluating)
  BY <1>1, QueueStarted
<1>3. r \in Seq(Actions) /\ Len(r) = 1 /\ \A m \in DOMAIN r : r[m] = a
  OBVIOUS
<1> HIDE DEF r
<1>4. Joins(q, r, doc, view, current_cell, "processing", NoErase)
  <2>1. \A m \in DOMAIN r : /\ HasCell(doc, r[m].cell) /\ ~IsText(r[m])
                            /\ r[m].act \notin {"RemoveOutput", "RemoveCell"}
    BY <1>3 DEF IsText
  <2> QED
    BY <1>1, <1>3, <2>1 DEF Joins
<1>5. /\ q \o r \in Seq(Actions)
      /\ QueueFits(q \o r, doc, view, current_cell, "processing", NoErase, evaluating)
  BY <1>1, <1>2, <1>3, <1>4, QueueAppended
<1>6. \A k \in DOMAIN doc :
        Leads(r, doc[k].addr, Shown(view[k], NoErase), Shown(view[k], NoErase))
  <2>1. \A k \in DOMAIN doc : Shown(view[k], NoErase) \in Seq(Char)
    BY <1>1
  <2>2. \A m \in DOMAIN r : ~IsText(r[m])
    BY <1>3 DEF IsText
  <2> QED
    BY <1>3, <2>1, <2>2, LeadsAside
<1>7. TextsAgree(q \o r, doc, view, NoErase)
  BY <1>1, <1>3, <1>6, TextsAppended
<1> QED
  BY <1>5, <1>7 DEF r

\* What an operation of the user leaves alone, besides the texts.
LEMMA Queued ==
  ASSUME Good, NEW r, UserQueues(r),
         pending_actions \o r \in Seq(Actions), doc' = doc, created' = created,
         Shape(doc, view', created),
         QueueFits(pending_actions \o r, doc, view', current_cell', "processing", erasing',
                   evaluating'),
         TextsAgree(pending_actions \o r, doc, view', erasing')
  PROVE  Good' /\ corrupt' = "no"
<1>1. /\ corrupt = "no" /\ corrupt' = corrupt /\ ops' = ops + 1
      /\ pending_actions' = pending_actions \o r /\ gui_pc' = "processing"
      /\ undo_stack' = undo_stack
  BY DEF UserQueues
<1>2. ops' \in Nat /\ undo_stack \in Seq(Entries) /\ Chain(undo_stack, doc)
  BY <1>1 DEF Good
<1>3. Good'
  BY <1>1, <1>2 DEF Good
<1> QED
  BY <1>1, <1>3

LEMMA ContentInsertGood ==
  ASSUME Good, NEW i, NEW p, NEW ch \in Char, cell_content_insert(i, p, ch)
  PROVE  Good' /\ corrupt' = "no"
<1> DEFINE b == view[i].buffer
           c == view[i].addr
           s == <<ch>>
           u == Inserted(b, p, s)
           a == [act |-> "InsertText", cell |-> c, pos |-> p, text |-> s]
           v1 == WithBuffer(view, i, u)
<1>1. gui_pc = "idle" /\ i \in DOMAIN view
  BY DEF cell_content_insert, UserQueues
<1>2. Shape(doc, view, created) /\ i \in DOMAIN doc
  BY <1>1 DEF Good, Shape
<1>3. b \in Seq(Char) /\ c = doc[i].addr /\ c \in Places
  BY <1>2, ShownTexts DEF Shape
<1>4. p \in 0..Len(b) /\ p \in Nat /\ s \in Seq(Char)
  <2>1. p \in 0..Len(b)
    BY DEF cell_content_insert
  <2> QED
    BY <1>3, <2>1
<1>5. InsertAt(b, p + 1, ch) = u
  <2>1. (p + 1) - 1 = p
    BY <1>4
  <2> QED
    BY <2>1 DEF InsertAt, Inserted
<1>6. /\ view' = v1 /\ current_cell' = c /\ UserQueues(<<a>>)
      /\ doc' = doc /\ created' = created /\ erasing' = erasing /\ evaluating' = evaluating
  <2> HIDE DEF u
  <2> QED
    BY <1>5 DEF cell_content_insert, WithBuffer
<1>7. u \in Seq(Char)
  <2> HIDE DEF b, s
  <2> QED
    BY <1>3, <1>4, InsertedText
<1>8. a \in Actions /\ IsText(a) /\ a.cell = c
  <2>1. a \in InsertTexts /\ IsText(a) /\ a.cell = c
    BY <1>3, <1>4 DEF InsertTexts, IsText
  <2> QED
    BY <2>1 DEF Actions
<1>9. TextStep(a, c, b, u)
  <2>1. a.act = "InsertText" /\ a.pos = p /\ a.text = s
    OBVIOUS
  <2> HIDE DEF a
  <2> QED
    BY <1>4, <1>8, <2>1 DEF TextStep, InRange, TextAfter
<1> HIDE DEF u, v1
<1>10. /\ Shape(doc, v1, created)
       /\ \A k \in DOMAIN doc : /\ v1[k].addr = view[k].addr
                                /\ v1[k].buffer = IF k = i THEN u ELSE view[k].buffer
  BY <1>2, <1>7, BufferSet DEF v1
<1>11. /\ erasing = NoErase
       /\ \A k \in DOMAIN doc : view[k].addr = doc[k].addr /\ doc[k].addr # NoCell
  <2>1. \A k \in DOMAIN doc : view[k].addr = doc[k].addr /\ doc[k] \in Cells
    BY <1>2 DEF Shape
  <2>2. \A k \in DOMAIN doc : doc[k].addr # NoCell
    BY <2>1, CellTypes, DocumentBounds
  <2> QED
    BY <1>1, <2>1, <2>2, Idle
<1>12. \A k \in DOMAIN doc : Shown(v1[k], NoErase) = IF k = i THEN u ELSE view[k].buffer
  BY <1>10, <1>11 DEF Shown, NoErase
<1> HIDE DEF a, b
<1>13. /\ pending_actions \o <<a>> \in Seq(Actions)
       /\ QueueFits(pending_actions \o <<a>>, doc, v1, doc[i].addr, "processing", NoErase,
                    evaluating)
       /\ TextsAgree(pending_actions \o <<a>>, doc, v1, NoErase)
  <2>1. Shown(v1[i], NoErase) = u
    BY <1>2, <1>12
  <2>2. \A k \in DOMAIN doc : k # i => Shown(v1[k], NoErase) = view[k].buffer
    BY <1>12
  <2>3. a.cell = doc[i].addr /\ TextStep(a, doc[i].addr, view[i].buffer, u)
    BY <1>3, <1>8, <1>9 DEF b
  <2> QED
    BY <1>1, <1>2, <1>7, <1>8, <2>1, <2>2, <2>3, TextQueued
<1> QED
  BY <1>3, <1>6, <1>10, <1>11, <1>13, Queued

LEMMA ContentEraseGood ==
  ASSUME Good, NEW i, NEW from, NEW to, cell_content_erase(i, from, to)
  PROVE  Good' /\ corrupt' = "no"
<1> DEFINE b == view[i].buffer
           c == view[i].addr
           u == Erased(b, from, to)
           a == [act |-> "EraseText", cell |-> c, from |-> from, to |-> to]
           e == [cell |-> c, from |-> from, to |-> to]
<1>1. gui_pc = "idle" /\ i \in DOMAIN view
  BY DEF cell_content_erase, UserQueues
<1>2. Shape(doc, view, created) /\ i \in DOMAIN doc
  BY <1>1 DEF Good, Shape
<1>3. b \in Seq(Char) /\ c = doc[i].addr /\ c \in Places
  BY <1>2, ShownTexts DEF Shape
<1>4. from \in 0..Len(b) /\ from \in Nat /\ to \in Nat /\ from <= to
  <2>1. from \in 0..Len(b) /\ to \in (from + 1)..Len(b) /\ Len(b) \in Nat
    BY <1>3 DEF cell_content_erase
  <2> HIDE DEF b
  <2> QED
    BY <2>1
<1>5. /\ view' = view /\ current_cell' = c /\ UserQueues(<<a>>) /\ erasing' = e
      /\ doc' = doc /\ created' = created /\ evaluating' = evaluating
  BY DEF cell_content_erase
<1>6. u \in Seq(Char)
  <2> DEFINE n == IF to < Len(b) THEN to ELSE Len(b)
  <2>1. n \in Nat /\ n = IF to < Len(b) THEN to ELSE Len(b)
    BY <1>3, <1>4
  <2> HIDE DEF b, n
  <2> QED
    BY <1>3, <1>4, <2>1, ErasedText
<1>7. a \in Actions /\ IsText(a) /\ a.cell = c
  <2>1. a \in EraseTexts /\ IsText(a) /\ a.cell = c
    BY <1>3, <1>4 DEF EraseTexts, IsText
  <2> QED
    BY <2>1 DEF Actions
<1>8. TextStep(a, c, b, u)
  <2>1. a.act = "EraseText" /\ a.from = from /\ a.to = to
    OBVIOUS
  <2> HIDE DEF a
  <2> QED
    BY <1>4, <1>7, <2>1 DEF TextStep, InRange, TextAfter
<1>9. Shown(view[i], e) = u /\ HasCell(doc, e.cell)
  BY <1>2, <1>3 DEF Shown, HasCell
<1>10. \A k \in DOMAIN doc : k # i => Shown(view[k], e) = view[k].buffer
  <2>1. \A k \in DOMAIN doc : view[k].addr = c => k = i
    BY <1>2, <1>3 DEF Shape
  <2> QED
    BY <2>1 DEF Shown
<1> HIDE DEF a, b, u, e
<1>11. /\ pending_actions \o <<a>> \in Seq(Actions)
       /\ QueueFits(pending_actions \o <<a>>, doc, view, doc[i].addr, "processing", e,
                    evaluating)
       /\ TextsAgree(pending_actions \o <<a>>, doc, view, e)
  <2>1. a.cell = doc[i].addr /\ TextStep(a, doc[i].addr, view[i].buffer, u)
    BY <1>3, <1>7, <1>8 DEF b
  <2> QED
    BY <1>1, <1>2, <1>6, <1>7, <1>9, <1>10, <2>1, TextQueued
<1> QED
  BY <1>2, <1>3, <1>5, <1>11, Queued

LEMMA EditGood ==
  ASSUME Good, NEW a \in Actions, a.act \in {"AddCell", "SplitCell", "PositionCursor"},
         a.cell = current_cell, UserQueues(<<a>>),
         UNCHANGED <<docVars, erasing, evaluating>>
  PROVE  Good' /\ corrupt' = "no"
<1>1. /\ gui_pc = "idle" /\ doc' = doc /\ view' = view /\ created' = created
      /\ current_cell' = current_cell /\ erasing' = erasing /\ evaluating' = evaluating
  BY DEF UserQueues, docVars
<1>2. erasing = NoErase /\ HasCell(doc, a.cell) /\ Shape(doc, view, created)
  BY <1>1, Idle DEF Good
<1>3. /\ pending_actions \o <<a>> \in Seq(Actions)
      /\ QueueFits(pending_actions \o <<a>>, doc, view, current_cell, "processing", NoErase,
                   evaluating)
      /\ TextsAgree(pending_actions \o <<a>>, doc, view, NoErase)
  BY <1>1, <1>2, ActionQueued
<1> QED
  BY <1>1, <1>2, <1>3, Queued

\* The current cell between two operations.
LEMMA Current ==
  ASSUME Good, gui_pc = "idle"
  PROVE  current_cell \in Places /\ current_cell \in Address
<1>1. HasCell(doc, current_cell) /\ Shape(doc, view, created)
  BY Idle DEF Good
<1> QED
  BY <1>1, SameCells DEF Places

LEMMA EditInsertGood ==
  ASSUME Good, NEW where \in {"before", "after"}, on_edit_insert(where)
  PROVE  Good' /\ corrupt' = "no"
<1> DEFINE a == [act |-> "AddCell", cell |-> current_cell, pos |-> where, text |-> <<>>]
<1>1. UserQueues(<<a>>) /\ gui_pc = "idle" /\ UNCHANGED <<docVars, erasing, evaluating>>
  BY DEF on_edit_insert, UserQueues
<1>2. a \in AddCells
  BY <1>1, Current DEF AddCells
<1>3. /\ a \in Actions /\ a.act \in {"AddCell", "SplitCell", "PositionCursor"}
      /\ a.cell = current_cell
  BY <1>2 DEF Actions
<1> HIDE DEF a
<1> QED
  BY <1>1, <1>3, EditGood

LEMMA EditSplitGood ==
  ASSUME Good, on_edit_split
  PROVE  Good' /\ corrupt' = "no"
<1> DEFINE a == [act |-> "SplitCell", cell |-> current_cell]
<1>1. UserQueues(<<a>>) /\ gui_pc = "idle" /\ UNCHANGED <<docVars, erasing, evaluating>>
  BY DEF on_edit_split, UserQueues
<1>2. a \in Splits
  BY <1>1, Current DEF Splits
<1>3. /\ a \in Actions /\ a.act \in {"AddCell", "SplitCell", "PositionCursor"}
      /\ a.cell = current_cell
  BY <1>2 DEF Actions
<1> HIDE DEF a
<1> QED
  BY <1>1, <1>3, EditGood

LEMMA KeyPressGood ==
  ASSUME Good, NEW where \in {"next", "previous"}, on_key_press_event(where)
  PROVE  Good' /\ corrupt' = "no"
<1> DEFINE a == [act |-> "PositionCursor", cell |-> current_cell, pos |-> where]
<1>1. UserQueues(<<a>>) /\ gui_pc = "idle" /\ UNCHANGED <<docVars, erasing, evaluating>>
  BY DEF on_key_press_event, UserQueues
<1>2. a \in Positions
  BY <1>1, Current DEF Positions
<1>3. /\ a \in Actions /\ a.act \in {"AddCell", "SplitCell", "PositionCursor"}
      /\ a.cell = current_cell
  BY <1>2 DEF Actions
<1> HIDE DEF a
<1> QED
  BY <1>1, <1>3, EditGood

\* An empty queue gets actions none of which is on text.
LEMMA FreshQueue ==
  ASSUME Good, gui_pc = "idle", NEW r \in Seq(Actions), pending_actions = <<>>, NEW ev,
         \A m \in DOMAIN r : ~IsText(r[m]) /\ r[m].act # "SplitCell"
                             /\ HasCell(doc, r[m].cell),
         \A c \in ev : HasCell(doc, c),
         OutputsAreThere(r, doc),
         RemovalIsLast(r, doc, current_cell, "processing", NoErase, ev)
  PROVE  /\ pending_actions \o r \in Seq(Actions)
         /\ QueueFits(pending_actions \o r, doc, view, current_cell, "processing", NoErase, ev)
         /\ TextsAgree(pending_actions \o r, doc, view, NoErase)
<1>1. pending_actions \o r = r
  BY ConcatEmptySeq
<1>2. SameTexts(doc, view) /\ HasCell(doc, current_cell) /\ Shape(doc, view, created)
  BY Idle DEF Good
<1>3. QueueFits(r, doc, view, current_cell, "processing", NoErase, ev)
  <2>1. "processing" # "idle"
    OBVIOUS
  <2> QED
    BY <1>2, <2>1 DEF QueueFits, CellsAreThere, SplitIsAlone, IdleAgrees, CursorIsThere
<1>4. TextsAgree(r, doc, view, NoErase)
  BY <1>2, TextsSettled
<1> QED
  BY <1>1, <1>3, <1>4

LEMMA EditDeleteGood ==
  ASSUME Good, on_edit_delete
  PROVE  Good' /\ corrupt' = "no"
<1> DEFINE x == [act |-> "PositionCursor", cell |-> current_cell, pos |-> "next"]
           y == [act |-> "RemoveCell", cell |-> current_cell]
           r == <<x, y>>
<1>1. /\ UserQueues(r) /\ gui_pc = "idle" /\ pending_actions = <<>> /\ evaluating = {}
      /\ LET i == Index(doc, current_cell) IN doc[i].text # <<>> \/ i < Len(doc)
      /\ doc' = doc /\ view' = view /\ created' = created
      /\ current_cell' = current_cell /\ erasing' = erasing /\ evaluating' = {}
  BY DEF on_edit_delete, UserQueues, Quiet, docVars
<1>2. erasing = NoErase /\ HasCell(doc, current_cell) /\ Shape(doc, view, created)
  BY <1>1, Idle DEF Good
<1>3. x \in Actions /\ y \in Actions
  <2>1. x \in Positions /\ y \in Removals
    BY <1>1, Current DEF Positions, Removals
  <2> QED
    BY <2>1 DEF Actions
<1>4. /\ x.act = "PositionCursor" /\ x.pos = "next" /\ x.cell = current_cell
      /\ y.act = "RemoveCell" /\ y.cell = current_cell
  OBVIOUS
<1> HIDE DEF x, y
<1>5. r \in Seq(Actions) /\ Len(r) = 2 /\ DOMAIN r = {1, 2} /\ r[1] = x /\ r[2] = y
  BY <1>3
<1> HIDE DEF r
<1>6. \A m \in DOMAIN r : ~IsText(r[m]) /\ r[m].act # "SplitCell" /\ HasCell(doc, r[m].cell)
  BY <1>2, <1>4, <1>5 DEF IsText
<1>7. OutputsAreThere(r, doc)
  BY <1>4, <1>5 DEF OutputsAreThere
<1>8. RemovalIsLast(r, doc, current_cell, "processing", NoErase, {})
  <2> SUFFICES ASSUME NEW m \in DOMAIN r, r[m].act = "RemoveCell"
               PROVE  /\ m = Len(r) /\ m <= 2 /\ m # 1
                      /\ r[1].act = "PositionCursor" /\ r[1].pos = "next"
                      /\ r[1].cell = r[2].cell
                      /\ LET i == Index(doc, r[1].cell) IN doc[i].text # <<>> \/ i < Len(doc)
    BY DEF RemovalIsLast
  <2>1. m = 2
    BY <1>4, <1>5
  <2> QED
    BY <1>1, <1>4, <1>5, <2>1
<1>9. /\ pending_actions \o r \in Seq(Actions)
      /\ QueueFits(pending_actions \o r, doc, view, current_cell, "processing", NoErase, {})
      /\ TextsAgree(pending_actions \o r, doc, view, NoErase)
  BY <1>1, <1>5, <1>6, <1>7, <1>8, FreshQueue
<1> QED
  BY <1>1, <1>2, <1>9, Queued

LEMMA ContentExecuteGood ==
  ASSUME Good, NEW i, cell_content_execute(i)
  PROVE  Good' /\ corrupt' = "no"
<1> DEFINE c  == doc[i].addr
           k  == doc[i].kids
           x  == [act |-> "PositionCursor", cell |-> c, pos |-> "next"]
           y  == [act |-> "SetRunStatus", cell |-> c]
           o(j) == [act |-> "RemoveOutput", cell |-> c, output |-> k[j].addr]
           r1 == [j \in DOMAIN k |-> o(j)]
           r2 == <<x, y>>
           r  == r1 \o r2
<1>1. /\ UserQueues(r) /\ gui_pc = "idle" /\ pending_actions = <<>> /\ evaluating = {}
      /\ i \in DOMAIN doc
      /\ doc' = doc /\ view' = view /\ created' = created
      /\ current_cell' = current_cell /\ erasing' = erasing /\ evaluating' = {c}
  BY DEF cell_content_execute, UserQueues, Quiet, docVars
<1>2. /\ erasing = NoErase /\ HasCell(doc, c) /\ Shape(doc, view, created)
      /\ Index(doc, c) = i /\ doc[i] \in Cells
  <2>1. erasing = NoErase /\ Shape(doc, view, created)
    BY <1>1, Idle DEF Good
  <2>2. HasCell(doc, c) /\ Index(doc, c) = i
    BY <1>1, <2>1, IndexOf
  <2> QED
    BY <1>1, <2>1, <2>2 DEF Shape
<1>3. /\ k \in Seq(OutputCell) /\ c \in Places
      /\ \A j \in DOMAIN k : k[j].addr \in Address
      /\ \A j, l \in DOMAIN k : k[j].addr = k[l].addr => j = l
  <2>1. Twins(k, view[i].kids, created)
    BY <1>1, <1>2 DEF Shape
  <2>2. \A j, l \in DOMAIN k : k[j].addr = k[l].addr => j = l
    BY <2>1 DEF Twins
  <2> QED
    BY <1>2, <2>2, CellTypes DEF Places
<1> HIDE DEF c, k
<1>4. x \in Actions /\ y \in Actions
  <2>1. x \in Positions /\ y \in Statuses
    BY <1>3 DEF Positions, Statuses
  <2> QED
    BY <2>1 DEF Actions
<1>5. /\ x.act = "PositionCursor" /\ x.cell = c /\ y.act = "SetRunStatus" /\ y.cell = c
      /\ \A j \in DOMAIN k : /\ o(j).act = "RemoveOutput" /\ o(j).cell = c
                             /\ o(j).output = k[j].addr
  OBVIOUS
<1>6. \A j \in DOMAIN k : o(j) \in Actions
  <2>1. \A j \in DOMAIN k : o(j) \in Outputs
    BY <1>3 DEF Outputs
  <2> QED
    BY <2>1 DEF Actions
<1> HIDE DEF x, y, o
<1>7. /\ r1 \in Seq(Actions) /\ Len(r1) = Len(k) /\ \A j \in DOMAIN k : r1[j] = o(j)
      /\ DOMAIN k = 1..Len(k) /\ Len(k) \in Nat
  BY <1>3, <1>6
<1>8. r2 \in Seq(Actions) /\ Len(r2) = 2 /\ r2[1] = x /\ r2[2] = y
  BY <1>4
<1> HIDE DEF r1, r2
<1>9. /\ r \in Seq(Actions) /\ DOMAIN r = 1..(Len(k) + 2)
      /\ \A m \in 1..(Len(k) + 2) : r[m] = IF m <= Len(k) THEN r1[m] ELSE r2[m - Len(k)]
  <2>1. /\ r \in Seq(Actions) /\ Len(r) = Len(r1) + Len(r2)
        /\ \A m \in 1..(Len(r1) + Len(r2)) :
             r[m] = IF m <= Len(r1) THEN r1[m] ELSE r2[m - Len(r1)]
    <3>1. r1 \in Seq(Actions) /\ r2 \in Seq(Actions)
      BY <1>7, <1>8
    <3> QED
      BY <3>1, ConcatProperties
  <2> HIDE DEF r
  <2>2. DOMAIN r = 1..Len(r)
    BY <2>1
  <2> QED
    BY <1>7, <1>8, <2>1, <2>2
<1> HIDE DEF r
<1>10. ASSUME NEW m \in DOMAIN r
       PROVE  (m \in DOMAIN k /\ r[m] = o(m)) \/ r[m] = x \/ r[m] = y
  <2>1. CASE m <= Len(k)
    BY <1>7, <1>9, <2>1
  <2>2. CASE ~(m <= Len(k))
    <3>1. m - Len(k) \in {1, 2}
      BY <1>7, <1>9, <2>2
    <3> QED
      BY <1>8, <1>9, <2>2, <3>1
  <2> QED
    BY <2>1, <2>2
<1>11. \A m \in DOMAIN r : /\ ~IsText(r[m]) /\ r[m].act # "SplitCell" /\ r[m].cell = c
                           /\ r[m].act # "RemoveCell"
                           /\ r[m].act = "RemoveOutput" =>
                                m \in DOMAIN k /\ r[m].output = k[m].addr
  BY <1>5, <1>10 DEF IsText
<1>12. OutputsAreThere(r, doc)
  <2> SUFFICES ASSUME NEW m \in DOMAIN r, r[m].act = "RemoveOutput"
               PROVE  /\ KidOf(doc, r[m].cell, r[m].output)
                      /\ \A n \in DOMAIN r : r[n].act = "RemoveOutput" /\ n # m =>
                           r[n].output # r[m].output
    BY DEF OutputsAreThere
  <2>1. m \in DOMAIN k /\ r[m].output = k[m].addr /\ r[m].cell = c
    BY <1>11
  <2>2. KidOf(doc, c, k[m].addr)
    BY <1>2, <2>1 DEF KidOf, k
  <2>3. ASSUME NEW n \in DOMAIN r, r[n].act = "RemoveOutput", n # m
        PROVE  r[n].output # r[m].output
    BY <1>3, <1>11, <2>1, <2>3
  <2> QED
    BY <2>1, <2>2, <2>3
<1>13. RemovalIsLast(r, doc, current_cell, "processing", NoErase, {c})
  BY <1>11 DEF RemovalIsLast
<1>14. /\ pending_actions \o r \in Seq(Actions)
       /\ QueueFits(pending_actions \o r, doc, view, current_cell, "processing", NoErase, {c})
       /\ TextsAgree(pending_actions \o r, doc, view, NoErase)
  <2>1. \A m \in DOMAIN r : ~IsText(r[m]) /\ r[m].act # "SplitCell"
                            /\ HasCell(doc, r[m].cell)
    BY <1>2, <1>11
  <2>2. \A z \in {c} : HasCell(doc, z)
    BY <1>2
  <2> QED
    BY <1>1, <1>9, <1>12, <1>13, <2>1, <2>2, FreshQueue
<1> QED
  BY <1>1, <1>2, <1>14, Queued

-----------------------------------------------------------------------------
(* The undo stack is undone.                                                *)

\* A revert that gives back the document of an entry leaves a good state.
LEMMA UndoGood ==
  ASSUME Good, NEW kind, Reverts(kind), Reversible(Top),
         doc' = Top.before, Shape(doc', view', created'), SameTexts(doc', view'),
         HasCell(doc', current_cell')
  PROVE  Good'
<1>1. /\ gui_pc = "idle" /\ pending_actions = <<>> /\ evaluating = {} /\ undo_stack # <<>>
      /\ gui_pc' = "idle" /\ pending_actions' = <<>> /\ evaluating' = {}
      /\ undo_stack' = Front(undo_stack) /\ erasing' = erasing /\ ops' = ops
  BY DEF Reverts, Quiet
<1>2. erasing = NoErase
  BY <1>1, Idle
<1>3. undo_stack' \in Seq(Entries) /\ Chain(undo_stack', doc')
  BY <1>1, ChainPopped DEF Good, Top
<1>4. DOMAIN <<>> = {} /\ <<>> \in Seq(Actions)
  OBVIOUS
<1> DEFINE d1   == doc'
           v1   == view'
           cur1 == current_cell'
           n1   == created'
<1>5. Shape(d1, v1, n1) /\ SameTexts(d1, v1) /\ HasCell(d1, cur1)
  OBVIOUS
<1> HIDE DEF d1, v1, cur1, n1
<1>6. QueueFits(<<>>, d1, v1, cur1, "idle", NoErase, {})
  BY <1>4, <1>5 DEF QueueFits, CellsAreThere, OutputsAreThere, RemovalIsLast,
    SplitIsAlone, IdleAgrees, CursorIsThere
<1>7. TextsAgree(<<>>, d1, v1, NoErase)
  BY <1>4, <1>5, TextsSettled
<1> USE DEF d1, v1, cur1, n1
<1>8. ops \in Nat
  BY DEF Good
<1>9. Good'
  BY <1>1, <1>2, <1>3, <1>4, <1>5, <1>6, <1>7, <1>8 DEF Good
<1> QED
  BY <1>9

\* What the revert of an action finds.
LEMMA UndoFinds ==
  ASSUME Good, NEW kind, Reverts(kind), Reversible(Top)
  PROVE  LET c == Top.action.cell
             i == Index(doc, c) IN
         /\ corrupt = "no" /\ Top \in Entries /\ Undoes(Top, doc) /\ Top.action.act = kind
         /\ Top.action \in Actions
         /\ HasCell(doc, c) /\ i \in DOMAIN doc /\ doc[i].addr = c
         /\ HasCell(view, c) /\ Index(view, c) = i /\ i \in DOMAIN view
         /\ c \in Address /\ c \in Widgets(view)
         /\ doc[i].text \in Seq(Char) /\ doc[i].kids \in Seq(OutputCell)
         /\ Shape(doc, view, created) /\ SameTexts(doc, view)
         /\ HasCell(doc, current_cell)
<1>1. undo_stack # <<>> /\ gui_pc = "idle" /\ corrupt = "no" /\ Top.action.act = kind
  BY DEF Reverts
<1>2. Top \in Entries /\ Undoes(Top, doc)
  BY <1>1, ChainPopped DEF Good, Top
<1>3. HasCell(doc, Top.action.cell) /\ Top.action \in Actions
  BY <1>2 DEF Undoes, Entries
<1>4. Shape(doc, view, created) /\ SameTexts(doc, view) /\ HasCell(doc, current_cell)
  BY <1>1, Idle DEF Good
<1> DEFINE c == Top.action.cell
           i == Index(doc, c)
<1>5. /\ HasCell(view, c) /\ Index(view, c) = i
      /\ i \in DOMAIN doc /\ i \in DOMAIN view /\ doc[i].addr = c
      /\ c \in Address /\ c \in Widgets(view)
  BY <1>3, <1>4, SameCells
<1>6. doc[i] \in Cells
  BY <1>4, <1>5 DEF Shape
<1>7. doc[i].text \in Seq(Char) /\ doc[i].kids \in Seq(OutputCell)
  BY <1>6, CellTypes
<1> QED
  BY <1>1, <1>2, <1>3, <1>4, <1>5, <1>7

\* The text of a cell is set in the document and in its buffer.
LEMMA TextSetTwice ==
  ASSUME NEW d, NEW v, NEW n, Shape(d, v, n), SameTexts(d, v), NEW i \in DOMAIN d,
         NEW t \in Seq(Char)
  PROVE  /\ Shape(WithText(d, i, t), WithBuffer(v, i, t), n)
         /\ SameTexts(WithText(d, i, t), WithBuffer(v, i, t))
         /\ \A c : HasCell(WithText(d, i, t), c) <=> HasCell(d, c)
<1>1. /\ Shape(WithText(d, i, t), WithBuffer(v, i, t), n)
      /\ \A c : HasCell(WithText(d, i, t), c) <=> HasCell(d, c)
      /\ DOMAIN WithText(d, i, t) = DOMAIN d
      /\ \A k \in DOMAIN d :
           /\ WithText(d, i, t)[k].text = IF k = i THEN t ELSE d[k].text
           /\ WithBuffer(v, i, t)[k].buffer = IF k = i THEN t ELSE v[k].buffer
  BY TextChanged
<1> QED
  BY <1>1 DEF SameTexts

LEMMA InsertTextUndone ==
  ASSUME Good, InsertText_revert, Reversible(Top)
  PROVE  Good' /\ corrupt' = "no" /\ doc' = Top.before
<1> DEFINE a == Top.action
           c == a.cell
           i == Index(doc, c)
           t == doc[i].text
           p == a.pos
           u == Erased(t, p, p + Len(a.text))
           d1 == WithText(doc, i, u)
           v1 == WithBuffer(view, i, u)
<1>0. Reverts("InsertText")
  BY DEF InsertText_revert
<1>1. /\ corrupt = "no" /\ Undoes(Top, doc) /\ a.act = "InsertText" /\ a \in Actions
      /\ HasCell(doc, c) /\ i \in DOMAIN doc /\ Index(view, c) = i
      /\ t \in Seq(Char) /\ Shape(doc, view, created) /\ SameTexts(doc, view)
      /\ HasCell(doc, current_cell)
  BY <1>0, UndoFinds
<1>2. p <= Len(t) /\ Top.before = d1
  <2> HIDE DEF u
  <2> QED
    BY <1>1 DEF Undoes, u
<1>3. p \in Nat /\ a.text \in Seq(Char) /\ Len(t) \in Nat
  BY <1>1, ActionTypes
<1>4. ~(p > Len(t))
  <2> HIDE DEF t, a
  <2> QED
    BY <1>2, <1>3
<1>5. /\ doc' = [doc EXCEPT ![i].text = u] /\ view' = update_cell(view, c, u)
      /\ current_cell' = current_cell /\ created' = created /\ corrupt' = corrupt
  <2> HIDE DEF a
  <2> QED
    BY <1>1, <1>4 DEF InsertText_revert, a
<1>6. doc' = d1 /\ view' = v1
  <2> HIDE DEF u, c
  <2> QED
    BY <1>1, <1>5 DEF update_cell, WithText, WithBuffer
<1>7. u \in Seq(Char)
  <2>1. u = SubSeq(t, 1, p) \o SubSeq(t, p + Len(a.text) + 1, Len(t))
    BY DEF Erased
  <2>2. SubSeq(t, 1, p) \in Seq(Char) /\ SubSeq(t, p + Len(a.text) + 1, Len(t)) \in Seq(Char)
    <3>1. Len(a.text) \in Nat
      BY <1>3
    <3> HIDE DEF t, a, p
    <3> QED
      BY <1>1, <1>2, <1>3, <3>1
  <2> HIDE DEF u, t, p, a
  <2> QED
    BY <2>1, <2>2
<1> HIDE DEF u, i, t
<1>8. /\ Shape(d1, v1, created) /\ SameTexts(d1, v1)
      /\ \A x : HasCell(d1, x) <=> HasCell(doc, x)
  BY <1>1, <1>7, TextSetTwice
<1> HIDE DEF d1, v1
<1>9. Good'
  BY <1>0, <1>1, <1>2, <1>5, <1>6, <1>8, UndoGood
<1> QED
  BY <1>1, <1>2, <1>5, <1>6, <1>9

LEMMA EraseTextUndone ==
  ASSUME Good, EraseText_revert, Reversible(Top)
  PROVE  Good' /\ corrupt' = "no" /\ doc' = Top.before
<1> DEFINE a == Top.action
           c == a.cell
           i == Index(doc, c)
           t == doc[i].text
           p == a.from
           s == Top.removed
           u == Inserted(t, p, s)
           d1 == WithText(doc, i, u)
           v1 == WithBuffer(view, i, u)
<1>0. Reverts("EraseText")
  BY DEF EraseText_revert
<1>1. /\ corrupt = "no" /\ Undoes(Top, doc) /\ a.act = "EraseText" /\ a \in Actions
      /\ HasCell(doc, c) /\ i \in DOMAIN doc /\ Index(view, c) = i
      /\ t \in Seq(Char) /\ Shape(doc, view, created) /\ SameTexts(doc, view)
      /\ HasCell(doc, current_cell) /\ c \in Widgets(view) /\ Top \in Entries
  BY <1>0, UndoFinds
<1>2. p <= Len(t) /\ Top.before = d1
  <2> HIDE DEF u
  <2> QED
    BY <1>1 DEF Undoes, u
<1>3. p \in Nat /\ Len(t) \in Nat
  BY <1>1, ActionTypes
<1>4. ~(p > Len(t))
  <2> HIDE DEF t, a
  <2> QED
    BY <1>2, <1>3
<1>5. /\ doc' = [doc EXCEPT ![i].text = u] /\ view' = update_cell(view, c, u)
      /\ position_cursor(view, c) /\ created' = created /\ corrupt' = corrupt
  <2> HIDE DEF a
  <2> QED
    BY <1>1, <1>4 DEF EraseText_revert, a
<1>6. doc' = d1 /\ view' = v1 /\ current_cell' = c
  <2> HIDE DEF u, c
  <2> QED
    BY <1>1, <1>5 DEF update_cell, WithText, WithBuffer, position_cursor
<1>7. d1 \in Seq(Cells)
  <2>1. Top.before \in Seq(Cells)
    BY <1>1 DEF Entries
  <2> QED
    BY <1>2, <2>1
<1>8. u \in Seq(Char)
  <2> HIDE DEF u, i
  <2>1. /\ DOMAIN d1 = DOMAIN doc /\ d1[i].text = u
    <3>1. doc \in Seq(Cells)
      BY <1>1 DEF Shape
    <3>2. doc[i] \in Cells
      BY <1>1, <3>1
    <3> QED
      BY <1>1, <3>1, <3>2 DEF WithText, Cells
  <2>2. d1[i] \in Cells
    BY <1>1, <1>7, <2>1
  <2> QED
    BY <2>1, <2>2 DEF Cells
<1> HIDE DEF u, i, t, c
<1>9. /\ Shape(d1, v1, created) /\ SameTexts(d1, v1)
      /\ \A x : HasCell(d1, x) <=> HasCell(doc, x)
  BY <1>1, <1>8, TextSetTwice
<1> HIDE DEF d1, v1
<1>10. Good'
  BY <1>0, <1>1, <1>2, <1>5, <1>6, <1>9, UndoGood
<1> QED
  BY <1>1, <1>2, <1>5, <1>6, <1>10

LEMMA AddCellUndone ==
  ASSUME Good, AddCell_revert, Reversible(Top)
  PROVE  Good' /\ corrupt' = "no" /\ doc' = Top.before
<1> DEFINE c  == Top.action.cell
           i  == Index(doc, c)
           k  == doc[i].kids
           w  == view[i].kids
           j  == Top.index + 1
           o  == k[j].addr
           ks == RemoveAt(k, j)
           ws == RemoveAt(w, j)
           d1 == WithKids(doc, i, ks)
           v1 == WithKids(view, i, ws)
<1>0. Reverts("AddCell")
  BY DEF AddCell_revert
<1>1. /\ corrupt = "no" /\ Undoes(Top, doc) /\ Top.action.act = "AddCell"
      /\ HasCell(doc, c) /\ i \in DOMAIN doc /\ Index(view, c) = i /\ i \in DOMAIN view
      /\ k \in Seq(OutputCell) /\ Shape(doc, view, created) /\ SameTexts(doc, view)
      /\ HasCell(doc, current_cell)
  BY <1>0, UndoFinds
<1>2. j \in DOMAIN k /\ Top.before = d1
  BY <1>1 DEF Undoes
<1>3. created \in Nat /\ w \in Seq(Address) /\ Twins(k, w, created)
  <2>1. view[i] \in Boxes /\ Twins(k, w, created) /\ created \in Nat
    BY <1>1 DEF Shape
  <2> QED
    BY <2>1 DEF Boxes
<1> HIDE DEF k, w, j
<1>4. /\ DOMAIN w = DOMAIN k /\ w[j] = o
      /\ \A l \in DOMAIN w : w[l] = o => l = j
  BY <1>1, <1>2, <1>3 DEF Twins
<1>5. o \in Widgets(view)
  <2>1. o \in ToSet(w)
    BY <1>2, <1>4 DEF ToSet
  <2> HIDE DEF o
  <2> QED
    BY <1>1, <2>1 DEF Widgets, w
<1>6. ~(j > Len(k))
  BY <1>1, <1>2
<1>7. /\ doc' = [doc EXCEPT ![i].kids = RemoveAt(@, j)]
      /\ view' = remove_output(view, c, o)
      /\ current_cell' = current_cell /\ created' = created /\ corrupt' = corrupt
  BY <1>1, <1>5, <1>6 DEF AddCell_revert, j, k
<1>8. doc' = d1 /\ view' = v1
  <2>1. doc' = d1
    BY <1>7 DEF WithKids, k
  <2>2. (CHOOSE l \in DOMAIN w : w[l] = o) = j
    BY <1>2, <1>4
  <2>3. view' = v1
    <3> HIDE DEF o, c
    <3> QED
      BY <1>1, <1>7, <2>2 DEF remove_output, WithKids, w
  <2> QED
    BY <2>1, <2>3
<1>9. ks \in Seq(OutputCell) /\ ws \in Seq(Address) /\ Twins(ks, ws, created)
  BY <1>1, <1>2, <1>3, KidRemoved
<1> HIDE DEF ks, ws, d1, v1, i
<1>10. /\ Shape(d1, v1, created) /\ SameTexts(d1, v1)
       /\ \A x : HasCell(d1, x) <=> HasCell(doc, x)
  <2>1. created <= created
    BY <1>3
  <2>2. /\ Shape(d1, v1, created)
        /\ \A x : HasCell(d1, x) <=> HasCell(doc, x)
        /\ DOMAIN d1 = DOMAIN doc
        /\ \A l \in DOMAIN doc : /\ d1[l].text = doc[l].text
                                 /\ v1[l].buffer = view[l].buffer
    BY <1>1, <1>3, <1>9, <2>1, KidsChanged DEF d1, v1
  <2> QED
    BY <1>1, <2>2 DEF SameTexts
<1>11. Good'
  BY <1>0, <1>1, <1>2, <1>7, <1>8, <1>10, UndoGood
<1> QED
  BY <1>1, <1>2, <1>7, <1>8, <1>11

LEMMA PositionUndone ==
  ASSUME Good, PositionCursor_revert, Reversible(Top)
  PROVE  Good' /\ corrupt' = "no" /\ doc' = Top.before
<1> DEFINE c   == Top.action.cell
           new == Top.newref
           i   == Index(doc, new)
<1>0. Reverts("PositionCursor")
  BY DEF PositionCursor_revert
<1>1. /\ corrupt = "no" /\ Undoes(Top, doc) /\ Top.action.act = "PositionCursor"
      /\ HasCell(doc, c) /\ c \in Widgets(view)
      /\ Shape(doc, view, created) /\ SameTexts(doc, view)
  BY <1>0, UndoFinds
<1>2. CASE new = NoCell
  <2>1. Top.before = doc
    BY <1>1, <1>2 DEF Undoes
  <2>2. /\ doc' = doc /\ view' = view /\ created' = created /\ corrupt' = corrupt
        /\ position_cursor(view', c)
    BY <1>1, <1>2 DEF PositionCursor_revert
  <2>3. current_cell' = c
    BY <1>1, <2>2 DEF position_cursor
  <2>4. Good'
    BY <1>0, <1>1, <2>1, <2>2, <2>3, UndoGood
  <2> QED
    BY <1>1, <2>1, <2>2, <2>4
<1>3. CASE new # NoCell
  <2> DEFINE d1 == RemoveAt(doc, i)
             v1 == RemoveAt(view, i)
  <2>1. HasCell(doc, new) /\ new # c /\ Top.before = d1
    BY <1>1, <1>3 DEF Undoes
  <2>2. /\ HasCell(view, new) /\ Index(view, new) = i /\ i \in DOMAIN doc
        /\ doc[i].addr = new
    BY <1>1, <2>1, SameCells
  <2>3. /\ doc' = d1 /\ view' = v1 /\ created' = created /\ corrupt' = corrupt
        /\ position_cursor(view', c)
    BY <1>1, <1>3, <2>1, <2>2 DEF PositionCursor_revert
  <2> HIDE DEF d1, v1
  <2>4. /\ Shape(d1, v1, created)
        /\ \A k \in DOMAIN d1 : \E l \in DOMAIN doc : d1[k] = doc[l] /\ v1[k] = view[l]
        /\ HasCell(d1, c)
    <3> HIDE DEF i
    <3>1. /\ Shape(d1, v1, created)
          /\ \A k \in DOMAIN d1 :
               \E l \in DOMAIN doc : l # i /\ d1[k] = doc[l] /\ v1[k] = view[l]
          /\ \A x : HasCell(d1, x) <=> HasCell(doc, x) /\ x # doc[i].addr
      BY <1>1, <2>2, CellRemoved DEF d1, v1
    <3> QED
      BY <1>1, <2>1, <2>2, <3>1
  <2>5. SameTexts(d1, v1)
    BY <1>1, <2>4 DEF SameTexts
  <2>6. current_cell' = c
    <3>1. c \in Widgets(v1)
      BY <2>4, SameCells
    <3> QED
      BY <2>3, <3>1 DEF position_cursor
  <2>7. Good'
    BY <1>0, <2>1, <2>3, <2>4, <2>5, <2>6, UndoGood
  <2> QED
    BY <1>1, <2>1, <2>3, <2>7
<1> QED
  BY <1>2, <1>3

-----------------------------------------------------------------------------
(* The invariant.                                                           *)

\* The new document of Init, with its cursor still to be placed.
LEMMA InitGood ==
  ASSUME Init, 1 \in Address
  PROVE  Good
<1> DEFINE x == Input(1, <<>>)
           y == InputWidget(1, <<>>)
           a == [act |-> "PositionCursor", cell |-> 1, pos |-> "in"]
<1>1. /\ doc = <<x>> /\ view = <<y>> /\ created = 1 /\ pending_actions = <<a>>
      /\ undo_stack = <<>> /\ gui_pc = "processing" /\ erasing = NoErase
      /\ evaluating = {} /\ ops = 0
  BY DEF Init
<1>2. <<>> \in Seq(Char) /\ <<>> \in Seq(OutputCell) /\ <<>> \in Seq(Address)
  OBVIOUS
<1>3. /\ x \in Cells /\ x.addr = 1 /\ x.text = <<>> /\ x.kids = <<>>
      /\ y \in Boxes /\ y.addr = 1 /\ y.buffer = <<>> /\ y.kids = <<>>
  BY <1>2 DEF Input, InputWidget, Cells, Boxes
<1>4. a \in Actions /\ a.act = "PositionCursor" /\ a.pos = "in" /\ a.cell = 1
  <2>1. a \in Positions
    BY DEF Positions, Places
  <2> QED
    BY <2>1 DEF Actions
<1> HIDE DEF x, y, a
<1>5. /\ doc \in Seq(Cells) /\ view \in Seq(Boxes) /\ Len(doc) = 1 /\ Len(view) = 1
      /\ DOMAIN doc = {1} /\ doc[1] = x /\ view[1] = y
  BY <1>1, <1>3
<1>6. Twins(<<>>, <<>>, 1)
  BY DEF Twins
<1>7. Shape(doc, view, created)
  BY <1>1, <1>3, <1>5, <1>6 DEF Shape
<1>8. SameTexts(doc, view)
  BY <1>3, <1>5 DEF SameTexts
<1>9. /\ pending_actions \in Seq(Actions) /\ DOMAIN pending_actions = {1}
      /\ Len(pending_actions) = 1 /\ pending_actions[1] = a
  BY <1>1, <1>4
<1>10. HasCell(doc, 1)
  BY <1>3, <1>5 DEF HasCell
<1>11. QueueFits(pending_actions, doc, view, current_cell, gui_pc, erasing, evaluating)
  BY <1>1, <1>4, <1>9, <1>10 DEF QueueFits, CellsAreThere, OutputsAreThere, RemovalIsLast,
    SplitIsAlone, IdleAgrees, CursorIsThere
<1>12. TextsAgree(pending_actions, doc, view, erasing)
  <2>1. \A m \in DOMAIN pending_actions : ~IsText(pending_actions[m])
    BY <1>4, <1>9 DEF IsText
  <2>2. TextsAgree(pending_actions, doc, view, NoErase)
    BY <1>7, <1>8, <1>9, <2>1, TextsSettled
  <2> QED
    BY <1>1, <2>2
<1>13. undo_stack \in Seq(Entries) /\ Chain(undo_stack, doc)
  BY <1>1 DEF Chain
<1> QED
  BY <1>1, <1>7, <1>9, <1>11, <1>12, <1>13 DEF Good

-----------------------------------------------------------------------------
(* Steps and theorems.                                                      *)

LEMMA InitInv ==
  ASSUME Init
  PROVE  DocInv
<1>1. 1 \in Address
  BY DocumentBounds DEF Address
<1>2. Good
  BY <1>1, InitGood
<1> QED
  BY <1>2 DEF DocInv, Init

\* Only the history variable and the undo counter tell an undo step from others,
\* and nothing happens after an error.
LEMMA UserFrame ==
  ASSUME User
  PROVE  corrupt = "no" /\ undos' = undos /\ clean' = clean
<1>1. ASSUME NEW r, UserQueues(r)
      PROVE  corrupt = "no" /\ undos' = undos /\ clean' = clean
  BY ONLY <1>1 DEF UserQueues
<1>2. ASSUME NEW i \in DOMAIN view, NEW p \in 0..MaxText, NEW q \in 0..MaxText,
             NEW ch \in Char, cell_content_insert(i, p, ch) \/ cell_content_erase(i, p, q)
      PROVE  \E r : UserQueues(r)
  BY ONLY <1>2 DEF cell_content_insert, cell_content_erase
<1>3. CASE on_edit_insert_above \/ on_edit_insert_below \/ on_edit_delete \/ on_edit_split
  <2>1. \E r : UserQueues(r)
    BY ONLY <1>3 DEF on_edit_insert_above, on_edit_insert_below, on_edit_insert,
      on_edit_delete, on_edit_split
  <2> QED
    BY ONLY <2>1, <1>1
<1>4. ASSUME NEW where \in {"next", "previous"}, on_key_press_event(where)
      PROVE  \E r : UserQueues(r)
  BY ONLY <1>4 DEF on_key_press_event
<1>5. ASSUME NEW i \in DOMAIN doc, cell_content_execute(i)
      PROVE  \E r : UserQueues(r)
  BY ONLY <1>5 DEF cell_content_execute
<1> QED
  BY <1>1, <1>2, <1>3, <1>4, <1>5 DEF User

LEMMA ExecuteFrame ==
  ASSUME Execute
  PROVE  corrupt = "no" /\ undos' = undos /\ clean' = clean
<1>1. corrupt = "no"
  BY DEF Execute, Executes, InsertText_execute, EraseText_execute, AddCell_execute,
    PositionCursor_execute, RemoveCell_execute, RemoveOutput_execute, SplitCell_execute,
    SetRunStatus_execute
<1>2. CASE InsertText_execute
  BY <1>1, <1>2, Zenon DEF InsertText_execute, Crash, Executed, userVars
<1>3. CASE EraseText_execute
  BY <1>1, <1>3, Zenon DEF EraseText_execute, Crash, Executed, userVars
<1>4. CASE AddCell_execute
  BY <1>1, <1>4, Zenon DEF AddCell_execute, Crash, Executed, userVars
<1>5. CASE PositionCursor_execute
  BY <1>1, <1>5, Zenon DEF PositionCursor_execute, Crash, Executed, userVars
<1>6. CASE RemoveCell_execute
  BY <1>1, <1>6, Zenon DEF RemoveCell_execute, Crash, Executed, userVars
<1>7. CASE RemoveOutput_execute
  BY <1>1, <1>7, Zenon DEF RemoveOutput_execute, Crash, Executed, userVars
<1>8. CASE SplitCell_execute
  BY <1>1, <1>8, Zenon DEF SplitCell_execute, Crash, Executed, userVars
<1>9. CASE SetRunStatus_execute
  BY <1>1, <1>9, Zenon DEF SetRunStatus_execute, Crash, Executed, userVars
<1> QED
  BY <1>1, <1>2, <1>3, <1>4, <1>5, <1>6, <1>7, <1>8, <1>9 DEF Execute

LEMMA UndoFrame ==
  ASSUME undo
  PROVE  corrupt = "no" /\ clean' = (clean /\ Reversible(Top))
<1>1. PICK kind : Reverts(kind)
  BY DEF undo, InsertText_revert, EraseText_revert, AddCell_revert,
    PositionCursor_revert, RemoveCell_revert, RemoveOutput_revert, SplitCell_revert
<1> QED
  BY <1>1 DEF Reverts

LEMMA UserGood ==
  ASSUME Good, User
  PROVE  Good' /\ corrupt' = "no"
<1>1. CASE \E i \in DOMAIN view : \E p, q \in 0..MaxText : \E ch \in Char :
             cell_content_insert(i, p, ch) \/ cell_content_erase(i, p, q)
  BY <1>1, ContentInsertGood, ContentEraseGood
<1>2. CASE on_edit_insert_above
  BY <1>2, EditInsertGood DEF on_edit_insert_above
<1>3. CASE on_edit_insert_below
  BY <1>3, EditInsertGood DEF on_edit_insert_below
<1>4. CASE on_edit_delete
  BY <1>4, EditDeleteGood
<1>5. CASE on_edit_split
  BY <1>5, EditSplitGood
<1>6. CASE \E where \in {"next", "previous"} : on_key_press_event(where)
  BY <1>6, KeyPressGood
<1>7. CASE \E i \in DOMAIN doc : cell_content_execute(i)
  BY <1>7, ContentExecuteGood
<1> QED
  BY <1>1, <1>2, <1>3, <1>4, <1>5, <1>6, <1>7 DEF User

LEMMA ExecuteGood ==
  ASSUME Good, Execute
  PROVE  \/ Good' /\ corrupt' = "no"
         \/ corrupt' = "invalid text iterator"
<1>0. corrupt = "no"
  BY ExecuteFrame
<1>1. CASE InsertText_execute
  BY <1>0, <1>1, InsertTextGood
<1>2. CASE EraseText_execute
  BY <1>0, <1>2, EraseTextGood
<1>3. CASE AddCell_execute
  BY <1>0, <1>3, AddOutputGood, AddInputGood
<1>4. CASE PositionCursor_execute
  BY <1>0, <1>4, PositionNewGood, PositionGood
<1>5. CASE RemoveCell_execute
  BY <1>0, <1>5, RemoveCellGood
<1>6. CASE RemoveOutput_execute
  BY <1>0, <1>6, RemoveOutputGood
<1>7. CASE SplitCell_execute
  BY <1>0, <1>7, SplitCellGood
<1>8. CASE SetRunStatus_execute
  BY <1>0, <1>8, SetRunStatusGood
<1> QED
  BY <1>1, <1>2, <1>3, <1>4, <1>5, <1>6, <1>7, <1>8 DEF Execute

\* An undo step that the action can undo gives back the document.
LEMMA UndoRestores ==
  ASSUME Good, undo, Reversible(Top)
  PROVE  Good' /\ corrupt' = "no" /\ doc' = Top.before
<1>1. ASSUME NEW kind, Reverts(kind)
      PROVE  kind \notin {"RemoveCell", "RemoveOutput", "SplitCell"}
  BY <1>1 DEF Reverts, Reversible
<1>2. ~RemoveCell_revert /\ ~RemoveOutput_revert /\ ~SplitCell_revert
  BY <1>1 DEF RemoveCell_revert, RemoveOutput_revert, SplitCell_revert
<1>3. CASE InsertText_revert
  BY <1>3, InsertTextUndone
<1>4. CASE EraseText_revert
  BY <1>4, EraseTextUndone
<1>5. CASE AddCell_revert
  BY <1>5, AddCellUndone
<1>6. CASE PositionCursor_revert
  BY <1>6, PositionUndone
<1> QED
  BY <1>2, <1>3, <1>4, <1>5, <1>6 DEF undo

LEMMA StutterInv ==
  ASSUME DocInv, UNCHANGED vars
  PROVE  DocInv'
<1>1. /\ doc' = doc /\ view' = view /\ created' = created /\ current_cell' = current_cell
      /\ pending_actions' = pending_actions /\ undo_stack' = undo_stack
      /\ gui_pc' = gui_pc /\ erasing' = erasing /\ evaluating' = evaluating
      /\ ops' = ops /\ corrupt' = corrupt /\ clean' = clean
  BY DEF vars, docVars, userVars
<1> QED
  BY <1>1 DEF DocInv, Good

LEMMA NextInv ==
  ASSUME DocInv, Next
  PROVE  DocInv'
<1>1. ASSUME clean, corrupt = "no"
      PROVE  Good
  BY <1>1 DEF DocInv
<1>2. ASSUME \/ Good' /\ corrupt' = "no"
             \/ corrupt' = "invalid text iterator"
      PROVE  DocInv'
  BY <1>2 DEF DocInv
<1>3. ASSUME ~clean'
      PROVE  DocInv'
  BY <1>3 DEF DocInv
<1>4. CASE User
  BY <1>1, <1>2, <1>3, <1>4, UserFrame, UserGood
<1>5. CASE undo
  <2>1. CASE clean /\ Reversible(Top)
    BY <1>1, <1>2, <1>5, <2>1, UndoFrame, UndoRestores
  <2>2. CASE ~(clean /\ Reversible(Top))
    BY <1>3, <1>5, <2>2, UndoFrame
  <2> QED
    BY <2>1, <2>2
<1>6. CASE Execute
  BY <1>1, <1>2, <1>3, <1>6, ExecuteFrame, ExecuteGood
<1>7. CASE process_todo_queue
  <2>1. corrupt = "no" /\ clean' = clean
    BY <1>7 DEF process_todo_queue, userVars
  <2> QED
    BY <1>1, <1>2, <1>3, <1>7, <2>1, ProcessTodoGood
<1>8. CASE process_action_queue_ends
  <2>1. corrupt = "no" /\ clean' = clean
    BY <1>8 DEF process_action_queue_ends, userVars
  <2> QED
    BY <1>1, <1>2, <1>3, <1>8, <2>1, QueueEndsGood
<1>9. CASE \E c \in evaluating : on_message(c)
  <2>1. corrupt = "no" /\ clean' = clean
    BY <1>9 DEF on_message, userVars
  <2> QED
    BY <1>1, <1>2, <1>3, <1>9, <2>1, MessageGood
<1> QED
  BY <1>4, <1>5, <1>6, <1>7, <1>8, <1>9 DEF Next

(* The queue of actions, the widgets, the cursor and the undo stack always  *)
(* fit the document, until an action is undone that cannot be, or an        *)
(* erasure loses its iterators.                                             *)
THEOREM DocumentInvariant == Spec => []DocInv
<1>1. DocInv /\ [Next]_vars => DocInv'
  BY StutterInv, NextInv
<1> QED
  BY InitInv, <1>1, PTL DEF Spec

(* Once the queue is executed, NotebookWindow has exactly the widgets of    *)
(* the document's cells and outputs, in their order and under their parent. *)
THEOREM WidgetsMirrorDocument == Spec => []VisualMirrorsDocument
<1>1. ASSUME DocInv
      PROVE  VisualMirrorsDocument
  <2>1. SUFFICES ASSUME UpToDate, clean
                 PROVE  /\ [i \in DOMAIN view |-> view[i].addr]
                             = [i \in DOMAIN doc |-> doc[i].addr]
                        /\ \A i \in DOMAIN doc :
                             view[i].kids = [j \in DOMAIN doc[i].kids |->
                                               doc[i].kids[j].addr]
    BY DEF VisualMirrorsDocument
  <2>2. Shape(doc, view, created)
    BY <1>1, <2>1 DEF DocInv, UpToDate, Good
  <2>3. DOMAIN view = DOMAIN doc /\ \A i \in DOMAIN doc : view[i].addr = doc[i].addr
    BY <2>2 DEF Shape
  <2>4. ASSUME NEW i \in DOMAIN doc
        PROVE  view[i].kids = [j \in DOMAIN doc[i].kids |-> doc[i].kids[j].addr]
    <3> DEFINE k == doc[i].kids
               w == view[i].kids
    <3>1. k \in Seq(OutputCell) /\ w \in Seq(Address) /\ Twins(k, w, created)
      <4>1. doc[i] \in Cells /\ view[i] \in Boxes /\ Twins(k, w, created)
        BY <2>2, <2>3 DEF Shape
      <4> QED
        BY <4>1 DEF Cells, Boxes
    <3> HIDE DEF k, w
    <3>2. DOMAIN w = DOMAIN k /\ \A j \in DOMAIN k : w[j] = k[j].addr
      BY <3>1 DEF Twins
    <3>3. w = [j \in DOMAIN w |-> w[j]]
      BY <3>1
    <3>4. w = [j \in DOMAIN k |-> k[j].addr]
      BY <3>2, <3>3
    <3> QED
      BY <3>4 DEF k, w
  <2> QED
    BY <2>3, <2>4
<1> QED
  BY <1>1, DocumentInvariant, PTL

(* Once the queue is executed, the buffer of each CodeInput holds the text  *)
(* that would be run, whatever was typed while results came in.             *)
THEOREM BuffersMirrorTexts == Spec => []BufferMirrorsText
<1>1. ASSUME DocInv
      PROVE  BufferMirrorsText
  <2>1. SUFFICES ASSUME UpToDate, clean, NEW i \in DOMAIN view
                 PROVE  view[i].buffer = doc[i].text
    BY DEF BufferMirrorsText
  <2>2. Good /\ gui_pc = "idle"
    BY <1>1, <2>1 DEF DocInv, UpToDate
  <2>3. SameTexts(doc, view)
    BY <2>2, Idle
  <2>4. DOMAIN view = DOMAIN doc
    BY <2>2 DEF Good, Shape
  <2> QED
    BY <2>1, <2>3, <2>4 DEF SameTexts
<1> QED
  BY <1>1, DocumentInvariant, PTL

(* No action of the queue and no revert follows an iterator to an erased    *)
(* node or a position outside the text, up to the first undo of a removal,  *)
(* a split or an added input cell.                                          *)
THEOREM IteratorsStayValid == Spec => []NoStaleIterator
<1>1. DocInv => NoStaleIterator
  BY DEF DocInv, NoStaleIterator
<1> QED
  BY <1>1, DocumentInvariant, PTL

(* DocumentThread::undo of text, a cursor move or an output gives back the  *)
(* document as it was before that action, node for node.                    *)
THEOREM UndoGivesBack == Spec => UndoRestoresTheDocument
<1>1. ASSUME DocInv, [Next]_vars
      PROVE  [undos' # undos /\ clean' => doc' = Top.before]_vars
  <2>1. SUFFICES ASSUME Next, undos' # undos, clean'
                 PROVE  doc' = Top.before
    BY <1>1
  <2>2. undo
    <3>1. ~User /\ ~Execute
      BY <2>1, UserFrame, ExecuteFrame
    <3>2. /\ ~process_todo_queue /\ ~process_action_queue_ends
          /\ ~\E c \in evaluating : on_message(c)
      BY <2>1 DEF process_todo_queue, process_action_queue_ends, on_message, userVars
    <3> QED
      BY <2>1, <3>1, <3>2 DEF Next
  <2>3. corrupt = "no" /\ clean /\ Reversible(Top)
    BY <2>1, <2>2, UndoFrame
  <2>4. Good
    BY <1>1, <2>3 DEF DocInv
  <2> QED
    BY <2>2, <2>3, <2>4, UndoRestores
<1>2. DocInv /\ [Next]_vars => [undos' # undos /\ clean' => doc' = Top.before]_vars
  BY <1>1
<1> QED
  BY <1>2, DocumentInvariant, PTL DEF Spec, UndoRestoresTheDocument

=============================================================================
