---------------------------- MODULE KernelProofs ----------------------------
(***************************************************************************)
(* Proofs about the store of properties, for all declarations and          *)
(* patterns, and about the kernel driven by the blocks of a notebook.      *)
(***************************************************************************)
EXTENDS Kernel, FiniteSetTheorems, TLAPS

\* While an Indices property is being attached, no other object in use has its
\* name.
OneIndexSetWithCurrent ==
  todo # <<>> /\ objects[current].type = IndicesType =>
    \A f \in pats :
      /\ objects[f.property].type = IndicesType
      /\ objects[f.property].label = objects[current].label
      => f.property = current

\* The inductive invariant of the store.
StoreInv ==
  /\ TypeOK /\ MapsAgree /\ NoDanglingProperty
  /\ OneIndexSetPerName /\ OneIndexSetWithCurrent

-----------------------------------------------------------------------------
\* A set of naturals that is not empty has a least element: the intervals from
\* zero to its elements are well-founded under inclusion.
LEMMA LeastNatural ==
  ASSUME NEW S \in SUBSET Nat, S # {}
  PROVE  \E n \in S : \A m \in S : n <= m
<1> DEFINE T == {0..n : n \in S}
           R == StrictSubsetOrdering(Nat)
<1>1. T \subseteq FiniteSubsetsOf(Nat) /\ T # {}
  <2>1. ASSUME NEW n \in S
        PROVE  0..n \in FiniteSubsetsOf(Nat)
    <3>1. IsFiniteSet(0..n)
      BY FS_Interval
    <3> QED
      BY <3>1 DEF FiniteSubsetsOf
  <2> QED
    BY <2>1
<1>2. PICK t \in T : \A u \in T : <<u, t>> \notin R
  <2>1. IsWellFoundedOn(R, FiniteSubsetsOf(Nat))
    BY FS_StrictSubsetOrderingWellFounded
  <2> HIDE DEF T, R
  <2> QED
    BY <1>1, <2>1, WFMin
<1>3. PICK n \in S : t = 0..n
  OBVIOUS
<1>4. ASSUME NEW m \in S, m < n
      PROVE  FALSE
  <2>1. 0..m \in T /\ 0..m \subseteq 0..n /\ 0..m # 0..n /\ 0..n \in SUBSET Nat
    BY <1>4
  <2> QED
    BY <1>2, <1>3, <2>1 DEF StrictSubsetOrdering
<1> QED
  BY <1>4

\* A lookup that takes the first of some entries takes one of them.
LEMMA FirstIsOne ==
  ASSUME TypeOK, NEW S \in SUBSET props, S # {}
  PROVE  First(S) \in S
<1> DEFINE N == {e.pattern : e \in S}
<1>1. N \in SUBSET Nat /\ N # {}
  BY DEF TypeOK, Entry
<1>2. PICK n \in N : \A m \in N : n <= m
  BY <1>1, LeastNatural
<1>3. \E e \in S : \A f \in S : e.pattern <= f.pattern
  BY <1>2
<1> QED
  BY <1>3 DEF First

\* Attaching one pattern: what a step makes of the patterns, and its entry.
LEMMA NewEntryTyped ==
  ASSUME TypeOK, todo # <<>>,
         patterns' = Append(patterns, Head(todo)), objects' = objects
  PROVE  /\ Entry \subseteq Entry' /\ NewEntry \in Entry'
         /\ patterns' \in Seq(Pattern) /\ Tail(todo) \in Seq(Pattern)
<1>1. Head(todo) \in Pattern /\ Tail(todo) \in Seq(Pattern)
  BY DEF TypeOK
<1>2. /\ patterns' \in Seq(Pattern) /\ Len(patterns') = Len(patterns) + 1
      /\ DOMAIN patterns' = 1..(Len(patterns) + 1)
      /\ DOMAIN patterns = 1..Len(patterns) /\ Len(patterns) \in Nat
  BY <1>1 DEF TypeOK
<1>3. current \in DOMAIN objects
  BY DEF TypeOK
<1> QED
  BY <1>1, <1>2, <1>3 DEF Entry, NewEntry

\* Making one object more.
LEMMA NewObjectTyped ==
  ASSUME TypeOK, NEW p \in Property, objects' = Append(objects, p),
         patterns' = patterns
  PROVE  /\ Entry \subseteq Entry' /\ objects' \in Seq(Property)
         /\ DOMAIN objects = 1..Len(objects) /\ Len(objects) \in Nat
         /\ DOMAIN objects' = 1..(Len(objects) + 1)
         /\ Len(objects') = Len(objects) + 1
         /\ \A n \in DOMAIN objects : objects'[n] = objects[n]
         /\ objects'[Len(objects) + 1] = p
  BY DEF TypeOK, Entry

-----------------------------------------------------------------------------
\* Initially there is nothing.
LEMMA InitStoreInv == Init => StoreInv
  BY DEF Init, StoreInv, TypeOK, MapsAgree, NoDanglingProperty,
         OneIndexSetPerName, OneIndexSetWithCurrent, Entry

\* The beginning of a declaration.
LEMMA DeclareStoreInv ==
  ASSUME StoreInv, NEW d \in Declaration, Declare(d)
  PROVE  StoreInv'
<1> USE PropertiesAssumptions
<1> DEFINE new == Len(objects) + 1
<1>0. d.property \in Property /\ d.patterns \in Seq(Pattern) /\ d.patterns # <<>>
  OBVIOUS
<1>1. /\ TypeOK /\ MapsAgree /\ NoDanglingProperty /\ OneIndexSetPerName
      /\ todo = <<>> /\ objects' = Append(objects, d.property)
      /\ patterns' = patterns
  BY DEF StoreInv, Declare, DeclareNormal, Refuse, DeclareList
<1>2. /\ Entry \subseteq Entry' /\ objects' \in Seq(Property)
      /\ DOMAIN objects = 1..Len(objects) /\ Len(objects) \in Nat
      /\ DOMAIN objects' = 1..new /\ Len(objects') = new
      /\ \A n \in DOMAIN objects : objects'[n] = objects[n]
      /\ objects'[new] = d.property
  BY <1>0, <1>1, NewObjectTyped
<1>3. props \subseteq Entry /\ freed \subseteq DOMAIN objects /\ new \notin freed
  BY <1>1, <1>2 DEF TypeOK
<1>4. \A e \in props : e.property \in DOMAIN objects
  BY <1>3 DEF Entry
<1>5. CASE DeclareNormal(d)
  <2>1. TypeOK'
    BY <1>0, <1>1, <1>2, <1>3, <1>5 DEF TypeOK, DeclareNormal
  <2>2. MapsAgree' /\ NoDanglingProperty'
    BY <1>1, <1>3, <1>5 DEF MapsAgree, NoDanglingProperty, DeclareNormal
  <2>3. OneIndexSetPerName'
    BY <1>1, <1>2, <1>4, <1>5 DEF MapsAgree, OneIndexSetPerName, DeclareNormal
  <2>4. OneIndexSetWithCurrent'
    BY <1>2, <1>5 DEF OneIndexSetWithCurrent, DeclareNormal
  <2> QED
    BY <2>1, <2>2, <2>3, <2>4 DEF StoreInv
<1>6. CASE Refuse(d)
  <2>1. TypeOK'
    BY <1>1, <1>2, <1>3, <1>6 DEF TypeOK, Refuse
  <2>2. MapsAgree' /\ NoDanglingProperty' /\ OneIndexSetWithCurrent'
    BY <1>1, <1>6 DEF MapsAgree, NoDanglingProperty, Refuse, OneIndexSetWithCurrent
  <2>3. OneIndexSetPerName'
    BY <1>1, <1>2, <1>4, <1>6 DEF MapsAgree, OneIndexSetPerName, Refuse
  <2> QED
    BY <2>1, <2>2, <2>3 DEF StoreInv
<1>7. CASE DeclareList(d)
  <2>1. pats' \subseteq pats /\ props' = pats' /\ freed' = freed
    BY <1>1, <1>7 DEF DeclareList, MapsAgree
  <2>0. todo' \in Seq(Pattern) /\ todo' # <<>>
    <3>1. d.patterns \o d.patterns \in Seq(Pattern) /\ d.patterns \o d.patterns # <<>>
      BY <1>0
    <3> QED
      BY <1>0, <1>7, <3>1 DEF DeclareList
  <2>2. CASE Exact(d.property) # {}
    <3>1. current' \in Exact(d.property)
      BY <1>7, <2>2 DEF DeclareList
    <3>2. PICK x \in pats : /\ ExactMatch(objects[x.property], d.property)
                            /\ current' = x.property
      BY <3>1 DEF Exact
    <3>3. current' \in DOMAIN objects /\ current' \notin freed
      BY <1>1, <1>4, <3>2 DEF MapsAgree, NoDanglingProperty
    <3>4. \A f \in pats :
            /\ objects[f.property].type = IndicesType
            /\ objects[f.property].label = objects[current'].label
            => f.property = current'
      BY <1>1, <3>2 DEF OneIndexSetPerName, ExactMatch
    <3>5. TypeOK'
      BY <1>1, <1>2, <1>3, <2>0, <2>1, <3>3 DEF TypeOK, MapsAgree
    <3>6. NoDanglingProperty'
      BY <1>1, <2>1, <3>3 DEF NoDanglingProperty
    <3>7. OneIndexSetPerName' /\ OneIndexSetWithCurrent'
      BY <1>1, <1>2, <1>4, <2>1, <3>3, <3>4
      DEF OneIndexSetPerName, OneIndexSetWithCurrent, MapsAgree
    <3> QED
      BY <2>1, <3>5, <3>6, <3>7 DEF StoreInv, MapsAgree
  <2>3. CASE Exact(d.property) = {}
    <3>1. current' = new
      BY <1>7, <2>3 DEF DeclareList
    <3>2. ASSUME NEW f \in pats', d.property.type = IndicesType,
                 objects[f.property].type = IndicesType,
                 objects[f.property].label = d.property.label
          PROVE  FALSE
      <4>1. f \in pats /\ f.property \notin Replaced(d.property)
        BY <1>7 DEF DeclareList
      <4>2. ~IdMatch(objects[f.property], d.property)
        BY <4>1 DEF Replaced
      <4>3. ~ExactMatch(objects[f.property], d.property)
        BY <2>3, <4>1 DEF Exact
      <4> QED
        BY <3>2, <4>2, <4>3 DEF IdMatch, ExactMatch
    <3>5. TypeOK'
      BY <1>1, <1>2, <1>3, <2>0, <2>1, <3>1 DEF TypeOK, MapsAgree
    <3>6. NoDanglingProperty'
      BY <1>1, <1>3, <2>1, <3>1 DEF NoDanglingProperty
    <3>7. OneIndexSetPerName'
      BY <1>1, <1>2, <1>4, <2>1 DEF OneIndexSetPerName, MapsAgree
    <3>8. OneIndexSetWithCurrent'
      BY <1>1, <1>2, <1>4, <2>1, <3>1, <3>2 DEF OneIndexSetWithCurrent, MapsAgree
    <3> QED
      BY <2>1, <3>5, <3>6, <3>7, <3>8 DEF StoreInv, MapsAgree
  <2> QED
    BY <2>2, <2>3
<1> QED
  BY <1>5, <1>6, <1>7 DEF Declare

-----------------------------------------------------------------------------
\* One pattern of a list property.
LEMMA InsertListPropStoreInv ==
  ASSUME StoreInv, InsertListProp
  PROVE  StoreInv'
<1>1. /\ TypeOK /\ MapsAgree /\ NoDanglingProperty
      /\ OneIndexSetPerName /\ OneIndexSetWithCurrent /\ todo # <<>>
      /\ patterns' = Append(patterns, Head(todo)) /\ objects' = objects
      /\ pats' = pats \cup {NewEntry} /\ props' = props \cup {NewEntry}
      /\ freed' = freed /\ current' = current /\ todo' = Tail(todo)
  BY DEF StoreInv, InsertListProp
<1>2. /\ Entry \subseteq Entry' /\ NewEntry \in Entry'
      /\ patterns' \in Seq(Pattern) /\ Tail(todo) \in Seq(Pattern)
  BY <1>1, NewEntryTyped
<1>3. NewEntry.property = current
  BY DEF NewEntry
<1>4. TypeOK'
  BY <1>1, <1>2 DEF TypeOK
<1>5. MapsAgree' /\ NoDanglingProperty'
  BY <1>1, <1>3 DEF MapsAgree, NoDanglingProperty
<1>6. OneIndexSetPerName' /\ OneIndexSetWithCurrent'
  BY <1>1, <1>3 DEF OneIndexSetPerName, OneIndexSetWithCurrent
<1> QED
  BY <1>4, <1>5, <1>6 DEF StoreInv

\* One pattern of a normal property, without a clash.
LEMMA InsertNewStoreInv ==
  ASSUME StoreInv, InsertNew
  PROVE  StoreInv'
<1>1. /\ TypeOK /\ MapsAgree /\ NoDanglingProperty
      /\ OneIndexSetPerName /\ todo # <<>>
      /\ objects[current].type # IndicesType
      /\ patterns' = Append(patterns, Head(todo)) /\ objects' = objects
      /\ pats' = pats \cup {NewEntry} /\ props' = props \cup {NewEntry}
      /\ freed' = freed /\ current' = current /\ todo' = Tail(todo)
  BY PropertiesAssumptions DEF StoreInv, InsertNew
<1>2. /\ Entry \subseteq Entry' /\ NewEntry \in Entry'
      /\ patterns' \in Seq(Pattern) /\ Tail(todo) \in Seq(Pattern)
  BY <1>1, NewEntryTyped
<1>3. NewEntry.property = current
  BY DEF NewEntry
<1>4. TypeOK'
  BY <1>1, <1>2 DEF TypeOK
<1>5. MapsAgree' /\ NoDanglingProperty'
  BY <1>1, <1>3 DEF MapsAgree, NoDanglingProperty
<1>6. OneIndexSetPerName' /\ OneIndexSetWithCurrent'
  BY <1>1, <1>3 DEF OneIndexSetPerName, OneIndexSetWithCurrent
<1> QED
  BY <1>4, <1>5, <1>6 DEF StoreInv

\* A pattern given twice.
LEMMA InsertRepeatedStoreInv ==
  ASSUME StoreInv, InsertRepeated
  PROVE  StoreInv'
<1>1. todo' = Tail(todo) /\ Tail(todo) \in Seq(Pattern)
      /\ UNCHANGED <<objects, patterns, props, pats, freed, current>>
      /\ objects[current].type # IndicesType /\ todo # <<>>
  BY PropertiesAssumptions DEF StoreInv, TypeOK, InsertRepeated
<1>2. TypeOK'
  BY <1>1 DEF StoreInv, TypeOK, Entry
<1>3. MapsAgree' /\ NoDanglingProperty' /\ OneIndexSetPerName'
      /\ OneIndexSetWithCurrent'
  BY <1>1 DEF StoreInv, MapsAgree, NoDanglingProperty, OneIndexSetPerName,
              OneIndexSetWithCurrent
<1> QED
  BY <1>2, <1>3 DEF StoreInv

\* A pattern that has another object of the type: its object is deleted only
\* when no entry refers to it any more.
LEMMA InsertInsteadStoreInv ==
  ASSUME StoreInv, InsertInstead
  PROVE  StoreInv'
<1> DEFINE old  == First(Clashes(Head(todo)))
           kept == pats \ {old}
<1>1. /\ TypeOK /\ MapsAgree /\ NoDanglingProperty
      /\ OneIndexSetPerName /\ todo # <<>>
      /\ objects[current].type # IndicesType
      /\ patterns' = Append(patterns, Head(todo)) /\ objects' = objects
      /\ current' = current /\ todo' = Tail(todo)
      /\ Clashes(Head(todo)) # {} /\ old.property # current
  BY PropertiesAssumptions DEF StoreInv, InsertInstead
<1>2. /\ pats' = kept \cup {NewEntry} /\ props' = (props \ {old}) \cup {NewEntry}
      /\ freed' = IF \E e \in kept : e.property = old.property THEN freed
                  ELSE freed \cup {old.property}
  BY DEF InsertInstead
<1>3. /\ Entry \subseteq Entry' /\ NewEntry \in Entry'
      /\ patterns' \in Seq(Pattern) /\ Tail(todo) \in Seq(Pattern)
  BY <1>1, NewEntryTyped
<1>4. NewEntry.property = current
  BY DEF NewEntry
<1>5. old \in props
  <2>1. Clashes(Head(todo)) \in SUBSET props
    BY DEF Clashes
  <2> QED
    BY <1>1, <2>1, FirstIsOne
<1> HIDE DEF old
<1>6. old.property \in DOMAIN objects
  BY <1>1, <1>5 DEF TypeOK, Entry
<1>7. TypeOK'
  BY <1>1, <1>2, <1>3, <1>6 DEF TypeOK
<1>8. MapsAgree'
  BY <1>1, <1>2 DEF MapsAgree
<1>9. NoDanglingProperty'
  BY <1>1, <1>2, <1>4 DEF MapsAgree, NoDanglingProperty
<1>10. OneIndexSetPerName' /\ OneIndexSetWithCurrent'
  BY <1>1, <1>2, <1>4 DEF OneIndexSetPerName, OneIndexSetWithCurrent
<1> QED
  BY <1>7, <1>8, <1>9, <1>10 DEF StoreInv

\* Every step of the store keeps the invariant.
LEMMA NextStoreInv == StoreInv /\ [Next]_storeVars => StoreInv'
<1> SUFFICES ASSUME StoreInv, [Next]_storeVars
             PROVE  StoreInv'
  OBVIOUS
<1>1. CASE \E d \in Declaration : Declare(d)
  BY <1>1, DeclareStoreInv
<1>2. CASE Insert
  BY <1>2, InsertListPropStoreInv, InsertNewStoreInv, InsertRepeatedStoreInv,
     InsertInsteadStoreInv DEF Insert
<1>3. CASE UNCHANGED storeVars
  BY <1>3 DEF StoreInv, TypeOK, Entry, MapsAgree, NoDanglingProperty,
              OneIndexSetPerName, OneIndexSetWithCurrent, storeVars
<1> QED
  BY <1>1, <1>2, <1>3 DEF Next

-----------------------------------------------------------------------------
\* The store, whatever is declared in whatever order.
THEOREM StoreIsSound == Spec => []StoreInv
  BY InitStoreInv, NextStoreInv, PTL DEF Spec

\* Names that an assignment may be for.
LineName == {l.name : l \in Line}

\* Statements that pre_parse makes.
AnyStatement ==
  {s \in [does : {"set", "declare", "python", "display"},
          what : LineName \cup Declaration \cup {None}, text : Seq(Nat)] :
     s.does = "declare" => s.what \in Declaration}

\* The types of pre_parse's state and of the translated block.
KernelTypes ==
  /\ lhs \in LineName \cup {None} /\ rhs \in Seq(Nat) /\ lines \in Seq(Line)
  /\ program \in Seq(AnyStatement)
  /\ phase = "run" => program # <<>>

\* A line leaves pre_parse's state and the block typed.
LEMMA PreParseTyped ==
  ASSUME KernelTypes, NEW l \in Line, pre_parse(l)
  PROVE  KernelTypes'
<1> USE KernelAssumptions
<1>1. /\ l.name \in LineName
      /\ l.kind = "declare" => l.declaration \in Declaration
  BY DEF LineName
<1>2. lines' \in Seq(Line) /\ phase' = "parse" /\ Now \in Nat
  <2>1. lines' = Append(lines, l) /\ phase' = "parse"
    BY DEF pre_parse
  <2> QED
    BY <2>1 DEF KernelTypes, Now
<1>3. rhs \in Seq(Nat) /\ program \in Seq(AnyStatement) /\ lhs \in LineName \cup {None}
      /\ Append(rhs, Now) \in Seq(Nat) /\ <<Now>> \in Seq(Nat) /\ <<>> \in Seq(Nat)
  BY <1>2 DEF KernelTypes
<1>4. /\ Statement("display", None, <<>>) \in AnyStatement
      /\ l.kind = "declare" =>
           Statement("declare", l.declaration, <<Now>>) \in AnyStatement
      /\ lhs # None =>
           Statement("set", lhs, Append(rhs, Now)) \in AnyStatement
      /\ Statement("set", l.name, <<Now>>) \in AnyStatement
      /\ Statement("python", None, <<Now>>)
           \in AnyStatement
  <2>1. Statement("display", None, <<>>) \in AnyStatement
    BY <1>3 DEF Statement, AnyStatement
  <2>2. ASSUME l.kind = "declare"
        PROVE  Statement("declare", l.declaration, <<Now>>) \in AnyStatement
    BY <1>1, <1>3, <2>2 DEF Statement, AnyStatement
  <2>3. ASSUME lhs # None
        PROVE  Statement("set", lhs, Append(rhs, Now)) \in AnyStatement
    BY <1>3, <2>3 DEF Statement, AnyStatement
  <2>4. Statement("set", l.name, <<Now>>) \in AnyStatement
    BY <1>1, <1>3 DEF Statement, AnyStatement
  <2>5. Statement("python", None, <<Now>>) \in AnyStatement
    BY <1>3 DEF Statement, AnyStatement
  <2> QED
    BY <2>1, <2>2, <2>3, <2>4, <2>5
<1>5. lhs' \in LineName \cup {None} /\ rhs' \in Seq(Nat) /\ program' \in Seq(AnyStatement)
  <2>1. CASE PreParseSkips(l) \/ PreParseContinues(l) \/ PreParseCaptures(l)
    BY <1>1, <1>3, <2>1 DEF PreParseSkips, PreParseContinues, PreParseCaptures
  <2>2. CASE PreParseBare(l)
    BY <1>3, <1>4, <2>2 DEF PreParseBare, Emit
  <2>3. CASE PreParseEnds(l)
    BY <1>3, <1>4, <2>3 DEF PreParseEnds, Emit
  <2>4. CASE PreParseAssigns(l)
    BY <1>3, <1>4, <2>4 DEF PreParseAssigns, Emit
  <2>5. CASE PreParseDeclares(l)
    BY <1>3, <1>4, <2>5 DEF PreParseDeclares, Emit
  <2>6. CASE PreParsePython(l)
    BY <1>3, <1>4, <2>6 DEF PreParsePython, Emit
  <2> QED
    BY <2>1, <2>2, <2>3, <2>4, <2>5, <2>6 DEF pre_parse
<1> QED
  BY <1>2, <1>5 DEF KernelTypes

\* The kernel's types are invariant.
LEMMA KernelTypesInvariant == KernelSpec => []KernelTypes
<1>1. KernelInit => KernelTypes
  BY DEF KernelInit, KernelTypes
<1>2. KernelTypes /\ [KernelNext]_vars => KernelTypes'
  <2> SUFFICES ASSUME KernelTypes, [KernelNext]_vars
               PROVE  KernelTypes'
    OBVIOUS
  <2>1. CASE \E l \in Line : pre_parse(l)
    BY <2>1, PreParseTyped
  <2>2. CASE run_string
    BY <2>2 DEF run_string, KernelTypes, parseVars
  <2>3. CASE exec_set \/ exec_other
    <3>1. Tail(program) \in Seq(AnyStatement)
      BY <2>3 DEF exec_set, exec_other, Running, KernelTypes
    <3> QED
      BY <2>3, <3>1 DEF exec_set, exec_other, Proceed, KernelTypes, parseVars
  <2>4. CASE exec_fails
    BY <2>4 DEF exec_fails, Proceed, KernelTypes, parseVars
  <2>5. CASE exec_declare
    <3>1. Tail(program) \in Seq(AnyStatement) /\ <<>> \in Seq(AnyStatement)
      BY <2>5 DEF exec_declare, Running, KernelTypes
    <3> QED
      BY <2>5, <3>1 DEF exec_declare, Proceed, KernelTypes, parseVars
  <2>6. CASE exec_insert
    BY <2>6 DEF exec_insert, Proceed, KernelTypes, parseVars
  <2>7. CASE UNCHANGED vars
    BY <2>7 DEF vars, parseVars, runVars, KernelTypes
  <2> QED
    BY <2>1, <2>2, <2>3, <2>4, <2>5, <2>6, <2>7 DEF KernelNext
<1> QED
  BY <1>1, <1>2, PTL DEF KernelSpec

\* The kernel uses the store by its operations only: every step of a block is
\* a step of the store or leaves it alone.
THEOREM KernelUsesTheStore == KernelSpec => Spec
<1>1. KernelInit => Init
  BY DEF KernelInit
<1>2. KernelTypes /\ [KernelNext]_vars => [Next]_storeVars
  <2> SUFFICES ASSUME KernelTypes, [KernelNext]_vars
               PROVE  [Next]_storeVars
    OBVIOUS
  <2>1. CASE \E l \in Line : pre_parse(l)
    BY <2>1 DEF pre_parse
  <2>2. CASE run_string \/ exec_set \/ exec_other \/ exec_fails
    BY <2>2 DEF run_string, exec_set, exec_other, exec_fails
  <2>3. CASE exec_insert
    BY <2>3 DEF exec_insert, Next
  <2>4. CASE UNCHANGED vars
    BY <2>4 DEF vars
  <2>5. CASE exec_declare
    <3>1. Head(program) \in AnyStatement /\ Head(program).does = "declare"
      BY <2>5 DEF exec_declare, Running, KernelTypes
    <3>2. Head(program).what \in Declaration
      BY <3>1 DEF AnyStatement
    <3>3. Declare(Head(program).what)
      BY <2>5 DEF exec_declare
    <3> QED
      BY <3>2, <3>3 DEF Next
  <2> QED
    BY <2>1, <2>2, <2>3, <2>4, <2>5 DEF KernelNext
<1> QED
  BY <1>1, <1>2, KernelTypesInvariant, PTL DEF KernelSpec, Spec

\* The two maps of the kernel's store hold the same attachments, and what they
\* refer to was not deleted, whatever blocks are run.
THEOREM KernelMapsAgree == KernelSpec => []MapsAgree
  BY KernelUsesTheStore, StoreIsSound, PTL DEF StoreInv

\* No attachment and no declaration refers to a deleted property object.
THEOREM KernelNoDangling == KernelSpec => []NoDanglingProperty
  BY KernelUsesTheStore, StoreIsSound, PTL DEF StoreInv

\* Index sets in use with the same name are one object.
THEOREM KernelOneIndexSet == KernelSpec => []OneIndexSetPerName
  BY KernelUsesTheStore, StoreIsSound, PTL DEF StoreInv

\* The store's variables keep their types.
THEOREM KernelTypeOK == KernelSpec => []TypeOK
  BY KernelUsesTheStore, StoreIsSound, PTL DEF StoreInv

(***************************************************************************)
(* Expressions.  What a text is made of does not change when lines are     *)
(* added after it, so that texts stay what they are in the block and in    *)
(* Python's variables.                                                     *)
(***************************************************************************)
\* Lines of "ls" that begin an assignment to "name".
BeginsExpression(ls, name, text) ==
  /\ text \in Seq(Nat) /\ text # <<>>
  /\ \A n \in DOMAIN text : text[n] \in DOMAIN ls
  /\ ls[text[1]].kind = "assign" /\ ls[text[1]].name = name

WholeText(ls, name, text) ==
  /\ BeginsExpression(ls, name, text)
  /\ \A n \in DOMAIN text : Terminated(ls[text[n]]) <=> n = Len(text)

PendingText(ls, name, text) ==
  /\ BeginsExpression(ls, name, text)
  /\ \A n \in DOMAIN text : ~Terminated(ls[text[n]])

TextsAreWhole ==
  /\ lhs # None => PendingText(lines, lhs, rhs)
  /\ \A i \in DOMAIN program : program[i].does = "set" =>
       WholeText(lines, program[i].what, program[i].text)
  /\ \A name \in DOMAIN value : WholeText(lines, name, value[name])

LEMMA OneLineMore ==
  ASSUME NEW ls \in Seq(Line), NEW l \in Line
  PROVE  /\ Len(ls) + 1 \in DOMAIN Append(ls, l) /\ Append(ls, l)[Len(ls) + 1] = l
         /\ \A n \in DOMAIN ls : n \in DOMAIN Append(ls, l) /\ Append(ls, l)[n] = ls[n]
         /\ \A name, text : BeginsExpression(ls, name, text)
                              => BeginsExpression(Append(ls, l), name, text)
         /\ \A name, text : WholeText(ls, name, text)
                              => WholeText(Append(ls, l), name, text)
         /\ \A name, text : PendingText(ls, name, text)
                              => PendingText(Append(ls, l), name, text)
<1> DEFINE more == Append(ls, l)
<1>1. /\ Len(ls) + 1 \in DOMAIN more /\ more[Len(ls) + 1] = l
      /\ \A n \in DOMAIN ls : n \in DOMAIN more /\ more[n] = ls[n]
  OBVIOUS
<1> HIDE DEF more
<1>2. ASSUME NEW name, NEW text, BeginsExpression(ls, name, text)
      PROVE  /\ BeginsExpression(more, name, text)
             /\ \A n \in DOMAIN text : more[text[n]] = ls[text[n]]
  <2>1. 1 \in DOMAIN text
    BY <1>2 DEF BeginsExpression
  <2> QED BY <1>1, <1>2, <2>1 DEF BeginsExpression
<1>3. ASSUME NEW name, NEW text, WholeText(ls, name, text)
      PROVE  WholeText(more, name, text)
  BY <1>2, <1>3 DEF WholeText
<1>4. ASSUME NEW name, NEW text, PendingText(ls, name, text)
      PROVE  PendingText(more, name, text)
  BY <1>2, <1>4 DEF PendingText
<1> QED
  BY <1>1, <1>2, <1>3, <1>4 DEF more

\* A line after those of a pending expression.
LEMMA LineAdded ==
  ASSUME NEW ls \in Seq(Line), NEW l \in Line, NEW name, NEW text,
         PendingText(ls, name, text)
  PROVE  /\ Terminated(l)
              => WholeText(Append(ls, l), name, Append(text, Len(ls) + 1))
         /\ ~Terminated(l)
              => PendingText(Append(ls, l), name, Append(text, Len(ls) + 1))
<1> DEFINE more == Append(ls, l)
           longer == Append(text, Len(ls) + 1)
<1>1. /\ Len(ls) + 1 \in DOMAIN more /\ more[Len(ls) + 1] = l
      /\ \A n \in DOMAIN ls : n \in DOMAIN more /\ more[n] = ls[n]
      /\ Len(ls) \in Nat
  BY OneLineMore
<1>2. /\ text \in Seq(Nat) /\ text # <<>>
      /\ \A n \in DOMAIN text : text[n] \in DOMAIN ls /\ ~Terminated(ls[text[n]])
      /\ ls[text[1]].kind = "assign" /\ ls[text[1]].name = name
  BY DEF PendingText, BeginsExpression
<1>3. /\ longer \in Seq(Nat) /\ longer # <<>> /\ Len(longer) = Len(text) + 1
      /\ DOMAIN longer = DOMAIN text \cup {Len(longer)}
      /\ \A n \in DOMAIN text : longer[n] = text[n] /\ n # Len(longer)
      /\ longer[Len(longer)] = Len(ls) + 1 /\ 1 \in DOMAIN text
  <2>1. text \in Seq(Nat) /\ Len(ls) + 1 \in Nat /\ Len(text) \in Nat
        /\ DOMAIN text = 1..Len(text) /\ Len(text) # 0
    BY <1>1, <1>2
  <2>2. /\ longer \in Seq(Nat) /\ Len(longer) = Len(text) + 1
        /\ DOMAIN longer = 1..(Len(text) + 1)
        /\ longer[Len(text) + 1] = Len(ls) + 1
        /\ \A n \in DOMAIN text : longer[n] = text[n]
    BY <2>1
  <2> HIDE DEF longer
  <2> QED BY <2>1, <2>2
<1> HIDE DEF more, longer
<1>4. /\ \A n \in DOMAIN text : more[longer[n]] = ls[text[n]]
      /\ more[longer[Len(longer)]] = l
      /\ \A n \in DOMAIN longer : longer[n] \in DOMAIN more
  BY <1>1, <1>2, <1>3
<1>5. BeginsExpression(more, name, longer)
  BY <1>2, <1>3, <1>4 DEF BeginsExpression
<1>6. \A n \in DOMAIN text : ~Terminated(more[longer[n]])
  BY <1>2, <1>4
<1>7. Terminated(l) => WholeText(more, name, longer)
  BY <1>3, <1>4, <1>5, <1>6 DEF WholeText
<1>8. ~Terminated(l) => PendingText(more, name, longer)
  BY <1>3, <1>4, <1>5, <1>6 DEF PendingText
<1> QED
  BY <1>7, <1>8 DEF more, longer

\* An assignment and its first line.
LEMMA FirstLine ==
  ASSUME NEW ls \in Seq(Line), NEW l \in Line, l.kind = "assign"
  PROVE  /\ Terminated(l) => WholeText(Append(ls, l), l.name, <<Len(ls) + 1>>)
         /\ ~Terminated(l) => PendingText(Append(ls, l), l.name, <<Len(ls) + 1>>)
<1> DEFINE more == Append(ls, l)
           text == <<Len(ls) + 1>>
<1>1. Len(ls) + 1 \in DOMAIN more /\ more[Len(ls) + 1] = l /\ Len(ls) \in Nat
  BY OneLineMore
<1>2. /\ text \in Seq(Nat) /\ text # <<>> /\ DOMAIN text = {1}
      /\ text[1] = Len(ls) + 1 /\ Len(text) = 1
  BY <1>1
<1> HIDE DEF more, text
<1>3. BeginsExpression(more, l.name, text)
  BY <1>1, <1>2 DEF BeginsExpression
<1>4. Terminated(l) => WholeText(more, l.name, text)
  BY <1>1, <1>2, <1>3 DEF WholeText
<1>5. ~Terminated(l) => PendingText(more, l.name, text)
  BY <1>1, <1>2, <1>3 DEF PendingText
<1> QED
  BY <1>4, <1>5 DEF more, text

LEMMA PreParseKeepsTexts ==
  ASSUME KernelTypes, TextsAreWhole, NEW l \in Line, pre_parse(l)
  PROVE  TextsAreWhole'
<1> DEFINE more == Append(lines, l)
<1>1. lines \in Seq(Line) /\ lines' = more /\ value' = value
      /\ program \in Seq(AnyStatement)
  BY DEF KernelTypes, pre_parse
<1>2. /\ \A name, text : WholeText(lines, name, text) => WholeText(more, name, text)
      /\ \A name, text : PendingText(lines, name, text) => PendingText(more, name, text)
  BY <1>1, OneLineMore
<1>3. /\ \A name \in DOMAIN value : WholeText(more, name, value[name])
      /\ \A i \in DOMAIN program : program[i].does = "set" =>
           WholeText(more, program[i].what, program[i].text)
      /\ lhs # None => PendingText(more, lhs, rhs)
  BY <1>2 DEF TextsAreWhole
<1>4. /\ lhs # None /\ Terminated(l) => WholeText(more, lhs, Append(rhs, Now))
      /\ lhs # None /\ ~Terminated(l) => PendingText(more, lhs, Append(rhs, Now))
  BY <1>1, LineAdded DEF TextsAreWhole, Now
<1>5. /\ l.kind = "assign" /\ Terminated(l) => WholeText(more, l.name, <<Now>>)
      /\ l.kind = "assign" /\ ~Terminated(l) => PendingText(more, l.name, <<Now>>)
  BY <1>1, FirstLine DEF Now
<1> HIDE DEF more
<1>6. ASSUME NEW s, program' = Append(program, s),
             s.does = "set" => WholeText(more, s.what, s.text)
      PROVE  \A i \in DOMAIN program' : program'[i].does = "set" =>
               WholeText(more, program'[i].what, program'[i].text)
  <2>1. Len(program) \in Nat /\ DOMAIN program = 1..Len(program)
    BY <1>1
  <2>2. /\ DOMAIN program' = 1..(Len(program) + 1)
        /\ \A i \in DOMAIN program : program'[i] = program[i]
        /\ program'[Len(program) + 1] = s
    BY <1>1, <1>6
  <2>3. \A i \in DOMAIN program' : i \in DOMAIN program \/ i = Len(program) + 1
    BY <2>1, <2>2
  <2> QED BY <1>3, <1>6, <2>2, <2>3
<1>7. CASE PreParseSkips(l)
  BY <1>1, <1>3, <1>7 DEF PreParseSkips, TextsAreWhole
<1>8. CASE PreParseBare(l)
  <2>1. /\ program' = Append(program, Statement("display", None, <<>>))
        /\ UNCHANGED <<lhs, rhs>>
    BY <1>8 DEF PreParseBare, Emit
  <2>2. Statement("display", None, <<>>).does # "set"
    BY DEF Statement
  <2> QED BY <1>1, <1>3, <1>6, <2>1, <2>2 DEF TextsAreWhole
<1>9. CASE PreParseEnds(l)
  <2>1. /\ program' = Append(program, Statement("set", lhs, Append(rhs, Now)))
        /\ lhs' = None /\ lhs # None /\ Terminated(l)
    BY <1>9 DEF PreParseEnds, Emit
  <2>2. /\ Statement("set", lhs, Append(rhs, Now)).what = lhs
        /\ Statement("set", lhs, Append(rhs, Now)).text = Append(rhs, Now)
    BY DEF Statement
  <2> QED BY <1>1, <1>3, <1>4, <1>6, <2>1, <2>2 DEF TextsAreWhole
<1>10. CASE PreParseContinues(l)
  BY <1>1, <1>3, <1>4, <1>10 DEF PreParseContinues, TextsAreWhole
<1>11. CASE PreParseCaptures(l)
  BY <1>1, <1>3, <1>5, <1>11 DEF PreParseCaptures, TextsAreWhole
<1>12. CASE PreParseAssigns(l)
  <2>1. /\ program' = Append(program, Statement("set", l.name, <<Now>>))
        /\ l.kind = "assign" /\ Terminated(l) /\ UNCHANGED <<lhs, rhs>>
    BY <1>12 DEF PreParseAssigns, Emit
  <2>2. /\ Statement("set", l.name, <<Now>>).what = l.name
        /\ Statement("set", l.name, <<Now>>).text = <<Now>>
    BY DEF Statement
  <2> QED BY <1>1, <1>3, <1>5, <1>6, <2>1, <2>2 DEF TextsAreWhole
<1>13. CASE PreParseDeclares(l)
  <2>1. /\ program' = Append(program, Statement("declare", l.declaration, <<Now>>))
        /\ UNCHANGED <<lhs, rhs>>
    BY <1>13 DEF PreParseDeclares, Emit
  <2>2. Statement("declare", l.declaration, <<Now>>).does # "set"
    BY DEF Statement
  <2> QED BY <1>1, <1>3, <1>6, <2>1, <2>2 DEF TextsAreWhole
<1>14. CASE PreParsePython(l)
  <2>1. /\ program' = Append(program, Statement("python", None, <<Now>>))
        /\ UNCHANGED <<lhs, rhs>>
    BY <1>14 DEF PreParsePython, Emit
  <2>2. Statement("python", None, <<Now>>).does # "set"
    BY DEF Statement
  <2> QED BY <1>1, <1>3, <1>6, <2>1, <2>2 DEF TextsAreWhole
<1> QED
  BY <1>7, <1>8, <1>9, <1>10, <1>11, <1>12, <1>13, <1>14 DEF pre_parse

LEMMA TextsStayWhole ==
  ASSUME KernelTypes, TextsAreWhole, [KernelNext]_vars
  PROVE  TextsAreWhole'
<1>1. CASE \E l \in Line : pre_parse(l)
  BY <1>1, PreParseKeepsTexts
<1>q. ASSUME UNCHANGED <<lhs, rhs, lines, value>>,
             program' = program \/ program' = <<>>
                \/ (program # <<>> /\ program' = Tail(program))
      PROVE  TextsAreWhole'
  <2>1. program \in Seq(AnyStatement)
    BY DEF KernelTypes
  <2>2. \A i \in DOMAIN program' : \E j \in DOMAIN program : program'[i] = program[j]
    <3>1. CASE program' = program \/ program' = <<>>
      BY <3>1
    <3>2. CASE program # <<>> /\ program' = Tail(program)
      <4>1. \A i \in DOMAIN Tail(program) :
              i + 1 \in DOMAIN program /\ Tail(program)[i] = program[i + 1]
        BY <2>1, <3>2
      <4> QED BY <3>2, <4>1
    <3> QED BY <1>q, <3>1, <3>2
  <2> QED BY <1>q, <2>2 DEF TextsAreWhole
<1>2. phase = "run" => program # <<>>
  BY DEF KernelTypes
<1>3. CASE run_string
  BY <1>3, <1>q DEF run_string, parseVars
<1>4. CASE exec_set
  <2>1. program # <<>> /\ program \in Seq(AnyStatement)
    BY <1>2, <1>4 DEF exec_set, Running, KernelTypes
  <2>2. 1 \in DOMAIN program /\ Head(program) = program[1]
    BY <2>1
  <2>3. WholeText(lines, Head(program).what, Head(program).text)
    BY <1>4, <2>2 DEF exec_set, Running, TextsAreWhole
  <2>4. UNCHANGED <<lhs, rhs, lines>> /\ program' = Tail(program)
    BY <1>4 DEF exec_set, Proceed, parseVars
  <2>5. \A name \in DOMAIN value' : WholeText(lines, name, value'[name])
    BY <1>4, <2>3 DEF exec_set, TextsAreWhole
  <2>6. \A i \in DOMAIN Tail(program) :
          i + 1 \in DOMAIN program /\ Tail(program)[i] = program[i + 1]
    BY <2>1
  <2> QED BY <2>4, <2>5, <2>6 DEF TextsAreWhole
<1>5. CASE exec_declare
  BY <1>2, <1>5, <1>q DEF exec_declare, Running, Proceed, parseVars
<1>6. CASE exec_insert
  BY <1>6, <1>q DEF exec_insert, Proceed, parseVars
<1>7. CASE exec_other
  BY <1>2, <1>7, <1>q DEF exec_other, Running, Proceed, parseVars
<1>8. CASE exec_fails
  BY <1>8, <1>q DEF exec_fails, Proceed, parseVars
<1>9. CASE UNCHANGED vars
  BY <1>9, <1>q DEF vars, parseVars, runVars
<1> QED
  BY <1>1, <1>3, <1>4, <1>5, <1>6, <1>7, <1>8, <1>9 DEF KernelNext

\* An expression that Python holds begins with a line that assigns its name
\* and ends with the first terminated line after it, whatever lines, blocks
\* and failures lie between.
THEOREM KernelExpressionsEnd == KernelSpec => []ExpressionsEndAtATerminator
<1>1. KernelInit => TextsAreWhole
  BY DEF KernelInit, TextsAreWhole
<1>2. KernelTypes /\ TextsAreWhole /\ [KernelNext]_vars => TextsAreWhole'
  BY TextsStayWhole
<1>3. TextsAreWhole => ExpressionsEndAtATerminator
  BY DEF TextsAreWhole, WholeText, BeginsExpression, ExpressionsEndAtATerminator
<1> QED
  BY <1>1, <1>2, <1>3, KernelTypesInvariant, PTL DEF KernelSpec

(***************************************************************************)
(* Lines.  Four changes keep the texts the lines of code in their order.   *)
(***************************************************************************)
\* A line that is no code is read.
LEMMA LineSkipped ==
  ASSUME NEW ls \in Seq(Line), NEW l \in Line, NEW ts, UsedOnce(ls, ts), ~IsCode(l)
  PROVE  UsedOnce(Append(ls, l), ts)
<1> DEFINE more == Append(ls, l)
<1>1. /\ DOMAIN more = DOMAIN ls \cup {Len(ls) + 1} /\ more[Len(ls) + 1] = l
      /\ \A n \in DOMAIN ls : more[n] = ls[n]
  OBVIOUS
<1> HIDE DEF more
<1>2. \A n \in DOMAIN more : IsCode(more[n]) => n \in DOMAIN ls /\ IsCode(ls[n])
  BY <1>1
<1>3. \A n \in DOMAIN ls : IsCode(ls[n]) => n \in DOMAIN more /\ IsCode(more[n])
  BY <1>1
<1> QED
  BY <1>2, <1>3 DEF UsedOnce, more

\* Sequences of texts, and one with a text after them.
LEMMA LastText ==
  ASSUME NEW E \in Seq(Seq(Nat)), NEW R \in Seq(Nat)
  PROVE  /\ Append(E, R) \in Seq(Seq(Nat)) /\ Len(E) \in Nat
         /\ DOMAIN E = 1..Len(E) /\ DOMAIN Append(E, R) = 1..(Len(E) + 1)
         /\ Append(E, R)[Len(E) + 1] = R
         /\ \A m \in DOMAIN E : Append(E, R)[m] = E[m]
  OBVIOUS

\* A line of code is read and put after the pending ones.
LEMMA LineTaken ==
  ASSUME NEW ls \in Seq(Line), NEW l \in Line, IsCode(l),
         NEW E \in Seq(Seq(Nat)), NEW R \in Seq(Nat), UsedOnce(ls, Append(E, R))
  PROVE  UsedOnce(Append(ls, l), Append(E, Append(R, Len(ls) + 1)))
<1> DEFINE more == Append(ls, l)
           now  == Len(ls) + 1
           Q    == Append(R, now)
           N    == Len(E) + 1
           ts   == Append(E, R)
           us   == Append(E, Q)
<1>1. /\ DOMAIN more = DOMAIN ls \cup {now} /\ more[now] = l /\ Len(ls) \in Nat
      /\ now \in Nat /\ \A n \in DOMAIN ls : more[n] = ls[n] /\ n < now /\ n # now
  OBVIOUS
<1>2. /\ Q \in Seq(Nat) /\ Len(Q) = Len(R) + 1 /\ Len(R) \in Nat /\ Q[Len(R) + 1] = now
      /\ DOMAIN R = 1..Len(R) /\ DOMAIN Q = 1..(Len(R) + 1)
      /\ \A i \in DOMAIN R : Q[i] = R[i]
  BY <1>1
<1> HIDE DEF more, Q
<1>3. /\ Len(E) \in Nat /\ DOMAIN E = 1..Len(E) /\ DOMAIN ts = 1..N /\ ts[N] = R
      /\ \A m \in DOMAIN E : ts[m] = E[m]
  BY LastText
<1>4. /\ DOMAIN us = 1..N /\ us[N] = Q
      /\ \A m \in DOMAIN E : us[m] = E[m]
  BY <1>2, LastText
<1> HIDE DEF ts, us, now
<1>5. \A m \in 1..N : /\ m # N => us[m] = ts[m] /\ m \in DOMAIN E
                      /\ DOMAIN ts[m] \subseteq DOMAIN us[m]
                      /\ \A i \in DOMAIN ts[m] : us[m][i] = ts[m][i]
  <2> SUFFICES ASSUME NEW m \in 1..N
               PROVE  /\ m # N => us[m] = ts[m] /\ m \in DOMAIN E
                      /\ DOMAIN ts[m] \subseteq DOMAIN us[m]
                      /\ \A i \in DOMAIN ts[m] : us[m][i] = ts[m][i]
    OBVIOUS
  <2>1. CASE m = N
    <3>1. ts[m] = R /\ us[m] = Q
      BY <1>3, <1>4, <2>1
    <3>2. DOMAIN R \subseteq DOMAIN Q
      BY <1>2
    <3> QED
      BY <1>2, <2>1, <3>1, <3>2
  <2>2. CASE m # N
    <3>1. m \in DOMAIN E
      BY <1>3, <2>2
    <3> QED
      BY <1>3, <1>4, <3>1
  <2> QED
    BY <2>1, <2>2
\* What is in the new texts was in the old ones, or is the new line at the end.
<1>6. ASSUME NEW m \in DOMAIN us, NEW i \in DOMAIN us[m]
      PROVE  \/ i \in DOMAIN ts[m] /\ us[m][i] = ts[m][i]
             \/ m = N /\ i = Len(R) + 1 /\ us[m][i] = now
  <2>1. CASE m = N
    <3>1. ts[m] = R /\ us[m] = Q /\ i \in DOMAIN Q
      BY <1>3, <1>4, <2>1
    <3>2. i \in DOMAIN R \/ i = Len(R) + 1
      BY <1>2, <3>1
    <3> QED
      BY <1>2, <2>1, <3>1, <3>2
  <2>2. CASE m # N
    BY <1>4, <1>5, <2>2
  <2> QED
    BY <2>1, <2>2
<1>7. ASSUME NEW n \in DOMAIN more, IsCode(more[n])
      PROVE  \E m \in DOMAIN us : n \in ToSet(us[m])
  <2>1. CASE n = now
    <3>1. N \in DOMAIN us /\ Len(R) + 1 \in DOMAIN us[N] /\ us[N][Len(R) + 1] = n
      BY <1>2, <1>3, <1>4, <2>1
    <3> QED
      BY <3>1 DEF ToSet
  <2>2. CASE n # now
    <3>1. n \in DOMAIN ls /\ IsCode(ls[n])
      BY <1>1, <1>7, <2>2
    <3>2. PICK m \in DOMAIN ts : n \in ToSet(ts[m])
      BY <3>1 DEF UsedOnce, ts
    <3>3. PICK i \in DOMAIN ts[m] : ts[m][i] = n
      BY <3>2 DEF ToSet
    <3>4. m \in DOMAIN us /\ i \in DOMAIN us[m] /\ us[m][i] = n
      BY <1>3, <1>4, <1>5, <3>3
    <3> QED
      BY <3>4 DEF ToSet
  <2> QED
    BY <2>1, <2>2
<1>8. ASSUME NEW m \in DOMAIN us, NEW i \in DOMAIN us[m]
      PROVE  us[m][i] \in DOMAIN more /\ IsCode(more[us[m][i]])
  <2>1. CASE i \in DOMAIN ts[m] /\ us[m][i] = ts[m][i]
    <3>1. ts[m][i] \in DOMAIN ls /\ IsCode(ls[ts[m][i]])
      BY <1>3, <1>4, <2>1 DEF UsedOnce, ts
    <3> QED
      BY <1>1, <2>1, <3>1
  <2>2. CASE us[m][i] = now
    BY <1>1, <2>2
  <2> QED
    BY <1>6, <2>1, <2>2
<1>9. ASSUME NEW m \in DOMAIN us, NEW i \in DOMAIN us[m],
             NEW k \in DOMAIN us, NEW j \in DOMAIN us[k],
             m < k \/ (m = k /\ i < j)
      PROVE  us[m][i] < us[k][j]
  <2>1. m \in DOMAIN ts /\ k \in DOMAIN ts
    BY <1>3, <1>4
  <2>2. ~(m = N /\ i = Len(R) + 1)
    <3>1. SUFFICES ASSUME m = N, i = Len(R) + 1
                   PROVE  FALSE
      OBVIOUS
    <3>2. k \in 1..N /\ N \in Nat /\ m \in 1..N
      BY <1>3, <1>4
    <3>3. k = N /\ i < j
      BY <1>9, <3>1, <3>2
    <3>4. j \in 1..(Len(R) + 1)
      BY <1>2, <1>4, <3>3
    <3> QED
      BY <1>2, <3>1, <3>3, <3>4
  <2>3. i \in DOMAIN ts[m] /\ us[m][i] = ts[m][i]
    BY <1>6, <2>2
  <2>4. ts[m][i] \in DOMAIN ls
    BY <2>1, <2>3 DEF UsedOnce, ts
  <2>5. CASE us[k][j] = now
    BY <1>1, <2>3, <2>4, <2>5
  <2>6. CASE j \in DOMAIN ts[k] /\ us[k][j] = ts[k][j]
    <3>1. ts[m][i] < ts[k][j]
      BY <1>9, <2>1, <2>3, <2>6 DEF UsedOnce, ts
    <3> QED
      BY <2>3, <2>6, <3>1
  <2> QED
    BY <1>6, <2>5, <2>6
<1> HIDE DEF N
<1>10. UsedOnce(more, us)
  BY <1>7, <1>8, <1>9 DEF UsedOnce
<1> QED
  BY <1>10 DEF more, us, Q, now

\* The texts ts are us without some empty texts; f says where each is.
Spread(ts, us, f) ==
  /\ \A m \in DOMAIN ts : f[m] \in DOMAIN us /\ us[f[m]] = ts[m]
  /\ \A k \in DOMAIN us : DOMAIN us[k] # {} => \E m \in DOMAIN ts : f[m] = k
  /\ \A m, n \in DOMAIN ts : (f[m] < f[n] => m < n) /\ (f[m] = f[n] => m = n)

\* Texts stay in their order when empty ones come between them.
LEMMA EmptyTextsAdded ==
  ASSUME NEW ls, NEW ts, NEW us, NEW f, UsedOnce(ls, ts), Spread(ts, us, f)
  PROVE  UsedOnce(ls, us)
<1>1. ASSUME NEW n \in DOMAIN ls, IsCode(ls[n])
      PROVE  \E k \in DOMAIN us : n \in ToSet(us[k])
  BY <1>1 DEF UsedOnce, Spread, ToSet
<1>2. ASSUME NEW k \in DOMAIN us, NEW i \in DOMAIN us[k]
      PROVE  \E m \in DOMAIN ts : f[m] = k /\ us[k] = ts[m] /\ i \in DOMAIN ts[m]
  BY <1>2 DEF Spread
<1>3. ASSUME NEW k \in DOMAIN us, NEW i \in DOMAIN us[k]
      PROVE  /\ us[k][i] \in DOMAIN ls /\ IsCode(ls[us[k][i]])
             /\ \A p \in DOMAIN us : \A j \in DOMAIN us[p] :
                  k < p \/ (k = p /\ i < j) => us[k][i] < us[p][j]
  <2>1. PICK m \in DOMAIN ts : f[m] = k /\ us[k] = ts[m] /\ i \in DOMAIN ts[m]
    BY <1>2
  <2>2. ASSUME NEW p \in DOMAIN us, NEW j \in DOMAIN us[p], k < p \/ (k = p /\ i < j)
        PROVE  us[k][i] < us[p][j]
    <3>1. PICK n \in DOMAIN ts : f[n] = p /\ us[p] = ts[n] /\ j \in DOMAIN ts[n]
      BY <1>2
    <3>2. m < n \/ (m = n /\ i < j)
      BY <2>1, <2>2, <3>1 DEF Spread
    <3>3. ts[m][i] < ts[n][j]
      BY <2>1, <3>1, <3>2 DEF UsedOnce
    <3> QED
      BY <2>1, <3>1, <3>3
  <2>3. ts[m][i] \in DOMAIN ls /\ IsCode(ls[ts[m][i]])
    BY <2>1 DEF UsedOnce
  <2> QED
    BY <2>1, <2>2, <2>3
<1> QED
  BY <1>1, <1>3 DEF UsedOnce

\* A text is finished, and the pending one is empty.
LEMMA TextFinished ==
  ASSUME NEW ls, NEW E \in Seq(Seq(Nat)), NEW R \in Seq(Nat), UsedOnce(ls, Append(E, R))
  PROVE  UsedOnce(ls, Append(Append(E, R), <<>>))
<1> DEFINE ts == Append(E, R)
           us == Append(ts, <<>>)
           f  == [m \in DOMAIN ts |-> m]
<1>1. ts \in Seq(Seq(Nat)) /\ <<>> \in Seq(Nat) /\ Len(ts) \in Nat /\ DOMAIN <<>> = {}
  BY LastText
<1> HIDE DEF ts
<1>2. /\ DOMAIN ts = 1..Len(ts) /\ DOMAIN us = 1..(Len(ts) + 1)
      /\ us[Len(ts) + 1] = <<>> /\ \A m \in DOMAIN ts : us[m] = ts[m]
  BY <1>1, LastText
<1> HIDE DEF us
<1>3. \A m \in DOMAIN ts : f[m] = m /\ m \in Int
  BY <1>2
<1> HIDE DEF f
<1>4. \A m \in DOMAIN ts : f[m] \in DOMAIN us /\ us[f[m]] = ts[m]
  BY <1>1, <1>2, <1>3
<1>5. \A k \in DOMAIN us : DOMAIN us[k] # {} => \E m \in DOMAIN ts : f[m] = k
  <2>1. \A k \in DOMAIN us : k \in DOMAIN ts \/ us[k] = <<>>
    BY <1>1, <1>2
  <2> QED
    BY <1>1, <1>3, <2>1
<1>6. \A m, n \in DOMAIN ts : (f[m] < f[n] => m < n) /\ (f[m] = f[n] => m = n)
  BY <1>3
<1>7. Spread(ts, us, f)
  BY <1>4, <1>5, <1>6 DEF Spread
<1>8. UsedOnce(ls, us)
  <2>1. UsedOnce(ls, ts)
    BY DEF ts
  <2> QED
    BY <1>7, <2>1, EmptyTextsAdded
<1> QED
  BY <1>8 DEF us, ts

\* A statement without text is made while an expression is pending.
LEMMA NoTextMade ==
  ASSUME NEW ls, NEW E \in Seq(Seq(Nat)), NEW R \in Seq(Nat), UsedOnce(ls, Append(E, R))
  PROVE  UsedOnce(ls, Append(Append(E, <<>>), R))
<1> DEFINE ts == Append(E, R)
           es == Append(E, <<>>)
           us == Append(es, R)
           N  == Len(E) + 1
           f  == [m \in 1..N |-> IF m = N THEN N + 1 ELSE m]
<1>1. /\ <<>> \in Seq(Nat) /\ DOMAIN <<>> = {}
      /\ Len(E) \in Nat /\ DOMAIN E = 1..Len(E) /\ DOMAIN ts = 1..N /\ ts[N] = R
      /\ \A m \in DOMAIN E : ts[m] = E[m]
  BY LastText
<1>2. /\ es \in Seq(Seq(Nat)) /\ DOMAIN es = 1..N /\ es[N] = <<>>
      /\ \A m \in DOMAIN E : es[m] = E[m]
  BY <1>1, LastText
<1> HIDE DEF es
<1>3. Len(es) = N
  BY <1>1, <1>2
<1>4. /\ DOMAIN us = 1..(N + 1) /\ us[N + 1] = R
      /\ \A m \in DOMAIN es : us[m] = es[m]
  BY <1>2, <1>3, LastText
<1> HIDE DEF us, ts
<1>5. \A m \in 1..N : f[m] = IF m = N THEN N + 1 ELSE m
  OBVIOUS
<1>12. /\ N \in Nat \ {0} /\ DOMAIN E \subseteq 1..N
      /\ \A m \in 1..N : m = N \/ m \in DOMAIN E
  BY <1>1
<1> HIDE DEF f, N
<1>6. \A m \in DOMAIN ts : f[m] \in DOMAIN us /\ us[f[m]] = ts[m]
  <2> SUFFICES ASSUME NEW m \in 1..N
               PROVE  f[m] \in DOMAIN us /\ us[f[m]] = ts[m]
    BY <1>1
  <2>1. CASE m = N
    BY <1>1, <1>4, <1>5, <2>1
  <2>2. CASE m # N
    <3>1. m \in DOMAIN E /\ f[m] = m /\ m \in DOMAIN es
      BY <1>2, <1>5, <1>12, <2>2
    <3>2. m \in DOMAIN us
      BY <1>4, <1>12
    <3> QED
      BY <1>1, <1>2, <1>4, <3>1, <3>2
  <2> QED
    BY <2>1, <2>2
<1>7. \A k \in DOMAIN us : DOMAIN us[k] # {} => \E m \in DOMAIN ts : f[m] = k
  <2> SUFFICES ASSUME NEW k \in 1..(N + 1), DOMAIN us[k] # {}
               PROVE  \E m \in 1..N : f[m] = k
    BY <1>1, <1>4
  <2>1. CASE k = N + 1
    <3>1. N \in 1..N /\ f[N] = k
      BY <1>5, <1>12, <2>1
    <3> QED
      BY <3>1
  <2>2. CASE k = N
    <3>1. N \in 1..N
      BY <1>12
    <3>2. N \in DOMAIN es /\ es[N] = <<>>
      BY <1>2, <3>1
    <3>3. us[N] = <<>>
      BY <1>4, <3>2
    <3> QED
      BY <1>1, <2>2, <3>3
  <2>3. CASE k # N + 1 /\ k # N
    <3>1. k \in 1..N /\ f[k] = k
      BY <1>5, <1>12, <2>3
    <3> QED
      BY <3>1
  <2> QED
    BY <2>1, <2>2, <2>3
<1>8. \A m, n \in DOMAIN ts : (f[m] < f[n] => m < n) /\ (f[m] = f[n] => m = n)
  <2> SUFFICES ASSUME NEW m \in 1..N, NEW n \in 1..N
               PROVE  (f[m] < f[n] => m < n) /\ (f[m] = f[n] => m = n)
    BY <1>1
  <2>1. /\ m \in Int /\ n \in Int /\ m <= N /\ n <= N
        /\ f[m] = (IF m = N THEN N + 1 ELSE m) /\ f[n] = (IF n = N THEN N + 1 ELSE n)
    BY <1>5, <1>12
  <2> QED
    BY <1>12, <2>1
<1>9. Spread(ts, us, f)
  BY <1>6, <1>7, <1>8 DEF Spread
<1>10. UsedOnce(ls, us)
  <2>1. UsedOnce(ls, ts)
    BY DEF ts
  <2> QED
    BY <1>9, <2>1, EmptyTextsAdded
<1> QED
  BY <1>10 DEF us, es

\* What is pending between lines: nothing outside an expression.
LinesInv ==
  /\ emitted \in Seq(Seq(Nat))
  /\ lhs = None => rhs = <<>>
  /\ LinesAreUsedOnce

\* Every assignment has a name.  pre_parse takes an empty name for no pending
\* expression: the text of := x, without a name and a terminator, is lost.
AssignmentsHaveNames == \A l \in Line : l.kind = "assign" => l.name # None

LEMMA PreParseKeepsLines ==
  ASSUME AssignmentsHaveNames, KernelTypes, LinesInv, NEW l \in Line, pre_parse(l)
  PROVE  LinesInv'
<1> DEFINE more == Append(lines, l)
<1>1. /\ lines \in Seq(Line) /\ lines' = more /\ rhs \in Seq(Nat)
      /\ Now = Len(lines) + 1 /\ Now \in Nat
      /\ emitted \in Seq(Seq(Nat)) /\ UsedOnce(lines, Append(emitted, rhs))
  BY DEF KernelTypes, LinesInv, LinesAreUsedOnce, pre_parse, Now
<1>2. Append(rhs, Now) \in Seq(Nat) /\ <<Now>> \in Seq(Nat) /\ <<>> \in Seq(Nat)
  BY <1>1
<1>3. lhs = None => Append(rhs, Now) = <<Now>>
  BY DEF LinesInv
<1>4. ~IsCode(l) => UsedOnce(more, Append(emitted, rhs))
  BY <1>1, LineSkipped
<1>5. IsCode(l) => UsedOnce(more, Append(emitted, Append(rhs, Now)))
  BY <1>1, LineTaken
<1> HIDE DEF more
\* The line ends a statement, the pending one or its own.
<1>6. ASSUME IsCode(l), emitted' = Append(emitted, Append(rhs, Now)), rhs' = <<>>
      PROVE  LinesInv'
  <2>1. emitted' \in Seq(Seq(Nat))
    BY <1>1, <1>2, <1>6, LastText
  <2>2. UsedOnce(more, Append(Append(emitted, Append(rhs, Now)), <<>>))
    BY <1>1, <1>2, <1>5, <1>6, TextFinished
  <2> QED
    BY <1>1, <1>6, <2>1, <2>2 DEF LinesInv, LinesAreUsedOnce
<1>7. CASE PreParseSkips(l)
  BY <1>1, <1>4, <1>7 DEF PreParseSkips, IsCode, LinesInv, LinesAreUsedOnce
<1>8. CASE PreParseBare(l)
  <2>1. /\ emitted' = Append(emitted, <<>>) /\ rhs' = rhs /\ lhs' = lhs /\ ~IsCode(l)
    BY <1>8 DEF PreParseBare, Emit, Statement, IsCode
  <2>2. emitted' \in Seq(Seq(Nat))
    BY <1>1, <1>2, <2>1, LastText
  <2>3. UsedOnce(more, Append(Append(emitted, <<>>), rhs))
    BY <1>1, <1>4, <2>1, NoTextMade
  <2> QED
    BY <1>1, <2>1, <2>2, <2>3 DEF LinesInv, LinesAreUsedOnce
<1>9. CASE PreParseEnds(l)
  BY <1>6, <1>9 DEF PreParseEnds, Emit, Statement
<1>10. CASE PreParseContinues(l)
  BY <1>1, <1>5, <1>10 DEF PreParseContinues, LinesInv, LinesAreUsedOnce
<1>11. CASE PreParseCaptures(l)
  <2>1. lhs' # None /\ rhs' = Append(rhs, Now) /\ emitted' = emitted /\ IsCode(l)
    BY <1>3, <1>11 DEF PreParseCaptures, IsCode, AssignmentsHaveNames
  <2> QED
    BY <1>1, <1>5, <2>1 DEF LinesInv, LinesAreUsedOnce
<1>12. CASE PreParseAssigns(l) \/ PreParseDeclares(l) \/ PreParsePython(l)
  <2>1. /\ emitted' = Append(emitted, <<Now>>) /\ rhs' = rhs /\ lhs = None /\ IsCode(l)
    BY <1>12 DEF PreParseAssigns, PreParseDeclares, PreParsePython, Emit, Statement, IsCode
  <2>2. rhs' = <<>>
    BY <2>1 DEF LinesInv
  <2> QED
    BY <1>3, <1>6, <2>1, <2>2
<1> QED
  BY <1>7, <1>8, <1>9, <1>10, <1>11, <1>12 DEF pre_parse

\* Every line of code becomes part of exactly one statement, or of the pending
\* expression, in the order of the notebook, whatever blocks fail.
THEOREM KernelUsesLinesOnce ==
  ASSUME AssignmentsHaveNames
  PROVE  KernelSpec => []LinesAreUsedOnce
<1>1. KernelInit => LinesInv
  <2> SUFFICES ASSUME KernelInit
               PROVE  LinesInv
    OBVIOUS
  <2>1. emitted = <<>> /\ rhs = <<>> /\ lines = <<>>
    BY DEF KernelInit
  <2>2. /\ Append(emitted, rhs) = <<(<<>>)>> /\ DOMAIN lines = {} /\ DOMAIN <<>> = {}
        /\ emitted \in Seq(Seq(Nat))
    BY <2>1
  <2>3. \A m \in DOMAIN Append(emitted, rhs) : DOMAIN Append(emitted, rhs)[m] = {}
    BY <2>2
  <2> QED
    BY <2>1, <2>2, <2>3 DEF LinesInv, LinesAreUsedOnce, UsedOnce
<1>2. ASSUME KernelTypes, LinesInv, [KernelNext]_vars
      PROVE  LinesInv'
  <2>1. CASE \E l \in Line : pre_parse(l)
    BY <1>2, <2>1, PreParseKeepsLines
  <2>2. ASSUME UNCHANGED parseVars
        PROVE  LinesInv'
    BY <1>2, <2>2 DEF parseVars, LinesInv, LinesAreUsedOnce
  <2>3. CASE \/ run_string \/ exec_set \/ exec_declare \/ exec_insert \/ exec_other
             \/ exec_fails
    BY <2>2, <2>3 DEF run_string, exec_set, exec_declare, exec_insert, exec_other,
      exec_fails
  <2>4. CASE UNCHANGED vars
    BY <2>2, <2>4 DEF vars
  <2> QED
    BY <1>2, <2>1, <2>3, <2>4 DEF KernelNext
<1>3. KernelTypes /\ LinesInv /\ [KernelNext]_vars => LinesInv'
  BY <1>2
<1>4. LinesInv => LinesAreUsedOnce
  BY DEF LinesInv
<1> QED
  BY <1>1, <1>3, <1>4, KernelTypesInvariant, PTL DEF KernelSpec

(***************************************************************************)
(* Lookups.                                                                *)
(***************************************************************************)
\* One of the patterns made is the name with a wildcard.
HasWildcard(made, name) ==
  \E m \in DOMAIN made : made[m].name = name /\ made[m].index = Wild

\* Both are normal properties of one type with one label.
SameKind(one, two) ==
  one.type \notin ListType /\ one.type = two.type /\ SameLabel(one, two)

\* A pattern without wildcards has one normal property of a type and label.
AttachedOnce ==
  \A e, f \in props :
    /\ patterns[e.pattern] = patterns[f.pattern]
    /\ ~HasWildcard(patterns, patterns[e.pattern].name)
    /\ SameKind(objects[e.property], objects[f.property])
    => e = f

\* The wildcard of a pattern, in the words of AttachedIsFound.
LEMMA WildcardInRange ==
  ASSUME TypeOK, NEW p \in Pattern, HasWildcard(patterns, p.name)
  PROVE  [p EXCEPT !.index = Wild] \in Range(patterns)
<1>1. PICK m \in DOMAIN patterns : patterns[m].name = p.name /\ patterns[m].index = Wild
  BY DEF HasWildcard
<1>2. patterns[m] \in Pattern
  BY DEF TypeOK
<1>3. patterns[m] = [p EXCEPT !.index = Wild]
  BY <1>1, <1>2 DEF Pattern
<1> QED
  BY <1>1, <1>3 DEF Range

\* What clashes with a pattern whose name has no wildcard is one entry, which
\* is for the pattern itself.
LEMMA OneClash ==
  ASSUME TypeOK, AttachedOnce, objects[current].type \notin ListType,
         NEW p \in Pattern, ~HasWildcard(patterns, p.name), NEW e \in Clashes(p)
  PROVE  /\ e \in props /\ patterns[e.pattern] = p
         /\ \A f \in Clashes(p) : f = e
<1>1. ASSUME NEW f \in Clashes(p)
      PROVE  /\ f \in props /\ patterns[f.pattern] = p
             /\ objects[f.property].type \notin ListType
             /\ objects[f.property].type = objects[current].type
             /\ objects[f.property].label = objects[current].label
  <2>1. /\ f \in props /\ Match(patterns[f.pattern], p)
        /\ objects[f.property].type = objects[current].type
        /\ objects[f.property].label = objects[current].label
    BY DEF Clashes, SameLabel
  <2>2. f.pattern \in DOMAIN patterns /\ patterns[f.pattern] \in Pattern
    BY <2>1 DEF TypeOK, Entry
  <2>3. patterns[f.pattern].name = p.name /\ patterns[f.pattern].index # Wild
    BY <2>1, <2>2 DEF Match, HasWildcard
  <2>4. patterns[f.pattern] = p
    BY <2>1, <2>2, <2>3 DEF Match, Pattern
  <2> QED
    BY <2>1, <2>4
<1>2. ASSUME NEW f \in Clashes(p)
      PROVE  f = e
  BY <1>1 DEF AttachedOnce, SameKind, SameLabel
<1> QED
  BY <1>1, <1>2

\* A pattern object more.
LEMMA OnePatternMore ==
  ASSUME TypeOK, NEW p \in Pattern, patterns' = Append(patterns, p)
  PROVE  /\ Len(patterns) \in Nat /\ DOMAIN patterns = 1..Len(patterns)
         /\ DOMAIN patterns' = 1..(Len(patterns) + 1)
         /\ patterns'[Len(patterns) + 1] = p
         /\ \A m \in DOMAIN patterns : patterns'[m] = patterns[m]
         /\ \A name : HasWildcard(patterns, name) => HasWildcard(patterns', name)
<1>1. /\ Len(patterns) \in Nat /\ DOMAIN patterns = 1..Len(patterns)
      /\ DOMAIN patterns' = 1..(Len(patterns) + 1)
      /\ patterns'[Len(patterns) + 1] = p
      /\ \A m \in DOMAIN patterns : patterns'[m] = patterns[m]
  BY DEF TypeOK
<1>2. DOMAIN patterns \subseteq DOMAIN patterns'
  BY <1>1
<1>3. ASSUME NEW name, HasWildcard(patterns, name)
      PROVE  HasWildcard(patterns', name)
  BY <1>1, <1>2, <1>3 DEF HasWildcard
<1> QED
  BY <1>1, <1>3

\* One pattern is attached; kept are the entries from before.
Attaches(kept) ==
  /\ todo # <<>> /\ kept \subseteq props
  /\ patterns' = Append(patterns, Head(todo))
  /\ props' = kept \cup {NewEntry} /\ UNCHANGED objects

\* No entry that stays clashes with the new one.
LEMMA AttachKeepsOnce ==
  ASSUME TypeOK, AttachedOnce, NEW kept, Attaches(kept),
         \/ objects[current].type \in ListType
         \/ HasWildcard(patterns, Head(todo).name)
         \/ kept \cap Clashes(Head(todo)) = {}
  PROVE  AttachedOnce'
<1> DEFINE p == Head(todo)
<1>1. p \in Pattern /\ current \in DOMAIN objects
  BY DEF TypeOK, Attaches
<1>2. /\ Len(patterns) \in Nat /\ DOMAIN patterns = 1..Len(patterns)
      /\ patterns'[Len(patterns) + 1] = p
      /\ \A m \in DOMAIN patterns : patterns'[m] = patterns[m]
      /\ \A name : HasWildcard(patterns, name) => HasWildcard(patterns', name)
  BY <1>1, OnePatternMore DEF Attaches
<1>3. \A e \in kept : e \in props /\ e.pattern \in DOMAIN patterns
  BY DEF TypeOK, Entry, Attaches
<1>4. NewEntry.pattern = Len(patterns) + 1 /\ NewEntry.property = current
  BY DEF NewEntry
<1> HIDE DEF p
<1>5. objects' = objects /\ props' = kept \cup {NewEntry}
  BY DEF Attaches
<1>6. ASSUME NEW e \in kept, patterns[e.pattern] = p, ~HasWildcard(patterns', p.name),
             objects[e.property].type = objects[current].type,
             objects[e.property].label = objects[current].label,
             objects[current].type \notin ListType
      PROVE  FALSE
  <2>1. e \in Clashes(p)
    BY <1>3, <1>6 DEF Clashes, Match, SameLabel
  <2> QED
    BY <1>2, <1>6, <2>1 DEF p
<1>7. ASSUME NEW e \in props', NEW f \in props',
             patterns'[e.pattern] = patterns'[f.pattern],
             ~HasWildcard(patterns', patterns'[e.pattern].name),
             SameKind(objects'[e.property], objects'[f.property])
      PROVE  e = f
  <2>1. /\ objects[e.property].type \notin ListType
        /\ objects[e.property].type = objects[f.property].type
        /\ objects[e.property].label = objects[f.property].label
    BY <1>5, <1>7 DEF SameKind, SameLabel
  <2>2. CASE e \in kept /\ f \in kept
    <3>1. /\ patterns[e.pattern] = patterns[f.pattern]
          /\ ~HasWildcard(patterns, patterns[e.pattern].name)
      BY <1>2, <1>3, <1>7, <2>2
    <3> QED
      BY <1>3, <2>1, <2>2, <3>1 DEF AttachedOnce, SameKind, SameLabel
  <2>3. CASE e \in kept /\ f = NewEntry
    <3>1. patterns[e.pattern] = p /\ ~HasWildcard(patterns', p.name)
      BY <1>2, <1>3, <1>4, <1>7, <2>3
    <3> QED
      BY <1>4, <1>6, <2>1, <2>3, <3>1
  <2>4. CASE e = NewEntry /\ f \in kept
    <3>1. patterns[f.pattern] = p /\ ~HasWildcard(patterns', p.name)
      BY <1>2, <1>3, <1>4, <1>7, <2>4
    <3> QED
      BY <1>4, <1>6, <2>1, <2>4, <3>1
  <2> QED
    BY <1>5, <2>2, <2>3, <2>4
<1> QED
  BY <1>7 DEF AttachedOnce

\* InsertInstead removes the first clash: the only one, if there is no wildcard.
LEMMA InsteadAttaches ==
  ASSUME TypeOK, AttachedOnce, InsertInstead
  PROVE  LET kept == props \ {First(Clashes(Head(todo)))}
         IN  /\ Attaches(kept)
             /\ \/ HasWildcard(patterns, Head(todo).name)
                \/ kept \cap Clashes(Head(todo)) = {}
<1> DEFINE old == First(Clashes(Head(todo)))
<1>1. Attaches(props \ {old})
  BY DEF InsertInstead, Attaches
<1>2. Head(todo) \in Pattern /\ objects[current].type \notin ListType
  BY DEF InsertInstead, TypeOK
<1>3. old \in Clashes(Head(todo))
  <2>1. Clashes(Head(todo)) \in SUBSET props /\ Clashes(Head(todo)) # {}
    BY DEF Clashes, InsertInstead
  <2> QED
    BY <2>1, FirstIsOne
<1> HIDE DEF old
<1>4. CASE ~HasWildcard(patterns, Head(todo).name)
  <2>1. \A f \in Clashes(Head(todo)) : f = old
    BY <1>2, <1>3, <1>4, OneClash
  <2> QED
    BY <1>1, <2>1 DEF old
<1> QED
  BY <1>1, <1>4 DEF old

LEMMA NextAttachedOnce ==
  ASSUME StoreInv, AttachedOnce, [Next]_storeVars
  PROVE  AttachedOnce'
<1>1. TypeOK
  BY DEF StoreInv
<1>2. ASSUME props' \subseteq props, patterns' = patterns,
             \A n \in DOMAIN objects : objects'[n] = objects[n]
      PROVE  AttachedOnce'
  <2>1. \A e \in props : e.property \in DOMAIN objects
    BY <1>1 DEF TypeOK, Entry
  <2> QED
    BY <1>2, <2>1 DEF AttachedOnce, SameKind, SameLabel, HasWildcard
<1>3. CASE \E d \in Declaration : Declare(d)
  <2>1. PICK d \in Declaration : Declare(d)
    BY <1>3
  <2>2. props' \subseteq props /\ patterns' = patterns
    BY <2>1 DEF Declare, DeclareNormal, Refuse, DeclareList
  <2>3. d.property \in Property /\ objects' = Append(objects, d.property)
    BY <2>1, PropertiesAssumptions DEF Declare
  <2>4. \A n \in DOMAIN objects : objects'[n] = objects[n]
    BY <1>1, <2>2, <2>3, NewObjectTyped
  <2> QED
    BY <1>2, <2>2, <2>4
<1>4. CASE InsertListProp
  <2>1. Attaches(props) /\ objects[current].type \in ListType
    BY <1>4 DEF InsertListProp, Attaches
  <2> QED
    BY <1>1, <2>1, AttachKeepsOnce
<1>5. CASE InsertNew
  <2>1. Attaches(props) /\ props \cap Clashes(Head(todo)) = {}
    BY <1>5 DEF InsertNew, Attaches
  <2> QED
    BY <1>1, <2>1, AttachKeepsOnce
<1>6. CASE InsertInstead
  <2> DEFINE kept == props \ {First(Clashes(Head(todo)))}
  <2>1. /\ Attaches(kept)
        /\ HasWildcard(patterns, Head(todo).name) \/ kept \cap Clashes(Head(todo)) = {}
    BY <1>1, <1>6, InsteadAttaches
  <2> HIDE DEF kept
  <2> QED
    BY <1>1, <2>1, AttachKeepsOnce
<1>7. CASE InsertRepeated \/ UNCHANGED storeVars
  BY <1>2, <1>7 DEF InsertRepeated, storeVars
<1> QED
  BY <1>3, <1>4, <1>5, <1>6, <1>7 DEF Next, Insert

\* The first of one entry is that entry.
LEMMA FirstOfOne ==
  ASSUME NEW e, e.pattern \in Nat
  PROVE  First({e}) = e
  BY DEF First

\* After a pattern is attached, and nothing that clashes has stayed, a lookup of
\* it finds the new property.
LEMMA AttachedThenFound ==
  ASSUME TypeOK, NEW kept, Attaches(kept), NEW p \in Pattern, p = Head(todo),
         NEW n \in DOMAIN objects, n = current,
         ~HasWildcard(patterns, p.name), kept \cap Clashes(p) = {}
  PROVE  GetLabelled(objects[n].type, p, objects[n].label)' = n
<1> DEFINE x      == NewEntry
           covers == {e \in props' : Match(patterns'[e.pattern], p)}
           right  == {e \in covers : /\ objects'[e.property].type = objects'[n].type
                                     /\ objects'[e.property].label = objects'[n].label}
           wild   == {e \in covers : patterns'[e.pattern].index = Wild}
<1>1. /\ Len(patterns) \in Nat /\ DOMAIN patterns = 1..Len(patterns)
      /\ patterns'[Len(patterns) + 1] = p
      /\ \A m \in DOMAIN patterns : patterns'[m] = patterns[m]
  BY OnePatternMore DEF Attaches
<1>2. /\ x.pattern = Len(patterns) + 1 /\ x.property = n
      /\ patterns'[x.pattern] = p /\ x.pattern \in Nat
  BY <1>1 DEF NewEntry
<1>3. \A e \in kept : /\ e \in props /\ e.pattern \in DOMAIN patterns
                      /\ patterns'[e.pattern] = patterns[e.pattern]
  BY <1>1 DEF TypeOK, Entry, Attaches
<1>4. props' = kept \cup {x} /\ objects' = objects
  BY DEF Attaches
<1> HIDE DEF x
<1>5. right = {x}
  <2>1. x \in right
    BY <1>2, <1>4 DEF Match
  <2>2. ASSUME NEW e \in right, e \in kept
        PROVE  FALSE
    <3>1. e \in Clashes(p)
      BY <1>3, <1>4, <2>2 DEF Clashes, SameLabel
    <3> QED
      BY <2>2, <3>1
  <2> QED
    BY <1>4, <2>1, <2>2
<1>6. wild \subseteq {x}
  <2>1. ASSUME NEW e \in wild, e \in kept
        PROVE  FALSE
    BY <1>3, <2>1 DEF HasWildcard, Match
  <2> QED
    BY <1>4, <2>1
<1>7. GetLabelled(objects[n].type, p, objects[n].label)'
        = IF wild \cap right # {} THEN First(wild \cap right).property
          ELSE IF wild = {} /\ right # {} THEN First(right).property ELSE 0
  BY DEF GetLabelled
<1> HIDE DEF right, wild
<1>8. First({x}) = x
  BY <1>2, FirstOfOne
<1>9. CASE wild = {}
  BY <1>2, <1>5, <1>7, <1>8, <1>9
<1>10. CASE wild = {x}
  BY <1>2, <1>5, <1>7, <1>8, <1>10
<1> QED
  BY <1>6, <1>9, <1>10

\* A pattern that is given again is found where it was.
LEMMA RepeatedIsFound ==
  ASSUME TypeOK, InsertRepeated, NEW p \in Pattern, p = Head(todo),
         NEW n \in DOMAIN objects, n = current, ~HasWildcard(patterns, p.name)
  PROVE  GetLabelled(objects[n].type, p, objects[n].label)' = n
<1> DEFINE covers == {e \in props : Match(patterns[e.pattern], p)}
           right  == {e \in covers : /\ objects[e.property].type = objects[n].type
                                     /\ objects[e.property].label = objects[n].label}
           wild   == {e \in covers : patterns[e.pattern].index = Wild}
<1>1. /\ props' = props /\ patterns' = patterns /\ objects' = objects
      /\ Clashes(p) # {} /\ First(Clashes(p)).property = n
  BY DEF InsertRepeated
<1>2. right = Clashes(p)
  BY DEF Clashes, SameLabel
<1>3. wild = {}
  <2>1. ASSUME NEW e \in wild
        PROVE  FALSE
    <3>1. e.pattern \in DOMAIN patterns
      BY DEF TypeOK, Entry
    <3> QED
      BY <3>1 DEF HasWildcard, Match
  <2> QED
    BY <2>1
<1>4. GetLabelled(objects[n].type, p, objects[n].label)'
        = IF wild \cap right # {} THEN First(wild \cap right).property
          ELSE IF wild = {} /\ right # {} THEN First(right).property ELSE 0
  BY <1>1 DEF GetLabelled
<1> HIDE DEF right, wild
<1> QED
  BY <1>1, <1>2, <1>3, <1>4

\* A normal property is found as soon as it is attached, instead of every older
\* one, when the name has no wildcard: the first clash, which is the only one that is
\* taken out, is the only one there is.
THEOREM StoreFindsAttached == Spec => AttachedIsFound
<1>1. Init => AttachedOnce
  BY DEF Init, AttachedOnce
<1>2. StoreInv /\ AttachedOnce /\ [Next]_storeVars => AttachedOnce'
  BY NextAttachedOnce
<1>3. StoreInv /\ AttachedOnce /\ [Next]_storeVars =>
        [\A p \in Pattern, n \in DOMAIN objects :
           /\ todo # <<>> /\ Head(todo) = p /\ current = n /\ todo' = Tail(todo)
           /\ objects[n].type \notin ListType
           /\ [p EXCEPT !.index = Wild] \notin Range(patterns)
           => GetLabelled(objects[n].type, p, objects[n].label)' = n]_storeVars
  <2> SUFFICES ASSUME StoreInv, AttachedOnce, Next,
                      NEW p \in Pattern, NEW n \in DOMAIN objects,
                      todo # <<>>, Head(todo) = p, current = n,
                      objects[n].type \notin ListType,
                      [p EXCEPT !.index = Wild] \notin Range(patterns)
               PROVE  GetLabelled(objects[n].type, p, objects[n].label)' = n
    OBVIOUS
  <2>1. TypeOK
    BY DEF StoreInv
  <2>2. ~HasWildcard(patterns, p.name)
    BY <2>1, WildcardInRange
  <2>3. CASE InsertNew
    <3>1. Attaches(props) /\ props \cap Clashes(p) = {}
      BY <2>3 DEF InsertNew, Attaches
    <3> QED
      BY <2>1, <2>2, <3>1, AttachedThenFound
  <2>4. CASE InsertInstead
    <3> DEFINE kept == props \ {First(Clashes(Head(todo)))}
    <3>1. /\ Attaches(kept)
          /\ HasWildcard(patterns, p.name) \/ kept \cap Clashes(Head(todo)) = {}
      BY <2>1, <2>4, InsteadAttaches
    <3> HIDE DEF kept
    <3>2. kept \cap Clashes(p) = {}
      BY <2>2, <3>1
    <3> QED
      BY <2>1, <2>2, <3>1, <3>2, AttachedThenFound
  <2>5. CASE InsertRepeated
    BY <2>1, <2>2, <2>5, RepeatedIsFound
  <2>6. ~InsertListProp /\ ~\E d \in Declaration : Declare(d)
    BY DEF InsertListProp, Declare
  <2> QED
    BY <2>3, <2>4, <2>5, <2>6 DEF Next, Insert
<1> QED
  BY <1>1, <1>2, <1>3, StoreIsSound, PTL DEF Spec, AttachedIsFound

\* So it is for the declarations of every program that the kernel runs.
THEOREM KernelFindsAttached == KernelSpec => AttachedIsFound
  BY KernelUsesTheStore, StoreFindsAttached, PTL

=============================================================================
