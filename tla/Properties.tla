----------------------------- MODULE Properties -----------------------------
(***************************************************************************)
(* The kernel's store of properties (core/Props.cc, core/Props.hh): which  *)
(* property objects are attached to which patterns.                        *)
(*                                                                         *)
(* Two multimaps hold the attachments: props, from a name to pairs of a    *)
(* pattern and a property, and pats, from a property to patterns.  Patterns *)
(* and properties are objects on the heap; each is named here by the order *)
(* in which it was made, and since a multimap keeps equal keys in the order *)
(* of their insertion, that number is also the order in which a lookup     *)
(* meets the entries.                                                      *)
(*                                                                         *)
(* One pattern of a declaration is attached in one step.  The index of a   *)
(* pattern and the data of a property matter only as far as they are       *)
(* equal or not.                                                           *)
(***************************************************************************)
EXTENDS Naturals, Sequences, FiniteSets, Functions

CONSTANTS Name,          \* names of objects
          Index,         \* what may follow a name: indices, or none
          Wild,          \* the range wildcard, as in A{#}
          Type,          \* classes of properties
          ListType,      \* those derived from list_property
          IndicesType,   \* the list property whose equals compares names
          Label,         \* values of label, set_name
          Data,          \* the rest of a property's arguments
          Declaration,   \* the declarations a program may make
          MaxObjects     \* bound: declarations made

Pattern  == [name : Name, index : Index]
Property == [type : Type, label : Label, data : Data]

ASSUME PropertiesAssumptions ==
  /\ ListType \subseteq Type /\ IndicesType \in ListType
  /\ Wild \in Index
  /\ MaxObjects \in Nat
  /\ Declaration \subseteq [property : Property, patterns : Seq(Pattern)]
  /\ \A d \in Declaration : d.patterns # <<>>

VARIABLES
  objects,   \* the property objects made so far
  patterns,  \* the pattern objects made so far
  props,     \* the map from patterns to properties
  pats,      \* the map from properties to patterns
  freed,     \* property objects that were deleted
  current,   \* the object a declaration is attaching
  todo       \* the patterns it has still to be attached to

storeVars == <<objects, patterns, props, pats, freed, current, todo>>

Entry == [pattern : DOMAIN patterns, property : DOMAIN objects]

Init ==
  /\ objects = <<>> /\ patterns = <<>>
  /\ props = {} /\ pats = {} /\ freed = {}
  /\ current = 0 /\ todo = <<>>

(***************************************************************************)
(* Matching and comparison.                                                *)
(***************************************************************************)
\* pattern::match: the pattern p covers the object q.
Match(p, q) == p.name = q.name /\ p.index \in {q.index, Wild}

\* labelled_property: two labels, or none, that are the same.
SameLabel(one, two) == one.label = two.label

\* property::equals and its overrides: a second object of the type with the
\* same name either is the same property or replaces it.
ExactMatch(one, two) ==
  /\ one.type = two.type /\ one.type = IndicesType
  /\ one.label = two.label /\ one.data = two.data
IdMatch(one, two) ==
  /\ one.type = two.type /\ one.type = IndicesType
  /\ one.label = two.label /\ one.data # two.data

\* The entry of a set which is met first.
First(entries) ==
  CHOOSE e \in entries : \A f \in entries : e.pattern <= f.pattern

(***************************************************************************)
(* master_insert, insert_prop and insert_list_prop.                        *)
(***************************************************************************)
\* Objects in use that are the same as, or replaced by, a list property.
Exact(property) ==
  {e.property : e \in {f \in pats : ExactMatch(objects[f.property], property)}}
Replaced(property) ==
  {e.property : e \in {f \in pats : IdMatch(objects[f.property], property)}}

\* A normal property.
DeclareNormal(d) ==
  /\ d.property.type \notin ListType
  /\ current' = Len(objects) + 1
  /\ todo' = d.patterns
  /\ UNCHANGED <<patterns, props, pats, freed>>

\* master_insert: a list property of one object is refused.
ListIsRefused(d) == d.property.type \in ListType /\ Len(d.patterns) < 2

Refuse(d) ==
  /\ ListIsRefused(d)
  /\ UNCHANGED <<patterns, props, pats, freed, current, todo>>

Mutant_DeclareList(d) ==   \* the replaced object is left in props
  /\ d.property.type \in ListType /\ ~ListIsRefused(d)
  /\ current' = IF Exact(d.property) # {}
                THEN CHOOSE n \in Exact(d.property) : TRUE
                ELSE Len(objects) + 1
  /\ pats' = {e \in pats : e.property \notin Replaced(d.property)}
  /\ todo' = d.patterns
  /\ UNCHANGED <<patterns, props, freed>>

Mutant_DeclareList_keeps(d) ==   \* no removal of the replaced object
  /\ d.property.type \in ListType /\ ~ListIsRefused(d)
  /\ current' = IF Exact(d.property) # {}
                THEN CHOOSE n \in Exact(d.property) : TRUE
                ELSE Len(objects) + 1
  /\ todo' = d.patterns
  /\ UNCHANGED <<patterns, props, pats, freed>>

\* A list property: an object with exact_match is used again, one with
\* id_match loses all its patterns.  Index names are attached twice, as
\* superscripts and as subscripts.
DeclareList(d) ==
  /\ d.property.type \in ListType /\ ~ListIsRefused(d)
  /\ current' = IF Exact(d.property) # {}
                THEN CHOOSE n \in Exact(d.property) : TRUE
                ELSE Len(objects) + 1
  /\ pats' = {e \in pats : e.property \notin Replaced(d.property)}
  /\ props' = {e \in props : e.property \notin Replaced(d.property)}
  /\ todo' = IF d.property.type = IndicesType
             THEN d.patterns \o d.patterns ELSE d.patterns
  /\ UNCHANGED <<patterns, freed>>

Declare(d) ==
  /\ todo = <<>>
  /\ Len(objects) < MaxObjects
  /\ objects' = Append(objects, d.property)
  /\ DeclareNormal(d) \/ Refuse(d) \/ DeclareList(d)

\* The new entry, for a pattern object made now.
NewEntry == [pattern |-> Len(patterns) + 1, property |-> current]

\* insert_list_prop, for one pattern: "we just insert the new property
\* regardless".
InsertListProp ==
  /\ todo # <<>> /\ objects[current].type \in ListType
  /\ patterns' = Append(patterns, Head(todo))
  /\ pats' = pats \cup {NewEntry}
  /\ props' = props \cup {NewEntry}
  /\ todo' = Tail(todo)
  /\ UNCHANGED <<objects, freed, current>>

Mutant_Clashes(p) ==   \* the comparison of labels is inverted
  {e \in props : /\ Match(patterns[e.pattern], p)
                 /\ objects[e.property].type = objects[current].type
                 /\ ~SameLabel(objects[e.property], objects[current])}

\* Entries that cannot co-exist with the current property on a pattern.
Clashes(p) ==
  {e \in props : /\ Match(patterns[e.pattern], p)
                 /\ objects[e.property].type = objects[current].type
                 /\ SameLabel(objects[e.property], objects[current])}

\* insert_prop without a clash.
InsertNew ==
  /\ todo # <<>> /\ objects[current].type \notin ListType
  /\ Clashes(Head(todo)) = {}
  /\ patterns' = Append(patterns, Head(todo))
  /\ pats' = pats \cup {NewEntry}
  /\ props' = props \cup {NewEntry}
  /\ todo' = Tail(todo)
  /\ UNCHANGED <<objects, freed, current>>

\* insert_prop for a pattern that was given twice.
InsertRepeated ==
  /\ todo # <<>> /\ objects[current].type \notin ListType
  /\ Clashes(Head(todo)) # {}
  /\ First(Clashes(Head(todo))).property = current
  /\ todo' = Tail(todo)
  /\ UNCHANGED <<objects, patterns, props, pats, freed, current>>

Mutant_InsertInstead ==   \* the test of oldprop==pr is missing
  /\ todo # <<>> /\ objects[current].type \notin ListType
  /\ Clashes(Head(todo)) # {}
  /\ LET old  == First(Clashes(Head(todo)))
         kept == pats \ {old}
     IN /\ patterns' = Append(patterns, Head(todo))
        /\ pats' = kept \cup {NewEntry}
        /\ props' = (props \ {old}) \cup {NewEntry}
        /\ freed' = IF \E e \in kept : e.property = old.property THEN freed
                    ELSE freed \cup {old.property}
  /\ todo' = Tail(todo)
  /\ UNCHANGED <<objects, current>>

\* insert_prop where the first clash is of another object: its entry is
\* removed from both maps, the object is deleted with its last entry.
InsertInstead ==
  /\ todo # <<>> /\ objects[current].type \notin ListType
  /\ Clashes(Head(todo)) # {}
  /\ LET old  == First(Clashes(Head(todo)))
         kept == pats \ {old}
     IN /\ old.property # current
        /\ patterns' = Append(patterns, Head(todo))
        /\ pats' = kept \cup {NewEntry}
        /\ props' = (props \ {old}) \cup {NewEntry}
        /\ freed' = IF \E e \in kept : e.property = old.property THEN freed
                    ELSE freed \cup {old.property}
  /\ todo' = Tail(todo)
  /\ UNCHANGED <<objects, current>>

Insert == InsertListProp \/ InsertNew \/ InsertRepeated \/ InsertInstead

Next == (\E d \in Declaration : Declare(d)) \/ Insert

Spec == Init /\ [][Next]_storeVars

(***************************************************************************)
(* Lookups.                                                                *)
(***************************************************************************)
\* Properties::get_composite<T> of one object: patterns without a wildcard
\* first, then those with one; 0 if there is none.
Get(type, q) ==
  LET found    == {e \in props : /\ Match(patterns[e.pattern], q)
                                 /\ objects[e.property].type = type}
      specific == {e \in found : patterns[e.pattern].index # Wild}
  IN IF specific # {} THEN First(specific).property
     ELSE IF found # {} THEN First(found).property ELSE 0

\* Properties::get_composite<T> with a label: the second pass is made in any
\* case, and an entry with a wildcard that matches but has another type or
\* label discards what the first pass found.
GetLabelled(type, q, label) ==
  LET covers   == {e \in props : Match(patterns[e.pattern], q)}
      right    == {e \in covers : /\ objects[e.property].type = type
                                  /\ objects[e.property].label = label}
      wild     == {e \in covers : patterns[e.pattern].index = Wild}
  IN IF wild \cap right # {} THEN First(wild \cap right).property
     ELSE IF wild = {} /\ right # {} THEN First(right).property ELSE 0

(***************************************************************************)
(* Properties.                                                             *)
(***************************************************************************)
TypeOK ==
  /\ objects \in Seq(Property) /\ patterns \in Seq(Pattern)
  /\ props \subseteq Entry /\ pats \subseteq Entry
  /\ freed \subseteq DOMAIN objects
  /\ current \in 0..Len(objects)
  /\ todo \in Seq(Pattern)
  /\ todo # <<>> => current # 0

\* The two multimaps hold the same attachments: an object whose entries in
\* pats are gone is deleted, so an entry that only props still has would be
\* found by a lookup after that ("we check the pats map to see if the
\* reference count for that property has dropped to zero").
MapsAgree == props = pats

\* No entry of either map, and no declaration in progress, refers to an object
\* that was deleted.
NoDanglingProperty ==
  /\ \A e \in props \cup pats : e.property \notin freed
  /\ todo # <<>> => current \notin freed

\* "You can only have one type of index for each name": index sets in use
\* that have the same name are one object, with one position and parent.
OneIndexSetPerName ==
  \A e, f \in pats :
    /\ objects[e.property].type = IndicesType
    /\ objects[f.property].type = IndicesType
    /\ objects[e.property].label = objects[f.property].label
    => e.property = f.property

\* A normal property is what a lookup of its pattern finds as soon as it is
\* attached, instead of every older one, if the name never had a pattern with
\* a wildcard.
AttachedIsFound ==
  [][\A p \in Pattern, n \in DOMAIN objects :
       /\ todo # <<>> /\ Head(todo) = p /\ current = n /\ todo' = Tail(todo)
       /\ objects[n].type \notin ListType
       /\ [p EXCEPT !.index = Wild] \notin Range(patterns)
       => GetLabelled(objects[n].type, p, objects[n].label)' = n]_storeVars

\* The comment above master_insert: after "{a,b,c,d,e}::Indices(vector).
\* {a,b,c}::Indices(spinor)." it says: "This should make a,b,c spinor indices,
\* and keep d,e as vector indices."
\* (The code does not keep this: see the README.)
LastIndicesWin ==
  todo = <<>> /\ current # 0 /\ objects[current].type = IndicesType =>
    \A e \in props : e.property = current =>
      Get(IndicesType, patterns[e.pattern]) = current
=============================================================================
