------------------------------ MODULE MCKernel ------------------------------
(* The kernel with a handful of declarations and lines, for TLC.           *)
EXTENDS Kernel

\* Objects A_m, A_n, A{#}, B, and the index names a, b, c.
A(index) == [name |-> "A", index |-> index]
Bare(name) == [name |-> name, index |-> "none"]

Plain    == [type |-> "AntiSymmetric", label |-> "none", data |-> "none"]
W(label) == [type |-> "Weight", label |-> label, data |-> "none"]
Set(label, position) ==
  [type |-> "Indices", label |-> label, data |-> position]
Sort     == [type |-> "SortOrder", label |-> "none", data |-> "none"]

Of(property, patternList) == [property |-> property, patterns |-> patternList]

MCDeclaration ==
  {Of(Plain, <<A("m")>>), Of(Plain, <<A("#")>>),
   Of(Plain, <<A("m"), A("m"), A("n")>>),
   Of(W("x"), <<A("m")>>), Of(W("y"), <<A("m"), A("n")>>),
   Of(Set("vector", "free"), <<Bare("a"), Bare("b")>>),
   Of(Set("vector", "fixed"), <<Bare("b"), Bare("c")>>),
   Of(Set("spinor", "free"), <<Bare("a"), Bare("c")>>),
   Of(Sort, <<Bare("B"), A("m")>>), Of(Sort, <<Bare("B")>>)}

TextLine(kind, end, name) ==
  [kind |-> kind, end |-> end, name |-> name, declaration |-> None]

MCLine ==
  {[kind |-> "declare", end |-> ".", name |-> "", declaration |-> d] :
     d \in MCDeclaration}
  \cup {TextLine("assign", "", "ex"), TextLine("assign", ".", "ey"),
        TextLine("text", "", ""), TextLine("text", ";", ""),
        TextLine("converge", ":", ""),
        TextLine("comment", "", ""), TextLine("bare", ";", "")}
=============================================================================
