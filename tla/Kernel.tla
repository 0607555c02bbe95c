------------------------------- MODULE Kernel -------------------------------
(***************************************************************************)
(* How the server runs a block (client_server/Server.cc): run_string       *)
(* translates it line by line with pre_parse, which keeps an expression    *)
(* that is not finished at the end of a line, or of the block, in the      *)
(* Server object, and hands the statements to Python.  Declarations among  *)
(* them fill the kernel's store of properties (Properties).                *)
(*                                                                         *)
(* A line is what pre_parse makes of it: its kind, the termination         *)
(* character at its end, the name an assignment is for, the declaration.   *)
(* Text is kept as the numbers of the lines it comes from.                 *)
(***************************************************************************)
EXTENDS Properties, SequencesExt

CONSTANTS Line,      \* lines a notebook may have
          MaxLines,  \* bound: lines in all blocks
          None

\* kind "assign": name := ..., "declare": ...::..., "converge": converge(..):,
\* "text": any other, "comment", "blank", "bare": a ; and nothing else.
LineRecord ==
  [kind : {"assign", "declare", "converge", "text", "comment", "blank", "bare"},
   end : {"", ".", ";", ":"}, name : STRING, declaration : Declaration \cup {None}]

ASSUME KernelAssumptions ==
  /\ MaxLines \in Nat
  /\ Line \subseteq LineRecord
  /\ \A l \in Line : l.kind = "declare" => l.declaration \in Declaration

VARIABLES
  lhs, rhs,   \* the expression that pre_parse is reading
  lines,      \* the lines read so far, of all blocks
  program,    \* newblk: the statements of the block that are not yet executed
  phase,      \* "parse", "run", or "property": inside a property's constructor
  value,      \* Python's variables: the text each expression was made from
  emitted     \* history: the text of every statement that pre_parse returned

parseVars == <<lhs, rhs, lines, emitted>>
runVars   == <<program, phase, value>>
vars == <<storeVars, parseVars, runVars>>

\* A statement: what it does and the lines it was made from.  Whether it also
\* displays its result is left out.
Statement(does, what, text) == [does |-> does, what |-> what, text |-> text]

KernelInit ==
  /\ Init
  /\ lhs = None /\ rhs = <<>> /\ lines = <<>> /\ emitted = <<>>
  /\ program = <<>> /\ phase = "parse" /\ value = <<>>

(***************************************************************************)
(* pre_parse.                                                              *)
(***************************************************************************)
Now == Len(lines) + 1
Terminated(l) == l.end # ""
IsCode(l) == l.kind \notin {"comment", "blank", "bare"}

Emit(statement) ==
  /\ program' = Append(program, statement)
  /\ emitted' = Append(emitted, statement.text)

\* Comments and blank lines are no code, inside an expression or outside.
PreParseSkips(l) ==
  /\ l.kind \in {"comment", "blank"}
  /\ UNCHANGED <<lhs, rhs, program, emitted>>

\* A bare ; displays the last expression, and does not end a pending one.
PreParseBare(l) ==
  /\ l.kind = "bare"
  /\ Emit(Statement("display", None, <<>>))
  /\ UNCHANGED <<lhs, rhs>>

Mutant_PreParseEnds(l) ==   \* rhs is not cleared
  /\ IsCode(l) /\ lhs # None /\ Terminated(l)
  /\ Emit(Statement("set", lhs, Append(rhs, Now)))
  /\ lhs' = None /\ UNCHANGED rhs

\* The last line of a pending expression, whatever it looks like.
PreParseEnds(l) ==
  /\ IsCode(l) /\ lhs # None /\ Terminated(l)
  /\ Emit(Statement("set", lhs, Append(rhs, Now)))
  /\ lhs' = None /\ rhs' = <<>>

\* A continuation line.
PreParseContinues(l) ==
  /\ IsCode(l) /\ lhs # None /\ ~Terminated(l)
  /\ rhs' = Append(rhs, Now)
  /\ UNCHANGED <<lhs, program, emitted>>

\* An assignment that is not finished on its line.
PreParseCaptures(l) ==
  /\ l.kind = "assign" /\ lhs = None /\ ~Terminated(l)
  /\ lhs' = l.name /\ rhs' = <<Now>>
  /\ UNCHANGED <<program, emitted>>

Mutant_PreParseAssigns(l) ==   \* terminated or not
  /\ l.kind = "assign" /\ lhs = None
  /\ Emit(Statement("set", l.name, <<Now>>))
  /\ UNCHANGED <<lhs, rhs>>

PreParseAssigns(l) ==
  /\ l.kind = "assign" /\ lhs = None /\ Terminated(l)
  /\ Emit(Statement("set", l.name, <<Now>>))
  /\ UNCHANGED <<lhs, rhs>>

\* __cdbtmp__ = X(...), and display(__cdbtmp__)
PreParseDeclares(l) ==
  /\ l.kind = "declare" /\ lhs = None
  /\ Emit(Statement("declare", l.declaration, <<Now>>))
  /\ UNCHANGED <<lhs, rhs>>

\* Python, with $...$ and converge() replaced.
PreParsePython(l) ==
  /\ l.kind \in {"text", "converge"} /\ lhs = None
  /\ Emit(Statement("python", None, <<Now>>))
  /\ UNCHANGED <<lhs, rhs>>

pre_parse(l) ==
  /\ phase = "parse" /\ Len(lines) < MaxLines
  /\ lines' = Append(lines, l)
  /\ \/ PreParseSkips(l) \/ PreParseBare(l) \/ PreParseEnds(l)
     \/ PreParseContinues(l) \/ PreParseCaptures(l) \/ PreParseAssigns(l)
     \/ PreParseDeclares(l) \/ PreParsePython(l)
  /\ UNCHANGED <<storeVars, phase, value>>

(***************************************************************************)
(* The execution of the translated block.                                  *)
(***************************************************************************)
\* All lines of the block are translated: boost::python::exec.
run_string ==
  /\ phase = "parse" /\ program # <<>>
  /\ phase' = "run"
  /\ UNCHANGED <<storeVars, parseVars, program, value>>

\* The statement before the first of program is done.
Proceed(rest) ==
  /\ program' = rest
  /\ phase' = IF rest = <<>> THEN "parse" ELSE "run"

Running(does) == phase = "run" /\ Head(program).does = does

\* name = Ex(...)
exec_set ==
  /\ Running("set")
  /\ value' = [n \in DOMAIN value \cup {Head(program).what} |->
                 IF n = Head(program).what THEN Head(program).text ELSE value[n]]
  /\ Proceed(Tail(program))
  /\ UNCHANGED <<storeVars, parseVars>>

\* Property<X>::Property begins: the declaration is given to master_insert.
exec_declare ==
  /\ Running("declare")
  /\ Declare(Head(program).what)
  /\ IF ListIsRefused(Head(program).what)
     THEN Proceed(<<>>)
     ELSE program' = Tail(program) /\ phase' = "property"
  /\ UNCHANGED <<parseVars, value>>

exec_insert ==
  /\ phase = "property" /\ Insert
  /\ IF todo' = <<>> THEN Proceed(program) ELSE UNCHANGED <<program, phase>>
  /\ UNCHANGED <<parseVars, value>>

\* Python code, or the display of the last expression.
exec_other ==
  /\ Running("python") \/ Running("display")
  /\ Proceed(Tail(program))
  /\ UNCHANGED <<storeVars, parseVars, value>>

\* An exception, or an error of syntax before the first statement: the rest of
\* the block is not executed.  What pre_parse has kept stays.
exec_fails ==
  /\ phase = "run"
  /\ Proceed(<<>>)
  /\ UNCHANGED <<storeVars, parseVars, value>>

KernelNext ==
  \/ \E l \in Line : pre_parse(l)
  \/ run_string \/ exec_set \/ exec_declare \/ exec_insert \/ exec_other
  \/ exec_fails

KernelSpec == KernelInit /\ [][KernelNext]_vars

(***************************************************************************)
(* Properties.                                                             *)
(***************************************************************************)
\* The lines of code of ls are the texts ts, one after the other: each of them is
\* in one place, and the later the line, the later its place.
UsedOnce(ls, ts) ==
  /\ \A n \in DOMAIN ls : IsCode(ls[n]) => \E m \in DOMAIN ts : n \in ToSet(ts[m])
  /\ \A m \in DOMAIN ts : \A i \in DOMAIN ts[m] :
       /\ ts[m][i] \in DOMAIN ls /\ IsCode(ls[ts[m][i]])
       /\ \A k \in DOMAIN ts : \A j \in DOMAIN ts[k] :
            m < k \/ (m = k /\ i < j) => ts[m][i] < ts[k][j]

\* Across lines and blocks, and whatever comments, displays, failures and
\* swallowed Python lines lie between them, every line of code becomes part of
\* exactly one statement or of the pending expression, in the order of the
\* notebook.
LinesAreUsedOnce == UsedOnce(lines, Append(emitted, rhs))

\* An expression begins with a line that assigns its name and ends with the
\* first line after that which has a termination character.
ExpressionsEndAtATerminator ==
  \A name \in DOMAIN value :
    LET text == value[name]
    IN /\ lines[text[1]].kind = "assign" /\ lines[text[1]].name = name
       /\ \A n \in DOMAIN text : Terminated(lines[text[n]]) <=> n = Len(text)
=============================================================================
