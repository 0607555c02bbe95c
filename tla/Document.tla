------------------------------ MODULE Document ------------------------------
(***************************************************************************)
(* The notebook's document and its undo stack: the actions of Actions.cc,  *)
(* the queue that DocumentThread.cc executes them from, and the visual     *)
(* representation NotebookWindow.cc and CodeInput.cc keep of the document. *)
(*                                                                         *)
(* The document is a sequence of input cells, each with output cells under *)
(* it.  A node of the tree is known by its address; iterators held by      *)
(* queued and executed actions are such addresses.  The text of an input   *)
(* cell is kept twice, in the document (textbuf) and in the text buffer of *)
(* its widget; characters take one byte.  There is one canvas.             *)
(*                                                                         *)
(* Module Notebook treats the races of deletions with running cells.  Here *)
(* the user deletes, runs and undoes only when nothing runs and no action  *)
(* is queued, but types, splits and adds cells at any time.                *)
(***************************************************************************)
EXTENDS Integers, Sequences, FiniteSets, SequencesExt

CONSTANTS MaxNodes,         \* bound: nodes of the document ever made
          Char, NewLine,    \* characters
          MaxText,          \* bound: characters typed into a cell
          MaxOps,           \* bound: operations of the user
          MaxUndos,         \* bound: undo steps
          NoCell

Address == 1..MaxNodes    \* addresses of tree nodes

ASSUME DocumentBounds ==
  /\ NewLine \in Char /\ NoCell \notin Address
  /\ MaxNodes >= 1 /\ {MaxNodes, MaxText, MaxOps, MaxUndos} \subseteq Nat

VARIABLES
  doc,        \* DocumentThread::doc, the children of the document cell
  pending_actions, undo_stack,
  view,       \* the widgets, in the order they are packed
  stale,      \* keys of visualcells that belong to no cell
  current_cell,
  gui_pc,     \* "idle" or "processing"
  erasing,    \* the deletion that signal_erase announced
  evaluating, \* cells whose result did not arrive yet
  corrupt,    \* "no", or the error that ended the program
  created,    \* addresses taken so far
  ops, undos, \* how much of the bounds was used
  clean       \* history: no undo step was taken of a step it cannot undo

docVars  == <<doc, view, stale, current_cell, created>>
userVars == <<ops, undos, clean>>
vars == <<docVars, pending_actions, undo_stack, gui_pc, erasing, evaluating,
          corrupt, userVars>>

NoErase == [cell |-> NoCell, from |-> 0, to |-> 0]

Index(d, c)   == CHOOSE i \in DOMAIN d : d[i].addr = c
HasCell(d, c) == \E i \in DOMAIN d : d[i].addr = c
Widgets(v)    == {v[i].addr : i \in DOMAIN v}
                   \cup UNION {ToSet(v[i].kids) : i \in DOMAIN v}

(* What the user sees of a document: its text and output, not addresses.    *)
Contents(d) ==
  [i \in DOMAIN d |->
     [text |-> d[i].text, kids |-> [j \in DOMAIN d[i].kids |-> d[i].kids[j].text]]]

(* Addresses of n new nodes.  None is used twice, so that an iterator to an *)
(* erased node is seen to be one.                                           *)
NewNodes(n) ==
  IF created + n \in Address THEN {[i \in 1..n |-> created + i]} ELSE {}

Input(a, t)  == [addr |-> a, text |-> t, kids |-> <<>>]
InputWidget(a, t) == [addr |-> a, buffer |-> t, kids |-> <<>>]

(* A text with s inserted after its first p characters, and without those   *)
(* between two positions.                                                   *)
Inserted(t, p, s)    == SubSeq(t, 1, p) \o s \o SubSeq(t, p + 1, Len(t))
Erased(t, from, to)  == SubSeq(t, 1, from) \o SubSeq(t, to + 1, Len(t))

(* new_document: one empty cell, with the cursor in it.                     *)
Init ==
  /\ doc = <<Input(1, <<>>)>> /\ view = <<InputWidget(1, <<>>)>>
  /\ stale = {} /\ current_cell = NoCell /\ created = 1
  /\ pending_actions = <<[act |-> "PositionCursor", cell |-> 1, pos |-> "in"]>>
  /\ undo_stack = <<>>
  /\ gui_pc = "processing" /\ erasing = NoErase /\ evaluating = {}
  /\ corrupt = "no" /\ ops = 0 /\ undos = 0 /\ clean = TRUE

-----------------------------------------------------------------------------
(* The user's operations.  Each queues its actions and has them executed.   *)

UserQueues(actions) ==
  /\ corrupt = "no" /\ gui_pc = "idle" /\ ops < MaxOps
  /\ ops' = ops + 1
  /\ pending_actions' = pending_actions \o actions
  /\ gui_pc' = "processing"
  /\ UNCHANGED <<undo_stack, corrupt, undos, clean>>

Quiet == pending_actions = <<>> /\ evaluating = {}

(* A character is typed or pasted: the default handler puts it into the     *)
(* buffer, then handle_insert and cell_content_insert queue the action.     *)
cell_content_insert(i, p, ch) ==
  /\ i \in DOMAIN view /\ Len(view[i].buffer) < MaxText
  /\ p \in 0..Len(view[i].buffer)
  /\ view' = [view EXCEPT ![i].buffer = InsertAt(@, p + 1, ch)]
  /\ current_cell' = view[i].addr
  /\ UserQueues(<<[act |-> "InsertText", cell |-> view[i].addr, pos |-> p,
                   text |-> <<ch>>]>>)
  /\ UNCHANGED <<doc, stale, created, erasing, evaluating>>

(* Text is erased: handle_erase runs before the default handler does.       *)
cell_content_erase(i, from, to) ==
  /\ i \in DOMAIN view
  /\ from \in 0..Len(view[i].buffer) /\ to \in (from + 1)..Len(view[i].buffer)
  /\ current_cell' = view[i].addr
  /\ erasing' = [cell |-> view[i].addr, from |-> from, to |-> to]
  /\ UserQueues(<<[act |-> "EraseText", cell |-> view[i].addr, from |-> from,
                   to |-> to]>>)
  /\ UNCHANGED <<doc, view, stale, created, evaluating>>

on_edit_insert(where) ==
  /\ current_cell # NoCell
  /\ UserQueues(<<[act |-> "AddCell", cell |-> current_cell, pos |-> where,
                   text |-> <<>>]>>)
  /\ UNCHANGED <<docVars, erasing, evaluating>>

on_edit_insert_above == on_edit_insert("before")
on_edit_insert_below == on_edit_insert("after")

(* Mutant: the cursor stays in the cell that is deleted.                    *)
Mutant_on_edit_delete ==
  /\ current_cell # NoCell /\ HasCell(doc, current_cell) /\ Quiet
  /\ LET i == Index(doc, current_cell) IN doc[i].text # <<>> \/ i < Len(doc)
  /\ UserQueues(<<[act |-> "RemoveCell", cell |-> current_cell],
                  [act |-> "PositionCursor", cell |-> current_cell, pos |-> "next"]>>)
  /\ UNCHANGED <<docVars, erasing, evaluating>>

on_edit_delete ==
  /\ current_cell # NoCell /\ HasCell(doc, current_cell) /\ Quiet
  /\ LET i == Index(doc, current_cell) IN doc[i].text # <<>> \/ i < Len(doc)
  /\ UserQueues(<<[act |-> "PositionCursor", cell |-> current_cell, pos |-> "next"],
                  [act |-> "RemoveCell", cell |-> current_cell]>>)
  /\ UNCHANGED <<docVars, erasing, evaluating>>

(* This handler does not ask whether there is a current cell.               *)
on_edit_split ==
  /\ UserQueues(<<[act |-> "SplitCell", cell |-> current_cell]>>)
  /\ UNCHANGED <<docVars, erasing, evaluating>>

on_key_press_event(where) ==
  /\ current_cell # NoCell
  /\ UserQueues(<<[act |-> "PositionCursor", cell |-> current_cell, pos |-> where]>>)
  /\ UNCHANGED <<docVars, erasing, evaluating>>

(* cell_content_execute and execute_cell: the old output goes, the cursor   *)
(* moves on, and the cell is marked as running.                             *)
cell_content_execute(i) ==
  LET c == doc[i].addr IN
  /\ i \in DOMAIN doc /\ doc[i].text # <<>> /\ Quiet
  /\ UserQueues([j \in DOMAIN doc[i].kids |->
                   [act |-> "RemoveOutput", cell |-> c, output |-> doc[i].kids[j].addr]]
                 \o <<[act |-> "PositionCursor", cell |-> c, pos |-> "next"],
                      [act |-> "SetRunStatus", cell |-> c]>>)
  /\ evaluating' = {c}
  /\ UNCHANGED <<docVars, erasing>>

(* A result arrives on the compute thread, which queues what it means.      *)
on_message(c) ==
  /\ corrupt = "no" /\ c \in evaluating
  /\ evaluating' = evaluating \ {c}
  /\ pending_actions' = pending_actions
       \o <<[act |-> "SetRunStatus", cell |-> c],
            [act |-> "AddCell", cell |-> c, pos |-> "child", text |-> ops]>>
  /\ UNCHANGED <<docVars, undo_stack, gui_pc, erasing, corrupt, userVars>>

-----------------------------------------------------------------------------
(* Callbacks into the GUI, as functions of the widgets.                     *)

(* add_cell packs the new widget at the end of its parent's box and moves   *)
(* it to the cell's place among its siblings.                               *)
add_cell(v, i, a, t) == InsertAt(v, i, InputWidget(a, t))
add_output(v, c, j, a) ==
  LET i == Index(v, c) IN [v EXCEPT ![i].kids = InsertAt(@, j, a)]
remove_output(v, c, a) ==
  LET i == Index(v, c)
      j == CHOOSE j \in DOMAIN v[i].kids : v[i].kids[j] = a IN
  [v EXCEPT ![i].kids = RemoveAt(@, j)]

(* update_cell, hence CodeInput::update_buffer: the buffer is set to the    *)
(* text of the document; its signals queue an erasure and an insertion of   *)
(* all its text, unless the stacks are disabled.                            *)
Buffer(c) == view[Index(view, c)].buffer
update_cell(v, c, t) ==
  LET i == Index(v, c) IN [v EXCEPT ![i].buffer = t]
BufferSignals(c, t) ==
  IF Buffer(c) = t THEN <<>>
  ELSE (IF Buffer(c) = <<>> THEN <<>>
        ELSE <<[act |-> "EraseText", cell |-> c, from |-> 0, to |-> Len(Buffer(c))]>>)
       \o (IF t = <<>> THEN <<>>
           ELSE <<[act |-> "InsertText", cell |-> c, pos |-> 0, text |-> t]>>)

-----------------------------------------------------------------------------
(* process_action_queue: ActionBase::execute of the first action, which is  *)
(* then pushed on the undo stack.                                           *)

Executes(kind) ==
  /\ corrupt = "no" /\ gui_pc = "processing"
  /\ pending_actions # <<>> /\ Head(pending_actions).act = kind

Action == Head(pending_actions)

Crash(why) ==
  /\ corrupt' = why
  /\ UNCHANGED <<docVars, pending_actions, undo_stack, gui_pc, erasing,
                 evaluating, userVars>>

Executed(queued) ==
  /\ pending_actions' = Tail(pending_actions) \o queued
  /\ UNCHANGED <<gui_pc, erasing, evaluating, corrupt, userVars>>

(* What an action remembers for revert: the node it made, an index, a tree  *)
(* or text it removed.  `before' is not in the code; properties use it.     *)
Undoable(newref, index, removed) ==
  undo_stack' = Append(undo_stack,
    [action |-> Action, newref |-> newref, index |-> index, removed |-> removed,
     before |-> doc])

InsertText_execute ==
  /\ Executes("InsertText")
  /\ IF ~HasCell(doc, Action.cell) THEN Crash("erased cell")
     ELSE LET i == Index(doc, Action.cell) IN
          IF Action.pos > Len(doc[i].text) THEN Crash("out of range")
          ELSE /\ doc' = [doc EXCEPT ![i].text =
                             Inserted(@, Action.pos, Action.text)]
               /\ UNCHANGED <<view, stale, current_cell, created>>
               /\ Undoable(NoCell, 0, <<>>)
               /\ Executed(<<>>)

EraseText_execute ==
  /\ Executes("EraseText")
  /\ IF ~HasCell(doc, Action.cell) THEN Crash("erased cell")
     ELSE LET i == Index(doc, Action.cell) IN
          IF Action.from > Len(doc[i].text) THEN Crash("out of range")
          ELSE /\ doc' = [doc EXCEPT ![i].text = Erased(@, Action.from, Action.to)]
               /\ UNCHANGED <<view, stale, current_cell, created>>
               /\ Undoable(NoCell, 0, SubSeq(doc[i].text, Action.from + 1,
                             IF Action.to < Len(doc[i].text) THEN Action.to
                                                             ELSE Len(doc[i].text)))
               /\ Executed(<<>>)

(* Mutant: the widget goes to the end of its box.                           *)
Mutant_AddCell_execute ==
  /\ Executes("AddCell")
  /\ IF ~HasCell(doc, Action.cell) THEN Crash("erased cell")
     ELSE \E f \in NewNodes(1) :
          LET i == Index(doc, Action.cell)
              n == IF Action.pos = "before" THEN i ELSE i + 1
              j == Len(doc[i].kids) + 1 IN
          /\ IF Action.pos = "child"
             THEN /\ doc' = [doc EXCEPT ![i].kids =
                               Append(@, [addr |-> f[1], text |-> Action.text])]
                  /\ view' = add_output(view, Action.cell, j, f[1])
                  /\ Undoable(f[1], j - 1, <<>>)
             ELSE /\ doc' = InsertAt(doc, n, Input(f[1], Action.text))
                  /\ view' = Append(view, InputWidget(f[1], Action.text))
                  /\ Undoable(f[1], n - 1, <<>>)
          /\ created' = created + 1
          /\ UNCHANGED <<stale, current_cell>>
          /\ Executed(<<>>)

AddCell_execute ==
  /\ Executes("AddCell")
  /\ IF ~HasCell(doc, Action.cell) THEN Crash("erased cell")
     ELSE \E f \in NewNodes(1) :
          LET i == Index(doc, Action.cell)
              n == IF Action.pos = "before" THEN i ELSE i + 1
              j == Len(doc[i].kids) + 1 IN
          /\ IF Action.pos = "child"
             THEN /\ doc' = [doc EXCEPT ![i].kids =
                               Append(@, [addr |-> f[1], text |-> Action.text])]
                  /\ view' = add_output(view, Action.cell, j, f[1])
                  /\ Undoable(f[1], j - 1, <<>>)
             ELSE /\ doc' = InsertAt(doc, n, Input(f[1], Action.text))
                  /\ view' = add_cell(view, n, f[1], Action.text)
                  /\ Undoable(f[1], n - 1, <<>>)
          /\ created' = created + 1
          /\ UNCHANGED <<stale, current_cell>>
          /\ Executed(<<>>)

(* position_cursor does nothing for a cell without a widget.                *)
position_cursor(v, c) ==
  current_cell' = IF c \in Widgets(v) THEN c ELSE current_cell

(* The last cell gets a new one after it, unless it is empty.               *)
PositionCursor_execute ==
  /\ Executes("PositionCursor")
  /\ IF ~HasCell(doc, Action.cell) THEN Crash("erased cell")
     ELSE LET i == Index(doc, Action.cell) IN
          /\ IF Action.pos = "next" /\ i = Len(doc) /\ doc[i].text # <<>>
             THEN \E f \in NewNodes(1) :
                    /\ doc' = Append(doc, Input(f[1], <<>>))
                    /\ view' = add_cell(view, Len(view) + 1, f[1], <<>>)
                    /\ created' = created + 1
                    /\ position_cursor(view', f[1])
                    /\ Undoable(f[1], 0, <<>>)
             ELSE /\ position_cursor(view,
                       IF Action.pos = "next" /\ i < Len(doc) THEN doc[i+1].addr
                       ELSE IF Action.pos = "previous" /\ i > 1 THEN doc[i-1].addr
                       ELSE Action.cell)
                  /\ UNCHANGED <<doc, view, created>>
                  /\ Undoable(NoCell, 0, <<>>)
          /\ UNCHANGED stale
          /\ Executed(<<>>)

(* remove_cell destroys the widget with all it contains, but forgets only   *)
(* the key of the cell itself.                                              *)
RemoveCell_execute ==
  /\ Executes("RemoveCell")
  /\ IF ~HasCell(doc, Action.cell) \/ ~HasCell(view, Action.cell)
     THEN Crash("erased cell")
     ELSE LET i == Index(doc, Action.cell) IN
          /\ doc' = RemoveAt(doc, i)
          /\ view' = RemoveAt(view, Index(view, Action.cell))
          /\ stale' = stale \cup ToSet(view[Index(view, Action.cell)].kids)
          /\ current_cell' = IF current_cell = Action.cell THEN NoCell
                                                           ELSE current_cell
          /\ UNCHANGED created
          /\ Undoable(NoCell, i - 1, <<doc[i]>>)
          /\ Executed(<<>>)

(* The same action on an output cell.                                       *)
RemoveOutput_execute ==
  /\ Executes("RemoveOutput")
  /\ IF ~HasCell(doc, Action.cell)
        \/ ~HasCell(doc[Index(doc, Action.cell)].kids, Action.output)
        \/ Action.output \notin Widgets(view)
     THEN Crash("erased cell")
     ELSE LET i == Index(doc, Action.cell)
              j == Index(doc[i].kids, Action.output) IN
          /\ doc' = [doc EXCEPT ![i].kids = RemoveAt(@, j)]
          /\ view' = remove_output(view, Action.cell, Action.output)
          /\ UNCHANGED <<stale, current_cell, created>>
          /\ Undoable(NoCell, j - 1, <<doc[i].kids[j]>>)
          /\ Executed(<<>>)

(* The text before the cursor stays, the text after it, less a newline at   *)
(* its start, goes to a new cell.                                           *)
Split(t, p) ==
  LET rest == SubSeq(t, p + 1, Len(t)) IN
    <<SubSeq(t, 1, p),
      IF rest # <<>> /\ Head(rest) = NewLine THEN Tail(rest) ELSE rest>>

SplitCell_execute ==
  /\ Executes("SplitCell")
  /\ IF ~HasCell(doc, Action.cell) THEN Crash("erased cell")
     ELSE \E p \in 0..Len(Buffer(Action.cell)) :
          LET i == Index(doc, Action.cell)
              s == Split(doc[i].text, p) IN
          IF p > Len(doc[i].text) THEN Crash("out of range")
          ELSE \E f \in NewNodes(1) :
               LET added == add_cell(view, i + 1, f[1], s[2]) IN
               /\ doc' = InsertAt([doc EXCEPT ![i].text = s[1]], i + 1, Input(f[1], s[2]))
               /\ view' = update_cell(added, Action.cell, s[1])
               /\ created' = created + 1
               /\ UNCHANGED <<stale, current_cell>>
               /\ Undoable(f[1], 0, <<>>)
               /\ Executed(BufferSignals(Action.cell, s[1]))

(* Mutant: the buffer is set without its signals being seen.                *)
Mutant_SetRunStatus_execute ==
  /\ Executes("SetRunStatus")
  /\ IF ~HasCell(doc, Action.cell) THEN Crash("erased cell")
     ELSE LET t == doc[Index(doc, Action.cell)].text IN
          /\ view' = update_cell(view, Action.cell, t)
          /\ UNCHANGED <<doc, stale, current_cell, created, undo_stack>>
          /\ Executed(<<>>)

(* Not undoable.  It redraws the cell with update_cell, which discards what *)
(* was typed and is still queued.  In the middle of an erasure of that text *)
(* the iterators of the erasure become invalid.                             *)
SetRunStatus_execute ==
  /\ Executes("SetRunStatus")
  /\ IF ~HasCell(doc, Action.cell) THEN Crash("erased cell")
     ELSE LET t == doc[Index(doc, Action.cell)].text IN
          IF erasing.cell = Action.cell /\ Buffer(Action.cell) # t
          THEN Crash("invalid text iterator")
          ELSE /\ view' = update_cell(view, Action.cell, t)
               /\ UNCHANGED <<doc, stale, current_cell, created, undo_stack>>
               /\ Executed(BufferSignals(Action.cell, t))

(* The queue is empty; an erasure that was announced is done.               *)
process_action_queue_ends ==
  /\ corrupt = "no" /\ gui_pc = "processing" /\ pending_actions = <<>>
  /\ gui_pc' = "idle" /\ erasing' = NoErase
  /\ view' = IF erasing = NoErase THEN view
             ELSE [view EXCEPT ![Index(view, erasing.cell)].buffer =
                     Erased(@, erasing.from, erasing.to)]
  /\ UNCHANGED <<doc, stale, current_cell, created, pending_actions, undo_stack,
                 evaluating, corrupt, userVars>>

(* The dispatcher wakes the GUI thread for what the compute thread queued.  *)
process_todo_queue ==
  /\ corrupt = "no" /\ gui_pc = "idle" /\ pending_actions # <<>>
  /\ gui_pc' = "processing"
  /\ UNCHANGED <<docVars, pending_actions, undo_stack, erasing, evaluating,
                 corrupt, userVars>>

-----------------------------------------------------------------------------
(* DocumentThread::undo: ActionBase::revert of the top of the undo stack,   *)
(* with the stacks disabled.                                                *)

Top == Last(undo_stack)

(* AddCell before and after, RemoveCell and SplitCell are not undone by     *)
(* their revert (see the README).                                           *)
Reversible(e) == /\ e.action.act \notin {"RemoveCell", "RemoveOutput", "SplitCell"}
                 /\ e.action.act = "AddCell" => e.action.pos = "child"

Reverts(kind) ==
  /\ corrupt = "no" /\ gui_pc = "idle" /\ Quiet /\ undos < MaxUndos
  /\ undo_stack # <<>> /\ Top.action.act = kind
  /\ undos' = undos + 1
  /\ undo_stack' = Front(undo_stack)
  /\ clean' = (clean /\ Reversible(Top))
  /\ UNCHANGED <<pending_actions, gui_pc, erasing, evaluating, ops>>

Fails(why) == corrupt' = why /\ UNCHANGED docVars

(* Mutant: the text is looked for one character further on.                 *)
Mutant_InsertText_revert ==
  /\ Reverts("InsertText")
  /\ IF ~HasCell(doc, Top.action.cell) THEN Fails("erased cell")
     ELSE LET i == Index(doc, Top.action.cell)
              p == Top.action.pos + 1
              t == Erased(doc[i].text, p, p + Len(Top.action.text)) IN
          /\ doc' = [doc EXCEPT ![i].text = t]
          /\ view' = update_cell(view, Top.action.cell, t)
          /\ UNCHANGED <<stale, current_cell, created, corrupt>>

InsertText_revert ==
  /\ Reverts("InsertText")
  /\ IF ~HasCell(doc, Top.action.cell) THEN Fails("erased cell")
     ELSE LET i == Index(doc, Top.action.cell)
              p == Top.action.pos
              t == Erased(doc[i].text, p, p + Len(Top.action.text)) IN
          IF p > Len(doc[i].text) THEN Fails("out of range")
          ELSE /\ doc' = [doc EXCEPT ![i].text = t]
               /\ view' = update_cell(view, Top.action.cell, t)
               /\ UNCHANGED <<stale, current_cell, created, corrupt>>

EraseText_revert ==
  /\ Reverts("EraseText")
  /\ IF ~HasCell(doc, Top.action.cell) THEN Fails("erased cell")
     ELSE LET i == Index(doc, Top.action.cell)
              p == Top.action.from
              t == Inserted(doc[i].text, p, Top.removed) IN
          IF p > Len(doc[i].text) THEN Fails("out of range")
          ELSE /\ doc' = [doc EXCEPT ![i].text = t]
               /\ view' = update_cell(view, Top.action.cell, t)
               /\ position_cursor(view, Top.action.cell)
               /\ UNCHANGED <<stale, created, corrupt>>

(* The cell that is removed is the child_num-th child of ref, also when the *)
(* new cell was put before or after ref.                                    *)
AddCell_revert ==
  /\ Reverts("AddCell")
  /\ IF ~HasCell(doc, Top.action.cell) THEN Fails("erased cell")
     ELSE LET i == Index(doc, Top.action.cell)
              j == Top.index + 1 IN
          IF j > Len(doc[i].kids) THEN Fails("no such child")
          ELSE LET a == doc[i].kids[j].addr IN
               IF a \notin Widgets(view) THEN Fails("no widget")
               ELSE /\ doc' = [doc EXCEPT ![i].kids = RemoveAt(@, j)]
                    /\ view' = remove_output(view, Top.action.cell, a)
                    /\ UNCHANGED <<stale, current_cell, created, corrupt>>

PositionCursor_revert ==
  /\ Reverts("PositionCursor")
  /\ LET new == Top.newref IN
     IF ~HasCell(doc, Top.action.cell)
        \/ (new # NoCell /\ (~HasCell(doc, new) \/ ~HasCell(view, new)))
     THEN Fails("erased cell")
     ELSE /\ IF new = NoCell THEN UNCHANGED <<doc, view, stale>>
             ELSE /\ doc' = RemoveAt(doc, Index(doc, new))
                  /\ view' = RemoveAt(view, Index(view, new))
                  /\ stale' = stale \cup ToSet(view[Index(view, new)].kids)
          /\ position_cursor(view', Top.action.cell)
          /\ UNCHANGED <<created, corrupt>>

(* A copy of the removed tree is inserted before the cell that follows the  *)
(* one now at the old index; only its root gets a widget.                   *)
RemoveCell_revert ==
  /\ Reverts("RemoveCell")
  /\ LET old == Top.removed[1]
         n   == IF doc = <<>> THEN 1 ELSE Top.index + 2 IN
     IF n > Len(doc) + 1 THEN Fails("null node")
     ELSE \E f \in NewNodes(1 + Len(old.kids)) :
          LET copy == [addr |-> f[1], text |-> old.text,
                       kids |-> [j \in DOMAIN old.kids |->
                                   [old.kids[j] EXCEPT !.addr = f[j + 1]]]] IN
          /\ doc' = InsertAt(doc, n, copy)
          /\ view' = IF n > Len(view) + 1 THEN view
                     ELSE add_cell(view, n, f[1], old.text)
          /\ created' = created + Len(f)
          /\ UNCHANGED <<stale, current_cell, corrupt>>

RemoveOutput_revert ==
  /\ Reverts("RemoveOutput")
  /\ IF ~HasCell(doc, Top.action.cell) \/ ~HasCell(view, Top.action.cell)
     THEN Fails("erased cell")
     ELSE LET i == Index(doc, Top.action.cell)
              j == IF doc[i].kids = <<>> THEN 1 ELSE Top.index + 2 IN
          IF j > Len(doc[i].kids) + 1 THEN Fails("null node")
          ELSE \E f \in NewNodes(1) :
               /\ doc' = [doc EXCEPT ![i].kids =
                            InsertAt(@, j, [Top.removed[1] EXCEPT !.addr = f[1]])]
               /\ view' = add_output(view, Top.action.cell, j, f[1])
               /\ created' = created + 1
               /\ UNCHANGED <<stale, current_cell, corrupt>>

(* "FIXME: implement"                                                       *)
SplitCell_revert == Reverts("SplitCell") /\ UNCHANGED <<docVars, corrupt>>

-----------------------------------------------------------------------------
Execute == \/ InsertText_execute \/ EraseText_execute \/ AddCell_execute
           \/ PositionCursor_execute \/ RemoveCell_execute
           \/ RemoveOutput_execute \/ SplitCell_execute \/ SetRunStatus_execute

undo == \/ InsertText_revert \/ EraseText_revert \/ AddCell_revert
        \/ PositionCursor_revert \/ RemoveCell_revert \/ RemoveOutput_revert
        \/ SplitCell_revert

User == \/ \E i \in DOMAIN view : \E p, q \in 0..MaxText : \E ch \in Char :
             cell_content_insert(i, p, ch) \/ cell_content_erase(i, p, q)
        \/ on_edit_insert_above \/ on_edit_insert_below \/ on_edit_delete
        \/ on_edit_split
        \/ \E where \in {"next", "previous"} : on_key_press_event(where)
        \/ \E i \in DOMAIN doc : cell_content_execute(i)

Next == \/ User \/ undo \/ Execute
        \/ process_todo_queue \/ process_action_queue_ends
        \/ \E c \in evaluating : on_message(c)

Spec == Init /\ [][Next]_vars

-----------------------------------------------------------------------------
(* Types of the state.                                                      *)
OutputCell == [addr : Address, text : Nat]
TypeOK ==
  /\ \A i \in DOMAIN doc :
       /\ doc[i].addr \in Address /\ doc[i].text \in Seq(Char)
       /\ doc[i].kids \in Seq(OutputCell)
  /\ \A i \in DOMAIN view :
       /\ view[i].addr \in Address /\ view[i].buffer \in Seq(Char)
       /\ view[i].kids \in Seq(Address)
  /\ stale \subseteq Address /\ current_cell \in Address \cup {NoCell}
  /\ \A i \in DOMAIN pending_actions : pending_actions[i].cell \in Address \cup {NoCell}
  /\ gui_pc \in {"idle", "processing"}
  /\ erasing \in [cell : Address \cup {NoCell}, from : 0..MaxText, to : 0..MaxText]
  /\ gui_pc = "idle" => erasing = NoErase
  /\ evaluating \subseteq Address
  /\ corrupt \in {"no", "erased cell", "out of range", "no such child",
                  "no widget", "null node", "invalid text iterator"}
  /\ created \in Nat /\ ops \in 0..MaxOps /\ undos \in 0..MaxUndos
  /\ clean \in BOOLEAN

UpToDate == corrupt = "no" /\ gui_pc = "idle" /\ pending_actions = <<>>

(* The widgets of the notebook are those of the document's cells, in the    *)
(* same order and under the same parents, when the queue has been executed. *)
VisualMirrorsDocument ==
  UpToDate /\ clean =>
    /\ [i \in DOMAIN view |-> view[i].addr] = [i \in DOMAIN doc |-> doc[i].addr]
    /\ \A i \in DOMAIN doc :
         view[i].kids = [j \in DOMAIN doc[i].kids |-> doc[i].kids[j].addr]

(* What is executed is what is displayed: the two copies of a cell's text   *)
(* agree, although each is changed from the other, and results that arrive  *)
(* while the user types reset the buffer.                                   *)
BufferMirrorsText ==
  UpToDate /\ clean => \A i \in DOMAIN view : view[i].buffer = doc[i].text

(* Up to the first undo of an action that does not undo: no action and no   *)
(* revert follows an iterator to an erased node or a position outside the   *)
(* text.                                                                    *)
NoStaleIterator == clean => corrupt \in {"no", "invalid text iterator"}

(* Undoing text, a cursor move with the cell it made, or an output gives    *)
(* back the document as it was before, with the nodes that the actions      *)
(* before it point to, whatever was done, undone and received in between.   *)
UndoRestoresTheDocument ==
  [][ undos' # undos /\ clean' => doc' = Top.before ]_vars

(* Actions.hh, on ActionRemoveCell: it keeps "track of the location where   *)
(* this cell (and its child cells) was in the notebook".  Undoing a removal *)
(* puts the cell back where it was.  (The code does not keep this: see the  *)
(* README.)                                                                 *)
UndoOfRemoveRestores ==
  [][ undos' # undos /\ clean /\ Top.action.act = "RemoveCell"
        => Contents(doc') = Contents(Top.before) ]_vars

=============================================================================
