# Cadabra 2: a TLA+ model of the notebook, its server and its kernel

Cadabra is a computer algebra system for field theory. A user works in a
notebook window; the cells of the notebook are sent over a websocket to a
server process, which runs them as Python code in which Cadabra expressions and
declarations of properties are embedded, and sends back output that the window
typesets with LaTeX and shows under the cell. The kernel in the server keeps the
properties, and its algorithms rewrite expression trees under them.

These modules describe the parts of the program where an order of events can go
wrong that no test was written for: the two threads of the server; the two
threads of the notebook client with the network and the server between them; the
document with its action queue, its undo stack and its widgets; the engine that
typesets many cells with one run of LaTeX; the logging library, whose database
outlives the program; the translation of blocks into Python, which keeps state
from block to block; the store of properties, in which declarations replace each
other; the linked tree that holds every expression; and the algorithms that sort,
distribute and collect, called one after the other on the same tree. TLC checks the modules on small instances, and TLAPS
proves central invariants of the server, the notebook client, the kernel, the
typesetting engine and the logging library for every instance.

All paths below are relative to `src/`.

## 1. Inventory

### Compute server (`client_server/Server.cc`, `Server.hh`)

*State.* `connections` (open websockets); `block_queue` with the mutex
`block_available_mutex` and the condition `block_available`; `ws_mutex`;
`current_hdl`, `current_id` (whose block runs); `catchOut` (printed text);
`indent`, `lhs`, `rhs` (an unfinished Cadabra expression); the interpreter's
list of pending calls.

*Operations.* Main loop: `on_socket_init`, `on_open`, `on_close`,
`on_message`, `dispatch_message` for execute_request, execute_interrupt, init
and exit. Runner thread (`wait_for_job`): wait for a block, pop it,
`run_string` (`pre_parse` line by line, execute, collect the output),
`on_block_finished`, `on_block_error`, `on_kernel_fault`. From running Python
code: `send`. `stop_block` (an `execute_interrupt`).

*Interaction.* The main loop holds `ws_mutex` while it dispatches and takes
`block_available_mutex` to push; the runner holds the latter to test and pop
and takes the former to report. Interrupts go through `Py_AddPendingCall`.

*Hard.* Two threads, two mutexes and a condition variable; interrupts that
arrive when nothing runs; blocks that fail while others are queued; connections
that close while their block runs; text left over from failed blocks.

*Correct when* no cycle of waiting can form, no wakeup is missed, no request
is lost, run twice or answered twice, replies come in the order of requests
under the right identity, output reaches only the cell it belongs to, and the
service as a whole is a first-in first-out queue that cancels all waiting
blocks or none.

### Notebook client: compute thread (`client_server/ComputeThread.cc`, `popen2.cc`)

*State.* `running_cells`, `connection_is_open`, `restarting_kernel`,
`server_pid`, the websocket. *Operations.* `try_connect`, `on_open`,
`on_close`, `on_fail`, `on_message`, `all_cells_nonrunning` on the compute
thread; `execute_cell`, `stop`, `restart_kernel`, `terminate` on the GUI
thread. *Interaction.* It must not touch the document: it queues actions
(`DocumentThread::queue_action`) and wakes the GUI (`process_data`).

*Hard.* Cells are registered on one thread and unregistered on the other;
replies that are lost with a connection; a kernel that dies, asked to or not;
blocks the server discards without a reply.

*Correct when* every reply finds its cell, a cell is on the server at most
once, a cell that looks busy will be freed, and a dead kernel is replaced.

### Notebook client: document and actions (`client_server/DocumentThread.cc`, `Actions.cc`, `tree.hh`, `DataCell.cc`)

*State.* The tree of cells `doc`; `pending_actions` with `stack_mutex`;
`undo_stack`, `redo_stack`, `disable_stacks`. *Operations.* `queue_action`,
`process_action_queue`, `undo`, and execute and revert of AddCell,
PositionCursor, RemoveCell, SetRunStatus, SplitCell, InsertText, EraseText;
`new_document`, `load_from_string`. *Interaction.* Actions change the document
and call the GUI (`add_cell`, `remove_cell`, `update_cell`, `position_cursor`).

*Hard.* Actions hold iterators into a tree other actions change; results
arrive while the user types; undo must unwind actions of both threads.

*Correct when* no action follows an iterator to a node that was erased, the
widgets show the document, and undoing gives back what was there before.

### Notebook client: window (`frontend/gtkmm/NotebookWindow.cc`, `CodeInput.cc`)

*State.* The canvases with `visualcells` (from tree nodes to widgets),
`current_cell`, the text buffers, `kernel_string` and what the dispatcher has
pending. *Operations.* The handlers of keys, menus and buffers. *Hard.* A
handler runs inside another (a dialog, an action executed from a text handler).
*Correct when* widgets and text buffers agree with the document.

### TeX engine, TeX views (`frontend/common/TeXEngine.cc`, `frontend/gtkmm/TeXView.cc`)

*State.* A set of requests, each with `needs_generating` and a decoded picture;
font size, width and scale; the working directory of the process; in each view a
pixbuf that points into the picture of its request. *Operations.* `checkin`,
`checkout`, `invalidate_all`, `set_geometry`, `set_scale`, `convert_all` with
`convert_set`; `TeXView::on_show` and `update_image`; the handlers of the window
for a new width and a new scale. *Interaction.* All on the GUI thread; whoever
shows a cell converts every request that needs it, of whatever cell.

*Hard.* A conversion ends half way: an error in the text of one cell, dvipng
missing, a picture that cannot be decoded. Pages are matched with requests by
counting, twice. What one handler converts another has to display.

*Correct when* a picture is that of its own cell, a request that is not flagged
has a picture for the present geometry, and what is shown is what was made.

### Logging (`client_server/Snoop.cc`)

*State.* A local database that outlives the program, with tables `runs` and
`logs` and a `server_status` in each row; the entry under construction
(`this_log_`, `out_`) with `call_mutex`; `connection_is_open` with
`connection_mutex` and a condition variable; a websocket with its own thread.
*Operations.* `init` and `obtain_uuid`, `log(type) << text << flush`,
`sync_runs_with_server`, `sync_logs_with_server`, `on_client_open`, `_fail`,
`_close`, `_message`, the destructor. *Interaction.* Both processes log to it:
the runner and the main loop of the server, the GUI of the client. *Hard.*
Three parties synchronise the same rows; packets and replies are lost with
connections and processes; the destructor waits for a thread that may never
answer. *Correct when* nothing is uploaded twice or marked as stored when it is
not, what was written without a connection is uploaded later, and the program
can end.

### Properties (`core/Props.cc`, `Kernel.cc`) and the reading of blocks (`Server.cc`, `pre_parse` and `run_string`)

*State.* Two multimaps, from names to patterns with properties and from
properties to patterns, which together count the references to each property
object; in the server, the unfinished expression. *Operations.* `master_insert`
with `insert_prop` and `insert_list_prop`, the look-ups `get_composite`;
`pre_parse` of one line, the execution of a block. *Interaction.* A declaration
is a line of a notebook: it is read by `pre_parse`, becomes a Python statement,
and attaches its property to one pattern after the other. *Hard.* A property is
declared again with other arguments, or for patterns some of which have another
one; one object is shared by several patterns and freed with the last; a block
ends, or fails, in the middle of an expression. *Correct when* the maps agree,
nothing points to a freed object, what was declared last is found, and every
line becomes part of one statement.

### Expression tree (`core/tree.hh`)

*State.* Nodes with five links each (parent, first and last child, previous and
next sibling) under a dummy head and feet per tree. *Operations.* Insertion before,
after, below; erasing a node or what is below it; `flatten`, `reparent`, `wrap`,
`move_before`, `move_after`, `move_ontop`, `swap`; `replace` with a copy of another
subtree, and copies of whole trees; iterators in pre-order, along siblings, at a
fixed depth; questions of number, index, depth and equality. *Interaction.* Every
algorithm calls it with iterators that are bare pointers to nodes. *Hard.* One call
changes up to ten links, and which node holds them depends on whether the places
are neighbours, first, last or at the top; a wrong link is noticed by a later
call, or only by one kind of walk. A copy reads the tree it changes.
*Correct when* both ends of every link agree, every walk comes to the nodes it is
for in their order, each call changes the children of the nodes it names and of
no other, and erased memory is exactly what no tree reaches.

### Expression storage (`core/Storage.cc`), clean-up (`core/Cleanup.cc`), comparison (`core/Compare.cc`, `Exchange.cc`)

Sequential code. *State.* Trees of nodes with multipliers and parent relations.
*Operations.* Tree edits and walks, clean-up of a node, comparison of trees,
matching with wildcards, the sign of an exchange. *Hard.* The tree changes under
the walk; a multiplier belongs to the terms of a sum and to the product as a
whole and has to move accordingly; the order is made of two orders. *Correct
when* no rewriting changes the value of an expression, and the standard shape is
there after every algorithm.

### Input language (`core/PreProcessor.cc`, `Parser.cc`, `PreClean.cc`)

A character automaton that brings input into canonical form, a stack parser,
and rewriting into normal form.

### Algorithm base (`core/Algorithm.cc`, `IndexIterator.cc`), the algorithms (`core/algorithms/`), combinatorics (`Combinatorics.hh`, `Permutations.hh`, `YoungTab.hh`)

Deep or repeated application of a rewriting step, with clean-up on the way up
and zeroes that empty whole branches; some fifty transformations of
expressions; pure enumeration of permutations, partitions and tableaux.
*Correct when* a transformation keeps the value of the expression, under the
rules of commutation declared for its symbols.

### Other parts

Display (formatting), Python and SymPy bridges, property definitions and tensor
tables, command line programs, the unfinished OS X front end, and vendored
libraries (websocketpp, jsoncpp, exec-stream, lodepng, xperm). `PROJECT.json`
lists each with the reason it is not modelled.

## 2. Modules

| module | models | state and actions |
|---|---|---|
| `JobService` | what the server promises: jobs accepted once, run one at a time in order, all waiting jobs cancelled or none | abstract |
| `ComputeServer` | `Server.cc`: main loop and runner thread | `loop_pc`, `run_pc` are where the threads are; an action is a piece of code between two points where the other thread can interfere |
| `ComputeServerProofs` | theorems about `ComputeServer` | |
| `Notebook` | `ComputeThread.cc` with the handlers of `NotebookWindow.cc` that execute cells, the action queue, the network, and the server as `JobService` promises it | `gui_pc` and `cmp_msg` say where the two client threads are |
| `NotebookProofs` | theorems about `Notebook` | |
| `Document` | `Actions.cc`, `DocumentThread.cc`, text and cell handlers of `NotebookWindow.cc` and `CodeInput.cc` | `doc` is the tree, `view` the widgets, `stale` the keys of `visualcells` that have no widget |
| `DocumentProofs` | theorems about `Document` | |
| `TeXEngine` | `TeXEngine.cc`, `TeXView.cc`, and the handlers of the window that show, remove, resize and rescale cells | `requests`, `needs`, `image` are the engine's; `shown` is what a pixbuf points to; a handler with the LaTeX run inside it is one step |
| `TeXEngineProofs` | theorems about `TeXEngine` | |
| `Logging` | `Snoop.cc` | `log_pc`, `ws_pc`, `exit_pc` say where the threads are; `runs` and `logs` are the tables; what happens under `sqlite_mutex` is one step |
| `LoggingProofs` | theorems about `Logging` | |
| `Properties` | `Props.cc`: the two multimaps, attaching a property to a pattern, the look-ups | `props`, `pats`, `objects`, `freed`; `todo` is the rest of a declaration |
| `Kernel` | `pre_parse` and `run_string` of `Server.cc`, on top of `Properties` | `lhs`, `rhs` are the unfinished expression, `phase` and `program` where the block is |
| `KernelProofs` | theorems about `Kernel` and `Properties` | |
| `LinkedTree` | `core/tree.hh`: the nodes and every call that changes them | `mem` is the memory; a call is an operator from one memory to the next and an action that performs it; a copy goes node by node (`copying`) |
| `LinkedTreeProofs` | theorems about `LinkedTree` | |
| `TreeWalks` | `core/tree.hh`: iterators and questions | operators that follow links |
| `TreeChecks` | what the calls, the copies and the walks promise, said of the children of each node | |
| `TreeProofs` | theorems about `LinkedTree` that say what `TreeChecks` says | |
| `Expressions` | nodes, paths, clean-up (`Cleanup.cc`), the walk and the multiplier handling of `Algorithm.cc` | operators |
| `Comparison` | `Compare.cc`: the order of expressions, which factors commute and with which sign | operators |
| `Algebra` | six algorithms and a session that calls them in any order | `ex` is the expression, `declared` what the session declared, `value` the value of what was typed |
| `MC...` | the instances TLC checks | |

Names of actions are those of the functions they translate. Where a function
is cut in several steps (`dispatch_lock`, `dispatch_execute_request`;
`cell_content_execute`, `execute_cell_register`, `execute_cell_send`) the cuts
are where another thread can see or change shared state: at a lock, an unlock,
a wait, a send, or between two accesses to data no lock protects. An operator
whose name begins with `Mutant_`, or that a comment calls a mutant, is a plausible mistake in the definition that
follows it; nothing uses it but the experiment that shows that a property
notices the mistake.

*Composition.* `ComputeServer` implements `JobService` (`ImplementsJobService`,
a refinement: the queue is `pending`, the block in hand `running`, the answered
blocks `done`). `Notebook` uses the server only as `JobService` describes it, with
the network around it, which keeps both small enough to check. `Kernel` contains
`Properties` and implements it: whatever blocks are run, wherever they fail, the
store sees declarations as its own specification has them (`KernelUsesTheStore`).
What `ComputeServer` abstracts to "`pre_parse` succeeds or throws" is `Kernel`.
`Algebra` is made of `Comparison`, which is made of `Expressions`.

### What is abstracted

*ComputeServer.*
- Python code is "prints", "sends an expression", "ends", "raises" in any
  order and number that a block allows, or never ends.
- A pending call of the interpreter stays until Python code runs; the
  interpreter then runs the call and the code fails. The lock of the
  interpreter (GIL) is external and taken not to block the main loop.
- `pre_parse` succeeds or throws. The `init` message does what
  `execute_interrupt` does. A message of a connection that is not in
  `connections` does not reach `on_message` in this program.
- `catchOut` and messages hold the set of blocks whose text they contain.

*Notebook.*
- Python cells; a LaTeX cell never leaves the client. Text, cursor and the
  order of cells are left out (they are in `Document`).
- `running_cells` and `connection_is_open` are accessed by two threads without
  a lock. A torn access has no outcomes to enumerate; each access is an atomic
  step here, and the accesses interleave.
- `UserWaits = TRUE`: the user acts when the window has caught up. `FALSE` adds
  the acts within the few milliseconds in which it has not.
- `on_fail` does not happen between the two halves of `execute_cell`, because
  it is preceded by a second's sleep and a new connection attempt.
- When a pointer to a node that was erased is followed the program is
  undefined: `corrupt` says so and everything stops.

*Document.*
- One canvas, hidden cells left out, a tree of two levels (inputs and outputs),
  one byte per character, addresses of freed nodes not used again.
- The user types, splits and adds cells at any time, and deletes, runs and
  undoes when nothing is queued and nothing is being evaluated. The queue is
  worked off before the next act of the user.
- `redo_stack` is only filled: no code takes anything from it.

*TeXEngine.*
- A text is one that LaTeX can typeset or one that it cannot; a picture is
  known by the view whose text it is of and the geometry it was made for.
- The order in which the set of requests is walked is that of their addresses,
  which is any order: it is chosen anew in each step and is the same for the
  walk that writes the pages and the one that reads the pictures of one run.
- A conversion can end in a LaTeX error of a bad text, without LaTeX, without
  dvipng, with a page missing, with a picture that cannot be decoded, or with
  the temporary file not made. The log file and the preambles are left out.

*Logging.*
- The text of a row is the sequence of entries whose messages it contains;
  times, places and the JSON form are left out. `out_` is streamed to by two
  threads without a lock; each `<<` is one step.
- `sync_immediately_` is set, as both programs do. `init` is called before
  anything is logged, and one process uses the database at a time (a second
  one would select and update between this one's select and update: the mutex
  is the process's own).
- An exception of `wsclient.send` is caught by nobody, and the process ends.
- The operating system may give a process id again; `obtain_uuid` then takes
  the row of the earlier process for its own.
- The logging server is not in the repository: it stores what it gets and
  confirms it, on the connection it came from if that still exists. Packets of
  a connection arrive in order, those of a dead one perhaps late.

*Properties, Kernel.*
- A pattern is a name and what follows it (indices, a range wildcard, nothing);
  the arguments of a property are its label and the rest. Objects are named by
  the order in which they were made, which is the order in which a multimap
  keeps equal keys.
- A line is what the regular expressions of `pre_parse` find in it: its kind,
  its terminator, the name it assigns to, the declaration it makes.
- Left out: the label `all`, wildcards inside lists, inheritance of properties
  (`get_composite` through `PropertyInherit`), `clear` (nothing calls it), and
  kernels of inner scopes, which are made of the same class. A Python object
  of a property that was deleted keeps a pointer to it; no code follows it.

*LinkedTree, TreeWalks.*
- No operation looks at a value, so one value is enough, with `Blank` for that of
  a dummy which a copy is to replace. Memory that was freed may be used again at
  once.
- A rearrangement is two halves, `Unlink` and `LinkIn`, written once: each
  function of `tree.hh` spells both out for its own case. Which links they change,
  and whether a neighbour is read before or after the first half, is as in the
  function named.
- Callers keep to what the functions demand and the callers in `core/` do: what is
  moved does not contain its target; the two nodes of `move_ontop` and `swap` are
  not inside each other, and those of `move_ontop` not neighbours; the source of a
  copy neither contains the replaced node nor lies below it; a `reparent` takes a
  range of siblings. The program allocates without limit: a copy begins when there
  is memory for all of it.
- Left out, because nothing calls them: `sort`, `merge`, `move_in`, `move_out`,
  `erase_left_siblings`, `erase_right_siblings`, and the iterators over leaves and by
  breadth. The post-order iterator is in `Expressions`.

*Expressions, Comparison, Algebra.*
- Multipliers are integers, exponents are numbers, and a letter has at most one
  index. Brackets, index positions, derivatives, components and relations are
  left out.
- The calls are made as a notebook makes them: `deep=True`, `repeat=False`,
  `depth=0`, followed by the `post_process` of the default environment,
  which is `collect_terms`.
- `value` is the reference: an expression is a polynomial of words, in which
  neighbours are exchanged when the declarations say that they commute, with
  the sign they give. It does not use the code's comparison.

## 3. Runs

| run | instance | shows |
|---|---|---|
| `server` | two connections with two and one requests, one stop or exit, any disconnection | lock order, no lost wakeup, identity of the running block, each request in one place, order of replies, ownership of output, refinement of `JobService` |
| `server_live` | one connection, two requests, one stop or exit | an interrupt ends the code it meets; an accepted request is served, discarded or outlives the process |
| `notebook` | two cells, one of them run twice, one stop, one restart or crash, one deletion, one fault | replies find their cell, one job per cell, output of the last run only, no cell is stuck |
| `notebook_live` | one cell run twice, one of each event | runs end; a dead kernel is replaced |
| `document` | four acts of the user and three undos, text of up to two characters, up to six nodes | widgets and buffers agree with the document, no stale iterator, undo restores |
| `tex` | three cells (interchangeable: symmetry), two widths, two scales, any LaTeX error and one failure of another kind | a picture is of its own text, what is not flagged is current, what is shown is what was made |
| `logging` | two threads, one entry each, two lives of the program with the same process id, one spurious wakeup, any crash and any disconnection | no upload twice, confirmed is stored, runs come before their entries, no text in two rows, a new connection catches up, the destructor ends |
| `tree` | two trees in a memory of six nodes (interchangeable: symmetry) | memory is neither lost nor shared and all links agree, every call does what it promises, copies are faithful, all walks are complete |
| `kernel` | ten declarations and seven other lines, of which any four are read, in blocks of any size that may fail at any statement | the two maps agree, no deleted object is referred to, one index set per name, every line in one statement, expressions end at a terminator, what was attached is found |
| `algebra` | some four hundred expressions over three letters, one of which carries one of two indices, products of up to three factors, five sets of declarations | no algorithm changes the value, the standard shape is there after each, what is zero is seen to be zero |
| `notebook_double`, `algebra_powers` | the smallest instances that show it | counterexamples: see section 6 |

*Why these bounds.* A race of the server needs two blocks, one that runs and
one that waits, and a third of another connection to tell "its own" from
"somebody else's"; a stop or exit can meet every state of both threads. In the
notebook a cell must run twice for output of two runs to meet, another must be
waiting when the first fails, and each rare event once is enough to fall
between any two steps. An undo of an action can go wrong through what was done
between it and the undo: two acts, an evaluation and three undos reach each pair of
actions. Pages and requests can be matched wrongly when one of several is
missing or was not asked for: three cells give a first, a middle and a last one,
and two geometries tell old from new. A row of the log can be left over from one
life and be uploaded in the next while a thread adds another, so two lives and
two entries reach each order of the three parties that synchronise. A declaration
interacts with the one before it through the patterns they share; four lines make
a declaration, two that replace parts of it, and one that frees what they left,
or an expression begun in one block, left by a failure, and ended in another. Six
nodes hold a parent with four children of which the middle two are neighbours, and a
copy that climbs two levels and goes on to the right; every call is compared with what it
promises in every forest that fits, for every choice of nodes, so that first, last,
adjacent, nested and top-level places all occur. `FixedDepthIsWalked` is about trees
with one root, which is what an expression is. The
three factors of a product are what a sort needs to go round in a circle. Bounds are
CONSTANTS and appear only in guards of what users and clients begin, never in a
step of the program. `CHECK_DEADLOCK FALSE` stands in every configuration but `tree.cfg` because a
program whose user has nothing more to do is still. Types are not among the
invariants of the runs where a theorem states them.

*Fairness.* `ComputeServer!FairSpec` assumes strong fairness of the main loop
and of the runner's C++ code: the operating system schedules both threads, and
a mutex that is released again and again is given at some time to the thread
that waits for it (weak fairness would let the other thread retake it for
ever). Nothing is assumed of the user's code, of clients or of connections;
`AcceptedIsServed` therefore has "the code of no block runs for ever" as its
hypothesis. `Notebook!FairSpec` assumes weak fairness of the GUI thread, the
compute thread and the server's reading and starting of jobs. Each is a loop
that is never disabled by another one while it has something to do. The user
may stop acting at any time, and the code of a block may run for ever.
`Logging!FairSpec` assumes weak fairness of the websocket's thread (an attempt
to connect succeeds or times out), of the destructor and of the threads that
log, and none of the network, of the logging server, or of spurious wakeups.
The other modules have no liveness: what they model are calls that return.

## 4. What is proved

Every theorem holds for any value of the constants that the named assumptions
allow. In each module the theorems follow from one inductive invariant; its
lemmas go through the actions one at a time.

**`ComputeServerProofs`**, from `BoundsAreNat` (the bounds are numbers) and
`NoBlockIsNoBlock` (the value for "nothing" is no block): `TypeCorrectness`,
`LockOrder`, `WakeupsAreNotLost`, `RepliesGoToTheSender`. `TypeOK` is not
inductive: that what is pushed is a `Block` needs that requests on the way and in
hand carry the number of a request that was sent (`InboxHoldsSentRequests`,
`LoopHasMessageInHand`). `NoLostWakeup` is not inductive either: the runner goes
to sleep in the step that tests the queue, and nothing may be pushed between the
two, which is so because `block_available_mutex` is then the runner's
(`LocksInOrder`). That `current_hdl` and `current_id` are those of the block in hand
needs that the runner has one exactly between pop and reply (`RunnerHasBlockInHand`).

On top of that invariant: `OrderOfReplies`,
`OnePlaceForEveryRequest`, `OutputIsNotMixed`, and the refinement
`ServerIsAJobService` (`Spec => ImplementsJobService`). `OrderInv` says that the
requests of a connection form one line: answered (`FrontInv`), running and queued,
in the main loop's hand, on the way (`BackInv`), with growing numbers throughout
and no number in two places (`LinkInv`). Order, uniqueness and the step
simulation are three readings of it; the ownership of output needs in addition who
can have written to `catchOut` (`OutputInv`).

**`NotebookProofs`**, from `NotebookBounds` and the hypothesis `UserWaits`:
`RepliesFindTheirCells`, `OneJobForEveryCell`, `LastRunsOutput`, `NoneIsStuck`.
`LineInv` says at which stage the one job of a cell is (registered, on the way,
waiting, running, answered) and that a cell being executed was free. `StatusInv`
and `OutputInv` hold while no pointer to an erased node was followed and say what
the queued actions will make of the cell's status and output once they are
worked off: the properties are about the moment when the queue is empty, and are
inductive only with the queue in the formula. Without `UserWaits` they are
false in the few milliseconds the hypothesis excludes.

**`TeXEngineProofs`**, from `TeXAssumptions`: `TypeCorrect`, `OwnText`, `Unflagged`,
`Shown`. The heart is `OwnPage`: the request that is the n-th to be written is
the n-th to be read, in any order of the addresses, because nothing changes
`needs_generating` between the two walks. `Shown` needs that
no visible view is left with a flag as long as nothing but LaTeX errors
happened (`VisibleNeedsNothing`).

**`DocumentProofs`**, from `DocumentBounds` (one node at least, which a new document
has): `WidgetsMirrorDocument`, `BuffersMirrorTexts`, `IteratorsStayValid`, `UndoGivesBack`.
They speak of moments when the queue is empty, and none of them is inductive
without the queue. `DocInv` says that until the first undo of an action that does
not undo, and unless an erasure has lost its iterators, `Good` holds:
- `Shape`: document and widgets have the same addresses in the same places;
- `TextsAgree`: the queued actions on a text, executed in turn on the text in the
  document, stay within it and lead to what the widget shows, less what an
  announced erasure is about to take (`Leads`, a walk through the queue given by
  the texts after each action). A result that sets the buffer queues the erasure and
  insertion that make this true again (`Signals`);
- `QueueFits`: the cells and outputs of queued actions exist; a removal of a cell
  is the last action and the cursor has left the cell before it; a split has no
  text actions around it;
- `Chain`: each entry of the undo stack was made from a document `before`, and
  reverting it on the document of the next entry gives that one back (`Undoes`).
Below the actions there are lemmas about sequences (what is put in is taken out
again, and the same for a range of text) and about one cell changed, added or removed.
`UndoGivesBack` is exact: the document with its nodes, not only what is seen of it,
because older entries of the stack hold iterators to those nodes.

**`LoggingProofs`**, from `LoggingBounds`: `NoSecondUpload`, `EntriesStoredOnce`, `ConfirmedAreStored`,
`RunsBeforeLogs`. `OneAttempt` says that a row that can still be selected was never
uploaded; it needs the types of the tables, hence of what is written to them
(`DbTypes`). `TextInv` follows the text of an entry from `out_` into at most one
row. `FlowInv` follows rows and confirmations through the connections: what
is confirmed, or whose confirmation is on the way, is stored; a run is in the
channel before its entries.

**`KernelProofs`**, from `PropertiesAssumptions` and `KernelAssumptions`:
`KernelTypeOK`, `KernelMapsAgree`, `KernelNoDangling`, `KernelOneIndexSet`,
`KernelExpressionsEnd`, `KernelUsesLinesOnce`, `KernelFindsAttached` and the
refinement `KernelUsesTheStore`. `StoreInv` joins
the properties with one about the declaration in progress, which is no
attachment yet: its object is not freed, and if it is an index set it is the one
of its name (`OneIndexSetWithCurrent`). It is proved for `Properties`, and through the
refinement it holds of every program the kernel runs. `KernelExpressionsEnd`
needs what `lhs` and `rhs` hold between blocks (`TextsAreWhole`).
`KernelUsesLinesOnce` (`LinesAreUsedOnce`, from `AssignmentsHaveNames`) needs that
nothing is pending without an expression (`LinesInv`). The property says of every two
entries of the texts, the pending one last, that the earlier is the smaller, and four
changes keep it: a line is skipped (`LineSkipped`), taken (`LineTaken`), a text is
finished (`TextFinished`), a statement without text comes before the pending one
(`NoTextMade`). An unfinished `:= x` without a name is outside `AssignmentsHaveNames`:
`pre_parse` takes the empty `lhs` (`Server.cc:158`, `197`) for no pending
expression, and the next one that is captured overwrites the text.
`KernelFindsAttached` (`AttachedIsFound`) needs that a pattern whose name has no
wildcard has one normal property of a type and label at most (`AttachedOnce`):
`insert_prop` takes out the first entry that clashes, and with a wildcard there may
be more than that one.

**`LinkedTreeProofs`**, from `TreeAssumption` (memory, dummies and the null pointer are
different things): `LinksStayInAgreement` (the part of `EveryNodeHasOnePlace`
that speaks of the links), for any memory and any number of trees.
`LinksAgree` is not inductive: that every link has its other end does not
exclude a ring of siblings without a first, or a branch that contains its own
root, and taking nodes out of those leaves links that do not agree. `Sound` adds
that every set of nodes has one whose left neighbour is not in it (`NoRing`)
and one whose parent is not (`NoCycle`), and that each tree has a top level. A call goes
through states in which this is not so; `Loose(m, M)` says what holds
there: the nodes of `M` are in no list, everything else agrees. Two lemmas carry
the proof: siblings that leave (`LeaveKeeps`) make the memory loose in them and
close their place to a slot, and siblings that enter a slot which does not lie below
them (`EnterKeeps`) make it sound again. Every call of `tree.hh` is a
sequence of these two with allocation and release. The release of a subtree
needs that what the walk comes to is what lies below (`BelowFacts`), and that a
range of siblings is the chain from its first to its last (`RangeSegment`).
During a copy `CopyRuns` maps the nodes made so far to nodes of the source,
parents to parents; from this it follows that the loop never follows a null
pointer (`CopyRightFacts`), which `tree.hh` does not check.

**`TreeProofs`**, on top of that: `CallsKeepTheirWord`, `EveryNodeStaysInOnePlace`,
`CopiesAreFaithful`. These properties speak of the lists of children, which
`Kids` reads off the links by a walk, while the calls only know links.
`Arranged(m, M, k)` joins the two without recursion: the
links of every node of every list `k[p]`, in both directions, and of its owner at
both ends, lead to what stands beside it in `k[p]`; every live node but those of `M`
stands in one place of one list. `KidsOf` shows that then the walk reads
`k`, by the least position from the end at which it would not. The other lemmas follow the
two halves of a call: `LinkInArranges` puts a strand of nodes into a list (`Put`),
`UnlinkArranges` takes a range out (`Less`), and the lists a call promises are
compared with what the halves make of them (`InsteadOf`, `TwoGone`, `SwapCrosses`
for the two that have to be taken out and put in across each other). `erase` and `clear` need that
what the walk releases is what lies below in the lists (`UnderFacts`).
`ListsStayInOrder` says that some `k` is arranged in every state (`Orderly`), which is
inductive together with `Sound`; the first two theorems are consequences of it.
No bound on the memory is used: lists are finite, the set of nodes need not be.

`CopyIsFaithful`, the part of `CallsDoWhatTheySay` about copies, speaks of the last state of a copy, and needs what holds in the middle
of one (`CopyInv`). `Copies` maps the nodes made so far to those they are copies of: the same
data, and as children the copies of the first children. That alone would let a
copy end early. `GrowsAt` adds that the nodes that do not have all children yet
form a path, from the top to the place where the copy grows, each the last child so far
of the one before; the minimality of the path is a condition on its subsets, so that no induction
is needed to follow it up. Going down or to the right makes
the path longer by the new node (`CopyGrowsOn`), going up takes off a node that is
complete (`CopyRises`), and when the loop meets `last` only the top is left
(`CopyEndsCompletes`). The source does not change under the copy because it
neither contains the replaced node nor lies below it (`SubtreesApart`, `BeginTracks`).

*Only model-checked*: all liveness (the prover does no fairness and no ENABLED);
`WalksAreComplete`, because iterators and questions are recursive functions that
follow links of several kinds through a whole tree, some of them on domains
they can leave; and the properties of `Algebra`, whose operators are recursive
(the prover has no induction over trees).

## 5. What the passing runs do not say

*Server.*
- `OutputIsOwnOrOfAFailedBlock` is the strongest true statement about
  `catchOut`: it is emptied only when a block succeeds (`Server.cc:288`), so
  what a failed block printed is sent with the output of a later one, of
  perhaps another client.

*Document.*
- `BufferMirrorsText` says that buffer and document agree, not that what was
  typed is kept: an `ActionSetRunStatus` that is executed before an
  `ActionInsertText` behind it resets the buffer to the document.
- `NoStaleIterator` allows one exception, `"invalid text iterator"`: a result
  that arrives between the two halves of an erasure (`handle_erase` executes
  the queue first) sets the buffer, and the GTK iterators of the erasure are
  invalid.
- The properties of undo speak of histories that are `clean`, that is, without
  an undo of an action whose revert does not revert. `ActionAddCell::revert`
  looks for the cell among the children of the reference even when the cell was
  put before or after it, and removes an output cell or crashes;
  `ActionRemoveCell::revert` on the last cell inserts before a null node,
  gives no widgets to outputs, and makes new nodes to which older actions do
  not point; `ActionSplitCell::revert` is a FIXME.
- `remove_cell` erases only the cell's own key from `visualcells`; the keys of
  its output cells stay (`stale` in `Document`; `NotebookWindow.cc:606`), and a
  later cell at such an address would get no widget. Addresses are not reused
  in the model.

*Notebook.*
- `EveryRunEnds` assumes that no job is cancelled and no dialog is open, because
  the server discards waiting blocks without a reply and the "Kernel crashed"
  dialog runs a main loop inside `process_todo_queue`. A cell whose block was
  discarded stays registered, so that `number_of_cells_executing` counts it,
  until a kernel restart.
- The model has no torn access to `running_cells` (`ComputeThread.cc:358`), no
  spinner (`ComputeThread.cc:327` reads the number of running cells and sets it
  later), and no process that `stop` has forgotten (`ComputeThread.cc:416` sets
  `server_pid` to 0).

*Logging.*
- `ExitEnds` has two exceptions: a connection that fails, or is gone, leaves the
  destructor waiting for ever, and a spurious wakeup lets it hold
  `connection_mutex` while it joins the thread that waits for that mutex.
- `TextStoredOnce` does not say that rows are whole. Two threads that log at
  once get rows with the type of one and the text of both, and text that is
  streamed between the store and the clearing of `out_` is in no row, although
  `SnoopPrivate.hh:36` calls `operator()` thread-safe.
- `OpeningCatchesUp` is about entries written before the connection opens. One
  written between the synchronisation in `on_client_open` and the setting of
  `connection_is_open` waits for the next synchronisation.
- `RunsPrecedeTheirLogs` files entries under the run that uploads them, not
  the one that wrote them: "this is wrong, we may still have log entries from
  a previous run!" (`Snoop.cc:546`).

*TeX engine.*
- A LaTeX error in one cell clears the flags of all requests of the run; the
  good ones among them keep the picture they had, or none, until something
  invalidates them. `UnflaggedIsCurrent` and `ShownIsCurrent` except them
  (`dropped`), although `TeXView` calls `convert_all` to "Ensure that all TeX
  cells have been rendered by TeX". `ShownIsCurrent` is also about histories
  without failures of other kinds.
- Error and verbatim cells are not redrawn after a resize and keep pointing into
  the picture they had; `ShownIsCurrent` is about output and LaTeX cells.
- The handler of a new scale has no `try`: a LaTeX error there ends the program
  (`alive`).
- When a picture cannot be decoded or the temporary file cannot be made the
  program stays in `/tmp` (`cwd`); later runs do not depend on it.

*Properties, Kernel.*
- `AttachedIsFound` is about patterns without wildcards. Declaring `A_m::X` and
  then `A#::X` leaves two properties of one type, and the look-up of `A_m` finds
  the older one; declaring `A_m` again erases the entry of `A#`.
- The second pass of a labelled look-up starts from nothing and discards what the
  first pass found.
- A line of a lone `;` does not end a pending expression, and any line that is
  read while one is pending, a comment excepted, becomes a part of it, Python
  code included.

*LinkedTree.*
- The end of a list of siblings is an iterator without a node. `insert` of a
  constant there appends (`tree.hh:1242`); `insert` of a temporary, which is what
  `insert_subtree` does (`tree.hh:1326`), is another overload, and takes the feet
  of the tree (`tree.hh:1216`, "Backward compatibility"). `replace_match` on a sum
  of which only the last term matches loses the kept term that way
  (section 6), and `append_children` of the same making is avoided by
  `factor_out.cc:171`: "append_children has a BUG! Messes up the tree".
- Outside the preconditions above the code goes wrong: `move_ontop` of
  neighbours links a node to itself; `move_before` the end of a list
  (`tree.hh:1639`) sets neither parent nor last child; `move_out` leaves the parent
  pointing to what has left; `swap` of the last node at the top exchanges it with
  the feet; `erase_left_siblings` and `erase_right_siblings` at the top lose head or
  feet; `prepend_child` without a value assigns to a member that does not exist.
- The fixed-depth iterator does not know the node it was started from: from a node
  with a right sibling it goes on below that sibling. Its two users start at the
  top of an expression or stop by themselves.

*Algebra.*
- `AlgorithmsKeepTheValue` holds while `exact` does. Two calls clear it, where the
  code may change the value: `sort_product` on an expression with a power unless
  all letters of the list commute (a power commutes with everything, section 6),
  and `collect_factors` unless they do (`collect_factors.cc:87` uses the answer of
  `can_move_adjacent`, 1, -1 or 0, as a Boolean and drops the sign).
- `SelfCommuting::sign()` answers -1, so that `{A_m}` with that declaration
  anticommutes, while `core/properties/SelfCommuting.cnb` says "Make tensor
  components commute". `selfSign = 1` stands for "no declaration".
- `collect_factors` asserts that a base has multiplier 1
  (`collect_factors.cc:78`); the base of a power that was scaled ends the session
  (`stage = "aborted"`).
- `P_m P_m` of a `P` that anticommutes with itself is not set to zero by any of
  these algorithms. With a sort order that names some of the factors the order
  can have a circle (`OrderIsCircular`): a sort then leaves equal products in
  different orders, and `collect_terms` does not merge them. `ZeroIsRecognised`
  excepts both.
- `should_swap` says "Find a SortOrder property which contains both one and two"
  and looks for one of each. `unwrap` multiplies by what `can_swap` answers,
  which may be 0. `collect_terms` takes no account of the multiplier of the sum.
- When the clean-up replaces the node `apply_deep` started from, the caller's
  iterator is not updated; `repeat=True` would go on with a freed node.

## 6. Disagreements of code and comments

With a run that finds the counterexample:

| run | comment | what happens |
|---|---|---|
| `notebook_double` | `NotebookWindow.cc:818`: "otherwise all hell will break loose when we try to double-remove the existing output cell" | two executions without a connection queue the removals twice |
| `algebra_powers` | `sort_product.cnb:12`: "Also takes into account commutativity properties" | a power is moved past a factor with which its base does not commute |

The following formulas state what a comment says and stand in the modules. Adding
one to the configuration named shows that the code does not keep it.

| formula | configuration | comment | what happens |
|---|---|---|---|
| `ComputeServer!StopHaltsTheRunningBlock` | `server_live.cfg`, PROPERTY | `Server.hh`, `stop_block`: "Halt the currently running block" | a stop that meets no running code fails the next block |
| `ComputeServer!KeepsRunning` | `server_live.cfg`, PROPERTY | `Server.cc`, end of the last catch clause: "Keep running" | the reply to a closed connection throws out of the clause, and of the thread |
| `Document!UndoOfRemoveRestores` | `document.cfg`, PROPERTY | `Actions.hh`: "Keep track of the location where this cell ... was" | the cell comes back one place further down |
| `TreeChecks!ReplacedTermStaysInTheSum` | `tree.cfg`, INVARIANT | `replace_match.cc`: "Replace the first term that matches with 'current'" | when the last term of the sum is the only match, the kept term lands beside the sum |
| `Logging!FailedUploadsAreRetried` | `logging.cfg`, PROPERTY | `Snoop.cc`: "all locally stored entries which have a server_status field negative or zero" | only rows never tried are selected; an upload that was lost is not repeated |
| `Properties!LastIndicesWin` | `kernel.cfg`, INVARIANT | `Props.cc:516` on declaring indices again | the name keeps the set it was declared with first |

## 7. Not modelled, and what could come next

Not modelled, because nothing in it is a matter of states or of algebra that a
small instance shows: formatting of output, the parsing of property
arguments, tables of tensor symmetries, bindings, widgets, file formats, and
vendored code. `xperm` is a third-party algorithm. Code of the kind modelled here,
in the order in which it would add most:

1. More algorithms on `Expressions`: `product_rule`, `unwrap` (they need
   derivatives), `factor_in`, `factor_out`, `substitute` with pattern matching,
   `sym` and `asym`.
2. Pure enumeration against set comprehensions: `Combinatorics.hh`,
   `Permutations.hh`, `YoungTab.hh`.
3. `PreProcessor` and `Parser` as automata over short inputs.
4. Documents of several canvases, `load_from_string` into a used window
   (`DocumentThread.cc:87` keeps the undo stack), characters of several bytes
   (`CodeInput.cc:262`).

## 8. How to run

    for m in server:ComputeServer server_live:ComputeServer \
             notebook:Notebook notebook_live:Notebook document:Document \
             tex:TeXEngine logging:Logging tree:LinkedTree \
             kernel:Kernel algebra:Algebra; do
      tlc -config ${m%%:*}.cfg MC${m##*:}
    done
    tlc -config notebook_double.cfg MCNotebook     # a counterexample
    tlc -config algebra_powers.cfg MCAlgebra       # a counterexample
    for m in ComputeServer Notebook Document TeXEngine \
             Logging Kernel LinkedTree Tree; do
      tlapm ${m}Proofs.tla
    done
