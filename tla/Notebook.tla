------------------------------ MODULE Notebook ------------------------------
(***************************************************************************)
(* The notebook client and its kernel: the GUI thread (NotebookWindow.cc,  *)
(* DocumentThread.cc, Actions.cc), the compute thread that talks to the    *)
(* server (ComputeThread.cc), and the server, of which only the promise of *)
(* module JobService is used (ComputeServer implements it).                *)
(*                                                                         *)
(* The compute thread changes the document only by queueing actions, which *)
(* the GUI thread executes when the dispatcher wakes it.  Cells are Python *)
(* input cells; their text, the cursor and the order of cells are left     *)
(* out.  An output cell is named by the run of its input cell it came from *)
(* and by its type.  A pointer to a cell that was erased makes the program *)
(* undefined: the model records it in `corrupt' and stops.                 *)
(***************************************************************************)
EXTENDS Naturals, Sequences, FiniteSets, SequencesExt

CONSTANTS InputCell,   \* the input cells of the document
          MaxRuns,     \* bound: executions of every cell, by cell
          MaxStops,    \* bound: uses of the stop button
          MaxRestarts, \* bound: kernel restarts and kernel crashes
          MaxDeletes,  \* bound: cells deleted
          MaxFaults,   \* bound: blocks that end in a kernel fault
          UserWaits,   \* TRUE: the user acts only when the GUI is up to date
          NoCell

ASSUME NotebookBounds ==
  /\ MaxRuns \in [InputCell -> Nat]
  /\ {MaxStops, MaxRestarts, MaxDeletes, MaxFaults} \subseteq Nat
  /\ UserWaits \in BOOLEAN /\ NoCell \notin InputCell

VARIABLES
  \* the document (GUI thread)
  cells,       \* input cells in the document
  is_running,  \* DataCell::running
  outputs,     \* output cells under each input cell
  pending_actions, \* DocumentThread::pending_actions, shared by both threads
  wake,        \* the dispatcher was emitted and not handled yet
  gui_pc, gui_cell,  \* what the GUI thread is doing, and to which cell
  kernel_string,
  corrupt,     \* "no", or which stale pointer was used
  \* the compute thread
  running_cells, connection_is_open, restarting_kernel, server_pid,
  conn,        \* its websocket
  cmp_msg,     \* message of which on_message is half way
  client_up,   \* the client has not been terminated
  \* the server and the network
  srv, srv_queue, srv_running, srv_displayed, srv_interrupts,
  to_server, to_client,
  lost,        \* history: jobs cancelled by the server, or ended in a fault
  used         \* how much of each bound was used

docVars == <<cells, is_running, outputs>>
guiVars == <<gui_pc, gui_cell>>
cmpVars == <<running_cells, connection_is_open, restarting_kernel, server_pid,
             conn, cmp_msg>>
srvVars == <<srv, srv_queue, srv_running, srv_displayed, srv_interrupts, lost>>
netVars == <<to_server, to_client>>
vars == <<docVars, pending_actions, wake, guiVars, kernel_string, corrupt,
          cmpVars, client_up, srvVars, netVars, used>>

Job     == [cell : InputCell, run : Nat]
NoJob   == [cell |-> NoCell, run |-> 0]
Final   == {"output", "error", "fault"}
Reply   == [job : Job, type : Final \cup {"latex_view"}, empty : BOOLEAN]
NoReply == [job |-> NoJob, type |-> "none", empty |-> TRUE]
Output  == [run : Nat, type : {"output", "error", "latex_view"}]

(* Actions of Actions.cc, with the cell their iterator points to.           *)
SetRunStatus(c, b) == [act |-> "SetRunStatus", cell |-> c, arg |-> b]
AddCell(c, o)      == [act |-> "AddCell", cell |-> c, arg |-> o]
RemoveOutput(c, o) == [act |-> "RemoveOutput", cell |-> c, arg |-> o]
RemoveCell(c)      == [act |-> "RemoveCell", cell |-> c, arg |-> TRUE]
PositionCursor(c)  == [act |-> "PositionCursor", cell |-> c, arg |-> TRUE]

Init ==
  /\ cells = InputCell /\ is_running = [c \in InputCell |-> FALSE]
  /\ outputs = [c \in InputCell |-> {}]
  /\ pending_actions = <<>> /\ wake = FALSE
  /\ gui_pc = "idle" /\ gui_cell = NoCell
  /\ kernel_string = "connected" /\ corrupt = "no"
  /\ running_cells = {} /\ connection_is_open = TRUE
  /\ restarting_kernel = FALSE /\ server_pid = 1 /\ conn = "open"
  /\ cmp_msg = NoReply /\ client_up = TRUE
  /\ srv = 1 /\ srv_queue = <<>> /\ srv_running = NoJob
  /\ srv_displayed = FALSE /\ srv_interrupts = 0
  /\ to_server = <<>> /\ to_client = <<>> /\ lost = {}
  /\ used = [runs |-> [c \in InputCell |-> 0], stops |-> 0, restarts |-> 0,
             deletes |-> 0, faults |-> 0]

Alive == corrupt = "no" /\ client_up

Send(m) == to_server' = IF srv # 0 THEN Append(to_server, m) ELSE to_server

-----------------------------------------------------------------------------
(* The user.  Handlers run on the GUI thread, one at a time.                *)

UserActs == /\ Alive /\ gui_pc = "idle"
            /\ UserWaits => ~wake /\ cmp_msg = NoReply

(* Mutants: the check of `running' is missing; the old output is kept.      *)
Mutant_cell_content_execute_again(c) ==
  LET removals == SetToSeq({RemoveOutput(c, o) : o \in outputs[c]}) IN
  /\ UserActs /\ c \in cells /\ connection_is_open
  /\ used.runs[c] < MaxRuns[c]
  /\ pending_actions' = pending_actions \o removals \o <<PositionCursor(c)>>
  /\ wake' = TRUE
  /\ gui_pc' = "register" /\ gui_cell' = c
  /\ used' = [used EXCEPT !.runs[c] = @ + 1]
  /\ UNCHANGED <<docVars, kernel_string, corrupt, cmpVars, client_up, srvVars,
                 netVars>>
Mutant_cell_content_execute_keeps(c) ==
  /\ UserActs /\ c \in cells /\ ~is_running[c] /\ connection_is_open
  /\ used.runs[c] < MaxRuns[c]
  /\ pending_actions' = Append(pending_actions, PositionCursor(c))
  /\ wake' = TRUE
  /\ gui_pc' = "register" /\ gui_cell' = c
  /\ used' = [used EXCEPT !.runs[c] = @ + 1]
  /\ UNCHANGED <<docVars, kernel_string, corrupt, cmpVars, client_up, srvVars,
                 netVars>>

(* NotebookWindow::cell_content_execute, then ComputeThread::execute_cell   *)
(* up to where it registers the cell: every output cell is queued for       *)
(* removal before execute_cell returns for want of a connection.            *)
cell_content_execute(c) ==
  LET removals == SetToSeq({RemoveOutput(c, o) : o \in outputs[c]}) IN
  /\ UserActs /\ c \in cells
  /\ ~is_running[c]
  /\ used.runs[c] < MaxRuns[c]
  /\ IF connection_is_open
     THEN /\ pending_actions' =
               pending_actions \o removals \o <<PositionCursor(c)>>
          /\ wake' = TRUE
          /\ gui_pc' = "register" /\ gui_cell' = c
     ELSE /\ pending_actions' = pending_actions \o removals
          /\ UNCHANGED <<wake, guiVars>>
  /\ used' = [used EXCEPT !.runs[c] = @ + 1]
  /\ UNCHANGED <<docVars, kernel_string, corrupt, cmpVars, client_up, srvVars,
                 netVars>>

(* execute_cell: running_cells[id] = it.                                    *)
execute_cell_register ==
  /\ Alive /\ gui_pc = "register"
  /\ running_cells' = running_cells \cup {gui_cell}
  /\ gui_pc' = "send"
  /\ UNCHANGED <<docVars, pending_actions, wake, gui_cell, kernel_string,
                 corrupt, connection_is_open, restarting_kernel, server_pid,
                 conn, cmp_msg, client_up, srvVars, netVars, used>>

(* execute_cell: the status action, the request, the kernel status.         *)
execute_cell_send ==
  /\ Alive /\ gui_pc = "send"
  /\ pending_actions' = Append(pending_actions, SetRunStatus(gui_cell, TRUE))
  /\ Send([type |-> "execute_request",
           job |-> [cell |-> gui_cell, run |-> used.runs[gui_cell]]])
  /\ wake' = TRUE
  /\ gui_pc' = "idle" /\ gui_cell' = NoCell
  /\ UNCHANGED <<docVars, kernel_string, corrupt, cmpVars, client_up, srvVars,
                 to_client, used>>

(* on_edit_delete does not ask whether the cell is running.                 *)
on_edit_delete(c) ==
  /\ UserActs /\ c \in cells /\ used.deletes < MaxDeletes
  /\ pending_actions' = pending_actions \o <<PositionCursor(c), RemoveCell(c)>>
  /\ wake' = TRUE
  /\ used' = [used EXCEPT !.deletes = @ + 1]
  /\ UNCHANGED <<docVars, guiVars, kernel_string, corrupt, cmpVars, client_up,
                 srvVars, netVars>>

(* A key that changes the text or moves the cursor queues an action of its  *)
(* own and calls process_todo_queue.                                        *)
key_press ==
  /\ UserActs /\ pending_actions # <<>>
  /\ gui_pc' = "processing"
  /\ UNCHANGED <<docVars, pending_actions, wake, gui_cell, kernel_string,
                 corrupt, cmpVars, client_up, srvVars, netVars, used>>

(* ComputeThread::stop.                                                     *)
stop ==
  /\ UserActs /\ connection_is_open /\ used.stops < MaxStops
  /\ Send([type |-> "execute_interrupt", job |-> NoJob])
  /\ server_pid' = 0
  /\ used' = [used EXCEPT !.stops = @ + 1]
  /\ UNCHANGED <<docVars, pending_actions, wake, guiVars, kernel_string,
                 corrupt, running_cells, connection_is_open, restarting_kernel,
                 conn, cmp_msg, client_up, srvVars, to_client>>

(* ComputeThread::restart_kernel.                                           *)
restart_kernel ==
  /\ UserActs /\ connection_is_open /\ used.restarts < MaxRestarts
  /\ restarting_kernel' = TRUE
  /\ wake' = TRUE
  /\ Send([type |-> "exit", job |-> NoJob])
  /\ used' = [used EXCEPT !.restarts = @ + 1]
  /\ UNCHANGED <<docVars, pending_actions, guiVars, kernel_string, corrupt,
                 running_cells, connection_is_open, server_pid, conn, cmp_msg,
                 client_up, srvVars, to_client>>

(* The window is closed: ComputeThread::terminate.                          *)
terminate ==
  /\ UserActs
  /\ client_up' = FALSE
  /\ srv' = IF server_pid # 0 THEN 0 ELSE srv
  /\ UNCHANGED <<docVars, pending_actions, wake, guiVars, kernel_string,
                 corrupt, cmpVars, srv_queue, srv_running, srv_displayed,
                 srv_interrupts, lost, netVars, used>>

-----------------------------------------------------------------------------
(* The GUI thread: process_todo_queue and process_action_queue.             *)

process_todo_queue ==
  /\ Alive /\ gui_pc = "idle" /\ wake
  /\ wake' = FALSE /\ gui_pc' = "processing"
  /\ UNCHANGED <<docVars, pending_actions, gui_cell, kernel_string, corrupt,
                 cmpVars, client_up, srvVars, netVars, used>>

(* Action::execute, one action at a time: between two, stack_mutex is free  *)
(* and the compute thread may queue more.                                   *)
execute_action ==
  LET a == Head(pending_actions) IN
  /\ Alive /\ gui_pc = "processing" /\ pending_actions # <<>>
  /\ pending_actions' = Tail(pending_actions)
  /\ IF a.cell \notin cells
     THEN corrupt' = "erased cell" /\ UNCHANGED docVars
     ELSE CASE a.act = "SetRunStatus" ->
                 /\ is_running' = [is_running EXCEPT ![a.cell] = a.arg]
                 /\ UNCHANGED <<cells, outputs, corrupt>>
            [] a.act = "AddCell" ->
                 /\ outputs' = [outputs EXCEPT ![a.cell] = @ \cup {a.arg}]
                 /\ UNCHANGED <<cells, is_running, corrupt>>
            [] a.act = "RemoveOutput" ->
                 /\ outputs' = [outputs EXCEPT ![a.cell] = @ \ {a.arg}]
                 /\ corrupt' = IF a.arg \in outputs[a.cell] THEN corrupt
                                                   ELSE "removed output"
                 /\ UNCHANGED <<cells, is_running>>
            [] a.act = "RemoveCell" ->
                 /\ cells' = cells \ {a.cell}
                 /\ outputs' = [outputs EXCEPT ![a.cell] = {}]
                 /\ UNCHANGED <<is_running, corrupt>>
            [] a.act = "PositionCursor" -> UNCHANGED <<docVars, corrupt>>
  /\ UNCHANGED <<wake, guiVars, kernel_string, cmpVars, client_up, srvVars,
                 netVars, used>>

(* The queue is empty.  When the kernel was lost, a modal dialog tells so,  *)
(* inside process_todo_queue.                                               *)
process_todo_queue_ends ==
  /\ Alive /\ gui_pc = "processing" /\ pending_actions = <<>>
  /\ gui_pc' = IF kernel_string = "not connected" THEN "dialog" ELSE "idle"
  /\ UNCHANGED <<docVars, pending_actions, wake, gui_cell, kernel_string,
                 corrupt, cmpVars, client_up, srvVars, netVars, used>>

(* The dispatcher fires while the dialog is up: process_todo_queue returns  *)
(* at once.                                                                 *)
process_todo_queue_reentered ==
  /\ Alive /\ gui_pc = "dialog" /\ wake
  /\ wake' = FALSE
  /\ UNCHANGED <<docVars, pending_actions, guiVars, kernel_string, corrupt,
                 cmpVars, client_up, srvVars, netVars, used>>

dialog_dismissed ==
  /\ Alive /\ gui_pc = "dialog"
  /\ gui_pc' = "idle"
  /\ UNCHANGED <<docVars, pending_actions, wake, gui_cell, kernel_string,
                 corrupt, cmpVars, client_up, srvVars, netVars, used>>

-----------------------------------------------------------------------------
(* The compute thread: handlers of websocketpp's client loop.               *)

(* Mutant: the cell is forgotten at the first message about it.             *)
Mutant_on_message ==
  LET m == Head(to_client) IN
  /\ Alive /\ cmp_msg = NoReply /\ conn = "open" /\ to_client # <<>>
  /\ to_client' = Tail(to_client)
  /\ IF m.job.cell \in running_cells
     THEN /\ cmp_msg' = m
          /\ running_cells' = running_cells \ {m.job.cell}
          /\ pending_actions' = Append(pending_actions, SetRunStatus(m.job.cell, FALSE))
          /\ UNCHANGED wake
     ELSE wake' = TRUE /\ UNCHANGED <<cmp_msg, running_cells, pending_actions>>
  /\ UNCHANGED <<docVars, guiVars, kernel_string, corrupt, connection_is_open,
                 restarting_kernel, server_pid, conn, client_up, srvVars,
                 to_server, used>>

(* on_message up to the status action.  find_cell_by_id throws when the     *)
(* cell is not in running_cells; the handler then only updates the status.  *)
(* A "fault" does not count as finished.                                    *)
on_message ==
  LET m == Head(to_client)
      finished == m.type \in {"output", "error"} IN
  /\ Alive /\ cmp_msg = NoReply /\ conn = "open" /\ to_client # <<>>
  /\ to_client' = Tail(to_client)
  /\ IF m.job.cell \in running_cells
     THEN /\ cmp_msg' = m
          /\ running_cells' = running_cells \ (IF finished THEN {m.job.cell} ELSE {})
          /\ pending_actions' = IF finished
               THEN Append(pending_actions, SetRunStatus(m.job.cell, FALSE))
               ELSE pending_actions
          /\ UNCHANGED wake
     ELSE wake' = TRUE /\ UNCHANGED <<cmp_msg, running_cells, pending_actions>>
  /\ UNCHANGED <<docVars, guiVars, kernel_string, corrupt, connection_is_open,
                 restarting_kernel, server_pid, conn, client_up, srvVars,
                 to_server, used>>

(* Mutant: the GUI thread is not woken.                                     *)
Mutant_on_message_output_silent ==
  LET c == cmp_msg.job.cell
      add == AddCell(c, [run |-> cmp_msg.job.run, type |-> cmp_msg.type]) IN
  /\ Alive /\ cmp_msg # NoReply
  /\ pending_actions' = IF cmp_msg.empty \/ cmp_msg.type = "fault"
                         THEN pending_actions
                         ELSE Append(pending_actions, add)
  /\ cmp_msg' = NoReply
  /\ UNCHANGED <<docVars, wake, guiVars, kernel_string, corrupt, running_cells,
                 connection_is_open, restarting_kernel, server_pid, conn,
                 client_up, srvVars, netVars, used>>

(* on_message, the output cell and the end of the handler.                  *)
on_message_output ==
  LET c == cmp_msg.job.cell
      add == AddCell(c, [run |-> cmp_msg.job.run, type |-> cmp_msg.type]) IN
  /\ Alive /\ cmp_msg # NoReply
  /\ pending_actions' =
       CASE cmp_msg.empty \/ cmp_msg.type = "fault" -> pending_actions
         [] ~cmp_msg.empty /\ cmp_msg.type = "error" ->
              pending_actions \o <<add, PositionCursor(c)>>
         [] OTHER -> Append(pending_actions, add)
  /\ cmp_msg' = NoReply
  /\ wake' = TRUE
  /\ UNCHANGED <<docVars, guiVars, kernel_string, corrupt, running_cells,
                 connection_is_open, restarting_kernel, server_pid, conn,
                 client_up, srvVars, netVars, used>>

on_open ==
  /\ Alive /\ conn = "connecting" /\ srv # 0
  /\ conn' = "open" /\ connection_is_open' = TRUE
  /\ restarting_kernel' = FALSE
  /\ kernel_string' = "connected" /\ wake' = TRUE
  /\ UNCHANGED <<docVars, pending_actions, guiVars, corrupt, running_cells,
                 server_pid, cmp_msg, client_up, srvVars, netVars, used>>

(* What was still to be read may be lost; on_close tries the old port again.*)
on_close ==
  /\ Alive /\ conn = "open" /\ srv = 0 /\ cmp_msg = NoReply
  /\ connection_is_open' = FALSE
  /\ kernel_string' = IF restarting_kernel THEN "restarting kernel"
                                           ELSE "not connected"
  /\ wake' = TRUE
  /\ conn' = "connecting"
  /\ to_client' = <<>>
  /\ UNCHANGED <<docVars, pending_actions, guiVars, corrupt, running_cells,
                 restarting_kernel, server_pid, cmp_msg, client_up, srvVars,
                 to_server, used>>

(* Mutants: the map is cleared before it is gone over; it is not cleared.   *)
Mutant_all_cells_nonrunning_early ==
  running_cells' = {} /\ UNCHANGED pending_actions
Mutant_all_cells_nonrunning_keeps ==
  /\ pending_actions' = pending_actions \o
       SetToSeq({SetRunStatus(c, FALSE) : c \in running_cells})
  /\ UNCHANGED running_cells

(* Every registered cell is queued to be marked as not running.             *)
all_cells_nonrunning ==
  /\ pending_actions' = pending_actions \o
       SetToSeq({SetRunStatus(c, FALSE) : c \in running_cells})
  /\ running_cells' = {}

(* on_fail: all_cells_nonrunning, then a new server.  on_close slept for a  *)
(* second before, so that no execute_cell that began before it is still     *)
(* going on.                                                                *)
on_fail ==
  /\ Alive /\ conn = "connecting" /\ srv = 0
  /\ gui_pc \notin {"register", "send"}
  /\ connection_is_open' = FALSE
  /\ all_cells_nonrunning
  /\ wake' = TRUE
  /\ kernel_string' = IF server_pid # 0 THEN "cannot reach server, retrying..."
                                        ELSE kernel_string
  /\ srv' = 1 /\ server_pid' = 1
  /\ UNCHANGED <<docVars, guiVars, corrupt, restarting_kernel, conn, cmp_msg,
                 client_up, srv_queue, srv_running, srv_displayed,
                 srv_interrupts, lost, netVars, used>>

-----------------------------------------------------------------------------
(* The server, followed as long as the client lives.                        *)

srv_dies ==
  /\ srv' = 0 /\ srv_queue' = <<>> /\ srv_running' = NoJob
  /\ srv_displayed' = FALSE /\ srv_interrupts' = 0
  /\ to_server' = <<>>

CancelWaiting == /\ lost' = lost \cup ToSet(srv_queue)
                 /\ srv_queue' = <<>>

srv_receives ==
  LET m == Head(to_server) IN
  /\ Alive /\ srv # 0 /\ to_server # <<>>
  /\ \/ /\ m.type = "execute_request"
        /\ srv_queue' = Append(srv_queue, m.job)
        /\ to_server' = Tail(to_server)
        /\ UNCHANGED <<srv, srv_running, srv_displayed, srv_interrupts, lost>>
     \/ /\ m.type = "execute_interrupt"
        /\ CancelWaiting
        /\ srv_interrupts' = srv_interrupts + 1
        /\ to_server' = Tail(to_server)
        /\ UNCHANGED <<srv, srv_running, srv_displayed>>
     \/ /\ m.type = "exit"
        /\ srv_dies
        /\ UNCHANGED lost
  /\ UNCHANGED <<docVars, pending_actions, wake, guiVars, kernel_string,
                 corrupt, cmpVars, client_up, to_client, used>>

kernel_crash ==
  /\ Alive /\ srv # 0 /\ used.restarts < MaxRestarts
  /\ srv_dies
  /\ used' = [used EXCEPT !.restarts = @ + 1]
  /\ UNCHANGED <<docVars, pending_actions, wake, guiVars, kernel_string,
                 corrupt, cmpVars, client_up, lost, to_client>>

srv_starts ==
  /\ Alive /\ srv # 0 /\ srv_running = NoJob /\ srv_queue # <<>>
  /\ srv_running' = Head(srv_queue)
  /\ srv_queue' = Tail(srv_queue)
  /\ UNCHANGED <<docVars, pending_actions, wake, guiVars, kernel_string,
                 corrupt, cmpVars, client_up, srv, srv_displayed,
                 srv_interrupts, lost, netVars, used>>

SrvSends(t, e) ==
  /\ Alive /\ srv # 0 /\ srv_running # NoJob
  /\ to_client' = Append(to_client, [job |-> srv_running, type |-> t, empty |-> e])
  /\ UNCHANGED <<docVars, pending_actions, wake, guiVars, kernel_string,
                 corrupt, cmpVars, client_up, srv, to_server>>

(* The block displays an expression; once per block suffices.               *)
srv_displays ==
  /\ ~srv_displayed /\ srv_displayed' = TRUE
  /\ SrvSends("latex_view", FALSE)
  /\ UNCHANGED <<srv_queue, srv_running, srv_interrupts, lost, used>>

srv_finishes ==
  /\ \E e \in BOOLEAN : SrvSends("output", e)
  /\ srv_running' = NoJob /\ srv_displayed' = FALSE
  /\ UNCHANGED <<srv_queue, srv_interrupts, lost, used>>

srv_fails ==
  /\ \/ SrvSends("error", FALSE) /\ UNCHANGED srv_interrupts
     \/ /\ srv_interrupts > 0 /\ srv_interrupts' = srv_interrupts - 1
        /\ SrvSends("error", TRUE)
  /\ CancelWaiting
  /\ srv_running' = NoJob /\ srv_displayed' = FALSE
  /\ UNCHANGED used

srv_faults ==
  /\ used.faults < MaxFaults
  /\ used' = [used EXCEPT !.faults = @ + 1]
  /\ SrvSends("fault", FALSE)
  /\ lost' = lost \cup ToSet(srv_queue) \cup {srv_running}
  /\ srv_queue' = <<>>
  /\ srv_running' = NoJob /\ srv_displayed' = FALSE
  /\ UNCHANGED srv_interrupts

-----------------------------------------------------------------------------
User == \/ \E c \in InputCell : cell_content_execute(c) \/ on_edit_delete(c)
        \/ key_press \/ stop \/ restart_kernel \/ terminate \/ dialog_dismissed

GUI == \/ execute_cell_register \/ execute_cell_send
       \/ process_todo_queue \/ execute_action \/ process_todo_queue_ends
       \/ process_todo_queue_reentered

Compute == on_message \/ on_message_output \/ on_open \/ on_close \/ on_fail

ServerRuns  == srv_displays \/ srv_finishes \/ srv_fails \/ srv_faults
ServerMoves == srv_receives \/ srv_starts

Next == User \/ GUI \/ Compute \/ ServerMoves \/ ServerRuns \/ kernel_crash

Spec == Init /\ [][Next]_vars

(* Both threads of the client and the server's own threads are scheduled.   *)
(* The user need not act, and the code of a block need not end.             *)
FairSpec == Spec /\ WF_vars(GUI) /\ WF_vars(Compute) /\ WF_vars(ServerMoves)

-----------------------------------------------------------------------------
(* Types of the state.                                                      *)
Action == [act : {"SetRunStatus", "RemoveCell", "PositionCursor"},
           cell : InputCell, arg : BOOLEAN]
            \cup [act : {"AddCell", "RemoveOutput"}, cell : InputCell, arg : Output]

TypeOK ==
  /\ cells \subseteq InputCell
  /\ is_running \in [InputCell -> BOOLEAN]
  /\ outputs \in [InputCell -> SUBSET Output]
  /\ pending_actions \in Seq(Action)
  /\ wake \in BOOLEAN
  /\ gui_pc \in {"idle", "register", "send", "processing", "dialog"}
  /\ gui_cell \in InputCell \cup {NoCell}
  /\ kernel_string \in {"connected", "not connected", "restarting kernel",
                        "cannot reach server, retrying..."}
  /\ corrupt \in {"no", "erased cell", "removed output"}
  /\ running_cells \subseteq InputCell
  /\ connection_is_open \in BOOLEAN /\ restarting_kernel \in BOOLEAN
  /\ server_pid \in {0, 1} /\ conn \in {"open", "connecting"}
  /\ cmp_msg \in Reply \cup {NoReply} /\ client_up \in BOOLEAN
  /\ srv \in {0, 1}
  /\ srv_queue \in Seq(Job) /\ srv_running \in Job \cup {NoJob}
  /\ srv_displayed \in BOOLEAN /\ srv_interrupts \in 0..MaxStops
  /\ to_server \in Seq([type : {"execute_request", "execute_interrupt", "exit"},
                        job : Job \cup {NoJob}])
  /\ to_client \in Seq(Reply)
  /\ lost \subseteq Job

(* Where the jobs of a cell can be: requests on their way, on the server,   *)
(* and closing replies the compute thread has not read.                     *)
JobsOf(c) ==
  ({"sent"} \X {i \in DOMAIN to_server : to_server[i].job.cell = c})
    \cup ({"waiting"} \X {i \in DOMAIN srv_queue : srv_queue[i].cell = c})
    \cup (IF srv_running.cell = c THEN {<<"running", 1>>} ELSE {})
    \cup ({"answered"} \X {i \in DOMAIN to_client :
            to_client[i].job.cell = c /\ to_client[i].type \in {"output", "error"}})

(* The compute thread finds the cell of every message it can still get: a   *)
(* cell stays registered until its closing reply was read, through stops,   *)
(* failures of other cells, deletions and restarts.                         *)
EveryReplyFindsItsCell ==
  \A c \in InputCell :
    JobsOf(c) # {} \/ (\E i \in DOMAIN to_client : to_client[i].job.cell = c)
      => c \in running_cells

(* A cell is on its way to, on, or on its way back from the server at most  *)
(* once: the check of DataCell::running, which is only set when a queued    *)
(* action is executed, comes in time.                                       *)
OneJobPerCell == \A c \in InputCell : Cardinality(JobsOf(c)) <= 1

(* When the GUI is up to date, the output under a cell is that of its last  *)
(* execution only.                                                          *)
OutputIsOfTheLastRun ==
  pending_actions = <<>> /\ cmp_msg = NoReply /\ Alive =>
    \A c \in cells : \A o \in outputs[c] : o.run = used.runs[c]

(* A cell the user sees running, and hence cannot execute, is registered or *)
(* about to be freed: a kernel restart, which goes over running_cells, gets *)
(* at every such cell.                                                      *)
NoCellIsStuck ==
  \A c \in cells :
    is_running[c] => \/ c \in running_cells
                     \/ SetRunStatus(c, FALSE) \in ToSet(pending_actions)

(* When blocks end, the server cancels nothing and no dialog hides the      *)
(* notebook, a cell that runs does not run for ever.                        *)
EveryRunEnds ==
  ([](lost = {} /\ gui_pc # "dialog") /\ []<>(srv_running = NoJob)) =>
    \A c \in InputCell :
      is_running[c] ~> (~is_running[c] \/ c \notin cells \/ ~Alive)

(* When the kernel dies, asked to or not, the client starts a new one,      *)
(* connects to it and gives up waiting for the cells that were running.     *)
KernelDeathIsRepaired ==
  /\ (srv = 0) ~> ((srv # 0 /\ conn = "open") \/ ~Alive)
  /\ \A c \in InputCell :
       (srv = 0 /\ c \in running_cells) ~> (c \notin running_cells \/ ~Alive)

(* NotebookWindow.cc: a cell that is running is not executed again, because *)
(* "otherwise all hell will break loose when we try to double-remove the    *)
(* existing output cell".  No output cell is removed twice.  (The code does *)
(* not keep this: see the README.)                                          *)
NoDoubleRemove == corrupt # "removed output"

=============================================================================
