--------------------------- MODULE ComputeServer ---------------------------
(***************************************************************************)
(* The compute server of the notebook (client_server/Server.cc).  Two      *)
(* threads share a queue of blocks of code:                                *)
(*                                                                         *)
(*   - the websocket main loop, which runs on_open, on_close and           *)
(*     on_message under ws_mutex, and dispatch_message inside on_message;  *)
(*   - the runner, wait_for_job, which takes one block at a time, runs it  *)
(*     in the Python interpreter and sends the result.                     *)
(*                                                                         *)
(* A block is named by the connection it came from and the number of the   *)
(* request on that connection (the cell_id of the header).  The text of a  *)
(* block, of its output and of its error is left out; what is kept of the  *)
(* output is whose text it contains.                                       *)
(***************************************************************************)
EXTENDS Naturals, Sequences, FiniteSets

CONSTANTS Client,        \* websocket connections
          MaxRequests,   \* bound: execute requests of each connection
          MaxControls,   \* bound: stop and exit messages in total
          NoBlock        \* stands for "no block"

Block == UNION {[hdl : {c}, id : 1..MaxRequests[c]] : c \in Client}

ASSUME BoundsAreNat == MaxRequests \in [Client -> Nat] /\ MaxControls \in Nat
ASSUME NoBlockIsNoBlock == NoBlock \notin Block

VARIABLES
  up,           \* the server process exists
  socket,       \* transport state of every connection
  connections,  \* Server::connections, the connections on_open recorded
  sent,         \* requests a client has sent (environment)
  controls,     \* stop and exit messages sent so far (environment)
  inbox,        \* frames on their way from every client to on_message
  ws_mutex, block_available_mutex,   \* holder of each mutex
  loop_pc, loop_msg,                 \* main loop: where it is, message in hand
  run_pc, block,                     \* runner: where it is, its local Block
  current_hdl, current_id,           \* Server::current_hdl, current_id
  block_queue,  \* Server::block_queue
  interrupts,   \* pending calls of stop_block: the block each was aimed at
  catchOut,     \* Server::catchOut: the blocks whose output it holds
  outbox,       \* messages sent to every client, in order
  discarded     \* history: blocks swapped out of the queue unrun

loopVars == <<ws_mutex, loop_pc, loop_msg>>
runVars  == <<run_pc, block, current_hdl, current_id, catchOut>>
envVars  == <<socket, connections, sent, controls>>
vars == <<up, envVars, inbox, loopVars, block_available_mutex, runVars,
          block_queue, interrupts, outbox, discarded>>

(* "stop" stands for execute_interrupt and for init, whose branches of      *)
(* dispatch_message do the same to the state.                               *)
Message == [type : {"execute_request", "stop", "exit"}, id : Nat]
Final   == {"output", "error", "fault"}   \* the three closing replies
Reply   == [type : Final \cup {"latex_view"}, id : Nat, text : SUBSET Block]

RunnerStates == {"lock", "test", "waiting", "preparse", "exec", "output",
                 "error_clear", "fault_clear", "error", "fault"}

Init ==
  /\ up = TRUE
  /\ socket = [c \in Client |-> "connecting"]
  /\ connections = {}
  /\ sent = [c \in Client |-> 0]
  /\ controls = 0
  /\ inbox = [c \in Client |-> <<>>]
  /\ ws_mutex = "free" /\ block_available_mutex = "free"
  /\ loop_pc = "idle" /\ loop_msg = [hdl |-> NoBlock, msg |-> NoBlock]
  /\ run_pc = "lock" /\ block = NoBlock
  /\ current_hdl = NoBlock /\ current_id = 0
  /\ block_queue = <<>>
  /\ interrupts = <<>>
  /\ catchOut = {}
  /\ outbox = [c \in Client |-> <<>>]
  /\ discarded = {}

Queued == {block_queue[i] : i \in DOMAIN block_queue}

-----------------------------------------------------------------------------
(* The clients, as far as the server sees them.                            *)

ClientSends(c, m) ==
  /\ up /\ socket[c] = "open"
  /\ inbox' = [inbox EXCEPT ![c] = Append(@, m)]
  /\ UNCHANGED <<up, socket, connections, loopVars, block_available_mutex,
                 runVars, block_queue, interrupts, outbox, discarded>>

SendRequest(c) ==
  /\ sent[c] < MaxRequests[c]
  /\ sent' = [sent EXCEPT ![c] = @ + 1]
  /\ ClientSends(c, [type |-> "execute_request", id |-> sent[c] + 1])
  /\ UNCHANGED controls

SendControl(c) ==
  /\ controls < MaxControls
  /\ controls' = controls + 1
  /\ \E t \in {"stop", "exit"} : ClientSends(c, [type |-> t, id |-> 0])
  /\ UNCHANGED sent

(* The connection goes away: websocketpp's terminate marks it closed on the *)
(* main loop's thread, and runs on_close later, from the same loop.         *)
Drop(c) ==
  /\ up /\ loop_pc = "idle" /\ socket[c] = "open"
  /\ socket' = [socket EXCEPT ![c] = "closed"]
  /\ inbox' = [inbox EXCEPT ![c] = <<>>]
  /\ UNCHANGED <<up, connections, sent, controls, loopVars,
                 block_available_mutex, runVars, block_queue, interrupts,
                 outbox, discarded>>

-----------------------------------------------------------------------------
(* The websocket main loop.                                                *)

on_open(c) ==
  /\ up /\ loop_pc = "idle" /\ ws_mutex = "free" /\ socket[c] = "connecting"
  /\ socket' = [socket EXCEPT ![c] = "open"]
  /\ connections' = connections \cup {c}
  /\ UNCHANGED <<up, sent, controls, inbox, loopVars, block_available_mutex,
                 runVars, block_queue, interrupts, outbox, discarded>>

on_close(c) ==
  /\ up /\ loop_pc = "idle" /\ ws_mutex = "free"
  /\ socket[c] = "closed" /\ c \in connections
  /\ connections' = connections \ {c}
  /\ UNCHANGED <<up, socket, sent, controls, inbox, loopVars,
                 block_available_mutex, runVars, block_queue, interrupts,
                 outbox, discarded>>

(* on_message locks ws_mutex and keeps it until dispatch_message returns.   *)
(* websocketpp runs on_open before the first message of a connection and    *)
(* on_close after the last, so the unknown-connection return is not taken.  *)
on_message(c) ==
  /\ up /\ loop_pc = "idle" /\ ws_mutex = "free" /\ inbox[c] # <<>>
  /\ c \in connections
  /\ inbox' = [inbox EXCEPT ![c] = Tail(@)]
  /\ loop_msg' = [hdl |-> c, msg |-> Head(inbox[c])]
  /\ ws_mutex' = "loop"
  /\ loop_pc' = "dispatch"
  /\ UNCHANGED <<up, envVars, block_available_mutex, runVars, block_queue,
                 interrupts, outbox, discarded>>

(* The three message types that touch the queue lock its mutex first.       *)
dispatch_lock ==
  /\ up /\ loop_pc = "dispatch" /\ loop_msg.msg.type # "exit"
  /\ block_available_mutex = "free"
  /\ block_available_mutex' = "loop"
  /\ loop_pc' = "queue"
  /\ UNCHANGED <<up, envVars, inbox, ws_mutex, loop_msg, runVars, block_queue,
                 interrupts, outbox, discarded>>

(* Both scoped locks are released when on_message returns.                  *)
ReturnToLoop ==
  /\ ws_mutex' = "free" /\ block_available_mutex' = "free"
  /\ loop_pc' = "idle"
  /\ loop_msg' = [hdl |-> NoBlock, msg |-> NoBlock]

(* Mutant: the push does not notify.                                        *)
Mutant_notify_one == run_pc' = run_pc

(* notify_one: a runner that waits goes back to contend for the mutex.      *)
notify_one == run_pc' = IF run_pc = "waiting" THEN "lock" ELSE run_pc

(* Mutant: the new block goes to the front.                                 *)
Mutant_dispatch_execute_request ==
  /\ up /\ loop_pc = "queue" /\ loop_msg.msg.type = "execute_request"
  /\ block_queue' = <<[hdl |-> loop_msg.hdl, id |-> loop_msg.msg.id]>>
                       \o block_queue
  /\ notify_one
  /\ ReturnToLoop
  /\ UNCHANGED <<up, envVars, inbox, block, current_hdl, current_id, catchOut,
                 interrupts, outbox, discarded>>

dispatch_execute_request ==
  /\ up /\ loop_pc = "queue" /\ loop_msg.msg.type = "execute_request"
  /\ block_queue' = Append(block_queue,
                           [hdl |-> loop_msg.hdl, id |-> loop_msg.msg.id])
  /\ notify_one
  /\ ReturnToLoop
  /\ UNCHANGED <<up, envVars, inbox, block, current_hdl, current_id, catchOut,
                 interrupts, outbox, discarded>>

(* Mutants: the swap is forgotten; only the first block is removed.         *)
Mutant_clear_queue_keeps ==
  /\ discarded' = discarded \cup Queued
  /\ block_queue' = block_queue
Mutant_clear_queue_pops ==
  IF block_queue = <<>>
  THEN UNCHANGED <<discarded, block_queue>>
  ELSE /\ discarded' = discarded \cup {Head(block_queue)}
       /\ block_queue' = Tail(block_queue)

(* Swapping the queue for an empty one forgets the blocks on it.            *)
clear_queue ==
  /\ discarded' = discarded \cup Queued
  /\ block_queue' = <<>>

(* stop_block only leaves a pending call with the interpreter.              *)
stop_block ==
  interrupts' = Append(interrupts,
                       IF run_pc \in {"preparse", "exec"} THEN block ELSE NoBlock)

dispatch_stop ==
  /\ up /\ loop_pc = "queue" /\ loop_msg.msg.type = "stop"
  /\ stop_block
  /\ clear_queue
  /\ ReturnToLoop
  /\ UNCHANGED <<up, envVars, inbox, runVars, outbox>>

dispatch_exit ==
  /\ up /\ loop_pc = "dispatch" /\ loop_msg.msg.type = "exit"
  /\ up' = FALSE
  /\ UNCHANGED <<envVars, inbox, loopVars, block_available_mutex, runVars,
                 block_queue, interrupts, outbox, discarded>>

-----------------------------------------------------------------------------
(* The runner, wait_for_job.                                               *)

RunnerMoves(from, to) == up /\ run_pc = from /\ run_pc' = to

runner_lock ==
  /\ RunnerMoves("lock", "test")
  /\ block_available_mutex = "free"
  /\ block_available_mutex' = "runner"
  /\ UNCHANGED <<up, envVars, inbox, loopVars, block, current_hdl, current_id,
                 catchOut, block_queue, interrupts, outbox, discarded>>

(* The queue is empty: block_available.wait releases the mutex.             *)
runner_wait ==
  /\ RunnerMoves("test", "waiting")
  /\ block_queue = <<>>
  /\ block_available_mutex' = "free"
  /\ UNCHANGED <<up, envVars, inbox, loopVars, block, current_hdl, current_id,
                 catchOut, block_queue, interrupts, outbox, discarded>>

(* A wait may return without a notification; the loop tests again.          *)
runner_spurious_wakeup ==
  /\ RunnerMoves("waiting", "lock")
  /\ UNCHANGED <<up, envVars, inbox, loopVars, block_available_mutex, block,
                 current_hdl, current_id, catchOut, block_queue, interrupts,
                 outbox, discarded>>

(* Mutant: current_id keeps the number of an earlier block.                 *)
Mutant_runner_pop ==
  /\ RunnerMoves("test", "preparse")
  /\ block_queue # <<>>
  /\ block' = Head(block_queue)
  /\ block_queue' = Tail(block_queue)
  /\ block_available_mutex' = "free"
  /\ current_hdl' = Head(block_queue).hdl
  /\ UNCHANGED <<up, envVars, inbox, loopVars, current_id, catchOut, interrupts,
                 outbox, discarded>>

runner_pop ==
  /\ RunnerMoves("test", "preparse")
  /\ block_queue # <<>>
  /\ block' = Head(block_queue)
  /\ block_queue' = Tail(block_queue)
  /\ block_available_mutex' = "free"
  /\ current_hdl' = Head(block_queue).hdl
  /\ current_id' = Head(block_queue).id
  /\ UNCHANGED <<up, envVars, inbox, loopVars, catchOut, interrupts, outbox,
                 discarded>>

(* pre_parse of every line; a regular expression that gets too complex      *)
(* throws a std::runtime_error.                                             *)
run_string_preparse ==
  /\ \/ RunnerMoves("preparse", "exec")
     \/ RunnerMoves("preparse", "error_clear")
  /\ UNCHANGED <<up, envVars, inbox, loopVars, block_available_mutex, block,
                 current_hdl, current_id, catchOut, block_queue, interrupts,
                 outbox, discarded>>

(* The block prints: the text is added to what catchOut holds already.      *)
run_string_print ==
  /\ RunnerMoves("exec", "exec")
  /\ catchOut' = catchOut \cup {block}
  /\ UNCHANGED <<up, envVars, inbox, loopVars, block_available_mutex, block,
                 current_hdl, current_id, block_queue, interrupts, outbox,
                 discarded>>

(* server.send called by the block, through send and send_json: one message *)
(* per block suffices.  If the connection is closed the exception becomes a *)
(* Python error.                                                            *)
run_string_send ==
  /\ up /\ run_pc = "exec" /\ ws_mutex = "free"
  /\ IF socket[current_hdl] = "open"
     THEN /\ \A i \in DOMAIN outbox[current_hdl] :
               outbox[current_hdl][i].id # current_id
          /\ outbox' = [outbox EXCEPT ![current_hdl] =
               Append(@, [type |-> "latex_view", id |-> current_id, text |-> {}])]
          /\ UNCHANGED run_pc
     ELSE run_pc' = "error_clear" /\ UNCHANGED outbox
  /\ UNCHANGED <<up, envVars, inbox, loopVars, block_available_mutex, block,
                 current_hdl, current_id, catchOut, block_queue, interrupts,
                 discarded>>

(* The block ends: normally, in a Python error, or in a C++ exception other *)
(* than runtime_error (an allocation that fails).                           *)
run_string_ends ==
  /\ \/ RunnerMoves("exec", "output")
     \/ RunnerMoves("exec", "error_clear")
     \/ RunnerMoves("exec", "fault_clear")
  /\ UNCHANGED <<up, envVars, inbox, loopVars, block_available_mutex, block,
                 current_hdl, current_id, catchOut, block_queue, interrupts,
                 outbox, discarded>>

(* Mutant: quit returns 0, and the code goes on.                            *)
Mutant_run_string_interrupted ==
  /\ RunnerMoves("exec", "exec")
  /\ interrupts # <<>>
  /\ interrupts' = Tail(interrupts)
  /\ UNCHANGED <<up, envVars, inbox, loopVars, block_available_mutex, block,
                 current_hdl, current_id, catchOut, block_queue, outbox,
                 discarded>>

(* The interpreter makes the pending call of stop_block, quit, which fails  *)
(* whatever code is being executed then.                                    *)
run_string_interrupted ==
  /\ RunnerMoves("exec", "error_clear")
  /\ interrupts # <<>>
  /\ interrupts' = Tail(interrupts)
  /\ UNCHANGED <<up, envVars, inbox, loopVars, block_available_mutex, block,
                 current_hdl, current_id, catchOut, block_queue, outbox,
                 discarded>>

(* Mutant: catchOut is not cleared.                                         *)
Mutant_on_block_finished ==
  /\ up /\ run_pc = "output" /\ ws_mutex = "free"
  /\ IF socket[current_hdl] = "open"
     THEN /\ outbox' = [outbox EXCEPT ![current_hdl] =
               Append(@, [type |-> "output", id |-> current_id, text |-> catchOut])]
          /\ run_pc' = "lock" /\ block' = NoBlock
     ELSE run_pc' = "fault_clear" /\ UNCHANGED <<outbox, block>>
  /\ UNCHANGED <<up, envVars, inbox, loopVars, block_available_mutex, catchOut,
                 current_hdl, current_id, block_queue, interrupts, discarded>>

(* on_block_finished sends what catchOut holds (taken and cleared at the    *)
(* end of run_string) to current_hdl; wserver.send throws when that         *)
(* connection is closed, and the second catch clause takes over.            *)
on_block_finished ==
  /\ up /\ run_pc = "output" /\ ws_mutex = "free"
  /\ catchOut' = {}
  /\ IF socket[current_hdl] = "open"
     THEN /\ outbox' = [outbox EXCEPT ![current_hdl] =
               Append(@, [type |-> "output", id |-> current_id, text |-> catchOut])]
          /\ run_pc' = "lock" /\ block' = NoBlock
     ELSE run_pc' = "fault_clear" /\ UNCHANGED <<outbox, block>>
  /\ UNCHANGED <<up, envVars, inbox, loopVars, block_available_mutex,
                 current_hdl, current_id, block_queue, interrupts, discarded>>

(* Mutant: the mutex is still locked when the clause reports.               *)
Mutant_runner_clear(from, to) ==
  /\ RunnerMoves(from, to)
  /\ block_available_mutex = "free"
  /\ block_available_mutex' = "runner"
  /\ clear_queue
  /\ UNCHANGED <<up, envVars, inbox, loopVars, block, current_hdl, current_id,
                 catchOut, interrupts, outbox>>

(* Both catch clauses empty the queue under its mutex, and release it       *)
(* before they report.                                                      *)
runner_clear(from, to) ==
  /\ RunnerMoves(from, to)
  /\ block_available_mutex = "free"
  /\ clear_queue
  /\ UNCHANGED <<up, envVars, inbox, loopVars, block_available_mutex, block,
                 current_hdl, current_id, catchOut, interrupts, outbox>>

catch_runtime_error == runner_clear("error_clear", "error")
catch_exception     == runner_clear("fault_clear", "fault")

(* on_block_error and on_kernel_fault reply to the block's own handle.  An  *)
(* exception of wserver.send leaves a catch clause here, hence the thread:  *)
(* std::terminate.                                                          *)
report(from) ==
  /\ up /\ run_pc = from /\ ws_mutex = "free"
  /\ IF socket[block.hdl] = "open"
     THEN /\ outbox' = [outbox EXCEPT ![block.hdl] =
               Append(@, [type |-> from, id |-> block.id, text |-> {}])]
          /\ run_pc' = "lock" /\ block' = NoBlock
          /\ UNCHANGED up
     ELSE up' = FALSE /\ UNCHANGED <<outbox, run_pc, block>>
  /\ UNCHANGED <<envVars, inbox, loopVars, block_available_mutex, current_hdl,
                 current_id, catchOut, block_queue, interrupts, discarded>>

on_block_error  == report("error")
on_kernel_fault == report("fault")

-----------------------------------------------------------------------------
Environment(c) == SendRequest(c) \/ SendControl(c) \/ Drop(c)

MainLoop == \/ \E c \in Client : on_open(c) \/ on_close(c) \/ on_message(c)
            \/ dispatch_lock \/ dispatch_execute_request \/ dispatch_stop
            \/ dispatch_exit

(* The steps of the runner that are C++ code of the server ...              *)
RunnerCode == \/ runner_lock \/ runner_wait \/ runner_pop
              \/ run_string_preparse \/ run_string_interrupted
              \/ on_block_finished \/ catch_runtime_error \/ catch_exception
              \/ on_block_error \/ on_kernel_fault
(* ... and those the user's code decides about, or the scheduler.           *)
UserCode   == run_string_print \/ run_string_send \/ run_string_ends
Runner     == RunnerCode \/ UserCode \/ runner_spurious_wakeup

Next == MainLoop \/ Runner \/ \E c \in Client : Environment(c)

Spec == Init /\ [][Next]_vars

(* The operating system schedules both threads, and hands a mutex that is   *)
(* released to somebody who waits for it.  Nothing makes a client send, a   *)
(* connection drop, or the code of a block end.                             *)
Fairness == SF_vars(MainLoop) /\ SF_vars(RunnerCode)
FairSpec == Spec /\ Fairness

-----------------------------------------------------------------------------
(* Types of the state.                                                      *)
TypeOK ==
  /\ up \in BOOLEAN
  /\ socket \in [Client -> {"connecting", "open", "closed"}]
  /\ connections \in SUBSET Client
  /\ sent \in [Client -> Nat]
  /\ \A c \in Client : sent[c] <= MaxRequests[c]
  /\ controls \in 0..MaxControls
  /\ inbox \in [Client -> Seq(Message)]
  /\ ws_mutex \in {"free", "loop"}
  /\ block_available_mutex \in {"free", "loop", "runner"}
  /\ loop_pc \in {"idle", "dispatch", "queue"}
  /\ loop_msg \in [hdl : Client, msg : Message]
                    \cup {[hdl |-> NoBlock, msg |-> NoBlock]}
  /\ run_pc \in RunnerStates
  /\ block \in Block \cup {NoBlock}
  /\ current_hdl \in Client \cup {NoBlock}
  /\ current_id \in Nat
  /\ block_queue \in Seq(Block)
  /\ interrupts \in Seq(Block \cup {NoBlock})
  /\ catchOut \in SUBSET Block
  /\ outbox \in [Client -> Seq(Reply)]
  /\ discarded \in SUBSET Block

(* Who holds which mutex, and that no cycle of waiting can form: the main   *)
(* loop waits for the queue's mutex while it holds ws_mutex, so the runner  *)
(* must never ask for ws_mutex (its last three states, and a send of the    *)
(* running block) while it holds the queue's mutex.  A stop that finds      *)
(* nothing in hand would also leave a mutex locked for good.                *)
LocksInOrder ==
  /\ ws_mutex = "loop" <=> loop_pc # "idle"
  /\ block_available_mutex = "loop" <=> loop_pc = "queue"
  /\ block_available_mutex = "runner" <=> run_pc = "test"

(* The runner never sleeps while there is work: a push that happens between *)
(* its test of the queue and its wait is not missed.                        *)
NoLostWakeup == run_pc = "waiting" => block_queue = <<>>

(* send labels what it sends with current_hdl and current_id, on_block_error *)
(* with the block's own fields: both must be the same block.                *)
SendsForTheRunningBlock ==
  block # NoBlock => current_hdl = block.hdl /\ current_id = block.id

IsRequest(m, n) == m.type = "execute_request" /\ m.id = n

InFlight(b) == {i \in DOMAIN inbox[b.hdl] : IsRequest(inbox[b.hdl][i], b.id)}
InHand(b)   == loop_pc # "idle" /\ loop_msg.hdl = b.hdl
                 /\ IsRequest(loop_msg.msg, b.id)
OnQueue(b)  == {i \in DOMAIN block_queue : block_queue[i] = b}
Closings(b) == {i \in DOMAIN outbox[b.hdl] :
                  outbox[b.hdl][i].id = b.id /\ outbox[b.hdl][i].type \in Final}
Answered    == {b \in Block : Closings(b) # {}}

(* The places a request can be in, one entry for each time it is there.     *)
Places(b) ==
  ({"in flight"} \X InFlight(b)) \cup ({"queue"} \X OnQueue(b))
    \cup ({"answered"} \X Closings(b))
    \cup (IF InHand(b) THEN {<<"in hand", 1>>} ELSE {})
    \cup (IF block = b THEN {<<"running", 1>>} ELSE {})
    \cup (IF b \in discarded THEN {<<"discarded", 1>>} ELSE {})

(* No request is lost, run twice, answered twice or both discarded and run, *)
(* whatever interrupts, failures, exits and disconnections happen: it is in *)
(* exactly one place; if its connection closed it may have been lost on the *)
(* way.                                                                     *)
EveryRequestInOnePlace ==
  \A b \in Block :
    /\ Cardinality(Places(b)) <= 1
    /\ (b.id <= sent[b.hdl] /\ socket[b.hdl] = "open") => Places(b) # {}

(* A client reads its messages in the order of its requests; what a block   *)
(* sends while it runs comes before the message that closes it.  The        *)
(* notebook forgets a cell when that message arrives and cannot place a     *)
(* later one.                                                               *)
RepliesInOrder ==
  \A c \in Client : \A i, j \in DOMAIN outbox[c] :
    i < j => \/ outbox[c][i].id < outbox[c][j].id
             \/ /\ outbox[c][i].id = outbox[c][j].id
                /\ outbox[c][i].type = "latex_view"

Failed(b) == \E i \in Closings(b) : outbox[b.hdl][i].type \in {"error", "fault"}

(* catchOut outlives a block that fails.  Still, an output message holds    *)
(* only text of its own block and of blocks that failed before it, and no   *)
(* text is delivered twice.                                                 *)
OutputIsOwnOrOfAFailedBlock ==
  \A c \in Client : \A i \in DOMAIN outbox[c] :
    LET m == outbox[c][i] IN
      /\ \A b \in m.text : b = [hdl |-> c, id |-> m.id] \/ Failed(b)
      /\ \A d \in Client : \A j \in DOMAIN outbox[d] :
           <<c, i>> # <<d, j>> => m.text \cap outbox[d][j].text = {}

(* Server.hh: stop_block is to "halt the currently running block".  The     *)
(* block a pending call fails is the one that was running at the stop.      *)
(* (The code does not keep this: see the README.)                           *)
StopHaltsTheRunningBlock ==
  [][ run_string_interrupted => Head(interrupts) = block ]_vars

(* Server.cc, at the end of the clause that catches every other exception:  *)
(* "Keep running".  From that clause the process only ends if a client asks *)
(* it to exit.  (The code does not keep this: see the README.)              *)
KeepsRunning ==
  [][ run_pc = "fault" /\ up /\ ~up'
        => loop_pc = "dispatch" /\ loop_msg.msg.type = "exit" ]_vars

(* After a stop was dispatched, the code that is being executed does not go *)
(* on for ever, whatever it is.                                             *)
StopTakesEffect ==
  \A b \in Block :
    (run_pc = "exec" /\ block = b /\ interrupts # <<>>)
      ~> (block # b \/ ~up)

(* If the code of no block runs for ever, each request the server accepts   *)
(* is answered, discarded or ended by the end of the process.               *)
AcceptedIsServed ==
  []<>(run_pc # "exec") =>
    \A b \in Block : (OnQueue(b) # {}) ~> (b \in Answered \cup discarded \/ ~up)

JobService == INSTANCE JobService
  WITH Job <- Block, NoJob <- NoBlock, pending <- block_queue,
       running <- block, done <- Answered, cancelled <- discarded, alive <- up

(* The two threads together are a service that runs jobs one at a time in   *)
(* the order it got them, and cancels all that wait or none.                *)
ImplementsJobService == JobService!Spec

=============================================================================
