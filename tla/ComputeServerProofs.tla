------------------------ MODULE ComputeServerProofs ------------------------
(***************************************************************************)
(* Proofs about the compute server, for any set of connections and any     *)
(* bounds.                                                                 *)
(***************************************************************************)
EXTENDS ComputeServer, FiniteSetTheorems, TLAPS

(* Requests on the way and in hand carry the number of a request that was   *)
(* sent, so that what is pushed on the queue is a Block.                    *)
InboxHoldsSentRequests ==
  \A c \in Client : \A i \in DOMAIN inbox[c] :
    inbox[c][i].type = "execute_request" => inbox[c][i].id \in 1..sent[c]

LoopHasMessageInHand ==
  loop_pc # "idle" =>
    /\ loop_msg \in [hdl : Client, msg : Message]
    /\ loop_msg.msg.type = "execute_request"
         => loop_msg.msg.id \in 1..sent[loop_msg.hdl]

(* The runner has a block in hand exactly from its pop to its reply.        *)
RunnerHasBlockInHand ==
  block # NoBlock <=> run_pc \notin {"lock", "test", "waiting"}

IInv == /\ TypeOK /\ InboxHoldsSentRequests
        /\ LoopHasMessageInHand /\ RunnerHasBlockInHand
        /\ LocksInOrder /\ NoLostWakeup /\ SendsForTheRunningBlock

-----------------------------------------------------------------------------
LEMMA BlockFields ==
  ASSUME NEW b \in Block
  PROVE  /\ b.hdl \in Client /\ b.id \in 1..MaxRequests[b.hdl] /\ b.id \in Nat
         /\ b = [hdl |-> b.hdl, id |-> b.id]
         /\ b # NoBlock
BY BoundsAreNat, NoBlockIsNoBlock DEF Block

LEMMA RequestIsBlock ==
  ASSUME NEW c \in Client, NEW n \in 1..MaxRequests[c]
  PROVE  [hdl |-> c, id |-> n] \in Block
BY BoundsAreNat DEF Block

(* Appending to one of several channels gives channels.                     *)
LEMMA AppendToChannel ==
  ASSUME NEW S, NEW R, NEW f \in [S -> Seq(R)], NEW c \in S, NEW m \in R
  PROVE  [f EXCEPT ![c] = Append(@, m)] \in [S -> Seq(R)]
<1>1. Append(f[c], m) \in Seq(R)
  OBVIOUS
<1> QED
  BY <1>1

(* What a sequence holds after an Append was there before, or is new.       *)
LEMMA AppendedElement ==
  ASSUME NEW R, NEW s \in Seq(R), NEW m \in R, NEW i \in DOMAIN Append(s, m)
  PROVE  \/ i \in DOMAIN s /\ Append(s, m)[i] = s[i]
         \/ Append(s, m)[i] = m
<1>1. i \in 1..(Len(s) + 1) /\ DOMAIN s = 1..Len(s) /\ Len(s) \in Nat
  OBVIOUS
<1>2. CASE i = Len(s) + 1
  BY <1>1, <1>2
<1>3. CASE i # Len(s) + 1
  BY <1>1, <1>3
<1> QED
  BY <1>2, <1>3

(* The initial state has the inductive invariant.                           *)
LEMMA InitIInv == Init => IInv
BY BoundsAreNat DEF Init, IInv, TypeOK, InboxHoldsSentRequests,
   LoopHasMessageInHand, RunnerHasBlockInHand, LocksInOrder, NoLostWakeup,
   SendsForTheRunningBlock, RunnerStates

(* What the clients do: a message more on the way, or none.                 *)
LEMMA EnvironmentIInv ==
  ASSUME IInv, NEW c \in Client, Environment(c)
  PROVE  IInv'
<1> USE DEF IInv
<1>1. CASE SendRequest(c)
  <2>1. [type |-> "execute_request", id |-> sent[c] + 1] \in Message
    BY <1>1 DEF Message, TypeOK
  <2>2. sent' = [sent EXCEPT ![c] = sent[c] + 1] /\ sent[c] < MaxRequests[c]
    BY <1>1 DEF SendRequest
  <2>3. sent \in [Client -> Nat] /\ \A d \in Client : sent[d] <= MaxRequests[d]
    BY DEF TypeOK
  <2>4. sent' \in [Client -> Nat]
    BY <2>2, <2>3
  <2>5. ASSUME NEW d \in Client PROVE sent'[d] <= MaxRequests[d]
    <3>1. MaxRequests[d] \in Nat /\ sent[d] \in Nat /\ sent[d] <= MaxRequests[d]
      BY <2>3, BoundsAreNat
    <3>2. CASE d = c
      BY <3>1, <3>2, <2>2, <2>3
    <3>3. CASE d # c
      BY <3>1, <3>3, <2>2, <2>3
    <3> QED BY <3>2, <3>3
  <2>6. inbox' \in [Client -> Seq(Message)]
    BY <1>1, <2>1 DEF TypeOK, SendRequest, ClientSends
  <2>7. TypeOK'
    BY <1>1, <2>4, <2>6, <2>5 DEF TypeOK, SendRequest, ClientSends, loopVars, runVars
  <2>8. InboxHoldsSentRequests'
    <3> DEFINE m == [type |-> "execute_request", id |-> sent[c] + 1]
    <3>1. /\ \A d \in Client : inbox[d] \in Seq(Message)
          /\ \A d \in Client : sent[d] \in Nat
      BY DEF TypeOK
    <3>2. \A d \in Client \ {c} : inbox'[d] = inbox[d] /\ sent'[d] = sent[d]
      BY <1>1, <2>2, <2>3 DEF SendRequest, ClientSends, TypeOK
    <3>3. inbox'[c] = Append(inbox[c], m) \/ inbox'[c] = inbox[c]
      BY <1>1 DEF SendRequest, ClientSends, TypeOK
    <3>4. sent'[c] = sent[c] + 1
      BY <2>2, <2>3
    <3>5. SUFFICES ASSUME NEW d \in Client, NEW i \in DOMAIN inbox'[d],
                          inbox'[d][i].type = "execute_request"
                   PROVE  inbox'[d][i].id \in 1..sent'[d]
      BY DEF InboxHoldsSentRequests
    <3>6. CASE i \in DOMAIN inbox[d] /\ inbox'[d][i] = inbox[d][i]
      <4>1. inbox[d][i].id \in 1..sent[d]
        BY <3>5, <3>6 DEF InboxHoldsSentRequests
      <4>2. sent[d] <= sent'[d] /\ sent[d] \in Nat /\ sent'[d] \in Nat
        BY <3>1, <3>2, <3>4
      <4> QED BY <3>6, <4>1, <4>2
    <3>7. CASE d = c /\ inbox'[d][i] = m
      <4>1. m.id = sent[c] + 1 /\ sent[c] + 1 \in 1..(sent[c] + 1)
        BY <3>1
      <4> QED BY <3>4, <3>7, <4>1
    <3>8. CASE d # c
      BY <3>2, <3>6, <3>8
    <3>9. CASE d = c
      <4>1. inbox[c] \in Seq(Message) /\ m \in Message
        BY <2>1, <3>1
      <4>2. CASE inbox'[c] = Append(inbox[c], m)
        <5>1. i \in DOMAIN Append(inbox[c], m)
          BY <3>9, <4>2
        <5>2. \/ i \in DOMAIN inbox[c] /\ Append(inbox[c], m)[i] = inbox[c][i]
              \/ Append(inbox[c], m)[i] = m
          BY <4>1, <5>1, AppendedElement
        <5> QED BY <3>6, <3>7, <3>9, <4>2, <5>2
      <4> QED BY <3>3, <3>6, <3>9, <4>2
    <3> QED BY <3>8, <3>9
  <2>9. LoopHasMessageInHand'
    BY <1>1 DEF LoopHasMessageInHand, TypeOK, SendRequest, ClientSends, loopVars
  <2> QED
    BY <1>1, <2>7, <2>8, <2>9 DEF SendRequest, ClientSends, loopVars, runVars,
       RunnerHasBlockInHand, LocksInOrder, NoLostWakeup, SendsForTheRunningBlock
<1>2. CASE SendControl(c)
  <2>1. PICK t \in {"stop", "exit"} : ClientSends(c, [type |-> t, id |-> 0])
    BY <1>2 DEF SendControl
  <2>2. [type |-> t, id |-> 0] \in Message
    BY DEF Message
  <2>3. TypeOK'
    BY <1>2, <2>1, <2>2, BoundsAreNat DEF TypeOK, SendControl, ClientSends, loopVars, runVars
  <2>4. InboxHoldsSentRequests'
    BY <1>2, <2>1, <2>2 DEF InboxHoldsSentRequests, TypeOK, SendControl, ClientSends
  <2>5. LoopHasMessageInHand'
    BY <1>2, <2>1 DEF LoopHasMessageInHand, TypeOK, SendControl, ClientSends, loopVars
  <2> QED
    BY <2>1, <2>3, <2>4, <2>5 DEF ClientSends, loopVars, runVars,
       RunnerHasBlockInHand, LocksInOrder, NoLostWakeup, SendsForTheRunningBlock
<1>3. CASE Drop(c)
  BY <1>3 DEF Drop, TypeOK, InboxHoldsSentRequests, LoopHasMessageInHand,
     RunnerHasBlockInHand, LocksInOrder, NoLostWakeup, SendsForTheRunningBlock,
     loopVars, runVars
<1> QED
  BY <1>1, <1>2, <1>3 DEF Environment

(* The websocket main loop.                                                 *)
LEMMA MainLoopIInv ==
  ASSUME IInv, MainLoop
  PROVE  IInv'
<1> USE DEF IInv
<1>1. ASSUME NEW c \in Client, on_open(c) \/ on_close(c)
      PROVE  IInv'
  BY <1>1 DEF on_open, on_close, TypeOK, InboxHoldsSentRequests,
     LoopHasMessageInHand, RunnerHasBlockInHand, LocksInOrder, NoLostWakeup,
     SendsForTheRunningBlock, loopVars, runVars
<1>2. ASSUME NEW c \in Client, on_message(c)
      PROVE  IInv'
  <2>1. /\ Head(inbox[c]) \in Message
        /\ Tail(inbox[c]) \in Seq(Message)
        /\ Head(inbox[c]) = inbox[c][1] /\ 1 \in DOMAIN inbox[c]
        /\ \A i \in DOMAIN Tail(inbox[c]) :
             i + 1 \in DOMAIN inbox[c] /\ Tail(inbox[c])[i] = inbox[c][i + 1]
    BY <1>2 DEF on_message, TypeOK
  <2>2. TypeOK'
    BY <1>2, <2>1 DEF on_message, TypeOK, envVars, runVars
  <2>3. InboxHoldsSentRequests'
    BY <1>2, <2>1 DEF on_message, TypeOK, InboxHoldsSentRequests, envVars
  <2>4. LoopHasMessageInHand'
    BY <1>2, <2>1 DEF on_message, TypeOK, InboxHoldsSentRequests, envVars,
       LoopHasMessageInHand
  <2> QED
    BY <1>2, <2>2, <2>3, <2>4 DEF on_message, runVars, envVars,
       RunnerHasBlockInHand, LocksInOrder, NoLostWakeup, SendsForTheRunningBlock
<1>3. CASE dispatch_lock
  BY <1>3 DEF dispatch_lock, TypeOK, InboxHoldsSentRequests,
     LoopHasMessageInHand, RunnerHasBlockInHand, LocksInOrder, NoLostWakeup,
     SendsForTheRunningBlock, envVars, runVars
<1>4. CASE dispatch_execute_request
  <2>1. [hdl |-> loop_msg.hdl, id |-> loop_msg.msg.id] \in Block
    BY <1>4, RequestIsBlock, BoundsAreNat
       DEF dispatch_execute_request, LoopHasMessageInHand, TypeOK
  <2>2. TypeOK'
    BY <1>4, <2>1 DEF dispatch_execute_request, ReturnToLoop, notify_one, TypeOK,
       RunnerStates, envVars
  <2> QED
    BY <1>4, <2>2 DEF dispatch_execute_request, ReturnToLoop, notify_one, envVars,
       InboxHoldsSentRequests, LoopHasMessageInHand, RunnerHasBlockInHand,
       LocksInOrder, NoLostWakeup, SendsForTheRunningBlock
<1>5. CASE dispatch_stop
  <2>1. Queued \in SUBSET Block
    BY DEF Queued, TypeOK
  <2>2. TypeOK'
    BY <1>5, <2>1 DEF dispatch_stop, ReturnToLoop, stop_block, clear_queue, TypeOK,
       envVars, runVars
  <2> QED
    BY <1>5, <2>2 DEF dispatch_stop, ReturnToLoop, stop_block, clear_queue, envVars,
       runVars, InboxHoldsSentRequests, LoopHasMessageInHand,
       RunnerHasBlockInHand, LocksInOrder, NoLostWakeup, SendsForTheRunningBlock
<1>6. CASE dispatch_exit
  BY <1>6 DEF dispatch_exit, TypeOK, InboxHoldsSentRequests,
     LoopHasMessageInHand, RunnerHasBlockInHand, LocksInOrder, NoLostWakeup,
     SendsForTheRunningBlock, envVars, loopVars, runVars
<1> QED
  BY <1>1, <1>2, <1>3, <1>4, <1>5, <1>6 DEF MainLoop

(* The runner.  Each step leaves the inbox and the message in hand alone.   *)
LEMMA RunnerIInv ==
  ASSUME IInv, Runner
  PROVE  IInv'
<1> USE DEF IInv
<1>1. CASE runner_lock \/ runner_wait \/ runner_spurious_wakeup
  BY <1>1 DEF runner_lock, runner_wait, runner_spurious_wakeup, RunnerMoves,
     TypeOK, RunnerStates, InboxHoldsSentRequests, LoopHasMessageInHand,
     RunnerHasBlockInHand, LocksInOrder, NoLostWakeup, SendsForTheRunningBlock,
     envVars, loopVars
<1>2. CASE runner_pop
  <2>1. Head(block_queue) \in Block /\ Tail(block_queue) \in Seq(Block)
    BY <1>2 DEF runner_pop, TypeOK
  <2>2. /\ Head(block_queue).hdl \in Client /\ Head(block_queue).id \in Nat
        /\ Head(block_queue) # NoBlock
    BY <2>1, BlockFields
  <2> QED
    BY <1>2, <2>1, <2>2 DEF runner_pop, RunnerMoves, TypeOK, RunnerStates,
       InboxHoldsSentRequests, LoopHasMessageInHand, RunnerHasBlockInHand,
       LocksInOrder, NoLostWakeup, SendsForTheRunningBlock, envVars, loopVars
<1>3. CASE run_string_preparse \/ run_string_ends
  BY <1>3 DEF run_string_preparse, run_string_ends, RunnerMoves,
     TypeOK, RunnerStates, InboxHoldsSentRequests, LoopHasMessageInHand,
     RunnerHasBlockInHand, LocksInOrder, NoLostWakeup, SendsForTheRunningBlock,
     envVars, loopVars
<1>4. CASE run_string_print
  BY <1>4 DEF run_string_print, RunnerMoves,
     TypeOK, RunnerStates, InboxHoldsSentRequests, LoopHasMessageInHand,
     RunnerHasBlockInHand, LocksInOrder, NoLostWakeup, SendsForTheRunningBlock,
     envVars, loopVars
<1>5. CASE run_string_send
  <2> DEFINE m == [type |-> "latex_view", id |-> current_id, text |-> {}]
  <2>1. current_hdl \in Client /\ current_id \in Nat
    BY <1>5, BlockFields DEF run_string_send, TypeOK, RunnerHasBlockInHand,
       SendsForTheRunningBlock
  <2>2. m \in Reply
    BY <2>1 DEF Reply
  <2>3. outbox \in [Client -> Seq(Reply)]
    BY DEF TypeOK
  <2>4. \/ outbox' = outbox
        \/ outbox' = [outbox EXCEPT ![current_hdl] = Append(@, m)]
    BY <1>5 DEF run_string_send, m
  <2> HIDE DEF m
  <2>5. [outbox EXCEPT ![current_hdl] = Append(@, m)] \in [Client -> Seq(Reply)]
    BY <2>1, <2>2, <2>3, AppendToChannel
  <2>6. outbox' \in [Client -> Seq(Reply)]
    BY <2>3, <2>4, <2>5
  <2> QED
    BY <1>5, <2>6 DEF run_string_send, TypeOK, RunnerStates,
       InboxHoldsSentRequests, LoopHasMessageInHand, RunnerHasBlockInHand,
       LocksInOrder, NoLostWakeup, SendsForTheRunningBlock, envVars, loopVars
<1>6. CASE run_string_interrupted
  BY <1>6 DEF run_string_interrupted, RunnerMoves,
     TypeOK, RunnerStates, InboxHoldsSentRequests, LoopHasMessageInHand,
     RunnerHasBlockInHand, LocksInOrder, NoLostWakeup, SendsForTheRunningBlock,
     envVars, loopVars
<1>7. CASE on_block_finished
  <2> DEFINE m == [type |-> "output", id |-> current_id, text |-> catchOut]
  <2>1. current_hdl \in Client /\ current_id \in Nat
    BY <1>7, BlockFields DEF on_block_finished, TypeOK, RunnerHasBlockInHand,
       SendsForTheRunningBlock
  <2>2. m \in Reply
    BY <2>1 DEF Reply, Final, TypeOK
  <2>3. outbox \in [Client -> Seq(Reply)]
    BY DEF TypeOK
  <2>4. \/ outbox' = outbox
        \/ outbox' = [outbox EXCEPT ![current_hdl] = Append(@, m)]
    BY <1>7 DEF on_block_finished, m
  <2> HIDE DEF m
  <2>5. [outbox EXCEPT ![current_hdl] = Append(@, m)] \in [Client -> Seq(Reply)]
    BY <2>1, <2>2, <2>3, AppendToChannel
  <2>6. outbox' \in [Client -> Seq(Reply)]
    BY <2>3, <2>4, <2>5
  <2> QED
    BY <1>7, <2>6 DEF on_block_finished, TypeOK, RunnerStates,
       InboxHoldsSentRequests, LoopHasMessageInHand, RunnerHasBlockInHand,
       LocksInOrder, NoLostWakeup, SendsForTheRunningBlock, envVars, loopVars
<1>8. CASE catch_runtime_error \/ catch_exception
  <2>1. Queued \in SUBSET Block
    BY DEF Queued, TypeOK
  <2>2. /\ up /\ block_queue' = <<>> /\ discarded' = discarded \cup Queued
        /\ \/ run_pc = "error_clear" /\ run_pc' = "error"
           \/ run_pc = "fault_clear" /\ run_pc' = "fault"
        /\ UNCHANGED <<up, envVars, inbox, loopVars, block_available_mutex,
                       block, current_hdl, current_id, catchOut, interrupts,
                       outbox>>
    BY <1>8 DEF catch_runtime_error, catch_exception, runner_clear, clear_queue,
       RunnerMoves
  <2>3. TypeOK'
    BY <2>1, <2>2 DEF TypeOK, RunnerStates, envVars, loopVars
  <2> QED
    BY <2>2, <2>3 DEF InboxHoldsSentRequests, LoopHasMessageInHand,
       RunnerHasBlockInHand, LocksInOrder, NoLostWakeup,
       SendsForTheRunningBlock, envVars, loopVars
<1>9. ASSUME NEW from \in {"error", "fault"}, report(from)
      PROVE  IInv'
  <2> DEFINE m == [type |-> from, id |-> block.id, text |-> {}]
  <2>1. block.hdl \in Client /\ block.id \in Nat
    BY <1>9, BlockFields DEF report, TypeOK, RunnerHasBlockInHand
  <2>2. m \in Reply
    BY <2>1 DEF Reply, Final
  <2>3. outbox \in [Client -> Seq(Reply)]
    BY DEF TypeOK
  <2>4. \/ outbox' = outbox
        \/ outbox' = [outbox EXCEPT ![block.hdl] = Append(@, m)]
    BY <1>9 DEF report, m
  <2> HIDE DEF m
  <2>5. [outbox EXCEPT ![block.hdl] = Append(@, m)] \in [Client -> Seq(Reply)]
    BY <2>1, <2>2, <2>3, AppendToChannel
  <2>6. outbox' \in [Client -> Seq(Reply)]
    BY <2>3, <2>4, <2>5
  <2> QED
    BY <1>9, <2>6 DEF report, TypeOK, RunnerStates,
       InboxHoldsSentRequests, LoopHasMessageInHand, RunnerHasBlockInHand,
       LocksInOrder, NoLostWakeup, SendsForTheRunningBlock, envVars, loopVars
<1> QED
  BY <1>1, <1>2, <1>3, <1>4, <1>5, <1>6, <1>7, <1>8, <1>9
     DEF Runner, RunnerCode, UserCode, on_block_error, on_kernel_fault

LEMMA IInvIsInductive == IInv /\ [Next]_vars => IInv'
<1> SUFFICES ASSUME IInv, [Next]_vars PROVE IInv'
  OBVIOUS
<1>1. CASE UNCHANGED vars
  BY <1>1 DEF vars, envVars, loopVars, runVars, IInv, TypeOK,
     InboxHoldsSentRequests, LoopHasMessageInHand, RunnerHasBlockInHand,
     LocksInOrder, NoLostWakeup, SendsForTheRunningBlock
<1> QED
  BY <1>1, EnvironmentIInv, MainLoopIInv, RunnerIInv DEF Next

THEOREM IInvIsInvariant == Spec => []IInv
BY InitIInv, IInvIsInductive, PTL DEF Spec

-----------------------------------------------------------------------------
(* Every variable keeps its type: what is on the queue is a request that a  *)
(* client sent, and what is sent is a reply with a number.                  *)
THEOREM TypeCorrectness == Spec => []TypeOK
BY IInvIsInvariant, PTL DEF IInv

(* The two mutexes are held by who is in their critical section, and the    *)
(* runner holds the queue's mutex in none of the states in which it asks    *)
(* for ws_mutex: the two threads cannot wait for each other.                *)
THEOREM LockOrder == Spec => []LocksInOrder
BY IInvIsInvariant, PTL DEF IInv

(* wait_for_job never sleeps on a queue that holds a block.                 *)
THEOREM WakeupsAreNotLost == Spec => []NoLostWakeup
BY IInvIsInvariant, PTL DEF IInv

(* Whatever is sent while a block is being run goes to the connection the   *)
(* block came from, labelled with its number.                               *)
THEOREM RepliesGoToTheSender == Spec => []SendsForTheRunningBlock
BY IInvIsInvariant, PTL DEF IInv

-----------------------------------------------------------------------------
(* The order of requests and replies.  The requests of one connection form  *)
(* a line: those answered, the one being run, those on the queue, the one   *)
(* in the main loop's hand, those on their way; their numbers increase      *)
(* along it.  Everything below follows from that line.                      *)

IsExecute(m) == m.type = "execute_request"

HandHolds(c, n) == loop_pc # "idle" /\ loop_msg.hdl = c /\ IsRequest(loop_msg.msg, n)

(* The numbers of the requests of a connection that have not reached the    *)
(* queue yet, and of those that have.                                       *)
Coming(c) ==
  {n \in Nat : HandHolds(c, n) \/ \E i \in DOMAIN inbox[c] : IsRequest(inbox[c][i], n)}

Past(c) ==
  {n \in Nat : \/ \E b \in Queued \cup discarded : b.hdl = c /\ b.id = n
               \/ block # NoBlock /\ block.hdl = c /\ block.id = n
               \/ \E i \in DOMAIN outbox[c] : outbox[c][i].id = n}

InboxInOrder ==
  \A c \in Client : \A i, j \in DOMAIN inbox[c] :
    i < j /\ IsExecute(inbox[c][i]) /\ IsExecute(inbox[c][j])
      => inbox[c][i].id < inbox[c][j].id

HandBeforeInbox ==
  \A c \in Client, n \in Nat : HandHolds(c, n) =>
    \A i \in DOMAIN inbox[c] : IsExecute(inbox[c][i]) => n < inbox[c][i].id

SentAfterOpen == \A c \in Client : socket[c] = "connecting" => sent[c] = 0

FrontInv == InboxInOrder /\ HandBeforeInbox /\ SentAfterOpen

QueueInOrder ==
  \A i, j \in DOMAIN block_queue :
    i < j /\ block_queue[i].hdl = block_queue[j].hdl
      => block_queue[i].id < block_queue[j].id

QueueAfterReplies ==
  \A q \in Queued :
    /\ q \notin discarded
    /\ block # NoBlock /\ block.hdl = q.hdl => block.id < q.id
    /\ \A i \in DOMAIN outbox[q.hdl] : outbox[q.hdl][i].id < q.id

BlockAfterReplies ==
  block # NoBlock =>
    /\ block \notin discarded
    /\ \A i \in DOMAIN outbox[block.hdl] :
         \/ outbox[block.hdl][i].id < block.id
         \/ /\ outbox[block.hdl][i].id = block.id
            /\ outbox[block.hdl][i].type = "latex_view"

DiscardedIsUnanswered == discarded \cap Answered = {}

BackInv == /\ QueueInOrder /\ QueueAfterReplies /\ BlockAfterReplies
           /\ DiscardedIsUnanswered /\ RepliesInOrder

ComingIsLast == \A c \in Client : \A n \in Coming(c), p \in Past(c) : p < n
PastWasSent  == \A c \in Client : \A p \in Past(c) : p <= sent[c]

NothingIsLost ==
  \A b \in Block : socket[b.hdl] = "open" /\ b.id <= sent[b.hdl] =>
    b.id \in Coming(b.hdl) \/ b \in Queued \cup discarded \cup Answered \cup {block}

LinkInv == ComingIsLast /\ PastWasSent /\ NothingIsLost

OrderInv == IInv /\ FrontInv /\ BackInv /\ LinkInv

-----------------------------------------------------------------------------
(* What one more message on a channel changes.                              *)
LEMMA OneMore ==
  ASSUME NEW R, NEW s \in Seq(R), NEW m \in R
  PROVE  /\ DOMAIN Append(s, m) = DOMAIN s \cup {Len(s) + 1}
         /\ \A i \in DOMAIN s : i \in Nat /\ i < Len(s) + 1 /\ Append(s, m)[i] = s[i]
         /\ Append(s, m)[Len(s) + 1] = m /\ Len(s) + 1 \in Nat
<1>1. Len(s) \in Nat /\ DOMAIN s = 1..Len(s)
  OBVIOUS
<1>2. DOMAIN Append(s, m) = 1..(Len(s) + 1)
  OBVIOUS
<1> QED
  BY <1>1, <1>2

(* What taking the first message leaves.                                    *)
LEMMA OneLess ==
  ASSUME NEW R, NEW s \in Seq(R), s # <<>>
  PROVE  /\ Head(s) = s[1] /\ 1 \in DOMAIN s /\ Head(s) \in R
         /\ Tail(s) \in Seq(R)
         /\ \A i \in DOMAIN Tail(s) :
              i \in Nat /\ i > 0 /\ i + 1 \in DOMAIN s /\ Tail(s)[i] = s[i + 1]
         /\ \A i \in DOMAIN s : i = 1 \/ (i - 1 \in DOMAIN Tail(s) /\ s[i] = Tail(s)[i - 1])
OBVIOUS

(* The front of the line: the inbox and the hand of the main loop.          *)
LEMMA InitFront == Init => FrontInv
BY DEF Init, FrontInv, InboxInOrder, HandBeforeInbox, SentAfterOpen, HandHolds

LEMMA FrontStep ==
  ASSUME IInv, FrontInv, [Next]_vars
  PROVE  FrontInv'
<1> USE DEF FrontInv
<1>t. /\ inbox \in [Client -> Seq(Message)] /\ sent \in [Client -> Nat]
      /\ socket \in [Client -> {"connecting", "open", "closed"}]
  BY DEF IInv, TypeOK
<1>i. \A c \in Client : \A i \in DOMAIN inbox[c] : i \in Nat /\ inbox[c][i] \in Message
  BY <1>t
<1>1. ASSUME UNCHANGED <<inbox, sent, socket>>,
             \A c \in Client, n \in Nat : HandHolds(c, n)' => HandHolds(c, n)
      PROVE  FrontInv'
  BY <1>1 DEF InboxInOrder, HandBeforeInbox, SentAfterOpen
<1>2. ASSUME NEW c \in Client, SendRequest(c)
      PROVE  FrontInv'
  <2> DEFINE m == [type |-> "execute_request", id |-> sent[c] + 1]
             k == Len(inbox[c]) + 1
  <2>1. /\ inbox' = [inbox EXCEPT ![c] = Append(@, m)] /\ m \in Message
        /\ sent' = [sent EXCEPT ![c] = @ + 1] /\ socket[c] = "open"
        /\ UNCHANGED <<socket, loop_pc, loop_msg>>
    BY <1>2, <1>t DEF SendRequest, ClientSends, loopVars, Message
  <2>2. m.type = "execute_request" /\ m.id = sent[c] + 1
    OBVIOUS
  <2> HIDE DEF m
  <2>3. /\ \A d \in Client \ {c} : inbox'[d] = inbox[d]
        /\ DOMAIN inbox'[c] = DOMAIN inbox[c] \cup {k}
        /\ \A i \in DOMAIN inbox[c] : i \in Nat /\ i < k /\ inbox'[c][i] = inbox[c][i]
        /\ inbox'[c][k] = m /\ k \in Nat
    <3>1. inbox[c] \in Seq(Message) /\ inbox'[c] = Append(inbox[c], m)
      BY <1>t, <2>1
    <3> QED BY <1>t, <2>1, <3>1, OneMore
  <2> HIDE DEF k
  <2>4. \A i \in DOMAIN inbox[c] : IsExecute(inbox[c][i]) => inbox[c][i].id \in 1..sent[c]
    BY DEF IInv, InboxHoldsSentRequests, IsExecute
  <2>5. \A n \in Nat : HandHolds(c, n) => n \in 1..sent[c]
    BY DEF IInv, LoopHasMessageInHand, HandHolds, IsRequest
  <2>6. sent[c] \in Nat
    BY <1>t
  <2>7. InboxInOrder'
    <3> SUFFICES ASSUME NEW d \in Client, NEW i \in DOMAIN inbox'[d],
                        NEW j \in DOMAIN inbox'[d], i < j,
                        IsExecute(inbox'[d][i]), IsExecute(inbox'[d][j])
                 PROVE  inbox'[d][i].id < inbox'[d][j].id
      BY DEF InboxInOrder, IsExecute
    <3>1. CASE d # c
      BY <2>3, <3>1 DEF InboxInOrder
    <3>2. CASE d = c /\ i \in DOMAIN inbox[c] /\ j \in DOMAIN inbox[c]
      BY <2>3, <3>2 DEF InboxInOrder
    <3>3. CASE d = c /\ i \in DOMAIN inbox[c] /\ j = k
      BY <2>2, <2>3, <2>4, <2>6, <3>3
    <3>4. CASE d = c /\ i = k
      BY <2>3, <3>4
    <3> QED BY <2>3, <3>1, <3>2, <3>3, <3>4
  <2>8. HandBeforeInbox'
    <3> SUFFICES ASSUME NEW d \in Client, NEW n \in Nat, HandHolds(d, n),
                        NEW i \in DOMAIN inbox'[d], IsExecute(inbox'[d][i])
                 PROVE  n < inbox'[d][i].id
      BY <2>1 DEF HandBeforeInbox, HandHolds, IsRequest, IsExecute
    <3>1. CASE d # c \/ i \in DOMAIN inbox[c]
      BY <2>3, <3>1 DEF HandBeforeInbox
    <3>2. CASE d = c /\ i = k
      BY <2>2, <2>3, <2>5, <2>6, <3>2
    <3> QED BY <2>3, <3>1, <3>2
  <2>9. SentAfterOpen'
    BY <2>1, <1>t DEF SentAfterOpen
  <2> QED BY <2>7, <2>8, <2>9
<1>3. ASSUME NEW c \in Client, SendControl(c)
      PROVE  FrontInv'
  <2>0. PICK t \in {"stop", "exit"} : ClientSends(c, [type |-> t, id |-> 0])
    BY <1>3 DEF SendControl
  <2> DEFINE m == [type |-> t, id |-> 0]
             k == Len(inbox[c]) + 1
  <2>1. /\ inbox' = [inbox EXCEPT ![c] = Append(@, m)] /\ m \in Message
        /\ UNCHANGED <<sent, socket, loop_pc, loop_msg>>
    BY <1>3, <2>0 DEF SendControl, ClientSends, loopVars, Message
  <2>2. ~IsExecute(m)
    BY DEF IsExecute
  <2> HIDE DEF m
  <2>3. /\ \A d \in Client \ {c} : inbox'[d] = inbox[d]
        /\ DOMAIN inbox'[c] = DOMAIN inbox[c] \cup {k}
        /\ \A i \in DOMAIN inbox[c] : i \in Nat /\ i < k /\ inbox'[c][i] = inbox[c][i]
        /\ inbox'[c][k] = m /\ k \in Nat
    <3>1. inbox[c] \in Seq(Message) /\ inbox'[c] = Append(inbox[c], m)
      BY <1>t, <2>1
    <3> QED BY <1>t, <2>1, <3>1, OneMore
  <2> HIDE DEF k
  <2>4. \A d \in Client : \A i \in DOMAIN inbox'[d] : IsExecute(inbox'[d][i]) =>
           i \in DOMAIN inbox[d] /\ inbox'[d][i] = inbox[d][i]
    BY <2>2, <2>3
  <2>7. InboxInOrder'
    BY <2>4 DEF InboxInOrder, IsExecute
  <2>8. HandBeforeInbox'
    <3> SUFFICES ASSUME NEW d \in Client, NEW n \in Nat, HandHolds(d, n),
                        NEW i \in DOMAIN inbox'[d], IsExecute(inbox'[d][i])
                 PROVE  n < inbox'[d][i].id
      BY <2>1 DEF HandBeforeInbox, HandHolds, IsRequest, IsExecute
    <3> QED BY <2>4 DEF HandBeforeInbox
  <2> QED BY <2>1, <2>7, <2>8 DEF SentAfterOpen
<1>4. ASSUME NEW c \in Client, Drop(c)
      PROVE  FrontInv'
  <2>1. /\ inbox' = [inbox EXCEPT ![c] = <<>>] /\ socket' = [socket EXCEPT ![c] = "closed"]
        /\ loop_pc' = "idle" /\ UNCHANGED sent
    BY <1>4 DEF Drop, loopVars
  <2>2. \A d \in Client : \A i \in DOMAIN inbox'[d] : d # c /\ inbox'[d] = inbox[d]
    BY <2>1, <1>t
  <2> QED
    BY <2>1, <2>2, <1>t DEF InboxInOrder, HandBeforeInbox, SentAfterOpen, HandHolds
<1>5. ASSUME NEW c \in Client, on_open(c)
      PROVE  FrontInv'
  <2>1. /\ socket' = [socket EXCEPT ![c] = "open"]
        /\ UNCHANGED <<inbox, sent, loop_pc, loop_msg>>
    BY <1>5 DEF on_open, loopVars
  <2> QED
    BY <2>1, <1>t DEF InboxInOrder, HandBeforeInbox, SentAfterOpen, HandHolds
<1>6. ASSUME NEW c \in Client, on_message(c)
      PROVE  FrontInv'
  <2>1. /\ inbox' = [inbox EXCEPT ![c] = Tail(@)] /\ inbox[c] # <<>>
        /\ loop_msg' = [hdl |-> c, msg |-> Head(inbox[c])]
        /\ UNCHANGED <<sent, socket>>
    BY <1>6 DEF on_message, envVars
  <2>2. /\ Head(inbox[c]) = inbox[c][1] /\ 1 \in DOMAIN inbox[c]
        /\ \A i \in DOMAIN Tail(inbox[c]) : /\ i \in Nat /\ i > 0 /\ i + 1 \in DOMAIN inbox[c]
                                            /\ Tail(inbox[c])[i] = inbox[c][i + 1]
    BY <1>t, <2>1, OneLess
  <2>3. inbox'[c] = Tail(inbox[c]) /\ \A d \in Client \ {c} : inbox'[d] = inbox[d]
    BY <1>t, <2>1
  <2>4. InboxInOrder'
    <3> SUFFICES ASSUME NEW d \in Client, NEW i \in DOMAIN inbox'[d],
                        NEW j \in DOMAIN inbox'[d], i < j,
                        IsExecute(inbox'[d][i]), IsExecute(inbox'[d][j])
                 PROVE  inbox'[d][i].id < inbox'[d][j].id
      BY DEF InboxInOrder, IsExecute
    <3>1. CASE d # c
      BY <2>3, <3>1 DEF InboxInOrder
    <3>2. CASE d = c
      <4>1. /\ i + 1 < j + 1 /\ i + 1 \in DOMAIN inbox[c] /\ j + 1 \in DOMAIN inbox[c]
            /\ inbox'[d][i] = inbox[c][i + 1] /\ inbox'[d][j] = inbox[c][j + 1]
        <5>1. i \in DOMAIN Tail(inbox[c]) /\ j \in DOMAIN Tail(inbox[c])
          BY <2>3, <3>2
        <5>2. i \in Nat /\ j \in Nat
          BY <2>2, <5>1
        <5>3. i + 1 < j + 1
          BY <5>2
        <5>4. inbox'[d][i] = Tail(inbox[c])[i] /\ inbox'[d][j] = Tail(inbox[c])[j]
          BY <2>3, <3>2
        <5>5. i + 1 \in DOMAIN inbox[c] /\ j + 1 \in DOMAIN inbox[c]
          BY <2>2, <5>1
        <5>6. Tail(inbox[c])[i] = inbox[c][i + 1] /\ Tail(inbox[c])[j] = inbox[c][j + 1]
          BY <2>2, <5>1
        <5> QED BY <5>3, <5>4, <5>5, <5>6
      <4>2. /\ IsExecute(inbox[c][i + 1])
            /\ IsExecute(inbox[c][j + 1])
        BY <4>1
      <4> QED BY <4>1, <4>2 DEF InboxInOrder
    <3> QED BY <3>1, <3>2
  <2>5. HandBeforeInbox'
    <3> SUFFICES ASSUME NEW n \in Nat, IsRequest(inbox[c][1], n),
                        NEW i \in DOMAIN inbox'[c], IsExecute(inbox'[c][i])
                 PROVE  n < inbox'[c][i].id
      BY <2>1, <2>2 DEF HandBeforeInbox, HandHolds, IsRequest, IsExecute
    <3>1. 1 < i + 1 /\ inbox'[c][i] = inbox[c][i + 1] /\ i + 1 \in DOMAIN inbox[c]
      BY <2>2, <2>3
    <3> QED BY <2>2, <3>1 DEF InboxInOrder, IsRequest, IsExecute
  <2> QED BY <2>1, <2>4, <2>5 DEF SentAfterOpen
<1>7. ASSUME NEW c \in Client, on_close(c)
      PROVE  FrontInv'
  BY <1>1, <1>7 DEF on_close, HandHolds, loopVars
<1>8. CASE dispatch_lock
  BY <1>1, <1>8 DEF dispatch_lock, HandHolds, envVars
<1>9. CASE dispatch_execute_request \/ dispatch_stop
  BY <1>1, <1>9 DEF dispatch_execute_request, dispatch_stop, ReturnToLoop,
     HandHolds, envVars
<1>10. CASE dispatch_exit
  BY <1>1, <1>10 DEF dispatch_exit, HandHolds, envVars, loopVars
<1>11. CASE Runner
  <2>1. UNCHANGED <<inbox, envVars, loopVars>>
    BY <1>11 DEF Runner, RunnerCode, UserCode, runner_lock, runner_wait,
       runner_pop, run_string_preparse, run_string_interrupted, on_block_finished,
       catch_runtime_error, catch_exception, runner_clear, on_block_error,
       on_kernel_fault, report, run_string_print, run_string_send,
       run_string_ends, runner_spurious_wakeup
  <2> QED BY <1>1, <2>1 DEF HandHolds, envVars, loopVars
<1>12. CASE UNCHANGED vars
  BY <1>1, <1>12 DEF vars, HandHolds, envVars, loopVars
<1> QED
  BY <1>2, <1>3, <1>4, <1>5, <1>6, <1>7, <1>8, <1>9, <1>10, <1>11, <1>12
     DEF Next, MainLoop, Environment

-----------------------------------------------------------------------------
Settled == Queued \cup discarded \cup Answered \cup {block}

LEMMA StateTypes ==
  ASSUME TypeOK
  PROVE  /\ Queued \subseteq Block /\ discarded \subseteq Block
         /\ block_queue \in Seq(Block) /\ sent \in [Client -> Nat]
         /\ outbox \in [Client -> Seq(Reply)] /\ inbox \in [Client -> Seq(Message)]
         /\ \A c \in Client : \A i \in DOMAIN outbox[c] :
              i \in Nat /\ outbox[c][i] \in Reply /\ outbox[c][i].id \in Nat
         /\ \A b \in Block : /\ b.hdl \in Client /\ b.id \in Nat /\ b # NoBlock
                             /\ b = [hdl |-> b.hdl, id |-> b.id]
<1>1. \A b \in Block : b.hdl \in Client /\ b.id \in Nat /\ b # NoBlock
                       /\ b = [hdl |-> b.hdl, id |-> b.id]
  BY BlockFields
<1>2. \A c \in Client : \A i \in DOMAIN outbox[c] :
        i \in Nat /\ outbox[c][i] \in Reply /\ outbox[c][i].id \in Nat
  <2>1. ASSUME NEW s \in Seq(Reply), NEW i \in DOMAIN s
        PROVE  i \in Nat /\ s[i] \in Reply
    OBVIOUS
  <2>2. \A m \in Reply : m.id \in Nat
    BY DEF Reply
  <2>3. \A c \in Client : outbox[c] \in Seq(Reply)
    BY DEF TypeOK
  <2> QED BY <2>1, <2>2, <2>3
<1> QED
  BY <1>1, <1>2 DEF TypeOK, Queued

(* The blocks that are answered after one more message.                     *)
LEMMA AnsweredAfterReply ==
  ASSUME TypeOK, NEW c \in Client, NEW m \in Reply,
         outbox' = [outbox EXCEPT ![c] = Append(@, m)]
  PROVE  /\ \A d \in Client \ {c} : outbox'[d] = outbox[d]
         /\ DOMAIN outbox'[c] = DOMAIN outbox[c] \cup {Len(outbox[c]) + 1}
         /\ \A i \in DOMAIN outbox[c] :
              i \in Nat /\ i < Len(outbox[c]) + 1 /\ outbox'[c][i] = outbox[c][i]
         /\ outbox'[c][Len(outbox[c]) + 1] = m /\ Len(outbox[c]) + 1 \in Nat
         /\ \A b \in Block : b \in Answered' <=>
              b \in Answered \/ (b.hdl = c /\ b.id = m.id /\ m.type \in Final)
<1> DEFINE k == Len(outbox[c]) + 1
<1>1. outbox[c] \in Seq(Reply) /\ outbox'[c] = Append(outbox[c], m)
  BY DEF TypeOK
<1>2. \A d \in Client \ {c} : outbox'[d] = outbox[d]
  BY DEF TypeOK
<1>3. /\ DOMAIN outbox'[c] = DOMAIN outbox[c] \cup {k}
      /\ \A i \in DOMAIN outbox[c] : i \in Nat /\ i < k /\ outbox'[c][i] = outbox[c][i]
      /\ outbox'[c][k] = m /\ k \in Nat
  BY <1>1, OneMore
<1> HIDE DEF k
<1>4. ASSUME NEW b \in Block
      PROVE  b \in Answered' <=>
               b \in Answered \/ (b.hdl = c /\ b.id = m.id /\ m.type \in Final)
  <2>0. b.hdl \in Client
    BY BlockFields
  <2>1. /\ b \in Answered <=> \E i \in DOMAIN outbox[b.hdl] :
             outbox[b.hdl][i].id = b.id /\ outbox[b.hdl][i].type \in Final
        /\ b \in Answered' <=> \E i \in DOMAIN outbox'[b.hdl] :
             outbox'[b.hdl][i].id = b.id /\ outbox'[b.hdl][i].type \in Final
    BY DEF Answered, Closings
  <2>2. CASE b.hdl # c
    BY <1>2, <2>0, <2>1, <2>2
  <2>3. CASE b.hdl = c
    BY <1>3, <2>1, <2>3
  <2> QED BY <2>2, <2>3
<1> QED
  BY <1>2, <1>3, <1>4 DEF k

(* What follows from the line being the same or shorter.                    *)
LEMMA LineKept ==
  ASSUME OrderInv, sent' = sent, socket' = socket,
         \A c \in Client : Coming(c)' = Coming(c) /\ Past(c)' \subseteq Past(c),
         Settled \cap Block \subseteq Settled'
  PROVE  LinkInv'
<1>1. ComingIsLast' /\ PastWasSent'
  BY DEF OrderInv, LinkInv, ComingIsLast, PastWasSent
<1>2. ASSUME NEW b \in Block, socket[b.hdl] = "open", b.id <= sent[b.hdl]
      PROVE  b.id \in Coming(b.hdl)' \/ b \in Settled'
  <2>1. b.hdl \in Client
    BY BlockFields
  <2>2. b.id \in Coming(b.hdl) \/ b \in Settled
    BY <1>2 DEF OrderInv, LinkInv, NothingIsLost, Settled
  <2> QED BY <2>1, <2>2
<1> QED
  BY <1>1, <1>2 DEF LinkInv, NothingIsLost, Settled

(* The back of the line is not touched.                                     *)
LEMMA BackKept ==
  ASSUME OrderInv, UNCHANGED <<block_queue, block, outbox, discarded>>
  PROVE  /\ BackInv' /\ Settled' = Settled
         /\ \A c \in Client : Past(c)' = Past(c)
BY DEF OrderInv, BackInv, QueueInOrder, QueueAfterReplies, BlockAfterReplies,
   DiscardedIsUnanswered, RepliesInOrder, Queued, Answered, Closings, Settled, Past

LEMMA ComingKept ==
  ASSUME UNCHANGED <<inbox, loop_pc, loop_msg>>
  PROVE  \A c \in Client : Coming(c)' = Coming(c)
BY DEF Coming, HandHolds

(* The steps at the front of the line.                                      *)
LEMMA FrontOfLine ==
  ASSUME OrderInv, NEW c \in Client,
         Environment(c) \/ on_open(c) \/ on_close(c) \/ on_message(c)
  PROVE  BackInv' /\ LinkInv'
<1>0. UNCHANGED <<block_queue, block, outbox, discarded>>
  BY DEF Environment, SendRequest, SendControl, ClientSends, Drop, on_open,
     on_close, on_message, runVars
<1>1. /\ BackInv' /\ Settled' = Settled
      /\ \A d \in Client : Past(d)' = Past(d)
  BY <1>0, BackKept
<1>t. /\ inbox \in [Client -> Seq(Message)] /\ sent \in [Client -> Nat]
      /\ socket \in [Client -> {"connecting", "open", "closed"}]
      /\ \A b \in Block : b.hdl \in Client /\ b.id \in Nat /\ b.id >= 1
  <2>1. ASSUME NEW b \in Block
        PROVE  b.hdl \in Client /\ b.id \in Nat /\ b.id >= 1
    <3>1. b.hdl \in Client /\ b.id \in 1..MaxRequests[b.hdl] /\ b.id \in Nat
      BY BlockFields
    <3>2. MaxRequests[b.hdl] \in Nat
      BY <3>1, BoundsAreNat
    <3> QED BY <3>1, <3>2
  <2> QED BY <2>1 DEF OrderInv, IInv, TypeOK
<1>2. CASE SendRequest(c)
  <2> DEFINE m == [type |-> "execute_request", id |-> sent[c] + 1]
             k == Len(inbox[c]) + 1
  <2>1. /\ inbox' = [inbox EXCEPT ![c] = Append(@, m)] /\ m \in Message
        /\ sent' = [sent EXCEPT ![c] = @ + 1]
        /\ UNCHANGED <<socket, loop_pc, loop_msg>>
    BY <1>2, <1>t DEF SendRequest, ClientSends, loopVars, Message
  <2>2. m.type = "execute_request" /\ m.id = sent[c] + 1
    OBVIOUS
  <2> HIDE DEF m
  <2>3. /\ \A d \in Client \ {c} : inbox'[d] = inbox[d]
        /\ DOMAIN inbox'[c] = DOMAIN inbox[c] \cup {k}
        /\ \A i \in DOMAIN inbox[c] : inbox'[c][i] = inbox[c][i]
        /\ inbox'[c][k] = m
    <3>1. inbox[c] \in Seq(Message) /\ inbox'[c] = Append(inbox[c], m)
      BY <1>t, <2>1
    <3> QED BY <1>t, <2>1, <3>1, OneMore
  <2> HIDE DEF k
  <2>4. Coming(c)' = Coming(c) \cup {sent[c] + 1}
    BY <1>t, <2>1, <2>2, <2>3 DEF Coming, HandHolds, IsRequest
  <2>5. \A d \in Client \ {c} : Coming(d)' = Coming(d)
    BY <1>t, <2>1, <2>3 DEF Coming, HandHolds, IsRequest
  <2>6. sent'[c] = sent[c] + 1 /\ \A d \in Client \ {c} : sent'[d] = sent[d]
    BY <1>t, <2>1
  <2>7. \A d \in Client : Past(d) \subseteq Nat /\ sent[d] \in Nat
    BY <1>t DEF Past
  <2>8. ComingIsLast'
    <3> SUFFICES ASSUME NEW d \in Client, NEW n \in Coming(d)', NEW p \in Past(d)
                 PROVE  p < n
      BY <1>1 DEF ComingIsLast
    <3>1. CASE n \in Coming(d)
      BY <3>1 DEF OrderInv, LinkInv, ComingIsLast
    <3>2. CASE d = c /\ n = sent[c] + 1
      <4>1. p <= sent[c] /\ p \in Nat
        BY <2>7, <3>2 DEF OrderInv, LinkInv, PastWasSent
      <4> QED BY <2>7, <3>2, <4>1
    <3> QED BY <2>4, <2>5, <3>1, <3>2
  <2>9. PastWasSent'
    <3> SUFFICES ASSUME NEW d \in Client, NEW p \in Past(d)
                 PROVE  p <= sent'[d]
      BY <1>1 DEF PastWasSent
    <3>1. p <= sent[d] /\ p \in Nat /\ sent[d] \in Nat
      BY <2>7 DEF OrderInv, LinkInv, PastWasSent
    <3>2. sent'[d] = sent[d] \/ sent'[d] = sent[d] + 1
      BY <2>6
    <3> QED BY <3>1, <3>2
  <2>10. NothingIsLost'
    <3> SUFFICES ASSUME NEW b \in Block, socket[b.hdl] = "open", b.id <= sent'[b.hdl]
                 PROVE  b.id \in Coming(b.hdl)' \/ b \in Settled
      BY <1>1, <2>1 DEF NothingIsLost, Settled
    <3>1. CASE b.id <= sent[b.hdl]
      <4>1. b.id \in Coming(b.hdl) \/ b \in Settled
        BY <3>1 DEF OrderInv, LinkInv, NothingIsLost, Settled
      <4> QED BY <1>t, <2>4, <2>5, <4>1
    <3>2. CASE ~(b.id <= sent[b.hdl])
      <4>1. b.hdl = c /\ b.id = sent[c] + 1
        BY <1>t, <2>6, <2>7, <3>2
      <4> QED BY <2>4, <4>1
    <3> QED BY <3>1, <3>2
  <2> QED BY <1>1, <2>8, <2>9, <2>10 DEF LinkInv
<1>3. CASE SendControl(c)
  <2>0. PICK t \in {"stop", "exit"} : ClientSends(c, [type |-> t, id |-> 0])
    BY <1>3 DEF SendControl
  <2> DEFINE m == [type |-> t, id |-> 0]
             k == Len(inbox[c]) + 1
  <2>1. /\ inbox' = [inbox EXCEPT ![c] = Append(@, m)] /\ m \in Message
        /\ UNCHANGED <<sent, socket, loop_pc, loop_msg>>
    BY <1>3, <2>0 DEF SendControl, ClientSends, loopVars, Message
  <2>2. m.type # "execute_request"
    OBVIOUS
  <2> HIDE DEF m
  <2>3. /\ \A d \in Client \ {c} : inbox'[d] = inbox[d]
        /\ DOMAIN inbox'[c] = DOMAIN inbox[c] \cup {k}
        /\ \A i \in DOMAIN inbox[c] : inbox'[c][i] = inbox[c][i]
        /\ inbox'[c][k] = m
    <3>1. inbox[c] \in Seq(Message) /\ inbox'[c] = Append(inbox[c], m)
      BY <1>t, <2>1
    <3> QED BY <1>t, <2>1, <3>1, OneMore
  <2> HIDE DEF k
  <2>4. \A d \in Client : Coming(d)' = Coming(d)
    BY <2>1, <2>2, <2>3 DEF Coming, HandHolds, IsRequest
  <2> QED BY <1>1, <2>1, <2>4, LineKept
<1>4. CASE Drop(c)
  <2>1. /\ inbox' = [inbox EXCEPT ![c] = <<>>] /\ socket' = [socket EXCEPT ![c] = "closed"]
        /\ UNCHANGED <<sent, loop_pc, loop_msg>>
    BY <1>4 DEF Drop, loopVars
  <2>2. \A d \in Client \ {c} : inbox'[d] = inbox[d] /\ socket'[d] = socket[d]
    BY <2>1, <1>t
  <2>3. inbox'[c] = <<>> /\ socket'[c] = "closed"
    BY <2>1, <1>t
  <2>4. \A d \in Client : Coming(d)' \subseteq Coming(d)
    BY <2>1, <2>2, <2>3 DEF Coming, HandHolds
  <2>5. \A d \in Client \ {c} : Coming(d)' = Coming(d)
    BY <2>1, <2>2 DEF Coming, HandHolds
  <2>6. ComingIsLast' /\ PastWasSent'
    BY <1>1, <2>1, <2>4 DEF OrderInv, LinkInv, ComingIsLast, PastWasSent
  <2>7. NothingIsLost'
    <3> SUFFICES ASSUME NEW b \in Block, socket'[b.hdl] = "open", b.id <= sent[b.hdl]
                 PROVE  b.id \in Coming(b.hdl)' \/ b \in Settled
      BY <1>1, <2>1 DEF NothingIsLost, Settled
    <3>1. b.hdl \in Client \ {c}
      BY <1>t, <2>3
    <3>2. b.id \in Coming(b.hdl) \/ b \in Settled
      BY <2>2, <3>1 DEF OrderInv, LinkInv, NothingIsLost, Settled
    <3> QED BY <2>5, <3>1, <3>2
  <2> QED BY <1>1, <2>6, <2>7 DEF LinkInv
<1>5. CASE on_open(c)
  <2>1. /\ socket' = [socket EXCEPT ![c] = "open"] /\ socket[c] = "connecting"
        /\ UNCHANGED <<inbox, sent, loop_pc, loop_msg>>
    BY <1>5 DEF on_open, loopVars
  <2>2. \A d \in Client : Coming(d)' = Coming(d)
    BY <2>1, ComingKept
  <2>3. sent[c] = 0
    BY <2>1 DEF OrderInv, FrontInv, SentAfterOpen
  <2>4. NothingIsLost'
    <3> SUFFICES ASSUME NEW b \in Block, socket'[b.hdl] = "open", b.id <= sent[b.hdl]
                 PROVE  b.id \in Coming(b.hdl)' \/ b \in Settled
      BY <1>1, <2>1 DEF NothingIsLost, Settled
    <3>1. b.hdl # c
      BY <1>t, <2>3
    <3>2. b.hdl \in Client /\ socket[b.hdl] = "open"
      BY <1>t, <2>1, <3>1
    <3>3. b.id \in Coming(b.hdl) \/ b \in Settled
      BY <3>2 DEF OrderInv, LinkInv, NothingIsLost, Settled
    <3> QED BY <2>2, <3>2, <3>3
  <2>5. ComingIsLast' /\ PastWasSent'
    BY <1>1, <2>1, <2>2 DEF OrderInv, LinkInv, ComingIsLast, PastWasSent
  <2> QED BY <1>1, <2>4, <2>5 DEF LinkInv
<1>6. CASE on_close(c)
  <2>1. UNCHANGED <<inbox, sent, socket, loop_pc, loop_msg>>
    BY <1>6 DEF on_close, loopVars
  <2> QED BY <1>1, <2>1, ComingKept, LineKept
<1>7. CASE on_message(c)
  <2>1. /\ inbox' = [inbox EXCEPT ![c] = Tail(@)] /\ inbox[c] # <<>>
        /\ loop_msg' = [hdl |-> c, msg |-> Head(inbox[c])]
        /\ loop_pc = "idle" /\ loop_pc' = "dispatch"
        /\ UNCHANGED <<sent, socket>>
    BY <1>7 DEF on_message, envVars
  <2>2. /\ Head(inbox[c]) = inbox[c][1] /\ 1 \in DOMAIN inbox[c]
        /\ \A i \in DOMAIN Tail(inbox[c]) : /\ i \in Nat /\ i > 0 /\ i + 1 \in DOMAIN inbox[c]
                                            /\ Tail(inbox[c])[i] = inbox[c][i + 1]
        /\ \A i \in DOMAIN inbox[c] :
             i = 1 \/ (i - 1 \in DOMAIN Tail(inbox[c]) /\ inbox[c][i] = Tail(inbox[c])[i - 1])
    BY <1>t, <2>1, OneLess
  <2>3. inbox'[c] = Tail(inbox[c]) /\ \A d \in Client \ {c} : inbox'[d] = inbox[d]
    BY <1>t, <2>1
  <2>4. Coming(c)' = Coming(c)
    <3>1. ASSUME NEW n \in Nat
          PROVE  n \in Coming(c) <=>
                   \E i \in DOMAIN inbox[c] : IsRequest(inbox[c][i], n)
      BY <2>1 DEF Coming, HandHolds
    <3>2. ASSUME NEW n \in Nat
          PROVE  n \in Coming(c)' <=>
                   \/ IsRequest(inbox[c][1], n)
                   \/ \E i \in DOMAIN Tail(inbox[c]) : IsRequest(Tail(inbox[c])[i], n)
      BY <2>1, <2>2, <2>3 DEF Coming, HandHolds, IsRequest
    <3>3. ASSUME NEW n \in Nat
          PROVE  n \in Coming(c)' <=> n \in Coming(c)
      <4>1. CASE n \in Coming(c)'
        BY <2>2, <3>1, <3>2, <4>1
      <4>2. CASE n \in Coming(c)
        BY <2>2, <3>1, <3>2, <4>2
      <4> QED BY <4>1, <4>2
    <3> QED BY <3>3 DEF Coming
  <2>5. \A d \in Client \ {c} : Coming(d)' = Coming(d)
    BY <2>1, <2>3 DEF Coming, HandHolds
  <2> QED BY <1>1, <2>1, <2>4, <2>5, LineKept
<1> QED
  BY <1>2, <1>3, <1>4, <1>5, <1>6, <1>7 DEF Environment

(* A new block at the end of the queue: the request in the loop's hand.     *)
LEMMA PushedBlock ==
  ASSUME OrderInv, dispatch_execute_request
  PROVE  LET b == [hdl |-> loop_msg.hdl, id |-> loop_msg.msg.id] IN
           /\ b \in Block /\ block_queue' = Append(block_queue, b)
           /\ Queued' = Queued \cup {b}
           /\ b \notin Settled
           /\ \A p \in Past(b.hdl) : p < b.id
<1> DEFINE b == [hdl |-> loop_msg.hdl, id |-> loop_msg.msg.id]
<1>1. b \in Block /\ block_queue' = Append(block_queue, b)
  BY RequestIsBlock, BoundsAreNat
     DEF OrderInv, IInv, dispatch_execute_request, LoopHasMessageInHand, TypeOK
<1>2. b.hdl \in Client /\ b.id \in Nat /\ b # NoBlock
  BY <1>1, BlockFields
<1>3. b.id \in Coming(b.hdl)
  BY <1>2 DEF dispatch_execute_request, Coming, HandHolds, IsRequest
<1> HIDE DEF b
<1>4. \A p \in Past(b.hdl) : p < b.id
  BY <1>2, <1>3 DEF OrderInv, LinkInv, ComingIsLast
<1>5. Queued' = Queued \cup {b}
  <2>1. block_queue \in Seq(Block)
    BY DEF OrderInv, IInv, TypeOK
  <2>2. /\ DOMAIN block_queue' = DOMAIN block_queue \cup {Len(block_queue) + 1}
        /\ \A i \in DOMAIN block_queue : block_queue'[i] = block_queue[i]
        /\ block_queue'[Len(block_queue) + 1] = b
    BY <1>1, <2>1, OneMore
  <2> QED BY <2>2 DEF Queued
<1>6. b \notin Settled
  <2>1. b.id \notin Past(b.hdl)
    BY <1>2, <1>4
  <2>2. b \notin Answered
    BY <1>2, <2>1 DEF Answered, Closings, Past
  <2>3. b \notin Queued \cup discarded \cup {block}
    BY <1>2, <2>1 DEF Past
  <2> QED BY <2>2, <2>3 DEF Settled
<1> QED
  BY <1>1, <1>4, <1>5, <1>6 DEF b

LEMMA PushStep ==
  ASSUME OrderInv, dispatch_execute_request,
         NEW b, b = [hdl |-> loop_msg.hdl, id |-> loop_msg.msg.id]
  PROVE  BackInv' /\ LinkInv'
<1>1. /\ b \in Block /\ block_queue' = Append(block_queue, b)
      /\ Queued' = Queued \cup {b} /\ b \notin Settled
      /\ \A p \in Past(b.hdl) : p < b.id
  BY PushedBlock
<1>2. /\ b.hdl \in Client /\ b.id \in Nat /\ b # NoBlock
      /\ b.hdl = loop_msg.hdl /\ b.id = loop_msg.msg.id
  BY <1>1, BlockFields
<1>3. \A n \in Nat : HandHolds(b.hdl, n) <=> n = b.id
  BY <1>2 DEF dispatch_execute_request, HandHolds, IsRequest
<1>4. \A c \in Client : HandHolds(c, b.id) => c = b.hdl
  BY <1>2 DEF HandHolds
<1>5. \A c \in Client, n \in Nat : HandHolds(c, n) => c = b.hdl /\ n = b.id
  BY <1>2, <1>3 DEF HandHolds
<1>6. /\ UNCHANGED <<block, outbox, discarded, inbox, sent, socket>>
      /\ loop_pc' = "idle"
  BY DEF dispatch_execute_request, ReturnToLoop, envVars
<1>t. /\ block_queue \in Seq(Block) /\ inbox \in [Client -> Seq(Message)]
      /\ sent \in [Client -> Nat]
      /\ \A d \in Block : d.hdl \in Client /\ d.id \in Nat
  BY StateTypes DEF OrderInv, IInv
<1>7. /\ DOMAIN block_queue' = DOMAIN block_queue \cup {Len(block_queue) + 1}
      /\ \A i \in DOMAIN block_queue :
           i \in Nat /\ i < Len(block_queue) + 1 /\ block_queue'[i] = block_queue[i]
      /\ block_queue'[Len(block_queue) + 1] = b /\ Len(block_queue) + 1 \in Nat
  BY <1>1, <1>t, OneMore
<1>8. QueueInOrder'
  <2> SUFFICES ASSUME NEW i \in DOMAIN block_queue', NEW j \in DOMAIN block_queue', i < j,
                      block_queue'[i].hdl = block_queue'[j].hdl
               PROVE  block_queue'[i].id < block_queue'[j].id
    BY DEF QueueInOrder
  <2>1. CASE i \in DOMAIN block_queue /\ j \in DOMAIN block_queue
    BY <1>7, <2>1 DEF OrderInv, BackInv, QueueInOrder
  <2>2. CASE i \in DOMAIN block_queue /\ j = Len(block_queue) + 1
    <3>1. block_queue[i] \in Queued /\ block_queue[i].hdl = b.hdl
      BY <1>7, <2>2 DEF Queued
    <3>2. block_queue[i].id \in Nat
      BY <1>t, <2>2
    <3>3. block_queue[i].id \in Past(b.hdl)
      BY <3>1, <3>2 DEF Past
    <3> QED BY <1>1, <1>7, <2>2, <3>3
  <2>3. CASE i = Len(block_queue) + 1
    BY <1>7, <2>3
  <2> QED BY <1>7, <2>1, <2>2, <2>3
<1>9. QueueAfterReplies'
  <2>1. ASSUME NEW q \in Queued
        PROVE  /\ q \notin discarded
               /\ block # NoBlock /\ block.hdl = q.hdl => block.id < q.id
               /\ \A i \in DOMAIN outbox[q.hdl] : outbox[q.hdl][i].id < q.id
    BY DEF OrderInv, BackInv, QueueAfterReplies
  <2>2. b \notin discarded
    BY <1>1 DEF Settled
  <2>3. block # NoBlock /\ block.hdl = b.hdl => block.id < b.id
    <3>1. block # NoBlock => block.id \in Nat
      BY <1>t DEF OrderInv, IInv, TypeOK
    <3> QED BY <1>1, <3>1 DEF Past
  <2>4. \A i \in DOMAIN outbox[b.hdl] : outbox[b.hdl][i].id < b.id
    <3>1. \A i \in DOMAIN outbox[b.hdl] : outbox[b.hdl][i].id \in Nat
      BY <1>2, StateTypes DEF OrderInv, IInv
    <3> QED BY <1>1, <3>1 DEF Past
  <2> QED BY <1>1, <1>6, <2>1, <2>2, <2>3, <2>4 DEF QueueAfterReplies
<1>10. BlockAfterReplies' /\ DiscardedIsUnanswered' /\ RepliesInOrder'
  BY <1>6 DEF OrderInv, BackInv, BlockAfterReplies, DiscardedIsUnanswered,
     RepliesInOrder, Answered, Closings
<1>11. \A c \in Client : Past(c)' = Past(c) \cup (IF c = b.hdl THEN {b.id} ELSE {})
  BY <1>1, <1>2, <1>6 DEF Past
<1>12. \A c \in Client : Coming(c)' \subseteq Coming(c)
  BY <1>6 DEF Coming, HandHolds
<1>13. b.id \notin Coming(b.hdl)' /\ \A n \in Coming(b.hdl)' : b.id < n
  <2>1. ASSUME NEW n \in Coming(b.hdl)' PROVE b.id < n
    <3>1. PICK i \in DOMAIN inbox[b.hdl] : IsRequest(inbox[b.hdl][i], n)
      BY <1>6 DEF Coming, HandHolds
    <3>2. HandHolds(b.hdl, b.id)
      BY <1>2, <1>3
    <3> QED BY <1>2, <3>1, <3>2
            DEF OrderInv, FrontInv, HandBeforeInbox, IsExecute, IsRequest
  <2> QED BY <1>2, <2>1
<1>14. ComingIsLast'
  BY <1>11, <1>12, <1>13 DEF OrderInv, LinkInv, ComingIsLast
<1>15. PastWasSent'
  <2>1. b.id <= sent[b.hdl]
    <3>1. loop_msg.msg.id \in 1..sent[loop_msg.hdl]
      BY DEF OrderInv, IInv, LoopHasMessageInHand, dispatch_execute_request
    <3> QED BY <1>2, <1>t, <3>1
  <2> QED BY <1>6, <1>11, <2>1 DEF OrderInv, LinkInv, PastWasSent
<1>16. NothingIsLost'
  <2> SUFFICES ASSUME NEW d \in Block, socket[d.hdl] = "open", d.id <= sent[d.hdl]
               PROVE  d.id \in Coming(d.hdl)' \/ d \in Settled'
    BY <1>6 DEF NothingIsLost, Settled
  <2>1. d.id \in Coming(d.hdl) \/ d \in Settled
    BY DEF OrderInv, LinkInv, NothingIsLost, Settled
  <2>2. Settled' = Settled \cup {b}
    BY <1>1, <1>6 DEF Settled, Answered, Closings
  <2>3. CASE HandHolds(d.hdl, d.id)
    <3>1. d.hdl = b.hdl /\ d.id = b.id
      BY <1>5, <1>t, <2>3
    <3>2. d = b
      BY <1>1, <3>1, BlockFields
    <3> QED BY <2>2, <3>2
  <2>4. CASE ~HandHolds(d.hdl, d.id)
    BY <1>6, <2>1, <2>2, <2>4 DEF Coming
  <2> QED BY <2>3, <2>4
<1> QED
  BY <1>8, <1>9, <1>10, <1>14, <1>15, <1>16 DEF BackInv, LinkInv

(* The whole queue is discarded.                                            *)
LEMMA ClearStep ==
  ASSUME OrderInv, block_queue' = <<>>, discarded' = discarded \cup Queued,
         UNCHANGED <<block, outbox, sent, socket>>,
         \A c \in Client : Coming(c)' = Coming(c)
  PROVE  BackInv' /\ LinkInv'
<1>1. Queued' = {}
  BY DEF Queued
<1>2. QueueInOrder' /\ QueueAfterReplies' /\ RepliesInOrder'
  BY <1>1 DEF OrderInv, BackInv, QueueInOrder, QueueAfterReplies, RepliesInOrder
<1>3. Queued \subseteq Block /\ \A b \in Block : b.id \in Nat /\ b.hdl \in Client
  BY StateTypes DEF OrderInv, IInv
<1>4. BlockAfterReplies'
  <2>1. block # NoBlock => block \notin Queued
    <3>1. \A q \in Queued : block # NoBlock /\ block.hdl = q.hdl => block.id < q.id
      BY DEF OrderInv, BackInv, QueueAfterReplies
    <3> QED BY <1>3, <3>1
  <2> QED BY <2>1 DEF OrderInv, BackInv, BlockAfterReplies
<1>5. DiscardedIsUnanswered'
  <2>1. Answered' = Answered
    BY DEF Answered, Closings
  <2>2. ASSUME NEW q \in Queued PROVE q \notin Answered
    <3>1. \A i \in DOMAIN outbox[q.hdl] : outbox[q.hdl][i].id < q.id
      BY DEF OrderInv, BackInv, QueueAfterReplies
    <3> QED BY <1>3, <3>1 DEF Answered, Closings
  <2> QED BY <2>1, <2>2 DEF OrderInv, BackInv, DiscardedIsUnanswered
<1>6. \A c \in Client : Past(c)' = Past(c)
  BY <1>1 DEF Past
<1>7. Settled' = Settled
  BY <1>1 DEF Settled, Answered, Closings
<1> QED
  BY <1>2, <1>4, <1>5, <1>6, <1>7, LineKept DEF BackInv

(* The runner takes the first block.                                        *)
LEMMA PopStep ==
  ASSUME OrderInv, runner_pop
  PROVE  BackInv' /\ LinkInv'
<1>1. /\ block_queue # <<>> /\ block' = Head(block_queue)
      /\ block_queue' = Tail(block_queue)
      /\ UNCHANGED <<outbox, discarded, sent, socket, inbox, loop_pc, loop_msg>>
  BY DEF runner_pop, envVars, loopVars
<1>2. block = NoBlock
  BY DEF OrderInv, IInv, RunnerHasBlockInHand, runner_pop, RunnerMoves
<1>t. /\ block_queue \in Seq(Block) /\ Queued \subseteq Block
      /\ \A b \in Block : b.id \in Nat /\ b.hdl \in Client /\ b # NoBlock
  BY StateTypes DEF OrderInv, IInv
<1>3. /\ Head(block_queue) = block_queue[1] /\ 1 \in DOMAIN block_queue
      /\ Head(block_queue) \in Block
      /\ \A i \in DOMAIN Tail(block_queue) :
           i \in Nat /\ i > 0 /\ i + 1 \in DOMAIN block_queue
             /\ Tail(block_queue)[i] = block_queue[i + 1]
      /\ \A i \in DOMAIN block_queue :
           i = 1 \/ (i - 1 \in DOMAIN Tail(block_queue)
                       /\ block_queue[i] = Tail(block_queue)[i - 1])
  BY <1>1, <1>t, OneLess
<1>4. Queued' \subseteq Queued /\ block' \in Queued /\ Queued \subseteq Queued' \cup {block'}
  <2>1. Queued' \subseteq Queued /\ block' \in Queued
    BY <1>1, <1>3 DEF Queued
  <2>2. ASSUME NEW i \in DOMAIN block_queue
        PROVE  block_queue[i] \in Queued' \cup {block'}
    <3>1. CASE i = 1
      BY <1>1, <1>3, <3>1
    <3>2. CASE i # 1
      <4>1. i - 1 \in DOMAIN block_queue' /\ block_queue[i] = block_queue'[i - 1]
        BY <1>1, <1>3, <3>2
      <4> QED BY <4>1 DEF Queued
    <3> QED BY <3>1, <3>2
  <2> QED BY <2>1, <2>2 DEF Queued
<1>5. QueueInOrder'
  <2> SUFFICES ASSUME NEW i \in DOMAIN Tail(block_queue), NEW j \in DOMAIN Tail(block_queue),
                      i < j, Tail(block_queue)[i].hdl = Tail(block_queue)[j].hdl
               PROVE  Tail(block_queue)[i].id < Tail(block_queue)[j].id
    BY <1>1 DEF QueueInOrder
  <2>1. i + 1 < j + 1
    BY <1>3
  <2> QED BY <1>3, <2>1 DEF OrderInv, BackInv, QueueInOrder
<1>6. \A q \in Queued' : block'.hdl = q.hdl => block'.id < q.id
  <2> SUFFICES ASSUME NEW i \in DOMAIN Tail(block_queue),
                      block_queue[1].hdl = Tail(block_queue)[i].hdl
               PROVE  block_queue[1].id < Tail(block_queue)[i].id
    BY <1>1, <1>3 DEF Queued
  <2>1. 1 < i + 1
    BY <1>3
  <2> QED BY <1>3, <2>1 DEF OrderInv, BackInv, QueueInOrder
<1>7. QueueAfterReplies'
  BY <1>1, <1>4, <1>6 DEF OrderInv, BackInv, QueueAfterReplies
<1>8. BlockAfterReplies'
  BY <1>1, <1>4 DEF OrderInv, BackInv, QueueAfterReplies, BlockAfterReplies
<1>9. DiscardedIsUnanswered' /\ RepliesInOrder'
  BY <1>1 DEF OrderInv, BackInv, DiscardedIsUnanswered, RepliesInOrder, Answered,
     Closings
<1>10. \A c \in Client : Past(c)' \subseteq Past(c)
  BY <1>1, <1>4 DEF Past
<1>11. Settled \cap Block \subseteq Settled'
  <2>1. Answered' = Answered
    BY <1>1 DEF Answered, Closings
  <2> QED BY <1>1, <1>2, <1>4, <1>t, <2>1 DEF Settled
<1> QED
  BY <1>1, <1>5, <1>7, <1>8, <1>9, <1>10, <1>11, ComingKept, LineKept DEF BackInv

(* A message is sent for the block in hand: one of its views, or the        *)
(* message that closes it, with which it leaves the runner's hand.          *)
LEMMA ReplyStep ==
  ASSUME OrderInv, block # NoBlock,
         NEW c \in Client, c = block.hdl,
         NEW m \in Reply, m.id = block.id,
         outbox' = [outbox EXCEPT ![c] = Append(@, m)],
         \/ /\ block' = NoBlock /\ m.type \in Final
         \/ /\ block' = block /\ m.type = "latex_view"
            /\ \A i \in DOMAIN outbox[c] : outbox[c][i].id # m.id,
         UNCHANGED <<block_queue, discarded, sent, socket, inbox, loop_pc, loop_msg>>
  PROVE  BackInv' /\ LinkInv'
<1> DEFINE k == Len(outbox[c]) + 1
<1>1. /\ \A d \in Client \ {c} : outbox'[d] = outbox[d]
      /\ DOMAIN outbox'[c] = DOMAIN outbox[c] \cup {k}
      /\ \A i \in DOMAIN outbox[c] : i \in Nat /\ i < k /\ outbox'[c][i] = outbox[c][i]
      /\ outbox'[c][k] = m /\ k \in Nat
      /\ \A b \in Block : b \in Answered' <=>
           b \in Answered \/ (b.hdl = c /\ b.id = m.id /\ m.type \in Final)
  <2>1. TypeOK
    BY DEF OrderInv, IInv
  <2>2. outbox' = [outbox EXCEPT ![c] = Append(@, m)]
    OBVIOUS
  <2> QED BY ONLY <2>1, <2>2, c \in Client, m \in Reply, AnsweredAfterReply, Zenon
<1> HIDE DEF k
<1>t. /\ block \in Block /\ Queued \subseteq Block /\ discarded \subseteq Block
      /\ \A d \in Client : \A i \in DOMAIN outbox[d] : i \in Nat /\ outbox[d][i].id \in Nat
      /\ \A b \in Block : /\ b.id \in Nat /\ b.hdl \in Client /\ b # NoBlock
                          /\ b = [hdl |-> b.hdl, id |-> b.id]
  BY StateTypes DEF OrderInv, IInv, TypeOK
<1>2. /\ block \notin discarded
      /\ \A i \in DOMAIN outbox[c] :
           \/ outbox[c][i].id < block.id
           \/ outbox[c][i].id = block.id /\ outbox[c][i].type = "latex_view"
  BY DEF OrderInv, BackInv, BlockAfterReplies
<1>3. Queued' = Queued
  BY DEF Queued
<1>4. ASSUME NEW b \in Block, b.hdl = c, b.id = m.id
      PROVE  b = block
  BY <1>4, <1>t
<1>5. QueueInOrder'
  BY DEF OrderInv, BackInv, QueueInOrder
<1>6. QueueAfterReplies'
  <2> SUFFICES ASSUME NEW q \in Queued
               PROVE  /\ q \notin discarded
                      /\ block' # NoBlock /\ block'.hdl = q.hdl => block'.id < q.id
                      /\ \A i \in DOMAIN outbox'[q.hdl] : outbox'[q.hdl][i].id < q.id
    BY <1>3 DEF QueueAfterReplies
  <2>1. /\ q \notin discarded
        /\ block.hdl = q.hdl => block.id < q.id
        /\ \A i \in DOMAIN outbox[q.hdl] : outbox[q.hdl][i].id < q.id
    BY DEF OrderInv, BackInv, QueueAfterReplies
  <2>2. q.hdl \in Client
    BY <1>t
  <2>3. \A i \in DOMAIN outbox'[q.hdl] : outbox'[q.hdl][i].id < q.id
    <3>1. CASE q.hdl # c
      BY <1>1, <2>1, <2>2, <3>1
    <3>2. CASE q.hdl = c
      BY <1>1, <2>1, <3>2
    <3> QED BY <3>1, <3>2
  <2> QED BY <2>1, <2>3
<1>7. BlockAfterReplies'
  <2> SUFFICES ASSUME block' = block, m.type = "latex_view"
               PROVE  \A i \in DOMAIN outbox'[c] :
                        \/ outbox'[c][i].id < block.id
                        \/ /\ outbox'[c][i].id = block.id
                           /\ outbox'[c][i].type = "latex_view"
    BY <1>2 DEF BlockAfterReplies
  <2> QED BY <1>1, <1>2
<1>8. DiscardedIsUnanswered'
  <2> SUFFICES ASSUME NEW b \in discarded, b \in Answered'
               PROVE  FALSE
    BY DEF DiscardedIsUnanswered
  <2>1. b \notin Answered
    BY DEF OrderInv, BackInv, DiscardedIsUnanswered
  <2>2. b.hdl = c /\ b.id = m.id
    BY <1>1, <1>t, <2>1
  <2> QED BY <1>2, <1>4, <1>t, <2>2
<1>9. RepliesInOrder'
  <2> SUFFICES ASSUME NEW d \in Client, NEW i \in DOMAIN outbox'[d],
                      NEW j \in DOMAIN outbox'[d], i < j
               PROVE  \/ outbox'[d][i].id < outbox'[d][j].id
                      \/ /\ outbox'[d][i].id = outbox'[d][j].id
                         /\ outbox'[d][i].type = "latex_view"
    BY DEF RepliesInOrder
  <2>1. CASE d # c
    BY <1>1, <2>1 DEF OrderInv, BackInv, RepliesInOrder
  <2>2. CASE d = c /\ i \in DOMAIN outbox[c] /\ j \in DOMAIN outbox[c]
    BY <1>1, <2>2 DEF OrderInv, BackInv, RepliesInOrder
  <2>3. CASE d = c /\ i \in DOMAIN outbox[c] /\ j = k
    BY <1>1, <1>2, <2>3
  <2>4. CASE d = c /\ i = k
    BY <1>1, <2>4
  <2> QED BY <1>1, <2>1, <2>2, <2>3, <2>4
<1>10. \A d \in Client : Past(d)' \subseteq Past(d)
  <2> SUFFICES ASSUME NEW d \in Client, NEW n \in Past(d)'
               PROVE  n \in Past(d)
    OBVIOUS
  <2>0. n \in Nat
    BY DEF Past
  <2>1. CASE \E b \in Queued \cup discarded : b.hdl = d /\ b.id = n
    BY <2>0, <2>1 DEF Past
  <2>2. CASE block' # NoBlock /\ block'.hdl = d /\ block'.id = n
    BY <2>0, <2>2 DEF Past
  <2>3. CASE \E i \in DOMAIN outbox'[d] : outbox'[d][i].id = n
    <3>1. CASE \E i \in DOMAIN outbox[d] : outbox[d][i].id = n
      BY <2>0, <3>1 DEF Past
    <3>2. CASE d = c /\ n = m.id
      BY <2>0, <3>2 DEF Past
    <3> QED BY <1>1, <2>3, <3>1, <3>2
  <2> QED BY <1>3, <2>1, <2>2, <2>3 DEF Past
<1>11. Settled \cap Block \subseteq Settled'
  BY <1>1, <1>3, <1>t DEF Settled
<1> QED
  BY <1>5, <1>6, <1>7, <1>8, <1>9, <1>10, <1>11, ComingKept, LineKept DEF BackInv

LEMMA OrderStep ==
  ASSUME OrderInv, [Next]_vars
  PROVE  OrderInv'
<1>f. IInv' /\ FrontInv'
  BY IInvIsInductive, FrontStep DEF OrderInv
<1> SUFFICES BackInv' /\ LinkInv'
  BY <1>f DEF OrderInv
<1>q. ASSUME UNCHANGED <<block_queue, block, outbox, discarded, sent, socket,
                         inbox, loop_pc, loop_msg>>
      PROVE  BackInv' /\ LinkInv'
  BY <1>q, BackKept, ComingKept, LineKept
<1>1. ASSUME NEW c \in Client,
             Environment(c) \/ on_open(c) \/ on_close(c) \/ on_message(c)
      PROVE  BackInv' /\ LinkInv'
  BY <1>1, FrontOfLine
<1>2. CASE dispatch_lock
  <2>1. /\ UNCHANGED <<block_queue, block, outbox, discarded, sent, socket, inbox, loop_msg>>
        /\ loop_pc = "dispatch" /\ loop_pc' = "queue"
    BY <1>2 DEF dispatch_lock, runVars, envVars
  <2>2. \A c \in Client : Coming(c)' = Coming(c)
    BY <2>1 DEF Coming, HandHolds
  <2> QED BY <2>1, <2>2, BackKept, LineKept
<1>3. CASE dispatch_execute_request
  BY <1>3, PushStep
<1>4. CASE dispatch_stop
  <2>1. /\ UNCHANGED <<block, outbox, sent, socket, inbox>>
        /\ block_queue' = <<>> /\ discarded' = discarded \cup Queued
        /\ loop_pc' = "idle" /\ loop_msg.msg.type # "execute_request"
    BY <1>4 DEF dispatch_stop, ReturnToLoop, clear_queue, runVars, envVars
  <2>2. \A c \in Client : Coming(c)' = Coming(c)
    BY <2>1 DEF Coming, HandHolds, IsRequest
  <2> QED BY <2>1, <2>2, ClearStep
<1>5. CASE dispatch_exit
  BY <1>5, <1>q DEF dispatch_exit, runVars, envVars, loopVars
<1>6. CASE runner_pop
  BY <1>6, PopStep
<1>7. CASE catch_runtime_error \/ catch_exception
  <2>1. /\ UNCHANGED <<block, outbox, sent, socket, inbox, loop_pc, loop_msg>>
        /\ block_queue' = <<>> /\ discarded' = discarded \cup Queued
    BY <1>7 DEF catch_runtime_error, catch_exception, runner_clear, clear_queue,
       envVars, loopVars
  <2> QED BY <2>1, ComingKept, ClearStep
<1>8. CASE runner_lock \/ runner_wait \/ runner_spurious_wakeup
           \/ run_string_preparse \/ run_string_ends \/ run_string_print
           \/ run_string_interrupted
  BY <1>8, <1>q DEF runner_lock, runner_wait, runner_spurious_wakeup,
     run_string_preparse, run_string_ends, run_string_print,
     run_string_interrupted, envVars, loopVars
<1>b. block # NoBlock => block.hdl \in Client /\ block.id \in Nat
  BY BlockFields DEF OrderInv, IInv, TypeOK
<1>9. CASE run_string_send
  <2>1. /\ block # NoBlock /\ current_hdl = block.hdl /\ current_id = block.id
    BY <1>9 DEF OrderInv, IInv, RunnerHasBlockInHand, SendsForTheRunningBlock,
       run_string_send
  <2>2. UNCHANGED <<block_queue, block, discarded, sent, socket, inbox, loop_pc, loop_msg>>
    BY <1>9 DEF run_string_send, envVars, loopVars
  <2>3. CASE outbox' = outbox
    BY <1>q, <2>2, <2>3
  <2>4. CASE outbox' # outbox
    <3> DEFINE m == [type |-> "latex_view", id |-> block.id, text |-> {}]
    <3>1. /\ outbox' = [outbox EXCEPT ![block.hdl] = Append(@, m)]
          /\ \A i \in DOMAIN outbox[block.hdl] : outbox[block.hdl][i].id # block.id
      BY <1>9, <2>1, <2>4 DEF run_string_send
    <3>2. m \in Reply /\ m.id = block.id /\ m.type = "latex_view"
      BY <1>b, <2>1 DEF Reply
    <3> HIDE DEF m
    <3>3. PICK r \in Reply : r = m
      BY <3>2
    <3>4. PICK c \in Client : c = block.hdl
      BY <1>b, <2>1
    <3> QED BY <2>1, <2>2, <3>1, <3>2, <3>3, <3>4, ReplyStep
  <2> QED BY <2>3, <2>4
<1>10. CASE on_block_finished \/ on_block_error \/ on_kernel_fault
  <2>1. /\ block # NoBlock /\ current_hdl = block.hdl /\ current_id = block.id
    BY <1>10 DEF OrderInv, IInv, RunnerHasBlockInHand, SendsForTheRunningBlock,
       on_block_finished, on_block_error, on_kernel_fault, report
  <2>2. UNCHANGED <<block_queue, discarded, sent, socket, inbox, loop_pc, loop_msg>>
    BY <1>10 DEF on_block_finished, on_block_error, on_kernel_fault, report,
       envVars, loopVars
  <2>3. CASE UNCHANGED <<outbox, block>>
    BY <1>q, <2>2, <2>3
  <2>4. CASE ~UNCHANGED <<outbox, block>>
    <3>1. PICK t \in Final, x \in SUBSET Block :
             /\ outbox' = [outbox EXCEPT ![block.hdl] =
                  Append(@, [type |-> t, id |-> block.id, text |-> x])]
             /\ block' = NoBlock
      <4>1. CASE on_block_finished
        <5>1. catchOut \in SUBSET Block
          BY DEF OrderInv, IInv, TypeOK
        <5> QED BY <2>1, <2>4, <4>1, <5>1 DEF on_block_finished, Final
      <4>2. CASE report("error")
        <5>1. "error" \in Final /\ {} \in SUBSET Block
          BY DEF Final
        <5>2. /\ outbox' = [outbox EXCEPT ![block.hdl] =
                   Append(@, [type |-> "error", id |-> block.id, text |-> {}])]
              /\ block' = NoBlock
          BY <2>4, <4>2 DEF report
        <5> QED BY <5>1, <5>2
      <4>3. CASE report("fault")
        <5>1. "fault" \in Final /\ {} \in SUBSET Block
          BY DEF Final
        <5>2. /\ outbox' = [outbox EXCEPT ![block.hdl] =
                   Append(@, [type |-> "fault", id |-> block.id, text |-> {}])]
              /\ block' = NoBlock
          BY <2>4, <4>3 DEF report
        <5> QED BY <5>1, <5>2
      <4> QED BY <1>10, <4>1, <4>2, <4>3 DEF on_block_error, on_kernel_fault
    <3> DEFINE m == [type |-> t, id |-> block.id, text |-> x]
    <3>2. m \in Reply /\ m.id = block.id /\ m.type \in Final
      BY <1>b, <2>1 DEF Reply
    <3>3. outbox' = [outbox EXCEPT ![block.hdl] = Append(@, m)]
      BY <3>1
    <3> HIDE DEF m
    <3>4. PICK r \in Reply : r = m
      BY <3>2
    <3>5. PICK c \in Client : c = block.hdl
      BY <1>b, <2>1
    <3> QED BY <2>1, <2>2, <3>1, <3>2, <3>3, <3>4, <3>5, ReplyStep
  <2> QED BY <2>3, <2>4
<1>11. CASE UNCHANGED vars
  BY <1>11, <1>q DEF vars, envVars, loopVars, runVars
<1> QED
  BY <1>1, <1>2, <1>3, <1>4, <1>5, <1>6, <1>7, <1>8, <1>9, <1>10, <1>11
     DEF Next, MainLoop, Runner, RunnerCode, UserCode

LEMMA InitOrder == Init => OrderInv
<1> SUFFICES ASSUME Init PROVE OrderInv
  OBVIOUS
<1>1. IInv /\ FrontInv
  BY InitIInv, InitFront
<1>2. Queued = {} /\ discarded = {} /\ block = NoBlock /\ loop_pc = "idle"
  BY DEF Init, Queued
<1>3. \A c \in Client : outbox[c] = <<>> /\ inbox[c] = <<>> /\ sent[c] = 0
  BY DEF Init
<1>4. BackInv
  BY <1>2, <1>3 DEF Init, BackInv, QueueInOrder, QueueAfterReplies,
     BlockAfterReplies, DiscardedIsUnanswered, RepliesInOrder
<1>5. \A c \in Client : Past(c) = {} /\ Coming(c) = {}
  BY <1>2, <1>3 DEF Past, Coming, HandHolds
<1>6. \A b \in Block : socket[b.hdl] # "open"
  BY BlockFields DEF Init
<1>7. LinkInv
  BY <1>5, <1>6 DEF LinkInv, ComingIsLast, PastWasSent, NothingIsLost
<1> QED
  BY <1>1, <1>4, <1>7 DEF OrderInv

THEOREM OrderInvIsInvariant == Spec => []OrderInv
BY InitOrder, OrderStep, PTL DEF Spec

(* A client reads its messages in the order of its requests, and what a     *)
(* block sends while it runs before the message that closes it.             *)
THEOREM OrderOfReplies == Spec => []RepliesInOrder
BY OrderInvIsInvariant, PTL DEF OrderInv, BackInv

-----------------------------------------------------------------------------
LEMMA AtMostOne ==
  ASSUME NEW S, \A x, y \in S : x = y
  PROVE  Cardinality(S) <= 1
<1>1. CASE S = {}
  BY <1>1, FS_EmptySet
<1>2. CASE S # {}
  <2>1. PICK x \in S : S = {x}
    BY <1>2
  <2> QED BY <2>1, FS_Singleton
<1> QED
  BY <1>1, <1>2

(* Each kind of place holds a request at most once ...                      *)
LEMMA OncePerKind ==
  ASSUME OrderInv, NEW b \in Block
  PROVE  /\ \A i, j \in InFlight(b) : i = j
         /\ \A i, j \in OnQueue(b) : i = j
         /\ \A i, j \in Closings(b) : i = j
<1>t. /\ b.hdl \in Client /\ b.id \in Nat
      /\ inbox \in [Client -> Seq(Message)] /\ block_queue \in Seq(Block)
      /\ \A i \in DOMAIN outbox[b.hdl] : i \in Nat /\ outbox[b.hdl][i].id \in Nat
  BY BlockFields, StateTypes DEF OrderInv, IInv
<1>1. ASSUME NEW i \in InFlight(b), NEW j \in InFlight(b)
      PROVE  ~(i < j) /\ i \in Nat
  BY <1>t DEF InFlight, IsRequest, IsExecute, OrderInv, FrontInv, InboxInOrder
<1>2. ASSUME NEW i \in OnQueue(b), NEW j \in OnQueue(b)
      PROVE  ~(i < j) /\ i \in Nat
  BY <1>t DEF OnQueue, OrderInv, BackInv, QueueInOrder
<1>3. ASSUME NEW i \in Closings(b), NEW j \in Closings(b)
      PROVE  ~(i < j) /\ i \in Nat
  BY <1>t DEF Closings, Final, OrderInv, BackInv, RepliesInOrder
<1>4. \A i, j \in InFlight(b) : i = j
  BY <1>1
<1>5. \A i, j \in OnQueue(b) : i = j
  BY <1>2
<1>6. \A i, j \in Closings(b) : i = j
  BY <1>3
<1> QED
  BY <1>4, <1>5, <1>6

(* ... and no two kinds hold the same request.                              *)
LEMMA OneKind ==
  ASSUME OrderInv, NEW b \in Block
  PROVE  /\ InHand(b) => InFlight(b) = {}
         /\ InHand(b) \/ InFlight(b) # {} =>
              OnQueue(b) = {} /\ Closings(b) = {} /\ block # b /\ b \notin discarded
         /\ OnQueue(b) # {} => Closings(b) = {} /\ block # b /\ b \notin discarded
         /\ block = b => Closings(b) = {} /\ b \notin discarded
         /\ b \in discarded => Closings(b) = {}
<1>t. b.hdl \in Client /\ b.id \in Nat /\ b # NoBlock
  BY BlockFields
<1>1. InHand(b) <=> HandHolds(b.hdl, b.id)
  BY DEF InHand, HandHolds
<1>2. InHand(b) => InFlight(b) = {}
  BY <1>1, <1>t DEF InFlight, IsRequest, IsExecute, OrderInv, FrontInv, HandBeforeInbox
<1>3. InHand(b) \/ InFlight(b) # {} => b.id \in Coming(b.hdl)
  BY <1>1, <1>t DEF Coming, InFlight
<1>4. OnQueue(b) # {} \/ b \in discarded \/ block = b \/ Closings(b) # {}
        => b.id \in Past(b.hdl)
  BY <1>t DEF Past, OnQueue, Queued, Closings
<1>5. ~(b.id \in Coming(b.hdl) /\ b.id \in Past(b.hdl))
  BY <1>t DEF OrderInv, LinkInv, ComingIsLast
<1>6. OnQueue(b) # {} => b \in Queued
  BY DEF OnQueue, Queued
<1>7. OnQueue(b) # {} => Closings(b) = {} /\ block # b /\ b \notin discarded
  BY <1>6, <1>t DEF OrderInv, BackInv, QueueAfterReplies, Closings
<1>8. block = b => Closings(b) = {} /\ b \notin discarded
  BY <1>t DEF OrderInv, BackInv, BlockAfterReplies, Closings, Final
<1>9. b \in discarded => Closings(b) = {}
  BY DEF OrderInv, BackInv, DiscardedIsUnanswered, Answered
<1> QED
  BY <1>2, <1>3, <1>4, <1>5, <1>7, <1>8, <1>9

LEMMA OrderGivesOnePlace == OrderInv => EveryRequestInOnePlace
<1> SUFFICES ASSUME OrderInv, NEW b \in Block
             PROVE  /\ Cardinality(Places(b)) <= 1
                    /\ b.id <= sent[b.hdl] /\ socket[b.hdl] = "open" => Places(b) # {}
  BY DEF EveryRequestInOnePlace
<1>1. \A x, y \in Places(b) : x = y
  <2> DEFINE flight == {"in flight"} \X InFlight(b)
             queue  == {"queue"} \X OnQueue(b)
             closed == {"answered"} \X Closings(b)
             hand   == IF InHand(b) THEN {<<"in hand", 1>>} ELSE {}
             run    == IF block = b THEN {<<"running", 1>>} ELSE {}
             gone   == IF b \in discarded THEN {<<"discarded", 1>>} ELSE {}
  <2>1. /\ \A x, y \in flight : x = y
        /\ \A x, y \in queue : x = y
        /\ \A x, y \in closed : x = y
    <3>1. ASSUME NEW S, NEW a, \A i, j \in S : i = j
          PROVE  \A x, y \in {a} \X S : x = y
      BY <3>1
    <3> QED BY <3>1, OncePerKind
  <2>2. /\ \A x, y \in hand : x = y
        /\ \A x, y \in run : x = y
        /\ \A x, y \in gone : x = y
    OBVIOUS
  <2>3. /\ hand = {} \/ (flight = {} /\ queue = {} /\ closed = {} /\ run = {} /\ gone = {})
        /\ flight = {} \/ (queue = {} /\ closed = {} /\ run = {} /\ gone = {})
        /\ queue = {} \/ (closed = {} /\ run = {} /\ gone = {})
        /\ run = {} \/ (closed = {} /\ gone = {})
        /\ gone = {} \/ closed = {}
    BY OneKind
  <2>4. Places(b) = flight \cup queue \cup closed \cup hand \cup run \cup gone
    BY DEF Places
  <2> HIDE DEF flight, queue, closed, hand, run, gone
  <2> QED BY <2>1, <2>2, <2>3, <2>4
<1>2. ASSUME b.id <= sent[b.hdl], socket[b.hdl] = "open"
      PROVE  Places(b) # {}
  <2>1. b.id \in Coming(b.hdl) \/ b \in Queued \cup discarded \cup Answered \cup {block}
    BY <1>2 DEF OrderInv, LinkInv, NothingIsLost
  <2>2. CASE InHand(b)
    <3>1. <<"in hand", 1>> \in Places(b)
      BY <2>2 DEF Places
    <3> QED BY <3>1
  <2>3. ASSUME NEW i \in InFlight(b) PROVE Places(b) # {}
    <3>1. <<"in flight", i>> \in Places(b)
      BY DEF Places
    <3> QED BY <3>1
  <2>4. ASSUME NEW i \in OnQueue(b) PROVE Places(b) # {}
    <3>1. <<"queue", i>> \in Places(b)
      BY DEF Places
    <3> QED BY <3>1
  <2>5. ASSUME NEW i \in Closings(b) PROVE Places(b) # {}
    <3>1. <<"answered", i>> \in Places(b)
      BY DEF Places
    <3> QED BY <3>1
  <2>6. CASE b = block
    <3>1. <<"running", 1>> \in Places(b)
      BY <2>6 DEF Places
    <3> QED BY <3>1
  <2>7. CASE b \in discarded
    <3>1. <<"discarded", 1>> \in Places(b)
      BY <2>7 DEF Places
    <3> QED BY <3>1
  <2>8. CASE b.id \in Coming(b.hdl)
    <3>1. InHand(b) \/ InFlight(b) # {}
      BY <2>8 DEF Coming, HandHolds, InHand, InFlight
    <3> QED BY <3>1, <2>2, <2>3
  <2>9. CASE b \in Queued
    <3>1. OnQueue(b) # {}
      BY <2>9 DEF Queued, OnQueue
    <3> QED BY <3>1, <2>4
  <2>10. CASE b \in Answered
    BY <2>5, <2>10 DEF Answered
  <2> QED BY <2>1, <2>6, <2>7, <2>8, <2>9, <2>10
<1> QED
  BY <1>1, <1>2, AtMostOne

(* No request is lost while its connection is open, and none is run or      *)
(* answered twice, or both discarded and run, whatever interrupts,          *)
(* failures, exits and disconnections happen.                               *)
THEOREM OnePlaceForEveryRequest == Spec => []EveryRequestInOnePlace
BY OrderInvIsInvariant, OrderGivesOnePlace, PTL

-----------------------------------------------------------------------------
(* What catchOut holds is of the running block or of a block that failed,   *)
(* and was not delivered before.                                            *)
OutputInv ==
  /\ \A b \in catchOut : b = block \/ Failed(b)
  /\ \A c \in Client : \A i \in DOMAIN outbox[c] :
       /\ outbox[c][i].text # {} => outbox[c][i].type = "output"
       /\ outbox[c][i].text \cap catchOut = {}
  /\ OutputIsOwnOrOfAFailedBlock

LEMMA InitOutput == Init => OutputInv
BY DEF Init, OutputInv, OutputIsOwnOrOfAFailedBlock

(* A message more, which is an output only if it takes what catchOut holds. *)
LEMMA OutputAfterReply ==
  ASSUME OrderInv, OutputInv, block # NoBlock,
         NEW c \in Client, c = block.hdl,
         NEW m \in Reply, m.id = block.id,
         outbox' = [outbox EXCEPT ![c] = Append(@, m)],
         \/ /\ m.type = "output" /\ m.text = catchOut
            /\ catchOut' = {} /\ block' = NoBlock
         \/ /\ m.type = "latex_view" /\ m.text = {}
            /\ catchOut' = catchOut /\ block' = block
         \/ /\ m.type \in {"error", "fault"} /\ m.text = {}
            /\ catchOut' = catchOut /\ block' = NoBlock
  PROVE  OutputInv'
<1> DEFINE k == Len(outbox[c]) + 1
<1>1. /\ \A d \in Client \ {c} : outbox'[d] = outbox[d]
      /\ DOMAIN outbox'[c] = DOMAIN outbox[c] \cup {k}
      /\ \A i \in DOMAIN outbox[c] : i \in Nat /\ i < k /\ outbox'[c][i] = outbox[c][i]
      /\ outbox'[c][k] = m /\ k \in Nat
  <2>1. TypeOK
    BY DEF OrderInv, IInv
  <2>2. outbox' = [outbox EXCEPT ![c] = Append(@, m)]
    OBVIOUS
  <2>3. /\ \A d \in Client \ {c} : outbox'[d] = outbox[d]
        /\ DOMAIN outbox'[c] = DOMAIN outbox[c] \cup {k}
        /\ \A i \in DOMAIN outbox[c] : i \in Nat /\ i < k /\ outbox'[c][i] = outbox[c][i]
        /\ outbox'[c][k] = m /\ k \in Nat
        /\ \A b \in Block : b \in Answered' <=>
             b \in Answered \/ (b.hdl = c /\ b.id = m.id /\ m.type \in Final)
    BY ONLY <2>1, <2>2, c \in Client, m \in Reply, AnsweredAfterReply, Zenon
  <2> QED BY <2>3
<1> HIDE DEF k
<1>t. /\ block \in Block /\ catchOut \subseteq Block
      /\ \A b \in Block : /\ b.id \in Nat /\ b.hdl \in Client /\ b # NoBlock
                          /\ b = [hdl |-> b.hdl, id |-> b.id]
  BY StateTypes DEF OrderInv, IInv, TypeOK
<1>2. \A d \in Client : \A i \in DOMAIN outbox[d] :
        i \in DOMAIN outbox'[d] /\ outbox'[d][i] = outbox[d][i]
  BY <1>1
<1>3. \A d \in Client : \A i \in DOMAIN outbox'[d] :
        \/ i \in DOMAIN outbox[d] /\ outbox'[d][i] = outbox[d][i]
        \/ d = c /\ i = k /\ outbox'[d][i] = m
  BY <1>1
<1>4. \A b : b.hdl \in Client /\ Failed(b) => Failed(b)'
  BY <1>2 DEF Failed, Closings
<1>5. \A b : b.hdl = c /\ b.id = m.id /\ m.type \in {"error", "fault"} => Failed(b)'
  BY <1>1 DEF Failed, Closings, Final
<1>6. \A d \in Client : \A i \in DOMAIN outbox[d] : outbox[d][i].text \subseteq Block
  BY StateTypes DEF OrderInv, IInv, Reply
<1>7. \A b \in catchOut : b = block \/ Failed(b)
  BY DEF OutputInv
<1>8. \A d \in Client : \A i \in DOMAIN outbox[d] :
        /\ outbox[d][i].text # {} => outbox[d][i].type = "output"
        /\ outbox[d][i].text \cap catchOut = {}
        /\ \A b \in outbox[d][i].text : b = [hdl |-> d, id |-> outbox[d][i].id] \/ Failed(b)
  BY DEF OutputInv, OutputIsOwnOrOfAFailedBlock
<1>9. \A b \in catchOut' : b = block' \/ Failed(b)'
  BY <1>t, <1>4, <1>5, <1>7
<1>10. \A d \in Client : \A i \in DOMAIN outbox'[d] :
         /\ outbox'[d][i].text # {} => outbox'[d][i].type = "output"
         /\ outbox'[d][i].text \cap catchOut' = {}
  BY <1>3, <1>8
<1>11. \A d \in Client : \A i \in DOMAIN outbox'[d] : \A b \in outbox'[d][i].text :
         b = [hdl |-> d, id |-> outbox'[d][i].id] \/ Failed(b)'
  <2> SUFFICES ASSUME NEW d \in Client, NEW i \in DOMAIN outbox'[d],
                      NEW b \in outbox'[d][i].text
               PROVE  b = [hdl |-> d, id |-> outbox'[d][i].id] \/ Failed(b)'
    OBVIOUS
  <2>1. CASE i \in DOMAIN outbox[d] /\ outbox'[d][i] = outbox[d][i]
    <3>1. b \in Block
      BY <1>6, <2>1
    <3> QED BY <1>4, <1>8, <1>t, <2>1, <3>1
  <2>2. CASE d = c /\ i = k /\ outbox'[d][i] = m
    <3>1. b \in catchOut
      BY <2>2
    <3> QED BY <1>4, <1>7, <1>t, <2>2, <3>1
  <2> QED BY <1>3, <2>1, <2>2
<1>12. \A d, e \in Client : \A i \in DOMAIN outbox'[d], j \in DOMAIN outbox'[e] :
         <<d, i>> # <<e, j>> => outbox'[d][i].text \cap outbox'[e][j].text = {}
  <2>1. \A d, e \in Client : \A i \in DOMAIN outbox[d], j \in DOMAIN outbox[e] :
          <<d, i>> # <<e, j>> => outbox[d][i].text \cap outbox[e][j].text = {}
    BY DEF OutputInv, OutputIsOwnOrOfAFailedBlock
  <2>2. m.text \subseteq catchOut
    OBVIOUS
  <2> QED BY <1>3, <1>8, <2>1, <2>2
<1>13. OutputIsOwnOrOfAFailedBlock'
  BY ONLY <1>11, <1>12 DEF OutputIsOwnOrOfAFailedBlock
<1> QED
  BY ONLY <1>9, <1>10, <1>13 DEF OutputInv

LEMMA OutputStep ==
  ASSUME OrderInv, OutputInv, [Next]_vars
  PROVE  OutputInv'
<1>t. /\ catchOut \subseteq Block /\ NoBlock \notin Block
      /\ \A b \in Block : b.id \in Nat /\ b.hdl \in Client /\ b # NoBlock
  BY StateTypes, NoBlockIsNoBlock DEF OrderInv, IInv, TypeOK
<1>q. ASSUME UNCHANGED <<outbox, catchOut>>, block' = block \/ block = NoBlock
      PROVE  OutputInv'
  BY <1>q, <1>t DEF OutputInv, OutputIsOwnOrOfAFailedBlock, Failed, Closings
<1>1. ASSUME NEW c \in Client,
             Environment(c) \/ on_open(c) \/ on_close(c) \/ on_message(c)
      PROVE  OutputInv'
  BY <1>1, <1>q DEF Environment, SendRequest, SendControl, ClientSends, Drop,
     on_open, on_close, on_message, runVars
<1>2. CASE dispatch_lock \/ dispatch_execute_request \/ dispatch_stop \/ dispatch_exit
  BY <1>2, <1>q DEF dispatch_lock, dispatch_execute_request, dispatch_stop,
     dispatch_exit, runVars
<1>3. CASE runner_pop
  <2>1. block = NoBlock
    BY <1>3 DEF OrderInv, IInv, RunnerHasBlockInHand, runner_pop, RunnerMoves
  <2> QED BY <1>3, <1>q, <2>1 DEF runner_pop
<1>4. CASE runner_lock \/ runner_wait \/ runner_spurious_wakeup
           \/ run_string_preparse \/ run_string_ends \/ run_string_interrupted
           \/ catch_runtime_error \/ catch_exception
  BY <1>4, <1>q DEF runner_lock, runner_wait, runner_spurious_wakeup,
     run_string_preparse, run_string_ends, run_string_interrupted,
     catch_runtime_error, catch_exception, runner_clear
<1>b. block # NoBlock => block \in Block /\ block.hdl \in Client /\ block.id \in Nat
  BY BlockFields DEF OrderInv, IInv, TypeOK
<1>5. CASE run_string_print
  <2>1. /\ catchOut' = catchOut \cup {block} /\ UNCHANGED <<block, outbox>>
        /\ block # NoBlock
    BY <1>5 DEF run_string_print, RunnerMoves, OrderInv, IInv, RunnerHasBlockInHand
  <2>2. ~Failed(block) /\ \A i \in DOMAIN outbox[block.hdl] :
           outbox[block.hdl][i].id = block.id => outbox[block.hdl][i].type = "latex_view"
    <3>1. \A i \in DOMAIN outbox[block.hdl] :
            \/ outbox[block.hdl][i].id < block.id
            \/ outbox[block.hdl][i].id = block.id /\ outbox[block.hdl][i].type = "latex_view"
      BY <2>1 DEF OrderInv, BackInv, BlockAfterReplies
    <3>2. \A i \in DOMAIN outbox[block.hdl] : outbox[block.hdl][i].id \in Nat
      BY <1>b, <2>1, StateTypes DEF OrderInv, IInv
    <3>3. \A i \in DOMAIN outbox[block.hdl] :
            outbox[block.hdl][i].id = block.id => outbox[block.hdl][i].type = "latex_view"
      BY <1>b, <2>1, <3>1, <3>2
    <3> QED BY <3>3 DEF Failed, Closings, Final
  <2>3. ASSUME NEW c \in Client, NEW i \in DOMAIN outbox[c]
        PROVE  block \notin outbox[c][i].text
    <3>1. SUFFICES ASSUME block \in outbox[c][i].text PROVE FALSE
      OBVIOUS
    <3>2. block = [hdl |-> c, id |-> outbox[c][i].id] /\ outbox[c][i].type = "output"
      BY <2>2, <3>1 DEF OutputInv, OutputIsOwnOrOfAFailedBlock
    <3>3. block.hdl = c /\ block.id = outbox[c][i].id
      BY <3>2
    <3> QED BY <2>2, <3>2, <3>3
  <2>4. \A b : Failed(b)' <=> Failed(b)
    BY <2>1 DEF Failed, Closings
  <2> QED BY <2>1, <2>3, <2>4 DEF OutputInv, OutputIsOwnOrOfAFailedBlock
<1>6. CASE run_string_send
  <2>1. block # NoBlock /\ current_hdl = block.hdl /\ current_id = block.id
    BY <1>6 DEF OrderInv, IInv, RunnerHasBlockInHand, SendsForTheRunningBlock,
       run_string_send
  <2>2. UNCHANGED <<block, catchOut>>
    BY <1>6 DEF run_string_send
  <2>3. CASE outbox' = outbox
    BY <1>q, <2>2, <2>3
  <2>4. CASE outbox' # outbox
    <3> DEFINE m == [type |-> "latex_view", id |-> block.id, text |-> {}]
    <3>1. outbox' = [outbox EXCEPT ![block.hdl] = Append(@, m)]
      BY <1>6, <2>1, <2>4 DEF run_string_send
    <3>2. m \in Reply /\ m.id = block.id /\ m.type = "latex_view" /\ m.text = {}
      BY <1>b, <2>1 DEF Reply
    <3> HIDE DEF m
    <3>3. PICK r \in Reply : r = m
      BY <3>2
    <3>4. PICK c \in Client : c = block.hdl
      BY <1>b, <2>1
    <3> QED BY <2>1, <2>2, <3>1, <3>2, <3>3, <3>4, OutputAfterReply
  <2> QED BY <2>3, <2>4
<1>7. CASE on_block_finished
  <2>1. block # NoBlock /\ current_hdl = block.hdl /\ current_id = block.id
    BY <1>7 DEF OrderInv, IInv, RunnerHasBlockInHand, SendsForTheRunningBlock,
       on_block_finished
  <2>2. CASE UNCHANGED <<outbox, block>>
    <3>1. catchOut' = {}
      BY <1>7 DEF on_block_finished
    <3> QED BY <2>2, <3>1 DEF OutputInv, OutputIsOwnOrOfAFailedBlock, Failed, Closings
  <2>3. CASE ~UNCHANGED <<outbox, block>>
    <3> DEFINE m == [type |-> "output", id |-> block.id, text |-> catchOut]
    <3>1. /\ outbox' = [outbox EXCEPT ![block.hdl] = Append(@, m)]
          /\ block' = NoBlock /\ catchOut' = {}
      BY <1>7, <2>1, <2>3 DEF on_block_finished
    <3>2. m \in Reply /\ m.id = block.id /\ m.type = "output" /\ m.text = catchOut
      BY <1>b, <1>t, <2>1 DEF Reply, Final
    <3> HIDE DEF m
    <3>3. PICK r \in Reply : r = m
      BY <3>2
    <3>4. PICK c \in Client : c = block.hdl
      BY <1>b, <2>1
    <3> QED BY <2>1, <3>1, <3>2, <3>3, <3>4, OutputAfterReply
  <2> QED BY <2>2, <2>3
<1>8. ASSUME NEW from \in {"error", "fault"}, report(from)
      PROVE  OutputInv'
  <2>1. block # NoBlock
    BY <1>8 DEF OrderInv, IInv, RunnerHasBlockInHand, report
  <2>2. CASE UNCHANGED <<outbox, block>>
    BY <1>8, <1>q, <2>2 DEF report
  <2>3. CASE ~UNCHANGED <<outbox, block>>
    <3> DEFINE m == [type |-> from, id |-> block.id, text |-> {}]
    <3>1. /\ outbox' = [outbox EXCEPT ![block.hdl] = Append(@, m)]
          /\ block' = NoBlock /\ catchOut' = catchOut
      BY <1>8, <2>3 DEF report
    <3>2. m \in Reply /\ m.id = block.id /\ m.type = from /\ m.text = {}
      BY <1>b, <2>1 DEF Reply, Final
    <3> HIDE DEF m
    <3>3. PICK r \in Reply : r = m
      BY <3>2
    <3>4. PICK c \in Client : c = block.hdl
      BY <1>b, <2>1
    <3> QED BY <2>1, <3>1, <3>2, <3>3, <3>4, OutputAfterReply
  <2> QED BY <2>2, <2>3
<1>9. CASE UNCHANGED vars
  BY <1>9, <1>q DEF vars, runVars
<1> QED
  BY <1>1, <1>2, <1>3, <1>4, <1>5, <1>6, <1>7, <1>8, <1>9
     DEF Next, MainLoop, Runner, RunnerCode, UserCode, on_block_error, on_kernel_fault

(* An output message holds only text of its own block and of blocks that    *)
(* failed before it, and no text is delivered twice.                        *)
THEOREM OutputIsNotMixed == Spec => []OutputIsOwnOrOfAFailedBlock
<1>1. Init => OutputInv
  BY InitOutput
<1>2. OrderInv /\ OutputInv /\ [Next]_vars => OutputInv'
  BY OutputStep
<1>3. OutputInv => OutputIsOwnOrOfAFailedBlock
  BY DEF OutputInv
<1> QED
  BY <1>1, <1>2, <1>3, OrderInvIsInvariant, PTL DEF Spec

-----------------------------------------------------------------------------
(* The server as a service: what each step does to the jobs.                *)
LEMMA ServiceStep ==
  ASSUME OrderInv, [Next]_vars
  PROVE  [JobService!Next]_(JobService!vars)
<1> USE DEF JobService!vars
<1>s. JobService!Waiting = Queued
  BY DEF JobService!Waiting, Queued
<1>a. outbox' = outbox => Answered' = Answered
  BY DEF Answered, Closings
<1>t. block # NoBlock => block \in Block /\ block.hdl \in Client /\ block.id \in Nat
  BY BlockFields DEF OrderInv, IInv, TypeOK
<1>q. ASSUME UNCHANGED <<block_queue, block, outbox, discarded, up>>
      PROVE  [JobService!Next]_(JobService!vars)
  BY <1>a, <1>q
<1>d. ASSUME up, up' = FALSE, UNCHANGED <<block_queue, block, outbox, discarded>>
      PROVE  [JobService!Next]_(JobService!vars)
  BY <1>a, <1>d DEF JobService!Next, JobService!Die
<1>c. ASSUME up, block_queue' = <<>>, discarded' = discarded \cup Queued,
             UNCHANGED <<block, outbox, up>>
      PROVE  [JobService!Next]_(JobService!vars)
  BY <1>a, <1>c, <1>s DEF JobService!Next, JobService!CancelWaiting
<1>f. ASSUME up, block # NoBlock, block' = NoBlock, NEW m \in Reply,
             m.id = block.id, m.type \in Final,
             outbox' = [outbox EXCEPT ![block.hdl] = Append(@, m)],
             UNCHANGED <<block_queue, discarded, up>>
      PROVE  [JobService!Next]_(JobService!vars)
  <2>1. PICK c \in Client : c = block.hdl
    BY <1>t, <1>f
  <2>2. outbox' = [outbox EXCEPT ![c] = Append(@, m)] /\ TypeOK
    BY <1>f, <2>1 DEF OrderInv, IInv
  <2>3. \A b \in Block : b \in Answered' <=>
          b \in Answered \/ (b.hdl = c /\ b.id = m.id /\ m.type \in Final)
    <3>1. /\ \A d \in Client \ {c} : outbox'[d] = outbox[d]
          /\ DOMAIN outbox'[c] = DOMAIN outbox[c] \cup {Len(outbox[c]) + 1}
          /\ \A i \in DOMAIN outbox[c] :
               i \in Nat /\ i < Len(outbox[c]) + 1 /\ outbox'[c][i] = outbox[c][i]
          /\ outbox'[c][Len(outbox[c]) + 1] = m /\ Len(outbox[c]) + 1 \in Nat
          /\ \A b \in Block : b \in Answered' <=>
               b \in Answered \/ (b.hdl = c /\ b.id = m.id /\ m.type \in Final)
      BY ONLY <2>2, c \in Client, m \in Reply, AnsweredAfterReply, Zenon
    <3> QED BY <3>1
  <2>4. \A b \in Block : b.hdl = c /\ b.id = m.id <=> b = block
    BY <1>f, <1>t, <2>1, BlockFields
  <2>5. Answered \subseteq Block /\ Answered' \subseteq Block
    BY DEF Answered
  <2>6. Answered' = Answered \cup {block}
    BY <1>f, <1>t, <2>3, <2>4, <2>5
  <2> QED BY <1>f, <2>6 DEF JobService!Next, JobService!Finish
<1>1. ASSUME NEW c \in Client,
             Environment(c) \/ on_open(c) \/ on_close(c) \/ on_message(c)
      PROVE  [JobService!Next]_(JobService!vars)
  BY <1>1, <1>q DEF Environment, SendRequest, SendControl, ClientSends, Drop,
     on_open, on_close, on_message, runVars
<1>2. CASE dispatch_lock
  BY <1>2, <1>q DEF dispatch_lock, runVars
<1>3. CASE dispatch_execute_request
  <2>1. PICK b \in Block : /\ block_queue' = Append(block_queue, b)
                           /\ b \notin Settled
    BY <1>3, PushedBlock
  <2>2. up /\ UNCHANGED <<block, outbox, discarded, up>>
    BY <1>3 DEF dispatch_execute_request
  <2>3. JobService!Accept(b)
    BY <1>a, <1>s, <2>1, <2>2 DEF JobService!Accept, Settled
  <2> QED BY <2>3 DEF JobService!Next
<1>4. CASE dispatch_stop
  BY <1>4, <1>c DEF dispatch_stop, clear_queue, runVars
<1>5. CASE dispatch_exit
  BY <1>5, <1>d DEF dispatch_exit, runVars
<1>6. CASE runner_pop
  <2>1. block = NoBlock
    BY <1>6 DEF OrderInv, IInv, RunnerHasBlockInHand, runner_pop, RunnerMoves
  <2> QED
    BY <1>6, <1>a, <2>1 DEF runner_pop, RunnerMoves, JobService!Next, JobService!Start
<1>7. CASE catch_runtime_error \/ catch_exception
  BY <1>7, <1>c DEF catch_runtime_error, catch_exception, runner_clear,
     clear_queue, RunnerMoves
<1>8. CASE runner_lock \/ runner_wait \/ runner_spurious_wakeup
           \/ run_string_preparse \/ run_string_ends \/ run_string_print
           \/ run_string_interrupted
  BY <1>8, <1>q DEF runner_lock, runner_wait, runner_spurious_wakeup,
     run_string_preparse, run_string_ends, run_string_print, run_string_interrupted
<1>9. CASE run_string_send
  <2>1. block # NoBlock /\ current_hdl = block.hdl /\ current_id = block.id
    BY <1>9 DEF OrderInv, IInv, RunnerHasBlockInHand, SendsForTheRunningBlock,
       run_string_send
  <2>2. UNCHANGED <<block_queue, block, discarded, up>>
    BY <1>9 DEF run_string_send
  <2>3. CASE outbox' = outbox
    BY <1>q, <2>2, <2>3
  <2>4. CASE outbox' # outbox
    <3> DEFINE m == [type |-> "latex_view", id |-> block.id, text |-> {}]
    <3>1. outbox' = [outbox EXCEPT ![block.hdl] = Append(@, m)]
      BY <1>9, <2>1, <2>4 DEF run_string_send
    <3>2. m \in Reply /\ m.type \notin Final
      BY <1>t, <2>1 DEF Reply, Final
    <3> HIDE DEF m
    <3>3. PICK c \in Client : c = block.hdl
      BY <1>t, <2>1
    <3>4. outbox' = [outbox EXCEPT ![c] = Append(@, m)] /\ TypeOK
      BY <3>1, <3>3 DEF OrderInv, IInv
    <3>5. /\ \A d \in Client \ {c} : outbox'[d] = outbox[d]
          /\ DOMAIN outbox'[c] = DOMAIN outbox[c] \cup {Len(outbox[c]) + 1}
          /\ \A i \in DOMAIN outbox[c] :
               i \in Nat /\ i < Len(outbox[c]) + 1 /\ outbox'[c][i] = outbox[c][i]
          /\ outbox'[c][Len(outbox[c]) + 1] = m /\ Len(outbox[c]) + 1 \in Nat
          /\ \A b \in Block : b \in Answered' <=>
               b \in Answered \/ (b.hdl = c /\ b.id = m.id /\ m.type \in Final)
      BY ONLY <3>2, <3>4, c \in Client, AnsweredAfterReply, Zenon
    <3>6. Answered \subseteq Block /\ Answered' \subseteq Block
      BY DEF Answered
    <3>7. Answered' = Answered
      BY <3>2, <3>5, <3>6
    <3> QED BY <2>2, <3>7
  <2> QED BY <2>3, <2>4
<1>10. CASE on_block_finished
  <2>1. /\ block # NoBlock /\ current_hdl = block.hdl /\ current_id = block.id
        /\ up /\ UNCHANGED <<block_queue, discarded, up>>
    BY <1>10 DEF OrderInv, IInv, RunnerHasBlockInHand, SendsForTheRunningBlock,
       on_block_finished
  <2>2. CASE UNCHANGED <<outbox, block>>
    BY <1>q, <2>1, <2>2
  <2>3. CASE ~UNCHANGED <<outbox, block>>
    <3> DEFINE m == [type |-> "output", id |-> block.id, text |-> catchOut]
    <3>1. /\ outbox' = [outbox EXCEPT ![block.hdl] = Append(@, m)]
          /\ block' = NoBlock
      BY <1>10, <2>1, <2>3 DEF on_block_finished
    <3>2. m \in Reply /\ m.id = block.id /\ m.type \in Final
      BY <1>t, <2>1 DEF Reply, Final, OrderInv, IInv, TypeOK
    <3> HIDE DEF m
    <3>3. PICK r \in Reply : r = m
      BY <3>2
    <3> QED BY <1>f, <2>1, <3>1, <3>2, <3>3
  <2> QED BY <2>2, <2>3
<1>11. ASSUME NEW from \in {"error", "fault"}, report(from)
       PROVE  [JobService!Next]_(JobService!vars)
  <2>1. block # NoBlock /\ up /\ UNCHANGED <<block_queue, discarded>>
    BY <1>11 DEF OrderInv, IInv, RunnerHasBlockInHand, report
  <2>2. CASE socket[block.hdl] = "open"
    <3> DEFINE m == [type |-> from, id |-> block.id, text |-> {}]
    <3>1. /\ outbox' = [outbox EXCEPT ![block.hdl] = Append(@, m)]
          /\ block' = NoBlock /\ UNCHANGED up
      BY <1>11, <2>2 DEF report
    <3>2. m \in Reply /\ m.id = block.id /\ m.type \in Final
      BY <1>t, <2>1 DEF Reply, Final
    <3> HIDE DEF m
    <3>3. PICK r \in Reply : r = m
      BY <3>2
    <3> QED BY <1>f, <2>1, <3>1, <3>2, <3>3
  <2>3. CASE socket[block.hdl] # "open"
    BY <1>11, <1>d, <2>1, <2>3 DEF report
  <2> QED BY <2>2, <2>3
<1>12. CASE UNCHANGED vars
  BY <1>12, <1>q DEF vars, runVars
<1> QED
  BY <1>1, <1>2, <1>3, <1>4, <1>5, <1>6, <1>7, <1>8, <1>9, <1>10, <1>11, <1>12
     DEF Next, MainLoop, Runner, RunnerCode, UserCode, on_block_error, on_kernel_fault

(* The two threads together are a service that runs jobs one at a time, in  *)
(* the order it got them, each at most once, and cancels all that wait or   *)
(* none.                                                                    *)
THEOREM ServerIsAJobService == Spec => ImplementsJobService
<1>1. Init => JobService!Init
  <2> SUFFICES ASSUME Init PROVE JobService!Init
    OBVIOUS
  <2>1. \A b \in Block : outbox[b.hdl] = <<>>
    BY BlockFields DEF Init
  <2>2. Answered = {}
    BY <2>1 DEF Answered, Closings
  <2> QED BY <2>2 DEF Init, JobService!Init
<1>2. OrderInv /\ [Next]_vars => [JobService!Next]_(JobService!vars)
  BY ServiceStep
<1> QED
  BY <1>1, <1>2, OrderInvIsInvariant, PTL DEF Spec, ImplementsJobService, JobService!Spec
=============================================================================
