--------------------------- MODULE NotebookProofs ---------------------------
(***************************************************************************)
(* Proofs about the notebook client for a user who acts when the GUI is up *)
(* to date (UserWaits): a cell is with the server at most once, replies    *)
(* find their cell, no cell is stuck as running, and output is that of the *)
(* last run.                                                               *)
(***************************************************************************)
EXTENDS Notebook, FiniteSetTheorems, TLAPS

Request == [type : {"execute_request"}, job : Job]
             \cup [type : {"execute_interrupt", "exit"}, job : {NoJob}]

Bounds == [runs : [InputCell -> Nat], stops : Nat, restarts : Nat,
           deletes : Nat, faults : Nat]

Executing == gui_pc \in {"register", "send"}

Types ==
  /\ cells \subseteq InputCell
  /\ is_running \in [InputCell -> BOOLEAN]
  /\ outputs \in [InputCell -> SUBSET Output]
  /\ \A c \in InputCell : IsFiniteSet(outputs[c])
  /\ pending_actions \in Seq(Action)
  /\ wake \in BOOLEAN
  /\ gui_pc \in {"idle", "register", "send", "processing", "dialog"}
  /\ gui_cell \in InputCell \cup {NoCell}
  /\ Executing => gui_cell \in InputCell
  /\ running_cells \subseteq InputCell /\ IsFiniteSet(running_cells)
  /\ cmp_msg \in Reply \cup {NoReply}
  /\ srv_queue \in Seq(Job) /\ srv_running \in Job \cup {NoJob}
  /\ to_server \in Seq(Request) /\ to_client \in Seq(Reply)
  /\ used \in Bounds

-----------------------------------------------------------------------------
(* Where a job is: sent, waiting, running, answered; and all that the       *)
(* server has told about and the compute thread has not read.               *)
Closes(m) == m.type \in {"output", "error"}
JobsIn(s)   == {s[i].job : i \in DOMAIN s} \ {NoJob}
Answered(s) == {s[i].job : i \in {k \in DOMAIN s : Closes(s[k])}}

Sent    == JobsIn(to_server)
Waiting == ToSet(srv_queue)
Runs    == {srv_running} \ {NoJob}
Closed  == Answered(to_client)
Told    == JobsIn(to_client)

Apart(jobs, others) == \A a \in jobs, b \in others : a.cell # b.cell

OneStage == /\ Apart(Sent, Waiting) /\ Apart(Sent, Runs) /\ Apart(Sent, Closed)
            /\ Apart(Waiting, Runs) /\ Apart(Waiting, Closed)
            /\ Apart(Runs, Closed)

SentOnce(s) == \A i, k \in DOMAIN s :
  i < k /\ s[i].job # NoJob => s[i].job.cell # s[k].job.cell
WaitsOnce(q) == \A i, k \in DOMAIN q : i < k => q[i].cell # q[k].cell
ClosedLast(s) == \A i, k \in DOMAIN s :
  i < k /\ Closes(s[i]) => s[i].job.cell # s[k].job.cell

Stages == /\ OneStage /\ SentOnce(to_server) /\ WaitsOnce(srv_queue)
          /\ ClosedLast(to_client)

AllJobs == Sent \cup Waiting \cup Runs \cup Told

Registered ==
  \A j \in AllJobs : j.cell \in running_cells /\ j.run = used.runs[j.cell]

ExecutedIsFree == Executing => \A j \in AllJobs : j.cell # gui_cell

NothingGoesOn == /\ to_server = <<>> /\ srv_queue = <<>> /\ srv_running = NoJob
                 /\ to_client = <<>> /\ cmp_msg = NoReply

Disconnected ==
  /\ client_up /\ srv = 0 =>
       to_server = <<>> /\ srv_queue = <<>> /\ srv_running = NoJob
  /\ conn = "connecting" =>
       /\ ~connection_is_open /\ NothingGoesOn
       /\ Executing => srv = 0
  /\ kernel_string = "not connected" => conn = "connecting"
  /\ gui_pc = "dialog" => NothingGoesOn

LineInv == Stages /\ Registered /\ ExecutedIsFree /\ Disconnected

-----------------------------------------------------------------------------
(* What the queued actions will make of is_running.                         *)
Queued == ToSet(pending_actions)
Starts(c) == SetRunStatus(c, TRUE)
Ends(c)   == SetRunStatus(c, FALSE)

EndsLast(p) == \A c \in InputCell : \A i, k \in DOMAIN p :
  i < k /\ p[i] = Ends(c) => p[k] # Ends(c) /\ p[k] # Starts(c)

StatusInv ==
  /\ \A c \in running_cells :
       /\ Ends(c) \notin Queued
       /\ is_running[c] \/ Starts(c) \in Queued
            \/ (gui_pc = "send" /\ gui_cell = c)
  /\ \A c \in InputCell :
       /\ Ends(c) \in Queued => is_running[c] \/ Starts(c) \in Queued
       /\ is_running[c] \/ Starts(c) \in Queued =>
            c \in running_cells \/ Ends(c) \in Queued
       /\ Starts(c) \in Queued =>
            gui_pc = "processing" \/ (wake /\ gui_pc = "idle")
  /\ EndsLast(pending_actions)
  /\ gui_pc = "register" =>
       gui_cell \notin running_cells /\ Ends(gui_cell) \notin Queued
  /\ gui_pc = "send" => gui_cell \in running_cells

(* What they will make of the output.                                       *)
OutputInv ==
  /\ cmp_msg # NoReply => cmp_msg.job.run = used.runs[cmp_msg.job.cell]
  /\ \A a \in Queued : a.act = "AddCell" =>
       /\ a.arg.run = used.runs[a.cell]
       /\ wake \/ gui_pc = "processing"
       /\ gui_pc # "dialog"
  /\ \A c \in InputCell : \A o \in outputs[c] :
       o.run # used.runs[c] => RemoveOutput(c, o) \in Queued

IInv == /\ Types /\ LineInv
        /\ corrupt = "no" => StatusInv /\ OutputInv
        /\ NoCellIsStuck

-----------------------------------------------------------------------------
(* Sequences.                                                               *)
LEMMA OneMore ==
  ASSUME NEW S, NEW s \in Seq(S), NEW e \in S
  PROVE  /\ Append(s, e) \in Seq(S)
         /\ DOMAIN Append(s, e) = DOMAIN s \cup {Len(s) + 1}
         /\ Append(s, e)[Len(s) + 1] = e
         /\ \A i \in DOMAIN s : Append(s, e)[i] = s[i]
         /\ \A i \in DOMAIN s : i \in Nat /\ s[i] \in S /\ i < Len(s) + 1
         /\ Len(s) \in Nat
OBVIOUS

LEMMA OneLess ==
  ASSUME NEW S, NEW s \in Seq(S), s # <<>>
  PROVE  /\ Tail(s) \in Seq(S)
         /\ Head(s) \in S /\ Head(s) = s[1] /\ 1 \in DOMAIN s
         /\ \A i \in DOMAIN Tail(s) :
              /\ i \in Nat /\ 1 < i + 1 /\ i + 1 \in DOMAIN s
              /\ Tail(s)[i] = s[i + 1]
OBVIOUS

LEMMA SendJob ==
  ASSUME NEW s \in Seq(Request), NEW m \in Request
  PROVE  /\ Append(s, m) \in Seq(Request)
         /\ JobsIn(Append(s, m)) = JobsIn(s) \cup ({m.job} \ {NoJob})
         /\ SentOnce(s) /\ (\A j \in JobsIn(s) : j.cell # m.job.cell)
              => SentOnce(Append(s, m))
<1> DEFINE t == Append(s, m)
<1>1. /\ t \in Seq(Request)
      /\ DOMAIN t = DOMAIN s \cup {Len(s) + 1}
      /\ t[Len(s) + 1] = m
      /\ \A i \in DOMAIN s : t[i] = s[i]
      /\ \A i \in DOMAIN s : i \in Nat /\ s[i] \in Request /\ i < Len(s) + 1
      /\ Len(s) \in Nat
  BY OneMore
<1> HIDE DEF t
<1>2. JobsIn(t) = JobsIn(s) \cup ({m.job} \ {NoJob})
  BY <1>1 DEF JobsIn
<1>3. ASSUME SentOnce(s), \A j \in JobsIn(s) : j.cell # m.job.cell
      PROVE  SentOnce(t)
  <2> SUFFICES ASSUME NEW i \in DOMAIN t, NEW k \in DOMAIN t, i < k, t[i].job # NoJob
               PROVE  t[i].job.cell # t[k].job.cell
    BY DEF SentOnce
  <2>1. i \in DOMAIN s
    BY <1>1
  <2>2. CASE k \in DOMAIN s
    BY <1>1, <1>3, <2>1, <2>2 DEF SentOnce
  <2>3. CASE k = Len(s) + 1
    <3>1. t[i].job \in JobsIn(s)
      BY <1>1, <2>1 DEF JobsIn
    <3> QED
      BY <1>1, <1>3, <2>3, <3>1
  <2> QED
    BY <1>1, <2>2, <2>3
<1> QED
  BY <1>1, <1>2, <1>3 DEF t

LEMMA TakeJob ==
  ASSUME NEW s \in Seq(Request), s # <<>>
  PROVE  /\ Tail(s) \in Seq(Request) /\ Head(s) \in Request
         /\ JobsIn(Tail(s)) \subseteq JobsIn(s)
         /\ Head(s).job # NoJob => Head(s).job \in JobsIn(s)
         /\ SentOnce(s) => SentOnce(Tail(s))
         /\ SentOnce(s) /\ Head(s).job # NoJob =>
              \A j \in JobsIn(Tail(s)) : j.cell # Head(s).job.cell
<1> DEFINE t == Tail(s)
           h == Head(s)
<1>1. /\ t \in Seq(Request)
      /\ h \in Request /\ h = s[1] /\ 1 \in DOMAIN s
      /\ \A i \in DOMAIN t :
           /\ i \in Nat /\ 1 < i + 1 /\ i + 1 \in DOMAIN s
           /\ t[i] = s[i + 1]
  BY OneLess
<1> HIDE DEF t, h
<1>2. JobsIn(t) \subseteq JobsIn(s)
  BY <1>1 DEF JobsIn
<1>3. h.job # NoJob => h.job \in JobsIn(s)
  BY <1>1 DEF JobsIn
<1>4. ASSUME SentOnce(s) PROVE SentOnce(t)
  <2> SUFFICES ASSUME NEW i \in DOMAIN t, NEW k \in DOMAIN t, i < k, t[i].job # NoJob
               PROVE  t[i].job.cell # t[k].job.cell
    BY DEF SentOnce
  <2>1. i + 1 < k + 1
    BY <1>1
  <2> QED
    BY <1>1, <1>4, <2>1 DEF SentOnce
<1>5. ASSUME SentOnce(s), h.job # NoJob, NEW j \in JobsIn(t)
      PROVE  j.cell # h.job.cell
  <2>1. PICK i \in DOMAIN t : j = t[i].job
    BY <1>5 DEF JobsIn
  <2> QED
    BY <1>1, <1>5, <2>1 DEF SentOnce
<1> QED
  BY <1>1, <1>2, <1>3, <1>4, <1>5 DEF t, h

LEMMA QueueJob ==
  ASSUME NEW q \in Seq(Job), NEW j \in Job
  PROVE  /\ Append(q, j) \in Seq(Job)
         /\ ToSet(Append(q, j)) = ToSet(q) \cup {j}
         /\ WaitsOnce(q) /\ (\A a \in ToSet(q) : a.cell # j.cell)
              => WaitsOnce(Append(q, j))
<1> DEFINE t == Append(q, j)
<1>1. /\ t \in Seq(Job)
      /\ DOMAIN t = DOMAIN q \cup {Len(q) + 1}
      /\ t[Len(q) + 1] = j
      /\ \A i \in DOMAIN q : t[i] = q[i]
      /\ \A i \in DOMAIN q : i \in Nat /\ q[i] \in Job /\ i < Len(q) + 1
      /\ Len(q) \in Nat
  BY OneMore
<1> HIDE DEF t
<1>2. ToSet(t) = ToSet(q) \cup {j}
  BY <1>1 DEF ToSet
<1>3. ASSUME WaitsOnce(q), \A a \in ToSet(q) : a.cell # j.cell
      PROVE  WaitsOnce(t)
  BY <1>1, <1>3 DEF WaitsOnce, ToSet
<1> QED
  BY <1>1, <1>2, <1>3 DEF t

LEMMA UnqueueJob ==
  ASSUME NEW q \in Seq(Job), q # <<>>
  PROVE  /\ Tail(q) \in Seq(Job) /\ Head(q) \in Job
         /\ ToSet(Tail(q)) \subseteq ToSet(q)
         /\ Head(q) \in ToSet(q)
         /\ WaitsOnce(q) =>
              /\ WaitsOnce(Tail(q))
              /\ \A a \in ToSet(Tail(q)) : a.cell # Head(q).cell
<1> DEFINE t == Tail(q)
           h == Head(q)
<1>1. /\ t \in Seq(Job)
      /\ h \in Job /\ h = q[1] /\ 1 \in DOMAIN q
      /\ \A i \in DOMAIN t :
           /\ i \in Nat /\ 1 < i + 1 /\ i + 1 \in DOMAIN q
           /\ t[i] = q[i + 1]
  BY OneLess
<1> HIDE DEF t, h
<1>2. ToSet(t) \subseteq ToSet(q) /\ h \in ToSet(q)
  BY <1>1 DEF ToSet
<1>3. ASSUME WaitsOnce(q) PROVE WaitsOnce(t)
  <2> SUFFICES ASSUME NEW i \in DOMAIN t, NEW k \in DOMAIN t, i < k
               PROVE  t[i].cell # t[k].cell
    BY DEF WaitsOnce
  <2>1. i + 1 < k + 1
    BY <1>1
  <2> QED
    BY <1>1, <1>3, <2>1 DEF WaitsOnce
<1>4. ASSUME WaitsOnce(q), NEW a \in ToSet(t)
      PROVE  a.cell # h.cell
  <2>1. PICK i \in DOMAIN t : a = t[i]
    BY <1>4 DEF ToSet
  <2> QED
    BY <1>1, <1>4, <2>1 DEF WaitsOnce
<1> QED
  BY <1>1, <1>2, <1>3, <1>4 DEF t, h

LEMMA AnswerJob ==
  ASSUME NEW s \in Seq(Reply), NEW m \in Reply
  PROVE  /\ Append(s, m) \in Seq(Reply)
         /\ JobsIn(Append(s, m)) = JobsIn(s) \cup ({m.job} \ {NoJob})
         /\ Answered(Append(s, m)) =
              Answered(s) \cup (IF Closes(m) THEN {m.job} ELSE {})
         /\ ClosedLast(s) /\ (\A j \in Answered(s) : j.cell # m.job.cell)
              => ClosedLast(Append(s, m))
<1> DEFINE t == Append(s, m)
<1>1. /\ t \in Seq(Reply)
      /\ DOMAIN t = DOMAIN s \cup {Len(s) + 1}
      /\ t[Len(s) + 1] = m
      /\ \A i \in DOMAIN s : t[i] = s[i]
      /\ \A i \in DOMAIN s : i \in Nat /\ s[i] \in Reply /\ i < Len(s) + 1
      /\ Len(s) \in Nat
  BY OneMore
<1> HIDE DEF t
<1>2. JobsIn(t) = JobsIn(s) \cup ({m.job} \ {NoJob})
  BY <1>1 DEF JobsIn
<1>3. Answered(t) = Answered(s) \cup (IF Closes(m) THEN {m.job} ELSE {})
  BY <1>1 DEF Answered
<1>4. ASSUME ClosedLast(s), \A j \in Answered(s) : j.cell # m.job.cell
      PROVE  ClosedLast(t)
  <2> SUFFICES ASSUME NEW i \in DOMAIN t, NEW k \in DOMAIN t, i < k, Closes(t[i])
               PROVE  t[i].job.cell # t[k].job.cell
    BY DEF ClosedLast
  <2>1. i \in DOMAIN s
    BY <1>1
  <2>2. CASE k \in DOMAIN s
    BY <1>1, <1>4, <2>1, <2>2 DEF ClosedLast
  <2>3. CASE k = Len(s) + 1
    <3>1. t[i].job \in Answered(s)
      BY <1>1, <2>1 DEF Answered
    <3> QED
      BY <1>1, <1>4, <2>3, <3>1
  <2> QED
    BY <1>1, <2>2, <2>3
<1> QED
  BY <1>1, <1>2, <1>3, <1>4 DEF t

LEMMA ReadAnswer ==
  ASSUME NEW s \in Seq(Reply), s # <<>>
  PROVE  /\ Tail(s) \in Seq(Reply) /\ Head(s) \in Reply
         /\ JobsIn(Tail(s)) \subseteq JobsIn(s)
         /\ Head(s).job \in JobsIn(s)
         /\ Answered(Tail(s)) \subseteq Answered(s)
         /\ Closes(Head(s)) => Head(s).job \in Answered(s)
         /\ ClosedLast(s) => ClosedLast(Tail(s))
         /\ ClosedLast(s) /\ Closes(Head(s)) =>
              \A j \in JobsIn(Tail(s)) : j.cell # Head(s).job.cell
<1> DEFINE t == Tail(s)
           h == Head(s)
<1>1. /\ t \in Seq(Reply)
      /\ h \in Reply /\ h = s[1] /\ 1 \in DOMAIN s
      /\ \A i \in DOMAIN t :
           /\ i \in Nat /\ 1 < i + 1 /\ i + 1 \in DOMAIN s
           /\ t[i] = s[i + 1]
  BY OneLess
<1> HIDE DEF t, h
<1>2. JobsIn(t) \subseteq JobsIn(s) /\ Answered(t) \subseteq Answered(s)
  BY <1>1 DEF JobsIn, Answered
<1>3. h.job \in JobsIn(s) /\ (Closes(h) => h.job \in Answered(s))
  <2>1. h.job \in Job /\ h.job # NoJob
    BY <1>1, NotebookBounds DEF Reply, Job, NoJob
  <2> QED
    BY <1>1, <2>1 DEF JobsIn, Answered
<1>4. ASSUME ClosedLast(s) PROVE ClosedLast(t)
  <2> SUFFICES ASSUME NEW i \in DOMAIN t, NEW k \in DOMAIN t, i < k, Closes(t[i])
               PROVE  t[i].job.cell # t[k].job.cell
    BY DEF ClosedLast
  <2>1. i + 1 < k + 1
    BY <1>1
  <2> QED
    BY <1>1, <1>4, <2>1 DEF ClosedLast
<1>5. ASSUME ClosedLast(s), Closes(h), NEW j \in JobsIn(t)
      PROVE  j.cell # h.job.cell
  <2>1. PICK i \in DOMAIN t : j = t[i].job
    BY <1>5 DEF JobsIn
  <2> QED
    BY <1>1, <1>5, <2>1 DEF ClosedLast
<1> QED
  BY <1>1, <1>2, <1>3, <1>4, <1>5 DEF t, h

-----------------------------------------------------------------------------
(* Sequences made of sets, and the queue of actions.                        *)
LEMMA SeqOfSet ==
  ASSUME NEW A, NEW S \in SUBSET A, IsFiniteSet(S)
  PROVE  /\ SetToSeq(S) \in Seq(A)
         /\ ToSet(SetToSeq(S)) = S
         /\ \A i, k \in DOMAIN SetToSeq(S) :
              i # k => SetToSeq(S)[i] # SetToSeq(S)[k]
<1> DEFINE n == Cardinality(S)
           f == SetToSeq(S)
<1>1. n \in Nat /\ \E g \in [1..n -> S] : IsInjective(g)
  BY FS_CardinalityType DEF ExistsBijection, Bijection, Injection
<1>2. f \in [1..n -> S] /\ IsInjective(f)
  BY <1>1 DEF SetToSeq
<1> HIDE DEF f
<1>3. f \in Surjection(1..n, S)
  <2>1. f \in Injection(1..n, S)
    BY <1>2 DEF Injection
  <2>2. Cardinality(1..n) = n
    <3>1. 1 \in Int /\ n \in Int
      BY <1>1
    <3>2. Cardinality(1..n) = IF 1 > n THEN 0 ELSE n - 1 + 1
      BY <3>1, FS_Interval
    <3> QED
      BY <1>1, <3>2
  <2> HIDE DEF n
  <2> QED
    BY <2>1, <2>2, FS_Injection DEF n
<1> HIDE DEF n
<1>4. f \in Seq(A) /\ DOMAIN f = 1..n
  BY <1>1, <1>2
<1>5. ToSet(f) = S
  BY <1>2, <1>3, <1>4 DEF ToSet, Surjection
<1> QED
  BY <1>2, <1>4, <1>5 DEF f, IsInjective

LEMMA FiniteRemovals ==
  ASSUME NEW c, NEW O, IsFiniteSet(O)
  PROVE  IsFiniteSet({RemoveOutput(c, o) : o \in O})
<1> DEFINE T == {RemoveOutput(c, o) : o \in O}
           f == [o \in O |-> RemoveOutput(c, o)]
<1>1. f \in Surjection(O, T)
  BY DEF Surjection
<1> QED
  BY <1>1, FS_Surjection

LEMMA FiniteEnds ==
  ASSUME NEW C, IsFiniteSet(C)
  PROVE  IsFiniteSet({SetRunStatus(c, FALSE) : c \in C})
<1> DEFINE T == {SetRunStatus(c, FALSE) : c \in C}
           f == [c \in C |-> SetRunStatus(c, FALSE)]
<1>1. f \in Surjection(C, T)
  BY DEF Surjection
<1> QED
  BY <1>1, FS_Surjection

LEMMA QueueActions ==
  ASSUME NEW p \in Seq(Action), NEW t \in Seq(Action)
  PROVE  /\ p \o t \in Seq(Action)
         /\ ToSet(p \o t) = ToSet(p) \cup ToSet(t)
         /\ EndsLast(p) /\ EndsLast(t)
              /\ (\A c \in InputCell : Ends(c) \in ToSet(p) =>
                    Ends(c) \notin ToSet(t) /\ Starts(c) \notin ToSet(t))
              => EndsLast(p \o t)
<1> DEFINE q == p \o t
<1>1. /\ q \in Seq(Action) /\ Len(p) \in Nat /\ Len(t) \in Nat
      /\ DOMAIN p = 1..Len(p) /\ DOMAIN t = 1..Len(t)
      /\ DOMAIN q = 1..(Len(p) + Len(t))
  OBVIOUS
<1>2. \A i \in DOMAIN p : q[i] = p[i]
  OBVIOUS
<1>3. \A i \in DOMAIN q : i \notin DOMAIN p =>
        i - Len(p) \in DOMAIN t /\ q[i] = t[i - Len(p)]
  OBVIOUS
<1>4. \A i \in DOMAIN t : i + Len(p) \in DOMAIN q /\ q[i + Len(p)] = t[i]
  OBVIOUS
<1>5. DOMAIN p \subseteq DOMAIN q
  BY <1>1
<1> HIDE DEF q
<1>6. ToSet(q) = ToSet(p) \cup ToSet(t)
  <2>1. ASSUME NEW i \in DOMAIN q PROVE q[i] \in ToSet(p) \cup ToSet(t)
    BY <1>2, <1>3 DEF ToSet
  <2>2. \A i \in DOMAIN p : p[i] \in ToSet(q)
    BY <1>2, <1>5 DEF ToSet
  <2>3. \A i \in DOMAIN t : t[i] \in ToSet(q)
    BY <1>4 DEF ToSet
  <2> QED
    BY <2>1, <2>2, <2>3 DEF ToSet
<1>7. ASSUME EndsLast(p), EndsLast(t),
             \A c \in InputCell : Ends(c) \in ToSet(p) =>
               Ends(c) \notin ToSet(t) /\ Starts(c) \notin ToSet(t)
      PROVE  EndsLast(q)
  <2> SUFFICES ASSUME NEW c \in InputCell, NEW i \in DOMAIN q, NEW k \in DOMAIN q,
                      i < k, q[i] = Ends(c)
               PROVE  q[k] # Ends(c) /\ q[k] # Starts(c)
    BY DEF EndsLast
  <2>1. CASE k \in DOMAIN p
    <3>1. i \in DOMAIN p
      BY <1>1, <2>1
    <3> QED
      BY <1>2, <1>7, <2>1, <3>1 DEF EndsLast
  <2>2. CASE k \notin DOMAIN p /\ i \in DOMAIN p
    <3>1. q[k] \in ToSet(t)
      BY <1>3, <2>2 DEF ToSet
    <3>2. Ends(c) \in ToSet(p)
      BY <1>2, <2>2 DEF ToSet
    <3> QED
      BY <1>7, <3>1, <3>2
  <2>3. CASE k \notin DOMAIN p /\ i \notin DOMAIN p
    <3>1. i - Len(p) < k - Len(p)
      BY <1>1
    <3>2. /\ i - Len(p) \in DOMAIN t /\ k - Len(p) \in DOMAIN t
          /\ q[i] = t[i - Len(p)] /\ q[k] = t[k - Len(p)]
      BY <1>3, <2>3
    <3> HIDE DEF Ends, Starts
    <3> QED
      BY <1>7, <3>1, <3>2 DEF EndsLast
  <2> QED
    BY <2>1, <2>2, <2>3
<1> QED
  BY <1>1, <1>6, <1>7 DEF q

LEMMA QueueAction ==
  ASSUME NEW p \in Seq(Action), NEW a \in Action
  PROVE  /\ Append(p, a) \in Seq(Action)
         /\ ToSet(Append(p, a)) = ToSet(p) \cup {a}
         /\ EndsLast(p)
              /\ (\A c \in InputCell : Ends(c) \in ToSet(p) =>
                    a # Ends(c) /\ a # Starts(c))
              => EndsLast(Append(p, a))
<1>1. Append(p, a) = p \o <<a>> /\ <<a>> \in Seq(Action)
  OBVIOUS
<1>2. ToSet(<<a>>) = {a}
  BY DEF ToSet
<1>3. EndsLast(<<a>>)
  BY DEF EndsLast
<1> HIDE DEF Ends, Starts
<1> QED
  BY <1>1, <1>2, <1>3, QueueActions

LEMMA TakeAction ==
  ASSUME NEW p \in Seq(Action), p # <<>>
  PROVE  /\ Tail(p) \in Seq(Action) /\ Head(p) \in Action
         /\ ToSet(p) = ToSet(Tail(p)) \cup {Head(p)}
         /\ EndsLast(p) =>
              /\ EndsLast(Tail(p))
              /\ \A c \in InputCell : Head(p) = Ends(c) =>
                   Ends(c) \notin ToSet(Tail(p)) /\ Starts(c) \notin ToSet(Tail(p))
<1> DEFINE t == Tail(p)
           h == Head(p)
<1>1. /\ t \in Seq(Action)
      /\ h \in Action /\ h = p[1] /\ 1 \in DOMAIN p
      /\ \A i \in DOMAIN t :
           /\ i \in Nat /\ 1 < i + 1 /\ i + 1 \in DOMAIN p
           /\ t[i] = p[i + 1]
  BY OneLess
<1>2. \A i \in DOMAIN p : i = 1 \/ (i - 1 \in DOMAIN t /\ p[i] = t[i - 1])
  OBVIOUS
<1> HIDE DEF t, h
<1>3. ToSet(p) = ToSet(t) \cup {h}
  <2>1. \A i \in DOMAIN p : p[i] \in ToSet(t) \cup {h}
    BY <1>1, <1>2 DEF ToSet
  <2>2. \A i \in DOMAIN t : t[i] \in ToSet(p)
    BY <1>1 DEF ToSet
  <2>3. h \in ToSet(p)
    BY <1>1 DEF ToSet
  <2> QED
    BY <2>1, <2>2, <2>3 DEF ToSet
<1>4. ASSUME EndsLast(p) PROVE EndsLast(t)
  <2> SUFFICES ASSUME NEW c \in InputCell, NEW i \in DOMAIN t, NEW k \in DOMAIN t,
                      i < k, t[i] = Ends(c)
               PROVE  t[k] # Ends(c) /\ t[k] # Starts(c)
    BY DEF EndsLast
  <2>1. i + 1 < k + 1
    BY <1>1
  <2> HIDE DEF Ends, Starts
  <2> QED
    BY <1>1, <1>4, <2>1 DEF EndsLast
<1>5. ASSUME EndsLast(p), NEW c \in InputCell, h = Ends(c)
      PROVE  Ends(c) \notin ToSet(t) /\ Starts(c) \notin ToSet(t)
  <2>1. \A i \in DOMAIN t : t[i] # Ends(c) /\ t[i] # Starts(c)
    BY <1>1, <1>5 DEF EndsLast
  <2> QED
    BY <2>1 DEF ToSet
<1> QED
  BY <1>1, <1>3, <1>4, <1>5 DEF t, h

-----------------------------------------------------------------------------
(* The jobs move from stage to stage.                                       *)
LEMMA JobsHaveCells ==
  ASSUME Types
  PROVE  /\ NoJob \notin Job /\ NoJob.cell = NoCell
         /\ \A j \in Job : j.cell \in InputCell /\ j.cell # NoCell
         /\ Sent \subseteq Job /\ Waiting \subseteq Job /\ Runs \subseteq Job
         /\ Closed \subseteq Told /\ Told \subseteq Job
<1>1. /\ NoJob \notin Job /\ NoJob.cell = NoCell
      /\ \A j \in Job : j.cell \in InputCell /\ j.cell # NoCell
  BY NotebookBounds DEF Job, NoJob
<1>2. /\ \A i \in DOMAIN to_server : to_server[i] \in Request
      /\ \A i \in DOMAIN srv_queue : srv_queue[i] \in Job
      /\ \A i \in DOMAIN to_client : to_client[i] \in Reply
  BY DEF Types
<1>3. /\ \A m \in Request : m.job \in Job \cup {NoJob}
      /\ \A m \in Reply : m.job \in Job
  BY DEF Request, Reply
<1>4. Sent \subseteq Job
  BY <1>2, <1>3 DEF Sent, JobsIn
<1>5. Waiting \subseteq Job
  BY <1>2 DEF Waiting, ToSet
<1>6. Runs \subseteq Job
  BY DEF Types, Runs
<1>7. Told \subseteq Job /\ Closed \subseteq Told
  BY <1>1, <1>2, <1>3 DEF Told, Closed, JobsIn, Answered
<1> QED
  BY <1>1, <1>4, <1>5, <1>6, <1>7

LEMMA RequestStages ==
  ASSUME Types, LineInv, execute_cell_send \/ stop \/ restart_kernel
  PROVE  /\ to_server' \in Seq(Request)
         /\ Stages'
         /\ execute_cell_send =>
              AllJobs' \subseteq AllJobs
                \cup {[cell |-> gui_cell, run |-> used.runs[gui_cell]]}
         /\ ~execute_cell_send => AllJobs' \subseteq AllJobs
<1> DEFINE job == [cell |-> gui_cell, run |-> used.runs[gui_cell]]
<1>1. PICK m : /\ m \in Request
               /\ Send(m)
               /\ m.job = NoJob \/ (execute_cell_send /\ m.job = job)
               /\ m.job # NoJob => \A j \in AllJobs : j.cell # m.job.cell
  <2>1. CASE execute_cell_send
    <3> DEFINE m == [type |-> "execute_request", job |-> job]
    <3>1. gui_cell \in InputCell /\ used.runs[gui_cell] \in Nat
      BY <2>1 DEF execute_cell_send, Types, Executing, Bounds
    <3>2. m \in Request /\ Send(m) /\ m.job = job
      BY <2>1, <3>1 DEF execute_cell_send, Request, Job
    <3>3. \A j \in AllJobs : j.cell # gui_cell
      BY <2>1 DEF execute_cell_send, LineInv, ExecutedIsFree, Executing
    <3> QED
      BY <2>1, <3>2, <3>3
  <2>2. CASE stop
    <3>1. [type |-> "execute_interrupt", job |-> NoJob] \in Request
      BY DEF Request
    <3> QED
      BY <2>2, <3>1 DEF stop
  <2>3. CASE restart_kernel
    <3>1. [type |-> "exit", job |-> NoJob] \in Request
      BY DEF Request
    <3> QED
      BY <2>3, <3>1 DEF restart_kernel
  <2> QED
    BY <2>1, <2>2, <2>3
<1>2. UNCHANGED <<srv_queue, srv_running, to_client>>
  BY DEF execute_cell_send, stop, restart_kernel, srvVars
<1>3. /\ NoJob \notin Job /\ NoJob.cell = NoCell
      /\ \A j \in Job : j.cell \in InputCell /\ j.cell # NoCell
      /\ Sent \subseteq Job /\ Waiting \subseteq Job /\ Runs \subseteq Job
      /\ Closed \subseteq Told /\ Told \subseteq Job
  BY JobsHaveCells
<1>4. /\ to_server' \in Seq(Request) /\ SentOnce(to_server')
      /\ Sent' \subseteq Sent \cup ({m.job} \ {NoJob})
  <2>1. CASE srv = 0
    BY <1>1, <2>1 DEF Send, Types, LineInv, Stages, Sent
  <2>2. CASE srv # 0
    <3>1. to_server' = Append(to_server, m)
      BY <1>1, <2>2 DEF Send
    <3>2. \A j \in JobsIn(to_server) : j.cell # m.job.cell
      BY <1>1, <1>3 DEF AllJobs, Sent
    <3>3. to_server \in Seq(Request) /\ SentOnce(to_server)
      BY DEF Types, LineInv, Stages
    <3> QED
      BY <1>1, <3>1, <3>2, <3>3, SendJob DEF Sent
  <2> QED
    BY <2>1, <2>2
<1>5. Waiting' = Waiting /\ Runs' = Runs /\ Closed' = Closed /\ Told' = Told
  BY <1>2 DEF Waiting, Runs, Closed, Told
<1>6. OneStage'
  <2> HIDE DEF job
  <2> QED
    BY <1>1, <1>3, <1>4, <1>5 DEF LineInv, Stages, OneStage, Apart, AllJobs
<1>7. Stages'
  BY <1>2, <1>4, <1>6 DEF LineInv, Stages
<1>8. AllJobs' \subseteq AllJobs \cup ({m.job} \ {NoJob})
  BY <1>4, <1>5 DEF AllJobs
<1> HIDE DEF job
<1> QED
  BY <1>1, <1>4, <1>7, <1>8 DEF job

LEMMA ReplyStages ==
  ASSUME Types, LineInv, on_message \/ on_close
  PROVE  /\ to_client' \in Seq(Reply)
         /\ Stages' /\ AllJobs' \subseteq AllJobs
<1>1. UNCHANGED <<to_server, srv_queue, srv_running>>
  BY DEF on_message, on_close, srvVars
<1>2. /\ to_client' \in Seq(Reply) /\ ClosedLast(to_client')
      /\ Closed' \subseteq Closed /\ Told' \subseteq Told
  <2>1. CASE on_message
    <3>1. to_client' = Tail(to_client) /\ to_client # <<>>
      BY <2>1 DEF on_message
    <3>2. to_client \in Seq(Reply) /\ ClosedLast(to_client)
      BY DEF Types, LineInv, Stages
    <3> QED
      BY <3>1, <3>2, ReadAnswer DEF Closed, Told
  <2>2. CASE on_close
    <3>1. to_client' = <<>>
      BY <2>2 DEF on_close
    <3>2. /\ <<>> \in Seq(Reply) /\ ClosedLast(<<>>)
          /\ Answered(<<>>) = {} /\ JobsIn(<<>>) = {}
      BY DEF ClosedLast, Answered, JobsIn
    <3> QED
      BY <3>1, <3>2 DEF Closed, Told
  <2> QED
    BY <2>1, <2>2
<1>3. Sent' = Sent /\ Waiting' = Waiting /\ Runs' = Runs
  BY <1>1 DEF Sent, Waiting, Runs
<1>4. OneStage'
  BY <1>2, <1>3 DEF LineInv, Stages, OneStage, Apart
<1> QED
  BY <1>1, <1>2, <1>3, <1>4 DEF LineInv, Stages, AllJobs

(* What a message of the running block adds to to_client.                   *)
LEMMA SrvSendsStages ==
  ASSUME Types, LineInv, NEW t, NEW e,
         t \in Final \cup {"latex_view"}, e \in BOOLEAN, SrvSends(t, e)
  PROVE  /\ to_client' \in Seq(Reply) /\ ClosedLast(to_client')
         /\ Closed' \subseteq Closed \cup {srv_running}
         /\ t \in {"latex_view", "fault"} => Closed' = Closed
         /\ Told' \subseteq Told \cup {srv_running}
         /\ srv_running \in Job /\ srv_running \in Runs
         /\ to_server' = to_server /\ srv' = srv /\ srv # 0
<1> DEFINE m == [job |-> srv_running, type |-> t, empty |-> e]
<1>1. srv_running \in Job /\ srv_running \in Runs
  BY DEF SrvSends, Types, Runs
<1>2. m \in Reply /\ m.job = srv_running /\ m.type = t
  BY <1>1 DEF Reply
<1>3. to_client' = Append(to_client, m)
  BY DEF SrvSends
<1>4. to_server' = to_server /\ srv' = srv /\ srv # 0
  BY DEF SrvSends
<1> HIDE DEF m
<1>5. \A j \in Answered(to_client) : j.cell # m.job.cell
  BY <1>1, <1>2 DEF LineInv, Stages, OneStage, Apart, Closed
<1>6. to_client \in Seq(Reply) /\ ClosedLast(to_client)
  BY DEF Types, LineInv, Stages
<1>7. /\ to_client' \in Seq(Reply) /\ ClosedLast(to_client')
      /\ JobsIn(to_client') = JobsIn(to_client) \cup ({m.job} \ {NoJob})
      /\ Answered(to_client') =
           Answered(to_client) \cup (IF Closes(m) THEN {m.job} ELSE {})
  BY <1>2, <1>3, <1>5, <1>6, AnswerJob
<1>8. t \in {"latex_view", "fault"} => ~Closes(m)
  BY <1>2 DEF Closes
<1> QED
  BY <1>1, <1>2, <1>4, <1>7, <1>8 DEF Closed, Told

LEMMA ServerStages ==
  ASSUME Types, LineInv, ServerMoves \/ ServerRuns \/ kernel_crash
  PROVE  /\ to_server' \in Seq(Request) /\ srv_queue' \in Seq(Job)
         /\ srv_running' \in Job \cup {NoJob} /\ to_client' \in Seq(Reply)
         /\ Stages' /\ AllJobs' \subseteq AllJobs
<1> USE DEF LineInv, Stages
<1>0. /\ NoJob \notin Job /\ NoJob.cell = NoCell
      /\ \A j \in Job : j.cell \in InputCell /\ j.cell # NoCell
      /\ Sent \subseteq Job /\ Waiting \subseteq Job /\ Runs \subseteq Job
      /\ Closed \subseteq Told /\ Told \subseteq Job
  BY JobsHaveCells
<1>t. /\ to_server \in Seq(Request) /\ srv_queue \in Seq(Job)
      /\ srv_running \in Job \cup {NoJob} /\ to_client \in Seq(Reply)
  BY DEF Types
<1>e. /\ <<>> \in Seq(Request) /\ <<>> \in Seq(Job)
      /\ SentOnce(<<>>) /\ WaitsOnce(<<>>)
      /\ JobsIn(<<>>) = {} /\ ToSet(<<>>) = {}
  BY DEF SentOnce, WaitsOnce, JobsIn, ToSet
<1>d. ASSUME srv_dies, to_client' = to_client
      PROVE  /\ to_server' \in Seq(Request) /\ srv_queue' \in Seq(Job)
             /\ srv_running' \in Job \cup {NoJob} /\ to_client' \in Seq(Reply)
             /\ Stages' /\ AllJobs' \subseteq AllJobs
  <2>1. /\ to_server' = <<>> /\ srv_queue' = <<>> /\ srv_running' = NoJob
    BY <1>d DEF srv_dies
  <2>2. /\ Sent' = {} /\ Waiting' = {} /\ Runs' = {} /\ Closed' = Closed
        /\ Told' = Told
    BY <1>d, <1>e, <2>1 DEF Sent, Waiting, Runs, Closed, Told
  <2>3. OneStage'
    BY <2>2 DEF OneStage, Apart
  <2> QED
    BY <1>d, <1>e, <1>t, <2>1, <2>2, <2>3 DEF AllJobs
<1>1. CASE srv_receives
  <2> DEFINE m == Head(to_server)
  <2>1. /\ to_server # <<>> /\ to_client' = to_client
        /\ \/ /\ m.type = "execute_request"
              /\ srv_queue' = Append(srv_queue, m.job)
              /\ to_server' = Tail(to_server) /\ srv_running' = srv_running
           \/ /\ m.type = "execute_interrupt"
              /\ srv_queue' = <<>>
              /\ to_server' = Tail(to_server) /\ srv_running' = srv_running
           \/ srv_dies
    BY <1>1 DEF srv_receives, CancelWaiting
  <2>2. /\ Tail(to_server) \in Seq(Request) /\ m \in Request
        /\ JobsIn(Tail(to_server)) \subseteq Sent
        /\ SentOnce(Tail(to_server))
        /\ m.job # NoJob => /\ m.job \in Sent
                            /\ \A j \in JobsIn(Tail(to_server)) : j.cell # m.job.cell
    BY <1>t, <2>1, TakeJob DEF Sent
  <2> HIDE DEF m
  <2>3. CASE /\ m.type = "execute_request"
             /\ srv_queue' = Append(srv_queue, m.job)
             /\ to_server' = Tail(to_server) /\ srv_running' = srv_running
    <3>1. m.job \in Job
      BY <2>2, <2>3 DEF Request
    <3>2. m.job \in Sent /\ \A j \in JobsIn(Tail(to_server)) : j.cell # m.job.cell
      BY <1>0, <2>2, <3>1
    <3>3. \A a \in ToSet(srv_queue) : a.cell # m.job.cell
      BY <3>2 DEF OneStage, Apart, Waiting
    <3>4. /\ srv_queue' \in Seq(Job) /\ WaitsOnce(srv_queue')
          /\ Waiting' = Waiting \cup {m.job}
      BY <1>t, <2>3, <3>1, <3>3, QueueJob DEF Waiting
    <3>5. /\ Sent' = JobsIn(Tail(to_server))
          /\ Runs' = Runs /\ Closed' = Closed /\ Told' = Told
      BY <2>1, <2>3 DEF Sent, Runs, Closed, Told
    <3>6. OneStage'
      BY <2>2, <3>2, <3>4, <3>5 DEF OneStage, Apart
    <3> QED
      BY <1>t, <2>1, <2>2, <2>3, <3>2, <3>4, <3>5, <3>6 DEF AllJobs
  <2>4. CASE /\ m.type = "execute_interrupt"
             /\ srv_queue' = <<>>
             /\ to_server' = Tail(to_server) /\ srv_running' = srv_running
    <3>1. /\ Sent' = JobsIn(Tail(to_server)) /\ Waiting' = {}
          /\ Runs' = Runs /\ Closed' = Closed /\ Told' = Told
      BY <1>e, <2>1, <2>4 DEF Sent, Waiting, Runs, Closed, Told
    <3>2. OneStage'
      BY <2>2, <3>1 DEF OneStage, Apart
    <3> QED
      BY <1>e, <1>t, <2>1, <2>2, <2>4, <3>1, <3>2 DEF AllJobs
  <2> QED
    BY <1>d, <2>1, <2>3, <2>4
<1>2. CASE kernel_crash
  BY <1>2, <1>d DEF kernel_crash
<1>3. CASE srv_starts
  <2>1. /\ srv_queue # <<>> /\ srv_running = NoJob
        /\ srv_running' = Head(srv_queue) /\ srv_queue' = Tail(srv_queue)
        /\ to_server' = to_server /\ to_client' = to_client
    BY <1>3 DEF srv_starts, netVars
  <2>2. /\ srv_queue' \in Seq(Job) /\ srv_running' \in Job /\ WaitsOnce(srv_queue')
        /\ Waiting' \subseteq Waiting /\ srv_running' \in Waiting
        /\ \A a \in Waiting' : a.cell # srv_running'.cell
    BY <1>t, <2>1, UnqueueJob DEF Waiting
  <2>3. /\ Sent' = Sent /\ Closed' = Closed /\ Told' = Told
        /\ Runs' = {srv_running'}
    BY <1>0, <2>1, <2>2 DEF Sent, Closed, Told, Runs
  <2>4. OneStage'
    BY <2>2, <2>3 DEF OneStage, Apart
  <2> QED
    BY <1>t, <2>1, <2>2, <2>3, <2>4 DEF AllJobs
<1>4. CASE srv_displays
  <2>1. /\ SrvSends("latex_view", FALSE)
        /\ srv_queue' = srv_queue /\ srv_running' = srv_running
    BY <1>4 DEF srv_displays
  <2>2. /\ to_client' \in Seq(Reply) /\ ClosedLast(to_client')
        /\ Closed' = Closed
        /\ Told' \subseteq Told \cup {srv_running}
        /\ srv_running \in Job /\ srv_running \in Runs
        /\ to_server' = to_server
    BY <2>1, SrvSendsStages
  <2>3. Sent' = Sent /\ Waiting' = Waiting /\ Runs' = Runs
    BY <2>1, <2>2 DEF Sent, Waiting, Runs
  <2>4. OneStage'
    BY <2>2, <2>3 DEF OneStage, Apart
  <2> QED
    BY <1>t, <2>1, <2>2, <2>3, <2>4 DEF AllJobs
<1>5. CASE srv_finishes \/ srv_fails \/ srv_faults
  <2>1. PICK t \in Final, e \in BOOLEAN : SrvSends(t, e)
    BY <1>5 DEF srv_finishes, srv_fails, srv_faults, Final
  <2>2. srv_running' = NoJob /\ srv_queue' \in {srv_queue, <<>>}
    BY <1>5 DEF srv_finishes, srv_fails, srv_faults, CancelWaiting
  <2>3. /\ to_client' \in Seq(Reply) /\ ClosedLast(to_client')
        /\ Closed' \subseteq Closed \cup {srv_running}
        /\ Told' \subseteq Told \cup {srv_running}
        /\ srv_running \in Job /\ srv_running \in Runs
        /\ to_server' = to_server
    BY <2>1, SrvSendsStages
  <2>4. /\ srv_queue' \in Seq(Job) /\ WaitsOnce(srv_queue')
        /\ Waiting' \subseteq Waiting
    BY <1>e, <1>t, <2>2 DEF Waiting
  <2>5. Sent' = Sent /\ Runs' = {}
    BY <2>2, <2>3 DEF Sent, Runs
  <2>6. OneStage'
    BY <2>3, <2>4, <2>5 DEF OneStage, Apart
  <2> QED
    BY <1>t, <2>2, <2>3, <2>4, <2>5, <2>6 DEF AllJobs
<1> QED
  BY <1>1, <1>2, <1>3, <1>4, <1>5 DEF ServerMoves, ServerRuns

-----------------------------------------------------------------------------
(* The sequences of actions that are queued at once.                        *)
LEMMA Removals ==
  ASSUME Types, NEW c \in InputCell
  PROVE  LET removals == SetToSeq({RemoveOutput(c, o) : o \in outputs[c]})
         IN  /\ removals \in Seq(Action)
             /\ ToSet(removals) = {RemoveOutput(c, o) : o \in outputs[c]}
             /\ \A d \in InputCell :
                  Ends(d) \notin ToSet(removals) /\ Starts(d) \notin ToSet(removals)
             /\ EndsLast(removals)
<1> DEFINE S == {RemoveOutput(c, o) : o \in outputs[c]}
           removals == SetToSeq(S)
<1>1. S \in SUBSET Action
  BY DEF Types, Action, RemoveOutput
<1>2. IsFiniteSet(S)
  BY FiniteRemovals DEF Types
<1>3. \A a \in S : a.act = "RemoveOutput"
  BY DEF RemoveOutput
<1> HIDE DEF S
<1>4. removals \in Seq(Action) /\ ToSet(removals) = S
  BY <1>1, <1>2, SeqOfSet
<1> HIDE DEF removals
<1>5. \A d \in InputCell : Ends(d) \notin S /\ Starts(d) \notin S
  BY <1>3 DEF Ends, Starts, SetRunStatus
<1>6. EndsLast(removals)
  BY <1>4, <1>5 DEF EndsLast, ToSet
<1> QED
  BY <1>4, <1>5, <1>6 DEF removals, S

LEMMA AllEnds ==
  ASSUME Types
  PROVE  LET ends == SetToSeq({SetRunStatus(c, FALSE) : c \in running_cells})
         IN  /\ ends \in Seq(Action)
             /\ ToSet(ends) = {Ends(c) : c \in running_cells}
             /\ \A c \in InputCell : Ends(c) \in ToSet(ends) => c \in running_cells
             /\ \A c \in InputCell : Starts(c) \notin ToSet(ends)
             /\ EndsLast(ends)
<1> DEFINE S == {SetRunStatus(c, FALSE) : c \in running_cells}
           ends == SetToSeq(S)
<1>0. \A c \in InputCell : SetRunStatus(c, FALSE) \in Action
  BY DEF Action, SetRunStatus
<1>1. S \in SUBSET Action
  BY <1>0 DEF Types
<1>2. IsFiniteSet(S)
  BY FiniteEnds DEF Types
<1>3. S = {Ends(c) : c \in running_cells}
  BY DEF Ends
<1>4. \A c \in InputCell : Ends(c) \in S => c \in running_cells
  BY DEF Ends, SetRunStatus
<1>5. \A c \in InputCell : Starts(c) \notin S
  BY DEF Starts, SetRunStatus
<1> HIDE DEF S
<1>6. /\ ends \in Seq(Action) /\ ToSet(ends) = S
      /\ \A i, k \in DOMAIN ends : i # k => ends[i] # ends[k]
  BY <1>1, <1>2, SeqOfSet
<1> HIDE DEF ends
<1>7. EndsLast(ends)
  <2> SUFFICES ASSUME NEW c \in InputCell, NEW i \in DOMAIN ends, NEW k \in DOMAIN ends,
                      i < k, ends[i] = Ends(c)
               PROVE  ends[k] # Ends(c) /\ ends[k] # Starts(c)
    BY DEF EndsLast
  <2>1. i # k
    BY <1>6
  <2>2. ends[k] \in S
    BY <1>6 DEF ToSet
  <2> QED
    BY <1>5, <1>6, <2>1, <2>2
<1> QED
  BY <1>3, <1>4, <1>5, <1>6, <1>7 DEF ends, S

(* The cell a waiting user executes is not with the server, and the GUI has *)
(* nothing to do about it.                                                  *)
LEMMA ExecutedWasFree ==
  ASSUME UserWaits, IInv, NEW c \in InputCell, cell_content_execute(c)
  PROVE  /\ c \notin running_cells /\ Ends(c) \notin Queued
         /\ \A d \in InputCell : Starts(d) \notin Queued
         /\ \A a \in Queued : a.act # "AddCell"
         /\ cmp_msg = NoReply /\ gui_pc = "idle"
<1>1. /\ gui_pc = "idle" /\ ~wake /\ cmp_msg = NoReply /\ ~is_running[c]
      /\ corrupt = "no"
  BY DEF cell_content_execute, UserActs, Alive
<1>2. StatusInv /\ OutputInv
  BY <1>1 DEF IInv
<1>3. \A d \in InputCell : Starts(d) \notin Queued
  BY <1>1, <1>2 DEF StatusInv
<1>4. Ends(c) \notin Queued
  BY <1>1, <1>2, <1>3 DEF StatusInv
<1>5. c \notin running_cells
  BY <1>1, <1>2, <1>3 DEF StatusInv
<1>6. \A a \in Queued : a.act # "AddCell"
  BY <1>1, <1>2 DEF OutputInv
<1> QED
  BY <1>1, <1>3, <1>4, <1>5, <1>6

LEMMA UseMore ==
  ASSUME NEW u \in Bounds
  PROVE  /\ \A c \in InputCell : [u EXCEPT !.runs[c] = @ + 1] \in Bounds
         /\ [u EXCEPT !.stops = @ + 1] \in Bounds
         /\ [u EXCEPT !.restarts = @ + 1] \in Bounds
         /\ [u EXCEPT !.deletes = @ + 1] \in Bounds
         /\ [u EXCEPT !.faults = @ + 1] \in Bounds
<1>1. /\ u.runs \in [InputCell -> Nat] /\ u.stops \in Nat /\ u.restarts \in Nat
      /\ u.deletes \in Nat /\ u.faults \in Nat
  BY DEF Bounds
<1>2. \A c \in InputCell : [u.runs EXCEPT ![c] = @ + 1] \in [InputCell -> Nat]
  BY <1>1
<1>3. /\ u.stops + 1 \in Nat /\ u.restarts + 1 \in Nat /\ u.deletes + 1 \in Nat
      /\ u.faults + 1 \in Nat
  BY <1>1
<1> QED
  BY <1>1, <1>2, <1>3 DEF Bounds

LEMMA TypesStep ==
  ASSUME IInv, [Next]_vars
  PROVE  Types'
<1> USE DEF Types, Executing
<1>t. Types /\ LineInv
  BY DEF IInv
<1>r. /\ \A c \in InputCell, b \in BOOLEAN : SetRunStatus(c, b) \in Action
      /\ \A c \in InputCell : PositionCursor(c) \in Action /\ RemoveCell(c) \in Action
      /\ \A c \in InputCell, o \in Output : AddCell(c, o) \in Action
  BY DEF Action, SetRunStatus, PositionCursor, RemoveCell, AddCell
<1>1. CASE UNCHANGED vars
  BY <1>t, <1>1 DEF vars, docVars, guiVars, cmpVars, srvVars, netVars
<1>2. ASSUME NEW c \in InputCell, cell_content_execute(c)
      PROVE  Types'
  <2> DEFINE removals == SetToSeq({RemoveOutput(c, o) : o \in outputs[c]})
  <2>1. removals \in Seq(Action)
    BY <1>t, Removals
  <2>2. /\ \/ /\ pending_actions' = pending_actions \o removals \o <<PositionCursor(c)>>
              /\ wake' = TRUE
              /\ gui_pc' = "register" /\ gui_cell' = c
           \/ /\ pending_actions' = pending_actions \o removals
              /\ UNCHANGED <<wake, guiVars>>
        /\ used' = [used EXCEPT !.runs[c] = @ + 1]
        /\ UNCHANGED <<docVars, cmpVars, srvVars, netVars>>
    BY <1>2 DEF cell_content_execute
  <2> HIDE DEF removals
  <2>3. pending_actions' \in Seq(Action)
    <3>1. pending_actions \o removals \in Seq(Action)
      BY <1>t, <2>1, QueueActions
    <3>2. <<PositionCursor(c)>> \in Seq(Action)
      BY <1>r
    <3>3. pending_actions \o removals \o <<PositionCursor(c)>> \in Seq(Action)
      BY <3>1, <3>2, QueueActions
    <3> QED
      BY <2>2, <3>1, <3>3
  <2>4. used' \in Bounds
    <3>1. used \in Bounds /\ used' = [used EXCEPT !.runs[c] = @ + 1]
      BY <1>t, <2>2
    <3> QED
      BY <3>1, UseMore
  <2> QED
    BY <1>t, <2>2, <2>3, <2>4 DEF docVars, guiVars, cmpVars, srvVars, netVars
<1>3. ASSUME NEW c \in InputCell, on_edit_delete(c)
      PROVE  Types'
  <2>1. pending_actions' \in Seq(Action)
    <3>1. <<PositionCursor(c), RemoveCell(c)>> \in Seq(Action)
      BY <1>r
    <3> QED
      BY <1>t, <1>3, <3>1 DEF on_edit_delete
  <2>2. used' \in Bounds
    BY ONLY <1>t, <1>3, UseMore DEF Types, on_edit_delete
  <2> QED
    BY <1>t, <1>3, <2>1, <2>2
       DEF on_edit_delete, docVars, guiVars, cmpVars, srvVars, netVars
<1>4. CASE \/ key_press \/ terminate \/ dialog_dismissed \/ process_todo_queue
           \/ process_todo_queue_ends \/ process_todo_queue_reentered
  BY <1>t, <1>4 DEF key_press, terminate, dialog_dismissed, process_todo_queue,
       process_todo_queue_ends, process_todo_queue_reentered,
       docVars, guiVars, cmpVars, srvVars, netVars
<1>5. CASE stop \/ restart_kernel
  <2>1. to_server' \in Seq(Request)
    BY <1>t, <1>5, RequestStages
  <2>2. used' \in Bounds
    BY <1>t, <1>5, UseMore DEF stop, restart_kernel
  <2> QED
    BY <1>t, <1>5, <2>1, <2>2
       DEF stop, restart_kernel, docVars, guiVars, cmpVars, srvVars
<1>6. CASE execute_cell_register
  <2>1. gui_cell \in InputCell
    BY <1>t, <1>6 DEF execute_cell_register
  <2>2. IsFiniteSet(running_cells \cup {gui_cell})
    BY <1>t, FS_AddElement
  <2> QED
    BY <1>t, <1>6, <2>1, <2>2 DEF execute_cell_register, docVars, srvVars, netVars
<1>7. CASE execute_cell_send
  <2>1. to_server' \in Seq(Request)
    BY <1>t, <1>7, RequestStages
  <2>2. gui_cell \in InputCell
    BY <1>t, <1>7 DEF execute_cell_send
  <2>3. pending_actions' \in Seq(Action)
    BY <1>t, <1>r, <1>7, <2>2, OneMore DEF execute_cell_send
  <2> QED
    BY <1>t, <1>7, <2>1, <2>3 DEF execute_cell_send, docVars, cmpVars, srvVars
<1>8. CASE execute_action
  <2>1. pending_actions' \in Seq(Action) /\ Head(pending_actions) \in Action
    BY <1>t, <1>8, TakeAction DEF execute_action
  <2> DEFINE a == Head(pending_actions)
  <2>2. UNCHANGED <<wake, guiVars, cmpVars, srvVars, netVars, used>>
    BY <1>8 DEF execute_action
  <2>c. cells' \in {cells, cells \ {a.cell}}
    BY <1>8, <2>1 DEF execute_action, docVars, Action
  <2>3. \/ UNCHANGED docVars
        \/ /\ a.act = "SetRunStatus"
           /\ is_running' = [is_running EXCEPT ![a.cell] = a.arg]
           /\ outputs' = outputs
        \/ /\ a.act = "AddCell"
           /\ outputs' = [outputs EXCEPT ![a.cell] = @ \cup {a.arg}]
           /\ is_running' = is_running
        \/ /\ a.act = "RemoveOutput"
           /\ outputs' = [outputs EXCEPT ![a.cell] = @ \ {a.arg}]
           /\ is_running' = is_running
        \/ /\ a.act = "RemoveCell"
           /\ outputs' = [outputs EXCEPT ![a.cell] = {}]
           /\ is_running' = is_running
    BY <1>8, <2>1 DEF execute_action, docVars, Action
  <2> HIDE DEF a
  <2>4. /\ is_running' \in [InputCell -> BOOLEAN]
        /\ outputs' \in [InputCell -> SUBSET Output]
        /\ \A c \in InputCell : IsFiniteSet(outputs'[c])
    <3>1. CASE UNCHANGED docVars
      BY <1>t, <3>1 DEF docVars
    <3>2. CASE a.act = "SetRunStatus" /\ is_running' = [is_running EXCEPT ![a.cell] = a.arg]
               /\ outputs' = outputs
      <4>1. a.cell \in InputCell /\ a.arg \in BOOLEAN
        BY <2>1, <3>2 DEF Action, a
      <4> QED
        BY <1>t, <3>2, <4>1
    <3>3. CASE a.act = "AddCell" /\ outputs' = [outputs EXCEPT ![a.cell] = @ \cup {a.arg}]
               /\ is_running' = is_running
      <4>1. a.cell \in InputCell /\ a.arg \in Output
        BY <2>1, <3>3 DEF Action, a
      <4>2. IsFiniteSet(outputs[a.cell] \cup {a.arg})
        BY <1>t, <4>1, FS_AddElement
      <4> QED
        BY <1>t, <3>3, <4>1, <4>2
    <3>4. CASE a.act = "RemoveOutput" /\ outputs' = [outputs EXCEPT ![a.cell] = @ \ {a.arg}]
               /\ is_running' = is_running
      <4>1. a.cell \in InputCell
        BY <2>1 DEF Action, a
      <4>2. IsFiniteSet(outputs[a.cell] \ {a.arg})
        BY <1>t, <4>1, FS_RemoveElement
      <4> QED
        BY <1>t, <3>4, <4>1, <4>2
    <3>5. CASE a.act = "RemoveCell" /\ outputs' = [outputs EXCEPT ![a.cell] = {}]
               /\ is_running' = is_running
      <4>1. a.cell \in InputCell
        BY <2>1 DEF Action, a
      <4> QED
        BY <1>t, <3>5, <4>1, FS_EmptySet
    <3> QED
      BY <2>3, <3>1, <3>2, <3>3, <3>4, <3>5
  <2> QED
    BY <1>t, <2>1, <2>2, <2>c, <2>4 DEF guiVars, cmpVars, srvVars, netVars
<1>9. CASE on_message
  <2>1. to_client' \in Seq(Reply) /\ Head(to_client) \in Reply
    BY <1>t, <1>9, ReplyStages, ReadAnswer DEF on_message
  <2>2. Head(to_client).job.cell \in InputCell
    BY <2>1 DEF Reply, Job
  <2>3. pending_actions' \in Seq(Action)
    <3>1. Append(pending_actions, SetRunStatus(Head(to_client).job.cell, FALSE))
            \in Seq(Action)
      BY <1>t, <1>r, <2>2, OneMore
    <3> QED
      BY <1>t, <1>9, <3>1 DEF on_message
  <2>4. running_cells' \subseteq running_cells
    BY <1>9 DEF on_message
  <2>5. IsFiniteSet(running_cells')
    BY <1>t, <2>4, FS_Subset
  <2>6. cmp_msg' \in Reply \cup {NoReply} /\ wake' \in BOOLEAN
    BY <1>t, <1>9, <2>1 DEF on_message
  <2> QED
    BY <1>t, <1>9, <2>1, <2>3, <2>4, <2>5, <2>6
       DEF on_message, docVars, guiVars, srvVars
<1>10. CASE on_message_output
  <2> DEFINE c == cmp_msg.job.cell
             add == AddCell(c, [run |-> cmp_msg.job.run, type |-> cmp_msg.type])
  <2>1. cmp_msg \in Reply /\ c \in InputCell /\ cmp_msg.job.run \in Nat
    BY <1>t, <1>10 DEF on_message_output, Reply, Job
  <2>2. CASE cmp_msg.empty \/ cmp_msg.type = "fault"
    <3>1. pending_actions' = pending_actions
      BY <1>10, <2>2 DEF on_message_output
    <3> QED
      BY <1>t, <1>10, <3>1
         DEF on_message_output, docVars, guiVars, srvVars, netVars
  <2>3. CASE ~(cmp_msg.empty \/ cmp_msg.type = "fault")
    <3>1. add \in Action
      <4>1. [run |-> cmp_msg.job.run, type |-> cmp_msg.type] \in Output
        BY <2>1, <2>3 DEF Reply, Output, Final
      <4> QED
        BY <1>r, <2>1, <4>1
    <3>2. pending_actions' \in {pending_actions \o <<add, PositionCursor(c)>>,
                                Append(pending_actions, add)}
      BY <1>10, <2>3 DEF on_message_output
    <3> HIDE DEF add, c
    <3>3. <<add, PositionCursor(c)>> \in Seq(Action)
      BY <1>r, <2>1, <3>1
    <3>4. pending_actions \o <<add, PositionCursor(c)>> \in Seq(Action)
      BY <1>t, <3>3, QueueActions
    <3>5. Append(pending_actions, add) \in Seq(Action)
      BY <1>t, <3>1, QueueAction
    <3>6. pending_actions' \in Seq(Action)
      BY <3>2, <3>4, <3>5
    <3> QED
      BY <1>t, <1>10, <3>6
         DEF on_message_output, docVars, guiVars, srvVars, netVars
  <2> QED
    BY <2>2, <2>3
<1>11. CASE on_open
  BY <1>t, <1>11 DEF on_open, docVars, guiVars, srvVars, netVars
<1>12. CASE on_close
  <2>1. to_client' \in Seq(Reply)
    BY <1>t, <1>12, ReplyStages
  <2> QED
    BY <1>t, <1>12, <2>1 DEF on_close, docVars, guiVars, srvVars
<1>13. CASE on_fail
  <2> DEFINE ends == SetToSeq({SetRunStatus(c, FALSE) : c \in running_cells})
  <2>1. ends \in Seq(Action)
    BY <1>t, AllEnds
  <2>2. pending_actions' = pending_actions \o ends /\ running_cells' = {}
    BY <1>13 DEF on_fail, all_cells_nonrunning
  <2> HIDE DEF ends
  <2>3. pending_actions' \in Seq(Action)
    BY <1>t, <2>1, <2>2
  <2> QED
    BY <1>t, <1>13, <2>2, <2>3, FS_EmptySet DEF on_fail, docVars, guiVars, netVars
<1>14. CASE ServerMoves \/ ServerRuns \/ kernel_crash
  <2>1. /\ to_server' \in Seq(Request) /\ srv_queue' \in Seq(Job)
        /\ srv_running' \in Job \cup {NoJob} /\ to_client' \in Seq(Reply)
    BY <1>t, <1>14, ServerStages
  <2>2. UNCHANGED <<docVars, pending_actions, wake, guiVars, cmpVars>>
    BY <1>14 DEF ServerMoves, ServerRuns, kernel_crash, srv_receives, srv_starts,
         srv_displays, srv_finishes, srv_fails, srv_faults, SrvSends
  <2>3. used' \in Bounds
    <3>1. used' \in {used, [used EXCEPT !.restarts = @ + 1],
                      [used EXCEPT !.faults = @ + 1]}
      BY <1>14 DEF ServerMoves, ServerRuns, kernel_crash, srv_receives,
         srv_starts, srv_displays, srv_finishes, srv_fails, srv_faults
    <3> QED
      BY <1>t, <3>1, UseMore
  <2> QED
    BY <1>t, <2>1, <2>2, <2>3 DEF docVars, guiVars, cmpVars
<1> QED
  BY <1>1, <1>2, <1>3, <1>4, <1>5, <1>6, <1>7, <1>8, <1>9, <1>10, <1>11, <1>12,
     <1>13, <1>14 DEF Next, User, GUI, Compute

-----------------------------------------------------------------------------
(* The line of jobs, step by step.                                          *)
LEMMA StagesStep ==
  ASSUME IInv, [Next]_vars
  PROVE  /\ Stages'
         /\ ~execute_cell_send => AllJobs' \subseteq AllJobs
<1>t. Types /\ LineInv
  BY DEF IInv
<1>1. CASE UNCHANGED <<to_server, srv_queue, srv_running, to_client>>
  <2>1. /\ Sent' = Sent /\ Waiting' = Waiting /\ Runs' = Runs /\ Closed' = Closed
        /\ Told' = Told
    BY <1>1 DEF Sent, Waiting, Runs, Closed, Told
  <2> QED
    BY <1>t, <1>1, <2>1 DEF LineInv, Stages, OneStage, AllJobs
<1>2. CASE execute_cell_send \/ stop \/ restart_kernel
  BY <1>t, <1>2, RequestStages
<1>3. CASE on_message \/ on_close
  BY <1>t, <1>3, ReplyStages
<1>4. CASE ServerMoves \/ ServerRuns \/ kernel_crash
  BY <1>t, <1>4, ServerStages
<1>5. CASE UNCHANGED vars
  BY <1>1, <1>5 DEF vars, srvVars, netVars
<1>6. ASSUME NEW c \in InputCell, cell_content_execute(c) \/ on_edit_delete(c)
      PROVE  UNCHANGED <<to_server, srv_queue, srv_running, to_client>>
  BY <1>6 DEF cell_content_execute, on_edit_delete, srvVars, netVars
<1>7. CASE \/ key_press \/ terminate \/ dialog_dismissed \/ process_todo_queue
           \/ process_todo_queue_ends \/ process_todo_queue_reentered
           \/ execute_cell_register \/ execute_action
           \/ on_message_output \/ on_open \/ on_fail
  <2>1. UNCHANGED <<to_server, srv_queue, srv_running, to_client>>
    BY <1>7 DEF key_press, terminate, dialog_dismissed, process_todo_queue,
       process_todo_queue_ends, process_todo_queue_reentered,
       execute_cell_register, execute_action, on_message_output, on_open, on_fail,
       srvVars, netVars
  <2> QED
    BY <1>1, <2>1
<1> QED
  BY <1>1, <1>2, <1>3, <1>4, <1>5, <1>6, <1>7 DEF Next, User, GUI, Compute

LEMMA RegisteredStep ==
  ASSUME UserWaits, IInv, [Next]_vars
  PROVE  Registered'
<1>t. Types /\ LineInv
  BY DEF IInv
<1>r. \A j \in AllJobs : j.cell \in running_cells /\ j.run = used.runs[j.cell]
  BY <1>t DEF LineInv, Registered
<1>s. Stages' /\ (~execute_cell_send => AllJobs' \subseteq AllJobs)
  BY StagesStep
<1>0. CASE /\ AllJobs' \subseteq AllJobs
           /\ running_cells \subseteq running_cells' /\ used'.runs = used.runs
  BY <1>r, <1>0 DEF Registered
<1>1. ASSUME NEW c \in InputCell, cell_content_execute(c)
      PROVE  Registered'
  <2>1. /\ running_cells' = running_cells
        /\ used' = [used EXCEPT !.runs[c] = @ + 1]
        /\ ~execute_cell_send
    <3>1. gui_pc = "idle"
      BY <1>1 DEF cell_content_execute, UserActs
    <3> QED
      BY <1>1, <3>1 DEF cell_content_execute, cmpVars, execute_cell_send
  <2>2. c \notin running_cells
    BY <1>1, ExecutedWasFree
  <2>3. \A d \in InputCell \ {c} : used'.runs[d] = used.runs[d]
    BY <1>t, <2>1 DEF Types, Bounds
  <2> QED
    BY <1>t, <1>r, <1>s, <2>1, <2>2, <2>3 DEF Registered, Types
<1>2. CASE execute_cell_send
  <2>1. AllJobs' \subseteq
          AllJobs \cup {[cell |-> gui_cell, run |-> used.runs[gui_cell]]}
    BY <1>t, <1>2, RequestStages
  <2>2. gui_cell \in running_cells
    BY <1>2 DEF execute_cell_send, IInv, StatusInv, Alive
  <2>3. running_cells' = running_cells /\ used' = used
    BY <1>2 DEF execute_cell_send, cmpVars
  <2> QED
    BY <1>r, <2>1, <2>2, <2>3 DEF Registered
<1>3. CASE on_message
  <2> DEFINE m == Head(to_client)
  <2>1. to_client # <<>> /\ to_client' = Tail(to_client) /\ used' = used
    BY <1>3 DEF on_message
  <2>2. /\ m.job \in Told
        /\ Closes(m) => m.job \in Closed /\ \A j \in Told' : j.cell # m.job.cell
    <3>1. to_client \in Seq(Reply) /\ ClosedLast(to_client)
      BY <1>t DEF Types, LineInv, Stages
    <3> QED
      BY <2>1, <3>1, ReadAnswer DEF Told, Closed
  <2>3. m.job.cell \in running_cells
    BY <1>r, <2>2 DEF AllJobs
  <2>4. running_cells' = running_cells \ (IF Closes(m) THEN {m.job.cell} ELSE {})
    BY <1>3, <2>3 DEF on_message, Closes
  <2> HIDE DEF m
  <2>5. Sent' = Sent /\ Waiting' = Waiting /\ Runs' = Runs
    BY <1>3 DEF on_message, srvVars, Sent, Waiting, Runs
  <2>6. AllJobs' \subseteq AllJobs
    BY <1>t, <1>3, ReplyStages
  <2>7. ASSUME NEW j \in AllJobs', Closes(m)
        PROVE  j.cell # m.job.cell
    <3>1. CASE j \in Told'
      BY <2>2, <2>7, <3>1
    <3>2. CASE j \in Sent \cup Waiting \cup Runs
      BY <1>t, <2>2, <2>7, <3>2 DEF LineInv, Stages, OneStage, Apart
    <3> QED
      BY <2>5, <2>7, <3>1, <3>2 DEF AllJobs
  <2> QED
    BY <1>r, <2>1, <2>4, <2>6, <2>7 DEF Registered
<1>4. CASE on_fail
  <2>1. NothingGoesOn
    BY <1>t, <1>4 DEF on_fail, LineInv, Disconnected
  <2>2. AllJobs = {}
    BY <2>1 DEF NothingGoesOn, AllJobs, Sent, Waiting, Runs, Told, JobsIn, ToSet
  <2>3. ~execute_cell_send
    BY <1>4 DEF on_fail, execute_cell_send
  <2> QED
    BY <1>s, <2>2, <2>3 DEF Registered
<1>5. CASE UNCHANGED vars
  <2>1. UNCHANGED <<to_server, srv_queue, srv_running, to_client, running_cells, used>>
    BY <1>5 DEF vars, cmpVars, srvVars, netVars
  <2> QED
    BY <1>r, <2>1 DEF Registered, AllJobs, Sent, Waiting, Runs, Told
<1>6. CASE /\ ~execute_cell_send
           /\ running_cells \subseteq running_cells' /\ used'.runs = used.runs
  BY <1>0, <1>6, <1>s
<1>7. ASSUME NEW c \in InputCell, on_edit_delete(c)
      PROVE  Registered'
  <2>1. ~execute_cell_send /\ running_cells' = running_cells
    BY <1>7 DEF on_edit_delete, UserActs, execute_cell_send, cmpVars
  <2>2. used'.runs = used.runs
    BY <1>t, <1>7 DEF on_edit_delete, Types, Bounds
  <2> QED
    BY <1>6, <2>1, <2>2
<1>8. CASE \/ key_press \/ stop \/ restart_kernel \/ terminate \/ dialog_dismissed
           \/ execute_cell_register
           \/ process_todo_queue \/ execute_action \/ process_todo_queue_ends
           \/ process_todo_queue_reentered
  <2>1. ~execute_cell_send
    BY <1>8 DEF execute_cell_send, UserActs, key_press, stop, restart_kernel,
       terminate, dialog_dismissed, execute_cell_register, process_todo_queue,
       execute_action, process_todo_queue_ends, process_todo_queue_reentered
  <2>2. running_cells \subseteq running_cells'
    BY <1>8 DEF key_press, stop, restart_kernel,
       terminate, dialog_dismissed, execute_cell_register, process_todo_queue,
       execute_action, process_todo_queue_ends, process_todo_queue_reentered, cmpVars
  <2>3. used'.runs = used.runs
    BY <1>t, <1>8 DEF key_press, stop, restart_kernel, Types, Bounds,
       terminate, dialog_dismissed, execute_cell_register, process_todo_queue,
       execute_action, process_todo_queue_ends, process_todo_queue_reentered
  <2> QED
    BY <1>6, <2>1, <2>2, <2>3
<1>9. CASE on_message_output \/ on_open \/ on_close
  <2>1. AllJobs' \subseteq AllJobs
    <3>1. CASE on_close
      BY <1>t, <3>1, ReplyStages
    <3>2. CASE on_message_output \/ on_open
      BY <3>2 DEF on_message_output, on_open, srvVars, netVars, AllJobs, Sent,
         Waiting, Runs, Told
    <3> QED
      BY <1>9, <3>1, <3>2
  <2>2. running_cells' = running_cells /\ used' = used
    BY <1>9 DEF on_message_output, on_open, on_close
  <2> QED
    BY <1>0, <2>1, <2>2
<1>10. CASE ServerMoves \/ ServerRuns \/ kernel_crash
  <2>1. AllJobs' \subseteq AllJobs
    BY <1>t, <1>10, ServerStages
  <2>2. running_cells' = running_cells
    BY <1>10 DEF ServerMoves, ServerRuns, kernel_crash, srv_receives, srv_starts,
       srv_displays, srv_finishes, srv_fails, srv_faults, SrvSends, cmpVars
  <2>3. used' \in {used, [used EXCEPT !.restarts = @ + 1],
                   [used EXCEPT !.faults = @ + 1]}
    BY <1>10 DEF ServerMoves, ServerRuns, kernel_crash, srv_receives,
       srv_starts, srv_displays, srv_finishes, srv_fails, srv_faults
  <2>4. used'.runs = used.runs
    BY <1>t, <2>3 DEF Types, Bounds
  <2> QED
    BY <1>0, <2>1, <2>2, <2>4
<1> QED
  BY <1>1, <1>2, <1>3, <1>4, <1>5, <1>7, <1>8, <1>9, <1>10
     DEF Next, User, GUI, Compute

LEMMA ExecutedIsFreeStep ==
  ASSUME UserWaits, IInv, [Next]_vars
  PROVE  ExecutedIsFree'
<1>t. Types /\ LineInv
  BY DEF IInv
<1>s. ~execute_cell_send => AllJobs' \subseteq AllJobs
  BY StagesStep
<1>1. CASE execute_cell_send
  BY <1>1 DEF execute_cell_send, ExecutedIsFree, Executing
<1>2. ASSUME NEW c \in InputCell, cell_content_execute(c)
      PROVE  ExecutedIsFree'
  <2>1. gui_pc = "idle" /\ c \notin running_cells
    BY <1>2, ExecutedWasFree
  <2>2. AllJobs' \subseteq AllJobs
    BY <1>s, <2>1 DEF execute_cell_send
  <2>3. \A j \in AllJobs : j.cell # c
    BY <1>t, <2>1 DEF LineInv, Registered
  <2>4. gui_cell' = c \/ gui_pc' = gui_pc
    BY <1>2 DEF cell_content_execute, guiVars
  <2> QED
    BY <2>1, <2>2, <2>3, <2>4 DEF ExecutedIsFree, Executing
<1>3. CASE execute_cell_register
  <2>1. Executing /\ gui_cell' = gui_cell /\ ~execute_cell_send
    BY <1>3 DEF execute_cell_register, Executing, execute_cell_send
  <2> QED
    BY <1>t, <1>s, <2>1 DEF LineInv, ExecutedIsFree
<1>4. CASE ~execute_cell_send /\ (Executing' => Executing /\ gui_cell' = gui_cell)
  BY <1>t, <1>s, <1>4 DEF LineInv, ExecutedIsFree
<1>5. CASE \/ key_press \/ dialog_dismissed \/ process_todo_queue
           \/ process_todo_queue_ends
  BY <1>4, <1>5 DEF key_press, dialog_dismissed, process_todo_queue,
     process_todo_queue_ends, Executing, execute_cell_send, UserActs
<1>6. CASE ~execute_cell_send /\ UNCHANGED guiVars
  BY <1>4, <1>6 DEF guiVars, Executing
<1>7. ASSUME NEW c \in InputCell, on_edit_delete(c)
      PROVE  ExecutedIsFree'
  BY <1>6, <1>7 DEF on_edit_delete, execute_cell_send, UserActs
<1>8. CASE \/ stop \/ restart_kernel \/ terminate \/ execute_action
           \/ process_todo_queue_reentered
  BY <1>6, <1>8 DEF stop, restart_kernel, terminate, execute_action,
     process_todo_queue_reentered, execute_cell_send, UserActs
<1>9. CASE Compute \/ ServerMoves \/ ServerRuns \/ kernel_crash \/ UNCHANGED vars
  <2>1. UNCHANGED guiVars
    BY <1>9 DEF vars, Compute, on_message, on_message_output, on_open, on_close,
       on_fail, ServerMoves, ServerRuns, kernel_crash, srv_receives, srv_starts,
       srv_displays, srv_finishes, srv_fails, srv_faults, SrvSends
  <2>2. CASE execute_cell_send
    BY <1>1, <2>2
  <2> QED
    BY <1>6, <2>1, <2>2
<1> QED
  BY <1>1, <1>2, <1>3, <1>5, <1>7, <1>8, <1>9 DEF Next, User, GUI

LEMMA DisconnectedStep ==
  ASSUME UserWaits, IInv, [Next]_vars
  PROVE  Disconnected'
<1>t. Types /\ Disconnected
  BY DEF IInv, LineInv
<1> USE DEF Disconnected, NothingGoesOn
<1>1. ASSUME NEW c \in InputCell, cell_content_execute(c)
      PROVE  Disconnected'
  <2>1. /\ gui_pc = "idle" /\ gui_pc' # "dialog"
        /\ Executing' => connection_is_open
    BY <1>1 DEF cell_content_execute, UserActs, guiVars, Executing
  <2>2. UNCHANGED <<kernel_string, cmpVars, client_up, srvVars, netVars>>
    BY <1>1 DEF cell_content_execute
  <2> QED
    BY <1>t, <2>1, <2>2 DEF cmpVars, srvVars, netVars
<1>2. ASSUME NEW c \in InputCell, on_edit_delete(c)
      PROVE  Disconnected'
  BY <1>t, <1>2 DEF on_edit_delete, UserActs, guiVars, cmpVars, srvVars, netVars,
     Executing
<1>3. CASE key_press \/ dialog_dismissed \/ process_todo_queue
  <2>1. /\ UNCHANGED <<kernel_string, cmpVars, client_up, srvVars, netVars>>
        /\ gui_pc' \in {"processing", "idle"}
    BY <1>3 DEF key_press, dialog_dismissed, process_todo_queue
  <2> QED
    BY <1>t, <2>1 DEF cmpVars, srvVars, netVars, Executing
<1>4. CASE stop \/ restart_kernel
  <2>1. /\ connection_is_open /\ connection_is_open' = connection_is_open
        /\ gui_pc = "idle" /\ conn' = conn /\ kernel_string' = kernel_string
        /\ srv = 0 => to_server' = to_server
    BY <1>4 DEF stop, restart_kernel, UserActs, Send
  <2>2. UNCHANGED <<srv, srv_queue, srv_running, gui_pc, client_up>>
    BY <1>4 DEF stop, restart_kernel, guiVars, srvVars
  <2>3. conn # "connecting" /\ gui_pc # "dialog"
    BY <1>t, <2>1
  <2>4. client_up' /\ srv' = 0 =>
          to_server' = <<>> /\ srv_queue' = <<>> /\ srv_running' = NoJob
    BY <1>t, <2>1, <2>2
  <2> QED
    BY <1>t, <2>1, <2>2, <2>3, <2>4
<1>5. CASE terminate
  <2>1. /\ UNCHANGED <<conn, connection_is_open, to_server, srv_queue, srv_running,
                       to_client, cmp_msg, kernel_string, gui_pc>>
        /\ gui_pc = "idle" /\ client_up' = FALSE
    BY <1>5 DEF terminate, UserActs, guiVars, cmpVars, netVars
  <2> QED
    BY <1>t, <2>1 DEF Executing
<1>6. CASE execute_cell_register
  BY <1>t, <1>6 DEF execute_cell_register, srvVars, netVars, Executing
<1>7. CASE execute_cell_send
  <2>1. /\ UNCHANGED <<conn, connection_is_open, srv_queue, srv_running, srv,
                       to_client, cmp_msg, kernel_string, client_up>>
        /\ gui_pc = "send" /\ gui_pc' = "idle"
        /\ srv = 0 => to_server' = to_server
    BY <1>7 DEF execute_cell_send, Send, cmpVars, srvVars
  <2>2. Executing /\ ~Executing'
    BY <2>1 DEF Executing
  <2> QED
    BY <1>t, <2>1, <2>2
<1>8. CASE execute_action \/ process_todo_queue_reentered
  <2>1. UNCHANGED <<guiVars, kernel_string, cmpVars, client_up, srvVars, netVars>>
    BY <1>8 DEF execute_action, process_todo_queue_reentered
  <2> QED
    BY <1>t, <2>1 DEF guiVars, cmpVars, srvVars, netVars, Executing
<1>9. CASE process_todo_queue_ends
  BY <1>t, <1>9 DEF process_todo_queue_ends, cmpVars, srvVars, netVars, Executing
<1>10. CASE on_message \/ on_message_output
  <2>1. /\ UNCHANGED <<kernel_string, conn, connection_is_open, client_up, gui_pc,
                       srv, srv_queue, srv_running, to_server>>
        /\ to_client # <<>> \/ cmp_msg # NoReply
    BY <1>10 DEF on_message, on_message_output, guiVars, srvVars, netVars
  <2>2. conn # "connecting" /\ gui_pc # "dialog"
    BY <1>t, <2>1
  <2> QED
    BY <1>t, <2>1, <2>2
<1>11. CASE on_open
  BY <1>t, <1>11 DEF on_open, guiVars, srvVars, netVars, Executing
<1>12. CASE on_close
  BY <1>t, <1>12 DEF on_close, Alive, guiVars, srvVars, Executing
<1>13. CASE on_fail
  BY <1>t, <1>13 DEF on_fail, guiVars, netVars, Executing
<1>14. CASE srv_receives
  <2>1. UNCHANGED <<cmpVars, guiVars, kernel_string, client_up, to_client>>
        /\ to_server # <<>> /\ srv # 0
    BY <1>14 DEF srv_receives
  <2>2. conn # "connecting" /\ gui_pc # "dialog"
    BY <1>t, <2>1
  <2>3. srv' = srv \/ srv_dies
    BY <1>14 DEF srv_receives
  <2> QED
    BY <1>t, <2>1, <2>2, <2>3 DEF srv_dies, cmpVars, guiVars, Executing
<1>15. CASE kernel_crash
  BY <1>t, <1>15 DEF kernel_crash, srv_dies, cmpVars, guiVars, Executing
<1>16. CASE srv_starts
  BY <1>t, <1>16 DEF srv_starts, cmpVars, guiVars, netVars, Executing
<1>17. CASE ServerRuns
  <2>1. /\ UNCHANGED <<guiVars, kernel_string, cmpVars, client_up, srv, to_server>>
        /\ srv # 0 /\ srv_running # NoJob
    BY <1>17 DEF ServerRuns, srv_displays, srv_finishes, srv_fails, srv_faults,
       SrvSends
  <2>2. conn # "connecting" /\ gui_pc # "dialog"
    BY <1>t, <2>1
  <2> QED
    BY <1>t, <2>1, <2>2 DEF cmpVars, guiVars, Executing
<1>18. CASE UNCHANGED vars
  BY <1>t, <1>18 DEF vars, guiVars, cmpVars, srvVars, netVars, Executing
<1> QED
  BY <1>1, <1>2, <1>3, <1>4, <1>5, <1>6, <1>7, <1>8, <1>9, <1>10, <1>11, <1>12,
     <1>13, <1>14, <1>15, <1>16, <1>17, <1>18
     DEF Next, User, GUI, Compute, ServerMoves

LEMMA LineStep ==
  ASSUME UserWaits, IInv, [Next]_vars
  PROVE  LineInv'
BY StagesStep, RegisteredStep, ExecutedIsFreeStep, DisconnectedStep DEF LineInv

-----------------------------------------------------------------------------
(* The queue of actions, step by step.                                      *)
LEMMA ExecuteStatus ==
  ASSUME UserWaits, IInv, NEW c \in InputCell, cell_content_execute(c)
  PROVE  StatusInv' /\ OutputInv'
<1>t. Types /\ StatusInv /\ OutputInv
  BY DEF IInv, cell_content_execute, UserActs, Alive
<1>f. /\ c \notin running_cells /\ Ends(c) \notin Queued
      /\ \A d \in InputCell : Starts(d) \notin Queued
      /\ \A a \in Queued : a.act # "AddCell"
      /\ cmp_msg = NoReply /\ gui_pc = "idle"
  BY ExecutedWasFree
<1> DEFINE S == {RemoveOutput(c, o) : o \in outputs[c]}
           removals == SetToSeq(S)
<1>1. /\ removals \in Seq(Action) /\ ToSet(removals) = S
      /\ \A d \in InputCell : Ends(d) \notin S /\ Starts(d) \notin S
      /\ EndsLast(removals)
  BY <1>t, Removals
<1>2. /\ \/ /\ pending_actions' = (pending_actions \o removals) \o <<PositionCursor(c)>>
            /\ wake' = TRUE
            /\ gui_pc' = "register" /\ gui_cell' = c
         \/ /\ pending_actions' = pending_actions \o removals
            /\ wake' = wake /\ gui_pc' = gui_pc /\ gui_cell' = gui_cell
      /\ used' = [used EXCEPT !.runs[c] = @ + 1]
      /\ UNCHANGED <<docVars, cmpVars>>
  BY DEF cell_content_execute, guiVars
<1> HIDE DEF removals
<1>3. \A o \in outputs[c] : RemoveOutput(c, o) \in S
  OBVIOUS
<1>4. \A a \in S : a.act = "RemoveOutput"
  BY DEF RemoveOutput
<1> HIDE DEF S
<1>5. /\ pending_actions \o removals \in Seq(Action)
      /\ ToSet(pending_actions \o removals) = Queued \cup S
      /\ EndsLast(pending_actions \o removals)
  <2>1. pending_actions \in Seq(Action) /\ EndsLast(pending_actions)
    BY <1>t DEF Types, StatusInv
  <2> QED
    BY <1>1, <2>1, QueueActions DEF Queued
<1>6. /\ PositionCursor(c) \in Action
      /\ PositionCursor(c).act = "PositionCursor"
      /\ \A d \in InputCell : PositionCursor(c) # Ends(d) /\ PositionCursor(c) # Starts(d)
  BY DEF Action, PositionCursor, Ends, Starts, SetRunStatus
<1>7. /\ EndsLast(pending_actions')
      /\ Queued \cup S \subseteq Queued'
      /\ Queued' \subseteq Queued \cup S \cup {PositionCursor(c)}
  <2> DEFINE p == pending_actions \o removals
  <2>1. Append(p, PositionCursor(c)) = p \o <<PositionCursor(c)>>
    BY <1>5, <1>6
  <2> HIDE DEF p
  <2>2. /\ ToSet(p \o <<PositionCursor(c)>>) = ToSet(p) \cup {PositionCursor(c)}
        /\ EndsLast(p \o <<PositionCursor(c)>>)
    BY <1>5, <1>6, <2>1, QueueAction DEF p
  <2> QED
    BY <1>2, <1>5, <2>2 DEF Queued, p
<1>8. \A d \in InputCell : (Ends(d) \in Queued' <=> Ends(d) \in Queued)
                           /\ (Starts(d) \in Queued' <=> Starts(d) \in Queued)
  BY <1>1, <1>6, <1>7
<1>9. StatusInv'
  <2>1. /\ is_running' = is_running /\ running_cells' = running_cells
        /\ running_cells \subseteq InputCell
    BY <1>t, <1>2 DEF docVars, cmpVars, Types
  <2>2. \/ gui_pc' = "register" /\ gui_cell' = c
        \/ gui_pc' = "idle"
    BY <1>2, <1>f
  <2> QED
    BY <1>t, <1>f, <1>7, <1>8, <2>1, <2>2 DEF StatusInv
<1>10. OutputInv'
  <2>1. cmp_msg' = NoReply /\ outputs' = outputs
    BY <1>2, <1>f DEF docVars, cmpVars
  <2>2. \A a \in Queued' : a.act # "AddCell"
    BY <1>4, <1>6, <1>7, <1>f
  <2>3. \A d \in InputCell \ {c} : used'.runs[d] = used.runs[d]
    BY <1>t, <1>2 DEF Types, Bounds
  <2> QED
    BY <1>3, <1>7, <1>t, <2>1, <2>2, <2>3 DEF OutputInv
<1> QED
  BY <1>9, <1>10

(* Steps that queue nothing, and after which no more is to be seen to.      *)
LEMMA QuietStatus ==
  ASSUME IInv, StatusInv,
         UNCHANGED <<is_running, running_cells, pending_actions>>,
         gui_pc \in {"register", "send"} =>
           gui_pc' = gui_pc /\ gui_cell' = gui_cell,
         gui_pc' \in {"register", "send"} => gui_pc' = gui_pc,
         (gui_pc = "processing" \/ (wake /\ gui_pc = "idle")) =>
           pending_actions = <<>> \/ gui_pc' = "processing" \/ (wake' /\ gui_pc' = "idle")
  PROVE  StatusInv'
<1>1. pending_actions = <<>> => \A c \in InputCell : Starts(c) \notin Queued
  BY DEF Queued, ToSet
<1>2. Queued' = Queued
  BY DEF Queued
<1> QED
  BY <1>1, <1>2 DEF StatusInv, IInv, Types

LEMMA QuietOutput ==
  ASSUME IInv, OutputInv,
         UNCHANGED <<outputs, pending_actions>>,
         cmp_msg' \in {cmp_msg, NoReply}, used'.runs = used.runs,
         (wake \/ gui_pc = "processing") /\ gui_pc # "dialog" =>
           pending_actions = <<>> \/ wake' \/ gui_pc' = "processing",
         gui_pc # "dialog" => pending_actions = <<>> \/ gui_pc' # "dialog"
  PROVE  OutputInv'
<1>1. pending_actions = <<>> => Queued = {}
  BY DEF Queued, ToSet
<1>2. Queued' = Queued
  BY DEF Queued
<1> QED
  BY <1>1, <1>2 DEF OutputInv

(* The GUI thread executes the first action of the queue.                   *)
LEMMA ActionStatus ==
  ASSUME IInv, execute_action
  PROVE  /\ corrupt' = "no" => StatusInv' /\ OutputInv'
         /\ NoCellIsStuck'
<1>t. Types /\ StatusInv /\ OutputInv /\ NoCellIsStuck /\ corrupt = "no"
  BY DEF IInv, execute_action, Alive
<1> DEFINE a == Head(pending_actions)
           rest == ToSet(pending_actions')
<1>1. /\ a \in Action /\ Queued = rest \cup {a}
      /\ EndsLast(pending_actions')
      /\ \A c \in InputCell : a = Ends(c) => Ends(c) \notin rest /\ Starts(c) \notin rest
  BY <1>t, TakeAction DEF execute_action, Types, StatusInv, Queued
<1>2. /\ UNCHANGED <<wake, guiVars, cmpVars, used>> /\ gui_pc = "processing"
      /\ \/ /\ a.cell \notin cells /\ corrupt' = "erased cell" /\ UNCHANGED docVars
         \/ /\ a.cell \in cells /\ a.act = "SetRunStatus"
            /\ is_running' = [is_running EXCEPT ![a.cell] = a.arg]
            /\ UNCHANGED <<cells, outputs, corrupt>>
         \/ /\ a.cell \in cells /\ a.act = "AddCell"
            /\ outputs' = [outputs EXCEPT ![a.cell] = @ \cup {a.arg}]
            /\ UNCHANGED <<cells, is_running, corrupt>>
         \/ /\ a.cell \in cells /\ a.act = "RemoveOutput"
            /\ outputs' = [outputs EXCEPT ![a.cell] = @ \ {a.arg}]
            /\ UNCHANGED <<cells, is_running>>
         \/ /\ a.cell \in cells /\ a.act = "RemoveCell"
            /\ cells' = cells \ {a.cell}
            /\ outputs' = [outputs EXCEPT ![a.cell] = {}]
            /\ UNCHANGED <<is_running, corrupt>>
         \/ /\ a.cell \in cells /\ a.act = "PositionCursor"
            /\ UNCHANGED <<docVars, corrupt>>
  BY <1>1 DEF execute_action, Action
<1>3. Queued' = rest
  BY DEF Queued
<1>4. a.cell \in InputCell
  BY <1>1 DEF Action
<1>5. a.act = "SetRunStatus" => a.arg \in BOOLEAN /\ a = SetRunStatus(a.cell, a.arg)
  BY <1>1 DEF Action, SetRunStatus
<1>6. a.act = "AddCell" => a.arg \in Output
  BY <1>1 DEF Action
<1>7. a.act = "RemoveOutput" => a = RemoveOutput(a.cell, a.arg)
  BY <1>1 DEF Action, RemoveOutput
<1>8. \A c \in InputCell : /\ Ends(c).act = "SetRunStatus" /\ Starts(c).act = "SetRunStatus"
                           /\ Ends(c).cell = c /\ Starts(c).cell = c
                           /\ Ends(c).arg = FALSE /\ Starts(c).arg = TRUE
  BY DEF Ends, Starts, SetRunStatus
<1>9. \A c, o : RemoveOutput(c, o).act = "RemoveOutput" /\ RemoveOutput(c, o).cell = c
                /\ RemoveOutput(c, o).arg = o
  BY DEF RemoveOutput
<1>10. /\ running_cells' = running_cells /\ cmp_msg' = cmp_msg
       /\ gui_pc = "processing" /\ gui_pc' = "processing" /\ used' = used
       /\ running_cells \subseteq InputCell /\ cells \subseteq InputCell
       /\ is_running \in [InputCell -> BOOLEAN]
       /\ outputs \in [InputCell -> SUBSET Output]
  BY <1>t, <1>2 DEF guiVars, cmpVars, Types
<1>11. a.act = "SetRunStatus" =>
         (a = Ends(a.cell) /\ ~a.arg) \/ (a = Starts(a.cell) /\ a.arg)
  BY <1>5 DEF Ends, Starts
<1> HIDE DEF a, rest
<1>12. CASE a.cell \in cells /\ a.act = "SetRunStatus"
            /\ is_running' = [is_running EXCEPT ![a.cell] = a.arg]
            /\ UNCHANGED <<cells, outputs, corrupt>>
  <2>1. \A c \in InputCell : c # a.cell =>
          /\ is_running'[c] = is_running[c]
          /\ Ends(c) \in rest <=> Ends(c) \in Queued
          /\ Starts(c) \in rest <=> Starts(c) \in Queued
    BY <1>1, <1>4, <1>8, <1>10, <1>12
  <2>2. CASE a = Ends(a.cell) /\ ~a.arg
    <3>1. /\ ~is_running'[a.cell]
          /\ Ends(a.cell) \notin rest /\ Starts(a.cell) \notin rest
          /\ a.cell \notin running_cells
      <4>1. a.cell \notin running_cells
        BY <1>t, <1>1, <2>2 DEF StatusInv
      <4> QED
        BY <1>1, <1>4, <1>10, <1>12, <2>2, <4>1
    <3>2. StatusInv'
      BY <1>t, <1>1, <1>3, <1>10, <2>1, <3>1 DEF StatusInv
    <3>3. NoCellIsStuck'
      BY <1>t, <1>3, <1>10, <1>12, <2>1, <3>1 DEF NoCellIsStuck, Ends, Queued
    <3>4. OutputInv'
      BY <1>t, <1>1, <1>3, <1>9, <1>10, <1>12 DEF OutputInv
    <3> QED
      BY <3>2, <3>3, <3>4
  <2>3. CASE a = Starts(a.cell) /\ a.arg
    <3>1. /\ is_running'[a.cell]
          /\ Ends(a.cell) \in rest <=> Ends(a.cell) \in Queued
      BY <1>1, <1>4, <1>8, <1>10, <1>12, <2>3
    <3>2. a.cell \in running_cells \/ Ends(a.cell) \in Queued
      BY <1>t, <1>1, <1>4, <2>3 DEF StatusInv
    <3>3. StatusInv'
      BY <1>t, <1>1, <1>3, <1>10, <2>1, <3>1, <3>2 DEF StatusInv
    <3>4. NoCellIsStuck'
      BY <1>t, <1>3, <1>10, <1>12, <2>1, <3>1, <3>2 DEF NoCellIsStuck, Ends, Queued
    <3>5. OutputInv'
      BY <1>t, <1>1, <1>3, <1>9, <1>10, <1>12 DEF OutputInv
    <3> QED
      BY <3>3, <3>4, <3>5
  <2> QED
    BY <1>11, <1>12, <2>2, <2>3
<1>13. ASSUME is_running' = is_running, cells' \subseteq cells,
              a.act # "SetRunStatus"
       PROVE  StatusInv' /\ NoCellIsStuck'
  <2>1. \A c \in InputCell :
          /\ Ends(c) \in rest <=> Ends(c) \in Queued
          /\ Starts(c) \in rest <=> Starts(c) \in Queued
    BY <1>1, <1>8, <1>13
  <2>2. StatusInv'
    BY <1>t, <1>1, <1>3, <1>10, <1>13, <2>1 DEF StatusInv
  <2>3. NoCellIsStuck'
    BY <1>t, <1>3, <1>10, <1>13, <2>1 DEF NoCellIsStuck, Ends, Queued
  <2> QED
    BY <2>2, <2>3
<1>14. CASE a.cell \in cells /\ a.act \in {"AddCell", "RemoveOutput", "RemoveCell",
                                           "PositionCursor"}
  <2>1. is_running' = is_running /\ cells' \subseteq cells
    BY <1>2, <1>14 DEF docVars
  <2>2. \A c \in InputCell : \A o \in outputs'[c] :
          o.run # used'.runs[c] => RemoveOutput(c, o) \in rest
    <3> SUFFICES ASSUME NEW c \in InputCell, NEW o \in outputs'[c],
                        o.run # used.runs[c]
                 PROVE  RemoveOutput(c, o) \in rest
      BY <1>10
    <3>1. CASE o \in outputs[c]
      <4>1. RemoveOutput(c, o) \in Queued
        BY <1>t, <3>1 DEF OutputInv
      <4>2. RemoveOutput(c, o) # a
        <5> SUFFICES ASSUME RemoveOutput(c, o) = a PROVE FALSE
          OBVIOUS
        <5>1. a.act = "RemoveOutput" /\ a.cell = c /\ a.arg = o
          BY <1>9
        <5>2. outputs' = [outputs EXCEPT ![c] = @ \ {o}]
          BY <1>2, <1>14, <5>1
        <5>3. outputs'[c] = outputs[c] \ {o}
          BY <1>10, <5>2
        <5> QED
          BY <5>3
      <4> QED
        BY <1>1, <4>1, <4>2
    <3>2. CASE o \notin outputs[c]
      <4>1. a.act = "AddCell" /\ c = a.cell /\ o = a.arg
        <5>1. CASE a.act = "AddCell"
          <6>1. outputs' = [outputs EXCEPT ![a.cell] = @ \cup {a.arg}]
            BY <1>2, <1>14, <5>1
          <6> QED
            BY <1>4, <1>10, <3>2, <5>1, <6>1
        <5>2. CASE a.act = "RemoveOutput"
          <6>1. outputs' = [outputs EXCEPT ![a.cell] = @ \ {a.arg}]
            BY <1>2, <1>14, <5>2
          <6> QED
            BY <1>4, <1>10, <3>2, <6>1
        <5>3. CASE a.act = "RemoveCell"
          <6>1. outputs' = [outputs EXCEPT ![a.cell] = {}]
            BY <1>2, <1>14, <5>3
          <6> QED
            BY <1>4, <1>10, <3>2, <6>1
        <5>4. CASE a.act = "PositionCursor"
          <6>1. outputs' = outputs
            BY <1>2, <1>14, <5>4 DEF docVars
          <6> QED
            BY <3>2, <6>1
        <5> QED
          BY <1>14, <5>1, <5>2, <5>3, <5>4
      <4>2. o.run = used.runs[c]
        BY <1>t, <1>1, <4>1 DEF OutputInv
      <4> QED
        BY <4>2
    <3> QED
      BY <3>1, <3>2
  <2>3. OutputInv'
    BY <1>t, <1>1, <1>3, <1>10, <2>2 DEF OutputInv
  <2> QED
    BY <1>13, <1>14, <2>1, <2>3
<1>15. CASE a.cell \notin cells /\ corrupt' = "erased cell" /\ UNCHANGED docVars
  <2>1. cells' = cells /\ is_running' = is_running
    BY <1>15 DEF docVars
  <2>2. \A c \in cells : Ends(c) \in rest <=> Ends(c) \in Queued
    BY <1>1, <1>8, <1>10, <1>15
  <2>3. NoCellIsStuck'
    BY <1>t, <1>3, <1>10, <2>1, <2>2 DEF NoCellIsStuck, Ends, Queued
  <2> QED
    BY <1>15, <2>3
<1> QED
  BY <1>2, <1>12, <1>14, <1>15

(* A cell is registered and its request sent.                               *)
LEMMA SendStatus ==
  ASSUME IInv, execute_cell_register \/ execute_cell_send
  PROVE  StatusInv' /\ OutputInv'
<1>t. Types /\ StatusInv /\ OutputInv
  BY DEF IInv, execute_cell_register, execute_cell_send, Alive
<1>g. gui_cell \in InputCell
  BY <1>t DEF Types, Executing, execute_cell_register, execute_cell_send
<1>1. CASE execute_cell_register
  <2>1. /\ running_cells' = running_cells \cup {gui_cell}
        /\ gui_pc = "register" /\ gui_pc' = "send" /\ gui_cell' = gui_cell
        /\ UNCHANGED <<is_running, outputs, pending_actions, wake, cmp_msg, used>>
    BY <1>1 DEF execute_cell_register, docVars
  <2>2. Queued' = Queued
    BY <2>1 DEF Queued
  <2>3. StatusInv'
    BY <1>t, <1>g, <2>1, <2>2 DEF StatusInv, Types
  <2>4. OutputInv'
    BY <1>t, <2>1, <2>2 DEF OutputInv
  <2> QED
    BY <2>3, <2>4
<1>2. CASE execute_cell_send
  <2>1. /\ pending_actions' = Append(pending_actions, Starts(gui_cell))
        /\ gui_pc = "send" /\ gui_pc' = "idle" /\ wake' = TRUE
        /\ UNCHANGED <<is_running, outputs, running_cells, cmp_msg, used>>
    BY <1>2 DEF execute_cell_send, docVars, cmpVars, Starts
  <2>2. Starts(gui_cell) \in Action /\ Starts(gui_cell).act = "SetRunStatus"
    BY <1>g DEF Action, Starts, SetRunStatus
  <2>3. gui_cell \in running_cells /\ Ends(gui_cell) \notin Queued
    BY <1>t, <2>1 DEF StatusInv
  <2>4. \A c \in InputCell : /\ Starts(gui_cell) # Ends(c)
                             /\ Starts(gui_cell) = Starts(c) => c = gui_cell
    BY DEF Starts, Ends, SetRunStatus
  <2>5. Queued' = Queued \cup {Starts(gui_cell)} /\ EndsLast(pending_actions')
    <3>1. pending_actions \in Seq(Action) /\ EndsLast(pending_actions)
      BY <1>t DEF Types, StatusInv
    <3>2. \A c \in InputCell : Ends(c) \in ToSet(pending_actions) =>
            Starts(gui_cell) # Ends(c) /\ Starts(gui_cell) # Starts(c)
      BY <2>3, <2>4 DEF Queued
    <3> QED
      BY <2>1, <2>2, <3>1, <3>2, QueueAction DEF Queued
  <2>6. \A c \in InputCell : /\ Ends(c) \in Queued' <=> Ends(c) \in Queued
                             /\ c # gui_cell =>
                                  (Starts(c) \in Queued' <=> Starts(c) \in Queued)
    BY <2>4, <2>5
  <2>7. StatusInv'
    <3>1. Starts(gui_cell) \in Queued'
      BY <2>5
    <3> QED
      BY <1>t, <1>g, <2>1, <2>3, <2>5, <2>6, <3>1 DEF StatusInv, Types
  <2>8. OutputInv'
    BY <1>t, <2>1, <2>2, <2>5 DEF OutputInv
  <2> QED
    BY <2>7, <2>8
<1> QED
  BY <1>1, <1>2

(* A cell is deleted.                                                       *)
LEMMA DeleteStatus ==
  ASSUME IInv, NEW c \in InputCell, on_edit_delete(c)
  PROVE  StatusInv' /\ OutputInv'
<1>t. Types /\ StatusInv /\ OutputInv
  BY DEF IInv, on_edit_delete, UserActs, Alive
<1> DEFINE t == <<PositionCursor(c), RemoveCell(c)>>
<1>1. /\ pending_actions' = pending_actions \o t
      /\ gui_pc = "idle" /\ gui_pc' = "idle" /\ wake' = TRUE
      /\ used' = [used EXCEPT !.deletes = @ + 1]
      /\ UNCHANGED <<is_running, outputs, running_cells, cmp_msg>>
  BY DEF on_edit_delete, UserActs, docVars, guiVars, cmpVars
<1>2. t \in Seq(Action)
  BY DEF Action, PositionCursor, RemoveCell
<1>3. ToSet(t) = {PositionCursor(c), RemoveCell(c)}
  BY DEF ToSet
<1>4. \A a \in ToSet(t) : a.act \notin {"SetRunStatus", "AddCell"}
  BY <1>3 DEF PositionCursor, RemoveCell
<1> HIDE DEF t
<1>5. \A d \in InputCell : Ends(d) \notin ToSet(t) /\ Starts(d) \notin ToSet(t)
  BY <1>4 DEF Ends, Starts, SetRunStatus
<1>6. EndsLast(t)
  BY <1>5 DEF EndsLast, ToSet
<1>7. Queued' = Queued \cup ToSet(t) /\ EndsLast(pending_actions')
  <2>1. pending_actions \in Seq(Action) /\ EndsLast(pending_actions)
    BY <1>t DEF Types, StatusInv
  <2> QED
    BY <1>1, <1>2, <1>5, <1>6, <2>1, QueueActions DEF Queued
<1>8. StatusInv'
  BY <1>t, <1>1, <1>5, <1>7 DEF StatusInv, Types
<1>9. OutputInv'
  <2>1. used'.runs = used.runs
    BY <1>t, <1>1 DEF Types, Bounds
  <2> QED
    BY <1>t, <1>1, <1>4, <1>7, <2>1 DEF OutputInv
<1> QED
  BY <1>8, <1>9

(* The compute thread takes a message ...                                   *)
LEMMA MessageStatus ==
  ASSUME IInv, on_message
  PROVE  StatusInv' /\ OutputInv'
<1>t. /\ Types /\ LineInv /\ StatusInv /\ OutputInv
  BY DEF IInv, on_message, Alive
<1> DEFINE m == Head(to_client)
           c == m.job.cell
<1>1. m \in Reply /\ m.job \in Told
  BY <1>t, ReadAnswer DEF on_message, Types, Told
<1>2. c \in running_cells /\ c \in InputCell /\ m.job.run = used.runs[c]
      /\ (Executing => c # gui_cell)
  <2>1. m.job \in AllJobs
    BY <1>1 DEF AllJobs
  <2> HIDE DEF m
  <2> QED
    BY <1>t, <2>1 DEF LineInv, Registered, ExecutedIsFree, Types
<1>3. /\ cmp_msg' = m
      /\ \/ /\ running_cells' = running_cells \ {c}
            /\ pending_actions' = Append(pending_actions, Ends(c))
         \/ running_cells' = running_cells /\ pending_actions' = pending_actions
      /\ UNCHANGED <<is_running, outputs, wake, gui_pc, gui_cell, used>>
  BY <1>2 DEF on_message, docVars, guiVars, Ends
<1> HIDE DEF m, c
<1>4. OutputInv' /\ StatusInv'
  <2>1. CASE running_cells' = running_cells /\ pending_actions' = pending_actions
    <3>1. Queued' = Queued
      BY <2>1 DEF Queued
    <3>2. StatusInv'
      BY <1>t, <1>3, <2>1, <3>1 DEF StatusInv
    <3>3. OutputInv'
      BY <1>t, <1>2, <1>3, <2>1, <3>1 DEF OutputInv, c
    <3> QED
      BY <3>2, <3>3
  <2>2. CASE /\ running_cells' = running_cells \ {c}
             /\ pending_actions' = Append(pending_actions, Ends(c))
    <3>1. Ends(c) \in Action /\ Ends(c).act = "SetRunStatus"
      BY <1>2 DEF Action, Ends, SetRunStatus
    <3>2. Ends(c) \notin Queued
      BY <1>t, <1>2 DEF StatusInv
    <3>3. \A d \in InputCell : /\ Ends(c) # Starts(d)
                               /\ Ends(c) = Ends(d) => d = c
      BY DEF Starts, Ends, SetRunStatus
    <3>4. Queued' = Queued \cup {Ends(c)} /\ EndsLast(pending_actions')
      <4>1. pending_actions \in Seq(Action) /\ EndsLast(pending_actions)
        BY <1>t DEF Types, StatusInv
      <4>2. \A d \in InputCell : Ends(d) \in ToSet(pending_actions) =>
              Ends(c) # Ends(d) /\ Ends(c) # Starts(d)
        BY <3>2, <3>3 DEF Queued
      <4> QED
        BY <2>2, <3>1, <4>1, <4>2, QueueAction DEF Queued
    <3>5. \A d \in InputCell : /\ Starts(d) \in Queued' <=> Starts(d) \in Queued
                               /\ d # c => (Ends(d) \in Queued' <=> Ends(d) \in Queued)
      BY <3>3, <3>4
    <3>6. Ends(c) \in Queued'
      BY <3>4
    <3>7. is_running[c] \/ Starts(c) \in Queued
      BY <1>t, <1>2 DEF StatusInv, Executing
    <3>8. StatusInv'
      BY <1>t, <1>2, <1>3, <2>2, <3>4, <3>5, <3>6, <3>7
         DEF StatusInv, Executing, Types
    <3>9. OutputInv'
      BY <1>t, <1>2, <1>3, <3>1, <3>4 DEF OutputInv, c
    <3> QED
      BY <3>8, <3>9
  <2> QED
    BY <1>3, <2>1, <2>2
<1> QED
  BY <1>4

(* ... and queues its output.                                               *)
LEMMA MessageOutputStatus ==
  ASSUME IInv, on_message_output
  PROVE  StatusInv' /\ OutputInv'
<1>t. /\ Types /\ LineInv /\ StatusInv /\ OutputInv
  BY DEF IInv, on_message_output, Alive
<1> DEFINE c == cmp_msg.job.cell
           add == AddCell(c, [run |-> cmp_msg.job.run, type |-> cmp_msg.type])
           t == <<add, PositionCursor(c)>>
<1>1. /\ cmp_msg # NoReply /\ cmp_msg' = NoReply /\ wake' = TRUE
      /\ pending_actions' \in {pending_actions, pending_actions \o t,
                               Append(pending_actions, add)}
      /\ pending_actions' # pending_actions => add \in Action
      /\ UNCHANGED <<is_running, outputs, running_cells, gui_pc, gui_cell, used>>
  <2>1. /\ cmp_msg # NoReply /\ cmp_msg' = NoReply /\ wake' = TRUE
        /\ pending_actions' \in {pending_actions, pending_actions \o t,
                                 Append(pending_actions, add)}
        /\ pending_actions' # pending_actions =>
             cmp_msg.type # "fault"
        /\ UNCHANGED <<is_running, outputs, running_cells, gui_pc, gui_cell, used>>
    BY DEF on_message_output, docVars, guiVars
  <2>2. cmp_msg \in Reply
    BY <1>t, <2>1 DEF Types
  <2>3. c \in InputCell /\ (cmp_msg.type # "fault" =>
          [run |-> cmp_msg.job.run, type |-> cmp_msg.type] \in Output)
    BY <2>2 DEF Reply, Job, Output, Final
  <2>4. cmp_msg.type # "fault" => add \in Action
    BY <2>3 DEF Action, AddCell
  <2> HIDE DEF add, t
  <2> QED
    BY <2>1, <2>4
<1>2. /\ add.act = "AddCell" /\ add.cell = c /\ add.arg.run = cmp_msg.job.run
      /\ PositionCursor(c).act = "PositionCursor"
  BY DEF AddCell, PositionCursor
<1>3. add \in Action => PositionCursor(c) \in Action
  BY <1>2 DEF Action, PositionCursor
<1>4. cmp_msg.job.run = used.runs[c] /\ gui_pc # "dialog"
  BY <1>t, <1>1 DEF OutputInv, LineInv, Disconnected, NothingGoesOn
<1> HIDE DEF add, c
<1>5. /\ Queued \subseteq Queued'
      /\ Queued' \subseteq Queued \cup {add, PositionCursor(c)}
      /\ EndsLast(pending_actions')
  <2>1. pending_actions \in Seq(Action) /\ EndsLast(pending_actions)
    BY <1>t DEF Types, StatusInv
  <2>2. \A d \in InputCell : /\ add # Ends(d) /\ add # Starts(d)
                             /\ PositionCursor(c) # Ends(d) /\ PositionCursor(c) # Starts(d)
    BY <1>2 DEF Ends, Starts, SetRunStatus
  <2>3. CASE pending_actions' = pending_actions
    BY <2>1, <2>3 DEF Queued
  <2>4. CASE add \in Action /\ pending_actions' = Append(pending_actions, add)
    BY <2>1, <2>2, <2>4, QueueAction DEF Queued
  <2>5. CASE add \in Action /\ pending_actions' = pending_actions \o t
    <3>1. t \in Seq(Action)
      BY <1>3, <2>5
    <3>2. ToSet(t) = {add, PositionCursor(c)}
      BY DEF ToSet
    <3>3. EndsLast(t)
      BY <2>2 DEF EndsLast
    <3> HIDE DEF t
    <3> QED
      BY <2>1, <2>2, <2>5, <3>1, <3>2, <3>3, QueueActions DEF Queued
  <2> QED
    BY <1>1, <2>3, <2>4, <2>5
<1>6. \A d \in InputCell : /\ Ends(d) \in Queued' <=> Ends(d) \in Queued
                           /\ Starts(d) \in Queued' <=> Starts(d) \in Queued
  <2>1. \A d \in InputCell : Ends(d).act = "SetRunStatus" /\ Starts(d).act = "SetRunStatus"
    BY DEF Ends, Starts, SetRunStatus
  <2> QED
    BY <1>2, <1>5, <2>1
<1>7. StatusInv'
  BY <1>t, <1>1, <1>5, <1>6 DEF StatusInv, Types, Executing
<1>8. OutputInv'
  BY <1>t, <1>1, <1>2, <1>4, <1>5 DEF OutputInv
<1> QED
  BY <1>7, <1>8

(* All registered cells are freed.                                          *)
LEMMA FailStatus ==
  ASSUME IInv, on_fail
  PROVE  StatusInv' /\ OutputInv'
<1>t. Types /\ StatusInv /\ OutputInv
  BY DEF IInv, on_fail, Alive
<1> DEFINE ends == SetToSeq({SetRunStatus(c, FALSE) : c \in running_cells})
<1>1. /\ ends \in Seq(Action)
      /\ ToSet(ends) = {Ends(c) : c \in running_cells}
      /\ \A c \in InputCell : Ends(c) \in ToSet(ends) => c \in running_cells
      /\ \A c \in InputCell : Starts(c) \notin ToSet(ends)
      /\ EndsLast(ends)
  BY <1>t, AllEnds
<1>2. /\ pending_actions' = pending_actions \o ends /\ running_cells' = {}
      /\ wake' = TRUE /\ gui_pc \notin {"register", "send"}
      /\ UNCHANGED <<is_running, outputs, gui_pc, gui_cell, cmp_msg, used>>
  BY DEF on_fail, all_cells_nonrunning, docVars, guiVars
<1> HIDE DEF ends
<1>3. \A c \in running_cells : Ends(c) \notin Queued
                               /\ (is_running[c] \/ Starts(c) \in Queued)
  BY <1>t, <1>2 DEF StatusInv
<1>4. Queued' = Queued \cup ToSet(ends) /\ EndsLast(pending_actions')
  <2>1. pending_actions \in Seq(Action) /\ EndsLast(pending_actions)
    BY <1>t DEF Types, StatusInv
  <2>2. \A c \in InputCell : Ends(c) \in ToSet(pending_actions) =>
          Ends(c) \notin ToSet(ends) /\ Starts(c) \notin ToSet(ends)
    BY <1>1, <1>3 DEF Queued
  <2> QED
    BY <1>1, <1>2, <2>1, <2>2, QueueActions DEF Queued
<1>5. \A a \in ToSet(ends) : a.act = "SetRunStatus"
  BY <1>1 DEF Ends, SetRunStatus
<1>6. \A c \in running_cells : Ends(c) \in Queued'
  BY <1>1, <1>4
<1>7. StatusInv'
  <2>1. \A c \in InputCell :
          /\ Ends(c) \in Queued' => is_running[c] \/ Starts(c) \in Queued'
          /\ is_running[c] \/ Starts(c) \in Queued' => Ends(c) \in Queued'
    BY <1>t, <1>1, <1>3, <1>4, <1>6 DEF StatusInv
  <2>2. \A c \in InputCell : Starts(c) \in Queued' =>
          gui_pc = "processing" \/ gui_pc = "idle"
    BY <1>t, <1>1, <1>4 DEF StatusInv
  <2>3. \A c \in InputCell : Starts(c) \in Queued' =>
          gui_pc' = "processing" \/ (wake' /\ gui_pc' = "idle")
    BY <1>2, <2>2
  <2>4. running_cells' = {} /\ is_running' = is_running
        /\ gui_pc' \notin {"register", "send"}
    BY <1>2
  <2> QED
    BY <1>4, <2>1, <2>3, <2>4 DEF StatusInv
<1>8. OutputInv'
  BY <1>t, <1>2, <1>4, <1>5 DEF OutputInv
<1> QED
  BY <1>7, <1>8

(* Every step that queues nothing and executes no action.                   *)
LEMMA QuietSteps ==
  ASSUME IInv,
         \/ key_press \/ stop \/ restart_kernel \/ terminate \/ dialog_dismissed
         \/ process_todo_queue \/ process_todo_queue_ends
         \/ process_todo_queue_reentered \/ on_open \/ on_close
         \/ ServerMoves \/ ServerRuns \/ kernel_crash
  PROVE  StatusInv' /\ OutputInv' /\ corrupt' = corrupt
<1>t. Types /\ StatusInv /\ OutputInv /\ corrupt = "no"
  BY DEF IInv, UserActs, Alive, key_press, stop, restart_kernel, terminate,
     dialog_dismissed, process_todo_queue, process_todo_queue_ends,
     process_todo_queue_reentered, on_open, on_close, ServerMoves, ServerRuns,
     kernel_crash, srv_receives, srv_starts, srv_displays, srv_finishes, srv_fails,
     srv_faults, SrvSends
<1>1. /\ UNCHANGED <<is_running, outputs, running_cells, pending_actions, cmp_msg,
                     gui_cell, corrupt>>
      /\ gui_pc' = gui_pc \/ (/\ gui_pc \notin {"register", "send"}
                              /\ gui_pc' \notin {"register", "send"})
  <2>1. CASE \/ key_press \/ stop \/ restart_kernel \/ terminate
             \/ dialog_dismissed \/ process_todo_queue \/ process_todo_queue_ends
             \/ process_todo_queue_reentered \/ on_open \/ on_close
    BY <2>1 DEF UserActs, key_press, stop, restart_kernel, terminate,
       dialog_dismissed, process_todo_queue, process_todo_queue_ends,
       process_todo_queue_reentered, on_open, on_close, docVars, guiVars, cmpVars
  <2>2. CASE ServerMoves \/ ServerRuns \/ kernel_crash
    BY <2>2 DEF ServerMoves, ServerRuns, kernel_crash, srv_receives, srv_starts,
       srv_displays, srv_finishes, srv_fails, srv_faults, SrvSends, docVars,
       guiVars, cmpVars
  <2> QED
    BY <2>1, <2>2
<1>2. /\ (gui_pc = "processing" \/ (wake /\ gui_pc = "idle")) =>
           pending_actions = <<>> \/ gui_pc' = "processing" \/ (wake' /\ gui_pc' = "idle")
      /\ (wake \/ gui_pc = "processing") /\ gui_pc # "dialog" =>
           pending_actions = <<>> \/ wake' \/ gui_pc' = "processing"
      /\ gui_pc # "dialog" => pending_actions = <<>> \/ gui_pc' # "dialog"
  <2>1. CASE key_press \/ process_todo_queue
    <3>1. gui_pc' = "processing"
      BY <2>1 DEF key_press, process_todo_queue
    <3> QED
      BY <3>1
  <2>3. CASE stop \/ terminate
    <3>1. UNCHANGED <<wake, gui_pc>>
      BY <2>3 DEF stop, terminate, guiVars
    <3> QED
      BY <3>1
  <2>4. CASE restart_kernel \/ on_open \/ on_close
    <3>1. wake' = TRUE /\ gui_pc' = gui_pc
      BY <2>4 DEF restart_kernel, on_open, on_close, guiVars
    <3> QED
      BY <3>1
  <2>5. CASE dialog_dismissed \/ process_todo_queue_reentered
    <3>1. gui_pc = "dialog"
      BY <2>5 DEF dialog_dismissed, process_todo_queue_reentered
    <3> QED
      BY <3>1
  <2>6. CASE process_todo_queue_ends
    BY <2>6 DEF process_todo_queue_ends
  <2>2. CASE ServerMoves \/ ServerRuns \/ kernel_crash
    <3>1. UNCHANGED <<wake, gui_pc>>
      BY <2>2 DEF ServerMoves, ServerRuns, kernel_crash, srv_receives, srv_starts,
         srv_displays, srv_finishes, srv_fails, srv_faults, SrvSends, guiVars
    <3> QED
      BY <3>1
  <2> QED
    BY <2>1, <2>2, <2>3, <2>4, <2>5, <2>6
<1>3. used'.runs = used.runs
  <2>1. used' \in {used, [used EXCEPT !.restarts = @ + 1],
                   [used EXCEPT !.faults = @ + 1], [used EXCEPT !.stops = @ + 1]}
    BY DEF key_press, stop, restart_kernel, terminate, dialog_dismissed,
       process_todo_queue, process_todo_queue_ends, process_todo_queue_reentered,
       on_open, on_close, ServerMoves, ServerRuns, kernel_crash, srv_receives,
       srv_starts, srv_displays, srv_finishes, srv_fails, srv_faults
  <2> QED
    BY <1>t, <2>1 DEF Types, Bounds
<1>4. StatusInv'
  BY <1>t, <1>1, <1>2, QuietStatus
<1>5. OutputInv'
  BY <1>t, <1>1, <1>2, <1>3, QuietOutput
<1> QED
  BY <1>1, <1>4, <1>5

LEMMA StatusShowsNoneStuck ==
  ASSUME Types, StatusInv
  PROVE  NoCellIsStuck
BY DEF Types, StatusInv, NoCellIsStuck, Queued, Ends

LEMMA QueueStep ==
  ASSUME UserWaits, IInv, [Next]_vars
  PROVE  (corrupt' = "no" => StatusInv' /\ OutputInv') /\ NoCellIsStuck'
<1>T. Types'
  BY TypesStep
<1>1. CASE StatusInv' /\ OutputInv'
  <2>1. Types' /\ StatusInv' => NoCellIsStuck'
    BY StatusShowsNoneStuck, PTL
  <2> QED
    BY <1>T, <1>1, <2>1
<1>2. CASE execute_action
  BY <1>2, ActionStatus
<1>3. CASE UNCHANGED vars
  <2>1. UNCHANGED <<cells, is_running, outputs, running_cells, pending_actions, cmp_msg,
                    gui_pc, gui_cell, corrupt, wake, used>>
    BY <1>3 DEF vars, docVars, guiVars, cmpVars
  <2>2. Queued' = Queued
    BY <2>1 DEF Queued
  <2> QED
    BY <2>1, <2>2 DEF IInv, StatusInv, OutputInv, NoCellIsStuck
<1>4. ASSUME NEW c \in InputCell, cell_content_execute(c) \/ on_edit_delete(c)
      PROVE  StatusInv' /\ OutputInv'
  BY <1>4, ExecuteStatus, DeleteStatus
<1>5. CASE execute_cell_register \/ execute_cell_send
  BY <1>1, <1>5, SendStatus
<1>6. CASE on_message
  BY <1>1, <1>6, MessageStatus
<1>7. CASE on_message_output
  BY <1>1, <1>7, MessageOutputStatus
<1>8. CASE on_fail
  BY <1>1, <1>8, FailStatus
<1>9. CASE \/ key_press \/ stop \/ restart_kernel \/ terminate \/ dialog_dismissed
           \/ process_todo_queue \/ process_todo_queue_ends
           \/ process_todo_queue_reentered \/ on_open \/ on_close
           \/ ServerMoves \/ ServerRuns \/ kernel_crash
  BY <1>1, <1>9, QuietSteps
<1> QED
  BY <1>1, <1>2, <1>3, <1>4, <1>5, <1>6, <1>7, <1>8, <1>9 DEF Next, User, GUI, Compute

LEMMA InitIInv == Init => IInv
<1> SUFFICES ASSUME Init PROVE IInv
  OBVIOUS
<1> USE DEF Init
<1>e. /\ JobsIn(<<>>) = {} /\ Answered(<<>>) = {} /\ ToSet(<<>>) = {}
      /\ SentOnce(<<>>) /\ WaitsOnce(<<>>) /\ ClosedLast(<<>>) /\ EndsLast(<<>>)
  BY DEF JobsIn, Answered, ToSet, SentOnce, WaitsOnce, ClosedLast, EndsLast
<1>1. Types
  <2>1. /\ <<>> \in Seq(Action) /\ <<>> \in Seq(Job)
        /\ <<>> \in Seq(Request) /\ <<>> \in Seq(Reply)
    OBVIOUS
  <2>2. used \in Bounds
    BY DEF Bounds
  <2> QED
    BY <2>1, <2>2, FS_EmptySet DEF Types, Executing
<1>2. /\ Sent = {} /\ Waiting = {} /\ Runs = {} /\ Closed = {} /\ Told = {}
      /\ Queued = {}
  BY <1>e DEF Sent, Waiting, Runs, Closed, Told, Queued
<1>3. LineInv
  BY <1>e, <1>2 DEF LineInv, Stages, OneStage, Apart, Registered, ExecutedIsFree,
     Executing, Disconnected, AllJobs
<1>4. StatusInv /\ OutputInv
  BY <1>e, <1>2 DEF StatusInv, OutputInv
<1>5. NoCellIsStuck
  BY DEF NoCellIsStuck
<1> QED
  BY <1>1, <1>3, <1>4, <1>5 DEF IInv

(* The line of jobs, the types and the queue of actions are as described,   *)
(* as long as the user waits for the GUI.                                   *)
THEOREM IInvIsInvariant == ASSUME UserWaits PROVE Spec => []IInv
<1>1. IInv /\ [Next]_vars => IInv'
  <2> SUFFICES ASSUME IInv, [Next]_vars PROVE IInv'
    OBVIOUS
  <2>1. Types' /\ LineInv'
    BY TypesStep, LineStep
  <2>2. (corrupt' = "no" => StatusInv' /\ OutputInv') /\ NoCellIsStuck'
    BY QueueStep
  <2> QED
    BY <2>1, <2>2 DEF IInv
<1> QED
  BY <1>1, InitIInv, PTL DEF Spec

-----------------------------------------------------------------------------
(* Every message finds its cell in running_cells.                           *)
THEOREM RepliesFindTheirCells == ASSUME UserWaits PROVE Spec => []EveryReplyFindsItsCell
<1>1. IInv => EveryReplyFindsItsCell
  <2> SUFFICES ASSUME IInv, NEW c \in InputCell,
                      JobsOf(c) # {}
                        \/ \E i \in DOMAIN to_client : to_client[i].job.cell = c
               PROVE  c \in running_cells
    BY DEF EveryReplyFindsItsCell
  <2>t. Types /\ LineInv
    BY DEF IInv
  <2>n. c # NoCell /\ NoJob.cell = NoCell
    BY NotebookBounds DEF NoJob
  <2>1. \/ \E i \in DOMAIN to_server : to_server[i].job.cell = c
        \/ \E i \in DOMAIN srv_queue : srv_queue[i].cell = c
        \/ srv_running.cell = c
        \/ \E i \in DOMAIN to_client : to_client[i].job.cell = c
    BY DEF JobsOf
  <2>2. \E j \in AllJobs : j.cell = c
    BY <2>n, <2>1 DEF AllJobs, Sent, Waiting, Runs, Told, JobsIn, ToSet
  <2> QED
    BY <2>t, <2>2 DEF LineInv, Registered
<1> QED
  BY <1>1, IInvIsInvariant, PTL

LEMMA AtMostOne ==
  ASSUME NEW S, \A x, y \in S : x = y
  PROVE  Cardinality(S) <= 1
<1>1. CASE S = {}
  BY <1>1, FS_EmptySet
<1>2. CASE S # {}
  <2>1. PICK x \in S : S = {x}
    BY <1>2
  <2> QED
    BY <2>1, FS_Singleton
<1> QED
  BY <1>1, <1>2

(* A cell is with the server at most once.                                  *)
THEOREM OneJobForEveryCell == ASSUME UserWaits PROVE Spec => []OneJobPerCell
<1>1. IInv => OneJobPerCell
  <2> SUFFICES ASSUME IInv, NEW c \in InputCell
               PROVE  Cardinality(JobsOf(c)) <= 1
    BY DEF OneJobPerCell
  <2> DEFINE inTransit == {i \in DOMAIN to_server : to_server[i].job.cell = c}
             inQueue   == {i \in DOMAIN srv_queue : srv_queue[i].cell = c}
             isClosed  == {i \in DOMAIN to_client :
                             to_client[i].job.cell = c /\ Closes(to_client[i])}
  <2>t. Types /\ Stages
    BY DEF IInv, LineInv
  <2>n. c # NoCell /\ NoJob.cell = NoCell
    BY NotebookBounds DEF NoJob
  <2>d. /\ DOMAIN to_server \subseteq Nat /\ DOMAIN srv_queue \subseteq Nat
        /\ DOMAIN to_client \subseteq Nat
    BY <2>t DEF Types
  <2>1. \A i, k \in inTransit : i = k
    <3> SUFFICES ASSUME NEW i \in inTransit, NEW k \in inTransit, i < k PROVE FALSE
      BY <2>d
    <3> QED
      BY <2>t, <2>n DEF Stages, SentOnce
  <2>2. \A i, k \in inQueue : i = k
    <3> SUFFICES ASSUME NEW i \in inQueue, NEW k \in inQueue, i < k PROVE FALSE
      BY <2>d
    <3> QED
      BY <2>t DEF Stages, WaitsOnce
  <2>3. \A i, k \in isClosed : i = k
    <3> SUFFICES ASSUME NEW i \in isClosed, NEW k \in isClosed, i < k PROVE FALSE
      BY <2>d
    <3> QED
      BY <2>t DEF Stages, ClosedLast
  <2>4. /\ inTransit # {} => \E j \in Sent : j.cell = c
        /\ inQueue # {} => \E j \in Waiting : j.cell = c
        /\ srv_running.cell = c => \E j \in Runs : j.cell = c
        /\ isClosed # {} => \E j \in Closed : j.cell = c
    BY <2>n DEF Sent, Waiting, Runs, Closed, JobsIn, ToSet, Answered
  <2>5. JobsOf(c) = ({"sent"} \X inTransit) \cup ({"waiting"} \X inQueue)
          \cup (IF srv_running.cell = c THEN {<<"running", 1>>} ELSE {})
          \cup ({"answered"} \X isClosed)
    BY DEF JobsOf, Closes
  <2> HIDE DEF inTransit, inQueue, isClosed
  <2>6. \A x, y \in JobsOf(c) : x = y
    BY <2>t, <2>1, <2>2, <2>3, <2>4, <2>5 DEF Stages, OneStage, Apart
  <2> QED
    BY <2>6, AtMostOne
<1> QED
  BY <1>1, IInvIsInvariant, PTL

(* A cell that is shown as running is registered or about to be freed.      *)
THEOREM NoneIsStuck == ASSUME UserWaits PROVE Spec => []NoCellIsStuck
<1>1. IInv => NoCellIsStuck
  BY DEF IInv
<1> QED
  BY <1>1, IInvIsInvariant, PTL

(* When nothing is left to do, all output is that of the last run.          *)
THEOREM LastRunsOutput == ASSUME UserWaits PROVE Spec => []OutputIsOfTheLastRun
<1>1. IInv => OutputIsOfTheLastRun
  <2> SUFFICES ASSUME IInv, pending_actions = <<>>, Alive,
                      NEW c \in cells, NEW o \in outputs[c]
               PROVE  o.run = used.runs[c]
    BY DEF OutputIsOfTheLastRun
  <2>1. OutputInv /\ c \in InputCell
    BY DEF IInv, Alive, Types
  <2>2. Queued = {}
    BY DEF Queued, ToSet
  <2> QED
    BY <2>1, <2>2 DEF OutputInv
<1> QED
  BY <1>1, IInvIsInvariant, PTL
=============================================================================
