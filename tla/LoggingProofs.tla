--------------------------- MODULE LoggingProofs ---------------------------
(***************************************************************************)
(* Proofs about the logging library, for any threads, process ids and      *)
(* bounds: a row is uploaded once; the text of an entry is stored once;    *)
(* and what flows between the database and the logging server.             *)
(***************************************************************************)
EXTENDS Logging, SequenceTheorems, TLAPS

(* Types of the database and of what is written to it.                      *)
DbTypes ==
  /\ runs \in Seq(RunRow) /\ logs \in Seq(LogRow)
  /\ this_log \in Entry \cup {NoEntry} /\ out \in Seq(Entry)
  /\ logged \in [Thread -> 0..MaxLogs]
  /\ log_pc \in [Thread -> {"idle", "stream", "flush", "sync", "clear"}]
  /\ \A t \in Thread : log_pc[t] = "stream" => logged[t] \in 1..MaxLogs

(* A row that can still be selected for an upload never was.                *)
OneAttempt(table) ==
  \A i \in DOMAIN table : /\ table[i].uploads \in {0, 1}
                          /\ table[i].status = 0 => table[i].uploads = 0

IInv == DbTypes /\ OneAttempt(runs) /\ OneAttempt(logs)

-----------------------------------------------------------------------------
(* A row after its first attempt.                                           *)
LEMMA AttemptedRow ==
  ASSUME NEW r \in RunRow \cup LogRow, NEW n,
         n = [r EXCEPT !.status = -1, !.uploads = 1]
  PROVE  /\ r \in RunRow => n \in RunRow
         /\ r \in LogRow => n \in LogRow
         /\ n.uploads \in {0, 1} /\ n.status # 0
<1>1. ASSUME r \in RunRow
      PROVE  n \in RunRow /\ n.status = -1 /\ n.uploads = 1
  BY <1>1 DEF RunRow
<1>2. ASSUME r \in LogRow
      PROVE  n \in LogRow /\ n.status = -1 /\ n.uploads = 1
  BY <1>2 DEF LogRow
<1>3. n.status = -1 /\ n.uploads = 1
  BY <1>1, <1>2
<1> QED
  BY <1>1, <1>2, <1>3

(* What an upload and a confirmation do to a table.                         *)
LEMMA AttemptedTable ==
  ASSUME NEW R, R = RunRow \/ R = LogRow, NEW table \in Seq(R), OneAttempt(table)
  PROVE  Attempted(table) \in Seq(R) /\ OneAttempt(Attempted(table))
<1> DEFINE new == Attempted(table)
<1>1. DOMAIN new = 1..Len(table) /\ DOMAIN table = 1..Len(table) /\ Len(table) \in Nat
  BY DEF Attempted
<1>2. ASSUME NEW i \in 1..Len(table)
      PROVE  /\ new[i] \in R /\ new[i].uploads \in {0, 1}
             /\ new[i].status = 0 => new[i].uploads = 0
  <2>1. table[i] \in R /\ i \in DOMAIN table
    BY <1>1, <1>2
  <2>2. table[i].uploads \in {0, 1} /\ (table[i].status = 0 => table[i].uploads = 0)
    BY <2>1 DEF OneAttempt
  <2>3. CASE table[i].status = 0
    <3>1. new[i] = [table[i] EXCEPT !.status = @ - 1, !.uploads = @ + 1]
      BY <1>1, <2>1, <2>3 DEF Attempted
    <3>2. CASE R = RunRow
      <4>1. table[i].status - 1 = -1 /\ table[i].uploads + 1 = 1
        BY <2>2, <2>3
      <4>2. new[i] = [table[i] EXCEPT !.status = -1, !.uploads = 1]
        BY <3>1, <4>1
      <4> QED BY <2>1, <3>2, <4>2, AttemptedRow
    <3>3. CASE R = LogRow
      <4>1. table[i].status - 1 = -1 /\ table[i].uploads + 1 = 1
        BY <2>2, <2>3
      <4>2. new[i] = [table[i] EXCEPT !.status = -1, !.uploads = 1]
        BY <3>1, <4>1
      <4> QED BY <2>1, <3>3, <4>2, AttemptedRow
    <3> QED BY <3>2, <3>3
  <2>4. CASE table[i].status # 0
    <3>1. new[i] = table[i]
      BY <1>1, <2>1, <2>4 DEF Attempted
    <3> QED BY <2>1, <2>2, <3>1
  <2> QED BY <2>3, <2>4
<1>3. new \in Seq(R)
  <2>1. new = [i \in 1..Len(table) |-> new[i]]
    BY <1>1 DEF Attempted
  <2> QED BY <1>1, <1>2, <2>1
<1> QED
  BY <1>1, <1>2, <1>3 DEF OneAttempt

LEMMA ConfirmedTable ==
  ASSUME NEW R, R = RunRow \/ R = LogRow, NEW table \in Seq(R), OneAttempt(table),
         NEW ids
  PROVE  Confirmed(table, ids) \in Seq(R) /\ OneAttempt(Confirmed(table, ids))
<1> DEFINE new == Confirmed(table, ids)
<1>1. DOMAIN new = 1..Len(table) /\ DOMAIN table = 1..Len(table) /\ Len(table) \in Nat
  BY DEF Confirmed
<1>2. ASSUME NEW i \in 1..Len(table)
      PROVE  /\ new[i] \in R /\ new[i].uploads \in {0, 1}
             /\ new[i].status = 0 => new[i].uploads = 0
  <2>1. table[i] \in R /\ i \in DOMAIN table
    BY <1>1, <1>2
  <2>2. table[i].uploads \in {0, 1} /\ (table[i].status = 0 => table[i].uploads = 0)
    BY <2>1 DEF OneAttempt
  <2>3. CASE i \in ids
    <3>1. new[i] = [table[i] EXCEPT !.status = 1]
      BY <1>1, <2>1, <2>3 DEF Confirmed
    <3>2. CASE R = RunRow
      BY <2>1, <2>2, <3>1, <3>2 DEF RunRow
    <3>3. CASE R = LogRow
      BY <2>1, <2>2, <3>1, <3>3 DEF LogRow
    <3> QED BY <3>2, <3>3
  <2>4. CASE i \notin ids
    <3>1. new[i] = table[i]
      BY <1>1, <2>1, <2>4 DEF Confirmed
    <3> QED BY <2>1, <2>2, <3>1
  <2> QED BY <2>3, <2>4
<1>3. new \in Seq(R)
  <2>1. new = [i \in 1..Len(table) |-> new[i]]
    BY <1>1 DEF Confirmed
  <2> QED BY <1>1, <1>2, <2>1
<1> QED
  BY <1>1, <1>2, <1>3 DEF OneAttempt

(* A new row was not uploaded yet.                                          *)
LEMMA AppendedTable ==
  ASSUME NEW R, NEW table \in Seq(R), OneAttempt(table), NEW row \in R,
         row.uploads = 0
  PROVE  Append(table, row) \in Seq(R) /\ OneAttempt(Append(table, row))
<1>1. Append(table, row) \in Seq(R) /\ DOMAIN table = 1..Len(table)
      /\ Len(table) \in Nat /\ DOMAIN Append(table, row) = 1..(Len(table) + 1)
  OBVIOUS
<1>2. ASSUME NEW i \in 1..(Len(table) + 1)
      PROVE  /\ Append(table, row)[i].uploads \in {0, 1}
             /\ Append(table, row)[i].status = 0 => Append(table, row)[i].uploads = 0
  <2>1. CASE i = Len(table) + 1
    BY <1>1, <2>1
  <2>2. CASE i \in DOMAIN table
    <3>1. Append(table, row)[i] = table[i]
      BY <1>1, <2>2
    <3> QED BY <2>2, <3>1 DEF OneAttempt
  <2> QED BY <1>1, <2>1, <2>2
<1> QED
  BY <1>1, <1>2 DEF OneAttempt

-----------------------------------------------------------------------------
LEMMA InitIInv == Init => IInv
<1> SUFFICES ASSUME Init PROVE IInv
  OBVIOUS
<1>1. DbTypes
  BY LoggingBounds DEF Init, DbTypes
<1>2. OneAttempt(runs) /\ OneAttempt(logs)
  BY DEF Init, OneAttempt
<1> QED
  BY <1>1, <1>2 DEF IInv

(* The end of the process leaves the tables alone and empties the rest.     *)
LEMMA EndedProcess ==
  ASSUME IInv, ProcessEnds, UNCHANGED logged,
         runs' \in Seq(RunRow), OneAttempt(runs'),
         logs' \in Seq(LogRow), OneAttempt(logs')
  PROVE  IInv'
<1>1. DbTypes'
  BY DEF IInv, DbTypes, ProcessEnds
<1> QED
  BY <1>1 DEF IInv, OneAttempt

(* Either synchronisation, whether the send succeeds or throws.             *)
LEMMA Synchronised ==
  ASSUME IInv, sync_runs \/ sync_logs
  PROVE  /\ runs' \in Seq(RunRow) /\ OneAttempt(runs')
         /\ logs' \in Seq(LogRow) /\ OneAttempt(logs')
         /\ ProcessEnds \/ UNCHANGED <<this_log, out>>
<1>0. runs \in Seq(RunRow) /\ logs \in Seq(LogRow) /\ OneAttempt(runs) /\ OneAttempt(logs)
  BY DEF IInv, DbTypes
<1>1. CASE sync_runs
  <2>1. Attempted(runs) \in Seq(RunRow) /\ OneAttempt(Attempted(runs))
    BY <1>0, AttemptedTable
  <2>2. runs' = Attempted(runs) /\ logs' = logs
    BY <1>1 DEF sync_runs
  <2>3. ProcessEnds \/ UNCHANGED <<this_log, out>>
    BY <1>1 DEF sync_runs, Send
  <2> QED BY <1>0, <2>1, <2>2, <2>3
<1>2. CASE sync_logs
  <2>1. Attempted(logs) \in Seq(LogRow) /\ OneAttempt(Attempted(logs))
    BY <1>0, AttemptedTable
  <2>2. logs' = Attempted(logs) /\ runs' = runs
    BY <1>2 DEF sync_logs
  <2>3. ProcessEnds \/ UNCHANGED <<this_log, out>>
    BY <1>2 DEF sync_logs, Send
  <2> QED BY <1>0, <2>1, <2>2, <2>3
<1> QED
  BY <1>1, <1>2

(* A step that synchronises, or not, and leaves the threads that log alone. *)
LEMMA SynchronisingStep ==
  ASSUME IInv, sync_runs \/ sync_logs, UNCHANGED logged,
         ProcessEnds \/ UNCHANGED log_pc
  PROVE  IInv'
<1>1. /\ runs' \in Seq(RunRow) /\ OneAttempt(runs')
      /\ logs' \in Seq(LogRow) /\ OneAttempt(logs')
      /\ ProcessEnds \/ UNCHANGED <<this_log, out>>
  BY Synchronised
<1>2. CASE ProcessEnds
  BY <1>1, <1>2, EndedProcess
<1>3. CASE ~ProcessEnds
  <2>1. DbTypes'
    BY <1>1, <1>3 DEF IInv, DbTypes
  <2> QED BY <1>1, <2>1 DEF IInv, OneAttempt
<1> QED
  BY <1>2, <1>3

(* The threads that log.                                                    *)
LEMMA LogIInv ==
  ASSUME IInv, NEW t \in Thread, Log(t)
  PROVE  IInv'
<1> USE DEF IInv
<1>0. MaxLogs \in Nat /\ logged[t] \in 0..MaxLogs
  BY LoggingBounds DEF DbTypes
<1>1. CASE log_begin(t)
  <2>1. <<t, logged[t] + 1>> \in Entry /\ logged[t] + 1 \in 1..MaxLogs
    BY <1>0, <1>1 DEF log_begin, Entry
  <2>2. logged' \in [Thread -> 0..MaxLogs] /\ logged'[t] \in 1..MaxLogs
    BY <1>0, <1>1, <2>1 DEF log_begin, DbTypes
  <2>3. \A u \in Thread \ {t} : log_pc'[u] = log_pc[u] /\ logged'[u] = logged[u]
    BY <1>1 DEF log_begin, DbTypes
  <2>4. DbTypes'
    BY <1>1, <2>1, <2>2, <2>3 DEF log_begin, DbTypes, dbVars
  <2> QED BY <1>1, <2>4 DEF log_begin, dbVars, OneAttempt
<1>2. CASE log_stream(t)
  <2>1. <<t, logged[t]>> \in Entry
    BY <1>2 DEF log_stream, DbTypes, Entry
  <2>2. out' \in Seq(Entry)
    BY <1>2, <2>1 DEF log_stream, DbTypes
  <2>3. DbTypes'
    BY <1>2, <2>2 DEF log_stream, DbTypes, dbVars
  <2> QED BY <1>2, <2>3 DEF log_stream, dbVars, OneAttempt
<1>3. CASE store_log_entry(t)
  <2> DEFINE row == [type |-> this_log, text |-> out, status |-> 0, uploads |-> 0]
  <2>1. row \in LogRow /\ row.uploads = 0
    BY DEF DbTypes, LogRow
  <2>2. logs' = Append(logs, row) /\ runs' = runs
    BY <1>3 DEF store_log_entry
  <2>3. logs \in Seq(LogRow)
    BY DEF DbTypes
  <2>4. logs' \in Seq(LogRow) /\ OneAttempt(Append(logs, row))
    BY <2>1, <2>2, <2>3, AppendedTable
  <2>5. DbTypes'
    BY <1>3, <2>2, <2>4 DEF store_log_entry, DbTypes
  <2> QED BY <2>2, <2>4, <2>5 DEF OneAttempt
<1>4. CASE flush_sync(t)
  <2>1. UNCHANGED logged
    BY <1>4 DEF flush_sync
  <2>2. CASE sync_logs /\ log_pc' = [log_pc EXCEPT ![t] = "clear"]
    <3>1. /\ runs' \in Seq(RunRow) /\ OneAttempt(runs')
          /\ logs' \in Seq(LogRow) /\ OneAttempt(logs')
          /\ ProcessEnds \/ UNCHANGED <<this_log, out>>
      BY <2>2, Synchronised
    <3>2. CASE ProcessEnds
      BY <2>1, <3>1, <3>2, EndedProcess
    <3>3. CASE ~ProcessEnds
      <4>1. DbTypes'
        BY <2>1, <2>2, <3>1, <3>3 DEF DbTypes
      <4> QED BY <3>1, <4>1 DEF OneAttempt
    <3> QED BY <3>2, <3>3
  <2>3. CASE sync_logs /\ conn # "open"
    <3>1. ProcessEnds
      BY <2>3 DEF sync_logs, Send
    <3> QED BY <2>1, <2>3, <3>1, SynchronisingStep
  <2>4. CASE UNCHANGED <<dbVars, this_log, out>>
             /\ log_pc' = [log_pc EXCEPT ![t] = "clear"]
    <3>1. DbTypes'
      BY <2>1, <2>4 DEF DbTypes, dbVars
    <3> QED BY <2>4, <3>1 DEF dbVars, OneAttempt
  <2> QED
    BY <1>4, <2>2, <2>3, <2>4 DEF flush_sync
<1>5. CASE flush_clear(t)
  <2>1. DbTypes'
    BY <1>5 DEF flush_clear, DbTypes, dbVars
  <2> QED BY <1>5, <2>1 DEF flush_clear, dbVars, OneAttempt
<1> QED
  BY <1>1, <1>2, <1>3, <1>4, <1>5 DEF Log

(* A step that touches neither the tables nor what is written to them.      *)
LEMMA OtherStep ==
  ASSUME IInv, UNCHANGED <<dbVars, textVars>>
  PROVE  IInv'
<1>1. DbTypes'
  BY DEF IInv, DbTypes, dbVars, textVars
<1> QED
  BY <1>1 DEF IInv, OneAttempt, dbVars

(* The websocket's thread.                                                  *)
LEMMA WebsocketIInv ==
  ASSUME IInv, Websocket \/ connection_breaks
  PROVE  IInv'
<1>1. CASE on_client_open \/ open_notify \/ on_client_fail \/ on_client_close
            \/ connection_breaks
  BY <1>1, OtherStep DEF on_client_open, open_notify, on_client_fail,
     on_client_close, connection_breaks
<1>2. CASE open_sync_runs
  BY <1>2, SynchronisingStep DEF open_sync_runs
<1>3. CASE open_sync_logs
  BY <1>3, SynchronisingStep DEF open_sync_logs
<1>4. CASE on_client_message
  <2> DEFINE m == Head(to_client)
  <2>1. runs \in Seq(RunRow) /\ logs \in Seq(LogRow) /\ OneAttempt(runs) /\ OneAttempt(logs)
    BY DEF IInv, DbTypes
  <2>2. Confirmed(runs, m.ids) \in Seq(RunRow) /\ OneAttempt(Confirmed(runs, m.ids))
    BY <2>1, ConfirmedTable
  <2>3. Confirmed(logs, m.ids) \in Seq(LogRow) /\ OneAttempt(Confirmed(logs, m.ids))
    BY <2>1, ConfirmedTable
  <2>4. /\ runs' = runs \/ runs' = Confirmed(runs, m.ids)
        /\ logs' = logs \/ logs' = Confirmed(logs, m.ids)
        /\ UNCHANGED textVars
    BY <1>4 DEF on_client_message
  <2>5. /\ runs' \in Seq(RunRow) /\ OneAttempt(runs')
        /\ logs' \in Seq(LogRow) /\ OneAttempt(logs')
    BY <2>1, <2>2, <2>3, <2>4
  <2>6. DbTypes'
    BY <2>4, <2>5 DEF IInv, DbTypes, textVars
  <2> QED BY <2>5, <2>6 DEF IInv, OneAttempt
<1> QED
  BY <1>1, <1>2, <1>3, <1>4 DEF Websocket

(* The destructor.                                                          *)
LEMMA ExitIInv ==
  ASSUME IInv, Exit \/ exit_begins \/ exit_spurious_wakeup
  PROVE  IInv'
<1>1. CASE exit_begins \/ exit_woken \/ exit_spurious_wakeup \/ exit_stop
  BY <1>1, OtherStep DEF exit_begins, exit_woken, exit_spurious_wakeup, exit_stop
<1>2. CASE exit_sync_runs
  BY <1>2, SynchronisingStep, OtherStep
     DEF exit_sync_runs, ExitSyncs, textVars, sync_runs, Send
<1>3. CASE exit_sync_logs
  BY <1>3, SynchronisingStep, OtherStep
     DEF exit_sync_logs, ExitSyncs, textVars, sync_logs, Send
<1>4. CASE exit_join
  BY <1>4, EndedProcess DEF exit_join, IInv, DbTypes, dbVars
<1> QED
  BY <1>1, <1>2, <1>3, <1>4 DEF Exit

(* The process begins, with a row of its own or with that of an earlier     *)
(* process of the same id.                                                  *)
LEMMA InitActionIInv ==
  ASSUME IInv, init
  PROVE  IInv'
<1>1. PICK p \in Pid :
        runs' = runs \/ runs' = Append(runs, [pid |-> p, status |-> 0, uploads |-> 0])
  BY DEF init
<1>2. runs \in Seq(RunRow) /\ OneAttempt(runs)
  BY DEF IInv, DbTypes
<1>3. [pid |-> p, status |-> 0, uploads |-> 0] \in RunRow
  BY DEF RunRow
<1>4. runs' \in Seq(RunRow) /\ OneAttempt(runs')
  BY <1>1, <1>2, <1>3, AppendedTable
<1>5. DbTypes'
  BY <1>4 DEF init, IInv, DbTypes, textVars
<1> QED
  BY <1>4, <1>5 DEF IInv, init, OneAttempt

(* The inductive invariant of the logging library.                          *)
THEOREM IInvIsInvariant == Spec => []IInv
<1>1. IInv /\ [Next]_vars => IInv'
  <2> SUFFICES ASSUME IInv, [Next]_vars PROVE IInv'
    OBVIOUS
  <2>1. CASE init
    BY <2>1, InitActionIInv
  <2>2. CASE crash
    BY <2>2, EndedProcess DEF crash, IInv, DbTypes, dbVars
  <2>3. ASSUME NEW t \in Thread, Log(t) PROVE IInv'
    BY <2>3, LogIInv
  <2>4. CASE Websocket \/ connection_breaks
    BY <2>4, WebsocketIInv
  <2>5. CASE Exit \/ exit_begins \/ exit_spurious_wakeup
    BY <2>5, ExitIInv
  <2>6. CASE server_stores
    BY <2>6, OtherStep DEF server_stores
  <2>7. CASE UNCHANGED vars
    BY <2>7, OtherStep DEF vars
  <2> QED
    BY <2>1, <2>2, <2>3, <2>4, <2>5, <2>6, <2>7 DEF Next
<1> QED
  BY <1>1, InitIInv, PTL DEF Spec

(* No row is handed to the websocket twice, whoever synchronises: a thread  *)
(* that flushes, a connection that opens, the destructor or a later life.   *)
THEOREM NoSecondUpload == Spec => []UploadedOnce
<1>1. IInv => UploadedOnce
  BY DEF IInv, OneAttempt, UploadedOnce
<1> QED
  BY <1>1, IInvIsInvariant, PTL

-----------------------------------------------------------------------------
(***************************************************************************)
(* The text of an entry is stored once: call_mutex alone does not protect  *)
(* out_, to which operator<< appends without a lock, but who holds it has  *)
(* stored all of out_ or is about to clear it.                             *)
(***************************************************************************)
\* The thread that holds call_mutex is in the second half of its flush.
MutexHeld ==
  /\ call_mutex \in Thread \cup {None}
  /\ \A t \in Thread : call_mutex = t <=> log_pc[t] \in {"sync", "clear"}

\* Entries in rows and in out_ were begun.
EntriesBegun ==
  /\ \A i \in DOMAIN logs : \A e \in ToSet(logs[i].text) : e[2] <= logged[e[1]]
  /\ \A e \in ToSet(out) : e[2] <= logged[e[1]]

\* An entry that is about to be streamed is nowhere yet.
NotYetStreamed ==
  \A t \in Thread : log_pc[t] = "stream" =>
    /\ <<t, logged[t]>> \notin ToSet(out)
    /\ \A i \in DOMAIN logs : <<t, logged[t]>> \notin ToSet(logs[i].text)

\* While nobody flushes, nothing of out_ is stored.
OutIsNew ==
  call_mutex = None =>
    \A i \in DOMAIN logs : ToSet(logs[i].text) \cap ToSet(out) = {}

TextInv == MutexHeld /\ EntriesBegun /\ NotYetStreamed /\ OutIsNew /\ TextStoredOnce

-----------------------------------------------------------------------------
LEMMA AppendedSet ==
  ASSUME NEW S, NEW q \in Seq(S), NEW e
  PROVE  ToSet(Append(q, e)) = ToSet(q) \cup {e}
<1> DEFINE p == Append(q, e)
<1>1. /\ DOMAIN p = 1..(Len(q) + 1) /\ DOMAIN q = 1..Len(q) /\ Len(q) \in Nat
      /\ p[Len(q) + 1] = e /\ \A i \in 1..Len(q) : p[i] = q[i]
  OBVIOUS
<1> HIDE DEF p
<1>2. ASSUME NEW x \in ToSet(p)
      PROVE  x \in ToSet(q) \cup {e}
  <2>1. PICK i \in DOMAIN p : x = p[i]
    BY <1>2 DEF ToSet
  <2>2. i = Len(q) + 1 \/ i \in DOMAIN q
    BY <1>1
  <2> QED
    BY <1>1, <2>1, <2>2 DEF ToSet
<1>3. ASSUME NEW x \in ToSet(q) \cup {e}
      PROVE  x \in ToSet(p)
  <2>1. CASE x = e
    <3>1. Len(q) + 1 \in DOMAIN p
      BY <1>1
    <3> QED
      BY <1>1, <2>1, <3>1 DEF ToSet
  <2>2. CASE x \in ToSet(q)
    <3>1. PICK i \in DOMAIN q : x = q[i]
      BY <2>2 DEF ToSet
    <3>2. i \in DOMAIN p /\ x = p[i]
      BY <1>1, <3>1
    <3> QED
      BY <3>2 DEF ToSet
  <2> QED
    BY <1>3, <2>1, <2>2
<1>4. ToSet(p) = ToSet(q) \cup {e}
  BY <1>2, <1>3
<1> QED
  BY <1>4 DEF p

\* The rows keep their texts in every step but that which adds one.
SameTexts ==
  /\ DOMAIN logs' = DOMAIN logs
  /\ \A i \in DOMAIN logs : logs'[i].text = logs[i].text

LEMMA UpdatesKeepTexts ==
  ASSUME IInv, NEW ids,
         logs' = logs \/ logs' = Attempted(logs) \/ logs' = Confirmed(logs, ids)
  PROVE  SameTexts
<1>1. \A i \in DOMAIN logs : logs[i] \in LogRow
  BY DEF IInv, DbTypes
<1>2. CASE logs' = logs
  BY <1>2 DEF SameTexts
<1>3. CASE logs' = Attempted(logs)
  <2>1. ASSUME NEW i \in DOMAIN logs
        PROVE  logs'[i].text = logs[i].text
    <3>1. logs'[i] = IF logs[i].status = 0
                     THEN [logs[i] EXCEPT !.status = @ - 1, !.uploads = @ + 1]
                     ELSE logs[i]
      BY <1>3 DEF Attempted
    <3> QED
      BY <1>1, <3>1 DEF LogRow
  <2> QED
    BY <1>3, <2>1 DEF Attempted, SameTexts
<1>4. CASE logs' = Confirmed(logs, ids)
  <2>1. ASSUME NEW i \in DOMAIN logs
        PROVE  logs'[i].text = logs[i].text
    <3>1. logs'[i] = IF i \in ids THEN [logs[i] EXCEPT !.status = 1] ELSE logs[i]
      BY <1>4 DEF Confirmed
    <3> QED
      BY <1>1, <3>1 DEF LogRow
  <2> QED
    BY <1>4, <2>1 DEF Confirmed, SameTexts
<1> QED
  BY <1>2, <1>3, <1>4

\* Steps that leave the texts and the threads that log alone.
LEMMA OtherText ==
  ASSUME TextInv, SameTexts, UNCHANGED <<out, call_mutex, log_pc, logged>>
  PROVE  TextInv'
BY DEF TextInv, SameTexts, MutexHeld, EntriesBegun, NotYetStreamed, OutIsNew,
   TextStoredOnce

\* The end of the process empties out_ and frees the mutex.
LEMMA EndedText ==
  ASSUME TextInv, SameTexts, ProcessEnds, UNCHANGED logged
  PROVE  TextInv'
<1>1. /\ out' = <<>> /\ call_mutex' = None
      /\ \A t \in Thread : log_pc'[t] = "idle"
  BY DEF ProcessEnds
<1>2. ToSet(out') = {}
  BY <1>1 DEF ToSet
<1>3. None \notin Thread
  BY LoggingBounds
<1> QED
  BY <1>1, <1>2, <1>3 DEF TextInv, SameTexts, MutexHeld, EntriesBegun,
     NotYetStreamed, OutIsNew, TextStoredOnce

\* What a synchronisation leaves of the texts.
LEMMA SyncTexts ==
  ASSUME IInv, sync_runs \/ sync_logs
  PROVE  /\ SameTexts
         /\ conn # "open" => ProcessEnds
         /\ conn = "open" => UNCHANGED <<out, call_mutex>>
<1>1. logs' = logs \/ logs' = Attempted(logs)
  BY DEF sync_runs, sync_logs
<1>2. SameTexts
  BY <1>1, UpdatesKeepTexts
<1> QED
  BY <1>2 DEF sync_runs, sync_logs, Send

-----------------------------------------------------------------------------
\* The threads that log.

LEMMA BeginText ==
  ASSUME IInv, TextInv, NEW t \in Thread, log_begin(t)
  PROVE  TextInv'
<1> USE DEF TextInv
<1>1. /\ call_mutex = None /\ logged' = [logged EXCEPT ![t] = @ + 1]
      /\ log_pc' = [log_pc EXCEPT ![t] = "stream"] /\ log_pc[t] = "idle"
      /\ UNCHANGED <<logs, out, call_mutex>>
  BY DEF log_begin, dbVars
<1>2. /\ logged \in [Thread -> Nat] /\ out \in Seq(Entry) /\ logs \in Seq(LogRow)
      /\ log_pc \in [Thread -> {"idle", "stream", "flush", "sync", "clear"}]
  BY LoggingBounds DEF IInv, DbTypes
<1>3. /\ logged'[t] = logged[t] + 1 /\ log_pc'[t] = "stream"
      /\ \A u \in Thread \ {t} : logged'[u] = logged[u] /\ log_pc'[u] = log_pc[u]
  BY <1>1, <1>2
<1>4. /\ \A e \in ToSet(out) : e \in Entry
      /\ \A i \in DOMAIN logs : \A e \in ToSet(logs[i].text) : e \in Entry
  <2>1. \A q \in Seq(Entry) : \A e \in ToSet(q) : e \in Entry
    BY DEF ToSet
  <2>2. \A i \in DOMAIN logs : logs[i].text \in Seq(Entry)
    <3>1. \A i \in DOMAIN logs : logs[i] \in LogRow
      BY <1>2
    <3> QED
      BY <3>1 DEF LogRow
  <2> QED
    BY <1>2, <2>1, <2>2
<1>5. \A e \in Entry : e[1] \in Thread /\ e[2] \in Int
  BY LoggingBounds DEF Entry
<1>6. \A e \in Entry : e[2] <= logged[e[1]] => e[2] <= logged'[e[1]] /\ e # <<t, logged'[t]>>
  <2> TAKE e \in Entry
  <2>1. CASE e[1] = t
    BY <1>2, <1>3, <1>5, <2>1
  <2>2. CASE e[1] # t
    BY <1>2, <1>3, <1>5, <2>2
  <2> QED
    BY <2>1, <2>2
<1>7. MutexHeld'
  BY <1>1, <1>3, LoggingBounds DEF MutexHeld
<1>8. EntriesBegun'
  BY <1>1, <1>4, <1>6 DEF EntriesBegun
<1>9. NotYetStreamed'
  <2> SUFFICES ASSUME NEW u \in Thread, log_pc'[u] = "stream"
               PROVE  /\ <<u, logged'[u]>> \notin ToSet(out)
                      /\ \A i \in DOMAIN logs :
                           <<u, logged'[u]>> \notin ToSet(logs[i].text)
    BY <1>1 DEF NotYetStreamed
  <2>1. CASE u = t
    BY <1>4, <1>6, <2>1 DEF EntriesBegun
  <2>2. CASE u # t
    BY <1>3, <2>2 DEF NotYetStreamed
  <2> QED
    BY <2>1, <2>2
<1>10. OutIsNew' /\ TextStoredOnce'
  BY <1>1 DEF OutIsNew, TextStoredOnce
<1> QED
  BY <1>7, <1>8, <1>9, <1>10

LEMMA StreamText ==
  ASSUME IInv, TextInv, NEW t \in Thread, log_stream(t)
  PROVE  TextInv'
<1> USE DEF TextInv
<1> DEFINE e == <<t, logged[t]>>
<1>1. /\ log_pc[t] = "stream" /\ out' = Append(out, e)
      /\ log_pc' = [log_pc EXCEPT ![t] = "flush"]
      /\ UNCHANGED <<logs, logged, call_mutex>>
  BY DEF log_stream, dbVars
<1>2. /\ out \in Seq(Entry)
      /\ log_pc \in [Thread -> {"idle", "stream", "flush", "sync", "clear"}]
  BY DEF IInv, DbTypes
<1>3. /\ log_pc'[t] = "flush"
      /\ \A u \in Thread \ {t} : log_pc'[u] = log_pc[u]
  BY <1>1, <1>2
<1>4. ToSet(out') = ToSet(out) \cup {e}
  BY <1>1, <1>2, AppendedSet
<1>5. MutexHeld'
  BY <1>1, <1>3 DEF MutexHeld
<1>6. EntriesBegun'
  <2>1. e[2] <= logged[e[1]]
    BY LoggingBounds DEF IInv, DbTypes
  <2> QED
    BY <1>1, <1>4, <2>1 DEF EntriesBegun
<1>7. NotYetStreamed'
  BY <1>1, <1>3, <1>4 DEF NotYetStreamed
<1>8. OutIsNew'
  BY <1>1, <1>4 DEF OutIsNew, NotYetStreamed
<1>9. TextStoredOnce'
  BY <1>1 DEF TextStoredOnce
<1> QED
  BY <1>5, <1>6, <1>7, <1>8, <1>9

LEMMA StoreText ==
  ASSUME IInv, TextInv, NEW t \in Thread, store_log_entry(t)
  PROVE  TextInv'
<1> USE DEF TextInv
<1> DEFINE row == [type |-> this_log, text |-> out, status |-> 0, uploads |-> 0]
<1>1. /\ log_pc[t] = "flush" /\ call_mutex = None /\ call_mutex' = t
      /\ logs' = Append(logs, row) /\ log_pc' = [log_pc EXCEPT ![t] = "sync"]
      /\ UNCHANGED <<out, logged>>
  BY DEF store_log_entry
<1>2. /\ logs \in Seq(LogRow) /\ row \in LogRow /\ row.text = out
      /\ log_pc \in [Thread -> {"idle", "stream", "flush", "sync", "clear"}]
  BY DEF IInv, DbTypes, LogRow
<1> HIDE DEF row
<1>3. /\ log_pc'[t] = "sync"
      /\ \A u \in Thread \ {t} : log_pc'[u] = log_pc[u]
  BY <1>1, <1>2
<1>4. /\ DOMAIN logs' = DOMAIN logs \cup {Len(logs) + 1}
      /\ Len(logs) + 1 \notin DOMAIN logs
      /\ logs'[Len(logs) + 1].text = out
      /\ \A i \in DOMAIN logs : logs'[i] = logs[i]
  BY <1>1, <1>2
<1>5. MutexHeld'
  BY <1>1, <1>3, LoggingBounds DEF MutexHeld
<1>6. EntriesBegun'
  BY <1>1, <1>4 DEF EntriesBegun
<1>7. NotYetStreamed'
  BY <1>1, <1>3, <1>4 DEF NotYetStreamed
<1>8. OutIsNew'
  BY <1>1, LoggingBounds DEF OutIsNew
<1>9. TextStoredOnce'
  <2> SUFFICES ASSUME NEW i \in DOMAIN logs', NEW j \in DOMAIN logs', i # j
               PROVE  ToSet(logs'[i].text) \cap ToSet(logs'[j].text) = {}
    BY DEF TextStoredOnce
  <2>1. \A k \in DOMAIN logs : ToSet(logs[k].text) \cap ToSet(out) = {}
    BY <1>1 DEF OutIsNew
  <2>2. CASE i \in DOMAIN logs /\ j \in DOMAIN logs
    BY <1>4, <2>2 DEF TextStoredOnce
  <2>3. CASE i \notin DOMAIN logs
    <3>1. logs'[i].text = out /\ j \in DOMAIN logs
      BY <1>4, <2>3
    <3> QED
      BY <1>4, <2>1, <3>1
  <2>4. CASE j \notin DOMAIN logs
    <3>1. logs'[j].text = out /\ i \in DOMAIN logs
      BY <1>4, <2>4
    <3> QED
      BY <1>4, <2>1, <3>1
  <2> QED
    BY <2>2, <2>3, <2>4
<1> QED
  BY <1>5, <1>6, <1>7, <1>8, <1>9

LEMMA ClearText ==
  ASSUME IInv, TextInv, NEW t \in Thread, flush_clear(t)
  PROVE  TextInv'
<1> USE DEF TextInv
<1>1. /\ log_pc[t] = "clear" /\ out' = <<>> /\ call_mutex' = None
      /\ log_pc' = [log_pc EXCEPT ![t] = "idle"] /\ UNCHANGED <<logs, logged>>
  BY DEF flush_clear, dbVars
<1>2. /\ log_pc'[t] = "idle" /\ \A u \in Thread \ {t} : log_pc'[u] = log_pc[u]
  BY <1>1 DEF IInv, DbTypes
<1>3. ToSet(out') = {}
  BY <1>1 DEF ToSet
<1>4. call_mutex = t /\ None \notin Thread
  BY <1>1, LoggingBounds DEF MutexHeld
<1>5. MutexHeld'
  BY <1>1, <1>2, <1>4 DEF MutexHeld
<1>6. EntriesBegun' /\ NotYetStreamed' /\ OutIsNew' /\ TextStoredOnce'
  BY <1>1, <1>2, <1>3 DEF EntriesBegun, NotYetStreamed, OutIsNew, TextStoredOnce
<1> QED
  BY <1>5, <1>6

LEMMA FlushSyncText ==
  ASSUME IInv, TextInv, NEW t \in Thread, flush_sync(t)
  PROVE  TextInv'
<1>1. CASE sync_logs /\ conn # "open"
  BY <1>1, SyncTexts, EndedText DEF flush_sync
<1>2. CASE /\ SameTexts /\ log_pc' = [log_pc EXCEPT ![t] = "clear"]
           /\ UNCHANGED <<out, call_mutex, logged>>
  <2>1. /\ log_pc[t] = "sync" /\ log_pc'[t] = "clear"
        /\ \A u \in Thread \ {t} : log_pc'[u] = log_pc[u]
    BY <1>2 DEF flush_sync, IInv, DbTypes
  <2>2. MutexHeld'
    BY <1>2, <2>1 DEF TextInv, MutexHeld
  <2>3. EntriesBegun' /\ OutIsNew' /\ TextStoredOnce'
    BY <1>2 DEF TextInv, SameTexts, EntriesBegun, OutIsNew, TextStoredOnce
  <2>4. NotYetStreamed'
    BY <1>2, <2>1 DEF TextInv, SameTexts, NotYetStreamed
  <2> QED
    BY <2>2, <2>3, <2>4 DEF TextInv
<1>3. \/ sync_logs /\ conn # "open"
      \/ /\ sync_logs /\ conn = "open"
         /\ log_pc' = [log_pc EXCEPT ![t] = "clear"]
      \/ /\ UNCHANGED <<logs, out, call_mutex>>
         /\ log_pc' = [log_pc EXCEPT ![t] = "clear"]
  BY DEF flush_sync, dbVars
<1>4. UNCHANGED logs => SameTexts
  BY UpdatesKeepTexts
<1> QED
  BY <1>1, <1>2, <1>3, <1>4, SyncTexts DEF flush_sync

-----------------------------------------------------------------------------
\* The synchronisations of the destructor.
LEMMA ExitSyncText ==
  ASSUME IInv, TextInv, exit_sync_runs \/ exit_sync_logs
  PROVE  TextInv'
<1>1. \/ /\ conn = "open" /\ (sync_runs \/ sync_logs)
         /\ UNCHANGED <<log_pc, logged>>
      \/ conn # "open" /\ (sync_runs \/ sync_logs) /\ UNCHANGED logged
      \/ UNCHANGED <<logs, out, call_mutex, log_pc, logged>>
  BY DEF exit_sync_runs, exit_sync_logs, ExitSyncs, dbVars
<1>2. UNCHANGED logs => SameTexts
  BY UpdatesKeepTexts
<1> QED
  BY <1>1, <1>2, SyncTexts, OtherText, EndedText

LEMMA OpenSyncText ==
  ASSUME IInv, TextInv, open_sync_runs \/ open_sync_logs
  PROVE  TextInv'
<1>1. (sync_runs \/ sync_logs) /\ UNCHANGED <<log_pc, logged>>
  BY DEF open_sync_runs, open_sync_logs
<1> QED
  BY <1>1, SyncTexts, OtherText, EndedText

LEMMA TextStep == IInv /\ TextInv /\ [Next]_vars => TextInv'
<1> SUFFICES ASSUME IInv, TextInv, [Next]_vars PROVE TextInv'
  OBVIOUS
<1>0. UNCHANGED logs => SameTexts
  BY UpdatesKeepTexts
<1>1. ASSUME NEW t \in Thread, Log(t) PROVE TextInv'
  BY <1>1, BeginText, StreamText, StoreText, ClearText, FlushSyncText DEF Log
<1>2. CASE crash \/ exit_join
  BY <1>0, <1>2, EndedText DEF crash, exit_join, dbVars
<1>3. CASE open_sync_runs \/ open_sync_logs
  BY <1>3, OpenSyncText
<1>4. CASE exit_sync_runs \/ exit_sync_logs
  BY <1>4, ExitSyncText
<1>5. CASE on_client_message
  <2>1. UNCHANGED textVars /\ (logs' = logs \/ logs' = Confirmed(logs, Head(to_client).ids))
    BY <1>5 DEF on_client_message
  <2> QED
    BY <2>1, UpdatesKeepTexts, OtherText DEF textVars
<1>6. CASE \/ init \/ on_client_open \/ open_notify \/ on_client_fail
           \/ on_client_close \/ connection_breaks \/ exit_begins \/ exit_woken
           \/ exit_spurious_wakeup \/ exit_stop \/ server_stores \/ UNCHANGED vars
  <2>1. UNCHANGED <<logs, textVars>>
    BY <1>6 DEF init, on_client_open, open_notify, on_client_fail, on_client_close,
       connection_breaks, exit_begins, exit_woken, exit_spurious_wakeup,
       exit_stop, server_stores, vars, dbVars
  <2> QED
    BY <1>0, <2>1, OtherText DEF textVars
<1> QED
  BY <1>1, <1>2, <1>3, <1>4, <1>5, <1>6 DEF Next, Websocket, Exit

LEMMA InitText == Init => TextInv
<1> SUFFICES ASSUME Init PROVE TextInv
  OBVIOUS
<1>1. ToSet(out) = {}
  BY DEF Init, ToSet
<1> QED
  BY <1>1, LoggingBounds DEF Init, TextInv, MutexHeld, EntriesBegun,
     NotYetStreamed, OutIsNew, TextStoredOnce

\* However the threads interleave, no entry's text is in two rows, although
\* operator<< appends to out_ while another thread flushes it.
THEOREM EntriesStoredOnce == Spec => []TextStoredOnce
<1>1. TextInv => TextStoredOnce
  BY DEF TextInv
<1> QED
  BY <1>1, IInvIsInvariant, InitText, TextStep, PTL DEF Spec

-----------------------------------------------------------------------------
(***************************************************************************)
(* What flows between the database and the logging server: what is marked  *)
(* as synchronised is stored there, and no entry arrives before the run it *)
(* is filed under.                                                         *)
(***************************************************************************)
Reply == [table : {"run", "log"}, ids : SUBSET Nat]

\* A row that exists and whose upload was tried.
TriedIn(rs, ls, name, i) ==
  IF name = "run" THEN i \in DOMAIN rs /\ rs[i].status # 0
  ELSE i \in DOMAIN ls /\ ls[i].status # 0
Tried(name, i) == TriedIn(runs, logs, name, i)

NetTypes ==
  /\ to_server \in Seq(Packet) /\ to_client \in Seq(Reply)
  /\ lives \in Nat /\ up \in BOOLEAN
  /\ up => this_run \in DOMAIN runs
  /\ \A i \in DOMAIN runs : runs[i].status # 0 => runs[i].uploads > 0

\* Packets and replies are about rows whose upload was tried, and the logs
\* among them are filed under such a run.
TriedInFlight ==
  /\ \A k \in DOMAIN to_server : \A i \in to_server[k].ids : Tried(to_server[k].table, i)
  /\ \A k \in DOMAIN to_client : \A i \in to_client[k].ids : Tried(to_client[k].table, i)
  /\ \A k \in DOMAIN to_server :
       to_server[k].table = "log" => Tried("run", to_server[k].uuid)
  /\ \A s \in stored : s.table = "log" => Tried("run", s.uuid)

\* Once a connection is in use, the present run was uploaded or tried.
RunBeforeUse ==
  connection_is_open \/ ws_pc \in {"logs", "notify"} =>
    up /\ Tried("run", this_run)

\* Whether packet p carries the run under which record or packet s is filed.
CarriesRunOf(p, s) ==
  p.table = "run" /\ s.table = "log" /\ s.uuid \in p.ids /\ p.life = s.life

RunsFirst ==
  /\ \A j, k \in DOMAIN to_server : CarriesRunOf(to_server[j], to_server[k]) => j < k
  /\ \A s \in stored : \A k \in DOMAIN to_server : ~CarriesRunOf(to_server[k], s)

\* What the server confirms it has stored.
RepliesStored ==
  \A k \in DOMAIN to_client : \A i \in to_client[k].ids :
    \E s \in stored : s.table = to_client[k].table /\ s.id = i

FlowInv == /\ NetTypes /\ TriedInFlight /\ RunBeforeUse /\ RunsFirst
           /\ RepliesStored /\ ConfirmedIsStored

-----------------------------------------------------------------------------
\* Sequences that keep some elements of another in their order.
Thinned(q, p) ==
  \E f \in [DOMAIN p -> DOMAIN q] :
    /\ \A j, k \in DOMAIN p : f[j] < f[k] => j < k
    /\ \A k \in DOMAIN p : p[k] = q[f[k]]

LEMMA PrefixThins ==
  ASSUME NEW S, NEW q \in Seq(S), NEW n \in 0..Len(q)
  PROVE  SubSeq(q, 1, n) \in Seq(S) /\ Thinned(q, SubSeq(q, 1, n))
<1> DEFINE p == SubSeq(q, 1, n)
           f == [k \in DOMAIN p |-> k]
<1>1. /\ p \in Seq(S) /\ DOMAIN p = 1..n /\ DOMAIN q = 1..Len(q) /\ Len(q) \in Nat
      /\ \A k \in 1..n : p[k] = q[k]
  OBVIOUS
<1> HIDE DEF p
<1>2. /\ f \in [DOMAIN p -> DOMAIN q]
      /\ \A j, k \in DOMAIN p : f[j] < f[k] => j < k
      /\ \A k \in DOMAIN p : p[k] = q[f[k]]
  BY <1>1
<1>3. Thinned(q, p)
  BY <1>2 DEF Thinned
<1> QED
  BY <1>1, <1>3 DEF p

LEMMA RemovalThins ==
  ASSUME NEW S, NEW q \in Seq(S), NEW n \in DOMAIN q
  PROVE  /\ RemoveAt(q, n) \in Seq(S) /\ Thinned(q, RemoveAt(q, n))
         /\ DOMAIN RemoveAt(q, n) = 1..(Len(q) - 1)
         /\ \A k \in DOMAIN RemoveAt(q, n) :
              RemoveAt(q, n)[k] = IF k < n THEN q[k] ELSE q[k + 1]
<1> DEFINE p == RemoveAt(q, n)
           f == [k \in DOMAIN p |-> IF k < n THEN k ELSE k + 1]
           a == SubSeq(q, 1, n - 1)
           b == SubSeq(q, n + 1, Len(q))
<1>1. /\ a \in Seq(S) /\ Len(a) = n - 1 /\ n \in 1..Len(q) /\ Len(q) \in Nat
      /\ \A k \in 1..(n - 1) : a[k] = q[k]
  OBVIOUS
<1>2. /\ b \in Seq(S) /\ Len(b) = Len(q) - n
      /\ \A k \in 1..(Len(q) - n) : b[k] = q[k + n]
  BY <1>1
<1>3. p = a \o b
  BY DEF RemoveAt
<1> HIDE DEF p, a, b
<1>4. p \in Seq(S) /\ DOMAIN p = 1..(Len(q) - 1)
  BY <1>1, <1>2, <1>3
<1>5. ASSUME NEW k \in DOMAIN p
      PROVE  p[k] = IF k < n THEN q[k] ELSE q[k + 1]
  <2>1. CASE k < n
    BY <1>1, <1>2, <1>3, <1>4, <1>5, <2>1
  <2>2. CASE ~(k < n)
    <3>0. k \in Int /\ n \in Int /\ Len(q) \in Int /\ n <= k /\ k <= Len(q) - 1
          /\ 1 <= n
      BY <1>1, <1>4, <1>5, <2>2
    <3>1. p[k] = b[k - (n - 1)] /\ k - (n - 1) \in 1..(Len(q) - n)
      <4>1. k \in (Len(a) + 1)..(Len(a) + Len(b))
        BY <1>1, <1>2, <3>0
      <4>2. p[k] = b[k - Len(a)]
        <5>1. k \in 1..(Len(a) + Len(b)) /\ ~(k <= Len(a))
          BY <1>1, <1>2, <3>0
        <5> QED
          BY <1>1, <1>2, <1>3, <5>1, ConcatProperties
      <4> QED
        BY <1>1, <3>0, <4>2
    <3>2. k - (n - 1) + n = k + 1
      BY <1>1, <1>4, <1>5
    <3> QED
      BY <1>2, <2>2, <3>1, <3>2
  <2> QED
    BY <2>1, <2>2
<1>6. /\ f \in [DOMAIN p -> DOMAIN q]
      /\ \A j, k \in DOMAIN p : f[j] < f[k] => j < k
      /\ \A k \in DOMAIN p : p[k] = q[f[k]]
  BY <1>1, <1>4, <1>5
<1>7. Thinned(q, p)
  BY <1>6 DEF Thinned
<1> QED
  BY <1>4, <1>5, <1>7 DEF p

LEMMA SameThins ==
  ASSUME NEW S, NEW q \in Seq(S)
  PROVE  Thinned(q, q)
<1> DEFINE f == [k \in DOMAIN q |-> k]
<1>1. /\ f \in [DOMAIN q -> DOMAIN q]
      /\ \A j, k \in DOMAIN q : f[j] < f[k] => j < k
      /\ \A k \in DOMAIN q : q[k] = q[f[k]]
  OBVIOUS
<1> QED
  BY <1>1 DEF Thinned

-----------------------------------------------------------------------------
\* Rows stay, and what was tried stays tried.
TriedStays ==
  /\ \A n \in {"run", "log"} : \A i :
       Tried(n, i) => TriedIn(runs', logs', n, i)
  /\ DOMAIN runs \subseteq DOMAIN runs'
  /\ \A i \in DOMAIN runs' : runs'[i].status # 0 => runs'[i].uploads > 0

\* What may happen to one table: nothing, an attempt, a confirmation, a new row.
RowsOf(R, old, new) ==
  /\ new \in Seq(R) /\ DOMAIN old \subseteq DOMAIN new
  /\ \A i \in DOMAIN old : /\ old[i].status # 0 => new[i].status # 0
                           /\ old[i].status # 0 => new[i].uploads = old[i].uploads
  /\ \A i \in DOMAIN new : new[i].status # 0 =>
       i \in DOMAIN old /\ (old[i].status = 0 => new[i].uploads = 1)

LEMMA AttemptRows ==
  ASSUME NEW R, R = RunRow \/ R = LogRow, NEW table \in Seq(R), OneAttempt(table)
  PROVE  /\ RowsOf(R, table, Attempted(table))
         /\ \A i \in DOMAIN table : Attempted(table)[i].status # 0
         /\ \A i \in DOMAIN table :
              Attempted(table)[i].status = 1 => table[i].status = 1
<1> DEFINE new == Attempted(table)
<1>1. new \in Seq(R) /\ DOMAIN new = DOMAIN table
  BY AttemptedTable DEF Attempted
<1>2. ASSUME NEW i \in DOMAIN table
      PROVE  /\ table[i].status # 0 => new[i] = table[i]
             /\ table[i].status = 0 => new[i].status = -1 /\ new[i].uploads = 1
  <2>1. table[i] \in R /\ (table[i].status = 0 => table[i].uploads = 0)
    BY DEF OneAttempt
  <2>2. new[i] = IF table[i].status = 0
                 THEN [table[i] EXCEPT !.status = @ - 1, !.uploads = @ + 1]
                 ELSE table[i]
    BY <1>2 DEF Attempted
  <2>3. CASE R = RunRow
    BY <2>1, <2>2, <2>3 DEF RunRow
  <2>4. CASE R = LogRow
    BY <2>1, <2>2, <2>4 DEF LogRow
  <2> QED
    BY <2>3, <2>4
<1> HIDE DEF new
<1>3. RowsOf(R, table, new)
  BY <1>1, <1>2 DEF RowsOf
<1>4. \A i \in DOMAIN table : new[i].status # 0 /\ (new[i].status = 1 => table[i].status = 1)
  BY <1>2
<1> QED
  BY <1>3, <1>4 DEF new

LEMMA ConfirmRows ==
  ASSUME NEW R, R = RunRow \/ R = LogRow, NEW table \in Seq(R), OneAttempt(table),
         NEW ids, \A i \in ids : i \in DOMAIN table => table[i].status # 0
  PROVE  /\ RowsOf(R, table, Confirmed(table, ids))
         /\ \A i \in DOMAIN table :
              Confirmed(table, ids)[i].status = 1 => table[i].status = 1 \/ i \in ids
<1> DEFINE new == Confirmed(table, ids)
<1>1. new \in Seq(R) /\ DOMAIN new = DOMAIN table
  BY ConfirmedTable DEF Confirmed
<1>2. ASSUME NEW i \in DOMAIN table
      PROVE  /\ i \notin ids => new[i] = table[i]
             /\ i \in ids => new[i].status = 1 /\ new[i].uploads = table[i].uploads
  <2>1. table[i] \in R
    OBVIOUS
  <2>2. new[i] = IF i \in ids THEN [table[i] EXCEPT !.status = 1] ELSE table[i]
    BY <1>2 DEF Confirmed
  <2>3. CASE R = RunRow
    BY <2>1, <2>2, <2>3 DEF RunRow
  <2>4. CASE R = LogRow
    BY <2>1, <2>2, <2>4 DEF LogRow
  <2> QED
    BY <2>3, <2>4
<1> HIDE DEF new
<1>3. RowsOf(R, table, new)
  BY <1>1, <1>2 DEF RowsOf
<1>4. \A i \in DOMAIN table : new[i].status = 1 => table[i].status = 1 \/ i \in ids
  BY <1>2
<1> QED
  BY <1>3, <1>4 DEF new

LEMMA AppendRows ==
  ASSUME NEW R, NEW table \in Seq(R), NEW row \in R, row.status = 0
  PROVE  /\ RowsOf(R, table, Append(table, row))
         /\ \A i \in DOMAIN Append(table, row) : Append(table, row)[i].status = 1 =>
              i \in DOMAIN table /\ table[i].status = 1
         /\ Len(table) + 1 \in DOMAIN Append(table, row)
<1> DEFINE new == Append(table, row)
<1>1. /\ new \in Seq(R) /\ DOMAIN new = 1..(Len(table) + 1)
      /\ DOMAIN table = 1..Len(table) /\ Len(table) \in Nat
      /\ new[Len(table) + 1] = row /\ \A i \in DOMAIN table : new[i] = table[i]
  OBVIOUS
<1> HIDE DEF new
<1>2. \A i \in DOMAIN new : i \in DOMAIN table \/ i = Len(table) + 1
  BY <1>1
<1>3. RowsOf(R, table, new)
  BY <1>1, <1>2 DEF RowsOf
<1>4. \A i \in DOMAIN new : new[i].status = 1 => i \in DOMAIN table /\ table[i].status = 1
  BY <1>1, <1>2
<1>5. Len(table) + 1 \in DOMAIN new
  BY <1>1
<1> QED
  BY <1>3, <1>4, <1>5 DEF new

LEMMA SameRows ==
  ASSUME NEW R, NEW table \in Seq(R)
  PROVE  RowsOf(R, table, table)
BY DEF RowsOf

LEMMA SameOrAttempted ==
  ASSUME NEW R, R = RunRow \/ R = LogRow, NEW table \in Seq(R), OneAttempt(table),
         NEW new, new = table \/ new = Attempted(table)
  PROVE  /\ RowsOf(R, table, new)
         /\ \A i \in DOMAIN new : new[i].status = 1 =>
              i \in DOMAIN table /\ table[i].status = 1
<1>1. CASE new = table
  BY <1>1, SameRows
<1>2. CASE new = Attempted(table)
  <2>1. DOMAIN new = DOMAIN table
    BY <1>2 DEF Attempted
  <2> QED
    BY <1>2, <2>1, AttemptRows
<1> QED
  BY <1>1, <1>2

LEMMA RowsStayTried ==
  ASSUME IInv, NetTypes, RowsOf(RunRow, runs, runs'), RowsOf(LogRow, logs, logs')
  PROVE  TriedStays
<1>1. \A n \in {"run", "log"} : \A i :
        Tried(n, i) => TriedIn(runs', logs', n, i)
  BY DEF RowsOf, Tried, TriedIn
<1>2. ASSUME NEW i \in DOMAIN runs', runs'[i].status # 0
      PROVE  runs'[i].uploads > 0
  <2>1. /\ i \in DOMAIN runs /\ (runs[i].status = 0 => runs'[i].uploads = 1)
        /\ runs[i].status # 0 => runs'[i].uploads = runs[i].uploads
    BY <1>2 DEF RowsOf
  <2> QED
    BY <2>1 DEF NetTypes
<1> QED
  BY <1>1, <1>2 DEF TriedStays, RowsOf

-----------------------------------------------------------------------------
\* Steps that send nothing: packets and replies are lost or taken, the server
\* stores nothing.
LEMMA QuietStep ==
  ASSUME IInv, FlowInv, TriedStays,
         RowsOf(RunRow, runs, runs'), RowsOf(LogRow, logs, logs'),
         to_server' \in Seq(Packet), Thinned(to_server, to_server'),
         to_client' = to_client \/ to_client' = <<>>
           \/ (to_client # <<>> /\ to_client' = Tail(to_client)),
         stored' = stored, lives' \in Nat, up' \in BOOLEAN,
         up' => this_run' \in DOMAIN runs',
         RunBeforeUse', ConfirmedIsStored'
  PROVE  FlowInv'
<1> USE DEF FlowInv
<1>1. PICK f \in [DOMAIN to_server' -> DOMAIN to_server] :
        /\ \A j, k \in DOMAIN to_server' : f[j] < f[k] => j < k
        /\ \A k \in DOMAIN to_server' : to_server'[k] = to_server[f[k]]
  BY DEF Thinned
<1>2. to_client' \in Seq(Reply)
      /\ \A k \in DOMAIN to_client' : \E j \in DOMAIN to_client :
           to_client'[k] = to_client[j]
  <2>1. to_client \in Seq(Reply)
    BY DEF NetTypes
  <2>2. CASE to_client' = to_client
    BY <2>1, <2>2
  <2>3. CASE to_client' = <<>>
    BY <2>3
  <2>4. CASE to_client # <<>> /\ to_client' = Tail(to_client)
    <3>1. /\ to_client' \in Seq(Reply) /\ Len(to_client) \in Nat
          /\ DOMAIN to_client' = 1..(Len(to_client) - 1)
          /\ DOMAIN to_client = 1..Len(to_client)
          /\ \A k \in DOMAIN to_client' : to_client'[k] = to_client[k + 1]
      BY <2>1, <2>4
    <3>2. \A k \in DOMAIN to_client' : k + 1 \in DOMAIN to_client
      BY <3>1
    <3> QED
      BY <3>1, <3>2
  <2> QED
    BY <2>2, <2>3, <2>4
<1>3. NetTypes'
  BY <1>2 DEF NetTypes, TriedStays
<1>4. TriedInFlight'
  <2>1. \A k \in DOMAIN to_server : to_server[k].table \in {"run", "log"}
    <3>1. \A k \in DOMAIN to_server : to_server[k] \in Packet
      BY DEF NetTypes
    <3> QED
      BY <3>1 DEF Packet
  <2>2. \A k \in DOMAIN to_client : to_client[k].table \in {"run", "log"}
    <3>1. \A k \in DOMAIN to_client : to_client[k] \in Reply
      BY DEF NetTypes
    <3> QED
      BY <3>1 DEF Reply
  <2>3. \A k \in DOMAIN to_server' : f[k] \in DOMAIN to_server
    BY <1>1
  <2>4. \A k \in DOMAIN to_server' : \A i \in to_server'[k].ids :
          TriedIn(runs', logs', to_server'[k].table, i)
    BY <1>1, <2>1, <2>3 DEF TriedInFlight, TriedStays
  <2>5. \A k \in DOMAIN to_client' : \A i \in to_client'[k].ids :
          TriedIn(runs', logs', to_client'[k].table, i)
    BY <1>2, <2>2 DEF TriedInFlight, TriedStays
  <2>6. \A k \in DOMAIN to_server' : to_server'[k].table = "log" =>
          TriedIn(runs', logs', "run", to_server'[k].uuid)
    BY <1>1, <2>3 DEF TriedInFlight, TriedStays
  <2>7. \A s \in stored' : s.table = "log" => TriedIn(runs', logs', "run", s.uuid)
    BY DEF TriedInFlight, TriedStays
  <2> QED
    BY <2>4, <2>5, <2>6, <2>7 DEF TriedInFlight, Tried
<1>5. RunsFirst'
  <2>1. \A k \in DOMAIN to_server' : f[k] \in DOMAIN to_server
    BY <1>1
  <2>2. \A j, k \in DOMAIN to_server' :
          CarriesRunOf(to_server'[j], to_server'[k]) => j < k
    BY <1>1, <2>1 DEF RunsFirst
  <2>3. \A s \in stored' : \A k \in DOMAIN to_server' : ~CarriesRunOf(to_server'[k], s)
    BY <1>1, <2>1 DEF RunsFirst
  <2> QED
    BY <2>2, <2>3 DEF RunsFirst
<1>6. RepliesStored'
  BY <1>2 DEF RepliesStored
<1> QED
  BY <1>3, <1>4, <1>5, <1>6

\* The rows that count as confirmed did before.
LEMMA StillConfirmed ==
  ASSUME ConfirmedIsStored, stored \subseteq stored',
         \A i \in DOMAIN runs' : runs'[i].status = 1 =>
           i \in DOMAIN runs /\ runs[i].status = 1,
         \A i \in DOMAIN logs' : logs'[i].status = 1 =>
           i \in DOMAIN logs /\ logs[i].status = 1
  PROVE  ConfirmedIsStored'
BY DEF ConfirmedIsStored

\* Steps that do not touch the database, the packets or the server.
LEMMA IdleStep ==
  ASSUME IInv, FlowInv, UNCHANGED <<dbVars, to_server, to_client, stored, lifeVars>>,
         RunBeforeUse'
  PROVE  FlowInv'
<1>1. RowsOf(RunRow, runs, runs') /\ RowsOf(LogRow, logs, logs')
  BY SameRows DEF IInv, DbTypes, dbVars
<1>2. TriedStays
  BY <1>1, RowsStayTried DEF FlowInv
<1>3. Thinned(to_server, to_server') /\ to_server' \in Seq(Packet)
  BY SameThins DEF FlowInv, NetTypes
<1>4. ConfirmedIsStored'
  BY DEF FlowInv, ConfirmedIsStored, dbVars
<1>5. lives' \in Nat /\ up' \in BOOLEAN /\ (up' => this_run' \in DOMAIN runs')
  BY DEF FlowInv, NetTypes, lifeVars, dbVars
<1> QED
  BY <1>1, <1>2, <1>3, <1>4, <1>5, QuietStep

\* The end of the process, after an attempt that could not be sent or without.
LEMMA EndedFlow ==
  ASSUME IInv, FlowInv, ProcessEnds, UNCHANGED <<lives, this_run, stored>>,
         runs' = runs \/ runs' = Attempted(runs),
         logs' = logs \/ logs' = Attempted(logs)
  PROVE  FlowInv'
<1>1. /\ runs \in Seq(RunRow) /\ logs \in Seq(LogRow)
      /\ OneAttempt(runs) /\ OneAttempt(logs)
  BY DEF IInv, DbTypes
<1>2. /\ RowsOf(RunRow, runs, runs')
      /\ \A i \in DOMAIN runs' : runs'[i].status = 1 =>
           i \in DOMAIN runs /\ runs[i].status = 1
  BY <1>1, SameOrAttempted
<1>3. /\ RowsOf(LogRow, logs, logs')
      /\ \A i \in DOMAIN logs' : logs'[i].status = 1 =>
           i \in DOMAIN logs /\ logs[i].status = 1
  BY <1>1, SameOrAttempted
<1>4. TriedStays
  BY <1>2, <1>3, RowsStayTried DEF FlowInv
<1>5. ConfirmedIsStored'
  BY <1>2, <1>3, StillConfirmed DEF FlowInv
<1>6. to_server' \in Seq(Packet) /\ Thinned(to_server, to_server') /\ to_client' = <<>>
  BY PrefixThins DEF ProcessEnds, ConnectionLost, FlowInv, NetTypes
<1>7. up' = FALSE /\ connection_is_open' = FALSE /\ ws_pc' = "idle" /\ lives' \in Nat
  BY DEF ProcessEnds, FlowInv, NetTypes
<1>8. RunBeforeUse'
  BY <1>7 DEF RunBeforeUse
<1> QED
  BY <1>2, <1>3, <1>4, <1>5, <1>6, <1>7, <1>8, QuietStep

-----------------------------------------------------------------------------
\* The destination and the row a present run keeps.
LEMMA StillInUse ==
  ASSUME FlowInv, TriedStays, UNCHANGED <<up, this_run>>,
         connection_is_open' \/ ws_pc' \in {"logs", "notify"} =>
           connection_is_open \/ ws_pc \in {"logs", "notify"}
  PROVE  RunBeforeUse'
BY DEF FlowInv, RunBeforeUse, TriedStays, Tried

\* A packet is sent on an open connection: a run, or logs of a run that was
\* uploaded before.
LEMMA SentPacket ==
  ASSUME IInv, FlowInv, NEW name \in {"run", "log"}, NEW ids \in SUBSET Nat,
         name = "log" => Tried("run", this_run),
         name = "run" => \A i \in ids : runs[i].status = 0,
         \A i \in ids : TriedIn(runs', logs', name, i),
         RowsOf(RunRow, runs, runs'), RowsOf(LogRow, logs, logs'),
         to_server' = Append(to_server, [table |-> name, ids |-> ids,
                                         uuid |-> this_run, life |-> lives]),
         UNCHANGED <<to_client, stored, lives, this_run>>, up, up',
         RunBeforeUse', ConfirmedIsStored'
  PROVE  FlowInv'
<1> USE DEF FlowInv
<1> DEFINE m == [table |-> name, ids |-> ids, uuid |-> this_run, life |-> lives]
           n == Len(to_server) + 1
<1>1. TriedStays
  BY RowsStayTried
<1>2. this_run \in DOMAIN runs /\ this_run \in Nat /\ lives \in Nat
  BY DEF NetTypes, IInv, DbTypes
<1>3. m \in Packet /\ m.table = name /\ m.ids = ids /\ m.uuid = this_run
  BY <1>2 DEF Packet
<1>4. to_server \in Seq(Packet) /\ to_server' = Append(to_server, m)
  BY DEF NetTypes
<1> HIDE DEF m
<1>5. /\ to_server' \in Seq(Packet) /\ DOMAIN to_server' = DOMAIN to_server \cup {n}
      /\ n \notin DOMAIN to_server /\ to_server'[n] = m /\ n \in Nat
      /\ DOMAIN to_server = 1..(n - 1)
      /\ \A k \in DOMAIN to_server : to_server'[k] = to_server[k]
  BY <1>3, <1>4
<1> HIDE DEF n
<1>6. NetTypes'
  BY <1>1, <1>2, <1>5 DEF NetTypes, TriedStays
<1>7. TriedInFlight'
  <2>1. \A k \in DOMAIN to_server : to_server[k].table \in {"run", "log"}
    <3>1. \A k \in DOMAIN to_server : to_server[k] \in Packet
      BY <1>4
    <3> QED
      BY <3>1 DEF Packet
  <2>2. \A k \in DOMAIN to_client : to_client[k].table \in {"run", "log"}
    <3>1. \A k \in DOMAIN to_client : to_client[k] \in Reply
      BY DEF NetTypes
    <3> QED
      BY <3>1 DEF Reply
  <2>3. \A k \in DOMAIN to_server : /\ \A i \in to_server[k].ids :
                                        TriedIn(runs', logs', to_server[k].table, i)
                                    /\ to_server[k].table = "log" =>
                                        TriedIn(runs', logs', "run", to_server[k].uuid)
    BY <1>1, <2>1 DEF TriedInFlight, TriedStays
  <2>4. m.table = "log" => TriedIn(runs', logs', "run", m.uuid)
    BY <1>1, <1>3 DEF TriedStays
  <2>5. \A k \in DOMAIN to_client : \A i \in to_client[k].ids :
          TriedIn(runs', logs', to_client[k].table, i)
    BY <1>1, <2>2 DEF TriedInFlight, TriedStays
  <2>6. \A s \in stored : s.table = "log" => TriedIn(runs', logs', "run", s.uuid)
    BY <1>1 DEF TriedInFlight, TriedStays
  <2>7. \A k \in DOMAIN to_server' : /\ \A i \in to_server'[k].ids :
                                         TriedIn(runs', logs', to_server'[k].table, i)
                                     /\ to_server'[k].table = "log" =>
                                         TriedIn(runs', logs', "run", to_server'[k].uuid)
    <3>1. /\ \A i \in m.ids : TriedIn(runs', logs', m.table, i)
          /\ m.table = "log" => TriedIn(runs', logs', "run", m.uuid)
      BY <1>3, <2>4
    <3>2. \A k \in DOMAIN to_server' :
            to_server'[k] = m \/ (k \in DOMAIN to_server /\ to_server'[k] = to_server[k])
      BY <1>5
    <3> QED
      BY <2>3, <3>1, <3>2
  <2>8. \A k \in DOMAIN to_client' : \A i \in to_client'[k].ids :
          TriedIn(runs', logs', to_client'[k].table, i)
    BY <2>5
  <2>9. \A s \in stored' : s.table = "log" => TriedIn(runs', logs', "run", s.uuid)
    BY <2>6
  <2> QED
    BY <2>7, <2>8, <2>9 DEF TriedInFlight, Tried
<1>8. RunsFirst'
  <2>1. \A x : Tried("run", x) => ~(name = "run" /\ x \in ids)
    BY DEF Tried, TriedIn
  <2>2. \A k \in DOMAIN to_server : ~CarriesRunOf(m, to_server[k])
    BY <1>3, <2>1 DEF TriedInFlight, CarriesRunOf
  <2>3. \A s \in stored : ~CarriesRunOf(m, s)
    BY <1>3, <2>1 DEF TriedInFlight, CarriesRunOf
  <2>4. ~CarriesRunOf(m, m)
    BY DEF CarriesRunOf
  <2>5. \A j, k \in DOMAIN to_server' :
          CarriesRunOf(to_server'[j], to_server'[k]) => j < k
    <3> SUFFICES ASSUME NEW j \in DOMAIN to_server', NEW k \in DOMAIN to_server',
                        CarriesRunOf(to_server'[j], to_server'[k])
                 PROVE  j < k
      OBVIOUS
    <3>1. j \in DOMAIN to_server
      BY <1>5, <2>2, <2>4
    <3>2. CASE k = n
      BY <1>5, <3>1, <3>2
    <3>3. CASE k \in DOMAIN to_server
      BY <1>5, <3>1, <3>3 DEF RunsFirst
    <3> QED
      BY <1>5, <3>2, <3>3
  <2>6. \A s \in stored' : \A k \in DOMAIN to_server' : ~CarriesRunOf(to_server'[k], s)
    BY <1>5, <2>3 DEF RunsFirst
  <2> QED
    BY <2>5, <2>6 DEF RunsFirst
<1>9. RepliesStored'
  BY DEF RepliesStored
<1> QED
  BY <1>6, <1>7, <1>8, <1>9

\* Either synchronisation, when it is known that a run precedes its logs.
LEMMA SyncedFlow ==
  ASSUME IInv, FlowInv, conn = "open", up,
         sync_runs \/ (sync_logs /\ Tried("run", this_run)),
         UNCHANGED <<lives, this_run, stored>>, RunBeforeUse'
  PROVE  FlowInv'
<1> USE DEF FlowInv
<1>0. /\ runs \in Seq(RunRow) /\ logs \in Seq(LogRow)
      /\ OneAttempt(runs) /\ OneAttempt(logs)
  BY DEF IInv, DbTypes
<1>1. PICK name \in {"run", "log"}, ids \in SUBSET Nat :
        /\ Send(name, ids)
        /\ name = "log" => Tried("run", this_run)
        /\ name = "run" => /\ runs' = Attempted(runs) /\ logs' = logs
                           /\ ids = Unsynced(runs)
        /\ name = "log" => /\ logs' = Attempted(logs) /\ runs' = runs
                           /\ ids = Unsynced(logs)
  <2>1. Unsynced(runs) \in SUBSET Nat /\ Unsynced(logs) \in SUBSET Nat
    BY <1>0 DEF Unsynced
  <2>2. CASE sync_runs
    BY <2>1, <2>2 DEF sync_runs
  <2>3. CASE sync_logs /\ Tried("run", this_run)
    BY <2>1, <2>3 DEF sync_logs
  <2> QED
    BY <2>2, <2>3
<1>2. /\ RowsOf(RunRow, runs, runs') /\ RowsOf(LogRow, logs, logs')
      /\ ConfirmedIsStored'
  <2>1. runs' = runs \/ runs' = Attempted(runs)
    BY <1>1
  <2>2. logs' = logs \/ logs' = Attempted(logs)
    BY <1>1
  <2>3. /\ RowsOf(RunRow, runs, runs')
        /\ \A i \in DOMAIN runs' : runs'[i].status = 1 =>
             i \in DOMAIN runs /\ runs[i].status = 1
    BY <1>0, <2>1, SameOrAttempted
  <2>4. /\ RowsOf(LogRow, logs, logs')
        /\ \A i \in DOMAIN logs' : logs'[i].status = 1 =>
             i \in DOMAIN logs /\ logs[i].status = 1
    BY <1>0, <2>2, SameOrAttempted
  <2> QED
    BY <2>3, <2>4, StillConfirmed
<1>3. \A i \in ids : TriedIn(runs', logs', name, i)
  <2>1. CASE name = "run"
    <3>1. DOMAIN runs' = DOMAIN runs /\ \A i \in DOMAIN runs : runs'[i].status # 0
      <4>1. DOMAIN Attempted(runs) = DOMAIN runs
        BY DEF Attempted
      <4>2. \A i \in DOMAIN runs : Attempted(runs)[i].status # 0
        BY <1>0, AttemptRows
      <4> QED
        BY <1>1, <2>1, <4>1, <4>2
    <3> QED
      BY <1>1, <2>1, <3>1 DEF TriedIn, Unsynced
  <2>2. CASE name = "log"
    <3>1. DOMAIN logs' = DOMAIN logs /\ \A i \in DOMAIN logs : logs'[i].status # 0
      <4>1. DOMAIN Attempted(logs) = DOMAIN logs
        BY DEF Attempted
      <4>2. \A i \in DOMAIN logs : Attempted(logs)[i].status # 0
        BY <1>0, AttemptRows
      <4> QED
        BY <1>1, <2>2, <4>1, <4>2
    <3> QED
      BY <1>1, <2>2, <3>1 DEF TriedIn, Unsynced
  <2> QED
    BY <2>1, <2>2
<1>4. UNCHANGED <<up, to_client>> /\ up'
  BY <1>1 DEF Send
<1>5. CASE ids = {}
  <2>1. to_server' = to_server /\ to_server \in Seq(Packet)
    BY <1>1, <1>5 DEF Send, NetTypes
  <2>2. TriedStays /\ Thinned(to_server, to_server')
    BY <1>2, <2>1, RowsStayTried, SameThins
  <2>3. lives' \in Nat /\ up' \in BOOLEAN /\ this_run' \in DOMAIN runs'
    BY <1>4, <2>2 DEF NetTypes, TriedStays
  <2> QED
    BY <1>2, <1>4, <2>1, <2>2, <2>3, QuietStep
<1>6. CASE ids # {}
  <2>1. to_server' = Append(to_server, [table |-> name, ids |-> ids,
                                        uuid |-> this_run, life |-> lives])
    BY <1>1, <1>6 DEF Send
  <2>2. name = "run" => \A i \in ids : runs[i].status = 0
    BY <1>1 DEF Unsynced
  <2> QED
    BY <1>1, <1>2, <1>3, <1>4, <2>1, <2>2, SentPacket
<1> QED
  BY <1>5, <1>6

-----------------------------------------------------------------------------
\* The server stores the first packet of some life and confirms it.
LEMMA StoresFlow ==
  ASSUME IInv, FlowInv, server_stores
  PROVE  FlowInv'
<1> USE DEF FlowInv
<1>0. UNCHANGED <<dbVars, wsVars, lifeVars>>
  BY DEF server_stores
<1>1. PICK k \in DOMAIN to_server :
        /\ \A j \in 1..(k - 1) : to_server[j].life # to_server[k].life
        /\ to_server' = RemoveAt(to_server, k)
        /\ stored' = stored \cup
             {[table |-> to_server[k].table, id |-> i, uuid |-> to_server[k].uuid,
               life |-> to_server[k].life] : i \in to_server[k].ids}
        /\ \/ to_client' = Append(to_client, [table |-> to_server[k].table,
                                             ids |-> to_server[k].ids])
           \/ to_client' = to_client
  BY DEF server_stores
<1> DEFINE m == to_server[k]
           r == [table |-> m.table, ids |-> m.ids]
           new == {[table |-> m.table, id |-> i, uuid |-> m.uuid,
                    life |-> m.life] : i \in m.ids}
<1>2. to_server \in Seq(Packet) /\ to_client \in Seq(Reply) /\ m \in Packet
  BY DEF NetTypes
<1>3. /\ m.table \in {"run", "log"} /\ m.ids \subseteq Nat
      /\ r \in Reply /\ r.table = m.table /\ r.ids = m.ids
  BY <1>2 DEF Packet, Reply
<1>4. /\ \A s \in new : s.table = m.table /\ s.uuid = m.uuid /\ s.life = m.life
      /\ \A i \in m.ids : \E s \in new : s.table = m.table /\ s.id = i
      /\ stored' = stored \cup new
  <2> DEFINE rec(i) == [table |-> m.table, id |-> i, uuid |-> m.uuid, life |-> m.life]
  <2>1. \A i \in m.ids : /\ rec(i) \in new /\ rec(i).table = m.table /\ rec(i).id = i
                         /\ rec(i).uuid = m.uuid /\ rec(i).life = m.life
    OBVIOUS
  <2>2. \A s \in new : \E i \in m.ids : s = rec(i)
    OBVIOUS
  <2>3. stored' = stored \cup new
    BY <1>1
  <2> HIDE DEF rec, new, m
  <2> QED
    BY <2>1, <2>2, <2>3
<1>5. to_server' \in Seq(Packet) /\ Thinned(to_server, to_server')
  BY <1>1, <1>2, RemovalThins
<1>6. PICK f \in [DOMAIN to_server' -> DOMAIN to_server] :
        /\ \A j, n \in DOMAIN to_server' : f[j] < f[n] => j < n
        /\ \A n \in DOMAIN to_server' : to_server'[n] = to_server[f[n]]
  BY <1>5 DEF Thinned
<1>7. \A n \in DOMAIN to_server' : f[n] \in DOMAIN to_server
  BY <1>6
<1> HIDE DEF m, r, new
<1>8. /\ to_client' \in Seq(Reply)
      /\ \A n \in DOMAIN to_client' :
           to_client'[n] = r \/ (n \in DOMAIN to_client /\ to_client'[n] = to_client[n])
  <2>1. to_client' = Append(to_client, r) \/ to_client' = to_client
    BY <1>1 DEF r, m
  <2>2. CASE to_client' = Append(to_client, r)
    <3>1. /\ DOMAIN to_client' = 1..(Len(to_client) + 1)
          /\ DOMAIN to_client = 1..Len(to_client) /\ Len(to_client) \in Nat
          /\ to_client'[Len(to_client) + 1] = r /\ to_client' \in Seq(Reply)
          /\ \A n \in DOMAIN to_client : to_client'[n] = to_client[n]
      BY <1>2, <1>3, <2>2
    <3> QED
      BY <3>1
  <2>3. CASE to_client' = to_client
    BY <1>2, <2>3
  <2> QED
    BY <2>1, <2>2, <2>3
<1>9. NetTypes'
  BY <1>0, <1>5, <1>8 DEF NetTypes, dbVars, lifeVars
<1>10. TriedInFlight'
  <2>1. \A n \in DOMAIN to_server' : \A i \in to_server'[n].ids :
          Tried(to_server'[n].table, i)
    BY <1>6, <1>7 DEF TriedInFlight
  <2>2. \A n \in DOMAIN to_server' :
          to_server'[n].table = "log" => Tried("run", to_server'[n].uuid)
    BY <1>6, <1>7 DEF TriedInFlight
  <2>3. /\ \A i \in m.ids : Tried(m.table, i)
        /\ m.table = "log" => Tried("run", m.uuid)
    BY DEF TriedInFlight, m
  <2>4. \A n \in DOMAIN to_client' : \A i \in to_client'[n].ids :
          Tried(to_client'[n].table, i)
    BY <1>3, <1>8, <2>3 DEF TriedInFlight
  <2>5. \A s \in stored' : s.table = "log" => Tried("run", s.uuid)
    BY <1>4, <2>3 DEF TriedInFlight
  <2> QED
    BY <1>0, <2>1, <2>2, <2>4, <2>5 DEF TriedInFlight, Tried, dbVars
<1>11. RunBeforeUse'
  BY <1>0 DEF RunBeforeUse, Tried, dbVars, wsVars, lifeVars
<1>12. RunsFirst'
  <2>1. \A j, n \in DOMAIN to_server' :
          CarriesRunOf(to_server'[j], to_server'[n]) => j < n
    BY <1>6, <1>7 DEF RunsFirst
  <2>2. \A j \in DOMAIN to_server : ~(CarriesRunOf(to_server[j], m))
    <3> SUFFICES ASSUME NEW j \in DOMAIN to_server, CarriesRunOf(to_server[j], m)
                 PROVE  FALSE
      OBVIOUS
    <3>1. j < k /\ to_server[j].life = to_server[k].life
      BY DEF RunsFirst, CarriesRunOf, m
    <3>2. j \in 1..(k - 1)
      BY <1>2, <3>1
    <3> QED
      BY <1>1, <3>1, <3>2
  <2>3. \A s \in new : \A p : CarriesRunOf(p, s) => CarriesRunOf(p, m)
    BY <1>4 DEF CarriesRunOf
  <2>4. \A s \in stored' : \A n \in DOMAIN to_server' : ~CarriesRunOf(to_server'[n], s)
    BY <1>4, <1>6, <1>7, <2>2, <2>3 DEF RunsFirst
  <2> QED
    BY <2>1, <2>4 DEF RunsFirst
<1>13. RepliesStored'
  BY <1>3, <1>4, <1>8 DEF RepliesStored
<1>14. ConfirmedIsStored'
  BY <1>0, <1>4, StillConfirmed DEF dbVars
<1> QED
  BY <1>9, <1>10, <1>11, <1>12, <1>13, <1>14

\* A confirmation is read.
LEMMA MessageFlow ==
  ASSUME IInv, FlowInv, on_client_message
  PROVE  FlowInv'
<1> USE DEF FlowInv
<1> DEFINE m == Head(to_client)
<1>0. /\ runs \in Seq(RunRow) /\ logs \in Seq(LogRow)
      /\ OneAttempt(runs) /\ OneAttempt(logs)
  BY DEF IInv, DbTypes
<1>1. /\ to_client # <<>> /\ to_client' = Tail(to_client)
      /\ m.table = "log" => logs' = Confirmed(logs, m.ids) /\ runs' = runs
      /\ m.table # "log" => runs' = Confirmed(runs, m.ids) /\ logs' = logs
      /\ UNCHANGED <<wsVars, lifeVars, to_server, stored>>
  BY DEF on_client_message
<1>2. 1 \in DOMAIN to_client /\ m = to_client[1] /\ m.table \in {"run", "log"}
  <2>1. to_client \in Seq(Reply) /\ to_client # <<>>
    BY <1>1 DEF NetTypes
  <2>2. 1 \in DOMAIN to_client /\ m = to_client[1]
    BY <2>1
  <2>3. to_client[1] \in Reply
    BY <2>1, <2>2
  <2> QED
    BY <2>2, <2>3 DEF Reply
<1> HIDE DEF m
<1>3. \A i \in m.ids : /\ Tried(m.table, i)
                       /\ \E s \in stored : s.table = m.table /\ s.id = i
  BY <1>2 DEF TriedInFlight, RepliesStored
<1>4. /\ RowsOf(RunRow, runs, runs')
      /\ \A i \in DOMAIN runs' : runs'[i].status = 1 =>
           \E s \in stored : s.table = "run" /\ s.id = i
  <2>1. CASE m.table = "log"
    BY <1>0, <1>1, <2>1, SameRows DEF ConfirmedIsStored
  <2>2. CASE m.table = "run"
    <3>1. \A i \in m.ids : i \in DOMAIN runs => runs[i].status # 0
      BY <1>3, <2>2 DEF Tried, TriedIn
    <3>2. /\ RowsOf(RunRow, runs, Confirmed(runs, m.ids))
          /\ \A i \in DOMAIN runs : Confirmed(runs, m.ids)[i].status = 1 =>
               runs[i].status = 1 \/ i \in m.ids
      BY <1>0, <3>1, ConfirmRows
    <3>3. DOMAIN Confirmed(runs, m.ids) = DOMAIN runs
      BY DEF Confirmed
    <3> QED
      BY <1>1, <1>3, <2>2, <3>2, <3>3 DEF ConfirmedIsStored
  <2> QED
    BY <1>2, <2>1, <2>2
<1>5. /\ RowsOf(LogRow, logs, logs')
      /\ \A i \in DOMAIN logs' : logs'[i].status = 1 =>
           \E s \in stored : s.table = "log" /\ s.id = i
  <2>1. CASE m.table = "run"
    BY <1>0, <1>1, <2>1, SameRows DEF ConfirmedIsStored
  <2>2. CASE m.table = "log"
    <3>1. \A i \in m.ids : i \in DOMAIN logs => logs[i].status # 0
      BY <1>3, <2>2 DEF Tried, TriedIn
    <3>2. /\ RowsOf(LogRow, logs, Confirmed(logs, m.ids))
          /\ \A i \in DOMAIN logs : Confirmed(logs, m.ids)[i].status = 1 =>
               logs[i].status = 1 \/ i \in m.ids
      BY <1>0, <3>1, ConfirmRows
    <3>3. DOMAIN Confirmed(logs, m.ids) = DOMAIN logs
      BY DEF Confirmed
    <3> QED
      BY <1>1, <1>3, <2>2, <3>2, <3>3 DEF ConfirmedIsStored
  <2> QED
    BY <1>2, <2>1, <2>2
<1>6. ConfirmedIsStored'
  BY <1>1, <1>4, <1>5 DEF ConfirmedIsStored
<1>7. TriedStays
  BY <1>4, <1>5, RowsStayTried
<1>8. RunBeforeUse'
  BY <1>1, <1>7, StillInUse DEF wsVars, lifeVars
<1>9. Thinned(to_server, to_server') /\ to_server' \in Seq(Packet)
  BY <1>1, SameThins DEF NetTypes
<1>10. lives' \in Nat /\ up' \in BOOLEAN /\ (up' => this_run' \in DOMAIN runs')
  BY <1>1, <1>7 DEF NetTypes, lifeVars, TriedStays
<1> QED
  BY <1>1, <1>4, <1>5, <1>6, <1>7, <1>8, <1>9, <1>10, QuietStep

-----------------------------------------------------------------------------
\* The other steps.

\* A process begins: with a new row or an old one, and no connection yet.
LEMMA BeginFlow ==
  ASSUME IInv, FlowInv, init
  PROVE  FlowInv'
<1> USE DEF FlowInv
<1>0. /\ runs \in Seq(RunRow) /\ logs \in Seq(LogRow)
  BY DEF IInv, DbTypes
<1>1. /\ ~up /\ up' /\ up' \in BOOLEAN /\ lives' = lives + 1
      /\ UNCHANGED <<logs, wsVars, to_server, to_client, stored>>
  BY DEF init
<1>2. PICK p \in Pid :
        \/ /\ runs' = Append(runs, [pid |-> p, status |-> 0, uploads |-> 0])
           /\ this_run' = Len(runs) + 1
        \/ runs' = runs /\ this_run' \in DOMAIN runs
  BY DEF init
<1> DEFINE row == [pid |-> p, status |-> 0, uploads |-> 0]
<1>3. row \in RunRow /\ row.status = 0
  BY DEF RunRow
<1> HIDE DEF row
<1>4. /\ RowsOf(RunRow, runs, runs') /\ this_run' \in DOMAIN runs'
      /\ \A i \in DOMAIN runs' : runs'[i].status = 1 =>
           i \in DOMAIN runs /\ runs[i].status = 1
  <2>1. CASE runs' = Append(runs, row) /\ this_run' = Len(runs) + 1
    BY <1>0, <1>3, <2>1, AppendRows
  <2>2. CASE runs' = runs /\ this_run' \in DOMAIN runs
    BY <1>0, <2>2, SameRows
  <2> QED
    BY <1>2, <2>1, <2>2 DEF row
<1>5. RowsOf(LogRow, logs, logs')
  BY <1>0, <1>1, SameRows
<1>6. TriedStays
  BY <1>4, <1>5, RowsStayTried
<1>7. RunBeforeUse'
  BY <1>1 DEF RunBeforeUse, wsVars
<1>8. ConfirmedIsStored'
  BY <1>1, <1>4, StillConfirmed
<1>9. Thinned(to_server, to_server') /\ to_server' \in Seq(Packet) /\ lives' \in Nat
  BY <1>1, SameThins DEF NetTypes
<1> QED
  BY <1>1, <1>4, <1>5, <1>6, <1>7, <1>8, <1>9, QuietStep

\* An entry is stored in the database.
LEMMA StoreEntryFlow ==
  ASSUME IInv, FlowInv, NEW t \in Thread, store_log_entry(t)
  PROVE  FlowInv'
<1> USE DEF FlowInv
<1> DEFINE row == [type |-> this_log, text |-> out, status |-> 0, uploads |-> 0]
<1>0. /\ runs \in Seq(RunRow) /\ logs \in Seq(LogRow)
      /\ row \in LogRow /\ row.status = 0
  BY DEF IInv, DbTypes, LogRow
<1>1. /\ logs' = Append(logs, row) /\ runs' = runs
      /\ UNCHANGED <<wsVars, lifeVars, to_server, to_client, stored>>
  BY DEF store_log_entry, netVars
<1> HIDE DEF row
<1>2. /\ RowsOf(LogRow, logs, logs')
      /\ \A i \in DOMAIN logs' : logs'[i].status = 1 =>
           i \in DOMAIN logs /\ logs[i].status = 1
  BY <1>0, <1>1, AppendRows
<1>3. RowsOf(RunRow, runs, runs')
  BY <1>0, <1>1, SameRows
<1>4. TriedStays
  BY <1>2, <1>3, RowsStayTried
<1>5. RunBeforeUse'
  BY <1>1, <1>4, StillInUse DEF wsVars, lifeVars
<1>6. ConfirmedIsStored'
  BY <1>1, <1>2, StillConfirmed
<1>7. Thinned(to_server, to_server') /\ to_server' \in Seq(Packet)
  BY <1>1, SameThins DEF NetTypes
<1>8. lives' \in Nat /\ up' \in BOOLEAN /\ (up' => this_run' \in DOMAIN runs')
  BY <1>1 DEF NetTypes, lifeVars
<1> QED
  BY <1>1, <1>2, <1>3, <1>4, <1>5, <1>6, <1>7, <1>8, QuietStep

\* Packets and replies are lost with the connection.
LEMMA BreakFlow ==
  ASSUME IInv, FlowInv, connection_breaks
  PROVE  FlowInv'
<1> USE DEF FlowInv
<1>1. /\ to_client' = <<>> /\ UNCHANGED <<dbVars, wsVars, lifeVars, stored>>
      /\ \E n \in 0..Len(to_server) : to_server' = SubSeq(to_server, 1, n)
  BY DEF connection_breaks, ConnectionLost
<1>2. RowsOf(RunRow, runs, runs') /\ RowsOf(LogRow, logs, logs')
  BY <1>1, SameRows DEF IInv, DbTypes, dbVars
<1>3. TriedStays
  BY <1>2, RowsStayTried
<1>4. to_server' \in Seq(Packet) /\ Thinned(to_server, to_server')
  BY <1>1, PrefixThins DEF NetTypes
<1>5. RunBeforeUse'
  BY <1>1, <1>3, StillInUse DEF wsVars, lifeVars
<1>6. ConfirmedIsStored'
  BY <1>1 DEF ConfirmedIsStored, dbVars
<1>7. lives' \in Nat /\ up' \in BOOLEAN /\ (up' => this_run' \in DOMAIN runs')
  BY <1>1 DEF NetTypes, lifeVars, dbVars
<1> QED
  BY <1>1, <1>2, <1>3, <1>4, <1>5, <1>6, <1>7, QuietStep

\* The synchronisations of a flush, of a connection that opens and of the exit.
LEMMA SyncStepsFlow ==
  ASSUME IInv, FlowInv,
         \/ \E t \in Thread : flush_sync(t)
         \/ open_sync_runs \/ open_sync_logs \/ exit_sync_runs \/ exit_sync_logs
  PROVE  FlowInv'
<1> USE DEF FlowInv
<1>0. UNCHANGED <<lives, this_run, stored>> /\ up
  BY DEF flush_sync, open_sync_runs, open_sync_logs, exit_sync_runs,
     exit_sync_logs, ExitSyncs
<1>1. CASE (sync_runs \/ sync_logs) /\ conn # "open"
  <2>1. ProcessEnds
    BY <1>1 DEF sync_runs, sync_logs, Send
  <2>2. /\ runs' = runs \/ runs' = Attempted(runs)
        /\ logs' = logs \/ logs' = Attempted(logs)
    BY <1>1 DEF sync_runs, sync_logs
  <2> QED
    BY <1>0, <2>1, <2>2, EndedFlow
<1>2. CASE UNCHANGED <<dbVars, to_server, to_client, up, wsVars>>
  <2>1. RunBeforeUse'
    BY <1>0, <1>2 DEF RunBeforeUse, Tried, dbVars, wsVars
  <2> QED
    BY <1>0, <1>2, <2>1, IdleStep DEF lifeVars
<1>3. ASSUME conn = "open", sync_runs \/ (sync_logs /\ Tried("run", this_run)),
             connection_is_open' \/ ws_pc' \in {"logs", "notify"} =>
               connection_is_open \/ ws_pc \in {"logs", "notify"} \/ sync_runs
      PROVE  FlowInv'
  <2>0. /\ runs \in Seq(RunRow) /\ logs \in Seq(LogRow)
        /\ OneAttempt(runs) /\ OneAttempt(logs)
    BY DEF IInv, DbTypes
  <2>1. UNCHANGED up
    BY <1>3 DEF sync_runs, sync_logs, Send
  <2>2. /\ runs' = runs \/ runs' = Attempted(runs)
        /\ logs' = logs \/ logs' = Attempted(logs)
    BY <1>3 DEF sync_runs, sync_logs
  <2>3. RowsOf(RunRow, runs, runs') /\ RowsOf(LogRow, logs, logs')
    BY <2>0, <2>2, SameOrAttempted
  <2>4. TriedStays
    BY <2>3, RowsStayTried
  <2>5. sync_runs => TriedIn(runs', logs', "run", this_run')
    <3> SUFFICES ASSUME sync_runs PROVE TriedIn(runs', logs', "run", this_run)
      BY <1>0
    <3>1. \A i \in DOMAIN runs : Attempted(runs)[i].status # 0
      BY <2>0, AttemptRows
    <3>2. this_run \in DOMAIN runs /\ DOMAIN Attempted(runs) = DOMAIN runs
      BY <1>0 DEF NetTypes, Attempted
    <3>3. runs' = Attempted(runs)
      BY DEF sync_runs
    <3> QED
      BY <3>1, <3>2, <3>3 DEF TriedIn
  <2>6. RunBeforeUse'
    BY <1>0, <1>3, <2>1, <2>4, <2>5 DEF RunBeforeUse, TriedStays, Tried
  <2> QED
    BY <1>0, <1>3, <2>6, SyncedFlow
<1>4. CASE \E t \in Thread : flush_sync(t)
  <2>1. PICK t \in Thread : flush_sync(t)
    BY <1>4
  <2>2. CASE ~connection_is_open
    BY <1>2, <2>1, <2>2 DEF flush_sync, wsVars
  <2>3. CASE connection_is_open
    <3>1. sync_logs /\ Tried("run", this_run)
      BY <2>1, <2>3 DEF flush_sync, RunBeforeUse
    <3> QED
      BY <1>1, <1>3, <2>3, <3>1
  <2> QED
    BY <2>2, <2>3
<1>5. CASE open_sync_runs
  <2>1. sync_runs /\ ws_pc' = "logs"
    BY <1>5 DEF open_sync_runs
  <2>2. conn = "open"
    BY <2>1 DEF sync_runs, Send, ProcessEnds
  <2> QED
    BY <1>3, <2>1, <2>2
<1>6. CASE open_sync_logs
  <2>1. sync_logs /\ Tried("run", this_run) /\ ws_pc = "logs"
    BY <1>6 DEF open_sync_logs, RunBeforeUse
  <2> QED
    BY <1>1, <1>3, <2>1
<1>7. CASE exit_sync_runs \/ exit_sync_logs
  <2>1. CASE ~connection_is_open
    BY <1>2, <1>7, <2>1 DEF exit_sync_runs, exit_sync_logs, ExitSyncs
  <2>2. CASE connection_is_open
    <3>1. (sync_runs \/ sync_logs) /\ Tried("run", this_run)
      BY <1>7, <2>2 DEF exit_sync_runs, exit_sync_logs, ExitSyncs, RunBeforeUse
    <3> QED
      BY <1>1, <1>3, <2>2, <3>1
  <2> QED
    BY <2>1, <2>2
<1> QED
  BY <1>4, <1>5, <1>6, <1>7

LEMMA FlowStep == IInv /\ FlowInv /\ [Next]_vars => FlowInv'
<1> SUFFICES ASSUME IInv, FlowInv, [Next]_vars PROVE FlowInv'
  OBVIOUS
<1>1. CASE init
  BY <1>1, BeginFlow
<1>2. CASE crash \/ exit_join
  BY <1>2, EndedFlow DEF crash, exit_join, dbVars
<1>3. ASSUME NEW t \in Thread, store_log_entry(t) PROVE FlowInv'
  BY <1>3, StoreEntryFlow
<1>4. CASE \/ \E t \in Thread : flush_sync(t)
           \/ open_sync_runs \/ open_sync_logs \/ exit_sync_runs \/ exit_sync_logs
  BY <1>4, SyncStepsFlow
<1>5. CASE on_client_message
  BY <1>5, MessageFlow
<1>6. CASE server_stores
  BY <1>6, StoresFlow
<1>7. CASE connection_breaks
  BY <1>7, BreakFlow
<1>8. CASE \/ \E t \in Thread : log_begin(t) \/ log_stream(t) \/ flush_clear(t)
           \/ on_client_open \/ on_client_fail \/ on_client_close \/ open_notify
           \/ exit_begins \/ exit_woken \/ exit_spurious_wakeup \/ exit_stop
           \/ UNCHANGED vars
  <2>1. UNCHANGED <<dbVars, to_server, to_client, stored, lifeVars>>
    BY <1>8 DEF log_begin, log_stream, flush_clear, on_client_open, on_client_fail,
       on_client_close, open_notify, exit_begins, exit_woken,
       exit_spurious_wakeup, exit_stop, vars, netVars
  <2>2. connection_is_open' \/ ws_pc' \in {"logs", "notify"} =>
          connection_is_open \/ ws_pc \in {"logs", "notify"}
    BY <1>8 DEF log_begin, log_stream, flush_clear, on_client_open, on_client_fail,
       on_client_close, open_notify, exit_begins, exit_woken,
       exit_spurious_wakeup, exit_stop, vars, wsVars
  <2>3. RunBeforeUse'
    BY <2>1, <2>2 DEF FlowInv, RunBeforeUse, Tried, dbVars, lifeVars
  <2> QED
    BY <2>1, <2>3, IdleStep
<1> QED
  BY <1>1, <1>2, <1>3, <1>4, <1>5, <1>6, <1>7, <1>8
     DEF Next, Log, Websocket, Exit

LEMMA InitFlow == Init => FlowInv
<1> SUFFICES ASSUME Init PROVE FlowInv
  OBVIOUS
<1>1. /\ DOMAIN to_server = {} /\ DOMAIN to_client = {} /\ stored = {}
      /\ DOMAIN runs = {} /\ DOMAIN logs = {}
  BY DEF Init
<1>2. NetTypes
  <2>1. to_server \in Seq(Packet) /\ to_client \in Seq(Reply)
    BY DEF Init
  <2>2. lives \in Nat /\ up = FALSE
    BY DEF Init
  <2>3. \A i \in DOMAIN runs : runs[i].status # 0 => runs[i].uploads > 0
    BY <1>1
  <2> QED
    BY <2>1, <2>2, <2>3 DEF NetTypes
<1>3. RunBeforeUse
  BY DEF Init, RunBeforeUse
<1> QED
  BY <1>1, <1>2, <1>3 DEF FlowInv, TriedInFlight, RunsFirst, RepliesStored,
     ConfirmedIsStored

LEMMA FlowInvariant == Spec => []FlowInv
BY IInvIsInvariant, InitFlow, FlowStep, PTL DEF Spec

\* A row that is marked as synchronised is in the server's tables: an attempt
\* alone never marks it, and a confirmation is only of what was stored.
THEOREM ConfirmedAreStored == Spec => []ConfirmedIsStored
<1>1. FlowInv => ConfirmedIsStored
  BY DEF FlowInv
<1> QED
  BY <1>1, FlowInvariant, PTL

\* The server never has an entry before the run it is filed under, unless the
\* upload of that run was lost.
THEOREM RunsBeforeLogs == Spec => []RunsPrecedeTheirLogs
<1>1. FlowInv => RunsPrecedeTheirLogs
  <2> SUFFICES ASSUME FlowInv, NEW s \in stored, s.table = "log"
               PROVE  /\ runs[s.uuid].uploads > 0
                      /\ \A i \in DOMAIN to_server : ~CarriesRunOf(to_server[i], s)
    BY DEF RunsPrecedeTheirLogs, CarriesRunOf
  <2> QED
    BY DEF FlowInv, NetTypes, TriedInFlight, Tried, TriedIn, RunsFirst
<1> QED
  BY <1>1, FlowInvariant, PTL
=============================================================================
