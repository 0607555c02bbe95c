------------------------------ MODULE Logging ------------------------------
(***************************************************************************)
(* The logging library (client_server/Snoop.cc): entries are written to a  *)
(* local database and uploaded to a logging server over a websocket.       *)
(*                                                                         *)
(* Several threads of the program log; one of them exits, which runs the   *)
(* destructor; the websocket has a thread of its own.  The database        *)
(* outlives the program.  What is done under sqlite_mutex is one step: no  *)
(* step waits for anything while it holds it.                              *)
(*                                                                         *)
(* Entries are named by the thread that logs them and a number; the text   *)
(* of a row is the sequence of the entries whose messages it contains.     *)
(***************************************************************************)
EXTENDS Naturals, Integers, Sequences, FiniteSets, SequencesExt

CONSTANTS Thread,      \* threads that log
          Pid,         \* process ids the operating system gives out
          MaxLogs,     \* bound: entries a thread logs, in all lives
          MaxLives,    \* bound: how often the program is started
          MaxSpurious, \* bound: spurious wakeups of the condition variable
          None

ASSUME LoggingBounds ==
  /\ {MaxLogs, MaxLives, MaxSpurious} \subseteq Nat
  /\ None \notin Thread \cup {"ws", "exit"}

VARIABLES
  \* the database
  runs,        \* rows of table runs
  logs,        \* rows of table logs
  \* the process
  up, lives,
  this_run,    \* the row of runs of this_app_.uuid
  this_log,    \* this_log_.type: the entry operator() was last called for
  out,         \* out_, the text streamed so far
  call_mutex, connection_mutex,
  connection_is_open,
  log_pc, logged,   \* each thread: where it is, entries it began
  ws_pc,       \* the websocket's thread: what it does in on_client_open
  exit_pc,     \* the thread in the destructor
  spurious,
  \* the connection and the logging server
  conn, to_server, to_client,
  stored       \* what the server has: rows by table, with the run they name

dbVars   == <<runs, logs>>
textVars == <<this_log, out, call_mutex, log_pc, logged>>
wsVars   == <<connection_is_open, ws_pc>>
exitVars == <<connection_mutex, exit_pc, spurious>>
lifeVars == <<up, lives, this_run>>
netVars  == <<conn, to_server, to_client, stored>>
vars == <<dbVars, textVars, wsVars, exitVars, lifeVars, netVars>>

Entry  == Thread \X (1..MaxLogs)
NoEntry == <<None, 0>>
RunRow == [pid : Pid, status : {-1, 0, 1}, uploads : Nat]
LogRow == [type : Entry \cup {NoEntry}, text : Seq(Entry),
           status : {-1, 0, 1}, uploads : Nat]
Packet == [table : {"run", "log"}, ids : SUBSET Nat, uuid : Nat, life : Nat]

Init ==
  /\ runs = <<>> /\ logs = <<>>
  /\ up = FALSE /\ lives = 0 /\ this_run = 0
  /\ this_log = NoEntry /\ out = <<>>
  /\ call_mutex = None /\ connection_mutex = None
  /\ connection_is_open = FALSE
  /\ log_pc = [t \in Thread |-> "idle"] /\ logged = [t \in Thread |-> 0]
  /\ ws_pc = "idle" /\ exit_pc = "no" /\ spurious = 0
  /\ conn = "none" /\ to_server = <<>> /\ to_client = <<>>
  /\ stored = {}

-----------------------------------------------------------------------------
(* The process begins and ends.                                             *)

(* When it ends, whatever way, packets that were not written to the network *)
(* and replies that were not read are gone.                                 *)
ConnectionLost ==
  /\ \E n \in 0..Len(to_server) : to_server' = SubSeq(to_server, 1, n)
  /\ to_client' = <<>>

ProcessEnds ==
  /\ up' = FALSE /\ conn' = "none"
  /\ ConnectionLost
  /\ this_log' = NoEntry /\ out' = <<>>
  /\ call_mutex' = None /\ connection_mutex' = None
  /\ connection_is_open' = FALSE
  /\ log_pc' = [t \in Thread |-> "idle"]
  /\ ws_pc' = "idle" /\ exit_pc' = "no"

(* init, with obtain_uuid: a row of runs with our process id is taken for   *)
(* our own, also when an earlier process had that id.                       *)
init ==
  /\ ~up /\ lives < MaxLives
  /\ up' = TRUE /\ lives' = lives + 1
  /\ \E p \in Pid :
       LET old == {i \in DOMAIN runs : runs[i].pid = p} IN
       IF old = {}
       THEN /\ runs' = Append(runs, [pid |-> p, status |-> 0, uploads |-> 0])
            /\ this_run' = Len(runs) + 1
       ELSE this_run' \in old /\ UNCHANGED runs
  /\ conn' = "connecting"
  /\ UNCHANGED <<logs, textVars, wsVars, exitVars, to_server, to_client, stored>>

crash ==
  /\ up /\ ProcessEnds
  /\ UNCHANGED <<dbVars, lives, this_run, logged, spurious, stored>>

-----------------------------------------------------------------------------
(* Uploading.                                                               *)

Unsynced(table) == {i \in DOMAIN table : table[i].status = 0}

(* Mutant: no row counts the attempt.                                       *)
Mutant_Attempted(table) ==
  [i \in DOMAIN table |->
     IF table[i].status = 0 THEN [table[i] EXCEPT !.uploads = @ + 1]
     ELSE table[i]]

(* "update ... set server_status=server_status-1 where server_status=0".    *)
Attempted(table) ==
  [i \in DOMAIN table |->
     IF table[i].status = 0
     THEN [table[i] EXCEPT !.status = @ - 1, !.uploads = @ + 1]
     ELSE table[i]]

(* wsclient.send throws when the connection is not open any more; nobody    *)
(* catches that exception, and the process ends.  A packet without rows     *)
(* tells the server nothing.                                                *)
Send(name, ids) ==
  IF conn = "open"
  THEN /\ to_server' = IF ids = {} THEN to_server
                       ELSE Append(to_server, [table |-> name, ids |-> ids,
                                               uuid |-> this_run, life |-> lives])
       /\ UNCHANGED <<up, conn, to_client, this_log, out, call_mutex,
                      connection_mutex, connection_is_open>>
  ELSE ProcessEnds

sync_runs == runs' = Attempted(runs) /\ Send("run", Unsynced(runs))
             /\ UNCHANGED logs
sync_logs == logs' = Attempted(logs) /\ Send("log", Unsynced(logs))
             /\ UNCHANGED runs

-----------------------------------------------------------------------------
(* The threads that log:  log(type) << message << flush.                    *)

(* Snoop::operator()                                                        *)
log_begin(t) ==
  /\ up /\ log_pc[t] = "idle" /\ logged[t] < MaxLogs
  /\ call_mutex = None
  /\ logged' = [logged EXCEPT ![t] = @ + 1]
  /\ this_log' = <<t, logged[t] + 1>>
  /\ log_pc' = [log_pc EXCEPT ![t] = "stream"]
  /\ UNCHANGED <<dbVars, out, call_mutex, wsVars, exitVars, lifeVars, netVars>>

(* operator<< of the message takes no lock.                                 *)
log_stream(t) ==
  /\ up /\ log_pc[t] = "stream"
  /\ out' = Append(out, <<t, logged[t]>>)
  /\ log_pc' = [log_pc EXCEPT ![t] = "flush"]
  /\ UNCHANGED <<dbVars, this_log, call_mutex, logged, wsVars, exitVars,
                 lifeVars, netVars>>

(* operator<< of flush, to the end of store_log_entry; call_mutex stays     *)
(* locked.                                                                  *)
Mutant_store_log_entry(t) ==
  /\ up /\ log_pc[t] = "flush" /\ call_mutex = None
  /\ logs' = Append(logs, [type |-> this_log, text |-> out,
                           status |-> 0, uploads |-> 0])
  /\ log_pc' = [log_pc EXCEPT ![t] = "sync"]
  /\ UNCHANGED <<runs, this_log, out, call_mutex, logged, wsVars, exitVars,
                 lifeVars, netVars>>
store_log_entry(t) ==
  /\ up /\ log_pc[t] = "flush" /\ call_mutex = None
  /\ call_mutex' = t
  /\ logs' = Append(logs, [type |-> this_log, text |-> out,
                           status |-> 0, uploads |-> 0])
  /\ log_pc' = [log_pc EXCEPT ![t] = "sync"]
  /\ UNCHANGED <<runs, this_log, out, logged, wsVars, exitVars, lifeVars, netVars>>

(* sync_immediately_ is set in both programs.                               *)
flush_sync(t) ==
  /\ up /\ log_pc[t] = "sync"
  /\ \/ /\ connection_is_open /\ conn = "open" /\ sync_logs
        /\ log_pc' = [log_pc EXCEPT ![t] = "clear"]
        /\ UNCHANGED <<ws_pc, exit_pc>>
     \/ connection_is_open /\ conn # "open" /\ sync_logs
     \/ /\ ~connection_is_open
        /\ log_pc' = [log_pc EXCEPT ![t] = "clear"]
        /\ UNCHANGED <<dbVars, this_log, out, call_mutex, wsVars, up, conn,
                       to_server, to_client, connection_mutex, exit_pc>>
  /\ UNCHANGED <<logged, spurious, lives, this_run, stored>>

flush_clear(t) ==
  /\ up /\ log_pc[t] = "clear"
  /\ out' = <<>> /\ this_log' = NoEntry /\ call_mutex' = None
  /\ log_pc' = [log_pc EXCEPT ![t] = "idle"]
  /\ UNCHANGED <<dbVars, logged, wsVars, exitVars, lifeVars, netVars>>

-----------------------------------------------------------------------------
(* The websocket's thread.                                                  *)

(* on_client_open: first everything that is not synchronised yet, runs and  *)
(* then logs; then connection_is_open is set.                               *)
on_client_open ==
  /\ up /\ ws_pc = "idle" /\ conn = "connecting" /\ exit_pc # "join"
  /\ conn' = "open" /\ ws_pc' = "runs"
  /\ UNCHANGED <<dbVars, textVars, connection_is_open, exitVars, lifeVars,
                 to_server, to_client, stored>>

Mutant_open_sync_runs ==
  /\ up /\ ws_pc = "runs"
  /\ sync_logs
  /\ ws_pc' = "logs"
  /\ UNCHANGED <<log_pc, logged, exit_pc, spurious, lives, this_run, stored>>
open_sync_runs ==
  /\ up /\ ws_pc = "runs"
  /\ sync_runs
  /\ ws_pc' = "logs"
  /\ UNCHANGED <<log_pc, logged, exit_pc, spurious, lives, this_run, stored>>

Mutant_open_sync_logs ==
  /\ up /\ ws_pc = "logs" /\ ws_pc' = "notify"
  /\ UNCHANGED <<dbVars, textVars, connection_is_open, exitVars, lifeVars, netVars>>
open_sync_logs ==
  /\ up /\ ws_pc = "logs"
  /\ sync_logs
  /\ ws_pc' = "notify"
  /\ UNCHANGED <<log_pc, logged, exit_pc, spurious, lives, this_run, stored>>

open_notify ==
  /\ up /\ ws_pc = "notify" /\ connection_mutex = None
  /\ connection_is_open' = TRUE
  /\ exit_pc' = IF exit_pc = "wait" THEN "woken" ELSE exit_pc
  /\ ws_pc' = "idle"
  /\ UNCHANGED <<dbVars, textVars, connection_mutex, spurious, lifeVars, netVars>>

(* on_client_fail does nothing: no second attempt is made.                  *)
on_client_fail ==
  /\ up /\ ws_pc = "idle" /\ conn = "connecting" /\ exit_pc # "join"
  /\ conn' = "failed"
  /\ UNCHANGED <<dbVars, textVars, wsVars, exitVars, lifeVars, to_server,
                 to_client, stored>>

(* The connection breaks: websocketpp marks it closed on this thread and    *)
(* calls on_client_close later.                                             *)
connection_breaks ==
  /\ up /\ ws_pc = "idle" /\ conn = "open" /\ exit_pc # "join"
  /\ conn' = "closing" /\ ConnectionLost
  /\ UNCHANGED <<dbVars, textVars, wsVars, exitVars, lifeVars, stored>>

on_client_close ==
  /\ up /\ ws_pc = "idle" /\ conn = "closing" /\ exit_pc # "join"
  /\ conn' = "closed" /\ connection_is_open' = FALSE
  /\ UNCHANGED <<dbVars, textVars, ws_pc, exitVars, lifeVars, to_server,
                 to_client, stored>>

Confirmed(table, ids) ==
  [i \in DOMAIN table |->
     IF i \in ids THEN [table[i] EXCEPT !.status = 1] ELSE table[i]]

Mutant_on_client_message ==
  /\ up /\ ws_pc = "idle" /\ conn = "open" /\ exit_pc # "join"
  /\ to_client # <<>>
  /\ to_client' = Tail(to_client)
  /\ logs' = Confirmed(logs, Head(to_client).ids) /\ UNCHANGED runs
  /\ UNCHANGED <<textVars, wsVars, exitVars, lifeVars, conn, to_server, stored>>
on_client_message ==
  /\ up /\ ws_pc = "idle" /\ conn = "open" /\ exit_pc # "join"
  /\ to_client # <<>>
  /\ to_client' = Tail(to_client)
  /\ LET m == Head(to_client) IN
       IF m.table = "log"
       THEN logs' = Confirmed(logs, m.ids) /\ UNCHANGED runs
       ELSE runs' = Confirmed(runs, m.ids) /\ UNCHANGED logs
  /\ UNCHANGED <<textVars, wsVars, exitVars, lifeVars, conn, to_server, stored>>

-----------------------------------------------------------------------------
(* The destructor, which the exit of the program runs.                      *)
Mutant_exit_begins ==
  /\ up /\ exit_pc = "no" /\ connection_mutex = None
  /\ exit_pc' = "wait"
  /\ UNCHANGED <<dbVars, textVars, wsVars, connection_mutex, spurious, lifeVars,
                 netVars>>
exit_begins ==
  /\ up /\ exit_pc = "no" /\ connection_mutex = None
  /\ IF connection_is_open
     THEN exit_pc' = "runs" /\ connection_mutex' = "exit"
     ELSE exit_pc' = "wait" /\ UNCHANGED connection_mutex
  /\ UNCHANGED <<dbVars, textVars, wsVars, spurious, lifeVars, netVars>>

(* connection_cv.wait returns, notified or not, with the mutex.             *)
exit_woken ==
  /\ up /\ connection_mutex = None
  /\ exit_pc = "woken"
  /\ exit_pc' = "runs" /\ connection_mutex' = "exit"
  /\ UNCHANGED <<dbVars, textVars, wsVars, spurious, lifeVars, netVars>>

exit_spurious_wakeup ==
  /\ up /\ connection_mutex = None
  /\ exit_pc = "wait" /\ spurious < MaxSpurious
  /\ spurious' = spurious + 1
  /\ exit_pc' = "runs" /\ connection_mutex' = "exit"
  /\ UNCHANGED <<dbVars, textVars, wsVars, lifeVars, netVars>>

(* sync_with_server: each half returns when the connection is not open.     *)
ExitSyncs(from, sync, to) ==
  /\ up /\ exit_pc = from
  /\ \/ /\ connection_is_open /\ conn = "open" /\ sync
        /\ exit_pc' = to
        /\ UNCHANGED <<log_pc, ws_pc>>
     \/ connection_is_open /\ conn # "open" /\ sync
     \/ /\ ~connection_is_open
        /\ exit_pc' = to
        /\ UNCHANGED <<dbVars, this_log, out, call_mutex, log_pc, wsVars, up,
                       conn, to_server, to_client, connection_mutex>>
  /\ UNCHANGED <<logged, spurious, lives, this_run, stored>>

exit_sync_runs == ExitSyncs("runs", sync_runs, "logs")
exit_sync_logs == ExitSyncs("logs", sync_logs, "stop")

(* wsclient.stop: the thread finishes the handler it is in.                 *)
exit_stop ==
  /\ up /\ exit_pc = "stop" /\ exit_pc' = "join"
  /\ UNCHANGED <<dbVars, textVars, wsVars, connection_mutex, spurious, lifeVars,
                 netVars>>
exit_join ==
  /\ up /\ exit_pc = "join" /\ ws_pc = "idle"
  /\ ProcessEnds
  /\ UNCHANGED <<dbVars, lives, this_run, logged, spurious, stored>>

-----------------------------------------------------------------------------
(* The logging server is not part of the repository; its promise is in the  *)
(* messages on_client_message understands.  Packets of one connection come  *)
(* in order, those of an earlier life may come late.                        *)
server_stores ==
  \E k \in DOMAIN to_server :
    LET m == to_server[k] IN
    /\ \A j \in 1..(k - 1) : to_server[j].life # m.life
    /\ to_server' = RemoveAt(to_server, k)
    /\ stored' = stored \cup {[table |-> m.table, id |-> i, uuid |-> m.uuid,
                               life |-> m.life] : i \in m.ids}
    /\ to_client' = IF conn = "open" /\ m.life = lives
                    THEN Append(to_client, [table |-> m.table, ids |-> m.ids])
                    ELSE to_client
    /\ UNCHANGED <<dbVars, textVars, wsVars, exitVars, lifeVars, conn>>

-----------------------------------------------------------------------------
Log(t) == log_begin(t) \/ log_stream(t) \/ store_log_entry(t)
            \/ flush_sync(t) \/ flush_clear(t)
Websocket == \/ on_client_open \/ open_sync_runs \/ open_sync_logs \/ open_notify
             \/ on_client_fail \/ on_client_close \/ on_client_message
Exit == exit_woken \/ exit_sync_runs \/ exit_sync_logs \/ exit_stop \/ exit_join

Next == \/ init \/ crash \/ (\E t \in Thread : Log(t)) \/ Websocket
        \/ exit_begins \/ exit_spurious_wakeup \/ Exit \/ connection_breaks \/ server_stores

Spec == Init /\ [][Next]_vars

(* The connection attempt succeeds or times out, threads that can run do,   *)
(* and the destructor gets connection_mutex when it is free for good.       *)
FairSpec == Spec /\ WF_vars(Websocket) /\ WF_vars(Exit)
                 /\ \A t \in Thread : WF_vars(Log(t))

-----------------------------------------------------------------------------
(* Types of the state.                                                      *)
TypeOK ==
  /\ runs \in Seq(RunRow) /\ logs \in Seq(LogRow)
  /\ up \in BOOLEAN /\ lives \in 0..MaxLives /\ this_run \in 0..Len(runs)
  /\ this_log \in Entry \cup {NoEntry} /\ out \in Seq(Entry)
  /\ call_mutex \in Thread \cup {None} /\ connection_mutex \in {"exit", None}
  /\ connection_is_open \in BOOLEAN
  /\ log_pc \in [Thread -> {"idle", "stream", "flush", "sync", "clear"}]
  /\ logged \in [Thread -> 0..MaxLogs]
  /\ ws_pc \in {"idle", "runs", "logs", "notify"}
  /\ exit_pc \in {"no", "wait", "woken", "runs", "logs", "stop", "join"}
  /\ spurious \in 0..MaxSpurious
  /\ conn \in {"none", "connecting", "open", "closing", "closed", "failed"}
  /\ to_server \in Seq(Packet)
  /\ to_client \in Seq([table : {"run", "log"}, ids : SUBSET Nat])
  /\ \A s \in stored : s.table \in {"run", "log"} /\ {s.id, s.uuid} \subseteq Nat

(* Whoever synchronises (a flush, a new connection, the destructor, a later *)
(* life of the program), no row is handed to the websocket twice.           *)
UploadedOnce ==
  /\ \A i \in DOMAIN runs : runs[i].uploads <= 1
  /\ \A i \in DOMAIN logs : logs[i].uploads <= 1

(* A row that is marked as synchronised, and will not be uploaded again, is *)
(* in the server's tables.                                                  *)
ConfirmedIsStored ==
  /\ \A i \in DOMAIN runs : runs[i].status = 1 =>
       \E s \in stored : s.table = "run" /\ s.id = i
  /\ \A i \in DOMAIN logs : logs[i].status = 1 =>
       \E s \in stored : s.table = "log" /\ s.id = i

(* The server never gets an entry before the run it is filed under, unless  *)
(* the upload of that run was lost with its connection.                     *)
RunsPrecedeTheirLogs ==
  \A s \in stored : s.table = "log" =>
    /\ runs[s.uuid].uploads > 0
    /\ \A i \in DOMAIN to_server :
         ~(/\ to_server[i].table = "run" /\ s.uuid \in to_server[i].ids
           /\ to_server[i].life = s.life)

(* However the threads interleave, the text of an entry is in one row at    *)
(* most.                                                                    *)
TextStoredOnce ==
  \A i, j \in DOMAIN logs :
    i # j => ToSet(logs[i].text) \cap ToSet(logs[j].text) = {}

(* What an earlier life, or the time before the connection was open, left   *)
(* behind is uploaded when a connection opens.                              *)
OpeningCatchesUp ==
  \A i \in 1..(MaxLogs * Cardinality(Thread)) :
    (i \in DOMAIN logs /\ conn = "connecting")
      ~> (i \notin Unsynced(logs) \/ conn = "failed" \/ ~up)

(* The destructor comes to its end, unless the connection never opens or is *)
(* gone, or its wait is interrupted before that.                            *)
ExitEnds ==
  (exit_pc # "no") ~> (exit_pc = "no" \/ spurious > 0
                        \/ conn \in {"failed", "closing", "closed"})

(* Snoop.cc says it uploads "all locally stored entries which have a        *)
(* server_status field negative or zero", Snoop.hh that a negative value    *)
(* counts attempts.  A new connection tries again what was tried before.    *)
(* (The code does not keep this: see the README.)                           *)
FailedUploadsAreRetried ==
  [][ ws_pc = "logs" /\ ws_pc' = "notify" =>
        \A i \in DOMAIN logs : logs[i].status <= 0
          => logs'[i].uploads = logs[i].uploads + 1 ]_vars

=============================================================================
