--------------------------- MODULE MySQLConnection ---------------------------
(***************************************************************************)
(* One `MySQL` object of the JavaScript runtime (bindings/modules/         *)
(* mysql_module.cc) and the thread that talks to the server for it         *)
(* (bindings/modules/mysql/).                                              *)
(*                                                                         *)
(* The main thread runs JavaScript, which issues queries, closes the       *)
(* connection and drops the object, and once per server frame pops what    *)
(* the client thread has reported and settles promises.  The client thread *)
(* connects, pings and executes.  They share five mutex-protected queues   *)
(* and the request_shutdown_ flag; closing joins the client thread, which  *)
(* blocks the main thread.                                                 *)
(*                                                                         *)
(* A step of this module is what one thread does between two accesses to   *)
(* state the other one can see.  `size() > 0` followed by `pop` is one     *)
(* step: every queue has a single consumer, so nothing can empty it        *)
(* between the two.                                                        *)
(***************************************************************************)
EXTENDS Integers, Sequences, Functions

CONSTANTS
  MaxQueries,       \* bound: queries JavaScript issues
  MaxAttempts,      \* bound: connection results that may wait for the host
  DrainLimit,       \* queries executed at shutdown at most (50 in the code)
  JoinTimesOut      \* TRUE for the WIN32 build: stop() waits 1000 ms, no more

ASSUME ConstantsAssumption ==
  /\ MaxQueries \in Nat \ {0}
  /\ MaxAttempts \in Nat
  /\ DrainLimit \in Nat
  /\ JoinTimesOut \in BOOLEAN

VARIABLES
  (* The MySQL object, main thread. *)
  alive,                  \* the object has not been collected
  ready,                  \* the promise returned by the `ready` getter
  connected,              \* connected_
  query_request_id,       \* query_request_id_, the id of the next query
  promise,                \* the promise query() returned for each id
  queries,                \* the keys of queries_, the unresolved queries
  (* The connection host, main thread. *)
  host_pc,                \* where the main thread is in this object's code
  host_return,            \* where it goes on after the join it waits in
  is_running,             \* Thread::is_running_
  (* Shared with the client thread. *)
  request_shutdown,       \* Thread::request_shutdown_
  connection_queue,       \* host to client: connection information
  query_queue,            \* host to client: query ids
  attempt_queue,          \* client to host: did the attempt succeed?
  succeeded_queue,        \* client to host: ids of successful queries
  failed_queue,           \* client to host: ids of failed queries
  (* Private to the client thread. *)
  client_pc,              \* where ConnectionClient::run is
  has_information,        \* connection_status_.has_connection_information
  is_connected,           \* connection_status_.is_connected
  retry_due,              \* last_attempt is zero or longer than 5000 ms ago
  ping_due,               \* last_ping is zero or longer than 5000 ms ago
  in_hand,                \* information.id of the query it executes
  drained                 \* ids executed silently, Len is executedQueries

objectVars == <<alive, ready, connected, query_request_id, promise, queries>>
hostVars   == <<host_pc, host_return, is_running, request_shutdown>>
resultVars == <<attempt_queue, succeeded_queue, failed_queue>>
clientVars == <<client_pc, has_information, is_connected, retry_due, ping_due,
                in_hand, drained>>
vars == <<objectVars, hostVars, connection_queue, query_queue, resultVars,
          clientVars>>

QueryId == 0 .. MaxQueries - 1
Issued  == 0 .. query_request_id - 1

ObjectTypeOK ==
  /\ alive \in BOOLEAN
  /\ ready \in {"pending", "resolved", "rejected"}
  /\ connected \in BOOLEAN
  /\ query_request_id \in 0 .. MaxQueries
  /\ promise \in [QueryId -> {"none", "pending", "resolved", "rejected"}]
  /\ queries \in SUBSET QueryId

HostTypeOK ==
  /\ host_pc \in {"construct", "js", "succeeded", "failed", "join",
                  "crashed"}
  /\ host_return \in {"js", "succeeded", "destroy"}
  /\ is_running \in BOOLEAN
  /\ request_shutdown \in BOOLEAN

QueueTypeOK ==
  /\ connection_queue \in Seq({"information"})
  /\ query_queue \in Seq(QueryId)
  /\ attempt_queue \in Seq(BOOLEAN)
  /\ succeeded_queue \in Seq(QueryId)
  /\ failed_queue \in Seq(QueryId)

ClientTypeOK ==
  /\ client_pc \in {"loop", "body", "sleep", "connect", "ping", "query",
                    "drain", "done"}
  /\ has_information \in BOOLEAN
  /\ is_connected \in BOOLEAN
  /\ retry_due \in BOOLEAN
  /\ ping_due \in BOOLEAN
  /\ in_hand \in QueryId
  /\ drained \in Seq(QueryId)

TypeOK == ObjectTypeOK /\ HostTypeOK /\ QueueTypeOK /\ ClientTypeOK

\* The constructor has created the host, whose client thread is running, and
\* is about to hand it the connection information.
Init ==
  /\ alive = TRUE
  /\ ready = "pending"
  /\ connected = FALSE
  /\ query_request_id = 0
  /\ promise = [id \in QueryId |-> "none"]
  /\ queries = {}
  /\ host_pc = "construct"
  /\ host_return = "js"
  /\ is_running = TRUE
  /\ request_shutdown = FALSE
  /\ connection_queue = <<>>
  /\ query_queue = <<>>
  /\ attempt_queue = <<>>
  /\ succeeded_queue = <<>>
  /\ failed_queue = <<>>
  /\ client_pc = "loop"
  /\ has_information = FALSE
  /\ is_connected = FALSE
  /\ retry_due = TRUE
  /\ ping_due = TRUE
  /\ in_hand = 0
  /\ drained = <<>>
-----------------------------------------------------------------------------
(***************************************************************************)
(* The main thread: JavaScript.                                            *)
(***************************************************************************)

\* connection_->Connect(...), the last statement of the constructor.
Connect ==
  /\ host_pc = "construct"
  /\ connection_queue' = Append(connection_queue, "information")
  /\ host_pc' = "js"
  /\ UNCHANGED <<objectVars, host_return, is_running, request_shutdown,
                 query_queue, resultVars, clientVars>>

\* MySQL.prototype.query().  Nothing in the code asks whether the connection
\* was established, was refused or has been closed.
Query ==
  /\ host_pc = "js" /\ alive
  /\ query_request_id < MaxQueries
  /\ query_queue' = Append(query_queue, query_request_id)
  /\ promise' = [promise EXCEPT ![query_request_id] = "pending"]
  /\ queries' = queries \cup {query_request_id}
  /\ query_request_id' = query_request_id + 1
  /\ UNCHANGED <<alive, ready, connected, hostVars, connection_queue,
                 resultVars, clientVars>>

\* Thread::StopThread, on the way to `next`: blocks until the thread is gone.
StopThread(next) ==
  \/ /\ is_running
     /\ request_shutdown' = TRUE
     /\ host_pc' = "join"
     /\ host_return' = next
  \/ /\ ~is_running
     /\ host_pc' = next
     /\ UNCHANGED <<request_shutdown, host_return>>

\* MySQL.prototype.close().
Close ==
  /\ host_pc = "js" /\ alive
  /\ StopThread("js")
  /\ UNCHANGED <<objectVars, is_running, connection_queue, query_queue,
                 resultVars, clientVars>>

\* OnGarbageCollected deletes the object: its destructor closes the
\* connection, then the promises and the queues go with it.
Destroy ==
  /\ alive' = FALSE
  /\ queries' = {}
  /\ UNCHANGED <<ready, connected, query_request_id, promise>>

Collect ==
  /\ host_pc = "js" /\ alive
  /\ \/ /\ is_running
        /\ StopThread("destroy")
        /\ UNCHANGED objectVars
     \/ /\ ~is_running
        /\ Destroy
        /\ UNCHANGED <<host_pc, host_return, request_shutdown>>
  /\ UNCHANGED <<is_running, connection_queue, query_queue, resultVars,
                 clientVars>>

\* pthread_join returns once the thread has ended; WaitForSingleObject also
\* returns when it has waited for a second.
JoinReturns ==
  /\ host_pc = "join"
  /\ client_pc = "done" \/ JoinTimesOut
  /\ is_running' = FALSE
  /\ IF host_return = "destroy"
     THEN host_pc' = "js" /\ Destroy
     ELSE host_pc' = host_return /\ UNCHANGED objectVars
  /\ UNCHANGED <<host_return, request_shutdown, connection_queue,
                 query_queue, resultVars, clientVars>>
-----------------------------------------------------------------------------
(***************************************************************************)
(* The main thread: one server frame, ProcessUpdates.  It pops at most one *)
(* result of each kind; the client may push between the three checks.      *)
(***************************************************************************)

\* MySQL::DidConnect when `ready` waits for the result.
ReadyDecided(succeeded) ==
  /\ ready' = IF succeeded THEN "resolved" ELSE "rejected"
  /\ UNCHANGED <<alive, query_request_id, promise, queries>>
  /\ IF succeeded
     THEN /\ connected' = TRUE
          /\ host_pc' = "succeeded"
          /\ UNCHANGED <<host_return, request_shutdown>>
     ELSE /\ UNCHANGED connected
          /\ StopThread("succeeded")

\* MySQL::DidConnect.  DCHECK(!ready_->HasSettled()) is a CHECK in every
\* build: where it fails, the process ends.
DidConnect(succeeded) ==
  \/ /\ ready = "pending"
     /\ ReadyDecided(succeeded)
  \/ /\ ready # "pending"
     /\ host_pc' = "crashed"
     /\ UNCHANGED <<objectVars, host_return, request_shutdown>>

ProcessAttempt ==
  /\ host_pc = "js" /\ alive
  /\ \/ /\ attempt_queue # <<>>
        /\ attempt_queue' = Tail(attempt_queue)
        /\ DidConnect(Head(attempt_queue))
     \/ /\ attempt_queue = <<>>
        /\ host_pc' = "succeeded"
        /\ UNCHANGED <<objectVars, host_return, request_shutdown,
                       attempt_queue>>
  /\ UNCHANGED <<is_running, connection_queue, query_queue, succeeded_queue,
                 failed_queue, clientVars>>

\* Mutant: queries_.erase() was forgotten.
SettleWithoutErase(id, outcome) ==
  /\ IF id \in queries /\ promise[id] = "pending"
     THEN promise' = [promise EXCEPT ![id] = outcome]
     ELSE UNCHANGED promise
  /\ UNCHANGED <<alive, ready, connected, query_request_id, queries>>

\* Mutant: failures are told to the script as results.
SettleAlwaysResolves(id, outcome) ==
  /\ IF id \in queries /\ promise[id] = "pending"
     THEN promise' = [promise EXCEPT ![id] = "resolved"]
     ELSE UNCHANGED promise
  /\ queries' = queries \ {id}
  /\ UNCHANGED <<alive, ready, connected, query_request_id>>

\* MySQL::DidQuery and DidQueryFail: an id without an entry in queries_ is
\* logged as an unexpected response, any other settles its promise.
Settle(id, outcome) ==
  /\ IF id \in queries /\ promise[id] = "pending"
     THEN promise' = [promise EXCEPT ![id] = outcome]
     ELSE UNCHANGED promise
  /\ queries' = queries \ {id}
  /\ UNCHANGED <<alive, ready, connected, query_request_id>>

ProcessSucceeded ==
  /\ host_pc = "succeeded"
  /\ host_pc' = "failed"
  /\ \/ /\ succeeded_queue # <<>>
        /\ succeeded_queue' = Tail(succeeded_queue)
        /\ Settle(Head(succeeded_queue), "resolved")
     \/ /\ succeeded_queue = <<>>
        /\ UNCHANGED <<objectVars, succeeded_queue>>
  /\ UNCHANGED <<host_return, is_running, request_shutdown, connection_queue,
                 query_queue, attempt_queue, failed_queue, clientVars>>

ProcessFailed ==
  /\ host_pc = "failed"
  /\ host_pc' = "js"
  /\ \/ /\ failed_queue # <<>>
        /\ failed_queue' = Tail(failed_queue)
        /\ Settle(Head(failed_queue), "rejected")
     \/ /\ failed_queue = <<>>
        /\ UNCHANGED <<objectVars, failed_queue>>
  /\ UNCHANGED <<host_return, is_running, request_shutdown, connection_queue,
                 query_queue, attempt_queue, succeeded_queue, clientVars>>
-----------------------------------------------------------------------------
(***************************************************************************)
(* The client thread: ConnectionClient::run.                               *)
(***************************************************************************)
hostSide == <<objectVars, hostVars>>

\* Mutant: an attempt to connect goes on until it succeeds.
TestShutdownConnected ==
  /\ client_pc = "loop"
  /\ client_pc' = IF request_shutdown /\ is_connected THEN "drain" ELSE "body"
  /\ UNCHANGED <<hostSide, connection_queue, query_queue, resultVars,
                 has_information, is_connected, retry_due, ping_due, in_hand,
                 drained>>

\* while (!shutdown_requested())
TestShutdown ==
  /\ client_pc = "loop"
  /\ client_pc' = IF request_shutdown THEN "drain" ELSE "body"
  /\ UNCHANGED <<hostSide, connection_queue, query_queue, resultVars,
                 has_information, is_connected, retry_due, ping_due, in_hand,
                 drained>>

\* The first two branches of the loop's body: waiting for the information.
AwaitInformation ==
  /\ client_pc = "body" /\ ~has_information
  /\ \/ /\ connection_queue # <<>>
        /\ connection_queue' = Tail(connection_queue)
        /\ has_information' = TRUE
        /\ client_pc' = "loop"
     \/ /\ connection_queue = <<>>
        /\ client_pc' = "sleep"
        /\ UNCHANGED <<connection_queue, has_information>>
  /\ UNCHANGED <<hostSide, query_queue, resultVars, is_connected, retry_due,
                 ping_due, in_hand, drained>>

\* The next branch: connect now, or wait until the retry interval is over.
AwaitConnection ==
  /\ client_pc = "body" /\ has_information /\ ~is_connected
  /\ client_pc' = IF retry_due THEN "connect" ELSE "sleep"
  /\ UNCHANGED <<hostSide, connection_queue, query_queue, resultVars,
                 has_information, is_connected, retry_due, ping_due, in_hand,
                 drained>>

\* Mutant: only successful attempts are announced.
DoConnectQuietFailure(succeeded) ==
  /\ client_pc = "connect"
  /\ is_connected' = succeeded
  /\ attempt_queue' =
       IF succeeded THEN Append(attempt_queue, TRUE) ELSE attempt_queue
  /\ retry_due' = FALSE
  /\ client_pc' = "loop"
  /\ UNCHANGED <<hostSide, connection_queue, query_queue, succeeded_queue,
                 failed_queue, has_information, ping_due, in_hand, drained>>

\* doConnect: mysql_real_connect returns and its result is announced.
DoConnect(succeeded) ==
  /\ client_pc = "connect"
  /\ is_connected' = succeeded
  /\ attempt_queue' = Append(attempt_queue, succeeded)
  /\ retry_due' = FALSE
  /\ client_pc' = "loop"
  /\ UNCHANGED <<hostSide, connection_queue, query_queue, succeeded_queue,
                 failed_queue, has_information, ping_due, in_hand, drained>>

\* Mutant: last_ping is not updated.
BeginPingAgain ==
  /\ client_pc = "body" /\ is_connected /\ ping_due
  /\ client_pc' = "ping"
  /\ UNCHANGED <<hostSide, connection_queue, query_queue, resultVars, ping_due,
                 has_information, is_connected, retry_due, in_hand, drained>>

\* A ping is due: it goes before any query, and its time is taken before it
\* is sent.
BeginPing ==
  /\ client_pc = "body" /\ is_connected /\ ping_due
  /\ ping_due' = FALSE
  /\ client_pc' = "ping"
  /\ UNCHANGED <<hostSide, connection_queue, query_queue, resultVars,
                 has_information, is_connected, retry_due, in_hand, drained>>

EndPing ==
  /\ client_pc = "ping"
  /\ client_pc' = "loop"
  /\ UNCHANGED <<hostSide, connection_queue, query_queue, resultVars,
                 has_information, is_connected, retry_due, ping_due, in_hand,
                 drained>>

\* Mutant: the query that was issued last is executed first.
BeginNewestQuery ==
  /\ client_pc = "body" /\ is_connected /\ ~ping_due
  /\ \/ /\ query_queue # <<>>
        /\ in_hand' = query_queue[Len(query_queue)]
        /\ query_queue' = SubSeq(query_queue, 1, Len(query_queue) - 1)
        /\ client_pc' = "query"
     \/ /\ query_queue = <<>>
        /\ client_pc' = "sleep"
        /\ UNCHANGED <<in_hand, query_queue>>
  /\ UNCHANGED <<hostSide, connection_queue, resultVars, has_information,
                 is_connected, retry_due, ping_due, drained>>

\* Mutant: the results carry the id of the query that will be issued next.
BeginQueryNextId ==
  /\ client_pc = "body" /\ is_connected /\ ~ping_due
  /\ query_queue # <<>>
  /\ in_hand' = query_request_id
  /\ query_queue' = Tail(query_queue)
  /\ client_pc' = "query"
  /\ UNCHANGED <<hostSide, connection_queue, resultVars, has_information,
                 is_connected, retry_due, ping_due, drained>>

\* One query per iteration is taken off the queue and sent to the server.
BeginQuery ==
  /\ client_pc = "body" /\ is_connected /\ ~ping_due
  /\ \/ /\ query_queue # <<>>
        /\ in_hand' = Head(query_queue)
        /\ query_queue' = Tail(query_queue)
        /\ client_pc' = "query"
     \/ /\ query_queue = <<>>
        /\ client_pc' = "sleep"
        /\ UNCHANGED <<in_hand, query_queue>>
  /\ UNCHANGED <<hostSide, connection_queue, resultVars, has_information,
                 is_connected, retry_due, ping_due, drained>>

\* Mutant: no return after a success, the query is reported as failed too.
EndQueryFallsThrough ==
  /\ client_pc = "query"
  /\ failed_queue' = Append(failed_queue, in_hand)
  /\ \/ succeeded_queue' = Append(succeeded_queue, in_hand)
     \/ UNCHANGED succeeded_queue
  /\ in_hand' = 0
  /\ client_pc' = "sleep"
  /\ UNCHANGED <<hostSide, connection_queue, query_queue, attempt_queue,
                 has_information, is_connected, retry_due, ping_due, drained>>

\* Mutant: a query that ends after the shutdown was requested is not reported.
EndQuerySilently ==
  /\ client_pc = "query"
  /\ \/ ~request_shutdown /\ succeeded_queue' = Append(succeeded_queue, in_hand)
     \/ request_shutdown /\ UNCHANGED succeeded_queue
  /\ in_hand' = 0
  /\ client_pc' = "sleep"
  /\ UNCHANGED <<hostSide, connection_queue, query_queue, attempt_queue,
                 failed_queue, has_information, is_connected, retry_due,
                 ping_due, drained>>

\* doQuery(NormalExecution): the server has executed the query, its answer
\* goes to the queue of its kind.
EndQuery ==
  /\ client_pc = "query"
  /\ \/ /\ succeeded_queue' = Append(succeeded_queue, in_hand)
        /\ UNCHANGED failed_queue
     \/ /\ failed_queue' = Append(failed_queue, in_hand)
        /\ UNCHANGED succeeded_queue
  /\ in_hand' = 0
  /\ client_pc' = "sleep"
  /\ UNCHANGED <<hostSide, connection_queue, query_queue, attempt_queue,
                 has_information, is_connected, retry_due, ping_due, drained>>

\* thread_sleep(25)
Wake ==
  /\ client_pc = "sleep"
  /\ client_pc' = "loop"
  /\ UNCHANGED <<hostSide, connection_queue, query_queue, resultVars,
                 has_information, is_connected, retry_due, ping_due, in_hand,
                 drained>>

MoreToDrain ==
  is_connected /\ query_queue # <<>> /\ Len(drained) < DrainLimit

\* The loop after the shutdown was requested: doQuery(SilentExecution).
Drain ==
  /\ client_pc = "drain" /\ MoreToDrain
  /\ drained' = Append(drained, Head(query_queue))
  /\ query_queue' = Tail(query_queue)
  /\ UNCHANGED <<hostSide, connection_queue, resultVars, client_pc,
                 has_information, is_connected, retry_due, ping_due, in_hand>>

\* doClose if connected, and run returns.
Terminate ==
  /\ client_pc = "drain" /\ ~MoreToDrain
  /\ client_pc' = "done"
  /\ UNCHANGED <<hostSide, connection_queue, query_queue, resultVars,
                 has_information, is_connected, retry_due, ping_due, in_hand,
                 drained>>
-----------------------------------------------------------------------------
(***************************************************************************)
(* The clock.  Five seconds after an attempt, or a ping, the next is due.  *)
(* The interval may pass while the client sleeps, executes a query or      *)
(* pings, but not between two of its tests.                                *)
(***************************************************************************)
RetryElapses ==
  /\ has_information /\ ~is_connected /\ ~retry_due
  /\ client_pc # "done"
  /\ Len(attempt_queue) < MaxAttempts
  /\ retry_due' = TRUE
  /\ UNCHANGED <<hostSide, connection_queue, query_queue, resultVars,
                 client_pc, has_information, is_connected, ping_due, in_hand,
                 drained>>

PingElapses ==
  /\ is_connected /\ ~ping_due
  /\ client_pc \in {"sleep", "query", "ping"}
  /\ ping_due' = TRUE
  /\ UNCHANGED <<hostSide, connection_queue, query_queue, resultVars,
                 client_pc, has_information, is_connected, retry_due, in_hand,
                 drained>>
-----------------------------------------------------------------------------
ScriptNext == Query \/ Close \/ Collect

HostNext ==
  Connect \/ JoinReturns \/ ProcessAttempt \/ ProcessSucceeded \/ ProcessFailed

\* The client thread ends with the process, and what runs on after its memory
\* was freed is not modelled.
ClientLives == alive /\ host_pc # "crashed"

ClientNext ==
  /\ ClientLives
  /\ \/ TestShutdown
     \/ AwaitInformation
     \/ AwaitConnection
     \/ \E succeeded \in BOOLEAN : DoConnect(succeeded)
     \/ BeginPing
     \/ EndPing
     \/ BeginQuery
     \/ EndQuery
     \/ Wake
     \/ Drain
     \/ Terminate

ClockNext == ClientLives /\ (RetryElapses \/ PingElapses)

\* The object and its thread are gone, or the process is.
Gone ==
  /\ (~alive /\ host_pc = "js") \/ host_pc = "crashed"
  /\ UNCHANGED vars

Next == ScriptNext \/ HostNext \/ ClientNext \/ ClockNext \/ Gone

Spec == Init /\ [][Next]_vars

\* The server runs a frame again and again and every call into libmysql
\* returns; neither JavaScript nor the clock has to do anything.
FairSpec == Spec /\ WF_vars(HostNext) /\ WF_vars(ClientNext)
-----------------------------------------------------------------------------
(***************************************************************************)
(* Properties.                                                             *)
(***************************************************************************)

\* Every result the client thread reports belongs to a promise that still
\* waits for it: ProcessUpdates never meets the "unexpected response" branch,
\* and no promise is settled twice.
ResultsExpected ==
  alive => \A id \in Range(succeeded_queue) \cup Range(failed_queue) :
             id \in queries /\ promise[id] = "pending"

\* A query is executed, and reported, once: it is never in two of the places
\* a query can be in, nor twice in one of them.
OnePlace ==
  /\ \A q \in {query_queue, succeeded_queue, failed_queue, drained} :
       IsInjective(q)
  /\ Range(succeeded_queue) \cap Range(failed_queue) = {}
  /\ (Range(succeeded_queue) \cup Range(failed_queue))
       \cap (Range(query_queue) \cup Range(drained)) = {}
  /\ Range(query_queue) \cap Range(drained) = {}
  /\ client_pc = "query" =>
       in_hand \notin Range(query_queue) \cup Range(drained)
                        \cup Range(succeeded_queue) \cup Range(failed_queue)

\* unresolvedQueryCount counts the promises that are pending, and a pending
\* query is somewhere: waiting, at the server, reported, or given up by the
\* silent execution at shutdown.
NothingForgotten ==
  alive => /\ queries = {id \in Issued : promise[id] = "pending"}
           /\ queries \subseteq
                Range(query_queue) \cup Range(succeeded_queue)
                  \cup Range(failed_queue) \cup Range(drained)
                  \cup (IF client_pc = "query" THEN {in_hand} ELSE {})

\* A promise is resolved before that of an older query only if the older one
\* failed: results of one kind are delivered in the order of execution.
OvertakesOnlyFailures ==
  [][\A id \in Issued : promise'[id] = "resolved" /\ promise[id] = "pending" =>
       \A older \in 0 .. id - 1 :
         promise[older] = "pending" => older \in Range(failed_queue)]_vars

\* The main thread is told of one attempt only: "DCHECK(!ready_->HasSettled())"
\* (mysql_module.cc:97) holds whenever a result is reported.
FirstAttemptDecides == host_pc # "crashed"

\* From some time on, the interval does not pass while the client pings.
PingsKeepTime == <>[][client_pc # "ping"]_ping_due

\* Until the connection is shut down, by the script or because the server
\* refused it, every query is answered, unless the client does nothing but
\* ping: a ping that outlasts the interval is followed by the next.
AnsweredUnlessStopped ==
  PingsKeepTime =>
    \A id \in QueryId :
      promise[id] = "pending" ~> (promise[id] # "pending" \/ request_shutdown)

\* A query that was sent to the server before the shutdown is answered even
\* though the connection is being closed, as long as the object and the process
\* live.
SentIsAnswered ==
  \A id \in QueryId :
    (client_pc = "query" /\ in_hand = id) ~> (promise[id] # "pending" \/ ~ClientLives)

\* The main thread does not hang in a join: the client thread never waits for
\* anything the main thread would have to do.
JoinEnds == (host_pc = "join") ~> (host_pc # "join")

\* `ready` is settled, unless the connection was closed first.
ReadySettles == (ready = "pending") ~> (ready # "pending" \/ request_shutdown)
-----------------------------------------------------------------------------
(***************************************************************************)
(* The inductive invariant behind ResultsExpected, OnePlace and            *)
(* NothingForgotten.  Ids are issued, taken and executed in ascending      *)
(* order, so where a query is follows from its id: below Reported it has   *)
(* been reported, then come the drained ones or the one in hand, then the  *)
(* queue.                                                                  *)
(***************************************************************************)
InHand == IF client_pc = "query" THEN 1 ELSE 0

\* The ids that doQuery(NormalExecution) is done with are 0 .. Reported - 1.
Reported == query_request_id - Len(query_queue) - Len(drained) - InHand

PlacesInOrder ==
  /\ Reported >= 0
  /\ client_pc \notin {"drain", "done"} => drained = <<>>
  /\ client_pc = "query" => in_hand = Reported
  /\ \A i \in 1 .. Len(drained) : drained[i] = Reported + i - 1
  /\ \A i \in 1 .. Len(query_queue) :
       query_queue[i] = Reported + InHand + Len(drained) + i - 1

ResultsOnce ==
  /\ IsInjective(succeeded_queue)
  /\ IsInjective(failed_queue)
  /\ Range(succeeded_queue) \cap Range(failed_queue) = {}
  /\ \A id \in Range(succeeded_queue) \cup Range(failed_queue) : id < Reported

PromisesMatch ==
  /\ \A id \in QueryId : id >= query_request_id => promise[id] = "none"
  /\ alive =>
       \A id \in QueryId :
         /\ id \in queries <=> promise[id] = "pending"
         /\ id \in queries =>
              \/ id >= Reported
              \/ id \in Range(succeeded_queue) \cup Range(failed_queue)
         /\ id \in Range(succeeded_queue) \cup Range(failed_queue) =>
              id \in queries
         /\ id >= Reported /\ id < query_request_id => id \in queries

\* Every query's place follows from its id, and a reported result waits for
\* the frame that settles its promise.
QueriesInv == PlacesInOrder /\ ResultsOnce /\ PromisesMatch
-----------------------------------------------------------------------------
(***************************************************************************)
(* The refinement: what QueryService promises.                             *)
(***************************************************************************)

\* Query id has left the queue and the server has executed it.
Executed == query_request_id - Len(query_queue)
              - (IF client_pc = "query" THEN 1 ELSE 0)

VerdictOf(id) ==
  IF id \in Range(succeeded_queue) \/ promise[id] = "resolved" THEN "ok"
  ELSE IF id \in Range(failed_queue) \/ promise[id] = "rejected" THEN "error"
  ELSE IF id \in Range(drained) THEN "silent"
  ELSE "none"

Service == INSTANCE QueryService WITH
  issued <- query_request_id,
  executed <- Executed,
  verdict <- [id \in QueryId |-> VerdictOf(id)],
  outcome <- promise

\* The threads and queues implement the service.
ImplementsService == Service!ServiceSpec
=============================================================================
