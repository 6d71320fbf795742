------------------------ MODULE MySQLConnection_proofs ------------------------
(***************************************************************************)
(* Proofs about MySQLConnection, for every number of queries, of waiting   *)
(* connection results and every drain limit.                               *)
(***************************************************************************)
EXTENDS MySQLConnection, QueueLemmas

(***************************************************************************)
(* Type correctness, one lemma per group of variables.                     *)
(***************************************************************************)

\* The MySQL object's members keep their types.
LEMMA ObjectType == TypeOK /\ [Next]_vars => ObjectTypeOK'
<1> SUFFICES ASSUME TypeOK, [Next]_vars PROVE ObjectTypeOK'
  OBVIOUS
<1> USE DEF TypeOK, ObjectTypeOK
<1>1. CASE Query
  <2>1. query_request_id \in QueryId
    BY <1>1, ConstantsAssumption DEF Query, QueryId, ConstantsAssumption
  <2>. QED
    BY <1>1, <2>1, ConstantsAssumption DEF Query, QueryId, ConstantsAssumption
<1>2. CASE UNCHANGED objectVars
  BY <1>2 DEF objectVars
<1>3. CASE Destroy
  BY <1>3 DEF Destroy
<1>4. CASE \E succeeded \in BOOLEAN : DidConnect(succeeded)
  BY <1>4 DEF DidConnect, ReadyDecided, objectVars
<1>5. ASSUME NEW id \in QueryId, NEW outcome \in {"resolved", "rejected"},
             Settle(id, outcome)
      PROVE  ObjectTypeOK'
  BY <1>5 DEF Settle
<1>6. CASE ProcessAttempt
  <2>1. CASE UNCHANGED objectVars
    BY <2>1, <1>2
  <2>2. CASE attempt_queue # <<>> /\ DidConnect(Head(attempt_queue))
    <3>1. Head(attempt_queue) \in BOOLEAN
      BY <2>2, PopType DEF QueueTypeOK
    <3>. QED
      BY <2>2, <3>1, <1>4
  <2>. QED
    BY <1>6, <2>1, <2>2 DEF ProcessAttempt
<1>7. CASE ProcessSucceeded
  <2>1. succeeded_queue # <<>> => Head(succeeded_queue) \in QueryId
    BY PopType DEF QueueTypeOK
  <2>. QED
    BY <1>7, <2>1, <1>2, <1>5 DEF ProcessSucceeded
<1>8. CASE ProcessFailed
  <2>1. failed_queue # <<>> => Head(failed_queue) \in QueryId
    BY PopType DEF QueueTypeOK
  <2>. QED
    BY <1>8, <2>1, <1>2, <1>5 DEF ProcessFailed
<1>9. CASE Connect \/ Close
  BY <1>9, <1>2 DEF Connect, Close
<1>10. CASE Collect \/ JoinReturns
  BY <1>10, <1>2, <1>3 DEF Collect, JoinReturns
<1>11. CASE ClientNext
  BY <1>11, <1>2
  DEF ClientNext, TestShutdown, AwaitInformation, AwaitConnection, DoConnect,
      BeginPing, EndPing, BeginQuery, EndQuery, Wake, Drain, Terminate, hostSide
<1>12. CASE ClockNext
  BY <1>12, <1>2 DEF ClockNext, RetryElapses, PingElapses, hostSide
<1>13. CASE Gone \/ UNCHANGED vars
  BY <1>13, <1>2 DEF Gone, vars
<1>. QED
  BY <1>1, <1>6, <1>7, <1>8, <1>9, <1>10, <1>11, <1>12, <1>13
  DEF Next, ScriptNext, HostNext

\* The main thread's control state keeps its types.
LEMMA HostType == TypeOK /\ [Next]_vars => HostTypeOK'
<1> SUFFICES ASSUME TypeOK, [Next]_vars PROVE HostTypeOK'
  OBVIOUS
<1> USE DEF TypeOK, HostTypeOK
<1>1. CASE UNCHANGED hostVars
  BY <1>1 DEF hostVars
<1>2. ASSUME NEW next \in {"js", "succeeded", "destroy"}, StopThread(next),
             UNCHANGED is_running, is_running \/ next # "destroy"
      PROVE  HostTypeOK'
  BY <1>2 DEF StopThread
<1>3. CASE Connect
  BY <1>3 DEF Connect
<1>4. CASE Query
  BY <1>4, <1>1 DEF Query
<1>5. CASE Close
  BY <1>5, <1>2 DEF Close
<1>6. CASE Collect
  BY <1>6, <1>1, <1>2 DEF Collect, hostVars
<1>7. CASE JoinReturns
  BY <1>7 DEF JoinReturns
<1>8. CASE ProcessAttempt
  <2>1. CASE attempt_queue # <<>> /\ DidConnect(Head(attempt_queue))
    BY <2>1, <1>8, <1>2 DEF ProcessAttempt, DidConnect, ReadyDecided
  <2>. QED
    BY <1>8, <2>1 DEF ProcessAttempt
<1>9. CASE ProcessSucceeded \/ ProcessFailed
  BY <1>9 DEF ProcessSucceeded, ProcessFailed
<1>10. CASE ClientNext
  BY <1>10, <1>1
  DEF ClientNext, TestShutdown, AwaitInformation, AwaitConnection, DoConnect,
      BeginPing, EndPing, BeginQuery, EndQuery, Wake, Drain, Terminate, hostSide
<1>11. CASE ClockNext \/ Gone \/ UNCHANGED vars
  BY <1>11, <1>1 DEF ClockNext, RetryElapses, PingElapses, Gone, hostSide, vars
<1>. QED
  BY <1>3, <1>4, <1>5, <1>6, <1>7, <1>8, <1>9, <1>10, <1>11
  DEF Next, ScriptNext, HostNext

\* The queues hold what their two ends agree on.
LEMMA QueueType == TypeOK /\ [Next]_vars => QueueTypeOK'
<1> SUFFICES ASSUME TypeOK, [Next]_vars PROVE QueueTypeOK'
  OBVIOUS
<1> USE DEF TypeOK, QueueTypeOK
<1>1. CASE UNCHANGED <<connection_queue, query_queue, resultVars>>
  BY <1>1 DEF resultVars
<1>2. CASE Connect
  BY <1>2, PushType DEF Connect, resultVars
<1>3. CASE Query
  <2>1. query_request_id \in QueryId
    BY <1>3, ConstantsAssumption
    DEF Query, QueryId, ObjectTypeOK, ConstantsAssumption
  <2>. QED
    BY <1>3, <2>1, PushType DEF Query, resultVars
<1>4. CASE Close \/ Collect \/ JoinReturns
  BY <1>4, <1>1 DEF Close, Collect, JoinReturns
<1>5. CASE ProcessAttempt
  BY <1>5, PopType DEF ProcessAttempt
<1>6. CASE ProcessSucceeded
  BY <1>6, PopType DEF ProcessSucceeded
<1>7. CASE ProcessFailed
  BY <1>7, PopType DEF ProcessFailed
<1>8. CASE AwaitInformation
  BY <1>8, PopType DEF AwaitInformation, resultVars
<1>9. ASSUME NEW succeeded \in BOOLEAN, DoConnect(succeeded)
      PROVE  QueueTypeOK'
  BY <1>9, PushType DEF DoConnect
<1>10. CASE BeginQuery \/ Drain
  BY <1>10, PopType DEF BeginQuery, Drain, MoreToDrain, resultVars
<1>11. CASE EndQuery
  <2>1. in_hand \in QueryId
    BY <1>11 DEF EndQuery, ClientTypeOK
  <2>. QED
    BY <1>11, <2>1, PushType DEF EndQuery
<1>12. CASE TestShutdown \/ AwaitConnection \/ BeginPing \/ EndPing \/ Wake
              \/ Terminate
  BY <1>12, <1>1
  DEF TestShutdown, AwaitConnection, BeginPing, EndPing, Wake, Terminate
<1>13. CASE ClockNext \/ Gone \/ UNCHANGED vars
  BY <1>13, <1>1 DEF ClockNext, RetryElapses, PingElapses, Gone, vars
<1>. QED
  BY <1>2, <1>3, <1>4, <1>5, <1>6, <1>7, <1>8, <1>9, <1>10, <1>11, <1>12, <1>13
  DEF Next, ScriptNext, HostNext, ClientNext

\* The client thread's private state keeps its types.
LEMMA ClientType == TypeOK /\ [Next]_vars => ClientTypeOK'
<1> SUFFICES ASSUME TypeOK, [Next]_vars PROVE ClientTypeOK'
  OBVIOUS
<1> USE DEF TypeOK, ClientTypeOK
<1>1. CASE UNCHANGED clientVars
  BY <1>1 DEF clientVars
<1>2. CASE ScriptNext
  BY <1>2, <1>1 DEF ScriptNext, Query, Close, Collect
<1>3. CASE HostNext
  BY <1>3, <1>1
  DEF HostNext, Connect, JoinReturns, ProcessAttempt, ProcessSucceeded,
      ProcessFailed
<1>4. CASE TestShutdown \/ AwaitConnection \/ EndPing \/ Wake \/ Terminate
  BY <1>4 DEF TestShutdown, AwaitConnection, EndPing, Wake, Terminate
<1>5. CASE AwaitInformation
  BY <1>5 DEF AwaitInformation
<1>6. ASSUME NEW succeeded \in BOOLEAN, DoConnect(succeeded)
      PROVE  ClientTypeOK'
  BY <1>6 DEF DoConnect
<1>7. CASE BeginPing
  BY <1>7 DEF BeginPing
<1>8. CASE BeginQuery
  BY <1>8, PopType DEF BeginQuery, QueueTypeOK
<1>9. CASE EndQuery
  BY <1>9, ConstantsAssumption DEF EndQuery, QueryId, ConstantsAssumption
<1>10. CASE Drain
  BY <1>10, PopType, PushType DEF Drain, MoreToDrain, QueueTypeOK
<1>11. CASE ClockNext
  BY <1>11 DEF ClockNext, RetryElapses, PingElapses
<1>12. CASE Gone \/ UNCHANGED vars
  BY <1>12, <1>1 DEF Gone, vars
<1>. QED
  BY <1>2, <1>3, <1>4, <1>5, <1>6, <1>7, <1>8, <1>9, <1>10, <1>11, <1>12
  DEF Next, ClientNext

\* Every behaviour of the object and its client thread is well typed, however
\* many queries are issued: in particular no handler pops an empty queue.
THEOREM TypeCorrect == Spec => []TypeOK
<1>1. Init => TypeOK
  <2> SUFFICES ASSUME Init PROVE TypeOK
    OBVIOUS
  <2> USE DEF Init
  <2>1. ObjectTypeOK
    <3>1. query_request_id \in 0 .. MaxQueries
      BY ConstantsAssumption DEF ConstantsAssumption
    <3>. QED
      BY <3>1 DEF ObjectTypeOK
  <2>2. HostTypeOK
    BY DEF HostTypeOK
  <2>3. QueueTypeOK
    BY DEF QueueTypeOK
  <2>4. ClientTypeOK
    BY ConstantsAssumption DEF ClientTypeOK, ConstantsAssumption, QueryId
  <2>. QED
    BY <2>1, <2>2, <2>3, <2>4 DEF TypeOK
<1>2. TypeOK /\ [Next]_vars => TypeOK'
  BY ObjectType, HostType, QueueType, ClientType DEF TypeOK
<1>. QED
  BY <1>1, <1>2, PTL DEF Spec

(***************************************************************************)
(* QueriesInv is inductive.                                                *)
(***************************************************************************)

\* Reported is an integer.
LEMMA ReportedType == TypeOK => Reported \in Int /\ InHand \in {0, 1}
  BY DEF TypeOK, ObjectTypeOK, QueueTypeOK, ClientTypeOK, Reported, InHand

\* Steps that move neither a query nor a promise.
LEMMA QueriesStable ==
  ASSUME QueriesInv,
         UNCHANGED <<query_request_id, promise, queries, alive, query_queue,
                     succeeded_queue, failed_queue, in_hand, drained>>,
         client_pc' = "query" <=> client_pc = "query",
         client_pc \in {"drain", "done"} => client_pc' \in {"drain", "done"}
  PROVE  QueriesInv'
<1>1. InHand' = InHand
  BY DEF InHand
<1>2. Reported' = Reported
  BY <1>1 DEF Reported
<1>3. PlacesInOrder'
  BY <1>1, <1>2 DEF QueriesInv, PlacesInOrder
<1>4. ResultsOnce'
  BY <1>2 DEF QueriesInv, ResultsOnce
<1>5. PromisesMatch'
  BY <1>2 DEF QueriesInv, PromisesMatch
<1>. QED
  BY <1>3, <1>4, <1>5 DEF QueriesInv

\* A new query goes to the end of the queue, above all that were issued.
LEMMA QueriesQuery ==
  ASSUME TypeOK, QueriesInv, Query PROVE QueriesInv'
<1> DEFINE id == query_request_id
<1>1. /\ id \in QueryId
      /\ query_queue' = Append(query_queue, id)
      /\ query_queue \in Seq(QueryId)
      /\ UNCHANGED <<alive, succeeded_queue, failed_queue, client_pc, in_hand,
                     drained>>
  BY ConstantsAssumption
  DEF Query, QueryId, ConstantsAssumption, TypeOK, ObjectTypeOK, QueueTypeOK,
      resultVars, clientVars
<1>2. /\ Len(query_queue') = Len(query_queue) + 1
      /\ query_queue'[Len(query_queue) + 1] = id
      /\ \A i \in 1 .. Len(query_queue) : query_queue'[i] = query_queue[i]
      /\ Len(query_queue) \in Nat
  BY <1>1
<1>3. InHand' = InHand
  BY <1>1 DEF InHand
<1>4. Reported' = Reported /\ Reported \in Int /\ InHand \in {0, 1}
        /\ Len(drained) \in Nat /\ id \in Nat /\ id' = id + 1
  BY <1>1, <1>2, <1>3, ReportedType
  DEF Reported, TypeOK, ObjectTypeOK, ClientTypeOK, Query
<1>5. id = Reported + InHand + Len(drained) + Len(query_queue)
  BY <1>2, <1>4 DEF Reported
<1>6. PlacesInOrder'
  <2>1. \A i \in 1 .. Len(query_queue) + 1 :
          query_queue'[i] = Reported + InHand + Len(drained) + i - 1
    BY <1>2, <1>4, <1>5 DEF QueriesInv, PlacesInOrder
  <2>. QED
    BY <2>1, <1>1, <1>2, <1>3, <1>4 DEF QueriesInv, PlacesInOrder
<1>7. ResultsOnce'
  BY <1>1, <1>4 DEF QueriesInv, ResultsOnce
<1>8. PromisesMatch'
  <2>1. /\ promise' = [promise EXCEPT ![id] = "pending"]
        /\ queries' = queries \cup {id}
        /\ promise \in [QueryId -> {"none", "pending", "resolved", "rejected"}]
    BY DEF Query, TypeOK, ObjectTypeOK
  <2>2. id >= Reported
    BY <1>2, <1>4, <1>5
  <2>. QED
    BY <1>1, <1>4, <2>1, <2>2 DEF QueriesInv, PromisesMatch, QueryId
<1>. QED
  BY <1>6, <1>7, <1>8 DEF QueriesInv

\* A collected object has no promises to keep.
LEMMA QueriesDestroy ==
  ASSUME QueriesInv, Destroy,
         UNCHANGED <<query_queue, resultVars, clientVars>>
  PROVE  QueriesInv'
<1>1. InHand' = InHand /\ Reported' = Reported
  BY DEF InHand, Reported, clientVars, Destroy
<1>. QED
  BY <1>1
  DEF QueriesInv, PlacesInOrder, ResultsOnce, PromisesMatch, Destroy,
      resultVars, clientVars

\* A frame settles the promise of the result it pops, whichever the kind.
LEMMA QueriesSucceeded ==
  ASSUME TypeOK, QueriesInv, succeeded_queue # <<>>,
         succeeded_queue' = Tail(succeeded_queue),
         Settle(Head(succeeded_queue), "resolved"),
         UNCHANGED <<query_queue, failed_queue, clientVars>>
  PROVE  QueriesInv'
<1> DEFINE id == Head(succeeded_queue)
<1>1. /\ succeeded_queue \in Seq(QueryId)
      /\ IsInjective(succeeded_queue)
  BY DEF TypeOK, QueueTypeOK, QueriesInv, ResultsOnce
<1>2. /\ id \in QueryId
      /\ id \in Range(succeeded_queue)
      /\ Range(succeeded_queue') = Range(succeeded_queue) \ {id}
      /\ IsInjective(succeeded_queue')
  BY <1>1, PopRange, PopType
<1>3. InHand' = InHand /\ Reported' = Reported
  BY DEF InHand, Reported, clientVars, Settle
<1>4. PlacesInOrder'
  BY <1>3 DEF QueriesInv, PlacesInOrder, clientVars
<1>5. ResultsOnce'
  BY <1>2, <1>3 DEF QueriesInv, ResultsOnce
<1>6. id \notin Range(failed_queue) /\ ~(id >= Reported)
  BY <1>2, ReportedType DEF QueriesInv, ResultsOnce, QueryId
<1>7. PromisesMatch'
  <2>1. /\ promise \in [QueryId -> {"none", "pending", "resolved", "rejected"}]
        /\ UNCHANGED <<alive, query_request_id, failed_queue>>
        /\ queries' = queries \ {id}
    BY DEF TypeOK, ObjectTypeOK, Settle
  <2>2. /\ promise' \in [QueryId -> {"none", "pending", "resolved", "rejected"}]
        /\ \A other \in QueryId \ {id} : promise'[other] = promise[other]
        /\ alive => promise[id] = "pending" /\ promise'[id] = "resolved"
        /\ promise'[id] \in {promise[id], "resolved"}
    BY <2>1, <1>2 DEF Settle, QueriesInv, PromisesMatch
  <2>3. \A other \in QueryId : other >= query_request_id => promise'[other] = "none"
    BY <2>1, <2>2, <1>2, <1>3 DEF QueriesInv, PromisesMatch, Settle
  <2>. QED
    BY <2>1, <2>2, <2>3, <1>2, <1>3, <1>6 DEF QueriesInv, PromisesMatch
<1>. QED
  BY <1>4, <1>5, <1>7 DEF QueriesInv

\* The same for a failure, which rejects.
LEMMA QueriesFailed ==
  ASSUME TypeOK, QueriesInv, failed_queue # <<>>,
         failed_queue' = Tail(failed_queue),
         Settle(Head(failed_queue), "rejected"),
         UNCHANGED <<query_queue, succeeded_queue, clientVars>>
  PROVE  QueriesInv'
<1> DEFINE id == Head(failed_queue)
<1>1. /\ failed_queue \in Seq(QueryId)
      /\ IsInjective(failed_queue)
  BY DEF TypeOK, QueueTypeOK, QueriesInv, ResultsOnce
<1>2. /\ id \in QueryId
      /\ id \in Range(failed_queue)
      /\ Range(failed_queue') = Range(failed_queue) \ {id}
      /\ IsInjective(failed_queue')
  BY <1>1, PopRange, PopType
<1>3. InHand' = InHand /\ Reported' = Reported
  BY DEF InHand, Reported, clientVars, Settle
<1>4. PlacesInOrder'
  BY <1>3 DEF QueriesInv, PlacesInOrder, clientVars
<1>5. ResultsOnce'
  BY <1>2, <1>3 DEF QueriesInv, ResultsOnce
<1>6. id \notin Range(succeeded_queue) /\ ~(id >= Reported)
  BY <1>2, ReportedType DEF QueriesInv, ResultsOnce, QueryId
<1>7. PromisesMatch'
  <2>1. /\ promise \in [QueryId -> {"none", "pending", "resolved", "rejected"}]
        /\ UNCHANGED <<alive, query_request_id, succeeded_queue>>
        /\ queries' = queries \ {id}
    BY DEF TypeOK, ObjectTypeOK, Settle
  <2>2. /\ promise' \in [QueryId -> {"none", "pending", "resolved", "rejected"}]
        /\ \A other \in QueryId \ {id} : promise'[other] = promise[other]
        /\ alive => promise[id] = "pending" /\ promise'[id] = "rejected"
        /\ promise'[id] \in {promise[id], "rejected"}
    BY <2>1, <1>2 DEF Settle, QueriesInv, PromisesMatch
  <2>3. \A other \in QueryId : other >= query_request_id => promise'[other] = "none"
    BY <2>1, <2>2, <1>2, <1>3 DEF QueriesInv, PromisesMatch, Settle
  <2>. QED
    BY <2>1, <2>2, <2>3, <1>2, <1>3, <1>6 DEF QueriesInv, PromisesMatch
<1>. QED
  BY <1>4, <1>5, <1>7 DEF QueriesInv

\* The head of the queue is the oldest query that was not executed.
LEMMA HeadIsNext ==
  ASSUME TypeOK, QueriesInv, query_queue # <<>>
  PROVE  /\ Head(query_queue) = Reported + InHand + Len(drained)
         /\ Len(Tail(query_queue)) = Len(query_queue) - 1
         /\ Len(query_queue) \in Nat \ {0}
         /\ \A i \in 1 .. Len(query_queue) - 1 :
              Tail(query_queue)[i] = Reported + InHand + Len(drained) + i
<1>1. query_queue \in Seq(QueryId) /\ drained \in Seq(QueryId)
  BY DEF TypeOK, QueueTypeOK, ClientTypeOK
<1>2. Reported \in Int /\ InHand \in {0, 1} /\ Len(drained) \in Nat
  BY <1>1, ReportedType
<1>3. /\ Len(query_queue) \in Nat \ {0}
      /\ Len(Tail(query_queue)) = Len(query_queue) - 1
      /\ Head(query_queue) = query_queue[1]
      /\ \A i \in 1 .. Len(query_queue) - 1 :
           Tail(query_queue)[i] = query_queue[i + 1]
  BY <1>1
<1>4. \A i \in 1 .. Len(query_queue) :
        query_queue[i] = Reported + InHand + Len(drained) + i - 1
  BY DEF QueriesInv, PlacesInOrder
<1>. QED
  BY <1>2, <1>3, <1>4

\* Taking a query off the queue leaves it the next one to be reported.
LEMMA QueriesBeginQuery ==
  ASSUME TypeOK, QueriesInv, BeginQuery, query_queue # <<>>
  PROVE  QueriesInv'
<1>1. /\ client_pc = "body" /\ client_pc' = "query"
      /\ query_queue' = Tail(query_queue)
      /\ in_hand' = Head(query_queue)
      /\ UNCHANGED <<alive, query_request_id, promise, queries, drained,
                     succeeded_queue, failed_queue>>
  BY DEF BeginQuery, hostSide, objectVars, resultVars
<1>2. InHand = 0 /\ InHand' = 1 /\ drained = <<>> /\ Len(drained) = 0
  BY <1>1 DEF InHand, QueriesInv, PlacesInOrder
<1>3. /\ Reported \in Int /\ query_request_id \in Int
      /\ Len(query_queue) \in Nat
      /\ Len(query_queue') = Len(query_queue) - 1
      /\ in_hand' = Reported
      /\ \A i \in 1 .. Len(query_queue) - 1 : query_queue'[i] = Reported + i
  BY <1>1, <1>2, HeadIsNext, ReportedType DEF TypeOK, ObjectTypeOK
<1>4. Reported' = Reported
  BY <1>1, <1>2, <1>3 DEF Reported
<1>5. PlacesInOrder'
  BY <1>1, <1>2, <1>3, <1>4 DEF QueriesInv, PlacesInOrder
<1>6. ResultsOnce' /\ PromisesMatch'
  BY <1>1, <1>4 DEF QueriesInv, ResultsOnce, PromisesMatch
<1>. QED
  BY <1>5, <1>6 DEF QueriesInv

\* Draining takes the query too, but leaves it unreported for good.
LEMMA QueriesDrain ==
  ASSUME TypeOK, QueriesInv, Drain PROVE QueriesInv'
<1>1. /\ client_pc = "drain" /\ client_pc' = "drain"
      /\ query_queue # <<>>
      /\ query_queue' = Tail(query_queue)
      /\ drained' = Append(drained, Head(query_queue))
      /\ UNCHANGED <<alive, query_request_id, promise, queries, in_hand,
                     succeeded_queue, failed_queue>>
  BY DEF Drain, MoreToDrain, hostSide, objectVars, resultVars
<1>2. InHand = 0 /\ InHand' = 0
  BY <1>1 DEF InHand
<1>3. drained \in Seq(QueryId) /\ Head(query_queue) \in QueryId
  BY <1>1, PopType DEF TypeOK, QueueTypeOK, ClientTypeOK
<1>4. /\ Len(drained) \in Nat
      /\ Len(drained') = Len(drained) + 1
      /\ drained'[Len(drained) + 1] = Head(query_queue)
      /\ \A i \in 1 .. Len(drained) : drained'[i] = drained[i]
  BY <1>1, <1>3
<1>5. /\ Reported \in Int /\ query_request_id \in Int
      /\ Len(query_queue) \in Nat
      /\ Len(query_queue') = Len(query_queue) - 1
      /\ Head(query_queue) = Reported + Len(drained)
      /\ \A i \in 1 .. Len(query_queue) - 1 :
           query_queue'[i] = Reported + Len(drained) + i
  BY <1>1, <1>2, <1>4, HeadIsNext, ReportedType DEF TypeOK, ObjectTypeOK
<1>6. Reported' = Reported
  BY <1>1, <1>2, <1>4, <1>5 DEF Reported
<1>7. PlacesInOrder'
  <2>1. \A i \in 1 .. Len(drained) + 1 : drained'[i] = Reported + i - 1
    BY <1>4, <1>5 DEF QueriesInv, PlacesInOrder
  <2>2. \A i \in 1 .. Len(query_queue') :
          query_queue'[i] = Reported + Len(drained') + i - 1
    BY <1>4, <1>5
  <2>. QED
    BY <1>1, <1>2, <1>4, <1>5, <1>6, <2>1, <2>2
    DEF QueriesInv, PlacesInOrder
<1>8. ResultsOnce' /\ PromisesMatch'
  BY <1>1, <1>6 DEF QueriesInv, ResultsOnce, PromisesMatch
<1>. QED
  BY <1>7, <1>8 DEF QueriesInv

\* The query in hand is the first that was not reported.
LEMMA QueriesEndQuery ==
  ASSUME TypeOK, QueriesInv, EndQuery PROVE QueriesInv'
<1>1. /\ client_pc = "query" /\ client_pc' = "sleep"
      /\ UNCHANGED <<alive, query_request_id, promise, queries, query_queue,
                     drained>>
  BY DEF EndQuery, hostSide, objectVars
<1>2. InHand = 1 /\ InHand' = 0 /\ drained = <<>> /\ Len(drained) = 0
  BY <1>1 DEF InHand, QueriesInv, PlacesInOrder
<1>3. Reported \in Nat /\ query_request_id \in Int /\ Len(query_queue) \in Nat
  BY ReportedType DEF TypeOK, ObjectTypeOK, QueueTypeOK, QueriesInv, PlacesInOrder
<1>4. Reported' = Reported + 1
  BY <1>1, <1>2, <1>3 DEF Reported
<1>5. in_hand = Reported /\ in_hand \in QueryId
  BY <1>1 DEF QueriesInv, PlacesInOrder, TypeOK, ClientTypeOK
<1>6. /\ in_hand \notin Range(succeeded_queue)
      /\ in_hand \notin Range(failed_queue)
  BY <1>3, <1>5 DEF QueriesInv, ResultsOnce
<1>7. PlacesInOrder'
  BY <1>1, <1>2, <1>3, <1>4 DEF QueriesInv, PlacesInOrder
<1>8. /\ IsInjective(succeeded_queue') /\ IsInjective(failed_queue')
      /\ \/ /\ Range(succeeded_queue') = Range(succeeded_queue) \cup {in_hand}
            /\ failed_queue' = failed_queue
         \/ /\ Range(failed_queue') = Range(failed_queue) \cup {in_hand}
            /\ succeeded_queue' = succeeded_queue
  <2>1. /\ succeeded_queue \in Seq(QueryId) /\ failed_queue \in Seq(QueryId)
        /\ IsInjective(succeeded_queue) /\ IsInjective(failed_queue)
    BY DEF TypeOK, QueueTypeOK, QueriesInv, ResultsOnce
  <2>2. CASE /\ succeeded_queue' = Append(succeeded_queue, in_hand)
             /\ UNCHANGED failed_queue
    BY <2>1, <2>2, <1>5, <1>6, PushRange
  <2>3. CASE /\ failed_queue' = Append(failed_queue, in_hand)
             /\ UNCHANGED succeeded_queue
    BY <2>1, <2>3, <1>5, <1>6, PushRange
  <2>. QED
    BY <2>2, <2>3 DEF EndQuery
<1>9. succeeded_queue \in Seq(QueryId) /\ failed_queue \in Seq(QueryId)
  BY DEF TypeOK, QueueTypeOK
<1>10. \A id \in Range(succeeded_queue) \cup Range(failed_queue) :
         id \in QueryId /\ id < Reported
  BY <1>9 DEF QueriesInv, ResultsOnce, Range
<1>11. ResultsOnce'
  BY <1>3, <1>4, <1>5, <1>6, <1>8, <1>10 DEF QueriesInv, ResultsOnce, QueryId
<1>12. alive => in_hand \in queries
  <2>1. in_hand < query_request_id
    <3>1. Reported = query_request_id - Len(query_queue) - 1
      BY <1>2, <1>3 DEF Reported
    <3>. QED
      BY <3>1, <1>3, <1>5
  <2>. QED
    BY <2>1, <1>3, <1>5 DEF QueriesInv, PromisesMatch
<1>13. PromisesMatch'
  BY <1>1, <1>3, <1>4, <1>5, <1>8, <1>12 DEF QueriesInv, PromisesMatch, QueryId
<1>. QED
  BY <1>7, <1>11, <1>13 DEF QueriesInv

\* A new object has issued nothing.
LEMMA QueriesInit == Init => QueriesInv
<1> SUFFICES ASSUME Init PROVE QueriesInv
  OBVIOUS
<1>1. /\ InHand = 0 /\ Len(query_queue) = 0 /\ Len(drained) = 0
      /\ query_request_id = 0 /\ drained = <<>>
      /\ client_pc = "loop" /\ queries = {}
      /\ promise = [id \in QueryId |-> "none"]
  BY DEF Init, InHand
<1>2. Reported = 0
  BY <1>1 DEF Reported
<1>3. /\ Range(succeeded_queue) = {} /\ Range(failed_queue) = {}
      /\ IsInjective(succeeded_queue) /\ IsInjective(failed_queue)
  BY DEF Init, Range, IsInjective
<1>4. PlacesInOrder
  BY <1>1, <1>2 DEF PlacesInOrder
<1>5. ResultsOnce
  BY <1>3 DEF ResultsOnce
<1>6. PromisesMatch
  BY <1>1, <1>2, <1>3 DEF PromisesMatch, QueryId
<1>. QED
  BY <1>4, <1>5, <1>6 DEF QueriesInv

\* One case per action that moves a query or a promise.
LEMMA QueriesStep == TypeOK /\ QueriesInv /\ [Next]_vars => QueriesInv'
<1> SUFFICES ASSUME TypeOK, QueriesInv, [Next]_vars PROVE QueriesInv'
  OBVIOUS
<1>1. CASE Query
  BY <1>1, QueriesQuery
<1>2. CASE UNCHANGED <<objectVars, query_queue, succeeded_queue, failed_queue,
                       clientVars>>
  <2>1. UNCHANGED <<query_request_id, promise, queries, alive, query_queue,
                    succeeded_queue, failed_queue, in_hand, drained>>
    BY <1>2 DEF objectVars, clientVars
  <2>2. /\ client_pc' = "query" <=> client_pc = "query"
        /\ client_pc \in {"drain", "done"} => client_pc' \in {"drain", "done"}
    BY <1>2 DEF clientVars
  <2>. QED
    BY <2>1, <2>2, QueriesStable
<1>3. CASE Connect \/ Close
  BY <1>3, <1>2 DEF Connect, Close, resultVars
<1>4. CASE Collect \/ JoinReturns
  <2>1. UNCHANGED <<query_queue, resultVars, clientVars>>
    BY <1>4 DEF Collect, JoinReturns
  <2>2. UNCHANGED objectVars \/ Destroy
    BY <1>4 DEF Collect, JoinReturns
  <2>3. CASE Destroy
    BY <2>1, <2>3, QueriesDestroy
  <2>. QED
    BY <2>1, <2>2, <2>3, <1>2 DEF resultVars
<1>5. CASE ProcessAttempt
  <2>1. UNCHANGED <<query_request_id, promise, queries, alive, query_queue,
                    succeeded_queue, failed_queue, in_hand, drained>>
    BY <1>5 DEF ProcessAttempt, DidConnect, ReadyDecided, objectVars, clientVars
  <2>2. /\ client_pc' = "query" <=> client_pc = "query"
        /\ client_pc \in {"drain", "done"} => client_pc' \in {"drain", "done"}
    BY <1>5 DEF ProcessAttempt, clientVars
  <2>. QED
    BY <2>1, <2>2, QueriesStable
<1>6. CASE ProcessSucceeded
  BY <1>6, <1>2, QueriesSucceeded DEF ProcessSucceeded
<1>7. CASE ProcessFailed
  BY <1>7, <1>2, QueriesFailed DEF ProcessFailed
<1>8. CASE \/ TestShutdown \/ AwaitInformation \/ AwaitConnection
           \/ \E succeeded \in BOOLEAN : DoConnect(succeeded)
           \/ BeginPing \/ EndPing \/ Wake \/ Terminate
           \/ BeginQuery /\ query_queue = <<>>
  <2>1. UNCHANGED <<query_request_id, promise, queries, alive, query_queue,
                    succeeded_queue, failed_queue, in_hand, drained>>
    BY <1>8
    DEF TestShutdown, AwaitInformation, AwaitConnection, DoConnect, BeginPing,
        EndPing, Wake, Terminate, BeginQuery, hostSide, objectVars, resultVars
  <2>2. /\ client_pc' = "query" <=> client_pc = "query"
        /\ client_pc \in {"drain", "done"} => client_pc' \in {"drain", "done"}
    BY <1>8
    DEF TestShutdown, AwaitInformation, AwaitConnection, DoConnect, BeginPing,
        EndPing, Wake, Terminate, BeginQuery
  <2>. QED
    BY <2>1, <2>2, QueriesStable
<1>9. CASE BeginQuery /\ query_queue # <<>>
  BY <1>9, QueriesBeginQuery
<1>10. CASE EndQuery
  BY <1>10, QueriesEndQuery
<1>11. CASE Drain
  BY <1>11, QueriesDrain
<1>12. CASE ClockNext
  <2>1. UNCHANGED <<query_request_id, promise, queries, alive, query_queue,
                    succeeded_queue, failed_queue, in_hand, drained>>
    BY <1>12
    DEF ClockNext, RetryElapses, PingElapses, hostSide, objectVars, resultVars
  <2>2. /\ client_pc' = "query" <=> client_pc = "query"
        /\ client_pc \in {"drain", "done"} => client_pc' \in {"drain", "done"}
    BY <1>12 DEF ClockNext, RetryElapses, PingElapses
  <2>. QED
    BY <2>1, <2>2, QueriesStable
<1>13. CASE Gone \/ UNCHANGED vars
  BY <1>13, <1>2 DEF Gone, vars, resultVars
<1>. QED
  BY <1>1, <1>3, <1>4, <1>5, <1>6, <1>7, <1>8, <1>9, <1>10, <1>11, <1>12, <1>13
  DEF Next, ScriptNext, HostNext, ClientNext

\* The place of every query follows from its id, in every reachable state.
THEOREM QueriesInvariant == Spec => []QueriesInv
  BY QueriesInit, QueriesStep, TypeCorrect, PTL DEF Spec

\* A result never arrives for a promise that is not waiting for it, however
\* the two threads interleave and whenever the connection is closed.
THEOREM NoUnexpectedResult == Spec => []ResultsExpected
<1>1. TypeOK /\ QueriesInv => ResultsExpected
  <2> SUFFICES ASSUME TypeOK, QueriesInv, alive,
                      NEW id \in Range(succeeded_queue) \cup Range(failed_queue)
               PROVE  id \in queries /\ promise[id] = "pending"
    BY DEF ResultsExpected
  <2>1. id \in QueryId
    BY DEF TypeOK, QueueTypeOK, Range
  <2>. QED
    BY <2>1 DEF QueriesInv, PromisesMatch
<1>. QED
  BY <1>1, QueriesInvariant, TypeCorrect, PTL

\* No query is executed or reported twice.
THEOREM ExecutedOnce == Spec => []OnePlace
<1>1. TypeOK /\ QueriesInv => OnePlace
  <2> SUFFICES ASSUME TypeOK, QueriesInv PROVE OnePlace
    OBVIOUS
  <2>1. /\ Reported \in Int /\ InHand \in {0, 1}
        /\ query_queue \in Seq(QueryId) /\ Len(query_queue) \in Nat
        /\ drained \in Seq(QueryId) /\ Len(drained) \in Nat
    BY ReportedType DEF TypeOK, QueueTypeOK, ClientTypeOK
  <2>2. \A i \in 1 .. Len(query_queue) :
          query_queue[i] = Reported + InHand + Len(drained) + i - 1
    BY DEF QueriesInv, PlacesInOrder
  <2>3. \A i \in 1 .. Len(drained) : drained[i] = Reported + i - 1
    BY DEF QueriesInv, PlacesInOrder
  <2>4. IsInjective(query_queue)
    BY <2>1, <2>2 DEF IsInjective
  <2>5. IsInjective(drained)
    BY <2>1, <2>3 DEF IsInjective
  <2>6. \A id \in Range(query_queue) :
          id \in Int /\ id >= Reported + InHand + Len(drained)
    BY <2>1, <2>2 DEF Range
  <2>7. \A id \in Range(drained) :
          id \in Int /\ id >= Reported /\ id < Reported + Len(drained)
    BY <2>1, <2>3 DEF Range
  <2>8. \A id \in Range(succeeded_queue) \cup Range(failed_queue) :
          id \in Int /\ id < Reported
    <3>1. \A id \in Range(succeeded_queue) \cup Range(failed_queue) : id \in QueryId
      BY DEF TypeOK, QueueTypeOK, Range
    <3>. QED
      BY <3>1 DEF QueriesInv, ResultsOnce, QueryId
  <2>9. client_pc = "query" => InHand = 1 /\ in_hand = Reported /\ drained = <<>>
    BY DEF QueriesInv, PlacesInOrder, InHand
  <2>10. IsInjective(succeeded_queue) /\ IsInjective(failed_queue)
           /\ Range(succeeded_queue) \cap Range(failed_queue) = {}
    BY DEF QueriesInv, ResultsOnce
  <2>11. (Range(succeeded_queue) \cup Range(failed_queue))
           \cap (Range(query_queue) \cup Range(drained)) = {}
    BY <2>1, <2>6, <2>7, <2>8
  <2>12. Range(query_queue) \cap Range(drained) = {}
    BY <2>1, <2>6, <2>7
  <2>13. client_pc = "query" =>
           in_hand \notin Range(query_queue) \cup Range(drained)
                            \cup Range(succeeded_queue) \cup Range(failed_queue)
    <3> SUFFICES ASSUME client_pc = "query"
                 PROVE  in_hand \notin Range(query_queue) \cup Range(drained)
                          \cup Range(succeeded_queue) \cup Range(failed_queue)
      OBVIOUS
    <3>1. InHand = 1 /\ in_hand = Reported /\ Range(drained) = {}
      BY <2>9 DEF Range
    <3>2. \A id \in Range(query_queue) : id > Reported
      BY <2>1, <2>6, <3>1
    <3>. QED
      BY <2>1, <2>8, <3>1, <3>2
  <2>. QED
    BY <2>4, <2>5, <2>10, <2>11, <2>12, <2>13 DEF OnePlace
<1>. QED
  BY <1>1, QueriesInvariant, TypeCorrect, PTL

\* A pending query is somewhere: none is forgotten while the object lives.
THEOREM NoneForgotten == Spec => []NothingForgotten
<1>1. TypeOK /\ QueriesInv => NothingForgotten
  <2> SUFFICES ASSUME TypeOK, QueriesInv, alive PROVE NothingForgotten
    BY DEF NothingForgotten
  <2>1. /\ Reported \in Int /\ InHand \in {0, 1} /\ query_request_id \in Nat
        /\ query_queue \in Seq(QueryId) /\ Len(query_queue) \in Nat
        /\ drained \in Seq(QueryId) /\ Len(drained) \in Nat
        /\ queries \in SUBSET QueryId
    BY ReportedType DEF TypeOK, ObjectTypeOK, QueueTypeOK, ClientTypeOK
  <2>2. \A id \in QueryId : id \in queries <=> promise[id] = "pending"
    BY DEF QueriesInv, PromisesMatch
  <2>3. \A id \in QueryId : id >= query_request_id => promise[id] = "none"
    BY DEF QueriesInv, PromisesMatch
  <2>4. query_request_id <= MaxQueries
    BY DEF TypeOK, ObjectTypeOK
  <2>5. Issued \subseteq QueryId
    BY <2>1, <2>4, ConstantsAssumption DEF Issued, QueryId, ConstantsAssumption
  <2>6. queries = {id \in Issued : promise[id] = "pending"}
    <3>1. \A id \in queries : id \in Issued
      BY <2>1, <2>2, <2>3 DEF Issued, QueryId
    <3>. QED
      BY <3>1, <2>1, <2>2, <2>5
  <2>7. ASSUME NEW id \in queries
        PROVE  id \in Range(query_queue) \cup Range(succeeded_queue)
                 \cup Range(failed_queue) \cup Range(drained)
                 \cup (IF client_pc = "query" THEN {in_hand} ELSE {})
    <3>1. id \in QueryId /\ id \in Nat /\ id < query_request_id
      BY <2>1, <2>6 DEF Issued, QueryId
    <3>2. CASE id < Reported
      BY <3>1, <3>2, <2>1 DEF QueriesInv, PromisesMatch
    <3>3. CASE id >= Reported /\ id < Reported + Len(drained)
      <4>1. id - Reported + 1 \in 1 .. Len(drained)
        BY <3>1, <3>3, <2>1
      <4>2. drained[id - Reported + 1] = Reported + (id - Reported + 1) - 1
        BY <4>1 DEF QueriesInv, PlacesInOrder
      <4>3. drained[id - Reported + 1] = id
        BY <4>2, <3>1, <2>1
      <4>. QED
        BY <4>1, <4>3, <2>1 DEF Range
    <3>4. CASE id >= Reported + Len(drained) /\ id < Reported + Len(drained) + InHand
      <4>1. client_pc = "query"
        BY <3>1, <3>4, <2>1 DEF InHand
      <4>2. drained = <<>> /\ in_hand = Reported
        BY <4>1 DEF QueriesInv, PlacesInOrder
      <4>3. Len(drained) = 0
        BY <4>2
      <4>4. id = in_hand
        BY <3>1, <3>4, <4>2, <4>3, <2>1
      <4>. QED
        BY <4>1, <4>4
    <3>5. CASE id >= Reported + Len(drained) + InHand
      <4> DEFINE i == id - Reported - InHand - Len(drained) + 1
      <4>1. Reported + InHand + Len(drained) + Len(query_queue) = query_request_id
        BY <2>1 DEF Reported
      <4>2. i \in 1 .. Len(query_queue)
        BY <3>1, <3>5, <4>1, <2>1
      <4>3. query_queue[i] = Reported + InHand + Len(drained) + i - 1
        BY <4>2 DEF QueriesInv, PlacesInOrder
      <4>4. query_queue[i] = id
        BY <4>3, <3>1, <2>1
      <4>. QED
        BY <4>2, <4>4, <2>1 DEF Range
    <3>. QED
      BY <3>1, <3>2, <3>3, <3>4, <3>5, <2>1
  <2>. QED
    BY <2>6, <2>7 DEF NothingForgotten
<1>. QED
  BY <1>1, QueriesInvariant, TypeCorrect, PTL

(***************************************************************************)
(* Results of one kind are delivered in the order of execution.            *)
(***************************************************************************)

\* The successes that wait for a frame are in the order of their ids, as the
\* queries were.
ResultsInOrder ==
  \A i, j \in DOMAIN succeeded_queue : i < j => succeeded_queue[i] < succeeded_queue[j]

\* What the invariants say of the queue of successes.
LEMMA SuccessesBelow ==
  ASSUME TypeOK, QueriesInv
  PROVE  /\ succeeded_queue \in Seq(QueryId) /\ Len(succeeded_queue) \in Nat
         /\ DOMAIN succeeded_queue = 1 .. Len(succeeded_queue)
         /\ \A i \in 1 .. Len(succeeded_queue) :
              succeeded_queue[i] \in Nat /\ succeeded_queue[i] < Reported
<1>1. /\ succeeded_queue \in Seq(QueryId) /\ Len(succeeded_queue) \in Nat
      /\ DOMAIN succeeded_queue = 1 .. Len(succeeded_queue)
  BY DEF TypeOK, QueueTypeOK
<1>2. ASSUME NEW i \in 1 .. Len(succeeded_queue)
      PROVE  succeeded_queue[i] \in Nat /\ succeeded_queue[i] < Reported
  <2>1. succeeded_queue[i] \in Range(succeeded_queue) /\ succeeded_queue[i] \in QueryId
    BY <1>1 DEF Range
  <2>. QED
    BY <2>1 DEF QueriesInv, ResultsOnce, QueryId
<1>. QED
  BY <1>1, <1>2

\* Only the ends of the queue change.
LEMMA OrderStep == TypeOK /\ QueriesInv /\ ResultsInOrder /\ [Next]_vars => ResultsInOrder'
<1> SUFFICES ASSUME TypeOK, QueriesInv, ResultsInOrder, [Next]_vars
             PROVE  ResultsInOrder'
  OBVIOUS
<1>1. /\ succeeded_queue \in Seq(QueryId) /\ Len(succeeded_queue) \in Nat
      /\ DOMAIN succeeded_queue = 1 .. Len(succeeded_queue)
      /\ \A i \in 1 .. Len(succeeded_queue) :
           succeeded_queue[i] \in Nat /\ succeeded_queue[i] < Reported
  BY SuccessesBelow
<1>2. CASE UNCHANGED succeeded_queue
  BY <1>2 DEF ResultsInOrder
<1>3. CASE succeeded_queue # <<>> /\ succeeded_queue' = Tail(succeeded_queue)
  <2>1. /\ Len(Tail(succeeded_queue)) = Len(succeeded_queue) - 1
        /\ Tail(succeeded_queue) \in Seq(QueryId)
        /\ \A k \in 1 .. Len(succeeded_queue) - 1 :
             Tail(succeeded_queue)[k] = succeeded_queue[k + 1]
    BY <1>1, <1>3, PopPlaces, PopType
  <2>2. DOMAIN succeeded_queue' = 1 .. Len(succeeded_queue) - 1
    BY <1>3, <2>1
  <2>3. \A k \in 1 .. Len(succeeded_queue) - 1 : k + 1 \in 1 .. Len(succeeded_queue)
    BY <1>1
  <2>. QED
    BY <1>1, <1>3, <2>1, <2>2, <2>3 DEF ResultsInOrder
<1>4. CASE EndQuery /\ succeeded_queue' = Append(succeeded_queue, in_hand)
  <2>1. in_hand = Reported /\ Reported \in Int /\ in_hand \in QueryId
    BY <1>4, ReportedType DEF EndQuery, QueriesInv, PlacesInOrder, TypeOK, ClientTypeOK
  <2>2. /\ DOMAIN succeeded_queue' = 1 .. Len(succeeded_queue) + 1
        /\ succeeded_queue'[Len(succeeded_queue) + 1] = Reported
        /\ \A k \in 1 .. Len(succeeded_queue) : succeeded_queue'[k] = succeeded_queue[k]
    BY <1>1, <1>4, <2>1, PushPlaces
  <2> SUFFICES ASSUME NEW i \in 1 .. Len(succeeded_queue) + 1,
                      NEW j \in 1 .. Len(succeeded_queue) + 1, i < j
               PROVE  succeeded_queue'[i] < succeeded_queue'[j]
    BY <2>2 DEF ResultsInOrder
  <2>3. i \in 1 .. Len(succeeded_queue)
    BY <1>1
  <2>. QED
    BY <1>1, <2>2, <2>3 DEF ResultsInOrder
<1>5. CASE ScriptNext
  BY <1>2, <1>5 DEF ScriptNext, Query, Close, Collect, resultVars
<1>6. CASE HostNext
  BY <1>2, <1>3, <1>6
  DEF HostNext, Connect, JoinReturns, ProcessAttempt, ProcessSucceeded, ProcessFailed,
      resultVars
<1>7. CASE ClientNext
  BY <1>2, <1>4, <1>7
  DEF ClientNext, TestShutdown, AwaitInformation, AwaitConnection, DoConnect,
      BeginPing, EndPing, BeginQuery, EndQuery, Wake, Drain, Terminate, resultVars
<1>8. CASE ClockNext \/ Gone \/ UNCHANGED vars
  BY <1>2, <1>8 DEF ClockNext, RetryElapses, PingElapses, Gone, vars, resultVars
<1>. QED
  BY <1>5, <1>6, <1>7, <1>8 DEF Next

\* A promise is settled by the frame that pops the result of its query, while
\* the object lives.
LEMMA OnlyFramesSettle ==
  ASSUME TypeOK, QueriesInv, [Next]_vars, NEW id \in QueryId,
         promise[id] = "pending", promise'[id] = "resolved"
  PROVE  ProcessSucceeded /\ succeeded_queue # <<>> /\ id = Head(succeeded_queue)
<1>1. promise \in [QueryId -> {"none", "pending", "resolved", "rejected"}]
  BY DEF TypeOK, ObjectTypeOK
<1>2. ~(UNCHANGED promise)
  OBVIOUS
<1>3. ~Query
  BY <1>1 DEF Query
<1>4. ~(Close \/ Collect \/ Connect \/ JoinReturns)
  BY <1>2 DEF Close, Collect, Connect, JoinReturns, Destroy, objectVars
<1>5. ~ProcessAttempt
  BY <1>2 DEF ProcessAttempt, DidConnect, ReadyDecided, objectVars
<1>6. ~ProcessFailed
  BY <1>1, <1>2 DEF ProcessFailed, Settle, objectVars
<1>7. ~ClientNext
  BY <1>2
  DEF ClientNext, TestShutdown, AwaitInformation, AwaitConnection, DoConnect,
      BeginPing, EndPing, BeginQuery, EndQuery, Wake, Drain, Terminate, hostSide,
      objectVars
<1>8. ~(ClockNext \/ Gone \/ UNCHANGED vars)
  BY <1>2 DEF ClockNext, RetryElapses, PingElapses, Gone, vars, hostSide, objectVars
<1>9. ProcessSucceeded
  BY <1>3, <1>4, <1>5, <1>6, <1>7, <1>8 DEF Next, ScriptNext, HostNext
<1>. QED
  BY <1>1, <1>2, <1>9 DEF ProcessSucceeded, Settle, objectVars

\* Frames work for objects that live.
DeadAtRest == ~alive => host_pc = "js"

\* A collected object has left every handler.
LEMMA DeadStep == TypeOK /\ DeadAtRest /\ [Next]_vars => DeadAtRest'
<1> SUFFICES ASSUME TypeOK, DeadAtRest, [Next]_vars PROVE DeadAtRest'
  OBVIOUS
<1> USE DEF DeadAtRest
<1>1. CASE ScriptNext
  BY <1>1 DEF ScriptNext, Query, Close, Collect, Destroy, hostVars, objectVars
<1>2. CASE HostNext
  BY <1>2
  DEF HostNext, Connect, JoinReturns, ProcessAttempt, DidConnect, ReadyDecided,
      ProcessSucceeded, ProcessFailed, Settle, Destroy, objectVars
<1>3. CASE ClientNext
  BY <1>3
  DEF ClientNext, ClientLives, TestShutdown, AwaitInformation, AwaitConnection,
      DoConnect, BeginPing, EndPing, BeginQuery, EndQuery, Wake, Drain, Terminate,
      hostSide, objectVars, hostVars
<1>4. CASE ClockNext \/ Gone \/ UNCHANGED vars
  BY <1>4
  DEF ClockNext, RetryElapses, PingElapses, Gone, vars, hostSide, objectVars, hostVars
<1>. QED
  BY <1>1, <1>2, <1>3, <1>4 DEF Next

\* In every reachable state.
LEMMA DeadInvariant == Spec => []DeadAtRest
<1>1. Init => DeadAtRest
  BY DEF Init, DeadAtRest
<1>. QED
  BY <1>1, DeadStep, TypeCorrect, PTL DEF Spec

\* A promise is resolved before that of an older query only if the older one
\* has failed and its result waits in the other queue.
THEOREM ResolvedInOrder == Spec => OvertakesOnlyFailures
<1>1. ASSUME TypeOK, QueriesInv, ResultsInOrder, DeadAtRest, [Next]_vars
      PROVE  \A id \in Issued : promise'[id] = "resolved" /\ promise[id] = "pending" =>
               \A older \in 0 .. id - 1 :
                 promise[older] = "pending" => older \in Range(failed_queue)
  <2> SUFFICES ASSUME NEW id \in Issued,
                      promise'[id] = "resolved", promise[id] = "pending",
                      NEW older \in 0 .. id - 1, promise[older] = "pending"
               PROVE  older \in Range(failed_queue)
    OBVIOUS
  <2>1. id \in QueryId /\ older \in QueryId /\ id \in Nat /\ older \in Nat
    BY <1>1, ConstantsAssumption
    DEF Issued, QueryId, TypeOK, ObjectTypeOK, ConstantsAssumption
  <2>2. ProcessSucceeded /\ succeeded_queue # <<>> /\ id = Head(succeeded_queue)
    BY <1>1, <2>1, OnlyFramesSettle
  <2>3. alive
    BY <1>1, <2>2 DEF DeadAtRest, ProcessSucceeded
  <2>4. /\ succeeded_queue \in Seq(QueryId) /\ Len(succeeded_queue) \in Nat \ {0}
        /\ DOMAIN succeeded_queue = 1 .. Len(succeeded_queue)
        /\ id = succeeded_queue[1] /\ id < Reported
    BY <1>1, <2>2, SuccessesBelow, PopPlaces
  <2>5. older < Reported /\ Reported \in Int
    BY <1>1, <2>1, <2>4, ReportedType
  <2>6. older \in Range(succeeded_queue) \cup Range(failed_queue)
    BY <1>1, <2>1, <2>3, <2>5 DEF QueriesInv, PromisesMatch
  <2>7. older \notin Range(succeeded_queue)
    <3> SUFFICES ASSUME NEW k \in 1 .. Len(succeeded_queue), succeeded_queue[k] = older
                 PROVE  FALSE
      BY <2>4 DEF Range
    <3>1. CASE k = 1
      BY <2>1, <2>4, <3>1
    <3>2. CASE 1 < k
      BY <1>1, <2>1, <2>4, <3>2 DEF ResultsInOrder
    <3>. QED
      BY <2>4, <3>1, <3>2
  <2>. QED
    BY <2>6, <2>7
<1>2. Init => ResultsInOrder
  BY DEF Init, ResultsInOrder
<1>3. Spec => []ResultsInOrder
  BY <1>2, OrderStep, TypeCorrect, QueriesInvariant, PTL DEF Spec
<1>. QED
  BY <1>1, <1>3, DeadInvariant, TypeCorrect, QueriesInvariant, PTL
  DEF Spec, OvertakesOnlyFailures

(***************************************************************************)
(* The refinement of QueryService.                                         *)
(***************************************************************************)

\* What the service sees of the state: a step that leaves this alone is a
\* stutter.
LEMMA ServiceStutter ==
  ASSUME UNCHANGED <<query_request_id, promise, query_queue, succeeded_queue,
                     failed_queue, drained>>,
         client_pc' = "query" <=> client_pc = "query"
  PROVE  UNCHANGED Service!serviceVars
<1>1. Executed' = Executed
  BY DEF Executed
<1>2. \A id \in QueryId : VerdictOf(id)' = VerdictOf(id)
  BY DEF VerdictOf
<1>. QED
  BY <1>1, <1>2 DEF Service!serviceVars

\* Where a query is when it has not been reported: pending, with no verdict
\* unless it was drained.
LEMMA Unreported ==
  ASSUME TypeOK, QueriesInv, alive, NEW id \in QueryId,
         id >= Reported, id < query_request_id
  PROVE  /\ promise[id] = "pending"
         /\ id \notin Range(succeeded_queue) /\ id \notin Range(failed_queue)
<1>1. promise[id] = "pending"
  BY DEF QueriesInv, PromisesMatch
<1>2. \A other \in Range(succeeded_queue) \cup Range(failed_queue) : other < Reported
  BY DEF QueriesInv, ResultsOnce
<1>. QED
  BY <1>1, <1>2, ReportedType DEF QueryId

\* query() issues.
LEMMA QueryIssues ==
  ASSUME TypeOK, QueriesInv, Query PROVE Service!Issue
<1>1. /\ query_request_id < MaxQueries /\ query_request_id' = query_request_id + 1
      /\ promise' = [promise EXCEPT ![query_request_id] = "pending"]
      /\ UNCHANGED <<succeeded_queue, failed_queue, drained, client_pc>>
      /\ query_queue' = Append(query_queue, query_request_id)
  BY DEF Query, resultVars, clientVars
<1>2. query_request_id \in QueryId /\ query_request_id \in Nat
  BY <1>1, ConstantsAssumption
  DEF TypeOK, ObjectTypeOK, QueryId, ConstantsAssumption
<1>3. Len(query_queue') = Len(query_queue) + 1 /\ Len(query_queue) \in Nat
  BY <1>1, <1>2 DEF TypeOK, QueueTypeOK
<1>4. Executed' = Executed
  BY <1>1, <1>2, <1>3 DEF Executed
<1>5. \A id \in QueryId : VerdictOf(id)' = VerdictOf(id)
  <2> SUFFICES ASSUME NEW id \in QueryId PROVE VerdictOf(id)' = VerdictOf(id)
    OBVIOUS
  <2>1. promise \in [QueryId -> {"none", "pending", "resolved", "rejected"}]
    BY DEF TypeOK, ObjectTypeOK
  <2>2. promise[query_request_id] = "none"
    BY <1>2 DEF QueriesInv, PromisesMatch
  <2>3. /\ promise'[id] = "resolved" <=> promise[id] = "resolved"
        /\ promise'[id] = "rejected" <=> promise[id] = "rejected"
    BY <1>1, <1>2, <2>1, <2>2
  <2>. QED
    BY <1>1, <2>3 DEF VerdictOf
<1>. QED
  BY <1>1, <1>4, <1>5 DEF Service!Issue

\* The client thread executes, normally or silently: the query is the next
\* one, and gets the verdict that its place now stands for.
LEMMA ExecutesNext ==
  ASSUME TypeOK, NEW id \in QueryId, Executed = id, Executed' = Executed + 1,
         id < query_request_id,
         UNCHANGED <<query_request_id, promise>>,
         VerdictOf(id)' \in {"ok", "error", "silent"},
         \A other \in QueryId \ {id} : VerdictOf(other)' = VerdictOf(other)
  PROVE  Service!Execute
<1> DEFINE before == [other \in QueryId |-> VerdictOf(other)]
<1>1. [other \in QueryId |-> VerdictOf(other)]' =
        [before EXCEPT ![id] = VerdictOf(id)']
  OBVIOUS
<1>2. VerdictOf(id)' \in Service!Verdict \ {"none"}
  BY DEF Service!Verdict
<1>. QED
  BY <1>1, <1>2 DEF Service!Execute

\* EndQuery: the query in hand, with the server's answer.
LEMMA EndQueryExecutes ==
  ASSUME TypeOK, QueriesInv, alive, EndQuery PROVE Service!Execute
<1>1. /\ client_pc = "query" /\ client_pc' = "sleep"
      /\ UNCHANGED <<query_request_id, promise, query_queue, drained>>
  BY DEF EndQuery, hostSide, objectVars
<1>2. InHand = 1 /\ drained = <<>> /\ Len(drained) = 0 /\ in_hand = Reported
  BY <1>1 DEF InHand, QueriesInv, PlacesInOrder
<1>3. Reported \in Nat /\ query_request_id \in Nat /\ Len(query_queue) \in Nat
        /\ in_hand \in QueryId
  BY ReportedType
  DEF TypeOK, ObjectTypeOK, QueueTypeOK, ClientTypeOK, QueriesInv, PlacesInOrder
<1>4. Executed = in_hand /\ Executed' = Executed + 1 /\ in_hand < query_request_id
  BY <1>1, <1>2, <1>3 DEF Executed, Reported
<1>5. /\ promise[in_hand] = "pending"
      /\ in_hand \notin Range(succeeded_queue) /\ in_hand \notin Range(failed_queue)
  BY <1>2, <1>3, <1>4, Unreported
<1> PICK id \in QueryId : id = in_hand
  BY <1>3
<1>6. \/ /\ Range(succeeded_queue)' = Range(succeeded_queue) \cup {id}
         /\ UNCHANGED failed_queue
      \/ /\ Range(failed_queue)' = Range(failed_queue) \cup {id}
         /\ UNCHANGED succeeded_queue
  <2>1. succeeded_queue \in Seq(QueryId) /\ failed_queue \in Seq(QueryId)
    BY DEF TypeOK, QueueTypeOK
  <2>2. CASE succeeded_queue' = Append(succeeded_queue, id) /\ UNCHANGED failed_queue
    BY <2>1, <2>2, PushRange
  <2>3. CASE failed_queue' = Append(failed_queue, id) /\ UNCHANGED succeeded_queue
    BY <2>1, <2>3, PushRange
  <2>. QED
    BY <2>2, <2>3 DEF EndQuery
<1>7. VerdictOf(id)' \in {"ok", "error", "silent"}
  BY <1>6 DEF VerdictOf
<1>8. \A other \in QueryId \ {id} : VerdictOf(other)' = VerdictOf(other)
  BY <1>1, <1>6 DEF VerdictOf
<1>. QED
  BY <1>1, <1>4, <1>7, <1>8, ExecutesNext

\* Drain: the head of the queue, silently.
LEMMA DrainExecutes ==
  ASSUME TypeOK, QueriesInv, alive, Drain PROVE Service!Execute
<1>1. /\ client_pc = "drain" /\ client_pc' = "drain" /\ query_queue # <<>>
      /\ query_queue' = Tail(query_queue)
      /\ drained' = Append(drained, Head(query_queue))
      /\ UNCHANGED <<query_request_id, promise, succeeded_queue, failed_queue>>
  BY DEF Drain, MoreToDrain, hostSide, objectVars, resultVars
<1>2. InHand = 0
  BY <1>1 DEF InHand
<1>3. /\ drained \in Seq(QueryId) /\ Head(query_queue) \in QueryId
      /\ Len(drained) \in Nat /\ Reported \in Int /\ query_request_id \in Nat
  BY <1>1, PopType, ReportedType DEF TypeOK, ObjectTypeOK, QueueTypeOK, ClientTypeOK
<1> PICK id \in QueryId : id = Head(query_queue)
  BY <1>3
<1>4. /\ id = Reported + Len(drained) /\ Len(query_queue) \in Nat \ {0}
      /\ Len(query_queue') = Len(query_queue) - 1
  BY <1>1, <1>2, <1>3, HeadIsNext
<1>5. Executed = id /\ Executed' = Executed + 1
        /\ id < query_request_id /\ id >= Reported
  <2>1. Reported = query_request_id - Len(query_queue) - Len(drained)
    BY <1>2, <1>3, <1>4 DEF Reported
  <2>2. Executed = query_request_id - Len(query_queue)
    BY <1>1, <1>3, <1>4 DEF Executed
  <2>3. Executed' = query_request_id - Len(query_queue')
    BY <1>1, <1>3, <1>4 DEF Executed
  <2> HIDE DEF QueryId
  <2>. QED
    BY <1>3, <1>4, <2>1, <2>2, <2>3
<1>6. /\ promise[id] = "pending"
      /\ id \notin Range(succeeded_queue) /\ id \notin Range(failed_queue)
  BY <1>5, Unreported
<1>7. Range(drained)' = Range(drained) \cup {id}
  BY <1>1, <1>3, PushRange
<1>8. VerdictOf(id)' \in {"ok", "error", "silent"}
  BY <1>7 DEF VerdictOf
<1>9. \A other \in QueryId \ {id} : VerdictOf(other)' = VerdictOf(other)
  BY <1>1, <1>7 DEF VerdictOf
<1>. QED
  BY <1>1, <1>5, <1>8, <1>9, ExecutesNext

\* ProcessSucceeded resolves a promise of which the server said "ok".
LEMMA SuccessAnswers ==
  ASSUME TypeOK, QueriesInv, alive, ProcessSucceeded, succeeded_queue # <<>>
  PROVE  \E id \in QueryId : Service!Answer(id)
<1> PICK id : id = Head(succeeded_queue)
  OBVIOUS
<1>1. /\ succeeded_queue' = Tail(succeeded_queue) /\ Settle(id, "resolved")
      /\ UNCHANGED <<query_request_id, query_queue, failed_queue, client_pc, drained>>
  BY DEF ProcessSucceeded, Settle, clientVars
<1>2. /\ id \in QueryId /\ id \in Range(succeeded_queue)
      /\ Range(succeeded_queue)' = Range(succeeded_queue) \ {id}
  BY <1>1, PopRange, PopType DEF TypeOK, QueueTypeOK, QueriesInv, ResultsOnce
<1>3. promise[id] = "pending" /\ promise' = [promise EXCEPT ![id] = "resolved"]
  BY <1>1, <1>2 DEF QueriesInv, PromisesMatch, Settle
<1>4. promise \in [QueryId -> {"none", "pending", "resolved", "rejected"}]
  BY DEF TypeOK, ObjectTypeOK
<1>5. VerdictOf(id) = "ok"
  BY <1>2 DEF VerdictOf
<1>6. \A other \in QueryId : VerdictOf(other)' = VerdictOf(other)
  BY <1>1, <1>2, <1>3, <1>4 DEF VerdictOf
<1>7. UNCHANGED <<query_request_id, query_queue, client_pc>>
  BY <1>1
<1>8. Service!Answer(id)
  <2>1. id \in QueryId /\ promise[id] = "pending"
    BY <1>2, <1>3
  <2>2. \/ VerdictOf(id) = "ok" /\ promise' = [promise EXCEPT ![id] = "resolved"]
        \/ VerdictOf(id) = "error" /\ promise' = [promise EXCEPT ![id] = "rejected"]
    BY <1>3, <1>5
  <2>3. Executed' = Executed
    BY <1>7 DEF Executed
  <2>. QED
    BY <1>6, <1>7, <2>1, <2>2, <2>3 DEF Service!Answer
<1>. QED
  BY <1>2, <1>8

\* ProcessFailed rejects one of which the server said "error".
LEMMA FailureAnswers ==
  ASSUME TypeOK, QueriesInv, alive, ProcessFailed, failed_queue # <<>>
  PROVE  \E id \in QueryId : Service!Answer(id)
<1> PICK id : id = Head(failed_queue)
  OBVIOUS
<1>1. /\ failed_queue' = Tail(failed_queue) /\ Settle(id, "rejected")
      /\ UNCHANGED <<query_request_id, query_queue, succeeded_queue, client_pc, drained>>
  BY DEF ProcessFailed, Settle, clientVars
<1>2. /\ id \in QueryId /\ id \in Range(failed_queue)
      /\ Range(failed_queue)' = Range(failed_queue) \ {id}
      /\ id \notin Range(succeeded_queue)
  BY <1>1, PopRange, PopType DEF TypeOK, QueueTypeOK, QueriesInv, ResultsOnce
<1>3. promise[id] = "pending" /\ promise' = [promise EXCEPT ![id] = "rejected"]
  BY <1>1, <1>2 DEF QueriesInv, PromisesMatch, Settle
<1>4. promise \in [QueryId -> {"none", "pending", "resolved", "rejected"}]
  BY DEF TypeOK, ObjectTypeOK
<1>5. VerdictOf(id) = "error"
  BY <1>2, <1>3 DEF VerdictOf
<1>6. \A other \in QueryId : VerdictOf(other)' = VerdictOf(other)
  BY <1>1, <1>2, <1>3, <1>4 DEF VerdictOf
<1>7. UNCHANGED <<query_request_id, query_queue, client_pc>>
  BY <1>1
<1>8. Service!Answer(id)
  <2>1. id \in QueryId /\ promise[id] = "pending"
    BY <1>2, <1>3
  <2>2. \/ VerdictOf(id) = "ok" /\ promise' = [promise EXCEPT ![id] = "resolved"]
        \/ VerdictOf(id) = "error" /\ promise' = [promise EXCEPT ![id] = "rejected"]
    BY <1>3, <1>5
  <2>3. Executed' = Executed
    BY <1>7 DEF Executed
  <2>. QED
    BY <1>6, <1>7, <2>1, <2>2, <2>3 DEF Service!Answer
<1>. QED
  BY <1>2, <1>8

\* BeginQuery only moves the query on, as does every step not named above.
LEMMA ServiceStep ==
  ASSUME TypeOK, QueriesInv, DeadAtRest, [Next]_vars
  PROVE  [Service!ServiceNext]_(Service!serviceVars)
<1> DEFINE Same == UNCHANGED <<query_request_id, promise, query_queue, succeeded_queue,
                               failed_queue, drained>>
           SameQuery == client_pc' = "query" <=> client_pc = "query"
<1>1. CASE Query
  BY <1>1, QueryIssues DEF Service!ServiceNext
<1>2. CASE Close \/ Collect \/ Connect \/ JoinReturns \/ ProcessAttempt
  <2>1. Same /\ SameQuery
    BY <1>2
    DEF Close, Collect, Connect, JoinReturns, ProcessAttempt, DidConnect, ReadyDecided,
        Destroy, objectVars, resultVars, clientVars
  <2>. QED
    BY <2>1, ServiceStutter
<1>3. CASE ProcessSucceeded
  <2>1. CASE succeeded_queue # <<>>
    <3>1. alive
      BY <1>3 DEF ProcessSucceeded, DeadAtRest
    <3>2. \E id \in QueryId : Service!Answer(id)
      BY <1>3, <2>1, <3>1, SuccessAnswers
    <3>. QED
      BY <3>2 DEF Service!ServiceNext, Service!QueryId, QueryId
  <2>2. CASE succeeded_queue = <<>>
    <3>1. Same /\ SameQuery
      BY <1>3, <2>2 DEF ProcessSucceeded, objectVars, clientVars
    <3>. QED
      BY <3>1, ServiceStutter
  <2>. QED
    BY <2>1, <2>2
<1>4. CASE ProcessFailed
  <2>1. CASE failed_queue # <<>>
    <3>1. alive
      BY <1>4 DEF ProcessFailed, DeadAtRest
    <3>2. \E id \in QueryId : Service!Answer(id)
      BY <1>4, <2>1, <3>1, FailureAnswers
    <3>. QED
      BY <3>2 DEF Service!ServiceNext, Service!QueryId, QueryId
  <2>2. CASE failed_queue = <<>>
    <3>1. Same /\ SameQuery
      BY <1>4, <2>2 DEF ProcessFailed, objectVars, clientVars
    <3>. QED
      BY <3>1, ServiceStutter
  <2>. QED
    BY <2>1, <2>2
<1>5. CASE ClientNext
  <2>1. alive
    BY <1>5 DEF ClientNext, ClientLives
  <2>2. CASE EndQuery
    BY <2>1, <2>2, EndQueryExecutes DEF Service!ServiceNext
  <2>3. CASE Drain
    BY <2>1, <2>3, DrainExecutes DEF Service!ServiceNext
  <2>4. CASE BeginQuery /\ query_queue # <<>>
    <3>1. /\ client_pc = "body" /\ client_pc' = "query"
          /\ query_queue' = Tail(query_queue)
          /\ UNCHANGED <<query_request_id, promise, succeeded_queue, failed_queue, drained>>
      BY <2>4 DEF BeginQuery, hostSide, objectVars, resultVars
    <3>2. /\ Len(query_queue') = Len(query_queue) - 1 /\ Len(query_queue) \in Nat
          /\ query_request_id \in Nat
      BY <2>4, <3>1, HeadIsNext DEF TypeOK, ObjectTypeOK
    <3>3. Executed' = Executed
      <4>1. Executed = query_request_id - Len(query_queue)
        BY <3>1, <3>2 DEF Executed
      <4>2. Executed' = query_request_id - Len(query_queue') - 1
        BY <3>1, <3>2 DEF Executed
      <4>. QED
        BY <3>2, <4>1, <4>2
    <3>4. \A id \in QueryId : VerdictOf(id)' = VerdictOf(id)
      BY <3>1 DEF VerdictOf
    <3>. QED
      BY <3>1, <3>3, <3>4 DEF Service!serviceVars
  <2>5. CASE \/ TestShutdown \/ AwaitInformation \/ AwaitConnection
             \/ \E succeeded \in BOOLEAN : DoConnect(succeeded)
             \/ BeginPing \/ EndPing \/ Wake \/ Terminate
             \/ BeginQuery /\ query_queue = <<>>
    <3>1. Same /\ SameQuery
      BY <2>5
      DEF TestShutdown, AwaitInformation, AwaitConnection, DoConnect, BeginPing,
          EndPing, Wake, Terminate, BeginQuery, hostSide, objectVars, resultVars
    <3>. QED
      BY <3>1, ServiceStutter
  <2>. QED
    BY <1>5, <2>2, <2>3, <2>4, <2>5 DEF ClientNext
<1>6. CASE ClockNext \/ Gone \/ UNCHANGED vars
  <2>1. Same /\ SameQuery
    BY <1>6
    DEF ClockNext, RetryElapses, PingElapses, Gone, vars, hostSide, objectVars,
        resultVars, clientVars
  <2>. QED
    BY <2>1, ServiceStutter
<1>. QED
  BY <1>1, <1>2, <1>3, <1>4, <1>5, <1>6 DEF Next, ScriptNext, HostNext

\* The object, its thread and the queues between them implement the service:
\* queries are executed one by one in the order of their numbers, and promises
\* settled once, after and as the server said.
THEOREM Implements == Spec => ImplementsService
<1>1. Init => Service!ServiceInit
  <2> SUFFICES ASSUME Init PROVE Service!ServiceInit
    OBVIOUS
  <2>1. Executed = 0
    <3>1. query_request_id = 0 /\ Len(query_queue) = 0 /\ client_pc = "loop"
      BY DEF Init
    <3>. QED
      BY <3>1 DEF Executed
  <2>2. \A id \in QueryId : VerdictOf(id) = "none"
    BY DEF Init, VerdictOf, Range
  <2>. QED
    BY <2>1, <2>2 DEF Init, Service!ServiceInit, QueryId, Service!QueryId
<1>2. TypeOK /\ QueriesInv /\ DeadAtRest /\ [Next]_vars
        => [Service!ServiceNext]_(Service!serviceVars)
  BY ServiceStep
<1>. QED
  BY <1>1, <1>2, TypeCorrect, QueriesInvariant, DeadInvariant, PTL
  DEF Spec, ImplementsService, Service!ServiceSpec
=============================================================================
