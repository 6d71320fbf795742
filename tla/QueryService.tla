---------------------------- MODULE QueryService ----------------------------
(***************************************************************************)
(* What one `new MySQL(...)` object promises the JavaScript code that uses *)
(* it, without threads or queues: queries are numbered as they are issued, *)
(* the server executes them one at a time in the order of their numbers,   *)
(* each of them once at most, and a promise is settled once at most, after *)
(* the server has executed its query and with the server's verdict.        *)
(* Nothing is promised about queries the server never executes, nor about *)
(* those it executes while the connection shuts down ("silent").           *)
(***************************************************************************)
EXTENDS Naturals

CONSTANT MaxQueries     \* bound: the number of queries a run may issue

VARIABLES
  issued,       \* how many queries JavaScript has issued
  executed,     \* how many of them the server has executed, a prefix
  verdict,      \* what the server said of each query
  outcome       \* the state of each query's promise

serviceVars == <<issued, executed, verdict, outcome>>

QueryId == 0 .. MaxQueries - 1

Verdict == {"none", "ok", "error", "silent"}
Outcome == {"none", "pending", "resolved", "rejected"}

ServiceTypeOK ==
  /\ issued \in 0 .. MaxQueries
  /\ executed \in 0 .. issued
  /\ verdict \in [QueryId -> Verdict]
  /\ outcome \in [QueryId -> Outcome]

ServiceInit ==
  /\ issued = 0
  /\ executed = 0
  /\ verdict = [id \in QueryId |-> "none"]
  /\ outcome = [id \in QueryId |-> "none"]

Issue ==
  /\ issued < MaxQueries
  /\ issued' = issued + 1
  /\ outcome' = [outcome EXCEPT ![issued] = "pending"]
  /\ UNCHANGED <<executed, verdict>>

\* The oldest query that was not executed yet reaches the server.
Execute ==
  /\ executed < issued
  /\ executed' = executed + 1
  /\ \E v \in Verdict \ {"none"} : verdict' = [verdict EXCEPT ![executed] = v]
  /\ UNCHANGED <<issued, outcome>>

Answer(id) ==
  /\ outcome[id] = "pending"
  /\ \/ verdict[id] = "ok"    /\ outcome' = [outcome EXCEPT ![id] = "resolved"]
     \/ verdict[id] = "error" /\ outcome' = [outcome EXCEPT ![id] = "rejected"]
  /\ UNCHANGED <<issued, executed, verdict>>

ServiceNext ==
  \/ Issue
  \/ Execute
  \/ \E id \in QueryId : Answer(id)

ServiceSpec == ServiceInit /\ [][ServiceNext]_serviceVars
=============================================================================
