-------------------------- MODULE RuntimeFrame_proofs --------------------------
(***************************************************************************)
(* Proofs about RuntimeFrame, for any number of jobs and promises, calls   *)
(* and frames.                                                             *)
(***************************************************************************)
EXTENDS RuntimeFrame, QueueLemmas

(***************************************************************************)
(* The inductive invariant.  Jobs are started one after the other, and     *)
(* keep their kind, so what is queued anywhere is of the kind that belongs *)
(* there.                                                                  *)
(***************************************************************************)
JobsStarted(n) ==
  \A i \in Job : /\ kind[i] # "none" <=> i <= n
                 /\ promise[i] # "none" <=> i <= n

KindsMatch ==
  /\ \E n \in 0 .. MaxJobs : JobsStarted(n)
  /\ \A k \in DOMAIN answered : kind[answered[k]] = "query"
  /\ \A k \in DOMAIN posted : kind[posted[k].of] \in {"post", "child"}
  /\ \A h \in waiting : kind[h.of] = "child"
  /\ \A k \in DOMAIN microtasks : kind[microtasks[k]] # "none"

\* What RunTimers has done for the frame, until the frame ends.
DueResolved ==
  pc \in {"microtasks", "restart", "run_one"} =>
    \A i \in Job : kind[i] = "timer" /\ promise[i] = "pending" =>
                     execution_time[i] >= current_time

MicrotasksRun == pc \in {"restart", "run_one"} => microtasks = <<>>

\* Before the k-th microtask, every timer that was due earlier than this one
\* has been continued, or will be by a microtask in front of it.
InTurn(k) ==
  LET i == microtasks[k]
  IN  kind[i] = "timer" =>
        /\ execution_time[i] <= current_time
        /\ \A j \in Job :
             kind[j] = "timer" /\ execution_time[j] < execution_time[i] =>
               \/ promise[j] = "continued"
               \/ \E l \in 1 .. k - 1 : microtasks[l] = j

TimersQueued ==
  /\ \A i \in Job : kind[i] = "timer" /\ promise[i] = "resolved" =>
                      Contains(microtasks, i)
  /\ \A k \in DOMAIN microtasks : InTurn(k)

RuntimeInv ==
  /\ FrameTypeOK /\ KindsMatch
  /\ DueResolved /\ MicrotasksRun /\ TimersQueued
  /\ RejectionsAccounted

(***************************************************************************)
(* What the operators of the model return.                                 *)
(***************************************************************************)

\* Started counts the jobs, and the next one has never been used.
LEMMA NextJob ==
  ASSUME FrameTypeOK, KindsMatch
  PROVE  /\ Started \in 0 .. MaxJobs /\ JobsStarted(Started)
         /\ Started < MaxJobs =>
              Started + 1 \in Job /\ kind[Started + 1] = "none"
<1>1. PICK n \in 0 .. MaxJobs : JobsStarted(n)
  BY DEF KindsMatch
<1>2. MaxJobs \in Nat /\ n \in Nat
  BY FrameAssumption DEF FrameAssumption
<1>3. {i \in Job : kind[i] # "none"} = 1 .. n
  BY <1>1, <1>2 DEF JobsStarted, Job
<1>4. Started = n
  <2>1. Cardinality(1 .. n) = n
    BY <1>2, FS_Interval
  <2>. QED
    BY <1>3, <2>1 DEF Started
<1>. QED
  BY <1>1, <1>2, <1>4 DEF JobsStarted, Job

\* Begin takes the next job and leaves the others alone.
LEMMA Begins ==
  ASSUME FrameTypeOK, KindsMatch, Started < MaxJobs,
         NEW k \in {"timer", "query", "post", "child"},
         NEW state \in {"pending", "resolved"},
         kind' = [kind EXCEPT ![Started + 1] = k],
         promise' = [promise EXCEPT ![Started + 1] = state]
  PROVE  /\ Started + 1 \in Job /\ kind[Started + 1] = "none"
         /\ kind' \in [Job -> {"none", "timer", "query", "post", "child"}]
         /\ promise' \in [Job -> {"none", "pending", "resolved", "continued"}]
         /\ kind'[Started + 1] = k /\ promise'[Started + 1] = state
         /\ \A i \in Job \ {Started + 1} :
              kind'[i] = kind[i] /\ promise'[i] = promise[i]
         /\ \A i \in Job : kind[i] # "none" => kind'[i] = kind[i]
         /\ \E n \in 0 .. MaxJobs : JobsStarted(n)'
<1>1. /\ Started \in 0 .. MaxJobs /\ JobsStarted(Started)
      /\ Started + 1 \in Job /\ kind[Started + 1] = "none"
  BY NextJob
<1>2. /\ kind \in [Job -> {"none", "timer", "query", "post", "child"}]
      /\ promise \in [Job -> {"none", "pending", "resolved", "continued"}]
  BY DEF FrameTypeOK
<1> PICK n : n = Started + 1
  OBVIOUS
<1>3. n \in 0 .. MaxJobs /\ JobsStarted(n)'
  <2>1. MaxJobs \in Nat
    BY FrameAssumption DEF FrameAssumption
  <2>2. kind' = [kind EXCEPT ![n] = k] /\ promise' = [promise EXCEPT ![n] = state]
    OBVIOUS
  <2>3. \A i \in Job : i <= n <=> i <= n - 1 \/ i = n
    BY <1>1, <2>1 DEF Job
  <2>. QED
    BY <1>1, <1>2, <2>1, <2>2, <2>3 DEF JobsStarted
<1>. QED
  BY <1>1, <1>2, <1>3

\* ResolveAll, job by job.
LEMMA Resolves ==
  ASSUME FrameTypeOK, NEW jobs \in Seq(Job), ResolveAll(jobs)
  PROVE  /\ promise' \in [Job -> {"none", "pending", "resolved", "continued"}]
         /\ \A i \in Job :
              promise'[i] = IF \E k \in 1 .. Len(jobs) : jobs[k] = i
                            THEN "resolved" ELSE promise[i]
         /\ microtasks' \in Seq(Job)
         /\ Len(microtasks') = Len(microtasks) + Len(jobs)
         /\ \A k \in 1 .. Len(microtasks) : microtasks'[k] = microtasks[k]
         /\ \A k \in 1 .. Len(jobs) : microtasks'[Len(microtasks) + k] = jobs[k]
<1>1. microtasks \in Seq(Job)
      /\ promise \in [Job -> {"none", "pending", "resolved", "continued"}]
  BY DEF FrameTypeOK
<1>2. microtasks' = microtasks \o jobs
  BY DEF ResolveAll
<1>3. /\ microtasks' \in Seq(Job)
      /\ Len(microtasks') = Len(microtasks) + Len(jobs)
      /\ \A k \in 1 .. Len(microtasks) : microtasks'[k] = microtasks[k]
      /\ \A k \in 1 .. Len(jobs) : microtasks'[Len(microtasks) + k] = jobs[k]
  BY <1>1, <1>2, ConcatPlaces
<1>. QED
  BY <1>1, <1>3 DEF ResolveAll, Contains

\* The jobs RunTimers takes: all that are due, and no others.
LEMMA DueJobs ==
  ASSUME FrameTypeOK, NEW jobs \in SetToSeqs(Due)
  PROVE  /\ jobs \in Seq(Job)
         /\ \A i \in Due : \E k \in 1 .. Len(jobs) : jobs[k] = i
         /\ \A k \in 1 .. Len(jobs) : jobs[k] \in Due
<1>1. IsFiniteSet(Due)
  <2>1. IsFiniteSet(Job)
    BY FrameAssumption, FS_Interval DEF FrameAssumption, Job
  <2>2. Due \in SUBSET Job
    BY DEF Due
  <2>. QED
    BY <2>1, <2>2, FS_Subset
<1>2. jobs \in Seq(Due) /\ \A i \in Due : \E k \in 1 .. Len(jobs) : jobs[k] = i
  BY <1>1, Enumerated
<1>3. \A k \in 1 .. Len(jobs) : jobs[k] \in Due
  BY <1>2
<1>4. jobs \in Seq(Job)
  BY <1>2 DEF Due
<1>. QED
  BY <1>2, <1>3, <1>4

\* What is queued is about jobs.
LEMMA QueuedJobs ==
  ASSUME FrameTypeOK
  PROVE  /\ \A k \in DOMAIN microtasks : microtasks[k] \in Job
         /\ \A k \in DOMAIN answered : answered[k] \in Job
         /\ \A k \in DOMAIN posted : posted[k] \in Handler /\ posted[k].of \in Job
         /\ \A h \in waiting : h \in Handler /\ h.of \in Job
         /\ posted # <<>> => /\ 1 \in DOMAIN posted /\ Head(posted) = posted[1]
                             /\ Head(posted) \in Handler /\ Head(posted).of \in Job
                             /\ Tail(posted) \in Seq(Handler)
<1>1. \A h \in Handler : h.of \in Job
  BY DEF Handler
<1> HIDE DEF Handler
<1>2. /\ microtasks \in Seq(Job) /\ answered \in Seq(Job)
      /\ posted \in Seq(Handler) /\ waiting \in SUBSET Handler
  BY DEF FrameTypeOK
<1>3. posted # <<>> => /\ 1 \in DOMAIN posted /\ Head(posted) = posted[1]
                      /\ Head(posted) \in Handler /\ Tail(posted) \in Seq(Handler)
  BY <1>2
<1>. QED
  BY <1>1, <1>2, <1>3, SeqType

\* Occurrences is one of the counts of a queue.
LEMMA OccurrencesCounted ==
  ASSUME NEW p PROVE Occurrences(p) = Counted(queued_messages, {p})
  BY DEF Occurrences, Counted

(***************************************************************************)
(* The types, and the kinds of what is queued.                             *)
(***************************************************************************)

\* Every step keeps the types.
LEMMA TypeStep ==
  FrameTypeOK /\ KindsMatch /\ [Next]_vars => FrameTypeOK'
<1> SUFFICES ASSUME FrameTypeOK, KindsMatch, [Next]_vars PROVE FrameTypeOK'
  OBVIOUS
<1> USE DEF FrameTypeOK
<1>1. ASSUME NEW time \in {0, 1}, Wait(time) PROVE FrameTypeOK'
  <2>1. Started < MaxJobs /\ now + time \in 0 .. MaxTime
    BY <1>1, FrameAssumption DEF Wait, Begin, FrameAssumption
  <2>2. execution_time' \in [Job -> 0 .. MaxTime]
    BY <1>1, <2>1 DEF Wait
  <2>. QED
    BY <1>1, <2>1, <2>2, Begins DEF Wait, Begin, ioVars, errorVars
<1>2. ASSUME NEW k \in {"query", "post"}, Request(k) PROVE FrameTypeOK'
  BY <1>2, Begins DEF Request, Begin, ioVars, errorVars
<1>3. CASE Exec
  <2>1. Started < MaxJobs /\ Started + 1 \in Job
    BY <1>3, NextJob DEF Exec, Begin
  <2>2. microtasks' \in Seq(Job) /\ waiting' \in SUBSET Handler
    <3>1. UNCHANGED microtasks \/ microtasks' = Append(microtasks, Started + 1)
      BY <1>3 DEF Exec
    <3>2. UNCHANGED waiting
            \/ waiting' = waiting \cup [of : {Started + 1}, what : {"output", "exit"}]
      BY <1>3 DEF Exec
    <3>3. [of : {Started + 1}, what : {"output", "exit"}] \subseteq Handler
      BY <2>1 DEF Handler
    <3>4. microtasks' \in Seq(Job)
      <4>1. \A n \in Job : Append(microtasks, n) \in Seq(Job)
        OBVIOUS
      <4>. QED
        BY <2>1, <3>1, <4>1
    <3> HIDE DEF Handler
    <3>5. waiting' \in SUBSET Handler
      BY <3>2, <3>3
    <3>. QED
      BY <3>4, <3>5
  <2>3. \E state \in {"pending", "resolved"} :
          /\ kind' = [kind EXCEPT ![Started + 1] = "child"]
          /\ promise' = [promise EXCEPT ![Started + 1] = state]
    BY <1>3 DEF Exec, Begin
  <2>. QED
    <3>1. /\ kind' \in [Job -> {"none", "timer", "query", "post", "child"}]
          /\ promise' \in [Job -> {"none", "pending", "resolved", "continued"}]
      BY <2>1, <2>3, Begins
    <3>. QED
      BY <1>3, <2>2, <3>1 DEF Exec, errorVars
<1>4. ASSUME NEW p \in Promises, NEW outcome \in {"fulfilled", "rejected"},
             Settle(p, outcome)
      PROVE  FrameTypeOK'
  <2>1. status' \in [Promises -> {"open", "fulfilled", "rejected", "handled"}]
    BY <1>4 DEF Settle
  <2>2. queued_messages' \in Seq(Promises)
    <3>1. Append(queued_messages, p) \in Seq(Promises)
      OBVIOUS
    <3>. QED
      BY <1>4, <3>1 DEF Settle, OnMessage
  <2>3. UNCHANGED <<pc, now, current_time, jobVars, microtasks, answered, ioVars,
                    settled_again, reports>>
    BY <1>4 DEF Settle
  <2>. QED
    BY <2>1, <2>2, <2>3 DEF jobVars, ioVars
<1>5. ASSUME NEW p \in Promises, SettleAgain(p) PROVE FrameTypeOK'
  BY <1>5 DEF SettleAgain, OnMessage, jobVars, ioVars
<1>6. ASSUME NEW p \in Promises, Catch(p) PROVE FrameTypeOK'
  <2>1. Without(queued_messages, p) \in Seq(Promises)
    BY WithoutProperties
  <2>. QED
    BY <1>6, <2>1 DEF Catch, Revoke, jobVars, ioVars
<1>7. ASSUME NEW i \in Job, Answer(i) PROVE FrameTypeOK'
  BY <1>7 DEF Answer, jobVars, ioVars, errorVars
<1>8. ASSUME NEW i \in Job, Post(i) PROVE FrameTypeOK'
  BY <1>8 DEF Post, Handler, jobVars, errorVars
<1>9. ASSUME NEW h \in waiting, ChildEnds(h) PROVE FrameTypeOK'
  BY <1>9 DEF ChildEnds, jobVars, errorVars
<1>10. CASE Tick
  BY <1>10, FrameAssumption DEF Tick, FrameAssumption, jobVars, ioVars, errorVars
<1>11. CASE OnFrame
  BY <1>11, FrameAssumption DEF OnFrame, FrameAssumption, jobVars, ioVars, errorVars
<1>12. CASE Observe
  BY <1>12, Resolves DEF Observe, ioVars, errorVars
<1>13. CASE RunTimers
  <2>1. PICK jobs \in SetToSeqs(Due) : ResolveAll(jobs)
    BY <1>13 DEF RunTimers
  <2>2. /\ microtasks' \in Seq(Job)
        /\ promise' \in [Job -> {"none", "pending", "resolved", "continued"}]
    BY <2>1, DueJobs, Resolves
  <2>. QED
    BY <1>13, <2>2 DEF RunTimers, ioVars, errorVars
<1>14. CASE RunMicrotask
  <2>1. /\ pc' \in {"microtasks", "restart"} /\ microtasks' \in Seq(Job)
        /\ promise' \in [Job -> {"none", "pending", "resolved", "continued"}]
    <3>1. CASE microtasks # <<>>
      <4> PICK i : i = Head(microtasks)
        OBVIOUS
      <4>1. /\ promise' = [promise EXCEPT ![i] = "continued"]
            /\ microtasks' = Tail(microtasks) /\ pc' = "microtasks"
        BY <1>14, <3>1 DEF RunMicrotask
      <4>2. microtasks' \in Seq(Job)
        BY <3>1, <4>1, PopType
      <4>3. promise' \in [Job -> {"none", "pending", "resolved", "continued"}]
        BY <4>1
      <4>. QED
        BY <4>1, <4>2, <4>3
    <3>2. CASE microtasks = <<>>
      BY <1>14, <3>2 DEF RunMicrotask
    <3>. QED
      BY <3>1, <3>2
  <2>. QED
    BY <1>14, <2>1 DEF RunMicrotask, ioVars, errorVars
<1>15. CASE Restart
  BY <1>15 DEF Restart, jobVars, errorVars
<1>16. CASE RunOne
  <2>1. posted' \in Seq(Handler) /\ stopped' \in BOOLEAN
    BY <1>16, QueuedJobs DEF RunOne, HasWork
  <2>2. /\ pc' \in {"flush", "stuck"} /\ microtasks' \in Seq(Job)
        /\ promise' \in [Job -> {"none", "pending", "resolved", "continued"}]
    <3>1. CASE UNCHANGED <<promise, microtasks>>
      BY <1>16, <3>1 DEF RunOne, Handle
    <3>2. CASE posted # <<>> /\ ResolveAll(<<Head(posted).of>>)
      <4>1. <<Head(posted).of>> \in Seq(Job)
        BY <3>2, QueuedJobs
      <4>. QED
        BY <1>16, <3>2, <4>1, Resolves DEF RunOne, Handle
    <3>. QED
      BY <1>16, <3>1, <3>2 DEF RunOne, Handle
  <2>. QED
    BY <1>16, <2>1, <2>2 DEF RunOne, errorVars
<1>17. CASE Flush \/ FlushExceptionQueue
  <2>1. \A p \in Promises : Occurrences(p) \in Nat
    BY OccurrencesCounted, CountType
  <2>2. /\ pc' \in {pc, "between"} /\ queued_messages' = <<>>
        /\ reports' = [p \in Promises |-> reports[p] + Occurrences(p)]
        /\ UNCHANGED <<now, current_time, jobVars, microtasks, answered, ioVars,
                       status, settled_again>>
    BY <1>17 DEF Flush, FlushExceptionQueue, FlushMessageQueue
  <2>3. reports' \in [Promises -> Nat]
    BY <2>1, <2>2
  <2>. QED
    BY <2>2, <2>3 DEF jobVars, ioVars
<1>18. CASE UNCHANGED vars
  BY <1>18 DEF vars, jobVars, ioVars, errorVars
<1>. QED
  BY <1>1, <1>2, <1>3, <1>4, <1>5, <1>6, <1>7, <1>8, <1>9, <1>10, <1>11, <1>12,
     <1>13, <1>14, <1>15, <1>16, <1>17, <1>18
  DEF Next, ScriptNext, FrameNext, OthersNext, ChildNext

\* Queues hold jobs of their kind.
LEMMA KindsStep ==
  FrameTypeOK /\ KindsMatch /\ [Next]_vars => KindsMatch'
<1> SUFFICES ASSUME FrameTypeOK, KindsMatch, [Next]_vars PROVE KindsMatch'
  OBVIOUS
<1>1. CASE \/ \E time \in {0, 1} : Wait(time)
           \/ \E k \in {"query", "post"} : Request(k)
           \/ Exec
  <2>1. PICK k \in {"timer", "query", "post", "child"},
             state \in {"pending", "resolved"} :
          /\ kind' = [kind EXCEPT ![Started + 1] = k]
          /\ promise' = [promise EXCEPT ![Started + 1] = state]
    BY <1>1 DEF Wait, Request, Exec, Begin
  <2>2. Started < MaxJobs /\ UNCHANGED <<answered, posted>>
    BY <1>1 DEF Wait, Request, Exec, Begin, ioVars
  <2> PICK n : n = Started + 1
    OBVIOUS
  <2>3. /\ n \in Job /\ kind'[n] = k
        /\ \A i \in Job : kind[i] # "none" => kind'[i] = kind[i]
        /\ \E m \in 0 .. MaxJobs : JobsStarted(m)'
    BY <2>1, <2>2, Begins
  <2>4. /\ microtasks \in Seq(Job) /\ answered \in Seq(Job)
        /\ posted \in Seq(Handler) /\ waiting \in SUBSET Handler
    BY DEF FrameTypeOK
  <2>5. \A h \in waiting' : kind'[h.of] = "child"
    <3>1. \A h \in waiting : kind'[h.of] = "child"
      BY <2>3, QueuedJobs DEF KindsMatch
    <3>2. \/ UNCHANGED waiting
          \/ /\ k = "child"
             /\ waiting' = waiting \cup [of : {n}, what : {"output", "exit"}]
      <4>1. CASE Exec
        <5>1. kind' = [kind EXCEPT ![n] = "child"]
          BY <4>1 DEF Exec, Begin
        <5>2. k = "child"
          BY <2>3, <5>1 DEF FrameTypeOK
        <5>. QED
          BY <4>1, <5>2 DEF Exec
      <4>. QED
        BY <1>1, <4>1 DEF Wait, Request, ioVars
    <3>. QED
      BY <2>3, <3>1, <3>2
  <2>6. \A l \in DOMAIN microtasks' : kind'[microtasks'[l]] # "none"
    <3>1. \A l \in DOMAIN microtasks : kind'[microtasks[l]] # "none"
      BY <2>3, QueuedJobs DEF KindsMatch
    <3>2. CASE UNCHANGED microtasks
      BY <3>1, <3>2
    <3>3. CASE microtasks' = Append(microtasks, n)
      <4>1. /\ DOMAIN microtasks = 1 .. Len(microtasks) /\ Len(microtasks) \in Nat
            /\ DOMAIN microtasks' = 1 .. Len(microtasks) + 1
            /\ microtasks'[Len(microtasks) + 1] = n
            /\ \A l \in 1 .. Len(microtasks) : microtasks'[l] = microtasks[l]
        BY <2>4, <3>3, PushPlaces
      <4>. QED
        BY <2>3, <3>1, <4>1
    <3>. QED
      BY <1>1, <3>2, <3>3 DEF Wait, Request, Exec
  <2>7. /\ \A l \in DOMAIN answered : kind'[answered[l]] = "query"
        /\ \A l \in DOMAIN posted : kind'[posted[l].of] \in {"post", "child"}
    BY <2>3, QueuedJobs DEF KindsMatch
  <2>. QED
    BY <2>2, <2>3, <2>5, <2>6, <2>7 DEF KindsMatch
<1>2. ASSUME UNCHANGED kind, promise' \in [Job -> {"none", "pending", "resolved", "continued"}],
             \A i \in Job : promise'[i] # "none" <=> promise[i] # "none"
      PROVE  \E n \in 0 .. MaxJobs : JobsStarted(n)'
  BY <1>2 DEF KindsMatch, JobsStarted
<1>3. CASE OnFrame \/ Restart \/ Flush \/ FlushExceptionQueue \/ Tick \/ UNCHANGED vars
           \/ \E p \in Promises :
                \/ \E outcome \in {"fulfilled", "rejected"} : Settle(p, outcome)
                \/ SettleAgain(p)
                \/ Catch(p)
  <2>1. UNCHANGED <<kind, promise, answered, posted, waiting, microtasks>>
    BY <1>3
    DEF OnFrame, Restart, Flush, FlushExceptionQueue, Tick, vars, Settle, SettleAgain,
        Catch, jobVars, ioVars
  <2>. QED
    BY <2>1 DEF KindsMatch, JobsStarted
<1>4. ASSUME NEW jobs \in Seq(Job), ResolveAll(jobs),
             \A k \in 1 .. Len(jobs) : kind[jobs[k]] # "none"
      PROVE  /\ \A k \in DOMAIN microtasks' : kind[microtasks'[k]] # "none"
             /\ \A i \in Job : promise'[i] # "none" <=> promise[i] # "none"
  <2>1. /\ microtasks \in Seq(Job) /\ Len(microtasks) \in Nat /\ Len(jobs) \in Nat
        /\ DOMAIN microtasks = 1 .. Len(microtasks)
    BY DEF FrameTypeOK
  <2>2. DOMAIN microtasks' = 1 .. Len(microtasks) + Len(jobs)
    BY <1>4, <2>1, Resolves
  <2>3. ASSUME NEW k \in DOMAIN microtasks' PROVE kind[microtasks'[k]] # "none"
    <3>1. CASE k <= Len(microtasks)
      BY <1>4, <2>1, <2>2, <2>3, <3>1, Resolves DEF KindsMatch
    <3>2. CASE k > Len(microtasks)
      <4>1. PICK l \in 1 .. Len(jobs) : k = Len(microtasks) + l
        <5>1. k - Len(microtasks) \in 1 .. Len(jobs)
          BY <2>1, <2>2, <2>3, <3>2
        <5>. QED
          BY <2>1, <2>2, <2>3, <5>1
      <4>2. microtasks'[k] = jobs[l]
        BY <1>4, <4>1, Resolves
      <4>. QED
        BY <1>4, <4>2
    <3>. QED
      BY <2>1, <2>2, <2>3, <3>1, <3>2
  <2>4. \A i \in Job : kind[i] # "none" <=> promise[i] # "none"
    BY DEF KindsMatch, JobsStarted
  <2>. QED
    BY <1>4, <2>3, <2>4, Resolves
<1>5. CASE Observe
  <2>1. answered \in Seq(Job) /\ \A k \in 1 .. Len(answered) : kind[answered[k]] # "none"
    BY DEF FrameTypeOK, KindsMatch
  <2>2. ResolveAll(answered) /\ answered' = <<>> /\ UNCHANGED <<kind, posted, waiting>>
    BY <1>5 DEF Observe, ioVars
  <2>3. promise' \in [Job -> {"none", "pending", "resolved", "continued"}]
    BY <2>1, <2>2, Resolves
  <2>. QED
    BY <1>2, <1>4, <2>1, <2>2, <2>3 DEF KindsMatch
<1>6. CASE RunTimers
  <2>1. PICK jobs \in SetToSeqs(Due) : ResolveAll(jobs)
    BY <1>6 DEF RunTimers
  <2>2. jobs \in Seq(Job) /\ \A k \in 1 .. Len(jobs) : kind[jobs[k]] # "none"
    BY DueJobs DEF Due
  <2>3. promise' \in [Job -> {"none", "pending", "resolved", "continued"}]
    BY <2>1, <2>2, Resolves
  <2>4. UNCHANGED <<kind, answered, posted, waiting>>
    BY <1>6 DEF RunTimers, ioVars
  <2>. QED
    BY <1>2, <1>4, <2>1, <2>2, <2>3, <2>4 DEF KindsMatch
<1>7. CASE RunMicrotask
  <2>1. UNCHANGED <<kind, answered, posted, waiting>>
    BY <1>7 DEF RunMicrotask, ioVars
  <2>2. CASE microtasks = <<>>
    BY <1>7, <2>1, <2>2 DEF RunMicrotask, KindsMatch, JobsStarted
  <2>3. CASE microtasks # <<>>
    <3>1. /\ microtasks \in Seq(Job) /\ Head(microtasks) \in Job
          /\ Head(microtasks) = microtasks[1] /\ 1 \in DOMAIN microtasks
          /\ promise \in [Job -> {"none", "pending", "resolved", "continued"}]
      BY <2>3 DEF FrameTypeOK
    <3>2. /\ promise' = [promise EXCEPT ![Head(microtasks)] = "continued"]
          /\ microtasks' = Tail(microtasks)
      BY <1>7, <2>3 DEF RunMicrotask
    <3>3. \A k \in DOMAIN microtasks' : kind[microtasks'[k]] # "none"
      BY <2>3, <3>1, <3>2 DEF KindsMatch
    <3>4. kind[Head(microtasks)] # "none" /\ promise[Head(microtasks)] # "none"
      BY <3>1 DEF KindsMatch, JobsStarted
    <3>5. \A i \in Job : promise'[i] # "none" <=> promise[i] # "none"
      BY <3>1, <3>2, <3>4
    <3>. QED
      BY <1>2, <2>1, <3>1, <3>2, <3>3, <3>5 DEF KindsMatch
  <2>. QED
    BY <2>2, <2>3
<1>8. CASE RunOne
  <2>1. UNCHANGED <<kind, answered, waiting>>
    BY <1>8 DEF RunOne
  <2>2. posted \in Seq(Handler)
    BY DEF FrameTypeOK
  <2>3. \A k \in DOMAIN posted' : kind[posted'[k].of] \in {"post", "child"}
    <3>1. CASE UNCHANGED posted
      BY <3>1 DEF KindsMatch
    <3>2. CASE posted # <<>> /\ posted' = Tail(posted)
      <4>1. \A k \in DOMAIN posted' : k + 1 \in DOMAIN posted /\ posted'[k] = posted[k + 1]
        BY <2>2, <3>2
      <4>. QED
        BY <4>1 DEF KindsMatch
    <3>. QED
      BY <1>8, <3>1, <3>2 DEF RunOne
  <2>4. CASE UNCHANGED <<promise, microtasks>>
    BY <2>1, <2>3, <2>4 DEF KindsMatch, JobsStarted
  <2>5. CASE posted # <<>> /\ ResolveAll(<<Head(posted).of>>)
    <3> PICK i : i = Head(posted).of
      OBVIOUS
    <3>1. i \in Job /\ kind[i] # "none"
      BY <2>5, QueuedJobs DEF KindsMatch
    <3>2. /\ <<i>> \in Seq(Job) /\ ResolveAll(<<i>>)
          /\ \A k \in 1 .. Len(<<i>>) : kind[<<i>>[k]] # "none"
      BY <2>5, <3>1
    <3>3. promise' \in [Job -> {"none", "pending", "resolved", "continued"}]
      BY <3>2, Resolves
    <3>. QED
      BY <1>2, <1>4, <2>1, <2>3, <3>2, <3>3 DEF KindsMatch
  <2>. QED
    BY <1>8, <2>4, <2>5 DEF RunOne, Handle
<1>9. ASSUME NEW i \in Job, Answer(i) \/ Post(i) PROVE KindsMatch'
  <2>1. /\ UNCHANGED <<kind, promise, waiting, microtasks>>
        /\ answered \in Seq(Job) /\ posted \in Seq(Handler)
    BY <1>9 DEF Answer, Post, FrameTypeOK, jobVars, ioVars
  <2>2. \A k \in DOMAIN answered' : kind[answered'[k]] = "query"
    <3>1. CASE UNCHANGED answered
      BY <3>1 DEF KindsMatch
    <3>2. CASE kind[i] = "query" /\ answered' = Append(answered, i)
      <4>1. \A k \in DOMAIN answered' :
              answered'[k] = i \/ (k \in DOMAIN answered /\ answered'[k] = answered[k])
        BY <2>1, <3>2
      <4>. QED
        BY <3>2, <4>1 DEF KindsMatch
    <3>. QED
      BY <1>9, <3>1, <3>2 DEF Answer, Post
  <2>3. \A k \in DOMAIN posted' : kind[posted'[k].of] \in {"post", "child"}
    <3>1. CASE UNCHANGED posted
      BY <3>1 DEF KindsMatch
    <3>2. CASE kind[i] = "post" /\ posted' = Append(posted, [of |-> i, what |-> "result"])
      BY <2>1, <3>2 DEF KindsMatch
    <3>. QED
      BY <1>9, <3>1, <3>2 DEF Answer, Post, ioVars
  <2>. QED
    BY <2>1, <2>2, <2>3 DEF KindsMatch, JobsStarted
<1>10. ASSUME NEW h \in waiting, ChildEnds(h) PROVE KindsMatch'
  <2>1. /\ UNCHANGED <<kind, promise, answered, microtasks>> /\ waiting' \subseteq waiting
        /\ posted \in Seq(Handler) /\ posted' = Append(posted, h) /\ kind[h.of] = "child"
    BY <1>10 DEF ChildEnds, FrameTypeOK, KindsMatch, jobVars
  <2>2. \A k \in DOMAIN posted' : kind[posted'[k].of] \in {"post", "child"}
    BY <2>1 DEF KindsMatch
  <2>. QED
    BY <2>1, <2>2 DEF KindsMatch, JobsStarted
<1>. QED
  BY <1>1, <1>3, <1>5, <1>6, <1>7, <1>8, <1>9, <1>10
  DEF Next, ScriptNext, FrameNext, OthersNext, ChildNext

(***************************************************************************)
(* Timers.                                                                 *)
(***************************************************************************)

\* A step that resolves nothing due and keeps the frame's place.
LEMMA DueStep ==
  FrameTypeOK /\ KindsMatch /\ DueResolved /\ MicrotasksRun /\ [Next]_vars
    => DueResolved' /\ MicrotasksRun'
<1> SUFFICES ASSUME FrameTypeOK, KindsMatch, DueResolved, MicrotasksRun, [Next]_vars
             PROVE  DueResolved' /\ MicrotasksRun'
  OBVIOUS
<1>1. ASSUME NEW time \in {0, 1}, Wait(time) PROVE DueResolved' /\ MicrotasksRun'
  <2>1. /\ Started < MaxJobs /\ pc \in {"between", "microtasks"}
        /\ UNCHANGED <<pc, current_time, microtasks>>
        /\ execution_time' = [execution_time EXCEPT ![Started + 1] = now + time]
    BY <1>1 DEF Wait, Begin, ScriptRuns
  <2> PICK n : n = Started + 1
    OBVIOUS
  <2>2. /\ n \in Job /\ execution_time'[n] = now + time
        /\ \A i \in Job \ {n} : execution_time'[i] = execution_time[i]
    BY <2>1, NextJob DEF FrameTypeOK
  <2>3. \A i \in Job \ {n} : kind'[i] = kind[i] /\ promise'[i] = promise[i]
    BY <1>1, <2>1, Begins DEF Wait, Begin
  <2>4. now \in Int /\ current_time \in Int /\ current_time <= now
    BY FrameAssumption DEF FrameTypeOK, FrameAssumption
  <2>. QED
    BY <2>1, <2>2, <2>3, <2>4 DEF DueResolved, MicrotasksRun
<1>2. CASE (\E k \in {"query", "post"} : Request(k)) \/ Exec
  <2>1. PICK k \in {"query", "post", "child"}, state \in {"pending", "resolved"} :
          /\ kind' = [kind EXCEPT ![Started + 1] = k]
          /\ promise' = [promise EXCEPT ![Started + 1] = state]
    BY <1>2 DEF Request, Exec, Begin
  <2>2. /\ Started < MaxJobs /\ pc \in {"between", "microtasks"}
        /\ UNCHANGED <<pc, current_time, execution_time>>
    BY <1>2 DEF Request, Exec, Begin, ScriptRuns
  <2> PICK n : n = Started + 1
    OBVIOUS
  <2>3. /\ kind'[n] = k
        /\ \A i \in Job \ {n} : kind'[i] = kind[i] /\ promise'[i] = promise[i]
    BY <2>1, <2>2, Begins
  <2>. QED
    BY <2>2, <2>3 DEF DueResolved, MicrotasksRun
<1>3. CASE RunTimers
  <2>1. PICK jobs \in SetToSeqs(Due) : ResolveAll(jobs)
    BY <1>3 DEF RunTimers
  <2>2. \A i \in Job : promise'[i] = IF i \in Due THEN "resolved" ELSE promise[i]
    BY <2>1, DueJobs, Resolves
  <2>3. UNCHANGED <<kind, execution_time, current_time>> /\ pc' = "microtasks"
    BY <1>3 DEF RunTimers
  <2>4. \A i \in Job : execution_time[i] \in Int /\ current_time \in Int
    BY FrameAssumption DEF FrameTypeOK, FrameAssumption
  <2>. QED
    BY <2>2, <2>3, <2>4 DEF DueResolved, MicrotasksRun, Due
<1>4. CASE RunMicrotask
  <2>1. /\ pc = "microtasks" /\ UNCHANGED <<kind, execution_time, current_time>>
        /\ pc' = "restart" => microtasks' = <<>>
        /\ pc' \in {"microtasks", "restart"}
    BY <1>4 DEF RunMicrotask
  <2>2. \A i \in Job : promise'[i] = "pending" => promise[i] = "pending"
    BY <1>4 DEF RunMicrotask, FrameTypeOK
  <2>. QED
    BY <2>1, <2>2 DEF DueResolved, MicrotasksRun
<1>5. CASE OnFrame \/ Observe \/ RunOne \/ Flush
  <2>1. pc' \in {"observers", "timers", "flush", "stuck", "between"}
    BY <1>5 DEF OnFrame, Observe, RunOne, Handle, Flush
  <2>. QED
    BY <2>1 DEF DueResolved, MicrotasksRun
<1>6. CASE Restart
  BY <1>6 DEF Restart, DueResolved, MicrotasksRun, jobVars
<1>7. CASE \/ \E p \in Promises :
                \/ \E outcome \in {"fulfilled", "rejected"} : Settle(p, outcome)
                \/ SettleAgain(p)
                \/ Catch(p)
           \/ FlushExceptionQueue \/ OthersNext \/ ChildNext \/ Tick \/ UNCHANGED vars
  <2>1. UNCHANGED <<pc, current_time, jobVars, microtasks>>
    BY <1>7
    DEF Settle, SettleAgain, Catch, OthersNext, Answer, Post, ChildNext, ChildEnds,
        FlushExceptionQueue, Tick, vars
  <2>. QED
    BY <2>1 DEF DueResolved, MicrotasksRun, jobVars
<1>. QED
  BY <1>1, <1>2, <1>3, <1>4, <1>5, <1>6, <1>7 DEF Next, ScriptNext, FrameNext

\* A microtask keeps its turn while the queue in front of it stays, and no
\* timer that would have come before it is added.
LEMMA TurnKept ==
  ASSUME FrameTypeOK, NEW k \in DOMAIN microtasks, InTurn(k),
         \A l \in 1 .. k : microtasks'[l] = microtasks[l],
         kind'[microtasks[k]] = kind[microtasks[k]],
         kind[microtasks[k]] = "timer" =>
           /\ execution_time'[microtasks[k]] = execution_time[microtasks[k]]
           /\ \A j \in Job :
                kind'[j] = "timer" /\ execution_time'[j] < execution_time[microtasks[k]] =>
                  kind[j] = "timer" /\ execution_time[j] = execution_time'[j],
         current_time' \in Int, current_time' >= current_time,
         \A j \in Job : kind[j] = "timer" /\ promise[j] = "continued" =>
                         promise'[j] = "continued"
  PROVE  InTurn(k)'
<1> PICK i \in Job : i = microtasks[k]
  BY QueuedJobs
<1>1. microtasks'[k] = i /\ \A l \in 1 .. k - 1 : microtasks'[l] = microtasks[l]
  <2>1. k \in Nat \ {0}
    BY DEF FrameTypeOK
  <2>. QED
    BY <2>1
<1> SUFFICES ASSUME kind[i] = "timer"
             PROVE  /\ execution_time'[i] <= current_time'
                    /\ \A j \in Job :
                         kind'[j] = "timer" /\ execution_time'[j] < execution_time'[i] =>
                           \/ promise'[j] = "continued"
                           \/ \E l \in 1 .. k - 1 : microtasks'[l] = j
  BY <1>1 DEF InTurn
<1>2. execution_time[i] <= current_time
  BY DEF InTurn
<1>3. execution_time[i] \in Int /\ current_time \in Int
  BY FrameAssumption DEF FrameTypeOK, FrameAssumption
<1>4. execution_time'[i] <= current_time'
  BY <1>2, <1>3
<1>5. ASSUME NEW j \in Job, kind'[j] = "timer", execution_time'[j] < execution_time'[i]
      PROVE  \/ promise'[j] = "continued"
             \/ \E l \in 1 .. k - 1 : microtasks'[l] = j
  <2>1. kind[j] = "timer" /\ execution_time[j] < execution_time[i]
    BY <1>5
  <2>2. promise[j] = "continued" \/ \E l \in 1 .. k - 1 : microtasks[l] = j
    BY <2>1 DEF InTurn
  <2>. QED
    BY <1>1, <2>1, <2>2
<1>. QED
  BY <1>4, <1>5

\* Steps that move no job.
LEMMA TimersStable ==
  ASSUME FrameTypeOK, TimersQueued, UNCHANGED <<jobVars, microtasks>>,
         current_time' \in Int, current_time' >= current_time
  PROVE  TimersQueued'
<1>1. UNCHANGED <<kind, promise, execution_time, microtasks>>
  BY DEF jobVars
<1>2. ASSUME NEW k \in DOMAIN microtasks PROVE InTurn(k)'
  BY <1>1, TurnKept DEF TimersQueued
<1>. QED
  BY <1>1, <1>2 DEF TimersQueued, Contains

\* A new job comes behind what is queued, and is due later if it is a timer.
LEMMA TimersBegin ==
  ASSUME FrameTypeOK, KindsMatch, TimersQueued, NEW n \in Job, kind[n] = "none",
         \A i \in Job \ {n} : /\ kind'[i] = kind[i] /\ promise'[i] = promise[i]
                              /\ execution_time'[i] = execution_time[i],
         kind'[n] = "timer" =>
           /\ promise'[n] = "pending" /\ UNCHANGED microtasks
           /\ execution_time'[n] \in Int /\ execution_time'[n] >= now,
         UNCHANGED current_time,
         UNCHANGED microtasks \/ microtasks' = Append(microtasks, n)
  PROVE  TimersQueued'
<1>1. /\ microtasks \in Seq(Job) /\ Len(microtasks) \in Nat
      /\ DOMAIN microtasks = 1 .. Len(microtasks)
      /\ now \in Int /\ current_time \in Int /\ current_time <= now
      /\ \A i \in Job : execution_time[i] \in Int
  BY FrameAssumption DEF FrameTypeOK, FrameAssumption
<1>2. \A k \in DOMAIN microtasks : microtasks[k] \in Job \ {n}
  BY QueuedJobs DEF KindsMatch
<1>3. /\ DOMAIN microtasks' \in {DOMAIN microtasks, 1 .. Len(microtasks) + 1}
      /\ \A k \in DOMAIN microtasks : k \in DOMAIN microtasks' /\ microtasks'[k] = microtasks[k]
      /\ \A k \in DOMAIN microtasks' \ DOMAIN microtasks :
           microtasks'[k] = n /\ kind'[n] # "timer"
      /\ Len(microtasks') \in Nat /\ DOMAIN microtasks' = 1 .. Len(microtasks')
  <2>1. CASE UNCHANGED microtasks
    BY <1>1, <2>1
  <2>2. CASE microtasks' = Append(microtasks, n) /\ ~UNCHANGED microtasks
    <3>1. /\ microtasks' \in Seq(Job) /\ Len(microtasks') = Len(microtasks) + 1
          /\ DOMAIN microtasks' = 1 .. Len(microtasks) + 1
          /\ microtasks'[Len(microtasks) + 1] = n
          /\ \A k \in 1 .. Len(microtasks) : microtasks'[k] = microtasks[k]
      <4> PICK longer : longer = Append(microtasks, n)
        OBVIOUS
      <4>1. /\ longer \in Seq(Job) /\ Len(longer) = Len(microtasks) + 1
            /\ DOMAIN longer = 1 .. Len(microtasks) + 1
            /\ longer[Len(microtasks) + 1] = n
            /\ \A k \in 1 .. Len(microtasks) : longer[k] = microtasks[k]
        BY <1>1, PushPlaces, PushType
      <4>2. microtasks' = longer
        BY <2>2
      <4>. QED
        BY <4>1, <4>2
    <3>2. kind'[n] # "timer"
      BY <2>2
    <3>3. \A k \in DOMAIN microtasks' \ DOMAIN microtasks : k = Len(microtasks) + 1
      BY <1>1, <3>1
    <3>4. \A k \in DOMAIN microtasks : k \in DOMAIN microtasks'
      BY <1>1, <3>1
    <3>. QED
      BY <1>1, <3>1, <3>2, <3>3, <3>4
  <2>. QED
    BY <2>1, <2>2
<1>4. ASSUME NEW k \in DOMAIN microtasks PROVE InTurn(k)'
  <2> PICK i \in Job \ {n} : i = microtasks[k]
    BY <1>2
  <2>1. \A l \in 1 .. k : microtasks'[l] = microtasks[l]
    <3>1. \A l \in 1 .. k : l \in DOMAIN microtasks
      BY <1>1
    <3>. QED
      BY <1>3, <3>1
  <2>2. ASSUME kind[i] = "timer", NEW j \in Job, kind'[j] = "timer",
               execution_time'[j] < execution_time[i]
        PROVE  j # n
    <3>1. execution_time[i] <= current_time
      BY <2>2 DEF TimersQueued, InTurn
    <3>. QED
      BY <1>1, <2>2, <3>1
  <2>3. \A j \in Job : kind[j] = "timer" => j # n
    OBVIOUS
  <2>. QED
    BY <1>1, <2>1, <2>2, <2>3, TurnKept DEF TimersQueued
<1>5. ASSUME NEW k \in DOMAIN microtasks' PROVE InTurn(k)'
  <2>1. CASE k \in DOMAIN microtasks
    BY <1>4, <2>1
  <2>2. CASE k \notin DOMAIN microtasks
    BY <1>3, <2>2 DEF InTurn
  <2>. QED
    BY <2>1, <2>2
<1>6. ASSUME NEW i \in Job, kind'[i] = "timer", promise'[i] = "resolved"
      PROVE  Contains(microtasks, i)'
  <2>1. i # n
    BY <1>6
  <2>2. PICK l \in DOMAIN microtasks : microtasks[l] = i
    BY <1>1, <1>6, <2>1 DEF TimersQueued, Contains
  <2>. QED
    BY <1>3, <2>2 DEF Contains
<1>. QED
  BY <1>5, <1>6 DEF TimersQueued

\* Resolving other jobs puts them behind the timers.
LEMMA TimersOthers ==
  ASSUME FrameTypeOK, TimersQueued, NEW jobs \in Seq(Job), ResolveAll(jobs),
         \A k \in 1 .. Len(jobs) : kind[jobs[k]] # "timer",
         UNCHANGED <<kind, execution_time, current_time>>
  PROVE  TimersQueued'
<1>1. /\ microtasks \in Seq(Job) /\ Len(microtasks) \in Nat /\ Len(jobs) \in Nat
      /\ DOMAIN microtasks = 1 .. Len(microtasks) /\ current_time \in Int
  BY FrameAssumption DEF FrameTypeOK, FrameAssumption
<1>2. /\ Len(microtasks') = Len(microtasks) + Len(jobs)
      /\ DOMAIN microtasks' = 1 .. Len(microtasks) + Len(jobs)
      /\ \A k \in 1 .. Len(microtasks) : microtasks'[k] = microtasks[k]
      /\ \A k \in 1 .. Len(jobs) : microtasks'[Len(microtasks) + k] = jobs[k]
  BY <1>1, Resolves
<1>3. \A i \in Job : kind[i] = "timer" => promise'[i] = promise[i]
  <2>1. \A i \in Job : promise'[i] = IF \E k \in 1 .. Len(jobs) : jobs[k] = i
                                    THEN "resolved" ELSE promise[i]
    BY Resolves
  <2>. QED
    BY <2>1
<1>4. ASSUME NEW k \in DOMAIN microtasks PROVE InTurn(k)'
  <2>1. \A l \in 1 .. k : microtasks'[l] = microtasks[l]
    BY <1>1, <1>2
  <2>. QED
    BY <1>1, <1>3, <2>1, TurnKept DEF TimersQueued
<1>5. ASSUME NEW k \in DOMAIN microtasks' PROVE InTurn(k)'
  <2>1. CASE k \in DOMAIN microtasks
    BY <1>4, <2>1
  <2>2. CASE k \notin DOMAIN microtasks
    <3>1. k - Len(microtasks) \in 1 .. Len(jobs) /\ k = Len(microtasks) + (k - Len(microtasks))
      BY <1>1, <1>2, <2>2
    <3>2. kind'[microtasks'[k]] # "timer"
      BY <1>2, <3>1
    <3>. QED
      BY <3>2 DEF InTurn
  <2>. QED
    BY <2>1, <2>2
<1>6. ASSUME NEW i \in Job, kind'[i] = "timer", promise'[i] = "resolved"
      PROVE  Contains(microtasks, i)'
  <2>1. PICK l \in DOMAIN microtasks : microtasks[l] = i
    BY <1>1, <1>3, <1>6 DEF TimersQueued, Contains
  <2>. QED
    BY <1>1, <1>2, <2>1 DEF Contains
<1>. QED
  BY <1>5, <1>6 DEF TimersQueued

\* What is due goes behind the timers of earlier frames, the earliest first.
LEMMA TimersDue ==
  ASSUME FrameTypeOK, KindsMatch, TimersQueued, RunTimers
  PROVE  TimersQueued'
<1>1. PICK jobs \in SetToSeqs(Due) : EarliestFirst(jobs) /\ ResolveAll(jobs)
  BY DEF RunTimers
<1>2. /\ jobs \in Seq(Job) /\ \A k \in 1 .. Len(jobs) : jobs[k] \in Due
      /\ \A i \in Due : \E k \in 1 .. Len(jobs) : jobs[k] = i
  BY DueJobs
<1>3. UNCHANGED <<kind, execution_time, current_time>>
  BY DEF RunTimers
<1>4. /\ microtasks \in Seq(Job) /\ Len(microtasks) \in Nat /\ Len(jobs) \in Nat
      /\ DOMAIN microtasks = 1 .. Len(microtasks) /\ current_time \in Int
      /\ \A i \in Job : execution_time[i] \in Int
  BY <1>2, FrameAssumption DEF FrameTypeOK, FrameAssumption
<1>5. /\ Len(microtasks') = Len(microtasks) + Len(jobs)
      /\ DOMAIN microtasks' = 1 .. Len(microtasks) + Len(jobs)
      /\ \A k \in 1 .. Len(microtasks) : microtasks'[k] = microtasks[k]
      /\ \A k \in 1 .. Len(jobs) : microtasks'[Len(microtasks) + k] = jobs[k]
      /\ \A i \in Job : promise'[i] = IF i \in Due THEN "resolved" ELSE promise[i]
  <2>1. /\ microtasks' \in Seq(Job)
        /\ Len(microtasks') = Len(microtasks) + Len(jobs)
        /\ \A k \in 1 .. Len(microtasks) : microtasks'[k] = microtasks[k]
        /\ \A k \in 1 .. Len(jobs) : microtasks'[Len(microtasks) + k] = jobs[k]
    BY <1>1, <1>2, Resolves
  <2>2. \A i \in Job : promise'[i] = IF \E k \in 1 .. Len(jobs) : jobs[k] = i
                                    THEN "resolved" ELSE promise[i]
    BY <1>1, <1>2, Resolves
  <2>3. \A i \in Job : (\E k \in 1 .. Len(jobs) : jobs[k] = i) <=> i \in Due
    BY <1>2
  <2>. QED
    BY <2>1, <2>2, <2>3
<1>6. ASSUME NEW k \in DOMAIN microtasks PROVE InTurn(k)'
  <2>1. \A l \in 1 .. k : microtasks'[l] = microtasks[l]
    BY <1>4, <1>5
  <2>2. \A j \in Job : promise[j] = "continued" => promise'[j] = "continued"
    BY <1>5 DEF Due
  <2>. QED
    BY <1>3, <1>4, <2>1, <2>2, TurnKept DEF TimersQueued
<1>7. ASSUME NEW m \in 1 .. Len(jobs), NEW k, k = Len(microtasks) + m
      PROVE  InTurn(k)'
  <2> PICK i \in Due : i = jobs[m]
    BY <1>2
  <2>1. /\ microtasks'[k] = i /\ i \in Job /\ kind[i] = "timer"
        /\ execution_time[i] <= current_time
    BY <1>5, <1>7 DEF Due
  <2>2. ASSUME NEW j \in Job, kind[j] = "timer", execution_time[j] < execution_time[i],
               promise'[j] # "continued"
        PROVE  \E l \in 1 .. k - 1 : microtasks'[l] = j
    <3>1. promise[j] \in {"pending", "resolved", "continued"}
      BY <2>2 DEF FrameTypeOK, KindsMatch, JobsStarted
    <3>2. CASE j \in Due
      <4>1. PICK l \in 1 .. Len(jobs) : jobs[l] = j
        BY <1>2, <3>2
      <4>2. l < m
        <5>1. m < l => execution_time[jobs[m]] <= execution_time[jobs[l]]
          BY <1>1, <1>2 DEF EarliestFirst
        <5>2. execution_time[jobs[l]] < execution_time[jobs[m]]
          BY <2>2, <4>1
        <5>3. execution_time[jobs[l]] \in Int /\ execution_time[jobs[m]] \in Int
          BY <1>4, <2>1, <4>1
        <5>. QED
          BY <5>1, <5>2, <5>3
      <4>. QED
        BY <1>4, <1>5, <1>7, <4>1, <4>2
    <3>3. CASE j \notin Due
      <4>1. promise[j] = "resolved"
        BY <1>4, <1>5, <2>1, <2>2, <3>1, <3>3 DEF Due
      <4>2. PICK l \in 1 .. Len(microtasks) : microtasks[l] = j
        BY <2>2, <4>1 DEF TimersQueued, Contains
      <4>. QED
        BY <1>4, <1>5, <1>7, <4>2
    <3>. QED
      BY <3>2, <3>3
  <2>. QED
    BY <1>3, <2>1, <2>2 DEF InTurn
<1>8. ASSUME NEW k \in DOMAIN microtasks' PROVE InTurn(k)'
  <2>1. CASE k \in DOMAIN microtasks
    BY <1>6, <2>1
  <2>2. CASE k \notin DOMAIN microtasks
    <3>1. k - Len(microtasks) \in 1 .. Len(jobs) /\ k = Len(microtasks) + (k - Len(microtasks))
      BY <1>4, <1>5, <2>2
    <3>. QED
      BY <1>7, <3>1
  <2>. QED
    BY <2>1, <2>2
<1>9. ASSUME NEW i \in Job, kind'[i] = "timer", promise'[i] = "resolved"
      PROVE  Contains(microtasks, i)'
  <2>1. CASE i \in Due
    <3>1. PICK l \in 1 .. Len(jobs) : jobs[l] = i
      BY <1>2, <2>1
    <3>. QED
      BY <1>4, <1>5, <3>1 DEF Contains
  <2>2. CASE i \notin Due
    <3>1. PICK l \in 1 .. Len(microtasks) : microtasks[l] = i
      BY <1>3, <1>5, <1>9, <2>2 DEF TimersQueued, Contains
    <3>. QED
      BY <1>4, <1>5, <3>1 DEF Contains
  <2>. QED
    BY <2>1, <2>2
<1>. QED
  BY <1>8, <1>9 DEF TimersQueued

\* The next microtask runs, and everything behind it moves up.
LEMMA TimersContinue ==
  ASSUME FrameTypeOK, TimersQueued, RunMicrotask, microtasks # <<>>
  PROVE  TimersQueued'
<1> PICK i : i = Head(microtasks)
  OBVIOUS
<1>1. /\ promise' = [promise EXCEPT ![i] = "continued"] /\ microtasks' = Tail(microtasks)
      /\ UNCHANGED <<kind, execution_time, current_time>>
  BY DEF RunMicrotask
<1>2. /\ microtasks \in Seq(Job) /\ Len(microtasks) \in Nat \ {0}
      /\ DOMAIN microtasks = 1 .. Len(microtasks)
      /\ i = microtasks[1] /\ i \in Job
      /\ Len(microtasks') = Len(microtasks) - 1
      /\ DOMAIN microtasks' = 1 .. Len(microtasks) - 1
      /\ \A k \in 1 .. Len(microtasks) - 1 : microtasks'[k] = microtasks[k + 1]
  BY <1>1, PopPlaces, PopType DEF FrameTypeOK
<1>3. \A j \in Job : promise'[j] = IF j = i THEN "continued" ELSE promise[j]
  BY <1>1 DEF FrameTypeOK
<1>4. ASSUME NEW k \in DOMAIN microtasks' PROVE InTurn(k)'
  <2>1. k + 1 \in DOMAIN microtasks /\ microtasks'[k] = microtasks[k + 1]
    BY <1>2
  <2> PICK m \in Job : m = microtasks[k + 1]
    BY <2>1, QueuedJobs
  <2>2. ASSUME kind[m] = "timer"
        PROVE  /\ execution_time[m] <= current_time
               /\ \A j \in Job :
                    kind[j] = "timer" /\ execution_time[j] < execution_time[m] =>
                      \/ promise'[j] = "continued"
                      \/ \E l \in 1 .. k - 1 : microtasks'[l] = j
    <3>1. InTurn(k + 1)
      BY <2>1 DEF TimersQueued
    <3>2. ASSUME NEW j \in Job, NEW l \in 1 .. k, microtasks[l] = j, j # i
          PROVE  \E n \in 1 .. k - 1 : microtasks'[n] = j
      <4>1. l - 1 \in 1 .. k - 1 /\ l - 1 \in 1 .. Len(microtasks) - 1 /\ l = (l - 1) + 1
        BY <1>2, <2>1, <3>2
      <4>2. microtasks'[l - 1] = j
        BY <1>2, <3>2, <4>1
      <4>. QED
        BY <4>1, <4>2
    <3>3. (k + 1) - 1 = k
      BY <1>2
    <3>. QED
      BY <1>3, <2>2, <3>1, <3>2, <3>3 DEF InTurn
  <2>. QED
    BY <1>1, <2>1, <2>2 DEF InTurn
<1>5. ASSUME NEW j \in Job, kind'[j] = "timer", promise'[j] = "resolved"
      PROVE  Contains(microtasks, j)'
  <2>1. j # i /\ promise[j] = "resolved"
    BY <1>3, <1>5
  <2>2. PICK l \in 1 .. Len(microtasks) : microtasks[l] = j
    BY <1>1, <1>5, <2>1 DEF TimersQueued, Contains
  <2>3. l - 1 \in 1 .. Len(microtasks) - 1 /\ l = (l - 1) + 1
    BY <1>2, <2>1, <2>2
  <2>4. microtasks'[l - 1] = j
    BY <1>2, <2>2, <2>3
  <2>. QED
    BY <1>2, <2>3, <2>4 DEF Contains
<1>. QED
  BY <1>4, <1>5 DEF TimersQueued

\* Every step keeps the microtasks of timers in order.
LEMMA TimersStep ==
  FrameTypeOK /\ FrameTypeOK' /\ KindsMatch /\ TimersQueued /\ [Next]_vars
    => TimersQueued'
<1> SUFFICES ASSUME FrameTypeOK, FrameTypeOK', KindsMatch, TimersQueued, [Next]_vars
             PROVE  TimersQueued'
  OBVIOUS
<1>1. /\ current_time \in Int /\ current_time' \in Int /\ now \in Int
      /\ current_time <= now
  BY FrameAssumption DEF FrameTypeOK, FrameAssumption
<1>2. ASSUME NEW time \in {0, 1}, Wait(time) PROVE TimersQueued'
  <2>1. /\ Started < MaxJobs /\ UNCHANGED <<microtasks, current_time>>
        /\ execution_time' = [execution_time EXCEPT ![Started + 1] = now + time]
        /\ kind' = [kind EXCEPT ![Started + 1] = "timer"]
        /\ promise' = [promise EXCEPT ![Started + 1] = "pending"]
    BY <1>2 DEF Wait, Begin
  <2> PICK n : n = Started + 1
    OBVIOUS
  <2>2. /\ n \in Job /\ kind[n] = "none" /\ promise'[n] = "pending"
        /\ \A i \in Job \ {n} : kind'[i] = kind[i] /\ promise'[i] = promise[i]
    BY <2>1, Begins
  <2>3. /\ execution_time'[n] = now + time
        /\ \A i \in Job \ {n} : execution_time'[i] = execution_time[i]
    BY <2>1, <2>2 DEF FrameTypeOK
  <2>4. execution_time'[n] \in Int /\ execution_time'[n] >= now
    BY <1>1, <2>3
  <2>. QED
    BY <2>1, <2>2, <2>3, <2>4, TimersBegin
<1>3. CASE (\E k \in {"query", "post"} : Request(k)) \/ Exec
  <2>1. PICK k \in {"query", "post", "child"}, state \in {"pending", "resolved"} :
          /\ kind' = [kind EXCEPT ![Started + 1] = k]
          /\ promise' = [promise EXCEPT ![Started + 1] = state]
    BY <1>3 DEF Request, Exec, Begin
  <2> PICK n : n = Started + 1
    OBVIOUS
  <2>2. /\ Started < MaxJobs /\ UNCHANGED <<current_time, execution_time>>
        /\ UNCHANGED microtasks \/ microtasks' = Append(microtasks, n)
    BY <1>3 DEF Request, Exec, Begin
  <2>3. /\ n \in Job /\ kind[n] = "none" /\ kind'[n] = k
        /\ \A i \in Job \ {n} : kind'[i] = kind[i] /\ promise'[i] = promise[i]
    BY <2>1, <2>2, Begins
  <2>. QED
    BY <2>2, <2>3, TimersBegin
<1>4. CASE Observe
  <2>1. /\ answered \in Seq(Job)
        /\ \A k \in 1 .. Len(answered) : kind[answered[k]] # "timer"
    BY DEF FrameTypeOK, KindsMatch
  <2>2. ResolveAll(answered) /\ UNCHANGED <<kind, execution_time, current_time>>
    BY <1>4 DEF Observe
  <2>. QED
    BY <2>1, <2>2, TimersOthers
<1>5. CASE RunTimers
  BY <1>5, TimersDue
<1>6. CASE RunMicrotask
  <2>1. CASE microtasks # <<>>
    BY <1>6, <2>1, TimersContinue
  <2>2. CASE microtasks = <<>>
    <3>1. UNCHANGED <<jobVars, microtasks, current_time>>
      BY <1>6, <2>2 DEF RunMicrotask, jobVars
    <3>. QED
      BY <1>1, <3>1, TimersStable
  <2>. QED
    BY <2>1, <2>2
<1>7. CASE RunOne
  <2>1. UNCHANGED <<kind, execution_time, current_time>>
    BY <1>7 DEF RunOne
  <2>2. CASE UNCHANGED <<promise, microtasks>>
    BY <1>1, <2>1, <2>2, TimersStable DEF jobVars
  <2>3. CASE posted # <<>> /\ ResolveAll(<<Head(posted).of>>)
    <3> PICK i : i = Head(posted).of
      OBVIOUS
    <3>1. i \in Job /\ kind[i] # "timer"
      BY <2>3, QueuedJobs DEF KindsMatch
    <3>2. /\ <<i>> \in Seq(Job) /\ ResolveAll(<<i>>)
          /\ \A k \in 1 .. Len(<<i>>) : kind[<<i>>[k]] # "timer"
      BY <2>3, <3>1
    <3>. QED
      BY <2>1, <3>2, TimersOthers
  <2>. QED
    BY <1>7, <2>2, <2>3 DEF RunOne, Handle
<1>8. CASE OnFrame
  <2>1. UNCHANGED <<jobVars, microtasks>> /\ current_time' = now
    BY <1>8 DEF OnFrame
  <2>. QED
    BY <1>1, <2>1, TimersStable
<1>9. CASE \/ \E p \in Promises :
                \/ \E outcome \in {"fulfilled", "rejected"} : Settle(p, outcome)
                \/ SettleAgain(p)
                \/ Catch(p)
           \/ OthersNext \/ ChildNext \/ Restart \/ Flush \/ FlushExceptionQueue
           \/ Tick \/ UNCHANGED vars
  <2>1. UNCHANGED <<current_time, jobVars, microtasks>>
    BY <1>9
    DEF Settle, SettleAgain, Catch, OthersNext, Answer, Post, ChildNext, ChildEnds,
        Restart, Flush, FlushExceptionQueue, Tick, vars
  <2>. QED
    BY <1>1, <2>1, TimersStable
<1>. QED
  BY <1>2, <1>3, <1>4, <1>5, <1>6, <1>7, <1>8, <1>9 DEF Next, ScriptNext, FrameNext

(***************************************************************************)
(* Rejections.                                                             *)
(***************************************************************************)

\* Whatever happens to one promise leaves the account of the others alone.
LEMMA RejectionsStep ==
  FrameTypeOK /\ RejectionsAccounted /\ [Next]_vars => RejectionsAccounted'
<1> SUFFICES ASSUME FrameTypeOK, RejectionsAccounted, [Next]_vars
             PROVE  RejectionsAccounted'
  OBVIOUS
<1>1. /\ queued_messages \in Seq(Promises)
      /\ status \in [Promises -> {"open", "fulfilled", "rejected", "handled"}]
      /\ settled_again \in SUBSET Promises /\ reports \in [Promises -> Nat]
  BY DEF FrameTypeOK
<1>2. \A p : Occurrences(p) \in Nat
  BY <1>1, OccurrencesCounted, CountType
<1>3. ASSUME NEW q, queued_messages' = Append(queued_messages, q)
      PROVE  \A p : Occurrences(p)' = Occurrences(p) + (IF p = q THEN 1 ELSE 0)
  <2> TAKE p
  <2>1. Counted(Append(queued_messages, q), {p}) =
          Counted(queued_messages, {p}) + (IF q \in {p} THEN 1 ELSE 0)
    BY <1>1, CountPush
  <2>2. Occurrences(p)' = Counted(Append(queued_messages, q), {p})
    BY <1>3 DEF Occurrences, Counted
  <2>. QED
    BY <2>1, <2>2, OccurrencesCounted
<1>4. ASSUME NEW p \in Promises, NEW outcome \in {"fulfilled", "rejected"},
             Settle(p, outcome)
      PROVE  RejectionsAccounted'
  <2>1. /\ status[p] = "open" /\ status' = [status EXCEPT ![p] = outcome]
        /\ UNCHANGED <<settled_again, reports>>
    BY <1>4 DEF Settle
  <2>2. /\ status'[p] = outcome
        /\ \A other \in Promises \ {p} : status'[other] = status[other]
    BY <1>1, <2>1
  <2>3. CASE outcome = "rejected"
    <3>1. \A q : Occurrences(q)' = Occurrences(q) + (IF q = p THEN 1 ELSE 0)
      BY <1>3, <1>4, <2>3 DEF Settle, OnMessage
    <3>. QED
      BY <1>1, <1>2, <2>1, <2>2, <2>3, <3>1 DEF RejectionsAccounted
  <2>4. CASE outcome = "fulfilled"
    <3>1. \A q : Occurrences(q)' = Occurrences(q)
      BY <1>4, <2>4 DEF Settle, Occurrences
    <3>. QED
      BY <1>1, <1>2, <2>1, <2>2, <2>4, <3>1 DEF RejectionsAccounted
  <2>. QED
    BY <2>3, <2>4
<1>5. ASSUME NEW p \in Promises, SettleAgain(p) PROVE RejectionsAccounted'
  <2>1. /\ settled_again' = settled_again \cup {p} /\ UNCHANGED <<status, reports>>
        /\ queued_messages' = Append(queued_messages, p)
    BY <1>5 DEF SettleAgain, OnMessage
  <2>2. \A q : Occurrences(q)' = Occurrences(q) + (IF q = p THEN 1 ELSE 0)
    BY <1>3, <2>1
  <2>. QED
    BY <1>1, <1>2, <2>1, <2>2 DEF RejectionsAccounted
<1>6. ASSUME NEW p \in Promises, Catch(p) PROVE RejectionsAccounted'
  <2>1. /\ status[p] = "rejected" /\ status' = [status EXCEPT ![p] = "handled"]
        /\ queued_messages' = Without(queued_messages, p)
        /\ UNCHANGED <<settled_again, reports>>
    BY <1>6 DEF Catch, Revoke
  <2>2. \A P : Counted(Without(queued_messages, p), P) = Counted(queued_messages, P \ {p})
    BY <1>1, WithoutProperties
  <2>3. \A q : Occurrences(q)' = Counted(queued_messages, {q} \ {p})
    BY <2>1, <2>2 DEF Occurrences, Counted
  <2>4. Occurrences(p)' = 0
    <3>1. {p} \ {p} = {}
      OBVIOUS
    <3>. QED
      BY <1>1, <2>3, <3>1, CountEmpty
  <2>5. \A q : q # p => Occurrences(q)' = Occurrences(q)
    <3>1. \A q : q # p => {q} \ {p} = {q}
      OBVIOUS
    <3>. QED
      BY <2>3, <3>1, OccurrencesCounted
  <2>6. /\ status'[p] = "handled"
        /\ \A other \in Promises \ {p} : status'[other] = status[other]
    BY <1>1, <2>1
  <2>. QED
    BY <1>1, <1>2, <2>1, <2>4, <2>5, <2>6 DEF RejectionsAccounted
<1>7. CASE Flush \/ FlushExceptionQueue
  <2>1. /\ reports' = [p \in Promises |-> reports[p] + Occurrences(p)]
        /\ queued_messages' = <<>> /\ UNCHANGED <<status, settled_again>>
    BY <1>7 DEF Flush, FlushExceptionQueue, FlushMessageQueue
  <2>2. \A p : Occurrences(p)' = 0
    BY <2>1, CountEmpty DEF Occurrences, Counted
  <2>. QED
    BY <1>1, <1>2, <2>1, <2>2 DEF RejectionsAccounted
<1>8. CASE UNCHANGED errorVars
  <2>1. \A p : Occurrences(p)' = Occurrences(p)
    BY <1>8 DEF errorVars, Occurrences
  <2>. QED
    BY <1>8, <2>1 DEF errorVars, RejectionsAccounted
<1>9. CASE \/ \E time \in {0, 1} : Wait(time)
           \/ \E k \in {"query", "post"} : Request(k)
           \/ Exec \/ OthersNext \/ ChildNext \/ Tick \/ UNCHANGED vars
           \/ OnFrame \/ Observe \/ RunTimers \/ RunMicrotask \/ Restart \/ RunOne
  <2>1. UNCHANGED errorVars
    BY <1>9
    DEF Wait, Request, Exec, OthersNext, Answer, Post, ChildNext, ChildEnds, Tick,
        vars, OnFrame, Observe, RunTimers, RunMicrotask, Restart, RunOne
  <2>. QED
    BY <1>8, <2>1
<1>. QED
  BY <1>4, <1>5, <1>6, <1>7, <1>9 DEF Next, ScriptNext, FrameNext

(***************************************************************************)
(* The theorems.                                                           *)
(***************************************************************************)

\* Only a microtask continues a job.
LEMMA ContinuedByMicrotask ==
  ASSUME FrameTypeOK, KindsMatch, Next, NEW i \in Job,
         promise[i] # "continued", promise'[i] = "continued"
  PROVE  RunMicrotask /\ microtasks # <<>>
<1>1. \A jobs \in Seq(Job) : ~ResolveAll(jobs)
  <2> SUFFICES ASSUME NEW jobs \in Seq(Job), ResolveAll(jobs) PROVE FALSE
    OBVIOUS
  <2>1. promise'[i] \in {"resolved", promise[i]}
    BY Resolves
  <2>. QED
    BY <2>1
<1>2. ~Observe /\ ~RunTimers
  <2>1. answered \in Seq(Job) /\ \A jobs \in SetToSeqs(Due) : jobs \in Seq(Job)
    BY DueJobs DEF FrameTypeOK
  <2>. QED
    BY <1>1, <2>1 DEF Observe, RunTimers
<1>3. ~RunOne
  <2> SUFFICES ASSUME RunOne PROVE FALSE
    OBVIOUS
  <2>1. posted # <<>> /\ ResolveAll(<<Head(posted).of>>)
    BY DEF RunOne, Handle
  <2>2. <<Head(posted).of>> \in Seq(Job)
    BY <2>1, QueuedJobs
  <2>. QED
    BY <1>1, <2>1, <2>2
<1>4. ~(\/ \E time \in {0, 1} : Wait(time)
        \/ \E k \in {"query", "post"} : Request(k)
        \/ Exec)
  <2> SUFFICES ASSUME NEW state \in {"pending", "resolved"},
                      promise' = [promise EXCEPT ![Started + 1] = state]
               PROVE  FALSE
    BY DEF Wait, Request, Exec, Begin
  <2>. QED
    BY DEF FrameTypeOK
<1>5. ~UNCHANGED promise
  OBVIOUS
<1>6. RunMicrotask
  BY <1>2, <1>3, <1>4, <1>5
  DEF Next, ScriptNext, Settle, SettleAgain, Catch, OthersNext, Answer, Post,
      ChildNext, ChildEnds, FrameNext, OnFrame, Restart, Flush, FlushExceptionQueue,
      Tick, jobVars
<1>7. microtasks # <<>>
  BY <1>5, <1>6 DEF RunMicrotask
<1>. QED
  BY <1>6, <1>7

\* The whole inductive invariant holds in every reachable state.
THEOREM FrameInvariant == Spec => []RuntimeInv
<1>1. Init => RuntimeInv
  <2> SUFFICES ASSUME Init PROVE RuntimeInv
    OBVIOUS
  <2> USE DEF Init
  <2>1. FrameTypeOK
    <3>1. MaxTime \in Nat /\ 0 \in 0 .. MaxTime /\ 0 \in 0 .. 0
      BY FrameAssumption DEF FrameAssumption
    <3>2. /\ microtasks \in Seq(Job) /\ answered \in Seq(Job)
          /\ posted \in Seq(Handler) /\ queued_messages \in Seq(Promises)
      OBVIOUS
    <3>3. /\ execution_time \in [Job -> 0 .. MaxTime]
          /\ now \in 0 .. MaxTime /\ current_time \in 0 .. now
      BY <3>1
    <3>4. stopped \in BOOLEAN
      OBVIOUS
    <3>. QED
      BY <3>2, <3>3, <3>4 DEF FrameTypeOK
  <2>2. KindsMatch
    <3>1. JobsStarted(0) /\ 0 \in 0 .. MaxJobs
      BY FrameAssumption DEF FrameAssumption, JobsStarted, Job
    <3>. QED
      BY <3>1 DEF KindsMatch
  <2>3. DueResolved /\ MicrotasksRun /\ TimersQueued
    BY DEF DueResolved, MicrotasksRun, TimersQueued, Contains
  <2>4. RejectionsAccounted
    <3>1. \A p : Occurrences(p) = 0
      BY OccurrencesCounted, CountEmpty
    <3>. QED
      BY <3>1 DEF RejectionsAccounted
  <2>. QED
    BY <2>1, <2>2, <2>3, <2>4 DEF RuntimeInv
<1>2. RuntimeInv /\ [Next]_vars => RuntimeInv'
  <2> SUFFICES ASSUME RuntimeInv, [Next]_vars PROVE RuntimeInv'
    OBVIOUS
  <2>1. /\ FrameTypeOK /\ KindsMatch /\ DueResolved /\ MicrotasksRun
        /\ TimersQueued /\ RejectionsAccounted
    BY DEF RuntimeInv
  <2>2. FrameTypeOK'
    BY <2>1, TypeStep
  <2>3. KindsMatch'
    BY <2>1, KindsStep
  <2>4. DueResolved' /\ MicrotasksRun'
    BY <2>1, DueStep
  <2>5. TimersQueued'
    BY <2>1, <2>2, TimersStep
  <2>6. RejectionsAccounted'
    BY <2>1, RejectionsStep
  <2>. QED
    BY <2>2, <2>3, <2>4, <2>5, <2>6 DEF RuntimeInv
<1>. QED
  BY <1>1, <1>2, PTL DEF Spec

\* Frames leave nothing behind that was due, and every rejection is queued,
\* reported once or revoked.
THEOREM FramesCorrect == Spec => []FrameInv
<1>1. RuntimeInv => FrameInv
  BY DEF RuntimeInv, FrameInv, NothingDueLeft, DueResolved, MicrotasksRun
<1>. QED
  BY <1>1, FrameInvariant, PTL

\* Scripts continue in the order in which their timers were due, whatever else
\* waits in the queue of microtasks and however many frames are skipped.
THEOREM TimersContinueInOrder == Spec => TimersInOrder
<1> DEFINE Continues(i) ==
      kind[i] = "timer" /\ promise[i] # "continued" /\ promise'[i] = "continued" =>
        \A j \in Job :
          kind[j] = "timer" /\ execution_time[j] < execution_time[i] =>
            promise[j] = "continued"
<1>1. RuntimeInv /\ RuntimeInv' /\ [Next]_vars => [\A i \in Job : Continues(i)]_vars
  <2> SUFFICES ASSUME RuntimeInv, Next, NEW i \in Job,
                      kind[i] = "timer", promise[i] # "continued",
                      promise'[i] = "continued"
               PROVE  \A j \in Job :
                        kind[j] = "timer" /\ execution_time[j] < execution_time[i] =>
                          promise[j] = "continued"
    OBVIOUS
  <2>1. FrameTypeOK /\ KindsMatch /\ TimersQueued
    BY DEF RuntimeInv
  <2>2. RunMicrotask /\ microtasks # <<>>
    BY <2>1, ContinuedByMicrotask
  <2>3. i = microtasks[1] /\ 1 \in DOMAIN microtasks
    BY <2>1, <2>2 DEF RunMicrotask, FrameTypeOK
  <2>4. InTurn(1)
    BY <2>1, <2>3 DEF TimersQueued
  <2>. QED
    BY <2>3, <2>4 DEF InTurn
<1>. QED
  BY <1>1, FrameInvariant, PTL DEF Spec, TimersInOrder
=============================================================================
