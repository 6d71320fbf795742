---------------------------- MODULE RuntimeFrame ----------------------------
(***************************************************************************)
(* One server frame after another (bindings/runtime.cc), with the queues a *)
(* frame serves: timers (timer_queue.cc), microtasks, the main io_context, *)
(* and the rejected promises that nobody has handled                       *)
(* (exception_handler.cc).                                                 *)
(*                                                                         *)
(* A job is something JavaScript awaits: a timer, a query that a frame     *)
(* observer delivers, a result the background thread posts to the main     *)
(* io_context, or a child process started by exec() (modules/execute.cc).  *)
(* Its promise is pending until the main thread resolves it; then its      *)
(* continuation is a microtask, and once that has run, it is continued.    *)
(*                                                                         *)
(* JavaScript runs in microtasks, and between two frames when the server   *)
(* calls back.  Microtasks run in OnFrame only: the policy is kExplicit.   *)
(***************************************************************************)
EXTENDS Integers, Sequences, FiniteSets, SequencesExt, Queues

CONSTANTS
  MaxJobs,      \* bound: jobs JavaScript starts
  Promises,     \* other promises JavaScript settles, and may forget to handle
  MaxCalls,     \* bound: what JavaScript does with both, all in all
  MaxTime       \* bound: the clock

ASSUME FrameAssumption ==
  /\ MaxJobs \in Nat
  /\ {MaxCalls, MaxTime} \subseteq Nat
  /\ IsFiniteSet(Promises)

VARIABLES
  pc,                 \* where the main thread is in OnFrame, or outside
  now,                \* monotonicallyIncreasingTime()
  current_time,       \* its value when the frame began
  kind,               \* what each job is
  promise,            \* the promise of each job
  execution_time,     \* when a timer is due
  microtasks,         \* the continuations that wait for RunMicrotasks
  answered,           \* queries whose results the observers will find
  posted,             \* handlers the main io_context has to run
  waiting,            \* operations of children it waits for
  stopped,            \* main_thread_io_context_.stopped()
  status,             \* state of each of the Promises
  settled_again,      \* those whose resolvers were called a second time
  queued_messages,    \* queued_messages_
  reports             \* messages that were printed, per promise

jobVars    == <<kind, promise, execution_time>>
ioVars     == <<posted, waiting, stopped>>
errorVars  == <<status, settled_again, queued_messages, reports>>
vars == <<pc, now, current_time, jobVars, microtasks, answered, ioVars,
          errorVars>>

Job == 1 .. MaxJobs
Handler == [of : Job, what : {"result", "output", "exit"}]

FrameTypeOK ==
  /\ pc \in {"between", "observers", "timers", "microtasks", "restart",
             "run_one", "flush", "stuck"}
  /\ now \in 0 .. MaxTime
  /\ current_time \in 0 .. now
  /\ kind \in [Job -> {"none", "timer", "query", "post", "child"}]
  /\ promise \in [Job -> {"none", "pending", "resolved", "continued"}]
  /\ execution_time \in [Job -> 0 .. MaxTime]
  /\ microtasks \in Seq(Job)
  /\ answered \in Seq(Job)
  /\ posted \in Seq(Handler)
  /\ waiting \in SUBSET Handler
  /\ stopped \in BOOLEAN
  /\ status \in [Promises -> {"open", "fulfilled", "rejected", "handled"}]
  /\ settled_again \in SUBSET Promises
  /\ queued_messages \in Seq(Promises)
  /\ reports \in [Promises -> Nat]

Init ==
  /\ pc = "between"
  /\ now = 0
  /\ current_time = 0
  /\ kind = [i \in Job |-> "none"]
  /\ promise = [i \in Job |-> "none"]
  /\ execution_time = [i \in Job |-> 0]
  /\ microtasks = <<>>
  /\ answered = <<>>
  /\ posted = <<>>
  /\ waiting = {}
  /\ stopped = FALSE
  /\ status = [p \in Promises |-> "open"]
  /\ settled_again = {}
  /\ queued_messages = <<>>
  /\ reports = [p \in Promises |-> 0]
-----------------------------------------------------------------------------
(***************************************************************************)
(* JavaScript.                                                             *)
(***************************************************************************)
Started == Cardinality({i \in Job : kind[i] # "none"})

Calls == Started + Cardinality(settled_again)
           + Cardinality({p \in Promises : status[p] # "open"})
           + Cardinality({p \in Promises : status[p] = "handled"})

ScriptRuns == pc \in {"between", "microtasks"} /\ Calls < MaxCalls

Begin(k) ==
  /\ ScriptRuns /\ Started < MaxJobs
  /\ kind' = [kind EXCEPT ![Started + 1] = k]
  /\ promise' = [promise EXCEPT ![Started + 1] = "pending"]

\* wait(time)
Wait(time) ==
  /\ Begin("timer")
  /\ now + time <= MaxTime
  /\ execution_time' = [execution_time EXCEPT ![Started + 1] = now + time]
  /\ UNCHANGED <<pc, now, current_time, microtasks, answered, ioVars, errorVars>>

\* A query of a MySQL connection, or work for the background thread.
Request(k) ==
  /\ Begin(k)
  /\ UNCHANGED <<pc, now, current_time, execution_time, microtasks, answered,
                 ioVars, errorVars>>

\* exec(): the main io_context waits for the output and for the exit.  If the
\* process can't be created the promise is resolved at once.
Exec ==
  /\ \/ /\ Begin("child")
        /\ waiting' = waiting \cup [of : {Started + 1}, what : {"output", "exit"}]
        /\ UNCHANGED microtasks
     \/ /\ ScriptRuns /\ Started < MaxJobs
        /\ kind' = [kind EXCEPT ![Started + 1] = "child"]
        /\ promise' = [promise EXCEPT ![Started + 1] = "resolved"]
        /\ microtasks' = Append(microtasks, Started + 1)
        /\ UNCHANGED waiting
  /\ UNCHANGED <<pc, now, current_time, execution_time, answered, posted,
                 stopped, errorVars>>

\* PromiseRejectCallback: V8 announces a rejection nobody handles, and any
\* call of the resolvers of a promise that is settled already.
OnMessage(p) == queued_messages' = Append(queued_messages, p)

Settle(p, outcome) ==
  /\ ScriptRuns /\ status[p] = "open"
  /\ status' = [status EXCEPT ![p] = outcome]
  /\ \/ outcome = "rejected" /\ OnMessage(p)
     \/ outcome # "rejected" /\ UNCHANGED queued_messages
  /\ UNCHANGED <<pc, now, current_time, jobVars, microtasks, answered, ioVars,
                 settled_again, reports>>

SettleAgain(p) ==
  /\ ScriptRuns /\ status[p] # "open" /\ p \notin settled_again
  /\ settled_again' = settled_again \cup {p}
  /\ OnMessage(p)
  /\ UNCHANGED <<pc, now, current_time, jobVars, microtasks, answered, ioVars,
                 status, reports>>

\* Mutant: the loop stops at the first message of another promise.
RevokePrefix(p) ==
  queued_messages' =
    IF queued_messages # <<>> /\ Head(queued_messages) = p
    THEN Tail(queued_messages) ELSE queued_messages

\* RevokeQueuedMessages
Revoke(p) == queued_messages' = Without(queued_messages, p)

\* A handler is added after the rejection, as `await` in a try block does.
Catch(p) ==
  /\ ScriptRuns /\ status[p] = "rejected"
  /\ status' = [status EXCEPT ![p] = "handled"]
  /\ Revoke(p)
  /\ UNCHANGED <<pc, now, current_time, jobVars, microtasks, answered, ioVars,
                 settled_again, reports>>
-----------------------------------------------------------------------------
(***************************************************************************)
(* The other threads, the child processes and the clock.                   *)
(***************************************************************************)

\* The client thread of a connection has the result of a query.
Answer(i) ==
  /\ kind[i] = "query" /\ promise[i] = "pending"
  /\ ~Contains(answered, i)
  /\ answered' = Append(answered, i)
  /\ UNCHANGED <<pc, now, current_time, jobVars, microtasks, ioVars, errorVars>>

\* The background thread posts a result.
Post(i) ==
  /\ kind[i] = "post" /\ promise[i] = "pending"
  /\ ~Contains(posted, [of |-> i, what |-> "result"])
  /\ posted' = Append(posted, [of |-> i, what |-> "result"])
  /\ UNCHANGED <<pc, now, current_time, jobVars, microtasks, answered, waiting,
                 stopped, errorVars>>

\* A child exits, or nobody holds its output open any more.  What a child
\* started may still have the output open after the child itself is gone.
ChildEnds(h) ==
  /\ h \in waiting
  /\ waiting' = waiting \ {h}
  /\ posted' = Append(posted, h)
  /\ UNCHANGED <<pc, now, current_time, jobVars, microtasks, answered, stopped,
                 errorVars>>

Tick ==
  /\ now < MaxTime
  /\ now' = now + 1
  /\ UNCHANGED <<pc, current_time, jobVars, microtasks, answered, ioVars,
                 errorVars>>
-----------------------------------------------------------------------------
(***************************************************************************)
(* OnFrame.                                                                *)
(***************************************************************************)
ResolveAll(jobs) ==
  /\ promise' = [i \in Job |-> IF Contains(jobs, i) THEN "resolved" ELSE promise[i]]
  /\ microtasks' = microtasks \o jobs

OnFrame ==
  /\ pc = "between"
  /\ pc' = "observers"
  /\ current_time' = now
  /\ UNCHANGED <<now, jobVars, microtasks, answered, ioVars, errorVars>>

Observe ==
  /\ pc = "observers"
  /\ pc' = "timers"
  /\ ResolveAll(answered)
  /\ answered' = <<>>
  /\ UNCHANGED <<now, current_time, kind, execution_time, ioVars, errorVars>>

Due == {i \in Job : kind[i] = "timer" /\ promise[i] = "pending"
                      /\ execution_time[i] <= current_time}

\* Mutant: operator< the other way round.
LatestFirst(jobs) ==
  \A k, l \in DOMAIN jobs :
    k < l => execution_time[jobs[k]] >= execution_time[jobs[l]]

\* The priority queue gives the earliest first; it does not say which of two
\* that are due at the same time is.
EarliestFirst(jobs) ==
  \A k, l \in DOMAIN jobs :
    k < l => execution_time[jobs[k]] <= execution_time[jobs[l]]

\* TimerQueue::Run
RunTimers ==
  /\ pc = "timers"
  /\ pc' = "microtasks"
  /\ \E jobs \in SetToSeqs(Due) : EarliestFirst(jobs) /\ ResolveAll(jobs)
  /\ UNCHANGED <<now, current_time, kind, execution_time, answered, ioVars,
                 errorVars>>

\* RunMicrotasks goes on until there are none left.
RunMicrotask ==
  /\ pc = "microtasks"
  /\ \/ /\ microtasks # <<>>
        /\ promise' = [promise EXCEPT ![Head(microtasks)] = "continued"]
        /\ microtasks' = Tail(microtasks)
        /\ UNCHANGED pc
     \/ /\ microtasks = <<>>
        /\ pc' = "restart"
        /\ UNCHANGED <<promise, microtasks>>
  /\ UNCHANGED <<now, current_time, kind, execution_time, answered, ioVars,
                 errorVars>>

\* Mutant: the io_context is left stopped.
NoRestart ==
  /\ pc = "restart"
  /\ pc' = "run_one"
  /\ UNCHANGED <<now, current_time, jobVars, microtasks, answered, ioVars,
                 errorVars>>

Restart ==
  /\ pc = "restart"
  /\ pc' = "run_one"
  /\ stopped' = FALSE
  /\ UNCHANGED <<now, current_time, jobVars, microtasks, answered, posted,
                 waiting, errorVars>>

\* The handler of the exit takes the output from a future, which only the
\* handler of the output makes ready, on this thread.
OutputMissing(i) ==
  [of |-> i, what |-> "output"] \in waiting \cup Range(posted)

Handle(h) ==
  \/ /\ h.what = "output"
     /\ pc' = "flush"
     /\ UNCHANGED <<promise, microtasks>>
  \/ /\ h.what = "exit" /\ OutputMissing(h.of)
     /\ pc' = "stuck"
     /\ UNCHANGED <<promise, microtasks>>
  \/ /\ h.what = "result" \/ (h.what = "exit" /\ ~OutputMissing(h.of))
     /\ pc' = "flush"
     /\ ResolveAll(<<h.of>>)

\* Mutant: a guard keeps the io_context from running out of work, as one does
\* for that of the background thread.
GuardedWork(handlers) == TRUE

\* What run_one() waits for: without work it does not wait, but stops.
HasWork(handlers) == handlers # <<>> \/ waiting # {}

\* run_one() runs the first handler, and waits for one if there is work.
RunOne ==
  /\ pc = "run_one"
  /\ \/ /\ posted # <<>> /\ ~stopped
        /\ posted' = Tail(posted)
        /\ Handle(Head(posted))
        /\ stopped' = ~HasWork(Tail(posted))
     \/ /\ stopped \/ ~HasWork(posted)
        /\ pc' = "flush"
        /\ stopped' = TRUE
        /\ UNCHANGED <<posted, promise, microtasks>>
  /\ UNCHANGED <<now, current_time, kind, execution_time, answered, waiting,
                 errorVars>>

\* How often p is queued.
Occurrences(p) ==
  Cardinality({k \in DOMAIN queued_messages : queued_messages[k] = p})

FlushMessageQueue ==
  /\ reports' = [p \in Promises |-> reports[p] + Occurrences(p)]
  /\ queued_messages' = <<>>

Flush ==
  /\ pc = "flush"
  /\ pc' = "between"
  /\ FlushMessageQueue
  /\ UNCHANGED <<now, current_time, jobVars, microtasks, answered, ioVars,
                 status, settled_again>>

\* flushExceptionQueue(), which scripts may call.
FlushExceptionQueue ==
  /\ pc \in {"between", "microtasks"} /\ queued_messages # <<>>
  /\ FlushMessageQueue
  /\ UNCHANGED <<pc, now, current_time, jobVars, microtasks, answered, ioVars,
                 status, settled_again>>
-----------------------------------------------------------------------------
ScriptNext ==
  \/ \E time \in {0, 1} : Wait(time)
  \/ \E k \in {"query", "post"} : Request(k)
  \/ Exec
  \/ \E p \in Promises :
       \/ \E outcome \in {"fulfilled", "rejected"} : Settle(p, outcome)
       \/ SettleAgain(p)
       \/ Catch(p)
  \/ FlushExceptionQueue

FrameNext ==
  OnFrame \/ Observe \/ RunTimers \/ RunMicrotask \/ Restart \/ RunOne \/ Flush

OthersNext == \E i \in Job : Answer(i) \/ Post(i)
ChildNext == \E h \in waiting : ChildEnds(h)

Next == ScriptNext \/ FrameNext \/ OthersNext \/ ChildNext \/ Tick

Spec == Init /\ [][Next]_vars

\* The server runs frames, the other threads do their work and time passes.
\* A child may run for ever.
FairSpec ==
  Spec /\ WF_vars(FrameNext) /\ WF_vars(OthersNext) /\ WF_vars(Tick)
-----------------------------------------------------------------------------
(***************************************************************************)
(* Properties.                                                             *)
(***************************************************************************)

\* A frame leaves nothing behind that was due when it began: every timer whose
\* time had come is resolved, and its continuation, like that of every query
\* the observers delivered, has run before the frame turns to the io_context.
NothingDueLeft ==
  pc \in {"restart", "run_one"} =>
    /\ microtasks = <<>>
    /\ \A i \in Job : kind[i] = "timer" /\ promise[i] = "pending" =>
                        execution_time[i] >= current_time

\* Scripts continue in the order in which their timers were due.
TimersInOrder ==
  [][\A i \in Job :
       kind[i] = "timer" /\ promise[i] # "continued" /\ promise'[i] = "continued" =>
         \A j \in Job :
           kind[j] = "timer" /\ execution_time[j] < execution_time[i] =>
             promise[j] = "continued"]_vars

\* A rejection nobody handles is reported once; one that is handled before
\* the messages are printed, at the end of the frame if no script asks for it
\* before, is not reported ("Needed to support async try/catch statements",
\* exception_handler.h:56).
RejectionsAccounted ==
  \A p \in Promises \ settled_again :
    /\ status[p] \in {"open", "fulfilled"} => Occurrences(p) + reports[p] = 0
    /\ status[p] = "rejected" => Occurrences(p) + reports[p] = 1
    /\ status[p] = "handled" => Occurrences(p) = 0 /\ reports[p] <= 1

\* The state is well formed, frames leave nothing behind and every rejection is
\* queued, reported or revoked.
FrameInv == FrameTypeOK /\ NothingDueLeft /\ RejectionsAccounted

\* Frames go on, whatever there is to do, unless a child does not end or the
\* main thread waits for its output.
ChildrenEnd == []<>(waiting = {})
FramesGoOn == ChildrenEnd => []<>(pc \in {"between", "stuck"})

\* Every job continues, one handler a frame.
EveryJobContinues ==
  ChildrenEnd =>
    \A i \in Job : promise[i] = "pending" ~> (promise[i] = "continued" \/ pc = "stuck")
=============================================================================
