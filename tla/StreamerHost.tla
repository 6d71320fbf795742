---------------------------- MODULE StreamerHost ----------------------------
(***************************************************************************)
(* Streamer objects (bindings/modules/streamer_module.cc), the host that   *)
(* serves them on the main thread and the worker that keeps their contents *)
(* on the background thread (bindings/modules/streamer/).                  *)
(*                                                                         *)
(* The host posts every call as a task to background_io_context_, which    *)
(* one thread runs in order.  The worker posts the answers of stream() to  *)
(* main_thread_io_context_, of which Runtime::OnFrame runs one handler in  *)
(* each frame before it calls StreamerHost::OnFrame.                       *)
(*                                                                         *)
(* What the selection does is the subject of StreamerSelect; here it is    *)
(* any selection that StreamerSelect!FillsUp allows.                       *)
(***************************************************************************)
EXTENDS Integers, Sequences, SequencesExt

CONSTANTS
  MaxStreamers,     \* bound: streamers created
  MaxEntities,      \* bound: entities added
  MaxRequests,      \* bound: calls of stream()
  MaxTasks,         \* bound: tasks that wait for the background thread
  MaxVisible,       \* the streamers' max_visible_
  Player,           \* player ids
  Place             \* regions of the world, one in reach of itself only

ASSUME StreamerAssumption ==
  /\ {MaxStreamers, MaxEntities, MaxRequests, MaxTasks} \subseteq Nat \ {0}
  /\ MaxVisible \in Nat
  /\ "inside" \notin Place

VARIABLES
  (* Main thread. *)
  host_pc,                      \* JavaScript, or inside Runtime::OnFrame
  active_streamer_ids,          \* active_streamer_ids_
  last_streamer_id,             \* last_streamer_id_
  last_entity_id,               \* last_entity_id_
  requests,                     \* calls of stream() so far
  tracked_players,              \* tracked_players_
  tracked_players_invalidated,  \* tracked_players_invalidated_
  update_due,                   \* 250 ms have passed since last_update_time_
  answers,                      \* the promises resolved, in order
  (* Shared. *)
  tasks,                        \* the queue of background_io_context_
  completions,                  \* the queue of main_thread_io_context_
  (* Background thread. *)
  streamers,                    \* streamers_, and the contents of each
  latest_update                 \* latest_update_: where the players are

idVars == <<active_streamer_ids, last_streamer_id, last_entity_id>>
trackVars == <<tracked_players, tracked_players_invalidated, update_due>>
workerVars == <<streamers, latest_update>>
vars == <<host_pc, idVars, requests, trackVars, answers, tasks, completions,
          workerVars>>

Streamer == 1 .. MaxStreamers
EntityId == 1 .. MaxEntities
Entity   == [id : EntityId, place : Place]

\* A StreamerUpdate per tracked player; "inside" stands for an interior or a
\* virtual world other than the main one.
View == UNION {[seen -> Place \cup {"inside"}] : seen \in SUBSET Player}
NoView == [p \in {} |-> "inside"]

InRange(entities, view) ==
  {e.id : e \in {x \in entities : \E p \in DOMAIN view : view[p] = x.place}}

\* What Streamer::Stream may return.
Selections(entities, view) ==
  {chosen \in SUBSET InRange(entities, view) :
     LET n == Cardinality(InRange(entities, view))
     IN  Cardinality(chosen) = IF n < MaxVisible THEN n ELSE MaxVisible}

Task ==
  [op : {"Initialize", "Optimise", "DeleteAll"}, streamer : Streamer]
    \cup [op : {"Add"}, streamer : Streamer, entity : Entity]
    \cup [op : {"Delete"}, streamer : Streamer, id : EntityId]
    \cup [op : {"Stream"}, streamer : Streamer, call : 1 .. MaxRequests]
    \cup [op : {"Update"}, updates : View]

Answer == [call : 1 .. MaxRequests, answer : SUBSET EntityId]

HostTypeOK ==
  /\ host_pc \in {"js", "frame"}
  /\ active_streamer_ids \subseteq 1 .. last_streamer_id
  /\ last_streamer_id \in 0 .. MaxStreamers
  /\ last_entity_id \in 0 .. MaxEntities
  /\ requests \in 0 .. MaxRequests
  /\ tracked_players \subseteq Player
  /\ tracked_players_invalidated \in BOOLEAN
  /\ update_due \in BOOLEAN
  /\ answers \in Seq(Answer)
  /\ tasks \in Seq(Task)
  /\ completions \in Seq(Answer)

WorkerTypeOK ==
  /\ DOMAIN streamers \subseteq Streamer
  /\ \A s \in DOMAIN streamers : streamers[s] \subseteq Entity
  /\ latest_update \in View

HostInit ==
  /\ host_pc = "js"
  /\ active_streamer_ids = {}
  /\ last_streamer_id = 0
  /\ last_entity_id = 0
  /\ requests = 0
  /\ tracked_players = {}
  /\ tracked_players_invalidated = FALSE
  /\ update_due = FALSE
  /\ answers = <<>>

Init ==
  /\ HostInit
  /\ tasks = <<>>
  /\ completions = <<>>
  /\ streamers = [s \in {} |-> {}]
  /\ latest_update = NoView
-----------------------------------------------------------------------------
(***************************************************************************)
(* JavaScript.  An object that was collected cannot be called any more, so *)
(* the checks for ids that are not active never fail.                      *)
(***************************************************************************)
CallOnWorkerThread(task) == tasks' = Append(tasks, task)

CanCall == host_pc = "js" /\ Len(tasks) < MaxTasks

\* new Streamer()
CreateStreamer ==
  /\ CanCall /\ last_streamer_id < MaxStreamers
  /\ last_streamer_id' = last_streamer_id + 1
  /\ active_streamer_ids' = active_streamer_ids \cup {last_streamer_id'}
  /\ CallOnWorkerThread([op |-> "Initialize", streamer |-> last_streamer_id'])
  /\ UNCHANGED <<host_pc, last_entity_id, requests, trackVars, answers,
                 completions, workerVars>>

Add(s, place) ==
  /\ CanCall /\ s \in active_streamer_ids /\ last_entity_id < MaxEntities
  /\ last_entity_id' = last_entity_id + 1
  /\ CallOnWorkerThread([op |-> "Add", streamer |-> s,
                         entity |-> [id |-> last_entity_id', place |-> place]])
  /\ UNCHANGED <<host_pc, active_streamer_ids, last_streamer_id, requests,
                 trackVars, answers, completions, workerVars>>

Optimise(s) ==
  /\ CanCall /\ s \in active_streamer_ids
  /\ CallOnWorkerThread([op |-> "Optimise", streamer |-> s])
  /\ UNCHANGED <<host_pc, idVars, requests, trackVars, answers, completions,
                 workerVars>>

Stream(s) ==
  /\ CanCall /\ s \in active_streamer_ids /\ requests < MaxRequests
  /\ requests' = requests + 1
  /\ CallOnWorkerThread([op |-> "Stream", streamer |-> s, call |-> requests'])
  /\ UNCHANGED <<host_pc, idVars, trackVars, answers, completions, workerVars>>

\* The entity may be another streamer's, or have been deleted before.
Delete(s, id) ==
  /\ CanCall /\ s \in active_streamer_ids
  /\ CallOnWorkerThread([op |-> "Delete", streamer |-> s, id |-> id])
  /\ UNCHANGED <<host_pc, idVars, requests, trackVars, answers, completions,
                 workerVars>>

\* Mutant: the id stays active.
DeleteStreamerKeepsId(s) ==
  /\ CanCall /\ s \in active_streamer_ids
  /\ CallOnWorkerThread([op |-> "DeleteAll", streamer |-> s])
  /\ UNCHANGED <<host_pc, idVars, requests, trackVars, answers, completions,
                 workerVars>>

\* OnGarbageCollected
DeleteStreamer(s) ==
  /\ CanCall /\ s \in active_streamer_ids
  /\ active_streamer_ids' = active_streamer_ids \ {s}
  /\ CallOnWorkerThread([op |-> "DeleteAll", streamer |-> s])
  /\ UNCHANGED <<host_pc, last_streamer_id, last_entity_id, requests,
                 trackVars, answers, completions, workerVars>>

SetTrackedPlayers(players) ==
  /\ host_pc = "js"
  /\ tracked_players' = players
  /\ tracked_players_invalidated' = TRUE
  /\ UNCHANGED <<host_pc, idVars, requests, update_due, answers, tasks,
                 completions, workerVars>>
-----------------------------------------------------------------------------
(***************************************************************************)
(* Runtime::OnFrame: one handler of main_thread_io_context_, then the      *)
(* host's OnFrame.                                                         *)
(***************************************************************************)

\* The callback of stream() resolves its promise.
RunOne ==
  /\ host_pc = "js"
  /\ host_pc' = "frame"
  /\ \/ /\ completions # <<>>
        /\ answers' = Append(answers, Head(completions))
        /\ completions' = Tail(completions)
     \/ /\ completions = <<>>
        /\ UNCHANGED <<answers, completions>>
  /\ UNCHANGED <<idVars, requests, trackVars, tasks, workerVars>>

\* Mutant: an empty set of players is not worth an update.
NeedsUpdateIgnoresInvalidation == tracked_players # {}

NeedsUpdate == tracked_players # {} \/ tracked_players_invalidated

\* Players are wherever they are when the server is asked.
OnFrame ==
  /\ host_pc = "frame"
  /\ host_pc' = "js"
  /\ \/ /\ ~update_due
        /\ UNCHANGED <<trackVars, tasks>>
     \/ /\ update_due
        /\ update_due' = FALSE
        /\ \/ /\ NeedsUpdate
              /\ Len(tasks) < MaxTasks
              /\ \E view \in [tracked_players -> Place \cup {"inside"}] :
                   CallOnWorkerThread([op |-> "Update", updates |-> view])
           \/ /\ ~NeedsUpdate
              /\ UNCHANGED tasks
        /\ tracked_players_invalidated' = FALSE
        /\ UNCHANGED tracked_players
  /\ UNCHANGED <<idVars, requests, answers, completions, workerVars>>

\* kStreamerUpdateIntervalMs have passed.
TimePasses ==
  /\ ~update_due
  /\ update_due' = TRUE
  /\ UNCHANGED <<host_pc, idVars, requests, tracked_players,
                 tracked_players_invalidated, answers, tasks, completions,
                 workerVars>>
-----------------------------------------------------------------------------
(***************************************************************************)
(* The worker.  Changed(ss, t) is what task t makes of the streamers: each *)
(* of the tasks first looks for its streamer and does nothing without it.  *)
(* An entity's position is kept in a table and in a tree; ids are never    *)
(* used twice, so that the two always agree and Optimise, which rebuilds   *)
(* the tree, changes nothing.                                              *)
(***************************************************************************)
Initialized(ss, s) ==
  [x \in DOMAIN ss \cup {s} |-> IF x \in DOMAIN ss THEN ss[x] ELSE {}]

Added(ss, s, e) == [ss EXCEPT ![s] = @ \cup {e}]

Deleted(ss, s, id) == [ss EXCEPT ![s] = {e \in @ : e.id # id}]

DeletedAll(ss, s) == [x \in DOMAIN ss \ {s} |-> ss[x]]

Changed(ss, t) ==
  CASE t.op = "Initialize" -> Initialized(ss, t.streamer)
    [] t.op = "Add" /\ t.streamer \in DOMAIN ss -> Added(ss, t.streamer, t.entity)
    [] t.op = "Delete" /\ t.streamer \in DOMAIN ss -> Deleted(ss, t.streamer, t.id)
    [] t.op = "DeleteAll" -> DeletedAll(ss, t.streamer)
    [] OTHER -> ss

ContentsOf(ss, s) == IF s \in DOMAIN ss THEN ss[s] ELSE {}

\* Mutant: the newest task is run first.
RunNewestChange ==
  /\ tasks # <<>>
  /\ Last(tasks).op \notin {"Stream", "Update"}
  /\ tasks' = Front(tasks)
  /\ streamers' = Changed(streamers, Last(tasks))
  /\ UNCHANGED <<host_pc, idVars, requests, trackVars, answers, completions,
                 latest_update>>

RunChange ==
  /\ tasks # <<>>
  /\ Head(tasks).op \notin {"Stream", "Update"}
  /\ tasks' = Tail(tasks)
  /\ streamers' = Changed(streamers, Head(tasks))
  /\ UNCHANGED <<host_pc, idVars, requests, trackVars, answers, completions,
                 latest_update>>

RunUpdate ==
  /\ tasks # <<>>
  /\ Head(tasks).op = "Update"
  /\ tasks' = Tail(tasks)
  /\ latest_update' = Head(tasks).updates
  /\ UNCHANGED <<host_pc, idVars, requests, trackVars, answers, completions,
                 streamers>>

\* Mutant: without a streamer, or without a selection, nobody is called back.
RunStreamNonEmpty ==
  /\ tasks # <<>>
  /\ Head(tasks).op = "Stream"
  /\ tasks' = Tail(tasks)
  /\ \E chosen \in Selections(ContentsOf(streamers, Head(tasks).streamer),
                              latest_update) :
       completions' = IF chosen = {} THEN completions ELSE
         Append(completions, [call |-> Head(tasks).call, answer |-> chosen])
  /\ UNCHANGED <<host_pc, idVars, requests, trackVars, answers, workerVars>>

RunStream ==
  /\ tasks # <<>>
  /\ Head(tasks).op = "Stream"
  /\ tasks' = Tail(tasks)
  /\ \E chosen \in Selections(ContentsOf(streamers, Head(tasks).streamer),
                              latest_update) :
       completions' =
         Append(completions, [call |-> Head(tasks).call, answer |-> chosen])
  /\ UNCHANGED <<host_pc, idVars, requests, trackVars, answers, workerVars>>
-----------------------------------------------------------------------------
ScriptNext ==
  \/ CreateStreamer
  \/ \E s \in active_streamer_ids :
       \/ \E place \in Place : Add(s, place)
       \/ Optimise(s)
       \/ Stream(s)
       \/ \E id \in 1 .. last_entity_id : Delete(s, id)
       \/ DeleteStreamer(s)
  \/ \E players \in SUBSET Player : SetTrackedPlayers(players)

FrameNext == RunOne \/ OnFrame

WorkerNext == RunChange \/ RunUpdate \/ RunStream

Next == ScriptNext \/ FrameNext \/ TimePasses \/ WorkerNext

Spec == Init /\ [][Next]_vars

\* The server runs frame after frame, the background thread does nothing but
\* run tasks, and time passes.  JavaScript need not call anything.
FairSpec ==
  Spec /\ WF_vars(FrameNext) /\ WF_vars(WorkerNext) /\ WF_vars(TimePasses)
-----------------------------------------------------------------------------
(***************************************************************************)
(* Properties.  Behind the queue is a future: what the background thread   *)
(* will have made of its state when it has run every task.                 *)
(***************************************************************************)
StreamerTypeOK == HostTypeOK /\ WorkerTypeOK

Ran(future, t) ==
  CASE t.op = "Update" -> [future EXCEPT !.view = t.updates]
    [] t.op = "Stream" ->
         [future EXCEPT !.owed = Append(@,
            [call |-> t.call,
             from |-> Selections(ContentsOf(future.streamers, t.streamer),
                                 future.view)])]
    [] OTHER -> [future EXCEPT !.streamers = Changed(@, t)]

Decided(answer) == [call |-> answer.call, from |-> {answer.answer}]

Present ==
  [streamers |-> streamers,
   view |-> latest_update,
   owed |-> [i \in 1 .. Len(completions) |-> Decided(completions[i])]]

After(future, queue) ==
  LET after[n \in 0 .. Len(queue)] ==
        IF n = 0 THEN future ELSE Ran(after[n - 1], queue[n])
  IN  after[Len(queue)]

Future == After(Present, tasks)

\* The background thread ends up with the streamers of the objects that live,
\* and keeps none of an object that was collected.
NoStreamerLeaks == DOMAIN Future.streamers = active_streamer_ids

\* Only players that were tracked at the last update are seen, except for
\* those that have been replaced since; when nobody is, nobody is seen.
SeesTheTracked ==
  ~tracked_players_invalidated => DOMAIN Future.view \subseteq tracked_players

\* The state is well formed, and what is queued for the background thread
\* leads it to the streamers and players of the main thread.
StreamerInv == StreamerTypeOK /\ NoStreamerLeaks /\ SeesTheTracked

\* stream() is answered, whatever happens to its streamer ("Invokes |callback|
\* with visible entities when finished", streamer_host.h:42).
EveryCallAnswered ==
  \A n \in 1 .. MaxRequests :
    requests >= n ~> \E i \in 1 .. Len(answers) : answers[i].call = n

\* Players who are no longer tracked are forgotten, even if nobody is left.
UntrackedForgotten ==
  \A p \in Player :
    p \notin tracked_players
      ~> (p \notin DOMAIN latest_update \/ p \in tracked_players)

Service == INSTANCE StreamerService WITH
  contents <- [s \in Streamer |-> ContentsOf(Future.streamers, s)],
  view <- Future.view,
  owed <- Future.owed,
  given <- answers

\* The queues and the background thread are invisible: every call is answered
\* as if it had been done at once.
ImplementsService == Service!ServiceSpec
=============================================================================
