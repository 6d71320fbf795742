# PlaygroundJS: models, checks and proofs

PlaygroundJS is a plugin for San Andreas: Multiplayer that runs a gamemode's
JavaScript in V8 beside the Pawn virtual machine. These modules model the parts
of it in which the order of things decides whether the program is right: the
threads and queues of the MySQL and streamer modules first, then the server
frame, sockets, events and calls into Pawn.

Paths below are relative to `src/src/playground/`.

## 1. The system

One **main thread** runs the game server, the Pawn machine and all JavaScript.
The server calls `PlaygroundController::OnServerFrame` once per frame, which
calls `Runtime::OnFrame`: frame observers, timers, microtasks, *one* handler of
the main `io_context`, the streamer's update, the queued exceptions. One
**background thread** runs the handlers of the background `io_context`. Every
MySQL connection has a **client thread** of its own. Between them are
mutex-protected queues (MySQL) and the two `io_context` queues (streamer,
sockets). On the main thread, the game, Pawn and JavaScript call each other to
any depth.

| Component | State | Operations | Talks to | What makes it correct |
| --- | --- | --- | --- | --- |
| MySQL connection (`bindings/modules/mysql_module.cc`, `mysql/`) | promises by query id, five queues, thread flags, connection status | query, close, collection; connect, ping, query, drain on the client thread; one result of each kind per frame | frame observers, client thread | each query is executed and answered once at most, none is forgotten, a join ends |
| Streamer (`bindings/modules/streamer_module.cc`, `streamer/`) | ids, tracked players; per streamer a table and a tree; the latest update | create, add, optimise, delete, stream, collection, track; update every 250 ms | both `io_context`s | an answer reflects the moment of the call, every call is answered, untracked players are forgotten; the selection ends, keeps the limit and the shares |
| Runtime, timers, exceptions (`bindings/runtime.cc`, `timer_queue.cc`, `exception_handler.cc`, `promise.cc`) | frame observers, timer queue, main `io_context`, queued messages and attributed errors | OnFrame, wait(), observers added and removed, rejections and late handlers | everything else | a frame does its work in order, timers fire once and not early, a rejection is reported once unless it is handled in time |
| Sockets (`bindings/modules/socket_module.cc`, `socket/`), with a TCP and a WebSocket engine | socket state, engine state, write queue, timers | open, write, close, listeners; resolve, connect, TLS and WebSocket handshakes, time-out, read, write completions | both `io_context`s | an attempt settles, a close completes, each write is sent once, one at a time |
| Event dispatch (`bindings/global_scope.cc`, `event.cc`, `playground_controller.cc`) | listeners by type, deferred events | add, remove, dispatch, wait, defer | callback hook, JavaScript | every listener registered at the time is called once, the callback's own event decides whether the gamemode sees it, a deferred event is delivered once |
| Callback interception (`plugin/callback_hook.cc`, `callback_manager.cc`, `plugin_controller.cc`) | gamemode, index tables, arguments in use | amx_Exec hook, public calls, gamemode load | event dispatch, Pawn | our own calls are not intercepted, however they nest; indices belong to the gamemode that is running |
| Pawn natives (`bindings/pawn_invoke.cc`, `plugin/native_function_manager.cc`, `fake_amx.cc`) | static buffer of types and values, one vector of parameters, one fake heap | pawnInvoke with a signature, nested calls | server natives, provided natives | an argument arrives in its slot and a result is read from it whatever other calls left behind; the heap is given back |
| Provided natives (`bindings/provided_natives.cc`, `plugin/native_parameters.cc`) | table of natives, JavaScript functions | provide, call | Pawn natives | what the handler returns goes where its caller looks for it, also when it makes calls of its own or replaces itself |
| Module loading (`bindings/runtime_modulator.cc`) | cache of modules | load, import, clear | V8 | each file is compiled and run once, circles end, a load fails for its own reasons only |
| Rest: console, traces, parsers, base library, vendored code | | | | see section 7 |

The behaviours that are hard to test are listed in `PROJECT.json` under
`hazards`, each at its line: the interleavings of three threads, handlers of one
attempt that meet the state of another, completions that arrive in an order
nobody chose, a blocking join and a blocking `run_one()` on the thread everything
depends on, loops over lists that change, and nested calls that share a static
object.

## 2. Modules

| Module | Models | State corresponds to | Actions correspond to |
| --- | --- | --- | --- |
| `QueryService` | what a `MySQL` object promises: numbered queries, executed in order and once, answered once | | abstract |
| `MySQLConnection` | `mysql_module.cc`, `connection_host.cc`, `connection_client.cc`, `thread.cc` | members of `MySQL`, `ConnectionHost`, `Thread` and `ConnectionClient` under their names; the queues as sequences of query ids and attempt results | one per access to state the other thread can see: `query()`, `close()`, collection, the join and its end, the three checks of `OnFrame`, the tests of `run()`, connect, ping, query, drain |
| `StreamerService` | what streamers promise: every call is answered, in order, from the contents and the view of its moment | | abstract |
| `StreamerHost` | `streamer_module.cc`, `streamer_host.cc`, `streamer_worker.cc` | members of host and worker; the two `io_context` queues as sequences of tasks and completions | one per method of the host, one per kind of task, the two steps of a frame, the passing of 250 ms |
| `StreamerSelect` | `Streamer::Stream` in `streamer.cc` | the local variables of the function; the R-tree query is the input `in_range` | one per iteration of each of the three nested loops |
| `Socket` | `socket.cc`, `tcp_socket.cc`, `web_socket.cc` | `state_`, `ssl_mode_`, the pointers to streams, timer, `active_write_`, `write_queue_`; operations in flight, completions and posted callbacks of Boost | one per method, completion handler and callback, of the engine a socket was made with; `Write` is split at its accesses to what both threads use |
| `RuntimeFrame` | `Runtime::OnFrame`, `timer_queue.cc`, `promise.cc`, `exception_handler.cc`, `execute.cc` | timers, microtasks, the main `io_context` with its stopped flag, queued messages | one per stage of the frame in its order, and what scripts, other threads and children do |
| `EventDispatch` | `callback_hook.cc`, `callback_manager.cc`, `playground_controller.cc`, `global_scope.cc`, `event.cc` | `event_listeners_` with the capacity of each vector, `deferred_events_`, the static `Arguments`, `g_ignore_depth`, the call stack | one per call and return, per turn of the loop over listeners, and per global function |
| `PawnCalls` | `pawn_invoke.cc`, `provided_natives.cc`, `native_function_manager.cc`, `fake_amx.cc`, `native_parameters.cc` | the members of `StaticBuffer`, `params_` with the memory it has had, the fake heap with `amx_.hea`, the registered signature, the calls in progress | parsing of a signature, conversion of one argument, a script in the middle of it, the call of a native and what it writes, the return of a handler |
| `RuntimeModulator` | `runtime_modulator.cc` | `modules_`; files, and V8's modules with their links and statuses; the recursion as a stack | one per call and return of `LoadModule`, `ResolveOrCreateModule`, `GetModule`, `CreateModule` and of V8's linking and evaluation |
| `Queues` | vectors from which all entries equal to a value are erased | | |
| `QueueLemmas` | what the proofs need to know of naturals, queues and counting | | |
| `MySQLConnection_proofs`, `Socket_proofs`, `RuntimeFrame_proofs`, `EventDispatch_proofs`, `PawnCalls_proofs`, `RuntimeModulator_proofs` | theorems about the module of that name (section 5) | | |
| `Streamer_proofs` | theorems about `StreamerHost` and `StreamerSelect` | | |

The `map` of `PROJECT.json` gives the lines of every definition. `MC...` modules
extend the module of their name with the values of constants for TLC.

**Composition.** `MySQLConnection` and `StreamerHost` are refined against their
services with `INSTANCE ... WITH`. The frame is present in each module as far as
the component sees it: `MySQLConnection` has its observer as host steps,
`StreamerHost` has the handler of the `io_context` before its own update, as in
lines 250 and 252 of `runtime.cc`, and `RuntimeFrame` orders these steps and shows that they
all come round. The selection that `StreamerHost` leaves open (any set that
fills the limit) is what `StreamerSelect` shows of the algorithm (`FillsUp`,
`SelectInv`). `PawnCalls` composes the two sides of a call: `pawnInvoke()` and the
native a script provides meet in one stack and share buffer, parameters and
heap. `EventDispatch` does the same for callbacks, public calls and natives.

Mutants, the broken forms of definitions that show a property has teeth, stand
before the definition they replace and are named in `PROJECT.json`.

## 3. Runs, bounds and what they show

| Run | Distinct states | Shows |
| --- | --- | --- |
| `mysql` | 53 thousand | no query is lost, executed or answered twice; an answer overtakes an older one only if that one failed; the threads implement `QueryService`; queries are answered until the shutdown; a join ends; `ready` settles |
| `streamer_select` | 425 thousand | the selection ends, respects the limit, leaves no room unused, represents shares of two and more, and lets players take turns |
| `streamer` | 306 thousand | the worker ends up with the streamers that live; only tracked players are seen and untracked ones are forgotten; every call is answered, as if the queues were not there |
| `socket` | 555 thousand | in both engines: each write is in one place; an attempt that nobody disturbs settles; a close ends; a write waits only if a send does not complete or if it is stranded |
| `frame` | 434 thousand | nothing due is left; continuations follow the order of timers; rejections are reported once; frames go on; every job continues |
| `events` | 1.2 million | everybody is called unless the list loses its place; a callback's own event decides; callbacks are ignored until the outermost public call returns; deferred events are delivered once with their own arguments |
| `pawn` | 2.6 million | a native sees its own arguments, and a call returns its own results, unless a script called in between; the heap is given back however a call ends, and a call of a provided native holds as many cells of it as its own strings, arrays and references need; the process ends in a call with no call in it only for what the call passed or its handler did |
| `modules` | 618 thousand | the cache is consistent; a file is compiled once; a load fails only for what may make it fail; loads end |

**Bounds.** Every bound is a constant named `Max...` with its meaning where it
is declared; the code has none of them, except that `DrainLimit` is 50 and
`MinQuery` 100 in the code.

- `mysql`: four queries are two more than the drain limit of two, so a drain can
  end with queries left over, and one of them can be at the server; three
  attempt results may wait. `JoinTimesOut` is the Windows build.
- `streamer_select`: three players, up to eight entities in a line of which a
  player sees a stretch from either end, limits from 0 to 7 and `MinQuery` 4:
  shares of zero, one, two and more, lists shorter and longer than the share,
  the same, overlapping and disjoint surroundings, players in interiors.
- `streamer`: two streamers, one entity, two calls of `stream()`, two tasks in the
  queue, one player. A streamer can be collected with a call of its own, or of
  the other one, still queued.
- `socket`: either engine, two opens, each plain or secure, three writes, two
  closes, one message, four calls in all of the TCP engine and three of the other.
  Three are open, close, open: handlers of the first attempt meet the second. An attempt can time out, or be closed while it resolves,
  with another opened before its handlers have run; two writes can queue behind
  a third.
- `frame`: two jobs of any kind, two promises, four calls of scripts, a clock of
  two instants: a timer due in this frame, or the next, or never.
- `events`: one callback of each sort, two listeners, three changes to the list,
  two calls by the server, a stack of three. Two loops over the same list can be
  nested, and a public call in a native in a public call is the shortest way
  in which the depth of ignoring matters. Listeners are symmetric (there is no
  liveness property in this run). The state after a crash has no successor,
  which is why deadlock is not checked.
- `pawn`: three calls, two calls of `provideNative()`; a string reference, two
  references, an array with its length, one that lacks it, a type that is refused, and a
  handler with an argument behind its references. Seven slots are enough for three letters,
  since a string result takes two. The code has 24 slots and does not
  test the length of a signature against them; that every signature fits is an
  assumption of the module (`2 * Len(s) < MaxSlots`), as it is of the scripts. Three
  calls are a call in a handler of a call, before or after which another one has left
  something in the buffer. Texts and arrays take one to three cells, or none (`Amount`), a
  string reference four (`StringCells`, 3072 in the code) of a heap of seven
  (`HeapCells`, 4096 in the code): as in the code, two strings do not fit.
  `MaxSpill`, the number of slots behind its own into which an array of more than 144 entries
  is written, is zero in the run, to keep it small; the theorems hold for any.
- `modules`: three files, of which one can be edited once, two loads, one clearing,
  by one path or all. The files request one another in circles of one to three, or
  something that is not there, not on this disk, or does not compile.

Deadlock is not checked in `socket`, `frame`, `events`, `pawn` and `modules`: a script that has made
its calls, peers that say nothing, a main thread that is stuck and a process that has
ended really leave nothing to do.

**Fairness.** Liveness is checked under weak fairness of the program's threads
only:

- the server runs frames (`HostNext`, `FrameNext`, `MainNext`): it calls
  `OnServerFrame` for as long as the plugin is loaded, and a frame is a sequence
  of steps without waits, apart from `run_one()`;
- the client thread and the background thread do what is next (`ClientNext`,
  `WorkerNext`, `BackgroundNext`), which for the client includes that calls into
  the MySQL library return;
- the main thread goes on with a load it has begun, and scripts come to an end
  (`Step` of `RuntimeModulator`): there is no wait in any of them;
- time passes where a timer is what is waited for (`TimePasses`, `Tick`,
  `Expire`), and the resolver of host names answers (`Resolve`).

Scripts, peers and child processes are never fair: nobody has to close a socket
or answer. Where a property needs them it says so in its premise:
`ShutdownsAnswered`, `SendsComplete`, `ChildrenEnd`, and for MySQL
`PingsKeepTime`: a client whose every ping outlasts the ping interval never gets
round to queries.

## 4. Findings

Each is a run that TLC ends with a violation, quoted in `PROJECT.json` under
`findings` with the line of the code and of the text it contradicts.

- `mysql_retry`: the client retries before the main thread has heard of the first
  failure, and the second result meets `DCHECK(!ready_->HasSettled())`
  (`mysql_module.cc:97`). `DCHECK` is `CHECK` in every build (`base/logging.h:79`)
  and a `CHECK` that fails ends the process: `host_pc = "crashed"`.
- `socket_sends`: `Write` on the main thread and `OnWrite` on the background thread
  both find no write active. The same race read the other way leaves a write in
  the queue with nobody to take it out; `WriteSettlesUnlessStranded` names it.
- `pawn_declared`: the length of a string reference takes a slot for which no type
  is set; the call that follows one with a reference in that place returns a
  value too many.
- `modules_resolve`: a module whose requests could not be created stays in the
  cache, and the next load of it cannot resolve them.

Met while reading or modelling, and not given a run:

- Queries that wait at `close()`, and those issued after it or after the first
  attempt has failed, are never answered (`mysql_module.cc:221` promises it).
  `AnsweredUnlessStopped` is what holds.
- The time-out of an `open()` is followed by a second callback from the attempt it
  has aborted, which sets the state of the socket again, although
  `tcp_socket.cc:99` means to solve that.
- The deadline of a WebSocket calls a `close()` (`web_socket.cc:126`) that throws when
  the stream is not open, which it is not during an attempt; nothing catches it
  and the process ends. `Close` in line 198 uses a stream that there is none of while
  the first name is still being resolved. Both are steps of `Socket` (`End`).
- `OnResolved` sets `ssl_mode_` on the background thread (`tcp_socket.cc:56`,
  `web_socket.cc:53`) before it has made the first stream of that kind: a `close()`, a
  `write()` or the first read on the main thread in between uses a null pointer
  (`Halfway` of `Socket`).
- The handler of a child's exit waits, on the only thread that could deliver it,
  for the child's output (`execute.cc:34`): `pc = "stuck"` of `RuntimeFrame`.
- A listener that removes one that stands before the loop's place, itself for
  example, makes the next one be passed over and the loop read an erased slot;
  one that adds a listener may leave the loop in freed memory
  (`global_scope.cc:182`). `EveryListenerCalled` is what holds.
- Two signatures of the same native that differ in where a string reference stands
  give different results, `pawnInvoke()` in a `toString()` of an argument
  replaces the arguments that were converted before it, and a provided native that
  calls another and then returns references may end the process
  (`PawnCalls`: `disturbed`).
- Printing an error calls its `toString()` in the middle of the loop over
  `queued_messages_` (`exception_handler.cc:180`). The queue is a list: the loop comes
  to the rejections this adds, but a handler that is added for the promise whose error is being
  printed, or a `flushExceptionQueue()`, erases the entry the loop stands on.
- The Windows build waits for the client thread for one second (`thread.cc:46`), although
  the comment in line 40 says that it "blocks until the thread is gone", and then frees
  what the thread uses. `JoinTimesOut` is that build, which the proofs include.
- A promise whose resolver is called again is reported like an uncaught
  rejection (`runtime.cc:78` and 87).
- A share of one entity is not represented (`streamer.cc:66`), as the smallest
  batch is two (`streamer.cc:71`).
- The promise of a socket's `close()` is never resolved (`socket.cc:130`), and a
  send of a part of the data counts as success (`tcp_socket.cc`, `OnWrite`).
- The table of attributed errors holds one more than its limit
  (`exception_handler.cc:72`).
- A second gamemode adds its callback indices to those of the first
  (`callback_hook.cc:193`), and then fails the check in line 199.

## 5. Proofs

A module `..._proofs` holds the theorems about the module of its name, and
`Streamer_proofs` those about both modules of the streamer. They hold
for every value of the constants that the named assumption of that module
allows: any number of queries, jobs, promises, writes, streamers, tasks,
listeners, files, signatures; any limit, share and depth. `QueueLemmas` has the facts about
naturals, sequences and counting that they share.

| Module | Theorem | States |
| --- | --- | --- |
| `MySQLConnection_proofs` | `TypeCorrect` | `[]TypeOK` |
| | `QueriesInvariant` | `[]QueriesInv`, the inductive invariant |
| | `NoUnexpectedResult`, `ExecutedOnce`, `NoneForgotten` | `[]ResultsExpected`, `[]OnePlace`, `[]NothingForgotten` |
| | `ResolvedInOrder` | the action property `OvertakesOnlyFailures` |
| | `Implements` | the refinement of `QueryService` |
| `Streamer_proofs`, of `StreamerSelect` | `SelectionInvariant` | `[]SelectionInv`, the inductive invariant |
| | `SelectCorrect`, `SelectionIsFair`, `SelectionFillsUp` | `[]SelectInv`, `[]SharesFair`, `[]FillsUp` |
| `Streamer_proofs`, of `StreamerHost` | `HostInvariant` | `[]HostInv`, the inductive invariant |
| | `StreamersCorrect` | `[]StreamerInv` |
| | `HostImplements` | the refinement of `StreamerService` |
| `Socket_proofs` | `AccountInvariant`, `WritesCorrect` | `[]AccountInv`, the inductive invariant; `[]SocketInv` |
| `RuntimeFrame_proofs` | `FrameInvariant`, `FramesCorrect` | `[]RuntimeInv`, the inductive invariant; `[]FrameInv` |
| | `TimersContinueInOrder` | the action property `TimersInOrder` |
| `EventDispatch_proofs` | `DispatchInvariant`, `EventCorrect` | `[]DispatchInv`, the inductive invariant; `[]EventInv` |
| | `ListenersCalled`, `OwnEventCounts` | the action properties `EveryListenerCalled`, `OwnEventDecides` |
| | `DeliveredExactlyOnce` | `[]DeferredDeliveredOnce` |
| `PawnCalls_proofs` | `CallInvariant`, `PawnInvariant` | `[]CallInv`, the inductive invariant; `[]PawnInv` |
| | `ArgumentsSeen`, `OwnReturned` | `[]SeesItsArguments`, `[]ReturnsItsOwn` |
| | `EndExplained`, `DemandHeld` | `[]EndsForItsOwn`, `[]HoldsItsDemand` |
| `RuntimeModulator_proofs` | `StateInvariant`, `ModulatorCorrect` | `[]StateInv`, the inductive invariant; `[]ModulatorInv` |
| | `FilesCompiledOnce` | `[]CompiledOnce` |
| | `SoundLoads` | `[]SoundLoadsResolve`, with the inductive invariant `ResolveInv` |

**Why each invariant had to be strengthened.**

- `QueriesInv` (MySQL). That a popped result finds its promise pending depends on
  the result not being queued twice, which depends on the query not having been
  taken twice, which depends on the order of the queue. `QueriesInv` says where
  everything is: ids are issued, taken and executed in ascending order, so that
  ids below `Reported` have been reported, then come the one in hand or the
  drained ones, then the queue, without gaps; the two queues of results have no
  element in common or twice; and exactly the ids that are not settled are in
  `queries_`. `ResolvedInOrder` needs the order of the queue of successes
  (`ResultsInOrder`), and the refinement that an object that was collected has
  left every handler (`DeadAtRest`); then every step is shown to be one of the
  service's, or a stutter.
- `SelectionInv`. The limit alone does not follow from itself, since a batch adds
  entities before it looks; `TakenInv` says that whatever an iterator has passed is
  selected, and that one who has no iterator has had everything. `RoundInv`
  keeps the iterators in step: between two rounds all have passed equally
  many. `SharesInv` follows the first round, with a count of whom it has served.
- `HostInv`. What the background thread believes lags behind the main thread by
  whatever is queued, so that nothing can be said of the present state. `Future`
  is what the tasks in the queue will make of it, computed by a recursive function
  over the queue: *that* agrees with the main thread, in every state. A lemma each
  says what the future becomes when a task is put at the end (`FuturePush`) and that it does not change when one is taken from the front (`FutureRun`). The
  refinement maps the promised answers to those owed by the future.
- `AccountInv` (sockets). That a pending write is in one place, and any other in none, is a
  count over five places: the queue, the hands of the threads, what is in flight,
  what has completed, and the callbacks posted. Writes have to be numbered without
  a gap, so that a new one is nowhere yet. `HandsInv` says when a thread may hold a message, and `ClosingInv` that
  the deadline which the background thread handles stays the first in line.
- `RuntimeInv`. `TimersInOrder` compares the time of a continuation with timers that
  may be pending, resolved or queued: `TimersQueued` says that every
  resolved timer has its microtask, behind those of all that were due earlier,
  and `DueResolved` that no timer which is due is still pending in this frame.
- `DispatchInv`. The depth at which callbacks are ignored is the number of public calls
  on the stack (`DepthInv`); a loop that still has its place has called exactly
  the prefix of the vector that it has passed, and a loop that decides about a call
  was entered with that call's event and nothing ignored (`LoopsInv`).
- `CallInv` (Pawn). What a call leaves in memory that all calls share is of use to
  nobody, so the invariant speaks only of the call that no script has disturbed, which can
  only be the innermost (`FrameInv`). `TopInv` says what it finds: the
  types of its own signature (`OwnTypes`), in each slot it has converted the value that
  was passed, and a length only behind a string reference (`OwnValues`), and,
  once its handler runs, a parameter for each reference with an address of its own
  (`OwnParameters`). The addresses are distinct because a slot that takes cells moves
  the base of all later ones (`BaseGrows`). `HeapInv` says of the handlers in
  progress that the levels of the heap ascend along the stack (`Balanced`) and that
  between the level of one and the next lie the cells its arguments need
  (`Exact`): they were pushed one after the other, and what calls inside took
  was given back. That the process ended for a call's own reasons (`EndsForItsOwn`)
  follows in the step that ends it, where `Own` says that the number behind an array is
  the one that was passed, and that the addresses the handler stores through exist.
- `StateInv` (modules). `FramesInv` says what can be on top of what: a load in an
  evaluation, a creation in a creation, and so on. `ReadyInv` says for every frame,
  not only the innermost, what has been done for it, and must survive that
  another load clears the cache, or adds to it, in the middle of an evaluation. `OnceInv`
  counts the modules of a path; one is added only when the path is not in the
  cache, and only clearing takes it from there.
- `ResolveInv` (modules). A load is refused in four places, and each needs a reason why
  a sound one does not get there. `SoundInv`: there is a set of paths, closed
  under the requests of files that are not in the cache (`ReadsClosed`: as many
  rounds as there are paths reach them all), in which everything lies that is
  still to be read, and in which each request of an unlinked module is known to be
  in the cache once the frame that creates it has passed it (`RequestedInv`).
  `ExplainedInv`: while nothing has failed, each created module is what a load is
  about to link, or a module compiled before it requests it and is itself to be
  linked; so outside of loads none is left half made (`NoneCreated`), which
  is what another load would trip over. `FreshInv`: modules of before the last
  failure are numbered below all that anything refers to, so that no module a
  sound load evaluates has thrown.

**How data is dealt with.** Theorems of the library that take a predicate are out of
the provers' reach. Induction is done over sets of naturals instead
(`LeastNatural`, `SetInduction` in `QueueLemmas`). A recursive function (`Without` in
`Queues`, `After` in `StreamerHost`) is shown to exist, by this induction over the length, before
its equation is used (`Reads` in `RuntimeModulator`, too, by its number of rounds). Occurrences in a queue are counted by the cardinality of
a set of positions (`CountPush`, `CountPop` and others).

**Assumptions.** Nothing is assumed besides the assumption each module declares about its
constants: that bounds are naturals, that sets of model values which stand for
different things are disjoint, that files, promises and paths are finite
(`IsFiniteSet`), and that a query result lists each entity once. Their runs evaluate them.

**Only model-checked**:

- the liveness properties, which need fairness and `ENABLED`: `AnsweredUnlessStopped`,
  `SentIsAnswered`, `JoinEnds`, `ReadySettles`, `Terminates`, `EveryCallAnswered`,
  `UntrackedForgotten`, `OpenSettlesUnlessDisturbed`, `CloseCompletes`,
  `WriteSettlesUnlessStranded`, `FramesGoOn`, `EveryJobContinues`, `LoadsEnd`.

**What the attempt to prove `PawnCalls` showed.** Properties had held in the run, for the
signatures it has, and not for others; each now says what holds for all of them. A provided native
whose handler was replaced may store through a parameter that is a plain argument
of the caller, and a reference then keeps its old value (`ReturnsItsOwn` speaks
of what is stored through references). The process can end undisturbed not only when a
handler returns more references than it was passed, but also when an argument
stands behind references in the signature of the provided native, since only
arguments are counted and not their places (`EndsForItsOwn`; `provided_natives.cc:81`).
No size of the heap is enough for all calls, as a text takes one cell more than its length and an
array what the number behind it says; `HoldsItsDemand` says that nothing else
takes any. An array is not a type `provideNative()` knows, which is an assumption.

## 6. Plan

In the order of importance; what is done is section 2.

1. The parsers of `callbacks.txt` and of natives, as recursive functions against a
   reference definition.
2. Scripts that run while an error is printed, in `RuntimeFrame`.

## 7. What is not modelled

- **MySQL**: result sets, error texts and the library behind the client thread;
  a query succeeds or fails. The object is collected between two entries of the main
  thread (`Collect`), not while one of its own results is being turned into
  JavaScript values (`mysql_module.cc:125` to 185), where the collector may
  run as well and the observer would be removed under its own feet.
- **Streamer**: coordinates (a player is in a region or inside) and the R-tree, whose
  queries are inputs of `StreamerSelect`; `max_visible` is truncated to 16 bits
  before it gets there (`streamer_module.cc:127`).
- **Sockets**: bytes, TLS versions and certificates, the lists of listeners, and the
  collection of the object while handlers are in flight or posted
  (`socket_module.cc:131`), which is a use of freed memory. Accesses to the
  unsynchronised flag, mode, pointers and queue are taken as atomic: of the streams, the
  moment in which the mode is set and the first stream not made is modelled
  (`Halfway`), the replacement of a stream while the main thread uses the old one is not. Boost's streams are external:
  an operation that a stream is not ready for fails at once, the others
  complete when and how the network pleases.
- **Runtime**: set-up of V8, loading and compiling scripts, the attribution of
  errors, the frame counter, observers that are removed from within an observer, and
  scripts that handlers of the main `io_context` call (listeners of a socket): scripts
  run between frames and in the microtasks of a frame.
- **Events**: the values of arguments (a callback has as many parameters as
  `callbacks.txt` says), player updates, the objects' properties; one gamemode is
  loaded. Reads of erased or freed listeners either find the slot cleared, which
  the code takes for an empty function, or end the process.
- **Pawn**: floats are integers. A string or an array is one value, which each of the
  cells it takes holds, and of an array it is known whether all of its entries are its own: a
  getter that throws is skipped, and entries behind the end of a shorter array are
  what an earlier one left. Strings that a native stores fit the cells they are stored
  in, a value that is no number a call passed or stored counts as zero where a
  number is read, and numbers whose multiple of four overflows are not passed as lengths. The
  natives of the server are external: they write to any of their references and call no script.
  Memory a vector has left holds what it held or ends the process, an address that is
  none reads or writes any cell, and a vector that is too small moves whenever it grows.
  Once more cells are taken than the heap has, the process ends, although the
  write behind it may go unnoticed for a while. Not modelled are `OnRegister` (of two natives
  of a name the first counts), the offsets of the `CreateDynamic` family, calls of
  provided natives by the gamemode, which come with an AMX of their own, and the
  names in `native_parser.cc`.
- **Modules**: a specifier is a path. In the code the same file can have two
  (`./x` and `x`), as `fs::absolute` does not normalise, and is then loaded twice.
  V8's linking and evaluation are external.
- **Execute** beyond its effect on the frame; **console**, **traces**, the **base
  library** and the **entry points**: output, measurements and pure functions, whose
  failure no other component sees. The **parsers** of `callbacks.txt` and of natives
  run once, at the start, and are covered by unit tests. **Vendored code**: third
  party (GoogleTest, subhook, the plugin SDK), four fifths of the lines of the
  repository: the definitions can only ever stand for the rest.
