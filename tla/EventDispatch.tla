---------------------------- MODULE EventDispatch ----------------------------
(***************************************************************************)
(* Callbacks of the game on their way to the gamemode and to JavaScript:   *)
(* the hook of amx_Exec (plugin/callback_hook.cc), calls the other way     *)
(* (plugin/callback_manager.cc), the controller between them               *)
(* (playground_controller.cc), listeners and deferred events               *)
(* (bindings/global_scope.cc).                                             *)
(*                                                                         *)
(* All of it runs on the main thread, but nested: a listener calls Pawn,   *)
(* whose natives make the server call back again, and so on.  The stack    *)
(* holds the Pawn functions, the loops over listeners and the functions    *)
(* provided to Pawn that have not returned; only the innermost acts.  When *)
(* the stack is empty, the server does, or the scripts in a server frame.  *)
(*                                                                         *)
(* The server's calls of Pawn functions are numbered.  The arguments of a  *)
(* call are its number, so that no two calls have the same.                *)
(***************************************************************************)
EXTENDS Integers, Sequences, FiniteSets, SequencesExt, Queues

CONSTANTS
  Immediate,      \* callbacks in callbacks.txt that are dispatched at once
  Cancelable,     \* those of them that preventDefault() applies to
  Deferred,       \* callbacks in callbacks.txt that scripts fetch later
  Other,          \* public functions that are not in callbacks.txt
  Listener,       \* functions that scripts register
  MaxChanges,     \* bound: listeners added or removed
  MaxCalls,       \* bound: calls of public functions by the server
  MaxDepth        \* bound: frames on the stack

ASSUME EventAssumption ==
  /\ Cancelable \subseteq Immediate
  /\ Immediate \cap Deferred = {} /\ Other \cap (Immediate \cup Deferred) = {}
  /\ {MaxChanges, MaxCalls, MaxDepth} \subseteq Nat

VARIABLES
  gamemode,           \* gamemode_ of the hook is set once it is "loaded"
  event_listeners,    \* event_listeners_, with the capacity of the vectors
  changes,            \* how often that has changed
  deferred_events,    \* deferred_events_
  arguments,          \* the static Arguments of DoIntercept: a call, or 0
  ignore_depth,       \* g_ignore_depth
  stack,
  asked,              \* the calls, and whether inside a CallPublic
  event,              \* the arguments in the event object of a call, or 0
  prevented,          \* event objects whose DefaultPrevented flag is set
  delivered,          \* arguments getDeferredEvents() returned for each call
  crashed             \* undefined behaviour has ended the process

hookVars == <<gamemode, arguments, ignore_depth, asked>>
listenerVars == <<event_listeners, changes>>
eventVars == <<event, prevented>>
deferredVars == <<deferred_events, delivered>>
vars == <<hookVars, listenerVars, deferredVars, stack, eventVars, crashed>>

Public == Immediate \cup Deferred \cup Other
Call == 1 .. MaxCalls
Calls == DOMAIN asked

\* A loop over listeners: `next` of `end` turns were taken, `calling` while a
\* listener runs.  The loop keeps pointers into the vector, which has been
\* "shifted" by an erase, or "freed", while it is not "intact".
DispatchFrame ==
  [kind : {"dispatch"}, type : Immediate, call : {0} \cup Call,
   event : {0} \cup Call, next : 0 .. MaxChanges, end : 0 .. MaxChanges,
   calling : BOOLEAN, vector : {"intact", "shifted", "freed"},
   called : Seq(Listener)]

Frame ==
  DispatchFrame \cup [kind : {"native"}]
    \cup [kind : {"public"}, ignoring : BOOLEAN]

EventTypeOK ==
  /\ gamemode \in {"none", "loading", "loaded"}
  /\ event_listeners \in
       [Immediate -> [cells : Seq(Listener), capacity : 0 .. 2 * MaxChanges]]
  /\ changes \in 0 .. MaxChanges
  /\ \A t \in Immediate : Len(event_listeners[t].cells) <= event_listeners[t].capacity
  /\ deferred_events \subseteq [call : Call, arguments : Call]
  /\ arguments \in {0} \cup Call
  /\ ignore_depth \in 0 .. MaxDepth
  /\ stack \in Seq(Frame)
  /\ asked \in Seq([name : Public, inside : BOOLEAN])
  /\ event \in [Call -> {0} \cup Call]
  /\ prevented \subseteq {n \in Call : event[n] # 0}
  /\ delivered \in [Call -> Seq(Call)]
  /\ crashed \in BOOLEAN

Init ==
  /\ gamemode = "none"
  /\ event_listeners = [t \in Immediate |-> [cells |-> <<>>, capacity |-> 0]]
  /\ changes = 0
  /\ deferred_events = {}
  /\ arguments = 0
  /\ ignore_depth = 0
  /\ stack = <<>>
  /\ asked = <<>>
  /\ event = [n \in Call |-> 0]
  /\ prevented = {}
  /\ delivered = [n \in Call |-> <<>>]
  /\ crashed = FALSE

Top == stack[Len(stack)]
TopIs(kind) == ~crashed /\ stack # <<>> /\ Top.kind = kind
Push(frame) == Len(stack) < MaxDepth /\ stack' = Append(stack, frame)
SetTop(frame) == stack' = [stack EXCEPT ![Len(stack)] = frame]
Pop == stack' = Front(stack)

\* JavaScript runs: in a server frame, in a listener or in a provided native.
InScript ==
  /\ ~crashed /\ gamemode # "none"
  /\ stack = <<>> \/ TopIs("native") \/ (TopIs("dispatch") /\ Top.calling)

InPawn == ~crashed /\ (stack = <<>> \/ TopIs("public"))
-----------------------------------------------------------------------------
(***************************************************************************)
(* Listeners.                                                              *)
(***************************************************************************)

\* The loops over the listeners of type t find their vector in state v.
Disturb(t, v) ==
  stack' = [k \in DOMAIN stack |->
    IF stack[k].kind = "dispatch" /\ stack[k].type = t
    THEN [stack[k] EXCEPT !.vector = IF @ = "freed" THEN @ ELSE v]
    ELSE stack[k]]

SetListeners(t, list, capacity) ==
  /\ changes < MaxChanges
  /\ changes' = changes + 1
  /\ event_listeners' =
       [event_listeners EXCEPT ![t] = [cells |-> list, capacity |-> capacity]]

\* push_back: a vector that is full moves to twice the space.
AddEventListener(t, f) ==
  LET list == event_listeners[t].cells
      capacity == event_listeners[t].capacity
  IN  /\ InScript
      /\ \/ /\ Len(list) < capacity
            /\ SetListeners(t, Append(list, f), capacity)
            /\ UNCHANGED stack
         \/ /\ Len(list) = capacity
            /\ SetListeners(t, Append(list, f), IF capacity = 0 THEN 1 ELSE 2 * capacity)
            /\ Disturb(t, "freed")
  /\ UNCHANGED <<hookVars, deferredVars, eventVars, crashed>>

\* Every entry of f is erased; those behind it move up.
RemoveEventListener(t, f) ==
  LET list == event_listeners[t].cells
      left == Without(list, f)
  IN  /\ InScript
      /\ left # list
      /\ SetListeners(t, left, event_listeners[t].capacity)
      /\ Disturb(t, "shifted")
  /\ UNCHANGED <<hookVars, deferredVars, eventVars, crashed>>

\* Without a function, the vector goes with the entry of its type.
RemoveEventListeners(t) ==
  /\ InScript
  /\ event_listeners[t].capacity > 0
  /\ SetListeners(t, <<>>, 0)
  /\ Disturb(t, "freed")
  /\ UNCHANGED <<hookVars, deferredVars, eventVars, crashed>>

\* The loop of DispatchEvent for an event of type t, before its first turn.
Loop(t, n, e) ==
  [kind |-> "dispatch", type |-> t, call |-> n, event |-> e, next |-> 0,
   end |-> Len(event_listeners[t].cells), calling |-> FALSE,
   vector |-> "intact", called |-> <<>>]

\* dispatchEvent(type, event): the event is null or one that is being handled.
DispatchEvent(t, e) ==
  /\ InScript
  /\ event_listeners[t].cells # <<>>
  /\ Push(Loop(t, 0, e))
  /\ UNCHANGED <<hookVars, listenerVars, deferredVars, eventVars, crashed>>

\* The loop's next pointer is into the vector and to a listener.
PointsToListener ==
  /\ Top.vector # "freed"
  /\ Top.next < Len(event_listeners[Top.type].cells)

CallListener ==
  /\ TopIs("dispatch") /\ ~Top.calling /\ Top.next < Top.end
  /\ PointsToListener
  /\ SetTop([Top EXCEPT !.next = @ + 1, !.calling = TRUE,
               !.called = Append(@, event_listeners[Top.type].cells[Top.next + 1])])
  /\ UNCHANGED <<hookVars, listenerVars, deferredVars, eventVars, crashed>>

\* A slot that was erased or freed: undefined.  The destructor has cleared it,
\* which IsEmpty() takes for an empty function, unless it was optimised away
\* or the memory is used for something else by now.
ReadStaleSlot ==
  /\ TopIs("dispatch") /\ ~Top.calling /\ Top.next < Top.end
  /\ ~PointsToListener
  /\ \/ SetTop([Top EXCEPT !.next = @ + 1]) /\ UNCHANGED crashed
     \/ crashed' = TRUE /\ UNCHANGED stack
  /\ UNCHANGED <<hookVars, listenerVars, deferredVars, eventVars>>

\* Mutant: an exception leaves the loop.
ListenerThrows ==
  /\ TopIs("dispatch") /\ Top.calling
  /\ \/ SetTop([Top EXCEPT !.calling = FALSE])
     \/ SetTop([Top EXCEPT !.calling = FALSE, !.next = Top.end])
  /\ UNCHANGED <<hookVars, listenerVars, deferredVars, eventVars, crashed>>

\* The listener returns or throws; Call() reports the exception and returns.
ListenerReturns ==
  /\ TopIs("dispatch") /\ Top.calling
  /\ SetTop([Top EXCEPT !.calling = FALSE])
  /\ UNCHANGED <<hookVars, listenerVars, deferredVars, eventVars, crashed>>

\* preventDefault() of an event that is being handled, perhaps further out.
PreventDefault(e) ==
  /\ InScript
  /\ \E k \in DOMAIN stack : stack[k].kind = "dispatch" /\ stack[k].event = e
  /\ asked[e].name \in Cancelable
  /\ prevented' = prevented \cup {e}
  /\ UNCHANGED <<hookVars, listenerVars, deferredVars, stack, event, crashed>>

\* Mutant: one flag for all events.
AnyPrevented(e) == prevented # {}

DefaultPrevented(e) == e \in prevented

\* The result of the loop decides whether the call goes on to the gamemode.
EndDispatch ==
  /\ TopIs("dispatch") /\ ~Top.calling /\ Top.next = Top.end
  /\ \/ (Top.call = 0 \/ DefaultPrevented(Top.event)) /\ Pop
     \/ /\ Top.call # 0 /\ ~DefaultPrevented(Top.event)
        /\ SetTop([kind |-> "public", ignoring |-> FALSE])
  /\ UNCHANGED <<hookVars, listenerVars, deferredVars, eventVars, crashed>>
-----------------------------------------------------------------------------
(***************************************************************************)
(* The hook.                                                               *)
(***************************************************************************)

\* main() of the gamemode runs: scripts are loaded and run before the hook
\* knows of the gamemode.
OnGamemodeLoaded ==
  /\ ~crashed /\ stack = <<>>
  /\ \/ gamemode = "none" /\ gamemode' = "loading"
     \/ gamemode = "loading" /\ gamemode' = "loaded"
  /\ UNCHANGED <<arguments, ignore_depth, asked, listenerVars, deferredVars,
                 stack, eventVars, crashed>>

\* A CallPublic has not returned.
Inside == \E k \in DOMAIN stack : stack[k].kind = "public" /\ stack[k].ignoring

\* The number of the next call.
New == Len(asked) + 1

\* The server calls amx_Exec: of its own accord, or from within a native that
\* Pawn or a script has called.
Exec(name) ==
  /\ InPawn \/ InScript
  /\ New <= MaxCalls
  /\ asked' = Append(asked, [name |-> name,
                             inside |-> Inside \/ gamemode # "loaded"])
  /\ UNCHANGED <<gamemode, ignore_depth, listenerVars, prevented, crashed>>

\* The trampoline: Pawn runs the function.
RunPublic(ignoring) == Push([kind |-> "public", ignoring |-> ignoring])

Intercepts(name) ==
  ignore_depth = 0 /\ gamemode = "loaded" /\ name \in Immediate \cup Deferred

OnExecutePasses(name) ==
  /\ Exec(name)
  /\ ~Intercepts(name)
  /\ RunPublic(FALSE)
  /\ UNCHANGED <<arguments, deferredVars, event>>

\* A copy of the arguments is kept, and the gamemode is called.
OnExecuteDefers(name) ==
  /\ Exec(name)
  /\ Intercepts(name) /\ name \in Deferred
  /\ arguments' = New
  /\ deferred_events' = deferred_events \cup {[call |-> New, arguments |-> arguments']}
  /\ RunPublic(FALSE)
  /\ UNCHANGED <<delivered, event>>

HasEventListeners(t) == event_listeners[t].cells # <<>>

\* Nobody listens.
OnExecuteUnheard(name) ==
  /\ Exec(name)
  /\ Intercepts(name) /\ name \in Immediate
  /\ ~HasEventListeners(name)
  /\ arguments' = New
  /\ RunPublic(FALSE)
  /\ UNCHANGED <<deferredVars, event>>

\* A new event object, filled from the arguments.
NewInstance(args) == event' = [event EXCEPT ![New] = args]

\* The event object is made before any listener runs.
OnExecuteDispatches(name) ==
  /\ Exec(name)
  /\ Intercepts(name) /\ name \in Immediate
  /\ HasEventListeners(name)
  /\ arguments' = New
  /\ NewInstance(arguments')
  /\ Push(Loop(name, New, New))
  /\ UNCHANGED deferredVars

\* pawnInvoke() of a name that begins with "On" calls the gamemode, and the
\* hook looks away until it has returned.
CallPublic ==
  /\ InScript
  /\ ignore_depth' = ignore_depth + 1
  /\ RunPublic(TRUE)
  /\ UNCHANGED <<gamemode, arguments, asked, listenerVars, deferredVars, eventVars,
                 crashed>>

\* Mutant: the hook stops ignoring as soon as any CallPublic has returned.
PublicReturnsResets ==
  /\ TopIs("public")
  /\ ignore_depth' = IF Top.ignoring THEN 0 ELSE ignore_depth
  /\ Pop
  /\ UNCHANGED <<gamemode, arguments, asked, listenerVars, deferredVars,
                 eventVars, crashed>>

PublicReturns ==
  /\ TopIs("public")
  /\ ignore_depth' = IF Top.ignoring THEN ignore_depth - 1 ELSE ignore_depth
  /\ Pop
  /\ UNCHANGED <<gamemode, arguments, asked, listenerVars, deferredVars,
                 eventVars, crashed>>

\* Pawn calls a native that a script provides, and the script returns.
CallNative ==
  /\ TopIs("public") /\ gamemode # "none"
  /\ Push([kind |-> "native"])
  /\ UNCHANGED <<hookVars, listenerVars, deferredVars, eventVars, crashed>>

NativeReturns ==
  /\ TopIs("native")
  /\ Pop
  /\ UNCHANGED <<hookVars, listenerVars, deferredVars, eventVars, crashed>>

\* Mutant: the events stay where they are.
GetDeferredEventsKeeps ==
  /\ InScript
  /\ delivered' = [n \in Call |->
       LET found == {d \in deferred_events : d.call = n}
       IN  IF found = {} THEN delivered[n]
           ELSE Append(delivered[n], (CHOOSE d \in found : TRUE).arguments)]
  /\ UNCHANGED <<hookVars, listenerVars, deferred_events, stack, eventVars,
                 crashed>>

\* getDeferredEvents(), in whatever order the unordered_multimap has them.
GetDeferredEvents ==
  /\ InScript
  /\ delivered' = [n \in Call |->
       LET found == {d \in deferred_events : d.call = n}
       IN  IF found = {} THEN delivered[n]
           ELSE Append(delivered[n], (CHOOSE d \in found : TRUE).arguments)]
  /\ deferred_events' = {}
  /\ UNCHANGED <<hookVars, listenerVars, stack, eventVars, crashed>>
-----------------------------------------------------------------------------
ScriptNext ==
  \/ \E t \in Immediate :
       \/ \E f \in Listener : AddEventListener(t, f) \/ RemoveEventListener(t, f)
       \/ RemoveEventListeners(t)
       \/ DispatchEvent(t, 0)
       \/ \E e \in Calls : event[e] # 0 /\ DispatchEvent(t, e)
  \/ \E e \in Calls : PreventDefault(e)
  \/ CallPublic
  \/ GetDeferredEvents

LoopNext == CallListener \/ ReadStaleSlot \/ ListenerReturns \/ EndDispatch

HookNext ==
  \/ OnGamemodeLoaded
  \/ \E name \in Public :
       OnExecutePasses(name) \/ OnExecuteDefers(name)
         \/ OnExecuteUnheard(name) \/ OnExecuteDispatches(name)
  \/ PublicReturns \/ CallNative \/ NativeReturns

Next == ScriptNext \/ LoopNext \/ HookNext

Spec == Init /\ [][Next]_vars
-----------------------------------------------------------------------------
(***************************************************************************)
(* Properties.                                                             *)
(***************************************************************************)

\* The loop in frame k ends with this step.
Ends(k) ==
  /\ stack[k].kind = "dispatch"
  /\ Len(stack') < k \/ stack'[k].kind # "dispatch"

\* Unless the list loses entries or moves while the loop runs, everybody who
\* was registered when it began is called once and in order, whatever the
\* listeners dispatch, throw or prevent.
EveryListenerCalled ==
  [][\A k \in DOMAIN stack :
       Ends(k) /\ stack[k].vector = "intact" =>
         stack[k].called =
           SubSeq(event_listeners[stack[k].type].cells, 1, stack[k].end)]_vars

\* The gamemode sees a callback if and only if no listener has prevented the
\* default of that callback's own event, whatever was dispatched in between.
OwnEventDecides ==
  [][\A k \in DOMAIN stack :
       Ends(k) /\ stack[k].call # 0 =>
         /\ event[stack[k].call] = stack[k].call
         /\ Len(stack') = k <=> stack[k].call \notin prevented]_vars

\* While a public function called by a script runs, no callback reaches the
\* listeners ("to prevent infinite loops", callback_manager.cc:108), however
\* deep the calls are nested, nor does one before the gamemode is known.
IgnoredUntilReturn ==
  \A k \in DOMAIN stack :
    stack[k].kind = "dispatch" /\ stack[k].call # 0 => ~asked[stack[k].call].inside

\* The state is well formed, and what a CallPublic causes stays unheard.
EventInv == EventTypeOK /\ IgnoredUntilReturn

\* A deferred callback waits or was delivered, once and with its own
\* arguments, although the hook has one object for the arguments of all.
Waiting(n) == {d \in deferred_events : d.call = n}

DeferredDeliveredOnce ==
  \A n \in Call :
    IF n \in Calls /\ asked[n].name \in Deferred /\ ~asked[n].inside
    THEN \/ Waiting(n) = {[call |-> n, arguments |-> n]} /\ delivered[n] = <<>>
         \/ Waiting(n) = {} /\ delivered[n] = <<n>>
    ELSE Waiting(n) = {} /\ delivered[n] = <<>>
=============================================================================
