------------------------- MODULE EventDispatch_proofs -------------------------
(***************************************************************************)
(* Proofs about EventDispatch, for all callbacks and listeners, however    *)
(* many calls the server makes and however deep they are nested.           *)
(***************************************************************************)
EXTENDS EventDispatch, QueueLemmas

(***************************************************************************)
(* The inductive invariant.  What the types leave open: how the depth at   *)
(* which the hook ignores callbacks follows from the stack, and what a     *)
(* loop over listeners may rely on.                                        *)
(***************************************************************************)

\* The frames of CallPublic.
Ignoring == [kind : {"public"}, ignoring : {TRUE}]

BoundsInv ==
  /\ Len(stack) <= MaxDepth
  /\ Len(asked) <= MaxCalls
  /\ \A t \in Immediate : Len(event_listeners[t].cells) <= changes

DepthInv == ignore_depth = Counted(stack, Ignoring)

\* The event a loop hands to its listeners: its own if it decides about a
\* call, which was made while nothing was ignored.
EventOfLoop(f) ==
  /\ f.event # 0 => event[f.event] # 0
  /\ f.call # 0 => /\ f.event = f.call
                   /\ f.call \in Calls /\ event[f.call] = f.call
                   /\ ~asked[f.call].inside

\* While its place in the vector is good, a loop has called whom it passed.
TurnsOfLoop(f) ==
  /\ f.next <= f.end
  /\ f.vector = "intact" =>
       /\ f.end <= Len(event_listeners[f.type].cells)
       /\ f.called = SubSeq(event_listeners[f.type].cells, 1, f.next)

LoopsInv ==
  \A k \in DOMAIN stack :
    stack[k].kind = "dispatch" => EventOfLoop(stack[k]) /\ TurnsOfLoop(stack[k])

DispatchInv == EventTypeOK /\ BoundsInv /\ DepthInv /\ LoopsInv

\* The calls are numbered from one, and the next one gets the next number.
LEMMA CallNumbers ==
  ASSUME EventTypeOK, BoundsInv
  PROVE  /\ Len(asked) \in Nat /\ Calls = 1 .. Len(asked) /\ Calls \subseteq Call
         /\ New = Len(asked) + 1 /\ New \notin Calls
         /\ New <= MaxCalls => New \in Call
<1>1. Len(asked) \in Nat /\ DOMAIN asked = 1 .. Len(asked) /\ MaxCalls \in Nat
  BY EventAssumption DEF EventTypeOK, EventAssumption
<1>. QED
  BY <1>1 DEF BoundsInv, Calls, Call, New

(***************************************************************************)
(* The stack.                                                              *)
(***************************************************************************)

\* What the type invariant says of the innermost frame.
LEMMA TopFrame ==
  ASSUME EventTypeOK, stack # <<>>
  PROVE  /\ stack \in Seq(Frame) /\ Len(stack) \in Nat \ {0}
         /\ Len(stack) \in DOMAIN stack /\ Top \in Frame
         /\ Top.kind = "dispatch" => Top \in DispatchFrame /\ Top \notin Ignoring
         /\ Top.kind = "native" => Top \notin Ignoring
         /\ Top.kind = "public" => (Top.ignoring <=> Top \in Ignoring)
<1>1. stack \in Seq(Frame) /\ Len(stack) \in Nat \ {0} /\ Len(stack) \in DOMAIN stack
  BY DEF EventTypeOK
<1>2. Top \in Frame
  BY <1>1 DEF Top
<1>. QED
  BY <1>1, <1>2 DEF Frame, DispatchFrame, Ignoring

\* The loop of an event is a frame.
LEMMA LoopFrame ==
  ASSUME EventTypeOK, BoundsInv, NEW t \in Immediate,
         NEW n \in {0} \cup Call, NEW e \in {0} \cup Call
  PROVE  Loop(t, n, e) \in DispatchFrame
<1>1. /\ event_listeners[t].cells \in Seq(Listener)
      /\ Len(event_listeners[t].cells) \in 0 .. MaxChanges
  BY EventAssumption DEF EventTypeOK, BoundsInv, EventAssumption
<1>2. 0 \in 0 .. MaxChanges /\ <<>> \in Seq(Listener)
  BY EventAssumption DEF EventAssumption
<1>. QED
  BY <1>1, <1>2 DEF Loop, DispatchFrame

\* A loop over listeners, with some of its fields changed.
LEMMA LoopChanged ==
  ASSUME NEW f \in DispatchFrame, NEW b \in BOOLEAN,
         NEW v \in {"intact", "shifted", "freed"}
  PROVE  /\ [f EXCEPT !.calling = b] \in DispatchFrame
         /\ [f EXCEPT !.vector = v] \in DispatchFrame
         /\ f.next < f.end =>
              /\ [f EXCEPT !.next = @ + 1] \in DispatchFrame
              /\ \A g \in Listener :
                   [f EXCEPT !.next = @ + 1, !.calling = b,
                      !.called = Append(@, g)] \in DispatchFrame
<1>1. f.next < f.end => f.next + 1 \in 0 .. MaxChanges
  BY EventAssumption DEF EventAssumption, DispatchFrame
<1>2. \A g \in Listener : Append(f.called, g) \in Seq(Listener)
  BY DEF DispatchFrame
<1>. QED
  BY <1>1, <1>2 DEF DispatchFrame

\* The loops whose vector is touched stay where they are.
LEMMA Disturbed ==
  ASSUME EventTypeOK, NEW t \in Immediate, NEW v \in {"shifted", "freed"},
         Disturb(t, v)
  PROVE  /\ stack' \in Seq(Frame) /\ Len(stack') = Len(stack)
         /\ DOMAIN stack' = DOMAIN stack
         /\ \A k \in DOMAIN stack :
              \/ /\ stack'[k] = stack[k]
                 /\ stack[k].kind = "dispatch" => stack[k].type # t
              \/ /\ stack[k] \in DispatchFrame /\ stack[k].type = t
                 /\ \E w \in {"shifted", "freed"} :
                      stack'[k] = [stack[k] EXCEPT !.vector = w]
         /\ Counted(stack', Ignoring) = Counted(stack, Ignoring)
<1>1. /\ stack \in Seq(Frame) /\ Len(stack) \in Nat /\ DOMAIN stack = 1 .. Len(stack)
      /\ \A k \in 1 .. Len(stack) : stack[k] \in Frame
  BY DEF EventTypeOK
<1>2. ASSUME NEW k \in 1 .. Len(stack)
      PROVE  \/ /\ stack'[k] = stack[k]
                /\ stack[k].kind = "dispatch" => stack[k].type # t
             \/ /\ stack[k] \in DispatchFrame /\ stack[k].type = t
                /\ \E w \in {"shifted", "freed"} :
                     stack'[k] = [stack[k] EXCEPT !.vector = w]
  <2>1. CASE stack[k].kind = "dispatch" /\ stack[k].type = t
    <3>1. stack[k] \in DispatchFrame
      BY <1>1, <2>1 DEF Frame, DispatchFrame
    <3>2. stack'[k] = [stack[k] EXCEPT !.vector = IF @ = "freed" THEN @ ELSE v]
      BY <1>1, <2>1 DEF Disturb
    <3>3. PICK w \in {"shifted", "freed"} :
            w = IF stack[k].vector = "freed" THEN stack[k].vector ELSE v
      OBVIOUS
    <3>4. stack'[k] = [stack[k] EXCEPT !.vector = w]
      BY <3>1, <3>2, <3>3 DEF DispatchFrame
    <3>. QED
      BY <2>1, <3>1, <3>4
  <2>2. CASE ~(stack[k].kind = "dispatch" /\ stack[k].type = t)
    BY <1>1, <2>2 DEF Disturb
  <2>. QED
    BY <2>1, <2>2
<1>3. ASSUME NEW k \in 1 .. Len(stack)
      PROVE  stack'[k] \in Frame /\ (stack'[k] \in Ignoring <=> stack[k] \in Ignoring)
  <2>1. CASE stack'[k] = stack[k]
    BY <1>1, <2>1
  <2>2. CASE stack[k] \in DispatchFrame
    <3>1. PICK w \in {"shifted", "freed"} :
            stack'[k] = stack[k] \/ stack'[k] = [stack[k] EXCEPT !.vector = w]
      BY <1>2
    <3>2. stack'[k] \in DispatchFrame
      BY <2>2, <3>1 DEF DispatchFrame
    <3>. QED
      BY <2>2, <3>2 DEF Frame, DispatchFrame, Ignoring
  <2>. QED
    BY <1>2, <2>1, <2>2
<1>4. stack' \in [1 .. Len(stack) -> Frame]
  BY <1>1, <1>3 DEF Disturb
<1>5. stack' \in Seq(Frame) /\ Len(stack') = Len(stack) /\ DOMAIN stack' = DOMAIN stack
  BY <1>1, <1>4
<1>6. Counted(stack', Ignoring) = Counted(stack, Ignoring)
  BY <1>1, <1>3, <1>5, CountSame
<1>. QED
  BY <1>1, <1>2, <1>5, <1>6

\* A frame more.
LEMMA Pushed ==
  ASSUME EventTypeOK, BoundsInv, NEW f \in Frame, Push(f)
  PROVE  /\ stack' \in Seq(Frame) /\ Len(stack') = Len(stack) + 1
         /\ Len(stack') <= MaxDepth
         /\ stack'[Len(stack) + 1] = f
         /\ \A k \in DOMAIN stack : k \in DOMAIN stack' /\ stack'[k] = stack[k]
         /\ Counted(stack', Ignoring) =
              Counted(stack, Ignoring) + (IF f \in Ignoring THEN 1 ELSE 0)
<1>1. /\ stack \in Seq(Frame) /\ Len(stack) \in Nat /\ DOMAIN stack = 1 .. Len(stack)
      /\ MaxDepth \in Nat
  BY EventAssumption DEF EventTypeOK, EventAssumption
<1>2. stack' = Append(stack, f) /\ Len(stack) < MaxDepth
  BY DEF Push
<1>3. Counted(Append(stack, f), Ignoring) =
        Counted(stack, Ignoring) + (IF f \in Ignoring THEN 1 ELSE 0)
  BY <1>1, CountPush
<1>. QED
  BY <1>1, <1>2, <1>3

\* The innermost frame changes.
LEMMA TopSet ==
  ASSUME EventTypeOK, BoundsInv, stack # <<>>, NEW f \in Frame, SetTop(f)
  PROVE  /\ stack' \in Seq(Frame) /\ Len(stack') = Len(stack)
         /\ DOMAIN stack' = DOMAIN stack
         /\ Len(stack') <= MaxDepth
         /\ stack'[Len(stack)] = f
         /\ \A k \in DOMAIN stack : k # Len(stack) => stack'[k] = stack[k]
         /\ Counted(stack', Ignoring) =
              Counted(stack, Ignoring) - (IF Top \in Ignoring THEN 1 ELSE 0)
                + (IF f \in Ignoring THEN 1 ELSE 0)
<1>1. stack \in Seq(Frame) /\ Len(stack) \in Nat /\ DOMAIN stack = 1 .. Len(stack)
  BY DEF EventTypeOK
<1>2. stack' = [stack EXCEPT ![Len(stack)] = f]
  BY DEF SetTop
<1> DEFINE r == [stack EXCEPT ![Len(stack)] = f]
<1>3. /\ r \in Seq(Frame) /\ Len(r) = Len(stack) /\ DOMAIN r = DOMAIN stack
      /\ r[Len(stack)] = f
      /\ \A k \in 1 .. Len(stack) - 1 : r[k] = stack[k]
      /\ \A P : Counted(r, P) = Counted(stack, P)
                  - (IF stack[Len(stack)] \in P THEN 1 ELSE 0)
                  + (IF f \in P THEN 1 ELSE 0)
  BY <1>1, TopReplaced
<1> HIDE DEF r
<1>4. stack' = r
  BY <1>2 DEF r
<1>. QED
  BY <1>1, <1>3, <1>4 DEF Top, BoundsInv

\* The innermost frame goes.
LEMMA Popped ==
  ASSUME EventTypeOK, BoundsInv, stack # <<>>, Pop
  PROVE  /\ stack' \in Seq(Frame) /\ Len(stack') = Len(stack) - 1
         /\ Len(stack') <= MaxDepth
         /\ \A k \in DOMAIN stack' : k \in DOMAIN stack /\ stack'[k] = stack[k]
         /\ Counted(stack', Ignoring) =
              Counted(stack, Ignoring) - (IF Top \in Ignoring THEN 1 ELSE 0)
<1>1. stack \in Seq(Frame) /\ Len(stack) \in Nat /\ DOMAIN stack = 1 .. Len(stack)
  BY DEF EventTypeOK
<1>2. stack' = Front(stack)
  BY DEF Pop
<1>3. /\ stack' \in Seq(Frame) /\ Len(stack') = Len(stack) - 1
      /\ DOMAIN stack' = 1 .. Len(stack) - 1
      /\ \A k \in 1 .. Len(stack) - 1 : stack'[k] = stack[k]
  BY <1>1, <1>2, FrontPlaces
<1>4. Counted(Front(stack), Ignoring) =
        Counted(stack, Ignoring) - (IF stack[Len(stack)] \in Ignoring THEN 1 ELSE 0)
  BY <1>1, CountFront
<1>5. Counted(stack', Ignoring) =
        Counted(stack, Ignoring) - (IF Top \in Ignoring THEN 1 ELSE 0)
  BY <1>2, <1>4 DEF Top
<1>. QED
  BY <1>1, <1>3, <1>5, EventAssumption DEF BoundsInv, EventAssumption

\* The depth at which the hook ignores callbacks is that of the calls of public
\* functions, so that it is zero if and only if there are none.
LEMMA DepthCounts ==
  ASSUME EventTypeOK, BoundsInv, DepthInv
  PROVE  ignore_depth = 0 <=> ~Inside
<1>1. stack \in Seq(Frame)
  BY DEF EventTypeOK
<1>2. Counted(stack, Ignoring) = 0 <=> \A k \in DOMAIN stack : stack[k] \notin Ignoring
  BY <1>1, CountBounds
<1>3. ASSUME NEW k \in DOMAIN stack
      PROVE  stack[k] \in Ignoring <=> stack[k].kind = "public" /\ stack[k].ignoring
  <2>1. stack[k] \in Frame
    BY <1>1
  <2>. QED
    BY <2>1 DEF Frame, DispatchFrame, Ignoring
<1>. QED
  BY <1>2, <1>3 DEF DepthInv, Inside

StackOK ==
  /\ stack \in Seq(Frame) /\ Len(stack) <= MaxDepth
  /\ ignore_depth = Counted(stack, Ignoring) /\ ignore_depth \in 0 .. MaxDepth

\* Every step keeps it so.
LEMMA StackStep == DispatchInv /\ [Next]_vars => StackOK'
<1> SUFFICES ASSUME DispatchInv, [Next]_vars PROVE StackOK'
  OBVIOUS
<1> DEFINE Good == /\ stack' \in Seq(Frame) /\ Len(stack') <= MaxDepth
                   /\ ignore_depth' = Counted(stack', Ignoring)
<1> SUFFICES Good
  <2>1. ASSUME Good PROVE ignore_depth' \in 0 .. MaxDepth
    <3>1. Counted(stack', Ignoring) <= Len(stack') /\ Counted(stack', Ignoring) \in Nat
      BY <2>1, CountBounds, CountType
    <3>. QED
      BY <2>1, <3>1, EventAssumption DEF EventAssumption
  <2>. QED
    BY <2>1 DEF StackOK
<1>1. EventTypeOK /\ BoundsInv /\ DepthInv /\ stack \in Seq(Frame) /\ ignore_depth \in Nat
        /\ Len(stack) <= MaxDepth /\ ignore_depth = Counted(stack, Ignoring)
  BY DEF DispatchInv, EventTypeOK, BoundsInv, DepthInv
<1>2. ASSUME NEW f \in Frame, Push(f), f \notin Ignoring, UNCHANGED ignore_depth
      PROVE  Good
  <2>1. /\ stack' \in Seq(Frame) /\ Len(stack') <= MaxDepth
        /\ Counted(stack', Ignoring) =
             Counted(stack, Ignoring) + (IF f \in Ignoring THEN 1 ELSE 0)
    BY <1>1, <1>2, Pushed
  <2>. QED
    BY <1>1, <1>2, <2>1
<1>3. ASSUME stack # <<>>, Top.kind = "dispatch", NEW f \in Frame, f \notin Ignoring,
             SetTop(f), UNCHANGED ignore_depth
      PROVE  Good
  <2>1. /\ stack' \in Seq(Frame) /\ Len(stack') <= MaxDepth
        /\ Counted(stack', Ignoring) =
             Counted(stack, Ignoring) - (IF Top \in Ignoring THEN 1 ELSE 0)
                + (IF f \in Ignoring THEN 1 ELSE 0)
    BY <1>1, <1>3, TopSet
  <2>2. Top \notin Ignoring
    BY <1>1, <1>3, TopFrame
  <2>. QED
    BY <1>1, <1>3, <2>1, <2>2
<1>4. ASSUME stack # <<>>, Pop,
             ignore_depth' = ignore_depth - (IF Top \in Ignoring THEN 1 ELSE 0)
      PROVE  Good
  <2>1. /\ stack' \in Seq(Frame) /\ Len(stack') <= MaxDepth
        /\ Counted(stack', Ignoring) =
             Counted(stack, Ignoring) - (IF Top \in Ignoring THEN 1 ELSE 0)
    BY <1>1, <1>4, Popped
  <2>. QED
    BY <1>1, <1>4, <2>1
<1>5. ASSUME NEW t \in Immediate, NEW v \in {"shifted", "freed"}, Disturb(t, v),
             UNCHANGED ignore_depth
      PROVE  Good
  <2>1. /\ stack' \in Seq(Frame) /\ Len(stack') = Len(stack)
        /\ Counted(stack', Ignoring) = Counted(stack, Ignoring)
    BY <1>1, <1>5, Disturbed
  <2>. QED
    BY <1>1, <1>5, <2>1
<1>6. ASSUME UNCHANGED <<stack, ignore_depth>>
      PROVE  Good
  BY <1>1, <1>6
<1>7. /\ [kind |-> "public", ignoring |-> FALSE] \in Frame
      /\ [kind |-> "public", ignoring |-> FALSE] \notin Ignoring
      /\ [kind |-> "public", ignoring |-> TRUE] \in Frame
      /\ [kind |-> "public", ignoring |-> TRUE] \in Ignoring
      /\ [kind |-> "native"] \in Frame /\ [kind |-> "native"] \notin Ignoring
  BY DEF Frame, Ignoring
<1>8. \A f \in DispatchFrame : f \in Frame /\ f \notin Ignoring
  BY DEF Frame, DispatchFrame, Ignoring
<1>9. 0 \in {0} \cup Call /\ \A n \in Calls : n \in {0} \cup Call
  BY <1>1, CallNumbers
<1>10. ASSUME stack # <<>>, Top.kind = "dispatch"
       PROVE  Top \in DispatchFrame
  BY <1>1, <1>10, TopFrame
<1> HIDE DEF Good
<1>11. CASE UNCHANGED vars
  BY <1>6, <1>11 DEF vars, hookVars
<1>12. CASE ScriptNext
  <2>1. ASSUME NEW t \in Immediate, NEW f \in Listener, AddEventListener(t, f)
        PROVE  Good
    BY <1>5, <1>6, <2>1 DEF AddEventListener, hookVars
  <2>2. ASSUME NEW t \in Immediate, NEW f \in Listener, RemoveEventListener(t, f)
        PROVE  Good
    BY <1>5, <2>2 DEF RemoveEventListener, hookVars
  <2>3. ASSUME NEW t \in Immediate, RemoveEventListeners(t)
        PROVE  Good
    BY <1>5, <2>3 DEF RemoveEventListeners, hookVars
  <2>4. ASSUME NEW t \in Immediate, NEW e \in {0} \cup Call, DispatchEvent(t, e)
        PROVE  Good
    <3>1. Loop(t, 0, e) \in DispatchFrame
      BY <1>1, <1>9, LoopFrame
    <3>. QED
      BY <1>2, <1>8, <2>4, <3>1 DEF DispatchEvent, hookVars
  <2>5. ASSUME NEW e \in Calls, PreventDefault(e)
        PROVE  Good
    BY <1>6, <2>5 DEF PreventDefault, hookVars
  <2>6. CASE CallPublic
    <3>1. Push([kind |-> "public", ignoring |-> TRUE]) /\ ignore_depth' = ignore_depth + 1
      BY <2>6 DEF CallPublic, RunPublic
    <3> DEFINE f == [kind |-> "public", ignoring |-> TRUE]
    <3> HIDE DEF f
    <3>2. f \in Frame /\ f \in Ignoring
      BY <1>7 DEF f
    <3>3. /\ stack' \in Seq(Frame) /\ Len(stack') <= MaxDepth
          /\ Counted(stack', Ignoring) =
               Counted(stack, Ignoring) + (IF f \in Ignoring THEN 1 ELSE 0)
      BY <1>1, <3>1, <3>2, Pushed DEF f
    <3>. QED
      BY <1>1, <3>1, <3>2, <3>3 DEF Good
  <2>7. CASE GetDeferredEvents
    BY <1>6, <2>7 DEF GetDeferredEvents, hookVars
  <2>. QED
    BY <1>9, <1>12, <2>1, <2>2, <2>3, <2>4, <2>5, <2>6, <2>7 DEF ScriptNext
<1>13. CASE LoopNext
  <2> SUFFICES ASSUME stack # <<>>, Top.kind = "dispatch", Top \in DispatchFrame
               PROVE  Good
    BY <1>10, <1>13
       DEF LoopNext, CallListener, ReadStaleSlot, ListenerReturns, EndDispatch, TopIs
  <2>1. CASE CallListener
    <3> DEFINE g == event_listeners[Top.type].cells[Top.next + 1]
               f == [Top EXCEPT !.next = @ + 1, !.calling = TRUE, !.called = Append(@, g)]
    <3>1. Top.type \in Immediate /\ Top.next \in Nat
      BY DEF DispatchFrame
    <3>2. g \in Listener
      BY <1>1, <2>1, <3>1 DEF CallListener, PointsToListener, EventTypeOK
    <3>3. f \in DispatchFrame
      <4> HIDE DEF g
      <4>. QED
        BY <2>1, <3>2, LoopChanged DEF CallListener
    <3>4. SetTop(f) /\ UNCHANGED ignore_depth
      BY <2>1 DEF CallListener, hookVars
    <3> HIDE DEF f
    <3>. QED
      BY <1>3, <1>8, <3>3, <3>4
  <2>2. CASE ReadStaleSlot
    <3> DEFINE f == [Top EXCEPT !.next = @ + 1]
    <3>1. f \in DispatchFrame
      BY <2>2, LoopChanged DEF ReadStaleSlot
    <3>2. (SetTop(f) \/ UNCHANGED stack) /\ UNCHANGED ignore_depth
      BY <2>2 DEF ReadStaleSlot, hookVars
    <3> HIDE DEF f
    <3>. QED
      BY <1>3, <1>6, <1>8, <3>1, <3>2
  <2>3. CASE ListenerReturns
    <3> DEFINE f == [Top EXCEPT !.calling = FALSE]
    <3>1. f \in DispatchFrame
      BY DEF DispatchFrame
    <3>2. SetTop(f) /\ UNCHANGED ignore_depth
      BY <2>3 DEF ListenerReturns, hookVars
    <3> HIDE DEF f
    <3>. QED
      BY <1>3, <1>8, <3>1, <3>2
  <2>4. CASE EndDispatch
    <3>1. CASE Pop
      <4>1. ignore_depth' = ignore_depth - (IF Top \in Ignoring THEN 1 ELSE 0)
        BY <1>1, <1>8, <2>4 DEF EndDispatch, hookVars
      <4>. QED
        BY <1>4, <3>1, <4>1
    <3>2. CASE SetTop([kind |-> "public", ignoring |-> FALSE])
      BY <1>3, <1>7, <2>4, <3>2 DEF EndDispatch, hookVars
    <3>. QED
      BY <2>4, <3>1, <3>2 DEF EndDispatch
  <2>. QED
    BY <1>13, <2>1, <2>2, <2>3, <2>4 DEF LoopNext
<1>14. CASE HookNext
  <2>1. CASE OnGamemodeLoaded
    BY <1>6, <2>1 DEF OnGamemodeLoaded
  <2>2. ASSUME NEW name \in Public,
               OnExecutePasses(name) \/ OnExecuteDefers(name) \/ OnExecuteUnheard(name)
        PROVE  Good
    BY <1>2, <1>7, <2>2
       DEF OnExecutePasses, OnExecuteDefers, OnExecuteUnheard, Exec, RunPublic
  <2>3. ASSUME NEW name \in Public, OnExecuteDispatches(name)
        PROVE  Good
    <3>1. New \in Call /\ name \in Immediate
      BY <1>1, <2>3, CallNumbers DEF OnExecuteDispatches, Exec
    <3>2. Loop(name, New, New) \in DispatchFrame
      BY <1>1, <3>1, LoopFrame
    <3>. QED
      BY <1>2, <1>8, <2>3, <3>2 DEF OnExecuteDispatches, Exec
  <2>4. CASE PublicReturns
    <3>1. stack # <<>> /\ Top.kind = "public" /\ Pop
      BY <2>4 DEF PublicReturns, TopIs
    <3>2. Top.ignoring <=> Top \in Ignoring
      BY <1>1, <3>1, TopFrame
    <3>3. ignore_depth' = ignore_depth - (IF Top \in Ignoring THEN 1 ELSE 0)
      BY <1>1, <2>4, <3>2 DEF PublicReturns
    <3>. QED
      BY <1>4, <3>1, <3>3
  <2>5. CASE CallNative
    BY <1>2, <1>7, <2>5 DEF CallNative, hookVars
  <2>6. CASE NativeReturns
    <3>1. stack # <<>> /\ Top.kind = "native" /\ Pop /\ UNCHANGED ignore_depth
      BY <2>6 DEF NativeReturns, TopIs, hookVars
    <3>2. Top \notin Ignoring
      BY <1>1, <3>1, TopFrame
    <3>3. ignore_depth' = ignore_depth - (IF Top \in Ignoring THEN 1 ELSE 0)
      BY <1>1, <3>1, <3>2
    <3>. QED
      BY <1>4, <3>1, <3>3
  <2>. QED
    BY <1>14, <2>1, <2>2, <2>3, <2>4, <2>5, <2>6 DEF HookNext
<1>. QED
  BY <1>11, <1>12, <1>13, <1>14 DEF Next

(***************************************************************************)
(* The rest of the types.                                                  *)
(***************************************************************************)

ListenersOK ==
  /\ event_listeners \in
       [Immediate -> [cells : Seq(Listener), capacity : 0 .. 2 * MaxChanges]]
  /\ changes \in 0 .. MaxChanges
  /\ \A t \in Immediate : /\ Len(event_listeners[t].cells) <= event_listeners[t].capacity
                          /\ Len(event_listeners[t].cells) <= changes

\* Vectors fit in their capacity, which only doubles when they are full.
LEMMA ListenersStep == DispatchInv /\ [Next]_vars => ListenersOK'
<1> SUFFICES ASSUME DispatchInv, [Next]_vars PROVE ListenersOK'
  OBVIOUS
<1>1. ListenersOK /\ EventTypeOK /\ BoundsInv /\ MaxChanges \in Nat
  BY EventAssumption DEF DispatchInv, EventTypeOK, BoundsInv, ListenersOK, EventAssumption
<1>2. CASE UNCHANGED listenerVars
  BY <1>1, <1>2 DEF listenerVars, ListenersOK
<1>3. ASSUME NEW t \in Immediate, NEW list \in Seq(Listener),
             NEW capacity \in 0 .. 2 * MaxChanges,
             Len(list) <= capacity, Len(list) <= changes + 1,
             SetListeners(t, list, capacity)
      PROVE  ListenersOK'
  <2>1. changes' = changes + 1 /\ changes' \in 0 .. MaxChanges /\ changes \in Nat
    BY <1>1, <1>3 DEF SetListeners, ListenersOK
  <2>2. event_listeners' =
          [event_listeners EXCEPT ![t] = [cells |-> list, capacity |-> capacity]]
    BY <1>3 DEF SetListeners
  <2>3. event_listeners' \in
          [Immediate -> [cells : Seq(Listener), capacity : 0 .. 2 * MaxChanges]]
    BY <1>1, <2>2 DEF ListenersOK
  <2>4. ASSUME NEW u \in Immediate
        PROVE  /\ Len(event_listeners'[u].cells) <= event_listeners'[u].capacity
               /\ Len(event_listeners'[u].cells) <= changes'
    <3>1. CASE u = t
      BY <1>1, <1>3, <2>1, <2>2, <3>1 DEF ListenersOK
    <3>2. CASE u # t
      <4>1. /\ event_listeners'[u] = event_listeners[u]
            /\ Len(event_listeners[u].cells) \in Nat
            /\ Len(event_listeners[u].cells) <= event_listeners[u].capacity
            /\ Len(event_listeners[u].cells) <= changes
        BY <1>1, <2>2, <3>2 DEF ListenersOK
      <4>. QED
        BY <2>1, <4>1
    <3>. QED
      BY <3>1, <3>2
  <2>. QED
    BY <2>1, <2>3, <2>4 DEF ListenersOK
<1>4. ASSUME NEW t \in Immediate
      PROVE  /\ event_listeners[t].cells \in Seq(Listener)
             /\ Len(event_listeners[t].cells) \in Nat
             /\ event_listeners[t].capacity \in 0 .. 2 * MaxChanges
             /\ Len(event_listeners[t].cells) <= event_listeners[t].capacity
             /\ Len(event_listeners[t].cells) <= changes
             /\ changes \in Nat
  BY <1>1 DEF ListenersOK
<1>5. ASSUME NEW t \in Immediate, NEW f \in Listener, AddEventListener(t, f)
      PROVE  ListenersOK'
  <2> DEFINE list == event_listeners[t].cells
             capacity == event_listeners[t].capacity
  <2>1. /\ Append(list, f) \in Seq(Listener) /\ Len(Append(list, f)) = Len(list) + 1
        /\ changes < MaxChanges
    BY <1>4, <1>5 DEF AddEventListener, SetListeners
  <2>2. CASE Len(list) < capacity /\ SetListeners(t, Append(list, f), capacity)
    <3> DEFINE longer == Append(list, f)
    <3>1. /\ longer \in Seq(Listener) /\ Len(longer) <= capacity
          /\ Len(longer) <= changes + 1
          /\ capacity \in 0 .. 2 * MaxChanges
      BY <1>4, <2>1, <2>2
    <3> HIDE DEF longer, capacity
    <3>. QED
      BY <1>3, <2>2, <3>1 DEF longer
  <2>3. CASE /\ Len(list) = capacity
             /\ SetListeners(t, Append(list, f), IF capacity = 0 THEN 1 ELSE 2 * capacity)
    <3> DEFINE more == IF capacity = 0 THEN 1 ELSE 2 * capacity
    <3>1. more \in 0 .. 2 * MaxChanges /\ Len(Append(list, f)) <= more
      BY <1>1, <1>4, <2>1, <2>3
    <3>2. Len(Append(list, f)) <= changes + 1
      BY <1>4, <2>1
    <3>3. SetListeners(t, Append(list, f), more)
      BY <2>3
    <3> HIDE DEF more
    <3>. QED
      BY <1>3, <2>1, <3>1, <3>2, <3>3
  <2>. QED
    BY <1>5, <2>2, <2>3 DEF AddEventListener
<1>6. ASSUME NEW t \in Immediate, NEW f \in Listener, RemoveEventListener(t, f)
      PROVE  ListenersOK'
  <2> DEFINE left == Without(event_listeners[t].cells, f)
  <2>1. left \in Seq(Listener) /\ Len(left) <= Len(event_listeners[t].cells)
    BY <1>4, WithoutProperties
  <2>2. SetListeners(t, left, event_listeners[t].capacity)
    BY <1>6 DEF RemoveEventListener
  <2> HIDE DEF left
  <2>3. Len(left) \in Nat
    BY <2>1
  <2>. QED
    BY <1>3, <1>4, <2>1, <2>2, <2>3
<1>7. ASSUME NEW t \in Immediate, RemoveEventListeners(t)
      PROVE  ListenersOK'
  <2>1. SetListeners(t, <<>>, 0)
    BY <1>7 DEF RemoveEventListeners
  <2> DEFINE none == <<>>
  <2>2. /\ none \in Seq(Listener) /\ Len(none) = 0 /\ 0 \in 0 .. 2 * MaxChanges
        /\ Len(none) <= 0 /\ Len(none) <= changes + 1
    BY <1>1, <1>4
  <2> HIDE DEF none
  <2>. QED
    BY <1>3, <2>1, <2>2 DEF none
<1>8. CASE ScriptNext
  BY <1>2, <1>5, <1>6, <1>7, <1>8
     DEF ScriptNext, DispatchEvent, PreventDefault, CallPublic, GetDeferredEvents
<1>9. CASE LoopNext
  BY <1>2, <1>9 DEF LoopNext, CallListener, ReadStaleSlot, ListenerReturns, EndDispatch
<1>10. CASE HookNext
  BY <1>2, <1>10
     DEF HookNext, OnGamemodeLoaded, OnExecutePasses, OnExecuteDefers, OnExecuteUnheard,
         OnExecuteDispatches, Exec, PublicReturns, CallNative, NativeReturns
<1>11. CASE UNCHANGED vars
  BY <1>2, <1>11 DEF vars
<1>. QED
  BY <1>8, <1>9, <1>10, <1>11 DEF Next

CallsOK ==
  /\ gamemode \in {"none", "loading", "loaded"}
  /\ deferred_events \subseteq [call : Call, arguments : Call]
  /\ arguments \in {0} \cup Call
  /\ asked \in Seq([name : Public, inside : BOOLEAN]) /\ Len(asked) <= MaxCalls
  /\ event \in [Call -> {0} \cup Call]
  /\ prevented \subseteq {n \in Call : event[n] # 0}
  /\ delivered \in [Call -> Seq(Call)]
  /\ crashed \in BOOLEAN

\* Only events that were made can be prevented.
LEMMA CallsStep == DispatchInv /\ [Next]_vars => CallsOK'
<1> SUFFICES ASSUME DispatchInv, [Next]_vars PROVE CallsOK'
  OBVIOUS
<1>1. CallsOK /\ EventTypeOK /\ BoundsInv
  BY DEF DispatchInv, EventTypeOK, BoundsInv, CallsOK
<1> DEFINE callVars == <<deferred_events, delivered, arguments, asked, eventVars>>
<1>2. ASSUME UNCHANGED <<gamemode, callVars>>, crashed' \in BOOLEAN
      PROVE  CallsOK'
  BY <1>1, <1>2 DEF eventVars, CallsOK
<1>3. /\ Len(asked) \in Nat /\ Calls = 1 .. Len(asked) /\ Calls \subseteq Call
      /\ New = Len(asked) + 1
      /\ New <= MaxCalls => New \in Call
  BY <1>1, CallNumbers
<1>4. ASSUME NEW name \in Public, Exec(name),
             arguments' \in {0} \cup Call,
             deferred_events' \subseteq [call : Call, arguments : Call],
             UNCHANGED delivered,
             event' = event \/ event' = [event EXCEPT ![New] = New]
      PROVE  CallsOK'
  <2>1. New \in Call /\ New # 0 /\ New <= MaxCalls
    BY <1>3, <1>4 DEF Exec
  <2>2. asked' \in Seq([name : Public, inside : BOOLEAN]) /\ Len(asked') = Len(asked) + 1
    <3> DEFINE b == Inside \/ gamemode # "loaded"
    <3>1. b \in BOOLEAN
      BY Zenon
    <3>2. asked' = Append(asked, [name |-> name, inside |-> b])
      BY <1>4 DEF Exec
    <3> HIDE DEF b
    <3>. QED
      BY <1>1, <3>1, <3>2 DEF CallsOK
  <2>3. event' \in [Call -> {0} \cup Call] /\ \A n \in Call : event[n] # 0 => event'[n] # 0
    BY <1>1, <1>4, <2>1 DEF CallsOK
  <2>4. UNCHANGED <<gamemode, prevented, crashed>>
    BY <1>4 DEF Exec
  <2>. QED
    BY <1>1, <1>3, <1>4, <2>1, <2>2, <2>3, <2>4 DEF CallsOK
<1>5. ASSUME NEW e \in Calls, PreventDefault(e)
      PROVE  CallsOK'
  <2>1. PICK k \in DOMAIN stack : stack[k].kind = "dispatch" /\ stack[k].event = e
    BY <1>5 DEF PreventDefault
  <2>2. e \in Call /\ e # 0
    BY <1>3 DEF Call
  <2>3. event[e] # 0
    BY <2>1, <2>2 DEF DispatchInv, LoopsInv, EventOfLoop
  <2>. QED
    BY <1>1, <1>5, <2>2, <2>3 DEF PreventDefault, CallsOK, hookVars, deferredVars
<1>6. CASE GetDeferredEvents
  <2>1. ASSUME NEW n \in Call
        PROVE  delivered'[n] \in Seq(Call)
    <3> DEFINE found == {d \in deferred_events : d.call = n}
               one == CHOOSE d \in found : TRUE
    <3>1. delivered'[n] = IF found = {} THEN delivered[n]
                          ELSE Append(delivered[n], one.arguments)
      BY <1>6 DEF GetDeferredEvents
    <3>2. delivered[n] \in Seq(Call)
      BY <1>1 DEF CallsOK
    <3>3. found # {} => one \in [call : Call, arguments : Call]
      BY <1>1 DEF CallsOK
    <3> HIDE DEF found, one
    <3>4. found # {} => one.arguments \in Call
      BY <3>3
    <3>. QED
      BY <3>1, <3>2, <3>4
  <2>2. delivered' \in [Call -> Seq(Call)]
    BY <1>6, <2>1 DEF GetDeferredEvents
  <2>3. /\ deferred_events' = {}
        /\ UNCHANGED <<gamemode, arguments, asked, event, prevented, crashed>>
    BY <1>6 DEF GetDeferredEvents, hookVars, eventVars
  <2>. QED
    BY <1>1, <2>2, <2>3 DEF CallsOK
<1>7. CASE ScriptNext
  BY ZenonT(40), <1>1, <1>2, <1>5, <1>6, <1>7
     DEF ScriptNext, AddEventListener, RemoveEventListener, RemoveEventListeners,
         DispatchEvent, CallPublic, CallsOK, hookVars, deferredVars
<1>8. CASE LoopNext
  BY <1>1, <1>2, <1>8
     DEF LoopNext, CallListener, ReadStaleSlot, ListenerReturns, EndDispatch, CallsOK,
         hookVars, deferredVars
<1>9. CASE HookNext
  <2>1. CASE OnGamemodeLoaded
    BY <1>1, <2>1 DEF OnGamemodeLoaded, CallsOK, deferredVars, eventVars
  <2>2. ASSUME NEW name \in Public, OnExecutePasses(name)
        PROVE  CallsOK'
    BY <1>1, <1>4, <2>2 DEF OnExecutePasses, CallsOK, deferredVars
  <2>3. ASSUME NEW name \in Public, OnExecuteDefers(name)
        PROVE  CallsOK'
    <3>1. New \in Call
      BY <1>3, <2>3 DEF OnExecuteDefers, Exec
    <3>2. /\ arguments' = New
          /\ deferred_events' = deferred_events \cup {[call |-> New, arguments |-> New]}
          /\ UNCHANGED <<delivered, event>> /\ Exec(name)
      BY <2>3 DEF OnExecuteDefers
    <3>3. deferred_events' \subseteq [call : Call, arguments : Call]
      BY <1>1, <3>1, <3>2 DEF CallsOK
    <3>. QED
      BY <1>4, <3>1, <3>2, <3>3
  <2>4. ASSUME NEW name \in Public, OnExecuteUnheard(name) \/ OnExecuteDispatches(name)
        PROVE  CallsOK'
    <3>1. New \in Call
      BY <1>3, <2>4 DEF OnExecuteUnheard, OnExecuteDispatches, Exec
    <3>2. /\ Exec(name) /\ arguments' = New /\ UNCHANGED <<deferred_events, delivered>>
          /\ event' = event \/ event' = [event EXCEPT ![New] = New]
      BY <2>4 DEF OnExecuteUnheard, OnExecuteDispatches, NewInstance, deferredVars
    <3>. QED
      BY <1>1, <1>4, <3>1, <3>2 DEF CallsOK
  <2>5. CASE PublicReturns
    BY <1>1, <1>2, <2>5 DEF PublicReturns, CallsOK, deferredVars
  <2>6. CASE CallNative \/ NativeReturns
    BY <1>1, <1>2, <2>6 DEF CallNative, NativeReturns, CallsOK, hookVars, deferredVars
  <2>. QED
    BY <1>9, <2>1, <2>2, <2>3, <2>4, <2>5, <2>6 DEF HookNext
<1>10. CASE UNCHANGED vars
  BY <1>1, <1>2, <1>10 DEF vars, CallsOK, hookVars, deferredVars
<1>. QED
  BY <1>7, <1>8, <1>9, <1>10 DEF Next

(***************************************************************************)
(* The loops.                                                              *)
(***************************************************************************)

\* What was asked stays, and the event of a call that was made too.
LEMMA HistoryStep ==
  ASSUME DispatchInv, [Next]_vars
  PROVE  /\ \A n \in Calls : n \in Calls' /\ asked'[n] = asked[n] /\ event'[n] = event[n]
         /\ \A n \in Call : event[n] # 0 => event'[n] # 0
<1>1. /\ asked \in Seq([name : Public, inside : BOOLEAN])
      /\ event \in [Call -> {0} \cup Call]
      /\ Len(asked) \in Nat /\ Calls = 1 .. Len(asked) /\ Calls \subseteq Call
      /\ New = Len(asked) + 1
  BY CallNumbers DEF DispatchInv, EventTypeOK
<1>2. CASE UNCHANGED <<asked, event>>
  BY <1>1, <1>2 DEF Calls
<1>3. ASSUME NEW name \in Public, Exec(name),
             event' = event \/ event' = [event EXCEPT ![New] = New]
      PROVE  /\ \A n \in Calls : n \in Calls' /\ asked'[n] = asked[n] /\ event'[n] = event[n]
             /\ \A n \in Call : event[n] # 0 => event'[n] # 0
  <2> PICK b : asked' = Append(asked, [name |-> name, inside |-> b])
    BY <1>3 DEF Exec
  <2>1. \A n \in Calls : n \in Calls' /\ asked'[n] = asked[n]
    BY <1>1, <1>3, PushPlaces DEF Calls
  <2>2. \A n \in Call : (n \in Calls => event'[n] = event[n]) /\ (event[n] # 0 => event'[n] # 0)
    BY <1>1, <1>3
  <2>. QED
    BY <1>1, <2>1, <2>2
<1>4. CASE ScriptNext
  BY <1>2, <1>4
     DEF ScriptNext, AddEventListener, RemoveEventListener, RemoveEventListeners,
         DispatchEvent, PreventDefault, CallPublic, GetDeferredEvents, hookVars, eventVars
<1>5. CASE LoopNext
  BY <1>2, <1>5
     DEF LoopNext, CallListener, ReadStaleSlot, ListenerReturns, EndDispatch,
         hookVars, eventVars
<1>6. CASE HookNext
  <2>1. ASSUME NEW name \in Public,
               OnExecutePasses(name) \/ OnExecuteDefers(name)
                 \/ OnExecuteUnheard(name) \/ OnExecuteDispatches(name)
        PROVE  Exec(name) /\ (event' = event \/ event' = [event EXCEPT ![New] = New])
    BY <2>1
       DEF OnExecutePasses, OnExecuteDefers, OnExecuteUnheard, OnExecuteDispatches, NewInstance
  <2>. QED
    BY <1>2, <1>3, <1>6, <2>1
       DEF HookNext, OnGamemodeLoaded, PublicReturns, CallNative, NativeReturns,
           hookVars, eventVars
<1>7. CASE UNCHANGED vars
  BY <1>2, <1>7 DEF vars, hookVars, eventVars
<1>. QED
  BY <1>4, <1>5, <1>6, <1>7 DEF Next

\* A loop keeps its event and its call.
LEMMA EventKept ==
  ASSUME DispatchInv, [Next]_vars, NEW f \in DispatchFrame, EventOfLoop(f),
         NEW g \in DispatchFrame, g.event = f.event, g.call = f.call
  PROVE  EventOfLoop(g)'
<1>1. Calls \subseteq Call /\ f.event \in {0} \cup Call
  BY CallNumbers DEF DispatchInv, DispatchFrame
<1>2. f.event # 0 => event'[f.event] # 0
  BY <1>1, HistoryStep DEF EventOfLoop
<1>3. f.call # 0 =>
        /\ f.event = f.call /\ f.call \in Calls' /\ event'[f.call] = f.call
        /\ ~asked'[f.call].inside
  BY HistoryStep DEF EventOfLoop
<1>. QED
  BY <1>2, <1>3 DEF EventOfLoop

\* A loop whose place in the vector is lost, or that looks at the same vector.
LEMMA TurnsKept ==
  ASSUME NEW f \in DispatchFrame, TurnsOfLoop(f), NEW g \in DispatchFrame,
         g.next = f.next, g.end = f.end, g.type = f.type, g.called = f.called,
         \/ g.vector \in {"shifted", "freed"}
         \/ g.vector = f.vector /\ event_listeners'[f.type] = event_listeners[f.type]
  PROVE  TurnsOfLoop(g)'
  BY DEF TurnsOfLoop

\* Loops that have just begun.
LEMMA NewLoop ==
  ASSUME EventTypeOK, UNCHANGED event_listeners, NEW t \in Immediate, NEW n, NEW e,
         NEW f, f = Loop(t, n, e)
  PROVE  TurnsOfLoop(f)'
<1>1. event_listeners[t].cells \in Seq(Listener)
  BY DEF EventTypeOK
<1>2. SubSeq(event_listeners[t].cells, 1, 0) = <<>> /\ 0 <= Len(event_listeners[t].cells)
  BY <1>1, PrefixPlaces
<1>. QED
  BY <1>2 DEF TurnsOfLoop, Loop

\* In every step, each loop is one that was there before, with another turn
\* taken perhaps, or has just begun.
LEMMA LoopsStep == DispatchInv /\ [Next]_vars => LoopsInv'
<1> SUFFICES ASSUME DispatchInv, [Next]_vars,
                    NEW k \in DOMAIN stack', stack'[k].kind = "dispatch"
             PROVE  EventOfLoop(stack[k])' /\ TurnsOfLoop(stack[k])'
  BY DEF LoopsInv
<1> DEFINE Good == EventOfLoop(stack[k])' /\ TurnsOfLoop(stack[k])'
<1> SUFFICES Good
  OBVIOUS
<1>1. EventTypeOK /\ BoundsInv /\ stack \in Seq(Frame) /\ DOMAIN stack = 1 .. Len(stack)
        /\ Len(stack) \in Nat
  BY DEF DispatchInv, EventTypeOK
<1>2. \A j \in DOMAIN stack : stack[j].kind = "dispatch" =>
         /\ stack[j] \in DispatchFrame
         /\ EventOfLoop(stack[j]) /\ TurnsOfLoop(stack[j])
         /\ stack[j].type \in Immediate
  BY <1>1 DEF DispatchInv, LoopsInv, Frame, DispatchFrame
<1>3. \* a frame that is as it was
      ASSUME k \in DOMAIN stack, stack'[k] = stack[k], UNCHANGED event_listeners
      PROVE  Good
  BY <1>2, <1>3, EventKept, TurnsKept
<1>4. CASE UNCHANGED stack /\ UNCHANGED event_listeners
  BY <1>3, <1>4
<1>5. ASSUME NEW f \in Frame, f.kind # "dispatch", Push(f), UNCHANGED event_listeners
      PROVE  Good
  <2>1. /\ stack' \in Seq(Frame) /\ Len(stack') = Len(stack) + 1
        /\ stack'[Len(stack) + 1] = f
        /\ \A j \in DOMAIN stack : j \in DOMAIN stack' /\ stack'[j] = stack[j]
    BY <1>1, <1>5, Pushed
  <2>2. k \in DOMAIN stack
    BY <1>1, <1>5, <2>1
  <2>. QED
    BY <1>3, <1>5, <2>1, <2>2
<1>6. ASSUME NEW t \in Immediate, NEW n \in {0} \cup Call, NEW e \in {0} \cup Call,
             NEW f, f = Loop(t, n, e), Push(f), UNCHANGED event_listeners,
             EventOfLoop(f)'
      PROVE  Good
  <2>1. f \in Frame
    BY <1>1, <1>6, LoopFrame DEF Frame
  <2>2. /\ stack' \in Seq(Frame) /\ Len(stack') = Len(stack) + 1
        /\ stack'[Len(stack) + 1] = f
        /\ \A j \in DOMAIN stack : j \in DOMAIN stack' /\ stack'[j] = stack[j]
    BY <1>1, <1>6, <2>1, Pushed
  <2>3. CASE k \in DOMAIN stack
    BY <1>3, <1>6, <2>2, <2>3
  <2>4. CASE k = Len(stack) + 1
    <3>1. TurnsOfLoop(f)'
      BY <1>1, <1>6, NewLoop
    <3>. QED
      BY <1>6, <2>2, <2>4, <3>1 DEF TurnsOfLoop, EventOfLoop
  <2>. QED
    BY <1>1, <2>2, <2>3, <2>4
<1>7. ASSUME stack # <<>>, NEW f \in Frame, SetTop(f), UNCHANGED event_listeners,
             f.kind = "dispatch" => EventOfLoop(f)' /\ TurnsOfLoop(f)'
      PROVE  Good
  <2>1. /\ DOMAIN stack' = DOMAIN stack /\ stack'[Len(stack)] = f
        /\ \A j \in DOMAIN stack : j # Len(stack) => stack'[j] = stack[j]
    BY <1>1, <1>7, TopSet
  <2>. QED
    BY <1>3, <1>7, <2>1 DEF TurnsOfLoop, EventOfLoop
<1>8. ASSUME stack # <<>>, Pop, UNCHANGED event_listeners
      PROVE  Good
  BY <1>1, <1>3, <1>8, Popped
<1>9. \* the vector of t is touched
      ASSUME NEW t \in Immediate, NEW v \in {"shifted", "freed"}, Disturb(t, v),
             \A u \in Immediate : u # t => event_listeners'[u] = event_listeners[u]
      PROVE  Good
  <2>1. /\ DOMAIN stack' = DOMAIN stack
        /\ \A j \in DOMAIN stack :
             \/ /\ stack'[j] = stack[j]
                /\ stack[j].kind = "dispatch" => stack[j].type # t
             \/ /\ stack[j] \in DispatchFrame /\ stack[j].type = t
                /\ \E w \in {"shifted", "freed"} :
                     stack'[j] = [stack[j] EXCEPT !.vector = w]
    BY <1>1, <1>9, Disturbed
  <2>2. CASE stack'[k] = stack[k] /\ stack[k].type # t
    BY <1>2, <1>9, <2>1, <2>2, EventKept, TurnsKept
  <2>3. ASSUME stack[k] \in DispatchFrame, NEW w \in {"shifted", "freed"},
               stack'[k] = [stack[k] EXCEPT !.vector = w]
        PROVE  Good
    <3>1. /\ stack'[k] \in DispatchFrame
          /\ stack'[k].event = stack[k].event /\ stack'[k].call = stack[k].call
          /\ stack'[k].next = stack[k].next /\ stack'[k].end = stack[k].end
          /\ stack'[k].type = stack[k].type /\ stack'[k].called = stack[k].called
          /\ stack'[k].vector = w
      BY <2>3 DEF DispatchFrame
    <3>2. stack[k].kind = "dispatch"
      BY <2>3 DEF DispatchFrame
    <3>. QED
      BY <1>2, <2>1, <3>1, <3>2, EventKept, TurnsKept
  <2>. QED
    BY <2>1, <2>2, <2>3
<1> HIDE DEF Good
<1>10. ASSUME NEW t \in Immediate, NEW list, NEW capacity, SetListeners(t, list, capacity)
       PROVE  /\ \A u \in Immediate : u # t => event_listeners'[u] = event_listeners[u]
              /\ event_listeners'[t].cells = list
  BY <1>1, <1>10 DEF SetListeners, EventTypeOK
<1>11. CASE UNCHANGED vars
  BY <1>4, <1>11 DEF vars, listenerVars
<1>12. CASE ScriptNext
  <2>1. ASSUME NEW t \in Immediate, NEW f \in Listener, AddEventListener(t, f)
        PROVE  Good
    <3>1. CASE \E capacity : SetListeners(t, Append(event_listeners[t].cells, f), capacity)
                               /\ UNCHANGED stack
      <4> USE DEF Good
      <4>1. /\ \A u \in Immediate : u # t => event_listeners'[u] = event_listeners[u]
            /\ event_listeners'[t].cells = Append(event_listeners[t].cells, f)
        BY <1>10, <3>1
      <4>2. stack[k].kind = "dispatch" /\ k \in DOMAIN stack /\ stack'[k] = stack[k]
        BY <3>1
      <4>3. EventOfLoop(stack[k])'
        BY <1>2, <4>2, EventKept
      <4>4. CASE stack[k].type # t
        BY <1>2, <4>1, <4>2, <4>3, <4>4, TurnsKept
      <4>5. CASE stack[k].type = t /\ stack[k].vector # "intact"
        BY <1>2, <4>2, <4>3, <4>5 DEF TurnsOfLoop
      <4>6. CASE stack[k].type = t /\ stack[k].vector = "intact"
        <5> DEFINE list == event_listeners[t].cells
        <5>1. /\ list \in Seq(Listener) /\ stack[k].next \in Nat /\ stack[k].end \in Nat
              /\ stack[k].next <= stack[k].end /\ stack[k].end <= Len(list)
              /\ stack[k].called = SubSeq(list, 1, stack[k].next)
          <6>1. stack[k] \in DispatchFrame /\ TurnsOfLoop(stack[k])
            BY <1>2, <4>2
          <6>2. list \in Seq(Listener)
            BY <1>1 DEF EventTypeOK
          <6>3. stack[k].next \in Nat /\ stack[k].end \in Nat
            BY <6>1, EventAssumption DEF DispatchFrame, EventAssumption
          <6>. QED
            BY <4>6, <6>1, <6>2, <6>3 DEF TurnsOfLoop
        <5>2. stack[k].next \in 0 .. Len(list) /\ Len(Append(list, f)) = Len(list) + 1
          BY <5>1
        <5>3. SubSeq(Append(list, f), 1, stack[k].next) = SubSeq(list, 1, stack[k].next)
          BY <5>1, <5>2, PrefixPlaces
        <5>4. stack[k].end <= Len(Append(list, f))
          BY <5>1, <5>2
        <5> HIDE DEF list
        <5>5. event_listeners'[t].cells = Append(list, f)
          BY <4>1 DEF list
        <5>. QED
          BY <4>2, <4>3, <4>6, <5>1, <5>3, <5>4, <5>5 DEF TurnsOfLoop
      <4>. QED
        BY <4>4, <4>5, <4>6
    <3>2. CASE Disturb(t, "freed")
      BY <1>9, <1>10, <2>1, <3>2 DEF AddEventListener
    <3>. QED
      BY <2>1, <3>1, <3>2 DEF AddEventListener
  <2>2. ASSUME NEW t \in Immediate, NEW f \in Listener, RemoveEventListener(t, f)
        PROVE  Good
    BY <1>9, <1>10, <2>2 DEF RemoveEventListener
  <2>3. ASSUME NEW t \in Immediate, RemoveEventListeners(t)
        PROVE  Good
    BY <1>9, <1>10, <2>3 DEF RemoveEventListeners
  <2>4. ASSUME NEW t \in Immediate, NEW e \in {0} \cup Call, e # 0 => event[e] # 0,
               DispatchEvent(t, e)
        PROVE  Good
    <3> PICK f : f = Loop(t, 0, e)
      OBVIOUS
    <3>1. EventOfLoop(f)'
      BY <2>4 DEF DispatchEvent, eventVars, EventOfLoop, Loop
    <3>. QED
      BY <1>6, <2>4, <3>1 DEF DispatchEvent, listenerVars
  <2>5. CASE CallPublic
    <3> DEFINE f == [kind |-> "public", ignoring |-> TRUE]
    <3>1. f \in Frame /\ f.kind # "dispatch"
      BY DEF Frame
    <3> HIDE DEF f
    <3>2. Push(f) /\ UNCHANGED event_listeners
      BY <2>5 DEF CallPublic, RunPublic, f, listenerVars
    <3>. QED
      BY <1>5, <3>1, <3>2
  <2>6. CASE GetDeferredEvents \/ \E e \in Calls : PreventDefault(e)
    BY <1>4, <2>6 DEF GetDeferredEvents, PreventDefault, listenerVars
  <2>7. Calls \subseteq Call
    BY <1>1, CallNumbers
  <2>. QED
    BY <1>12, <2>1, <2>2, <2>3, <2>4, <2>5, <2>6, <2>7 DEF ScriptNext
<1>13. CASE LoopNext
  <2> SUFFICES ASSUME stack # <<>>, Top.kind = "dispatch", UNCHANGED event_listeners
               PROVE  Good
    BY <1>13
       DEF LoopNext, CallListener, ReadStaleSlot, ListenerReturns, EndDispatch, TopIs,
           listenerVars
  <2> DEFINE list == event_listeners[Top.type].cells
  <2>1. /\ Top \in DispatchFrame /\ EventOfLoop(Top) /\ TurnsOfLoop(Top)
        /\ Top.type \in Immediate /\ list \in Seq(Listener)
        /\ Top.next \in Nat /\ Top.end \in Nat
    <3>1. Top \in DispatchFrame /\ EventOfLoop(Top) /\ TurnsOfLoop(Top)
      BY <1>1, <1>2 DEF Top
    <3>2. Top.type \in Immediate
      BY <3>1 DEF DispatchFrame
    <3>. QED
      BY <1>1, <3>1, <3>2, EventAssumption
         DEF EventTypeOK, DispatchFrame, EventAssumption
  <2>2. CASE CallListener
    <3> DEFINE g == list[Top.next + 1]
    <3> PICK f :
          f = [Top EXCEPT !.next = @ + 1, !.calling = TRUE, !.called = Append(@, g)]
      OBVIOUS
    <3>1. /\ SetTop(f) /\ Top.next < Top.end
          /\ Top.vector # "freed" /\ Top.next < Len(list)
      BY <2>2 DEF CallListener, PointsToListener
    <3>2. g \in Listener
      BY <2>1, <3>1
    <3>3. f \in DispatchFrame
      <4> HIDE DEF g
      <4>. QED
        BY <2>1, <3>1, <3>2, LoopChanged
    <3>4. /\ f.event = Top.event /\ f.call = Top.call /\ f.end = Top.end
          /\ f.next = Top.next + 1 /\ f.type = Top.type /\ f.vector = Top.vector
          /\ f.called = Append(Top.called, g)
      BY <2>1 DEF DispatchFrame
    <3>5. Top.vector = "intact" =>
            /\ f.end <= Len(list)
            /\ f.called = SubSeq(list, 1, f.next)
      <4> SUFFICES ASSUME Top.vector = "intact"
                   PROVE  f.end <= Len(list) /\ f.called = SubSeq(list, 1, f.next)
        OBVIOUS
      <4>1. Top.end <= Len(list) /\ Top.called = SubSeq(list, 1, Top.next)
        BY <2>1 DEF TurnsOfLoop
      <4>2. SubSeq(list, 1, Top.next + 1) = Append(SubSeq(list, 1, Top.next), g)
        <5>1. Top.next \in 0 .. Len(list) - 1
          BY <2>1, <3>1
        <5> HIDE DEF list
        <5>. QED
          BY <2>1, <5>1, PrefixPlaces
      <4> HIDE DEF list, g
      <4>. QED
        BY <3>4, <4>1, <4>2
    <3>6. EventOfLoop(f)'
      BY <2>1, <3>3, <3>4, EventKept
    <3>7. TurnsOfLoop(f)'
      BY SMTT(30), <2>1, <3>1, <3>4, <3>5 DEF TurnsOfLoop
    <3>8. f \in Frame
      BY <3>3 DEF Frame
    <3>. QED
      BY <1>7, <3>1, <3>6, <3>7, <3>8
  <2>3. CASE ReadStaleSlot
    <3> PICK f : f = [Top EXCEPT !.next = @ + 1]
      OBVIOUS
    <3>1. Top.next < Top.end /\ (SetTop(f) \/ UNCHANGED stack)
      BY <2>3 DEF ReadStaleSlot
    <3>2. f \in DispatchFrame
      BY <2>1, <3>1, LoopChanged
    <3>3. /\ f.event = Top.event /\ f.call = Top.call /\ f.end = Top.end
          /\ f.next = Top.next + 1 /\ f.vector = Top.vector
      BY <2>1 DEF DispatchFrame
    <3>4. Top.vector # "intact"
      BY <2>1, <2>3, <3>1 DEF ReadStaleSlot, PointsToListener, TurnsOfLoop
    <3>5. EventOfLoop(f)'
      BY <2>1, <3>2, <3>3, EventKept
    <3>6. TurnsOfLoop(f)'
      BY <2>1, <3>1, <3>3, <3>4 DEF TurnsOfLoop
    <3>7. f \in Frame
      BY <3>2 DEF Frame
    <3>. QED
      BY <1>4, <1>7, <3>1, <3>5, <3>6, <3>7
  <2>4. CASE ListenerReturns
    <3> PICK f : f = [Top EXCEPT !.calling = FALSE]
      OBVIOUS
    <3>1. SetTop(f)
      BY <2>4 DEF ListenerReturns
    <3>2. f \in DispatchFrame
      BY <2>1 DEF DispatchFrame
    <3>3. /\ f.event = Top.event /\ f.call = Top.call /\ f.end = Top.end
          /\ f.next = Top.next /\ f.vector = Top.vector /\ f.type = Top.type
          /\ f.called = Top.called
      BY <2>1 DEF DispatchFrame
    <3>4. EventOfLoop(f)' /\ TurnsOfLoop(f)'
      BY <2>1, <3>2, <3>3, EventKept, TurnsKept
    <3>5. f \in Frame
      BY <3>2 DEF Frame
    <3>. QED
      BY <1>7, <3>1, <3>4, <3>5
  <2>5. CASE EndDispatch
    <3> DEFINE f == [kind |-> "public", ignoring |-> FALSE]
    <3>1. f \in Frame /\ f.kind # "dispatch"
      BY DEF Frame
    <3>2. Pop \/ SetTop(f)
      BY <2>5 DEF EndDispatch
    <3> HIDE DEF f
    <3>. QED
      BY <1>7, <1>8, <3>1, <3>2
  <2>. QED
    BY <1>13, <2>2, <2>3, <2>4, <2>5 DEF LoopNext
<1>14. CASE HookNext
  <2> DEFINE p == [kind |-> "public", ignoring |-> FALSE]
             n == [kind |-> "native"]
  <2>1. p \in Frame /\ p.kind # "dispatch" /\ n \in Frame /\ n.kind # "dispatch"
    BY DEF Frame
  <2>2. ASSUME NEW name \in Public,
               OnExecutePasses(name) \/ OnExecuteDefers(name) \/ OnExecuteUnheard(name)
        PROVE  Good
    <3>1. Push(p) /\ UNCHANGED event_listeners
      BY <2>2 DEF OnExecutePasses, OnExecuteDefers, OnExecuteUnheard, Exec, RunPublic,
                  listenerVars
    <3> HIDE DEF p
    <3>. QED
      BY <1>5, <2>1, <3>1
  <2>3. ASSUME NEW name \in Public, OnExecuteDispatches(name)
        PROVE  Good
    <3>1. /\ New \in Call /\ New # 0 /\ New = Len(asked) + 1 /\ name \in Immediate
          /\ Len(asked) \in Nat
      BY <1>1, <2>3, CallNumbers DEF OnExecuteDispatches, Exec, Call
    <3>2. /\ Push(Loop(name, New, New)) /\ UNCHANGED event_listeners
          /\ event' = [event EXCEPT ![New] = New]
          /\ Exec(name) /\ Intercepts(name)
      BY <2>3 DEF OnExecuteDispatches, NewInstance, Exec, listenerVars
    <3>3. event'[New] = New
      BY <1>1, <3>1, <3>2 DEF EventTypeOK
    <3>4. New \in Calls' /\ ~asked'[New].inside
      <4>1. ~(Inside \/ gamemode # "loaded")
        BY <1>1, <3>2, DepthCounts DEF DispatchInv, Intercepts
      <4>2. asked' = Append(asked, [name |-> name, inside |-> Inside \/ gamemode # "loaded"])
        BY <3>2 DEF Exec
      <4> DEFINE r == [name |-> name, inside |-> Inside \/ gamemode # "loaded"]
      <4>3. ~r.inside
        BY <4>1
      <4> HIDE DEF r
      <4>4. asked' = Append(asked, r)
        BY <4>2 DEF r
      <4>5. asked \in Seq([name : Public, inside : BOOLEAN])
        BY <1>1 DEF EventTypeOK
      <4>. QED
        BY <3>1, <4>3, <4>4, <4>5, PushPlaces DEF Calls
    <3> PICK f : f = Loop(name, New, New)
      OBVIOUS
    <3>5. f.event = New /\ f.call = New
      BY DEF Loop
    <3>6. EventOfLoop(f)'
      <4> PICK m : m = New
        OBVIOUS
      <4>. QED
        BY <3>1, <3>3, <3>4, <3>5 DEF EventOfLoop
    <3>. QED
      BY <1>6, <3>1, <3>2, <3>6
  <2>4. CASE CallNative
    <3>1. Push(n) /\ UNCHANGED event_listeners
      BY <2>4 DEF CallNative, listenerVars
    <3> HIDE DEF n
    <3>. QED
      BY <1>5, <2>1, <3>1
  <2>5. CASE PublicReturns \/ NativeReturns
    BY <1>8, <2>5 DEF PublicReturns, NativeReturns, TopIs, listenerVars
  <2>6. CASE OnGamemodeLoaded
    BY <1>4, <2>6 DEF OnGamemodeLoaded, listenerVars
  <2>. QED
    BY <1>14, <2>2, <2>3, <2>4, <2>5, <2>6 DEF HookNext
<1>. QED
  BY <1>11, <1>12, <1>13, <1>14 DEF Next

(***************************************************************************)
(* What follows for every behaviour.                                       *)
(***************************************************************************)

\* The hook starts with nothing on the stack.
LEMMA DispatchInit == Init => DispatchInv
<1> SUFFICES ASSUME Init PROVE DispatchInv
  OBVIOUS
<1> USE DEF Init
<1>1. /\ 0 \in 0 .. MaxChanges /\ 0 \in 0 .. 2 * MaxChanges /\ 0 \in 0 .. MaxDepth
      /\ 0 <= MaxDepth /\ 0 <= MaxCalls
  BY EventAssumption DEF EventAssumption
<1>2. EventTypeOK
  <2>1. event_listeners \in
          [Immediate -> [cells : Seq(Listener), capacity : 0 .. 2 * MaxChanges]]
    BY <1>1
  <2>2. stack \in Seq(Frame) /\ asked \in Seq([name : Public, inside : BOOLEAN])
    OBVIOUS
  <2>3. \A t \in Immediate : Len(event_listeners[t].cells) <= event_listeners[t].capacity
    OBVIOUS
  <2>4. delivered \in [Call -> Seq(Call)]
    OBVIOUS
  <2>. QED
    BY <1>1, <2>1, <2>2, <2>3, <2>4 DEF EventTypeOK
<1>3. BoundsInv
  BY <1>1 DEF BoundsInv
<1>4. DepthInv
  BY CountEmpty DEF DepthInv
<1>5. LoopsInv
  BY DEF LoopsInv
<1>. QED
  BY <1>2, <1>3, <1>4, <1>5 DEF DispatchInv

\* The invariant is inductive.
LEMMA DispatchStep == DispatchInv /\ [Next]_vars => DispatchInv'
<1> SUFFICES ASSUME DispatchInv, [Next]_vars PROVE DispatchInv'
  OBVIOUS
<1>1. StackOK' /\ ListenersOK' /\ CallsOK' /\ LoopsInv'
  BY StackStep, ListenersStep, CallsStep, LoopsStep
<1>. QED
  BY <1>1
     DEF DispatchInv, EventTypeOK, BoundsInv, DepthInv, StackOK, ListenersOK, CallsOK

\* The stack is what the hook's counter says, and every loop over listeners
\* has a good place in its vector or knows that it is lost.
THEOREM DispatchInvariant == Spec => []DispatchInv
<1>. QED
  BY DispatchInit, DispatchStep, PTL DEF Spec

\* Types, and: no callback reaches a listener while a CallPublic has not
\* returned, however the calls are nested (ScopedIgnore counts).
THEOREM EventCorrect == Spec => []EventInv
<1>1. DispatchInv => EventInv
  BY DEF DispatchInv, EventInv, LoopsInv, IgnoredUntilReturn, EventOfLoop
<1>. QED
  BY <1>1, DispatchInvariant, PTL

\* A loop over listeners is ended by EndDispatch, when it is innermost.
LEMMA OnlyEndDispatch ==
  ASSUME DispatchInv, [Next]_vars, NEW k \in DOMAIN stack, Ends(k)
  PROVE  EndDispatch /\ k = Len(stack) /\ stack # <<>>
<1>1. EventTypeOK /\ BoundsInv /\ stack \in Seq(Frame) /\ DOMAIN stack = 1 .. Len(stack)
        /\ Len(stack) \in Nat /\ stack # <<>> /\ stack[k].kind = "dispatch"
  BY DEF DispatchInv, EventTypeOK, Ends
<1>2. ~(UNCHANGED stack)
  BY <1>1 DEF Ends
<1>3. ASSUME NEW f \in Frame, Push(f)
      PROVE  FALSE
  BY <1>1, <1>3, Pushed DEF Ends
<1>4. ASSUME NEW t \in Immediate, NEW v \in {"shifted", "freed"}, Disturb(t, v)
      PROVE  FALSE
  <2>1. /\ Len(stack') = Len(stack)
        /\ \/ stack'[k] = stack[k]
           \/ /\ stack[k] \in DispatchFrame
              /\ \E w \in {"shifted", "freed"} :
                   stack'[k] = [stack[k] EXCEPT !.vector = w]
    BY <1>1, <1>4, Disturbed
  <2>2. stack'[k].kind = "dispatch"
    BY <1>1, <2>1 DEF DispatchFrame
  <2>. QED
    BY <1>1, <2>1, <2>2 DEF Ends
<1>5. ASSUME NEW f \in Frame, f.kind = "dispatch", SetTop(f)
      PROVE  FALSE
  BY <1>1, <1>5, TopSet DEF Ends
<1>6. ASSUME Top.kind # "dispatch", Pop
      PROVE  FALSE
  BY <1>1, <1>6, Popped DEF Ends, Top
<1>7. ~ScriptNext
  <2>1. ASSUME NEW t \in Immediate, NEW f \in Listener,
               AddEventListener(t, f) \/ RemoveEventListener(t, f)
        PROVE  FALSE
    BY <1>2, <1>4, <2>1 DEF AddEventListener, RemoveEventListener
  <2>2. ASSUME NEW t \in Immediate, RemoveEventListeners(t)
        PROVE  FALSE
    BY <1>4, <2>2 DEF RemoveEventListeners
  <2>3. ASSUME NEW t \in Immediate, NEW e \in {0} \cup Call, DispatchEvent(t, e)
        PROVE  FALSE
    <3>1. Loop(t, 0, e) \in Frame
      BY <1>1, LoopFrame DEF Frame
    <3>. QED
      BY <1>3, <2>3, <3>1 DEF DispatchEvent
  <2>4. ~CallPublic
    <3>1. [kind |-> "public", ignoring |-> TRUE] \in Frame
      BY DEF Frame
    <3>. QED
      BY <1>3, <3>1 DEF CallPublic, RunPublic
  <2>5. ~(GetDeferredEvents \/ \E e \in Calls : PreventDefault(e))
    BY <1>2 DEF GetDeferredEvents, PreventDefault
  <2>6. Calls \subseteq Call
    BY <1>1, CallNumbers
  <2>. QED
    BY <2>1, <2>2, <2>3, <2>4, <2>5, <2>6 DEF ScriptNext
<1>8. ~HookNext
  <2>1. /\ [kind |-> "public", ignoring |-> FALSE] \in Frame
        /\ [kind |-> "native"] \in Frame
    BY DEF Frame
  <2>2. ASSUME NEW name \in Public,
               OnExecutePasses(name) \/ OnExecuteDefers(name) \/ OnExecuteUnheard(name)
        PROVE  FALSE
    BY <1>3, <2>1, <2>2
       DEF OnExecutePasses, OnExecuteDefers, OnExecuteUnheard, RunPublic
  <2>3. ASSUME NEW name \in Public, OnExecuteDispatches(name)
        PROVE  FALSE
    <3>1. Loop(name, New, New) \in Frame
      BY <1>1, <2>3, LoopFrame, CallNumbers DEF OnExecuteDispatches, Exec, Frame
    <3>. QED
      BY <1>3, <2>3, <3>1 DEF OnExecuteDispatches
  <2>. QED
    BY <1>2, <1>3, <1>6, <2>1, <2>2, <2>3
       DEF HookNext, OnGamemodeLoaded, PublicReturns, CallNative, NativeReturns, TopIs
<1>9. ~CallListener /\ ~ReadStaleSlot /\ ~ListenerReturns
  <2> SUFFICES ASSUME CallListener \/ ReadStaleSlot \/ ListenerReturns
               PROVE  FALSE
    OBVIOUS
  <2>1. Top \in Frame /\ Top.kind = "dispatch" /\ Top \in DispatchFrame
    BY <1>1, TopFrame DEF CallListener, ReadStaleSlot, ListenerReturns, TopIs
  <2>2. \A f : SetTop(f) => stack' = [stack EXCEPT ![Len(stack)] = f]
    BY DEF SetTop
  <2>3. ASSUME NEW f, f.kind = "dispatch", SetTop(f)
        PROVE  FALSE
    BY <1>1, <2>3 DEF SetTop, Ends
  <2>4. CASE CallListener
    BY <2>1, <2>3, <2>4 DEF CallListener, DispatchFrame
  <2>5. CASE ReadStaleSlot
    BY <1>2, <2>1, <2>3, <2>5 DEF ReadStaleSlot, DispatchFrame
  <2>6. CASE ListenerReturns
    BY <2>1, <2>3, <2>6 DEF ListenerReturns, DispatchFrame
  <2>. QED
    BY <2>4, <2>5, <2>6
<1>10. EndDispatch
  BY <1>2, <1>7, <1>8, <1>9 DEF Next, LoopNext, vars
<1>11. k = Len(stack)
  <2>1. CASE Pop
    BY <1>1, <2>1, Popped DEF Ends
  <2>2. CASE SetTop([kind |-> "public", ignoring |-> FALSE])
    BY <1>1, <2>2 DEF SetTop, Ends
  <2>. QED
    BY <1>10, <2>1, <2>2 DEF EndDispatch
<1>. QED
  BY <1>1, <1>10, <1>11

\* Unless the vector loses entries or moves, DispatchEvent calls everybody who
\* was registered when it began, once and in order.
THEOREM ListenersCalled == Spec => EveryListenerCalled
<1>1. ASSUME DispatchInv, [Next]_vars
      PROVE  \A k \in DOMAIN stack :
               Ends(k) /\ stack[k].vector = "intact" =>
                 stack[k].called =
                   SubSeq(event_listeners[stack[k].type].cells, 1, stack[k].end)
  <2> SUFFICES ASSUME NEW k \in DOMAIN stack, Ends(k), stack[k].vector = "intact"
               PROVE  stack[k].called =
                        SubSeq(event_listeners[stack[k].type].cells, 1, stack[k].end)
    OBVIOUS
  <2>1. EndDispatch /\ k = Len(stack)
    BY <1>1, OnlyEndDispatch
  <2>2. TurnsOfLoop(stack[k])
    BY <1>1 DEF DispatchInv, LoopsInv, Ends
  <2>3. stack[k].next = stack[k].end
    BY <2>1 DEF EndDispatch, Top
  <2>. QED
    BY <2>2, <2>3 DEF TurnsOfLoop
<1>. QED
  BY <1>1, DispatchInvariant, PTL DEF Spec, EveryListenerCalled

\* A callback goes on to the gamemode if and only if nobody has prevented the
\* default of its own event.
THEOREM OwnEventCounts == Spec => OwnEventDecides
<1>1. ASSUME DispatchInv, [Next]_vars
      PROVE  \A k \in DOMAIN stack :
               Ends(k) /\ stack[k].call # 0 =>
                 /\ event[stack[k].call] = stack[k].call
                 /\ Len(stack') = k <=> stack[k].call \notin prevented
  <2> SUFFICES ASSUME NEW k \in DOMAIN stack, Ends(k), stack[k].call # 0
               PROVE  /\ event[stack[k].call] = stack[k].call
                      /\ Len(stack') = k <=> stack[k].call \notin prevented
    OBVIOUS
  <2>1. EndDispatch /\ k = Len(stack) /\ stack # <<>>
    BY <1>1, OnlyEndDispatch
  <2>2. /\ stack[k].event = stack[k].call
        /\ event[stack[k].call] = stack[k].call
    BY <1>1 DEF DispatchInv, LoopsInv, EventOfLoop, Ends
  <2>3. EventTypeOK /\ BoundsInv /\ stack \in Seq(Frame) /\ Len(stack) \in Nat
    BY <1>1 DEF DispatchInv, EventTypeOK
  <2>4. CASE stack[k].call \in prevented
    BY <2>1, <2>2, <2>3, <2>4, Popped DEF EndDispatch, DefaultPrevented, Top
  <2>5. CASE stack[k].call \notin prevented
    <3>1. SetTop([kind |-> "public", ignoring |-> FALSE])
      BY <2>1, <2>2, <2>5 DEF EndDispatch, DefaultPrevented, Top
    <3>2. Len(stack') = Len(stack)
      BY <2>3, <3>1 DEF SetTop
    <3>. QED
      BY <2>1, <2>2, <2>5, <3>2
  <2>. QED
    BY <2>4, <2>5
<1>. QED
  BY <1>1, DispatchInvariant, PTL DEF Spec, OwnEventDecides

(***************************************************************************)
(* Deferred callbacks.                                                     *)
(***************************************************************************)

\* What DeferredDeliveredOnce says of one call.
DeliveredOnce(n) ==
  IF n \in Calls /\ asked[n].name \in Deferred /\ ~asked[n].inside
  THEN \/ Waiting(n) = {[call |-> n, arguments |-> n]} /\ delivered[n] = <<>>
       \/ Waiting(n) = {} /\ delivered[n] = <<n>>
  ELSE Waiting(n) = {} /\ delivered[n] = <<>>

\* Every step keeps it.
LEMMA DeferredStep ==
  DispatchInv /\ DeferredDeliveredOnce /\ [Next]_vars => DeferredDeliveredOnce'
<1> SUFFICES ASSUME DispatchInv, DeferredDeliveredOnce, [Next]_vars, NEW n \in Call
             PROVE  DeliveredOnce(n)'
  BY DEF DeferredDeliveredOnce, DeliveredOnce
<1> USE DEF DeliveredOnce
<1>1. EventTypeOK /\ BoundsInv /\ DepthInv /\ DeliveredOnce(n)
  BY DEF DispatchInv, DeferredDeliveredOnce
<1>2. /\ Len(asked) \in Nat /\ Calls = 1 .. Len(asked) /\ Calls \subseteq Call
      /\ New = Len(asked) + 1 /\ asked \in Seq([name : Public, inside : BOOLEAN])
  BY <1>1, CallNumbers DEF EventTypeOK
<1>3. CASE UNCHANGED <<asked, deferred_events, delivered>>
  BY <1>1, <1>3 DEF Waiting, Calls
<1>4. ASSUME NEW name \in Public, Exec(name), UNCHANGED delivered
      PROVE  /\ \A m \in Calls : m \in Calls' /\ asked'[m] = asked[m]
             /\ New \in Calls' /\ asked'[New].name = name
             /\ asked'[New].inside <=> Inside \/ gamemode # "loaded"
             /\ n \in Calls' => n \in Calls \/ n = New
  <2> PICK b : /\ asked' = Append(asked, [name |-> name, inside |-> b])
               /\ b <=> Inside \/ gamemode # "loaded"
    BY <1>4 DEF Exec
  <2>1. /\ Len(asked') = Len(asked) + 1 /\ DOMAIN asked' = 1 .. Len(asked) + 1
        /\ asked'[Len(asked) + 1] = [name |-> name, inside |-> b]
        /\ \A k \in 1 .. Len(asked) : asked'[k] = asked[k]
    BY <1>2, PushPlaces
  <2>. QED
    BY <1>2, <2>1 DEF Calls
<1>5. n \notin Calls => Waiting(n) = {} /\ delivered[n] = <<>>
  BY <1>1
<1>6. ASSUME NEW name \in Public, Exec(name), UNCHANGED <<deferred_events, delivered>>,
             name \in Deferred => Inside \/ gamemode # "loaded"
      PROVE  DeliveredOnce(n)'
  <2>1. CASE n \in Calls
    BY <1>1, <1>4, <1>6, <2>1 DEF Waiting
  <2>2. CASE n \notin Calls
    BY <1>4, <1>5, <1>6, <2>2 DEF Waiting
  <2>. QED
    BY <2>1, <2>2
<1>7. ASSUME NEW name \in Public, OnExecuteDefers(name)
      PROVE  DeliveredOnce(n)'
  <2>1. /\ deferred_events' = deferred_events \cup {[call |-> New, arguments |-> New]}
        /\ UNCHANGED delivered /\ Exec(name) /\ Intercepts(name) /\ name \in Deferred
    BY <1>7 DEF OnExecuteDefers
  <2>2. ~(Inside \/ gamemode # "loaded")
    BY <1>1, <2>1, DepthCounts DEF Intercepts
  <2>3. CASE n = New
    <3>1. Waiting(n) = {} /\ delivered[n] = <<>>
      BY <1>2, <1>5, <2>3
    <3>2. Waiting(n)' = {[call |-> n, arguments |-> n]}
      BY <2>1, <2>3, <3>1 DEF Waiting
    <3>3. n \in Calls' /\ asked'[n].name \in Deferred /\ ~asked'[n].inside
      BY <1>4, <2>1, <2>2, <2>3
    <3>. QED
      BY <2>1, <3>1, <3>2, <3>3
  <2>4. CASE n # New
    <3>1. Waiting(n)' = Waiting(n)
      BY <2>1, <2>4 DEF Waiting
    <3>2. (n \in Calls' <=> n \in Calls) /\ (n \in Calls => asked'[n] = asked[n])
      BY <1>4, <2>1, <2>4
    <3>. QED
      BY <1>1, <2>1, <3>1, <3>2
  <2>. QED
    BY <2>3, <2>4
<1>8. CASE GetDeferredEvents
  <2> DEFINE found == {d \in deferred_events : d.call = n}
  <2>1. /\ deferred_events' = {} /\ UNCHANGED asked
        /\ delivered'[n] = IF found = {} THEN delivered[n]
                           ELSE Append(delivered[n], (CHOOSE d \in found : TRUE).arguments)
    BY <1>8 DEF GetDeferredEvents, hookVars
  <2>2. Waiting(n) = found
    BY DEF Waiting
  <2>3. Waiting(n)' = {}
    BY <2>1 DEF Waiting
  <2>4. Calls' = Calls
    BY <2>1 DEF Calls
  <2>5. CASE found = {[call |-> n, arguments |-> n]} /\ delivered[n] = <<>>
    <3>1. (CHOOSE d \in found : TRUE) = [call |-> n, arguments |-> n]
      BY <2>5
    <3>2. delivered'[n] = <<n>>
      <4>1. found # {}
        BY <2>5, Zenon
      <4>2. Append(<<>>, n) = <<n>>
        OBVIOUS
      <4> HIDE DEF found
      <4>. QED
        BY <2>1, <2>5, <3>1, <4>1, <4>2
    <3>3. n \in Calls /\ asked[n].name \in Deferred /\ ~asked[n].inside
      BY <1>1, <2>2, <2>5
    <3>. QED
      BY <2>1, <2>3, <2>4, <3>2, <3>3
  <2>6. CASE found = {}
    BY <1>1, <2>1, <2>2, <2>3, <2>4, <2>6
  <2>. QED
    BY <1>1, <2>2, <2>5, <2>6
<1>9. CASE UNCHANGED vars
  BY <1>3, <1>9 DEF vars, hookVars, deferredVars
<1>10. CASE ScriptNext
  BY <1>3, <1>8, <1>10
     DEF ScriptNext, AddEventListener, RemoveEventListener, RemoveEventListeners,
         DispatchEvent, PreventDefault, CallPublic, hookVars, deferredVars
<1>11. CASE LoopNext
  BY <1>3, <1>11
     DEF LoopNext, CallListener, ReadStaleSlot, ListenerReturns, EndDispatch,
         hookVars, deferredVars
<1>12. CASE HookNext
  <2>1. ASSUME NEW name \in Public, OnExecutePasses(name)
        PROVE  DeliveredOnce(n)'
    <3>1. name \in Deferred => Inside \/ gamemode # "loaded"
      BY <1>1, <2>1, DepthCounts DEF OnExecutePasses, Intercepts
    <3>. QED
      BY <1>6, <2>1, <3>1 DEF OnExecutePasses, deferredVars
  <2>2. ASSUME NEW name \in Public, OnExecuteUnheard(name) \/ OnExecuteDispatches(name)
        PROVE  DeliveredOnce(n)'
    <3>1. name \notin Deferred
      BY <2>2, EventAssumption DEF OnExecuteUnheard, OnExecuteDispatches, EventAssumption
    <3>. QED
      BY <1>6, <2>2, <3>1 DEF OnExecuteUnheard, OnExecuteDispatches, deferredVars
  <2>. QED
    BY <1>3, <1>7, <1>12, <2>1, <2>2
       DEF HookNext, OnGamemodeLoaded, PublicReturns, CallNative, NativeReturns,
           hookVars, deferredVars
<1>. QED
  BY <1>9, <1>10, <1>11, <1>12 DEF Next

\* A deferred callback waits or was delivered once, with its own arguments.
THEOREM DeliveredExactlyOnce == Spec => []DeferredDeliveredOnce
<1>1. Init => DeferredDeliveredOnce
  BY DEF Init, DeferredDeliveredOnce, Waiting, Calls
<1>. QED
  BY <1>1, DeferredStep, DispatchInvariant, PTL DEF Spec
=============================================================================
