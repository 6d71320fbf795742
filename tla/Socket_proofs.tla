----------------------------- MODULE Socket_proofs -----------------------------
(***************************************************************************)
(* Proofs about Socket, for both engines and any number of calls.          *)
(***************************************************************************)
EXTENDS Socket, QueueLemmas

(***************************************************************************)
(* The inductive invariant: writes are numbered as they are made, a thread *)
(* holds a message only while it is inside Write, and a deadline that      *)
(* waits for the peer is still the one the background thread handles.      *)
(***************************************************************************)
WritesNumbered(n) == \A w \in WriteId : written[w] # "none" <=> w <= n

HandsInv ==
  \A t \in Thread :
    /\ pc[t] \in {"test", "push", "send"} => hand[t] # 0
    /\ hand[t] # 0 => pc[t] \in {"test", "push", "send", "ended"}

ClosingInv ==
  pc["background"] = "closing" => ready # <<>> /\ Head(ready).of.op = "timer"

AccountInv ==
  /\ SocketTypeOK /\ IsFiniteSet(in_flight) /\ WritesAccounted
  /\ \E n \in 0 .. MaxWrites : WritesNumbered(n)
  /\ HandsInv /\ ClosingInv

(***************************************************************************)
(* Counting.  Where a message is, each place in turn.                      *)
(***************************************************************************)
SendsIn(S, w) == {o \in S : o.op = "send" /\ o.id = w}
SendsDone(w) == {c \in Completion : c.of.op = "send" /\ c.of.id = w}
Answers(w) == {c \in Callback : c.to = "OnWrite" /\ c.id = w}
Holders(w) == {t \in Thread : hand[t] = w}

Queued(w) == Counted(write_queue, {w})
Held(w) == Cardinality(Holders(w))
Flying(w) == Cardinality(SendsIn(in_flight, w))
Done(w) == Counted(ready, SendsDone(w))
Told(w) == Counted(posted, Answers(w))

\* The kinds of operations, and of their completions.
LEMMA Operations ==
  /\ \A o \in Operation : /\ o.on \in Stream
                          /\ o.op = "send" => o.id \in WriteId
                          /\ o.op = "shutdown" => o.id \in 1 .. MaxCloses
                          /\ o.op \notin {"send", "shutdown"} => o.id \in Attempt
                          /\ o.op # "timer"
  /\ \A c \in Completion :
       /\ c.ec \in {"ok", "error"}
       /\ c.of.op = "timer" => c.of.id \in Attempt /\ c.of.on = 0
       /\ c.of.op # "timer" => c.of \in Operation
  /\ \A o \in Operation, ec \in {"ok", "error"} :
       /\ Completed(o, ec) \in Completion
       /\ Completed(o, ec).of = o
  /\ \A i \in Attempt : Completed([op |-> "timer", id |-> i, on |-> 0], "ok") \in Completion
<1>1. \A o \in Operation : /\ o.on \in Stream
                           /\ o.op = "send" => o.id \in WriteId
                           /\ o.op = "shutdown" => o.id \in 1 .. MaxCloses
                           /\ o.op \notin {"send", "shutdown"} => o.id \in Attempt
                           /\ o.op # "timer"
  BY DEF Operation
<1>2. \A c \in Completion :
        /\ c.ec \in {"ok", "error"}
        /\ \/ c.of \in Operation
           \/ c.of \in [op : {"timer"}, id : Attempt, on : {0}]
  BY DEF Completion
<1>3. \A o \in [op : {"timer"}, id : Attempt, on : {0}] :
        o.op = "timer" /\ o.id \in Attempt /\ o.on = 0
  OBVIOUS
<1>4. \A o \in Operation, ec \in {"ok", "error"} :
        Completed(o, ec) \in Completion /\ Completed(o, ec).of = o
  BY DEF Completed, Completion
<1>5. \A i \in Attempt : Completed([op |-> "timer", id |-> i, on |-> 0], "ok") \in Completion
  BY DEF Completed, Completion
<1>. QED
  BY <1>1, <1>2, <1>3, <1>4, <1>5

\* Callbacks.
LEMMA Callbacks ==
  /\ \A i \in Attempt, ec \in {"ok", "error", "timed_out"} :
       /\ [to |-> "OnConnect", id |-> i, ec |-> ec] \in Callback
       /\ \A w : [to |-> "OnConnect", id |-> i, ec |-> ec] \notin Answers(w)
  /\ \A w \in WriteId :
       /\ [to |-> "OnWrite", id |-> w] \in Callback
       /\ \A v : [to |-> "OnWrite", id |-> w] \in Answers(v) <=> v = w
  /\ \A to \in {"OnRead", "OnError", "OnClose"} :
       /\ [to |-> to] \in Callback
       /\ \A w : [to |-> to] \notin Answers(w)
  /\ \A c \in Callback : /\ c.to = "OnConnect" => c.id \in Attempt
                         /\ c.to = "OnWrite" => c.id \in WriteId
<1>1. \A i \in Attempt, ec \in {"ok", "error", "timed_out"} :
        [to |-> "OnConnect", id |-> i, ec |-> ec] \in Callback
  BY DEF Callback
<1>2. \A w \in WriteId : [to |-> "OnWrite", id |-> w] \in Callback
  BY DEF Callback
<1>3. \A to \in {"OnRead", "OnError", "OnClose"} : [to |-> to] \in Callback
  BY DEF Callback
<1>4. \A c \in Callback : /\ c.to = "OnConnect" => c.id \in Attempt
                          /\ c.to = "OnWrite" => c.id \in WriteId
  BY DEF Callback
<1>. QED
  BY <1>1, <1>2, <1>3, <1>4 DEF Answers

\* A completion is a send's if its operation is one.
LEMMA SendsCompleted ==
  ASSUME NEW o \in Operation, NEW ec \in {"ok", "error"}, NEW w
  PROVE  Completed(o, ec) \in SendsDone(w) <=> o.op = "send" /\ o.id = w
  BY Operations DEF SendsDone

\* The parts of the state that count are numbers.
LEMMA PartsType ==
  ASSUME SocketTypeOK, IsFiniteSet(in_flight), NEW w
  PROVE  /\ Queued(w) \in Nat /\ Flying(w) \in Nat /\ Done(w) \in Nat
         /\ Told(w) \in Nat /\ Held(w) \in Nat
         /\ IsFiniteSet(SendsIn(in_flight, w)) /\ IsFiniteSet(Holders(w))
<1>1. /\ write_queue \in Seq(WriteId) /\ ready \in Seq(Completion)
      /\ posted \in Seq(Callback)
  BY DEF SocketTypeOK
<1>2. SendsIn(in_flight, w) \in SUBSET in_flight
  BY DEF SendsIn
<1>3. IsFiniteSet(Thread)
  <2>1. IsFiniteSet({"main"} \cup {"background"})
    BY FS_Singleton, FS_AddElement
  <2>. QED
    BY <2>1 DEF Thread
<1>4. Holders(w) \in SUBSET Thread
  BY DEF Holders
<1>5. IsFiniteSet(SendsIn(in_flight, w)) /\ IsFiniteSet(Holders(w))
  BY <1>2, <1>3, <1>4, FS_Subset
<1>. QED
  BY <1>1, <1>5, CountType, FS_CardinalityType DEF Queued, Flying, Done, Told, Held

Total(w) == Queued(w) + Held(w) + Flying(w) + Done(w) + Told(w)

\* Places adds them up.
LEMMA PlacesSum == SocketTypeOK => \A w \in WriteId : Places(w) = Total(w)
<1> SUFFICES ASSUME SocketTypeOK, NEW w \in WriteId PROVE Places(w) = Total(w)
  OBVIOUS
<1>1. Cardinality(Occurrences(w, write_queue)) = Queued(w)
  BY DEF Occurrences, Queued, Counted
<1>2. Cardinality({t \in Thread : hand[t] = w}) = Held(w)
  BY DEF Held, Holders
<1>3. Cardinality({o \in in_flight : o.op = "send" /\ o.id = w}) = Flying(w)
  BY DEF Flying, SendsIn
<1>4. {k \in DOMAIN ready : ready[k].of.op = "send" /\ ready[k].of.id = w} =
        {k \in DOMAIN ready : ready[k] \in SendsDone(w)}
  <2>1. \A k \in DOMAIN ready : ready[k] \in Completion
    <3> HIDE DEF Completion
    <3>. QED
      BY SeqType DEF SocketTypeOK
  <2>. QED
    BY <2>1 DEF SendsDone
<1>5. {k \in DOMAIN posted : posted[k].to = "OnWrite" /\ posted[k].id = w} =
        {k \in DOMAIN posted : posted[k] \in Answers(w)}
  <2>1. \A k \in DOMAIN posted : posted[k] \in Callback
    BY SeqType DEF SocketTypeOK
  <2>. QED
    BY <2>1 DEF Answers
<1>. QED
  BY <1>1, <1>2, <1>3, <1>4, <1>5 DEF Places, Total, Done, Told, Counted

\* In the next state too.
LEMMA PlacesSumNext == SocketTypeOK' => (\A w \in WriteId : Places(w) = Total(w))'
  BY PlacesSum, PTL

\* A step that settles no write, and moves messages from place to place.
LEMMA AccountKept ==
  ASSUME SocketTypeOK, SocketTypeOK', WritesAccounted, UNCHANGED written,
         \A w \in WriteId : Total(w)' = Total(w)
  PROVE  WritesAccounted'
<1>1. \A w \in WriteId : Places(w)' = Total(w)'
  BY PlacesSumNext
<1>2. \A w \in WriteId : Places(w) = Total(w)
  BY PlacesSum
<1>. QED
  BY <1>1, <1>2 DEF WritesAccounted

(***************************************************************************)
(* boost::asio: what is in flight, and what has completed.                 *)
(***************************************************************************)

\* Removing some operations from a set of them, sends included.
LEMMA SendsRemoved ==
  ASSUME NEW S, IsFiniteSet(S), NEW lost \in SUBSET S, NEW w
  PROVE  /\ IsFiniteSet(S \ lost) /\ IsFiniteSet(lost)
         /\ Cardinality(SendsIn(S \ lost, w)) \in Nat
         /\ Cardinality(SendsIn(lost, w)) \in Nat
         /\ Cardinality(SendsIn(S \ lost, w)) =
              Cardinality(SendsIn(S, w)) - Cardinality(SendsIn(lost, w))
<1> DEFINE kept == SendsIn(S \ lost, w)
           gone == SendsIn(lost, w)
<1>1. /\ kept \in SUBSET S /\ gone \in SUBSET S /\ kept \cap gone = {}
      /\ kept \cup gone = SendsIn(S, w) /\ S \ lost \in SUBSET S
  BY DEF SendsIn
<1>2. IsFiniteSet(S \ lost) /\ IsFiniteSet(lost)
  BY <1>1, FS_Subset
<1> HIDE DEF kept, gone
<1>3. IsFiniteSet(kept) /\ IsFiniteSet(gone)
  BY <1>1, FS_Subset
<1>4. Cardinality(kept) \in Nat /\ Cardinality(gone) \in Nat
  BY <1>3, FS_CardinalityType
<1>5. Cardinality(kept \cup gone) =
        Cardinality(kept) + Cardinality(gone) - Cardinality(kept \cap gone)
  BY <1>3, FS_Union
<1>6. Cardinality(SendsIn(S, w)) = Cardinality(kept) + Cardinality(gone)
  <2>1. Cardinality(kept \cap gone) = 0
    BY <1>1, FS_EmptySet
  <2>. QED
    BY <1>1, <1>4, <1>5, <2>1
<1>. QED
  BY <1>2, <1>4, <1>6 DEF kept, gone

\* Adding one that is not a send of w.
LEMMA OtherAdded ==
  ASSUME NEW S, IsFiniteSet(S), NEW o, NEW w
  PROVE  /\ IsFiniteSet(S \cup {o})
         /\ ~(o.op = "send" /\ o.id = w) => SendsIn(S \cup {o}, w) = SendsIn(S, w)
<1>1. IsFiniteSet(S \cup {o})
  BY FS_AddElement
<1>2. ASSUME ~(o.op = "send" /\ o.id = w) PROVE SendsIn(S \cup {o}, w) = SendsIn(S, w)
  BY <1>2 DEF SendsIn
<1>. QED
  BY <1>1, <1>2

\* Adding the send of w.
LEMMA SendAdded ==
  ASSUME NEW S, IsFiniteSet(S), NEW o, NEW w, o.op = "send", o.id = w,
         Cardinality(SendsIn(S, w)) = 0
  PROVE  Cardinality(SendsIn(S \cup {o}, w)) = 1
<1>1. SendsIn(S, w) \in SUBSET S
  BY DEF SendsIn
<1>2. IsFiniteSet(SendsIn(S, w))
  BY <1>1, FS_Subset
<1>3. SendsIn(S, w) = {}
  BY <1>2, FS_EmptySet
<1>4. SendsIn(S \cup {o}, w) = {o}
  BY <1>3 DEF SendsIn
<1>. QED
  BY <1>4, FS_Singleton

\* The completions of what was aborted.
LEMMA AbortsCounted ==
  ASSUME NEW lost \in SUBSET Operation, IsFiniteSet(lost),
         NEW aborts \in SetToSeqs({Completed(o, "error") : o \in lost}), NEW w
  PROVE  /\ aborts \in Seq(Completion)
         /\ Counted(aborts, SendsDone(w)) = Cardinality(SendsIn(lost, w))
<1> DEFINE all == {Completed(o, "error") : o \in lost}
           sends == all \cap SendsDone(w)
           f == [o \in lost |-> Completed(o, "error")]
           g == [o \in SendsIn(lost, w) |-> Completed(o, "error")]
<1>1. \A o \in lost : /\ Completed(o, "error") \in Completion
                      /\ Completed(o, "error").of = o
                      /\ Completed(o, "error") \in SendsDone(w) <=> o.op = "send" /\ o.id = w
  BY Operations, SendsCompleted
<1>2. f \in Surjection(lost, all)
  BY DEF Surjection
<1>3. IsFiniteSet(all)
  <2> HIDE DEF all, f
  <2>. QED
    BY <1>2, FS_Surjection
<1>4. g \in Bijection(SendsIn(lost, w), sends)
  <2>1. g \in [SendsIn(lost, w) -> sends]
    BY <1>1 DEF SendsIn
  <2>2. \A o, p \in SendsIn(lost, w) : g[o] = g[p] => o = p
    BY <1>1 DEF SendsIn
  <2>3. \A c \in sends : \E o \in SendsIn(lost, w) : g[o] = c
    <3> SUFFICES ASSUME NEW c \in sends PROVE \E o \in SendsIn(lost, w) : g[o] = c
      OBVIOUS
    <3>1. PICK o \in lost : c = Completed(o, "error")
      OBVIOUS
    <3>2. o \in SendsIn(lost, w)
      BY <1>1, <3>1 DEF SendsIn
    <3>. QED
      BY <3>1, <3>2
  <2> HIDE DEF g, sends
  <2>. QED
    BY <2>1, <2>2, <2>3 DEF Bijection, Injection, Surjection, IsInjective
<1>5. IsFiniteSet(SendsIn(lost, w))
  <2>1. SendsIn(lost, w) \in SUBSET lost
    BY DEF SendsIn
  <2>. QED
    BY <2>1, FS_Subset
<1>6. Cardinality(sends) = Cardinality(SendsIn(lost, w))
  <2>1. ExistsBijection(SendsIn(lost, w), sends)
    BY <1>4 DEF ExistsBijection
  <2> HIDE DEF sends
  <2>. QED
    BY <1>5, <2>1, FS_Bijection
<1>7. aborts \in SetToSeqs(all)
  OBVIOUS
<1>8. aborts \in Seq(all) /\ Counted(aborts, SendsDone(w)) = Cardinality(sends)
  <2> HIDE DEF all
  <2>. QED
    BY <1>3, <1>7, CountEnumerated, Enumerated
<1>9. all \subseteq Completion
  BY <1>1
<1>. QED
  BY <1>6, <1>8, <1>9

\* An operation that is started is in flight, or has failed.
LEMMA Started ==
  ASSUME SocketTypeOK, IsFiniteSet(in_flight), NEW o \in Operation,
         NEW completions \in Seq(Completion), Start(o, completions)
  PROVE  /\ in_flight' \in SUBSET Operation /\ IsFiniteSet(in_flight')
         /\ ready' \in Seq(Completion)
         /\ \A w : ~(o.op = "send" /\ o.id = w) =>
              Flying(w)' + Done(w)' = Flying(w) + Counted(completions, SendsDone(w))
         /\ \A w : o.op = "send" /\ o.id = w /\ Flying(w) = 0 =>
              Flying(w)' + Done(w)' = 1 + Counted(completions, SendsDone(w))
<1>1. Completed(o, "error") \in Completion
  BY Operations
<1>2. /\ in_flight' \in SUBSET Operation /\ IsFiniteSet(in_flight')
      /\ ready' \in Seq(Completion)
  <2>1. in_flight \in SUBSET Operation
    BY DEF SocketTypeOK
  <2>2. CASE in_flight' = in_flight \cup {o} /\ ready' = completions
    BY <2>1, <2>2, FS_AddElement
  <2>3. CASE ready' = Append(completions, Completed(o, "error")) /\ UNCHANGED in_flight
    <3> HIDE DEF Completion
    <3>. QED
      BY <1>1, <2>1, <2>3, PushType
  <2>. QED
    BY <2>2, <2>3 DEF Start
<1>3. ASSUME NEW w
      PROVE  /\ ~(o.op = "send" /\ o.id = w) =>
                  Flying(w)' + Done(w)' = Flying(w) + Counted(completions, SendsDone(w))
             /\ o.op = "send" /\ o.id = w /\ Flying(w) = 0 =>
                  Flying(w)' + Done(w)' = 1 + Counted(completions, SendsDone(w))
  <2>1. Counted(completions, SendsDone(w)) \in Nat /\ Flying(w) \in Nat
    BY CountType, PartsType
  <2>2. CASE in_flight' = in_flight \cup {o} /\ ready' = completions
    <3>1. Done(w)' = Counted(completions, SendsDone(w))
      BY <2>2 DEF Done
    <3>2. Flying(w)' = Cardinality(SendsIn(in_flight \cup {o}, w))
      BY <2>2 DEF Flying
    <3>3. Flying(w) = Cardinality(SendsIn(in_flight, w))
      BY DEF Flying
    <3>4. ~(o.op = "send" /\ o.id = w) => Flying(w)' = Flying(w)
      BY <3>2, <3>3, OtherAdded
    <3>5. ASSUME o.op = "send" /\ o.id = w, Flying(w) = 0 PROVE Flying(w)' = 1
      <4>1. Cardinality(SendsIn(in_flight, w)) = 0
        BY <3>3, <3>5
      <4>2. Cardinality(SendsIn(in_flight \cup {o}, w)) = 1
        BY <3>5, <4>1, SendAdded
      <4>. QED
        BY <3>2, <4>2
    <3>. QED
      BY <2>1, <3>1, <3>4, <3>5
  <2>3. CASE ready' = Append(completions, Completed(o, "error")) /\ UNCHANGED in_flight
    <3> PICK longer : longer = Append(completions, Completed(o, "error"))
      OBVIOUS
    <3>1. Counted(longer, SendsDone(w)) =
            Counted(completions, SendsDone(w))
              + (IF Completed(o, "error") \in SendsDone(w) THEN 1 ELSE 0)
      BY CountPush
    <3>2. Done(w)' = Counted(longer, SendsDone(w)) /\ Flying(w)' = Flying(w)
      BY <2>3 DEF Done, Flying
    <3>3. Completed(o, "error") \in SendsDone(w) <=> o.op = "send" /\ o.id = w
      BY SendsCompleted
    <3>. QED
      BY <2>1, <3>1, <3>2, <3>3
  <2>. QED
    BY <2>2, <2>3 DEF Start
<1>. QED
  BY <1>2, <1>3

\* Operations that are lost complete with an error.
LEMMA Aborted ==
  ASSUME NEW flying \in SUBSET Operation, IsFiniteSet(flying), NEW lost \in SUBSET flying,
         NEW aborts \in SetToSeqs({Completed(o, "error") : o \in lost}),
         NEW completions \in Seq(Completion)
  PROVE  /\ flying \ lost \in SUBSET Operation /\ IsFiniteSet(flying \ lost)
         /\ completions \o aborts \in Seq(Completion)
         /\ \A w : /\ Cardinality(SendsIn(flying \ lost, w)) \in Nat
                  /\ Counted(completions \o aborts, SendsDone(w)) \in Nat
                  /\ Cardinality(SendsIn(flying \ lost, w))
                       + Counted(completions \o aborts, SendsDone(w)) =
                     Cardinality(SendsIn(flying, w)) + Counted(completions, SendsDone(w))
<1>1. lost \in SUBSET Operation /\ IsFiniteSet(lost) /\ IsFiniteSet(flying \ lost)
  BY SendsRemoved
<1>2. aborts \in Seq(Completion)
  BY <1>1, AbortsCounted
<1>3. completions \o aborts \in Seq(Completion)
  <2> HIDE DEF Completion
  <2>. QED
    BY <1>2, ConcatPlaces
<1>4. ASSUME NEW w
      PROVE  /\ Cardinality(SendsIn(flying \ lost, w)) \in Nat
             /\ Counted(completions \o aborts, SendsDone(w)) \in Nat
             /\ Cardinality(SendsIn(flying \ lost, w))
                  + Counted(completions \o aborts, SendsDone(w)) =
                Cardinality(SendsIn(flying, w)) + Counted(completions, SendsDone(w))
  <2>1. Counted(completions \o aborts, SendsDone(w)) =
          Counted(completions, SendsDone(w)) + Counted(aborts, SendsDone(w))
    BY <1>2, CountConcat
  <2>2. Counted(aborts, SendsDone(w)) = Cardinality(SendsIn(lost, w))
    BY <1>1, AbortsCounted
  <2>3. /\ Cardinality(SendsIn(flying \ lost, w)) \in Nat
        /\ Cardinality(SendsIn(lost, w)) \in Nat
        /\ Cardinality(SendsIn(flying \ lost, w)) =
             Cardinality(SendsIn(flying, w)) - Cardinality(SendsIn(lost, w))
    BY ZenonT(40), SendsRemoved
  <2>4. Counted(completions, SendsDone(w)) \in Nat
    BY CountType
  <2>5. SendsIn(flying, w) \in SUBSET flying
    BY DEF SendsIn
  <2>6. Cardinality(SendsIn(flying, w)) \in Nat
    BY <2>5, FS_Subset, FS_CardinalityType
  <2>. QED
    BY <2>1, <2>2, <2>3, <2>4, <2>6
<1>. QED
  BY <1>1, <1>3, <1>4

(***************************************************************************)
(* The types, in the groups of variables that steps leave alone.           *)
(***************************************************************************)
ObjectTypeOK ==
  /\ engine \in Engines
  /\ state \in {"connecting", "connected", "disconnecting", "disconnected"}
  /\ opened \in [Attempt -> {"none", "pending", "resolved"}]
  /\ written \in [WriteId -> {"none", "pending", "resolved"}]
  /\ closes \in 0 .. MaxCloses

PointerTypeOK ==
  ssl_mode \in BOOLEAN /\ plain \in -MaxOpens .. 0 /\ secure \in 0 .. MaxOpens

StatusTypeOK ==
  status \in [Stream -> {"closed", "connecting", "connected", "secure", "open"}]

TimerTypeOK == timer \in 0 .. MaxOpens

WriteTypeOK ==
  /\ active_write \in BOOLEAN
  /\ write_queue \in Seq(WriteId)
  /\ hand \in [Thread -> 0 .. MaxWrites]

ThreadTypeOK ==
  pc \in [Thread -> {"idle", "test", "push", "send", "flush", "closing", "ended"}]

IoTypeOK == in_flight \in SUBSET Operation /\ ready \in Seq(Completion)

PostTypeOK == posted \in Seq(Callback)

\* SocketTypeOK is all of them.
LEMMA TypeParts ==
  SocketTypeOK <=> /\ ObjectTypeOK /\ PointerTypeOK /\ StatusTypeOK /\ TimerTypeOK
                   /\ WriteTypeOK /\ ThreadTypeOK /\ IoTypeOK /\ PostTypeOK
                   /\ received \in 0 .. MaxMessages
  BY DEF SocketTypeOK, ObjectTypeOK, PointerTypeOK, StatusTypeOK, TimerTypeOK,
         WriteTypeOK, ThreadTypeOK, IoTypeOK, PostTypeOK

\* In the next state too.
LEMMA TypePartsNext ==
  SocketTypeOK' <=> /\ ObjectTypeOK' /\ PointerTypeOK' /\ StatusTypeOK' /\ TimerTypeOK'
                    /\ WriteTypeOK' /\ ThreadTypeOK' /\ IoTypeOK' /\ PostTypeOK'
                    /\ received' \in 0 .. MaxMessages
  BY DEF SocketTypeOK, ObjectTypeOK, PointerTypeOK, StatusTypeOK, TimerTypeOK,
         WriteTypeOK, ThreadTypeOK, IoTypeOK, PostTypeOK

\* What a step leaves alone keeps its type.
LEMMA TypesKept ==
  ASSUME SocketTypeOK
  PROVE  /\ UNCHANGED objectVars => ObjectTypeOK'
         /\ UNCHANGED pointerVars => PointerTypeOK'
         /\ UNCHANGED status => StatusTypeOK'
         /\ UNCHANGED timer => TimerTypeOK'
         /\ UNCHANGED <<active_write, write_queue, hand>> => WriteTypeOK'
         /\ UNCHANGED pc => ThreadTypeOK'
         /\ UNCHANGED ioVars => IoTypeOK'
         /\ UNCHANGED posted => PostTypeOK'
         /\ UNCHANGED received => received' \in 0 .. MaxMessages
<1> USE DEF SocketTypeOK
<1>1. UNCHANGED objectVars => ObjectTypeOK'
  BY DEF objectVars, ObjectTypeOK
<1>2. UNCHANGED pointerVars => PointerTypeOK'
  BY DEF pointerVars, PointerTypeOK
<1>3. UNCHANGED <<active_write, write_queue, hand>> => WriteTypeOK'
  BY DEF WriteTypeOK
<1>4. UNCHANGED ioVars => IoTypeOK'
  BY DEF ioVars, IoTypeOK
<1>5. /\ UNCHANGED status => StatusTypeOK'
      /\ UNCHANGED timer => TimerTypeOK'
      /\ UNCHANGED pc => ThreadTypeOK'
      /\ UNCHANGED posted => PostTypeOK'
      /\ UNCHANGED received => received' \in 0 .. MaxMessages
  BY DEF StatusTypeOK, TimerTypeOK, ThreadTypeOK, PostTypeOK
<1>. QED
  BY <1>1, <1>2, <1>3, <1>4, <1>5

\* The stream in use is one.
LEMMA CurrentStream == SocketTypeOK => Current \in Stream
  BY SocketAssumption DEF SocketTypeOK, SocketAssumption, Current, Stream

\* The head of `ready`, which a handler takes.
LEMMA HandlerTakes ==
  ASSUME SocketTypeOK, ready # <<>>
  PROVE  /\ Head(ready) \in Completion /\ Tail(ready) \in Seq(Completion)
         /\ Head(ready).ec \in {"ok", "error"}
         /\ Of.op = "timer" => Of.id \in Attempt
         /\ Of.op # "timer" =>
              /\ Of.on \in Stream
              /\ Of.op = "send" => Of.id \in WriteId
              /\ Of.op \notin {"send", "shutdown"} => Of.id \in Attempt
<1>1. Head(ready) \in Completion /\ Tail(ready) \in Seq(Completion)
  <2> HIDE DEF Completion
  <2>. QED
    BY PopType DEF SocketTypeOK
<1>. QED
  BY <1>1, Operations DEF Of

\* The completions behind it.
LEMMA HandlerLeaves ==
  ASSUME SocketTypeOK, ready # <<>>, NEW rest, rest = Tail(ready), NEW w
  PROVE  Counted(rest, SendsDone(w)) =
           Done(w) - (IF Of.op = "send" /\ Of.id = w THEN 1 ELSE 0)
<1>1. Counted(Tail(ready), SendsDone(w)) =
        Done(w) - (IF Head(ready) \in SendsDone(w) THEN 1 ELSE 0)
  BY CountPop DEF SocketTypeOK, Done
<1>2. Head(ready) \in SendsDone(w) <=> Of.op = "send" /\ Of.id = w
  BY HandlerTakes DEF SendsDone, Of
<1>. QED
  BY <1>1, <1>2

\* If it was not a send's.
LEMMA TakesOther ==
  ASSUME SocketTypeOK, ready # <<>>, Of.op # "send", NEW rest, rest = Tail(ready)
  PROVE  /\ rest \in Seq(Completion)
         /\ \A w : Counted(rest, SendsDone(w)) = Done(w)
<1>1. rest \in Seq(Completion)
  BY HandlerTakes
<1>2. ASSUME NEW w PROVE Counted(rest, SendsDone(w)) = Done(w)
  <2>1. Counted(rest, SendsDone(w)) =
          Done(w) - (IF Of.op = "send" /\ Of.id = w THEN 1 ELSE 0)
    BY HandlerLeaves
  <2>2. Done(w) \in Nat
    BY CountType DEF SocketTypeOK, Done
  <2>. QED
    BY <2>1, <2>2
<1>. QED
  BY <1>1, <1>2

\* The head of `posted`, which a frame takes.
LEMMA FrameTakes ==
  ASSUME SocketTypeOK, NEW name, RunOne(name)
  PROVE  /\ Head(posted) \in Callback /\ posted' \in Seq(Callback)
         /\ name = "OnConnect" => Head(posted).id \in Attempt
         /\ name = "OnWrite" => Head(posted).id \in WriteId
         /\ \A w : Told(w)' = Told(w) -
                      (IF name = "OnWrite" /\ Head(posted).id = w THEN 1 ELSE 0)
<1>1. /\ posted # <<>> /\ posted' = Tail(posted) /\ Head(posted).to = name
      /\ posted \in Seq(Callback)
  BY DEF RunOne, SocketTypeOK
<1>2. Head(posted) \in Callback /\ Tail(posted) \in Seq(Callback)
  <2> HIDE DEF Callback
  <2>. QED
    BY <1>1, PopType
<1>3. ASSUME NEW w
      PROVE  Told(w)' = Told(w) - (IF name = "OnWrite" /\ Head(posted).id = w THEN 1 ELSE 0)
  <2>1. Counted(Tail(posted), Answers(w)) =
          Counted(posted, Answers(w)) - (IF Head(posted) \in Answers(w) THEN 1 ELSE 0)
    BY <1>1, CountPop
  <2>2. Head(posted) \in Answers(w) <=> name = "OnWrite" /\ Head(posted).id = w
    BY <1>1, <1>2 DEF Answers
  <2>. QED
    BY <1>1, <2>1, <2>2 DEF Told
<1>. QED
  BY <1>1, <1>2, <1>3, Callbacks

\* Posting a callback.
LEMMA Posts ==
  ASSUME SocketTypeOK, NEW c \in Callback, posted' = Append(posted, c)
  PROVE  /\ PostTypeOK'
         /\ \A w : Told(w)' = Told(w) + (IF c \in Answers(w) THEN 1 ELSE 0)
<1>1. posted \in Seq(Callback)
  BY DEF SocketTypeOK
<1>2. PostTypeOK'
  <2> HIDE DEF Callback
  <2>. QED
    BY <1>1, PushType DEF PostTypeOK
<1>3. \A w : Counted(Append(posted, c), Answers(w)) =
               Counted(posted, Answers(w)) + (IF c \in Answers(w) THEN 1 ELSE 0)
  BY <1>1, CountPush
<1>. QED
  BY <1>2, <1>3 DEF Told

(***************************************************************************)
(* Steps that move operations, completions and callbacks.                  *)
(***************************************************************************)

\* The parts are numbers in the next state too.
LEMMA PartsTypeNext ==
  SocketTypeOK' /\ IsFiniteSet(in_flight)' =>
    (\A w : /\ Queued(w) \in Nat /\ Flying(w) \in Nat /\ Done(w) \in Nat
           /\ Told(w) \in Nat /\ Held(w) \in Nat)'
<1>1. SocketTypeOK /\ IsFiniteSet(in_flight) =>
        \A w : /\ Queued(w) \in Nat /\ Flying(w) \in Nat /\ Done(w) \in Nat
              /\ Told(w) \in Nat /\ Held(w) \in Nat
  BY PartsType
<1>. QED
  BY <1>1, PTL

\* A part changes with its variable only.
LEMMA PartsKept ==
  /\ UNCHANGED write_queue => \A w : Queued(w)' = Queued(w)
  /\ UNCHANGED hand => \A w : Held(w)' = Held(w)
  /\ UNCHANGED in_flight => \A w : Flying(w)' = Flying(w)
  /\ UNCHANGED ready => \A w : Done(w)' = Done(w)
  /\ UNCHANGED posted => \A w : Told(w)' = Told(w)
  BY DEF Queued, Held, Holders, Flying, Done, Told

\* Sends complete and are reported: none is lost, none appears.
IoMoves ==
  /\ IoTypeOK' /\ PostTypeOK' /\ IsFiniteSet(in_flight')
  /\ \A w \in WriteId :
       Flying(w)' + Done(w)' + Told(w)' = Flying(w) + Done(w) + Told(w)

\* What is left to know of a step that moves no write.
LEMMA IoStep ==
  ASSUME SocketTypeOK, IsFiniteSet(in_flight), IoMoves,
         UNCHANGED <<written, write_queue, hand>>, WritesAccounted,
         ObjectTypeOK', PointerTypeOK', StatusTypeOK', TimerTypeOK', WriteTypeOK',
         ThreadTypeOK', received' \in 0 .. MaxMessages
  PROVE  SocketTypeOK' /\ IsFiniteSet(in_flight)' /\ WritesAccounted'
<1>1. SocketTypeOK'
  BY TypePartsNext DEF IoMoves
<1>2. IsFiniteSet(in_flight)'
  BY DEF IoMoves
<1>3. \A w \in WriteId : Total(w)' = Total(w)
  <2> SUFFICES ASSUME NEW w \in WriteId PROVE Total(w)' = Total(w)
    OBVIOUS
  <2>1. /\ Queued(w) \in Nat /\ Flying(w) \in Nat /\ Done(w) \in Nat
        /\ Told(w) \in Nat /\ Held(w) \in Nat
    BY PartsType
  <2>2. /\ Queued(w)' \in Nat /\ Flying(w)' \in Nat /\ Done(w)' \in Nat
        /\ Told(w)' \in Nat /\ Held(w)' \in Nat
    BY <1>1, <1>2, PartsTypeNext
  <2>3. Queued(w)' = Queued(w) /\ Held(w)' = Held(w)
    BY PartsKept
  <2>4. Flying(w)' + Done(w)' + Told(w)' = Flying(w) + Done(w) + Told(w)
    BY DEF IoMoves
  <2>. QED
    BY <2>1, <2>2, <2>3, <2>4 DEF Total
<1>. QED
  BY <1>1, <1>2, <1>3, AccountKept

\* The operations of an attempt.
LEMMA AttemptOperation ==
  ASSUME NEW op \in {"resolve", "connect", "handshake", "upgrade", "read"},
         NEW i \in Attempt, NEW s \in Stream
  PROVE  /\ [op |-> op, id |-> i, on |-> s] \in Operation
         /\ [op |-> op, id |-> i, on |-> s].op # "send"
  BY DEF Operation

\* CloseStream completes what is in flight on the stream.
LEMMA Closes ==
  ASSUME SocketTypeOK, IsFiniteSet(in_flight), NEW s \in Stream,
         NEW completions \in Seq(Completion), CloseStream(s, completions)
  PROVE  /\ StatusTypeOK' /\ IoTypeOK' /\ IsFiniteSet(in_flight')
         /\ \A w : /\ Flying(w)' \in Nat /\ Done(w)' \in Nat
                  /\ Flying(w)' + Done(w)' =
                       Flying(w) + Counted(completions, SendsDone(w))
<1>1. PICK aborts \in SetToSeqs({Completed(o, "error") : o \in Pending(s)}) :
        ready' = completions \o aborts
  BY DEF CloseStream, Aborts
<1>2. in_flight' = in_flight \ Pending(s) /\ status' = [status EXCEPT ![s] = "closed"]
  BY DEF CloseStream
<1>3. in_flight \in SUBSET Operation /\ Pending(s) \in SUBSET in_flight
  BY DEF SocketTypeOK, Pending
<1>4. StatusTypeOK'
  BY <1>2 DEF SocketTypeOK, StatusTypeOK
<1> PICK kept : kept = in_flight \ Pending(s)
  OBVIOUS
<1>5. /\ kept \in SUBSET Operation /\ IsFiniteSet(kept)
      /\ completions \o aborts \in Seq(Completion)
      /\ \A w : /\ Cardinality(SendsIn(kept, w)) \in Nat
               /\ Counted(completions \o aborts, SendsDone(w)) \in Nat
               /\ Cardinality(SendsIn(kept, w))
                    + Counted(completions \o aborts, SendsDone(w)) =
                  Cardinality(SendsIn(in_flight, w)) + Counted(completions, SendsDone(w))
  BY <1>3, Aborted
<1>. QED
  BY <1>1, <1>2, <1>4, <1>5 DEF IoTypeOK, Flying, Done

\* The end of an attempt is reported.
LEMMA Reports ==
  ASSUME SocketTypeOK, IsFiniteSet(in_flight), ready # <<>>,
         Of.op \in {"connect", "handshake", "upgrade"}, Report
  PROVE  TimerTypeOK' /\ IoMoves
<1>1. /\ timer' = 0 /\ ready' = Tail(ready) /\ UNCHANGED in_flight
      /\ posted' = Append(posted, [to |-> "OnConnect", id |-> Of.id, ec |-> Head(ready).ec])
  BY DEF Report, PostConnect
<1>2. TimerTypeOK'
  BY <1>1, SocketAssumption DEF TimerTypeOK, SocketAssumption
<1> PICK c : c = [to |-> "OnConnect", id |-> Of.id, ec |-> Head(ready).ec]
  OBVIOUS
<1>3. Of.id \in Attempt /\ Head(ready).ec \in {"ok", "error", "timed_out"}
  BY HandlerTakes
<1>4. c \in Callback /\ \A w : c \notin Answers(w)
  BY <1>3, Callbacks
<1>5. PostTypeOK' /\ \A w : Told(w)' = Told(w) + (IF c \in Answers(w) THEN 1 ELSE 0)
  <2>1. posted' = Append(posted, c)
    BY <1>1
  <2>. QED
    BY <1>4, <2>1, Posts
<1>6. IoTypeOK' /\ IsFiniteSet(in_flight')
  BY <1>1, HandlerTakes DEF IoTypeOK, SocketTypeOK
<1>7. \A w : Done(w)' = Done(w) /\ Flying(w)' = Flying(w)
  <2> PICK rest : rest = Tail(ready)
    OBVIOUS
  <2>1. \A w : Counted(rest, SendsDone(w)) = Done(w)
    BY TakesOther
  <2>2. \A w : Done(w)' = Counted(rest, SendsDone(w))
    BY <1>1 DEF Done
  <2>. QED
    BY <1>1, <2>1, <2>2, PartsKept
<1>8. \A w : Told(w) \in Nat
  BY PartsType
<1>. QED
  BY <1>2, <1>4, <1>5, <1>6, <1>7, <1>8 DEF IoMoves

\* The next operation of an attempt is started.
LEMMA GoesOn ==
  ASSUME SocketTypeOK, IsFiniteSet(in_flight), ready # <<>>,
         NEW op \in {"handshake", "upgrade"}, NEW s \in Stream,
         Of.op \in {"connect", "handshake"}, GoOn(op, s)
  PROVE  UNCHANGED timer /\ IoMoves
<1> PICK o : o = [op |-> op, id |-> Of.id, on |-> s]
  OBVIOUS
<1> PICK rest : rest = Tail(ready)
  OBVIOUS
<1>1. Start(o, rest) /\ UNCHANGED <<timer, posted>>
  BY DEF GoOn
<1>2. rest \in Seq(Completion) /\ \A w : Counted(rest, SendsDone(w)) = Done(w)
  BY TakesOther
<1>3. o \in Operation /\ o.op # "send"
  BY HandlerTakes, AttemptOperation
<1>4. /\ in_flight' \in SUBSET Operation /\ IsFiniteSet(in_flight')
      /\ ready' \in Seq(Completion)
      /\ \A w : Flying(w)' + Done(w)' = Flying(w) + Done(w)
  <2>1. /\ in_flight' \in SUBSET Operation /\ IsFiniteSet(in_flight')
        /\ ready' \in Seq(Completion)
        /\ \A w : ~(o.op = "send" /\ o.id = w) =>
             Flying(w)' + Done(w)' = Flying(w) + Counted(rest, SendsDone(w))
    BY <1>1, <1>2, <1>3, Started
  <2>. QED
    BY <1>2, <1>3, <2>1
<1>5. PostTypeOK' /\ \A w : Told(w)' = Told(w)
  BY <1>1, TypesKept, PartsKept
<1>. QED
  BY <1>1, <1>4, <1>5 DEF IoMoves, IoTypeOK

\* The timer of an attempt closes the stream in use.
LEMMA TimesOut ==
  ASSUME SocketTypeOK, IsFiniteSet(in_flight), TimedOut,
         ready # <<>>, Of.op = "timer"
  PROVE  StatusTypeOK' /\ IoMoves
<1> PICK c : c = [to |-> "OnConnect", id |-> Of.id, ec |-> "timed_out"]
  OBVIOUS
<1> PICK rest : rest = Tail(ready)
  OBVIOUS
<1>1. CloseStream(Current, rest) /\ posted' = Append(posted, c)
  BY DEF TimedOut, PostConnect
<1>2. rest \in Seq(Completion) /\ \A w : Counted(rest, SendsDone(w)) = Done(w)
  BY TakesOther
<1>3. c \in Callback /\ \A w : c \notin Answers(w)
  BY HandlerTakes, Callbacks
<1>4. PostTypeOK' /\ \A w : Told(w)' = Told(w) + (IF c \in Answers(w) THEN 1 ELSE 0)
  BY <1>1, <1>3, Posts
<1> PICK s \in Stream : s = Current
  BY CurrentStream
<1>5. CloseStream(s, rest)
  BY <1>1
<1>6. /\ StatusTypeOK' /\ IoTypeOK' /\ IsFiniteSet(in_flight')
      /\ \A w : /\ Flying(w)' \in Nat /\ Done(w)' \in Nat
               /\ Flying(w)' + Done(w)' = Flying(w) + Counted(rest, SendsDone(w))
  BY <1>2, <1>5, Closes
<1>7. \A w : Told(w) \in Nat
  BY PartsType
<1>. QED
  BY <1>2, <1>3, <1>4, <1>6, <1>7 DEF IoMoves

(***************************************************************************)
(* Every action preserves the invariant.                                   *)
(***************************************************************************)

\* The parts of the invariant together.
LEMMA AccountNext ==
  ASSUME SocketTypeOK', IsFiniteSet(in_flight)', WritesAccounted',
         \E n \in 0 .. MaxWrites : WritesNumbered(n)', HandsInv', ClosingInv'
  PROVE  AccountInv'
  BY DEF AccountInv

\* Writes keep their numbers while no promise of one changes.
LEMMA NumbersKept ==
  ASSUME AccountInv, UNCHANGED written
  PROVE  \E n \in 0 .. MaxWrites : WritesNumbered(n)'
<1>1. PICK n \in 0 .. MaxWrites : WritesNumbered(n)
  BY DEF AccountInv
<1>2. WritesNumbered(n)'
  BY <1>1 DEF WritesNumbered
<1>. QED
  BY <1>2

\* A step that moves no write and leaves both threads where they were safe.
LEMMA QuietStep ==
  ASSUME AccountInv, IoMoves, UNCHANGED <<written, write_queue, hand>>,
         ObjectTypeOK', PointerTypeOK', StatusTypeOK', TimerTypeOK', WriteTypeOK',
         ThreadTypeOK', received' \in 0 .. MaxMessages, HandsInv', ClosingInv'
  PROVE  AccountInv'
<1>1. SocketTypeOK' /\ IsFiniteSet(in_flight)' /\ WritesAccounted'
  BY IoStep DEF AccountInv
<1>2. \E n \in 0 .. MaxWrites : WritesNumbered(n)'
  BY NumbersKept
<1>. QED
  BY <1>1, <1>2, AccountNext

\* A handler that does not touch what is being written.
LEMMA HandlerControl ==
  ASSUME AccountInv, UNCHANGED <<pc, hand>>, pc["background"] = "idle"
  PROVE  HandsInv' /\ ClosingInv'
  BY DEF AccountInv, HandsInv, ClosingInv

\* A push, or a number of them, leaves the head of a queue where it is.
LEMMA FirstStays ==
  ASSUME NEW S, NEW q \in Seq(S), q # <<>>
  PROVE  /\ \A e : Append(q, e) # <<>> /\ Head(Append(q, e)) = Head(q)
         /\ \A r \in Seq(S) : q \o r # <<>> /\ Head(q \o r) = Head(q)
<1>1. Len(q) \in Nat \ {0} /\ Head(q) = q[1]
  BY PopPlaces
<1>2. ASSUME NEW e PROVE Append(q, e) # <<>> /\ Head(Append(q, e)) = Head(q)
  OBVIOUS
<1>3. ASSUME NEW r \in Seq(S) PROVE q \o r # <<>> /\ Head(q \o r) = Head(q)
  <2>1. q \o r \in Seq(S) /\ Len(q \o r) = Len(q) + Len(r) /\ (q \o r)[1] = q[1]
    BY <1>1, ConcatPlaces
  <2>2. q \o r # <<>>
    BY <1>1, <2>1
  <2>. QED
    BY <1>1, <2>1, <2>2, PopPlaces
<1>. QED
  BY <1>2, <1>3

\* What has completed waits until the background thread handles it.
FirstWaits == ready # <<>> => ready' # <<>> /\ Head(ready') = Head(ready)

\* Steps of others only add to `ready`.
LEMMA OthersControl ==
  ASSUME AccountInv, UNCHANGED <<pc, hand>>, FirstWaits
  PROVE  HandsInv' /\ ClosingInv'
  BY DEF AccountInv, HandsInv, ClosingInv, FirstWaits

\* So do operations that start, streams that close.
LEMMA StartsBehind ==
  ASSUME SocketTypeOK, IsFiniteSet(in_flight)
  PROVE  /\ \A o : Start(o, ready) => FirstWaits
         /\ \A s : CloseStream(s, ready) => FirstWaits
<1>1. ready \in Seq(Completion)
  BY DEF SocketTypeOK
<1>2. ASSUME NEW o, Start(o, ready) PROVE FirstWaits
  <2>1. ready' = ready \/ ready' = Append(ready, Completed(o, "error"))
    BY <1>2 DEF Start
  <2>. QED
    BY <1>1, <2>1, FirstStays DEF FirstWaits
<1>3. ASSUME NEW s, CloseStream(s, ready) PROVE FirstWaits
  <2>1. PICK aborts \in SetToSeqs({Completed(o, "error") : o \in Pending(s)}) :
          ready' = ready \o aborts
    BY <1>3 DEF CloseStream, Aborts
  <2>2. Pending(s) \in SUBSET in_flight /\ in_flight \in SUBSET Operation
    BY DEF SocketTypeOK, Pending
  <2>3. IsFiniteSet(Pending(s)) /\ Pending(s) \in SUBSET Operation
    BY <2>2, FS_Subset
  <2>4. aborts \in Seq(Completion)
    BY <2>3, AbortsCounted
  <2>. QED
    BY <1>1, <2>1, <2>4, FirstStays DEF FirstWaits
<1>. QED
  BY <1>2, <1>3

\* There is room for the next attempt.
LEMMA NextAttempt ==
  ASSUME SocketTypeOK, Opens < MaxOpens
  PROVE  Opens + 1 \in Attempt
<1>1. IsFiniteSet(Attempt)
  BY SocketAssumption, FS_Interval DEF SocketAssumption, Attempt
<1> DEFINE used == {i \in Attempt : opened[i] # "none"}
<1>2. used \in SUBSET Attempt
  OBVIOUS
<1> HIDE DEF used
<1>3. Cardinality(used) \in Nat
  BY <1>1, <1>2, FS_Subset, FS_CardinalityType
<1>4. Opens \in Nat
  BY <1>3 DEF Opens, used
<1>. QED
  BY <1>4, SocketAssumption DEF SocketAssumption, Attempt

\* open() starts an attempt of its own, with no writes in flight for it.
LEMMA OpenStep ==
  ASSUME AccountInv, NEW mode \in Modes, Open(mode)
  PROVE  AccountInv'
<1>1. SocketTypeOK /\ IsFiniteSet(in_flight)
  BY DEF AccountInv
<1>2. Opens + 1 \in Attempt
  BY <1>1, NextAttempt DEF Open
<1> PICK i \in Attempt : i = Opens + 1
  BY <1>2
<1> PICK o : o = [op |-> "resolve", id |-> i,
                  on |-> CASE mode = "ssl" -> i
                           [] mode = "none" /\ engine = "web" -> -i
                           [] mode = "none" /\ engine = "tcp" -> 0]
  OBVIOUS
<1>3. o \in Operation /\ o.op # "send"
  <2>1. engine \in {"tcp", "web"} /\ mode \in {"none", "ssl"}
    BY <1>1, SocketAssumption DEF SocketTypeOK, SocketAssumption
  <2>2. i \in Stream /\ -i \in Stream /\ 0 \in Stream
    BY SocketAssumption DEF SocketAssumption, Stream, Attempt
  <2>3. o.on \in Stream
    BY <2>1, <2>2
  <2>4. o = [op |-> "resolve", id |-> i, on |-> o.on]
    OBVIOUS
  <2>. QED
    BY <2>3, <2>4, AttemptOperation
<1>4. in_flight' = in_flight \cup {o} /\ UNCHANGED <<ready, posted>>
  BY DEF Open
<1>5. IoMoves
  <2>1. IoTypeOK' /\ PostTypeOK'
    BY <1>1, <1>3, <1>4 DEF SocketTypeOK, IoTypeOK, PostTypeOK
  <2>2. IsFiniteSet(in_flight')
    BY <1>1, <1>4, FS_AddElement
  <2>3. \A w : SendsIn(in_flight \cup {o}, w) = SendsIn(in_flight, w)
    BY ZenonT(40), <1>1, <1>3, OtherAdded
  <2>4. \A w : Flying(w)' = Flying(w)
    BY <1>4, <2>3 DEF Flying
  <2>. QED
    BY <1>4, <2>1, <2>2, <2>4, PartsKept DEF IoMoves
<1>6. ObjectTypeOK'
  <2>1. /\ opened' = [opened EXCEPT ![i] = "pending"] /\ state' = "connecting"
        /\ UNCHANGED <<engine, written, closes>>
    BY DEF Open
  <2>. QED
    BY <1>1, <2>1 DEF SocketTypeOK, ObjectTypeOK
<1>7. UNCHANGED <<pointerVars, status, timer, active_write, write_queue, pc, hand,
                  received, written>>
  BY DEF Open, streamVars, writeVars
<1>8. /\ PointerTypeOK' /\ StatusTypeOK' /\ TimerTypeOK' /\ WriteTypeOK'
      /\ ThreadTypeOK' /\ received' \in 0 .. MaxMessages
  BY <1>1, <1>7, TypesKept
<1>9. HandsInv' /\ ClosingInv'
  BY <1>4, <1>7, OthersControl DEF FirstWaits
<1>. QED
  BY <1>5, <1>6, <1>7, <1>8, <1>9, QuietStep

\* close() by JavaScript moves no write.
LEMMA CloseStep ==
  ASSUME AccountInv, Close
  PROVE  AccountInv'
<1>1. SocketTypeOK /\ IsFiniteSet(in_flight)
  BY DEF AccountInv
<1>2. UNCHANGED <<pointerVars, timer, active_write, write_queue, hand, received, written>>
  BY DEF Close
<1>3. /\ PointerTypeOK' /\ TimerTypeOK' /\ WriteTypeOK' /\ received' \in 0 .. MaxMessages
  BY <1>1, <1>2, TypesKept
<1>4. ObjectTypeOK' /\ closes' \in 1 .. MaxCloses
  <2>1. /\ closes < MaxCloses /\ state' = "disconnecting" /\ closes' = closes + 1
        /\ UNCHANGED <<engine, opened, written>>
    BY DEF Close
  <2>2. closes \in 0 .. MaxCloses /\ MaxCloses \in Nat
    BY <1>1, SocketAssumption DEF SocketTypeOK, SocketAssumption
  <2>3. closes' \in 1 .. MaxCloses
    BY <2>1, <2>2
  <2>. QED
    BY <1>1, <2>1, <2>2, <2>3 DEF SocketTypeOK, ObjectTypeOK
<1>5. \A w : Told(w) \in Nat
  BY <1>1, PartsType
<1>6. ready \in Seq(Completion) /\ \A w : Counted(ready, SendsDone(w)) = Done(w)
  BY <1>1 DEF SocketTypeOK, Done
<1>7. CASE ClosePlain
  <2>1. 0 \in Stream
    BY SocketAssumption DEF SocketAssumption, Stream
  <2> PICK s \in Stream : s = 0
    BY <2>1
  <2> PICK q : q = ready
    OBVIOUS
  <2> PICK c : c = [to |-> "OnClose"]
    OBVIOUS
  <2>2. CloseStream(s, q) /\ posted' = Append(posted, c) /\ UNCHANGED pc
    BY <1>7 DEF ClosePlain
  <2>3. /\ StatusTypeOK' /\ IoTypeOK' /\ IsFiniteSet(in_flight')
        /\ \A w : /\ Flying(w)' \in Nat /\ Done(w)' \in Nat
                 /\ Flying(w)' + Done(w)' = Flying(w) + Counted(q, SendsDone(w))
    BY <1>1, <1>6, <2>2, Closes
  <2>4. c \in Callback /\ \A w : c \notin Answers(w)
    BY Callbacks
  <2>5. PostTypeOK' /\ \A w : Told(w)' = Told(w) + (IF c \in Answers(w) THEN 1 ELSE 0)
    BY <1>1, <2>2, <2>4, Posts
  <2>6. IoMoves
    BY <1>5, <1>6, <2>3, <2>4, <2>5 DEF IoMoves
  <2>7. ThreadTypeOK'
    BY <1>1, <1>2, <2>2, TypesKept
  <2>8. HandsInv' /\ ClosingInv'
    BY <1>1, <1>2, <2>2, StartsBehind, OthersControl
  <2>. QED
    BY <1>2, <1>3, <1>4, <2>3, <2>6, <2>7, <2>8, QuietStep
<1>8. CASE Shutdown
  <2> PICK o : o = [op |-> "shutdown", id |-> closes', on |-> Current]
    OBVIOUS
  <2> PICK q : q = ready
    OBVIOUS
  <2>1. o \in Operation /\ o.op # "send"
    BY <1>1, <1>4, CurrentStream DEF Operation
  <2>2. Start(o, q) /\ UNCHANGED <<status, posted, pc>>
    BY <1>8 DEF Shutdown
  <2>3. /\ in_flight' \in SUBSET Operation /\ IsFiniteSet(in_flight')
        /\ ready' \in Seq(Completion)
        /\ \A w : ~(o.op = "send" /\ o.id = w) =>
             Flying(w)' + Done(w)' = Flying(w) + Counted(q, SendsDone(w))
    BY <1>1, <1>6, <2>1, <2>2, Started
  <2>4. PostTypeOK' /\ StatusTypeOK' /\ ThreadTypeOK' /\ \A w : Told(w)' = Told(w)
    BY <1>1, <2>2, TypesKept, PartsKept
  <2>5. IoMoves
    BY <1>6, <2>1, <2>3, <2>4 DEF IoMoves, IoTypeOK
  <2>6. HandsInv' /\ ClosingInv'
    <3>1. FirstWaits
      BY <1>1, <2>2, StartsBehind
    <3>. QED
      BY <1>2, <2>2, <3>1, OthersControl
  <2>. QED
    BY <1>2, <1>3, <1>4, <2>4, <2>5, <2>6, QuietStep
<1>9. CASE CloseNothing
  <2>0. End /\ UNCHANGED <<status, posted, ioVars>>
    BY <1>9 DEF CloseNothing
  <2>1. ThreadTypeOK' /\ HandsInv' /\ ClosingInv'
    BY <1>2, <2>0 DEF End, AccountInv, HandsInv, ClosingInv, ThreadTypeOK, Thread
  <2>2. PostTypeOK' /\ StatusTypeOK' /\ IoTypeOK'
    BY <1>1, <2>0, TypesKept
  <2>3. IoMoves
    <3>1. UNCHANGED <<in_flight, ready, posted>>
      BY <2>0 DEF ioVars
    <3>. QED
      BY <1>1, <2>2, <3>1, PartsKept DEF IoMoves
  <2>. QED
    BY <1>2, <1>3, <1>4, <2>1, <2>2, <2>3, QuietStep
<1>. QED
  BY <1>7, <1>8, <1>9 DEF Close

\* Nothing moves.
LEMMA NothingMoves ==
  ASSUME SocketTypeOK, IsFiniteSet(in_flight), UNCHANGED <<posted, ioVars>>
  PROVE  IoMoves
<1>1. UNCHANGED <<in_flight, ready, posted>>
  BY DEF ioVars
<1>2. PostTypeOK' /\ IoTypeOK'
  BY TypesKept
<1>. QED
  BY <1>1, <1>2, PartsKept DEF IoMoves

\* A frame that runs a callback which is no answer to a write.
LEMMA FrameMoves ==
  ASSUME SocketTypeOK, IsFiniteSet(in_flight), NEW name, RunOne(name),
         name # "OnWrite", UNCHANGED ioVars
  PROVE  IoMoves
<1>1. posted' \in Seq(Callback) /\ \A w : Told(w)' = Told(w)
  <2>1. /\ posted' \in Seq(Callback)
        /\ \A w : Told(w)' = Told(w) -
                     (IF name = "OnWrite" /\ Head(posted).id = w THEN 1 ELSE 0)
    BY FrameTakes
  <2>2. \A w : Told(w) \in Nat
    BY PartsType
  <2>. QED
    BY <2>1, <2>2
<1>2. UNCHANGED <<in_flight, ready>>
  BY DEF ioVars
<1>3. IoTypeOK'
  BY TypesKept
<1>. QED
  BY <1>1, <1>2, <1>3, PartsKept DEF IoMoves, PostTypeOK

\* The result of an attempt reaches JavaScript.
LEMMA OnConnectStep ==
  ASSUME AccountInv, OnConnect
  PROVE  AccountInv'
<1>0. AccountInv
  OBVIOUS
<1>1. SocketTypeOK /\ IsFiniteSet(in_flight)
  BY DEF AccountInv
<1> PICK name : name = "OnConnect"
  OBVIOUS
<1>2. RunOne(name)
  BY DEF OnConnect
<1>3. /\ Head(posted).id \in Attempt /\ posted' \in Seq(Callback)
      /\ \A w : Told(w)' = Told(w) -
                   (IF name = "OnWrite" /\ Head(posted).id = w THEN 1 ELSE 0)
  BY <1>1, <1>2, FrameTakes
<1> PICK i \in Attempt : i = Head(posted).id
  BY <1>3
<1>4. \A w : Told(w) \in Nat
  BY <1>1, PartsType
<1>5. \A w : Told(w)' = Told(w)
  BY <1>3, <1>4
<1>6. UNCHANGED <<written, pointerVars, status, timer, active_write, write_queue,
                  hand, received>>
  BY DEF OnConnect, streamVars
<1>7. /\ PointerTypeOK' /\ StatusTypeOK' /\ TimerTypeOK' /\ WriteTypeOK'
      /\ received' \in 0 .. MaxMessages
  BY <1>1, <1>6, TypesKept
<1>8. ObjectTypeOK'
  <2>1. /\ state' \in {"connected", "disconnected"}
        /\ opened' \in {opened, [opened EXCEPT ![i] = "resolved"]}
        /\ UNCHANGED <<engine, written, closes>>
    BY DEF OnConnect
  <2>. QED
    BY <1>1, <2>1 DEF SocketTypeOK, ObjectTypeOK
<1>9. IoMoves /\ ThreadTypeOK' /\ HandsInv' /\ ClosingInv'
  <2>1. CASE /\ UNCHANGED pc
             /\ Start([op |-> "read", id |-> i, on |-> Current], ready)
    <3> PICK o : o = [op |-> "read", id |-> i, on |-> Current]
      OBVIOUS
    <3> PICK q : q = ready
      OBVIOUS
    <3>1. o \in Operation /\ o.op # "send"
      BY <1>1, CurrentStream, AttemptOperation
    <3>2. q \in Seq(Completion) /\ \A w : Counted(q, SendsDone(w)) = Done(w)
      BY <1>1 DEF SocketTypeOK, Done
    <3>3. Start(o, q)
      BY <2>1
    <3>4. /\ in_flight' \in SUBSET Operation /\ IsFiniteSet(in_flight')
          /\ ready' \in Seq(Completion)
          /\ \A w : ~(o.op = "send" /\ o.id = w) =>
               Flying(w)' + Done(w)' = Flying(w) + Counted(q, SendsDone(w))
      BY <1>1, <3>1, <3>2, <3>3, Started
    <3>5. FirstWaits
      BY <1>1, <3>3, StartsBehind
    <3>6. IoMoves
      BY <1>3, <1>5, <3>1, <3>2, <3>4 DEF IoMoves, IoTypeOK, PostTypeOK
    <3>7. ThreadTypeOK'
      BY <1>1, <1>6, <2>1, TypesKept
    <3>8. HandsInv' /\ ClosingInv'
      BY <1>0, <1>6, <2>1, <3>5, OthersControl
    <3>. QED
      BY <3>6, <3>7, <3>8
  <2>2. CASE End /\ UNCHANGED ioVars
    <3>1. IoMoves
      BY <1>1, <1>2, <2>2, FrameMoves
    <3>2. ThreadTypeOK' /\ HandsInv' /\ ClosingInv'
      BY <1>0, <1>6, <2>2
         DEF End, AccountInv, HandsInv, ClosingInv, ThreadTypeOK, Thread, SocketTypeOK
    <3>. QED
      BY <3>1, <3>2
  <2>3. CASE UNCHANGED <<pc, ioVars>>
    <3>1. UNCHANGED ioVars
      BY <2>3
    <3>2. IoMoves
      BY <1>1, <1>2, <3>1, FrameMoves
    <3>3. ThreadTypeOK'
      BY <1>1, <1>6, <2>3, TypesKept
    <3>4. HandsInv' /\ ClosingInv'
      BY <1>0, <1>6, <2>3 DEF AccountInv, HandsInv, ClosingInv, ioVars
    <3>. QED
      BY <3>2, <3>3, <3>4
  <2>. QED
    BY <2>1, <2>2, <2>3 DEF OnConnect
<1>. QED
  BY <1>0, <1>6, <1>7, <1>8, <1>9, QuietStep

\* The event of the closed connection reaches JavaScript.
LEMMA OnCloseStep ==
  ASSUME AccountInv, OnClose
  PROVE  AccountInv'
<1>1. SocketTypeOK /\ IsFiniteSet(in_flight)
  BY DEF AccountInv
<1>2. /\ RunOne("OnClose") /\ state' = "disconnected"
      /\ UNCHANGED <<engine, opened, written, closes, pointerVars, status, timer,
                     active_write, write_queue, pc, hand, ioVars, received>>
  BY DEF OnClose, streamVars, writeVars
<1>3. ObjectTypeOK'
  BY <1>1, <1>2 DEF SocketTypeOK, ObjectTypeOK
<1>4. /\ PointerTypeOK' /\ StatusTypeOK' /\ TimerTypeOK' /\ WriteTypeOK' /\ ThreadTypeOK'
      /\ received' \in 0 .. MaxMessages
  BY <1>1, <1>2, TypesKept
<1>5. IoMoves
  BY <1>1, <1>2, FrameMoves
<1>6. HandsInv' /\ ClosingInv'
  BY <1>2, OthersControl DEF FirstWaits, ioVars
<1>. QED
  BY <1>2, <1>3, <1>4, <1>5, <1>6, QuietStep

\* Received data, or an error, reaches JavaScript.
LEMMA OnEventStep ==
  ASSUME AccountInv, OnEvent
  PROVE  AccountInv'
<1>1. SocketTypeOK /\ IsFiniteSet(in_flight)
  BY DEF AccountInv
<1>2. /\ RunOne("OnRead") \/ RunOne("OnError")
      /\ UNCHANGED <<objectVars, written, pointerVars, status, timer,
                     active_write, write_queue, pc, hand, ioVars, received>>
  BY DEF OnEvent, objectVars, streamVars, writeVars
<1>3. /\ ObjectTypeOK' /\ PointerTypeOK' /\ StatusTypeOK' /\ TimerTypeOK' /\ WriteTypeOK'
      /\ ThreadTypeOK' /\ received' \in 0 .. MaxMessages
  BY <1>1, <1>2, TypesKept
<1>4. IoMoves
  BY <1>1, <1>2, FrameMoves
<1>5. HandsInv' /\ ClosingInv'
  BY <1>2, OthersControl DEF FirstWaits, ioVars
<1>. QED
  BY <1>2, <1>3, <1>4, <1>5, QuietStep

\* One hand changes.
LEMMA HandChanges ==
  ASSUME SocketTypeOK, NEW t \in Thread, NEW v \in 0 .. MaxWrites,
         hand' = [hand EXCEPT ![t] = v], NEW w
  PROVE  Held(w)' = Held(w) - (IF hand[t] = w THEN 1 ELSE 0) + (IF v = w THEN 1 ELSE 0)
<1>1. hand \in [Thread -> 0 .. MaxWrites]
  BY DEF SocketTypeOK
<1> DEFINE others == {u \in Thread \ {t} : hand[u] = w}
           add(S) == S \cup {t}
<1>2. IsFiniteSet(others) /\ t \notin others
  <2>1. IsFiniteSet({"main"} \cup {"background"})
    BY FS_Singleton, FS_AddElement
  <2>2. others \in SUBSET ({"main"} \cup {"background"})
    BY DEF Thread
  <2> HIDE DEF others
  <2>3. IsFiniteSet(others)
    BY <2>1, <2>2, FS_Subset
  <2>. QED
    BY <2>3 DEF others
<1>3. /\ Holders(w) = IF hand[t] = w THEN add(others) ELSE others
      /\ Holders(w)' = IF v = w THEN add(others) ELSE others
  <2>1. Holders(w) = IF hand[t] = w THEN add(others) ELSE others
    BY DEF Holders
  <2>2. Holders(w)' = {u \in Thread : [hand EXCEPT ![t] = v][u] = w}
    BY DEF Holders
  <2>3. {u \in Thread : [hand EXCEPT ![t] = v][u] = w} =
          IF v = w THEN add(others) ELSE others
    BY <1>1
  <2>. QED
    BY <2>1, <2>2, <2>3
<1> HIDE DEF others
<1>4. Cardinality(others) \in Nat /\ Cardinality(add(others)) = Cardinality(others) + 1
  BY <1>2, FS_CardinalityType, FS_AddElement
<1> HIDE DEF add
<1>5. /\ Held(w) = Cardinality(others) + (IF hand[t] = w THEN 1 ELSE 0)
      /\ Held(w)' = Cardinality(others) + (IF v = w THEN 1 ELSE 0)
  BY <1>3, <1>4 DEF Held
<1>. QED
  BY <1>4, <1>5

\* A step that moves writes between their places.
LEMMA WriteStep ==
  ASSUME AccountInv, UNCHANGED written, SocketTypeOK', IsFiniteSet(in_flight)',
         \A w \in WriteId : Total(w)' = Total(w), HandsInv', ClosingInv'
  PROVE  AccountInv'
<1>1. WritesAccounted'
  BY AccountKept DEF AccountInv
<1>2. \E n \in 0 .. MaxWrites : WritesNumbered(n)'
  BY NumbersKept
<1>. QED
  BY <1>1, <1>2, AccountNext

\* A step that changes the promise of one write.
LEMMA AccountChanges ==
  ASSUME SocketTypeOK, SocketTypeOK', WritesAccounted, NEW v \in WriteId,
         NEW st \in {"pending", "resolved"}, written' = [written EXCEPT ![v] = st],
         \A w \in WriteId \ {v} : Total(w)' = Total(w),
         Total(v)' = IF st = "pending" THEN 1 ELSE 0
  PROVE  WritesAccounted'
<1>1. \A w \in WriteId : Places(w)' = Total(w)'
  BY PlacesSumNext
<1>2. \A w \in WriteId : Places(w) = Total(w)
  BY PlacesSum
<1>3. \A w \in WriteId : written'[w] = IF w = v THEN st ELSE written[w]
  BY DEF SocketTypeOK
<1>. QED
  BY <1>1, <1>2, <1>3 DEF WritesAccounted

\* Writes is their number, and the next one has not been made.
LEMMA NextWrite ==
  ASSUME AccountInv
  PROVE  /\ Writes \in 0 .. MaxWrites /\ WritesNumbered(Writes)
         /\ Writes < MaxWrites => Writes + 1 \in WriteId /\ written[Writes + 1] = "none"
<1>1. PICK n \in 0 .. MaxWrites : WritesNumbered(n)
  BY DEF AccountInv
<1>2. MaxWrites \in Nat /\ n \in Nat
  BY SocketAssumption DEF SocketAssumption
<1>3. {w \in WriteId : written[w] # "none"} = 1 .. n
  BY <1>1, <1>2 DEF WritesNumbered, WriteId
<1>4. Writes = n
  <2>1. Cardinality(1 .. n) = n
    BY <1>2, FS_Interval
  <2>. QED
    BY <1>3, <2>1 DEF Writes
<1>. QED
  BY <1>1, <1>2, <1>4 DEF WritesNumbered, WriteId

\* write() numbers one more write, which the main thread then holds.
LEMMA WriteStarts ==
  ASSUME AccountInv, Write
  PROVE  AccountInv'
<1>1. SocketTypeOK /\ IsFiniteSet(in_flight) /\ WritesAccounted /\ HandsInv
  BY DEF AccountInv
<1>2. /\ Writes \in 0 .. MaxWrites /\ WritesNumbered(Writes)
      /\ Writes + 1 \in WriteId /\ written[Writes + 1] = "none"
  BY NextWrite DEF Write
<1> PICK n \in 0 .. MaxWrites : n = Writes
  BY <1>2
<1> PICK v \in WriteId : v = Writes + 1
  BY <1>2
<1>3. /\ written' = [written EXCEPT ![v] = "pending"]
      /\ hand' = [hand EXCEPT !["main"] = v]
      /\ pc' = [pc EXCEPT !["main"] = "test"] /\ pc["main"] = "idle"
      /\ UNCHANGED <<engine, state, opened, closes, pointerVars, status, timer,
                     active_write, write_queue, posted, ioVars, in_flight, ready, received>>
  BY DEF Write, MayCall, streamVars, ioVars
<1>4. v \in 0 .. MaxWrites /\ MaxWrites \in Nat
  BY SocketAssumption DEF WriteId, SocketAssumption
<1>5. ObjectTypeOK' /\ WriteTypeOK' /\ ThreadTypeOK'
  <2>1. ObjectTypeOK'
    BY <1>1, <1>3 DEF SocketTypeOK, ObjectTypeOK
  <2>2. WriteTypeOK'
    BY <1>1, <1>3, <1>4 DEF SocketTypeOK, WriteTypeOK
  <2>3. ThreadTypeOK'
    BY <1>1, <1>3 DEF SocketTypeOK, ThreadTypeOK
  <2>. QED
    BY <2>1, <2>2, <2>3
<1>6. SocketTypeOK' /\ IsFiniteSet(in_flight)'
  <2>1. /\ PointerTypeOK' /\ StatusTypeOK' /\ TimerTypeOK' /\ IoTypeOK' /\ PostTypeOK'
        /\ received' \in 0 .. MaxMessages
    BY <1>1, <1>3, TypesKept
  <2>2. SocketTypeOK'
    BY <1>5, <2>1, TypePartsNext
  <2>. QED
    BY <1>1, <1>3, <2>2
<1>7. WritesAccounted'
  <2>1. "main" \in Thread
    BY DEF Thread
  <2> PICK t \in Thread : t = "main"
    BY <2>1
  <2>2. hand[t] = 0
    BY <1>1, <1>3 DEF HandsInv
  <2>3. hand' = [hand EXCEPT ![t] = v]
    BY <1>3
  <2>4. \A w : Held(w)' = Held(w) - (IF hand[t] = w THEN 1 ELSE 0)
                                   + (IF v = w THEN 1 ELSE 0)
    BY ZenonT(40), <1>1, <1>4, <2>3, HandChanges
  <2>5. \A w : /\ Queued(w) \in Nat /\ Flying(w) \in Nat /\ Done(w) \in Nat
              /\ Told(w) \in Nat /\ Held(w) \in Nat
    BY <1>1, PartsType
  <2>6. \A w \in WriteId : w # 0
    BY <1>4 DEF WriteId
  <2>7. \A w : /\ Queued(w)' = Queued(w) /\ Flying(w)' = Flying(w)
              /\ Done(w)' = Done(w) /\ Told(w)' = Told(w)
    BY <1>3, PartsKept
  <2>8. \A w \in WriteId : Total(w)' = Total(w) + (IF v = w THEN 1 ELSE 0)
    BY <2>2, <2>4, <2>5, <2>6, <2>7 DEF Total
  <2>9. Total(v) = 0
    BY <1>1, <1>2, PlacesSum DEF WritesAccounted
  <2>10. \A w \in WriteId \ {v} : Total(w)' = Total(w)
    <3>1. \A w \in WriteId : Total(w) \in Nat
      BY <2>5 DEF Total
    <3>. QED
      BY <2>8, <3>1
  <2>11. Total(v)' = 1
    BY <2>8, <2>9
  <2> PICK st \in {"pending", "resolved"} : st = "pending"
    OBVIOUS
  <2>12. written' = [written EXCEPT ![v] = st] /\ Total(v)' = IF st = "pending" THEN 1 ELSE 0
    BY <1>3, <2>11
  <2>. QED
    BY <1>1, <1>6, <2>10, <2>12, AccountChanges
<1>8. \E m \in 0 .. MaxWrites : WritesNumbered(m)'
  <2>1. \A w \in WriteId : w <= v <=> w <= n \/ w = v
    BY <1>4 DEF WriteId
  <2>2. \A w \in WriteId : written'[w] = IF w = v THEN "pending" ELSE written[w]
    BY <1>1, <1>3 DEF SocketTypeOK
  <2>3. WritesNumbered(v)'
    BY <1>2, <2>1, <2>2 DEF WritesNumbered
  <2>. QED
    BY <1>4, <2>3
<1>9. HandsInv' /\ ClosingInv'
  <2>1. HandsInv'
    BY <1>1, <1>3, <1>4 DEF SocketTypeOK, HandsInv, Thread, WriteId
  <2>2. ClosingInv'
    BY <1>1, <1>3 DEF SocketTypeOK, AccountInv, ClosingInv, Thread
  <2>. QED
    BY <2>1, <2>2
<1>. QED
  BY <1>6, <1>7, <1>8, <1>9, AccountNext

\* The result of a write settles it: it is accounted for a last time.
LEMMA OnWriteResultStep ==
  ASSUME AccountInv, OnWriteResult
  PROVE  AccountInv'
<1>1. SocketTypeOK /\ IsFiniteSet(in_flight) /\ WritesAccounted
  BY DEF AccountInv
<1> PICK name : name = "OnWrite"
  OBVIOUS
<1>2. /\ RunOne(name)
      /\ UNCHANGED <<engine, state, opened, closes, pointerVars, status, timer,
                     active_write, write_queue, pc, hand, ioVars, in_flight, ready,
                     received>>
  BY DEF OnWriteResult, streamVars, writeVars, ioVars
<1>3. /\ Head(posted).id \in WriteId /\ posted' \in Seq(Callback)
      /\ \A w : Told(w)' = Told(w) -
                   (IF name = "OnWrite" /\ Head(posted).id = w THEN 1 ELSE 0)
  BY <1>1, <1>2, FrameTakes
<1> PICK v \in WriteId : v = Head(posted).id
  BY <1>3
<1>4. written' = [written EXCEPT ![v] = "resolved"]
  BY DEF OnWriteResult
<1>5. ObjectTypeOK'
  BY <1>1, <1>2, <1>4 DEF SocketTypeOK, ObjectTypeOK
<1>6. SocketTypeOK' /\ IsFiniteSet(in_flight)'
  <2>1. /\ PointerTypeOK' /\ StatusTypeOK' /\ TimerTypeOK' /\ WriteTypeOK' /\ IoTypeOK'
        /\ ThreadTypeOK' /\ received' \in 0 .. MaxMessages
    BY <1>1, <1>2, TypesKept
  <2>2. PostTypeOK'
    BY <1>3 DEF PostTypeOK
  <2>3. SocketTypeOK'
    BY <1>5, <2>1, <2>2, TypePartsNext
  <2>. QED
    BY <1>1, <1>2, <2>3
<1>7. \A w : /\ Queued(w) \in Nat /\ Flying(w) \in Nat /\ Done(w) \in Nat
            /\ Told(w) \in Nat /\ Held(w) \in Nat
  BY <1>1, PartsType
<1>8. \A w : /\ Queued(w)' = Queued(w) /\ Flying(w)' = Flying(w)
            /\ Done(w)' = Done(w) /\ Held(w)' = Held(w)
  BY <1>2, PartsKept
<1>9. Told(v)' \in Nat /\ Told(v)' = Told(v) - 1
  BY <1>3, <1>6, PartsTypeNext
<1>10. Total(v) = 1 /\ written[v] = "pending"
  <2>1. Total(v) = IF written[v] = "pending" THEN 1 ELSE 0
    BY <1>1, PlacesSum DEF WritesAccounted
  <2>2. Total(v) >= 1
    BY <1>7, <1>9 DEF Total
  <2>. QED
    BY <2>1, <2>2
<1>11. Total(v)' = 0
  BY <1>7, <1>8, <1>9, <1>10 DEF Total
<1>12. \A w \in WriteId \ {v} : Total(w)' = Total(w)
  <2>1. \A w \in WriteId \ {v} : Told(w)' = Told(w)
    BY <1>3, <1>7
  <2>. QED
    BY <1>8, <2>1 DEF Total
<1>13. WritesAccounted'
  <2> PICK st \in {"pending", "resolved"} : st = "resolved"
    OBVIOUS
  <2>1. written' = [written EXCEPT ![v] = st] /\ Total(v)' = IF st = "pending" THEN 1 ELSE 0
    BY <1>4, <1>11
  <2>. QED
    BY <1>1, <1>6, <1>12, <2>1, AccountChanges
<1>14. \E n \in 0 .. MaxWrites : WritesNumbered(n)'
  <2>1. PICK n \in 0 .. MaxWrites : WritesNumbered(n)
    BY DEF AccountInv
  <2>2. \A w \in WriteId : written'[w] = IF w = v THEN "resolved" ELSE written[w]
    BY <1>1, <1>4 DEF SocketTypeOK
  <2>3. WritesNumbered(n)'
    BY <1>10, <2>1, <2>2 DEF WritesNumbered
  <2>. QED
    BY <2>3
<1>15. HandsInv' /\ ClosingInv'
  BY <1>2, OthersControl DEF FirstWaits
<1>. QED
  BY <1>6, <1>13, <1>14, <1>15, AccountNext

\* The answer of a send is posted, then the queue is looked at.
LEMMA OnWriteStep ==
  ASSUME AccountInv, OnWrite
  PROVE  AccountInv'
<1>1. SocketTypeOK /\ IsFiniteSet(in_flight) /\ HandsInv
  BY DEF AccountInv
<1>2. /\ pc["background"] = "idle" /\ ready # <<>> /\ Of.op = "send"
      /\ ready' = Tail(ready) /\ active_write' = FALSE
      /\ pc' = [pc EXCEPT !["background"] = "flush"]
      /\ UNCHANGED <<objectVars, written, pointerVars, status, timer, write_queue,
                     hand, in_flight, received>>
  BY DEF OnWrite, Handle, Of, objectVars, streamVars
<1>3. Of.id \in WriteId /\ Tail(ready) \in Seq(Completion)
  BY <1>1, <1>2, HandlerTakes
<1> PICK v \in WriteId : v = Of.id
  BY <1>3
<1> PICK c : c = [to |-> "OnWrite", id |-> v]
  OBVIOUS
<1> PICK rest : rest = Tail(ready)
  OBVIOUS
<1>4. c \in Callback /\ \A w : c \in Answers(w) <=> w = v
  BY Callbacks
<1>5. posted' = Append(posted, c)
  BY DEF OnWrite
<1>6. PostTypeOK' /\ \A w : Told(w)' = Told(w) + (IF c \in Answers(w) THEN 1 ELSE 0)
  BY <1>1, <1>4, <1>5, Posts
<1>7. \A w : Done(w)' = Done(w) - (IF v = w THEN 1 ELSE 0)
  <2>1. ASSUME NEW w PROVE Done(w)' = Done(w) - (IF v = w THEN 1 ELSE 0)
    <3>1. Counted(rest, SendsDone(w)) = Done(w) - (IF Of.op = "send" /\ Of.id = w THEN 1 ELSE 0)
      BY <1>1, <1>2, HandlerLeaves
    <3>2. Done(w)' = Counted(rest, SendsDone(w))
      BY <1>2 DEF Done
    <3>. QED
      BY <1>2, <3>1, <3>2
  <2>. QED
    BY <2>1
<1>8. IoMoves
  <2>1. IoTypeOK' /\ IsFiniteSet(in_flight')
    BY <1>1, <1>2, <1>3 DEF IoTypeOK, SocketTypeOK
  <2>2. \A w : /\ Flying(w) \in Nat /\ Done(w) \in Nat /\ Told(w) \in Nat
              /\ Flying(w)' = Flying(w)
    BY <1>1, <1>2, PartsType, PartsKept
  <2>. QED
    BY <1>4, <1>6, <1>7, <2>1, <2>2 DEF IoMoves
<1>9. /\ ObjectTypeOK' /\ PointerTypeOK' /\ StatusTypeOK' /\ TimerTypeOK'
      /\ received' \in 0 .. MaxMessages
  BY <1>1, <1>2, TypesKept
<1>10. WriteTypeOK' /\ ThreadTypeOK'
  BY <1>1, <1>2 DEF SocketTypeOK, WriteTypeOK, ThreadTypeOK
<1>11. HandsInv' /\ ClosingInv'
  BY <1>1, <1>2 DEF SocketTypeOK, HandsInv, ClosingInv, Thread
<1>. QED
  BY <1>2, <1>6, <1>8, <1>9, <1>10, <1>11, QuietStep

\* A thread finds active_write_ set and queues its write, or starts it.
LEMMA TestActiveStep ==
  ASSUME AccountInv, NEW t \in Thread, TestActive(t)
  PROVE  AccountInv'
<1>1. SocketTypeOK /\ IsFiniteSet(in_flight) /\ HandsInv /\ ClosingInv
  BY DEF AccountInv
<1>2. /\ pc[t] = "test"
      /\ pc' = [pc EXCEPT ![t] = IF active_write THEN "push" ELSE "send"]
      /\ UNCHANGED <<objectVars, written, pointerVars, status, timer, active_write,
                     write_queue, hand, posted, ioVars, ready, received>>
  BY DEF TestActive, objectVars, streamVars, ioVars
<1>3. IoMoves
  BY <1>1, <1>2, NothingMoves
<1>4. /\ ObjectTypeOK' /\ PointerTypeOK' /\ StatusTypeOK' /\ TimerTypeOK' /\ WriteTypeOK'
      /\ received' \in 0 .. MaxMessages
  BY <1>1, <1>2, TypesKept
<1>5. ThreadTypeOK' /\ HandsInv' /\ ClosingInv'
  BY <1>1, <1>2 DEF SocketTypeOK, ThreadTypeOK, HandsInv, ClosingInv, Thread
<1>. QED
  BY <1>2, <1>3, <1>4, <1>5, QuietStep

\* The write joins the queue.
LEMMA PushStep ==
  ASSUME AccountInv, NEW t \in Thread, Push(t)
  PROVE  AccountInv'
<1>1. SocketTypeOK /\ IsFiniteSet(in_flight) /\ HandsInv /\ ClosingInv
  BY DEF AccountInv
<1>2. /\ pc[t] = "push" /\ write_queue' = Append(write_queue, hand[t])
      /\ pc' = [pc EXCEPT ![t] = "idle"] /\ hand' = [hand EXCEPT ![t] = 0]
      /\ UNCHANGED <<objectVars, written, pointerVars, status, timer, active_write,
                     posted, ioVars, in_flight, ready, received>>
  BY DEF Push, objectVars, streamVars, ioVars
<1>3. MaxWrites \in Nat
  BY SocketAssumption DEF SocketAssumption
<1>4. hand[t] \in WriteId
  BY <1>1, <1>2, <1>3 DEF SocketTypeOK, HandsInv, WriteId
<1> PICK v \in WriteId : v = hand[t]
  BY <1>4
<1>5. write_queue \in Seq(WriteId)
  BY <1>1 DEF SocketTypeOK
<1>6. WriteTypeOK' /\ ThreadTypeOK'
  <2>1. Append(write_queue, v) \in Seq(WriteId)
    BY <1>5, PushType
  <2>2. active_write' \in BOOLEAN /\ hand' \in [Thread -> 0 .. MaxWrites]
    BY <1>1, <1>2, <1>3 DEF SocketTypeOK
  <2>3. ThreadTypeOK'
    BY <1>1, <1>2 DEF SocketTypeOK, ThreadTypeOK
  <2>. QED
    BY <1>2, <2>1, <2>2, <2>3 DEF WriteTypeOK
<1>7. SocketTypeOK' /\ IsFiniteSet(in_flight)'
  <2>1. /\ ObjectTypeOK' /\ PointerTypeOK' /\ StatusTypeOK' /\ TimerTypeOK' /\ IoTypeOK'
        /\ PostTypeOK' /\ received' \in 0 .. MaxMessages
    BY <1>1, <1>2, TypesKept
  <2>2. SocketTypeOK'
    BY <1>6, <2>1, TypePartsNext
  <2>. QED
    BY <1>1, <1>2, <2>2
<1>8. \A w \in WriteId : Total(w)' = Total(w)
  <2> SUFFICES ASSUME NEW w \in WriteId PROVE Total(w)' = Total(w)
    OBVIOUS
  <2> PICK longer : longer = Append(write_queue, v)
    OBVIOUS
  <2>1. Queued(w)' = Queued(w) + (IF v = w THEN 1 ELSE 0)
    <3>1. Counted(longer, {w}) = Counted(write_queue, {w}) + (IF v \in {w} THEN 1 ELSE 0)
      BY <1>5, CountPush
    <3>2. Queued(w)' = Counted(longer, {w})
      BY <1>2 DEF Queued
    <3>. QED
      BY <3>1, <3>2 DEF Queued
  <2> PICK none \in 0 .. MaxWrites : none = 0
    BY <1>3
  <2>2. hand' = [hand EXCEPT ![t] = none]
    BY <1>2
  <2>3. Held(w)' = Held(w) - (IF hand[t] = w THEN 1 ELSE 0) + (IF none = w THEN 1 ELSE 0)
    BY ZenonT(40), <1>1, <2>2, HandChanges
  <2>4. w # 0
    BY <1>3 DEF WriteId
  <2>5. Flying(w)' = Flying(w) /\ Done(w)' = Done(w) /\ Told(w)' = Told(w)
    BY <1>2, PartsKept
  <2>6. /\ Queued(w) \in Nat /\ Flying(w) \in Nat /\ Done(w) \in Nat
        /\ Told(w) \in Nat /\ Held(w) \in Nat
    BY <1>1, PartsType
  <2>. QED
    BY <2>1, <2>3, <2>4, <2>5, <2>6 DEF Total
<1>9. HandsInv' /\ ClosingInv'
  BY <1>1, <1>2 DEF SocketTypeOK, HandsInv, ClosingInv, Thread
<1>. QED
  BY <1>2, <1>7, <1>8, <1>9, WriteStep DEF objectVars

\* The write is started.
LEMMA SendStarts ==
  ASSUME AccountInv, NEW t \in Thread, Send(t),
         Start([op |-> "send", id |-> hand[t], on |-> Current], ready),
         pc' = [pc EXCEPT ![t] = "idle"], hand' = [hand EXCEPT ![t] = 0]
  PROVE  AccountInv'
<1>1. SocketTypeOK /\ IsFiniteSet(in_flight) /\ HandsInv /\ ClosingInv /\ WritesAccounted
  BY DEF AccountInv
<1>2. /\ pc[t] = "send" /\ active_write' = TRUE
      /\ pc' = [pc EXCEPT ![t] = "idle"] /\ hand' = [hand EXCEPT ![t] = 0]
      /\ UNCHANGED <<objectVars, written, pointerVars, status, timer, write_queue,
                     posted, received>>
  BY DEF Send, objectVars, streamVars
<1>3. MaxWrites \in Nat
  BY SocketAssumption DEF SocketAssumption
<1>4. hand[t] \in WriteId
  BY <1>1, <1>2, <1>3 DEF SocketTypeOK, HandsInv, WriteId
<1> PICK v \in WriteId : v = hand[t]
  BY <1>4
<1> PICK o : o = [op |-> "send", id |-> v, on |-> Current]
  OBVIOUS
<1> PICK q : q = ready
  OBVIOUS
<1>5. o \in Operation /\ o.op = "send" /\ o.id = v
  BY <1>1, CurrentStream DEF Operation
<1>6. Start(o, q)
  OBVIOUS
<1>7. q \in Seq(Completion) /\ \A w : Counted(q, SendsDone(w)) = Done(w)
  BY <1>1 DEF SocketTypeOK, Done
<1>8. /\ in_flight' \in SUBSET Operation /\ IsFiniteSet(in_flight')
      /\ ready' \in Seq(Completion)
      /\ \A w : ~(o.op = "send" /\ o.id = w) =>
           Flying(w)' + Done(w)' = Flying(w) + Counted(q, SendsDone(w))
      /\ \A w : o.op = "send" /\ o.id = w /\ Flying(w) = 0 =>
           Flying(w)' + Done(w)' = 1 + Counted(q, SendsDone(w))
  BY <1>1, <1>5, <1>6, <1>7, Started
<1>9. SocketTypeOK' /\ IsFiniteSet(in_flight)'
  <2>1. /\ ObjectTypeOK' /\ PointerTypeOK' /\ StatusTypeOK' /\ TimerTypeOK'
        /\ PostTypeOK' /\ received' \in 0 .. MaxMessages
    BY <1>1, <1>2, TypesKept
  <2>2. WriteTypeOK' /\ ThreadTypeOK' /\ IoTypeOK'
    <3>1. WriteTypeOK'
      BY <1>1, <1>2, <1>3 DEF SocketTypeOK, WriteTypeOK
    <3>2. ThreadTypeOK'
      BY <1>1, <1>2 DEF SocketTypeOK, ThreadTypeOK
    <3>. QED
      BY <1>8, <3>1, <3>2 DEF IoTypeOK
  <2>3. SocketTypeOK'
    BY <2>1, <2>2, TypePartsNext
  <2>. QED
    BY <1>8, <2>3
<1> PICK none \in 0 .. MaxWrites : none = 0
  BY <1>3
<1>10. \A w : Held(w)' = Held(w) - (IF v = w THEN 1 ELSE 0) + (IF none = w THEN 1 ELSE 0)
  <2>1. hand' = [hand EXCEPT ![t] = none]
    BY <1>2
  <2>2. \A w : Held(w)' = Held(w) - (IF hand[t] = w THEN 1 ELSE 0)
                                   + (IF none = w THEN 1 ELSE 0)
    BY <1>1, <2>1, HandChanges
  <2>. QED
    BY <2>2
<1>11. v # 0 /\ \A w \in WriteId : w # none
  BY <1>3 DEF WriteId
<1>12. \A w : /\ Queued(w) \in Nat /\ Flying(w) \in Nat /\ Done(w) \in Nat
             /\ Told(w) \in Nat /\ Held(w) \in Nat
  BY <1>1, PartsType
<1>13. \A w : /\ Flying(w)' \in Nat /\ Done(w)' \in Nat /\ Held(w)' \in Nat
             /\ Queued(w)' = Queued(w) /\ Told(w)' = Told(w)
  BY <1>2, <1>9, PartsTypeNext, PartsKept
<1>14. Total(v) <= 1
  BY <1>1, PlacesSum DEF WritesAccounted
<1>15. Flying(v) = 0
  <2>1. Held(v)' = Held(v) - 1
    BY <1>10, <1>11, <1>12
  <2>2. Held(v) >= 1
    BY <1>12, <1>13, <2>1
  <2>. QED
    BY <1>12, <1>14, <2>2 DEF Total
<1>16. \A w \in WriteId : Total(w)' = Total(w)
  <2> SUFFICES ASSUME NEW w \in WriteId PROVE Total(w)' = Total(w)
    OBVIOUS
  <2>1. CASE w = v
    <3>1. Held(w)' = Held(w) - 1
      BY <1>10, <1>11, <1>12, <2>1
    <3>2. Flying(w)' + Done(w)' = 1 + Done(w)
      BY <1>5, <1>7, <1>8, <1>15, <2>1
    <3>. QED
      BY <1>12, <1>13, <1>15, <2>1, <3>1, <3>2 DEF Total
  <2>2. CASE w # v
    <3>1. Held(w)' = Held(w)
      BY <1>10, <1>11, <1>12, <2>2
    <3>2. Flying(w)' + Done(w)' = Flying(w) + Done(w)
      BY <1>5, <1>7, <1>8, <2>2
    <3>. QED
      BY <1>12, <1>13, <3>1, <3>2 DEF Total
  <2>. QED
    BY <2>1, <2>2
<1>17. HandsInv' /\ ClosingInv'
  <2>1. FirstWaits
    BY <1>1, <1>6, StartsBehind
  <2>2. HandsInv'
    BY <1>1, <1>2 DEF SocketTypeOK, HandsInv, Thread
  <2>3. ClosingInv'
    BY <1>1, <1>2, <2>1 DEF SocketTypeOK, ClosingInv, FirstWaits, Thread
  <2>. QED
    BY <2>2, <2>3
<1>. QED
  BY <1>2, <1>9, <1>16, <1>17, WriteStep DEF objectVars

\* The stream is not there, and the process ends.
LEMMA SendStep ==
  ASSUME AccountInv, NEW t \in Thread, Send(t)
  PROVE  AccountInv'
<1>1. SocketTypeOK /\ IsFiniteSet(in_flight)
  BY DEF AccountInv
<1>2. CASE /\ Start([op |-> "send", id |-> hand[t], on |-> Current], ready)
           /\ pc' = [pc EXCEPT ![t] = "idle"] /\ hand' = [hand EXCEPT ![t] = 0]
  BY <1>2, SendStarts
<1>3. CASE End /\ UNCHANGED <<hand, ioVars>>
  <2>1. /\ active_write' = TRUE
        /\ UNCHANGED <<objectVars, written, pointerVars, status, timer, write_queue, hand,
                       posted, received>>
    BY <1>3 DEF Send, objectVars, streamVars
  <2>2. /\ ObjectTypeOK' /\ PointerTypeOK' /\ StatusTypeOK' /\ TimerTypeOK'
        /\ received' \in 0 .. MaxMessages
    BY <1>1, <2>1, TypesKept
  <2>3. WriteTypeOK'
    BY <1>1, <2>1 DEF SocketTypeOK, WriteTypeOK
  <2>4. ThreadTypeOK' /\ HandsInv' /\ ClosingInv'
    BY <1>3 DEF End, AccountInv, HandsInv, ClosingInv, ThreadTypeOK, Thread, SocketTypeOK
  <2>5. IoMoves
    BY <1>1, <1>3, <2>1, NothingMoves
  <2>. QED
    BY <2>1, <2>2, <2>3, <2>4, <2>5, QuietStep
<1>. QED
  BY <1>2, <1>3 DEF Send

\* The second half of OnWrite takes the next message out of the queue.
LEMMA FlushStep ==
  ASSUME AccountInv, Flush
  PROVE  AccountInv'
<1>1. SocketTypeOK /\ IsFiniteSet(in_flight) /\ HandsInv /\ ClosingInv
  BY DEF AccountInv
<1>2. /\ pc["background"] = "flush"
      /\ UNCHANGED <<objectVars, written, pointerVars, status, timer, active_write,
                     posted, ioVars, in_flight, ready, received>>
  BY DEF Flush, objectVars, streamVars, ioVars
<1>3. /\ ObjectTypeOK' /\ PointerTypeOK' /\ StatusTypeOK' /\ TimerTypeOK'
      /\ PostTypeOK' /\ IoTypeOK' /\ received' \in 0 .. MaxMessages
  BY <1>1, <1>2, TypesKept
<1>4. CASE write_queue = <<>> /\ pc' = [pc EXCEPT !["background"] = "idle"]
           /\ UNCHANGED <<write_queue, hand>>
  <2>1. IoMoves
    BY <1>1, <1>2, NothingMoves
  <2>2. WriteTypeOK'
    BY <1>1, <1>2, <1>4, TypesKept
  <2>3. ThreadTypeOK' /\ HandsInv' /\ ClosingInv'
    BY <1>1, <1>2, <1>4 DEF SocketTypeOK, ThreadTypeOK, HandsInv, ClosingInv, Thread
  <2>. QED
    BY <1>2, <1>3, <1>4, <2>1, <2>2, <2>3, QuietStep
<1>5. CASE /\ write_queue # <<>>
           /\ hand' = [hand EXCEPT !["background"] = Head(write_queue)]
           /\ write_queue' = Tail(write_queue)
           /\ pc' = [pc EXCEPT !["background"] = "test"]
  <2>1. write_queue \in Seq(WriteId)
    BY <1>1 DEF SocketTypeOK
  <2>2. Head(write_queue) \in WriteId /\ Tail(write_queue) \in Seq(WriteId)
    BY <1>5, <2>1, PopType
  <2> PICK v \in WriteId : v = Head(write_queue)
    BY <2>2
  <2>3. v \in 0 .. MaxWrites /\ v # 0 /\ \A w \in WriteId : w # 0
    BY SocketAssumption DEF SocketAssumption, WriteId
  <2>4. "background" \in Thread
    BY DEF Thread
  <2> PICK t \in Thread : t = "background"
    BY <2>4
  <2>5. hand[t] = 0
    BY <1>1, <1>2 DEF HandsInv
  <2>6. hand' = [hand EXCEPT ![t] = v]
    BY <1>5
  <2>7. SocketTypeOK' /\ IsFiniteSet(in_flight)'
    <3>1. WriteTypeOK'
      BY <1>1, <1>2, <1>5, <2>2, <2>3, <2>6 DEF SocketTypeOK, WriteTypeOK
    <3>2. ThreadTypeOK'
      BY <1>1, <1>5 DEF SocketTypeOK, ThreadTypeOK
    <3>3. SocketTypeOK'
      BY <1>3, <3>1, <3>2, TypePartsNext
    <3>. QED
      BY <1>1, <1>2, <3>3
  <2>8. \A w : Held(w)' = Held(w) - (IF hand[t] = w THEN 1 ELSE 0)
                                   + (IF v = w THEN 1 ELSE 0)
    BY <1>1, <2>3, <2>6, HandChanges
  <2> PICK rest : rest = Tail(write_queue)
    OBVIOUS
  <2>9. \A w : Queued(w)' = Queued(w) - (IF v = w THEN 1 ELSE 0)
    <3>1. \A w : Counted(rest, {w}) =
                   Counted(write_queue, {w}) - (IF v \in {w} THEN 1 ELSE 0)
      BY <1>5, <2>1, CountPop
    <3>2. \A w : Queued(w)' = Counted(rest, {w})
      BY <1>5 DEF Queued
    <3>. QED
      BY <3>1, <3>2 DEF Queued
  <2>10. \A w \in WriteId : Total(w)' = Total(w)
    <3>1. \A w : /\ Queued(w) \in Nat /\ Flying(w) \in Nat /\ Done(w) \in Nat
                /\ Told(w) \in Nat /\ Held(w) \in Nat
      BY <1>1, PartsType
    <3>2. \A w : Flying(w)' = Flying(w) /\ Done(w)' = Done(w) /\ Told(w)' = Told(w)
      BY <1>2, PartsKept
    <3>. QED
      BY <2>3, <2>5, <2>8, <2>9, <3>1, <3>2 DEF Total
  <2>11. HandsInv' /\ ClosingInv'
    BY <1>1, <1>2, <1>5, <2>3, <2>6 DEF SocketTypeOK, HandsInv, ClosingInv, Thread
  <2>. QED
    BY <1>2, <2>7, <2>10, <2>11, WriteStep
<1>. QED
  BY <1>4, <1>5 DEF Flush

\* The handlers of an attempt: it is over, or goes on with one operation.
LEMMA AttemptStep ==
  ASSUME AccountInv, ready # <<>>, pc["background"] = "idle",
         Of.op \in {"connect", "handshake", "upgrade"},
         \/ Report
         \/ /\ Of.op \in {"connect", "handshake"}
            /\ \E op \in {"handshake", "upgrade"}, s \in Stream : GoOn(op, s),
         UNCHANGED <<objectVars, pointerVars, status, writeVars, received>>
  PROVE  AccountInv'
<1>1. SocketTypeOK /\ IsFiniteSet(in_flight)
  BY DEF AccountInv
<1>2. UNCHANGED <<objectVars, written, pointerVars, status, active_write, write_queue,
                  pc, hand, received>>
  BY DEF writeVars, objectVars
<1>3. TimerTypeOK' /\ IoMoves
  <2>1. CASE Report
    BY <1>1, <2>1, Reports
  <2>2. CASE /\ Of.op \in {"connect", "handshake"}
             /\ \E op \in {"handshake", "upgrade"}, s \in Stream : GoOn(op, s)
    <3>1. UNCHANGED timer /\ IoMoves
      BY <1>1, <2>2, GoesOn
    <3>. QED
      BY <1>1, <3>1, TypesKept
  <2>. QED
    BY <2>1, <2>2
<1>4. /\ ObjectTypeOK' /\ PointerTypeOK' /\ StatusTypeOK' /\ WriteTypeOK' /\ ThreadTypeOK'
      /\ received' \in 0 .. MaxMessages
  BY <1>1, <1>2, TypesKept
<1>5. HandsInv' /\ ClosingInv'
  BY <1>2, HandlerControl
<1>. QED
  BY <1>2, <1>3, <1>4, <1>5, QuietStep

\* The four handlers that are of this kind.
LEMMA AttemptSteps ==
  ASSUME AccountInv,
         OnConnected \/ OnSecureConnected \/ OnTransport \/ OnHandshakeCompleted
  PROVE  AccountInv'
<1>1. SocketTypeOK
  BY DEF AccountInv
<1>2. secure \in Stream /\ Current \in Stream
  BY <1>1, SocketAssumption, CurrentStream DEF SocketTypeOK, SocketAssumption, Stream
<1>3. CASE OnConnected
  <2>1. /\ ready # <<>> /\ pc["background"] = "idle" /\ Of.op = "connect"
        /\ Report \/ GoOn("handshake", secure)
        /\ UNCHANGED <<objectVars, pointerVars, status, writeVars, received>>
    BY <1>3 DEF OnConnected, Handle, Of
  <2>. QED
    BY <1>2, <2>1, AttemptStep
<1>4. CASE OnSecureConnected
  <2>1. /\ ready # <<>> /\ pc["background"] = "idle" /\ Of.op = "connect"
        /\ Report \/ GoOn("handshake", secure)
        /\ UNCHANGED <<objectVars, pointerVars, status, writeVars, received>>
    BY <1>4 DEF OnSecureConnected, Handle, Of
  <2>. QED
    BY <1>2, <2>1, AttemptStep
<1>5. CASE OnTransport
  <2>1. /\ ready # <<>> /\ pc["background"] = "idle" /\ Of.op \in {"connect", "handshake"}
        /\ Report \/ GoOn("upgrade", Current)
        /\ UNCHANGED <<objectVars, pointerVars, status, writeVars, received>>
    BY <1>5 DEF OnTransport, Handle, Of
  <2>. QED
    BY <1>2, <2>1, AttemptStep
<1>6. CASE OnHandshakeCompleted
  <2>1. /\ ready # <<>> /\ pc["background"] = "idle" /\ Of.op \in {"upgrade", "handshake"}
        /\ Report
        /\ UNCHANGED <<objectVars, pointerVars, status, writeVars, received>>
    BY <1>6 DEF OnHandshakeCompleted, Handle, Of
  <2>. QED
    BY <2>1, AttemptStep
<1>. QED
  BY <1>3, <1>4, <1>5, <1>6

\* The deadline of a TCP connection.
LEMMA OnConnectionTimeoutStep ==
  ASSUME AccountInv, OnConnectionTimeout
  PROVE  AccountInv'
<1>1. SocketTypeOK /\ IsFiniteSet(in_flight)
  BY DEF AccountInv
<1>2. /\ ready # <<>> /\ pc["background"] = "idle" /\ Of.op = "timer" /\ TimedOut
      /\ UNCHANGED <<objectVars, written, pointerVars, timer, active_write, write_queue,
                     pc, hand, received>>
  BY DEF OnConnectionTimeout, Handle, Of, TimedOut, objectVars
<1>3. StatusTypeOK' /\ IoMoves
  BY <1>1, <1>2, TimesOut
<1>4. /\ ObjectTypeOK' /\ PointerTypeOK' /\ TimerTypeOK' /\ WriteTypeOK' /\ ThreadTypeOK'
      /\ received' \in 0 .. MaxMessages
  BY <1>1, <1>2, TypesKept
<1>5. HandsInv' /\ ClosingInv'
  BY <1>2, HandlerControl
<1>. QED
  BY <1>2, <1>3, <1>4, <1>5, QuietStep

\* The deadline of a WebSocket, which blocks the background thread.
LEMMA OnWebTimeoutStep ==
  ASSUME AccountInv, OnWebTimeout
  PROVE  AccountInv'
<1>1. SocketTypeOK /\ IsFiniteSet(in_flight) /\ HandsInv
  BY DEF AccountInv
<1>2. /\ ready # <<>> /\ Head(ready).of.op = "timer" /\ pc["background"] = "idle"
      /\ \/ pc' = [pc EXCEPT !["background"] = "closing"]
         \/ pc' = [t \in Thread |-> "ended"]
      /\ UNCHANGED <<objectVars, written, pointerVars, status, timer, active_write,
                     write_queue, hand, posted, ioVars, ready, received>>
  BY DEF OnWebTimeout, Handle, End, objectVars, streamVars, ioVars
<1>3. IoMoves
  BY <1>1, <1>2, NothingMoves
<1>4. /\ ObjectTypeOK' /\ PointerTypeOK' /\ StatusTypeOK' /\ TimerTypeOK' /\ WriteTypeOK'
      /\ received' \in 0 .. MaxMessages
  BY <1>1, <1>2, TypesKept
<1>5. ThreadTypeOK' /\ HandsInv' /\ ClosingInv'
  BY <1>1, <1>2 DEF SocketTypeOK, ThreadTypeOK, HandsInv, ClosingInv, Thread
<1>. QED
  BY <1>2, <1>3, <1>4, <1>5, QuietStep

\* The blocking close() of the deadline returns.
LEMMA CloseReturnsStep ==
  ASSUME AccountInv, CloseReturns
  PROVE  AccountInv'
<1>1. SocketTypeOK /\ IsFiniteSet(in_flight) /\ HandsInv
  BY DEF AccountInv
<1>2. ready # <<>> /\ Of.op = "timer" /\ pc["background"] = "closing"
  BY DEF CloseReturns, AccountInv, ClosingInv, Of
<1>3. UNCHANGED <<objectVars, written, pointerVars, timer, active_write, write_queue,
                  hand, received>>
  BY DEF CloseReturns, TimedOut, objectVars, streamVars
<1>4. /\ ObjectTypeOK' /\ PointerTypeOK' /\ TimerTypeOK' /\ WriteTypeOK'
      /\ received' \in 0 .. MaxMessages
  BY <1>1, <1>3, TypesKept
<1>5. CASE TimedOut /\ pc' = [pc EXCEPT !["background"] = "idle"]
  <2>1. StatusTypeOK' /\ IoMoves
    BY <1>1, <1>2, <1>5, TimesOut
  <2>2. ThreadTypeOK' /\ HandsInv' /\ ClosingInv'
    BY <1>1, <1>2, <1>3, <1>5 DEF SocketTypeOK, ThreadTypeOK, HandsInv, ClosingInv, Thread
  <2>. QED
    BY <1>3, <1>4, <2>1, <2>2, QuietStep
<1>6. CASE End /\ UNCHANGED <<streamVars, posted, ioVars>>
  <2>1. UNCHANGED <<status, posted, ioVars>>
    BY <1>6 DEF streamVars
  <2>2. StatusTypeOK' /\ IoMoves
    BY <1>1, <2>1, TypesKept, NothingMoves
  <2>3. ThreadTypeOK' /\ HandsInv' /\ ClosingInv'
    BY <1>1, <1>3, <1>6 DEF End, ThreadTypeOK, HandsInv, ClosingInv, Thread
  <2>. QED
    BY <1>3, <1>4, <2>2, <2>3, QuietStep
<1>. QED
  BY <1>5, <1>6 DEF CloseReturns

\* A completion leads to the callback c.
LEMMA HandlerPosts ==
  ASSUME SocketTypeOK, IsFiniteSet(in_flight), ready # <<>>, Of.op # "send",
         NEW c \in Callback, \A w : c \notin Answers(w), posted' = Append(posted, c),
         ready' = Tail(ready), UNCHANGED in_flight
  PROVE  IoMoves
<1> PICK rest : rest = Tail(ready)
  OBVIOUS
<1>1. rest \in Seq(Completion) /\ \A w : Counted(rest, SendsDone(w)) = Done(w)
  BY TakesOther
<1>2. PostTypeOK' /\ \A w : Told(w)' = Told(w) + (IF c \in Answers(w) THEN 1 ELSE 0)
  BY Posts
<1>3. \A w : Told(w) \in Nat
  BY PartsType
<1>4. \A w : Told(w)' = Told(w) /\ Flying(w)' = Flying(w)
  BY <1>2, <1>3, PartsKept
<1>5. IoTypeOK' /\ IsFiniteSet(in_flight')
  BY <1>1 DEF IoTypeOK, SocketTypeOK
<1>6. \A w : Done(w)' = Done(w)
  BY <1>1 DEF Done
<1>. QED
  BY <1>2, <1>4, <1>5, <1>6 DEF IoMoves

\* The stream has been shut down.
LEMMA OnShutdownStep ==
  ASSUME AccountInv, OnShutdown
  PROVE  AccountInv'
<1>1. SocketTypeOK /\ IsFiniteSet(in_flight)
  BY DEF AccountInv
<1> PICK c : c = [to |-> "OnClose"]
  OBVIOUS
<1>2. /\ ready # <<>> /\ Of.op = "shutdown" /\ pc["background"] = "idle"
      /\ posted' = Append(posted, c) /\ ready' = Tail(ready)
      /\ UNCHANGED <<objectVars, written, pointerVars, status, timer, active_write,
                     write_queue, pc, hand, in_flight, received>>
  BY DEF OnShutdown, Handle, Of, objectVars, streamVars, writeVars
<1>3. c \in Callback /\ \A w : c \notin Answers(w)
  BY Callbacks
<1>4. IoMoves
  BY <1>1, <1>2, <1>3, HandlerPosts
<1>5. /\ ObjectTypeOK' /\ PointerTypeOK' /\ StatusTypeOK' /\ TimerTypeOK' /\ WriteTypeOK'
      /\ ThreadTypeOK' /\ received' \in 0 .. MaxMessages
  BY <1>1, <1>2, TypesKept
<1>6. HandsInv' /\ ClosingInv'
  BY <1>2, HandlerControl
<1>. QED
  BY <1>2, <1>4, <1>5, <1>6, QuietStep

\* A read completes.
LEMMA OnReadStep ==
  ASSUME AccountInv, OnRead
  PROVE  AccountInv'
<1>1. SocketTypeOK /\ IsFiniteSet(in_flight)
  BY DEF AccountInv
<1>2. /\ ready # <<>> /\ Of.op = "read" /\ pc["background"] = "idle"
      /\ UNCHANGED <<objectVars, written, pointerVars, status, timer, active_write,
                     write_queue, pc, hand, received>>
  BY DEF OnRead, Handle, Of, objectVars, streamVars, writeVars
<1>3. IoMoves
  <2>1. CASE /\ posted' = Append(posted, [to |-> "OnRead"])
             /\ Start([op |-> "read", id |-> Of.id, on |-> Current], Tail(ready))
    <3> PICK c : c = [to |-> "OnRead"]
      OBVIOUS
    <3> PICK o : o = [op |-> "read", id |-> Of.id, on |-> Current]
      OBVIOUS
    <3> PICK rest : rest = Tail(ready)
      OBVIOUS
    <3>1. Start(o, rest) /\ posted' = Append(posted, c)
      BY <2>1
    <3>2. rest \in Seq(Completion) /\ \A w : Counted(rest, SendsDone(w)) = Done(w)
      BY <1>1, <1>2, TakesOther
    <3>3. o \in Operation /\ o.op # "send"
      BY <1>1, <1>2, HandlerTakes, CurrentStream, AttemptOperation
    <3>4. /\ in_flight' \in SUBSET Operation /\ IsFiniteSet(in_flight')
          /\ ready' \in Seq(Completion)
          /\ \A w : ~(o.op = "send" /\ o.id = w) =>
               Flying(w)' + Done(w)' = Flying(w) + Counted(rest, SendsDone(w))
      BY <1>1, <3>1, <3>2, <3>3, Started
    <3>5. \A w : Flying(w)' + Done(w)' = Flying(w) + Done(w)
      BY <3>2, <3>3, <3>4
    <3>6. c \in Callback /\ \A w : c \notin Answers(w)
      BY Callbacks
    <3>7. PostTypeOK' /\ \A w : Told(w)' = Told(w) + (IF c \in Answers(w) THEN 1 ELSE 0)
      BY <1>1, <3>1, <3>6, Posts
    <3>8. \A w : Told(w)' = Told(w)
      <4>1. \A w : Told(w) \in Nat
        BY <1>1, PartsType
      <4>. QED
        BY <3>6, <3>7, <4>1
    <3>. QED
      BY <3>4, <3>5, <3>7, <3>8 DEF IoMoves, IoTypeOK
  <2>2. CASE /\ posted' = Append(posted, [to |-> "OnError"])
             /\ ready' = Tail(ready) /\ UNCHANGED in_flight
    <3> PICK c : c = [to |-> "OnError"]
      OBVIOUS
    <3>1. c \in Callback /\ \A w : c \notin Answers(w)
      BY Callbacks
    <3>2. posted' = Append(posted, c)
      BY <2>2
    <3>. QED
      BY <1>1, <1>2, <2>2, <3>1, <3>2, HandlerPosts
  <2>. QED
    BY <2>1, <2>2 DEF OnRead
<1>4. /\ ObjectTypeOK' /\ PointerTypeOK' /\ StatusTypeOK' /\ TimerTypeOK' /\ WriteTypeOK'
      /\ ThreadTypeOK' /\ received' \in 0 .. MaxMessages
  BY <1>1, <1>2, TypesKept
<1>5. HandsInv' /\ ClosingInv'
  BY <1>2, HandlerControl
<1>. QED
  BY <1>2, <1>3, <1>4, <1>5, QuietStep

\* An operation that fails at once, and is not a send.
LEMMA FailsAtOnce ==
  ASSUME NEW q \in Seq(Completion), NEW o \in Operation, o.op # "send"
  PROVE  /\ Append(q, Completed(o, "error")) \in Seq(Completion)
         /\ \A w : Counted(Append(q, Completed(o, "error")), SendsDone(w)) =
                     Counted(q, SendsDone(w))
<1>1. Completed(o, "error") \in Completion
  BY Operations
<1> PICK c \in Completion : c = Completed(o, "error")
  BY <1>1
<1>2. Append(q, c) \in Seq(Completion)
  <2> HIDE DEF Completion
  <2>. QED
    BY PushType
<1>3. ASSUME NEW w PROVE Counted(Append(q, c), SendsDone(w)) = Counted(q, SendsDone(w))
  <2>1. c \notin SendsDone(w)
    BY SendsCompleted
  <2>2. Counted(Append(q, c), SendsDone(w)) =
          Counted(q, SendsDone(w)) + (IF c \in SendsDone(w) THEN 1 ELSE 0)
    BY CountPush
  <2>3. Counted(q, SendsDone(w)) \in Nat
    BY CountType
  <2>. QED
    BY <2>1, <2>2, <2>3
<1>. QED
  BY <1>2, <1>3

\* An operation that is started where others are lost.
LEMMA Replaces ==
  ASSUME NEW flying \in SUBSET Operation, IsFiniteSet(flying), NEW lost \in SUBSET flying,
         NEW aborts \in SetToSeqs({Completed(p, "error") : p \in lost}),
         NEW completions \in Seq(Completion), NEW o \in Operation, o.op # "send"
  PROVE  /\ (flying \ lost) \cup {o} \in SUBSET Operation
         /\ IsFiniteSet((flying \ lost) \cup {o})
         /\ completions \o aborts \in Seq(Completion)
         /\ \A w : Cardinality(SendsIn((flying \ lost) \cup {o}, w))
                     + Counted(completions \o aborts, SendsDone(w)) =
                   Cardinality(SendsIn(flying, w)) + Counted(completions, SendsDone(w))
<1> PICK kept : kept = flying \ lost
  OBVIOUS
<1>1. /\ kept \in SUBSET Operation /\ IsFiniteSet(kept)
      /\ completions \o aborts \in Seq(Completion)
      /\ \A w : Cardinality(SendsIn(kept, w))
                  + Counted(completions \o aborts, SendsDone(w)) =
                Cardinality(SendsIn(flying, w)) + Counted(completions, SendsDone(w))
  BY Aborted
<1>2. IsFiniteSet(kept \cup {o}) /\ \A w : SendsIn(kept \cup {o}, w) = SendsIn(kept, w)
  BY <1>1, OtherAdded
<1>. QED
  BY <1>1, <1>2

\* Connecting starts one operation, and loses those of the streams it replaces.
LEMMA Connects ==
  ASSUME SocketTypeOK, IsFiniteSet(in_flight), ready # <<>>, Of.op = "resolve", Connect
  PROVE  /\ StatusTypeOK' /\ IoTypeOK' /\ IsFiniteSet(in_flight')
         /\ \A w : Flying(w)' + Done(w)' = Flying(w) + Done(w)
<1> PICK o : o = [op |-> "connect", id |-> Of.id, on |-> Of.on]
  OBVIOUS
<1>1. PICK old : old = {s \in Stream : s * o.on > 0 /\ s # o.on}
  OBVIOUS
<1>2. PICK lost : lost = UNION {Pending(s) : s \in old}
  OBVIOUS
<1> PICK rest : rest = Tail(ready)
  OBVIOUS
<1>3. rest \in Seq(Completion) /\ \A w : Counted(rest, SendsDone(w)) = Done(w)
  BY TakesOther
<1>4. o \in Operation /\ o.op # "send" /\ o.on \in Stream
  BY HandlerTakes, AttemptOperation
<1>5. in_flight \in SUBSET Operation /\ ready \in Seq(Completion)
      /\ status \in [Stream -> {"closed", "connecting", "connected", "secure", "open"}]
  BY DEF SocketTypeOK
<1>6. \/ /\ ready' = Append(rest, Completed(o, "error"))
         /\ UNCHANGED <<in_flight, status>>
      \/ /\ in_flight' = (in_flight \ lost) \cup {o}
         /\ \E aborts \in SetToSeqs({Completed(p, "error") : p \in lost}) :
              ready' = rest \o aborts
         /\ status' = [s \in Stream |->
                         CASE s = o.on -> "connecting"
                           [] s \in old -> "closed"
                           [] OTHER -> status[s]]
  BY <1>1, <1>2 DEF Connect
<1>7. CASE /\ ready' = Append(rest, Completed(o, "error"))
           /\ UNCHANGED <<in_flight, status>>
  <2>1. /\ Append(rest, Completed(o, "error")) \in Seq(Completion)
        /\ \A w : Counted(Append(rest, Completed(o, "error")), SendsDone(w)) =
                    Counted(rest, SendsDone(w))
    BY <1>3, <1>4, FailsAtOnce
  <2>2. IoTypeOK'
    BY <1>5, <1>7, <2>1 DEF IoTypeOK
  <2>3. \A w : Done(w)' = Done(w)
    BY <1>3, <1>7, <2>1 DEF Done
  <2>4. StatusTypeOK'
    BY <1>7, TypesKept
  <2>. QED
    BY <1>7, <2>2, <2>3, <2>4, PartsKept
<1>8. CASE /\ in_flight' = (in_flight \ lost) \cup {o}
           /\ \E aborts \in SetToSeqs({Completed(p, "error") : p \in lost}) :
                ready' = rest \o aborts
           /\ status' = [s \in Stream |->
                           CASE s = o.on -> "connecting"
                             [] s \in old -> "closed"
                             [] OTHER -> status[s]]
  <2>1. PICK aborts \in SetToSeqs({Completed(p, "error") : p \in lost}) :
          ready' = rest \o aborts
    BY <1>8
  <2>2. lost \in SUBSET in_flight
    BY <1>2 DEF Pending
  <2>3. /\ (in_flight \ lost) \cup {o} \in SUBSET Operation
        /\ IsFiniteSet((in_flight \ lost) \cup {o})
        /\ rest \o aborts \in Seq(Completion)
        /\ \A w : Cardinality(SendsIn((in_flight \ lost) \cup {o}, w))
                    + Counted(rest \o aborts, SendsDone(w)) =
                  Cardinality(SendsIn(in_flight, w)) + Counted(rest, SendsDone(w))
    BY <1>3, <1>4, <1>5, <2>2, Replaces
  <2>4. IoTypeOK' /\ IsFiniteSet(in_flight')
    BY <1>8, <2>1, <2>3 DEF IoTypeOK
  <2>5. \A w : Flying(w)' + Done(w)' = Flying(w) + Done(w)
    BY <1>3, <1>8, <2>1, <2>3 DEF Flying, Done
  <2>6. StatusTypeOK'
    BY <1>5, <1>8 DEF StatusTypeOK
  <2>. QED
    BY <2>4, <2>5, <2>6
<1>. QED
  BY <1>6, <1>7, <1>8

\* A name has been resolved, or not.
LEMMA OnResolvedStep ==
  ASSUME AccountInv, OnResolved
  PROVE  AccountInv'
<1>1. SocketTypeOK /\ IsFiniteSet(in_flight)
  BY DEF AccountInv
<1>2. /\ ready # <<>> /\ Of.op = "resolve" /\ pc["background"] = "idle"
      /\ UNCHANGED <<objectVars, written, active_write, write_queue, pc, hand, received>>
  BY DEF OnResolved, Handle, Of, objectVars, writeVars
<1>3. Of.id \in Attempt /\ Of.on \in Stream
  BY <1>1, <1>2, HandlerTakes
<1>4. ObjectTypeOK' /\ WriteTypeOK' /\ ThreadTypeOK' /\ received' \in 0 .. MaxMessages
  BY <1>1, <1>2, TypesKept
<1>5. HandsInv' /\ ClosingInv'
  BY <1>2, HandlerControl
<1>6. CASE /\ Connect /\ ssl_mode' = (Of.on > 0)
           /\ plain' = IF Of.on < 0 THEN Of.on ELSE plain
           /\ secure' = IF Of.on > 0 THEN Of.on ELSE secure
           /\ SetDeadline /\ UNCHANGED posted
  <2>1. /\ StatusTypeOK' /\ IoTypeOK' /\ IsFiniteSet(in_flight')
        /\ \A w : Flying(w)' + Done(w)' = Flying(w) + Done(w)
    BY <1>1, <1>2, <1>6, Connects
  <2>2. PostTypeOK' /\ \A w : Told(w)' = Told(w)
    BY <1>1, <1>6, TypesKept, PartsKept
  <2>3. IoMoves
    BY <2>1, <2>2 DEF IoMoves
  <2>4. PointerTypeOK' /\ TimerTypeOK'
    <3>1. /\ plain \in -MaxOpens .. 0 /\ secure \in 0 .. MaxOpens /\ MaxOpens \in Nat
      BY <1>1, SocketAssumption DEF SocketTypeOK, PointerTypeOK
    <3>2. Of.id \in 0 .. MaxOpens /\ Of.on \in -MaxOpens .. MaxOpens
      BY <1>3, <3>1 DEF Attempt, Stream
    <3>3. timer' \in 0 .. MaxOpens
      BY <1>6, <3>2 DEF SetDeadline
    <3>4. ssl_mode' \in BOOLEAN
      BY <1>6
    <3>5. plain' \in -MaxOpens .. 0 /\ secure' \in 0 .. MaxOpens
      BY <1>6, <3>1, <3>2
    <3>. QED
      BY <3>3, <3>4, <3>5 DEF PointerTypeOK, TimerTypeOK
  <2>. QED
    BY <1>2, <1>4, <1>5, <2>1, <2>3, <2>4, QuietStep
<1>7. CASE /\ PostConnect("error") /\ ready' = Tail(ready)
           /\ UNCHANGED <<streamVars, in_flight>>
  <2> PICK c : c = [to |-> "OnConnect", id |-> Of.id, ec |-> "error"]
    OBVIOUS
  <2>1. c \in Callback /\ \A w : c \notin Answers(w)
    BY <1>3, Callbacks
  <2>2. posted' = Append(posted, c) /\ UNCHANGED <<pointerVars, status, timer, in_flight>>
    BY <1>7 DEF PostConnect, streamVars
  <2>3. IoMoves
    BY <1>1, <1>2, <1>7, <2>1, <2>2, HandlerPosts
  <2>4. PointerTypeOK' /\ StatusTypeOK' /\ TimerTypeOK'
    BY <1>1, <2>2, TypesKept
  <2>. QED
    BY <1>2, <1>4, <1>5, <2>3, <2>4, QuietStep
<1>. QED
  BY <1>6, <1>7 DEF OnResolved

\* The deadline passes.
LEMMA ExpireStep ==
  ASSUME AccountInv, Expire
  PROVE  AccountInv'
<1>1. SocketTypeOK /\ IsFiniteSet(in_flight)
  BY DEF AccountInv
<1>2. MaxOpens \in Nat
  BY SocketAssumption DEF SocketAssumption
<1>3. /\ timer # 0 /\ timer' = 0
      /\ UNCHANGED <<objectVars, written, pointerVars, status, active_write, write_queue,
                     pc, hand, posted, in_flight, received>>
  BY DEF Expire, objectVars, writeVars
<1>4. timer \in Attempt
  BY <1>1, <1>2, <1>3 DEF SocketTypeOK, Attempt
<1> PICK o : o = [op |-> "timer", id |-> timer, on |-> 0]
  OBVIOUS
<1> PICK c : c = Completed(o, "ok")
  OBVIOUS
<1>5. c \in Completion /\ \A w : c \notin SendsDone(w)
  <2>1. c \in Completion
    BY <1>4, Operations
  <2>2. c.of.op = "timer"
    BY DEF Completed
  <2>. QED
    BY <2>1, <2>2 DEF SendsDone
<1> PICK q : q = Append(ready, c)
  OBVIOUS
<1>6. ready' = q
  BY DEF Expire
<1>7. ready \in Seq(Completion)
  BY <1>1 DEF SocketTypeOK
<1>8. q \in Seq(Completion)
  <2> HIDE DEF Completion
  <2>. QED
    BY <1>5, <1>7, PushType
<1>9. \A w : Counted(q, SendsDone(w)) =
               Counted(ready, SendsDone(w)) + (IF c \in SendsDone(w) THEN 1 ELSE 0)
  BY <1>7, CountPush
<1>10. \A w : Done(w)' = Done(w)
  <2>1. \A w : Counted(ready, SendsDone(w)) \in Nat
    BY <1>7, CountType
  <2>2. \A w : Counted(q, SendsDone(w)) = Counted(ready, SendsDone(w))
    BY <1>5, <1>9, <2>1
  <2>. QED
    BY <1>6, <2>2 DEF Done
<1>11. PostTypeOK' /\ IoTypeOK'
  <2>1. in_flight' \in SUBSET Operation
    BY <1>1, <1>3 DEF SocketTypeOK
  <2>2. PostTypeOK'
    BY <1>1, <1>3, TypesKept
  <2>. QED
    BY <1>6, <1>8, <2>1, <2>2 DEF IoTypeOK
<1>12. IoMoves
  BY <1>1, <1>3, <1>10, <1>11, PartsKept DEF IoMoves
<1>13. /\ ObjectTypeOK' /\ PointerTypeOK' /\ StatusTypeOK' /\ TimerTypeOK' /\ WriteTypeOK'
       /\ ThreadTypeOK' /\ received' \in 0 .. MaxMessages
  <2>1. TimerTypeOK'
    BY <1>2, <1>3 DEF TimerTypeOK
  <2>. QED
    BY <1>1, <1>3, <2>1, TypesKept
<1>14. HandsInv' /\ ClosingInv'
  <2>1. FirstWaits
    BY <1>6, <1>7, FirstStays DEF FirstWaits
  <2>. QED
    BY <1>3, <2>1, OthersControl
<1>. QED
  BY <1>3, <1>12, <1>13, <1>14, QuietStep

\* An operation that completes is where it was, in flight, among the completed.
LEMMA CompletesOne ==
  ASSUME SocketTypeOK, IsFiniteSet(in_flight), NEW o \in in_flight,
         NEW ec \in {"ok", "error"}
  PROVE  /\ in_flight \ {o} \in SUBSET Operation /\ IsFiniteSet(in_flight \ {o})
         /\ Append(ready, Completed(o, ec)) \in Seq(Completion)
         /\ \A w : Cardinality(SendsIn(in_flight \ {o}, w))
                     + Counted(Append(ready, Completed(o, ec)), SendsDone(w)) =
                   Flying(w) + Done(w)
<1>1. in_flight \in SUBSET Operation /\ ready \in Seq(Completion) /\ o \in Operation
  BY DEF SocketTypeOK
<1>2. Completed(o, ec) \in Completion
  BY <1>1, Operations
<1>3. Append(ready, Completed(o, ec)) \in Seq(Completion)
  <2> HIDE DEF Completion
  <2>. QED
    BY <1>1, <1>2, PushType
<1>4. {o} \in SUBSET in_flight
  OBVIOUS
<1>5. IsFiniteSet(in_flight \ {o})
  BY <1>4, SendsRemoved
<1>6. ASSUME NEW w
      PROVE  Cardinality(SendsIn(in_flight \ {o}, w))
               + Counted(Append(ready, Completed(o, ec)), SendsDone(w)) =
             Flying(w) + Done(w)
  <2> DEFINE one == IF o.op = "send" /\ o.id = w THEN 1 ELSE 0
  <2>1. Cardinality(SendsIn({o}, w)) = one
    <3>1. SendsIn({o}, w) = IF o.op = "send" /\ o.id = w THEN {o} ELSE {}
      BY DEF SendsIn
    <3>. QED
      BY <3>1, FS_Singleton, FS_EmptySet
  <2>2. Cardinality(SendsIn(in_flight \ {o}, w)) = Flying(w) - one
    <3>1. /\ Cardinality(SendsIn(in_flight \ {o}, w)) =
               Cardinality(SendsIn(in_flight, w)) - Cardinality(SendsIn({o}, w))
      BY <1>4, SendsRemoved
    <3>. QED
      BY <2>1, <3>1 DEF Flying
  <2>3. Counted(Append(ready, Completed(o, ec)), SendsDone(w)) = Done(w) + one
    <3> PICK c \in Completion : c = Completed(o, ec)
      BY <1>2
    <3>1. Counted(Append(ready, c), SendsDone(w)) =
            Counted(ready, SendsDone(w)) + (IF c \in SendsDone(w) THEN 1 ELSE 0)
      BY <1>1, CountPush
    <3>2. c \in SendsDone(w) <=> o.op = "send" /\ o.id = w
      BY <1>1, SendsCompleted
    <3>. QED
      BY <3>1, <3>2 DEF Done
  <2>4. Flying(w) \in Nat /\ Done(w) \in Nat /\ one \in Nat
    BY PartsType
  <2> HIDE DEF one
  <2>. QED
    BY <2>2, <2>3, <2>4
<1>. QED
  BY <1>1, <1>3, <1>5, <1>6

\* What the network may do.
LEMMA CompleteStep ==
  ASSUME AccountInv, NEW o \in in_flight, NEW ec \in {"ok", "error"}, Complete(o, ec)
  PROVE  AccountInv'
<1>1. SocketTypeOK /\ IsFiniteSet(in_flight)
  BY DEF AccountInv
<1>2. in_flight \in SUBSET Operation /\ ready \in Seq(Completion) /\ o \in Operation
  BY <1>1 DEF SocketTypeOK
<1>3. PICK lost : lost = Goes(o) \ {o}
  OBVIOUS
<1>4. PICK flying : flying = in_flight \ {o}
  OBVIOUS
<1>5. PICK q : q = Append(ready, Completed(o, ec))
  OBVIOUS
<1>6. lost \in SUBSET flying /\ in_flight \ Goes(o) = flying \ lost
  BY <1>3, <1>4 DEF Goes, Pending
<1>7. PICK aborts \in SetToSeqs({Completed(p, "error") : p \in lost}) : ready' = q \o aborts
  BY <1>3, <1>5 DEF Complete
<1>8. /\ in_flight' = flying \ lost
      /\ UNCHANGED <<objectVars, written, pointerVars, timer, active_write, write_queue,
                     pc, hand, posted>>
  BY <1>6 DEF Complete, objectVars, writeVars
<1>9. /\ flying \in SUBSET Operation /\ IsFiniteSet(flying) /\ q \in Seq(Completion)
      /\ \A w : Cardinality(SendsIn(flying, w)) + Counted(q, SendsDone(w)) =
                Flying(w) + Done(w)
  BY <1>1, <1>4, <1>5, CompletesOne
<1>10. FirstWaits
  <2>1. ready # <<>> => q # <<>> /\ Head(q) = Head(ready)
    BY <1>2, <1>5, FirstStays
  <2>2. aborts \in Seq(Completion)
    <3>1. lost \in SUBSET Operation /\ IsFiniteSet(lost)
      BY <1>6, <1>9, FS_Subset
    <3>. QED
      BY <1>7, <3>1, AbortsCounted
  <2>3. q # <<>> => q \o aborts # <<>> /\ Head(q \o aborts) = Head(q)
    BY <1>9, <2>2, FirstStays
  <2>. QED
    BY <1>7, <2>1, <2>3 DEF FirstWaits
<1>11. /\ flying \ lost \in SUBSET Operation /\ IsFiniteSet(flying \ lost)
      /\ q \o aborts \in Seq(Completion)
      /\ \A w : Cardinality(SendsIn(flying \ lost, w))
                  + Counted(q \o aborts, SendsDone(w)) =
                Cardinality(SendsIn(flying, w)) + Counted(q, SendsDone(w))
  <2>1. lost \in SUBSET flying /\ flying \in SUBSET Operation /\ IsFiniteSet(flying)
    BY <1>6, <1>9
  <2>2. aborts \in SetToSeqs({Completed(p, "error") : p \in lost})
    OBVIOUS
  <2>3. q \in Seq(Completion)
    BY <1>9
  <2>. QED
    BY <2>1, <2>2, <2>3, Aborted
<1>12. IoMoves
  <2>1. \A w : Flying(w)' + Done(w)' = Flying(w) + Done(w)
    BY <1>7, <1>8, <1>9, <1>11 DEF Flying, Done
  <2>2. IoTypeOK' /\ IsFiniteSet(in_flight')
    BY <1>7, <1>8, <1>11 DEF IoTypeOK
  <2>3. PostTypeOK' /\ \A w : Told(w)' = Told(w)
    BY <1>1, <1>8, TypesKept, PartsKept
  <2>. QED
    BY <2>1, <2>2, <2>3 DEF IoMoves
<1>13. StatusTypeOK'
  <2>1. StatusAfter(o, ec) \in {"closed", "connecting", "connected", "secure", "open"}
    BY <1>1, <1>2, Operations DEF SocketTypeOK, StatusAfter
  <2>2. status' = status \/ status' = [status EXCEPT ![o.on] = StatusAfter(o, ec)]
    BY DEF Complete
  <2>. QED
    BY <1>1, <2>1, <2>2 DEF SocketTypeOK, StatusTypeOK
<1>14. received' \in 0 .. MaxMessages
  <2>1. /\ received' = received + (IF o.op = "read" /\ ec = "ok" THEN 1 ELSE 0)
        /\ o.op = "read" /\ ec = "ok" => received < MaxMessages
    BY DEF Complete
  <2>2. received \in 0 .. MaxMessages /\ MaxMessages \in Nat
    BY <1>1, SocketAssumption DEF SocketTypeOK, SocketAssumption
  <2>. QED
    BY <2>1, <2>2
<1>15. ObjectTypeOK' /\ PointerTypeOK' /\ TimerTypeOK' /\ WriteTypeOK' /\ ThreadTypeOK'
  BY <1>1, <1>8, TypesKept
<1>16. HandsInv' /\ ClosingInv'
  BY <1>8, <1>10, OthersControl
<1>. QED
  BY <1>8, <1>12, <1>13, <1>14, <1>15, <1>16, QuietStep

(***************************************************************************)
(* The theorems.                                                           *)
(***************************************************************************)

\* Nothing has been written yet, and nothing is anywhere.
LEMMA AccountInit == Init => AccountInv
<1> SUFFICES ASSUME Init PROVE AccountInv
  OBVIOUS
<1>1. SocketTypeOK
  <2>1. ObjectTypeOK
    BY SocketAssumption DEF Init, ObjectTypeOK, SocketAssumption
  <2>2. PointerTypeOK /\ StatusTypeOK /\ TimerTypeOK
    <3>1. 0 \in -MaxOpens .. 0 /\ 0 \in 0 .. MaxOpens
      BY SocketAssumption DEF SocketAssumption
    <3>. QED
      BY <3>1 DEF Init, PointerTypeOK, StatusTypeOK, TimerTypeOK
  <2>3. WriteTypeOK
    <3>1. 0 \in 0 .. MaxWrites
      BY SocketAssumption DEF SocketAssumption
    <3>2. hand \in [Thread -> 0 .. MaxWrites]
      BY <3>1 DEF Init
    <3>3. active_write \in BOOLEAN
      BY DEF Init
    <3>4. write_queue \in Seq(WriteId)
      BY DEF Init
    <3>. QED
      BY <3>2, <3>3, <3>4 DEF WriteTypeOK
  <2>4. ThreadTypeOK /\ received \in 0 .. MaxMessages
    BY SocketAssumption DEF Init, ThreadTypeOK, SocketAssumption
  <2>5. IoTypeOK /\ PostTypeOK
    <3> HIDE DEF Operation, Completion, Callback
    <3>. QED
      BY DEF Init, IoTypeOK, PostTypeOK
  <2>. QED
    BY <2>1, <2>2, <2>3, <2>4, <2>5, TypeParts
<1>2. IsFiniteSet(in_flight)
  BY FS_EmptySet DEF Init
<1>3. WritesAccounted
  <2> SUFFICES ASSUME NEW w \in WriteId PROVE Places(w) = 0 /\ written[w] = "none"
    BY DEF WritesAccounted
  <2>1. Queued(w) = 0 /\ Done(w) = 0 /\ Told(w) = 0
    BY CountEmpty DEF Init, Queued, Done, Told
  <2>2. Flying(w) = 0
    <3>1. SendsIn(in_flight, w) = {}
      BY DEF Init, SendsIn
    <3>. QED
      BY <3>1, FS_EmptySet DEF Flying
  <2>3. Held(w) = 0
    <3>1. Holders(w) = {}
      BY SocketAssumption DEF Init, Holders, SocketAssumption, WriteId
    <3>. QED
      BY <3>1, FS_EmptySet DEF Held
  <2>4. Places(w) = Total(w)
    BY <1>1, PlacesSum
  <2>. QED
    BY <2>1, <2>2, <2>3, <2>4 DEF Total, Init
<1>4. \E n \in 0 .. MaxWrites : WritesNumbered(n)
  <2>1. 0 \in 0 .. MaxWrites /\ \A w \in WriteId : ~(w <= 0)
    BY SocketAssumption DEF SocketAssumption, WriteId
  <2>2. WritesNumbered(0)
    BY <2>1 DEF Init, WritesNumbered
  <2>. QED
    BY <2>1, <2>2
<1>5. HandsInv /\ ClosingInv
  BY DEF Init, HandsInv, ClosingInv, Thread
<1>. QED
  BY <1>1, <1>2, <1>3, <1>4, <1>5 DEF AccountInv

\* Whatever either thread or the network does.
LEMMA AccountStep == AccountInv /\ [Next]_vars => AccountInv'
<1> SUFFICES ASSUME AccountInv, [Next]_vars PROVE AccountInv'
  OBVIOUS
<1>1. CASE ScriptNext
  BY <1>1, OpenStep, WriteStarts, CloseStep DEF ScriptNext
<1>2. ASSUME NEW t \in Thread, WriteNext(t) PROVE AccountInv'
  BY <1>2, TestActiveStep, PushStep, SendStep DEF WriteNext
<1>3. CASE MainNext
  BY <1>2, <1>3, OnConnectStep, OnWriteResultStep, OnCloseStep, OnEventStep
  DEF MainNext, Thread
<1>4. CASE BackgroundNext
  BY <1>2, <1>4, OnResolvedStep, AttemptSteps, OnConnectionTimeoutStep, OnWebTimeoutStep,
     OnReadStep, OnShutdownStep, OnWriteStep, FlushStep DEF BackgroundNext, Thread
<1>5. CASE NetworkNext
  BY <1>5, CloseReturnsStep, ExpireStep, CompleteStep DEF NetworkNext
<1>6. CASE UNCHANGED vars
  <2>1. /\ UNCHANGED <<objectVars, written, pointerVars, status, timer, active_write,
                       write_queue, pc, hand, posted, ioVars, ready, received>>
    BY <1>6 DEF vars, objectVars, streamVars, writeVars, ioVars
  <2>2. SocketTypeOK /\ IsFiniteSet(in_flight)
    BY DEF AccountInv
  <2>3. IoMoves
    BY <2>1, <2>2, NothingMoves
  <2>4. /\ ObjectTypeOK' /\ PointerTypeOK' /\ StatusTypeOK' /\ TimerTypeOK' /\ WriteTypeOK'
        /\ ThreadTypeOK' /\ received' \in 0 .. MaxMessages
    BY <2>1, <2>2, TypesKept
  <2>5. HandsInv' /\ ClosingInv'
    BY <2>1, OthersControl DEF FirstWaits
  <2>. QED
    BY <2>1, <2>3, <2>4, <2>5, QuietStep
<1>. QED
  BY <1>1, <1>3, <1>4, <1>5, <1>6 DEF Next

\* The inductive invariant holds in every state of both engines.
THEOREM AccountInvariant == Spec => []AccountInv
  BY AccountInit, AccountStep, PTL DEF Spec

\* A message that is written, from either thread, is in exactly one place until
\* its promise is resolved, however writes, answers and failures interleave.
THEOREM WritesCorrect == Spec => []SocketInv
<1>1. AccountInv => SocketInv
  BY DEF AccountInv, SocketInv
<1>. QED
  BY <1>1, AccountInvariant, PTL
=============================================================================
