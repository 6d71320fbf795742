---------------------------- MODULE Streamer_proofs ----------------------------
(***************************************************************************)
(* Proofs about the streamer: about StreamerHost, for any number of        *)
(* streamers, entities, calls and tasks, and, further below, about         *)
(* StreamerSelect, for any number of players, any limit and whatever they  *)
(* have around them.                                                       *)
(***************************************************************************)
EXTENDS StreamerHost, StreamerSelect, QueueLemmas

(***************************************************************************)
(* The inductive invariant.  What the background thread owes JavaScript,   *)
(* and what JavaScript was given, are the calls that were made.            *)
(***************************************************************************)
Contents == UNION {[those -> SUBSET Entity] : those \in SUBSET Streamer}

CallsCounted == requests = Len(answers) + Len(Future.owed)

HostInv ==
  /\ StreamerTypeOK /\ streamers \in Contents
  /\ NoStreamerLeaks /\ SeesTheTracked /\ CallsCounted

(***************************************************************************)
(* After: what a queue of tasks makes of a state of the background thread. *)
(***************************************************************************)

\* The function exists, so that it is what its definition says.
LEMMA AfterRecursion ==
  ASSUME NEW S, NEW q \in Seq(S), NEW p
  PROVE  \E after : /\ After(p, q) = after[Len(q)]
                    /\ after[0] = p
                    /\ \A n \in 1 .. Len(q) : after[n] = Ran(after[n - 1], q[n])
<1> DEFINE Body(f, n) == IF n = 0 THEN p ELSE Ran(f[n - 1], q[n])
           Defined == {n \in Nat : \E f : f = [i \in 0 .. n |-> Body(f, i)]}
           after == CHOOSE f : f = [i \in 0 .. Len(q) |-> Body(f, i)]
<1>1. Len(q) \in Nat
  BY SeqType
<1>2. 0 \in Defined
  <2> DEFINE f == [i \in 0 .. 0 |-> p]
  <2>1. f = [i \in 0 .. 0 |-> Body(f, i)]
    OBVIOUS
  <2>. QED
    BY <2>1
<1>3. ASSUME NEW n \in 0 .. Len(q) - 1, n \in Defined
      PROVE  n + 1 \in Defined
  <2>1. PICK f : f = [i \in 0 .. n |-> Body(f, i)]
    BY <1>3
  <2> DEFINE g == [i \in 0 .. n + 1 |-> IF i = n + 1 THEN Body(f, i) ELSE f[i]]
  <2>2. \A i \in 0 .. n : f[i] = Body(f, i)
    BY <2>1
  <2>3. \A i \in 0 .. n + 1 : g[i] = Body(g, i)
    BY <2>2
  <2>4. g = [i \in 0 .. n + 1 |-> Body(g, i)]
    <3> HIDE DEF Body
    <3>. QED
      BY <2>3
  <2>5. n + 1 \in Nat
    OBVIOUS
  <2>6. \E h : h = [i \in 0 .. n + 1 |-> Body(h, i)]
    <3> HIDE DEF Body, g
    <3>. QED
      BY <2>4
  <2>. QED
    BY <2>5, <2>6
<1>4. Len(q) \in Defined
  <2> HIDE DEF Defined
  <2>1. \A i \in 0 .. Len(q) : i \in Defined
    BY <1>1, <1>2, <1>3, SetInduction
  <2>. QED
    BY <2>1, <1>1
<1>5. after = [i \in 0 .. Len(q) |-> Body(after, i)]
  <2>1. \E f : f = [i \in 0 .. Len(q) |-> Body(f, i)]
    BY <1>4
  <2> HIDE DEF Body
  <2>. QED
    BY <2>1
<1>6. After(p, q) = after[Len(q)]
  BY DEF After
<1> HIDE DEF after
<1>7. after[0] = p
  BY <1>1, <1>5
<1>8. ASSUME NEW n \in 1 .. Len(q)
      PROVE  after[n] = Ran(after[n - 1], q[n])
  <2>1. after[n] = Body(after, n)
    <3> HIDE DEF Body
    <3>1. n \in 0 .. Len(q)
      BY <1>1
    <3>. QED
      BY <1>5, <3>1
  <2>2. n # 0
    BY <1>1
  <2>. QED
    BY <2>1, <2>2
<1>. QED
  BY <1>6, <1>7, <1>8

\* No task, no change.
LEMMA AfterNone ==
  ASSUME NEW p
  PROVE  After(p, <<>>) = p
<1>1. PICK q \in Seq(Nat) : q = <<>>
  <2>1. <<>> \in Seq(Nat)
    OBVIOUS
  <2>. QED
    BY <2>1
<1>2. PICK f : /\ After(p, q) = f[Len(q)] /\ f[0] = p
               /\ \A n \in 1 .. Len(q) : f[n] = Ran(f[n - 1], q[n])
  BY AfterRecursion
<1>. QED
  BY <1>1, <1>2

\* A task that is pushed is run last.
LEMMA AfterPush ==
  ASSUME NEW S, NEW q \in Seq(S), NEW t \in S, NEW p
  PROVE  After(p, Append(q, t)) = Ran(After(p, q), t)
<1>1. PICK longer : longer = Append(q, t)
  OBVIOUS
<1>2. /\ longer \in Seq(S) /\ Len(longer) = Len(q) + 1 /\ Len(q) \in Nat
      /\ longer[Len(q) + 1] = t /\ \A k \in 1 .. Len(q) : longer[k] = q[k]
  BY <1>1, PushType, PushPlaces, SeqType
<1>3. PICK f : /\ After(p, q) = f[Len(q)] /\ f[0] = p
               /\ \A n \in 1 .. Len(q) : f[n] = Ran(f[n - 1], q[n])
  BY AfterRecursion
<1>4. PICK g : /\ After(p, longer) = g[Len(longer)] /\ g[0] = p
               /\ \A n \in 1 .. Len(longer) : g[n] = Ran(g[n - 1], longer[n])
  BY <1>2, AfterRecursion
<1> DEFINE Same == {n \in Nat : f[n] = g[n]}
<1>5. 0 \in Same
  BY <1>3, <1>4
<1>6. ASSUME NEW n \in 0 .. Len(q) - 1, n \in Same PROVE n + 1 \in Same
  <2>1. n + 1 \in 1 .. Len(q) /\ n + 1 \in 1 .. Len(longer) /\ (n + 1) - 1 = n
    BY <1>2
  <2>2. f[n + 1] = Ran(f[n], q[n + 1]) /\ g[n + 1] = Ran(g[n], q[n + 1])
    BY <1>2, <1>3, <1>4, <2>1
  <2>. QED
    BY <1>6, <2>1, <2>2
<1>7. Len(q) \in Same
  <2> HIDE DEF Same
  <2>1. \A i \in 0 .. Len(q) : i \in Same
    BY <1>2, <1>5, <1>6, SetInduction
  <2>. QED
    BY <1>2, <2>1
<1>8. g[Len(q) + 1] = Ran(g[Len(q)], t)
  BY <1>2, <1>4
<1>. QED
  BY <1>1, <1>2, <1>3, <1>4, <1>7, <1>8

\* The task in front is run first.
LEMMA AfterPop ==
  ASSUME NEW S, NEW q \in Seq(S), q # <<>>, NEW p
  PROVE  After(p, q) = After(Ran(p, Head(q)), Tail(q))
<1>1. PICK rest : rest = Tail(q)
  OBVIOUS
<1>2. PICK one : one = Ran(p, Head(q))
  OBVIOUS
<1>3. /\ rest \in Seq(S) /\ Len(q) \in Nat \ {0} /\ Len(rest) = Len(q) - 1
      /\ Head(q) = q[1] /\ \A k \in 1 .. Len(rest) : rest[k] = q[k + 1]
  BY <1>1, PopType, PopPlaces
<1>4. PICK f : /\ After(p, q) = f[Len(q)] /\ f[0] = p
               /\ \A n \in 1 .. Len(q) : f[n] = Ran(f[n - 1], q[n])
  BY AfterRecursion
<1>5. PICK g : /\ After(one, rest) = g[Len(rest)] /\ g[0] = one
               /\ \A n \in 1 .. Len(rest) : g[n] = Ran(g[n - 1], rest[n])
  <2>1. rest \in Seq(S)
    BY <1>3
  <2>. QED
    BY <2>1, AfterRecursion
<1> DEFINE Same == {n \in Nat : f[n + 1] = g[n]}
<1>6. 0 \in Same
  <2>1. 1 \in 1 .. Len(q) /\ 1 - 1 = 0 /\ 0 + 1 = 1
    BY <1>3
  <2>. QED
    BY <1>2, <1>3, <1>4, <1>5, <2>1
<1>7. ASSUME NEW n \in 0 .. Len(rest) - 1, n \in Same PROVE n + 1 \in Same
  <2>1. /\ n + 1 \in 1 .. Len(rest) /\ n + 2 \in 1 .. Len(q)
        /\ (n + 1) - 1 = n /\ (n + 2) - 1 = n + 1 /\ (n + 1) + 1 = n + 2
    BY <1>3
  <2>2. rest[n + 1] = q[n + 2]
    BY <1>3, <2>1
  <2>3. f[n + 2] = Ran(f[n + 1], q[n + 2]) /\ g[n + 1] = Ran(g[n], q[n + 2])
    BY <1>4, <1>5, <2>1, <2>2
  <2>. QED
    BY <1>7, <2>1, <2>3
<1>8. Len(rest) \in Same
  <2> HIDE DEF Same
  <2>1. Len(rest) \in Nat
    BY <1>3
  <2>2. \A i \in 0 .. Len(rest) : i \in Same
    BY <1>6, <1>7, <2>1, SetInduction
  <2>. QED
    BY <2>1, <2>2
<1>. QED
  BY <1>1, <1>2, <1>3, <1>4, <1>5, <1>8

(***************************************************************************)
(* The state of the background thread as three separate parts, of which    *)
(* what is owed depends on the other two but not they on it.               *)
(***************************************************************************)
Owed == [call : 1 .. MaxRequests, from : SUBSET (SUBSET EntityId)]

State(ss, v, o) == [streamers |-> ss, view |-> v, owed |-> o]

StreamersAfter(ss, t) == IF t.op \in {"Update", "Stream"} THEN ss ELSE Changed(ss, t)

ViewAfter(v, t) == IF t.op = "Update" THEN t.updates ELSE v

Asked(ss, v, t) ==
  IF t.op = "Stream"
  THEN <<[call |-> t.call, from |-> Selections(ContentsOf(ss, t.streamer), v)]>>
  ELSE <<>>

\* What the tasks are about.
LEMMA Tasks ==
  ASSUME NEW t \in Task
  PROVE  /\ t.op \in {"Initialize", "Optimise", "DeleteAll", "Add", "Delete", "Stream", "Update"}
         /\ t.op # "Update" => t.streamer \in Streamer
         /\ t.op = "Add" => t.entity \in Entity
         /\ t.op = "Delete" => t.id \in EntityId
         /\ t.op = "Stream" => t.call \in 1 .. MaxRequests
         /\ t.op = "Update" => t.updates \in View
<1> HIDE DEF View, Entity, Streamer, EntityId
<1>. QED
  BY DEF Task

\* A function from some streamers to sets of entities is a content.
LEMMA ContentsType ==
  /\ \A ss \in Contents : /\ DOMAIN ss \subseteq Streamer
                          /\ \A s \in DOMAIN ss : ss[s] \subseteq Entity
  /\ \A those \in SUBSET Streamer : \A ss \in [those -> SUBSET Entity] :
       ss \in Contents /\ DOMAIN ss = those
<1> HIDE DEF Entity, Streamer
<1>. QED
  BY DEF Contents

\* A change keeps the contents well formed; only two kinds change whose they are.
LEMMA ChangedType ==
  ASSUME NEW ss \in Contents, NEW t \in Task
  PROVE  /\ StreamersAfter(ss, t) \in Contents
         /\ DOMAIN StreamersAfter(ss, t) =
              CASE t.op = "Initialize" -> DOMAIN ss \cup {t.streamer}
                [] t.op = "DeleteAll" -> DOMAIN ss \ {t.streamer}
                [] OTHER -> DOMAIN ss
<1> HIDE DEF Entity, Streamer, EntityId
<1>1. /\ DOMAIN ss \subseteq Streamer /\ \A s \in DOMAIN ss : ss[s] \subseteq Entity
      /\ ss \in [DOMAIN ss -> SUBSET Entity]
  BY DEF Contents
<1>2. CASE t.op = "Initialize"
  <2>1. t.streamer \in Streamer
    BY <1>2, Tasks
  <2>2. Initialized(ss, t.streamer) \in [DOMAIN ss \cup {t.streamer} -> SUBSET Entity]
    BY <1>1 DEF Initialized
  <2>3. StreamersAfter(ss, t) = Initialized(ss, t.streamer)
    BY <1>2 DEF StreamersAfter, Changed
  <2>. QED
    BY <1>1, <1>2, <2>1, <2>2, <2>3, ContentsType
<1>3. CASE t.op = "Add" /\ t.streamer \in DOMAIN ss
  <2>1. t.entity \in Entity
    BY <1>3, Tasks
  <2>2. Added(ss, t.streamer, t.entity) \in [DOMAIN ss -> SUBSET Entity]
    BY <1>1, <1>3, <2>1 DEF Added
  <2>3. StreamersAfter(ss, t) = Added(ss, t.streamer, t.entity)
    BY <1>3 DEF StreamersAfter, Changed
  <2>. QED
    BY <1>1, <1>3, <2>2, <2>3, ContentsType
<1>4. CASE t.op = "Delete" /\ t.streamer \in DOMAIN ss
  <2>1. Deleted(ss, t.streamer, t.id) \in [DOMAIN ss -> SUBSET Entity]
    BY <1>1, <1>4 DEF Deleted
  <2>2. StreamersAfter(ss, t) = Deleted(ss, t.streamer, t.id)
    BY <1>4 DEF StreamersAfter, Changed
  <2>. QED
    BY <1>1, <1>4, <2>1, <2>2, ContentsType
<1>5. CASE t.op = "DeleteAll"
  <2>1. DeletedAll(ss, t.streamer) \in [DOMAIN ss \ {t.streamer} -> SUBSET Entity]
    BY <1>1 DEF DeletedAll
  <2>2. StreamersAfter(ss, t) = DeletedAll(ss, t.streamer)
    BY <1>5 DEF StreamersAfter, Changed
  <2>. QED
    BY <1>1, <1>5, <2>1, <2>2, ContentsType
<1>6. CASE /\ t.op \notin {"Initialize", "DeleteAll"}
           /\ ~(t.op \in {"Add", "Delete"} /\ t.streamer \in DOMAIN ss)
  BY <1>6 DEF StreamersAfter, Changed
<1>. QED
  BY <1>2, <1>3, <1>4, <1>5, <1>6

\* Views.
LEMMA ViewType ==
  ASSUME NEW v \in View, NEW t \in Task
  PROVE  ViewAfter(v, t) \in View
  BY Tasks DEF ViewAfter

\* What is selected are entities.
LEMMA SelectionsType ==
  ASSUME NEW ss \in Contents, NEW s, NEW v
  PROVE  /\ ContentsOf(ss, s) \subseteq Entity
         /\ Selections(ContentsOf(ss, s), v) \in SUBSET (SUBSET EntityId)
<1>1. ContentsOf(ss, s) \subseteq Entity
  BY ContentsType DEF ContentsOf
<1>2. InRange(ContentsOf(ss, s), v) \subseteq EntityId
  BY <1>1 DEF InRange, Entity
<1>. QED
  BY <1>1, <1>2 DEF Selections

\* What a task adds to what is owed.
LEMMA AskedType ==
  ASSUME NEW ss \in Contents, NEW v \in View, NEW t \in Task
  PROVE  Asked(ss, v, t) \in Seq(Owed)
<1>1. CASE t.op = "Stream"
  <2>1. t.call \in 1 .. MaxRequests
    BY <1>1, Tasks
  <2>2. PICK from : from = Selections(ContentsOf(ss, t.streamer), v)
    OBVIOUS
  <2>3. from \in SUBSET (SUBSET EntityId)
    BY <2>2, SelectionsType
  <2>4. PICK e \in Owed : e = [call |-> t.call, from |-> from]
    BY <2>1, <2>3 DEF Owed
  <2>5. <<e>> \in Seq(Owed)
    <3> HIDE DEF Owed
    <3>. QED
      OBVIOUS
  <2>. QED
    BY <1>1, <2>2, <2>4, <2>5 DEF Asked
<1>2. CASE t.op # "Stream"
  BY <1>2 DEF Asked
<1>. QED
  BY <1>1, <1>2

\* Ran, part by part.
LEMMA RanParts ==
  ASSUME NEW ss, NEW v, NEW o \in Seq(Owed), NEW t
  PROVE  Ran(State(ss, v, o), t) =
           State(StreamersAfter(ss, t), ViewAfter(v, t), o \o Asked(ss, v, t))
<1>1. CASE t.op = "Update"
  BY <1>1 DEF Ran, State, StreamersAfter, ViewAfter, Asked
<1>2. CASE t.op = "Stream"
  <2>1. PICK e : e = [call |-> t.call, from |-> Selections(ContentsOf(ss, t.streamer), v)]
    OBVIOUS
  <2>2. Append(o, e) = o \o <<e>>
    OBVIOUS
  <2>3. Ran(State(ss, v, o), t) = State(ss, v, Append(o, e))
    BY <1>2, <2>1 DEF Ran, State
  <2>. QED
    BY <1>2, <2>1, <2>2, <2>3 DEF StreamersAfter, ViewAfter, Asked
<1>3. CASE t.op \notin {"Update", "Stream"}
  <2>1. Ran(State(ss, v, o), t) = State(Changed(ss, t), v, o)
    BY <1>3 DEF Ran, State
  <2>2. o \o <<>> = o
    OBVIOUS
  <2>. QED
    BY <1>3, <2>1, <2>2 DEF StreamersAfter, ViewAfter, Asked
<1>. QED
  BY <1>1, <1>2, <1>3

\* Appending to what was appended.
LEMMA ConcatAgain ==
  ASSUME NEW S, NEW p \in Seq(S), NEW q \in Seq(S), NEW r \in Seq(S)
  PROVE  (p \o q) \o r = p \o (q \o r)
  OBVIOUS

\* After, part by part: what is already owed stays in front of what the tasks add.
LEMMA AfterParts ==
  ASSUME NEW ss \in Contents, NEW v \in View, NEW q \in Seq(Task)
  PROVE  \E st \in Contents, vt \in View, more \in Seq(Owed) :
           \A o \in Seq(Owed) : After(State(ss, v, o), q) = State(st, vt, o \o more)
<1> HIDE DEF Task, Contents, View, Owed
<1> DEFINE Split(n) ==
      \E st \in Contents, vt \in View, more \in Seq(Owed) :
        \A o \in Seq(Owed) :
          After(State(ss, v, o), SubSeq(q, 1, n)) = State(st, vt, o \o more)
    Done == {n \in Nat : Split(n)}
<1>1. /\ Len(q) \in Nat /\ SubSeq(q, 1, 0) = <<>> /\ SubSeq(q, 1, Len(q)) = q
      /\ \A n \in 0 .. Len(q) - 1 :
           SubSeq(q, 1, n + 1) = Append(SubSeq(q, 1, n), q[n + 1])
      /\ \A n \in 0 .. Len(q) - 1 : SubSeq(q, 1, n) \in Seq(Task) /\ q[n + 1] \in Task
  <2>1. /\ Len(q) \in Nat /\ SubSeq(q, 1, 0) = <<>> /\ SubSeq(q, 1, Len(q)) = q
        /\ \A n \in 0 .. Len(q) - 1 :
             SubSeq(q, 1, n + 1) = Append(SubSeq(q, 1, n), q[n + 1])
    BY PrefixPlaces, SeqType
  <2>2. \A n \in 0 .. Len(q) - 1 : SubSeq(q, 1, n) \in Seq(Task) /\ q[n + 1] \in Task
    OBVIOUS
  <2>. QED
    BY <2>1, <2>2
<1>2. 0 \in Done
  <2>1. \A o \in Seq(Owed) : After(State(ss, v, o), SubSeq(q, 1, 0)) = State(ss, v, o \o <<>>)
    <3>1. \A o \in Seq(Owed) : o \o <<>> = o
      OBVIOUS
    <3>. QED
      BY <1>1, <3>1, AfterNone
  <2>2. <<>> \in Seq(Owed)
    OBVIOUS
  <2>. QED
    BY <2>1, <2>2
<1>3. ASSUME NEW n \in 0 .. Len(q) - 1, n \in Done
      PROVE  n + 1 \in Done
  <2>1. PICK st \in Contents, vt \in View, more \in Seq(Owed) :
          \A o \in Seq(Owed) :
            After(State(ss, v, o), SubSeq(q, 1, n)) = State(st, vt, o \o more)
    BY <1>3
  <2>2. PICK t \in Task : t = q[n + 1]
    BY <1>1
  <2>3. PICK prefix \in Seq(Task) : prefix = SubSeq(q, 1, n)
    BY <1>1
  <2>4. Asked(st, vt, t) \in Seq(Owed)
    BY AskedType
  <2>5. ASSUME NEW o \in Seq(Owed)
        PROVE  After(State(ss, v, o), SubSeq(q, 1, n + 1)) =
                 State(StreamersAfter(st, t), ViewAfter(vt, t),
                       o \o (more \o Asked(st, vt, t)))
    <3>1. After(State(ss, v, o), Append(prefix, t)) = Ran(After(State(ss, v, o), prefix), t)
      BY AfterPush
    <3>2. After(State(ss, v, o), prefix) = State(st, vt, o \o more)
      BY <2>1, <2>3
    <3>3. o \o more \in Seq(Owed)
      BY ConcatPlaces
    <3>4. Ran(State(st, vt, o \o more), t) =
            State(StreamersAfter(st, t), ViewAfter(vt, t), (o \o more) \o Asked(st, vt, t))
      BY <3>3, RanParts
    <3>5. (o \o more) \o Asked(st, vt, t) = o \o (more \o Asked(st, vt, t))
      BY <2>4, ConcatAgain
    <3>6. SubSeq(q, 1, n + 1) = Append(prefix, t)
      BY <1>1, <2>2, <2>3
    <3>. QED
      BY <3>1, <3>2, <3>4, <3>5, <3>6
  <2>6. /\ StreamersAfter(st, t) \in Contents /\ ViewAfter(vt, t) \in View
        /\ more \o Asked(st, vt, t) \in Seq(Owed)
    BY <2>4, ChangedType, ViewType, ConcatPlaces
  <2>7. Split(n + 1)
    BY <2>5, <2>6
  <2>. QED
    BY <2>7
<1>4. Len(q) \in Done
  <2> HIDE DEF Done
  <2>1. \A i \in 0 .. Len(q) : i \in Done
    BY <1>1, <1>2, <1>3, SetInduction
  <2>. QED
    BY <1>1, <2>1
<1>. QED
  BY ZenonT(40), <1>1, <1>4

(***************************************************************************)
(* The future of the state.                                                *)
(***************************************************************************)
Owing(c) == [i \in 1 .. Len(c) |-> Decided(c[i])]

\* What is owed once it has been decided.
LEMMA OwingType ==
  ASSUME NEW c \in Seq(Answer)
  PROVE  /\ Owing(c) \in Seq(Owed) /\ Len(Owing(c)) = Len(c)
         /\ \A i \in 1 .. Len(c) : Owing(c)[i] = Decided(c[i])
<1>1. Len(c) \in Nat /\ \A i \in 1 .. Len(c) : c[i] \in Answer
  BY SeqType
<1>2. \A a \in Answer : Decided(a) \in Owed
  BY DEF Answer, Decided, Owed
<1>3. Owing(c) \in [1 .. Len(c) -> Owed]
  BY <1>1, <1>2 DEF Owing
<1>4. Owing(c) \in Seq(Owed) /\ Len(Owing(c)) = Len(c)
  <2> HIDE DEF Owed, Owing
  <2>. QED
    BY <1>1, <1>3, FunctionIsSeq
<1>. QED
  BY <1>4 DEF Owing

\* One more answer is one more at the end.
LEMMA OwingPush ==
  ASSUME NEW c \in Seq(Answer), NEW a \in Answer
  PROVE  Owing(Append(c, a)) = Append(Owing(c), Decided(a))
<1>1. PICK longer : longer = Append(c, a)
  OBVIOUS
<1>2. /\ longer \in Seq(Answer) /\ Len(longer) = Len(c) + 1 /\ longer[Len(c) + 1] = a
      /\ \A k \in 1 .. Len(c) : longer[k] = c[k]
  <2> HIDE DEF Answer
  <2>. QED
    BY <1>1, PushType, PushPlaces
<1>3. Len(c) \in Nat
  BY SeqType
<1>4. /\ Owing(c) \in Seq(Owed) /\ Len(Owing(c)) = Len(c)
      /\ \A i \in 1 .. Len(c) : Owing(c)[i] = Decided(c[i])
  BY OwingType
<1>5. /\ Owing(longer) \in Seq(Owed) /\ Len(Owing(longer)) = Len(c) + 1
      /\ \A i \in 1 .. Len(c) + 1 : Owing(longer)[i] = Decided(longer[i])
  BY <1>2, OwingType
<1>6. PICK e \in Owed : e = Decided(a)
  BY DEF Answer, Decided, Owed
<1>7. /\ Append(Owing(c), e) \in Seq(Owed) /\ Len(Append(Owing(c), e)) = Len(c) + 1
      /\ Append(Owing(c), e)[Len(c) + 1] = e
      /\ \A k \in 1 .. Len(c) : Append(Owing(c), e)[k] = Owing(c)[k]
  <2> HIDE DEF Owed, Owing
  <2>. QED
    BY <1>4, PushType, PushPlaces
<1>8. \A k \in 1 .. Len(c) + 1 : Owing(longer)[k] = Append(Owing(c), e)[k]
  <2> SUFFICES ASSUME NEW k \in 1 .. Len(c) + 1
               PROVE  Owing(longer)[k] = Append(Owing(c), e)[k]
    OBVIOUS
  <2>1. k \in 1 .. Len(c) \/ k = Len(c) + 1
    BY <1>3
  <2>2. Owing(longer)[k] = Decided(longer[k])
    BY <1>5
  <2>. QED
    BY <1>2, <1>4, <1>6, <1>7, <2>1, <2>2
<1>9. Owing(longer) = Append(Owing(c), e)
  <2> HIDE DEF Owed, Owing
  <2>. QED
    BY <1>5, <1>7, <1>8, SameSeq
<1>. QED
  BY <1>1, <1>6, <1>9

\* One less is one less in front.
LEMMA OwingPop ==
  ASSUME NEW c \in Seq(Answer), c # <<>>
  PROVE  /\ Owing(c) # <<>> /\ Head(Owing(c)) = Decided(Head(c))
         /\ Owing(Tail(c)) = Tail(Owing(c))
<1>1. PICK rest : rest = Tail(c)
  OBVIOUS
<1>2. /\ rest \in Seq(Answer) /\ Len(c) \in Nat \ {0} /\ Len(rest) = Len(c) - 1
      /\ Head(c) = c[1] /\ \A k \in 1 .. Len(c) - 1 : rest[k] = c[k + 1]
  <2> HIDE DEF Answer
  <2>. QED
    BY <1>1, PopType, PopPlaces
<1>3. PICK o : o = Owing(c)
  OBVIOUS
<1>4. /\ o \in Seq(Owed) /\ Len(o) = Len(c)
      /\ \A i \in 1 .. Len(c) : o[i] = Decided(c[i])
  BY <1>3, OwingType
<1>5. /\ Owing(rest) \in Seq(Owed) /\ Len(Owing(rest)) = Len(c) - 1
      /\ \A i \in 1 .. Len(c) - 1 : Owing(rest)[i] = Decided(rest[i])
  BY <1>2, OwingType
<1>6. o # <<>>
  BY <1>2, <1>4
<1>7. /\ Tail(o) \in Seq(Owed) /\ Len(Tail(o)) = Len(c) - 1 /\ Head(o) = o[1]
      /\ \A k \in 1 .. Len(c) - 1 : Tail(o)[k] = o[k + 1]
  <2> HIDE DEF Owed
  <2>. QED
    BY <1>4, <1>6, PopType, PopPlaces
<1>8. \A k \in 1 .. Len(c) - 1 : Owing(rest)[k] = Tail(o)[k]
  <2> SUFFICES ASSUME NEW k \in 1 .. Len(c) - 1 PROVE Owing(rest)[k] = Tail(o)[k]
    OBVIOUS
  <2>1. k + 1 \in 1 .. Len(c)
    BY <1>2
  <2>. QED
    BY <1>2, <1>4, <1>5, <1>7, <2>1
<1>9. Owing(rest) = Tail(o)
  <2> HIDE DEF Owed, Owing
  <2>. QED
    BY <1>5, <1>7, <1>8, SameSeq
<1>10. Head(o) = Decided(Head(c))
  BY <1>2, <1>4, <1>7
<1>. QED
  BY <1>1, <1>3, <1>6, <1>9, <1>10

\* The types that the future depends on.
Typed ==
  /\ streamers \in Contents /\ latest_update \in View
  /\ completions \in Seq(Answer) /\ tasks \in Seq(Task)

\* The invariant says so.
LEMMA InvTyped == HostInv => Typed
  BY DEF HostInv, StreamerTypeOK, HostTypeOK, WorkerTypeOK, Typed

\* The future is the state of a background thread.
LEMMA FutureType ==
  ASSUME Typed
  PROVE  /\ Future.streamers \in Contents /\ Future.view \in View
         /\ Future.owed \in Seq(Owed)
         /\ Future = State(Future.streamers, Future.view, Future.owed)
         /\ Present = State(streamers, latest_update, Owing(completions))
<1>1. Present = State(streamers, latest_update, Owing(completions))
  BY DEF Present, State, Owing
<1>2. Owing(completions) \in Seq(Owed)
  BY OwingType DEF Typed
<1>3. PICK st \in Contents, vt \in View, more \in Seq(Owed) :
        \A o \in Seq(Owed) : After(State(streamers, latest_update, o), tasks) =
                               State(st, vt, o \o more)
  BY AfterParts DEF Typed
<1>4. Future = State(st, vt, Owing(completions) \o more)
  BY <1>1, <1>2, <1>3 DEF Future
<1>5. Owing(completions) \o more \in Seq(Owed)
  <2> HIDE DEF Owed
  <2>. QED
    BY <1>2, ConcatPlaces
<1>. QED
  BY <1>1, <1>4, <1>5 DEF State

\* A task for the background thread changes its future as it will change its
\* present when its turn comes.
LEMMA FuturePush ==
  ASSUME Typed, NEW t \in Task, CallOnWorkerThread(t),
         UNCHANGED <<completions, workerVars>>
  PROVE  /\ Typed'
         /\ Future' = State(StreamersAfter(Future.streamers, t),
                            ViewAfter(Future.view, t),
                            Future.owed \o Asked(Future.streamers, Future.view, t))
<1>1. tasks' = Append(tasks, t) /\ UNCHANGED <<completions, streamers, latest_update>>
  BY DEF CallOnWorkerThread, workerVars
<1>2. tasks \in Seq(Task)
  BY DEF Typed
<1>3. Typed'
  <2> HIDE DEF Task
  <2>1. Append(tasks, t) \in Seq(Task)
    BY <1>2, PushType
  <2>. QED
    BY <1>1, <2>1 DEF Typed
<1>4. Present' = Present
  BY <1>1 DEF Present
<1>5. \A p : After(p, Append(tasks, t)) = Ran(After(p, tasks), t)
  BY <1>2, AfterPush
<1>6. Future' = Ran(Future, t)
  BY <1>1, <1>4, <1>5 DEF Future
<1>7. /\ Future.owed \in Seq(Owed)
      /\ Future = State(Future.streamers, Future.view, Future.owed)
  BY FutureType
<1>8. Ran(State(Future.streamers, Future.view, Future.owed), t) =
        State(StreamersAfter(Future.streamers, t), ViewAfter(Future.view, t),
              Future.owed \o Asked(Future.streamers, Future.view, t))
  BY <1>7, RanParts
<1>. QED
  BY <1>3, <1>6, <1>7, <1>8

\* The next task, and those behind it.
LEMMA TaskTaken ==
  ASSUME Typed, tasks # <<>>
  PROVE  /\ Head(tasks) \in Task /\ Tail(tasks) \in Seq(Task)
         /\ Future = After(State(StreamersAfter(streamers, Head(tasks)),
                                 ViewAfter(latest_update, Head(tasks)),
                                 Owing(completions)
                                   \o Asked(streamers, latest_update, Head(tasks))),
                           Tail(tasks))
<1>1. tasks \in Seq(Task) /\ Owing(completions) \in Seq(Owed)
  BY OwingType DEF Typed
<1>2. Head(tasks) \in Task /\ Tail(tasks) \in Seq(Task)
  <2> HIDE DEF Task
  <2>. QED
    BY <1>1, PopType
<1>3. Future = After(Ran(Present, Head(tasks)), Tail(tasks))
  BY <1>1, AfterPop DEF Future
<1>4. Present = State(streamers, latest_update, Owing(completions))
  BY FutureType
<1>5. Ran(State(streamers, latest_update, Owing(completions)), Head(tasks)) =
        State(StreamersAfter(streamers, Head(tasks)), ViewAfter(latest_update, Head(tasks)),
              Owing(completions) \o Asked(streamers, latest_update, Head(tasks)))
  BY <1>1, RanParts
<1>. QED
  BY <1>2, <1>3, <1>4, <1>5

\* The background thread runs a task: what was going to happen has happened.
LEMMA FutureRun ==
  ASSUME Typed, RunChange \/ RunUpdate
  PROVE  Typed' /\ Future' = Future
<1> PICK t : t = Head(tasks)
  OBVIOUS
<1>1. /\ tasks # <<>> /\ tasks' = Tail(tasks) /\ t.op # "Stream"
      /\ streamers' = StreamersAfter(streamers, t)
      /\ latest_update' = ViewAfter(latest_update, t)
      /\ UNCHANGED completions
  BY DEF RunChange, RunUpdate, StreamersAfter, ViewAfter
<1>2. /\ t \in Task /\ Tail(tasks) \in Seq(Task)
      /\ Future = After(State(StreamersAfter(streamers, t), ViewAfter(latest_update, t),
                              Owing(completions) \o Asked(streamers, latest_update, t)),
                        Tail(tasks))
  BY <1>1, TaskTaken
<1>3. Owing(completions) \in Seq(Owed)
  BY OwingType DEF Typed
<1>4. Owing(completions) \o Asked(streamers, latest_update, t) = Owing(completions)
  <2>1. Asked(streamers, latest_update, t) = <<>>
    BY <1>1 DEF Asked
  <2>2. Owing(completions) \o <<>> = Owing(completions)
    BY <1>3
  <2>. QED
    BY <2>1, <2>2
<1>5. Typed'
  BY <1>1, <1>2, ChangedType, ViewType DEF Typed
<1>6. Present' = State(streamers', latest_update', Owing(completions'))
  BY DEF Present, State, Owing
<1>. QED
  BY <1>1, <1>2, <1>4, <1>5, <1>6 DEF Future

\* Another answer to a call.
LEMMA FromReplaced ==
  \A c, f, g : [[call |-> c, from |-> f] EXCEPT !.from = g] = [call |-> c, from |-> g]
  OBVIOUS

\* It runs a stream(): one of the calls that are owed is decided.
LEMMA FutureDecided ==
  ASSUME Typed, RunStream
  PROVE  /\ Typed'
         /\ Future'.streamers = Future.streamers /\ Future'.view = Future.view
         /\ \E i \in 1 .. Len(Future.owed) : \E answer \in Future.owed[i].from :
              Future'.owed = [Future.owed EXCEPT ![i].from = {answer}]
<1>1. PICK t : t = Head(tasks)
  OBVIOUS
<1>2. PICK from : from = Selections(ContentsOf(streamers, t.streamer), latest_update)
  OBVIOUS
<1>3. PICK chosen \in from :
        completions' = Append(completions, [call |-> t.call, answer |-> chosen])
  BY <1>1, <1>2 DEF RunStream
<1>4. /\ tasks # <<>> /\ tasks' = Tail(tasks) /\ t.op = "Stream"
      /\ UNCHANGED <<streamers, latest_update>>
  BY <1>1 DEF RunStream, workerVars
<1>5. /\ t \in Task /\ Tail(tasks) \in Seq(Task)
      /\ Future = After(State(StreamersAfter(streamers, t), ViewAfter(latest_update, t),
                              Owing(completions) \o Asked(streamers, latest_update, t)),
                        Tail(tasks))
  BY <1>1, <1>4, TaskTaken
<1>6. PICK rest \in Seq(Task) : rest = Tail(tasks)
  BY <1>5
<1>7. PICK o \in Seq(Owed) : o = Owing(completions)
  BY OwingType DEF Typed
<1>8. t.call \in 1 .. MaxRequests /\ from \in SUBSET (SUBSET EntityId)
  BY <1>2, <1>4, <1>5, Tasks, SelectionsType DEF Typed
<1>9. PICK asked \in Owed : asked = [call |-> t.call, from |-> from]
  BY <1>8 DEF Owed
<1>10. PICK decided \in Owed : decided = [call |-> t.call, from |-> {chosen}]
  BY <1>8 DEF Owed
<1>11. PICK a \in Answer : a = [call |-> t.call, answer |-> chosen]
  BY <1>8 DEF Answer
<1>12. PICK st \in Contents, vt \in View, more \in Seq(Owed) :
         \A b \in Seq(Owed) : After(State(streamers, latest_update, b), rest) =
                                State(st, vt, b \o more)
  BY AfterParts DEF Typed
<1>13. Append(o, asked) \in Seq(Owed) /\ Append(o, decided) \in Seq(Owed)
  <2> HIDE DEF Owed
  <2>. QED
    BY PushType
<1>14. Future = State(st, vt, Append(o, asked) \o more)
  <2>1. Asked(streamers, latest_update, t) = <<asked>>
    BY <1>2, <1>4, <1>9 DEF Asked
  <2>2. o \o <<asked>> = Append(o, asked)
    OBVIOUS
  <2>3. StreamersAfter(streamers, t) = streamers /\ ViewAfter(latest_update, t) = latest_update
    BY <1>4 DEF StreamersAfter, ViewAfter
  <2>4. Future = After(State(streamers, latest_update, Append(o, asked)), rest)
    BY <1>5, <1>6, <1>7, <2>1, <2>2, <2>3
  <2>. QED
    BY <1>12, <1>13, <2>4
<1>15. Future' = State(st, vt, Append(o, decided) \o more)
  <2>1. Owing(Append(completions, a)) = Append(Owing(completions), Decided(a))
    BY OwingPush DEF Typed
  <2>2. Decided(a) = decided
    BY <1>10, <1>11 DEF Decided
  <2>3. Present' = State(streamers', latest_update', Owing(completions'))
    BY DEF Present, State, Owing
  <2>4. Present' = State(streamers, latest_update, Append(o, decided))
    BY <1>3, <1>4, <1>7, <1>11, <2>1, <2>2, <2>3
  <2>5. Future' = After(State(streamers, latest_update, Append(o, decided)), rest)
    BY <1>4, <1>6, <2>4 DEF Future
  <2>. QED
    BY <1>12, <1>13, <2>5
<1>16. Typed'
  <2>1. Append(completions, a) \in Seq(Answer)
    <3> HIDE DEF Answer
    <3>. QED
      BY PushType DEF Typed
  <2>. QED
    BY <1>3, <1>4, <1>5, <1>11, <2>1 DEF Typed
<1>17. PICK p : p = Append(o, asked) \o more
  OBVIOUS
<1>18. PICK q : q = Append(o, decided) \o more
  OBVIOUS
<1>19. /\ p \in Seq(Owed) /\ q \in Seq(Owed) /\ Len(q) = Len(p)
       /\ \E i \in 1 .. Len(p) : /\ p[i] = asked /\ q[i] = decided
                                 /\ \A k \in 1 .. Len(p) : k # i => q[k] = p[k]
  <2> HIDE DEF Owed
  <2>1. p \in Seq(Owed) /\ q \in Seq(Owed)
    BY <1>13, <1>17, <1>18, ConcatPlaces
  <2>2. /\ Len(q) = Len(p)
        /\ Len(o) + 1 \in 1 .. Len(p)
        /\ p[Len(o) + 1] = asked /\ q[Len(o) + 1] = decided
        /\ \A k \in 1 .. Len(p) : k # Len(o) + 1 => q[k] = p[k]
    BY <1>17, <1>18, <2>1, MiddleReplaced
  <2>. QED
    BY <2>1, <2>2
<1>20. Future.owed = p /\ Future'.owed = q
  BY <1>14, <1>15, <1>17, <1>18 DEF State
<1>21. PICK i \in 1 .. Len(p) : q = [p EXCEPT ![i].from = {chosen}] /\ chosen \in p[i].from
  <2>1. [asked EXCEPT !.from = {chosen}] = decided /\ chosen \in asked.from
    <3>1. chosen \in asked.from
      BY <1>3, <1>9
    <3>2. [asked EXCEPT !.from = {chosen}] = [call |-> t.call, from |-> {chosen}]
      BY <1>9, FromReplaced
    <3>. QED
      BY <1>10, <3>1, <3>2
  <2>2. PICK i \in 1 .. Len(p) : /\ p[i] = asked /\ q[i] = decided
                                 /\ \A k \in 1 .. Len(p) : k # i => q[k] = p[k]
    BY <1>19
  <2>3. PICK r : r = [p EXCEPT ![i].from = {chosen}]
    OBVIOUS
  <2>4. r = [p EXCEPT ![i] = decided]
    BY <2>1, <2>2, <2>3
  <2>5. /\ r \in Seq(Owed) /\ Len(r) = Len(p) /\ r[i] = decided
        /\ \A k \in 1 .. Len(p) : k # i => r[k] = p[k]
    <3> HIDE DEF Owed
    <3>. QED
      BY <1>19, <2>4
  <2>6. q = r
    <3> HIDE DEF Owed
    <3>. QED
      <4>1. \A k \in 1 .. Len(q) : q[k] = r[k]
        BY <1>19, <2>2, <2>5
      <4>. QED
        BY <1>19, <2>5, <4>1, SameSeq
  <2>. QED
    BY <2>1, <2>2, <2>3, <2>6
<1>22. \E k \in 1 .. Len(p) : \E answer \in p[k].from :
         q = [p EXCEPT ![k].from = {answer}]
  BY <1>21
<1>23. \E k \in 1 .. Len(Future.owed) : \E answer \in Future.owed[k].from :
         Future'.owed = [Future.owed EXCEPT ![k].from = {answer}]
  BY <1>20, <1>22
<1>24. /\ Future'.streamers = Future.streamers /\ Future'.view = Future.view
  BY <1>14, <1>15 DEF State
<1>. QED
  BY <1>16, <1>23, <1>24

\* A frame gives JavaScript the first answer that is owed.
LEMMA FutureGiven ==
  ASSUME Typed, completions # <<>>, completions' = Tail(completions),
         UNCHANGED <<tasks, workerVars>>
  PROVE  /\ Typed' /\ Future.owed # <<>>
         /\ Head(Future.owed) = Decided(Head(completions))
         /\ Future' = State(Future.streamers, Future.view, Tail(Future.owed))
<1>1. UNCHANGED <<tasks, streamers, latest_update>>
  BY DEF workerVars
<1>2. completions \in Seq(Answer)
  BY DEF Typed
<1>3. PICK o \in Seq(Owed) : o = Owing(completions)
  BY <1>2, OwingType
<1>4. o # <<>> /\ Head(o) = Decided(Head(completions)) /\ Owing(Tail(completions)) = Tail(o)
  BY <1>2, <1>3, OwingPop
<1>5. PICK st \in Contents, vt \in View, more \in Seq(Owed) :
        \A b \in Seq(Owed) : After(State(streamers, latest_update, b), tasks) =
                               State(st, vt, b \o more)
  BY AfterParts DEF Typed
<1>6. Tail(o) \in Seq(Owed)
  <2> HIDE DEF Owed
  <2>. QED
    BY <1>4, PopType
<1>7. Future = State(st, vt, o \o more)
  BY <1>3, <1>5, FutureType DEF Future
<1>8. Future' = State(st, vt, Tail(o) \o more)
  <2>1. Present' = State(streamers', latest_update', Owing(completions'))
    BY DEF Present, State, Owing
  <2>2. Present' = State(streamers, latest_update, Tail(o))
    BY <1>1, <1>4, <2>1
  <2>3. Future' = After(State(streamers, latest_update, Tail(o)), tasks)
    BY <1>1, <2>2 DEF Future
  <2>. QED
    BY <1>5, <1>6, <2>3
<1>9. o \o more # <<>> /\ Head(o \o more) = Head(o) /\ Tail(o \o more) = Tail(o) \o more
  <2> HIDE DEF Owed
  <2>1. PICK p \in Seq(Owed) : p = o \o more
    BY ConcatPlaces
  <2>2. /\ Len(p) = Len(o) + Len(more) /\ Len(o) \in Nat \ {0} /\ Len(more) \in Nat
        /\ \A k \in 1 .. Len(o) : p[k] = o[k]
        /\ \A k \in 1 .. Len(more) : p[Len(o) + k] = more[k]
        /\ Head(o) = o[1]
    BY <1>4, <2>1, ConcatPlaces, SeqType, PopPlaces
  <2>3. p # <<>>
    BY <2>2
  <2>4. /\ Tail(p) \in Seq(Owed) /\ Head(p) = p[1] /\ Len(Tail(p)) = Len(p) - 1
        /\ \A k \in 1 .. Len(p) - 1 : Tail(p)[k] = p[k + 1]
    BY <2>3, PopType, PopPlaces
  <2>5. /\ Len(Tail(o)) = Len(o) - 1 /\ \A k \in 1 .. Len(o) - 1 : Tail(o)[k] = o[k + 1]
    BY <1>4, PopPlaces
  <2>6. PICK q \in Seq(Owed) : q = Tail(o) \o more
    BY <1>6, ConcatPlaces
  <2>7. /\ Len(q) = Len(o) - 1 + Len(more)
        /\ \A k \in 1 .. Len(o) - 1 : q[k] = Tail(o)[k]
        /\ \A k \in 1 .. Len(more) : q[Len(o) - 1 + k] = more[k]
    BY <1>6, <2>5, <2>6, ConcatPlaces
  <2>8. \A k \in 1 .. Len(q) : q[k] = Tail(p)[k]
    <3> SUFFICES ASSUME NEW k \in 1 .. Len(q) PROVE q[k] = Tail(p)[k]
      OBVIOUS
    <3>1. CASE k <= Len(o) - 1
      BY <2>2, <2>4, <2>5, <2>7, <3>1
    <3>2. CASE k > Len(o) - 1
      <4>1. /\ k - (Len(o) - 1) \in 1 .. Len(more)
            /\ Len(o) - 1 + (k - (Len(o) - 1)) = k
            /\ Len(o) + (k - (Len(o) - 1)) = k + 1
            /\ k \in 1 .. Len(p) - 1
        BY <2>2, <2>7, <3>2
      <4>2. q[k] = more[k - (Len(o) - 1)] /\ p[k + 1] = more[k - (Len(o) - 1)]
        BY <2>2, <2>7, <4>1
      <4>. QED
        BY <2>4, <4>1, <4>2
    <3>. QED
      BY <2>2, <2>7, <3>1, <3>2
  <2>9. Len(q) = Len(Tail(p))
    BY <2>2, <2>4, <2>7
  <2>10. q = Tail(p)
    BY <2>4, <2>8, <2>9, SameSeq
  <2>11. p[1] = o[1]
    BY <2>2
  <2>. QED
    BY <2>1, <2>2, <2>3, <2>4, <2>6, <2>10, <2>11
<1>10. Typed'
  <2> HIDE DEF Answer
  <2>1. Tail(completions) \in Seq(Answer)
    BY <1>2, PopType
  <2>. QED
    BY <1>1, <2>1 DEF Typed
<1>. QED
  BY <1>4, <1>7, <1>8, <1>9, <1>10 DEF State

\* The others leave the future alone.
LEMMA FutureKept ==
  ASSUME Typed, UNCHANGED <<tasks, completions, workerVars>>
  PROVE  Typed' /\ Future' = Future
  BY DEF Typed, Future, Present, workerVars

\* What the future becomes when a task is posted, part by part.
LEMMA FuturePosted ==
  ASSUME Typed, NEW t \in Task, CallOnWorkerThread(t),
         UNCHANGED <<completions, workerVars>>
  PROVE  /\ Typed'
         /\ Future'.streamers = StreamersAfter(Future.streamers, t)
         /\ DOMAIN Future'.streamers =
              CASE t.op = "Initialize" -> DOMAIN Future.streamers \cup {t.streamer}
                [] t.op = "DeleteAll" -> DOMAIN Future.streamers \ {t.streamer}
                [] OTHER -> DOMAIN Future.streamers
         /\ Future'.view = IF t.op = "Update" THEN t.updates ELSE Future.view
         /\ Future'.owed =
              IF t.op = "Stream"
              THEN Append(Future.owed,
                     [call |-> t.call,
                      from |-> Selections(ContentsOf(Future.streamers, t.streamer), Future.view)])
              ELSE Future.owed
         /\ Len(Future'.owed) = Len(Future.owed) + (IF t.op = "Stream" THEN 1 ELSE 0)
<1>1. PICK ss \in Contents : ss = Future.streamers
  BY FutureType
<1>2. PICK o \in Seq(Owed) : o = Future.owed
  BY FutureType
<1>3. PICK e : e = [call |-> t.call, from |-> Selections(ContentsOf(ss, t.streamer), Future.view)]
  OBVIOUS
<1>4. /\ Typed'
      /\ Future' = State(StreamersAfter(ss, t), ViewAfter(Future.view, t),
                         o \o Asked(ss, Future.view, t))
  BY <1>1, <1>2, FuturePush
<1>5. o \o <<e>> = Append(o, e) /\ o \o <<>> = o
  OBVIOUS
<1>6. Asked(ss, Future.view, t) = IF t.op = "Stream" THEN <<e>> ELSE <<>>
  BY <1>3 DEF Asked
<1>7. o \o Asked(ss, Future.view, t) = IF t.op = "Stream" THEN Append(o, e) ELSE o
  BY <1>5, <1>6
<1>8. Future'.owed = IF t.op = "Stream" THEN Append(o, e) ELSE o
  BY <1>4, <1>7 DEF State
<1>9. Len(Append(o, e)) = Len(o) + 1 /\ Len(o) = Len(o) + 0
  BY PushPlaces, SeqType
<1>10. Len(Future'.owed) = Len(o) + (IF t.op = "Stream" THEN 1 ELSE 0)
  BY <1>8, <1>9
<1>11. Future'.streamers = StreamersAfter(ss, t) /\ Future'.view = ViewAfter(Future.view, t)
  BY <1>4 DEF State
<1>12. DOMAIN StreamersAfter(ss, t) =
         CASE t.op = "Initialize" -> DOMAIN ss \cup {t.streamer}
           [] t.op = "DeleteAll" -> DOMAIN ss \ {t.streamer}
           [] OTHER -> DOMAIN ss
  BY ChangedType
<1>13. ViewAfter(Future.view, t) = IF t.op = "Update" THEN t.updates ELSE Future.view
  BY DEF ViewAfter
<1>. QED
  BY <1>1, <1>2, <1>3, <1>4, <1>8, <1>10, <1>11, <1>12, <1>13

(***************************************************************************)
(* The invariant, in the parts that the steps are proved by.               *)
(***************************************************************************)
MainTyped ==
  /\ host_pc \in {"js", "frame"}
  /\ active_streamer_ids \subseteq 1 .. last_streamer_id
  /\ last_streamer_id \in 0 .. MaxStreamers
  /\ last_entity_id \in 0 .. MaxEntities
  /\ requests \in 0 .. MaxRequests
  /\ tracked_players \subseteq Player
  /\ tracked_players_invalidated \in BOOLEAN
  /\ update_due \in BOOLEAN
  /\ answers \in Seq(Answer)

Agrees == NoStreamerLeaks /\ SeesTheTracked /\ CallsCounted

\* The invariant is the conjunction of the parts.
LEMMA Parts == HostInv <=> Typed /\ MainTyped /\ Agrees
<1>1. Typed => WorkerTypeOK
  BY ContentsType DEF Typed, WorkerTypeOK
<1>. QED
  BY <1>1 DEF HostInv, StreamerTypeOK, HostTypeOK, WorkerTypeOK, Typed, MainTyped, Agrees

\* ... and so it is after a step.
LEMMA PartsPrimed == (Typed /\ MainTyped /\ Agrees)' => HostInv'
<1>1. Typed /\ MainTyped /\ Agrees => HostInv
  BY Parts
<1>. QED
  BY <1>1, PTL

\* The bounds are numbers.
LEMMA Bounds ==
  /\ MaxStreamers \in Nat \ {0} /\ MaxEntities \in Nat \ {0}
  /\ MaxRequests \in Nat \ {0} /\ MaxTasks \in Nat \ {0}
  BY StreamerAssumption

\* Active streamers have an id within the bound.
LEMMA ActiveType ==
  ASSUME MainTyped
  PROVE  active_streamer_ids \subseteq Streamer
  BY Bounds DEF MainTyped, Streamer

\* new Streamer()
LEMMA CreateStreamerStep ==
  ASSUME HostInv, CreateStreamer
  PROVE  HostInv'
<1>1. Typed /\ MainTyped /\ Agrees
  BY Parts
<1>2. PICK t : t = [op |-> "Initialize", streamer |-> last_streamer_id + 1]
  OBVIOUS
<1>3. last_streamer_id + 1 \in Streamer
  BY <1>1, Bounds DEF CreateStreamer, MainTyped, Streamer
<1>4. t \in Task
  BY <1>2, <1>3 DEF Task
<1>5. CallOnWorkerThread(t) /\ UNCHANGED <<completions, workerVars>>
  BY <1>2 DEF CreateStreamer
<1>6. /\ Typed' /\ Future'.view = Future.view /\ Len(Future'.owed) = Len(Future.owed) + 0
      /\ DOMAIN Future'.streamers = DOMAIN Future.streamers \cup {last_streamer_id + 1}
  <2>1. t.op = "Initialize" /\ t.streamer = last_streamer_id + 1
    BY <1>2
  <2> HIDE DEF Task
  <2>. QED
    BY <1>1, <1>4, <1>5, <2>1, FuturePosted
<1>7. MainTyped'
  BY <1>1, Bounds DEF CreateStreamer, MainTyped, trackVars
<1>8. Agrees'
  <2>1. /\ active_streamer_ids' = active_streamer_ids \cup {last_streamer_id + 1}
        /\ UNCHANGED <<requests, answers, tracked_players, tracked_players_invalidated>>
    BY DEF CreateStreamer, trackVars
  <2>2. Len(Future.owed) \in Nat
    BY <1>1, FutureType, SeqType
  <2>3. NoStreamerLeaks' /\ SeesTheTracked'
    BY <1>1, <1>6, <2>1 DEF Agrees, NoStreamerLeaks, SeesTheTracked
  <2>4. CallsCounted'
    BY <1>1, <1>6, <2>1, <2>2 DEF Agrees, CallsCounted
  <2>. QED
    BY <2>3, <2>4 DEF Agrees
<1>. QED
  BY <1>6, <1>7, <1>8, PartsPrimed

\* A task that concerns the contents of one streamer.
LEMMA ContentsStep ==
  ASSUME HostInv, NEW t \in Task, t.op \in {"Add", "Optimise", "Delete"},
         CallOnWorkerThread(t), MainTyped',
         UNCHANGED <<active_streamer_ids, requests, trackVars, answers, completions,
                     workerVars>>
  PROVE  HostInv'
<1>1. Typed /\ MainTyped /\ Agrees
  BY Parts
<1>2. /\ Typed' /\ Future'.view = Future.view /\ Len(Future'.owed) = Len(Future.owed) + 0
      /\ DOMAIN Future'.streamers = DOMAIN Future.streamers
  <2> HIDE DEF Task
  <2>. QED
    BY <1>1, FuturePosted
<1>3. Agrees'
  <2>1. UNCHANGED <<active_streamer_ids, requests, answers, tracked_players,
                    tracked_players_invalidated>>
    BY DEF trackVars
  <2>2. Len(Future.owed) \in Nat
    BY <1>1, FutureType, SeqType
  <2>3. NoStreamerLeaks' /\ SeesTheTracked'
    BY <1>1, <1>2, <2>1 DEF Agrees, NoStreamerLeaks, SeesTheTracked
  <2>4. CallsCounted'
    BY <1>1, <1>2, <2>1, <2>2 DEF Agrees, CallsCounted
  <2>. QED
    BY <2>3, <2>4 DEF Agrees
<1>. QED
  BY <1>2, <1>3, PartsPrimed

\* Add(s, place)
LEMMA AddStep ==
  ASSUME HostInv, NEW s \in active_streamer_ids, NEW place \in Place, Add(s, place)
  PROVE  HostInv'
<1>1. Typed /\ MainTyped /\ Agrees
  BY Parts
<1>2. PICK e : e = [id |-> last_entity_id + 1, place |-> place]
  OBVIOUS
<1>3. e \in Entity
  BY <1>1, <1>2, Bounds DEF Add, MainTyped, Entity, EntityId
<1>4. PICK t : t = [op |-> "Add", streamer |-> s, entity |-> e]
  OBVIOUS
<1>5. s \in Streamer
  BY <1>1, ActiveType
<1>6. t \in Task
  BY <1>3, <1>4, <1>5 DEF Task
<1>7. CallOnWorkerThread(t) /\ t.op = "Add"
  BY <1>2, <1>4 DEF Add
<1>8. MainTyped'
  BY <1>1, Bounds DEF Add, MainTyped, trackVars
<1>9. UNCHANGED <<active_streamer_ids, requests, trackVars, answers, completions,
                  workerVars>>
  BY DEF Add
<1> HIDE DEF Task
<1>. QED
  BY <1>6, <1>7, <1>8, <1>9, ContentsStep

\* Optimise(s)
LEMMA OptimiseStep ==
  ASSUME HostInv, NEW s \in active_streamer_ids, Optimise(s)
  PROVE  HostInv'
<1>1. Typed /\ MainTyped /\ Agrees
  BY Parts
<1>2. PICK t : t = [op |-> "Optimise", streamer |-> s]
  OBVIOUS
<1>3. s \in Streamer
  BY <1>1, ActiveType
<1>4. t \in Task
  BY <1>2, <1>3 DEF Task
<1>5. CallOnWorkerThread(t) /\ t.op = "Optimise"
  BY <1>2 DEF Optimise
<1>6. MainTyped'
  BY <1>1 DEF Optimise, MainTyped, trackVars, idVars
<1>7. UNCHANGED <<active_streamer_ids, requests, trackVars, answers, completions,
                  workerVars>>
  BY DEF Optimise, idVars
<1> HIDE DEF Task
<1>. QED
  BY <1>4, <1>5, <1>6, <1>7, ContentsStep

\* Delete(s, id)
LEMMA DeleteStep ==
  ASSUME HostInv, NEW s \in active_streamer_ids, NEW id \in 1 .. last_entity_id,
         Delete(s, id)
  PROVE  HostInv'
<1>1. Typed /\ MainTyped /\ Agrees
  BY Parts
<1>2. PICK t : t = [op |-> "Delete", streamer |-> s, id |-> id]
  OBVIOUS
<1>3. s \in Streamer /\ id \in EntityId
  BY <1>1, ActiveType, Bounds DEF MainTyped, EntityId
<1>4. t \in Task
  BY <1>2, <1>3 DEF Task
<1>5. CallOnWorkerThread(t) /\ t.op = "Delete"
  BY <1>2 DEF Delete
<1>6. MainTyped'
  BY <1>1 DEF Delete, MainTyped, trackVars, idVars
<1>7. UNCHANGED <<active_streamer_ids, requests, trackVars, answers, completions,
                  workerVars>>
  BY DEF Delete, idVars
<1> HIDE DEF Task
<1>. QED
  BY <1>4, <1>5, <1>6, <1>7, ContentsStep

\* OnGarbageCollected
LEMMA DeleteStreamerStep ==
  ASSUME HostInv, NEW s \in active_streamer_ids, DeleteStreamer(s)
  PROVE  HostInv'
<1>1. Typed /\ MainTyped /\ Agrees
  BY Parts
<1>2. PICK t : t = [op |-> "DeleteAll", streamer |-> s]
  OBVIOUS
<1>3. s \in Streamer
  BY <1>1, ActiveType
<1>4. t \in Task
  BY <1>2, <1>3 DEF Task
<1>5. CallOnWorkerThread(t) /\ UNCHANGED <<completions, workerVars>>
  BY <1>2 DEF DeleteStreamer
<1>6. /\ Typed' /\ Future'.view = Future.view /\ Len(Future'.owed) = Len(Future.owed) + 0
      /\ DOMAIN Future'.streamers = DOMAIN Future.streamers \ {s}
  <2>1. t.op = "DeleteAll" /\ t.streamer = s
    BY <1>2
  <2> HIDE DEF Task
  <2>. QED
    BY <1>1, <1>4, <1>5, <2>1, FuturePosted
<1>7. MainTyped'
  BY <1>1 DEF DeleteStreamer, MainTyped, trackVars
<1>8. Agrees'
  <2>1. /\ active_streamer_ids' = active_streamer_ids \ {s}
        /\ UNCHANGED <<requests, answers, tracked_players, tracked_players_invalidated>>
    BY DEF DeleteStreamer, trackVars
  <2>2. Len(Future.owed) \in Nat
    BY <1>1, FutureType, SeqType
  <2>3. NoStreamerLeaks' /\ SeesTheTracked'
    BY <1>1, <1>6, <2>1 DEF Agrees, NoStreamerLeaks, SeesTheTracked
  <2>4. CallsCounted'
    BY <1>1, <1>6, <2>1, <2>2 DEF Agrees, CallsCounted
  <2>. QED
    BY <2>3, <2>4 DEF Agrees
<1>. QED
  BY <1>6, <1>7, <1>8, PartsPrimed

\* Stream(s): one more call, and one more that is owed.
LEMMA StreamStep ==
  ASSUME HostInv, NEW s \in active_streamer_ids, Stream(s)
  PROVE  HostInv'
<1>1. Typed /\ MainTyped /\ Agrees
  BY Parts
<1>2. PICK t : t = [op |-> "Stream", streamer |-> s, call |-> requests + 1]
  OBVIOUS
<1>3. s \in Streamer /\ requests + 1 \in 1 .. MaxRequests
  <2>1. s \in Streamer
    BY <1>1, ActiveType
  <2>2. requests + 1 \in 1 .. MaxRequests
    BY <1>1, Bounds DEF Stream, MainTyped
  <2>. QED
    BY <2>1, <2>2
<1>4. t \in Task
  BY <1>2, <1>3 DEF Task
<1>5. CallOnWorkerThread(t) /\ UNCHANGED <<completions, workerVars>>
  BY <1>2 DEF Stream
<1>6. /\ Typed' /\ Future'.view = Future.view /\ Len(Future'.owed) = Len(Future.owed) + 1
      /\ DOMAIN Future'.streamers = DOMAIN Future.streamers
  <2>1. t.op = "Stream"
    BY <1>2
  <2> HIDE DEF Task
  <2>. QED
    BY <1>1, <1>4, <1>5, <2>1, FuturePosted
<1>7. MainTyped'
  BY <1>1, <1>3 DEF Stream, MainTyped, trackVars, idVars
<1>8. Agrees'
  <2>1. /\ requests' = requests + 1
        /\ UNCHANGED <<active_streamer_ids, answers, tracked_players,
                       tracked_players_invalidated>>
    BY DEF Stream, trackVars, idVars
  <2>2. Len(Future.owed) \in Nat /\ Len(answers) \in Nat
    BY <1>1, FutureType, SeqType DEF MainTyped
  <2>3. NoStreamerLeaks' /\ SeesTheTracked'
    BY <1>1, <1>6, <2>1 DEF Agrees, NoStreamerLeaks, SeesTheTracked
  <2>4. CallsCounted'
    BY <1>1, <1>6, <2>1, <2>2 DEF Agrees, CallsCounted
  <2>. QED
    BY <2>3, <2>4 DEF Agrees
<1>. QED
  BY <1>6, <1>7, <1>8, PartsPrimed

\* A step that neither posts nor takes a task or an answer.
LEMMA QuietStep ==
  ASSUME HostInv, UNCHANGED <<tasks, completions, workerVars>>, MainTyped',
         UNCHANGED <<active_streamer_ids, requests, answers>>,
         ~tracked_players_invalidated' =>
           ~tracked_players_invalidated /\ tracked_players' = tracked_players
  PROVE  HostInv'
<1>1. Typed /\ MainTyped /\ Agrees
  BY Parts
<1>2. Typed' /\ Future' = Future
  BY <1>1, FutureKept
<1>3. Agrees'
  BY <1>1, <1>2 DEF Agrees, NoStreamerLeaks, SeesTheTracked, CallsCounted
<1>. QED
  BY <1>2, <1>3, PartsPrimed

\* SetTrackedPlayers(players): what the background thread sees may be wrong
\* until the next update.
LEMMA SetTrackedPlayersStep ==
  ASSUME HostInv, NEW tracked \in SUBSET Player, SetTrackedPlayers(tracked)
  PROVE  HostInv'
<1>1. MainTyped
  BY Parts
<1>2. MainTyped' /\ tracked_players_invalidated'
  BY <1>1 DEF SetTrackedPlayers, MainTyped, idVars
<1>. QED
  BY <1>2, QuietStep DEF SetTrackedPlayers, idVars

\* TimePasses
LEMMA TimePassesStep ==
  ASSUME HostInv, TimePasses
  PROVE  HostInv'
<1>1. MainTyped
  BY Parts
<1>2. MainTyped'
  BY <1>1 DEF TimePasses, MainTyped, idVars
<1>. QED
  BY <1>2, QuietStep DEF TimePasses, idVars

\* RunOne: what is given is not owed any more.
LEMMA RunOneStep ==
  ASSUME HostInv, RunOne
  PROVE  HostInv'
<1>1. Typed /\ MainTyped /\ Agrees
  BY Parts
<1>2. UNCHANGED <<active_streamer_ids, requests, trackVars, tasks, workerVars>>
  BY DEF RunOne, idVars
<1>3. CASE completions # <<>>
  <2>1. answers' = Append(answers, Head(completions)) /\ completions' = Tail(completions)
    BY <1>3 DEF RunOne
  <2>2. Head(completions) \in Answer
    <3>1. completions \in Seq(Answer)
      BY <1>1 DEF Typed
    <3> HIDE DEF Answer
    <3>. QED
      BY <1>3, <3>1, PopType
  <2>3. answers' \in Seq(Answer) /\ Len(answers') = Len(answers) + 1
    <3>1. answers \in Seq(Answer)
      BY <1>1 DEF MainTyped
    <3> HIDE DEF Answer
    <3>. QED
      BY <2>1, <2>2, <3>1, PushType, PushPlaces
  <2>4. MainTyped'
    <3> HIDE DEF Answer
    <3>. QED
      BY <1>1, <2>3 DEF RunOne, MainTyped, idVars, trackVars
  <2>5. PICK o \in Seq(Owed) : o = Future.owed
    BY <1>1, FutureType
  <2>6. /\ Typed' /\ o # <<>> /\ Future' = State(Future.streamers, Future.view, Tail(o))
    BY <1>1, <1>2, <1>3, <2>1, <2>5, FutureGiven
  <2>7. Len(Tail(o)) = Len(o) - 1 /\ Len(o) \in Nat
    <3> HIDE DEF Owed
    <3>. QED
      BY <2>6, PopPlaces
  <2>8. /\ Future'.streamers = Future.streamers /\ Future'.view = Future.view
        /\ Future'.owed = Tail(o)
    BY <2>6 DEF State
  <2>9. NoStreamerLeaks' /\ SeesTheTracked'
    BY <1>1, <1>2, <2>8 DEF Agrees, NoStreamerLeaks, SeesTheTracked, trackVars
  <2>10. CallsCounted'
    <3>1. Len(answers) \in Nat
      BY <1>1, SeqType DEF MainTyped
    <3>2. requests = Len(answers) + Len(o) /\ requests' = requests
      BY <1>1, <1>2, <2>5 DEF Agrees, CallsCounted
    <3>3. Len(Future'.owed) = Len(o) - 1 /\ Len(answers') = Len(answers) + 1
      BY <2>3, <2>7, <2>8
    <3>4. Len(answers) + Len(o) = (Len(answers) + 1) + (Len(o) - 1)
      BY <2>7, <3>1
    <3>. QED
      BY <3>2, <3>3, <3>4 DEF CallsCounted
  <2>11. Agrees'
    BY <2>9, <2>10 DEF Agrees
  <2>. QED
    BY <2>4, <2>6, <2>11, PartsPrimed
<1>4. CASE completions = <<>>
  <2>1. UNCHANGED <<answers, completions>>
    BY <1>4 DEF RunOne
  <2>2. MainTyped'
    BY <1>1, <2>1 DEF RunOne, MainTyped, idVars, trackVars
  <2>. QED
    BY <1>2, <2>1, <2>2, QuietStep DEF trackVars
<1>. QED
  BY <1>3, <1>4

\* OnFrame: an update is about the players that are tracked; if there is none,
\* none are seen.
LEMMA OnFrameStep ==
  ASSUME HostInv, OnFrame
  PROVE  HostInv'
<1>1. Typed /\ MainTyped /\ Agrees
  BY Parts
<1>2. MainTyped'
  BY <1>1 DEF OnFrame, MainTyped, idVars, trackVars
<1>3. UNCHANGED <<active_streamer_ids, requests, tracked_players, answers, completions,
                  workerVars>>
  BY DEF OnFrame, idVars, trackVars
<1>4. CASE ~update_due
  <2>1. UNCHANGED <<tracked_players_invalidated, tasks>>
    BY <1>4 DEF OnFrame, trackVars
  <2>. QED
    BY <1>2, <1>3, <2>1, QuietStep
<1>5. CASE update_due /\ NeedsUpdate
  <2>1. PICK view \in [tracked_players -> Place \cup {"inside"}] :
          CallOnWorkerThread([op |-> "Update", updates |-> view])
    BY <1>5 DEF OnFrame
  <2>2. view \in View /\ DOMAIN view = tracked_players
    BY <1>1 DEF View, MainTyped
  <2>3. PICK t : t = [op |-> "Update", updates |-> view]
    OBVIOUS
  <2>4. t \in Task
    BY <2>2, <2>3 DEF Task
  <2>5. t.op = "Update" /\ t.updates = view /\ CallOnWorkerThread(t)
    BY <2>1, <2>3
  <2>6. /\ Typed' /\ Future'.view = view /\ Len(Future'.owed) = Len(Future.owed) + 0
        /\ DOMAIN Future'.streamers = DOMAIN Future.streamers
    <3> HIDE DEF Task
    <3>. QED
      BY <1>1, <1>3, <2>4, <2>5, FuturePosted
  <2>7. Len(Future.owed) \in Nat
    BY <1>1, FutureType, SeqType
  <2>8. NoStreamerLeaks' /\ SeesTheTracked'
    BY <1>1, <1>3, <2>2, <2>6 DEF Agrees, NoStreamerLeaks, SeesTheTracked
  <2>9. CallsCounted'
    BY <1>1, <1>3, <2>6, <2>7 DEF Agrees, CallsCounted
  <2>10. Agrees'
    BY <2>8, <2>9 DEF Agrees
  <2>. QED
    BY <1>2, <2>6, <2>10, PartsPrimed
<1>6. CASE update_due /\ ~NeedsUpdate
  <2>1. tasks' = tasks /\ ~tracked_players_invalidated
    BY <1>6 DEF OnFrame, NeedsUpdate
  <2>. QED
    BY <1>2, <1>3, <2>1, QuietStep
<1>. QED
  BY <1>4, <1>5, <1>6

\* The background thread does what was going to happen.
LEMMA WorkerStep ==
  ASSUME HostInv, WorkerNext
  PROVE  HostInv'
<1>1. Typed /\ MainTyped /\ Agrees
  BY Parts
<1>2. UNCHANGED <<host_pc, idVars, requests, trackVars, answers>>
  BY DEF WorkerNext, RunChange, RunUpdate, RunStream
<1>3. MainTyped'
  BY <1>1, <1>2 DEF MainTyped, idVars, trackVars
<1>4. /\ Typed' /\ Future'.streamers = Future.streamers /\ Future'.view = Future.view
      /\ Len(Future'.owed) = Len(Future.owed)
  <2>1. CASE RunChange \/ RunUpdate
    BY <1>1, <2>1, FutureRun
  <2>2. CASE RunStream
    <3>1. PICK o \in Seq(Owed) : o = Future.owed
      BY <1>1, FutureType
    <3>2. /\ Typed' /\ Future'.streamers = Future.streamers /\ Future'.view = Future.view
      BY <1>1, <2>2, FutureDecided
    <3>3. \E i \in 1 .. Len(o) : \E answer \in o[i].from :
            Future'.owed = [o EXCEPT ![i].from = {answer}]
      BY ZenonT(40), <1>1, <2>2, <3>1, FutureDecided
    <3>4. Len(Future'.owed) = Len(o)
      <4> HIDE DEF Owed
      <4>. QED
        BY <3>3
    <3>. QED
      BY <3>1, <3>2, <3>4
  <2>. QED
    BY <2>1, <2>2 DEF WorkerNext
<1>5. Agrees'
  BY <1>1, <1>2, <1>4 DEF Agrees, NoStreamerLeaks, SeesTheTracked, CallsCounted, idVars, trackVars
<1>. QED
  BY <1>3, <1>4, <1>5, PartsPrimed

\* At first nothing is queued, and there is nothing on either thread.
LEMMA HostInit0 ==
  ASSUME Init
  PROVE  HostInv
<1>1. Typed
  <2>1. streamers \in Contents
    <3>1. [s \in {} |-> {}] \in [{} -> SUBSET Entity]
      OBVIOUS
    <3>. QED
      BY <3>1, ContentsType DEF Init
  <2>2. latest_update \in View
    <3>1. NoView \in [{} -> Place \cup {"inside"}]
      BY DEF NoView
    <3>. QED
      BY <3>1 DEF Init, View
  <2>. QED
    BY <2>1, <2>2 DEF Init, Typed
<1>2. MainTyped
  <2>1. answers \in Seq(Answer)
    <3>1. <<>> \in Seq(Answer)
      OBVIOUS
    <3>. QED
      BY <3>1 DEF Init, HostInit
  <2>2. 0 \in 0 .. MaxStreamers /\ 0 \in 0 .. MaxEntities /\ 0 \in 0 .. MaxRequests
    BY Bounds
  <2>. QED
    BY <2>1, <2>2 DEF Init, HostInit, MainTyped
<1>3. Future = Present
  BY AfterNone DEF Future, Init
<1>4. /\ Future.streamers = [s \in {} |-> {}] /\ Future.view = NoView
      /\ Len(Future.owed) = 0
  <2>1. completions = <<>> /\ Owing(completions) \in Seq(Owed) /\ Len(Owing(completions)) = 0
    BY <1>1, OwingType DEF Init, Typed
  <2>2. Present = State(streamers, latest_update, Owing(completions))
    BY <1>1, FutureType
  <2>. QED
    BY <1>3, <2>1, <2>2 DEF State, Init
<1>5. Agrees
  BY <1>4 DEF Agrees, NoStreamerLeaks, SeesTheTracked, CallsCounted, Init, HostInit, NoView
<1>. QED
  BY <1>1, <1>2, <1>5, Parts

\* Every step of the two threads keeps the invariant.
LEMMA HostStep ==
  ASSUME HostInv, [Next]_vars
  PROVE  HostInv'
<1>1. CASE ScriptNext
  BY <1>1, CreateStreamerStep, AddStep, OptimiseStep, StreamStep, DeleteStep,
     DeleteStreamerStep, SetTrackedPlayersStep DEF ScriptNext
<1>2. CASE FrameNext
  BY <1>2, RunOneStep, OnFrameStep DEF FrameNext
<1>3. CASE TimePasses
  BY <1>3, TimePassesStep
<1>4. CASE WorkerNext
  BY <1>4, WorkerStep
<1>5. CASE UNCHANGED vars
  <2>1. MainTyped
    BY Parts
  <2>2. MainTyped'
    BY <1>5, <2>1 DEF MainTyped, vars, idVars, trackVars
  <2>. QED
    BY <1>5, <2>2, QuietStep DEF vars, idVars, trackVars
<1>. QED
  BY <1>1, <1>2, <1>3, <1>4, <1>5 DEF Next

\* Whatever is still queued between the two threads, the background thread is
\* on its way to the streamers and players of the main thread, and every call
\* of stream() was answered or will be.
THEOREM HostInvariant == Spec => []HostInv
<1>1. Init => HostInv
  BY HostInit0
<1>2. HostInv /\ [Next]_vars => HostInv'
  BY HostStep
<1>. QED
  BY <1>1, <1>2, PTL DEF Spec

\* No streamer outlives its object on the background thread, none is missing
\* there, and players that are no longer tracked are forgotten.
THEOREM StreamersCorrect == Spec => []StreamerInv
<1>1. HostInv => StreamerInv
  BY DEF HostInv, StreamerInv
<1>. QED
  BY <1>1, HostInvariant, PTL

(***************************************************************************)
(* Refinement: what is promised, told from the future.                     *)
(***************************************************************************)
ContentsIn(ss) == [s \in Streamer |-> ContentsOf(ss, s)]

\* Tasks that leave every streamer its entities: a new one has none.
LEMMA ContentsSame ==
  ASSUME NEW ss \in Contents, NEW t \in Task,
         t.op \in {"Initialize", "Optimise", "Stream", "Update"}
  PROVE  ContentsIn(StreamersAfter(ss, t)) = ContentsIn(ss)
<1>1. CASE t.op = "Initialize"
  <2>1. StreamersAfter(ss, t) = Initialized(ss, t.streamer)
    BY <1>1 DEF StreamersAfter, Changed
  <2>2. \A s \in Streamer : ContentsOf(Initialized(ss, t.streamer), s) = ContentsOf(ss, s)
    BY DEF ContentsOf, Initialized
  <2>. QED
    BY <2>1, <2>2 DEF ContentsIn
<1>2. CASE t.op # "Initialize"
  BY <1>2 DEF StreamersAfter, Changed
<1>. QED
  BY <1>1, <1>2

\* Tasks that change the entities of one streamer.
LEMMA ContentsChanged ==
  ASSUME NEW ss \in Contents, NEW s \in DOMAIN ss, NEW t \in Task,
         t.op \in {"Add", "Delete", "DeleteAll"}, t.streamer = s
  PROVE  LET c == ContentsIn(ss)
         IN  /\ t.op = "Add" =>
                  ContentsIn(StreamersAfter(ss, t)) = [c EXCEPT ![s] = @ \cup {t.entity}]
             /\ t.op = "Delete" =>
                  ContentsIn(StreamersAfter(ss, t)) = [c EXCEPT ![s] = {e \in @ : e.id # t.id}]
             /\ t.op = "DeleteAll" =>
                  ContentsIn(StreamersAfter(ss, t)) = [c EXCEPT ![s] = {}]
<1>1. s \in Streamer
  BY ContentsType
<1>2. CASE t.op = "Add"
  <2>1. StreamersAfter(ss, t) = Added(ss, s, t.entity)
    BY <1>2 DEF StreamersAfter, Changed
  <2>2. \A x \in Streamer : ContentsOf(Added(ss, s, t.entity), x) =
                              IF x = s THEN ContentsOf(ss, s) \cup {t.entity} ELSE ContentsOf(ss, x)
    BY DEF ContentsOf, Added
  <2>. QED
    BY <1>1, <1>2, <2>1, <2>2 DEF ContentsIn
<1>3. CASE t.op = "Delete"
  <2>1. StreamersAfter(ss, t) = Deleted(ss, s, t.id)
    BY <1>3 DEF StreamersAfter, Changed
  <2>2. \A x \in Streamer : ContentsOf(Deleted(ss, s, t.id), x) =
                              IF x = s THEN {e \in ContentsOf(ss, s) : e.id # t.id}
                              ELSE ContentsOf(ss, x)
    BY DEF ContentsOf, Deleted
  <2>. QED
    BY <1>1, <1>3, <2>1, <2>2 DEF ContentsIn
<1>4. CASE t.op = "DeleteAll"
  <2>1. StreamersAfter(ss, t) = DeletedAll(ss, s)
    BY <1>4 DEF StreamersAfter, Changed
  <2>2. \A x \in Streamer : ContentsOf(DeletedAll(ss, s), x) =
                              IF x = s THEN {} ELSE ContentsOf(ss, x)
    BY DEF ContentsOf, DeletedAll
  <2>. QED
    BY <1>1, <1>4, <2>1, <2>2 DEF ContentsIn
<1>. QED
  BY <1>2, <1>3, <1>4

\* The variables of the service stand for parts of the future.
LEMMA ServiceStutter ==
  ASSUME ContentsIn(Future'.streamers) = ContentsIn(Future.streamers),
         Future'.view = Future.view, Future'.owed = Future.owed, answers' = answers
  PROVE  UNCHANGED Service!serviceVars
  BY DEF Service!serviceVars, ContentsIn

\* A task whose posting changes nothing that the service tells.
LEMMA PostedUnseen ==
  ASSUME HostInv, NEW t \in Task, t.op \in {"Initialize", "Optimise"},
         CallOnWorkerThread(t), UNCHANGED <<completions, workerVars, answers>>
  PROVE  UNCHANGED Service!serviceVars
<1>1. Typed
  BY Parts
<1>2. /\ Future'.streamers = StreamersAfter(Future.streamers, t)
      /\ Future'.view = Future.view /\ Future'.owed = Future.owed
  <2> HIDE DEF Task
  <2>. QED
    BY <1>1, FuturePosted
<1>3. PICK ss \in Contents : ss = Future.streamers
  BY <1>1, FutureType
<1>4. ContentsIn(StreamersAfter(ss, t)) = ContentsIn(ss)
  <2> HIDE DEF Task, Contents
  <2>. QED
    BY ContentsSame
<1>. QED
  BY <1>2, <1>3, <1>4, ServiceStutter

\* Add(s, place) puts an entity in the streamer.
LEMMA AddPuts ==
  ASSUME HostInv, NEW s \in active_streamer_ids, NEW place \in Place, Add(s, place)
  PROVE  s \in Streamer /\ \E e \in Entity : Service!Put(s, e)
<1>1. Typed /\ MainTyped /\ Agrees
  BY Parts
<1>2. PICK e : e = [id |-> last_entity_id + 1, place |-> place]
  OBVIOUS
<1>3. e \in Entity
  BY <1>1, <1>2, Bounds DEF Add, MainTyped, Entity, EntityId
<1>4. PICK t : t = [op |-> "Add", streamer |-> s, entity |-> e]
  OBVIOUS
<1>5. s \in Streamer
  BY <1>1, ActiveType
<1>6. t \in Task
  BY <1>3, <1>4, <1>5 DEF Task
<1>7. /\ CallOnWorkerThread(t) /\ t.op = "Add" /\ t.streamer = s /\ t.entity = e
      /\ UNCHANGED <<completions, workerVars, answers>>
  BY <1>2, <1>4 DEF Add
<1>8. /\ Future'.streamers = StreamersAfter(Future.streamers, t)
      /\ Future'.view = Future.view /\ Future'.owed = Future.owed
  <2> HIDE DEF Task
  <2>. QED
    BY <1>1, <1>6, <1>7, FuturePosted
<1>9. PICK ss \in Contents : ss = Future.streamers
  BY <1>1, FutureType
<1>10. s \in DOMAIN ss
  BY <1>1, <1>9 DEF Agrees, NoStreamerLeaks
<1>11. ContentsIn(StreamersAfter(ss, t)) = [ContentsIn(ss) EXCEPT ![s] = @ \cup {e}]
  <2> HIDE DEF Task, Contents
  <2>. QED
    BY <1>6, <1>7, <1>10, ContentsChanged
<1>12. Service!Put(s, e)
  BY <1>7, <1>8, <1>9, <1>11 DEF Service!Put, ContentsIn
<1>. QED
  BY <1>3, <1>5, <1>12

\* Delete(s, id) removes an entity with that number: if there are no places,
\* there are no entities either.
LEMMA DeleteRemoves ==
  ASSUME HostInv, NEW s \in active_streamer_ids, NEW id \in 1 .. last_entity_id,
         Delete(s, id)
  PROVE  /\ s \in Streamer
         /\ (\E e \in Entity : Service!Remove(s, e.id)) \/ UNCHANGED Service!serviceVars
<1>1. Typed /\ MainTyped /\ Agrees
  BY Parts
<1>2. PICK t : t = [op |-> "Delete", streamer |-> s, id |-> id]
  OBVIOUS
<1>3. s \in Streamer /\ id \in EntityId
  BY <1>1, ActiveType, Bounds DEF MainTyped, EntityId
<1>4. t \in Task
  BY <1>2, <1>3 DEF Task
<1>5. /\ CallOnWorkerThread(t) /\ t.op = "Delete" /\ t.streamer = s /\ t.id = id
      /\ UNCHANGED <<completions, workerVars, answers>>
  BY <1>2 DEF Delete
<1>6. /\ Future'.streamers = StreamersAfter(Future.streamers, t)
      /\ Future'.view = Future.view /\ Future'.owed = Future.owed
  <2> HIDE DEF Task
  <2>. QED
    BY <1>1, <1>4, <1>5, FuturePosted
<1>7. PICK ss \in Contents : ss = Future.streamers
  BY <1>1, FutureType
<1>8. s \in DOMAIN ss
  BY <1>1, <1>7 DEF Agrees, NoStreamerLeaks
<1>9. ContentsIn(StreamersAfter(ss, t)) = [ContentsIn(ss) EXCEPT ![s] = {e \in @ : e.id # id}]
  <2> HIDE DEF Task, Contents
  <2>. QED
    BY <1>4, <1>5, <1>8, ContentsChanged
<1>10. CASE Place # {}
  <2>1. PICK place \in Place : TRUE
    BY <1>10
  <2>2. PICK e : e = [id |-> id, place |-> place]
    OBVIOUS
  <2>3. e \in Entity /\ e.id = id
    BY <1>3, <2>2 DEF Entity
  <2>4. Service!Remove(s, id)
    BY <1>5, <1>6, <1>7, <1>9 DEF Service!Remove, ContentsIn
  <2>. QED
    BY <1>3, <2>3, <2>4
<1>11. CASE Place = {}
  <2>1. Entity = {}
    BY <1>11 DEF Entity
  <2>2. ContentsOf(ss, s) = {}
    BY <2>1, ContentsType DEF ContentsOf
  <2>3. ContentsIn(StreamersAfter(ss, t)) = ContentsIn(ss)
    BY <1>3, <1>9, <2>2 DEF ContentsIn
  <2>. QED
    BY <1>3, <1>5, <1>6, <1>7, <2>3, ServiceStutter
<1>. QED
  BY <1>10, <1>11

\* An object that is collected drops what the streamer had.
LEMMA DeleteStreamerDrops ==
  ASSUME HostInv, NEW s \in active_streamer_ids, DeleteStreamer(s)
  PROVE  s \in Streamer /\ Service!Drop(s)
<1>1. Typed /\ MainTyped /\ Agrees
  BY Parts
<1>2. PICK t : t = [op |-> "DeleteAll", streamer |-> s]
  OBVIOUS
<1>3. s \in Streamer
  BY <1>1, ActiveType
<1>4. t \in Task
  BY <1>2, <1>3 DEF Task
<1>5. /\ CallOnWorkerThread(t) /\ t.op = "DeleteAll" /\ t.streamer = s
      /\ UNCHANGED <<completions, workerVars, answers>>
  BY <1>2 DEF DeleteStreamer
<1>6. /\ Future'.streamers = StreamersAfter(Future.streamers, t)
      /\ Future'.view = Future.view /\ Future'.owed = Future.owed
  <2> HIDE DEF Task
  <2>. QED
    BY <1>1, <1>4, <1>5, FuturePosted
<1>7. PICK ss \in Contents : ss = Future.streamers
  BY <1>1, FutureType
<1>8. s \in DOMAIN ss
  BY <1>1, <1>7 DEF Agrees, NoStreamerLeaks
<1>9. ContentsIn(StreamersAfter(ss, t)) = [ContentsIn(ss) EXCEPT ![s] = {}]
  <2> HIDE DEF Task, Contents
  <2>. QED
    BY <1>4, <1>5, <1>8, ContentsChanged
<1>. QED
  BY <1>3, <1>5, <1>6, <1>7, <1>9 DEF Service!Drop, ContentsIn

\* Stream(s) asks for a selection of the entities that it will find: the
\* number of the call follows on those that are given and owed.
LEMMA StreamAsks ==
  ASSUME HostInv, NEW s \in active_streamer_ids, Stream(s)
  PROVE  s \in Streamer /\ Service!Ask(s)
<1>1. Typed /\ MainTyped /\ Agrees
  BY Parts
<1>2. PICK t : t = [op |-> "Stream", streamer |-> s, call |-> requests + 1]
  OBVIOUS
<1>3. s \in Streamer
  BY <1>1, ActiveType
<1>4. requests + 1 \in 1 .. MaxRequests
  BY <1>1, Bounds DEF Stream, MainTyped
<1>5. t \in Task
  BY <1>2, <1>3, <1>4 DEF Task
<1>6. /\ CallOnWorkerThread(t) /\ t.op = "Stream" /\ t.streamer = s /\ t.call = requests + 1
      /\ UNCHANGED <<completions, workerVars, answers>>
  BY <1>2 DEF Stream
<1>7. /\ Future'.streamers = StreamersAfter(Future.streamers, t)
      /\ Future'.view = Future.view
      /\ Future'.owed =
           Append(Future.owed,
             [call |-> requests + 1,
              from |-> Selections(ContentsOf(Future.streamers, s), Future.view)])
  <2> HIDE DEF Task
  <2>. QED
    BY <1>1, <1>5, <1>6, FuturePosted
<1>8. StreamersAfter(Future.streamers, t) = Future.streamers
  BY <1>6 DEF StreamersAfter
<1>9. requests + 1 = Len(answers) + Len(Future.owed) + 1
  BY <1>1 DEF Agrees, CallsCounted
<1>10. ContentsIn(Future.streamers)[s] = ContentsOf(Future.streamers, s)
  BY <1>3 DEF ContentsIn
<1>11. Service!Ask(s)
  BY <1>6, <1>7, <1>8, <1>9, <1>10 DEF Service!Ask, ContentsIn
<1>. QED
  BY <1>3, <1>11

\* An update is a look at the players.
LEMMA OnFrameLooks ==
  ASSUME HostInv, OnFrame
  PROVE  Service!Look \/ UNCHANGED Service!serviceVars
<1>1. Typed /\ MainTyped
  BY Parts
<1>2. UNCHANGED <<completions, workerVars, answers>>
  BY DEF OnFrame
<1>3. CASE UNCHANGED tasks
  <2>1. Future' = Future
    BY <1>1, <1>2, <1>3, FutureKept
  <2>. QED
    BY <1>2, <2>1, ServiceStutter
<1>4. CASE ~UNCHANGED tasks
  <2>1. PICK view \in [tracked_players -> Place \cup {"inside"}] :
          CallOnWorkerThread([op |-> "Update", updates |-> view])
    BY <1>4 DEF OnFrame
  <2>2. view \in View
    BY <1>1 DEF View, MainTyped
  <2>3. PICK t : t = [op |-> "Update", updates |-> view]
    OBVIOUS
  <2>4. t \in Task
    BY <2>2, <2>3 DEF Task
  <2>5. t.op = "Update" /\ t.updates = view /\ CallOnWorkerThread(t)
    BY <2>1, <2>3
  <2>6. /\ Future'.streamers = StreamersAfter(Future.streamers, t)
        /\ Future'.view = view /\ Future'.owed = Future.owed
    <3> HIDE DEF Task
    <3>. QED
      BY <1>1, <1>2, <2>4, <2>5, FuturePosted
  <2>7. StreamersAfter(Future.streamers, t) = Future.streamers
    BY <2>5 DEF StreamersAfter
  <2>8. Service!Look
    <3> HIDE DEF View
    <3>. QED
      BY <1>2, <2>2, <2>6, <2>7 DEF Service!Look
  <2>. QED
    BY <2>8
<1>. QED
  BY <1>3, <1>4

\* A frame gives an answer, which has been decided.
LEMMA RunOneGives ==
  ASSUME HostInv, RunOne
  PROVE  Service!Give \/ UNCHANGED Service!serviceVars
<1>1. Typed
  BY Parts
<1>2. UNCHANGED <<tasks, workerVars>>
  BY DEF RunOne
<1>3. CASE completions # <<>>
  <2>1. answers' = Append(answers, Head(completions)) /\ completions' = Tail(completions)
    BY <1>3 DEF RunOne
  <2>2. /\ Future.owed # <<>> /\ Head(Future.owed) = Decided(Head(completions))
        /\ Future' = State(Future.streamers, Future.view, Tail(Future.owed))
    BY <1>1, <1>2, <1>3, <2>1, FutureGiven
  <2>3. Head(completions) \in Answer
    <3>1. completions \in Seq(Answer)
      BY <1>1 DEF Typed
    <3> HIDE DEF Answer
    <3>. QED
      BY <1>3, <3>1, PopType
  <2>4. PICK a \in Answer : a = Head(completions)
    BY <2>3
  <2>5. a = [call |-> a.call, answer |-> a.answer]
    BY DEF Answer
  <2>6. Decided(a).call = a.call /\ Decided(a).from = {a.answer}
    BY DEF Decided
  <2>7. answers' = Append(answers, [call |-> Head(Future.owed).call, answer |-> a.answer])
    BY <2>1, <2>2, <2>4, <2>5, <2>6
  <2>8. a.answer \in Head(Future.owed).from
    BY <2>2, <2>4, <2>6
  <2>9. /\ Future'.streamers = Future.streamers /\ Future'.view = Future.view
        /\ Future'.owed = Tail(Future.owed)
    BY <2>2 DEF State
  <2>10. Service!Give
    BY <2>2, <2>7, <2>8, <2>9 DEF Service!Give
  <2>. QED
    BY <2>10
<1>4. CASE completions = <<>>
  <2>1. UNCHANGED <<answers, completions>>
    BY <1>4 DEF RunOne
  <2>2. Future' = Future
    BY <1>1, <1>2, <2>1, FutureKept
  <2>. QED
    BY <2>1, <2>2, ServiceStutter
<1>. QED
  BY <1>3, <1>4

\* The background thread decides about a call, or does what the service has
\* long done.
LEMMA WorkerDecides ==
  ASSUME HostInv, WorkerNext
  PROVE  Service!Decide \/ UNCHANGED Service!serviceVars
<1>1. Typed
  BY Parts
<1>2. UNCHANGED answers
  BY DEF WorkerNext, RunChange, RunUpdate, RunStream
<1>3. CASE RunChange \/ RunUpdate
  <2>1. Future' = Future
    BY <1>1, <1>3, FutureRun
  <2>. QED
    BY <1>2, <2>1, ServiceStutter
<1>4. CASE RunStream
  <2>1. /\ Future'.streamers = Future.streamers /\ Future'.view = Future.view
        /\ \E i \in 1 .. Len(Future.owed) : \E answer \in Future.owed[i].from :
             Future'.owed = [Future.owed EXCEPT ![i].from = {answer}]
    BY <1>1, <1>4, FutureDecided
  <2>. QED
    BY <1>2, <2>1 DEF Service!Decide
<1>. QED
  BY <1>3, <1>4 DEF WorkerNext

\* Every step is one of the service, or none.
LEMMA ServiceStep ==
  ASSUME HostInv, [Next]_vars
  PROVE  [Service!ServiceNext]_(Service!serviceVars)
<1>1. CASE CreateStreamer
  <2>1. Typed /\ MainTyped
    BY Parts
  <2>2. PICK t : t = [op |-> "Initialize", streamer |-> last_streamer_id + 1]
    OBVIOUS
  <2>3. last_streamer_id + 1 \in Streamer
    BY <1>1, <2>1, Bounds DEF CreateStreamer, MainTyped, Streamer
  <2>4. t \in Task
    BY <2>2, <2>3 DEF Task
  <2>5. /\ CallOnWorkerThread(t) /\ t.op = "Initialize"
        /\ UNCHANGED <<completions, workerVars, answers>>
    BY <1>1, <2>2 DEF CreateStreamer
  <2>6. UNCHANGED Service!serviceVars
    <3> HIDE DEF Task
    <3>. QED
      BY <2>4, <2>5, PostedUnseen
  <2>. QED
    BY <2>6
<1>2. ASSUME NEW s \in active_streamer_ids, Optimise(s)
      PROVE  UNCHANGED Service!serviceVars
  <2>1. PICK t : t = [op |-> "Optimise", streamer |-> s]
    OBVIOUS
  <2>2. s \in Streamer
    BY Parts, ActiveType
  <2>3. t \in Task
    BY <2>1, <2>2 DEF Task
  <2>4. /\ CallOnWorkerThread(t) /\ t.op = "Optimise"
        /\ UNCHANGED <<completions, workerVars, answers>>
    BY <1>2, <2>1 DEF Optimise
  <2> HIDE DEF Task
  <2>. QED
    BY <2>3, <2>4, PostedUnseen
<1>3. CASE \/ \E tracked \in SUBSET Player : SetTrackedPlayers(tracked)
           \/ TimePasses \/ UNCHANGED vars
  <2>1. UNCHANGED <<tasks, completions, workerVars, answers>>
    BY <1>3 DEF SetTrackedPlayers, TimePasses, vars
  <2>2. Future' = Future
    BY <2>1, Parts, FutureKept
  <2>. QED
    BY <2>1, <2>2, ServiceStutter
<1>4. ASSUME NEW s \in active_streamer_ids,
             \/ \E place \in Place : Add(s, place)
             \/ Stream(s)
             \/ \E id \in 1 .. last_entity_id : Delete(s, id)
             \/ DeleteStreamer(s)
      PROVE  Service!ServiceNext \/ UNCHANGED Service!serviceVars
  <2>1. CASE \E place \in Place : Add(s, place)
    BY <2>1, AddPuts DEF Service!ServiceNext
  <2>2. CASE Stream(s)
    BY <2>2, StreamAsks DEF Service!ServiceNext
  <2>3. CASE \E id \in 1 .. last_entity_id : Delete(s, id)
    BY <2>3, DeleteRemoves DEF Service!ServiceNext
  <2>4. CASE DeleteStreamer(s)
    BY <2>4, DeleteStreamerDrops DEF Service!ServiceNext
  <2>. QED
    BY <1>4, <2>1, <2>2, <2>3, <2>4
<1>5. CASE FrameNext
  BY <1>5, RunOneGives, OnFrameLooks DEF FrameNext, Service!ServiceNext
<1>6. CASE WorkerNext
  BY <1>6, WorkerDecides DEF Service!ServiceNext
<1>. QED
  BY <1>1, <1>2, <1>3, <1>4, <1>5, <1>6 DEF Next, ScriptNext

\* The queues and the background thread are invisible: calls are answered in
\* order, each with a selection of what there was when it was made.
THEOREM HostImplements == Spec => ImplementsService
<1>1. Init => Service!ServiceInit
  <2> SUFFICES ASSUME Init PROVE Service!ServiceInit
    OBVIOUS
  <2>1. Future = Present
    BY AfterNone DEF Future, Init
  <2>2. Typed
    BY HostInit0, Parts
  <2>3. Present = State(streamers, latest_update, Owing(completions))
    BY <2>2, FutureType
  <2>4. Owing(completions) = <<>>
    BY DEF Owing, Init
  <2>5. Future.streamers = [s \in {} |-> {}] /\ Future.owed = <<>>
    BY <2>1, <2>3, <2>4 DEF State, Init
  <2>6. \A s \in Streamer : ContentsOf(Future.streamers, s) = {}
    BY <2>5 DEF ContentsOf
  <2>. QED
    BY <2>5, <2>6 DEF Init, HostInit, Service!ServiceInit
<1>2. HostInv /\ [Next]_vars => [Service!ServiceNext]_(Service!serviceVars)
  BY ServiceStep
<1>. QED
  BY <1>1, <1>2, HostInvariant, PTL DEF Spec, ImplementsService, Service!ServiceSpec

-----------------------------------------------------------------------------

(***************************************************************************)
(* The inductive invariant.  What the players' iterators have passed is    *)
(* selected, and whoever is without an iterator has had everything.        *)
(***************************************************************************)
\* What is taken and what is not.
Exhausted(p) == First(p, Len(Query(p))) \subseteq entities

TakenInv ==
  /\ IsFiniteSet(entities) /\ entities \subseteq Reachable
  /\ \A p \in Outside : position[p] <= Len(Query(p)) /\ First(p, position[p]) \subseteq entities
  /\ IsInjective(iterators)
  /\ \A p \in Outside \ Range(iterators) : Full(entities) \/ Exhausted(p)
  /\ pc = "done" => Full(entities) \/ iterators = <<>>

Turn(i, round) ==
  IF pc = "batch" /\ i = iter THEN round + batch_size
  ELSE IF pc \in {"for", "batch"} /\ i < iter THEN round + max_per_player
  ELSE round

RoundInv ==
  ~Full(entities) =>
    \E round \in Nat : \A i \in 1 .. Len(iterators) :
      position[iterators[i]] = Turn(i, round)

Served == Cardinality(Outside) - Len(iterators) + iter - 1

Waiting(p) == \E i \in 1 .. Len(iterators) : i >= iter /\ iterators[i] = p

NotBegun ==
  /\ pc = "while" /\ entities = {} /\ Len(iterators) = Cardinality(Outside)
  /\ \A p \in Outside : position[p] = 0 /\ \E i \in 1 .. Len(iterators) : iterators[i] = p

FirstRound ==
  /\ pc \in {"for", "batch"} /\ ~Full(entities) /\ max_per_player = Share
  /\ Served \in Nat
  /\ Cardinality(entities) <= Served * Share + (IF pc = "batch" THEN batch_size ELSE 0)
  /\ \A p \in Outside : ~Waiting(p) => First(p, Share) \subseteq entities
  /\ \A i \in 1 .. Len(iterators) :
        i >= iter => position[iterators[i]] = IF pc = "batch" /\ i = iter THEN batch_size ELSE 0

AllServed == \A p \in Outside : First(p, Share) \subseteq entities

SharesInv == Share >= 2 => NotBegun \/ FirstRound \/ AllServed

SelectionInv == SelectInv /\ TakenInv /\ RoundInv /\ SharesInv

(***************************************************************************)
(* Numbers, sequences and what a query returns.                            *)
(***************************************************************************)

\* A player's share; all of them together are within the limit.
LEMMA ShareType ==
  ASSUME SelectTypeOK
  PROVE  /\ max_visible \in Nat /\ players \in Nat \ {0}
         /\ Share \in Nat /\ players * Share <= max_visible
<1>1. max_visible \in Nat /\ players \in Nat \ {0}
  BY SelectAssumption DEF SelectTypeOK
<1>2. \A m \in Nat : \A n \in Nat \ {0} : m \div n \in Nat /\ n * (m \div n) <= m
  OBVIOUS
<1>. QED
  BY <1>1, <1>2 DEF Share

\* More of something.
LEMMA Products ==
  ASSUME NEW a \in Nat, NEW b \in Nat, a <= b, NEW c \in Nat
  PROVE  a * c \in Nat /\ a * c <= b * c /\ (a + 1) * c = a * c + c
  OBVIOUS

\* An element of a sequence less.
LEMMA RemovePlaces ==
  ASSUME NEW S, NEW q \in Seq(S), NEW i \in 1 .. Len(q)
  PROVE  /\ RemoveAt(q, i) \in Seq(S) /\ Len(RemoveAt(q, i)) = Len(q) - 1
         /\ \A k \in 1 .. Len(q) - 1 :
              RemoveAt(q, i)[k] = IF k < i THEN q[k] ELSE q[k + 1]
<1>1. PICK a \in Seq(S) : a = SubSeq(q, 1, i - 1)
  <2>1. SubSeq(q, 1, i - 1) \in Seq(S)
    OBVIOUS
  <2>. QED
    BY <2>1
<1>2. PICK b \in Seq(S) : b = SubSeq(q, i + 1, Len(q))
  <2>1. SubSeq(q, i + 1, Len(q)) \in Seq(S)
    OBVIOUS
  <2>. QED
    BY <2>1
<1>3. a \in Seq(S) /\ Len(a) = i - 1 /\ \A k \in 1 .. i - 1 : a[k] = q[k]
  BY <1>1
<1>4. b \in Seq(S) /\ Len(b) = Len(q) - i /\ \A k \in 1 .. Len(q) - i : b[k] = q[i + k]
  BY <1>2
<1>5. PICK r : r = a \o b
  OBVIOUS
<1>6. /\ r \in Seq(S) /\ Len(r) = Len(a) + Len(b)
      /\ \A k \in 1 .. Len(a) : r[k] = a[k]
      /\ \A k \in 1 .. Len(b) : r[Len(a) + k] = b[k]
  <2>1. /\ a \o b \in Seq(S) /\ Len(a \o b) = Len(a) + Len(b)
        /\ \A k \in 1 .. Len(a) : (a \o b)[k] = a[k]
        /\ \A k \in 1 .. Len(b) : (a \o b)[Len(a) + k] = b[k]
    BY ConcatPlaces
  <2>. QED
    BY <1>5, <2>1
<1>7. Len(q) \in Nat
  BY SeqType
<1>8. ASSUME NEW k \in 1 .. Len(q) - 1
      PROVE  r[k] = IF k < i THEN q[k] ELSE q[k + 1]
  <2>1. CASE k < i
    <3>1. k \in 1 .. i - 1
      BY <2>1
    <3>. QED
      BY <1>3, <1>6, <2>1, <3>1
  <2>2. CASE k >= i
    <3>1. PICK n \in 1 .. Len(q) - i : n = k - (i - 1)
      BY <1>7, <2>2
    <3>2. r[(i - 1) + n] = b[n] /\ b[n] = q[i + n]
      BY <1>3, <1>4, <1>6
    <3>3. (i - 1) + n = k /\ i + n = k + 1
      BY <3>1
    <3>. QED
      BY <2>2, <3>2, <3>3
  <2>. QED
    BY <1>7, <2>1, <2>2
<1>9. RemoveAt(q, i) = r
  BY <1>1, <1>2, <1>5 DEF RemoveAt
<1>10. Len(r) = Len(q) - 1
  BY <1>3, <1>4, <1>6, <1>7
<1>. QED
  BY <1>6, <1>8, <1>9, <1>10

\* What surrounds a player is a sequence of entities.
LEMMA QueryType ==
  ASSUME SelectTypeOK, NEW p \in Outside
  PROVE  /\ Len(Query(p)) \in Nat
         /\ \A i \in 1 .. Len(Query(p)) : Query(p)[i] \in Range(in_range[p])
         /\ in_range[p] \in Seq(Range(in_range[p]))
         /\ Range(in_range[p]) \subseteq Candidate
         /\ Len(in_range[p]) <= QueryLimit => Query(p) = in_range[p]
<1>1. PICK seq : seq = in_range[p]
  OBVIOUS
<1>2. seq \in Surroundings
  BY <1>1 DEF SelectTypeOK
<1>3. PICK R : R = Range(seq)
  OBVIOUS
<1>4. seq \in Seq(R)
  BY <1>2, <1>3, SelectAssumption
<1>5. R \subseteq Candidate
  BY <1>2, <1>3 DEF Candidate
<1>6. QueryLimit \in Nat
  BY ShareType, SelectAssumption DEF QueryLimit, Larger
<1>7. PICK n \in Nat : /\ n = Smaller(QueryLimit, Len(seq)) /\ n <= Len(seq)
                       /\ Len(seq) <= QueryLimit => n = Len(seq)
  <2>1. Len(seq) \in Nat
    BY <1>4, SeqType
  <2>. QED
    BY <1>6, <2>1 DEF Smaller
<1>8. Query(p) = SubSeq(seq, 1, n)
  BY <1>1, <1>7 DEF Query
<1>9. /\ Len(SubSeq(seq, 1, n)) = n /\ \A i \in 1 .. n : SubSeq(seq, 1, n)[i] \in R
      /\ n = Len(seq) => SubSeq(seq, 1, n) = seq
  BY <1>4, <1>7
<1>. QED
  BY <1>1, <1>3, <1>4, <1>5, <1>7, <1>8, <1>9

\* The entities nearest to a player: one more, and all of them.
LEMMA FirstEntities ==
  ASSUME NEW p, Len(Query(p)) \in Nat
  PROVE  /\ \A n \in Nat : n < Len(Query(p)) =>
              First(p, n + 1) = First(p, n) \cup {Query(p)[n + 1]}
         /\ \A m, n \in Nat : m <= n => First(p, m) \subseteq First(p, n)
         /\ \A n \in Nat : First(p, n) \subseteq First(p, Len(Query(p)))
         /\ First(p, 0) = {}
<1>1. PICK q : q = Query(p)
  OBVIOUS
<1>2. PICK l \in Nat : l = Len(q)
  BY <1>1
<1>3. \A n : First(p, n) = {q[i] : i \in 1 .. (IF n < l THEN n ELSE l)}
  BY <1>1, <1>2 DEF First, Smaller
<1>4. ASSUME NEW n \in Nat, n < l PROVE First(p, n + 1) = First(p, n) \cup {q[n + 1]}
  <2>1. First(p, n) = {q[i] : i \in 1 .. n}
    BY <1>3, <1>4
  <2>2. First(p, n + 1) = {q[i] : i \in 1 .. n + 1}
    <3>1. (IF n + 1 < l THEN n + 1 ELSE l) = n + 1
      BY <1>4
    <3>. QED
      BY <1>3, <3>1
  <2>. QED
    BY <2>1, <2>2
<1>5. ASSUME NEW m \in Nat, NEW n \in Nat, m <= n PROVE First(p, m) \subseteq First(p, n)
  <2>1. 1 .. (IF m < l THEN m ELSE l) \subseteq 1 .. (IF n < l THEN n ELSE l)
    BY <1>5
  <2>. QED
    BY <1>3, <2>1
<1>6. ASSUME NEW n \in Nat PROVE First(p, n) \subseteq First(p, l)
  <2>1. 1 .. (IF n < l THEN n ELSE l) \subseteq 1 .. (IF l < l THEN l ELSE l)
    OBVIOUS
  <2>. QED
    BY <1>3, <2>1
<1>7. First(p, 0) = {}
  <2>1. (IF 0 < l THEN 0 ELSE l) = 0
    OBVIOUS
  <2>. QED
    BY <1>3, <2>1
<1>. QED
  BY <1>1, <1>2, <1>4, <1>5, <1>6, <1>7

(***************************************************************************)
(* What the steps do.                                                      *)
(***************************************************************************)

\* The inputs stay what they are, and what is told from them too.
LEMMA InputsKept ==
  ASSUME UNCHANGED inputs
  PROVE  /\ Outside' = Outside /\ PlayerIndex' = PlayerIndex /\ Share' = Share
         /\ Reachable' = Reachable /\ max_visible' = max_visible
         /\ \A p : Query(p)' = Query(p)
         /\ \A p, n : First(p, n)' = First(p, n)
<1>1. UNCHANGED <<max_visible, players, in_range>>
  BY DEF inputs
<1>2. /\ Outside' = Outside /\ PlayerIndex' = PlayerIndex /\ Share' = Share
  BY <1>1 DEF Outside, PlayerIndex, Share
<1>3. Reachable' = Reachable
  BY <1>1, <1>2 DEF Reachable
<1>4. \A p : Query(p)' = Query(p)
  BY <1>1, <1>2 DEF Query, QueryLimit
<1>5. \A p, n : First(p, n)' = First(p, n)
  BY <1>4 DEF First
<1>. QED
  BY <1>1, <1>2, <1>3, <1>4, <1>5

\* The size of a selection.
LEMMA EntitiesCount ==
  ASSUME IsFiniteSet(entities), AtMostMaxVisible, SelectTypeOK
  PROVE  /\ Cardinality(entities) \in Nat /\ Cardinality(entities) <= max_visible
         /\ Full(entities) <=> Cardinality(entities) >= max_visible
<1>1. Cardinality(entities) \in Nat
  BY FS_CardinalityType
<1>. QED
  BY <1>1, ShareType DEF AtMostMaxVisible, Full

\* An iterator selects the entity it is at.
LEMMA Taken ==
  ASSUME SelectInv, TakenInv, Take, NEW p, p = iterators[iter],
         NEW e, e = Query(p)[position[p] + 1]
  PROVE  /\ p \in Outside /\ iter \in 1 .. Len(iterators) /\ position[p] \in Nat
         /\ position[p] < Len(Query(p)) /\ batch_size < max_per_player
         /\ entities' = entities \cup {e} /\ e \in Reachable /\ e \in Candidate
         /\ IsFiniteSet(entities') /\ Cardinality(entities') \in Nat
         /\ Cardinality(entities') <= Cardinality(entities) + 1
         /\ Cardinality(entities) < max_visible
         /\ First(p, position[p] + 1) \subseteq entities'
<1>1. /\ SelectTypeOK /\ AtMostMaxVisible /\ pc = "batch" /\ ~EndsTurn
      /\ entities' = entities \cup {e}
  BY DEF SelectInv, Take
<1>2. iter \in 1 .. Len(iterators) /\ iterators \in Seq(Outside) /\ batch_size <= max_per_player
  <2>1. Len(iterators) \in Nat
    BY <1>1, SeqType DEF SelectTypeOK
  <2>. QED
    BY <1>1, <2>1 DEF SelectTypeOK
<1>3. p \in Outside
  BY <1>2, SeqType
<1>4. position[p] \in Nat /\ position[p] <= Len(Query(p)) /\ First(p, position[p]) \subseteq entities
  BY <1>1, <1>3 DEF SelectTypeOK, TakenInv
<1>5. position[p] # Len(Query(p)) /\ batch_size # max_per_player /\ ~Full(entities)
  BY <1>1 DEF EndsTurn
<1>6. Len(Query(p)) \in Nat /\ batch_size \in Nat /\ max_per_player \in Nat
  BY <1>1, <1>3, QueryType DEF SelectTypeOK
<1>7. position[p] < Len(Query(p)) /\ batch_size < max_per_player
  BY <1>2, <1>4, <1>5, <1>6
<1>8. e \in Range(in_range[p])
  <2>1. position[p] + 1 \in 1 .. Len(Query(p))
    BY <1>4, <1>6, <1>7
  <2>. QED
    BY <1>1, <1>3, <2>1, QueryType
<1>9. e \in Reachable /\ e \in Candidate
  BY <1>1, <1>3, <1>8, QueryType DEF Reachable
<1>10. IsFiniteSet(entities)
  BY DEF TakenInv
<1>11. /\ Cardinality(entities) \in Nat /\ Cardinality(entities) < max_visible
       /\ max_visible \in Nat
  BY <1>1, <1>5, <1>10, EntitiesCount, ShareType
<1>12. /\ IsFiniteSet(entities') /\ Cardinality(entities') \in Nat
       /\ Cardinality(entities') <= Cardinality(entities) + 1
  <2>1. /\ IsFiniteSet(entities \cup {e})
        /\ Cardinality(entities \cup {e}) =
             IF e \in entities THEN Cardinality(entities) ELSE Cardinality(entities) + 1
    BY <1>10, FS_AddElement
  <2>. QED
    BY <1>1, <1>11, <2>1
<1>13. First(p, position[p] + 1) = First(p, position[p]) \cup {e}
  BY <1>4, <1>6, <1>7, FirstEntities
<1>. QED
  BY <1>1, <1>2, <1>3, <1>4, <1>7, <1>9, <1>11, <1>12, <1>13

\* The selection is never larger than the limit, and everything has its type.
LEMMA SelectStep ==
  ASSUME SelectInv, TakenInv, [SelectNext]_selectVars
  PROVE  SelectInv'
<1>1. SelectTypeOK /\ AtMostMaxVisible /\ IsFiniteSet(entities)
  BY DEF SelectInv, TakenInv
<1>2. UNCHANGED inputs
  BY DEF SelectNext, NextRound, NextTurn, Take, EndTurn, Returned, selectVars
<1>3. /\ Outside' = Outside /\ PlayerIndex' = PlayerIndex /\ max_visible' = max_visible
      /\ UNCHANGED <<max_visible, players, in_range>>
  BY <1>2, InputsKept DEF inputs
<1>4. Len(iterators) \in Nat /\ iterators \in Seq(Outside)
  BY <1>1, SeqType DEF SelectTypeOK
<1>5. CASE NextRound
  <2>1. max_per_player' \in Nat
    <3>1. Cardinality(entities) \in Nat /\ max_visible \in Nat /\ players \in Nat \ {0}
      BY <1>1, EntitiesCount, ShareType
    <3>2. \A free \in Nat : \A n \in Nat \ {0} : Larger(free \div n, 2) \in Nat
      BY DEF Larger
    <3>3. CASE Cardinality(entities) < max_visible
      <4>1. max_visible - Cardinality(entities) \in Nat
        BY <3>1, <3>3
      <4>2. NewBatchSize(max_visible - Cardinality(entities)) \in Nat
        BY <3>1, <3>2, <4>1 DEF NewBatchSize
      <4>. QED
        BY <1>1, <1>5, <4>2 DEF NextRound, SelectTypeOK
    <3>4. CASE ~(Cardinality(entities) < max_visible)
      BY <1>1, <1>5, <3>4 DEF NextRound, SelectTypeOK
    <3>. QED
      BY <3>3, <3>4
  <2>2. /\ pc' \in {"for", "done"} /\ iter' \in Nat \ {0}
        /\ UNCHANGED <<position, iterators, batch_size, entities>>
    BY <1>1, <1>5 DEF NextRound, SelectTypeOK
  <2>. QED
    BY <1>1, <1>3, <2>1, <2>2 DEF SelectInv, SelectTypeOK, AtMostMaxVisible
<1>6. CASE NextTurn
  <2>1. /\ UNCHANGED <<position, iterators, iter, max_per_player, entities>>
        /\ \/ pc' = "while" /\ UNCHANGED batch_size
           \/ pc' = "batch" /\ iter <= Len(iterators) /\ batch_size' = 0
    BY <1>6 DEF NextTurn
  <2>. QED
    BY <1>1, <1>3, <2>1 DEF SelectInv, SelectTypeOK, AtMostMaxVisible
<1>7. CASE Take
  <2>1. PICK p : p = iterators[iter]
    OBVIOUS
  <2>2. PICK e : e = Query(p)[position[p] + 1]
    OBVIOUS
  <2>3. /\ p \in Outside /\ batch_size < max_per_player
        /\ entities' = entities \cup {e} /\ e \in Candidate
        /\ Cardinality(entities') <= Cardinality(entities) + 1
        /\ Cardinality(entities) < max_visible
    BY <1>7, <2>1, <2>2, Taken
  <2>4. /\ position' \in [Outside -> Nat] /\ batch_size' \in Nat
        /\ batch_size' <= max_per_player
    <3>1. \/ UNCHANGED <<position, batch_size>>
          \/ /\ position' = [position EXCEPT ![p] = @ + 1]
             /\ batch_size' = batch_size + 1
      BY <1>7, <2>1 DEF Take
    <3>2. /\ position \in [Outside -> Nat] /\ batch_size \in Nat
          /\ max_per_player \in Nat
      BY <1>1 DEF SelectTypeOK
    <3>. QED
      BY <2>3, <3>1, <3>2
  <2>5. entities' \in SUBSET Candidate
    BY <1>1, <2>3 DEF SelectTypeOK
  <2>6. AtMostMaxVisible'
    <3>1. Cardinality(entities) \in Nat /\ max_visible \in Nat /\ Cardinality(entities') \in Nat
      BY <1>1, <1>7, <2>1, <2>2, Taken, EntitiesCount, ShareType
    <3>. QED
      BY <1>3, <2>3, <3>1 DEF AtMostMaxVisible
  <2>7. UNCHANGED <<pc, iterators, iter, max_per_player>>
    BY <1>7 DEF Take
  <2>. QED
    BY <1>1, <1>3, <2>4, <2>5, <2>6, <2>7 DEF SelectInv, SelectTypeOK
<1>8. CASE EndTurn
  <2>1. /\ UNCHANGED <<position, max_per_player, batch_size, entities>> /\ pc' = "for"
        /\ iter \in 1 .. Len(iterators)
    BY <1>1, <1>4, <1>8 DEF EndTurn, SelectTypeOK
  <2>2. RemoveAt(iterators, iter) \in Seq(Outside)
    BY <1>4, <2>1, RemovePlaces
  <2>3. iterators' \in Seq(Outside) /\ iter' \in Nat \ {0}
    BY <1>1, <1>4, <1>8, <2>2 DEF EndTurn, SelectTypeOK
  <2>. QED
    BY <1>1, <1>3, <2>1, <2>3 DEF SelectInv, SelectTypeOK, AtMostMaxVisible
<1>9. CASE UNCHANGED selectVars
  BY <1>1, <1>3, <1>9 DEF SelectInv, SelectTypeOK, AtMostMaxVisible, selectVars
<1>. QED
  BY <1>5, <1>6, <1>7, <1>8, <1>9 DEF SelectNext, Returned

\* An element less keeps the others, and keeps them distinct.
LEMMA RemoveRange ==
  ASSUME NEW S, NEW q \in Seq(S), NEW i \in 1 .. Len(q), IsInjective(q)
  PROVE  /\ IsInjective(RemoveAt(q, i))
         /\ Range(q) \subseteq Range(RemoveAt(q, i)) \cup {q[i]}
<1>1. PICK r \in Seq(S) : /\ r = RemoveAt(q, i) /\ Len(r) = Len(q) - 1
                          /\ \A k \in 1 .. Len(q) - 1 :
                               r[k] = IF k < i THEN q[k] ELSE q[k + 1]
  BY RemovePlaces
<1>2. /\ Len(q) \in Nat /\ DOMAIN q = 1 .. Len(q) /\ DOMAIN r = 1 .. Len(q) - 1
  BY <1>1, SeqType
<1>3. \A a, b \in 1 .. Len(q) : q[a] = q[b] => a = b
  BY <1>2 DEF IsInjective
<1>4. ASSUME NEW a \in 1 .. Len(q) - 1, NEW b \in 1 .. Len(q) - 1, r[a] = r[b]
      PROVE  a = b
  <2>1. PICK c \in 1 .. Len(q) : c = (IF a < i THEN a ELSE a + 1) /\ r[a] = q[c]
    BY <1>1, <1>2
  <2>2. PICK d \in 1 .. Len(q) : d = (IF b < i THEN b ELSE b + 1) /\ r[b] = q[d]
    BY <1>1, <1>2
  <2>3. c = d
    BY <1>3, <1>4, <2>1, <2>2
  <2>. QED
    BY <1>2, <2>1, <2>2, <2>3
<1>5. ASSUME NEW a \in 1 .. Len(q), a # i
      PROVE  \E k \in 1 .. Len(q) - 1 : r[k] = q[a]
  <2>1. CASE a < i
    <3>1. a \in 1 .. Len(q) - 1
      BY <1>2, <2>1
    <3>. QED
      BY <1>1, <2>1, <3>1
  <2>2. CASE a > i
    <3>1. PICK k \in 1 .. Len(q) - 1 : k = a - 1 /\ ~(k < i) /\ k + 1 = a
      BY <1>2, <2>2
    <3>. QED
      BY <1>1, <3>1
  <2>. QED
    BY <1>5, <2>1, <2>2
<1>6. IsInjective(r)
  BY <1>2, <1>4 DEF IsInjective
<1>7. Range(q) \subseteq Range(r) \cup {q[i]}
  BY <1>2, <1>5 DEF Range
<1>. QED
  BY <1>1, <1>6, <1>7

\* Nothing that is selected is taken back.
LEMMA EntitiesGrow ==
  ASSUME [SelectNext]_selectVars
  PROVE  UNCHANGED inputs /\ entities \subseteq entities'
<1>1. UNCHANGED inputs
  BY DEF SelectNext, NextRound, NextTurn, Take, EndTurn, Returned, selectVars
<1>2. entities \subseteq entities'
  BY DEF SelectNext, NextRound, NextTurn, Take, EndTurn, Returned, selectVars
<1>. QED
  BY <1>1, <1>2

\* What is left without an iterator has had everything.
LEMMA TakenStep ==
  ASSUME SelectInv, TakenInv, [SelectNext]_selectVars
  PROVE  TakenInv'
<1>1. SelectTypeOK /\ AtMostMaxVisible /\ IsFiniteSet(entities) /\ entities \subseteq Reachable
  BY DEF SelectInv, TakenInv
<1>2. /\ Outside' = Outside /\ Reachable' = Reachable /\ max_visible' = max_visible
      /\ \A p : Query(p)' = Query(p)
      /\ \A p, n : First(p, n)' = First(p, n)
      /\ entities \subseteq entities'
  BY EntitiesGrow, InputsKept
<1>3. iterators \in Seq(Outside) /\ Len(iterators) \in Nat
  BY <1>1, SeqType DEF SelectTypeOK
<1>4. \A p : Len(Query(p))' = Len(Query(p))
  BY <1>2
<1>5. ASSUME NEW p \in Outside, Exhausted(p) PROVE Exhausted(p)'
  <2>1. Exhausted(p)' <=> First(p, Len(Query(p))) \subseteq entities'
    BY <1>2, <1>4 DEF Exhausted, First
  <2>. QED
    BY <1>2, <1>5, <2>1 DEF Exhausted
<1>6. Full(entities)' <=> Cardinality(entities') = max_visible
  BY <1>2 DEF Full
<1>7. CASE UNCHANGED <<position, iterators, entities>> /\ (pc' = "done" => Full(entities) \/ iterators = <<>>)
  <2>1. Full(entities)' <=> Full(entities)
    BY <1>6, <1>7 DEF Full
  <2>2. \A p \in Outside : position'[p] <= Len(Query(p)) /\ First(p, position'[p]) \subseteq entities'
    BY <1>7 DEF TakenInv
  <2>3. \A p \in Outside \ Range(iterators) : Full(entities)' \/ Exhausted(p)'
    BY <1>5, <2>1 DEF TakenInv
  <2>. QED
    BY <1>1, <1>2, <1>4, <1>7, <2>1, <2>2, <2>3 DEF TakenInv
<1>8. CASE NextRound
  <2>1. Cardinality(entities) >= max_visible => Full(entities)
    BY <1>1, EntitiesCount
  <2>. QED
    BY <1>7, <1>8, <2>1 DEF NextRound
<1>9. CASE NextTurn
  BY <1>7, <1>9 DEF NextTurn
<1>10. CASE Take
  <2>1. PICK p : p = iterators[iter]
    OBVIOUS
  <2>2. PICK e : e = Query(p)[position[p] + 1]
    OBVIOUS
  <2>3. /\ p \in Outside /\ position[p] \in Nat /\ position[p] < Len(Query(p))
        /\ entities' = entities \cup {e} /\ e \in Reachable
        /\ IsFiniteSet(entities') /\ First(p, position[p] + 1) \subseteq entities'
    BY <1>10, <2>1, <2>2, Taken
  <2>4. /\ pc' = "batch" /\ UNCHANGED iterators /\ ~Full(entities)
        /\ position' = position \/ position' = [position EXCEPT ![p] = @ + 1]
    BY <1>10, <2>1 DEF Take, EndsTurn
  <2>5. position \in [Outside -> Nat] /\ Len(Query(p)) \in Nat
    BY <1>1, <2>3, QueryType DEF SelectTypeOK
  <2>6. ASSUME NEW r \in Outside
        PROVE  position'[r] <= Len(Query(r)) /\ First(r, position'[r]) \subseteq entities'
    <3>1. position[r] <= Len(Query(r)) /\ First(r, position[r]) \subseteq entities'
      BY <1>2 DEF TakenInv
    <3>2. position'[r] = position[r] \/ (r = p /\ position'[r] = position[p] + 1)
      BY <2>3, <2>4, <2>5
    <3>3. position[p] + 1 <= Len(Query(p))
      BY <2>3, <2>5
    <3>. QED
      BY <2>3, <3>1, <3>2, <3>3
  <2>7. \A r \in Outside \ Range(iterators) : Exhausted(r)'
    BY <1>5, <2>4 DEF TakenInv
  <2>8. IsInjective(iterators)
    BY DEF TakenInv
  <2>. QED
    BY <1>1, <1>2, <1>4, <2>3, <2>4, <2>6, <2>7, <2>8 DEF TakenInv
<1>11. CASE EndTurn
  <2>1. /\ pc = "batch" /\ EndsTurn /\ pc' = "for" /\ UNCHANGED <<position, entities>>
        /\ iter \in 1 .. Len(iterators)
    BY <1>1, <1>3, <1>11 DEF EndTurn, SelectTypeOK
  <2>2. CASE UNCHANGED iterators
    BY <1>7, <2>1, <2>2
  <2>3. CASE iterators' = RemoveAt(iterators, iter) /\ batch_size # max_per_player
    <3>1. PICK p : p = iterators[iter]
      OBVIOUS
    <3>2. p \in Outside
      BY <1>3, <2>1, <3>1, SeqType
    <3>3. Full(entities) \/ Exhausted(p)
      <4>1. position[p] = Len(Query(p)) \/ Full(entities)
        BY <2>1, <2>3, <3>1 DEF EndsTurn
      <4>. QED
        BY <3>2, <4>1 DEF TakenInv, Exhausted
    <3>4. IsInjective(iterators') /\ Range(iterators) \subseteq Range(iterators') \cup {p}
      BY <1>3, <2>1, <2>3, <3>1, RemoveRange DEF TakenInv
    <3>5. Full(entities)' <=> Full(entities)
      BY <1>6, <2>1 DEF Full
    <3>6. ASSUME NEW r \in Outside \ Range(iterators')
          PROVE  Full(entities)' \/ Exhausted(r)'
      <4>1. r \in Outside \ Range(iterators) \/ r = p
        BY <3>4
      <4>2. Full(entities) \/ Exhausted(r)
        BY <3>3, <4>1 DEF TakenInv
      <4>. QED
        BY <1>5, <3>5, <4>2
    <3>7. \A r \in Outside : position'[r] <= Len(Query(r)) /\ First(r, position'[r]) \subseteq entities'
      BY <2>1 DEF TakenInv
    <3>. QED
      BY <1>1, <1>2, <1>4, <2>1, <3>4, <3>6, <3>7 DEF TakenInv
  <2>. QED
    BY <1>11, <2>2, <2>3 DEF EndTurn
<1>12. CASE UNCHANGED selectVars
  BY <1>7, <1>12 DEF selectVars, TakenInv
<1>. QED
  BY <1>8, <1>9, <1>10, <1>11, <1>12 DEF SelectNext, Returned

\* The iterators take their turns in step: one batch each, and then another.
LEMMA RoundStep ==
  ASSUME SelectInv, TakenInv, RoundInv, [SelectNext]_selectVars
  PROVE  RoundInv'
<1>1. SelectTypeOK /\ AtMostMaxVisible /\ IsFiniteSet(entities)
  BY DEF SelectInv, TakenInv
<1>2. max_visible' = max_visible
  BY EntitiesGrow, InputsKept
<1>3. /\ iterators \in Seq(Outside) /\ Len(iterators) \in Nat /\ iter \in Nat \ {0}
      /\ max_per_player \in Nat /\ batch_size \in Nat
  BY <1>1, SeqType DEF SelectTypeOK
<1>4. Full(entities)' <=> Cardinality(entities') = max_visible
  BY <1>2 DEF Full
<1> SUFFICES ASSUME ~Full(entities)'
             PROVE  \E round \in Nat : \A i \in 1 .. Len(iterators') :
                      position'[iterators'[i]] = Turn(i, round)'
  BY DEF RoundInv
<1>5. entities' = entities => ~Full(entities)
  BY <1>4 DEF Full
<1>6. ASSUME ~Full(entities)
      PROVE  \E round \in Nat : \A i \in 1 .. Len(iterators) : position[iterators[i]] = Turn(i, round)
  BY <1>6 DEF RoundInv
<1>7. CASE NextRound
  <2>1. /\ pc = "while" /\ UNCHANGED <<position, iterators, entities>>
        /\ pc' = "done" \/ (pc' = "for" /\ iter' = 1)
    BY <1>7 DEF NextRound
  <2>2. PICK round \in Nat : \A i \in 1 .. Len(iterators) : position[iterators[i]] = Turn(i, round)
    BY <1>5, <1>6, <2>1
  <2>3. \A i \in 1 .. Len(iterators) : Turn(i, round) = round /\ Turn(i, round)' = round
    BY <2>1 DEF Turn
  <2>. QED
    BY <2>1, <2>2, <2>3
<1>8. CASE NextTurn
  <2>1. /\ pc = "for" /\ UNCHANGED <<position, iterators, iter, max_per_player, entities>>
        /\ \/ (iter > Len(iterators) \/ Full(entities)) /\ pc' = "while"
           \/ pc' = "batch" /\ batch_size' = 0
    BY <1>8 DEF NextTurn, Full
  <2>2. PICK round \in Nat : \A i \in 1 .. Len(iterators) : position[iterators[i]] = Turn(i, round)
    BY <1>5, <1>6, <2>1
  <2>3. CASE iter > Len(iterators) /\ pc' = "while"
    <3>1. \A i \in 1 .. Len(iterators) :
            Turn(i, round) = round + max_per_player /\ Turn(i, round + max_per_player)' = round + max_per_player
      BY <1>3, <2>1, <2>3 DEF Turn
    <3>2. round + max_per_player \in Nat
      BY <1>3
    <3>. QED
      BY <2>1, <2>2, <3>1, <3>2
  <2>4. CASE pc' = "batch" /\ batch_size' = 0
    <3>1. \A i \in 1 .. Len(iterators) : Turn(i, round)' = Turn(i, round)
      BY <1>3, <2>1, <2>4 DEF Turn
    <3>. QED
      BY <2>1, <2>2, <3>1
  <2>. QED
    BY <1>5, <2>1, <2>3, <2>4
<1>9. CASE Take
  <2>1. PICK p : p = iterators[iter]
    OBVIOUS
  <2>2. PICK e : e = Query(p)[position[p] + 1]
    OBVIOUS
  <2>3. p \in Outside /\ iter \in 1 .. Len(iterators) /\ position[p] \in Nat
    BY <1>9, <2>1, <2>2, Taken
  <2>4. /\ pc = "batch" /\ ~Full(entities) /\ UNCHANGED <<pc, iterators, iter, max_per_player>>
        /\ position' = [position EXCEPT ![p] = @ + 1] /\ batch_size' = batch_size + 1
    <3>1. Cardinality(entities') # max_visible
      BY <1>4
    <3>. QED
      BY <1>9, <2>1, <3>1 DEF Take, EndsTurn, Full
  <2>5. PICK round \in Nat : \A i \in 1 .. Len(iterators) : position[iterators[i]] = Turn(i, round)
    BY <1>6, <2>4
  <2>6. position \in [Outside -> Nat]
    BY <1>1 DEF SelectTypeOK
  <2>7. ASSUME NEW i \in 1 .. Len(iterators) PROVE position'[iterators[i]] = Turn(i, round)'
    <3>1. iterators[i] \in Outside
      BY <1>3, SeqType
    <3>2. CASE i = iter
      <4>1. position[p] = round + batch_size
        BY <2>1, <2>3, <2>4, <2>5 DEF Turn
      <4>2. position'[p] = round + (batch_size + 1)
        BY <1>3, <2>3, <2>4, <2>6, <4>1
      <4>3. Turn(i, round)' = round + (batch_size + 1)
        BY <2>4, <3>2 DEF Turn
      <4>. QED
        BY <2>1, <3>2, <4>2, <4>3
    <3>3. CASE i # iter
      <4>1. iterators[i] # p
        <5>1. DOMAIN iterators = 1 .. Len(iterators)
          BY <1>3, SeqType
        <5>. QED
          BY <2>1, <2>3, <3>3, <5>1 DEF TakenInv, IsInjective
      <4>2. position'[iterators[i]] = position[iterators[i]]
        BY <2>4, <2>6, <3>1, <4>1
      <4>3. Turn(i, round)' = Turn(i, round)
        BY <2>4, <3>3 DEF Turn
      <4>. QED
        BY <2>5, <4>2, <4>3
    <3>. QED
      BY <3>2, <3>3
  <2>. QED
    BY <2>4, <2>7
<1>10. CASE EndTurn
  <2>1. /\ pc = "batch" /\ pc' = "for" /\ UNCHANGED <<position, max_per_player, batch_size, entities>>
        /\ iter \in 1 .. Len(iterators)
    BY <1>1, <1>3, <1>10 DEF EndTurn, SelectTypeOK
  <2>2. PICK round \in Nat : \A i \in 1 .. Len(iterators) : position[iterators[i]] = Turn(i, round)
    BY <1>5, <1>6, <2>1
  <2>3. CASE batch_size = max_per_player /\ iter' = iter + 1 /\ UNCHANGED iterators
    <3>1. \A i \in 1 .. Len(iterators) : Turn(i, round)' = Turn(i, round)
      BY <1>3, <2>1, <2>3 DEF Turn
    <3>. QED
      BY <2>1, <2>2, <2>3, <3>1
  <2>4. CASE iterators' = RemoveAt(iterators, iter) /\ UNCHANGED iter
    <3>1. /\ Len(iterators') = Len(iterators) - 1
          /\ \A k \in 1 .. Len(iterators) - 1 :
               iterators'[k] = IF k < iter THEN iterators[k] ELSE iterators[k + 1]
      BY <1>3, <2>1, <2>4, RemovePlaces
    <3>2. ASSUME NEW i \in 1 .. Len(iterators')
          PROVE  position'[iterators'[i]] = Turn(i, round)'
      <4>1. PICK k \in 1 .. Len(iterators) :
              k = (IF i < iter THEN i ELSE i + 1) /\ iterators'[i] = iterators[k]
        BY <1>3, <2>1, <3>1
      <4>2. Turn(i, round)' = Turn(k, round)
        BY <1>3, <2>1, <2>4, <4>1 DEF Turn
      <4>. QED
        BY <2>1, <2>2, <4>1, <4>2
    <3>. QED
      BY <3>2
  <2>. QED
    BY <1>10, <2>3, <2>4 DEF EndTurn
<1>11. CASE UNCHANGED selectVars
  <2>1. /\ UNCHANGED <<position, iterators, entities>>
        /\ \A i, round : Turn(i, round)' = Turn(i, round)
    BY <1>11 DEF selectVars, Turn
  <2>2. PICK round \in Nat : \A i \in 1 .. Len(iterators) : position[iterators[i]] = Turn(i, round)
    BY <1>5, <1>6, <2>1
  <2>. QED
    BY <2>1, <2>2
<1>. QED
  BY <1>7, <1>8, <1>9, <1>10, <1>11 DEF SelectNext, Returned

\* The players that are outside are some of all of them.
LEMMA OutsideCount ==
  ASSUME SelectTypeOK
  PROVE  IsFiniteSet(Outside) /\ Cardinality(Outside) \in Nat /\ Cardinality(Outside) <= players
<1>1. players \in Nat \ {0} /\ Outside \in SUBSET (1 .. players)
  BY ShareType DEF SelectTypeOK, PlayerIndex
<1>2. IsFiniteSet(1 .. players) /\ Cardinality(1 .. players) = players
  BY <1>1, FS_Interval
<1>3. IsFiniteSet(Outside) /\ Cardinality(Outside) <= Cardinality(1 .. players)
  BY <1>1, <1>2, FS_Subset
<1>. QED
  BY <1>2, <1>3, FS_CardinalityType

\* The limit can be reached in the first round only by the last of all
\* players, with the last of its share.
LEMMA LastOfAll ==
  ASSUME NEW share \in Nat \ {0}, NEW all \in Nat \ {0}, NEW limit \in Nat, all * share <= limit,
         NEW served \in Nat, served < all,
         NEW taken \in Nat, taken < share,
         limit <= served * share + taken + 1
  PROVE  served + 1 = all /\ taken + 1 = share
<1>1. /\ served * share \in Nat /\ (served + 1) * share = served * share + share
      /\ (served + 1) * share \in Nat
  BY Products
<1>2. CASE served + 2 <= all
  <2>1. (served + 2) * share = served * share + share + share
    OBVIOUS
  <2>2. (served + 2) * share <= all * share
    BY <1>2, Products
  <2>. QED
    BY <1>1, <2>1, <2>2
<1>3. CASE served + 1 = all
  BY <1>1, <1>3
<1>. QED
  BY <1>2, <1>3

\* Who has begun in the first round is who is not waiting.
LEMMA FirstTake ==
  ASSUME SelectInv, TakenInv, FirstRound, Share >= 2, Take
  PROVE  FirstRound' \/ AllServed'
<1>1. SelectTypeOK /\ AtMostMaxVisible /\ IsFiniteSet(entities)
  BY DEF SelectInv, TakenInv
<1>2. [SelectNext]_selectVars
  BY DEF SelectNext
<1>3. /\ Outside' = Outside /\ max_visible' = max_visible /\ Share' = Share
      /\ \A q, n : First(q, n)' = First(q, n)
      /\ entities \subseteq entities'
  BY <1>2, EntitiesGrow, InputsKept
<1>4. PICK p : p = iterators[iter]
  OBVIOUS
<1>5. PICK e : e = Query(p)[position[p] + 1]
  OBVIOUS
<1>6. /\ p \in Outside /\ iter \in 1 .. Len(iterators) /\ batch_size < max_per_player
      /\ IsFiniteSet(entities') /\ Cardinality(entities') \in Nat
      /\ Cardinality(entities') <= Cardinality(entities) + 1
      /\ First(p, position[p] + 1) \subseteq entities'
  BY <1>4, <1>5, Taken
<1>7. /\ pc = "batch" /\ UNCHANGED <<pc, iterators, iter, max_per_player>>
      /\ \/ Full(entities') /\ UNCHANGED <<position, batch_size>>
         \/ /\ ~Full(entities')
            /\ position' = [position EXCEPT ![p] = @ + 1] /\ batch_size' = batch_size + 1
  BY <1>4 DEF Take
<1>8. /\ iterators \in Seq(Outside) /\ Len(iterators) \in Nat /\ batch_size \in Nat
      /\ position \in [Outside -> Nat] /\ Cardinality(entities) \in Nat
      /\ DOMAIN iterators = 1 .. Len(iterators)
  BY <1>1, SeqType, FS_CardinalityType DEF SelectTypeOK
<1>9. /\ max_per_player = Share /\ Served \in Nat
      /\ Cardinality(entities) <= Served * Share + batch_size
      /\ \A q \in Outside : ~Waiting(q) => First(q, Share) \subseteq entities
      /\ \A i \in 1 .. Len(iterators) :
           i >= iter => position[iterators[i]] = IF i = iter THEN batch_size ELSE 0
  BY <1>7 DEF FirstRound
<1>10. Share \in Nat /\ players \in Nat \ {0} /\ max_visible \in Nat /\ players * Share <= max_visible
  BY <1>1, ShareType
<1>11. Cardinality(Outside) \in Nat /\ Cardinality(Outside) <= players
  BY <1>1, OutsideCount
<1>12. Served * Share \in Nat
  BY <1>9, <1>10, Products
<1>13. position[p] = batch_size
  BY <1>4, <1>6, <1>9
<1>14. \A q : Waiting(q)' <=> Waiting(q)
  BY <1>7 DEF Waiting
<1>15. Full(entities') <=> Full(entities)'
  BY <1>3 DEF Full
<1>16. CASE Full(entities')
  <2>1. /\ Served = Cardinality(Outside) - Len(iterators) + iter - 1 /\ iter \in Nat
        /\ Served + 1 <= Cardinality(Outside) /\ Served < players
    <3>1. Served = Cardinality(Outside) - Len(iterators) + iter - 1
      BY DEF Served
    <3>2. iter \in Nat /\ iter <= Len(iterators)
      BY <1>6, <1>8
    <3>3. Served + 1 <= Cardinality(Outside)
      BY <1>8, <1>11, <3>1, <3>2
    <3>4. Served < players
      BY <1>9, <1>10, <1>11, <3>3
    <3>. QED
      BY <3>1, <3>2, <3>3, <3>4
  <2>2. max_visible <= Served * Share + batch_size + 1
    BY <1>6, <1>8, <1>9, <1>12, <1>16 DEF Full
  <2>3. Served + 1 = players /\ batch_size + 1 = Share
    <3>1. PICK share \in Nat \ {0} : share = Share
      BY <1>10
    <3>2. PICK served \in Nat : served = Served
      BY <1>9
    <3>3. batch_size < share /\ served < players /\ players * share <= max_visible
          /\ max_visible <= served * share + batch_size + 1
      BY <1>6, <1>9, <1>10, <2>1, <2>2, <3>1, <3>2
    <3>. QED
      BY <1>8, <1>10, <3>1, <3>2, <3>3, LastOfAll
  <2>4. iter = Len(iterators)
    <3>1. Cardinality(Outside) = players
      BY <1>9, <1>10, <1>11, <2>1, <2>3
    <3>2. Served = Cardinality(Outside) - 1
      BY <1>9, <1>11, <2>3, <3>1
    <3>3. \A c, l, i \in Int : c - 1 = c - l + i - 1 => i = l
      OBVIOUS
    <3>4. Cardinality(Outside) \in Int /\ Len(iterators) \in Int /\ iter \in Int
      BY <1>8, <1>11, <2>1
    <3>. QED
      BY <2>1, <3>2, <3>3, <3>4
  <2>5. ASSUME NEW q \in Outside PROVE First(q, Share) \subseteq entities'
    <3>1. CASE q = p
      BY <1>6, <1>13, <2>3, <3>1
    <3>2. CASE q # p
      <4>1. ~Waiting(q)
        BY <1>4, <1>8, <2>4, <3>2 DEF Waiting
      <4>. QED
        BY <1>3, <1>9, <4>1
    <3>. QED
      BY <3>1, <3>2
  <2>6. AllServed'
    BY <1>3, <2>5 DEF AllServed
  <2>. QED
    BY <2>6
<1>17. CASE ~Full(entities')
  <2>1. position' = [position EXCEPT ![p] = @ + 1] /\ batch_size' = batch_size + 1
    BY <1>7, <1>17
  <2>2. Served' = Served
    BY <1>3, <1>7 DEF Served
  <2>3. Cardinality(entities') <= Served * Share + (batch_size + 1)
    BY <1>6, <1>8, <1>9, <1>12
  <2>4. ASSUME NEW i \in 1 .. Len(iterators), i >= iter
        PROVE  position'[iterators[i]] = IF i = iter THEN batch_size + 1 ELSE 0
    <3>1. iterators[i] \in Outside
      BY <1>8, SeqType
    <3>2. CASE i = iter
      BY <1>4, <1>6, <1>8, <1>13, <2>1, <3>2
    <3>3. CASE i # iter
      <4>1. iterators[i] # p
        BY <1>4, <1>6, <1>8, <3>3 DEF TakenInv, IsInjective
      <4>2. position'[iterators[i]] = position[iterators[i]]
        BY <1>8, <2>1, <3>1, <4>1
      <4>. QED
        BY <1>9, <2>4, <3>3, <4>2
    <3>. QED
      BY <3>2, <3>3
  <2>5. \A q \in Outside : ~Waiting(q)' => First(q, Share) \subseteq entities'
    BY <1>3, <1>9, <1>14
  <2>6. FirstRound'
    BY <1>3, <1>7, <1>9, <1>15, <1>17, <2>1, <2>2, <2>3, <2>4, <2>5 DEF FirstRound
  <2>. QED
    BY <2>6
<1>. QED
  BY <1>16, <1>17

\* The first round gives everybody a share, whoever runs out on the way.
LEMMA SharesStep ==
  ASSUME SelectInv, TakenInv, SharesInv, [SelectNext]_selectVars
  PROVE  SharesInv'
<1>1. SelectTypeOK /\ AtMostMaxVisible /\ IsFiniteSet(entities)
  BY DEF SelectInv, TakenInv
<1>2. /\ Outside' = Outside /\ max_visible' = max_visible /\ Share' = Share
      /\ \A q, n : First(q, n)' = First(q, n)
      /\ entities \subseteq entities'
  BY EntitiesGrow, InputsKept
<1> SUFFICES ASSUME Share >= 2 PROVE NotBegun' \/ FirstRound' \/ AllServed'
  BY <1>2 DEF SharesInv
<1>3. NotBegun \/ FirstRound \/ AllServed
  BY DEF SharesInv
<1>4. /\ iterators \in Seq(Outside) /\ Len(iterators) \in Nat /\ iter \in Nat \ {0}
      /\ max_per_player \in Nat /\ batch_size \in Nat /\ Cardinality(entities) \in Nat
      /\ DOMAIN iterators = 1 .. Len(iterators)
  BY <1>1, SeqType, FS_CardinalityType DEF SelectTypeOK
<1>5. Share \in Nat /\ players \in Nat \ {0} /\ max_visible \in Nat /\ players * Share <= max_visible
  BY <1>1, ShareType
<1>6. Cardinality(Outside) \in Nat
  BY <1>1, OutsideCount
<1>7. Full(entities)' <=> Cardinality(entities') = max_visible
  BY <1>2 DEF Full
<1>8. CASE AllServed
  BY <1>2, <1>8 DEF AllServed
<1>9. CASE NotBegun
  <2>1. /\ pc = "while" /\ entities = {} /\ Len(iterators) = Cardinality(Outside)
        /\ \A p \in Outside : position[p] = 0 /\ \E i \in 1 .. Len(iterators) : iterators[i] = p
    BY <1>9 DEF NotBegun
  <2>2. CASE UNCHANGED selectVars
    BY <1>2, <2>1, <2>2 DEF selectVars, NotBegun
  <2>3. CASE NextRound
    <3>1. Cardinality(entities) = 0 /\ max_visible >= 2
      <4>1. Cardinality(entities) = 0
        BY <2>1, FS_EmptySet
      <4>2. Share <= players * Share
        <5>1. 1 * Share <= players * Share
          BY <1>5, Products
        <5>. QED
          BY <1>5, <5>1
      <4>. QED
        BY <1>5, <4>1, <4>2
    <3>2. CASE iterators = <<>>
      <4>1. Outside = {}
        BY <2>1, <3>2
      <4>. QED
        BY <1>2, <4>1 DEF AllServed
    <3>3. CASE iterators # <<>>
      <4>1. /\ max_per_player' = NewBatchSize(max_visible - Cardinality(entities))
            /\ iter' = 1 /\ pc' = "for" /\ UNCHANGED <<iterators, position, entities>>
        BY <1>5, <2>3, <3>1, <3>3 DEF NextRound
      <4>2. max_per_player' = Share
        <5>1. max_visible - Cardinality(entities) = max_visible
          BY <1>5, <3>1
        <5>2. NewBatchSize(max_visible) = Share
          BY <1>5 DEF NewBatchSize, Larger, Share
        <5>. QED
          BY <4>1, <5>1, <5>2
      <4>3. Served' = 0
        BY <1>2, <1>6, <2>1, <4>1 DEF Served
      <4>4. Cardinality(entities') <= Served' * Share + 0
        BY <1>5, <3>1, <4>1, <4>3
      <4>5. \A p \in Outside : Waiting(p)'
        BY <1>4, <2>1, <4>1 DEF Waiting
      <4>6. \A i \in 1 .. Len(iterators) : position[iterators[i]] = 0
        BY <1>4, <2>1, SeqType
      <4>7. ~Full(entities)'
        BY <1>5, <1>7, <3>1, <4>1
      <4>8. FirstRound'
        BY <1>2, <4>1, <4>2, <4>3, <4>4, <4>5, <4>6, <4>7 DEF FirstRound
      <4>. QED
        BY <4>8
    <3>. QED
      BY <3>2, <3>3
  <2>. QED
    BY <2>1, <2>2, <2>3 DEF SelectNext, NextTurn, Take, EndTurn, Returned
<1>10. CASE FirstRound
  <2>1. /\ pc \in {"for", "batch"} /\ ~Full(entities) /\ max_per_player = Share /\ Served \in Nat
        /\ Cardinality(entities) <= Served * Share + (IF pc = "batch" THEN batch_size ELSE 0)
        /\ \A p \in Outside : ~Waiting(p) => First(p, Share) \subseteq entities
        /\ \A i \in 1 .. Len(iterators) :
             i >= iter => position[iterators[i]] = IF pc = "batch" /\ i = iter THEN batch_size ELSE 0
    BY <1>10 DEF FirstRound
  <2>2. Served * Share \in Nat /\ (Served + 1) * Share = Served * Share + Share
    BY <1>5, <2>1, Products
  <2>3. CASE Take
    BY <1>10, <2>3, FirstTake
  <2>4. CASE UNCHANGED selectVars
    <3>1. /\ UNCHANGED <<pc, iterators, iter, max_per_player, batch_size, entities, position>>
          /\ Served' = Served /\ Full(entities)' = Full(entities) /\ \A p : Waiting(p)' = Waiting(p)
      BY <1>2, <2>4 DEF selectVars, Served, Full, Waiting
    <3>2. FirstRound'
      BY <1>2, <2>1, <3>1 DEF FirstRound
    <3>. QED
      BY <3>2
  <2>5. CASE NextTurn
    <3>1. /\ pc = "for" /\ UNCHANGED <<iterators, iter, max_per_player, entities, position>>
          /\ \/ iter > Len(iterators) /\ pc' = "while"
             \/ iter <= Len(iterators) /\ pc' = "batch" /\ batch_size' = 0
      BY <2>1, <2>5 DEF NextTurn, Full
    <3>2. CASE iter > Len(iterators)
      <4>1. \A p \in Outside : ~Waiting(p)
        BY <1>4, <3>2 DEF Waiting
      <4>2. AllServed'
        BY <1>2, <2>1, <4>1 DEF AllServed
      <4>. QED
        BY <4>2
    <3>3. CASE pc' = "batch" /\ batch_size' = 0
      <4>1. Served' = Served /\ Full(entities)' = Full(entities) /\ \A p : Waiting(p)' = Waiting(p)
        BY <1>2, <3>1 DEF Served, Full, Waiting
      <4>2. \A i \in 1 .. Len(iterators) : i >= iter => position[iterators[i]] = 0
        BY <2>1, <3>1
      <4>3. Cardinality(entities) <= Served * Share + 0
        BY <2>1, <3>1
      <4>4. FirstRound'
        BY <1>2, <2>1, <3>1, <3>3, <4>1, <4>2, <4>3 DEF FirstRound
      <4>. QED
        BY <4>4
    <3>. QED
      BY <3>1, <3>2, <3>3
  <2>6. CASE EndTurn
    <3>1. PICK p : p = iterators[iter]
      OBVIOUS
    <3>2. /\ pc = "batch" /\ pc' = "for" /\ EndsTurn
          /\ UNCHANGED <<position, max_per_player, batch_size, entities>>
          /\ iter \in 1 .. Len(iterators) /\ batch_size <= Share
      BY <1>1, <1>4, <2>1, <2>6 DEF EndTurn, SelectTypeOK
    <3>3. p \in Outside /\ position[p] = batch_size
      <4>1. p \in Outside
        BY <1>4, <3>1, <3>2, SeqType
      <4>2. iter >= iter
        BY <1>4
      <4>. QED
        BY <2>1, <3>1, <3>2, <4>1, <4>2
    <3>4. Full(entities)' = Full(entities)
      BY <1>7, <3>2 DEF Full
    <3>5. Cardinality(entities) <= (Served + 1) * Share + 0
      BY <1>4, <1>5, <2>1, <2>2, <3>2
    <3>6. First(p, Share) \subseteq entities /\ Len(Query(p)) \in Nat
      <4>1. Len(Query(p)) \in Nat /\ First(p, position[p]) \subseteq entities
        BY <1>1, <3>3, QueryType DEF TakenInv
      <4>2. CASE position[p] = Len(Query(p))
        BY <1>5, <4>1, <4>2, FirstEntities
      <4>3. CASE position[p] # Len(Query(p))
        <5>1. batch_size = Share
          BY <2>1, <3>1, <3>2, <4>3 DEF EndsTurn
        <5>. QED
          BY <3>3, <4>1, <5>1
      <4>. QED
        BY <4>1, <4>2, <4>3
    <3>7. CASE iter' = iter + 1 /\ UNCHANGED iterators
      <4>1. Served' = Served + 1
        BY <1>2, <1>4, <1>6, <3>7 DEF Served
      <4>2. ASSUME NEW q \in Outside, ~Waiting(q)' PROVE First(q, Share) \subseteq entities
        <5>1. CASE q = p
          BY <3>6, <5>1
        <5>2. CASE q # p
          <6>1. ~Waiting(q)
            BY <1>4, <3>1, <3>7, <4>2, <5>2 DEF Waiting
          <6>. QED
            BY <2>1, <6>1
        <5>. QED
          BY <5>1, <5>2
      <4>3. \A i \in 1 .. Len(iterators) : i >= iter + 1 => position[iterators[i]] = 0
        BY <1>4, <2>1
      <4>4. Served + 1 \in Nat
        BY <2>1
      <4>5. FirstRound'
        BY <1>2, <2>1, <3>2, <3>4, <3>5, <3>7, <4>1, <4>2, <4>3, <4>4 DEF FirstRound
      <4>. QED
        BY <4>5
    <3>8. CASE iterators' = RemoveAt(iterators, iter) /\ UNCHANGED iter
      <4>1. /\ Len(iterators') = Len(iterators) - 1
            /\ \A k \in 1 .. Len(iterators) - 1 :
                 iterators'[k] = IF k < iter THEN iterators[k] ELSE iterators[k + 1]
        BY <1>4, <3>2, <3>8, RemovePlaces
      <4>2. Served' = Served + 1
        BY <1>2, <1>4, <1>6, <3>8, <4>1 DEF Served
      <4>3. ASSUME NEW q \in Outside, ~Waiting(q)' PROVE First(q, Share) \subseteq entities
        <5>1. CASE q = p
          BY <3>6, <5>1
        <5>2. CASE q # p
          <6>1. ASSUME NEW i \in 1 .. Len(iterators), i >= iter, iterators[i] = q PROVE FALSE
            <7>1. i # iter
              BY <3>1, <5>2, <6>1
            <7>2. PICK k \in 1 .. Len(iterators) - 1 : k = i - 1 /\ k >= iter /\ k + 1 = i /\ ~(k < iter)
              BY <1>4, <6>1, <7>1
            <7>3. iterators'[k] = q /\ k \in 1 .. Len(iterators')
              BY <4>1, <6>1, <7>2
            <7>. QED
              BY <3>8, <4>3, <7>2, <7>3 DEF Waiting
          <6>2. ~Waiting(q)
            BY <6>1 DEF Waiting
          <6>. QED
            BY <2>1, <6>2
        <5>. QED
          BY <5>1, <5>2
      <4>4. ASSUME NEW i \in 1 .. Len(iterators'), i >= iter PROVE position[iterators'[i]] = 0
        <5>1. PICK k \in 1 .. Len(iterators) : k = i + 1 /\ iterators'[i] = iterators[k]
          BY <1>4, <4>1, <4>4
        <5>2. k >= iter /\ k # iter
          BY <1>4, <4>1, <4>4, <5>1
        <5>. QED
          BY <2>1, <5>1, <5>2
      <4>5. Served + 1 \in Nat
        BY <2>1
      <4>6. FirstRound'
        BY <1>2, <2>1, <3>2, <3>4, <3>5, <3>8, <4>2, <4>3, <4>4, <4>5 DEF FirstRound
      <4>. QED
        BY <4>6
    <3>. QED
      BY <2>6, <3>7, <3>8 DEF EndTurn
  <2>. QED
    BY <2>1, <2>3, <2>4, <2>5, <2>6 DEF SelectNext, NextRound, Returned
<1>. QED
  BY <1>3, <1>8, <1>9, <1>10

\* Before the first round.
LEMMA SelectionInit ==
  ASSUME SelectInit
  PROVE  SelectionInv
<1>1. /\ max_visible \in 0 .. MaxLimit /\ players \in 1 .. MaxPlayers
      /\ Outside \subseteq PlayerIndex /\ in_range \in [Outside -> Surroundings]
      /\ position = [p \in Outside |-> 0] /\ iterators \in SetToSeqs(Outside)
      /\ pc = "while" /\ iter = 1 /\ max_per_player = Share /\ batch_size = 0 /\ entities = {}
  <2>1. PICK outside \in SUBSET (1 .. players) : in_range \in [outside -> Surroundings]
    BY DEF SelectInit
  <2>2. Outside = outside
    BY <2>1 DEF Outside
  <2>. QED
    BY <2>1, <2>2 DEF SelectInit, PlayerIndex, Outside
<1>2. max_visible \in Nat /\ players \in Nat \ {0} /\ Share \in Nat
  <2>1. max_visible \in Nat /\ players \in Nat \ {0}
    BY <1>1, SelectAssumption
  <2>2. \A m \in Nat : \A n \in Nat \ {0} : m \div n \in Nat
    OBVIOUS
  <2>. QED
    BY <2>1, <2>2 DEF Share
<1>3. IsFiniteSet(Outside)
  <2>1. Outside \in SUBSET (1 .. players) /\ IsFiniteSet(1 .. players)
    BY <1>1, <1>2, FS_Interval DEF PlayerIndex
  <2>. QED
    BY <2>1, FS_Subset
<1>4. PICK n \in Nat : n = Cardinality(Outside)
  BY <1>3, FS_CardinalityType
<1>5. /\ iterators \in [1 .. n -> Outside]
      /\ \A i, j \in 1 .. n : i # j => iterators[i] # iterators[j]
  BY <1>1, <1>4 DEF SetToSeqs
<1>6. /\ iterators \in Seq(Outside) /\ Len(iterators) = n /\ DOMAIN iterators = 1 .. n
      /\ IsInjective(iterators)
  <2>1. iterators \in Seq(Outside) /\ Len(iterators) = n /\ DOMAIN iterators = 1 .. n
    BY <1>5, FunctionIsSeq
  <2>. QED
    BY <1>5, <2>1 DEF IsInjective
<1>7. \A p \in Outside : \E i \in 1 .. Len(iterators) : iterators[i] = p
  BY <1>1, <1>3, Enumerated
<1>8. IsFiniteSet(entities) /\ Cardinality(entities) = 0
  BY <1>1, FS_EmptySet
<1>9. SelectInv
  <2>1. SelectTypeOK
    BY <1>1, <1>2, <1>6 DEF SelectTypeOK
  <2>2. AtMostMaxVisible
    BY <1>2, <1>8 DEF AtMostMaxVisible
  <2>. QED
    BY <2>1, <2>2 DEF SelectInv
<1>10. TakenInv
  <2>1. ASSUME NEW p \in Outside
        PROVE  position[p] = 0 /\ position[p] <= Len(Query(p)) /\ First(p, position[p]) = {}
    <3>1. position[p] = 0
      BY <1>1
    <3>2. Len(Query(p)) \in Nat
      BY <1>9, QueryType DEF SelectInv
    <3>3. First(p, 0) = {}
      BY <3>2, FirstEntities
    <3>. QED
      BY <3>1, <3>2, <3>3
  <2>2. Outside \ Range(iterators) = {}
    BY <1>6, <1>7 DEF Range
  <2>. QED
    BY <1>1, <1>6, <1>8, <2>1, <2>2 DEF TakenInv
<1>11. RoundInv
  <2>1. \A i \in 1 .. Len(iterators) : position[iterators[i]] = 0 /\ Turn(i, 0) = 0
    BY <1>1, <1>5, <1>6 DEF Turn
  <2>. QED
    BY <2>1 DEF RoundInv
<1>12. SharesInv
  <2>1. NotBegun
    BY <1>1, <1>4, <1>6, <1>7 DEF NotBegun
  <2>. QED
    BY <2>1 DEF SharesInv
<1>. QED
  BY <1>9, <1>10, <1>11, <1>12 DEF SelectionInv

(***************************************************************************)
(* What the selection guarantees.                                          *)
(***************************************************************************)

\* The inductive invariant holds.
THEOREM SelectionInvariant == SelectSpec => []SelectionInv
<1>1. SelectInit => SelectionInv
  BY SelectionInit
<1>2. SelectionInv /\ [SelectNext]_selectVars => SelectionInv'
  BY SelectStep, TakenStep, RoundStep, SharesStep DEF SelectionInv
<1>. QED
  BY <1>1, <1>2, PTL DEF SelectSpec

\* The selection has its type and never exceeds max_visible_, which the loops
\* test for with an equality only.
THEOREM SelectCorrect == SelectSpec => []SelectInv
<1>1. SelectionInv => SelectInv
  BY DEF SelectionInv
<1>. QED
  BY <1>1, SelectionInvariant, PTL

\* The nearest entities that make up a player's share are selected when the
\* function returns, and after every round the remaining iterators have
\* passed equally many entities.
THEOREM SelectionIsFair == SelectSpec => []SharesFair
<1>1. SelectionInv => SharesFair
  <2> SUFFICES ASSUME SelectionInv PROVE SharesRepresented /\ TakeTurns
    BY DEF SharesFair
  <2>1. SharesRepresented
    BY DEF SelectionInv, SharesInv, NotBegun, FirstRound, AllServed, SharesRepresented
  <2>2. TakeTurns
    <3> SUFFICES ASSUME pc = "while", ~Full(entities),
                        NEW i \in 1 .. Len(iterators), NEW j \in 1 .. Len(iterators)
                 PROVE  position[iterators[i]] = position[iterators[j]]
      BY DEF TakeTurns
    <3>1. PICK round \in Nat : \A k \in 1 .. Len(iterators) : position[iterators[k]] = Turn(k, round)
      BY DEF SelectionInv, RoundInv
    <3>2. Turn(i, round) = round /\ Turn(j, round) = round
      BY DEF Turn
    <3>. QED
      BY <3>1, <3>2
  <2>. QED
    BY <2>1, <2>2
<1>. QED
  BY <1>1, SelectionInvariant, PTL

\* There are finitely many entities around the players.
LEMMA ReachableFinite ==
  ASSUME SelectTypeOK
  PROVE  IsFiniteSet(Reachable)
<1>1. IsFiniteSet(Outside)
  BY OutsideCount
<1> DEFINE Sets == {Range(in_range[p]) : p \in Outside}
           f == [p \in Outside |-> Range(in_range[p])]
<1>2. f \in Surjection(Outside, Sets)
  BY DEF Surjection
<1>3. IsFiniteSet(Sets)
  <2> HIDE DEF f, Sets
  <2>. QED
    BY <1>1, <1>2, FS_Surjection
<1>4. ASSUME NEW p \in Outside PROVE IsFiniteSet(Range(in_range[p]))
  <2>1. PICK R : R = Range(in_range[p])
    OBVIOUS
  <2>2. PICK q \in Seq(R) : q = in_range[p]
    BY <2>1, QueryType
  <2>3. Len(q) \in Nat /\ DOMAIN q = 1 .. Len(q) /\ IsFiniteSet(1 .. Len(q))
    BY SeqType, FS_Interval
  <2>4. q \in Surjection(1 .. Len(q), R)
    <3>1. R = {q[k] : k \in 1 .. Len(q)}
      BY <2>1, <2>2, <2>3 DEF Range
    <3>. QED
      BY <2>3, <3>1 DEF Surjection
  <2>. QED
    BY <2>1, <2>3, <2>4, FS_Surjection
<1>5. \A R \in Sets : IsFiniteSet(R)
  BY <1>4
<1>6. IsFiniteSet(UNION Sets)
  <2> HIDE DEF f, Sets
  <2>. QED
    BY <1>3, <1>5, FS_UNION
<1>. QED
  BY <1>6 DEF Reachable

\* As many entities are selected as there are and the limit allows, when the
\* queries are not cut short.
THEOREM SelectionFillsUp == SelectSpec => []FillsUp
<1>1. SelectionInv => FillsUp
  <2> SUFFICES ASSUME SelectionInv, pc = "done", ~Truncated
               PROVE  Cardinality(entities) = Smaller(max_visible, Cardinality(Reachable))
    BY DEF FillsUp
  <2>1. SelectTypeOK /\ AtMostMaxVisible /\ TakenInv
    BY DEF SelectionInv, SelectInv
  <2>2. IsFiniteSet(Reachable) /\ entities \in SUBSET Reachable /\ IsFiniteSet(entities)
    BY <2>1, ReachableFinite DEF TakenInv
  <2>3. /\ Cardinality(entities) \in Nat /\ Cardinality(Reachable) \in Nat
        /\ max_visible \in Nat /\ Cardinality(entities) <= Cardinality(Reachable)
        /\ Cardinality(entities) <= max_visible
    BY <2>1, <2>2, FS_CardinalityType, FS_Subset, ShareType, EntitiesCount
  <2>4. CASE Full(entities)
    BY <2>3, <2>4 DEF Full, Smaller
  <2>5. CASE ~Full(entities)
    <3>1. iterators = <<>>
      BY <2>1, <2>5 DEF TakenInv
    <3>2. \A p \in Outside : Exhausted(p)
      BY <2>1, <2>5, <3>1 DEF TakenInv, Range
    <3>3. ASSUME NEW p \in Outside PROVE Range(in_range[p]) \subseteq entities
      <4>1. PICK R : R = Range(in_range[p])
        OBVIOUS
      <4>2. PICK q \in Seq(R) : q = in_range[p]
        BY <2>1, <4>1, QueryType
      <4>3. QueryLimit \in Nat /\ Len(q) \in Nat /\ DOMAIN q = 1 .. Len(q)
        BY <2>1, ShareType, SelectAssumption, SeqType DEF QueryLimit, Larger
      <4>4. Len(q) <= QueryLimit
        BY <4>2, <4>3 DEF Truncated
      <4>5. Query(p) = q
        BY <2>1, <4>2, <4>4, QueryType
      <4>6. First(p, Len(q)) = {q[k] : k \in 1 .. Len(q)}
        BY <4>3, <4>5 DEF First, Smaller
      <4>7. First(p, Len(q)) \subseteq entities
        BY <3>2, <4>5 DEF Exhausted
      <4>. QED
        BY <4>2, <4>3, <4>6, <4>7 DEF Range
    <3>4. entities = Reachable
      BY <2>2, <3>3 DEF Reachable
    <3>. QED
      BY <2>3, <3>4 DEF Smaller
  <2>. QED
    BY <2>4, <2>5
<1>. QED
  BY <1>1, SelectionInvariant, PTL
=============================================================================
