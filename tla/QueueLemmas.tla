----------------------------- MODULE QueueLemmas -----------------------------
(***************************************************************************)
(* What the proofs about the components need to know of natural numbers,   *)
(* of sequences used as queues and stacks, and of how often an element     *)
(* occurs in one.                                                          *)
(***************************************************************************)
EXTENDS Integers, Sequences, FiniteSets, SequencesExt, FiniteSetTheorems,
        Queues, TLAPS

(***************************************************************************)
(* Induction, for sets of naturals: the theorems of the library that take  *)
(* a predicate can't be used with the provers at hand, but sets will do.   *)
(***************************************************************************)

\* A set of naturals has a least element: of the finite sets 0 .. n, one does
\* not contain another.
LEMMA LeastNatural ==
  ASSUME NEW S \in SUBSET Nat, S # {}
  PROVE  \E m \in S : \A k \in S : m <= k
<1> DEFINE T == {0 .. n : n \in S}
<1>1. T \subseteq FiniteSubsetsOf(Nat)
  <2> SUFFICES ASSUME NEW n \in S PROVE 0 .. n \in FiniteSubsetsOf(Nat)
    OBVIOUS
  <2>1. IsFiniteSet(0 .. n)
    BY FS_Interval
  <2>. QED
    BY <2>1 DEF FiniteSubsetsOf
<1>2. T # {}
  OBVIOUS
<1>3. PICK x \in T : \A y \in T : ~(<<y, x>> \in StrictSubsetOrdering(Nat))
  <2> HIDE DEF T
  <2>. QED
    BY <1>1, <1>2, WFMin, FS_StrictSubsetOrderingWellFounded
<1>4. PICK m \in S : x = 0 .. m
  OBVIOUS
<1>5. ASSUME NEW k \in S, ~(m <= k) PROVE FALSE
  <2>1. (0 .. k) \subseteq (0 .. m) /\ (0 .. k) # (0 .. m)
    <3>1. m \in 0 .. m /\ m \notin 0 .. k
      BY <1>5
    <3>. QED
      BY <1>5, <3>1
  <2>2. <<0 .. k, 0 .. m>> \in StrictSubsetOrdering(Nat)
    BY <2>1 DEF StrictSubsetOrdering
  <2>. QED
    BY <2>2, <1>3, <1>4
<1>. QED
  BY <1>5

\* Induction up to n.
LEMMA SetInduction ==
  ASSUME NEW n \in Nat, NEW S, 0 \in S,
         \A i \in 0 .. n - 1 : i \in S => i + 1 \in S
  PROVE  \A i \in 0 .. n : i \in S
<1> DEFINE Bad == {i \in 0 .. n : i \notin S}
<1> SUFFICES ASSUME Bad # {} PROVE FALSE
  OBVIOUS
<1>1. PICK m \in Bad : \A k \in Bad : m <= k
  <2>1. Bad \in SUBSET Nat
    OBVIOUS
  <2> HIDE DEF Bad
  <2>. QED
    BY <2>1, LeastNatural
<1>2. m - 1 \in 0 .. n - 1 /\ m - 1 \notin Bad
  BY <1>1
<1>. QED
  BY <1>1, <1>2

(***************************************************************************)
(* Pushing and popping.                                                    *)
(***************************************************************************)

\* A function on 1 .. n is a sequence.
LEMMA FunctionIsSeq ==
  ASSUME NEW S, NEW n \in Nat, NEW f \in [1 .. n -> S]
  PROVE  f \in Seq(S) /\ Len(f) = n /\ DOMAIN f = 1 .. n
  OBVIOUS

\* What is known of every sequence.
LEMMA SeqType ==
  ASSUME NEW S, NEW q \in Seq(S)
  PROVE  /\ Len(q) \in Nat /\ DOMAIN q = 1 .. Len(q)
         /\ \A k \in 1 .. Len(q) : q[k] \in S
         /\ q = <<>> <=> Len(q) = 0
  OBVIOUS

\* Sequences that agree at every place are equal.
LEMMA SameSeq ==
  ASSUME NEW S, NEW p \in Seq(S), NEW q \in Seq(S), Len(p) = Len(q),
         \A k \in 1 .. Len(p) : p[k] = q[k]
  PROVE  p = q
  OBVIOUS

\* Popping the head of a non-empty queue keeps the queue's type.
LEMMA PopType ==
  ASSUME NEW S, NEW q \in Seq(S), q # <<>>
  PROVE  Head(q) \in S /\ Tail(q) \in Seq(S)
  OBVIOUS

\* Pushing keeps it too.
LEMMA PushType ==
  ASSUME NEW S, NEW q \in Seq(S), NEW e \in S
  PROVE  Append(q, e) \in Seq(S)
  OBVIOUS

\* A queue after popping, place by place.
LEMMA PopPlaces ==
  ASSUME NEW S, NEW q \in Seq(S), q # <<>>
  PROVE  /\ Len(q) \in Nat \ {0} /\ Head(q) = q[1]
         /\ Len(Tail(q)) = Len(q) - 1
         /\ \A k \in 1 .. Len(q) - 1 : Tail(q)[k] = q[k + 1]
  OBVIOUS

\* A queue after pushing, place by place.
LEMMA PushPlaces ==
  ASSUME NEW S, NEW q \in Seq(S), NEW e
  PROVE  /\ Len(Append(q, e)) = Len(q) + 1
         /\ DOMAIN Append(q, e) = 1 .. Len(q) + 1
         /\ Append(q, e)[Len(q) + 1] = e
         /\ \A k \in 1 .. Len(q) : Append(q, e)[k] = q[k]
  OBVIOUS

\* A stack without its top.
LEMMA FrontPlaces ==
  ASSUME NEW S, NEW q \in Seq(S), q # <<>>
  PROVE  /\ Front(q) \in Seq(S)
         /\ Len(Front(q)) = Len(q) - 1
         /\ DOMAIN Front(q) = 1 .. Len(q) - 1
         /\ \A k \in 1 .. Len(q) - 1 : Front(q)[k] = q[k]
  BY DEF Front

\* The first n places of a sequence.
LEMMA PrefixPlaces ==
  ASSUME NEW S, NEW q \in Seq(S)
  PROVE  /\ SubSeq(q, 1, 0) = <<>> /\ SubSeq(q, 1, Len(q)) = q
         /\ \A n \in 0 .. Len(q) - 1 :
              SubSeq(q, 1, n + 1) = Append(SubSeq(q, 1, n), q[n + 1])
         /\ \A e \in S : \A n \in 0 .. Len(q) :
              SubSeq(Append(q, e), 1, n) = SubSeq(q, 1, n)
<1>1. SubSeq(q, 1, 0) = <<>> /\ SubSeq(q, 1, Len(q)) = q
  OBVIOUS
<1>2. ASSUME NEW n \in 0 .. Len(q) - 1
      PROVE  SubSeq(q, 1, n + 1) = Append(SubSeq(q, 1, n), q[n + 1])
  OBVIOUS
<1>3. ASSUME NEW e \in S, NEW n \in 0 .. Len(q)
      PROVE  SubSeq(Append(q, e), 1, n) = SubSeq(q, 1, n)
  OBVIOUS
<1>. QED
  BY <1>1, <1>2, <1>3

\* One sequence behind another.
LEMMA ConcatPlaces ==
  ASSUME NEW S, NEW p \in Seq(S), NEW q \in Seq(S)
  PROVE  /\ p \o q \in Seq(S)
         /\ Len(p \o q) = Len(p) + Len(q)
         /\ \A k \in 1 .. Len(p) : (p \o q)[k] = p[k]
         /\ \A k \in 1 .. Len(q) : (p \o q)[Len(p) + k] = q[k]
  OBVIOUS

\* Pushing adds one element, and keeps the elements distinct if it is new.
LEMMA PushRange ==
  ASSUME NEW S, NEW q \in Seq(S), NEW e \in S
  PROVE  /\ Range(Append(q, e)) = Range(q) \cup {e}
         /\ IsInjective(q) /\ e \notin Range(q) => IsInjective(Append(q, e))
<1>1. /\ Append(q, e) \in Seq(S)
      /\ Len(Append(q, e)) = Len(q) + 1
      /\ Append(q, e)[Len(q) + 1] = e
      /\ \A i \in 1 .. Len(q) : Append(q, e)[i] = q[i]
  OBVIOUS
<1>2. DOMAIN Append(q, e) = 1 .. Len(q) + 1 /\ DOMAIN q = 1 .. Len(q)
  BY <1>1
<1>3. Len(q) \in Nat
  OBVIOUS
<1>4. Range(Append(q, e)) = Range(q) \cup {e}
  BY <1>1, <1>2, <1>3 DEF Range
<1>5. IsInjective(q) /\ e \notin Range(q) => IsInjective(Append(q, e))
  BY <1>1, <1>2, <1>3 DEF Range, IsInjective
<1>. QED
  BY <1>4, <1>5

\* Popping removes the head from a queue of distinct elements.
LEMMA PopRange ==
  ASSUME NEW S, NEW q \in Seq(S), q # <<>>, IsInjective(q)
  PROVE  /\ Head(q) \in Range(q)
         /\ Range(Tail(q)) = Range(q) \ {Head(q)}
         /\ IsInjective(Tail(q))
<1>1. /\ Len(q) \in Nat \ {0}
      /\ Tail(q) \in Seq(S)
      /\ Len(Tail(q)) = Len(q) - 1
      /\ Head(q) = q[1]
      /\ \A i \in 1 .. Len(q) - 1 : Tail(q)[i] = q[i + 1]
  OBVIOUS
<1>2. DOMAIN q = 1 .. Len(q) /\ DOMAIN Tail(q) = 1 .. Len(q) - 1
  BY <1>1
<1>3. Head(q) \in Range(q)
  BY <1>1, <1>2 DEF Range
<1>4. IsInjective(Tail(q))
  BY <1>1, <1>2 DEF IsInjective
<1>5. \A i \in 2 .. Len(q) : i - 1 \in 1 .. Len(q) - 1 /\ q[i] = Tail(q)[i - 1]
  BY <1>1
<1>6. Range(Tail(q)) \subseteq Range(q) \ {Head(q)}
  BY <1>1, <1>2 DEF Range, IsInjective
<1>7. Range(q) \ {Head(q)} \subseteq Range(Tail(q))
  <2> SUFFICES ASSUME NEW i \in 1 .. Len(q), q[i] # q[1]
               PROVE  q[i] \in Range(Tail(q))
    BY <1>1, <1>2 DEF Range
  <2>1. i \in 2 .. Len(q)
    BY <1>1
  <2>. QED
    BY <2>1, <1>2, <1>5 DEF Range
<1>. QED
  BY <1>3, <1>4, <1>6, <1>7

(***************************************************************************)
(* How often elements of a set P occur in a queue.                         *)
(***************************************************************************)

Counted(q, P) == Cardinality({k \in DOMAIN q : q[k] \in P})

\* The number is one.
LEMMA CountType ==
  ASSUME NEW S, NEW q \in Seq(S), NEW P
  PROVE  /\ IsFiniteSet({k \in DOMAIN q : q[k] \in P})
         /\ Counted(q, P) \in Nat
<1>1. DOMAIN q = 1 .. Len(q) /\ Len(q) \in Nat
  BY SeqType
<1>2. IsFiniteSet(1 .. Len(q))
  BY <1>1, FS_Interval
<1>3. {k \in DOMAIN q : q[k] \in P} \in SUBSET (1 .. Len(q))
  BY <1>1
<1>4. IsFiniteSet({k \in DOMAIN q : q[k] \in P})
  BY <1>2, <1>3, FS_Subset
<1>. QED
  BY <1>4, FS_CardinalityType DEF Counted

\* Moving a set of places along does not change its size.
LEMMA ShiftedPlaces ==
  ASSUME NEW A \in SUBSET Int, IsFiniteSet(A), NEW d \in Int
  PROVE  /\ IsFiniteSet({k + d : k \in A})
         /\ Cardinality({k + d : k \in A}) = Cardinality(A)
<1> DEFINE B == {k + d : k \in A}
           f == [k \in A |-> k + d]
<1>1. f \in Bijection(A, B)
  <2>1. f \in Injection(A, B)
    BY DEF Injection, IsInjective
  <2>2. f \in Surjection(A, B)
    BY DEF Surjection
  <2>. QED
    BY <2>1, <2>2 DEF Bijection
<1>2. ExistsBijection(A, B)
  BY <1>1 DEF ExistsBijection
<1>. QED
  BY <1>2, FS_Bijection

\* Pushing e adds one if e is counted.
LEMMA CountPush ==
  ASSUME NEW S, NEW q \in Seq(S), NEW e, NEW P
  PROVE  Counted(Append(q, e), P) =
           Counted(q, P) + (IF e \in P THEN 1 ELSE 0)
<1> DEFINE old == {k \in DOMAIN q : q[k] \in P}
           new == {k \in DOMAIN Append(q, e) : Append(q, e)[k] \in P}
<1>1. DOMAIN q = 1 .. Len(q) /\ Len(q) \in Nat
  BY SeqType
<1>2. IsFiniteSet(old) /\ Cardinality(old) \in Nat
  BY CountType DEF Counted
<1>3. CASE e \in P
  <2>1. new = old \cup {Len(q) + 1} /\ Len(q) + 1 \notin old
    BY <1>1, <1>3, PushPlaces
  <2> HIDE DEF old, new
  <2>2. Cardinality(new) = Cardinality(old) + 1
    BY <2>1, <1>2, FS_AddElement
  <2>. QED
    BY <2>2, <1>3 DEF Counted, old, new
<1>4. CASE e \notin P
  <2>1. new = old
    BY <1>1, <1>4, PushPlaces
  <2> HIDE DEF old, new
  <2>2. Cardinality(new) = Cardinality(old) + 0
    BY <2>1, <1>2
  <2>. QED
    BY <2>2, <1>4 DEF Counted, old, new
<1>. QED
  BY <1>3, <1>4

\* Popping takes one away if the head was counted.
LEMMA CountPop ==
  ASSUME NEW S, NEW q \in Seq(S), q # <<>>, NEW P
  PROVE  Counted(Tail(q), P) =
           Counted(q, P) - (IF Head(q) \in P THEN 1 ELSE 0)
<1> DEFINE old == {k \in DOMAIN q : q[k] \in P}
           new == {k \in DOMAIN Tail(q) : Tail(q)[k] \in P}
<1>1. /\ DOMAIN q = 1 .. Len(q) /\ Len(q) \in Nat \ {0}
      /\ DOMAIN Tail(q) = 1 .. Len(q) - 1 /\ Head(q) = q[1]
      /\ \A k \in 1 .. Len(q) - 1 : Tail(q)[k] = q[k + 1]
  BY SeqType, PopPlaces, PopType
<1>2. IsFiniteSet(old) /\ Cardinality(old) \in Nat
  BY CountType DEF Counted
<1>3. IsFiniteSet(new)
  BY PopType, CountType DEF Counted
<1>4. {k + 1 : k \in new} = old \ {1}
  <2>1. \A k \in new : k + 1 \in old \ {1}
    BY <1>1
  <2>2. \A k \in old \ {1} : k - 1 \in new /\ k = (k - 1) + 1
    BY <1>1
  <2> HIDE DEF old, new
  <2>. QED
    BY <2>1, <2>2
<1>5. new \in SUBSET Int
  BY <1>1
<1>6. Cardinality(new) = Cardinality(old \ {1})
  <2> HIDE DEF old, new
  <2>1. \A d \in Int : Cardinality({k + d : k \in new}) = Cardinality(new)
    BY <1>3, <1>5, ShiftedPlaces
  <2>2. 1 \in Int
    OBVIOUS
  <2>3. Cardinality({k + 1 : k \in new}) = Cardinality(new)
    BY <2>1, <2>2, Zenon
  <2>. QED
    BY <2>3, <1>4
<1>7. 1 \in old <=> Head(q) \in P
  BY <1>1
<1> HIDE DEF old, new
<1>8. Cardinality(old \ {1}) = IF 1 \in old THEN Cardinality(old) - 1 ELSE Cardinality(old)
  BY <1>2, FS_RemoveElement
<1>9. Cardinality(new) = Cardinality(old) - (IF Head(q) \in P THEN 1 ELSE 0)
  BY <1>2, <1>6, <1>7, <1>8
<1>. QED
  BY <1>9 DEF Counted, old, new

\* Two queues, one behind the other.
LEMMA CountConcat ==
  ASSUME NEW S, NEW p \in Seq(S), NEW q \in Seq(S), NEW P
  PROVE  Counted(p \o q, P) = Counted(p, P) + Counted(q, P)
<1> DEFINE first == {k \in DOMAIN p : p[k] \in P}
           second == {k \in DOMAIN q : q[k] \in P}
           both == {k \in DOMAIN (p \o q) : (p \o q)[k] \in P}
           moved == {k + Len(p) : k \in second}
<1>1. /\ DOMAIN p = 1 .. Len(p) /\ Len(p) \in Nat
      /\ DOMAIN q = 1 .. Len(q) /\ Len(q) \in Nat
      /\ DOMAIN (p \o q) = 1 .. Len(p) + Len(q)
      /\ \A k \in 1 .. Len(p) : (p \o q)[k] = p[k]
      /\ \A k \in 1 .. Len(q) : (p \o q)[Len(p) + k] = q[k]
  <2>1. p \o q \in Seq(S) /\ Len(p \o q) = Len(p) + Len(q)
    BY ConcatPlaces
  <2>. QED
    BY <2>1, SeqType, ConcatPlaces
<1>2. IsFiniteSet(first) /\ IsFiniteSet(second)
        /\ Cardinality(first) \in Nat /\ Cardinality(second) \in Nat
  BY CountType DEF Counted
<1>3. IsFiniteSet(moved) /\ Cardinality(moved) = Cardinality(second)
  <2>1. second \in SUBSET Int
    BY <1>1
  <2> HIDE DEF second
  <2>2. Len(p) \in Int /\ IsFiniteSet(second)
    BY <1>1, <1>2
  <2>. QED
    BY <2>1, <2>2, ShiftedPlaces
<1>4. both = first \cup moved
  <2>1. \A k \in first : k \in both
    BY <1>1
  <2>2. \A k \in second : k + Len(p) \in both
    BY <1>1
  <2>3. \A k \in both : k \in first \/ (k - Len(p) \in second /\ k = (k - Len(p)) + Len(p))
    BY <1>1
  <2>. QED
    BY <2>1, <2>2, <2>3
<1>5. first \cap moved = {}
  BY <1>1
<1>6. Cardinality(first \cap moved) = 0
  BY <1>5, FS_EmptySet
<1>. QED
  <2> HIDE DEF first, second, both, moved
  <2>1. Cardinality(both) = Cardinality(first) + Cardinality(moved) - Cardinality(first \cap moved)
    BY <1>2, <1>3, <1>4, FS_Union
  <2>2. Cardinality(both) = Cardinality(first) + Cardinality(second)
    BY <2>1, <1>2, <1>3, <1>6
  <2>. QED
    BY <2>2 DEF Counted, first, second, both

\* Nothing occurs in the empty queue, or from the empty set.
LEMMA CountEmpty ==
  /\ \A P : Counted(<<>>, P) = 0
  /\ \A S : \A q \in Seq(S) : Counted(q, {}) = 0
<1>1. ASSUME NEW P PROVE Counted(<<>>, P) = 0
  <2>1. {k \in DOMAIN <<>> : <<>>[k] \in P} = {}
    OBVIOUS
  <2>. QED
    BY <2>1, FS_EmptySet DEF Counted
<1>2. ASSUME NEW S, NEW q \in Seq(S) PROVE Counted(q, {}) = 0
  <2>1. {k \in DOMAIN q : q[k] \in {}} = {}
    OBVIOUS
  <2>. QED
    BY <2>1, FS_EmptySet DEF Counted
<1>. QED
  BY <1>1, <1>2

\* As many as there are places; none if it is at no place.
LEMMA CountBounds ==
  ASSUME NEW S, NEW q \in Seq(S), NEW P
  PROVE  /\ Counted(q, P) <= Len(q)
         /\ Counted(q, P) = 0 <=> \A k \in DOMAIN q : q[k] \notin P
<1> DEFINE all == {k \in DOMAIN q : q[k] \in P}
<1>1. DOMAIN q = 1 .. Len(q) /\ Len(q) \in Nat
  BY SeqType
<1>2. IsFiniteSet(1 .. Len(q)) /\ Cardinality(1 .. Len(q)) = Len(q)
  BY <1>1, FS_Interval
<1>3. IsFiniteSet(all) /\ Cardinality(all) <= Len(q)
  <2>1. all \in SUBSET (1 .. Len(q))
    BY <1>1
  <2> HIDE DEF all
  <2>. QED
    BY <1>2, <2>1, FS_Subset
<1>4. Cardinality(all) = 0 <=> all = {}
  <2> HIDE DEF all
  <2>. QED
    BY <1>3, FS_EmptySet
<1>. QED
  BY <1>3, <1>4 DEF Counted

\* Two queues with the counted elements at the same places.
LEMMA CountSame ==
  ASSUME NEW S, NEW q \in Seq(S), NEW r \in Seq(S), NEW P,
         Len(q) = Len(r),
         \A k \in 1 .. Len(q) : q[k] \in P <=> r[k] \in P
  PROVE  Counted(q, P) = Counted(r, P)
<1>1. DOMAIN q = 1 .. Len(q) /\ DOMAIN r = 1 .. Len(q)
  OBVIOUS
<1>2. {k \in DOMAIN q : q[k] \in P} = {k \in DOMAIN r : r[k] \in P}
  BY <1>1
<1>. QED
  BY <1>2, Zenon DEF Counted

\* A stack without its top.
LEMMA CountFront ==
  ASSUME NEW S, NEW q \in Seq(S), q # <<>>, NEW P
  PROVE  Counted(Front(q), P) =
           Counted(q, P) - (IF q[Len(q)] \in P THEN 1 ELSE 0)
<1>1. /\ Front(q) \in Seq(S) /\ q[Len(q)] \in S
      /\ q = Append(Front(q), q[Len(q)])
  BY DEF Front
<1> DEFINE front == Front(q)
           top == q[Len(q)]
<1> HIDE DEF front, top
<1>2. Counted(Append(front, top), P) = Counted(front, P) + (IF top \in P THEN 1 ELSE 0)
  BY <1>1, CountPush DEF front, top
<1>3. Counted(front, P) \in Nat
  BY <1>1, CountType DEF front
<1>4. q = Append(front, top)
  BY <1>1 DEF front, top
<1>5. Counted(front, P) = Counted(q, P) - (IF top \in P THEN 1 ELSE 0)
  BY <1>2, <1>3, <1>4
<1>. QED
  BY <1>5 DEF front, top

\* A stack with another top.
LEMMA TopReplaced ==
  ASSUME NEW S, NEW q \in Seq(S), q # <<>>, NEW e \in S
  PROVE  LET r == [q EXCEPT ![Len(q)] = e]
         IN  /\ r \in Seq(S) /\ Len(r) = Len(q) /\ DOMAIN r = DOMAIN q
             /\ r[Len(q)] = e
             /\ \A k \in 1 .. Len(q) - 1 : r[k] = q[k]
             /\ \A P : Counted(r, P) = Counted(q, P)
                         - (IF q[Len(q)] \in P THEN 1 ELSE 0)
                         + (IF e \in P THEN 1 ELSE 0)
<1> DEFINE r == [q EXCEPT ![Len(q)] = e]
<1>1. /\ r \in Seq(S) /\ Len(r) = Len(q) /\ DOMAIN r = DOMAIN q
      /\ r[Len(q)] = e
      /\ \A k \in 1 .. Len(q) - 1 : r[k] = q[k]
  OBVIOUS
<1>2. Front(q) \in Seq(S) /\ r = Append(Front(q), e)
  <2>1. /\ Front(q) \in Seq(S) /\ Len(Front(q)) = Len(q) - 1
        /\ \A k \in 1 .. Len(q) - 1 : Front(q)[k] = q[k]
    BY FrontPlaces
  <2>2. /\ Append(Front(q), e) \in Seq(S) /\ Len(Append(Front(q), e)) = Len(q)
        /\ Append(Front(q), e)[Len(q)] = e
        /\ \A k \in 1 .. Len(q) - 1 : Append(Front(q), e)[k] = q[k]
    BY <2>1
  <2> HIDE DEF r
  <2>3. \A k \in 1 .. Len(q) : Append(Front(q), e)[k] = r[k]
    BY <1>1, <2>2
  <2>. QED
    BY <1>1, <2>1, <2>2, <2>3, SameSeq
<1>3. ASSUME NEW P
      PROVE  Counted(r, P) = Counted(q, P) - (IF q[Len(q)] \in P THEN 1 ELSE 0)
                                           + (IF e \in P THEN 1 ELSE 0)
  <2>1. Counted(Append(Front(q), e), P) = Counted(Front(q), P) + (IF e \in P THEN 1 ELSE 0)
    BY <1>2, CountPush
  <2>2. Counted(Front(q), P) = Counted(q, P) - (IF q[Len(q)] \in P THEN 1 ELSE 0)
    BY CountFront
  <2>3. Counted(q, P) \in Nat
    BY CountType
  <2> HIDE DEF r
  <2>. QED
    BY <1>2, <2>1, <2>2, <2>3
<1>. QED
  BY <1>1, <1>3

(***************************************************************************)
(* Erasing: the recursive function behind Without.                         *)
(***************************************************************************)

\* The function exists, so that it is what its definition says.
LEMMA WithoutRecursion ==
  ASSUME NEW S, NEW q \in Seq(S), NEW e
  PROVE  \E kept :
           /\ Without(q, e) = kept[Len(q)]
           /\ kept[0] = <<>>
           /\ \A n \in 1 .. Len(q) :
                kept[n] = IF q[n] = e THEN kept[n - 1] ELSE Append(kept[n - 1], q[n])
<1> DEFINE Body(f, n) == IF n = 0 THEN <<>>
                         ELSE IF q[n] = e THEN f[n - 1]
                         ELSE Append(f[n - 1], q[n])
           Defined == {n \in Nat : \E f : f = [i \in 0 .. n |-> Body(f, i)]}
           kept == CHOOSE f : f = [i \in 0 .. Len(q) |-> Body(f, i)]
<1>1. Len(q) \in Nat
  BY SeqType
<1>2. 0 \in Defined
  <2> DEFINE f == [i \in 0 .. 0 |-> <<>>]
  <2>1. f = [i \in 0 .. 0 |-> Body(f, i)]
    OBVIOUS
  <2>. QED
    BY <2>1
<1>3. ASSUME NEW n \in 0 .. Len(q) - 1, n \in Defined
      PROVE  n + 1 \in Defined
  <2>1. PICK f : f = [i \in 0 .. n |-> Body(f, i)]
    BY <1>3
  <2> DEFINE g == [i \in 0 .. n + 1 |-> IF i = n + 1 THEN Body(f, i) ELSE f[i]]
  <2>2. \A i \in 0 .. n : f[i] = Body(f, i)
    BY <2>1
  <2>3. \A i \in 0 .. n + 1 : g[i] = Body(g, i)
    BY <2>2
  <2>4. g = [i \in 0 .. n + 1 |-> Body(g, i)]
    <3> HIDE DEF Body
    <3>. QED
      BY <2>3
  <2>5. n + 1 \in Nat
    OBVIOUS
  <2>6. \E h : h = [i \in 0 .. n + 1 |-> Body(h, i)]
    <3> HIDE DEF Body, g
    <3>. QED
      BY <2>4
  <2>. QED
    BY <2>5, <2>6
<1>4. Len(q) \in Defined
  <2> HIDE DEF Defined
  <2>1. \A i \in 0 .. Len(q) : i \in Defined
    BY <1>1, <1>2, <1>3, SetInduction
  <2>. QED
    BY <2>1, <1>1
<1>5. kept = [i \in 0 .. Len(q) |-> Body(kept, i)]
  <2>1. \E f : f = [i \in 0 .. Len(q) |-> Body(f, i)]
    BY <1>4
  <2> HIDE DEF Body
  <2>. QED
    BY <2>1
<1>6. Without(q, e) = kept[Len(q)]
  BY DEF Without
<1> HIDE DEF kept
<1>7. kept[0] = <<>>
  BY <1>1, <1>5
<1>8. ASSUME NEW n \in 1 .. Len(q)
      PROVE  kept[n] = IF q[n] = e THEN kept[n - 1] ELSE Append(kept[n - 1], q[n])
  <2>1. kept[n] = Body(kept, n)
    <3> HIDE DEF Body
    <3>1. n \in 0 .. Len(q)
      BY <1>1
    <3>. QED
      BY <1>5, <3>1
  <2>2. n # 0
    BY <1>1
  <2>. QED
    BY <2>1, <2>2
<1>. QED
  BY <1>6, <1>7, <1>8

\* What is left is in the queue's set, is no longer than the queue, has no e,
\* and everything else as often as before.
LEMMA WithoutProperties ==
  ASSUME NEW S, NEW q \in Seq(S), NEW e
  PROVE  /\ Without(q, e) \in Seq(S)
         /\ Len(Without(q, e)) <= Len(q)
         /\ \A P : Counted(Without(q, e), P) = Counted(q, P \ {e})
<1> DEFINE First(n) == SubSeq(q, 1, n)
<1>1. Len(q) \in Nat
  BY SeqType
<1>2. PICK kept : /\ Without(q, e) = kept[Len(q)]
                  /\ kept[0] = <<>>
                  /\ \A n \in 1 .. Len(q) :
                       kept[n] = IF q[n] = e THEN kept[n - 1]
                                 ELSE Append(kept[n - 1], q[n])
  BY SMTT(30), WithoutRecursion
<1> DEFINE Good(n) == /\ kept[n] \in Seq(S) /\ Len(kept[n]) <= n
                      /\ \A P : Counted(kept[n], P) = Counted(First(n), P \ {e})
           Set == {n \in Nat : Good(n)}
<1>3. Good(0)
  <2>1. kept[0] \in Seq(S) /\ Len(kept[0]) <= 0
    BY <1>2
  <2>2. First(0) = <<>>
    OBVIOUS
  <2> HIDE DEF First
  <2>. QED
    BY <1>2, <2>1, <2>2, CountEmpty
<1>4. ASSUME NEW n \in 0 .. Len(q) - 1, Good(n) PROVE Good(n + 1)
  <2>1. /\ n + 1 \in 1 .. Len(q) /\ (n + 1) - 1 = n /\ n \in Nat
        /\ kept[n + 1] = IF q[n + 1] = e THEN kept[n] ELSE Append(kept[n], q[n + 1])
    <3>1. n + 1 \in 1 .. Len(q) /\ (n + 1) - 1 = n /\ n \in Nat
      BY <1>1
    <3>. QED
      BY <1>2, <3>1
  <2>2. First(n + 1) = Append(First(n), q[n + 1]) /\ First(n) \in Seq(S) /\ q[n + 1] \in S
    BY <1>1, <2>1
  <2>3. kept[n] \in Seq(S) /\ Len(kept[n]) <= n
    BY <1>4
  <2>4. kept[n + 1] \in Seq(S) /\ Len(kept[n + 1]) <= n + 1
    BY <2>1, <2>2, <2>3
  <2>5. ASSUME NEW P
        PROVE  Counted(kept[n + 1], P) = Counted(First(n + 1), P \ {e})
    <3> HIDE DEF First
    <3>1. Counted(First(n + 1), P \ {e}) =
            Counted(First(n), P \ {e}) + (IF q[n + 1] \in P \ {e} THEN 1 ELSE 0)
      <4> DEFINE R == P \ {e}
      <4> HIDE DEF R
      <4>1. Counted(Append(First(n), q[n + 1]), R) =
              Counted(First(n), R) + (IF q[n + 1] \in R THEN 1 ELSE 0)
        BY <2>2, CountPush
      <4>. QED
        BY <4>1, <2>2 DEF R
    <3>2. Counted(Append(kept[n], q[n + 1]), P) =
            Counted(kept[n], P) + (IF q[n + 1] \in P THEN 1 ELSE 0)
      BY <2>2, <2>3, CountPush
    <3>3. Counted(kept[n], P) = Counted(First(n), P \ {e})
      BY <1>4
    <3>4. Counted(First(n), P \ {e}) \in Nat
      BY <2>2, CountType
    <3>. QED
      BY <2>1, <3>1, <3>2, <3>3, <3>4
  <2>. QED
    BY <2>4, <2>5
<1>5. Good(Len(q))
  <2> HIDE DEF Good
  <2>1. \A n \in 0 .. Len(q) : n \in Set
    <3>1. 0 \in Set
      BY <1>3
    <3>2. \A n \in 0 .. Len(q) - 1 : n \in Set => n + 1 \in Set
      BY <1>1, <1>4
    <3> HIDE DEF Set
    <3>. QED
      BY <1>1, <3>1, <3>2, SetInduction
  <2>. QED
    BY <1>1, <2>1
<1>6. First(Len(q)) = q
  BY <1>1
<1>. QED
  <2> HIDE DEF First
  <2>. QED
    BY <1>2, <1>5, <1>6


(***************************************************************************)
(* The elements of a set, in some order.                                   *)
(***************************************************************************)

\* An enumeration without repetitions leaves none of them out.
LEMMA Enumerated ==
  ASSUME NEW S, IsFiniteSet(S), NEW q \in SetToSeqs(S)
  PROVE  /\ q \in Seq(S)
         /\ \A e \in S : \E k \in 1 .. Len(q) : q[k] = e
<1> DEFINE places == 1 .. Cardinality(S)
<1>1. Cardinality(S) \in Nat
  BY FS_CardinalityType
<1>2. q \in [places -> S] /\ \A i, j \in places : i # j => q[i] # q[j]
  BY DEF SetToSeqs
<1>3. q \in Seq(S) /\ Len(q) = Cardinality(S)
  BY <1>1, <1>2, FunctionIsSeq
<1>4. IsFiniteSet(places) /\ Cardinality(places) = Cardinality(S)
  BY <1>1, FS_Interval
<1>5. q \in Injection(places, S)
  BY <1>2 DEF Injection, IsInjective
<1>6. q \in Surjection(places, S)
  BY <1>4, <1>5, FS_Injection
<1>. QED
  BY <1>3, <1>6 DEF Surjection

\* Counting in an enumeration is counting in the set.
LEMMA CountEnumerated ==
  ASSUME NEW S, IsFiniteSet(S), NEW q \in SetToSeqs(S), NEW P
  PROVE  Counted(q, P) = Cardinality(S \cap P)
<1> DEFINE places == {k \in DOMAIN q : q[k] \in P}
           f == [k \in places |-> q[k]]
<1>1. Cardinality(S) \in Nat
  BY FS_CardinalityType
<1>2. /\ q \in [1 .. Cardinality(S) -> S] /\ DOMAIN q = 1 .. Cardinality(S)
      /\ \A i, j \in 1 .. Cardinality(S) : i # j => q[i] # q[j]
  BY DEF SetToSeqs
<1>3. q \in Seq(S) /\ \A e \in S : \E k \in 1 .. Len(q) : q[k] = e
  BY Enumerated
<1>4. \A e \in S : \E k \in DOMAIN q : q[k] = e
  BY <1>3, SeqType
<1>5. f \in Bijection(places, S \cap P)
  <2>1. f \in Injection(places, S \cap P)
    BY <1>2 DEF Injection, IsInjective
  <2>2. \A e \in S \cap P : \E k \in places : f[k] = e
    BY <1>4
  <2>3. f \in Surjection(places, S \cap P)
    BY <2>1, <2>2 DEF Injection, Surjection
  <2>. QED
    BY <2>1, <2>3 DEF Bijection
<1>6. IsFiniteSet(places)
  BY <1>3, CountType
<1>7. ExistsBijection(places, S \cap P)
  BY <1>5 DEF ExistsBijection
<1>8. Cardinality(S \cap P) = Cardinality(places)
  <2> HIDE DEF places
  <2>. QED
    BY <1>6, <1>7, FS_Bijection
<1>. QED
  BY <1>8 DEF Counted

\* Something else in the middle of a sequence.
LEMMA MiddleReplaced ==
  ASSUME NEW S, NEW o \in Seq(S), NEW more \in Seq(S), NEW a \in S, NEW b \in S,
         NEW p \in Seq(S), p = Append(o, a) \o more,
         NEW q \in Seq(S), q = Append(o, b) \o more
  PROVE  /\ Len(q) = Len(p)
         /\ Len(o) + 1 \in 1 .. Len(p) /\ p[Len(o) + 1] = a /\ q[Len(o) + 1] = b
         /\ \A k \in 1 .. Len(p) : k # Len(o) + 1 => q[k] = p[k]
<1>1. PICK x \in Seq(S) : x = Append(o, a)
  BY PushType
<1>2. PICK y \in Seq(S) : y = Append(o, b)
  BY PushType
<1>3. p = x \o more /\ p \in Seq(S)
  BY <1>1, ConcatPlaces
<1>4. q = y \o more /\ q \in Seq(S)
  BY <1>2, ConcatPlaces
<1>5. PICK i \in Nat \ {0} : i = Len(o) + 1
  BY SeqType
<1>6. /\ Len(x) = i /\ x[i] = a /\ \A k \in 1 .. i - 1 : x[k] = o[k]
      /\ Len(y) = i /\ y[i] = b /\ \A k \in 1 .. i - 1 : y[k] = o[k]
  <2>1. Len(o) \in Nat /\ i - 1 = Len(o)
    BY <1>5, SeqType
  <2>. QED
    BY <1>1, <1>2, <1>5, <2>1, PushPlaces
<1>7. /\ Len(p) = i + Len(more) /\ \A k \in 1 .. i : p[k] = x[k]
      /\ \A k \in 1 .. Len(more) : p[i + k] = more[k]
  <2>1. /\ Len(x \o more) = Len(x) + Len(more)
        /\ \A k \in 1 .. Len(x) : (x \o more)[k] = x[k]
        /\ \A k \in 1 .. Len(more) : (x \o more)[Len(x) + k] = more[k]
    BY ConcatPlaces
  <2>. QED
    BY <1>3, <1>6, <2>1
<1>8. /\ Len(q) = i + Len(more) /\ \A k \in 1 .. i : q[k] = y[k]
      /\ \A k \in 1 .. Len(more) : q[i + k] = more[k]
  <2>1. /\ Len(y \o more) = Len(y) + Len(more)
        /\ \A k \in 1 .. Len(y) : (y \o more)[k] = y[k]
        /\ \A k \in 1 .. Len(more) : (y \o more)[Len(y) + k] = more[k]
    BY ConcatPlaces
  <2>. QED
    BY <1>4, <1>6, <2>1
<1>9. Len(more) \in Nat
  BY SeqType
<1>10. i \in 1 .. Len(p) /\ p[i] = a
  BY <1>6, <1>7, <1>9
<1>11. ASSUME NEW k \in 1 .. Len(p), k # i PROVE q[k] = p[k]
  <2>1. CASE k < i
    <3>1. k \in 1 .. i - 1 /\ k \in 1 .. i
      BY <2>1
    <3>. QED
      BY <1>6, <1>7, <1>8, <3>1
  <2>2. CASE k > i
    <3>1. PICK n \in 1 .. Len(more) : i + n = k
      <4>1. k - i \in 1 .. Len(more) /\ i + (k - i) = k
        BY <1>7, <1>9, <2>2
      <4>. QED
        BY <4>1
    <3>2. p[i + n] = more[n] /\ q[i + n] = more[n]
      BY <1>7, <1>8
    <3>3. p[k] = more[n] /\ q[k] = more[n]
      BY <3>1, <3>2
    <3>. QED
      BY <3>3
  <2>. QED
    <3>1. Len(p) \in Nat
      BY <1>7, <1>9
    <3>. QED
      BY <1>11, <2>1, <2>2, <3>1
<1>12. i \in 1 .. i
  OBVIOUS
<1>. QED
  BY <1>3, <1>4, <1>5, <1>6, <1>7, <1>8, <1>10, <1>11, <1>12
=============================================================================
