---------------------------- MODULE PawnCalls_proofs ----------------------------
(***************************************************************************)
(* Proofs about PawnCalls, for any signatures and any number of calls,     *)
(* one after another or nested.                                            *)
(***************************************************************************)
EXTENDS PawnCalls, QueueLemmas

(***************************************************************************)
(* The inductive invariant.  A call that no script has disturbed is the    *)
(* innermost one, and finds in the buffer, and in the parameters, what it  *)
(* has put there.                                                          *)
(***************************************************************************)
\* References stand behind the other arguments.
Accepts(s) == \A j, k \in DOMAIN s : j < k /\ s[j] \in Reference => s[k] \in Reference

\* The slots that have been converted.
Done(f) == f.index + f.offset

\* The frames, when the parameters have had n blocks.
FrameOK(f, n) ==
  /\ f.offset <= f.index /\ f.index <= Len(f.sig)
  /\ f.at \in {"toString", "getter"} => f.index < Len(f.sig)
  /\ InHandler(f) => f.block \in 1 .. n /\ f.index = Len(f.sig) /\ f.count = Done(f)
  /\ f.at = "result" => f.place \in Slot
  /\ f.at # "result" => f.got = 0 /\ f.wrote = {}

Below(frames) == \A k \in DOMAIN frames : frames[k].disturbed /\ frames[k].at # "convert"

FrameInv ==
  /\ blocks # <<>>
  /\ \A k \in DOMAIN stack : FrameOK(stack[k], Len(blocks))
  /\ stack # <<>> => Below(Under)

\* What call f has in slot k of the buffer: of an array, if an exception is
\* pending, it may be a part.
Holds(f, k) ==
  /\ format[k] = f.sig[k]
  /\ f.sig[k] = "i" => number[k] = Passed(f.call, k)
  /\ f.sig[k] = "s" => text[k] = Passed(f.call, k)
  /\ f.sig[k] = "a" => \/ list[k] = Passed(f.call, k)
                       \/ f.threw /\ list[k] = Part(f.call, k)

ReturnFormat(letter) == IF letter = "I" THEN "r" ELSE "S"

\* The types are the call's own, and so are the formats of its references.
OwnTypes(f) ==
  /\ Accepts(f.sig)
  /\ \A k \in DOMAIN f.sig : signature[k] = f.sig[k]
  /\ f.offset > 0 =>
       /\ f.index > Arguments(f.sig)
       /\ \E k \in DOMAIN f.sig : f.sig[k] = "S"
  /\ Regular(f.sig) =>
       \A k \in Asked(f.sig) : k <= Done(f) => format[k] = ReturnFormat(f.sig[k])

\* A length follows each string that is asked for, and takes the last slot.
OwnLengths(f) ==
  /\ f.offset > 0 => f.offset = 1 /\ f.index = Len(f.sig) /\ format[Done(f)] = "i"
  /\ \A k \in DOMAIN f.sig : f.sig[k] = "S" /\ k <= Done(f) =>
       k < Done(f) /\ number[k + 1] = Length

OwnValues(f) ==
  /\ \A k \in 1 .. Done(f) : format[k] # "0"
  /\ \A k \in 1 .. Arguments(f.sig) : k <= Done(f) => Holds(f, k)
  /\ Regular(f.sig) => OwnLengths(f)
  /\ f.at = "toString" => signature[Here(f)] = "s"
  /\ f.at = "getter" => signature[Here(f)] = "a"

\* The parameters are the call's own, each reference has its own address, and
\* what has been stored is there.
OwnParameters(f) ==
  /\ f.block = Len(blocks) /\ Params[0] = Bytes(f.count)
  /\ Regular(f.sig) =>
       \A k \in Asked(f.sig) :
         /\ Params[k][1] = "address"
         /\ \A j \in Asked(f.sig) : Params[j][2] = Params[k][2] => j = k
  /\ Regular(f.sig) /\ f.wrote \subseteq Asked(f.sig) =>
       \A k \in f.wrote : Read(heap, Params[k]) = Written(f.call, k)

\* How far the values a handler returned have been read, if it is still there.
OwnResult(f) ==
  /\ f.handlers <= handlers
  /\ f.at = "result" /\ f.handlers = handlers =>
       /\ f.place \in Asked(handler)
       /\ f.got = Cardinality({k \in Asked(handler) : k < f.place})

Own(f) ==
  OwnTypes(f) /\ IF InHandler(f) THEN OwnParameters(f) /\ OwnResult(f) ELSE OwnValues(f)

TopInv == ~ended /\ stack # <<>> /\ ~Top.disturbed => Own(Top)

\* What handlers have taken of the heap.
PointsOf(frames) == {k \in DOMAIN frames : InHandler(frames[k])} \cup {Len(frames) + 1}
LevelOf(frames, h, k) == IF k \in DOMAIN frames THEN frames[k].stored_hea ELSE h

Balanced(frames, h) ==
  \A k \in PointsOf(frames) :
    /\ (\A j \in PointsOf(frames) : k <= j) => LevelOf(frames, h, k) = 0
    /\ \A j \in PointsOf(frames) : j <= k => LevelOf(frames, h, j) <= LevelOf(frames, h, k)

Exact(frames, h) ==
  \A k \in DOMAIN frames : InHandler(frames[k]) /\ ~frames[k].mixed /\ Regular(frames[k].sig) =>
    \A j \in PointsOf(frames) : k < j /\ (\A i \in PointsOf(frames) : k < i => j <= i) =>
      LevelOf(frames, h, j) = frames[k].stored_hea + Demand(frames[k].call, frames[k].sig)

HeapInv == Balanced(stack, hea) /\ Exact(stack, hea)

CallInv ==
  /\ PawnTypeOK /\ FrameInv /\ TopInv /\ HeapInv
  /\ SeesItsArguments /\ ReturnsItsOwn /\ EndsForItsOwn

(***************************************************************************)
(* Constants, values and signatures.                                       *)
(***************************************************************************)

\* The bounds are numbers.
LEMMA Bounds ==
  /\ MaxCalls \in Nat \ {0} /\ MaxHandlers \in Nat \ {0} /\ MaxSlots \in Nat \ {0}
  /\ HeapCells \in Nat \ {0} /\ StringCells \in Nat \ {0} /\ MaxSpill \in Nat
  BY PawnAssumption

\* Every value has its place in Value, and a length is not an argument.
LEMMA Values ==
  /\ Zero \in Value /\ Wild \in Value /\ Undefined \in Value /\ Length \in Value
  /\ \A n \in Nat : Bytes(n) \in Value /\ Address(n) \in Value
  /\ \A c \in 1 .. MaxCalls, k \in Slot :
       Passed(c, k) \in Value /\ Part(c, k) \in Value /\ Written(c, k) \in Value
  /\ \A a : Address(a)[1] = "address" /\ Address(a)[2] = a
  /\ \A n : Bytes(n)[1] # "address" /\ Bytes(n)[2] = n
  BY DEF Zero, Wild, Undefined, Length, Bytes, Address, Passed, Part, Written, Value

\* The second component of a value is a number.
LEMMA SecondType ==
  ASSUME NEW v \in Value
  PROVE  v[2] \in Nat
<1>1. CASE v \in {Zero, Wild, Undefined, Length}
  BY <1>1 DEF Zero, Wild, Undefined, Length
<1>2. CASE v \in {"bytes", "address"} \X Nat \X {0}
  BY <1>2
<1>3. CASE v \in {"passed", "part", "written"} \X (1 .. MaxCalls) \X Slot
  BY <1>3, Bounds
<1>. QED
  BY <1>1, <1>2, <1>3 DEF Value

\* A value is a number, and a text takes cells.
LEMMA NumberType ==
  ASSUME NEW v \in Value
  PROVE  Number(v) \in Int /\ TextCells(v) \in Nat \ {0}
<1>1. Number(v) \in Int
  <2>1. CASE v = Length
    BY <2>1, Bounds DEF Number
  <2>2. CASE v # Length /\ v[1] \in {"passed", "written"}
    <3>1. v \in {"passed", "part", "written"} \X (1 .. MaxCalls) \X Slot
      BY <2>2 DEF Value, Zero, Wild, Undefined, Length
    <3>2. <<v[2], v[3]>> \in (1 .. MaxCalls) \X (1 .. MaxSlots)
      BY <3>1 DEF Slot
    <3>3. Amount[<<v[2], v[3]>>] \in Int
      BY <3>2, PawnAssumption
    <3>. QED
      BY <2>2, <3>3 DEF Number
  <2>3. CASE v # Length /\ v[1] \notin {"passed", "written"}
    BY <2>3 DEF Number
  <2>. QED
    BY <2>1, <2>2, <2>3
<1>2. TextCells(v) \in {10, 1} \cup (1 .. StringCells)
  BY DEF TextCells
<1>. QED
  BY <1>1, <1>2, Bounds

\* A signature that scripts use, that of no arguments among them.
LEMMA SignatureType ==
  ASSUME NEW s \in Signatures \cup {<<>>}
  PROVE  /\ s \in Seq(Letter) /\ Len(s) \in Nat /\ DOMAIN s = 1 .. Len(s)
         /\ \A k \in 1 .. Len(s) : s[k] \in Letter
         /\ 2 * Len(s) < MaxSlots /\ Len(s) < MaxSlots
<1>1. s \in Seq(Letter) /\ 2 * Len(s) < MaxSlots
  <2>1. CASE s \in Signatures
    BY <2>1, PawnAssumption
  <2>2. CASE s = <<>>
    <3>1. <<>> \in Seq(Letter) /\ Len(<<>>) = 0
      OBVIOUS
    <3>. QED
      BY <2>2, <3>1, Bounds
  <2>. QED
    BY <2>1, <2>2
<1>2. /\ Len(s) \in Nat /\ DOMAIN s = 1 .. Len(s)
      /\ \A k \in 1 .. Len(s) : s[k] \in Letter
  BY <1>1, SeqType
<1>. QED
  BY <1>1, <1>2, Bounds

\* The signature of the provided native has at most as many letters.
LEMMA HandlerType ==
  ASSUME handler \in Provided \cup {NoHandler}
  PROVE  /\ Len(handler) \in Nat /\ DOMAIN handler = 1 .. Len(handler)
         /\ Len(handler) <= MaxSlots
<1>1. CASE handler \in Provided
  <2>1. handler \in Seq(Letter \ {"a"}) /\ 2 * Len(handler) < MaxSlots
    BY <1>1, PawnAssumption
  <2>2. Len(handler) \in Nat /\ DOMAIN handler = 1 .. Len(handler)
    BY <2>1, SeqType
  <2>. QED
    BY <2>1, <2>2, Bounds
<1>2. CASE handler = NoHandler
  BY <1>2, Bounds DEF NoHandler
<1>. QED
  BY <1>1, <1>2

\* Some letters of a signature are finitely many.
LEMMA SizeType ==
  ASSUME NEW S, NEW s \in Seq(S), NEW letters
  PROVE  /\ Size(s, letters) \in 0 .. Len(s)
         /\ Size(s, letters) = 0 <=> \A k \in DOMAIN s : s[k] \notin letters
<1>1. Len(s) \in Nat /\ DOMAIN s = 1 .. Len(s)
  BY SeqType
<1>2. PICK places \in SUBSET (1 .. Len(s)) : places = {k \in DOMAIN s : s[k] \in letters}
  BY <1>1
<1>3. IsFiniteSet(1 .. Len(s)) /\ Cardinality(1 .. Len(s)) = Len(s)
  <2>1. 1 \in Int /\ Len(s) \in Int /\ Len(s) - 1 + 1 = Len(s) /\ (1 > Len(s) => Len(s) = 0)
    BY <1>1
  <2>. QED
    BY <2>1, FS_Interval
<1>4. IsFiniteSet(places) /\ Cardinality(places) <= Len(s) /\ Cardinality(places) \in Nat
  BY <1>3, FS_Subset, FS_CardinalityType
<1>5. Cardinality(places) = 0 <=> places = {}
  BY <1>4, FS_EmptySet
<1>6. Size(s, letters) = Cardinality(places)
  BY <1>2 DEF Size
<1>. QED
  BY <1>1, <1>2, <1>4, <1>5, <1>6

\* Where the references of an accepted signature begin.
LEMMA ReferencesLast ==
  ASSUME NEW s \in Seq(Letter), Accepts(s)
  PROVE  /\ Arguments(s) \in 0 .. Len(s) /\ References(s) = Len(s) - Arguments(s)
         /\ \A k \in 1 .. Len(s) : k \in Asked(s) <=> k > Arguments(s)
         /\ Asked(s) = Arguments(s) + 1 .. Len(s)
<1>1. /\ Len(s) \in Nat /\ DOMAIN s = 1 .. Len(s)
      /\ \A k \in 1 .. Len(s) : s[k] \in Letter
  BY SeqType
<1>2. PICK a \in 0 .. Len(s) : \A k \in 1 .. Len(s) : s[k] \in Reference <=> k > a
  <2> DEFINE refs == {k \in 1 .. Len(s) : s[k] \in Reference}
  <2>1. CASE refs = {}
    <3>1. \A k \in 1 .. Len(s) : s[k] \in Reference <=> k > Len(s)
      BY <1>1, <2>1
    <3>2. Len(s) \in 0 .. Len(s)
      BY <1>1
    <3>. QED
      BY <3>1, <3>2
  <2>2. CASE refs # {}
    <3>1. PICK m \in refs : \A k \in refs : m <= k
      <4>1. refs \in SUBSET Nat
        BY <1>1
      <4> HIDE DEF refs
      <4>. QED
        BY <2>2, <4>1, LeastNatural
    <3>2. \A k \in 1 .. Len(s) : s[k] \in Reference <=> k > m - 1
      BY <1>1, <3>1 DEF Accepts
    <3>3. m - 1 \in 0 .. Len(s)
      BY <1>1, <3>1
    <3>. QED
      BY <3>2, <3>3
  <2>. QED
    BY <2>1, <2>2
<1>3. {k \in DOMAIN s : s[k] \in Letter \ Reference} = 1 .. a
  BY <1>1, <1>2
<1>4. {k \in DOMAIN s : s[k] \in Reference} = a + 1 .. Len(s)
  BY <1>1, <1>2
<1>5. Cardinality(1 .. a) = a /\ Cardinality(a + 1 .. Len(s)) = Len(s) - a
  <2>1. Len(s) \in Nat /\ a \in Nat /\ a <= Len(s)
    BY <1>1
  <2>2. /\ 1 \in Int /\ a \in Int /\ a + 1 \in Int /\ Len(s) \in Int
        /\ a - 1 + 1 = a /\ (1 > a => a = 0)
        /\ Len(s) - (a + 1) + 1 = Len(s) - a /\ (a + 1 > Len(s) => Len(s) - a = 0)
    BY <2>1
  <2>. QED
    BY <2>2, FS_Interval
<1>6. Arguments(s) = a /\ References(s) = Len(s) - a
  BY <1>3, <1>4, <1>5 DEF Arguments, References, Size
<1>7. Asked(s) = a + 1 .. Len(s)
  BY <1>4 DEF Asked
<1>. QED
  BY <1>1, <1>2, <1>6, <1>7

\* ParseSignature accepts all letters when references stand behind the others.
LEMMA AcceptedType ==
  ASSUME NEW s \in Seq(Letter)
  PROVE  /\ Accepted(s) \in 0 .. Len(s)
         /\ Accepted(s) = Len(s) => Accepts(s)
<1>1. Len(s) \in Nat /\ DOMAIN s = 1 .. Len(s)
  BY SeqType
<1> DEFINE wrong == {k \in DOMAIN s : s[k] \notin Reference /\ \E j \in 1 .. k - 1 : s[j] \in Reference}
<1>2. CASE wrong = {}
  <2>1. Accepted(s) = Len(s)
    BY <1>2 DEF Accepted
  <2>2. Accepts(s)
    BY <1>1, <1>2 DEF Accepts
  <2>. QED
    BY <1>1, <2>1, <2>2
<1>3. CASE wrong # {}
  <2>1. \E k \in wrong : \A j \in wrong : k <= j
    <3>1. wrong \in SUBSET Nat
      BY <1>1
    <3> HIDE DEF wrong
    <3>. QED
      BY <1>3, <3>1, LeastNatural
  <2>2. PICK m : m = CHOOSE k \in wrong : \A j \in wrong : k <= j
    OBVIOUS
  <2>3. m \in wrong
    BY <2>1, <2>2
  <2>4. Accepted(s) = m - 1
    BY <1>3, <2>2 DEF Accepted
  <2>. QED
    BY <1>1, <2>3, <2>4
<1>. QED
  BY <1>2, <1>3

(***************************************************************************)
(* Where the slots are on the heap.                                        *)
(***************************************************************************)

\* The cells that finitely many slots take are finitely many.
LEMMA Boxes ==
  ASSUME NEW S, IsFiniteSet(S), NEW c \in [S -> Int]
  PROVE  IsFiniteSet(UNION {{j} \X (1 .. c[j]) : j \in S})
<1>1. PICK boxes : boxes = {{j} \X (1 .. c[j]) : j \in S}
  OBVIOUS
<1>2. \A box \in boxes : IsFiniteSet(box)
  <2> SUFFICES ASSUME NEW j \in S PROVE IsFiniteSet({j} \X (1 .. c[j]))
    BY <1>1
  <2>1. 1 \in Int /\ c[j] \in Int
    OBVIOUS
  <2>2. IsFiniteSet({j}) /\ IsFiniteSet(1 .. c[j])
    BY <2>1, FS_Singleton, FS_Interval
  <2>. QED
    BY <2>2, FS_Product
<1>3. PICK f : f = [j \in S |-> {j} \X (1 .. c[j])]
  OBVIOUS
<1>4. f \in Surjection(S, boxes)
  BY <1>1, <1>3 DEF Surjection
<1>5. IsFiniteSet(boxes)
  BY <1>4, FS_Surjection
<1>6. IsFiniteSet(UNION boxes)
  BY <1>2, <1>5, FS_UNION
<1>. QED
  BY <1>1, <1>6

CellsBefore(i) == UNION {{j} \X (1 .. Cells(j)) : j \in 1 .. i - 1}

\* A slot takes no cells if it is a number, and one or more if it is a text.
LEMMA CellsType ==
  ASSUME PawnTypeOK, NEW i \in 1 .. MaxSlots - 1
  PROVE  /\ Cells(i) \in Int
         /\ format[i] \in {"0", "i"} => Cells(i) = 0
         /\ format[i] \in {"r", "s"} => Cells(i) > 0
         /\ format[i] = "r" => Cells(i) = 1
         /\ i \in Slot /\ i + 1 \in Slot /\ format[i] \in Format
<1>1. i \in Slot /\ i + 1 \in Slot
  BY Bounds DEF Slot
<1>2. text[i] \in Value /\ number[i + 1] \in Value /\ format[i] \in Format
  BY <1>1 DEF PawnTypeOK
<1>3. TextCells(text[i]) \in Nat \ {0} /\ Number(number[i + 1]) \in Int
  <2> HIDE DEF Value
  <2>. QED
    BY <1>2, NumberType
<1>. QED
  BY <1>1, <1>2, <1>3 DEF Cells, Format

\* There are finitely many cells before a slot.
LEMMA CellsFinite ==
  ASSUME PawnTypeOK, NEW i \in 0 .. MaxSlots
  PROVE  IsFiniteSet(CellsBefore(i)) /\ Cardinality(CellsBefore(i)) \in Nat
<1>1. PICK S : S = 1 .. i - 1
  OBVIOUS
<1>2. \A j \in S : Cells(j) \in Int
  <2> SUFFICES ASSUME NEW j \in 1 .. i - 1 PROVE Cells(j) \in Int
    BY <1>1
  <2>1. j \in 1 .. MaxSlots - 1
    BY Bounds
  <2>. QED
    BY <2>1, CellsType
<1>3. IsFiniteSet(S)
  <2>1. 1 \in Int /\ i - 1 \in Int
    BY Bounds
  <2>. QED
    BY <1>1, <2>1, FS_Interval
<1>4. PICK c \in [S -> Int] : c = [j \in S |-> Cells(j)]
  BY <1>2
<1>5. CellsBefore(i) = UNION {{j} \X (1 .. c[j]) : j \in S}
  <2>1. \A j \in S : c[j] = Cells(j)
    BY <1>4
  <2>. QED
    BY <1>1, <2>1 DEF CellsBefore
<1>. QED
  BY <1>3, <1>5, Boxes, FS_CardinalityType

\* Bases are addresses, from hea on.
LEMMA BaseType ==
  ASSUME PawnTypeOK, NEW i \in 0 .. MaxSlots
  PROVE  Base(i) \in Nat /\ hea <= Base(i)
<1>1. Base(i) = hea + Cardinality(CellsBefore(i))
  BY DEF Base, CellsBefore
<1>2. hea \in Nat
  BY DEF PawnTypeOK
<1>. QED
  BY <1>1, <1>2, CellsFinite

\* The cells of a slot are behind those of the slots before it.
LEMMA BaseGrows ==
  ASSUME PawnTypeOK, NEW i \in 1 .. MaxSlots - 1, NEW j \in 1 .. MaxSlots, i < j
  PROVE  Base(i) <= Base(j) /\ (Cells(i) > 0 => Base(i) + Cells(i) <= Base(j))
<1> DEFINE own == {i} \X (1 .. Cells(i))
<1>1. CellsBefore(i) \in SUBSET CellsBefore(j)
  BY Bounds DEF CellsBefore
<1>2. own \in SUBSET CellsBefore(j)
  BY Bounds DEF CellsBefore
<1>3. CellsBefore(i) \cap own = {}
  BY Bounds DEF CellsBefore
<1>4. /\ IsFiniteSet(CellsBefore(j)) /\ Cardinality(CellsBefore(j)) \in Nat
      /\ IsFiniteSet(CellsBefore(i)) /\ Cardinality(CellsBefore(i)) \in Nat
  <2>1. i \in 0 .. MaxSlots /\ j \in 0 .. MaxSlots
    BY Bounds
  <2>. QED
    BY <2>1, CellsFinite
<1>5. Cardinality(CellsBefore(i)) <= Cardinality(CellsBefore(j))
  BY <1>1, <1>4, FS_Subset
<1>6. /\ Base(i) = hea + Cardinality(CellsBefore(i))
      /\ Base(j) = hea + Cardinality(CellsBefore(j)) /\ hea \in Nat
  BY DEF Base, CellsBefore, PawnTypeOK
<1>7. ASSUME Cells(i) > 0
      PROVE  Base(i) + Cells(i) <= Base(j)
  <2>1. Cells(i) \in Nat \ {0}
    BY <1>7, CellsType
  <2>2. IsFiniteSet(own) /\ Cardinality(own) = Cells(i)
    <3>1. /\ 1 \in Int /\ Cells(i) \in Int /\ Cells(i) - 1 + 1 = Cells(i) /\ ~(1 > Cells(i))
      BY <2>1
    <3>2. IsFiniteSet(1 .. Cells(i)) /\ Cardinality(1 .. Cells(i)) = Cells(i)
      BY <3>1, FS_Interval
    <3>3. IsFiniteSet({i}) /\ Cardinality({i}) = 1
      BY FS_Singleton
    <3>4. IsFiniteSet(own) /\ Cardinality(own) = Cardinality({i}) * Cardinality(1 .. Cells(i))
      BY <3>2, <3>3, FS_Product
    <3>. QED
      BY <2>1, <3>2, <3>3, <3>4
  <2>3. /\ IsFiniteSet(CellsBefore(i) \cup own)
        /\ Cardinality(CellsBefore(i) \cup own) =
             Cardinality(CellsBefore(i)) + Cells(i)
    <3>1. Cardinality(CellsBefore(i) \cap own) = 0
      BY <1>3, FS_EmptySet
    <3>2. /\ IsFiniteSet(CellsBefore(i) \cup own)
          /\ Cardinality(CellsBefore(i) \cup own) =
               Cardinality(CellsBefore(i)) + Cardinality(own) - Cardinality(CellsBefore(i) \cap own)
      <4> HIDE DEF own
      <4>. QED
        BY <1>4, <2>2, FS_Union
    <3> HIDE DEF own
    <3>. QED
      BY <1>4, <2>1, <2>2, <3>1, <3>2
  <2>4. Cardinality(CellsBefore(i) \cup own) <= Cardinality(CellsBefore(j))
    <3>1. CellsBefore(i) \cup own \in SUBSET CellsBefore(j)
      BY <1>1, <1>2
    <3>. QED
      BY <1>4, <3>1, FS_Subset
  <2> HIDE DEF own
  <2>. QED
    BY <1>4, <1>6, <2>1, <2>3, <2>4
<1>. QED
  BY <1>4, <1>5, <1>6, <1>7

\* Slots have no cell in common.
LEMMA PlacesApart ==
  ASSUME PawnTypeOK, NEW i \in 1 .. MaxSlots - 1, NEW j \in 1 .. MaxSlots - 1,
         NEW a \in Place(i), a \in Place(j)
  PROVE  i = j
<1>1. /\ Base(i) \in Nat /\ Base(j) \in Nat /\ Cells(i) \in Int /\ Cells(j) \in Int
      /\ i \in 1 .. MaxSlots /\ j \in 1 .. MaxSlots
  <2>1. i \in 0 .. MaxSlots /\ j \in 0 .. MaxSlots /\ i \in 1 .. MaxSlots /\ j \in 1 .. MaxSlots
    BY Bounds
  <2>. QED
    BY <2>1, BaseType, CellsType
<1>2. /\ a \in Int /\ Base(i) <= a /\ a <= Base(i) + Cells(i) - 1
      /\ Base(j) <= a /\ a <= Base(j) + Cells(j) - 1 /\ Cells(i) > 0 /\ Cells(j) > 0
  BY <1>1 DEF Place
<1>3. ~(i < j)
  <2> SUFFICES ASSUME i < j PROVE FALSE
    OBVIOUS
  <2>1. Base(i) + Cells(i) <= Base(j)
    BY <1>1, <1>2, BaseGrows
  <2>. QED
    BY <1>1, <1>2, <2>1
<1>4. ~(j < i)
  <2> SUFFICES ASSUME j < i PROVE FALSE
    OBVIOUS
  <2>1. Base(j) + Cells(j) <= Base(i)
    BY <1>1, <1>2, BaseGrows
  <2>. QED
    BY <1>1, <1>2, <2>1
<1>. QED
  BY <1>3, <1>4, Bounds

\* A slot that takes cells begins with one of them.
LEMMA PlaceType ==
  ASSUME PawnTypeOK, NEW i \in 1 .. MaxSlots - 1
  PROVE  /\ \A a \in Place(i) : a \in Nat
         /\ Cells(i) > 0 => Base(i) \in Place(i)
         /\ Base(i) \in Nat
<1>1. i \in 0 .. MaxSlots
  BY Bounds
<1>2. Base(i) \in Nat /\ Cells(i) \in Int
  BY <1>1, BaseType, CellsType
<1>. QED
  BY <1>2 DEF Place

\* Two slots that take cells begin at different addresses.
LEMMA BaseInjective ==
  ASSUME PawnTypeOK, NEW i \in 1 .. MaxSlots - 1, NEW j \in 1 .. MaxSlots - 1,
         Cells(i) > 0, Cells(j) > 0, Base(i) = Base(j)
  PROVE  i = j
  BY PlaceType, PlacesApart

(***************************************************************************)
(* What CallFunction makes of the buffer.                                  *)
(***************************************************************************)
Block == [capacity : Nat, cells : [0 .. MaxSlots -> Value]]

IsHeap(h) == DOMAIN h \subseteq Nat /\ \A a \in DOMAIN h : h[a] \in Value

\* The storage that calls share.
LEMMA Storage ==
  ASSUME PawnTypeOK
  PROVE  /\ signature \in [Slot -> Letter]
         /\ number \in [Slot -> Value] /\ text \in [Slot -> Value] /\ list \in [Slot -> Value]
         /\ blocks \in Seq(Block) /\ IsHeap(heap) /\ hea \in Nat
         /\ handler \in Provided \cup {NoHandler}
  BY DEF PawnTypeOK, Block, IsHeap, Range

\* The parameters in use are those of the last block.
LEMMA LastBlock ==
  ASSUME NEW b \in Seq(Block), b # <<>>
  PROVE  /\ Last(b) \in Block /\ Last(b) = b[Len(b)]
         /\ Last(b).cells \in [0 .. MaxSlots -> Value]
         /\ Len(b) \in Nat \ {0} /\ DOMAIN b = 1 .. Len(b)
<1> HIDE DEF Block
<1>1. Len(b) \in Nat \ {0} /\ DOMAIN b = 1 .. Len(b) /\ \A k \in 1 .. Len(b) : b[k] \in Block
  BY SeqType
<1>2. Last(b) = b[Len(b)]
  BY DEF Last
<1>3. \A x \in Block : x.cells \in [0 .. MaxSlots -> Value]
  BY DEF Block
<1>. QED
  BY <1>1, <1>2, <1>3

\* Cells are written on top of a heap.
LEMMA StoredType ==
  ASSUME NEW c, NEW h, IsHeap(c), IsHeap(h)
  PROVE  IsHeap(Stored(c, h))
  BY DEF IsHeap, Stored

\* Parameters are pushed in order, up to the first array without a length.
LEMMA PushedSlots ==
  ASSUME NEW n \in 0 .. MaxSlots - 1
  PROVE  /\ Pushed(n) \subseteq 1 .. n /\ Pushed(n) \subseteq 1 .. MaxSlots - 1
         /\ LacksLength(n) = {} => Pushed(n) = 1 .. n
<1>1. CASE LacksLength(n) = {}
  BY <1>1, Bounds DEF Pushed, Slot
<1>2. CASE LacksLength(n) # {}
  <2>1. PICK m \in LacksLength(n) : \A k \in LacksLength(n) : m <= k
    <3>1. LacksLength(n) \in SUBSET Nat
      BY DEF LacksLength
    <3>. QED
      BY <1>2, <3>1, LeastNatural
  <2>2. \E x \in LacksLength(n) : \A y \in LacksLength(n) : x <= y
    BY <2>1
  <2>3. Min(LacksLength(n)) \in LacksLength(n)
    BY <2>2 DEF Min
  <2>4. Min(LacksLength(n)) \in 1 .. n
    BY <2>3 DEF LacksLength
  <2>. QED
    BY <1>2, <2>4, Bounds DEF Pushed, Slot
<1>. QED
  BY <1>1, <1>2

\* What goes on the heap for a slot is a value.
LEMMA ContentType ==
  ASSUME PawnTypeOK, NEW i \in Slot
  PROVE  Content(i) \in Value
<1>1. number[i] \in Value /\ text[i] \in Value /\ list[i] \in Value
  BY Storage
<1> HIDE DEF Value
<1>. QED
  BY <1>1 DEF Content

\* The parameters of a call are values, and say how many they are.
LEMMA FilledType ==
  ASSUME PawnTypeOK, blocks # <<>>, NEW n \in 0 .. MaxSlots - 1
  PROVE  Filled(n) \in [0 .. MaxSlots -> Value] /\ Filled(n)[0] = Bytes(n)
<1>1. Params \in [0 .. MaxSlots -> Value]
  BY Storage, LastBlock DEF Params
<1>2. ASSUME NEW i \in 0 .. MaxSlots PROVE Filled(n)[i] \in Value
  <2>1. Filled(n)[i] = IF i = 0 THEN Bytes(n)
                       ELSE IF i \notin Pushed(n) THEN Resized(n)[i]
                       ELSE IF format[i] = "i" THEN number[i] ELSE Address(Base(i))
    BY DEF Filled
  <2>2. Resized(n)[i] = IF i \in Params[0][2] + 1 .. n THEN Zero ELSE Params[i]
    BY DEF Resized
  <2>3. Resized(n)[i] \in Value
    <3> HIDE DEF Value
    <3>. QED
      BY <1>1, <2>2, Values
  <2>4. Bytes(n) \in Value
    BY Values
  <2>5. i # 0 => number[i] \in Value /\ Address(Base(i)) \in Value
    <3>1. i # 0 => i \in Slot
      BY Bounds DEF Slot
    <3>2. Base(i) \in Nat
      BY BaseType
    <3>. QED
      BY <3>1, <3>2, Storage, Values
  <2> HIDE DEF Value
  <2>. QED
    BY <2>1, <2>3, <2>4, <2>5
<1>3. Filled(n)[0] = Bytes(n)
  BY Bounds DEF Filled
<1>. QED
  BY <1>2, <1>3 DEF Filled

\* They are in the last of the blocks params_ has had, old or new.
LEMMA FilledBlocksType ==
  ASSUME PawnTypeOK, blocks # <<>>, NEW n \in 0 .. MaxSlots - 1
  PROVE  /\ FilledBlocks(n) \in Seq(Block) /\ FilledBlocks(n) # <<>>
         /\ Len(FilledBlocks(n)) \in Nat /\ Len(FilledBlocks(n)) >= Len(blocks)
         /\ Last(FilledBlocks(n)).cells = Filled(n)
<1>1. PICK b \in Seq(Block) : b = blocks /\ b # <<>>
  BY Storage
<1>2. PICK now \in Block : now = Last(blocks)
  BY <1>1, LastBlock
<1>3. /\ Front(b) \in Seq(Block) /\ Len(Front(b)) = Len(b) - 1 /\ Len(b) \in Nat \ {0}
  <2> HIDE DEF Block
  <2>. QED
    BY <1>1, FrontPlaces, LastBlock
<1>4. Filled(n) \in [0 .. MaxSlots -> Value]
  BY FilledType
<1>5. PICK old \in Block : old = [now EXCEPT !.cells = Filled(n)] /\ old.cells = Filled(n)
  <2>1. PICK old : old = [now EXCEPT !.cells = Filled(n)]
    OBVIOUS
  <2>2. old \in Block /\ old.cells = Filled(n)
    BY <1>4, <2>1 DEF Block
  <2>. QED
    BY <2>1, <2>2
<1>6. PICK size \in Nat : size = IF Params[0] = Zero THEN 0 ELSE Params[0][2] + 1
  <2>1. Params[0] \in Value
    <3>1. Params \in [0 .. MaxSlots -> Value] /\ 0 \in 0 .. MaxSlots
      BY <1>1, LastBlock, Bounds DEF Params
    <3> HIDE DEF Value
    <3>. QED
      BY <3>1
  <2>2. Params[0][2] \in Nat
    <3> HIDE DEF Value
    <3>. QED
      BY <2>1, SecondType
  <2>. QED
    BY <2>2
<1>7. PICK most \in Nat : most = Max({n + 1, 2 * size})
  <2>1. n + 1 \in Nat /\ 2 * size \in Nat
    BY Bounds
  <2>2. \E x \in {n + 1, 2 * size} : \A y \in {n + 1, 2 * size} : x >= y
    BY <2>1
  <2>3. Max({n + 1, 2 * size}) \in {n + 1, 2 * size}
    BY <2>2 DEF Max
  <2>. QED
    BY <2>1, <2>3
<1>8. PICK grown \in Block : grown = [capacity |-> most, cells |-> Filled(n)] /\ grown.cells = Filled(n)
  <2>1. PICK grown : grown = [capacity |-> most, cells |-> Filled(n)]
    OBVIOUS
  <2>2. grown \in Block /\ grown.cells = Filled(n)
    BY <1>4, <2>1 DEF Block
  <2>. QED
    BY <2>1, <2>2
<1>9. FilledBlocks(n) \in {Append(Front(b), old), Append(b, grown)}
  <2>1. FilledBlocks(n) = IF n + 1 <= now.capacity THEN Append(Front(b), old) ELSE Append(b, grown)
    BY <1>1, <1>2, <1>5, <1>6, <1>7, <1>8 DEF FilledBlocks
  <2>. QED
    BY <2>1
<1> HIDE DEF Block
<1>10. ASSUME NEW q \in Seq(Block), NEW e \in Block
      PROVE  /\ Append(q, e) \in Seq(Block) /\ Append(q, e) # <<>>
             /\ Len(Append(q, e)) = Len(q) + 1 /\ Last(Append(q, e)) = e
  <2>1. /\ Append(q, e) \in Seq(Block) /\ Len(Append(q, e)) = Len(q) + 1 /\ Len(q) \in Nat
        /\ Append(q, e)[Len(q) + 1] = e
    BY PushType, PushPlaces, SeqType
  <2>2. Append(q, e) # <<>>
    OBVIOUS
  <2>. QED
    BY <2>1, <2>2 DEF Last
<1>11. CASE FilledBlocks(n) = Append(Front(b), old)
  <2>1. Len(blocks) = Len(b)
    BY <1>1
  <2>2. PICK q : q = Append(Front(b), old)
    OBVIOUS
  <2>3. q \in Seq(Block) /\ q # <<>> /\ Len(q) = Len(Front(b)) + 1 /\ Last(q) = old
    BY <1>3, <1>10, <2>2
  <2>4. FilledBlocks(n) = q
    BY <1>11, <2>2
  <2>5. Last(q).cells = Filled(n)
    BY <1>5, <2>3
  <2>6. Len(q) = Len(b)
    BY <1>3, <2>3
  <2>. QED
    BY <1>3, <2>1, <2>3, <2>4, <2>5, <2>6
<1>12. CASE FilledBlocks(n) = Append(b, grown)
  <2>1. Len(blocks) = Len(b)
    BY <1>1
  <2>2. PICK q : q = Append(b, grown)
    OBVIOUS
  <2>3. q \in Seq(Block) /\ q # <<>> /\ Len(q) = Len(b) + 1 /\ Last(q) = grown
    BY <1>10, <2>2
  <2>4. FilledBlocks(n) = q
    BY <1>12, <2>2
  <2>. QED
    BY <1>3, <1>8, <2>1, <2>3, <2>4
<1>. QED
  BY <1>9, <1>11, <1>12

\* The cells that are written when the parameters are filled.
NewCells(n) ==
  [a \in UNION {Place(i) : i \in Pushed(n)} |-> Content(CHOOSE i \in Pushed(n) : a \in Place(i))]

\* Each is of one slot, and holds what that has.
LEMMA NewCellsType ==
  ASSUME PawnTypeOK, NEW n \in 0 .. MaxSlots - 1
  PROVE  /\ IsHeap(NewCells(n))
         /\ \A i \in Pushed(n) : \A a \in Place(i) :
              a \in DOMAIN NewCells(n) /\ NewCells(n)[a] = Content(i)
<1>1. \A i \in Pushed(n) : i \in 1 .. MaxSlots - 1 /\ i \in Slot
  BY PushedSlots, Bounds DEF Slot
<1>2. ASSUME NEW i \in Pushed(n), NEW a \in Place(i)
      PROVE  a \in DOMAIN NewCells(n) /\ NewCells(n)[a] = Content(i) /\ a \in Nat
  <2>1. PICK k : k = CHOOSE j \in Pushed(n) : a \in Place(j)
    OBVIOUS
  <2>2. k \in Pushed(n) /\ a \in Place(k)
    BY <2>1
  <2>3. k = i
    BY <1>1, <2>2, PlacesApart
  <2>4. a \in DOMAIN NewCells(n) /\ NewCells(n)[a] = Content(k)
    BY <2>1 DEF NewCells
  <2>. QED
    BY <1>1, <2>3, <2>4, PlaceType
<1>3. IsHeap(NewCells(n))
  <2> SUFFICES ASSUME NEW a \in DOMAIN NewCells(n)
               PROVE  a \in Nat /\ NewCells(n)[a] \in Value
    BY DEF IsHeap
  <2>1. PICK i \in Pushed(n) : a \in Place(i)
    BY DEF NewCells
  <2>2. a \in Nat /\ NewCells(n)[a] = Content(i)
    BY <1>2, <2>1
  <2>. QED
    BY <1>1, <2>2, ContentType
<1>. QED
  BY <1>2, <1>3

\* Filling leaves values on the heap, and does not lower hea.
LEMMA FilledHeapType ==
  ASSUME PawnTypeOK, NEW n \in 0 .. MaxSlots - 1
  PROVE  /\ IsHeap(FilledHeap(n))
         /\ FilledUpTo(n) \in Nat /\ hea <= FilledUpTo(n)
         /\ LacksLength(n) = {} => FilledUpTo(n) = Base(n + 1)
         /\ LacksLength(n) # {} =>
              \E m \in 1 .. n : FilledUpTo(n) = Base(m) /\ Pushed(n) = 1 .. m - 1
<1>1. FilledHeap(n) = Stored(NewCells(n), heap)
  BY DEF FilledHeap, NewCells
<1>2. IsHeap(FilledHeap(n))
  BY <1>1, NewCellsType, Storage, StoredType
<1>3. CASE LacksLength(n) = {}
  <2>1. n + 1 \in 0 .. MaxSlots /\ FilledUpTo(n) = Base(n + 1)
    BY <1>3, Bounds DEF FilledUpTo
  <2>. QED
    BY <1>2, <1>3, <2>1, BaseType
<1>4. CASE LacksLength(n) # {}
  <2>1. PICK l \in LacksLength(n) : \A k \in LacksLength(n) : l <= k
    <3>1. LacksLength(n) \in SUBSET Nat
      BY DEF LacksLength
    <3>. QED
      BY <1>4, <3>1, LeastNatural
  <2>2. PICK m : m = Min(LacksLength(n))
    OBVIOUS
  <2>3. m \in LacksLength(n)
    BY <2>1, <2>2 DEF Min
  <2>4. m \in 1 .. n /\ m \in 0 .. MaxSlots
    BY <2>3, Bounds DEF LacksLength
  <2>5. FilledUpTo(n) = Base(m) /\ Pushed(n) = 1 .. m - 1
    BY <1>4, <2>2 DEF FilledUpTo, Pushed
  <2>. QED
    BY <1>2, <1>4, <2>4, <2>5, BaseType
<1>. QED
  BY <1>3, <1>4

\* What the native finds in a parameter.
LEMMA FilledSlot ==
  ASSUME PawnTypeOK, NEW n \in 0 .. MaxSlots - 1, LacksLength(n) = {}, NEW i \in 1 .. n
  PROVE  /\ format[i] = "i" => Filled(n)[i] = number[i]
         /\ Cells(i) > 0 =>
              /\ Filled(n)[i] = Address(Base(i)) /\ Base(i) \in Nat
              /\ Base(i) \in DOMAIN FilledHeap(n) /\ FilledHeap(n)[Base(i)] = Content(i)
<1>1. Pushed(n) = 1 .. n /\ i \in 1 .. MaxSlots - 1 /\ i \in 0 .. MaxSlots /\ i # 0
  BY PushedSlots, Bounds
<1>2. Filled(n)[i] = IF format[i] = "i" THEN number[i] ELSE Address(Base(i))
  BY <1>1 DEF Filled
<1>3. ASSUME Cells(i) > 0
      PROVE  Base(i) \in DOMAIN FilledHeap(n) /\ FilledHeap(n)[Base(i)] = Content(i)
  <2>1. Base(i) \in Place(i)
    BY <1>1, <1>3, PlaceType
  <2>2. PICK cells : cells = NewCells(n)
    OBVIOUS
  <2>3. Base(i) \in DOMAIN cells /\ cells[Base(i)] = Content(i)
    BY <1>1, <2>1, <2>2, NewCellsType
  <2>4. FilledHeap(n) = Stored(cells, heap)
    BY <2>2 DEF FilledHeap, NewCells
  <2>. QED
    BY <2>3, <2>4 DEF Stored
<1>4. Base(i) \in Nat
  BY <1>1, PlaceType
<1>5. Cells(i) > 0 => format[i] # "i"
  BY <1>1, CellsType
<1>. QED
  BY <1>2, <1>3, <1>4, <1>5

(***************************************************************************)
(* The stack and what its handlers have taken of the heap.                 *)
(***************************************************************************)
HeapOK(frames, h) == Balanced(frames, h) /\ Exact(frames, h)

\* The fields of a frame.
LEMMA FrameFields ==
  ASSUME NEW f \in Frame
  PROVE  /\ f.call \in 1 .. MaxCalls /\ f.sig \in Signatures \cup {<<>>}
         /\ f.index \in Nat /\ f.offset \in Nat /\ f.count \in 0 .. MaxSlots
         /\ f.block \in Nat /\ f.stored_hea \in Nat
         /\ f.disturbed \in BOOLEAN /\ f.mixed \in BOOLEAN
         /\ f.at \in {"convert", "toString", "getter", "handler", "result"}
         /\ f.name \in {"server", "provided", "unknown"} /\ f.threw \in BOOLEAN
         /\ f.handlers \in 0 .. MaxHandlers /\ f.place \in 0 .. MaxSlots
         /\ f.got \in Nat /\ f.wrote \in SUBSET Slot
  BY DEF Frame

\* A stack, place by place.
LEMMA Frames ==
  ASSUME NEW frames \in Seq(Frame)
  PROVE  /\ Len(frames) \in Nat /\ DOMAIN frames = 1 .. Len(frames)
         /\ \A k \in 1 .. Len(frames) : frames[k] \in Frame
         /\ frames = <<>> <=> Len(frames) = 0
         /\ \A k \in 1 .. Len(frames) : frames[k].stored_hea \in Nat /\ frames[k].offset \in Nat
<1> HIDE DEF Frame
<1>1. /\ Len(frames) \in Nat /\ DOMAIN frames = 1 .. Len(frames)
      /\ \A k \in 1 .. Len(frames) : frames[k] \in Frame
      /\ frames = <<>> <=> Len(frames) = 0
  BY SeqType
<1>. QED
  BY <1>1, FrameFields

\* Frames that differ in what they are not asked for.
LEMMA HeapSame ==
  ASSUME NEW p \in Seq(Frame), NEW q \in Seq(Frame), NEW h \in Nat, Len(p) = Len(q),
         \A k \in 1 .. Len(p) :
           /\ InHandler(p[k]) <=> InHandler(q[k])
           /\ p[k].stored_hea = q[k].stored_hea /\ p[k].mixed = q[k].mixed
           /\ p[k].call = q[k].call /\ p[k].sig = q[k].sig,
         HeapOK(p, h)
  PROVE  HeapOK(q, h)
<1> HIDE DEF Frame
<1>1. /\ Len(p) \in Nat /\ DOMAIN p = 1 .. Len(p) /\ DOMAIN q = 1 .. Len(p)
  BY Frames
<1>2. PointsOf(p) = PointsOf(q)
  BY <1>1 DEF PointsOf
<1>3. \A k : LevelOf(p, h, k) = LevelOf(q, h, k)
  BY <1>1 DEF LevelOf
<1>4. Balanced(q, h)
  BY <1>2, <1>3 DEF HeapOK, Balanced
<1>5. Exact(q, h)
  <2> SUFFICES ASSUME NEW k \in 1 .. Len(p), InHandler(q[k]), ~q[k].mixed, Regular(q[k].sig),
                      NEW j \in PointsOf(p), k < j, \A i \in PointsOf(p) : k < i => j <= i
               PROVE  LevelOf(q, h, j) = q[k].stored_hea + Demand(q[k].call, q[k].sig)
    BY <1>1, <1>2 DEF Exact
  <2>1. /\ InHandler(p[k]) /\ ~p[k].mixed /\ Regular(p[k].sig) /\ p[k].call = q[k].call
        /\ p[k].sig = q[k].sig /\ p[k].stored_hea = q[k].stored_hea
    OBVIOUS
  <2>2. LevelOf(p, h, j) = p[k].stored_hea + Demand(p[k].call, p[k].sig)
    BY <1>1, <2>1 DEF HeapOK, Exact
  <2>. QED
    BY <1>3, <2>1, <2>2
<1>. QED
  BY <1>4, <1>5 DEF HeapOK

\* A frame that is pushed has taken nothing.
LEMMA HeapPush ==
  ASSUME NEW p \in Seq(Frame), NEW h \in Nat, NEW f \in Frame, ~InHandler(f), HeapOK(p, h)
  PROVE  HeapOK(Append(p, f), h)
<1> HIDE DEF Frame
<1>1. PICK q \in Seq(Frame) : q = Append(p, f)
  BY PushType
<1>2. /\ Len(p) \in Nat /\ DOMAIN p = 1 .. Len(p) /\ DOMAIN q = 1 .. Len(p) + 1
      /\ Len(q) = Len(p) + 1
      /\ q[Len(p) + 1] = f /\ \A k \in 1 .. Len(p) : q[k] = p[k]
  BY <1>1, PushPlaces, Frames
<1> DEFINE place(k) == IF k = Len(p) + 2 THEN Len(p) + 1 ELSE k
<1>3. \A k \in PointsOf(q) : /\ k \in 1 .. Len(p) \/ k = Len(p) + 2
                             /\ place(k) \in PointsOf(p) /\ place(k) \in Nat /\ k \in Nat
                             /\ LevelOf(q, h, k) = LevelOf(p, h, place(k))
  BY <1>2 DEF PointsOf, LevelOf
<1>4. \A k \in PointsOf(p) : \E j \in PointsOf(q) : place(j) = k
  <2> SUFFICES ASSUME NEW k \in PointsOf(p) PROVE \E j \in PointsOf(q) : place(j) = k
    OBVIOUS
  <2>1. CASE k = Len(p) + 1
    <3>1. Len(p) + 2 \in PointsOf(q)
      BY <1>2 DEF PointsOf
    <3>. QED
      BY <2>1, <3>1
  <2>2. CASE k # Len(p) + 1
    <3>1. k \in PointsOf(q) /\ k \in 1 .. Len(p)
      BY <1>2, <2>2 DEF PointsOf
    <3>2. place(k) = k
      BY <1>2, <3>1
    <3>. QED
      BY <3>1, <3>2
  <2>. QED
    BY <2>1, <2>2
<1>5. \A j, k \in PointsOf(q) : j <= k <=> place(j) <= place(k)
  BY <1>2, <1>3
<1>6. Balanced(q, h)
  <2> HIDE DEF place
  <2>. QED
    BY <1>3, <1>4, <1>5 DEF HeapOK, Balanced
<1>7. Exact(q, h)
  <2> SUFFICES ASSUME NEW k \in DOMAIN q, InHandler(q[k]), ~q[k].mixed, Regular(q[k].sig),
                      NEW j \in PointsOf(q), k < j, \A i \in PointsOf(q) : k < i => j <= i
               PROVE  LevelOf(q, h, j) = q[k].stored_hea + Demand(q[k].call, q[k].sig)
    BY DEF Exact
  <2>1. k \in 1 .. Len(p) /\ q[k] = p[k]
    BY <1>2
  <2>2. place(k) = k /\ k \in PointsOf(q) /\ k \in Nat
    BY <1>2, <2>1 DEF PointsOf
  <2>3. k < place(j)
    BY <1>2, <1>3, <2>1, <2>2
  <2>4. \A i \in PointsOf(p) : k < i => place(j) <= i
    <3> SUFFICES ASSUME NEW i \in PointsOf(p), k < i PROVE place(j) <= i
      OBVIOUS
    <3>1. PICK m \in PointsOf(q) : place(m) = i
      BY <1>4
    <3>2. k < m
      BY <1>2, <1>3, <2>1, <3>1
    <3>3. j <= m
      BY <3>2
    <3> HIDE DEF place
    <3>. QED
      BY <1>5, <3>1, <3>3
  <2>5. LevelOf(p, h, place(j)) = p[k].stored_hea + Demand(p[k].call, p[k].sig)
    <3> HIDE DEF place
    <3>. QED
      BY <1>2, <1>3, <2>1, <2>3, <2>4 DEF HeapOK, Exact
  <2> HIDE DEF place
  <2>. QED
    BY <1>3, <2>1, <2>5
<1>. QED
  BY <1>1, <1>6, <1>7 DEF HeapOK

\* A frame that has taken nothing is popped.
LEMMA HeapFront ==
  ASSUME NEW p \in Seq(Frame), NEW h \in Nat, p # <<>>, ~InHandler(Last(p)), HeapOK(p, h)
  PROVE  HeapOK(Front(p), h)
<1> HIDE DEF Frame
<1>1. PICK q \in Seq(Frame) : q = Front(p)
  BY FrontPlaces
<1>2. /\ Len(p) \in Nat \ {0} /\ DOMAIN p = 1 .. Len(p) /\ DOMAIN q = 1 .. Len(p) - 1
      /\ Len(q) = Len(p) - 1 /\ \A k \in 1 .. Len(p) - 1 : q[k] = p[k]
      /\ ~InHandler(p[Len(p)])
  BY <1>1, FrontPlaces, Frames DEF Last
<1> DEFINE place(k) == IF k = Len(p) THEN Len(p) + 1 ELSE k
<1>3. \A k \in PointsOf(q) : /\ k \in 1 .. Len(p) - 1 \/ k = Len(p)
                             /\ place(k) \in PointsOf(p) /\ place(k) \in Nat /\ k \in Nat
                             /\ LevelOf(q, h, k) = LevelOf(p, h, place(k))
  BY <1>2 DEF PointsOf, LevelOf
<1>4. \A k \in PointsOf(p) : \E j \in PointsOf(q) : place(j) = k
  <2> SUFFICES ASSUME NEW k \in PointsOf(p) PROVE \E j \in PointsOf(q) : place(j) = k
    OBVIOUS
  <2>1. CASE k = Len(p) + 1
    <3>1. Len(p) \in PointsOf(q)
      BY <1>2 DEF PointsOf
    <3>. QED
      BY <2>1, <3>1
  <2>2. CASE k # Len(p) + 1
    <3>1. k \in PointsOf(q) /\ k \in 1 .. Len(p) - 1
      BY <1>2, <2>2 DEF PointsOf
    <3>2. k # Len(p)
      <4>1. Len(p) \in Nat /\ k \in 1 .. Len(p) - 1
        BY <1>2, <3>1
      <4> HIDE DEF place
      <4>. QED
        BY <4>1
    <3>3. place(k) = k
      BY <3>2
    <3>. QED
      BY <3>1, <3>3
  <2>. QED
    BY <2>1, <2>2
<1>5. \A j, k \in PointsOf(q) : j <= k <=> place(j) <= place(k)
  BY <1>2, <1>3
<1>6. Balanced(q, h)
  <2> HIDE DEF place
  <2>. QED
    BY <1>3, <1>4, <1>5 DEF HeapOK, Balanced
<1>7. Exact(q, h)
  <2> SUFFICES ASSUME NEW k \in DOMAIN q, InHandler(q[k]), ~q[k].mixed, Regular(q[k].sig),
                      NEW j \in PointsOf(q), k < j, \A i \in PointsOf(q) : k < i => j <= i
               PROVE  LevelOf(q, h, j) = q[k].stored_hea + Demand(q[k].call, q[k].sig)
    BY DEF Exact
  <2>1. k \in 1 .. Len(p) - 1 /\ q[k] = p[k] /\ k \in DOMAIN p
    BY <1>2
  <2>2. k < place(j)
    BY <1>2, <1>3, <2>1
  <2>3. \A i \in PointsOf(p) : k < i => place(j) <= i
    <3> SUFFICES ASSUME NEW i \in PointsOf(p), k < i PROVE place(j) <= i
      OBVIOUS
    <3>1. PICK m \in PointsOf(q) : place(m) = i
      BY <1>4
    <3>2. k < m
      BY <1>2, <1>3, <2>1, <3>1
    <3>3. j <= m
      BY <3>2
    <3> HIDE DEF place
    <3>. QED
      BY <1>5, <3>1, <3>3
  <2>4. LevelOf(p, h, place(j)) = p[k].stored_hea + Demand(p[k].call, p[k].sig)
    <3> HIDE DEF place
    <3>. QED
      BY <1>3, <2>1, <2>2, <2>3 DEF HeapOK, Exact
  <2> HIDE DEF place
  <2>. QED
    BY <1>3, <2>1, <2>4
<1>. QED
  BY <1>1, <1>6, <1>7 DEF HeapOK

\* A handler begins, and takes some of the heap.
LEMMA HeapTaken ==
  ASSUME NEW p \in Seq(Frame), NEW h \in Nat, NEW g \in Frame, InHandler(g),
         g.stored_hea = h, HeapOK(p, h), NEW l \in Nat, h <= l,
         ~g.mixed /\ Regular(g.sig) => l = h + Demand(g.call, g.sig)
  PROVE  HeapOK(Append(p, g), l)
<1> HIDE DEF Frame
<1>1. PICK q \in Seq(Frame) : q = Append(p, g)
  BY PushType
<1>2. /\ Len(p) \in Nat /\ DOMAIN p = 1 .. Len(p) /\ DOMAIN q = 1 .. Len(p) + 1
      /\ Len(q) = Len(p) + 1
      /\ q[Len(p) + 1] = g /\ \A k \in 1 .. Len(p) : q[k] = p[k]
  BY <1>1, PushPlaces, Frames
<1>3. PointsOf(q) = PointsOf(p) \cup {Len(p) + 2} /\ Len(p) + 1 \in PointsOf(p)
  BY <1>2 DEF PointsOf
<1>4. /\ \A k \in PointsOf(p) : LevelOf(q, l, k) = LevelOf(p, h, k) /\ k \in 1 .. Len(p) + 1
      /\ LevelOf(q, l, Len(p) + 2) = l /\ LevelOf(p, h, Len(p) + 1) = h
  BY <1>2 DEF LevelOf, PointsOf
<1>5. \A k \in PointsOf(p) : LevelOf(p, h, k) \in Nat
  BY <1>2, Frames DEF LevelOf, PointsOf
<1>6. Balanced(q, l)
  <2>1. ASSUME NEW k \in PointsOf(p)
        PROVE  /\ (\A j \in PointsOf(q) : k <= j) => LevelOf(q, l, k) = 0
               /\ \A j \in PointsOf(q) : j <= k => LevelOf(q, l, j) <= LevelOf(q, l, k)
    BY <1>2, <1>3, <1>4 DEF HeapOK, Balanced
  <2>2. /\ ~(\A j \in PointsOf(q) : Len(p) + 2 <= j)
        /\ \A j \in PointsOf(q) : LevelOf(q, l, j) <= l
    <3>1. ~(Len(p) + 2 <= Len(p) + 1)
      BY <1>2
    <3>2. \A j \in PointsOf(p) : LevelOf(p, h, j) <= LevelOf(p, h, Len(p) + 1)
      BY <1>3, <1>4 DEF HeapOK, Balanced
    <3>. QED
      BY <1>3, <1>4, <1>5, <3>1, <3>2
  <2>. QED
    BY <1>3, <1>4, <2>1, <2>2 DEF Balanced
<1>7. Exact(q, l)
  <2> SUFFICES ASSUME NEW k \in DOMAIN q, InHandler(q[k]), ~q[k].mixed, Regular(q[k].sig),
                      NEW j \in PointsOf(q), k < j, \A i \in PointsOf(q) : k < i => j <= i
               PROVE  LevelOf(q, l, j) = q[k].stored_hea + Demand(q[k].call, q[k].sig)
    BY DEF Exact
  <2>1. CASE k \in 1 .. Len(p)
    <3>1. k \in DOMAIN p /\ q[k] = p[k] /\ k < Len(p) + 1
      BY <1>2, <2>1
    <3>2. j \in PointsOf(p)
      <4>1. j <= Len(p) + 1
        BY <1>3, <3>1
      <4>2. j # Len(p) + 2
        BY <1>2, <4>1
      <4>. QED
        BY <1>3, <4>2
    <3>3. LevelOf(p, h, j) = p[k].stored_hea + Demand(p[k].call, p[k].sig)
      BY <1>3, <3>1, <3>2 DEF HeapOK, Exact
    <3>. QED
      BY <1>4, <3>1, <3>2, <3>3
  <2>2. CASE k = Len(p) + 1
    <3>1. j = Len(p) + 2
      BY <1>2, <1>3, <1>4, <2>2
    <3>. QED
      BY <1>2, <1>4, <2>2, <3>1
  <2>. QED
    BY <1>2, <2>1, <2>2
<1>. QED
  BY <1>1, <1>6, <1>7 DEF HeapOK

\* A handler returns, and gives back what it has taken.
LEMMA HeapGiven ==
  ASSUME NEW p \in Seq(Frame), NEW h \in Nat, p # <<>>, InHandler(Last(p)), HeapOK(p, h)
  PROVE  HeapOK(Front(p), Last(p).stored_hea)
<1> HIDE DEF Frame
<1>1. PICK q \in Seq(Frame) : q = Front(p)
  BY FrontPlaces
<1>2. PICK l : l = Last(p).stored_hea
  OBVIOUS
<1>3. /\ Len(p) \in Nat \ {0} /\ DOMAIN p = 1 .. Len(p) /\ DOMAIN q = 1 .. Len(p) - 1
      /\ Len(q) = Len(p) - 1 /\ \A k \in 1 .. Len(p) - 1 : q[k] = p[k]
      /\ InHandler(p[Len(p)]) /\ p[Len(p)].stored_hea = l
  BY <1>1, <1>2, FrontPlaces, Frames DEF Last
<1>4. PointsOf(p) = PointsOf(q) \cup {Len(p) + 1} /\ \A k \in PointsOf(q) : k \in 1 .. Len(p)
  BY <1>3 DEF PointsOf
<1>5. \A k \in PointsOf(q) : LevelOf(q, l, k) = LevelOf(p, h, k)
  BY <1>3 DEF LevelOf, PointsOf
<1>6. Balanced(q, l)
  <2>1. ASSUME NEW k \in PointsOf(q)
        PROVE  (\A j \in PointsOf(q) : k <= j) => \A j \in PointsOf(p) : k <= j
    BY <1>3, <1>4
  <2>. QED
    BY <1>4, <1>5, <2>1 DEF HeapOK, Balanced
<1>7. Exact(q, l)
  <2> SUFFICES ASSUME NEW k \in DOMAIN q, InHandler(q[k]), ~q[k].mixed, Regular(q[k].sig),
                      NEW j \in PointsOf(q), k < j, \A i \in PointsOf(q) : k < i => j <= i
               PROVE  LevelOf(q, l, j) = q[k].stored_hea + Demand(q[k].call, q[k].sig)
    BY DEF Exact
  <2>1. k \in DOMAIN p /\ q[k] = p[k]
    BY <1>3
  <2>2. \A i \in PointsOf(p) : k < i => j <= i
    BY <1>3, <1>4
  <2>3. LevelOf(p, h, j) = p[k].stored_hea + Demand(p[k].call, p[k].sig)
    BY <1>4, <2>1, <2>2 DEF HeapOK, Exact
  <2>. QED
    BY <1>5, <2>1, <2>3
<1>. QED
  BY <1>1, <1>2, <1>6, <1>7 DEF HeapOK

(***************************************************************************)
(* What a call returns.                                                    *)
(***************************************************************************)

\* How many numbers lie between two.
LEMMA Interval ==
  ASSUME NEW a \in Nat, NEW b \in Nat, a <= b + 1
  PROVE  IsFiniteSet(a .. b) /\ Cardinality(a .. b) = b + 1 - a
<1>1. /\ a \in Int /\ b \in Int /\ b - a + 1 = b + 1 - a
      /\ (a > b => b + 1 - a = 0)
  OBVIOUS
<1>. QED
  BY <1>1, FS_Interval

\* In a set that begins with the numbers behind a, the j-th is a + j.
LEMMA NthBehind ==
  ASSUME NEW slots \in SUBSET Nat, IsFiniteSet(slots), NEW a \in Nat, NEW j \in Nat \ {0},
         \A k \in slots : a < k, a + 1 .. a + j \subseteq slots
  PROVE  Nth(slots, j) = a + j
<1> DEFINE below(k) == {i \in slots : i < k}
<1>1. ASSUME NEW k \in slots
      PROVE  IsFiniteSet(below(k)) /\ Cardinality(below(k)) \in Nat
  <2>1. below(k) \in SUBSET slots
    OBVIOUS
  <2> HIDE DEF below
  <2>. QED
    BY <2>1, FS_Subset, FS_CardinalityType
<1>2. ASSUME NEW k \in slots, k <= a + j
      PROVE  Cardinality(below(k)) = k - 1 - a
  <2>1. k \in Nat /\ a < k
    OBVIOUS
  <2>2. below(k) = a + 1 .. k - 1
    <3>1. ASSUME NEW i \in a + 1 .. k - 1 PROVE i \in below(k)
      <4>1. i \in a + 1 .. a + j /\ i < k
        BY <1>2, <2>1
      <4>. QED
        BY <4>1
    <3>2. ASSUME NEW i \in below(k) PROVE i \in a + 1 .. k - 1
      <4>1. i \in Nat /\ a < i /\ i < k
        OBVIOUS
      <4>. QED
        BY <2>1, <4>1
    <3> HIDE DEF below
    <3>. QED
      BY <3>1, <3>2
  <2>3. a + 1 \in Nat /\ k - 1 \in Nat /\ a + 1 <= k - 1 + 1 /\ k - 1 + 1 - (a + 1) = k - 1 - a
    BY <2>1
  <2> HIDE DEF below
  <2>. QED
    BY <2>2, <2>3, Interval
<1>3. ASSUME NEW k \in slots, k > a + j
      PROVE  Cardinality(below(k)) >= j
  <2>1. a + 1 .. a + j \in SUBSET below(k)
    BY <1>3
  <2>2. a + 1 \in Nat /\ a + j \in Nat /\ a + 1 <= a + j + 1 /\ a + j + 1 - (a + 1) = j
    OBVIOUS
  <2>3. Cardinality(a + 1 .. a + j) = j
    BY <2>2, Interval
  <2>4. Cardinality(a + 1 .. a + j) <= Cardinality(below(k))
    <3> HIDE DEF below
    <3>. QED
      BY <1>1, <2>1, FS_Subset
  <2> HIDE DEF below
  <2>. QED
    BY <1>1, <2>3, <2>4
<1>4. a + j \in slots
  OBVIOUS
<1>5. Cardinality(below(a + j)) = j - 1
  <2>1. a + j <= a + j /\ a + j - 1 - a = j - 1
    OBVIOUS
  <2> HIDE DEF below
  <2>. QED
    BY <1>2, <1>4, <2>1
<1>6. \A k \in slots : Cardinality(below(k)) = j - 1 => k = a + j
  <2> SUFFICES ASSUME NEW k \in slots, Cardinality(below(k)) = j - 1 PROVE k = a + j
    OBVIOUS
  <2>1. k \in Nat
    OBVIOUS
  <2>2. CASE k <= a + j
    <3>1. k - 1 - a = j - 1
      <4> HIDE DEF below
      <4>. QED
        BY <1>2, <2>2
    <3>. QED
      BY <2>1, <3>1
  <2>3. CASE k > a + j
    <3>1. j - 1 >= j
      <4> HIDE DEF below
      <4>. QED
        BY <1>3, <2>3
    <3>. QED
      BY <3>1
  <2>. QED
    BY <2>1, <2>2, <2>3
<1>7. Nth(slots, j) = CHOOSE k \in slots : Cardinality(below(k)) = j - 1
  BY DEF Nth
<1> HIDE DEF below
<1>. QED
  BY <1>4, <1>5, <1>6, <1>7

\* The slots of a regular call that agree with its references: of one
\* reference the first, of more all.
LEMMA OwnSlots ==
  ASSUME PawnTypeOK, NEW f \in Frame, f.index = Len(f.sig), f.offset <= f.index,
         OwnTypes(f), Regular(f.sig)
  PROVE  LET a == Arguments(f.sig)
             r == References(f.sig)
             slots == ReturnSlots(Done(f))
         IN  /\ slots \in SUBSET Nat /\ IsFiniteSet(slots)
             /\ a \in Nat /\ r \in Nat /\ a + r = Len(f.sig)
             /\ \A k \in slots : a < k
             /\ a + 1 .. a + r \subseteq slots
             /\ r # 1 => slots = a + 1 .. a + r
<1> DEFINE a == Arguments(f.sig)
           r == References(f.sig)
           slots == ReturnSlots(Done(f))
<1>1. /\ f.sig \in Seq(Letter) /\ Len(f.sig) \in Nat /\ DOMAIN f.sig = 1 .. Len(f.sig)
      /\ f.offset \in Nat /\ f.index \in Nat
  BY FrameFields, SignatureType
<1>2. /\ a \in 0 .. Len(f.sig) /\ r = Len(f.sig) - a
      /\ \A k \in 1 .. Len(f.sig) : f.sig[k] \in Reference <=> k > a
      /\ \A k \in 1 .. Len(f.sig) : signature[k] = f.sig[k]
  BY <1>1, ReferencesLast DEF OwnTypes, Asked
<1>3. Done(f) = Len(f.sig) + f.offset /\ Done(f) \in Nat
  BY <1>1 DEF Done
<1>4. slots \in SUBSET (1 .. Done(f))
  BY DEF ReturnSlots
<1>5. IsFiniteSet(slots)
  <2>1. IsFiniteSet(1 .. Done(f))
    <3>1. 1 \in Nat /\ 1 <= Done(f) + 1
      BY <1>3
    <3>. QED
      BY <1>3, <3>1, Interval
  <2>. QED
    BY <1>4, <2>1, FS_Subset
<1>6. \A k \in slots : a < k
  <2> SUFFICES ASSUME NEW k \in slots PROVE a < k
    OBVIOUS
  <2>1. k \in 1 .. Done(f) /\ signature[k] \in Reference
    BY DEF ReturnSlots
  <2> HIDE DEF slots
  <2>2. k \in Nat \ {0} /\ a \in Nat
    BY <1>1, <1>2, <1>3, <2>1
  <2>3. k \in 1 .. Len(f.sig) => a < k
    BY <1>2, <2>1
  <2>. QED
    BY <1>1, <1>2, <2>2, <2>3
<1>7. a + 1 .. a + r \subseteq slots
  BY <1>1, <1>2, <1>3 DEF ReturnSlots
<1>8. ASSUME r # 1 PROVE slots = a + 1 .. a + r
  <2>1. f.offset = 0
    <3> SUFFICES ASSUME f.offset # 0 PROVE FALSE
      OBVIOUS
    <3>1. f.offset > 0
      BY <1>1
    <3>2. PICK k \in DOMAIN f.sig : f.sig[k] = "S"
      BY <3>1 DEF OwnTypes
    <3>3. Len(f.sig) > a /\ r > 1
      BY <1>1, <1>2, <1>8, <3>1 DEF OwnTypes
    <3>4. Size(f.sig, {"S"}) = 0
      BY <1>2, <3>3 DEF Regular
    <3>. QED
      BY <1>1, <3>2, <3>4, SizeType
  <2>2. Done(f) = a + r
    BY <1>1, <1>2, <1>3, <2>1
  <2>3. \A k \in slots : k \in a + 1 .. a + r
    <3> HIDE DEF slots
    <3>. QED
      BY <1>1, <1>2, <1>4, <1>6, <2>2
  <2> HIDE DEF slots
  <2>. QED
    BY <1>7, <2>3
<1>9. slots \in SUBSET Nat
  BY <1>4
<1>. QED
  BY <1>1, <1>2, <1>5, <1>6, <1>7, <1>8, <1>9

\* The values of such a call are those of its references, one for each.
LEMMA ResultPlaces ==
  ASSUME PawnTypeOK, NEW f \in Frame, f.index = Len(f.sig), f.offset <= f.index,
         OwnTypes(f), Regular(f.sig), References(f.sig) # 0, NEW numbers, NEW texts
  PROVE  /\ Len(Results(f, Done(f), numbers, texts)) = References(f.sig)
         /\ \A k \in Asked(f.sig) :
              /\ k - Arguments(f.sig) \in 1 .. References(f.sig)
              /\ Results(f, Done(f), numbers, texts)[k - Arguments(f.sig)] =
                   IF f.sig[k] = "I" THEN numbers[k] ELSE texts[k]
<1> DEFINE Result(k) == IF signature[k] = "I" THEN numbers[k] ELSE texts[k]
<1>1. PICK a : a = Arguments(f.sig)
  OBVIOUS
<1>2. PICK r : r = References(f.sig)
  OBVIOUS
<1>3. PICK slots : slots = ReturnSlots(Done(f))
  OBVIOUS
<1>4. /\ slots \in SUBSET Nat /\ IsFiniteSet(slots) /\ a \in Nat /\ r \in Nat \ {0}
      /\ a + r = Len(f.sig)
      /\ \A k \in slots : a < k
      /\ a + 1 .. a + r \subseteq slots
      /\ r # 1 => slots = a + 1 .. a + r
  BY <1>1, <1>2, <1>3, OwnSlots
<1>5. PICK c : c = Cardinality(slots)
  OBVIOUS
<1>6. c \in Nat /\ r <= c /\ (r # 1 => c = r)
  <2>1. Cardinality(a + 1 .. a + r) = r
    <3>1. a + 1 \in Nat /\ a + r \in Nat /\ a + 1 <= a + r + 1 /\ a + r + 1 - (a + 1) = r
      BY <1>4
    <3>. QED
      BY <3>1, Interval
  <2>2. Cardinality(a + 1 .. a + r) <= c /\ c \in Nat
    <3>1. a + 1 .. a + r \in SUBSET slots
      BY <1>4
    <3>. QED
      BY <1>4, <1>5, <3>1, FS_Subset, FS_CardinalityType
  <2>. QED
    BY <1>4, <1>5, <2>1, <2>2
<1>7. ASSUME NEW j \in 1 .. r PROVE Nth(slots, j) = a + j
  <2>1. j \in Nat \ {0} /\ a + 1 .. a + j \subseteq slots
    BY <1>4
  <2>. QED
    BY <1>4, <2>1, NthBehind
<1>8. PICK values : values = [j \in 1 .. c |-> Result(Nth(slots, j))]
  OBVIOUS
<1>9. PICK results : results = Results(f, Done(f), numbers, texts)
  OBVIOUS
<1>10. results = IF r = 1 /\ values # <<>> THEN <<Head(values)>> ELSE values
  BY <1>2, <1>3, <1>5, <1>8, <1>9 DEF Results
<1>11. Len(results) = r /\ \A j \in 1 .. r : results[j] = Result(a + j)
  <2>1. /\ Len(values) = c /\ \A j \in 1 .. r : values[j] = Result(a + j)
        /\ values # <<>>
    <3>1. \A j \in 1 .. c : values[j] = Result(Nth(slots, j))
      BY <1>8
    <3>2. Len(values) = c /\ values # <<>>
      <4>1. PICK V : V = {Result(Nth(slots, j)) : j \in 1 .. c}
        OBVIOUS
      <4>2. values \in [1 .. c -> V]
        BY <1>8, <4>1
      <4>3. values \in Seq(V) /\ Len(values) = c
        BY <1>6, <4>2, FunctionIsSeq
      <4>4. c # 0
        BY <1>4, <1>6
      <4>. QED
        BY <4>3, <4>4, SeqType
    <3>3. \A j \in 1 .. r : j \in 1 .. c
      BY <1>4, <1>6
    <3> HIDE DEF Result
    <3>. QED
      BY <1>7, <3>1, <3>2, <3>3
  <2>2. CASE r = 1
    <3>1. Head(values) = values[1]
      OBVIOUS
    <3> HIDE DEF Result
    <3>. QED
      BY <1>10, <2>1, <2>2, <3>1
  <2>3. CASE r # 1
    <3> HIDE DEF Result
    <3>. QED
      BY <1>6, <1>10, <2>1, <2>3
  <2>. QED
    BY <2>2, <2>3
<1>12. ASSUME NEW k \in Asked(f.sig)
       PROVE  k - a \in 1 .. r /\ results[k - a] = IF f.sig[k] = "I" THEN numbers[k] ELSE texts[k]
  <2>1. /\ f.sig \in Seq(Letter) /\ DOMAIN f.sig = 1 .. Len(f.sig) /\ Len(f.sig) \in Nat
    BY FrameFields, SignatureType
  <2>2. k \in 1 .. Len(f.sig) /\ k > a
    BY <1>1, <2>1, ReferencesLast DEF OwnTypes, Asked
  <2>3. signature[k] = f.sig[k]
    BY <2>1, <2>2 DEF OwnTypes
  <2>4. k - a \in 1 .. r /\ a + (k - a) = k
    BY <1>4, <2>1, <2>2
  <2>5. results[k - a] = Result(k)
    <3> HIDE DEF Result
    <3>. QED
      BY <1>11, <2>4
  <2>. QED
    BY <2>3, <2>4, <2>5
<1>. QED
  BY <1>1, <1>2, <1>9, <1>11, <1>12

\* Reading parameters back leaves values.
LEMMA ReadType ==
  ASSUME NEW h, IsHeap(h), NEW cell
  PROVE  Read(h, cell) \in Value
<1> HIDE DEF Value
<1>. QED
  BY Values DEF Read, IsHeap

\* What is read back from the heap are values.
LEMMA ReadBackType ==
  ASSUME NEW h, IsHeap(h), NEW n, NEW cells, NEW letter, NEW values \in [Slot -> Value]
  PROVE  ReadBack(n, cells, h, letter, values) \in [Slot -> Value]
<1> HIDE DEF Value
<1>. QED
  BY ReadType DEF ReadBack

\* What a call that returns does to the state.
LEMMA ReturnType ==
  ASSUME PawnTypeOK, NEW f \in Frame, NEW under, NEW n, NEW cells, NEW h, IsHeap(h),
         NEW result, NEW wrote, Return(f, under, n, cells, h, result, wrote)
  PROVE  /\ number' \in [Slot -> Value] /\ text' \in [Slot -> Value] /\ list' \in [Slot -> Value]
         /\ IsHeap(heap') /\ hea' = f.stored_hea /\ hea' \in Nat /\ stack' = under
<1>1. /\ number' = ReadBack(n, cells, h, "r", number)
      /\ text' = ReadBack(n, cells, h, "S", text)
      /\ list' = ReadBack(n, cells, h, "a", list)
      /\ heap' = h /\ hea' = f.stored_hea /\ stack' = under
  BY DEF Return, Restored
<1>2. f.stored_hea \in Nat
  BY FrameFields
<1> HIDE DEF Value
<1>. QED
  BY <1>1, <1>2, Storage, ReadBackType

\* A regular call that was not disturbed returns its own references.
LEMMA ReturnsOwn ==
  ASSUME PawnTypeOK, NEW f \in Frame, f.index = Len(f.sig), f.offset <= f.index,
         ~f.disturbed => OwnTypes(f),
         NEW under, NEW n, n = Done(f), NEW cells, NEW h, NEW result, NEW wrote,
         ~f.disturbed /\ Regular(f.sig) /\ wrote \subseteq Asked(f.sig) =>
           \A k \in wrote : Read(h, cells[k]) = Written(f.call, k),
         Return(f, under, n, cells, h, result, wrote)
  PROVE  ReturnsItsOwn'
<1> DEFINE numbers == ReadBack(n, cells, h, "r", number)
           texts == ReadBack(n, cells, h, "S", text)
<1>1. CASE result = "-1" \/ References(f.sig) = 0
  <2>1. Finish(f, "number", <<>>, wrote)
    BY <1>1 DEF Return
  <2>2. finished'.kind # "values"
    BY <2>1 DEF Finish, Nothing
  <2>. QED
    BY <2>2 DEF ReturnsItsOwn
<1>2. CASE ~(result = "-1" \/ References(f.sig) = 0)
  <2>1. PICK values : values = Results(f, n, numbers, texts)
    OBVIOUS
  <2>2. Finish(f, "values", values, wrote)
    BY <1>2, <2>1 DEF Return
  <2>3. /\ finished'.call = f.call /\ finished'.sig = f.sig /\ finished'.values = values
        /\ finished'.wrote = wrote /\ finished'.disturbed = f.disturbed
    BY <2>2 DEF Finish, Nothing
  <2> SUFFICES ASSUME Regular(f.sig), ~f.disturbed
               PROVE  /\ Len(values) = References(f.sig)
                      /\ wrote \subseteq Asked(f.sig) =>
                           \A k \in wrote : values[k - Arguments(f.sig)] = Written(f.call, k)
    BY <2>3 DEF ReturnsItsOwn
  <2>4. /\ Len(values) = References(f.sig)
        /\ \A k \in Asked(f.sig) :
             values[k - Arguments(f.sig)] = IF f.sig[k] = "I" THEN numbers[k] ELSE texts[k]
    <3> HIDE DEF numbers, texts
    <3>. QED
      BY <1>2, <2>1, ResultPlaces
  <2>5. ASSUME wrote \subseteq Asked(f.sig), NEW k \in wrote
        PROVE  values[k - Arguments(f.sig)] = Written(f.call, k)
    <3>1. /\ f.sig \in Seq(Letter) /\ DOMAIN f.sig = 1 .. Len(f.sig) /\ Len(f.sig) \in Nat
          /\ Len(f.sig) <= MaxSlots /\ f.offset \in Nat
      BY FrameFields, SignatureType, Bounds
    <3>2. k \in DOMAIN f.sig /\ f.sig[k] \in Reference
      BY <2>5 DEF Asked
    <3>3. k <= n /\ k \in Slot
      BY <3>1, <3>2, Bounds DEF Done, Slot
    <3>4. format[k] = ReturnFormat(f.sig[k])
      BY <2>5, <3>3 DEF OwnTypes
    <3>5. (IF f.sig[k] = "I" THEN numbers[k] ELSE texts[k]) = Read(h, cells[k])
      BY <3>2, <3>3, <3>4 DEF ReadBack, ReturnFormat, Reference
    <3> HIDE DEF numbers, texts
    <3>. QED
      BY <2>4, <2>5, <3>5
  <2>. QED
    BY <2>4, <2>5
<1>. QED
  BY <1>1, <1>2

\* A native sees what a call that was not disturbed has converted.
LEMMA SeesOwn ==
  ASSUME PawnTypeOK, blocks # <<>>, NEW f \in Frame, f.index = Len(f.sig), f.offset <= f.index,
         Done(f) \in 0 .. MaxSlots - 1, LacksLength(Done(f)) = {}, Unpushable(Done(f)) = {},
         ~f.disturbed => OwnTypes(f) /\ OwnValues(f),
         Enter(f, Filled(Done(f)), FilledHeap(Done(f)))
  PROVE  SeesItsArguments'
<1>1. PICK n \in 0 .. MaxSlots - 1 : n = Done(f)
  OBVIOUS
<1> DEFINE seen(k) == IF f.sig[k] = "i" THEN Filled(n)[k] ELSE Read(FilledHeap(n), Filled(n)[k])
<1>2. /\ entered'.call = f.call /\ entered'.disturbed = f.disturbed /\ entered'.sig = f.sig
      /\ entered'.seen = [k \in 1 .. Arguments(f.sig) |-> seen(k)]
      /\ f.threw => entered'.kind = "exception"
  BY <1>1 DEF Enter, Nothing
<1>3. ASSUME ~f.disturbed, NEW k \in 1 .. Arguments(f.sig)
      PROVE  \/ seen(k) = Passed(f.call, k)
             \/ f.threw /\ f.sig[k] = "a" /\ seen(k) = Part(f.call, k)
  <2>1. /\ f.sig \in Seq(Letter) /\ DOMAIN f.sig = 1 .. Len(f.sig) /\ Len(f.sig) \in Nat
        /\ f.offset \in Nat
    BY FrameFields, SignatureType
  <2>2. /\ k \in 1 .. Len(f.sig) /\ f.sig[k] \notin Reference /\ f.sig[k] \in Letter
    <3>1. /\ Arguments(f.sig) \in 0 .. Len(f.sig)
          /\ \A j \in 1 .. Len(f.sig) : j \in Asked(f.sig) <=> j > Arguments(f.sig)
      BY <1>3, <2>1, ReferencesLast DEF OwnTypes
    <3>2. k \in 1 .. Len(f.sig) /\ k \notin Asked(f.sig)
      BY <2>1, <3>1
    <3>. QED
      BY <2>1, <3>2, SeqType DEF Asked
  <2>3. k \in 1 .. n /\ k <= Done(f) /\ k \in 1 .. MaxSlots - 1
    BY <1>1, <2>1, <2>2, Bounds DEF Done
  <2>4. Holds(f, k)
    BY <1>3, <2>3 DEF OwnValues
  <2>5. /\ format[k] = "i" => Filled(n)[k] = number[k]
        /\ Cells(k) > 0 =>
             /\ Filled(n)[k] = Address(Base(k))
             /\ Base(k) \in DOMAIN FilledHeap(n) /\ FilledHeap(n)[Base(k)] = Content(k)
    BY <1>1, <2>3, FilledSlot
  <2>6. CASE f.sig[k] = "i"
    BY <2>4, <2>5, <2>6 DEF Holds
  <2>7. CASE f.sig[k] \in {"s", "a"}
    <3>1. /\ format[k] = f.sig[k]
          /\ \/ Content(k) = Passed(f.call, k)
             \/ f.threw /\ f.sig[k] = "a" /\ Content(k) = Part(f.call, k)
      BY <2>4, <2>7 DEF Holds, Content
    <3>2. Cells(k) > 0
      <4>1. CASE f.sig[k] = "s"
        BY <2>3, <3>1, <4>1, CellsType
      <4>2. CASE f.sig[k] = "a"
        <5>1. k \in Pushed(n) /\ k \notin Unpushable(n)
          BY <1>1, <2>3, PushedSlots
        <5>2. ~(Number(number[k + 1]) <= 0) /\ Cells(k) = Number(number[k + 1])
          BY <3>1, <4>2, <5>1 DEF Unpushable, Cells
        <5>3. Cells(k) \in Int
          BY <2>3, CellsType
        <5>. QED
          BY <5>2, <5>3
      <4>. QED
        BY <2>7, <4>1, <4>2
    <3>3. Read(FilledHeap(n), Filled(n)[k]) = Content(k)
      BY <2>5, <3>2, Values DEF Read
    <3>. QED
      BY <2>7, <3>1, <3>3
  <2>. QED
    BY <2>2, <2>6, <2>7 DEF Letter, Reference
<1> HIDE DEF seen
<1>. QED
  BY <1>2, <1>3 DEF SeesItsArguments

\* A regular call that was not disturbed takes what its arguments need, slot
\* by slot, of those that are pushed.
LEMMA OwnCells ==
  ASSUME PawnTypeOK, NEW f \in Frame, f.index = Len(f.sig), f.offset <= f.index,
         NEW n \in 0 .. MaxSlots - 1, n = Done(f), OwnTypes(f), OwnValues(f), Regular(f.sig),
         NEW i \in Pushed(n)
  PROVE  /\ i \in DOMAIN f.sig => Cells(i) = Need(f.call, f.sig, i)
         /\ i \notin DOMAIN f.sig => Cells(i) = 0
         /\ format[i] \in {"a", "S"} /\ Number(number[i + 1]) <= 0 =>
              i \in DOMAIN f.sig /\ f.sig[i] = "a" /\ Need(f.call, f.sig, i) <= 0
<1>1. /\ f.sig \in Seq(Letter) /\ DOMAIN f.sig = 1 .. Len(f.sig) /\ Len(f.sig) \in Nat
      /\ f.offset \in Nat /\ n = Len(f.sig) + f.offset
      /\ \A k \in 1 .. Len(f.sig) : f.sig[k] \in Letter
  BY FrameFields, SignatureType DEF Done
<1>2. PICK a \in 0 .. Len(f.sig) :
        /\ a = Arguments(f.sig)
        /\ \A k \in 1 .. Len(f.sig) : k \in Asked(f.sig) <=> k > a
  BY <1>1, ReferencesLast DEF OwnTypes
<1>3. /\ i \in 1 .. n /\ i \in 1 .. MaxSlots - 1 /\ i \notin LacksLength(n)
  <2>1. i \in 1 .. n /\ i \in 1 .. MaxSlots - 1
    BY PushedSlots
  <2>2. i \notin LacksLength(n)
    <3>1. CASE LacksLength(n) = {}
      BY <3>1
    <3>2. CASE LacksLength(n) # {}
      <4>1. PICK l \in LacksLength(n) : \A k \in LacksLength(n) : l <= k
        <5>1. LacksLength(n) \in SUBSET Nat
          BY DEF LacksLength
        <5>. QED
          BY <3>2, <5>1, LeastNatural
      <4>2. PICK m : m = Min(LacksLength(n))
        OBVIOUS
      <4>3. m \in LacksLength(n) /\ \A k \in LacksLength(n) : m <= k
        BY <4>1, <4>2 DEF Min
      <4>4. m \in 1 .. n /\ i \in 1 .. m - 1
        BY <3>2, <4>2, <4>3 DEF LacksLength, Pushed
      <4>5. ~(m <= i)
        BY <4>4
      <4>. QED
        BY <4>3, <4>5
    <3>. QED
      BY <3>1, <3>2
  <2>. QED
    BY <2>1, <2>2
<1>4. format[i] \in {"a", "S"} => i + 1 \in 1 .. n /\ format[i + 1] = "i"
  BY <1>3 DEF LacksLength
<1>5. ASSUME NEW k \in 1 .. a
      PROVE  Holds(f, k) /\ f.sig[k] \in {"i", "s", "a"}
  <2>1. k <= Done(f) /\ k \in 1 .. Len(f.sig) /\ ~(k > a)
    BY <1>1, <1>2
  <2>2. Holds(f, k)
    BY <1>2, <2>1 DEF OwnValues
  <2>3. f.sig[k] \notin Reference
    BY <1>1, <1>2, <2>1 DEF Asked
  <2>. QED
    BY <1>1, <2>1, <2>2, <2>3 DEF Letter, Reference
<1>6. ASSUME NEW k \in a + 1 .. Len(f.sig)
      PROVE  /\ f.sig[k] \in {"I", "S"} /\ format[k] = ReturnFormat(f.sig[k]) /\ format[k] # "i"
  <2>1. k \in 1 .. Len(f.sig) /\ k > a /\ k <= Done(f)
    BY <1>1
  <2>2. k \in Asked(f.sig)
    BY <1>2, <2>1
  <2>. QED
    BY <2>1, <2>2 DEF OwnTypes, Asked, Reference, ReturnFormat
<1>7. CASE i \in 1 .. a
  <2>1. Holds(f, i) /\ f.sig[i] \in {"i", "s", "a"} /\ i \in DOMAIN f.sig
    BY <1>1, <1>5, <1>7
  <2>2. CASE f.sig[i] = "a"
    <3>1. format[i] = "a" /\ i + 1 \in 1 .. n /\ format[i + 1] = "i"
      BY <1>4, <2>1, <2>2 DEF Holds
    <3>2. i + 1 \in 1 .. a
      <4>1. CASE i + 1 \in a + 1 .. Len(f.sig)
        BY <1>6, <3>1, <4>1
      <4>2. CASE i + 1 > Len(f.sig)
        <5>1. f.offset > 0 /\ a = Len(f.sig)
          BY <1>1, <1>7, <3>1, <4>2
        <5>2. f.index > Arguments(f.sig)
          BY <5>1 DEF OwnTypes
        <5>. QED
          BY <1>1, <1>2, <5>1, <5>2
      <4>. QED
        BY <1>1, <1>7, <3>1, <4>1, <4>2
    <3>3. number[i + 1] = Passed(f.call, i + 1)
      BY <1>5, <3>1, <3>2 DEF Holds
    <3>. QED
      BY <2>1, <2>2, <3>1, <3>3 DEF Cells, Need
  <2>3. CASE f.sig[i] # "a"
    BY <2>1, <2>3 DEF Holds, Cells, Need
  <2>. QED
    BY <2>2, <2>3
<1>8. CASE i \in a + 1 .. Len(f.sig)
  <2>1. i \in DOMAIN f.sig /\ i <= Done(f) /\ i \in Nat
    BY <1>1, <1>8
  <2>2. CASE f.sig[i] = "S"
    <3>1. number[i + 1] = Length
      BY <2>1, <2>2 DEF OwnValues, OwnLengths
    <3>2. Number(number[i + 1]) = StringCells
      BY <3>1 DEF Number
    <3>. QED
      BY <1>6, <1>8, <2>2, <3>2, Bounds DEF ReturnFormat, Cells, Need
  <2>3. CASE f.sig[i] = "I"
    BY <1>6, <1>8, <2>3 DEF ReturnFormat, Cells, Need
  <2>. QED
    BY <1>6, <1>8, <2>2, <2>3
<1>9. CASE i > Len(f.sig)
  <2>1. f.offset > 0
    BY <1>1, <1>3, <1>9
  <2>2. f.offset = 1 /\ format[Done(f)] = "i"
    BY <2>1 DEF OwnValues, OwnLengths
  <2>3. i = Done(f)
    BY <1>1, <1>3, <1>9, <2>2
  <2>4. i \notin DOMAIN f.sig
    BY <1>1, <1>9
  <2>. QED
    BY <2>2, <2>3, <2>4 DEF Cells
<1>. QED
  BY <1>1, <1>3, <1>7, <1>8, <1>9

\* So it takes its demand of the heap, or a part if it is given up.
LEMMA OwnDemand ==
  ASSUME PawnTypeOK, NEW f \in Frame, f.index = Len(f.sig), f.offset <= f.index,
         NEW n \in 0 .. MaxSlots - 1, n = Done(f), OwnTypes(f), OwnValues(f), Regular(f.sig)
  PROVE  /\ Demand(f.call, f.sig) \in Nat
         /\ LacksLength(n) = {} => FilledUpTo(n) = hea + Demand(f.call, f.sig)
         /\ FilledUpTo(n) <= hea + Demand(f.call, f.sig)
<1>1. /\ f.sig \in Seq(Letter) /\ DOMAIN f.sig = 1 .. Len(f.sig) /\ Len(f.sig) \in Nat
      /\ f.offset \in Nat /\ n = Len(f.sig) + f.offset /\ f.call \in 1 .. MaxCalls
      /\ Len(f.sig) < MaxSlots
  BY FrameFields, SignatureType DEF Done
<1> DEFINE needs == UNION {{k} \X (1 .. Need(f.call, f.sig, k)) : k \in DOMAIN f.sig}
<1>2. \A k \in 1 .. Len(f.sig) : Need(f.call, f.sig, k) \in Int
  <2> SUFFICES ASSUME NEW k \in 1 .. Len(f.sig) PROVE Need(f.call, f.sig, k) \in Int
    OBVIOUS
  <2>1. k \in Slot /\ k + 1 \in Slot
    BY <1>1, Bounds DEF Slot
  <2>2. Passed(f.call, k) \in Value /\ Passed(f.call, k + 1) \in Value
    BY <1>1, <2>1, Values
  <2>3. TextCells(Passed(f.call, k)) \in Int /\ Number(Passed(f.call, k + 1)) \in Int
    <3> HIDE DEF Value
    <3>. QED
      BY <2>2, NumberType
  <2>. QED
    BY <2>3, Bounds DEF Need
<1>3. IsFiniteSet(needs) /\ Cardinality(needs) \in Nat
  <2>1. PICK S : S = 1 .. Len(f.sig)
    OBVIOUS
  <2>2. PICK c \in [S -> Int] : c = [k \in S |-> Need(f.call, f.sig, k)]
    BY <1>2, <2>1
  <2>3. needs = UNION {{k} \X (1 .. c[k]) : k \in S}
    <3>1. \A k \in S : c[k] = Need(f.call, f.sig, k)
      BY <2>2
    <3>. QED
      BY <1>1, <2>1, <3>1
  <2>4. IsFiniteSet(S)
    <3>1. 1 \in Int /\ Len(f.sig) \in Int
      BY <1>1
    <3>. QED
      BY <2>1, <3>1, FS_Interval
  <2> HIDE DEF needs
  <2>. QED
    BY <2>3, <2>4, Boxes, FS_CardinalityType
<1>4. Demand(f.call, f.sig) = Cardinality(needs)
  BY DEF Demand
<1>5. ASSUME NEW k \in Pushed(n), NEW x \in {k} \X (1 .. Cells(k))
      PROVE  x \in needs
  <2>1. /\ k \in DOMAIN f.sig => Cells(k) = Need(f.call, f.sig, k)
        /\ k \notin DOMAIN f.sig => Cells(k) = 0
    BY OwnCells
  <2>. QED
    BY <2>1
<1>6. hea \in Nat
  BY DEF PawnTypeOK
<1>7. CASE LacksLength(n) = {}
  <2>1. Pushed(n) = 1 .. n /\ n + 1 - 1 = n
    BY <1>1, <1>7, PushedSlots
  <2>2. CellsBefore(n + 1) = needs
    <3>1. CellsBefore(n + 1) = UNION {{j} \X (1 .. Cells(j)) : j \in 1 .. n}
      BY <2>1 DEF CellsBefore
    <3>2. \A x \in CellsBefore(n + 1) : x \in needs
      <4> HIDE DEF needs
      <4>. QED
        BY <1>5, <2>1, <3>1
    <3>3. \A x \in needs : x \in CellsBefore(n + 1)
      <4> SUFFICES ASSUME NEW k \in DOMAIN f.sig, NEW x \in {k} \X (1 .. Need(f.call, f.sig, k))
                   PROVE  x \in CellsBefore(n + 1)
        OBVIOUS
      <4>1. k \in Pushed(n) /\ k \in 1 .. n
        BY <1>1, <2>1
      <4>2. Cells(k) = Need(f.call, f.sig, k)
        BY <4>1, OwnCells
      <4>. QED
        BY <3>1, <4>1, <4>2
    <3> HIDE DEF needs
    <3>. QED
      BY <3>2, <3>3
  <2>3. FilledUpTo(n) = hea + Cardinality(CellsBefore(n + 1))
    BY <1>7, FilledHeapType DEF Base, CellsBefore
  <2> HIDE DEF needs
  <2>. QED
    BY <1>3, <1>4, <1>6, <2>2, <2>3
<1>8. CASE LacksLength(n) # {}
  <2>1. PICK m \in 1 .. n : FilledUpTo(n) = Base(m) /\ Pushed(n) = 1 .. m - 1
    BY <1>8, FilledHeapType
  <2>2. CellsBefore(m) \in SUBSET needs
    <3> HIDE DEF needs
    <3>. QED
      BY <1>5, <2>1 DEF CellsBefore
  <2>3. Cardinality(CellsBefore(m)) <= Cardinality(needs) /\ Cardinality(CellsBefore(m)) \in Nat
    <3> HIDE DEF needs
    <3>1. m \in 0 .. MaxSlots
      BY Bounds
    <3>. QED
      BY <1>3, <2>2, <3>1, FS_Subset, CellsFinite
  <2>4. FilledUpTo(n) = hea + Cardinality(CellsBefore(m))
    BY <2>1 DEF Base, CellsBefore
  <2> HIDE DEF needs
  <2>. QED
    BY <1>3, <1>4, <1>6, <1>8, <2>3, <2>4
<1>. QED
  BY <1>7, <1>8

(***************************************************************************)
(* Changes of the stack.                                                   *)
(***************************************************************************)

\* Frames stay as they are when the parameters get more blocks.
LEMMA FrameGrows ==
  ASSUME NEW f, NEW m \in Nat, NEW n \in Nat, m <= n, FrameOK(f, m)
  PROVE  FrameOK(f, n)
  BY DEF FrameOK

\* All frames above which others were are disturbed.
LEMMA Popped ==
  ASSUME NEW under \in Seq(Frame), Below(under), stack' = under, blocks' # <<>>,
         \A k \in DOMAIN under : FrameOK(under[k], Len(blocks')), HeapOK(under, hea')
  PROVE  FrameInv' /\ TopInv' /\ HeapInv'
<1> HIDE DEF Frame
<1>1. /\ Len(under) \in Nat /\ DOMAIN under = 1 .. Len(under)
      /\ under = <<>> <=> Len(under) = 0
  BY Frames
<1>2. under # <<>> => Below(Front(under)) /\ Last(under).disturbed
  <2> SUFFICES ASSUME under # <<>> PROVE Below(Front(under)) /\ Last(under).disturbed
    OBVIOUS
  <2>1. /\ DOMAIN Front(under) = 1 .. Len(under) - 1
        /\ \A k \in 1 .. Len(under) - 1 : Front(under)[k] = under[k]
    BY FrontPlaces
  <2>2. Len(under) \in DOMAIN under /\ Last(under) = under[Len(under)]
    BY <1>1 DEF Last
  <2>. QED
    BY <1>1, <2>1, <2>2 DEF Below
<1>3. FrameInv'
  BY <1>2 DEF FrameInv, Under
<1>4. TopInv'
  BY <1>2 DEF TopInv, Top
<1>5. HeapInv'
  BY DEF HeapInv, HeapOK
<1>. QED
  BY <1>3, <1>4, <1>5

\* A frame is pushed on others that are disturbed.
LEMMA PushedFrame ==
  ASSUME NEW under \in Seq(Frame), Below(under), NEW g \in Frame, stack' = Append(under, g),
         blocks' # <<>>, FrameOK(g, Len(blocks')),
         \A k \in DOMAIN under : FrameOK(under[k], Len(blocks')),
         HeapOK(Append(under, g), hea'),
         ~ended' /\ ~g.disturbed => Own(g)'
  PROVE  /\ stack' \in Seq(Frame) /\ stack' # <<>> /\ Top' = g /\ Under' = under
         /\ FrameInv' /\ TopInv' /\ HeapInv'
<1> HIDE DEF Frame
<1>1. PICK q \in Seq(Frame) : q = Append(under, g)
  BY PushType
<1>2. /\ Len(under) \in Nat /\ DOMAIN under = 1 .. Len(under)
      /\ Len(q) = Len(under) + 1 /\ DOMAIN q = 1 .. Len(under) + 1
      /\ q[Len(under) + 1] = g /\ \A k \in 1 .. Len(under) : q[k] = under[k]
  BY <1>1, PushPlaces, Frames
<1>3. q # <<>>
  BY <1>2
<1>4. Last(q) = g
  BY <1>2 DEF Last
<1>5. Front(q) = under
  <2>1. /\ Front(q) \in Seq(Frame) /\ Len(Front(q)) = Len(q) - 1
        /\ \A k \in 1 .. Len(q) - 1 : Front(q)[k] = q[k]
    BY <1>3, FrontPlaces
  <2>. QED
    BY <1>2, <2>1, SameSeq
<1>6. stack' = q /\ Top' = g /\ Under' = under
  BY <1>1, <1>4, <1>5 DEF Top, Under
<1>7. FrameInv'
  <2>1. \A k \in DOMAIN q : FrameOK(q[k], Len(blocks'))
    BY <1>2
  <2>. QED
    BY <1>6, <2>1 DEF FrameInv
<1>8. TopInv'
  BY <1>6 DEF TopInv
<1>9. HeapInv'
  BY DEF HeapInv, HeapOK
<1>. QED
  BY <1>1, <1>3, <1>6, <1>7, <1>8, <1>9

(***************************************************************************)
(* CallFunction.                                                           *)
(***************************************************************************)

\* A reference takes cells, if no length is missing or wrong.
LEMMA TakesCells ==
  ASSUME PawnTypeOK, NEW n \in 0 .. MaxSlots - 1, LacksLength(n) = {}, Unpushable(n) = {},
         NEW k \in 1 .. n, format[k] \in {"r", "S"}
  PROVE  Cells(k) > 0
<1>1. k \in 1 .. MaxSlots - 1 /\ k \in Pushed(n)
  BY PushedSlots, Bounds
<1>2. CASE format[k] = "r"
  BY <1>1, <1>2, CellsType
<1>3. CASE format[k] = "S"
  <2>1. ~(Number(number[k + 1]) <= 0) /\ Cells(k) = Number(number[k + 1])
    BY <1>1, <1>3 DEF Unpushable, Cells
  <2>. QED
    BY <1>1, <2>1, CellsType
<1>. QED
  BY <1>2, <1>3

\* Two slots that take cells do not have the same address, so what a native
\* of the server stores in one is what is read back from it.
LEMMA ServerStores ==
  ASSUME PawnTypeOK, NEW n \in 0 .. MaxSlots - 1, LacksLength(n) = {}, Unpushable(n) = {},
         NEW c \in 1 .. MaxCalls,
         NEW wrote \in SUBSET {k \in 1 .. n : format[k] \in {"r", "S"}}
  PROVE  LET h == Stored([a \in {Base(k) : k \in wrote} |->
                             Written(c, CHOOSE k \in wrote : Base(k) = a)], FilledHeap(n))
         IN  IsHeap(h) /\ \A k \in wrote : Read(h, Filled(n)[k]) = Written(c, k)
<1> DEFINE cells == [a \in {Base(k) : k \in wrote} |->
                       Written(c, CHOOSE k \in wrote : Base(k) = a)]
<1>1. ASSUME NEW k \in wrote
      PROVE  /\ k \in 1 .. n /\ k \in 1 .. MaxSlots - 1 /\ Cells(k) > 0 /\ Base(k) \in Nat
             /\ Filled(n)[k] = Address(Base(k))
  <2>1. k \in 1 .. n /\ k \in 1 .. MaxSlots - 1 /\ Cells(k) > 0
    BY TakesCells, Bounds
  <2>. QED
    BY <2>1, FilledSlot
<1>2. ASSUME NEW k \in wrote
      PROVE  cells[Base(k)] = Written(c, k) /\ Written(c, k) \in Value
  <2>1. PICK j : j = CHOOSE i \in wrote : Base(i) = Base(k)
    OBVIOUS
  <2>2. j \in wrote /\ Base(j) = Base(k)
    BY <2>1
  <2>3. j = k
    BY <1>1, <2>2, BaseInjective
  <2>4. k \in Slot
    BY <1>1, Bounds DEF Slot
  <2>. QED
    BY <1>1, <2>1, <2>3, <2>4, Values
<1>3. IsHeap(cells)
  BY <1>1, <1>2 DEF IsHeap
<1>4. PICK top : top = cells
  OBVIOUS
<1>5. IsHeap(Stored(top, FilledHeap(n)))
  BY <1>3, <1>4, FilledHeapType, StoredType
<1>6. ASSUME NEW k \in wrote
      PROVE  Read(Stored(top, FilledHeap(n)), Filled(n)[k]) = Written(c, k)
  <2>1. Base(k) \in DOMAIN top /\ top[Base(k)] = Written(c, k)
    BY <1>2, <1>4
  <2>2. /\ Base(k) \in DOMAIN Stored(top, FilledHeap(n))
        /\ Stored(top, FilledHeap(n))[Base(k)] = Written(c, k)
    BY <2>1 DEF Stored
  <2>. QED
    BY <1>1, <2>2, Values DEF Read
<1>. QED
  BY <1>4, <1>5, <1>6

\* What CallFunction is called with, for a call f on top of other frames.
Calling(f, under) ==
  /\ f.at = "convert" /\ f.index = Len(f.sig) /\ f.offset <= f.index
  /\ f.got = 0 /\ f.wrote = {}
  /\ Done(f) \in 0 .. MaxSlots - 1
  /\ f.name # "unknown" => Unpushable(Done(f)) = {}
  /\ Below(under)
  /\ \A k \in DOMAIN under : FrameOK(under[k], Len(blocks))
  /\ HeapOK(under, hea)
  /\ ~f.disturbed => OwnTypes(f) /\ OwnValues(f)

\* What it leaves alone.
CallKeeps(n) ==
  /\ signature' = signature /\ handler' = handler /\ handlers' = handlers
  /\ calls' \in 0 .. MaxCalls
  /\ format' \in [Slot -> Format] /\ \A k \in 1 .. n : format'[k] = format[k]

\* The type invariant, part by part.
LEMMA TypeNext ==
  ASSUME signature' \in [Slot -> Letter], format' \in [Slot -> Format],
         number' \in [Slot -> Value], text' \in [Slot -> Value], list' \in [Slot -> Value],
         blocks' \in Seq(Block), IsHeap(heap'), hea' \in Nat,
         handler' \in Provided \cup {NoHandler}, handlers' \in 0 .. MaxHandlers,
         stack' \in Seq(Frame), calls' \in 0 .. MaxCalls, ended' \in BOOLEAN
  PROVE  PawnTypeOK'
<1>1. DOMAIN heap' \subseteq Nat /\ Range(heap') \subseteq Value
  BY DEF IsHeap, Range
<1> HIDE DEF Frame, Value
<1>. QED
  BY <1>1 DEF PawnTypeOK, Block

\* The call ends, and what it had taken of the heap is given back.
LEMMA CallEnds ==
  ASSUME PawnTypeOK, ~ended, ended' = ended, NEW f \in Frame, NEW under \in Seq(Frame), Calling(f, under),
         CallKeeps(Done(f)), stack' = under, hea' = hea, blocks' \in Seq(Block), blocks' # <<>>,
         Len(blocks') >= Len(blocks), IsHeap(heap'),
         number' \in [Slot -> Value], text' \in [Slot -> Value], list' \in [Slot -> Value]
  PROVE  PawnTypeOK' /\ FrameInv' /\ TopInv' /\ HeapInv' /\ EndsForItsOwn'
<1>1. Len(blocks) \in Nat /\ Len(blocks') \in Nat
  <2>1. blocks \in Seq(Block)
    BY Storage
  <2> HIDE DEF Block
  <2>. QED
    BY <2>1, SeqType
<1>2. \A k \in DOMAIN under : FrameOK(under[k], Len(blocks'))
  BY <1>1, FrameGrows DEF Calling
<1>3. FrameInv' /\ TopInv' /\ HeapInv'
  BY <1>2, Popped DEF Calling
<1>4. PawnTypeOK'
  <2>1. /\ signature' \in [Slot -> Letter] /\ format' \in [Slot -> Format]
        /\ handler' \in Provided \cup {NoHandler} /\ handlers' \in 0 .. MaxHandlers
        /\ calls' \in 0 .. MaxCalls /\ ended' \in BOOLEAN /\ hea' \in Nat
    BY DEF PawnTypeOK, CallKeeps
  <2> HIDE DEF Frame, Value, Block
  <2>. QED
    BY <2>1, TypeNext
<1>5. EndsForItsOwn'
  BY DEF EndsForItsOwn
<1>. QED
  BY <1>3, <1>4, <1>5

\* A call that is given up keeps the invariant, half filled as it may be.
LEMMA GiveUpStep ==
  ASSUME PawnTypeOK, FrameInv, SeesItsArguments, ~ended, NEW f \in Frame,
         NEW under \in Seq(Frame), Calling(f, under), CallKeeps(Done(f)),
         GiveUp(f, under, Done(f))
  PROVE  CallInv'
<1>1. PICK n \in 0 .. MaxSlots - 1 : n = Done(f)
  BY DEF Calling
<1>2. blocks # <<>> /\ blocks \in Seq(Block) /\ IsHeap(heap)
  BY Storage DEF FrameInv
<1>3. /\ FilledBlocks(n) \in Seq(Block) /\ FilledBlocks(n) # <<>>
      /\ Len(FilledBlocks(n)) >= Len(blocks) /\ IsHeap(FilledHeap(n))
  BY <1>2, FilledBlocksType, FilledHeapType
<1>4. Len(blocks) >= Len(blocks)
  <2>1. Len(blocks) \in Nat
    <3> HIDE DEF Block
    <3>. QED
      BY <1>2, SeqType
  <2>. QED
    BY <2>1
<1>5. blocks' \in Seq(Block) /\ blocks' # <<>> /\ Len(blocks') >= Len(blocks) /\ IsHeap(heap')
  <2>1. CASE f.name = "unknown"
    <3>1. blocks' = blocks /\ heap' = heap
      BY <2>1 DEF GiveUp
    <3>. QED
      BY <1>2, <1>4, <3>1
  <2>2. CASE f.name # "unknown"
    <3>1. blocks' = FilledBlocks(n) /\ heap' = FilledHeap(n)
      BY <1>1, <2>2 DEF GiveUp
    <3>. QED
      BY <1>3, <3>1
  <2>. QED
    BY <2>1, <2>2
<1>6. /\ stack' = under /\ hea' = hea /\ ended' = ended /\ entered' = entered
      /\ number' = number /\ text' = text /\ list' = list /\ Finish(f, "number", <<>>, {})
  BY DEF GiveUp
<1>7. /\ number' \in [Slot -> Value] /\ text' \in [Slot -> Value] /\ list' \in [Slot -> Value]
  BY <1>6, Storage
<1>8. PawnTypeOK' /\ FrameInv' /\ TopInv' /\ HeapInv' /\ EndsForItsOwn'
  BY <1>5, <1>6, <1>7, CallEnds
<1>9. SeesItsArguments'
  BY <1>6 DEF SeesItsArguments
<1>10. ReturnsItsOwn'
  <2>1. finished'.kind # "values"
    BY <1>6 DEF Finish, Nothing
  <2>. QED
    BY <2>1 DEF ReturnsItsOwn
<1>. QED
  BY <1>8, <1>9, <1>10 DEF CallInv

\* So does a call of the server: what it stored is read from the slots
\* it was stored in, as each reference has its own address.
LEMMA CallServerStep ==
  ASSUME PawnTypeOK, FrameInv, ~ended, NEW f \in Frame,
         NEW under \in Seq(Frame), Calling(f, under), CallKeeps(Done(f)),
         CallServer(f, under, Done(f))
  PROVE  CallInv'
<1>1. PICK n \in 0 .. MaxSlots - 1 : n = Done(f)
  BY DEF Calling
<1>2. blocks # <<>> /\ LacksLength(n) = {} /\ Unpushable(n) = {} /\ hea \in Nat
  BY <1>1, Storage DEF FrameInv, CallServer, Calling
<1>3. PICK wrote \in SUBSET {k \in 1 .. n : format[k] \in {"r", "S"}}, result \in {"-1", "other"} :
        Return([f EXCEPT !.stored_hea = hea], under, n, Filled(n),
               Stored([a \in {Base(k) : k \in wrote} |->
                         Written(f.call, CHOOSE k \in wrote : Base(k) = a)], FilledHeap(n)),
               result, wrote)
  BY <1>1 DEF CallServer
<1>4. PICK h : h = Stored([a \in {Base(k) : k \in wrote} |->
                             Written(f.call, CHOOSE k \in wrote : Base(k) = a)], FilledHeap(n))
  OBVIOUS
<1>5. IsHeap(h) /\ \A k \in wrote : Read(h, Filled(n)[k]) = Written(f.call, k)
  <2>1. f.call \in 1 .. MaxCalls
    BY FrameFields
  <2>. QED
    BY <1>2, <1>4, <2>1, ServerStores
<1>6. PICK g : g = [f EXCEPT !.stored_hea = hea]
  OBVIOUS
<1>7. /\ g \in Frame /\ g.call = f.call /\ g.sig = f.sig /\ g.index = f.index
      /\ g.offset = f.offset /\ g.disturbed = f.disturbed /\ g.stored_hea = hea
  BY <1>2, <1>6 DEF Frame
<1>8. Return(g, under, n, Filled(n), h, result, wrote)
  BY <1>3, <1>4, <1>6
<1>9. /\ number' \in [Slot -> Value] /\ text' \in [Slot -> Value] /\ list' \in [Slot -> Value]
      /\ IsHeap(heap') /\ hea' = hea /\ stack' = under
  BY <1>5, <1>7, <1>8, ReturnType
<1>10. /\ blocks' = FilledBlocks(n) /\ ended' = ended
       /\ Enter(f, Filled(n), FilledHeap(n))
  BY <1>1 DEF CallServer
<1>11. /\ blocks' \in Seq(Block) /\ blocks' # <<>> /\ Len(blocks') >= Len(blocks)
  BY <1>2, <1>10, FilledBlocksType
<1>12. PawnTypeOK' /\ FrameInv' /\ TopInv' /\ HeapInv' /\ EndsForItsOwn'
  BY <1>9, <1>10, <1>11, CallEnds
<1>13. SeesItsArguments'
  BY <1>1, <1>2, <1>10, SeesOwn DEF Calling
<1>14. ReturnsItsOwn'
  <2>1. /\ g.index = Len(g.sig) /\ g.offset <= g.index /\ n = Done(g)
        /\ ~g.disturbed => OwnTypes(g)
    BY <1>1, <1>7 DEF Calling, Done, OwnTypes
  <2>. QED
    BY <1>5, <1>7, <1>8, <2>1, ReturnsOwn
<1>. QED
  BY <1>12, <1>13, <1>14 DEF CallInv

\* The frame of a handler that begins.
Begun(f, n, b) ==
  [[f EXCEPT !.count = n, !.stored_hea = hea, !.block = b, !.mixed = f.disturbed,
             !.handlers = handlers]
     EXCEPT !.at = "handler"]

\* Its fields.
LEMMA HandlerFrame ==
  ASSUME PawnTypeOK, blocks # <<>>, NEW f \in Frame, NEW n \in 0 .. MaxSlots - 1,
         f.index = Len(f.sig), f.offset <= f.index, f.got = 0, f.wrote = {}, n = Done(f),
         NEW b \in Nat \ {0}, NEW g, g = Begun(f, n, b)
  PROVE  /\ g \in Frame /\ InHandler(g) /\ FrameOK(g, b)
         /\ g.call = f.call /\ g.sig = f.sig /\ g.index = f.index /\ g.offset = f.offset
         /\ g.disturbed = f.disturbed /\ g.mixed = f.disturbed /\ g.count = n
         /\ g.stored_hea = hea /\ g.block = b /\ g.at = "handler" /\ g.wrote = {}
         /\ g.handlers = handlers
<1>1. /\ hea \in Nat /\ "handler" \in {"convert", "toString", "getter", "handler", "result"}
      /\ handlers \in 0 .. MaxHandlers /\ n \in 0 .. MaxSlots
  BY Storage, Bounds DEF PawnTypeOK
<1>2. g \in Frame
  BY <1>1 DEF Frame, Begun
<1>3. /\ g.call = f.call /\ g.sig = f.sig /\ g.index = f.index /\ g.offset = f.offset
      /\ g.disturbed = f.disturbed /\ g.mixed = f.disturbed /\ g.count = n
      /\ g.stored_hea = hea /\ g.block = b /\ g.at = "handler" /\ g.handlers = handlers
      /\ g.got = f.got /\ g.wrote = f.wrote
  BY DEF Frame, Begun
<1>4. FrameOK(g, b)
  BY <1>3 DEF FrameOK, Done, InHandler
<1>. QED
  BY <1>2, <1>3, <1>4 DEF InHandler

\* The parameters a handler begins with are its call's own.
LEMMA HandlerOwns ==
  ASSUME PawnTypeOK, blocks # <<>>, NEW f \in Frame, NEW n \in 0 .. MaxSlots - 1,
         f.index = Len(f.sig), f.offset <= f.index, n = Done(f),
         LacksLength(n) = {}, Unpushable(n) = {},
         OwnTypes(f), blocks' = FilledBlocks(n), CallKeeps(n),
         NEW g, g.sig = f.sig, g.index = f.index, g.offset = f.offset, g.count = n,
         g.block = Len(FilledBlocks(n)), g.at = "handler", g.wrote = {}, g.handlers = handlers
  PROVE  Own(g)'
<1>1. /\ f.sig \in Seq(Letter) /\ DOMAIN f.sig = 1 .. Len(f.sig) /\ Len(f.sig) \in Nat
      /\ f.offset \in Nat /\ n = Len(f.sig) + f.offset
  BY FrameFields, SignatureType DEF Done
<1>2. Params' = Filled(n) /\ Params'[0] = Bytes(n) /\ g.block = Len(blocks')
  BY FilledBlocksType, FilledType DEF Params
<1>3. OwnTypes(g)'
  <2>1. Done(g) = n
    BY DEF Done
  <2>2. \A k \in Asked(f.sig) : k <= n => format'[k] = format[k]
    BY <1>1 DEF Asked, CallKeeps
  <2>3. signature' = signature
    BY DEF CallKeeps
  <2>. QED
    BY <2>1, <2>2, <2>3 DEF OwnTypes
<1>4. ASSUME Regular(f.sig), NEW k \in Asked(f.sig)
      PROVE  /\ k \in 1 .. n /\ k \in 1 .. MaxSlots - 1 /\ Cells(k) > 0
             /\ Filled(n)[k] = Address(Base(k))
  <2>1. k \in 1 .. n /\ k \in 1 .. MaxSlots - 1
    BY <1>1, Bounds DEF Asked
  <2>2. format[k] \in {"r", "S"}
    BY <1>4, <2>1 DEF OwnTypes, ReturnFormat
  <2>3. Cells(k) > 0
    BY <2>1, <2>2, TakesCells
  <2>. QED
    BY <2>1, <2>3, FilledSlot
<1>5. ASSUME Regular(f.sig), NEW k \in Asked(f.sig)
      PROVE  /\ Params'[k][1] = "address"
             /\ \A j \in Asked(f.sig) : Params'[j][2] = Params'[k][2] => j = k
  <2>1. Params'[k][1] = "address"
    BY <1>2, <1>4, <1>5, Values
  <2>2. ASSUME NEW j \in Asked(f.sig), Params'[j][2] = Params'[k][2] PROVE j = k
    <3>1. /\ Params'[j][2] = Base(j) /\ Params'[k][2] = Base(k)
      BY <1>2, <1>4, <1>5, Values
    <3>2. Base(j) = Base(k)
      BY <2>2, <3>1
    <3>. QED
      BY <1>4, <1>5, <3>2, BaseInjective
  <2>. QED
    BY <2>1, <2>2
<1>6. OwnParameters(g)'
  BY <1>2, <1>5 DEF OwnParameters
<1>7. OwnResult(g)'
  <2>1. handlers' = handlers /\ handlers \in 0 .. MaxHandlers
    BY DEF CallKeeps, PawnTypeOK
  <2>. QED
    BY <2>1, Bounds DEF OwnResult
<1>. QED
  BY <1>3, <1>6, <1>7 DEF Own, InHandler

\* A provided native keeps it, whether it is refused, ends the process for an
\* argument that was not passed, or calls its handler.
LEMMA CallProvidedStep ==
  ASSUME PawnTypeOK, FrameInv, SeesItsArguments, ReturnsItsOwn, ~ended, NEW f \in Frame,
         NEW under \in Seq(Frame), Calling(f, under), CallKeeps(Done(f)),
         CallProvided(f, under, Done(f))
  PROVE  CallInv'
<1>1. PICK n \in 0 .. MaxSlots - 1 : n = Done(f)
  BY DEF Calling
<1> DEFINE g == [f EXCEPT !.count = n, !.stored_hea = hea, !.block = Len(FilledBlocks(n)),
                          !.mixed = f.disturbed, !.handlers = handlers]
           refused == handler = NoHandler \/ TooFew(n)
           missing == \E k \in DOMAIN handler : handler[k] \notin Reference /\ k > n
<1>2. /\ blocks # <<>> /\ LacksLength(n) = {} /\ Unpushable(n) = {}
      /\ hea \in Nat /\ blocks' = FilledBlocks(n)
  BY <1>1, Storage DEF FrameInv, CallProvided, Calling
<1>3. PICK b \in Nat \ {0} : b = Len(FilledBlocks(n))
  <2>1. FilledBlocks(n) \in Seq(Block) /\ FilledBlocks(n) # <<>>
    BY <1>2, FilledBlocksType
  <2> HIDE DEF Block
  <2>. QED
    BY <2>1, SeqType
<1>4. /\ blocks' \in Seq(Block) /\ blocks' # <<>> /\ Len(blocks') >= Len(blocks)
      /\ IsHeap(FilledHeap(n)) /\ FilledUpTo(n) \in Nat /\ hea <= FilledUpTo(n)
  BY <1>2, FilledBlocksType, FilledHeapType
<1>5. /\ f.index = Len(f.sig) /\ f.offset <= f.index /\ f.got = 0 /\ f.wrote = {}
      /\ handlers \in 0 .. MaxHandlers /\ n \in 0 .. MaxSlots
  BY Bounds DEF Calling, PawnTypeOK
<1>6. CASE /\ refused
           /\ Return(g, under, n, Filled(n), FilledHeap(n), "0", {})
           /\ UNCHANGED <<ended, entered>>
  <2>1. /\ g \in Frame /\ g.call = f.call /\ g.sig = f.sig /\ g.index = f.index
        /\ g.offset = f.offset /\ g.disturbed = f.disturbed /\ g.stored_hea = hea
    BY <1>2, <1>3, <1>5 DEF Frame
  <2> HIDE DEF g
  <2>2. /\ number' \in [Slot -> Value] /\ text' \in [Slot -> Value] /\ list' \in [Slot -> Value]
        /\ IsHeap(heap') /\ hea' = hea /\ stack' = under
    BY <1>4, <1>6, <2>1, ReturnType
  <2>3. PawnTypeOK' /\ FrameInv' /\ TopInv' /\ HeapInv' /\ EndsForItsOwn'
    BY <1>4, <1>6, <2>2, CallEnds
  <2>4. SeesItsArguments'
    BY <1>6 DEF SeesItsArguments
  <2>5. ReturnsItsOwn'
    <3>1. /\ g.index = Len(g.sig) /\ g.offset <= g.index /\ n = Done(g)
          /\ ~g.disturbed => OwnTypes(g)
      BY <1>1, <2>1 DEF Calling, Done, OwnTypes
    <3>. QED
      BY <1>6, <2>1, <3>1, ReturnsOwn
  <2>. QED
    BY <2>3, <2>4, <2>5 DEF CallInv
<1>7. CASE /\ ~refused
           /\ ended' = missing
           /\ stack' = Append(under, [g EXCEPT !.at = "handler"])
           /\ heap' = FilledHeap(n) /\ hea' = FilledUpTo(n)
           /\ Enter(f, Filled(n), FilledHeap(n))
           /\ UNCHANGED <<number, text, list, finished>>
  <2>1. PICK top : top = [g EXCEPT !.at = "handler"]
    OBVIOUS
  <2>2. /\ top \in Frame /\ InHandler(top) /\ FrameOK(top, b)
        /\ top.call = f.call /\ top.sig = f.sig /\ top.index = f.index /\ top.offset = f.offset
        /\ top.disturbed = f.disturbed /\ top.mixed = f.disturbed /\ top.count = n
        /\ top.stored_hea = hea /\ top.block = b /\ top.at = "handler" /\ top.wrote = {}
        /\ top.handlers = handlers
    <3>1. top = Begun(f, n, b)
      BY <1>3, <2>1 DEF Begun
    <3> HIDE DEF g
    <3>. QED
      BY <1>1, <1>2, <1>5, <3>1, HandlerFrame
  <2>3. stack' = Append(under, top)
    BY <1>7, <2>1
  <2> HIDE DEF g
  <2>4. \A k \in DOMAIN under : FrameOK(under[k], Len(blocks'))
    <3>1. Len(blocks) \in Nat /\ Len(blocks') \in Nat
      <4>1. blocks \in Seq(Block)
        BY Storage
      <4> HIDE DEF Block
      <4>. QED
        BY <1>4, <4>1, SeqType
    <3>. QED
      BY <1>4, <3>1, FrameGrows DEF Calling
  <2>5. HeapOK(Append(under, top), hea')
    <3>1. ~top.mixed /\ Regular(top.sig) => FilledUpTo(n) = hea + Demand(top.call, top.sig)
      BY <1>1, <1>2, <2>2, OwnDemand DEF Calling
    <3>2. HeapOK(under, hea)
      BY DEF Calling
    <3>. QED
      BY <1>2, <1>4, <1>7, <2>2, <3>1, <3>2, HeapTaken
  <2>6. ~top.disturbed => Own(top)'
    BY <1>1, <1>2, <1>3, <1>5, <2>2, HandlerOwns DEF Calling
  <2>7. blocks' # <<>> /\ FrameOK(top, Len(blocks'))
    BY <1>2, <1>3, <1>4, <2>2
  <2>8. /\ stack' \in Seq(Frame) /\ stack' # <<>> /\ Top' = top
        /\ FrameInv' /\ TopInv' /\ HeapInv'
    BY <2>2, <2>3, <2>4, <2>5, <2>6, <2>7, PushedFrame DEF Calling
  <2>9. PawnTypeOK'
    <3>1. /\ signature' \in [Slot -> Letter] /\ format' \in [Slot -> Format]
          /\ handler' \in Provided \cup {NoHandler} /\ handlers' \in 0 .. MaxHandlers
          /\ calls' \in 0 .. MaxCalls
      BY DEF PawnTypeOK, CallKeeps
    <3>2. ended' \in BOOLEAN
      BY <1>7
    <3>3. /\ number' \in [Slot -> Value] /\ text' \in [Slot -> Value] /\ list' \in [Slot -> Value]
          /\ IsHeap(heap') /\ hea' \in Nat
      BY <1>4, <1>7, Storage
    <3> HIDE DEF Frame, Value, Block
    <3>. QED
      BY <1>4, <2>8, <3>1, <3>2, <3>3, TypeNext
  <2>10. SeesItsArguments'
    BY <1>1, <1>2, <1>5, <1>7, SeesOwn DEF Calling
  <2>11. ReturnsItsOwn'
    BY <1>7 DEF ReturnsItsOwn
  <2>12. EndsForItsOwn'
    <3> SUFFICES ASSUME missing
                 PROVE  /\ n >= Arguments(handler)
                        /\ \E k \in DOMAIN handler \ Asked(handler) : k > n
      BY <1>7, <2>2, <2>8 DEF EndsForItsOwn, CallKeeps
    <3>1. PICK k \in DOMAIN handler : handler[k] \notin Reference /\ k > n
      OBVIOUS
    <3>2. n >= Arguments(handler)
      <4>1. ~(n < Arguments(handler))
        BY <1>7 DEF TooFew
      <4>2. Arguments(handler) \in Nat
        <5>1. handler \in Provided
          BY <1>7, Storage
        <5>2. handler \in Seq(Letter \ {"a"})
          BY <5>1, PawnAssumption
        <5>3. Size(handler, Letter \ Reference) \in 0 .. Len(handler) /\ Len(handler) \in Nat
          BY <5>2, SizeType, SeqType
        <5>. QED
          BY <5>3 DEF Arguments
      <4>. QED
        BY <4>1, <4>2
    <3>. QED
      BY <3>1, <3>2 DEF Asked
  <2>. QED
    BY <2>8, <2>9, <2>10, <2>11, <2>12 DEF CallInv
<1>. QED
  BY <1>1, <1>6, <1>7 DEF CallProvided

\* The three kinds of natives together.
LEMMA CallFunctionStep ==
  ASSUME PawnTypeOK, FrameInv, SeesItsArguments, ReturnsItsOwn, ~ended, NEW f \in Frame,
         NEW under \in Seq(Frame), Calling(f, under), CallKeeps(Done(f)),
         CallFunction(f, under, Done(f))
  PROVE  CallInv'
<1>1. CASE GiveUp(f, under, Done(f))
  BY <1>1, GiveUpStep
<1>2. CASE CallServer(f, under, Done(f))
  BY <1>2, CallServerStep
<1>3. CASE CallProvided(f, under, Done(f))
  BY <1>3, CallProvidedStep
<1>. QED
  BY <1>1, <1>2, <1>3 DEF CallFunction

(***************************************************************************)
(* The steps.                                                              *)
(***************************************************************************)

\* Calls in progress, when a script makes another, are disturbed by it.
LEMMA Disturbing ==
  ASSUME PawnTypeOK, FrameInv, HeapInv, ScriptRuns
  PROVE  /\ Disturbed(stack) \in Seq(Frame) /\ Below(Disturbed(stack))
         /\ \A k \in DOMAIN Disturbed(stack) : FrameOK(Disturbed(stack)[k], Len(blocks))
         /\ HeapOK(Disturbed(stack), hea)
<1>1. stack \in Seq(Frame) /\ hea \in Nat
  BY DEF PawnTypeOK
<1>2. /\ Len(stack) \in Nat /\ DOMAIN stack = 1 .. Len(stack)
      /\ \A k \in 1 .. Len(stack) : stack[k] \in Frame
      /\ stack = <<>> <=> Len(stack) = 0
  BY <1>1, Frames
<1>3. PICK q : q = Disturbed(stack)
  OBVIOUS
<1>4. DOMAIN q = 1 .. Len(stack) /\ \A k \in 1 .. Len(stack) : q[k] = [stack[k] EXCEPT !.disturbed = TRUE]
  BY <1>2, <1>3 DEF Disturbed
<1>5. ASSUME NEW x \in Frame, NEW y, y = [x EXCEPT !.disturbed = TRUE]
      PROVE  /\ y \in Frame /\ y.disturbed /\ y.at = x.at /\ y.index = x.index
             /\ y.offset = x.offset /\ y.sig = x.sig /\ y.block = x.block /\ y.count = x.count
             /\ y.stored_hea = x.stored_hea /\ y.mixed = x.mixed /\ y.call = x.call
             /\ y.place = x.place /\ y.got = x.got /\ y.wrote = x.wrote
  BY <1>5 DEF Frame
<1>6. ASSUME NEW k \in 1 .. Len(stack)
      PROVE  /\ q[k] \in Frame /\ q[k].disturbed /\ q[k].at = stack[k].at
             /\ q[k].index = stack[k].index /\ q[k].offset = stack[k].offset
             /\ q[k].sig = stack[k].sig /\ q[k].block = stack[k].block
             /\ q[k].count = stack[k].count /\ q[k].stored_hea = stack[k].stored_hea
             /\ q[k].mixed = stack[k].mixed /\ q[k].call = stack[k].call
             /\ q[k].place = stack[k].place /\ q[k].got = stack[k].got
             /\ q[k].wrote = stack[k].wrote
  <2> HIDE DEF Frame
  <2>. QED
    BY <1>2, <1>4, <1>5
<1> HIDE DEF Frame
<1>7. q \in Seq(Frame) /\ Len(q) = Len(stack)
  <2>1. q \in [1 .. Len(stack) -> Frame]
    BY <1>3, <1>4, <1>6, <1>2 DEF Disturbed
  <2>. QED
    BY <1>2, <2>1, FunctionIsSeq
<1>8. \A k \in 1 .. Len(stack) : FrameOK(q[k], Len(blocks))
  BY <1>2, <1>6 DEF FrameInv, FrameOK, Done, InHandler
<1>9. \A k \in 1 .. Len(stack) : q[k].at # "convert"
  <2> SUFFICES ASSUME NEW k \in 1 .. Len(stack) PROVE stack[k].at # "convert"
    BY <1>6
  <2>1. stack # <<>> /\ Last(stack) = stack[Len(stack)] /\ Top = Last(stack)
    BY <1>2 DEF Last, Top
  <2>2. CASE k = Len(stack)
    BY <2>1, <2>2 DEF ScriptRuns
  <2>3. CASE k # Len(stack)
    <3>1. /\ DOMAIN Under = 1 .. Len(stack) - 1
          /\ \A j \in 1 .. Len(stack) - 1 : Under[j] = stack[j]
      BY <1>1, <2>1, FrontPlaces DEF Under
    <3>2. k \in 1 .. Len(stack) - 1
      <4>1. Len(stack) \in Nat
        BY <1>2
      <4>. QED
        BY <2>3, <4>1
    <3>. QED
      BY <2>1, <3>1, <3>2 DEF FrameInv, Below
  <2>. QED
    BY <2>2, <2>3
<1>10. HeapOK(q, hea)
  <2>1. \A k \in 1 .. Len(stack) : InHandler(stack[k]) <=> InHandler(q[k])
    BY <1>6 DEF InHandler
  <2>2. HeapOK(stack, hea)
    BY DEF HeapInv, HeapOK
  <2>. QED
    BY <1>1, <1>6, <1>7, <2>1, <2>2, HeapSame
<1>. QED
  BY <1>3, <1>4, <1>6, <1>7, <1>8, <1>9, <1>10 DEF Below

\* The frame of a call that begins.
LEMMA Beginning ==
  ASSUME PawnTypeOK, calls < MaxCalls, NEW name \in {"server", "provided", "unknown"},
         NEW s \in Signatures \cup {<<>>}, NEW f, f = NewFrame(name, s)
  PROVE  /\ f \in Frame /\ f.sig = s /\ f.index = 0 /\ f.offset = 0 /\ f.at = "convert"
         /\ ~f.disturbed /\ ~f.threw /\ f.call = calls + 1 /\ ~InHandler(f)
         /\ f.got = 0 /\ f.wrote = {}
         /\ \A n : FrameOK(f, n)
<1>1. calls + 1 \in 1 .. MaxCalls /\ 0 \in 0 .. MaxSlots /\ 0 \in 0 .. MaxHandlers
  <2>1. calls \in 0 .. MaxCalls
    BY DEF PawnTypeOK
  <2>. QED
    BY <2>1, Bounds
<1>2. f \in Frame
  BY <1>1 DEF NewFrame, Frame
<1>3. /\ f.sig = s /\ f.index = 0 /\ f.offset = 0 /\ f.at = "convert"
      /\ f.disturbed = FALSE /\ f.threw = FALSE /\ f.call = calls + 1
      /\ f.got = 0 /\ f.wrote = {}
  BY DEF NewFrame
<1>4. Len(f.sig) \in Nat
  BY <1>3, SignatureType
<1>5. \A n : FrameOK(f, n)
  BY <1>3, <1>4 DEF FrameOK, InHandler
<1>. QED
  BY <1>2, <1>3, <1>5 DEF InHandler

\* How many arguments a signature asks for is a slot, or 0.
LEMMA ArgumentsType ==
  ASSUME NEW s \in Signatures \cup {<<>>}
  PROVE  Arguments(s) \in 0 .. MaxSlots /\ Arguments(s) <= Len(s)
<1>1. s \in Seq(Letter) /\ Len(s) \in Nat /\ Len(s) <= MaxSlots
  BY SignatureType, Bounds
<1>2. Arguments(s) \in 0 .. Len(s)
  BY <1>1, SizeType DEF Arguments
<1>. QED
  BY <1>1, <1>2, Bounds

\* A call without a signature, made at once, keeps the invariant.
LEMMA InvokeBareStep ==
  ASSUME CallInv, NEW name \in {"server", "provided", "unknown"}, InvokeBare(name)
  PROVE  CallInv'
<1>1. /\ PawnTypeOK /\ FrameInv /\ SeesItsArguments /\ ReturnsItsOwn /\ HeapInv
      /\ ScriptRuns /\ ~ended /\ calls < MaxCalls
  BY DEF CallInv, InvokeBare, ScriptRuns
<1>2. PICK f : f = NewFrame(name, <<>>)
  OBVIOUS
<1>3. /\ f \in Frame /\ f.sig = <<>> /\ f.index = 0 /\ f.offset = 0 /\ f.at = "convert"
      /\ ~f.disturbed /\ f.got = 0 /\ f.wrote = {}
  BY <1>1, <1>2, Beginning
<1>4. Done(f) = 0 /\ Len(f.sig) = 0 /\ f.sig \in Seq(Letter)
  BY <1>3 DEF Done
<1>5. PICK under \in Seq(Frame) : /\ under = Disturbed(stack) /\ Below(under)
                                  /\ \A k \in DOMAIN under : FrameOK(under[k], Len(blocks))
                                  /\ HeapOK(under, hea)
  BY <1>1, Disturbing
<1>6. OwnTypes(f)
  BY <1>3, <1>4 DEF OwnTypes, Accepts, Asked
<1>7. OwnValues(f)
  <2>1. Arguments(f.sig) = 0
    <3>1. Arguments(f.sig) \in 0 .. Len(f.sig)
      BY <1>4, SizeType DEF Arguments
    <3>. QED
      BY <1>4, <3>1
  <2>. QED
    BY <1>3, <1>4, <2>1 DEF OwnValues, OwnLengths
<1>8. Calling(f, under)
  <2>1. 0 \in 0 .. MaxSlots - 1
    BY Bounds
  <2>2. Unpushable(0) = {}
    BY <2>1, PushedSlots DEF Unpushable
  <2>. QED
    BY <1>3, <1>4, <1>5, <1>6, <1>7, <2>1, <2>2 DEF Calling
<1>9. CallKeeps(Done(f))
  <2>1. /\ signature' = signature /\ format' = format /\ handler' = handler
        /\ handlers' = handlers /\ calls' = calls + 1
    BY DEF InvokeBare, handlerVars
  <2>2. calls \in 0 .. MaxCalls /\ format \in [Slot -> Format]
    BY <1>1 DEF PawnTypeOK
  <2>3. calls' \in 0 .. MaxCalls
    BY <1>1, <2>1, <2>2, Bounds
  <2>. QED
    BY <2>1, <2>2, <2>3 DEF CallKeeps
<1>10. CallFunction(f, under, Done(f))
  BY <1>2, <1>4, <1>5 DEF InvokeBare
<1>. QED
  BY <1>1, <1>3, <1>5, <1>8, <1>9, <1>10, CallFunctionStep

\* The call that runs, and those it interrupts.
LEMMA TopFrame ==
  ASSUME CallInv, ~ended, stack # <<>>
  PROVE  /\ stack \in Seq(Frame) /\ Top \in Frame /\ FrameOK(Top, Len(blocks))
         /\ Under \in Seq(Frame) /\ Below(Under)
         /\ \A k \in DOMAIN Under : FrameOK(Under[k], Len(blocks))
         /\ HeapOK(Under, IF InHandler(Top) THEN Top.stored_hea ELSE hea)
         /\ ~Top.disturbed =>
              /\ OwnTypes(Top)
              /\ IF InHandler(Top) THEN OwnParameters(Top) /\ OwnResult(Top) ELSE OwnValues(Top)
<1>1. /\ stack \in Seq(Frame) /\ hea \in Nat /\ FrameInv /\ TopInv /\ HeapOK(stack, hea)
  BY DEF CallInv, PawnTypeOK, HeapInv, HeapOK
<1>2. /\ Len(stack) \in Nat \ {0} /\ DOMAIN stack = 1 .. Len(stack)
      /\ \A k \in 1 .. Len(stack) : stack[k] \in Frame
      /\ Top = stack[Len(stack)] /\ Top = Last(stack)
  <2> HIDE DEF Frame
  <2>. QED
    BY <1>1, Frames DEF Top, Last
<1>3. /\ Under \in Seq(Frame) /\ Under = Front(stack) /\ DOMAIN Under = 1 .. Len(stack) - 1
      /\ \A k \in 1 .. Len(stack) - 1 : Under[k] = stack[k]
  <2> HIDE DEF Frame
  <2>. QED
    BY <1>1, FrontPlaces DEF Under
<1>4. HeapOK(Under, IF InHandler(Top) THEN Top.stored_hea ELSE hea)
  <2>1. CASE InHandler(Top)
    <3>1. HeapOK(Front(stack), Last(stack).stored_hea)
      BY <1>1, <1>2, <2>1, HeapGiven
    <3>. QED
      BY <1>2, <1>3, <2>1, <3>1
  <2>2. CASE ~InHandler(Top)
    <3>1. HeapOK(Front(stack), hea)
      BY <1>1, <1>2, <2>2, HeapFront
    <3>. QED
      BY <1>3, <2>2, <3>1
  <2>. QED
    BY <2>1, <2>2
<1>5. FrameOK(Top, Len(blocks)) /\ \A k \in DOMAIN Under : FrameOK(Under[k], Len(blocks))
  <2>1. Len(stack) \in DOMAIN stack /\ \A k \in 1 .. Len(stack) - 1 : k \in DOMAIN stack
    BY <1>2
  <2>. QED
    BY <1>1, <1>2, <1>3, <2>1 DEF FrameInv
<1>6. Below(Under)
  BY <1>1 DEF FrameInv
<1>7. ~Top.disturbed => Own(Top)
  BY <1>1 DEF TopInv
<1>8. Top \in Frame
  <2>1. Len(stack) \in 1 .. Len(stack)
    BY <1>2
  <2> HIDE DEF Frame
  <2>. QED
    BY <1>2, <2>1
<1>. QED
  BY <1>1, <1>3, <1>4, <1>5, <1>6, <1>7, <1>8 DEF Own

\* Where a call stands that still has arguments.
LEMMA HereType ==
  ASSUME NEW f \in Frame, NEW n, FrameOK(f, n)
  PROVE  /\ f.sig \in Seq(Letter) /\ Len(f.sig) \in Nat /\ DOMAIN f.sig = 1 .. Len(f.sig)
         /\ Done(f) \in 0 .. MaxSlots - 1 /\ Here(f) = Done(f) + 1
         /\ f.index < Len(f.sig) =>
              Here(f) \in Slot /\ Here(f) \in Nat \ {0} /\ Here(f) + 1 \in Slot
<1>1. /\ f.sig \in Seq(Letter) /\ Len(f.sig) \in Nat /\ DOMAIN f.sig = 1 .. Len(f.sig)
      /\ 2 * Len(f.sig) < MaxSlots /\ f.index \in Nat /\ f.offset \in Nat
      /\ f.offset <= f.index /\ f.index <= Len(f.sig)
  BY FrameFields, SignatureType DEF FrameOK
<1>. QED
  BY <1>1, Bounds DEF Done, Here, Slot

\* An undisturbed call puts the next argument where it belongs.
LEMMA Advanced ==
  ASSUME PawnTypeOK, NEW f \in Frame, NEW n, FrameOK(f, n), f.index < Len(f.sig),
         OwnTypes(f), OwnValues(f), NEW lengths \in {0, 1}, NEW k, k = Here(f),
         signature' = signature,
         \A j \in 1 .. Done(f) : /\ format'[j] = format[j] /\ number'[j] = number[j]
                                 /\ text'[j] = text[j] /\ list'[j] = list[j],
         lengths = 1 <=> signature[k] = "S",
         signature[k] = "i" => format'[k] = "i" /\ number'[k] = Passed(f.call, k),
         signature[k] = "I" => format'[k] = "r",
         signature[k] = "S" =>
           format'[k] = "S" /\ format'[k + 1] = "i" /\ number'[k + 1] = Length,
         signature[k] = "s" => format'[k] = "s" /\ (Supplied(f, k) => text'[k] = Passed(f.call, k)),
         NEW g, f.threw => g.threw,
         signature[k] = "a" =>
           /\ format'[k] = "a"
           /\ Supplied(f, k) => \/ list'[k] = Passed(f.call, k)
                                \/ g.threw /\ list'[k] = Part(f.call, k),
         g.sig = f.sig, g.call = f.call, g.index = f.index + 1,
         g.offset = f.offset + lengths, g.at = "convert"
  PROVE  OwnTypes(g)' /\ OwnValues(g)'
<1>1. /\ f.sig \in Seq(Letter) /\ Len(f.sig) \in Nat /\ DOMAIN f.sig = 1 .. Len(f.sig)
      /\ k \in Slot /\ k \in Nat \ {0} /\ k = Done(f) + 1 /\ Done(f) \in Nat
  BY HereType, Bounds
<1>2. f.index \in Nat /\ f.offset \in Nat /\ Done(f) = f.index + f.offset
  BY FrameFields DEF Done
<1>3. Done(g) = Done(f) + 1 + lengths
  BY <1>2 DEF Done
<1>4. /\ Arguments(f.sig) \in 0 .. Len(f.sig) /\ References(f.sig) = Len(f.sig) - Arguments(f.sig)
      /\ \A j \in 1 .. Len(f.sig) : j \in Asked(f.sig) <=> j > Arguments(f.sig)
      /\ Asked(f.sig) = Arguments(f.sig) + 1 .. Len(f.sig)
      /\ \A j \in Asked(f.sig) : f.sig[j] \in Reference
      /\ \A j \in 1 .. Len(f.sig) : signature[j] = f.sig[j]
  BY <1>1, ReferencesLast DEF OwnTypes, Asked
<1>5. /\ signature[k] \in Letter
      /\ f.offset > 0 =>
           f.index + 1 > Arguments(f.sig) /\ \E j \in DOMAIN f.sig : f.sig[j] = "S"
  <2>1. signature[k] \in Letter
    BY <1>1, Storage
  <2>2. f.offset > 0 => /\ f.index > Arguments(f.sig)
                        /\ \E j \in DOMAIN f.sig : f.sig[j] = "S"
    BY DEF OwnTypes
  <2>3. f.index \in Nat /\ Arguments(f.sig) \in Nat
    BY <1>1, <1>2, <1>4
  <2>. QED
    BY <2>1, <2>2, <2>3
<1>6. k <= Arguments(f.sig) => signature[k] = f.sig[k] /\ signature[k] \in {"i", "s", "a"}
  <2> SUFFICES ASSUME k <= Arguments(f.sig) PROVE signature[k] = f.sig[k] /\ signature[k] \in {"i", "s", "a"}
    OBVIOUS
  <2>1. k \in 1 .. Len(f.sig) /\ ~(k > Arguments(f.sig))
    BY <1>1, <1>4
  <2>2. k \notin Asked(f.sig) /\ signature[k] = f.sig[k]
    BY <1>4, <2>1
  <2>. QED
    BY <1>1, <1>5, <2>1, <2>2 DEF Asked, Reference, Letter
<1>7. ASSUME lengths = 1
      PROVE  f.index + 1 > Arguments(f.sig) /\ \E j \in DOMAIN f.sig : f.sig[j] = "S"
  <2>1. signature[k] = "S"
    BY <1>7
  <2>2. CASE f.offset > 0
    BY <1>5, <2>2
  <2>3. CASE f.offset = 0
    <3>1. k = f.index + 1 /\ k \in 1 .. Len(f.sig)
      BY <1>1, <1>2, <2>3
    <3>2. f.sig[k] = "S"
      BY <1>4, <2>1, <3>1
    <3>3. ~(k <= Arguments(f.sig))
      BY <1>6, <2>1
    <3>. QED
      BY <1>1, <1>4, <3>1, <3>2, <3>3
  <2>. QED
    BY <1>2, <2>2, <2>3
<1>8. ASSUME Regular(f.sig), NEW j \in Asked(f.sig), j <= Done(g)
      PROVE  format'[j] = ReturnFormat(f.sig[j])
  <2>1. j \in Nat \ {0} /\ j \in 1 .. Len(f.sig) /\ j > Arguments(f.sig)
    BY <1>1, <1>4
  <2>2. CASE j <= Done(f)
    <3>1. j \in 1 .. Done(f)
      BY <1>1, <2>1, <2>2
    <3>2. format'[j] = format[j]
      BY <3>1
    <3>3. format[j] = ReturnFormat(f.sig[j])
      BY <1>8, <2>2 DEF OwnTypes
    <3>. QED
      BY <3>2, <3>3
  <2>3. CASE j = k
    <3>1. signature[k] \in {"I", "S"} /\ signature[k] = f.sig[j]
      BY <1>4, <2>1, <2>3 DEF Reference
    <3>. QED
      BY <2>3, <3>1 DEF ReturnFormat
  <2>4. CASE j = k + 1 /\ lengths = 1
    <3>1. signature[k] = "S" /\ k \in 1 .. Len(f.sig)
      BY <1>1, <2>1, <2>4
    <3>2. f.sig[k] = "S" /\ ~(k <= Arguments(f.sig))
      BY <1>4, <1>6, <3>1
    <3>3. References(f.sig) > 1
      BY <1>1, <1>4, <2>1, <2>4, <3>2
    <3>4. Size(f.sig, {"S"}) = 0
      BY <1>4, <1>8, <3>3 DEF Regular
    <3>. QED
      BY <1>1, <3>1, <3>2, <3>4, SizeType
  <2>. QED
    BY <1>1, <1>3, <1>8, <2>1, <2>2, <2>3, <2>4
<1>9. OwnTypes(g)'
  <2>1. Accepts(f.sig) /\ \A j \in DOMAIN f.sig : signature[j] = f.sig[j]
    BY DEF OwnTypes
  <2>2. ASSUME g.offset > 0
        PROVE  f.index + 1 > Arguments(f.sig) /\ \E j \in DOMAIN f.sig : f.sig[j] = "S"
    <3>1. CASE lengths = 1
      BY <1>7, <3>1
    <3>2. CASE lengths = 0
      <4>1. f.offset > 0
        BY <1>2, <2>2, <3>2
      <4>. QED
        BY <1>5, <4>1
    <3>. QED
      BY <3>1, <3>2
  <2>. QED
    BY <1>8, <2>1, <2>2 DEF OwnTypes
<1>10. \A j \in 1 .. Done(g) : \/ j \in 1 .. Done(f) /\ j # k /\ j # k + 1
                               \/ j = k
                               \/ j = k + 1 /\ lengths = 1
  BY <1>1, <1>3
<1>11. \A j \in 1 .. Done(g) : format'[j] # "0"
  <2> SUFFICES ASSUME NEW j \in 1 .. Done(g) PROVE format'[j] # "0"
    OBVIOUS
  <2>1. CASE j \in 1 .. Done(f)
    BY <2>1 DEF OwnValues
  <2>2. CASE j = k
    BY <1>5, <2>2 DEF Letter
  <2>3. CASE j = k + 1 /\ lengths = 1
    BY <2>3
  <2>. QED
    BY <1>10, <2>1, <2>2, <2>3
<1>12. ASSUME NEW j \in 1 .. Arguments(f.sig), j <= Done(g)
       PROVE  Holds(g, j)'
  <2>1. CASE j \in 1 .. Done(f)
    <3>1. Holds(f, j)
      BY <1>1, <1>12, <2>1 DEF OwnValues
    <3>2. /\ format'[j] = format[j] /\ number'[j] = number[j]
          /\ text'[j] = text[j] /\ list'[j] = list[j]
      BY <2>1
    <3>. QED
      BY <3>1, <3>2 DEF Holds
  <2>2. CASE j = k
    <3>1. signature[k] = f.sig[j] /\ f.sig[j] \in {"i", "s", "a"} /\ Supplied(f, k)
      BY <1>4, <1>6, <2>2 DEF Supplied
    <3>2. CASE signature[k] = "i"
      BY <2>2, <3>1, <3>2 DEF Holds
    <3>3. CASE signature[k] = "s"
      BY <2>2, <3>1, <3>3 DEF Holds
    <3>4. CASE signature[k] = "a"
      <4>1. format'[k] = "a"
        BY <3>4
      <4>2. list'[k] = Passed(f.call, k) \/ (g.threw /\ list'[k] = Part(f.call, k))
        BY <3>1, <3>4
      <4>. QED
        BY <2>2, <3>1, <3>4, <4>1, <4>2 DEF Holds
    <3>. QED
      BY <3>1, <3>2, <3>3, <3>4
  <2>3. CASE j = k + 1 /\ lengths = 1
    <3>1. k <= Arguments(f.sig)
      BY <1>1, <1>4, <2>3
    <3>. QED
      BY <1>6, <2>3, <3>1
  <2>4. j \in 1 .. Done(g)
    BY <1>1, <1>3, <1>4, <1>12
  <2>. QED
    BY <1>10, <2>1, <2>2, <2>3, <2>4
<1>13. ASSUME Regular(f.sig) PROVE f.offset = 0
  <2>1. f.offset > 0 => f.index = Len(f.sig)
    BY <1>13 DEF OwnValues, OwnLengths
  <2>. QED
    BY <1>1, <1>2, <2>1
<1>14. ASSUME Regular(f.sig), lengths = 1, k \in 1 .. Len(f.sig)
       PROVE  k = Len(f.sig)
  <2>1. signature[k] = "S" /\ f.sig[k] = "S" /\ ~(k <= Arguments(f.sig))
    BY <1>4, <1>6, <1>14
  <2>2. Size(f.sig, {"S"}) # 0
    BY <1>1, <1>14, <2>1, SizeType
  <2>3. References(f.sig) <= 1
    BY <1>14, <2>2 DEF Regular
  <2>. QED
    BY <1>1, <1>4, <1>14, <2>1, <2>3
<1>15. ASSUME Regular(f.sig), g.offset > 0
       PROVE  g.offset = 1 /\ g.index = Len(f.sig) /\ format'[Done(g)] = "i"
  <2>1. f.offset = 0 /\ lengths = 1
    BY <1>2, <1>13, <1>15
  <2>2. k = f.index + 1 /\ k \in 1 .. Len(f.sig) /\ Done(g) = k + 1
    BY <1>1, <1>2, <1>3, <2>1
  <2>3. k = Len(f.sig)
    BY <1>14, <1>15, <2>1, <2>2
  <2>. QED
    BY <2>1, <2>2, <2>3
<1>16. ASSUME Regular(f.sig), NEW j \in 1 .. Len(f.sig), f.sig[j] = "S", j <= Done(g)
       PROVE  j < Done(g) /\ number'[j + 1] = Length
  <2>1. CASE j \in 1 .. Done(f)
    <3>1. j < Done(f) /\ number[j + 1] = Length
      BY <1>1, <1>16, <2>1 DEF OwnValues, OwnLengths
    <3>2. j + 1 \in 1 .. Done(f)
      BY <1>1, <2>1, <3>1
    <3>. QED
      BY <1>1, <1>3, <2>1, <3>1, <3>2
  <2>2. CASE j = k
    <3>1. signature[k] = "S"
      BY <1>4, <1>16, <2>2
    <3>. QED
      BY <1>1, <1>3, <2>2, <3>1
  <2>3. CASE j = k + 1 /\ lengths = 1
    <3>1. k \in 1 .. Len(f.sig) /\ k # Len(f.sig)
      BY <1>1, <1>16, <2>3
    <3>. QED
      BY <1>14, <1>16, <2>3, <3>1
  <2>4. j \in 1 .. Done(g)
    BY <1>1, <1>3, <1>16
  <2>. QED
    BY <1>10, <2>1, <2>2, <2>3, <2>4
<1>17. Regular(f.sig) => OwnLengths(g)'
  BY <1>1, <1>15, <1>16 DEF OwnLengths
<1>18. OwnValues(g)'
  BY <1>11, <1>12, <1>17 DEF OwnValues
<1>. QED
  BY <1>9, <1>18

\* An argument is converted: the call goes on to the next.
LEMMA AdvanceStep ==
  ASSUME CallInv, ~ended, stack # <<>>, ~InHandler(Top), Top.index < Len(Top.sig),
         NEW lengths \in {0, 1}, NEW x \in Frame, Advance(x, lengths),
         x.sig = Top.sig, x.call = Top.call, x.index = Top.index, x.offset = Top.offset,
         x.disturbed = Top.disturbed, x.got = Top.got, x.wrote = Top.wrote,
         Top.threw => x.threw,
         format' \in [Slot -> Format], number' \in [Slot -> Value],
         text' \in [Slot -> Value], list' \in [Slot -> Value],
         UNCHANGED <<signature, blocks, heap, hea, handler, handlers, calls, ended, entered, finished>>,
         NEW k, k = Here(Top), ~Top.disturbed => signature[k] = "S" <=> lengths = 1,
         \A j \in 1 .. Done(Top) : /\ format'[j] = format[j] /\ number'[j] = number[j]
                                   /\ text'[j] = text[j] /\ list'[j] = list[j],
         ~Top.disturbed =>
           /\ signature[k] = "i" => format'[k] = "i" /\ number'[k] = Passed(Top.call, k)
           /\ signature[k] = "I" => format'[k] = "r"
           /\ signature[k] = "S" =>
                format'[k] = "S" /\ format'[k + 1] = "i" /\ number'[k + 1] = Length
           /\ signature[k] = "s" =>
                format'[k] = "s" /\ (Supplied(Top, k) => text'[k] = Passed(Top.call, k))
           /\ signature[k] = "a" =>
                /\ format'[k] = "a"
                /\ Supplied(Top, k) => \/ list'[k] = Passed(Top.call, k)
                                       \/ x.threw /\ list'[k] = Part(Top.call, k)
  PROVE  CallInv'
<1>1. PICK f \in Frame : f = Top /\ FrameOK(f, Len(blocks))
  BY TopFrame
<1>2. /\ PawnTypeOK /\ Under \in Seq(Frame) /\ Below(Under)
      /\ \A j \in DOMAIN Under : FrameOK(Under[j], Len(blocks))
      /\ HeapOK(Under, hea) /\ blocks # <<>> /\ hea \in Nat
      /\ ~f.disturbed => OwnTypes(f) /\ OwnValues(f)
  BY <1>1, TopFrame DEF CallInv, PawnTypeOK, FrameInv
<1>3. PICK g : g = [x EXCEPT !.index = @ + 1, !.offset = @ + lengths, !.at = "convert"]
  OBVIOUS
<1>4. /\ g \in Frame /\ g.sig = f.sig /\ g.call = f.call /\ g.index = f.index + 1
      /\ g.offset = f.offset + lengths /\ g.at = "convert" /\ g.disturbed = f.disturbed
      /\ g.threw = x.threw /\ g.got = f.got /\ g.wrote = f.wrote
  <2>1. PICK i \in Nat, o \in Nat : i = x.index + 1 /\ o = x.offset + lengths
    BY FrameFields
  <2>2. g = [x EXCEPT !.index = i, !.offset = o, !.at = "convert"]
    BY <1>3, <2>1
  <2>3. /\ g \in Frame /\ g.sig = x.sig /\ g.call = x.call /\ g.index = i
        /\ g.offset = o /\ g.at = "convert" /\ g.disturbed = x.disturbed
        /\ g.threw = x.threw /\ g.got = x.got /\ g.wrote = x.wrote
    BY <2>2 DEF Frame
  <2>. QED
    BY <1>1, <2>1, <2>3
<1>5. stack' = Append(Under, g)
  BY <1>1, <1>3 DEF Advance
<1>6. ~InHandler(g) /\ FrameOK(g, Len(blocks))
  <2>1. /\ f.index \in Nat /\ f.offset \in Nat /\ Len(f.sig) \in Nat /\ f.index < Len(f.sig)
        /\ f.offset <= f.index /\ f.got = 0 /\ f.wrote = {}
    BY <1>1, FrameFields, HereType DEF FrameOK, InHandler
  <2>. QED
    BY <1>4, <2>1 DEF InHandler, FrameOK
<1>7. blocks' = blocks /\ hea' = hea /\ HeapOK(Append(Under, g), hea)
  BY <1>2, <1>4, <1>6, HeapPush
<1>8. ~ended' /\ ~g.disturbed => Own(g)'
  <2> SUFFICES ASSUME ~g.disturbed PROVE Own(g)'
    OBVIOUS
  <2>1. OwnTypes(g)' /\ OwnValues(g)'
    BY <1>1, <1>2, <1>4, Advanced
  <2>. QED
    BY <1>6, <2>1 DEF Own
<1>9. /\ stack' \in Seq(Frame) /\ FrameInv' /\ TopInv' /\ HeapInv'
  BY <1>2, <1>4, <1>5, <1>6, <1>7, <1>8, PushedFrame
<1>10. PawnTypeOK'
  <2>1. /\ signature' \in [Slot -> Letter] /\ blocks' \in Seq(Block) /\ IsHeap(heap')
        /\ hea' \in Nat
    BY <1>2, Storage
  <2>2. /\ handler' \in Provided \cup {NoHandler} /\ handlers' \in 0 .. MaxHandlers
        /\ calls' \in 0 .. MaxCalls /\ ended' \in BOOLEAN
    BY <1>2 DEF PawnTypeOK
  <2> HIDE DEF Frame, Value, Block
  <2>. QED
    BY <1>9, <2>1, <2>2, TypeNext
<1>11. SeesItsArguments' /\ ReturnsItsOwn' /\ EndsForItsOwn'
  BY DEF CallInv, SeesItsArguments, ReturnsItsOwn, EndsForItsOwn
<1>. QED
  BY <1>9, <1>10, <1>11 DEF CallInv

\* An argument is of a wrong type, or its script throws: the call is over.
LEMMA ThrowStep ==
  ASSUME CallInv, ~ended, stack # <<>>, ~InHandler(Top), Throw(Top),
         format' \in [Slot -> Format], number' \in [Slot -> Value],
         text' \in [Slot -> Value], list' \in [Slot -> Value],
         UNCHANGED <<signature, blocks, heap, hea, handler, handlers, calls, ended, entered>>
  PROVE  CallInv'
<1>1. /\ PawnTypeOK /\ Under \in Seq(Frame) /\ Below(Under)
      /\ \A j \in DOMAIN Under : FrameOK(Under[j], Len(blocks))
      /\ HeapOK(Under, hea) /\ blocks # <<>>
  BY TopFrame DEF CallInv, FrameInv
<1>2. stack' = Under /\ blocks' = blocks /\ hea' = hea
  BY DEF Throw
<1>3. FrameInv' /\ TopInv' /\ HeapInv'
  BY <1>1, <1>2, Popped
<1>4. PawnTypeOK'
  <2>1. /\ signature' \in [Slot -> Letter] /\ blocks' \in Seq(Block) /\ IsHeap(heap')
        /\ hea' \in Nat
    BY <1>1, Storage
  <2>2. /\ handler' \in Provided \cup {NoHandler} /\ handlers' \in 0 .. MaxHandlers
        /\ calls' \in 0 .. MaxCalls /\ ended' \in BOOLEAN
    BY <1>1 DEF PawnTypeOK
  <2> HIDE DEF Frame, Value, Block
  <2>. QED
    BY <1>1, <1>2, <2>1, <2>2, TypeNext
<1>5. ReturnsItsOwn'
  <2>1. finished'.kind = "exception"
    BY DEF Throw, Finish, Nothing
  <2>. QED
    BY <2>1 DEF ReturnsItsOwn
<1>6. SeesItsArguments' /\ EndsForItsOwn'
  BY DEF CallInv, SeesItsArguments, EndsForItsOwn
<1>. QED
  BY <1>3, <1>4, <1>5, <1>6 DEF CallInv

\* The script of an argument runs.
LEMMA ScriptStep ==
  ASSUME CallInv, ~ended, stack # <<>>, Top.at = "convert", Top.index < Len(Top.sig),
         NEW at \in {"toString", "getter"}, stack' = Append(Under, [Top EXCEPT !.at = at]),
         signature[Here(Top)] = (IF at = "toString" THEN "s" ELSE "a"),
         UNCHANGED <<bufferVars, blocks, heap, hea, handler, handlers, calls, ended, entered, finished>>
  PROVE  CallInv'
<1>1. PICK f \in Frame : f = Top /\ FrameOK(f, Len(blocks)) /\ ~InHandler(f) /\ ~InHandler(Top)
  BY TopFrame DEF InHandler
<1>2. /\ PawnTypeOK /\ Under \in Seq(Frame) /\ Below(Under)
      /\ \A j \in DOMAIN Under : FrameOK(Under[j], Len(blocks))
      /\ HeapOK(Under, hea) /\ blocks # <<>> /\ hea \in Nat
      /\ ~f.disturbed => OwnTypes(f) /\ OwnValues(f)
  BY <1>1, TopFrame DEF CallInv, PawnTypeOK, FrameInv
<1>3. PICK g : g = [f EXCEPT !.at = at]
  OBVIOUS
<1>4. /\ g \in Frame /\ g.sig = f.sig /\ g.call = f.call /\ g.index = f.index
      /\ g.offset = f.offset /\ g.at = at /\ g.disturbed = f.disturbed
      /\ g.threw = f.threw /\ g.got = f.got /\ g.wrote = f.wrote
  BY <1>3 DEF Frame
<1>5. stack' = Append(Under, g)
  BY <1>1, <1>3
<1>6. ~InHandler(g) /\ FrameOK(g, Len(blocks))
  BY <1>1, <1>4 DEF InHandler, FrameOK
<1>7. blocks' = blocks /\ hea' = hea /\ HeapOK(Append(Under, g), hea)
  BY <1>2, <1>4, <1>6, HeapPush
<1>8. ~ended' /\ ~g.disturbed => Own(g)'
  <2> SUFFICES ASSUME ~g.disturbed PROVE Own(g)'
    OBVIOUS
  <2>1. OwnTypes(f) /\ OwnValues(f) /\ Done(g) = Done(f) /\ Here(g) = Here(f)
    BY <1>2, <1>4 DEF Done, Here
  <2>2. /\ signature' = signature /\ format' = format /\ number' = number
        /\ text' = text /\ list' = list
    BY DEF bufferVars
  <2>3. OwnTypes(g)'
    BY <1>4, <2>1, <2>2 DEF OwnTypes
  <2>4. OwnLengths(f) => OwnLengths(g)'
    BY <1>4, <2>1, <2>2 DEF OwnLengths
  <2>5. \A j : Holds(f, j) => Holds(g, j)'
    BY <1>4, <2>2 DEF Holds
  <2>6. /\ g.at = "toString" => signature'[Here(g)] = "s"
        /\ g.at = "getter" => signature'[Here(g)] = "a"
    BY <1>1, <1>4, <2>1, <2>2
  <2>7. /\ \A k \in 1 .. Done(g) : format'[k] # "0"
        /\ \A k \in 1 .. Arguments(g.sig) :
             k <= Done(g) => Holds(g, k)'
    BY <1>4, <2>1, <2>2, <2>5 DEF OwnValues
  <2>8. Regular(g.sig) => OwnLengths(g)'
    BY <1>4, <2>1, <2>4 DEF OwnValues
  <2>9. OwnValues(g)'
    BY <2>6, <2>7, <2>8 DEF OwnValues
  <2>. QED
    BY <1>6, <2>3, <2>9 DEF Own
<1>9. /\ stack' \in Seq(Frame) /\ FrameInv' /\ TopInv' /\ HeapInv'
  BY <1>2, <1>4, <1>5, <1>6, <1>7, <1>8, PushedFrame
<1>10. PawnTypeOK'
  BY <1>2, <1>9 DEF PawnTypeOK, bufferVars
<1>11. SeesItsArguments' /\ ReturnsItsOwn' /\ EndsForItsOwn'
  BY DEF CallInv, SeesItsArguments, ReturnsItsOwn, EndsForItsOwn
<1>. QED
  BY <1>9, <1>10, <1>11 DEF CallInv

\* One argument is converted, or does not have the type the buffer says.
LEMMA ConvertStep ==
  ASSUME CallInv, Convert
  PROVE  CallInv'
<1>1. /\ ~ended /\ stack # <<>> /\ Top.at = "convert" /\ Top.index < Len(Top.sig)
      /\ UNCHANGED <<signature, text, list, blocks, heap, hea, handler, handlers, calls, ended, entered>>
  BY DEF Convert, Converting, amxVars, handlerVars
<1>2. PICK f \in Frame : f = Top /\ FrameOK(f, Len(blocks)) /\ ~InHandler(Top)
  BY <1>1, TopFrame DEF InHandler
<1>3. PICK k \in Slot : k = Here(f) /\ k + 1 \in Slot /\ k \in Nat \ {0} /\ k = Done(f) + 1
  BY <1>1, <1>2, HereType
<1>4. \A j \in 1 .. Done(f) : j # k /\ j # k + 1
  <2>1. Done(f) \in Nat
    BY <1>2, HereType, Bounds
  <2>. QED
    BY <1>3, <2>1
<1>5. /\ format \in [Slot -> Format] /\ number \in [Slot -> Value]
      /\ text \in [Slot -> Value] /\ list \in [Slot -> Value]
      /\ text' \in [Slot -> Value] /\ list' \in [Slot -> Value]
  BY <1>1 DEF CallInv, PawnTypeOK
<1>6. ASSUME ConvertNumber(f, k) PROVE CallInv'
  <2>1. CASE /\ number' = [number EXCEPT ![k] = Passed(f.call, k)]
             /\ format' = [format EXCEPT ![k] = "i"] /\ Advance(f, 0) /\ UNCHANGED finished
    <3>1. /\ signature[k] = "i" /\ number' = [number EXCEPT ![k] = Passed(f.call, k)]
          /\ format' = [format EXCEPT ![k] = "i"] /\ Advance(f, 0) /\ UNCHANGED finished
      BY <1>6, <2>1 DEF ConvertNumber
    <3>2. Passed(f.call, k) \in Value
      BY <1>3, FrameFields, Values, Bounds
    <3>3. /\ number' \in [Slot -> Value] /\ format' \in [Slot -> Format]
      <4> HIDE DEF Value
      <4>. QED
        BY <1>3, <1>4, <1>5, <3>1, <3>2 DEF Format
    <3>4. /\ format'[k] = "i" /\ number'[k] = Passed(f.call, k)
          /\ \A j \in 1 .. Done(f) : format'[j] = format[j] /\ number'[j] = number[j]
      BY <1>3, <1>4, <1>5, <3>1
    <3>5. UNCHANGED <<signature, blocks, heap, hea, handler, handlers, calls, ended, entered, finished>>
      BY <1>1, <3>1
    <3>6. \A j \in 1 .. Done(Top) : /\ format'[j] = format[j] /\ number'[j] = number[j]
                                    /\ text'[j] = text[j] /\ list'[j] = list[j]
      BY <1>1, <1>2, <3>4
    <3>7. Advance(Top, 0) /\ k = Here(Top)
      BY <1>2, <1>3, <3>1
    <3> HIDE DEF Frame, Value
    <3>. QED
      BY <1>1, <1>2, <1>5, <3>1, <3>3, <3>4, <3>5, <3>6, <3>7, AdvanceStep
  <2>2. CASE Throw(f) /\ UNCHANGED <<number, format>>
    BY <1>1, <1>2, <1>5, <2>2, ThrowStep
  <2>. QED
    BY <1>6, <2>1, <2>2 DEF ConvertNumber
<1>7. ASSUME ConvertReference(f, k) PROVE CallInv'
  <2>1. /\ signature[k] = "I" /\ number' = number /\ format' = [format EXCEPT ![k] = "r"]
        /\ Advance(f, 0) /\ UNCHANGED finished
    BY <1>7 DEF ConvertReference
  <2>2. /\ format' \in [Slot -> Format] /\ number' \in [Slot -> Value]
        /\ format'[k] = "r"
        /\ \A j \in 1 .. Done(f) : format'[j] = format[j] /\ number'[j] = number[j]
    <3> HIDE DEF Value
    <3>. QED
      BY <1>3, <1>4, <1>5, <2>1 DEF Format
  <2>3. UNCHANGED <<signature, blocks, heap, hea, handler, handlers, calls, ended, entered, finished>>
    BY <1>1, <2>1
  <2>4. \A j \in 1 .. Done(Top) : /\ format'[j] = format[j] /\ number'[j] = number[j]
                                  /\ text'[j] = text[j] /\ list'[j] = list[j]
    BY <1>1, <1>2, <2>2
  <2>5. Advance(Top, 0) /\ k = Here(Top)
    BY <1>2, <1>3, <2>1
  <2> HIDE DEF Frame, Value
  <2>. QED
    BY <1>1, <1>2, <1>5, <2>1, <2>2, <2>3, <2>4, <2>5, AdvanceStep
<1>8. ASSUME ConvertStringReference(f, k) PROVE CallInv'
  <2>1. /\ signature[k] = "S" /\ number' = [number EXCEPT ![k + 1] = Length]
        /\ format' = [format EXCEPT ![k] = "S", ![k + 1] = "i"]
        /\ Advance(f, 1) /\ UNCHANGED finished
    BY <1>8 DEF ConvertStringReference
  <2>2. PICK l \in Value : l = Length
    BY Values
  <2>3. number' = [number EXCEPT ![k + 1] = l]
    BY <2>1, <2>2
  <2>4. PICK m : m = [format EXCEPT ![k] = "S"]
    OBVIOUS
  <2>5. /\ m \in [Slot -> Format] /\ m[k] = "S"
        /\ \A j \in 1 .. Done(f) : m[j] = format[j]
    BY <1>3, <1>4, <1>5, <2>4 DEF Format
  <2>6. format' = [m EXCEPT ![k + 1] = "i"] /\ k # k + 1
    BY <1>3, <2>1, <2>4
  <2>7. /\ format' \in [Slot -> Format] /\ number' \in [Slot -> Value]
        /\ format'[k] = "S" /\ format'[k + 1] = "i" /\ number'[k + 1] = Length
        /\ \A j \in 1 .. Done(f) : format'[j] = format[j] /\ number'[j] = number[j]
    <3> HIDE DEF Value
    <3>1. /\ number' \in [Slot -> Value] /\ \A j \in 1 .. Done(f) : number'[j] = number[j]
          /\ number'[k + 1] = Length
      BY <1>3, <1>4, <1>5, <2>2, <2>3
    <3>2. /\ format' \in [Slot -> Format] /\ format'[k] = "S" /\ format'[k + 1] = "i"
      BY <1>3, <1>4, <2>5, <2>6 DEF Format
    <3>3. \A j \in 1 .. Done(f) : format'[j] = format[j]
      BY <1>4, <2>5, <2>6
    <3>. QED
      BY <3>1, <3>2, <3>3
  <2> HIDE DEF Frame, Value
  <2>. QED
    BY <1>1, <1>2, <1>3, <1>5, <2>1, <2>7, AdvanceStep
<1>9. ASSUME ConvertByScript(f, k) PROVE CallInv'
  <2>1. UNCHANGED <<number, format>>
    BY <1>9 DEF ConvertByScript
  <2>2. CASE signature[k] = "s" /\ stack' = Append(Under, [f EXCEPT !.at = "toString"]) /\ UNCHANGED finished
    BY <1>1, <1>2, <1>3, <2>1, <2>2, ScriptStep DEF bufferVars
  <2>3. CASE signature[k] = "a" /\ stack' = Append(Under, [f EXCEPT !.at = "getter"]) /\ UNCHANGED finished
    BY <1>1, <1>2, <1>3, <2>1, <2>3, ScriptStep DEF bufferVars
  <2>4. CASE Throw(f)
    BY <1>1, <1>2, <1>5, <2>1, <2>4, ThrowStep
  <2>. QED
    BY <1>9, <2>2, <2>3, <2>4 DEF ConvertByScript
<1>. QED
  BY <1>2, <1>3, <1>6, <1>7, <1>8, <1>9 DEF Convert

\* The text of an argument is its own, if toString() made no call.
LEMMA TextConvertedStep ==
  ASSUME CallInv, TextConverted
  PROVE  CallInv'
<1>1. /\ ~ended /\ stack # <<>> /\ Top.at = "toString"
      /\ UNCHANGED <<signature, number, list, blocks, heap, hea, handler, handlers, calls>>
      /\ UNCHANGED <<ended, entered>>
  BY DEF TextConverted, amxVars, handlerVars
<1>2. PICK f \in Frame : f = Top /\ FrameOK(f, Len(blocks)) /\ ~InHandler(Top)
  BY <1>1, TopFrame DEF InHandler
<1>3. Top.index < Len(Top.sig)
  BY <1>1, <1>2 DEF FrameOK
<1>4. PICK k \in Slot : k = Here(f) /\ k \in Nat \ {0} /\ k = Done(f) + 1
  BY <1>2, <1>3, HereType
<1>5. \A j \in 1 .. Done(f) : j # k
  <2>1. Done(f) \in Nat
    BY <1>2, HereType, Bounds
  <2>. QED
    BY <1>4, <2>1
<1>6. /\ format \in [Slot -> Format] /\ number' \in [Slot -> Value]
      /\ text \in [Slot -> Value] /\ list' \in [Slot -> Value]
  BY <1>1 DEF CallInv, PawnTypeOK
<1>7. PICK passed \in Value : passed = Argument(f, k) /\ (Supplied(f, k) => passed = Passed(f.call, k))
  <2>1. Passed(f.call, k) \in Value /\ Undefined \in Value
    BY <1>4, FrameFields, Values, Bounds
  <2> HIDE DEF Value
  <2>. QED
    BY <2>1 DEF Argument
<1>8. ~Top.disturbed => signature[k] = "s"
  BY <1>1, <1>2, <1>4, TopFrame DEF OwnValues
<1>9. CASE /\ text' = [text EXCEPT ![k] = Argument(f, k)]
           /\ format' = [format EXCEPT ![k] = "s"]
           /\ Advance(f, 0) /\ UNCHANGED finished
  <2>1. /\ format' \in [Slot -> Format] /\ format'[k] = "s"
        /\ \A j \in 1 .. Done(f) : format'[j] = format[j]
    BY <1>4, <1>5, <1>6, <1>9 DEF Format
  <2>2. /\ text' \in [Slot -> Value] /\ text'[k] = passed
        /\ \A j \in 1 .. Done(f) : text'[j] = text[j]
    <3> HIDE DEF Value
    <3>. QED
      BY <1>4, <1>5, <1>6, <1>7, <1>9
  <2>3. UNCHANGED <<signature, blocks, heap, hea, handler, handlers, calls, ended, entered, finished>>
    BY <1>1, <1>9
  <2>4. \A j \in 1 .. Done(Top) : /\ format'[j] = format[j] /\ number'[j] = number[j]
                                  /\ text'[j] = text[j] /\ list'[j] = list[j]
    BY <1>1, <1>2, <2>1, <2>2
  <2>5. Advance(Top, 0) /\ k = Here(Top)
    BY <1>2, <1>4, <1>9
  <2>6. ~Top.disturbed =>
          /\ signature[k] \notin {"S", "i", "I", "a"}
          /\ format'[k] = "s" /\ (Supplied(Top, k) => text'[k] = Passed(Top.call, k))
    BY <1>2, <1>7, <1>8, <2>1, <2>2
  <2> HIDE DEF Frame, Value
  <2>. QED
    BY <1>1, <1>2, <1>3, <1>6, <2>1, <2>2, <2>3, <2>4, <2>5, <2>6, AdvanceStep
<1>10. CASE Throw(f) /\ UNCHANGED <<text, format>>
  BY <1>1, <1>2, <1>6, <1>10, ThrowStep
<1>. QED
  BY <1>2, <1>4, <1>9, <1>10 DEF TextConverted

\* The process ends in an argument of its own.
LEMMA ArrayEndsStep ==
  ASSUME CallInv, stack # <<>>, Top.at = "getter", ~ended, ended' = TRUE,
         stack' = Append(Under, [Top EXCEPT !.threw = TRUE]),
         UNCHANGED <<signature, format, number, text, list, blocks, heap, hea, handler, handlers>>,
         UNCHANGED <<calls, entered, finished>>
  PROVE  CallInv'
<1>1. PICK f \in Frame : f = Top /\ FrameOK(f, Len(blocks)) /\ ~InHandler(f) /\ ~InHandler(Top)
  BY TopFrame DEF InHandler
<1>2. /\ PawnTypeOK /\ Under \in Seq(Frame) /\ Below(Under)
      /\ \A j \in DOMAIN Under : FrameOK(Under[j], Len(blocks))
      /\ HeapOK(Under, hea) /\ blocks # <<>> /\ hea \in Nat
  BY <1>1, TopFrame DEF CallInv, PawnTypeOK, FrameInv
<1>3. PICK g : g = [f EXCEPT !.threw = TRUE]
  OBVIOUS
<1>4. /\ g \in Frame /\ g.sig = f.sig /\ g.index = f.index /\ g.offset = f.offset
      /\ g.at = f.at /\ g.threw /\ g.got = f.got /\ g.wrote = f.wrote
  BY <1>3 DEF Frame
<1>5. stack' = Append(Under, g)
  BY <1>1, <1>3
<1>6. ~InHandler(g) /\ FrameOK(g, Len(blocks))
  BY <1>1, <1>4 DEF InHandler, FrameOK
<1>7. blocks' = blocks /\ hea' = hea /\ HeapOK(Append(Under, g), hea)
  BY <1>2, <1>4, <1>6, HeapPush
<1>8. /\ stack' \in Seq(Frame) /\ FrameInv' /\ TopInv' /\ HeapInv' /\ Top' = g
  BY <1>2, <1>4, <1>5, <1>6, <1>7, PushedFrame
<1>9. PawnTypeOK'
  BY <1>2, <1>8 DEF PawnTypeOK
<1>10. SeesItsArguments' /\ ReturnsItsOwn'
  BY DEF CallInv, SeesItsArguments, ReturnsItsOwn
<1>11. EndsForItsOwn'
  BY <1>4, <1>8 DEF EndsForItsOwn
<1>. QED
  BY <1>8, <1>9, <1>10, <1>11 DEF CallInv

\* The entries of an array are its own, or part of them, if no getter made a
\* call; they may have been stored behind it, where no array is yet.
LEMMA ArrayConvertedStep ==
  ASSUME CallInv, ArrayConverted
  PROVE  CallInv'
<1>1. /\ ~ended /\ stack # <<>> /\ Top.at = "getter"
      /\ UNCHANGED <<signature, number, text, blocks, heap, hea, handler, handlers, calls, entered>>
  BY DEF ArrayConverted, amxVars, handlerVars
<1> DEFINE f == Top
           k == Here(f)
<1>2. f \in Frame /\ f = Top /\ FrameOK(f, Len(blocks)) /\ ~InHandler(Top)
  BY <1>1, TopFrame DEF InHandler
<1>3. Top.index < Len(Top.sig)
  BY <1>1, <1>2 DEF FrameOK
<1>4. k \in Slot /\ k = Here(f) /\ k \in Nat \ {0} /\ k = Done(f) + 1
  BY <1>2, <1>3, HereType
<1> HIDE DEF f, k
<1>5. \A j \in 1 .. Done(f) : j # k /\ j < k /\ j \in Slot
  <2>1. Done(f) \in Nat
    BY <1>2, HereType, Bounds
  <2>. QED
    BY <1>4, <2>1, Bounds DEF Slot
<1>6. /\ format \in [Slot -> Format] /\ number' \in [Slot -> Value]
      /\ text' \in [Slot -> Value] /\ list \in [Slot -> Value]
  BY <1>1 DEF CallInv, PawnTypeOK
<1>7. PICK passed \in Value, part \in Value : passed = Passed(f.call, k) /\ part = Part(f.call, k)
  <2>1. Passed(f.call, k) \in Value /\ Part(f.call, k) \in Value
    BY <1>2, <1>4, FrameFields, Values, Bounds
  <2> HIDE DEF Value
  <2>. QED
    BY <2>1
<1>8. ~Top.disturbed => signature[k] = "a"
  BY <1>1, <1>2, <1>4, TopFrame DEF OwnValues
<1>9. ASSUME NEW skipped \in BOOLEAN, NEW ends \in BOOLEAN, NEW last \in Nat, k <= last,
             list' = [j \in Slot |->
                        IF j = k /\ ~skipped /\ ~ends THEN passed
                        ELSE IF j \in k .. last THEN part ELSE list[j]],
             format' = [format EXCEPT ![k] = "a"], ended' = ended,
             IF ends THEN Throw(f)
             ELSE /\ Advance([f EXCEPT !.threw = @ \/ skipped \/ last > k], 0)
                  /\ UNCHANGED finished
      PROVE  CallInv'
  <2>1. /\ format' \in [Slot -> Format] /\ format'[k] = "a"
        /\ \A j \in 1 .. Done(f) : format'[j] = format[j]
    BY <1>4, <1>5, <1>6, <1>9 DEF Format
  <2>2. /\ list' \in [Slot -> Value] /\ (list'[k] = passed \/ ((skipped \/ ends) /\ list'[k] = part))
        /\ \A j \in 1 .. Done(f) : list'[j] = list[j]
    <3>1. list' \in [Slot -> Value]
      <4> HIDE DEF Value
      <4>. QED
        BY <1>6, <1>9
    <3>2. (list'[k] = passed \/ ((skipped \/ ends) /\ list'[k] = part))
      <4>1. k \in k .. last
        BY <1>4, <1>9
      <4>. QED
        BY <1>4, <1>9, <4>1
    <3>3. \A j \in 1 .. Done(f) : list'[j] = list[j]
      <4> SUFFICES ASSUME NEW j \in 1 .. Done(f) PROVE list'[j] = list[j]
        OBVIOUS
      <4>1. j \in Slot /\ j # k /\ j \notin k .. last
        BY <1>4, <1>5
      <4>. QED
        BY <1>9, <4>1
    <3>. QED
      BY <3>1, <3>2, <3>3
  <2>3. UNCHANGED <<signature, blocks, heap, hea, handler, handlers, calls, ended, entered>>
    BY <1>1, <1>9
  <2>4. CASE ends
    <3>1. Throw(Top)
      BY <1>2, <1>9, <2>4
    <3> HIDE DEF Frame, Value
    <3>. QED
      BY <1>1, <1>2, <1>6, <2>1, <2>2, <2>3, <3>1, ThrowStep
  <2>5. CASE ~ends
    <3>1. PICK t \in BOOLEAN : t = (f.threw \/ skipped \/ last > k)
      OBVIOUS
    <3>2. PICK x : x = [f EXCEPT !.threw = t]
      OBVIOUS
    <3>3. /\ x \in Frame /\ x.sig = f.sig /\ x.call = f.call /\ x.index = f.index
          /\ x.offset = f.offset /\ x.disturbed = f.disturbed /\ x.got = f.got
          /\ x.wrote = f.wrote /\ x.threw = t
      BY <1>2, <3>2 DEF Frame
    <3>4. /\ Advance(x, 0)
          /\ UNCHANGED <<signature, blocks, heap, hea, handler, handlers, calls, ended, entered, finished>>
      BY <1>9, <2>3, <2>5, <3>1, <3>2
    <3>5. \A j \in 1 .. Done(Top) : /\ format'[j] = format[j] /\ number'[j] = number[j]
                                    /\ text'[j] = text[j] /\ list'[j] = list[j]
      BY <1>1, <1>2, <2>1, <2>2
    <3>6. list'[k] = Passed(Top.call, k) \/ (x.threw /\ list'[k] = Part(Top.call, k))
      BY <1>2, <1>7, <2>2, <2>5, <3>1, <3>3
    <3>7. ~Top.disturbed => signature[k] \notin {"S", "i", "I", "s"} /\ format'[k] = "a"
      BY <1>8, <2>1
    <3>8. /\ Top.threw => x.threw
          /\ k = Here(Top)
          /\ x.sig = Top.sig /\ x.call = Top.call /\ x.index = Top.index
          /\ x.offset = Top.offset /\ x.disturbed = Top.disturbed /\ x.got = Top.got
          /\ x.wrote = Top.wrote
      BY <1>2, <1>4, <3>1, <3>3
    <3>9. /\ format' \in [Slot -> Format] /\ number' \in [Slot -> Value]
          /\ text' \in [Slot -> Value] /\ list' \in [Slot -> Value]
      BY <1>6, <2>1, <2>2
    <3>10. ~ended /\ stack # <<>> /\ ~InHandler(Top) /\ Top.index < Len(Top.sig)
      BY <1>1, <1>2, <1>3
    <3> HIDE DEF Frame, Value
    <3>. QED
      BY <3>3, <3>4, <3>5, <3>6, <3>7, <3>8, <3>9, <3>10, AdvanceStep
  <2>. QED
    BY <2>4, <2>5
<1>10. CASE /\ ended' = TRUE
            /\ stack' = Append(Under, [f EXCEPT !.threw = TRUE])
            /\ UNCHANGED <<list, format, finished>>
  BY <1>1, <1>2, <1>10, ArrayEndsStep
<1>11. CASE \E skipped, ends \in BOOLEAN, last \in k .. Min({k + MaxSpill, MaxSlots}) :
              /\ list' = [j \in Slot |->
                            IF j = k /\ ~skipped /\ ~ends THEN Passed(f.call, k)
                            ELSE IF j \in k .. last THEN Part(f.call, k) ELSE list[j]]
              /\ format' = [format EXCEPT ![k] = "a"]
              /\ IF ends
                   THEN Throw(f)
                   ELSE /\ Advance([f EXCEPT !.threw = @ \/ skipped \/ last > k], 0)
                        /\ UNCHANGED finished
              /\ UNCHANGED ended
  <2>1. \A last \in k .. Min({k + MaxSpill, MaxSlots}) : last \in Nat /\ k <= last
    <3>1. \A last \in k .. Min({k + MaxSpill, MaxSlots}) : last \in Int /\ k <= last
      OBVIOUS
    <3>. QED
      BY <1>4, <3>1
  <2>. QED
    BY <1>7, <1>9, <1>11, <2>1
<1>. QED
  BY <1>10, <1>11 DEF ArrayConverted, f, k

\* A script makes a call: it begins, or its signature is refused.
LEMMA InvokeStep ==
  ASSUME CallInv, NEW name \in {"server", "provided", "unknown"}, NEW s \in Signatures,
         Invoke(name, s)
  PROVE  CallInv'
<1>1. /\ PawnTypeOK /\ FrameInv /\ HeapInv /\ ScriptRuns /\ ~ended /\ calls < MaxCalls
      /\ UNCHANGED <<format, number, text, list, blocks, heap, hea, handler, handlers, ended>>
  BY DEF CallInv, Invoke, ScriptRuns, amxVars, handlerVars
<1>2. PICK under \in Seq(Frame) : /\ under = Disturbed(stack) /\ Below(under)
                                  /\ \A k \in DOMAIN under : FrameOK(under[k], Len(blocks'))
                                  /\ HeapOK(under, hea)
  BY <1>1, Disturbing
<1>3. /\ s \in Seq(Letter) /\ Len(s) \in Nat /\ DOMAIN s = 1 .. Len(s) /\ Len(s) <= MaxSlots
      /\ \A k \in 1 .. Len(s) : s[k] \in Letter
  BY SignatureType, Bounds
<1>5. /\ signature' = [k \in Slot |-> IF k <= Accepted(s) THEN s[k] ELSE signature[k]]
      /\ signature' \in [Slot -> Letter]
  <2>1. signature' = [k \in Slot |-> IF k <= Accepted(s) THEN s[k] ELSE signature[k]]
    BY DEF Invoke, Parse
  <2>2. \A k \in Slot : k <= Accepted(s) => s[k] \in Letter
    <3>1. Accepted(s) \in 0 .. Len(s)
      BY <1>3, AcceptedType
    <3>. QED
      BY <1>3, <3>1, Bounds DEF Slot
  <2>3. signature \in [Slot -> Letter]
    BY <1>1, Storage
  <2>. QED
    BY <2>1, <2>2, <2>3
<1>6. calls' = calls + 1 /\ calls' \in 0 .. MaxCalls
  <2>1. calls' = calls + 1 /\ calls \in 0 .. MaxCalls
    BY <1>1 DEF Invoke, PawnTypeOK
  <2>. QED
    BY <1>1, <2>1, Bounds
<1>7. blocks' # <<>> /\ hea' = hea /\ blocks' = blocks
  BY <1>1 DEF FrameInv
<1>8. stack' \in Seq(Frame) /\ FrameInv' /\ TopInv' /\ HeapInv'
  <2>1. CASE Accepted(s) = Len(s) /\ stack' = Append(Disturbed(stack), NewFrame(name, s))
    <3>1. PICK f : f = NewFrame(name, s)
      OBVIOUS
    <3>2. /\ f \in Frame /\ f.sig = s /\ f.index = 0 /\ f.offset = 0 /\ f.at = "convert"
          /\ ~InHandler(f) /\ FrameOK(f, Len(blocks'))
      BY <1>1, <3>1, Beginning
    <3>3. stack' = Append(under, f)
      BY <1>2, <2>1, <3>1
    <3>4. OwnTypes(f)'
      <4>1. Accepts(s)
        BY <1>3, <2>1, AcceptedType
      <4>2. \A k \in DOMAIN s : signature'[k] = s[k]
        BY <1>3, <1>5, <2>1, Bounds DEF Slot
      <4>3. \A k \in Asked(s) : ~(k <= Done(f))
        BY <1>3, <3>2 DEF Asked, Done
      <4>. QED
        BY <3>2, <4>1, <4>2, <4>3 DEF OwnTypes
    <3>5. OwnValues(f)'
      <4>1. Done(f) = 0
        BY <3>2 DEF Done
      <4>2. Arguments(s) \in Nat
        BY ArgumentsType, Bounds
      <4>. QED
        BY <1>3, <3>2, <4>1, <4>2 DEF OwnValues, OwnLengths
    <3>6. HeapOK(Append(under, f), hea)
      BY <1>1, <1>2, <3>2, Storage, HeapPush
    <3>7. Own(f)'
      BY <3>2, <3>4, <3>5 DEF Own
    <3>. QED
      BY <1>2, <1>7, <3>2, <3>3, <3>6, <3>7, PushedFrame
  <2>2. CASE stack' = Disturbed(stack)
    BY <1>2, <1>7, <2>2, Popped
  <2>. QED
    BY <2>1, <2>2 DEF Invoke
<1>9. PawnTypeOK'
  <2>1. /\ format' \in [Slot -> Format] /\ handler' \in Provided \cup {NoHandler}
        /\ handlers' \in 0 .. MaxHandlers /\ ended' \in BOOLEAN
        /\ number' \in [Slot -> Value] /\ text' \in [Slot -> Value] /\ list' \in [Slot -> Value]
    BY <1>1 DEF PawnTypeOK
  <2>2. blocks' \in Seq(Block) /\ IsHeap(heap') /\ hea' \in Nat
    BY <1>1, Storage
  <2> HIDE DEF Frame, Value, Block
  <2>. QED
    BY <1>5, <1>6, <1>8, <2>1, <2>2, TypeNext
<1>10. entered' = Nothing /\ finished' = Nothing
  BY DEF Invoke, Forget
<1>11. SeesItsArguments' /\ ReturnsItsOwn' /\ EndsForItsOwn'
  BY <1>1, <1>10 DEF Nothing, SeesItsArguments, ReturnsItsOwn, EndsForItsOwn
<1>. QED
  BY <1>8, <1>9, <1>11 DEF CallInv

\* A handler is replaced: what a running call stores by is then the signature
\* of the new one, and nothing that is kept depends on it.
LEMMA ProvideNativeStep ==
  ASSUME CallInv, NEW s \in Provided, ProvideNative(s)
  PROVE  CallInv'
<1>1. /\ ~ended /\ handler' = s /\ handlers' = handlers + 1 /\ handlers < MaxHandlers
      /\ UNCHANGED <<signature, format, number, text, list, blocks, heap, hea, stack, calls>>
      /\ UNCHANGED <<ended, entered, finished>>
  BY DEF ProvideNative, ScriptRuns, bufferVars, amxVars
<1>2. PawnTypeOK'
  <2>1. handlers' \in 0 .. MaxHandlers
    BY <1>1, Bounds DEF CallInv, PawnTypeOK
  <2>. QED
    BY <1>1, <2>1 DEF CallInv, PawnTypeOK
<1>3. FrameInv'
  BY <1>1 DEF CallInv, FrameInv, Under
<1>4. TopInv'
  <2> SUFFICES ASSUME stack # <<>>, ~Top.disturbed PROVE Own(Top)'
    BY <1>1 DEF TopInv, Top
  <2>1. Own(Top)
    BY <1>1 DEF CallInv, TopInv
  <2>2. Top' = Top /\ Params' = Params /\ blocks' = blocks
    BY <1>1 DEF Top, Params
  <2>3. OwnTypes(Top) => OwnTypes(Top)'
    BY <1>1, <2>2 DEF OwnTypes
  <2>4. OwnParameters(Top) => OwnParameters(Top)'
    BY <1>1, <2>2 DEF OwnParameters
  <2>5. OwnValues(Top) => OwnValues(Top)'
    BY <1>1, <2>2 DEF OwnValues, OwnLengths, Holds
  <2>6. OwnResult(Top) => OwnResult(Top)'
    <3>1. handlers \in Nat /\ Top.handlers \in Nat
      <4>1. Top \in Frame
        BY <1>1, TopFrame
      <4>. QED
        BY <4>1, FrameFields, Bounds DEF CallInv, PawnTypeOK
    <3>. QED
      BY <1>1, <2>2, <3>1 DEF OwnResult
  <2>. QED
    BY <2>1, <2>2, <2>3, <2>4, <2>5, <2>6 DEF Own
<1>5. HeapInv'
  BY <1>1 DEF CallInv, HeapInv
<1>6. SeesItsArguments' /\ ReturnsItsOwn' /\ EndsForItsOwn'
  BY <1>1 DEF CallInv, SeesItsArguments, ReturnsItsOwn, EndsForItsOwn
<1>. QED
  BY <1>2, <1>3, <1>4, <1>5, <1>6 DEF CallInv

\* The process ends in the call on top.
LEMMA EndStep ==
  ASSUME CallInv, ended' = TRUE, format' \in [Slot -> Format],
         UNCHANGED <<signature, number, text, list, blocks, heap, hea, handler, handlers>>,
         UNCHANGED <<stack, calls, entered, finished>>, EndsForItsOwn'
  PROVE  CallInv'
<1>1. PawnTypeOK'
  BY DEF CallInv, PawnTypeOK
<1>2. FrameInv' /\ TopInv' /\ HeapInv'
  BY DEF CallInv, FrameInv, Under, TopInv, HeapInv
<1>3. SeesItsArguments' /\ ReturnsItsOwn'
  BY DEF CallInv, SeesItsArguments, ReturnsItsOwn
<1>. QED
  BY <1>1, <1>2, <1>3 DEF CallInv

\* All arguments are converted, and the native is called.
LEMMA CallNativeStep ==
  ASSUME CallInv, CallNative
  PROVE  CallInv'
<1>1. /\ ~ended /\ stack # <<>> /\ Top.at = "convert" /\ Top.index = Len(Top.sig)
      /\ UNCHANGED <<signature, handler, handlers, calls>>
  BY DEF CallNative, Converting, handlerVars
<1>2. PICK f \in Frame : f = Top /\ FrameOK(f, Len(blocks)) /\ ~InHandler(Top)
  BY <1>1, TopFrame DEF InHandler
<1>3. PICK n \in 0 .. MaxSlots - 1 : n = Done(f)
  BY <1>2, HereType
<1>4. /\ n = Len(f.sig) + f.offset /\ n \in Nat
  BY <1>1, <1>2, <1>3, Bounds DEF Done
<1>5. /\ PawnTypeOK /\ FrameInv /\ SeesItsArguments /\ ReturnsItsOwn
      /\ format \in [Slot -> Format] /\ calls \in 0 .. MaxCalls /\ hea \in Nat /\ blocks # <<>>
  BY DEF CallInv, PawnTypeOK, FrameInv
<1>6. format' = [format EXCEPT ![n + 1] = "0"]
  BY <1>2, <1>4 DEF CallNative
<1>7. /\ format' \in [Slot -> Format] /\ \A k \in 1 .. n : format'[k] = format[k]
  <2>1. n + 1 \in Slot /\ \A k \in 1 .. n : k # n + 1 /\ k \in Slot
    BY <1>4, Bounds DEF Slot
  <2>. QED
    BY <1>5, <1>6, <2>1 DEF Format
<1>8. CASE (f.name # "unknown" => Unpushable(n) = {}) /\ CallFunction(f, Under, n)
  <2>1. Calling(f, Under)
    BY <1>1, <1>2, <1>3, <1>8, TopFrame DEF Calling, FrameOK
  <2>2. CallKeeps(n)
    BY <1>1, <1>5, <1>7 DEF CallKeeps
  <2>3. Under \in Seq(Frame)
    BY <1>1, TopFrame
  <2>. QED
    BY <1>1, <1>3, <1>5, <1>8, <2>1, <2>2, <2>3, CallFunctionStep
<1>9. CASE /\ \/ ~(\A k \in 1 .. n : format[k] # "0")
              \/ f.name # "unknown" /\ (Unpushable(n) # {} \/ FilledUpTo(n) > HeapCells)
           /\ ended' = TRUE
           /\ UNCHANGED <<number, text, list, amxVars, stack, entered, finished>>
  <2>1. EndsForItsOwn'
    <3> SUFFICES ASSUME ~f.disturbed
                 PROVE  \/ Regular(f.sig) => hea + Demand(f.call, f.sig) > HeapCells
                        \/ \E k \in DOMAIN f.sig : f.sig[k] = "a" /\ Need(f.call, f.sig, k) <= 0
      BY <1>1, <1>2, <1>9 DEF EndsForItsOwn, Top, amxVars
    <3>1. OwnTypes(f) /\ OwnValues(f) /\ f.index = Len(f.sig) /\ f.offset <= f.index
      BY <1>1, <1>2, TopFrame DEF FrameOK
    <3>2. \A k \in 1 .. n : format[k] # "0"
      BY <1>3, <3>1 DEF OwnValues
    <3>3. ASSUME Regular(f.sig), Unpushable(n) # {}
          PROVE  \E k \in DOMAIN f.sig : f.sig[k] = "a" /\ Need(f.call, f.sig, k) <= 0
      <4>1. PICK i \in Pushed(n) : format[i] \in {"a", "S"} /\ Number(number[i + 1]) <= 0
        BY <3>3 DEF Unpushable
      <4>. QED
        BY <1>3, <1>5, <3>1, <3>3, <4>1, OwnCells
    <3>4. ASSUME Regular(f.sig), FilledUpTo(n) > HeapCells
          PROVE  hea + Demand(f.call, f.sig) > HeapCells
      <4>1. Demand(f.call, f.sig) \in Nat /\ FilledUpTo(n) <= hea + Demand(f.call, f.sig)
        BY <1>3, <1>5, <3>1, <3>4, OwnDemand
      <4>2. FilledUpTo(n) \in Nat
        BY <1>5, FilledHeapType
      <4>. QED
        BY <1>5, <3>4, <4>1, <4>2, Bounds
    <3>. QED
      BY <1>9, <3>2, <3>3, <3>4
  <2>. QED
    BY <1>1, <1>7, <1>9, <2>1, EndStep DEF amxVars
<1>. QED
  BY <1>2, <1>4, <1>8, <1>9 DEF CallNative

\* The handler on top returns, having stored what is in the heap h.
LEMMA HandlerEnds ==
  ASSUME CallInv, ~ended, stack # <<>>, InHandler(Top), NEW h, IsHeap(h), NEW result, NEW wrote,
         NEW f \in Frame, f.call = Top.call, f.sig = Top.sig, f.index = Top.index,
         f.offset = Top.offset, f.disturbed = Top.disturbed, f.count = Top.count,
         f.stored_hea = Top.stored_hea,
         Return(f, Under, f.count, Params, h, result, wrote),
         ~Top.disturbed /\ Regular(Top.sig) /\ wrote \subseteq Asked(Top.sig) =>
           \A k \in wrote : Read(h, Params[k]) = Written(Top.call, k),
         UNCHANGED <<signature, format, blocks, handler, handlers, calls, ended, entered>>
  PROVE  CallInv'
<1>1. /\ FrameOK(Top, Len(blocks))
      /\ ~Top.disturbed => OwnTypes(Top)
  BY TopFrame
<1>2. /\ PawnTypeOK /\ Under \in Seq(Frame) /\ Below(Under)
      /\ \A j \in DOMAIN Under : FrameOK(Under[j], Len(blocks))
      /\ HeapOK(Under, f.stored_hea) /\ blocks # <<>>
  BY TopFrame DEF CallInv, FrameInv
<1>3. /\ f.index = Len(f.sig) /\ f.offset <= f.index /\ f.count = Done(f)
      /\ ~f.disturbed => OwnTypes(f)
  BY <1>1 DEF FrameOK, OwnTypes, Done
<1>4. /\ number' \in [Slot -> Value] /\ text' \in [Slot -> Value] /\ list' \in [Slot -> Value]
      /\ IsHeap(heap') /\ hea' = f.stored_hea /\ hea' \in Nat /\ stack' = Under
  BY <1>2, ReturnType
<1>5. FrameInv' /\ TopInv' /\ HeapInv'
  <2>1. blocks' # <<>> /\ \A j \in DOMAIN Under : FrameOK(Under[j], Len(blocks'))
    BY <1>2
  <2>. QED
    BY <1>2, <1>4, <2>1, Popped
<1>6. PawnTypeOK'
  <2>1. /\ signature' \in [Slot -> Letter] /\ format' \in [Slot -> Format]
        /\ handler' \in Provided \cup {NoHandler} /\ handlers' \in 0 .. MaxHandlers
        /\ calls' \in 0 .. MaxCalls /\ ended' \in BOOLEAN
    BY <1>2 DEF PawnTypeOK
  <2>2. blocks' \in Seq(Block)
    BY <1>2, Storage
  <2> HIDE DEF Frame, Value, Block
  <2>. QED
    BY <1>2, <1>4, <2>1, <2>2, TypeNext
<1>7. ReturnsItsOwn'
  BY <1>2, <1>3, ReturnsOwn
<1>8. SeesItsArguments' /\ EndsForItsOwn'
  BY DEF CallInv, SeesItsArguments, EndsForItsOwn
<1>. QED
  BY <1>5, <1>6, <1>7, <1>8 DEF CallInv

\* A handler's result is being read: the frame on top is another.
LEMMA ReadingStep ==
  ASSUME CallInv, ~ended, stack # <<>>, InHandler(Top), NEW g \in Frame, stack' = Append(Under, g),
         g.at = "result", g.place \in Slot, g.call = Top.call, g.sig = Top.sig,
         g.index = Top.index, g.offset = Top.offset, g.count = Top.count, g.block = Top.block,
         g.disturbed = Top.disturbed, g.mixed = Top.mixed, g.stored_hea = Top.stored_hea,
         IsHeap(heap'), ended' \in BOOLEAN, ended' => g.threw,
         ~ended' /\ ~g.disturbed => OwnParameters(g)' /\ OwnResult(g)',
         UNCHANGED <<signature, format, number, text, list, blocks, hea, handler, handlers>>,
         UNCHANGED <<calls, entered, finished>>
  PROVE  CallInv'
<1>1. /\ stack \in Seq(Frame) /\ FrameOK(Top, Len(blocks)) /\ Under \in Seq(Frame) /\ Below(Under)
      /\ \A j \in DOMAIN Under : FrameOK(Under[j], Len(blocks))
      /\ ~Top.disturbed => OwnTypes(Top)
      /\ HeapOK(stack, hea) /\ blocks # <<>> /\ hea \in Nat /\ PawnTypeOK
  BY TopFrame DEF CallInv, FrameInv, HeapInv, HeapOK, PawnTypeOK
<1>2. InHandler(g) /\ FrameOK(g, Len(blocks))
  BY <1>1 DEF FrameOK, Done, InHandler
<1>3. HeapOK(Append(Under, g), hea)
  <2> HIDE DEF Frame
  <2>1. PICK q \in Seq(Frame) : q = Append(Under, g)
    BY <1>1, PushType
  <2>2. /\ Len(stack) \in Nat \ {0} /\ Top = stack[Len(stack)]
    BY <1>1, Frames DEF Top, Last
  <2>3. /\ Len(Under) = Len(stack) - 1
        /\ \A k \in 1 .. Len(stack) - 1 : Under[k] = stack[k]
    BY <1>1, FrontPlaces DEF Under
  <2>4. /\ Len(q) = Len(Under) + 1 /\ q[Len(Under) + 1] = g
        /\ \A k \in 1 .. Len(Under) : q[k] = Under[k]
    BY <1>1, <2>1, PushPlaces, Frames
  <2>5. Len(q) = Len(stack) /\ q[Len(stack)] = g
    BY <2>2, <2>3, <2>4
  <2>6. \A k \in 1 .. Len(stack) : k = Len(stack) \/ (k \in 1 .. Len(stack) - 1 /\ q[k] = stack[k])
    BY <2>2, <2>3, <2>4
  <2>7. \A k \in 1 .. Len(stack) :
          /\ InHandler(stack[k]) <=> InHandler(q[k])
          /\ stack[k].stored_hea = q[k].stored_hea /\ stack[k].mixed = q[k].mixed
          /\ stack[k].call = q[k].call /\ stack[k].sig = q[k].sig
    BY <1>2, <2>2, <2>5, <2>6
  <2>. QED
    BY <1>1, <2>1, <2>5, <2>7, HeapSame
<1>4. ~ended' /\ ~g.disturbed => Own(g)'
  <2> SUFFICES ASSUME ~ended', ~g.disturbed PROVE Own(g)'
    OBVIOUS
  <2>1. OwnTypes(Top) /\ Done(g) = Done(Top)
    BY <1>1 DEF Done
  <2>2. OwnTypes(g)'
    BY <2>1 DEF OwnTypes
  <2>. QED
    BY <1>2, <2>2 DEF Own
<1>5. stack' \in Seq(Frame) /\ FrameInv' /\ TopInv' /\ HeapInv' /\ Top' = g
  BY <1>1, <1>2, <1>3, <1>4, PushedFrame
<1>6. PawnTypeOK'
  <2>1. /\ signature' \in [Slot -> Letter] /\ format' \in [Slot -> Format]
        /\ number' \in [Slot -> Value] /\ text' \in [Slot -> Value] /\ list' \in [Slot -> Value]
        /\ handler' \in Provided \cup {NoHandler} /\ handlers' \in 0 .. MaxHandlers
        /\ calls' \in 0 .. MaxCalls /\ hea' \in Nat
    BY <1>1 DEF PawnTypeOK
  <2>2. blocks' \in Seq(Block)
    BY <1>1, Storage
  <2> HIDE DEF Frame, Value, Block
  <2>. QED
    BY <1>5, <2>1, <2>2, TypeNext
<1>7. SeesItsArguments' /\ ReturnsItsOwn'
  BY DEF CallInv, SeesItsArguments, ReturnsItsOwn
<1>8. EndsForItsOwn'
  BY <1>5 DEF EndsForItsOwn
<1>. QED
  BY <1>5, <1>6, <1>7, <1>8 DEF CallInv

\* Some numbers have a least one.
LEMMA LeastPlace ==
  ASSUME NEW S \in SUBSET Nat, S # {}
  PROVE  Min(S) \in S /\ \A k \in S : Min(S) <= k
<1>1. \E x \in S : \A y \in S : x <= y
  BY LeastNatural
<1>2. PICK m : m = CHOOSE x \in S : \A y \in S : x <= y
  OBVIOUS
<1>3. m \in S /\ \A y \in S : m <= y
  BY <1>1, <1>2
<1>4. Min(S) = m
  BY <1>2 DEF Min
<1>. QED
  BY <1>3, <1>4

\* The references of the handler's signature are slots.
LEMMA AskedType ==
  ASSUME handler \in Provided \cup {NoHandler}
  PROVE  /\ Asked(handler) \in SUBSET Slot /\ Asked(handler) \in SUBSET Nat
         /\ IsFiniteSet(Asked(handler)) /\ References(handler) = Cardinality(Asked(handler))
         /\ References(handler) > 0 => Asked(handler) # {}
<1>1. Asked(handler) \in SUBSET (1 .. MaxSlots)
  <2>1. DOMAIN handler = 1 .. Len(handler) /\ Len(handler) \in Nat /\ Len(handler) <= MaxSlots
    BY HandlerType
  <2>. QED
    BY <2>1, Bounds DEF Asked
<1>2. IsFiniteSet(1 .. MaxSlots)
  <2>1. 1 \in Int /\ MaxSlots \in Int
    BY Bounds
  <2>. QED
    BY <2>1, FS_Interval
<1>3. IsFiniteSet(Asked(handler))
  BY <1>1, <1>2, FS_Subset
<1>4. References(handler) = Cardinality(Asked(handler))
  BY DEF References, Size, Asked
<1>5. Asked(handler) = {} => Cardinality(Asked(handler)) = 0
  BY FS_EmptySet
<1>. QED
  BY <1>1, <1>3, <1>4, <1>5, Bounds DEF Slot

\* How many are up to one of them.
LEMMA UpTo ==
  ASSUME NEW S \in SUBSET Nat, IsFiniteSet(S), NEW p \in S, NEW T, T = {k \in S : k <= p}
  PROVE  Cardinality(T) = Cardinality({k \in S : k < p}) + 1
<1>1. PICK U \in SUBSET S : U = {k \in S : k < p}
  OBVIOUS
<1>2. IsFiniteSet(U) /\ p \notin U
  BY <1>1, FS_Subset
<1>3. T = U \cup {p}
  <2>1. \A k \in S : k <= p <=> k < p \/ k = p
    OBVIOUS
  <2>2. T \subseteq U \cup {p}
    BY <1>1, <2>1
  <2>3. U \cup {p} \subseteq T
    BY <1>1, <2>1
  <2>. QED
    BY <2>2, <2>3
<1>. QED
  BY <1>1, <1>2, <1>3, FS_AddElement

\* A handler returns: without values, or with an array that is then read.
LEMMA HandlerReturnsStep ==
  ASSUME CallInv, HandlerReturns
  PROVE  CallInv'
<1>1. /\ ~ended /\ stack # <<>> /\ Top.at = "handler" /\ InHandler(Top)
      /\ UNCHANGED <<signature, format, blocks, handler, handlers, calls, entered>>
  BY DEF HandlerReturns, handlerVars, InHandler
<1>2. /\ Top \in Frame /\ FrameOK(Top, Len(blocks))
      /\ ~Top.disturbed => OwnParameters(Top) /\ OwnResult(Top)
  BY <1>1, TopFrame
<1>3. /\ IsHeap(heap) /\ handler \in Provided \cup {NoHandler} /\ blocks \in Seq(Block)
  BY Storage DEF CallInv
<1>4. ASSUME NEW result, Return(Top, Under, Top.count, Params, heap, result, {}), UNCHANGED ended
      PROVE  CallInv'
  BY <1>1, <1>2, <1>3, <1>4, HandlerEnds
<1>5. CASE /\ References(handler) > 0
           /\ stack' = Append(Under, [Top EXCEPT !.at = "result", !.place = Min(Asked(handler))])
           /\ UNCHANGED <<number, text, list, heap, hea, ended, finished>>
  <2>1. PICK p \in Slot : /\ p = Min(Asked(handler)) /\ p \in Asked(handler)
                          /\ \A k \in Asked(handler) : p <= k
    BY <1>3, <1>5, AskedType, LeastPlace
  <2>2. PICK g : g = [Top EXCEPT !.at = "result", !.place = p]
    OBVIOUS
  <2>3. p \in 0 .. MaxSlots /\ p \in Nat
    BY Bounds DEF Slot
  <2>4. /\ g \in Frame /\ g.at = "result" /\ g.place = p /\ g.call = Top.call /\ g.sig = Top.sig
        /\ g.index = Top.index /\ g.offset = Top.offset /\ g.count = Top.count
        /\ g.block = Top.block /\ g.disturbed = Top.disturbed /\ g.mixed = Top.mixed
        /\ g.stored_hea = Top.stored_hea /\ g.handlers = Top.handlers /\ g.got = Top.got
        /\ g.wrote = Top.wrote
    BY <1>2, <2>2, <2>3 DEF Frame
  <2>5. stack' = Append(Under, g)
    BY <1>5, <2>1, <2>2
  <2>6. Top.got = 0 /\ Top.wrote = {}
    BY <1>1, <1>2 DEF FrameOK
  <2>7. OwnParameters(Top) => OwnParameters(g)'
    BY <1>1, <1>5, <2>4, <2>6 DEF OwnParameters, Params
  <2>8. OwnResult(Top) => OwnResult(g)'
    <3>1. {k \in Asked(handler) : k < p} = {}
      <4>1. \A k \in Asked(handler) : k \in Nat
        BY <1>3, AskedType
      <4>2. \A k \in Asked(handler) : ~(k < p)
        BY <2>1, <2>3, <4>1
      <4>. QED
        BY <4>2
    <3>2. Cardinality({k \in Asked(handler) : k < p}) = 0
      BY <3>1, FS_EmptySet
    <3>. QED
      BY <1>1, <2>1, <2>4, <2>6, <3>2 DEF OwnResult
  <2>9. /\ UNCHANGED <<signature, format, number, text, list, blocks, hea, handler, handlers>>
        /\ UNCHANGED <<calls, entered, finished>>
        /\ IsHeap(heap') /\ ended' = FALSE
    BY <1>1, <1>3, <1>5
  <2> HIDE DEF Frame
  <2>. QED
    BY <1>1, <1>2, <2>4, <2>5, <2>7, <2>8, <2>9, ReadingStep
<1>. QED
  BY <1>4, <1>5 DEF HandlerReturns

\* The next entry is asked for, or all have been read.
LEMMA ReadOnStep ==
  ASSUME CallInv, ~ended, stack # <<>>, Top.at = "result", NEW h, IsHeap(h), NEW wrote \in SUBSET Slot,
         ReadOn(Top, h, wrote),
         ~Top.disturbed /\ Regular(Top.sig) /\ wrote \subseteq Asked(Top.sig) =>
           \A k \in wrote : Read(h, Params[k]) = Written(Top.call, k),
         UNCHANGED <<signature, format, blocks, handler, handlers, calls, ended, entered>>
  PROVE  CallInv'
<1>1. InHandler(Top)
  BY DEF InHandler
<1>2. /\ Top \in Frame /\ FrameOK(Top, Len(blocks)) /\ handler \in Provided \cup {NoHandler}
      /\ ~Top.disturbed => OwnParameters(Top) /\ OwnResult(Top)
  BY <1>1, TopFrame DEF CallInv, PawnTypeOK
<1>3. PICK next \in SUBSET Asked(handler) : next = {k \in Asked(handler) : k > Top.place}
  OBVIOUS
<1>4. PICK g : g = [Top EXCEPT !.got = @ + 1, !.wrote = wrote]
  OBVIOUS
<1>5. /\ g \in Frame /\ g.at = "result" /\ g.call = Top.call /\ g.sig = Top.sig
      /\ g.index = Top.index /\ g.offset = Top.offset /\ g.count = Top.count
      /\ g.block = Top.block /\ g.disturbed = Top.disturbed /\ g.mixed = Top.mixed
      /\ g.stored_hea = Top.stored_hea /\ g.handlers = Top.handlers /\ g.got = Top.got + 1
      /\ g.wrote = wrote
  <2>1. PICK got \in Nat : got = Top.got + 1
    BY <1>2, FrameFields
  <2>2. g = [Top EXCEPT !.got = got, !.wrote = wrote]
    BY <1>4, <2>1
  <2>. QED
    BY <1>2, <2>1, <2>2 DEF Frame
<1>6. CASE /\ next # {}
           /\ stack' = Append(Under, [g EXCEPT !.place = Min(next)])
           /\ heap' = h
           /\ UNCHANGED <<number, text, list, hea, finished>>
  <2>1. PICK p \in Slot : /\ p = Min(next) /\ p \in next /\ \A k \in next : p <= k
    BY <1>2, <1>6, AskedType, LeastPlace
  <2>2. PICK x : x = [g EXCEPT !.place = p]
    OBVIOUS
  <2>3. p \in 0 .. MaxSlots /\ p \in Nat
    BY Bounds DEF Slot
  <2>4. /\ x \in Frame /\ x.at = "result" /\ x.place = p /\ x.call = Top.call /\ x.sig = Top.sig
        /\ x.index = Top.index /\ x.offset = Top.offset /\ x.count = Top.count
        /\ x.block = Top.block /\ x.disturbed = Top.disturbed /\ x.mixed = Top.mixed
        /\ x.stored_hea = Top.stored_hea /\ x.handlers = Top.handlers /\ x.got = Top.got + 1
        /\ x.wrote = wrote
    BY <1>5, <2>2, <2>3 DEF Frame
  <2>5. stack' = Append(Under, x)
    BY <1>6, <2>1, <2>2
  <2>6. ~Top.disturbed => OwnParameters(x)'
    BY <1>2, <1>6, <2>4 DEF OwnParameters, Params
  <2>7. ~Top.disturbed => OwnResult(x)'
    <3> SUFFICES ASSUME ~Top.disturbed, Top.handlers = handlers
                 PROVE  Top.got + 1 = Cardinality({k \in Asked(handler) : k < p})
      BY <1>2, <1>3, <2>1, <2>4 DEF OwnResult
    <3>1. /\ Top.place \in Asked(handler)
          /\ Top.got = Cardinality({k \in Asked(handler) : k < Top.place})
      BY <1>2 DEF OwnResult
    <3>2. Asked(handler) \in SUBSET Nat /\ IsFiniteSet(Asked(handler))
      BY <1>2, AskedType
    <3>3. {k \in Asked(handler) : k < p} = {k \in Asked(handler) : k <= Top.place}
      <4>1. \A k \in Asked(handler) : k < p <=> k <= Top.place
        <5> SUFFICES ASSUME NEW k \in Asked(handler) PROVE k < p <=> k <= Top.place
          OBVIOUS
        <5>1. k \in Nat /\ Top.place \in Nat /\ p > Top.place
          BY <1>3, <2>1, <3>1, <3>2
        <5>2. k > Top.place => p <= k
          BY <1>3, <2>1
        <5>. QED
          BY <2>3, <5>1, <5>2
      <4>. QED
        BY <4>1
    <3>. QED
      BY <3>1, <3>2, <3>3, UpTo
  <2>8. /\ UNCHANGED <<signature, format, number, text, list, blocks, hea, handler, handlers>>
        /\ UNCHANGED <<calls, entered, finished>>
        /\ IsHeap(heap') /\ ended' = FALSE
    BY <1>6
  <2> HIDE DEF Frame
  <2>. QED
    BY <1>1, <2>4, <2>5, <2>6, <2>7, <2>8, ReadingStep
<1>7. CASE Return(g, Under, g.count, Params, h, "1", wrote)
  BY <1>1, <1>5, <1>7, HandlerEnds
<1>. QED
  BY <1>3, <1>4, <1>6, <1>7 DEF ReadOn

\* An entry of the array has been read: it is stored, or passed over, or the
\* process ends.
LEMMA ResultReadStep ==
  ASSUME CallInv, ResultRead
  PROVE  CallInv'
<1>1. /\ ~ended /\ stack # <<>> /\ Top.at = "result" /\ InHandler(Top)
      /\ UNCHANGED <<signature, format, blocks, handler, handlers, calls, entered>>
  BY DEF ResultRead, handlerVars, InHandler
<1>2. /\ Top \in Frame /\ FrameOK(Top, Len(blocks))
      /\ ~Top.disturbed => OwnParameters(Top) /\ OwnResult(Top)
  BY <1>1, TopFrame
<1>3. /\ IsHeap(heap) /\ handler \in Provided \cup {NoHandler} /\ blocks \in Seq(Block)
      /\ hea \in Nat /\ format \in [Slot -> Format] /\ ended = FALSE
  BY <1>1, Storage DEF CallInv, PawnTypeOK
<1> DEFINE f == Top
           cells == blocks[f.block].cells
           fits == f.place <= cells[0][2]
<1>4. /\ f.place \in Slot /\ f.place \in Nat /\ f.place \in 0 .. MaxSlots /\ f.call \in 1 .. MaxCalls
      /\ f.count \in Nat /\ f.wrote \in SUBSET Slot
  BY <1>1, <1>2, FrameFields, Bounds DEF FrameOK, Slot
<1>5. cells \in [0 .. MaxSlots -> Value]
  <2>1. f.block \in 1 .. Len(blocks)
    BY <1>1, <1>2 DEF FrameOK
  <2>2. blocks[f.block] \in Block
    <3> HIDE DEF Block
    <3>. QED
      BY <1>3, <2>1, SeqType
  <2>. QED
    BY <2>2 DEF Block
<1>6. ~f.disturbed =>
        /\ cells = Params /\ f.block = Len(blocks) /\ Params[0] = Bytes(f.count)
        /\ cells[0][2] = f.count
  <2> SUFFICES ASSUME ~f.disturbed
               PROVE  /\ cells = Params /\ f.block = Len(blocks) /\ Params[0] = Bytes(f.count)
                      /\ cells[0][2] = f.count
    OBVIOUS
  <2>1. f.block = Len(blocks) /\ Params[0] = Bytes(f.count)
    BY <1>2 DEF OwnParameters
  <2>2. cells = Params
    <3>1. Last(blocks) = blocks[Len(blocks)]
      BY DEF Last
    <3>. QED
      BY <2>1, <3>1 DEF Params
  <2>. QED
    BY <2>1, <2>2, Values
<1>7. ~f.disturbed /\ Regular(f.sig) /\ f.wrote \subseteq Asked(f.sig) =>
        \A k \in f.wrote : Read(heap, Params[k]) = Written(f.call, k)
  BY <1>2 DEF OwnParameters
<1> HIDE DEF f
<1>8. f = Top
  BY DEF f
<1> HIDE DEF cells, fits
<1>9. ASSUME ReadOn(f, heap, f.wrote), ended' = FALSE PROVE CallInv'
  <2>1. UNCHANGED <<signature, format, blocks, handler, handlers, calls, ended, entered>>
    BY <1>1, <1>3, <1>9
  <2>. QED
    BY <1>1, <1>3, <1>4, <1>7, <1>8, <1>9, <2>1, ReadOnStep
<1>10. ASSUME NEW to \in Targets(cells[f.place]), to # -1, ended' = FALSE,
              ReadOn(f, Stored([a \in {to} |-> Written(f.call, f.place)], heap), f.wrote \cup {f.place})
       PROVE  CallInv'
  <2>1. to \in Nat
    <3>1. cells[f.place] \in Value
      <4> HIDE DEF Value
      <4>. QED
        BY <1>4, <1>5
    <3>2. CASE cells[f.place][1] = "address"
      <4>1. to = cells[f.place][2]
        BY <1>10, <3>2 DEF Targets
      <4>. QED
        BY <3>1, <4>1, SecondType
    <3>3. CASE cells[f.place][1] # "address"
      <4>1. to \in DOMAIN heap
        BY <1>10, <3>3 DEF Targets
      <4>. QED
        BY <1>3, <4>1 DEF IsHeap
    <3>. QED
      BY <3>2, <3>3
  <2>2. PICK top : top = [a \in {to} |-> Written(f.call, f.place)]
    OBVIOUS
  <2>3. IsHeap(top)
    <3>1. Written(f.call, f.place) \in Value
      BY <1>4, Values
    <3>. QED
      BY <2>1, <2>2, <3>1 DEF IsHeap
  <2>4. PICK h : h = Stored(top, heap) /\ IsHeap(h)
    BY <1>3, <2>3, StoredType
  <2>5. PICK wrote \in SUBSET Slot : wrote = f.wrote \cup {f.place}
    BY <1>4
  <2>6. ReadOn(f, h, wrote)
    BY <1>10, <2>2, <2>4, <2>5
  <2>7. ASSUME ~f.disturbed, Regular(f.sig), wrote \subseteq Asked(f.sig), NEW k \in wrote
        PROVE  Read(h, Params[k]) = Written(f.call, k)
    <3>1. f.place \in Asked(f.sig) /\ k \in Asked(f.sig) /\ f.wrote \subseteq Asked(f.sig)
      BY <2>5, <2>7
    <3>2. /\ Params[f.place][1] = "address" /\ Params[k][1] = "address"
          /\ Params[k][2] = Params[f.place][2] => k = f.place
      BY <1>2, <1>8, <2>7, <3>1 DEF OwnParameters
    <3>3. to = Params[f.place][2]
      BY <1>6, <1>10, <2>7, <3>2 DEF Targets
    <3>4. CASE k = f.place
      BY <2>2, <2>4, <3>2, <3>3, <3>4 DEF Read, Stored
    <3>5. CASE k # f.place
      <4>1. k \in f.wrote /\ Params[k][2] # to
        BY <2>5, <3>2, <3>3, <3>5
      <4>2. Read(heap, Params[k]) = Written(f.call, k)
        BY <1>7, <2>7, <3>1, <4>1
      <4>3. DOMAIN top = {to}
        BY <2>2
      <4>. QED
        BY <2>4, <3>2, <4>1, <4>2, <4>3 DEF Read, Stored
    <3>. QED
      BY <3>4, <3>5
  <2>8. UNCHANGED <<signature, format, blocks, handler, handlers, calls, ended, entered>>
    BY <1>1, <1>3, <1>10
  <2>. QED
    BY <1>1, <1>8, <2>4, <2>6, <2>7, <2>8, ReadOnStep
<1>11. CASE /\ ended' = FALSE
            /\ \E letter \in LettersAt(f.place) :
                 \/ letter \notin Reference /\ ReadOn(f, heap, f.wrote)
                 \/ /\ letter \in Reference /\ fits
                    /\ \E to \in Targets(cells[f.place]) :
                         IF to = -1
                           THEN ReadOn(f, heap, f.wrote)
                           ELSE ReadOn(f, Stored([a \in {to} |-> Written(f.call, f.place)], heap),
                                       f.wrote \cup {f.place})
  BY <1>9, <1>10, <1>11
<1>12. CASE /\ ended' = TRUE /\ stack' = Append(Under, [f EXCEPT !.threw = TRUE])
            /\ UNCHANGED <<number, text, list, heap, hea, finished>>
  <2>1. PICK g : g = [f EXCEPT !.threw = TRUE]
    OBVIOUS
  <2>2. /\ g \in Frame /\ g.at = "result" /\ g.place = f.place /\ g.call = Top.call
        /\ g.sig = Top.sig /\ g.index = Top.index /\ g.offset = Top.offset
        /\ g.count = Top.count /\ g.block = Top.block /\ g.disturbed = Top.disturbed
        /\ g.mixed = Top.mixed /\ g.stored_hea = Top.stored_hea /\ g.threw
    BY <1>1, <1>2, <1>8, <2>1 DEF Frame
  <2>3. stack' = Append(Under, g)
    BY <1>12, <2>1
  <2>4. /\ UNCHANGED <<signature, format, number, text, list, blocks, hea, handler, handlers>>
        /\ UNCHANGED <<calls, entered, finished>> /\ IsHeap(heap') /\ ended' \in BOOLEAN
    BY <1>1, <1>3, <1>12
  <2> HIDE DEF Frame
  <2>. QED
    BY <1>1, <1>4, <1>12, <2>2, <2>3, <2>4, ReadingStep
<1>13. CASE /\ ended' = TRUE /\ stack' = stack
            /\ \/ LettersAt(f.place) \cap Reference # {} /\ ~fits
               \/ f.block # Len(blocks)
               \/ /\ \A k \in Asked(handler) : k <= f.place
                  /\ f.got + 1 # References(handler)
            /\ UNCHANGED <<number, text, list, heap, hea, finished>>
  <2>1. EndsForItsOwn'
    <3> SUFFICES ASSUME ~f.disturbed, f.handlers = handlers
                 PROVE  \E k \in Asked(handler) : k > f.count
      BY <1>1, <1>8, <1>13 DEF EndsForItsOwn, Top
    <3>1. /\ f.place \in Asked(handler)
          /\ f.got = Cardinality({k \in Asked(handler) : k < f.place})
      BY <1>1, <1>2, <1>8 DEF OwnResult
    <3>2. CASE ~fits
      <4>1. ~(f.place <= f.count)
        BY <1>6, <3>2 DEF fits
      <4>. QED
        BY <1>4, <3>1, <4>1
    <3>3. f.block = Len(blocks)
      BY <1>6
    <3>4. ASSUME \A k \in Asked(handler) : k <= f.place
          PROVE  f.got + 1 = References(handler)
      <4>1. Asked(handler) = {k \in Asked(handler) : k <= f.place}
        BY <3>4
      <4>. QED
        BY <1>3, <3>1, <4>1, AskedType, UpTo
    <3>. QED
      BY <1>13, <3>2, <3>3, <3>4
  <2>2. /\ UNCHANGED <<signature, number, text, list, blocks, heap, hea, handler, handlers>>
        /\ UNCHANGED <<stack, calls, entered, finished>> /\ format' \in [Slot -> Format]
    BY <1>1, <1>3, <1>13
  <2>. QED
    BY <1>13, <2>1, <2>2, EndStep
<1>. QED
  BY <1>11, <1>12, <1>13 DEF ResultRead, f, cells, fits

(***************************************************************************)
(* The theorems.                                                           *)
(***************************************************************************)

\* Nothing has been called yet.
LEMMA Initial ==
  ASSUME Init
  PROVE  CallInv
<1>1. stack = <<>> /\ hea = 0 /\ ended = FALSE /\ entered = Nothing /\ finished = Nothing
  BY DEF Init
<1>2. PawnTypeOK
  <2>1. PICK zero \in Value : zero = Zero
    BY Values
  <2>2. \A s : [k \in s |-> zero] \in [s -> Value]
    OBVIOUS
  <2>3. /\ signature \in [Slot -> Letter] /\ format \in [Slot -> Format]
    BY DEF Init, Letter, Format
  <2>4. /\ number \in [Slot -> Value] /\ text \in [Slot -> Value] /\ list \in [Slot -> Value]
    <3> HIDE DEF Value
    <3>. QED
      BY <2>1, <2>2 DEF Init
  <2>5. blocks \in Seq([capacity : Nat, cells : [0 .. MaxSlots -> Value]])
    <3>1. PICK cells : cells = [i \in 0 .. MaxSlots |-> Zero]
      OBVIOUS
    <3>2. cells \in [0 .. MaxSlots -> Value]
      BY <2>1, <2>2, <3>1
    <3>3. PICK b : b = [capacity |-> 0, cells |-> cells]
      OBVIOUS
    <3>4. b \in Block
      BY <3>2, <3>3, Bounds DEF Block
    <3>5. blocks = <<b>>
      BY <3>1, <3>3 DEF Init
    <3>6. <<b>> \in Seq(Block)
      <4> HIDE DEF Block
      <4>. QED
        BY <3>4
    <3>. QED
      BY <3>5, <3>6 DEF Block
  <2>6. DOMAIN heap \subseteq Nat /\ Range(heap) \subseteq Value /\ hea \in Nat
    BY DEF Init, Range
  <2>7. handler \in Provided \cup {NoHandler} /\ handlers \in 0 .. MaxHandlers
    BY Bounds DEF Init
  <2>8. stack \in Seq(Frame) /\ calls \in 0 .. MaxCalls /\ ended \in BOOLEAN
    <3>1. stack \in Seq(Frame)
      <4> HIDE DEF Frame
      <4>. QED
        BY <1>1
    <3>2. calls \in 0 .. MaxCalls
      BY Bounds DEF Init
    <3>3. ended \in BOOLEAN
      BY <1>1
    <3>. QED
      BY <3>1, <3>2, <3>3
  <2>. QED
    BY <2>3, <2>4, <2>5, <2>6, <2>7, <2>8 DEF PawnTypeOK
<1>3. FrameInv
  BY <1>1 DEF Init, FrameInv
<1>4. TopInv
  BY <1>1 DEF TopInv
<1>5. HeapInv
  <2>1. Len(stack) = 0 /\ DOMAIN stack = {}
    BY <1>1
  <2>2. PointsOf(stack) = {1}
    BY <2>1 DEF PointsOf
  <2>3. LevelOf(stack, hea, 1) = 0
    BY <1>1, <2>1 DEF LevelOf
  <2>4. Balanced(stack, hea)
    BY <2>2, <2>3 DEF Balanced
  <2>5. Exact(stack, hea)
    BY <2>1 DEF Exact
  <2>. QED
    BY <2>4, <2>5 DEF HeapInv
<1>6. SeesItsArguments /\ ReturnsItsOwn /\ EndsForItsOwn
  BY <1>1 DEF Nothing, SeesItsArguments, ReturnsItsOwn, EndsForItsOwn
<1>. QED
  BY <1>2, <1>3, <1>4, <1>5, <1>6 DEF CallInv

\* Every step of a script or a call keeps the inductive invariant.
LEMMA Inductive ==
  ASSUME CallInv, [Next]_vars
  PROVE  CallInv'
<1>1. ASSUME NEW name \in {"server", "provided", "unknown"}, NEW s \in Signatures,
             Invoke(name, s)
      PROVE  CallInv'
  BY <1>1, InvokeStep
<1>2. ASSUME NEW name \in {"server", "provided", "unknown"}, InvokeBare(name)
      PROVE  CallInv'
  BY <1>2, InvokeBareStep
<1>3. ASSUME NEW s \in Provided, ProvideNative(s)
      PROVE  CallInv'
  BY <1>3, ProvideNativeStep
<1>4. CASE Convert
  BY <1>4, ConvertStep
<1>5. CASE TextConverted
  BY <1>5, TextConvertedStep
<1>6. CASE ArrayConverted
  BY <1>6, ArrayConvertedStep
<1>7. CASE CallNative
  BY <1>7, CallNativeStep
<1>8. CASE HandlerReturns
  BY <1>8, HandlerReturnsStep
<1>9. CASE ResultRead
  BY <1>9, ResultReadStep
<1>10. CASE UNCHANGED vars
  <2>1. /\ UNCHANGED <<signature, format, number, text, list, blocks, heap, hea>>
        /\ UNCHANGED <<handler, handlers, stack, calls, ended, entered, finished>>
    BY <1>10 DEF vars, bufferVars, amxVars, handlerVars
  <2>2. PawnTypeOK'
    BY <2>1 DEF CallInv, PawnTypeOK
  <2>3. FrameInv' /\ HeapInv'
    BY <2>1 DEF CallInv, FrameInv, Under, HeapInv
  <2>4. TopInv'
    <3> SUFFICES ASSUME ~ended, stack # <<>>, ~Top.disturbed PROVE Own(Top)'
      BY <2>1 DEF TopInv, Top
    <3>1. Own(Top)
      BY DEF CallInv, TopInv
    <3>2. Top' = Top /\ Params' = Params
      BY <2>1 DEF Top, Params
    <3>3. OwnTypes(Top) => OwnTypes(Top)'
      BY <2>1, <3>2 DEF OwnTypes
    <3>4. OwnParameters(Top) => OwnParameters(Top)'
      BY <2>1, <3>2 DEF OwnParameters
    <3>5. OwnValues(Top) => OwnValues(Top)'
      BY <2>1, <3>2 DEF OwnValues, OwnLengths, Holds
    <3>6. OwnResult(Top) => OwnResult(Top)'
      BY <2>1, <3>2 DEF OwnResult
    <3>. QED
      BY <3>1, <3>2, <3>3, <3>4, <3>5, <3>6 DEF Own
  <2>5. SeesItsArguments' /\ ReturnsItsOwn' /\ EndsForItsOwn'
    BY <2>1 DEF CallInv, SeesItsArguments, ReturnsItsOwn, EndsForItsOwn, Top
  <2>. QED
    BY <2>2, <2>3, <2>4, <2>5 DEF CallInv
<1>. QED
  BY <1>1, <1>2, <1>3, <1>4, <1>5, <1>6, <1>7, <1>8, <1>9, <1>10 DEF Next

\* A call that no script has disturbed finds in the shared buffer and in the
\* parameters what it has put there itself, however calls are nested.
THEOREM CallInvariant == Spec => []CallInv
<1>1. Init => CallInv
  BY Initial
<1>2. CallInv /\ [Next]_vars => CallInv'
  BY Inductive
<1>. QED
  BY <1>1, <1>2, PTL DEF Spec

\* The state is well formed, and the heap is given back in the opposite order.
THEOREM PawnInvariant == Spec => []PawnInv
<1>1. CallInv => PawnInv
  <2> SUFFICES ASSUME CallInv PROVE PawnInv
    OBVIOUS
  <2>1. PawnTypeOK /\ Balanced(stack, hea)
    BY DEF CallInv, HeapInv
  <2>2. Points = PointsOf(stack) /\ \A k : Level(k) = LevelOf(stack, hea, k)
    BY DEF Points, PointsOf, Level, LevelOf
  <2>3. HeapBalanced
    BY <2>1, <2>2 DEF Balanced, HeapBalanced
  <2>. QED
    BY <2>1, <2>3 DEF PawnInv
<1>. QED
  BY <1>1, CallInvariant, PTL

\* A native sees the arguments its call passed, unless a script made a call
\* while they were converted.
THEOREM ArgumentsSeen == Spec => []SeesItsArguments
<1>1. CallInv => SeesItsArguments
  BY DEF CallInv
<1>. QED
  BY <1>1, CallInvariant, PTL

\* A call returns as many values as its signature has references, each where
\* it belongs, if no script disturbed it and slots and types agree.
THEOREM OwnReturned == Spec => []ReturnsItsOwn
<1>1. CallInv => ReturnsItsOwn
  BY DEF CallInv
<1>. QED
  BY <1>1, CallInvariant, PTL

\* A call in which no script has made another ends the process only for what
\* it passed or its native did.
THEOREM EndExplained == Spec => []EndsForItsOwn
<1>1. CallInv => EndsForItsOwn
  BY DEF CallInv
<1>. QED
  BY <1>1, CallInvariant, PTL

\* What a call of a provided native holds of the fake heap is what its own
\* arguments need, if no script mixed them.
THEOREM DemandHeld == Spec => []HoldsItsDemand
<1>1. CallInv => HoldsItsDemand
  <2> SUFFICES ASSUME CallInv PROVE HoldsItsDemand
    OBVIOUS
  <2>1. Exact(stack, hea)
    BY DEF CallInv, HeapInv
  <2>2. Points = PointsOf(stack) /\ \A k : Level(k) = LevelOf(stack, hea, k)
    BY DEF Points, PointsOf, Level, LevelOf
  <2>. QED
    BY <2>1, <2>2 DEF Exact, HoldsItsDemand
<1>. QED
  BY <1>1, CallInvariant, PTL
=============================================================================
