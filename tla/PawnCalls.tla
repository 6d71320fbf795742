------------------------------ MODULE PawnCalls ------------------------------
(***************************************************************************)
(* pawnInvoke() and provideNative(): JavaScript calls the natives of the   *)
(* server, some of which JavaScript provides itself (bindings/             *)
(* pawn_invoke.cc and provided_natives.cc, plugin/native_function_manager, *)
(* fake_amx and native_parameters.cc).                                     *)
(*                                                                         *)
(* A call has no memory of its own: types, formats and values are kept in  *)
(* one static buffer, parameters in one vector, references and strings on  *)
(* the heap of one fake AMX.  Scripts run in the middle of a call, in a    *)
(* toString() or a getter of an argument and in the handler of a provided  *)
(* native, and may make calls of their own, which use the same memory.     *)
(*                                                                         *)
(* Slots are counted from 1.  A float is an integer here; a string or an   *)
(* array is one value, which every cell it takes holds.  The natives of    *)
(* the server are external, and call no script.                            *)
(***************************************************************************)
EXTENDS Integers, Sequences, FiniteSets, Functions, SequencesExt

CONSTANTS
  Signatures,     \* signatures scripts use, sequences over Letter
  Provided,       \* signatures of provideNative(), sequences over Letter
  MaxCalls,       \* bound: calls of pawnInvoke()
  MaxHandlers,    \* bound: calls of provideNative()
  MaxSpill,       \* bound: slots behind its own that a too long array reaches
  MaxSlots,       \* kMaxArgumentCount
  HeapCells,      \* kHeapCellSize
  StringCells,    \* kMaxStringLength
  Amount          \* of a value that a call passes, or its native stores, in a
                  \* slot: the number it is, or the cells of the text it is

Letter == {"a", "i", "s", "I", "S"}
Reference == {"I", "S"}

ASSUME PawnAssumption ==
  /\ {MaxCalls, MaxHandlers, MaxSlots, HeapCells, StringCells} \subseteq Nat \ {0}
  /\ MaxSpill \in Nat
  /\ Signatures \subseteq Seq(Letter)
  /\ Provided \subseteq Seq(Letter \ {"a"})     \* no arrays
  /\ \A s \in Signatures \cup Provided : 2 * Len(s) < MaxSlots
  /\ Amount \in [(1 .. MaxCalls) \X (1 .. MaxSlots) -> Int]

VARIABLES
  (* PawnInvoke::StaticBuffer. *)
  signature,      \* the type of each slot
  format,         \* arguments_format, "S" for an 'a' that points to a string
  number, text, list,   \* number_values, string_values, array_values
  (* NativeFunctionManager and its FakeAMX. *)
  blocks,         \* the memory params_ has had: the last is what it has now
  heap,           \* amx_heap_, the cells that have been written
  hea,            \* amx_.hea, in cells
  (* ProvidedNatives. *)
  handler,        \* the signature registered for the provided native
  handlers,       \* calls of provideNative()
  (* The calls in progress, the innermost last. *)
  stack,
  calls,          \* calls of pawnInvoke()
  ended,          \* a CHECK has failed, or freed memory was used
  (* History. *)
  entered,        \* what the last native to be called saw
  finished        \* what the last call to finish returned

bufferVars == <<signature, format, number, text, list>>
amxVars == <<blocks, heap, hea>>
handlerVars == <<handler, handlers>>
vars == <<bufferVars, amxVars, handlerVars, stack, calls, ended, entered, finished>>

(***************************************************************************)
(* Values: what a cell may hold, as far as the properties tell it apart.   *)
(***************************************************************************)
Zero == <<"zero", 0, 0>>
Wild == <<"wild", 0, 0>>                  \* read from an address that is none
Undefined == <<"undefined", 0, 0>>        \* String(undefined)
Length == <<"length", 0, 0>>              \* kMaxStringLength
Bytes(n) == <<"bytes", n, 0>>             \* n * sizeof(cell), params_[0]
Address(a) == <<"address", a, 0>>
Passed(c, k) == <<"passed", c, k>>        \* argument k of call c
Part(c, k) == <<"part", c, k>>            \* some entries of that, or more
Written(c, k) == <<"written", c, k>>      \* what the native of c stores in k

Slot == 1 .. MaxSlots
Format == {"0", "i", "r", "s", "a", "S"}
NoHandler == <<"none">>

Value ==
  {Zero, Wild, Undefined, Length}
    \cup ({"bytes", "address"} \X Nat \X {0})
    \cup ({"passed", "part", "written"} \X (1 .. MaxCalls) \X Slot)

(* The number a value is, and the cells it takes as text: String(undefined)*)
(* has nine characters.                                                    *)
Number(v) ==
  IF v = Length THEN StringCells
  ELSE IF v[1] \in {"passed", "written"} THEN Amount[<<v[2], v[3]>>]
  ELSE 0

TextCells(v) ==
  IF v = Undefined THEN 10 ELSE IF Number(v) \in 1 .. StringCells THEN Number(v) ELSE 1

Size(s, letters) == Cardinality({k \in DOMAIN s : s[k] \in letters})
Arguments(s) == Size(s, Letter \ Reference)     \* argument_count
References(s) == Size(s, Reference)             \* return_count
Asked(s) == {k \in DOMAIN s : s[k] \in Reference}

(* A call in progress.  `at` says what runs: Call itself or, on top of it, *)
(* a script; `threw` whether an exception is pending; `disturbed` whether  *)
(* a script has made a call since this one began, and `mixed` whether one  *)
(* had when the native was called.  From then on `handlers` is the number  *)
(* of handlers there had been, and `place`, `got` and `wrote` say how far  *)
(* the array that the handler returned has been stored.                    *)
Frame ==
  [call : 1 .. MaxCalls, name : {"server", "provided", "unknown"},
   sig : Signatures \cup {<<>>}, index : Nat, offset : Nat,
   at : {"convert", "toString", "getter", "handler", "result"},
   threw : BOOLEAN, disturbed : BOOLEAN, mixed : BOOLEAN,
   count : 0 .. MaxSlots, block : Nat, stored_hea : Nat,
   handlers : 0 .. MaxHandlers, place : 0 .. MaxSlots, got : Nat, wrote : SUBSET Slot]

Top == Last(stack)
Under == Front(stack)
Params == Last(blocks).cells
InHandler(f) == f.at \in {"handler", "result"}

PawnTypeOK ==
  /\ signature \in [Slot -> Letter]
  /\ format \in [Slot -> Format]
  /\ {number, text, list} \subseteq [Slot -> Value]
  /\ blocks \in Seq([capacity : Nat, cells : [0 .. MaxSlots -> Value]])
  /\ DOMAIN heap \subseteq Nat /\ Range(heap) \subseteq Value
  /\ hea \in Nat
  /\ handler \in Provided \cup {NoHandler}
  /\ handlers \in 0 .. MaxHandlers
  /\ stack \in Seq(Frame)
  /\ calls \in 0 .. MaxCalls
  /\ ended \in BOOLEAN

Nothing == [call |-> 0, sig |-> <<>>, seen |-> <<>>, values |-> <<>>, kind |-> "none",
            wrote |-> {}, disturbed |-> FALSE]

Init ==
  /\ signature = [k \in Slot |-> "a"]      \* calloc: SIGNATURE_TYPE_ARRAY is 0
  /\ format = [k \in Slot |-> "0"]
  /\ number = [k \in Slot |-> Zero] /\ text = number /\ list = number
  /\ blocks = <<[capacity |-> 0, cells |-> [i \in 0 .. MaxSlots |-> Zero]]>>
  /\ heap = <<>> /\ hea = 0
  /\ handler = NoHandler /\ handlers = 0
  /\ stack = <<>> /\ calls = 0 /\ ended = FALSE
  /\ entered = Nothing /\ finished = Nothing

-----------------------------------------------------------------------------
(***************************************************************************)
(* The script calls pawnInvoke() or provideNative().                       *)
(***************************************************************************)
ScriptRuns == ~ended /\ (stack # <<>> => Top.at # "convert")

(* How many letters of s ParseSignature accepts: a type that is not a      *)
(* reference may not follow one.                                           *)
Accepted(s) ==
  LET wrong == {k \in DOMAIN s : s[k] \notin Reference /\ \E j \in 1 .. k - 1 : s[j] \in Reference}
  IN  IF wrong = {} THEN Len(s) ELSE (CHOOSE k \in wrong : \A j \in wrong : k <= j) - 1

(* ParseSignature: types are stored as they are read, the others stay.     *)
Parse(s) ==
  signature' = [k \in Slot |-> IF k <= Accepted(s) THEN s[k] ELSE signature[k]]

Disturbed(frames) == [k \in DOMAIN frames |-> [frames[k] EXCEPT !.disturbed = TRUE]]

NewFrame(name, s) ==
  [call |-> calls + 1, name |-> name, sig |-> s, index |-> 0, offset |-> 0,
   at |-> "convert", threw |-> FALSE, disturbed |-> FALSE, mixed |-> FALSE,
   count |-> 0, block |-> 0, stored_hea |-> 0,
   handlers |-> 0, place |-> 0, got |-> 0, wrote |-> {}]

(* The call of frame f ends: with a number or values or, whatever Call     *)
(* returned, with the exception that is pending.                           *)
Finish(f, kind, values, wrote) ==
  finished' = [Nothing EXCEPT !.call = f.call, !.sig = f.sig,
                 !.kind = IF f.threw THEN "exception" ELSE kind,
                 !.values = values, !.wrote = wrote, !.disturbed = f.disturbed]

Forget == entered' = Nothing /\ finished' = Nothing

(* pawnInvoke() with a signature and as many arguments as it asks for;     *)
(* with another number of them, or a signature that is refused, it throws. *)
Invoke(name, s) ==
  /\ ScriptRuns /\ calls < MaxCalls
  /\ calls' = calls + 1
  /\ Parse(s)
  /\ \/ /\ Accepted(s) = Len(s)
        /\ stack' = Append(Disturbed(stack), NewFrame(name, s))
     \/ stack' = Disturbed(stack)
  /\ Forget
  /\ UNCHANGED <<format, number, text, list, amxVars, handlerVars, ended>>

(* provideNative(): the handler replaces the one there is, even when that  *)
(* is running.  One with the same signature is the same here.              *)
ProvideNative(s) ==
  /\ ScriptRuns /\ handlers < MaxHandlers /\ s # handler
  /\ handlers' = handlers + 1
  /\ handler' = s
  /\ UNCHANGED <<bufferVars, amxVars, stack, calls, ended, entered, finished>>

-----------------------------------------------------------------------------
(***************************************************************************)
(* Call: the arguments are converted, one after the other.                 *)
(***************************************************************************)
Converting == ~ended /\ stack # <<>> /\ Top.at = "convert"

(* The slot of the argument Call has come to, with the slots that lengths  *)
(* of strings took counted in.                                             *)
Here(f) == f.index + f.offset + 1

Supplied(f, k) == k <= Arguments(f.sig)
Argument(f, k) == IF Supplied(f, k) THEN Passed(f.call, k) ELSE Undefined

Advance(f, lengths) ==
  stack' = Append(Under, [f EXCEPT !.index = @ + 1, !.offset = @ + lengths, !.at = "convert"])

Throw(f) == stack' = Under /\ Finish([f EXCEPT !.threw = TRUE], "exception", <<>>, {})

(* A number, a reference or a string reference, according to the type that *)
(* the buffer has for the slot at this moment; the argument may be of      *)
(* another type, or there is none.                                         *)
ConvertNumber(f, k) ==
  /\ signature[k] = "i"
  /\ \/ /\ Supplied(f, k)
        /\ number' = [number EXCEPT ![k] = Passed(f.call, k)]
        /\ format' = [format EXCEPT ![k] = "i"]
        /\ Advance(f, 0) /\ UNCHANGED finished
     \/ Throw(f) /\ UNCHANGED <<number, format>>

ConvertReference(f, k) ==
  /\ signature[k] = "I"
  /\ format' = [format EXCEPT ![k] = "r"]
  /\ Advance(f, 0)
  /\ UNCHANGED <<number, finished>>

ConvertStringReference(f, k) ==
  /\ signature[k] = "S"
  /\ format' = [format EXCEPT ![k] = "S", ![k + 1] = "i"]
  /\ number' = [number EXCEPT ![k + 1] = Length]
  /\ Advance(f, 1)
  /\ UNCHANGED finished

(* toString() of a string argument and the getters of an array may be      *)
(* functions of the script.                                                *)
ConvertByScript(f, k) ==
  /\ \/ signature[k] = "s" /\ stack' = Append(Under, [f EXCEPT !.at = "toString"])
        /\ UNCHANGED finished
     \/ /\ signature[k] = "a" /\ Supplied(f, k)
        /\ stack' = Append(Under, [f EXCEPT !.at = "getter"]) /\ UNCHANGED finished
     \/ signature[k] = "a" /\ Throw(f)
  /\ UNCHANGED <<number, format>>

Convert ==
  /\ Converting /\ Top.index < Len(Top.sig)
  /\ LET f == Top
         k == Here(f)
     IN  \/ ConvertNumber(f, k)
         \/ ConvertReference(f, k)
         \/ ConvertStringReference(f, k)
         \/ ConvertByScript(f, k)
  /\ UNCHANGED <<signature, text, list, amxVars, handlerVars, calls, ended, entered>>

(* toString() returns, or throws, or its text is too long.                 *)
TextConverted ==
  /\ ~ended /\ stack # <<>> /\ Top.at = "toString"
  /\ LET f == Top
         k == Here(f)
     IN  \/ /\ text' = [text EXCEPT ![k] = Argument(f, k)]
            /\ format' = [format EXCEPT ![k] = "s"]
            /\ Advance(f, 0) /\ UNCHANGED finished
         \/ Throw(f) /\ UNCHANGED <<text, format>>
  /\ UNCHANGED <<signature, number, list, amxVars, handlerVars, calls, ended, entered>>

(* The entries of an array have been read.  One whose getter throws is     *)
(* left out, one that is no number ends the call.  There may be too many,  *)
(* which throws as well, but the others are stored all the same: where the *)
(* lists of the slots behind this one are, up to `last`, or behind them    *)
(* all.                                                                    *)
ArrayConverted ==
  /\ ~ended /\ stack # <<>> /\ Top.at = "getter"
  /\ LET f == Top
         k == Here(f)
     IN  \/ \E skipped, ends \in BOOLEAN, last \in k .. Min({k + MaxSpill, MaxSlots}) :
              /\ list' = [j \in Slot |->
                            IF j = k /\ ~skipped /\ ~ends THEN Passed(f.call, k)
                            ELSE IF j \in k .. last THEN Part(f.call, k) ELSE list[j]]
              /\ format' = [format EXCEPT ![k] = "a"]
              /\ IF ends
                   THEN Throw(f)
                   ELSE /\ Advance([f EXCEPT !.threw = @ \/ skipped \/ last > k], 0)
                        /\ UNCHANGED finished
              /\ UNCHANGED ended
         \/ /\ ended' = TRUE
            /\ stack' = Append(Under, [f EXCEPT !.threw = TRUE])
            /\ UNCHANGED <<list, format, finished>>
  /\ UNCHANGED <<signature, number, text, amxVars, handlerVars, calls, entered>>

-----------------------------------------------------------------------------
(***************************************************************************)
(* NativeFunctionManager::CallFunction: the first n formats say what to    *)
(* make of the first n slots.                                              *)
(***************************************************************************)
(* Mutant: the heap is not advanced past a string.                         *)
CellsWithoutStrings(i) ==
  CASE format[i] = "r" -> 1
    [] format[i] \in {"a", "S"} -> Number(number[i + 1])
    [] OTHER -> 0

(* The cells slot i takes on the heap, and where they begin: behind those  *)
(* of the slots before it.                                                 *)
Cells(i) ==
  CASE format[i] = "r" -> 1
    [] format[i] = "s" -> TextCells(text[i])
    [] format[i] \in {"a", "S"} -> Number(number[i + 1])
    [] OTHER -> 0

Base(i) == hea + Cardinality(UNION {{j} \X (1 .. Cells(j)) : j \in 1 .. i - 1})

Content(i) ==
  CASE format[i] \in {"i", "r"} -> number[i]
    [] format[i] \in {"s", "S"} -> text[i]
    [] OTHER -> list[i]

(* An array must be followed by its length.                                *)
LacksLength(n) ==
  {i \in 1 .. n : format[i] \in {"a", "S"} /\ (i = n \/ format[i + 1] # "i")}

(* What is done before the call is given up, or all of it.                 *)
Pushed(n) == IF LacksLength(n) = {} THEN 1 .. n ELSE 1 .. Min(LacksLength(n)) - 1

(* params_.resize(n + 1): params_ had one element more than params_[0]     *)
(* says, and new ones are zero.                                            *)
Resized(n) ==
  [i \in 0 .. MaxSlots |-> IF i \in Params[0][2] + 1 .. n THEN Zero ELSE Params[i]]

Filled(n) ==
  [i \in 0 .. MaxSlots |->
     IF i = 0 THEN Bytes(n)
     ELSE IF i \notin Pushed(n) THEN Resized(n)[i]
     ELSE IF format[i] = "i" THEN number[i] ELSE Address(Base(i))]

(* A vector that grows moves to other memory, and leaves what it had; it   *)
(* then has place for twice as many, at least.                             *)
FilledBlocks(n) ==
  LET now == Last(blocks)
      size == IF Params[0] = Zero THEN 0 ELSE Params[0][2] + 1
  IN  IF n + 1 <= now.capacity
        THEN Append(Front(blocks), [now EXCEPT !.cells = Filled(n)])
        ELSE Append(blocks, [capacity |-> Max({n + 1, 2 * size}), cells |-> Filled(n)])

(* The heap h with some cells written.                                     *)
Stored(cells, h) ==
  [a \in DOMAIN cells \cup DOMAIN h |-> IF a \in DOMAIN cells THEN cells[a] ELSE h[a]]

(* The cells of slot i.                                                    *)
Place(i) == Base(i) .. Base(i) + Cells(i) - 1

FilledHeap(n) ==
  Stored([a \in UNION {Place(i) : i \in Pushed(n)} |->
            Content(CHOOSE i \in Pushed(n) : a \in Place(i))], heap)

(* amx_.hea, when those that are pushed are all on the heap.               *)
FilledUpTo(n) == Base(IF LacksLength(n) = {} THEN n + 1 ELSE Min(LacksLength(n)))

(* An array of no length, or less, cannot be pushed.                       *)
Unpushable(n) ==
  {i \in Pushed(n) : format[i] \in {"a", "S"} /\ Number(number[i + 1]) <= 0}

Read(h, cell) ==
  IF cell[1] # "address" THEN Wild
  ELSE IF cell[2] \in DOMAIN h THEN h[cell[2]] ELSE Zero

(***************************************************************************)
(* The native has returned to CallFunction and that to Call: references    *)
(* are read back into the buffer, by the formats and parameters there are  *)
(* now, and those the types of now call references make up the result.     *)
(***************************************************************************)
(* Mutant: the last parameter is left out.                                 *)
ReadBackShort(n, cells, h, letter, values) ==
  [k \in Slot |-> IF k < n /\ format[k] = letter THEN Read(h, cells[k]) ELSE values[k]]

ReadBack(n, cells, h, letter, values) ==
  [k \in Slot |-> IF k <= n /\ format[k] = letter THEN Read(h, cells[k]) ELSE values[k]]

ReturnSlots(n) == {k \in 1 .. n : signature[k] \in Reference}

(* The j-th of a set of slots.                                             *)
Nth(slots, j) == CHOOSE k \in slots : Cardinality({i \in slots : i < k}) = j - 1

Results(f, n, numbers, texts) ==
  LET slots == ReturnSlots(n)
      Result(k) == IF signature[k] = "I" THEN numbers[k] ELSE texts[k]
      values == [j \in 1 .. Cardinality(slots) |-> Result(Nth(slots, j))]
  IN  IF References(f.sig) = 1 /\ values # <<>> THEN <<Head(values)>> ELSE values

(* ~ScopedStackModifier.                                                   *)
RestoreNothing(f) == hea                \* mutant
Restored(f) == f.stored_hea

Return(f, under, n, cells, h, result, wrote) ==
  LET numbers == ReadBack(n, cells, h, "r", number)
      texts == ReadBack(n, cells, h, "S", text)
  IN  /\ stack' = under
      /\ number' = numbers /\ text' = texts
      /\ list' = ReadBack(n, cells, h, "a", list)
      /\ heap' = h
      /\ hea' = Restored(f)
      /\ IF result = "-1" \/ References(f.sig) = 0
           THEN Finish(f, "number", <<>>, wrote)
           ELSE Finish(f, "values", Results(f, n, numbers, texts), wrote)

(* What the native finds where f passed arguments.                         *)
Enter(f, cells, h) ==
  entered' = [Nothing EXCEPT !.call = f.call, !.sig = f.sig, !.disturbed = f.disturbed,
              !.kind = IF f.threw THEN "exception" ELSE "none",
              !.seen = [k \in 1 .. Arguments(f.sig) |->
                          IF f.sig[k] = "i" THEN cells[k] ELSE Read(h, cells[k])]]

-----------------------------------------------------------------------------
(***************************************************************************)
(* The three kinds of natives.                                             *)
(***************************************************************************)
(* Mutant: what was pushed stays on the heap.                              *)
GiveUpKeepsHeap(f, under, n) ==
  /\ f.name = "unknown" \/ LacksLength(n) # {}
  /\ stack' = under
  /\ IF f.name = "unknown"
       THEN UNCHANGED amxVars
       ELSE blocks' = FilledBlocks(n) /\ heap' = FilledHeap(n) /\ hea' = FilledUpTo(n)
  /\ Finish(f, "number", <<>>, {})
  /\ UNCHANGED <<number, text, list, ended, entered>>

(* The native is not known, or a length is missing: -1, with whatever has  *)
(* been stored by then.                                                    *)
GiveUp(f, under, n) ==
  /\ f.name = "unknown" \/ LacksLength(n) # {}
  /\ stack' = under
  /\ IF f.name = "unknown"
       THEN UNCHANGED <<blocks, heap>>
       ELSE blocks' = FilledBlocks(n) /\ heap' = FilledHeap(n)
  /\ Finish(f, "number", <<>>, {})
  /\ UNCHANGED <<number, text, list, hea, ended, entered>>

(* A native of the server stores some of its references, or returns -1.    *)
CallServer(f, under, n) ==
  /\ f.name = "server" /\ LacksLength(n) = {}
  /\ blocks' = FilledBlocks(n)
  /\ Enter(f, Filled(n), FilledHeap(n))
  /\ \E wrote \in SUBSET {k \in 1 .. n : format[k] \in {"r", "S"}}, result \in {"-1", "other"} :
       /\ result = "-1" => wrote = {}
       /\ Return([f EXCEPT !.stored_hea = hea], under, n, Filled(n),
                 Stored([a \in {Base(k) : k \in wrote} |->
                           Written(f.call, CHOOSE k \in wrote : Base(k) = a)], FilledHeap(n)),
                 result, wrote)
  /\ UNCHANGED ended

NeverTooFew(n) == FALSE                 \* mutant
TooFew(n) == n < Arguments(handler)

(* ProvidedNatives::Call: arguments are read and the handler is called,    *)
(* unless there is none or it takes more of them.  Reading a parameter     *)
(* that was not passed ends the process.                                   *)
CallProvided(f, under, n) ==
  LET refused == handler = NoHandler \/ TooFew(n)
      missing == \E k \in DOMAIN handler : handler[k] \notin Reference /\ k > n
      g == [f EXCEPT !.count = n, !.stored_hea = hea, !.block = Len(FilledBlocks(n)),
                     !.mixed = f.disturbed, !.handlers = handlers]
  IN  /\ f.name = "provided" /\ LacksLength(n) = {}
      /\ blocks' = FilledBlocks(n)
      /\ \/ /\ refused
            /\ Return(g, under, n, Filled(n), FilledHeap(n), "0", {})
            /\ UNCHANGED <<ended, entered>>
         \/ /\ ~refused
            /\ ended' = missing
            /\ stack' = Append(under, [g EXCEPT !.at = "handler"])
            /\ heap' = FilledHeap(n) /\ hea' = FilledUpTo(n)
            /\ Enter(f, Filled(n), FilledHeap(n))
            /\ UNCHANGED <<number, text, list, finished>>

CallFunction(f, under, n) ==
  \/ GiveUp(f, under, n)
  \/ CallServer(f, under, n)
  \/ CallProvided(f, under, n)

(* All arguments are converted: the format is terminated, and checked to   *)
(* be as long as it should be.  What is pushed behind the end of the heap  *)
(* may end the process.                                                    *)
CallNative ==
  /\ Converting /\ Top.index = Len(Top.sig)
  /\ LET f == Top
         n == Len(f.sig) + f.offset
         whole == \A k \in 1 .. n : format[k] # "0"
         pushes == f.name # "unknown"
     IN  /\ format' = [format EXCEPT ![n + 1] = "0"]
         /\ \/ /\ whole /\ (pushes => Unpushable(n) = {})
               /\ CallFunction(f, Under, n)
            \/ /\ ~whole \/ (pushes /\ (Unpushable(n) # {} \/ FilledUpTo(n) > HeapCells))
               /\ ended' = TRUE
               /\ UNCHANGED <<number, text, list, amxVars, stack, entered, finished>>
  /\ UNCHANGED <<signature, handlerVars, calls>>

(* pawnInvoke() without a signature calls the native at once.              *)
InvokeBare(name) ==
  /\ ScriptRuns /\ calls < MaxCalls
  /\ calls' = calls + 1
  /\ CallFunction(NewFrame(name, <<>>), Disturbed(stack), 0)
  /\ UNCHANGED <<signature, format, handlerVars>>

-----------------------------------------------------------------------------
(***************************************************************************)
(* The handler of a provided native returns.  The native's parameters are  *)
(* where params_ was when it was called, and its signature is that of the  *)
(* handler there is now.                                                   *)
(***************************************************************************)
(* The handler has no references to return, or returns none: 0, 1 or a     *)
(* number of its own, and -1.  Or it returns an array with as many entries *)
(* as its signature has references: the first of them is asked for.        *)
HandlerReturns ==
  /\ ~ended /\ stack # <<>> /\ Top.at = "handler"
  /\ \/ /\ Return(Top, Under, Top.count, Params, heap,
                   IF References(handler) > 0 THEN "-1" ELSE "other", {})
        /\ UNCHANGED ended
     \/ /\ References(handler) > 0
        /\ stack' = Append(Under, [Top EXCEPT !.at = "result", !.place = Min(Asked(handler))])
        /\ UNCHANGED <<number, text, list, heap, hea, ended, finished>>
  /\ UNCHANGED <<signature, format, blocks, handlerVars, calls, entered>>

(* Where SetInteger and SetString may store for a parameter: amx_GetAddr   *)
(* refuses what is not below hea; any number may be an address.            *)
Targets(cell) ==
  IF cell[1] = "address"
    THEN {IF cell[2] < hea THEN cell[2] ELSE -1}
    ELSE {-1} \cup {a \in DOMAIN heap : a < hea}

(* The letters the signature may show at a place: behind its end are a     *)
(* zero and, if it has been replaced by a shorter one, what was there.     *)
LettersAt(k) ==
  IF k \in DOMAIN handler THEN {handler[k]}
  ELSE IF k = Len(handler) + 1 THEN {"0"} ELSE Letter \cup {"0"}

(* The next entry is asked for, or it is checked that all have been read.  *)
ReadOn(f, h, wrote) ==
  LET next == {k \in Asked(handler) : k > f.place}
      g == [f EXCEPT !.got = @ + 1, !.wrote = wrote]
  IN  \/ /\ next # {}
         /\ stack' = Append(Under, [g EXCEPT !.place = Min(next)])
         /\ heap' = h
         /\ UNCHANGED <<number, text, list, hea, finished>>
      \/ /\ next = {} /\ g.got = References(handler)
         /\ Return(g, Under, g.count, Params, h, "1", wrote)

(* An entry of the array that the handler returned has been read, by its   *)
(* getter if it has one, and is stored if the signature has a reference in *)
(* its place now; the place is checked against the number of parameters.   *)
(* Memory that params_ has left holds what it held, or ends the process;   *)
(* a getter that throws does.                                              *)
ResultRead ==
  /\ ~ended /\ stack # <<>> /\ Top.at = "result"
  /\ LET f == Top
         cells == blocks[f.block].cells
         fits == f.place <= cells[0][2]
     IN  \/ /\ ended' = FALSE
            /\ \E letter \in LettersAt(f.place) :
                 \/ letter \notin Reference /\ ReadOn(f, heap, f.wrote)
                 \/ /\ letter \in Reference /\ fits
                    /\ \E to \in Targets(cells[f.place]) :
                         IF to = -1
                           THEN ReadOn(f, heap, f.wrote)
                           ELSE ReadOn(f, Stored([a \in {to} |-> Written(f.call, f.place)], heap),
                                       f.wrote \cup {f.place})
         \/ /\ ended' = TRUE
            /\ \/ stack' = Append(Under, [f EXCEPT !.threw = TRUE])
               \/ /\ stack' = stack
                  /\ \/ LettersAt(f.place) \cap Reference # {} /\ ~fits
                     \/ f.block # Len(blocks)
                     \/ /\ \A k \in Asked(handler) : k <= f.place
                        /\ f.got + 1 # References(handler)
            /\ UNCHANGED <<number, text, list, heap, hea, finished>>
  /\ UNCHANGED <<signature, format, blocks, handlerVars, calls, entered>>

Next ==
  \/ \E name \in {"server", "provided", "unknown"}, s \in Signatures :
       Invoke(name, s)
  \/ \E name \in {"server", "provided", "unknown"} : InvokeBare(name)
  \/ \E s \in Provided : ProvideNative(s)
  \/ Convert \/ TextConverted \/ ArrayConverted
  \/ CallNative \/ HandlerReturns \/ ResultRead

Spec == Init /\ [][Next]_vars

-----------------------------------------------------------------------------
(***************************************************************************)
(* Properties.                                                             *)
(***************************************************************************)
(* Calls give the fake heap back in the opposite order in which they took  *)
(* of it, however they end: what is taken is what handlers that are        *)
(* running hold (fake_amx.cc:46-52).  Points are where one begins to, and  *)
(* the end of the stack.                                                   *)
Points == {k \in DOMAIN stack : InHandler(stack[k])} \cup {Len(stack) + 1}
Level(k) == IF k \in DOMAIN stack THEN stack[k].stored_hea ELSE hea

HeapBalanced ==
  \A k \in Points :
    /\ (\A j \in Points : k <= j) => Level(k) = 0
    /\ \A j \in Points : j <= k => Level(j) <= Level(k)

(* The state is well formed, and so is the use of the heap.                *)
PawnInv == PawnTypeOK /\ HeapBalanced

(* A native sees the arguments its call passed, whatever other calls,      *)
(* finished, failed or refused, have left in the buffer: unless a script   *)
(* made a call while they were converted (pawn_invoke.cc:122).  Of an      *)
(* array it may see a part, if an exception is pending.                    *)
SeesItsArguments ==
  ~entered.disturbed =>
    \A k \in DOMAIN entered.seen :
      \/ entered.seen[k] = Passed(entered.call, k)
      \/ /\ entered.kind = "exception" /\ entered.sig[k] = "a"
         /\ entered.seen[k] = Part(entered.call, k)

(* Signatures for which slots and types of the references agree: a length  *)
(* takes a slot only behind the one result.                                *)
Regular(s) == References(s) <= 1 \/ Size(s, {"S"}) = 0

(* A call during which no script made another returns as many values as    *)
(* its signature has references, and each that its native has stored is    *)
(* where it belongs, unless the native stored through what was no          *)
(* reference; it does not fail for what other calls left                   *)
(* (pawn_invoke.cc:275).                                                   *)
ReturnsItsOwn ==
  Regular(finished.sig) /\ ~finished.disturbed /\ finished.kind = "values" =>
    /\ Len(finished.values) = References(finished.sig)
    /\ finished.wrote \subseteq Asked(finished.sig) =>
         \A k \in finished.wrote :
           finished.values[k - Arguments(finished.sig)] = Written(finished.call, k)

(* The cells that a call's own arguments need.                             *)
Need(c, s, k) ==
  CASE s[k] = "I" -> 1
    [] s[k] = "s" -> TextCells(Passed(c, k))
    [] s[k] = "a" -> Number(Passed(c, k + 1))
    [] s[k] = "S" -> StringCells
    [] OTHER -> 0

Demand(c, s) == Cardinality(UNION {{k} \X (1 .. Need(c, s, k)) : k \in DOMAIN s})

(* A call of a provided native that no script interrupted before it was    *)
(* made holds what its own arguments need of the fake heap, to the cell,   *)
(* however its handler's calls and theirs have ended: so what is in use of *)
(* the heap, which nothing tests for its size, is what the calls in        *)
(* progress ask for (fake_amx.cc:93-100).                                  *)
HoldsItsDemand ==
  \A k \in DOMAIN stack : InHandler(stack[k]) /\ ~stack[k].mixed /\ Regular(stack[k].sig) =>
    \A j \in Points : k < j /\ (\A i \in Points : k < i => j <= i) =>
      Level(j) = stack[k].stored_hea + Demand(stack[k].call, stack[k].sig)

(* A call in which no script has made another ends the process only for    *)
(* what it passed or its native did: a getter of its own threw, or an      *)
(* array was too long; its arguments need more than the heap has left, or  *)
(* the number behind an array is not positive; the handler takes an        *)
(* argument behind its references, which are not counted; it returns more  *)
(* than was passed, or was replaced while its result was read              *)
(* (pawn_invoke.cc:139-153, 251, fake_amx.cc:94, provided_natives.cc:81,   *)
(* 137, 173, native_parameters.cc:27-60).                                  *)
EndsForItsOwn ==
  ended /\ ~Top.disturbed =>
    \/ Top.threw
    \/ /\ Top.at = "convert"
       /\ \/ Regular(Top.sig) => hea + Demand(Top.call, Top.sig) > HeapCells
          \/ \E k \in DOMAIN Top.sig : Top.sig[k] = "a" /\ Need(Top.call, Top.sig, k) <= 0
    \/ /\ Top.at = "handler" /\ Top.count >= Arguments(handler)
       /\ \E k \in DOMAIN handler \ Asked(handler) : k > Top.count
    \/ /\ Top.at = "result"
       /\ Top.handlers # handlers \/ \E k \in Asked(handler) : k > Top.count

(* pawn_invoke.h:39-45: types I and S "will be returned".  It is not so: a *)
(* length takes a slot for which the type of an earlier call is used.      *)
ReturnsDeclared ==
  finished.kind = "values" /\ ~finished.disturbed =>
    Len(finished.values) = References(finished.sig)

=============================================================================
