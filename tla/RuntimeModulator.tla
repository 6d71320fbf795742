--------------------------- MODULE RuntimeModulator ---------------------------
(***************************************************************************)
(* Loading of JavaScript modules (bindings/runtime_modulator.cc): main.js  *)
(* at the start of the runtime, then every import() of a script, and       *)
(* clearModuleCache().                                                     *)
(*                                                                         *)
(* All of it runs on the main thread, where V8 calls ImportModule-         *)
(* Dynamically in the middle of an import(): loads nest in the evaluation  *)
(* of modules.  Files change under the runtime's feet, which is what the   *)
(* cache can be cleared for.  The steps of creating, linking and           *)
(* evaluating are kept on one stack.                                       *)
(*                                                                         *)
(* A path stands for a specifier too: one is looked for below its referrer *)
(* first, but a file has nothing below it, and then in the root directory. *)
(* Links and statuses of modules are those of V8, which is external; of a  *)
(* cycle, the module that throws is the only one that fails in it.         *)
(***************************************************************************)
EXTENDS Integers, Sequences, FiniteSets, Functions, SequencesExt

CONSTANTS
  Paths,          \* files there may be
  Contents,       \* what may be in each file: sequences of requests, or Bad
  Clearable,      \* sets of paths clearModuleCache() may be asked for
  Missing,        \* ... or Missing: no file
  Bad,            \* a file with a syntax error
  Http,           \* a request for a file on a web server
  MaxLoads,       \* bound: calls of LoadModule
  MaxEdits,       \* bound: changes of a file
  MaxClears,      \* bound: calls of clearModuleCache()
  MaxModules      \* bound: modules that are compiled

ASSUME ModulatorAssumption ==
  /\ Http \notin Paths /\ IsFiniteSet(Paths) /\ DOMAIN Contents = Paths
  /\ \A p \in Paths : Contents[p] \subseteq Seq(Paths \cup {Http}) \cup {Bad, Missing}
  /\ Clearable \subseteq SUBSET Paths /\ Paths \in Clearable
  /\ {MaxLoads, MaxEdits, MaxClears, MaxModules} \subseteq Nat

VARIABLES
  files,          \* the files on disk
  cache,          \* modules_, from a path to the number of a module
  modules,        \* V8's modules: path, requests, links and status
  stack,          \* what is in progress, the innermost last
  returned,       \* what CreateModule has returned, or "none"
  ended,          \* a DCHECK has failed
  loads, edits, clears,
  (* History. *)
  tainted,        \* a load or a script has failed since the cache was empty
  unresolved,     \* ResolveModuleCallback has failed
  outcome         \* of the last load to end

vars == <<files, cache, modules, stack, returned, ended, loads, edits, clears,
          tainted, unresolved, outcome>>
bounds == <<loads, edits, clears>>
history == <<tainted, unresolved, outcome>>

Module ==
  [path : Paths, requests : (UNION Range(Contents)) \ {Bad}, links : Seq(1 .. MaxModules),
   status : {"created", "linking", "linked", "evaluating", "evaluated", "errored"}]

(* `sound` is TRUE of a load for as long as nothing has happened that may  *)
(* make it fail.                                                           *)
Frame ==
  [op : {"load"}, step : {"find", "create", "link", "evaluate"}, path : Paths,
   at : 0 .. MaxModules, sound : BOOLEAN]
    \cup [op : {"create", "link", "evaluate"}, at : 1 .. MaxModules, next : Nat \ {0}]

Top == Last(stack)
Under == Front(stack)
TopIs(op) == ~ended /\ stack # <<>> /\ Top.op = op

ModulatorTypeOK ==
  /\ \A p \in Paths : files[p] \in Contents[p]
  /\ DOMAIN cache \subseteq Paths
  /\ modules \in Seq(Module)
  /\ stack \in Seq(Frame)
  /\ returned \in {"none", "ok", "failed"}
  /\ {ended, tainted, unresolved} \subseteq BOOLEAN
  /\ outcome \in [settled : {"none", "resolved", "rejected"}, sound : BOOLEAN]

Init ==
  /\ files \in [Paths -> UNION Range(Contents)]
  /\ \A p \in Paths : files[p] \in Contents[p]
  /\ cache = <<>> /\ modules = <<>> /\ stack = <<>> /\ returned = "none"
  /\ ended = FALSE /\ loads = 0 /\ edits = 0 /\ clears = 0
  /\ tainted = FALSE /\ unresolved = FALSE
  /\ outcome = [settled |-> "none", sound |-> TRUE]

-----------------------------------------------------------------------------
(***************************************************************************)
(* What scripts and the outside world do.                                  *)
(***************************************************************************)
(* Every file that loading p would read is there and can be compiled.      *)
Reads(p) ==
  LET requests(q) == IF q \in DOMAIN cache \/ q = Http \/ files[q] \in {Missing, Bad}
                       THEN {} ELSE Range(files[q])
      within[n \in 0 .. Cardinality(Paths)] ==
        IF n = 0 THEN {p} ELSE within[n - 1] \cup UNION {requests(q) : q \in within[n - 1]}
  IN  within[Cardinality(Paths)]

Sound(p) ==
  \A q \in Reads(p) : q # Http /\ files[q] # Missing /\ (q \notin DOMAIN cache => files[q] # Bad)

Unsound(frames) ==
  [k \in DOMAIN frames |->
     IF frames[k].op = "load" THEN [frames[k] EXCEPT !.sound = FALSE] ELSE frames[k]]

(* The script of the module on top of the stack runs once all modules it   *)
(* links to have been evaluated; the runtime's own scripts at any time.    *)
ScriptRuns ==
  /\ ~ended /\ returned = "none"
  /\ stack # <<>> => Top.op = "evaluate" /\ Top.next > Len(modules[Top.at].links)

LoadModule(p) ==
  /\ ScriptRuns /\ loads < MaxLoads
  /\ loads' = loads + 1
  /\ stack' = Append(stack, [op |-> "load", step |-> "find", path |-> p, at |-> 0,
                             sound |-> Sound(p) /\ ~tainted])
  /\ UNCHANGED <<files, cache, modules, returned, ended, edits, clears, history>>

(* clearModuleCache().                                                     *)
ClearCache(prefix) ==
  /\ ScriptRuns /\ clears < MaxClears
  /\ clears' = clears + 1
  /\ cache' = [p \in DOMAIN cache \ prefix |-> cache[p]]
  /\ tainted' = (tainted /\ (prefix # Paths \/ stack # <<>>))
  /\ stack' = Unsound(stack)
  /\ UNCHANGED <<files, modules, returned, ended, loads, edits, unresolved, outcome>>

Edit(p, content) ==
  /\ ~ended /\ edits < MaxEdits
  /\ edits' = edits + 1
  /\ files[p] # content
  /\ files' = [files EXCEPT ![p] = content]
  /\ stack' = Unsound(stack)
  /\ UNCHANGED <<cache, modules, returned, ended, loads, clears, history>>

-----------------------------------------------------------------------------
(***************************************************************************)
(* ResolveOrCreateModule.                                                  *)
(***************************************************************************)
Settle(how) ==
  /\ stack' = Under
  /\ outcome' = [settled |-> how, sound |-> Top.sound]
  /\ tainted' = (tainted \/ how = "rejected")
  /\ UNCHANGED unresolved

AtStep(step) == TopIs("load") /\ Top.step = step
GoTo(step, m) == [Top EXCEPT !.step = step, !.at = m]

(* The beginning of CreateModule: a module is in the cache before those it *)
(* requests are created.                                                   *)
Compile(p, frames) ==
  IF files[p] = Bad
    THEN /\ returned' = "failed" /\ stack' = frames
         /\ UNCHANGED <<cache, modules, ended>>
    ELSE /\ Len(modules) < MaxModules
         /\ ended' = (p \in DOMAIN cache)
         /\ modules' = Append(modules, [path |-> p, requests |-> files[p], links |-> <<>>,
                                        status |-> "created"])
         /\ cache' = [q \in DOMAIN cache \cup {p} |-> IF q = p THEN Len(modules') ELSE cache[q]]
         /\ stack' = Append(frames, [op |-> "create", at |-> Len(modules'), next |-> 1])
         /\ UNCHANGED returned

Find ==
  /\ AtStep("find")
  /\ \/ /\ files[Top.path] = Missing
        /\ Settle("rejected")
        /\ UNCHANGED <<cache, modules, returned, ended>>
     \/ /\ files[Top.path] # Missing /\ Top.path \in DOMAIN cache
        /\ stack' = Append(Under, GoTo("link", cache[Top.path]))
        /\ UNCHANGED <<cache, modules, returned, ended, history>>
     \/ /\ files[Top.path] # Missing /\ Top.path \notin DOMAIN cache
        /\ Compile(Top.path, Append(Under, GoTo("create", 0)))
        /\ UNCHANGED history
  /\ UNCHANGED <<files, bounds>>

Created ==
  /\ AtStep("create") /\ returned # "none"
  /\ returned' = "none"
  /\ \/ /\ returned = "ok"
        /\ stack' = Append(Under, GoTo("link", cache[Top.path]))
        /\ UNCHANGED history
     \/ returned = "failed" /\ Settle("rejected")
  /\ UNCHANGED <<files, cache, modules, ended, bounds>>

NeverCached(p) == FALSE             \* mutant
Cached(p) == p \in DOMAIN cache

(* The rest of CreateModule: the requests of the module on top, one after  *)
(* the other.  The first that fails fails the module.                      *)
CreateRequest ==
  /\ TopIs("create") /\ returned = "none" /\ Top.next <= Len(modules[Top.at].requests)
  /\ LET request == modules[Top.at].requests[Top.next]
         found == request # Http /\ files[request] # Missing
     IN  \/ /\ ~found
            /\ returned' = "failed" /\ stack' = Under
            /\ UNCHANGED <<cache, modules, ended>>
         \/ /\ found /\ Cached(request)
            /\ stack' = Append(Under, [Top EXCEPT !.next = @ + 1])
            /\ UNCHANGED <<cache, modules, returned, ended>>
         \/ /\ found /\ ~Cached(request)
            /\ Compile(request, stack)
  /\ UNCHANGED <<files, bounds, history>>

(* Mutant: a module whose request fails leaves the cache.                  *)
RequestCreatedErases ==
  /\ TopIs("create")
  /\ \/ /\ returned = "ok"
        /\ returned' = "none" /\ stack' = Append(Under, [Top EXCEPT !.next = @ + 1])
        /\ UNCHANGED cache
     \/ /\ returned = "failed"
        /\ stack' = Under /\ UNCHANGED returned
        /\ cache' = [p \in DOMAIN cache \ {modules[Top.at].path} |-> cache[p]]
     \/ /\ returned = "none" /\ Top.next > Len(modules[Top.at].requests)
        /\ returned' = "ok" /\ stack' = Under /\ UNCHANGED cache
  /\ UNCHANGED <<files, modules, ended, bounds, history>>

RequestCreated ==
  /\ TopIs("create")
  /\ \/ /\ returned = "ok"
        /\ returned' = "none" /\ stack' = Append(Under, [Top EXCEPT !.next = @ + 1])
     \/ /\ returned = "failed"
        /\ stack' = Under /\ UNCHANGED returned
     \/ /\ returned = "none" /\ Top.next > Len(modules[Top.at].requests)
        /\ returned' = "ok" /\ stack' = Under
  /\ UNCHANGED <<files, cache, modules, ended, bounds, history>>

-----------------------------------------------------------------------------
(***************************************************************************)
(* V8 instantiates the module, and asks ResolveModuleCallback for every    *)
(* request of every module that has not been linked yet.                   *)
(***************************************************************************)
SetStatus(these, status) ==
  [m \in DOMAIN modules |-> IF m \in these THEN [modules[m] EXCEPT !.status = status] ELSE modules[m]]

Linking == {m \in DOMAIN modules : modules[m].status = "linking"}

BeginLink ==
  /\ AtStep("link")
  /\ LET m == Top.at
         frames == Append(Under, GoTo("evaluate", m))
     IN  \/ /\ modules[m].status = "created"
            /\ modules' = SetStatus({m}, "linking")
            /\ stack' = Append(frames, [op |-> "link", at |-> m, next |-> 1])
         \/ /\ modules[m].status # "created"
            /\ stack' = frames /\ UNCHANGED modules
  /\ UNCHANGED <<files, cache, returned, ended, bounds, history>>

(* GetModule finds the referrer in the cache, the file on disk and the     *)
(* module in the cache.                                                    *)
Resolved(request) == request # Http /\ files[request] # Missing /\ request \in DOMAIN cache

(* The frame of the load that modules are being linked for.                *)
Loading == Max({k \in DOMAIN stack : stack[k].op = "load"})

Link ==
  /\ TopIs("link")
  /\ LET m == Top.at
         done == Top.next > Len(modules[m].requests)
         request == modules[m].requests[Top.next]
         child == cache[request]
         linked == [modules EXCEPT ![m].links = Append(@, child)]
         advanced == Append(Under, [Top EXCEPT !.next = @ + 1])
     IN  \/ /\ ~done /\ m \in Range(cache) /\ Resolved(request)
            /\ \/ /\ modules[child].status = "created"
                  /\ modules' = [linked EXCEPT ![child].status = "linking"]
                  /\ stack' = Append(advanced, [op |-> "link", at |-> child, next |-> 1])
               \/ /\ modules[child].status # "created"
                  /\ modules' = linked /\ stack' = advanced
            /\ UNCHANGED <<ended, history>>
         \/ /\ ~done /\ m \notin Range(cache)
            /\ ended' = TRUE
            /\ UNCHANGED <<modules, stack, history>>
         \/ /\ ~done /\ m \in Range(cache) /\ ~Resolved(request)
            /\ unresolved' = TRUE
            /\ modules' = [k \in DOMAIN modules |->
                             IF k \in Linking
                               THEN [modules[k] EXCEPT !.status = "created", !.links = <<>>]
                               ELSE modules[k]]
            /\ stack' = SubSeq(stack, 1, Loading - 1)
            /\ outcome' = [settled |-> "rejected", sound |-> stack[Loading].sound]
            /\ tainted' = TRUE
            /\ UNCHANGED ended
         \/ /\ done
            /\ stack' = Under
            /\ modules' = IF Last(Under).op = "load" THEN SetStatus(Linking, "linked") ELSE modules
            /\ UNCHANGED <<ended, history>>
  /\ UNCHANGED <<files, cache, returned, bounds>>

-----------------------------------------------------------------------------
(***************************************************************************)
(* V8 evaluates the module, after those it links to that have not been.    *)
(***************************************************************************)
BeginEvaluation(m, frames) ==
  /\ modules' = SetStatus({m}, "evaluating")
  /\ stack' = Append(frames, [op |-> "evaluate", at |-> m, next |-> 1])

(* Mutant: a module that is being evaluated is no result yet.              *)
VerdictWhenFinished(status) == IF status = "evaluated" THEN "resolved" ELSE "rejected"
Verdict(status) == IF status = "errored" THEN "rejected" ELSE "resolved"

(* The promise of the load is resolved unless the module has thrown, now   *)
(* or at an earlier time.                                                  *)
LoadEvaluates ==
  /\ AtStep("evaluate")
  /\ \/ /\ modules[Top.at].status = "linked"
        /\ BeginEvaluation(Top.at, stack)
        /\ UNCHANGED history
     \/ /\ modules[Top.at].status # "linked"
        /\ Settle(Verdict(modules[Top.at].status))
        /\ UNCHANGED modules
  /\ UNCHANGED <<files, cache, returned, ended, bounds>>

EvaluateLinks ==
  /\ TopIs("evaluate") /\ Top.next <= Len(modules[Top.at].links)
  /\ LET child == modules[Top.at].links[Top.next]
     IN  \/ /\ modules[child].status = "linked"
            /\ BeginEvaluation(child, stack)
         \/ /\ modules[child].status = "errored"
            /\ modules' = SetStatus({Top.at}, "errored")
            /\ stack' = Under
         \/ /\ modules[child].status \notin {"linked", "errored"}
            /\ stack' = Append(Under, [Top EXCEPT !.next = @ + 1])
            /\ UNCHANGED modules
  /\ UNCHANGED <<files, cache, returned, ended, bounds, history>>

(* The script of the module ends, or throws.                               *)
ScriptEnds ==
  /\ ScriptRuns /\ stack # <<>>
  /\ \/ /\ modules' = SetStatus({Top.at}, "evaluated")
        /\ stack' = Under /\ UNCHANGED tainted
     \/ /\ modules' = SetStatus({Top.at}, "errored")
        /\ stack' = Unsound(Under) /\ tainted' = TRUE
  /\ UNCHANGED <<files, cache, returned, ended, bounds, unresolved, outcome>>

Step ==
  Find \/ Created \/ CreateRequest \/ RequestCreated \/ BeginLink \/ Link \/ LoadEvaluates \/ EvaluateLinks \/ ScriptEnds

Next ==
  \/ Step
  \/ \E p \in Paths : LoadModule(p)
  \/ \E prefix \in Clearable : ClearCache(prefix)
  \/ \E p \in Paths : \E content \in Contents[p] : Edit(p, content)

(* The thread goes on with what it has begun, and scripts come to an end.  *)
Spec == Init /\ [][Next]_vars /\ WF_vars(Step)

-----------------------------------------------------------------------------
(***************************************************************************)
(* Properties.                                                             *)
(***************************************************************************)
(* The cache has a module of the path it is kept for, no module is put in  *)
(* it over another, and a module that is being linked is found in it       *)
(* (runtime_modulator.cc:203 and :105).                                    *)
ModulatorInv ==
  /\ ModulatorTypeOK
  /\ ~ended
  /\ \A p \in DOMAIN cache : modules[cache[p]].path = p

(* A file is compiled, and its script run, once, however many modules      *)
(* request it, in a circle or while it is being evaluated, and once more   *)
(* at most each time the cache is cleared (runtime_modulator.cc:143, 225). *)
CompiledOnce ==
  \A p \in Paths : Cardinality({m \in DOMAIN modules : modules[m].path = p}) <= 1 + clears

(* A load is refused only for a file that is missing or that cannot be     *)
(* compiled, a script that throws, or a module that an earlier failure has *)
(* left in the cache: not for what other loads, begun before it or in the  *)
(* middle of it, have put there (runtime_modulator.cc:125-166).            *)
SoundLoadsResolve == outcome.settled = "rejected" => ~outcome.sound

(* A load comes to an end, circles of requests and modules that import     *)
(* each other while they are evaluated included                            *)
(* (runtime_modulator.cc:204).                                             *)
LoadsEnd == stack # <<>> ~> stack = <<>>

(* runtime_modulator.cc:37-39: resolving a module "is not expected to fail, *)
(* as all dependent modules should've been loaded".                        *)
ResolveNeverFails == ~unresolved

=============================================================================
