------------------------ MODULE RuntimeModulator_proofs ------------------------
(***************************************************************************)
(* Proofs about RuntimeModulator, for any files and any number of loads,   *)
(* edits, clearings and modules.                                           *)
(***************************************************************************)
EXTENDS RuntimeModulator, QueueLemmas

(***************************************************************************)
(* The inductive invariant.                                                *)
(***************************************************************************)
Request == Paths \cup {Http}
Status == {"created", "linking", "linked", "evaluating", "evaluated", "errored"}
Numbers == 1 .. Len(modules)
Steps == {"find", "create", "link", "evaluate"}

LoadFrame ==
  [op : {"load"}, step : Steps, path : Paths, at : 0 .. MaxModules, sound : BOOLEAN]
PlainFrame == [op : {"create", "link", "evaluate"}, at : 1 .. MaxModules, next : Nat \ {0}]

\* What may be on top of what.
Below(f, g) ==
  \/ g.op = "load" /\ f.op = "evaluate"
  \/ g.op = "create" /\ (f.op = "create" \/ (f.op = "load" /\ f.step = "create"))
  \/ g.op = "link" /\ (f.op = "link" \/ (f.op = "load" /\ f.step = "evaluate"))
  \/ g.op = "evaluate" /\ (f.op = "evaluate" \/ (f.op = "load" /\ f.step = "evaluate"))

Shape(frames) ==
  /\ frames # <<>> => frames[1].op = "load"
  /\ \A k \in 1 .. Len(frames) - 1 : Below(frames[k], frames[k + 1])

\* The cache, and the modules.
CacheInv ==
  /\ DOMAIN cache \subseteq Paths
  /\ \A p \in DOMAIN cache : cache[p] \in Numbers /\ modules[cache[p]].path = p

ModulesInv ==
  /\ modules \in Seq(Module) /\ Len(modules) <= MaxModules
  /\ \A m \in Numbers :
       /\ modules[m].requests \in Seq(Request)
       /\ \A i \in 1 .. Len(modules[m].links) : modules[m].links[i] \in Numbers

Creating(f) == f.op = "create" \/ (f.op = "load" /\ f.step = "create")

\* What a frame refers to.
FrameRefers(f) ==
  f.op # "load" \/ f.step \in {"link", "evaluate"} => f.at \in Numbers

FramesInv ==
  /\ stack \in Seq(Frame) /\ Shape(stack)
  /\ \A f \in Range(stack) : FrameRefers(f)

ReturnInv ==
  /\ returned \in {"none", "ok", "failed"}
  /\ returned # "none" => stack # <<>> /\ Creating(Top)
  /\ returned = "none" /\ stack # <<>> => ~(Top.op = "load" /\ Top.step = "create")

\* What has been done for a frame, by its kind.
FrameReady(f) ==
  /\ f.op = "load" /\ f.step = "create" /\ returned # "failed" => f.path \in DOMAIN cache
  /\ f.op = "load" /\ f.step = "link" => f.path \in DOMAIN cache /\ f.at = cache[f.path]
  /\ f.op = "create" => f.at \in Range(cache) /\ modules[f.at].status = "created"
  /\ f.op = "link" => f.at \in Range(cache) /\ modules[f.at].status = "linking"
  /\ f.op = "evaluate" => modules[f.at].status \notin {"created", "linking"}

ReadyInv == \A f \in Range(stack) : FrameReady(f)

FilesInv ==
  /\ files \in [Paths -> UNION Range(Contents)]
  /\ \A p \in Paths : files[p] \in Contents[p]

HistoryInv ==
  /\ {ended, tainted, unresolved} \subseteq BOOLEAN /\ ~ended
  /\ outcome \in [settled : {"none", "resolved", "rejected"}, sound : BOOLEAN]

StateInv == FilesInv /\ CacheInv /\ ModulesInv /\ FramesInv /\ ReturnInv /\ ReadyInv /\ HistoryInv

(***************************************************************************)
(* Frames and stacks.                                                      *)
(***************************************************************************)

\* A frame is one of the two kinds.
LEMMA FrameKinds ==
  ASSUME NEW f \in Frame
  PROVE  /\ f.op = "load" => f \in LoadFrame
         /\ f.op # "load" => f \in PlainFrame
         /\ f.op \in {"load", "create", "link", "evaluate"}
  BY DEF Frame, LoadFrame, PlainFrame, Steps

\* A load goes on to another step.
LEMMA LoadMoves ==
  ASSUME Top \in LoadFrame, NEW step \in Steps, NEW m \in 0 .. MaxModules
  PROVE  \E g \in LoadFrame :
           /\ g = GoTo(step, m) /\ g \in Frame
           /\ g.op = "load" /\ g.step = step /\ g.at = m
           /\ g.path = Top.path /\ g.sound = Top.sound
<1>1. PICK f \in LoadFrame : f = Top
  OBVIOUS
<1>2. PICK g : g = [f EXCEPT !.step = step, !.at = m]
  OBVIOUS
<1>3. /\ g \in LoadFrame /\ g \in Frame
      /\ g.op = "load" /\ g.step = step /\ g.at = m
      /\ g.path = f.path /\ g.sound = f.sound
  BY <1>2 DEF LoadFrame, Frame, Steps
<1>4. g = GoTo(step, m)
  BY <1>1, <1>2 DEF GoTo
<1>. QED
  BY <1>1, <1>3, <1>4

\* The next request, or the next link.
LEMMA FrameAdvances ==
  ASSUME NEW f \in PlainFrame
  PROVE  LET g == [f EXCEPT !.next = @ + 1]
         IN  /\ g \in PlainFrame /\ g \in Frame
             /\ g.op = f.op /\ g.at = f.at /\ g.next = f.next + 1
  BY DEF PlainFrame, Frame

\* The frame on top, and the others.
LEMMA TopOf ==
  ASSUME NEW S, NEW s \in Seq(S), s # <<>>
  PROVE  /\ Last(s) = s[Len(s)] /\ Last(s) \in S /\ Len(s) \in Nat \ {0}
         /\ Front(s) \in Seq(S) /\ Len(Front(s)) = Len(s) - 1
         /\ \A k \in 1 .. Len(s) - 1 : Front(s)[k] = s[k]
<1>1. Len(s) \in Nat \ {0} /\ s[Len(s)] \in S
  BY SeqType
<1>2. Last(s) = s[Len(s)]
  BY DEF Last
<1>3. Front(s) \in Seq(S) /\ Len(Front(s)) = Len(s) - 1
  BY FrontPlaces
<1>4. \A k \in 1 .. Len(s) - 1 : Front(s)[k] = s[k]
  BY FrontPlaces
<1>. QED
  BY <1>1, <1>2, <1>3, <1>4

\* A frame more.
LEMMA Pushed ==
  ASSUME NEW S, NEW s \in Seq(S), NEW f \in S, NEW t, t = Append(s, f)
  PROVE  /\ t \in Seq(S) /\ t # <<>> /\ Len(t) = Len(s) + 1 /\ Len(s) \in Nat
         /\ t[Len(s) + 1] = f /\ Last(t) = f
         /\ \A k \in 1 .. Len(s) : t[k] = s[k]
<1>1. t \in Seq(S) /\ Len(t) = Len(s) + 1 /\ Len(s) \in Nat
  OBVIOUS
<1>2. t[Len(s) + 1] = f /\ \A k \in 1 .. Len(s) : t[k] = s[k]
  OBVIOUS
<1>3. t # <<>>
  BY <1>1
<1>. QED
  BY <1>1, <1>2, <1>3 DEF Last

\* Pushing keeps the shape.
LEMMA ShapePushed ==
  ASSUME NEW S, NEW s \in Seq(S), NEW f \in S, Shape(s),
         IF s = <<>> THEN f.op = "load" ELSE Below(Last(s), f)
  PROVE  Shape(Append(s, f))
<1>1. PICK t : t = Append(s, f)
  OBVIOUS
<1>2. /\ Len(t) = Len(s) + 1 /\ Len(s) \in Nat /\ t[Len(s) + 1] = f
      /\ \A k \in 1 .. Len(s) : t[k] = s[k]
  BY <1>1, Pushed
<1>3. ASSUME NEW k \in 1 .. Len(t) - 1 PROVE Below(t[k], t[k + 1])
  <2>1. CASE k < Len(s)
    <3>1. t[k] = s[k] /\ t[k + 1] = s[k + 1] /\ k \in 1 .. Len(s) - 1
      BY <1>2, <2>1
    <3>. QED
      BY <3>1 DEF Shape
  <2>2. CASE k = Len(s)
    <3>1. s # <<>> /\ t[k] = Last(s) /\ t[k + 1] = f
      BY <1>2, <2>2 DEF Last
    <3>. QED
      BY <3>1
  <2>. QED
    BY <1>2, <2>1, <2>2
<1>4. t[1].op = "load"
  <2>1. CASE s = <<>>
    <3>1. t[1] = f
      BY <1>2, <2>1
    <3>. QED
      BY <2>1, <3>1
  <2>2. CASE s # <<>>
    <3>1. 1 \in 1 .. Len(s)
      BY <2>2, SeqType
    <3>. QED
      BY <1>2, <2>2, <3>1 DEF Shape
  <2>. QED
    BY <2>1, <2>2
<1>. QED
  BY <1>1, <1>3, <1>4 DEF Shape

\* Popping keeps the shape too, and puts something below what is popped.
LEMMA ShapePopped ==
  ASSUME NEW S, NEW s \in Seq(S), s # <<>>, Shape(s)
  PROVE  /\ Shape(Front(s))
         /\ Front(s) = <<>> => Last(s).op = "load"
         /\ Front(s) # <<>> => Below(Last(Front(s)), Last(s))
<1>1. PICK t \in Seq(S) : /\ t = Front(s) /\ Len(t) = Len(s) - 1
                          /\ \A k \in 1 .. Len(s) - 1 : t[k] = s[k]
  BY TopOf
<1>2. Len(s) \in Nat \ {0} /\ Last(s) = s[Len(s)]
  BY TopOf
<1>3. \A k \in 1 .. Len(t) - 1 : Below(t[k], t[k + 1])
  <2> SUFFICES ASSUME NEW k \in 1 .. Len(t) - 1 PROVE Below(t[k], t[k + 1])
    OBVIOUS
  <2>1. t[k] = s[k] /\ t[k + 1] = s[k + 1] /\ k \in 1 .. Len(s) - 1
    BY <1>1, <1>2
  <2>. QED
    BY <2>1 DEF Shape
<1>4. CASE t = <<>>
  <2>1. Len(s) = 1
    BY <1>1, <1>2, <1>4
  <2>. QED
    BY <1>1, <1>2, <1>3, <1>4, <2>1 DEF Shape
<1>5. CASE t # <<>>
  <2>1. Len(t) \in Nat \ {0} /\ Last(t) = t[Len(t)]
    BY <1>5, TopOf
  <2>2. /\ t[1] = s[1] /\ Last(t) = s[Len(s) - 1] /\ Len(s) - 1 \in 1 .. Len(s) - 1
        /\ (Len(s) - 1) + 1 = Len(s)
    BY <1>1, <1>2, <2>1
  <2>3. Below(s[Len(s) - 1], s[Len(s)])
    BY <2>2 DEF Shape
  <2>. QED
    BY <1>1, <1>2, <1>3, <1>5, <2>2, <2>3 DEF Shape
<1>. QED
  BY <1>4, <1>5

\* The frame on top may change.
LEMMA ShapeReplaced ==
  ASSUME NEW S, NEW s \in Seq(S), s # <<>>, Shape(s), NEW f \in S, f.op = Last(s).op
  PROVE  Shape(Append(Front(s), f))
<1>1. PICK t \in Seq(S) : t = Front(s)
  BY TopOf
<1>2. Shape(t) /\ (t = <<>> => Last(s).op = "load") /\ (t # <<>> => Below(Last(t), Last(s)))
  BY <1>1, ShapePopped
<1>3. t # <<>> => Below(Last(t), f)
  BY <1>2 DEF Below
<1>4. Shape(Append(t, f))
  BY <1>2, <1>3, ShapePushed
<1>. QED
  BY <1>1, <1>4

\* What is above a frame that is not at the evaluation.
LEMMA ShapeAbove ==
  ASSUME NEW s \in Seq(Frame), Shape(s), NEW k \in 1 .. Len(s)
  PROVE  /\ s[k].op = "create" => Last(s).op = "create"
         /\ s[k].op = "link" => Last(s).op = "link"
         /\ s[k].op = "load" /\ s[k].step \in {"find", "link"} => k = Len(s)
         /\ s[k].op = "load" /\ s[k].step = "create" => k = Len(s) \/ Last(s).op = "create"
<1> DEFINE Same(j) == /\ s[k].op = "create" => s[k + j].op = "create"
                      /\ s[k].op = "link" => s[k + j].op = "link"
                      /\ s[k].op = "load" /\ s[k].step = "create" => j = 0 \/ s[k + j].op = "create"
           Above == {j \in Nat : Same(j)}
<1>1. Len(s) \in Nat /\ k \in Nat \ {0} /\ k <= Len(s) /\ s # <<>> /\ Last(s) = s[Len(s)]
  <2>1. Len(s) \in Nat
    BY SeqType
  <2>2. s # <<>>
    BY <2>1, SeqType
  <2>3. Last(s) = s[Len(s)]
    BY <2>2, TopOf
  <2>. QED
    BY <2>1, <2>2, <2>3
<1>2. PICK n \in Nat : n = Len(s) - k
  <2>1. Len(s) - k \in Nat
    BY <1>1
  <2>. QED
    BY <2>1
<1>3. 0 \in Above
  BY <1>1
<1>4. ASSUME NEW j \in 0 .. n - 1, j \in Above PROVE j + 1 \in Above
  <2>1. PICK i \in 1 .. Len(s) - 1 : i = k + j /\ i + 1 = k + (j + 1)
    BY <1>1, <1>2
  <2>2. Below(s[i], s[i + 1])
    BY <2>1 DEF Shape
  <2>3. Same(j)
    BY <1>4
  <2>4. Same(j + 1)
    <3>1. CASE j = 0
      <4>1. s[i] = s[k]
        BY <1>1, <2>1, <3>1
      <4>. QED
        BY <2>1, <2>2, <4>1 DEF Below
    <3>2. CASE j # 0
      BY <2>1, <2>2, <2>3, <3>2 DEF Below
    <3>. QED
      BY <3>1, <3>2
  <2>. QED
    BY <2>4
<1>5. \A j \in 0 .. n : j \in Above
  <2> HIDE DEF Above
  <2>. QED
    BY <1>3, <1>4, SetInduction
<1>6. Same(n) /\ k + n = Len(s)
  <2>1. n \in 0 .. n
    OBVIOUS
  <2>2. k + n = Len(s)
    BY <1>1, <1>2
  <2>. QED
    BY <1>5, <2>1, <2>2
<1>7. CASE s[k].op = "load" /\ s[k].step \in {"find", "link"} /\ k # Len(s)
  <2>1. k \in 1 .. Len(s) - 1
    BY <1>1, <1>7
  <2>2. Below(s[k], s[k + 1])
    BY <2>1 DEF Shape
  <2>. QED
    BY <1>7, <2>2 DEF Below
<1>8. s[k].op = "load" /\ s[k].step = "create" => k = Len(s) \/ Last(s).op = "create"
  <2>1. n = 0 => k = Len(s)
    BY <1>1, <1>2
  <2>. QED
    BY <1>1, <1>6, <2>1
<1>. QED
  BY <1>1, <1>6, <1>7, <1>8

\* A frame that is no longer sound is the same frame otherwise.
LEMMA UnsoundFrames ==
  ASSUME NEW s \in Seq(Frame), NEW t, t = Unsound(s)
  PROVE  /\ t \in Seq(Frame) /\ Len(t) = Len(s) /\ DOMAIN t = 1 .. Len(s)
         /\ \A k \in 1 .. Len(s) :
              /\ t[k].op = s[k].op /\ t[k].at = s[k].at
              /\ s[k].op = "load" => t[k].step = s[k].step /\ t[k].path = s[k].path /\ ~t[k].sound
              /\ s[k].op # "load" => t[k] = s[k]
         /\ Shape(s) => Shape(t)
<1>1. Len(s) \in Nat /\ DOMAIN s = 1 .. Len(s) /\ \A k \in 1 .. Len(s) : s[k] \in Frame
  BY SeqType
<1>2. t = [k \in 1 .. Len(s) |-> IF s[k].op = "load" THEN [s[k] EXCEPT !.sound = FALSE] ELSE s[k]]
  BY <1>1 DEF Unsound
<1>3. ASSUME NEW f \in LoadFrame
      PROVE  /\ [f EXCEPT !.sound = FALSE] \in Frame
             /\ [f EXCEPT !.sound = FALSE].op = f.op /\ [f EXCEPT !.sound = FALSE].at = f.at
             /\ [f EXCEPT !.sound = FALSE].step = f.step /\ [f EXCEPT !.sound = FALSE].path = f.path
             /\ ~[f EXCEPT !.sound = FALSE].sound
  BY DEF LoadFrame, Frame, Steps
<1>4. ASSUME NEW k \in 1 .. Len(s)
      PROVE  /\ t[k] \in Frame /\ t[k].op = s[k].op /\ t[k].at = s[k].at
             /\ s[k].op = "load" => t[k].step = s[k].step /\ t[k].path = s[k].path /\ ~t[k].sound
             /\ s[k].op # "load" => t[k] = s[k]
  <2>1. CASE s[k].op = "load"
    <3>1. t[k] = [s[k] EXCEPT !.sound = FALSE]
      BY <1>2, <2>1
    <3>2. s[k] \in LoadFrame
      BY <1>1, <2>1, FrameKinds
    <3>. QED
      BY <1>3, <2>1, <3>1, <3>2
  <2>2. CASE s[k].op # "load"
    BY <1>1, <1>2, <2>2
  <2>. QED
    BY <2>1, <2>2
<1>5. t \in Seq(Frame) /\ Len(t) = Len(s) /\ DOMAIN t = 1 .. Len(s)
  <2>1. t \in [1 .. Len(s) -> Frame]
    BY <1>2, <1>4
  <2>. QED
    BY <1>1, <2>1, FunctionIsSeq
<1>6. ASSUME Shape(s) PROVE Shape(t)
  <2>1. ASSUME NEW k \in 1 .. Len(t) - 1 PROVE Below(t[k], t[k + 1])
    <3>1. k \in 1 .. Len(s) - 1 /\ k \in 1 .. Len(s) /\ k + 1 \in 1 .. Len(s)
      BY <1>1, <1>5
    <3>2. Below(s[k], s[k + 1])
      BY <1>6, <3>1 DEF Shape
    <3>3. t[k].op = s[k].op /\ t[k + 1].op = s[k + 1].op /\ (s[k].op = "load" => t[k].step = s[k].step)
      BY <1>4, <3>1
    <3>. QED
      BY <3>2, <3>3 DEF Below
  <2>2. t # <<>> => t[1].op = "load"
    <3> SUFFICES ASSUME t # <<>> PROVE t[1].op = "load"
      OBVIOUS
    <3>1. 1 \in 1 .. Len(s) /\ s # <<>>
      BY <1>1, <1>5, SeqType
    <3>. QED
      BY <1>4, <1>6, <3>1 DEF Shape
  <2>. QED
    BY <2>1, <2>2 DEF Shape
<1>. QED
  BY <1>4, <1>5, <1>6

\* The frames of a stack, with one more and without the one on top.
LEMMA FramesOf ==
  ASSUME NEW S, NEW s \in Seq(S)
  PROVE  /\ Range(s) \subseteq S
         /\ \A f \in S : Range(Append(s, f)) = Range(s) \cup {f}
         /\ s # <<>> => /\ Last(s) \in Range(s) /\ Range(Front(s)) \subseteq Range(s)
                        /\ Range(s) = Range(Front(s)) \cup {Last(s)}
<1>1. DOMAIN s = 1 .. Len(s) /\ \A k \in 1 .. Len(s) : s[k] \in S
  BY SeqType
<1>2. Range(s) \subseteq S
  BY <1>1 DEF Range
<1>3. ASSUME NEW f \in S PROVE Range(Append(s, f)) = Range(s) \cup {f}
  BY PushRange
<1>4. ASSUME s # <<>>
      PROVE  Last(s) \in Range(s) /\ Range(Front(s)) \subseteq Range(s)
             /\ Range(s) = Range(Front(s)) \cup {Last(s)}
  <2>1. PICK t \in Seq(S) : /\ t = Front(s) /\ Len(t) = Len(s) - 1
                            /\ \A k \in 1 .. Len(s) - 1 : t[k] = s[k]
    BY <1>4, TopOf
  <2>2. Len(s) \in Nat \ {0} /\ Last(s) = s[Len(s)]
    BY <1>4, TopOf
  <2>3. DOMAIN t = 1 .. Len(s) - 1
    BY <2>1, <2>2, SeqType
  <2>4. Range(t) = {s[k] : k \in 1 .. Len(s) - 1}
    BY <2>1, <2>3 DEF Range
  <2>5. Range(s) = {s[k] : k \in 1 .. Len(s)}
    BY <1>1 DEF Range
  <2>6. 1 .. Len(s) = (1 .. Len(s) - 1) \cup {Len(s)}
    BY <2>2
  <2>7. Range(s) = Range(t) \cup {s[Len(s)]}
    BY <2>4, <2>5, <2>6
  <2>. QED
    BY <2>1, <2>2, <2>7
<1>. QED
  BY <1>2, <1>3, <1>4

\* A stack of frames with one more.
LEMMA StackPushed ==
  ASSUME NEW s \in Seq(Frame), NEW f \in Frame
  PROVE  /\ Append(s, f) \in Seq(Frame) /\ Append(s, f) # <<>> /\ Last(Append(s, f)) = f
         /\ Range(Append(s, f)) = Range(s) \cup {f}
         /\ Shape(s) /\ (IF s = <<>> THEN f.op = "load" ELSE Below(Last(s), f))
              => Shape(Append(s, f))
<1>1. PICK t \in Seq(Frame) : t = Append(s, f)
  BY PushType
<1>2. t # <<>> /\ Last(t) = f
  <2>1. Len(t) = Len(s) + 1 /\ Len(s) \in Nat /\ t[Len(s) + 1] = f
    BY <1>1
  <2>. QED
    BY <2>1 DEF Last
<1>3. Range(Append(s, f)) = Range(s) \cup {f}
  BY FramesOf
<1>4. Shape(s) /\ (IF s = <<>> THEN f.op = "load" ELSE Below(Last(s), f)) => Shape(Append(s, f))
  BY ShapePushed
<1>. QED
  BY <1>1, <1>2, <1>3, <1>4

\* A stack of frames with another frame on top.
LEMMA StackReplaced ==
  ASSUME NEW s \in Seq(Frame), s # <<>>, NEW f \in Frame
  PROVE  /\ Append(Front(s), f) \in Seq(Frame) /\ Append(Front(s), f) # <<>>
         /\ Last(Append(Front(s), f)) = f
         /\ Range(Append(Front(s), f)) = Range(Front(s)) \cup {f}
         /\ Shape(s) /\ f.op = Last(s).op => Shape(Append(Front(s), f))
<1>1. PICK t \in Seq(Frame) : t = Front(s)
  BY TopOf
<1>2. /\ Append(t, f) \in Seq(Frame) /\ Append(t, f) # <<>> /\ Last(Append(t, f)) = f
      /\ Range(Append(t, f)) = Range(t) \cup {f}
  BY StackPushed
<1>3. Shape(s) /\ f.op = Last(s).op => Shape(Append(Front(s), f))
  BY ShapeReplaced
<1>. QED
  BY <1>1, <1>2, <1>3

(***************************************************************************)
(* Modules.                                                                *)
(***************************************************************************)

\* A module with another status, with another link, and without its links.
LEMMA ModuleChanges ==
  ASSUME NEW m \in Module
  PROVE  /\ \A status \in Status :
              LET n == [m EXCEPT !.status = status]
              IN  /\ n \in Module /\ n.status = status /\ n.path = m.path
                  /\ n.requests = m.requests /\ n.links = m.links
         /\ \A child \in 1 .. MaxModules :
              LET n == [m EXCEPT !.links = Append(@, child)]
              IN  /\ n \in Module /\ n.status = m.status /\ n.path = m.path
                  /\ n.requests = m.requests /\ n.links = Append(m.links, child)
         /\ LET n == [m EXCEPT !.status = "created", !.links = <<>>]
            IN  /\ n \in Module /\ n.status = "created" /\ n.path = m.path
                /\ n.requests = m.requests /\ n.links = <<>>
<1>1. /\ m.links \in Seq(1 .. MaxModules)
      /\ m = [path |-> m.path, requests |-> m.requests, links |-> m.links, status |-> m.status]
      /\ m.path \in Paths /\ m.requests \in (UNION Range(Contents)) \ {Bad} /\ m.status \in Status
  BY DEF Module, Status
<1>2. ASSUME NEW status \in Status
      PROVE  LET n == [m EXCEPT !.status = status]
             IN  /\ n \in Module /\ n.status = status /\ n.path = m.path
                 /\ n.requests = m.requests /\ n.links = m.links
  BY DEF Module, Status
<1>3. ASSUME NEW child \in 1 .. MaxModules
      PROVE  LET n == [m EXCEPT !.links = Append(@, child)]
             IN  /\ n \in Module /\ n.status = m.status /\ n.path = m.path
                 /\ n.requests = m.requests /\ n.links = Append(m.links, child)
  <2>1. PICK l \in Seq(1 .. MaxModules) : l = Append(m.links, child)
    BY <1>1, PushType
  <2>2. LET n == [m EXCEPT !.links = l]
        IN  /\ n \in Module /\ n.status = m.status /\ n.path = m.path
            /\ n.requests = m.requests /\ n.links = l
    BY DEF Module
  <2>. QED
    BY <2>1, <2>2
<1>4. LET n == [m EXCEPT !.status = "created", !.links = <<>>]
      IN  /\ n \in Module /\ n.status = "created" /\ n.path = m.path
          /\ n.requests = m.requests /\ n.links = <<>>
  <2>1. PICK l \in Seq(1 .. MaxModules) : l = <<>>
    <3>1. <<>> \in Seq(1 .. MaxModules)
      OBVIOUS
    <3>. QED
      BY <3>1
  <2>2. LET n == [m EXCEPT !.status = "created", !.links = l]
        IN  /\ n \in Module /\ n.status = "created" /\ n.path = m.path
            /\ n.requests = m.requests /\ n.links = l
    BY DEF Module
  <2>. QED
    BY <2>1, <2>2
<1>. QED
  BY <1>2, <1>3, <1>4

\* Some modules get another status.
LEMMA StatusesSet ==
  ASSUME modules \in Seq(Module), NEW these, NEW status \in Status,
         NEW t, t = SetStatus(these, status)
  PROVE  /\ t \in Seq(Module) /\ Len(t) = Len(modules)
         /\ \A m \in Numbers :
              /\ t[m].path = modules[m].path /\ t[m].requests = modules[m].requests
              /\ t[m].links = modules[m].links
              /\ t[m].status = IF m \in these THEN status ELSE modules[m].status
<1>1. Len(modules) \in Nat /\ DOMAIN modules = 1 .. Len(modules)
      /\ \A m \in 1 .. Len(modules) : modules[m] \in Module
  BY SeqType
<1>2. t = [m \in 1 .. Len(modules) |->
             IF m \in these THEN [modules[m] EXCEPT !.status = status] ELSE modules[m]]
  BY <1>1 DEF SetStatus
<1>3. ASSUME NEW m \in 1 .. Len(modules)
      PROVE  /\ t[m] \in Module
             /\ t[m].path = modules[m].path /\ t[m].requests = modules[m].requests
             /\ t[m].links = modules[m].links
             /\ t[m].status = IF m \in these THEN status ELSE modules[m].status
  <2>1. CASE m \in these
    <3>1. PICK n \in Module : n = modules[m]
      BY <1>1
    <3>2. PICK x : x = [n EXCEPT !.status = status]
      OBVIOUS
    <3>3. /\ x \in Module /\ x.status = status /\ x.path = n.path
          /\ x.requests = n.requests /\ x.links = n.links
      BY <3>2, ModuleChanges
    <3>4. t[m] = x
      BY <1>2, <2>1, <3>1, <3>2
    <3>. QED
      BY <2>1, <3>1, <3>3, <3>4
  <2>2. CASE m \notin these
    BY <1>1, <1>2, <2>2
  <2>. QED
    BY <2>1, <2>2
<1>4. t \in [1 .. Len(modules) -> Module]
  BY <1>2, <1>3
<1>5. t \in Seq(Module) /\ Len(t) = Len(modules)
  BY <1>1, <1>4, FunctionIsSeq
<1>. QED
  BY <1>3, <1>5 DEF Numbers

\* A module that is linked to another, and one with another status.
Linked(m, child) == [modules EXCEPT ![m].links = Append(@, child)]
Relabelled(s, child, status) == [s EXCEPT ![child].status = status]
Unlinked == [k \in DOMAIN modules |->
               IF k \in Linking THEN [modules[k] EXCEPT !.status = "created", !.links = <<>>]
               ELSE modules[k]]
Advanced == Append(Under, [Top EXCEPT !.next = @ + 1])
LinkFrame(child) == [op |-> "link", at |-> child, next |-> 1]

\* A module that is linked to another, which may be linked next.
LEMMA LinkAdded ==
  ASSUME modules \in Seq(Module), NEW m \in Numbers, NEW child \in Numbers,
         Len(modules) <= MaxModules
  PROVE  \E t \in Seq(Module) :
           /\ t = Linked(m, child) /\ Len(t) = Len(modules)
           /\ \A n \in Numbers :
                /\ t[n].path = modules[n].path /\ t[n].requests = modules[n].requests
                /\ t[n].links = IF n = m THEN Append(modules[m].links, child) ELSE modules[n].links
                /\ t[n].status = modules[n].status
<1>1. Len(modules) \in Nat /\ DOMAIN modules = 1 .. Len(modules)
      /\ \A n \in 1 .. Len(modules) : modules[n] \in Module
  BY SeqType
<1>2. child \in 1 .. MaxModules /\ m \in 1 .. Len(modules)
  BY <1>1, ModulatorAssumption DEF Numbers
<1>3. PICK x : x = [modules[m] EXCEPT !.links = Append(@, child)]
  OBVIOUS
<1>4. /\ x \in Module /\ x.status = modules[m].status /\ x.path = modules[m].path
      /\ x.requests = modules[m].requests /\ x.links = Append(modules[m].links, child)
  BY ZenonT(40), <1>1, <1>2, <1>3, ModuleChanges
<1>5. PICK t : t = [modules EXCEPT ![m] = x] /\ t = Linked(m, child)
  BY <1>3 DEF Linked
<1>6. ASSUME NEW n \in 1 .. Len(modules) PROVE t[n] = IF n = m THEN x ELSE modules[n]
  BY <1>1, <1>5
<1>7. t \in Seq(Module) /\ Len(t) = Len(modules)
  <2>1. t \in [1 .. Len(modules) -> Module]
    BY <1>1, <1>2, <1>4, <1>5
  <2>. QED
    BY <1>1, <2>1, FunctionIsSeq
<1>. QED
  BY <1>4, <1>5, <1>6, <1>7 DEF Numbers

\* One module gets another status.
LEMMA StatusOfOne ==
  ASSUME modules \in Seq(Module), NEW s \in Seq(Module), Len(s) = Len(modules),
         NEW child \in Numbers, NEW status \in Status
  PROVE  \E t \in Seq(Module) :
           /\ t = Relabelled(s, child, status) /\ Len(t) = Len(modules)
           /\ \A n \in Numbers :
                /\ t[n].path = s[n].path /\ t[n].requests = s[n].requests
                /\ t[n].links = s[n].links
                /\ t[n].status = IF n = child THEN status ELSE s[n].status
<1>1. Len(s) \in Nat /\ DOMAIN s = 1 .. Len(s)
      /\ \A n \in 1 .. Len(s) : s[n] \in Module
  BY SeqType
<1>2. child \in 1 .. Len(s)
  BY DEF Numbers
<1>3. PICK x : x = [s[child] EXCEPT !.status = status]
  OBVIOUS
<1>4. /\ x \in Module /\ x.status = status /\ x.path = s[child].path
      /\ x.requests = s[child].requests /\ x.links = s[child].links
  BY ZenonT(40), <1>1, <1>2, <1>3, ModuleChanges
<1>5. PICK t : t = [s EXCEPT ![child] = x] /\ t = Relabelled(s, child, status)
  BY <1>3 DEF Relabelled
<1>6. ASSUME NEW n \in 1 .. Len(s) PROVE t[n] = IF n = child THEN x ELSE s[n]
  BY <1>1, <1>5
<1>7. t \in Seq(Module) /\ Len(t) = Len(s)
  <2>1. t \in [1 .. Len(s) -> Module]
    BY <1>1, <1>2, <1>4, <1>5
  <2>. QED
    BY <1>1, <2>1, FunctionIsSeq
<1>. QED
  BY <1>4, <1>5, <1>6, <1>7 DEF Numbers

\* What was being linked is not.
LEMMA LinksReset ==
  ASSUME modules \in Seq(Module),
         NEW t, t = [k \in DOMAIN modules |->
                       IF k \in Linking
                         THEN [modules[k] EXCEPT !.status = "created", !.links = <<>>]
                         ELSE modules[k]]
  PROVE  /\ t \in Seq(Module) /\ Len(t) = Len(modules)
         /\ \A m \in Numbers :
              /\ t[m].path = modules[m].path /\ t[m].requests = modules[m].requests
              /\ t[m].links = IF modules[m].status = "linking" THEN <<>> ELSE modules[m].links
              /\ t[m].status = IF modules[m].status = "linking" THEN "created" ELSE modules[m].status
<1>1. Len(modules) \in Nat /\ DOMAIN modules = 1 .. Len(modules)
      /\ \A m \in 1 .. Len(modules) : modules[m] \in Module
  BY SeqType
<1>2. ASSUME NEW m \in 1 .. Len(modules)
      PROVE  /\ t[m] \in Module
             /\ t[m].path = modules[m].path /\ t[m].requests = modules[m].requests
             /\ t[m].links = IF modules[m].status = "linking" THEN <<>> ELSE modules[m].links
             /\ t[m].status = IF modules[m].status = "linking" THEN "created" ELSE modules[m].status
  <2>1. CASE modules[m].status = "linking"
    <3>1. PICK n \in Module : n = modules[m]
      BY <1>1
    <3>2. PICK x : x = [n EXCEPT !.status = "created", !.links = <<>>]
      OBVIOUS
    <3>3. /\ x \in Module /\ x.status = "created" /\ x.path = n.path
          /\ x.requests = n.requests /\ x.links = <<>>
      BY <3>2, ModuleChanges
    <3>4. t[m] = x
      BY <1>1, <2>1, <3>1, <3>2 DEF Linking
    <3>. QED
      BY <2>1, <3>1, <3>3, <3>4
  <2>2. CASE modules[m].status # "linking"
    BY <1>1, <2>2 DEF Linking
  <2>. QED
    BY <2>1, <2>2
<1>3. t \in Seq(Module) /\ Len(t) = Len(modules)
  <2>1. t \in [1 .. Len(modules) -> Module]
    BY <1>1, <1>2
  <2>. QED
    BY <1>1, <2>1, FunctionIsSeq
<1>. QED
  BY <1>2, <1>3 DEF Numbers

(***************************************************************************)
(* What the steps keep.                                                    *)
(***************************************************************************)

\* The frame on top, and those under it.
LEMMA TopFrame ==
  ASSUME FramesInv, ReadyInv, stack # <<>>
  PROVE  /\ Top \in Frame /\ Top \in Range(stack) /\ FrameRefers(Top) /\ FrameReady(Top)
         /\ Top.op = "load" => Top \in LoadFrame
         /\ Top.op # "load" => Top \in PlainFrame
         /\ Top.op \in {"load", "create", "link", "evaluate"}
         /\ Under \in Seq(Frame) /\ Shape(Under) /\ Range(Under) \subseteq Range(stack)
         /\ Range(stack) = Range(Under) \cup {Top}
         /\ Under = <<>> => Top.op = "load"
         /\ Under # <<>> => Below(Last(Under), Top) /\ Last(Under) \in Range(Under)
<1>1. stack \in Seq(Frame) /\ Shape(stack)
  BY DEF FramesInv
<1>2. Top \in Frame /\ Under \in Seq(Frame)
  BY <1>1, TopOf DEF Top, Under
<1>3. Top \in Range(stack) /\ Range(Under) \subseteq Range(stack) /\ Range(stack) = Range(Under) \cup {Top}
  BY <1>1, FramesOf DEF Top, Under
<1>4. Under # <<>> => Last(Under) \in Range(Under)
  BY <1>2, FramesOf
<1>5. /\ Shape(Under) /\ (Under = <<>> => Top.op = "load")
      /\ Under # <<>> => Below(Last(Under), Top)
  BY <1>1, ShapePopped DEF Top, Under
<1>6. FrameRefers(Top) /\ FrameReady(Top)
  BY <1>3 DEF FramesInv, ReadyInv
<1>7. /\ Top.op = "load" => Top \in LoadFrame
      /\ Top.op # "load" => Top \in PlainFrame
      /\ Top.op \in {"load", "create", "link", "evaluate"}
  BY <1>2, FrameKinds
<1>. QED
  BY <1>2, <1>3, <1>4, <1>5, <1>6, <1>7

\* Those under it wait for what it is doing.
LEMMA FramesUnder ==
  ASSUME FramesInv, stack # <<>>, NEW f \in Range(Under)
  PROVE  /\ f \in Frame /\ f \in Range(stack)
         /\ f.op = "create" => Top.op = "create"
         /\ f.op = "link" => Top.op = "link"
         /\ f.op = "load" => f.step \in {"create", "evaluate"}
         /\ f.op = "load" /\ f.step = "create" => Top.op = "create"
<1>1. stack \in Seq(Frame) /\ Shape(stack)
  BY DEF FramesInv
<1>2. PICK t \in Seq(Frame) : /\ t = Under /\ Len(t) = Len(stack) - 1
                              /\ \A k \in 1 .. Len(stack) - 1 : t[k] = stack[k]
  BY <1>1, TopOf DEF Under
<1>3. Len(stack) \in Nat /\ DOMAIN t = 1 .. Len(t) /\ DOMAIN stack = 1 .. Len(stack)
  BY <1>1, SeqType
<1>4. PICK k \in 1 .. Len(stack) : f = stack[k] /\ k # Len(stack)
  BY <1>2, <1>3 DEF Range
<1>5. f \in Frame /\ f \in Range(stack)
  BY <1>1, <1>3, <1>4, SeqType DEF Range
<1>6. /\ f.op = "create" => Top.op = "create"
      /\ f.op = "link" => Top.op = "link"
      /\ ~(f.op = "load" /\ f.step \in {"find", "link"})
      /\ f.op = "load" /\ f.step = "create" => Top.op = "create"
  BY <1>1, <1>4, ShapeAbove DEF Top
<1>7. f.op = "load" => f.step \in Steps
  BY <1>5, FrameKinds DEF LoadFrame
<1>. QED
  BY <1>5, <1>6, <1>7 DEF Steps

\* While scripts run, everything waits for an evaluation.
LEMMA QuietFrames ==
  ASSUME FramesInv, NEW f \in Range(stack),
         Top.op = "evaluate" \/ (Top.op = "load" /\ Top.step = "evaluate")
  PROVE  f.op = "evaluate" \/ (f.op = "load" /\ f.step = "evaluate")
<1>1. stack \in Seq(Frame)
  BY DEF FramesInv
<1>2. stack # <<>>
  BY DEF Range
<1>3. f = Top \/ f \in Range(Under)
  BY <1>1, <1>2, FramesOf DEF Top, Under
<1>4. f \in Range(Under) => /\ f.op # "create" /\ f.op # "link" /\ f \in Frame
                            /\ f.op = "load" => f.step = "evaluate"
  BY <1>2, FramesUnder
<1>5. f \in Frame => f.op \in {"load", "create", "link", "evaluate"}
  BY FrameKinds
<1>. QED
  BY <1>3, <1>4, <1>5

\* Modules that have only got another status or other links.
LEMMA ModulesKept ==
  ASSUME CacheInv, ModulesInv, UNCHANGED cache,
         modules' \in Seq(Module), Len(modules') = Len(modules),
         \A m \in Numbers :
           /\ modules'[m].path = modules[m].path /\ modules'[m].requests = modules[m].requests
           /\ \A i \in 1 .. Len(modules'[m].links) : modules'[m].links[i] \in Numbers
  PROVE  CacheInv' /\ ModulesInv' /\ Numbers' = Numbers
<1>1. Numbers' = Numbers
  BY DEF Numbers
<1>2. CacheInv'
  BY <1>1 DEF CacheInv
<1>3. ModulesInv'
  BY <1>1 DEF ModulesInv
<1>. QED
  BY <1>1, <1>2, <1>3

\* A frame that waits for an evaluation still does.
LEMMA QuietReady ==
  ASSUME NEW f, FrameReady(f), FrameRefers(f),
         f.op = "evaluate" \/ (f.op = "load" /\ f.step = "evaluate"),
         \A m \in Numbers : modules[m].status \notin {"created", "linking"} =>
                              modules'[m].status \notin {"created", "linking"}
  PROVE  FrameReady(f)'
  BY DEF FrameReady, FrameRefers

\* Nothing has happened to what a frame refers to.
LEMMA SameReady ==
  ASSUME UNCHANGED <<cache, modules>>, NEW f, FrameReady(f),
         f.op # "load" \/ f.step # "create" \/ returned # "failed" \/ returned' = "failed"
  PROVE  FrameReady(f)'
  BY DEF FrameReady

\* A script, or somebody else, does something.
LEMMA OutsideKeeps ==
  ASSUME StateInv,
         \/ \E p \in Paths : LoadModule(p)
         \/ \E prefix \in Clearable : ClearCache(prefix)
         \/ \E p \in Paths : \E content \in Contents[p] : Edit(p, content)
  PROVE  StateInv'
<1>1. FilesInv /\ CacheInv /\ ModulesInv /\ FramesInv /\ ReturnInv /\ ReadyInv /\ HistoryInv
  BY DEF StateInv
<1>2. stack \in Seq(Frame) /\ Shape(stack) /\ Range(stack) \subseteq Frame
  BY <1>1, FramesOf DEF FramesInv
<1>3. ASSUME NEW p \in Paths, LoadModule(p) PROVE StateInv'
  <2>1. PICK f : f = [op |-> "load", step |-> "find", path |-> p, at |-> 0,
                      sound |-> Sound(p) /\ ~tainted]
    OBVIOUS
  <2>2. f \in Frame /\ f.op = "load" /\ f.step = "find"
    <3>1. (Sound(p) /\ ~tainted) \in BOOLEAN
      BY Zenon DEF Sound
    <3>2. 0 \in 0 .. MaxModules
      BY ModulatorAssumption
    <3>. QED
      BY <2>1, <3>1, <3>2 DEF Frame
  <2>3. /\ stack' = Append(stack, f) /\ ScriptRuns
        /\ UNCHANGED <<files, cache, modules, returned, ended, tainted, unresolved, outcome>>
    BY <1>3, <2>1 DEF LoadModule, history
  <2>4. stack' \in Seq(Frame) /\ Range(stack') = Range(stack) \cup {f} /\ stack' # <<>> /\ Top' = f
    <3>0. f \in Frame
      BY <2>2
    <3>1. stack' \in Seq(Frame) /\ stack' # <<>> /\ Last(stack') = f
      BY <1>2, <2>3, <3>0, StackPushed
    <3>2. Range(stack') = Range(stack) \cup {f}
      BY <1>2, <2>2, <2>3, FramesOf
    <3>. QED
      BY <3>1, <3>2 DEF Top
  <2>5. Shape(stack')
    <3>1. stack # <<>> => Below(Last(stack), f)
      BY <2>2, <2>3 DEF ScriptRuns, Top, Below
    <3>. QED
      BY <1>2, <2>2, <2>3, <3>1, ShapePushed
  <2>6. Numbers' = Numbers /\ \A g : FrameRefers(g)' = FrameRefers(g)
    BY <2>3 DEF Numbers, FrameRefers
  <2>7. FramesInv'
    BY <1>1, <2>2, <2>4, <2>5, <2>6 DEF FramesInv, FrameRefers
  <2>8. ReturnInv'
    BY <2>2, <2>3, <2>4 DEF ReturnInv, ScriptRuns
  <2>9. ReadyInv'
    <3>1. \A g \in Range(stack) : FrameReady(g)'
      BY <1>1, <2>3, SameReady DEF ReadyInv
    <3>2. FrameReady(f)'
      BY <2>2 DEF FrameReady
    <3>. QED
      BY <2>4, <3>1, <3>2 DEF ReadyInv
  <2>10. FilesInv' /\ CacheInv' /\ ModulesInv' /\ HistoryInv'
    BY <1>1, <2>3, <2>6 DEF FilesInv, CacheInv, ModulesInv, HistoryInv
  <2>. QED
    BY <2>7, <2>8, <2>9, <2>10 DEF StateInv
<1>4. ASSUME stack' = Unsound(stack), UNCHANGED <<modules, returned>>,
             \A f \in Range(stack) : FrameReady(f)' \/ f.op = "load"
      PROVE  /\ FramesInv' /\ ReturnInv' /\ stack' \in Seq(Frame)
             /\ \A f \in Range(stack') :
                  (f.op # "load" /\ FrameReady(f)') \/
                  \E g \in Range(stack) : /\ g.op = "load" /\ f.op = "load" /\ f.step = g.step
                                          /\ f.path = g.path /\ f.at = g.at
  <2>1. /\ stack' \in Seq(Frame) /\ Len(stack') = Len(stack) /\ DOMAIN stack' = 1 .. Len(stack)
        /\ Shape(stack')
        /\ \A k \in 1 .. Len(stack) :
              /\ stack'[k].op = stack[k].op /\ stack'[k].at = stack[k].at
              /\ stack[k].op = "load" => stack'[k].step = stack[k].step /\ stack'[k].path = stack[k].path
              /\ stack[k].op # "load" => stack'[k] = stack[k]
    BY <1>2, <1>4, UnsoundFrames
  <2>2. DOMAIN stack = 1 .. Len(stack) /\ Len(stack) \in Nat
    BY <1>2, SeqType
  <2>3. ASSUME NEW f \in Range(stack')
        PROVE  \E g \in Range(stack) : /\ f.op = g.op /\ f.at = g.at
                                       /\ g.op = "load" => f.step = g.step /\ f.path = g.path
                                       /\ g.op # "load" => f = g
    <3>1. PICK k \in 1 .. Len(stack) : f = stack'[k]
      BY <2>1 DEF Range
    <3>2. stack[k] \in Range(stack)
      BY <2>2 DEF Range
    <3>. QED
      BY <2>1, <3>1, <3>2
  <2>4. Numbers' = Numbers
    BY <1>4 DEF Numbers
  <2>5. FramesInv'
    <3>1. \A f \in Range(stack') : FrameRefers(f)'
      <4> SUFFICES ASSUME NEW f \in Range(stack') PROVE FrameRefers(f)'
        OBVIOUS
      <4>1. PICK g \in Range(stack) : /\ f.op = g.op /\ f.at = g.at
                                      /\ g.op = "load" => f.step = g.step
        BY <2>3
      <4>2. FrameRefers(g)
        BY <1>1 DEF FramesInv
      <4>. QED
        BY <2>4, <4>1, <4>2 DEF FrameRefers
    <3>. QED
      BY <2>1, <3>1 DEF FramesInv
  <2>6. ReturnInv'
    <3>1. stack' # <<>> <=> stack # <<>>
      BY <1>2, <2>1, SeqType
    <3>2. stack # <<>> => Top'.op = Top.op /\ (Top.op = "load" => Top'.step = Top.step)
      <4> SUFFICES ASSUME stack # <<>>
                   PROVE  Top'.op = Top.op /\ (Top.op = "load" => Top'.step = Top.step)
        OBVIOUS
      <4>1. Top = stack[Len(stack)] /\ Len(stack) \in Nat \ {0}
        BY <1>2, TopOf DEF Top
      <4>2. Top' = stack'[Len(stack)]
        BY ZenonT(40), <2>1, <3>1, TopOf DEF Top
      <4>3. Len(stack) \in 1 .. Len(stack)
        BY <4>1
      <4>. QED
        BY <2>1, <4>1, <4>2, <4>3
    <3>. QED
      BY <1>1, <1>4, <3>1, <3>2 DEF ReturnInv, Creating
  <2>. QED
    BY <1>4, <2>1, <2>3, <2>5, <2>6
<1>5. ASSUME NEW prefix \in Clearable, ClearCache(prefix) PROVE StateInv'
  <2>1. /\ ScriptRuns /\ stack' = Unsound(stack) /\ tainted' \in BOOLEAN
        /\ cache' = [p \in DOMAIN cache \ prefix |-> cache[p]]
        /\ UNCHANGED <<files, modules, returned, ended, unresolved, outcome>>
    BY <1>5 DEF ClearCache
  <2>2. \A f \in Range(stack) : f.op = "evaluate" \/ (f.op = "load" /\ f.step = "evaluate")
    <3>1. stack # <<>> => Top.op = "evaluate"
      BY <2>1 DEF ScriptRuns
    <3>2. stack = <<>> => Range(stack) = {}
      BY DEF Range
    <3>. QED
      BY <1>1, <3>1, <3>2, QuietFrames
  <2>3. \A f \in Range(stack) : FrameReady(f)' \/ f.op = "load"
    BY <1>1, <2>1, <2>2 DEF ReadyInv, FrameReady
  <2>4. FramesInv' /\ ReturnInv' /\
        \A f \in Range(stack') :
          (f.op # "load" /\ FrameReady(f)') \/
          \E g \in Range(stack) : /\ g.op = "load" /\ f.op = "load" /\ f.step = g.step
                                  /\ f.path = g.path /\ f.at = g.at
    BY <1>4, <2>1, <2>3
  <2>5. ReadyInv'
    <3>1. \A f : f.op = "load" /\ f.step = "evaluate" => FrameReady(f)'
      BY DEF FrameReady
    <3>. QED
      BY <2>2, <2>4, <3>1 DEF ReadyInv
  <2>6. CacheInv'
    BY <1>1, <2>1 DEF CacheInv, Numbers
  <2>7. FilesInv' /\ ModulesInv' /\ HistoryInv'
    BY <1>1, <2>1 DEF FilesInv, ModulesInv, HistoryInv, Numbers
  <2>. QED
    BY <2>4, <2>5, <2>6, <2>7 DEF StateInv
<1>6. ASSUME NEW p \in Paths, NEW content \in Contents[p], Edit(p, content) PROVE StateInv'
  <2>1. /\ stack' = Unsound(stack) /\ files' = [files EXCEPT ![p] = content]
        /\ UNCHANGED <<cache, modules, returned, ended, tainted, unresolved, outcome>>
    BY <1>6 DEF Edit, history
  <2>2. \A f \in Range(stack) : FrameReady(f)'
    BY <1>1, <2>1, SameReady DEF ReadyInv
  <2>3. FramesInv' /\ ReturnInv' /\
        \A f \in Range(stack') :
          (f.op # "load" /\ FrameReady(f)') \/
          \E g \in Range(stack) : /\ g.op = "load" /\ f.op = "load" /\ f.step = g.step
                                  /\ f.path = g.path /\ f.at = g.at
    BY <1>4, <2>1, <2>2
  <2>4. ReadyInv'
    <3>1. \A f, g : /\ g.op = "load" /\ f.op = "load" /\ f.step = g.step
                    /\ f.path = g.path /\ f.at = g.at /\ FrameReady(g)'
                    => FrameReady(f)'
      BY DEF FrameReady
    <3>. QED
      BY <2>2, <2>3, <3>1 DEF ReadyInv
  <2>5. FilesInv'
    <3>1. content \in UNION Range(Contents)
      BY ModulatorAssumption DEF Range
    <3>. QED
      BY <1>1, <2>1, <3>1 DEF FilesInv
  <2>6. CacheInv' /\ ModulesInv' /\ HistoryInv'
    BY <1>1, <2>1 DEF CacheInv, ModulesInv, HistoryInv, Numbers
  <2>. QED
    BY <2>3, <2>4, <2>5, <2>6 DEF StateInv
<1>. QED
  BY <1>3, <1>5, <1>6

\* What is under a load waits for an evaluation.
LEMMA UnderLoad ==
  ASSUME FramesInv, stack # <<>>, Top.op \in {"load", "evaluate"}, NEW f \in Range(Under)
  PROVE  f.op = "evaluate" \/ (f.op = "load" /\ f.step = "evaluate")
<1>1. f.op # "create" /\ f.op # "link" /\ f \in Frame /\ (f.op = "load" => f.step = "evaluate")
  BY FramesUnder
<1>. QED
  BY <1>1, FrameKinds

\* The files, the cache and the modules are not touched.
LEMMA NothingMade ==
  ASSUME StateInv, UNCHANGED <<files, cache, modules>>
  PROVE  /\ FilesInv' /\ CacheInv' /\ ModulesInv' /\ Numbers' = Numbers
         /\ \A f : FrameRefers(f)' = FrameRefers(f)
<1>1. Numbers' = Numbers
  BY DEF Numbers
<1>. QED
  BY <1>1 DEF StateInv, FilesInv, CacheInv, ModulesInv, FrameRefers

\* A load is settled.
LEMMA LoadSettles ==
  ASSUME StateInv, TopIs("load"), NEW how \in {"resolved", "rejected"}, Settle(how),
         UNCHANGED <<files, cache, modules, ended>>, returned' = "none"
  PROVE  StateInv'
<1>1. stack # <<>> /\ Top.op = "load" /\ FramesInv /\ ReadyInv /\ HistoryInv
  BY DEF TopIs, StateInv
<1>2. /\ Under \in Seq(Frame) /\ Shape(Under) /\ Range(Under) \subseteq Range(stack)
      /\ Under # <<>> => Last(Under).op = "evaluate"
      /\ Top \in LoadFrame
  BY <1>1, TopFrame DEF Below
<1>3. /\ stack' = Under /\ outcome' = [settled |-> how, sound |-> Top.sound]
      /\ tainted' = (tainted \/ how = "rejected") /\ UNCHANGED unresolved
  BY DEF Settle
<1>4. FilesInv' /\ CacheInv' /\ ModulesInv' /\ \A f : FrameRefers(f)' = FrameRefers(f)
  BY NothingMade
<1>5. FramesInv'
  BY <1>1, <1>2, <1>3, <1>4 DEF FramesInv
<1>6. ReturnInv'
  BY <1>2, <1>3 DEF ReturnInv, Top
<1>7. ReadyInv'
  <2>1. \A f \in Range(Under) : f.op = "evaluate" \/ (f.op = "load" /\ f.step = "evaluate")
    BY <1>1, UnderLoad
  <2>2. \A f \in Range(Under) : FrameReady(f)
    BY <1>1, <1>2 DEF ReadyInv
  <2>3. \A f \in Range(Under) : FrameReady(f)'
    BY <2>1, <2>2, SameReady
  <2>. QED
    BY <1>3, <2>3 DEF ReadyInv
<1>8. HistoryInv'
  <2>1. Top.sound \in BOOLEAN
    BY <1>2 DEF LoadFrame
  <2>2. outcome' \in [settled : {"none", "resolved", "rejected"}, sound : BOOLEAN]
    BY <1>3, <2>1
  <2>3. tainted' \in BOOLEAN
    BY <1>3
  <2>. QED
    BY <1>1, <1>3, <2>2, <2>3 DEF HistoryInv
<1>. QED
  BY <1>4, <1>5, <1>6, <1>7, <1>8 DEF StateInv

\* The frame on top changes and keeps its kind.
LEMMA TopChanges ==
  ASSUME StateInv, stack # <<>>, UNCHANGED <<files, cache, modules, ended, history>>,
         NEW f \in Frame, stack' = Append(Under, f), f.op = Top.op,
         FrameRefers(f), FrameReady(f)', returned' = "none", returned # "failed",
         ~(f.op = "load" /\ f.step = "create")
  PROVE  StateInv'
<1>1. stack # <<>> /\ FramesInv /\ ReadyInv /\ HistoryInv /\ stack \in Seq(Frame) /\ Shape(stack)
  BY DEF StateInv, FramesInv
<1>2. /\ stack' \in Seq(Frame) /\ stack' # <<>> /\ Last(stack') = f
      /\ Range(stack') = Range(Under) \cup {f} /\ Shape(stack')
  BY <1>1, StackReplaced DEF Top, Under
<1>3. Range(Under) \subseteq Range(stack)
  BY <1>1, TopFrame
<1>4. FilesInv' /\ CacheInv' /\ ModulesInv' /\ \A g : FrameRefers(g)' = FrameRefers(g)
  BY NothingMade
<1>5. FramesInv'
  BY <1>1, <1>2, <1>3, <1>4 DEF FramesInv
<1>6. ReturnInv'
  BY <1>2 DEF ReturnInv, Top
<1>7. ReadyInv'
  <2>1. \A g \in Range(Under) : FrameReady(g)
    BY <1>1, <1>3 DEF ReadyInv
  <2>2. \A g \in Range(Under) : FrameReady(g)'
    BY <2>1, SameReady
  <2>. QED
    BY <1>2, <2>2 DEF ReadyInv
<1>8. HistoryInv'
  BY <1>1 DEF HistoryInv, history
<1>. QED
  BY <1>4, <1>5, <1>6, <1>7, <1>8 DEF StateInv

\* A module is ready, or has failed, and what requested it goes on.
LEMMA CreateReturns ==
  ASSUME StateInv, TopIs("create"), stack' = Under, returned' \in {"ok", "failed"},
         returned = "failed" => returned' = "failed",
         UNCHANGED <<files, cache, modules, ended, history>>
  PROVE  StateInv'
<1>1. stack # <<>> /\ Top.op = "create" /\ FramesInv /\ ReadyInv /\ HistoryInv
  BY DEF TopIs, StateInv
<1>2. /\ Under \in Seq(Frame) /\ Shape(Under) /\ Range(Under) \subseteq Range(stack)
      /\ Under # <<>> /\ Creating(Last(Under))
  BY <1>1, TopFrame DEF Below, Creating
<1>3. FilesInv' /\ CacheInv' /\ ModulesInv' /\ \A g : FrameRefers(g)' = FrameRefers(g)
  BY NothingMade
<1>4. FramesInv'
  BY <1>1, <1>2, <1>3 DEF FramesInv
<1>5. ReturnInv'
  BY <1>2 DEF ReturnInv, Top, Creating
<1>6. ReadyInv'
  <2>1. \A g \in Range(Under) : FrameReady(g)
    BY <1>1, <1>2 DEF ReadyInv
  <2>2. \A g \in Range(Under) : FrameReady(g)'
    BY <2>1, SameReady
  <2>. QED
    BY <2>2 DEF ReadyInv
<1>7. HistoryInv'
  BY <1>1 DEF HistoryInv, history
<1>. QED
  BY <1>3, <1>4, <1>5, <1>6, <1>7 DEF StateInv

\* The cache with one more module.
LEMMA CacheGrows ==
  ASSUME CacheInv, NEW p \in Paths, p \notin DOMAIN cache, NEW n,
         cache' = [q \in DOMAIN cache \cup {p} |-> IF q = p THEN n ELSE cache[q]]
  PROVE  /\ DOMAIN cache' = DOMAIN cache \cup {p} /\ cache'[p] = n
         /\ \A q \in DOMAIN cache : cache'[q] = cache[q]
         /\ Range(cache') = Range(cache) \cup {n}
<1>2. /\ DOMAIN cache' = DOMAIN cache \cup {p} /\ cache'[p] = n
      /\ \A q \in DOMAIN cache : cache'[q] = cache[q]
  OBVIOUS
<1>3. Range(cache') = Range(cache) \cup {n}
  BY <1>2 DEF Range
<1>. QED
  BY <1>2, <1>3

\* A new module.
LEMMA ModuleMade ==
  ASSUME StateInv, NEW p \in Paths, files[p] \notin {Bad, Missing}, Len(modules) < MaxModules
  PROVE  \E t \in Seq(Module) :
           /\ t = Append(modules, [path |-> p, requests |-> files[p], links |-> <<>>,
                                   status |-> "created"])
           /\ Len(t) = Len(modules) + 1 /\ Len(modules) \in Nat /\ Len(t) \in 1 .. MaxModules
           /\ t[Len(t)].requests \in Seq(Request) /\ Len(t[Len(t)].links) = 0
           /\ t[Len(t)].path = p /\ t[Len(t)].status = "created" /\ t[Len(t)].requests = files[p]
           /\ \A k \in Numbers : t[k] = modules[k]
<1>1. modules \in Seq(Module) /\ files[p] \in Contents[p]
  BY DEF StateInv, ModulesInv, FilesInv
<1>2. files[p] \in Seq(Request)
  BY <1>1, ModulatorAssumption DEF Request
<1>3. PICK m \in Module : /\ m = [path |-> p, requests |-> files[p], links |-> <<>>,
                                  status |-> "created"]
                         /\ m.path = p /\ m.requests = files[p] /\ m.links = <<>>
                         /\ m.status = "created"
  <2>1. files[p] \in (UNION Range(Contents)) \ {Bad}
    BY <1>1, ModulatorAssumption DEF Range
  <2>2. PICK r \in (UNION Range(Contents)) \ {Bad} : r = files[p]
    BY <2>1
  <2>3. PICK l \in Seq(1 .. MaxModules) : l = <<>>
    <3>1. <<>> \in Seq(1 .. MaxModules)
      OBVIOUS
    <3>. QED
      BY <3>1
  <2>4. PICK m : m = [path |-> p, requests |-> r, links |-> l, status |-> "created"]
    OBVIOUS
  <2>5. m \in Module /\ m.path = p /\ m.requests = r /\ m.links = l /\ m.status = "created"
    BY <2>4 DEF Module
  <2>. QED
    BY <2>2, <2>3, <2>4, <2>5
<1>4. PICK t \in Seq(Module) : t = Append(modules, m)
  BY <1>1, PushType
<1>5. /\ Len(t) = Len(modules) + 1 /\ Len(modules) \in Nat
      /\ t[Len(modules) + 1] = m /\ \A k \in 1 .. Len(modules) : t[k] = modules[k]
  BY <1>1, <1>4
<1>6. Len(t) \in 1 .. MaxModules
  BY <1>5, ModulatorAssumption
<1>7. Len(<<>>) = 0
  OBVIOUS
<1>. QED
  BY SMTT(30), <1>2, <1>3, <1>4, <1>5, <1>6, <1>7 DEF Numbers

\* CreateModule begins, on behalf of what is on top of the frames.
LEMMA CompileKeeps ==
  ASSUME StateInv, NEW p \in Paths, p \notin DOMAIN cache, files[p] # Missing,
         NEW frames \in Seq(Frame), frames # <<>>, Shape(frames), Creating(Last(frames)),
         returned = "none", UNCHANGED <<files, history>>,
         \A f \in Range(frames) :
           /\ FrameRefers(f)
           /\ FrameReady(f) \/ (f.op = "load" /\ f.step = "create" /\ f.path = p),
         Compile(p, frames)
  PROVE  StateInv'
<1>1. CacheInv /\ ModulesInv /\ FilesInv /\ HistoryInv
  BY DEF StateInv
<1>2. CASE files[p] = Bad
  <2>1. /\ returned' = "failed" /\ stack' = frames /\ UNCHANGED <<cache, modules, ended>>
    BY <1>2 DEF Compile
  <2>2. FilesInv' /\ CacheInv' /\ ModulesInv' /\ \A f : FrameRefers(f)' = FrameRefers(f)
    BY <2>1, NothingMade
  <2>3. FramesInv'
    BY <2>1, <2>2 DEF FramesInv
  <2>4. ReturnInv'
    BY <2>1 DEF ReturnInv, Top, Creating
  <2>5. ReadyInv'
    <3>1. \A f \in Range(frames) : FrameReady(f) => FrameReady(f)'
      BY <2>1, SameReady
    <3>2. \A f \in Range(frames) : f.op = "load" /\ f.step = "create" => FrameReady(f)'
      BY <2>1 DEF FrameReady
    <3>. QED
      BY <2>1, <3>1, <3>2 DEF ReadyInv
  <2>6. HistoryInv'
    BY <1>1, <2>1 DEF HistoryInv, history
  <2>. QED
    BY <2>2, <2>3, <2>4, <2>5, <2>6 DEF StateInv
<1>3. CASE files[p] # Bad
  <2>1. Len(modules) < MaxModules /\ files[p] \notin {Bad, Missing} /\ UNCHANGED returned
    BY <1>3 DEF Compile
  <2>2. PICK t \in Seq(Module) :
           /\ t = Append(modules, [path |-> p, requests |-> files[p], links |-> <<>>,
                                   status |-> "created"])
           /\ Len(t) = Len(modules) + 1 /\ Len(modules) \in Nat /\ Len(t) \in 1 .. MaxModules
           /\ t[Len(t)].requests \in Seq(Request) /\ Len(t[Len(t)].links) = 0
           /\ t[Len(t)].path = p /\ t[Len(t)].status = "created" /\ t[Len(t)].requests = files[p]
           /\ \A k \in Numbers : t[k] = modules[k]
    BY <2>1, ModuleMade
  <2>3. modules' = t /\ ended' = FALSE /\ returned' = "none"
    <3>1. modules' = Append(modules, [path |-> p, requests |-> files[p], links |-> <<>>,
                                      status |-> "created"])
      BY <1>3 DEF Compile
    <3>2. ended' = (p \in DOMAIN cache)
      BY <1>3 DEF Compile
    <3>3. ended' = FALSE
      <4>1. (p \in DOMAIN cache) = FALSE
        OBVIOUS
      <4>. QED
        BY <3>2, <4>1, Zenon
    <3>4. modules' = t
      BY <2>2, <3>1
    <3>. QED
      BY <2>1, <3>3, <3>4
  <2>4. /\ cache' = [q \in DOMAIN cache \cup {p} |-> IF q = p THEN Len(t) ELSE cache[q]]
        /\ stack' = Append(frames, [op |-> "create", at |-> Len(t), next |-> 1])
    <3>1. /\ cache' = [q \in DOMAIN cache \cup {p} |-> IF q = p THEN Len(modules') ELSE cache[q]]
          /\ stack' = Append(frames, [op |-> "create", at |-> Len(modules'), next |-> 1])
      BY <1>3 DEF Compile
    <3>. QED
      BY <2>3, <3>1
  <2>5. /\ DOMAIN cache' = DOMAIN cache \cup {p} /\ cache'[p] = Len(t)
        /\ \A q \in DOMAIN cache : cache'[q] = cache[q]
        /\ Range(cache') = Range(cache) \cup {Len(t)}
    BY ZenonT(40), <1>1, <2>4, CacheGrows
  <2>6. /\ Numbers \subseteq Numbers' /\ Len(t) \in Numbers' /\ Len(t) \notin Numbers
        /\ Numbers' = Numbers \cup {Len(t)}
    BY <2>2, <2>3 DEF Numbers
  <2>8. CacheInv'
    <3>1. DOMAIN cache' \subseteq Paths
      BY <1>1, <2>5 DEF CacheInv
    <3>2. ASSUME NEW q \in DOMAIN cache' PROVE cache'[q] \in Numbers' /\ t[cache'[q]].path = q
      <4>1. CASE q = p
        BY <2>2, <2>5, <2>6, <4>1
      <4>2. CASE q \in DOMAIN cache /\ q # p
        <5>1. cache[q] \in Numbers /\ modules[cache[q]].path = q /\ cache'[q] = cache[q]
          BY <1>1, <2>5, <4>2 DEF CacheInv
        <5>. QED
          BY <2>2, <2>6, <5>1
      <4>. QED
        BY <2>5, <3>2, <4>1, <4>2
    <3>. QED
      BY <2>3, <3>1, <3>2 DEF CacheInv
  <2>9. ModulesInv'
    <3>1. ASSUME NEW k \in Numbers'
          PROVE  /\ t[k].requests \in Seq(Request)
                 /\ \A i \in 1 .. Len(t[k].links) : t[k].links[i] \in Numbers'
      <4>1. CASE k \in Numbers
        BY <1>1, <2>2, <2>6, <4>1 DEF ModulesInv
      <4>2. CASE k = Len(t)
        BY <2>2, <4>2
      <4>. QED
        BY <2>6, <3>1, <4>1, <4>2
    <3>2. modules' \in Seq(Module) /\ Len(modules') <= MaxModules
      BY <2>2, <2>3, ModulatorAssumption
    <3>3. \A k \in Numbers' : /\ modules'[k].requests \in Seq(Request)
                              /\ \A i \in 1 .. Len(modules'[k].links) :
                                   modules'[k].links[i] \in Numbers'
      BY <2>3, <3>1
    <3>. QED
      BY <3>2, <3>3 DEF ModulesInv
  <2>10. PICK g : g = [op |-> "create", at |-> Len(t), next |-> 1]
    OBVIOUS
  <2>11. g \in Frame /\ g.op = "create" /\ g.at = Len(t) /\ stack' = Append(frames, g)
    BY <2>2, <2>4, <2>10 DEF Frame
  <2>12. /\ stack' \in Seq(Frame) /\ stack' # <<>> /\ Last(stack') = g
         /\ Range(stack') = Range(frames) \cup {g} /\ Shape(stack')
    <3>1. Below(Last(frames), g) /\ g \in Frame
      BY <2>11 DEF Below, Creating
    <3>. QED
      BY <2>11, <3>1, StackPushed
  <2>13. FramesInv'
    <3>1. \A f \in Range(frames) : FrameRefers(f)'
      BY <2>6 DEF FrameRefers
    <3>2. FrameRefers(g)'
      BY <2>6, <2>11 DEF FrameRefers
    <3>. QED
      BY <2>12, <3>1, <3>2 DEF FramesInv
  <2>14. ReturnInv'
    BY <2>3, <2>11, <2>12 DEF ReturnInv, Top
  <2>15. ReadyInv'
    <3>1. ASSUME NEW f \in Range(frames) PROVE FrameReady(f)'
      <4>1. CASE f.op = "load" /\ f.step = "create" /\ f.path = p
        BY <2>5, <4>1 DEF FrameReady
      <4>2. CASE FrameReady(f)
        <5>1. FrameRefers(f)
          OBVIOUS
        <5>2. f.op # "load" => modules'[f.at] = modules[f.at]
          BY <2>2, <2>3, <5>1 DEF FrameRefers
        <5>3. returned' # "failed" /\ returned # "failed"
          BY <2>3
        <5>. QED
          BY <2>5, <4>2, <5>2, <5>3 DEF FrameReady
      <4>. QED
        BY <4>1, <4>2
    <3>2. FrameReady(g)'
      BY <2>2, <2>3, <2>5, <2>11 DEF FrameReady
    <3>. QED
      BY <2>12, <3>1, <3>2 DEF ReadyInv
  <2>16. FilesInv' /\ HistoryInv'
    BY <1>1, <2>3 DEF FilesInv, HistoryInv, history
  <2>. QED
    BY <2>8, <2>9, <2>13, <2>14, <2>15, <2>16 DEF StateInv
<1>. QED
  BY <1>2, <1>3

\* A load looks for its module.
LEMMA FindKeeps ==
  ASSUME StateInv, Find
  PROVE  StateInv'
<1>1. /\ AtStep("find") /\ TopIs("load") /\ stack # <<>> /\ Top.op = "load" /\ Top.step = "find"
      /\ UNCHANGED files
  BY DEF Find, AtStep, TopIs
<1>2. FramesInv /\ ReadyInv /\ ReturnInv /\ CacheInv /\ ModulesInv
  BY DEF StateInv
<1>3. Top \in LoadFrame /\ Range(Under) \subseteq Range(stack) /\ stack \in Seq(Frame) /\ Shape(stack)
  BY <1>1, <1>2, TopFrame DEF FramesInv
<1>4. returned = "none"
  BY <1>1, <1>2 DEF ReturnInv, Creating
<1>5. Top.path \in Paths
  BY <1>3 DEF LoadFrame
<1>6. CASE Settle("rejected") /\ UNCHANGED <<cache, modules, returned, ended>>
  BY <1>1, <1>4, <1>6, LoadSettles
<1>7. CASE /\ Top.path \in DOMAIN cache
           /\ stack' = Append(Under, GoTo("link", cache[Top.path]))
           /\ UNCHANGED <<cache, modules, returned, ended, history>>
  <2>1. PICK n \in 0 .. MaxModules : n = cache[Top.path] /\ n \in Numbers
    <3>1. cache[Top.path] \in Numbers
      BY <1>2, <1>7 DEF CacheInv
    <3>2. Numbers \subseteq 0 .. MaxModules
      BY <1>2, SeqType, ModulatorAssumption DEF ModulesInv, Numbers
    <3>. QED
      BY <3>1, <3>2
  <2>2. "link" \in Steps
    BY DEF Steps
  <2>3. PICK f \in LoadFrame : /\ f = GoTo("link", n) /\ f \in Frame
                               /\ f.op = "load" /\ f.step = "link" /\ f.at = n /\ f.path = Top.path
    BY <1>3, <2>2, LoadMoves
  <2>4. FrameRefers(f) /\ FrameReady(f)'
    BY <1>7, <2>1, <2>3 DEF FrameRefers, FrameReady
  <2>5. stack' = Append(Under, f)
    BY <1>7, <2>1, <2>3
  <2>. QED
    BY <1>1, <1>4, <1>7, <2>3, <2>4, <2>5, TopChanges
<1>8. CASE /\ files[Top.path] # Missing /\ Top.path \notin DOMAIN cache
           /\ Compile(Top.path, Append(Under, GoTo("create", 0)))
           /\ UNCHANGED history
  <2>1. PICK p \in Paths : p = Top.path
    BY <1>5
  <2>2. "create" \in Steps /\ 0 \in 0 .. MaxModules
    BY ModulatorAssumption DEF Steps
  <2>3. PICK f \in LoadFrame : /\ f = GoTo("create", 0) /\ f \in Frame
                               /\ f.op = "load" /\ f.step = "create" /\ f.path = Top.path
    BY <1>3, <2>2, LoadMoves
  <2>4. PICK frames : frames = Append(Under, f)
    OBVIOUS
  <2>5. /\ frames \in Seq(Frame) /\ frames # <<>> /\ Last(frames) = f
        /\ Range(frames) = Range(Under) \cup {f} /\ Shape(frames)
    BY <1>1, <1>3, <2>3, <2>4, StackReplaced DEF Top, Under
  <2>6. Creating(Last(frames))
    BY <2>3, <2>5 DEF Creating
  <2>7. ASSUME NEW g \in Range(frames)
        PROVE  FrameRefers(g) /\ (FrameReady(g) \/ (g.op = "load" /\ g.step = "create" /\ g.path = p))
    <3>1. CASE g = f
      BY <2>1, <2>3, <3>1 DEF FrameRefers
    <3>2. CASE g \in Range(Under)
      BY <1>2, <1>3, <3>2 DEF FramesInv, ReadyInv
    <3>. QED
      BY <2>5, <3>1, <3>2
  <2>8. Compile(p, frames) /\ files[p] # Missing /\ p \notin DOMAIN cache
    BY <1>8, <2>1, <2>3, <2>4
  <2>. QED
    BY <1>1, <1>4, <1>8, <2>5, <2>6, <2>7, <2>8, CompileKeeps
<1>. QED
  BY <1>6, <1>7, <1>8 DEF Find

\* The frame on top goes on to its next request, or link.
LEMMA TopAdvances ==
  ASSUME Top \in PlainFrame
  PROVE  \E g \in PlainFrame :
           /\ g = [Top EXCEPT !.next = @ + 1] /\ g \in Frame
           /\ g.op = Top.op /\ g.at = Top.at /\ g.next = Top.next + 1
<1>1. PICK f \in PlainFrame : f = Top
  OBVIOUS
<1>2. PICK g : g = [f EXCEPT !.next = @ + 1]
  OBVIOUS
<1>3. /\ g \in PlainFrame /\ g \in Frame
      /\ g.op = f.op /\ g.at = f.at /\ g.next = f.next + 1
  BY <1>2, FrameAdvances
<1>. QED
  BY <1>1, <1>2, <1>3

\* CreateModule has returned to a load.
LEMMA CreatedKeeps ==
  ASSUME StateInv, Created
  PROVE  StateInv'
<1>1. /\ TopIs("load") /\ stack # <<>> /\ Top.op = "load" /\ Top.step = "create"
      /\ returned # "none" /\ returned' = "none" /\ UNCHANGED <<files, cache, modules, ended>>
  BY DEF Created, AtStep, TopIs
<1>2. FramesInv /\ ReadyInv /\ CacheInv /\ ModulesInv
  BY DEF StateInv
<1>3. Top \in LoadFrame /\ FrameReady(Top)
  BY <1>1, <1>2, TopFrame
<1>4. CASE Settle("rejected")
  BY <1>1, <1>4, LoadSettles
<1>5. CASE /\ returned = "ok" /\ UNCHANGED history
           /\ stack' = Append(Under, GoTo("link", cache[Top.path]))
  <2>1. Top.path \in DOMAIN cache
    BY <1>1, <1>3, <1>5 DEF FrameReady
  <2>2. PICK n \in 0 .. MaxModules : n = cache[Top.path] /\ n \in Numbers
    <3>1. cache[Top.path] \in Numbers
      BY <1>2, <2>1 DEF CacheInv
    <3>2. Numbers \subseteq 0 .. MaxModules
      BY <1>2, SeqType, ModulatorAssumption DEF ModulesInv, Numbers
    <3>. QED
      BY <3>1, <3>2
  <2>3. "link" \in Steps
    BY DEF Steps
  <2>4. PICK f \in LoadFrame : /\ f = GoTo("link", n) /\ f \in Frame
                               /\ f.op = "load" /\ f.step = "link" /\ f.at = n /\ f.path = Top.path
    BY <1>3, <2>3, LoadMoves
  <2>5. FrameRefers(f) /\ FrameReady(f)'
    BY <1>1, <2>1, <2>2, <2>4 DEF FrameRefers, FrameReady
  <2>6. stack' = Append(Under, f)
    BY <1>5, <2>2, <2>4
  <2>. QED
    BY <1>1, <1>5, <2>4, <2>5, <2>6, TopChanges
<1>. QED
  BY <1>4, <1>5 DEF Created

\* CreateModule looks at a request.
LEMMA CreateRequestKeeps ==
  ASSUME StateInv, CreateRequest
  PROVE  StateInv'
<1>1. /\ TopIs("create") /\ stack # <<>> /\ Top.op = "create" /\ returned = "none"
      /\ Top.next <= Len(modules[Top.at].requests) /\ UNCHANGED <<files, history>>
  BY DEF CreateRequest, TopIs
<1>2. FramesInv /\ ReadyInv /\ ModulesInv
  BY DEF StateInv
<1>3. Top \in PlainFrame /\ FrameReady(Top) /\ FrameRefers(Top) /\ stack \in Seq(Frame) /\ Shape(stack)
  BY <1>1, <1>2, TopFrame DEF FramesInv
<1>4. PICK request : request = modules[Top.at].requests[Top.next]
  OBVIOUS
<1>5. CASE returned' = "failed" /\ stack' = Under /\ UNCHANGED <<cache, modules, ended>>
  BY <1>1, <1>5, CreateReturns
<1>6. CASE /\ stack' = Append(Under, [Top EXCEPT !.next = @ + 1])
           /\ UNCHANGED <<cache, modules, returned, ended>>
  <2>1. PICK f \in PlainFrame : /\ f = [Top EXCEPT !.next = @ + 1] /\ f \in Frame
                                /\ f.op = Top.op /\ f.at = Top.at
    BY <1>3, TopAdvances
  <2>2. FrameRefers(f) /\ FrameReady(f)'
    BY <1>1, <1>3, <1>6, <2>1 DEF FrameRefers, FrameReady
  <2>3. stack' = Append(Under, f)
    BY <1>6, <2>1
  <2>. QED
    BY <1>1, <1>6, <2>1, <2>2, <2>3, TopChanges
<1>7. CASE /\ request # Http /\ files[request] # Missing /\ request \notin DOMAIN cache
           /\ Compile(request, stack)
  <2>1. request \in Request
    <3>1. Top.at \in Numbers
      BY <1>1, <1>3 DEF FrameRefers
    <3>2. modules[Top.at].requests \in Seq(Request)
      BY <1>2, <3>1 DEF ModulesInv
    <3>3. Top.next \in Nat \ {0}
      BY <1>3 DEF PlainFrame
    <3>. QED
      BY <1>1, <1>4, <3>2, <3>3
  <2>2. PICK p \in Paths : p = request
    BY <1>7, <2>1 DEF Request
  <2>3. Creating(Last(stack))
    BY <1>1 DEF Creating, Top
  <2>4. \A f \in Range(stack) : FrameRefers(f) /\ FrameReady(f)
    BY <1>2 DEF FramesInv, ReadyInv
  <2>. QED
    BY <1>1, <1>3, <1>7, <2>2, <2>3, <2>4, CompileKeeps
<1>. QED
  BY <1>4, <1>5, <1>6, <1>7 DEF CreateRequest, Cached

\* CreateModule has returned to CreateModule, or has come to its end.
LEMMA RequestCreatedKeeps ==
  ASSUME StateInv, RequestCreated
  PROVE  StateInv'
<1>1. /\ TopIs("create") /\ stack # <<>> /\ Top.op = "create"
      /\ UNCHANGED <<files, cache, modules, ended, history>>
  BY DEF RequestCreated, TopIs
<1>2. FramesInv /\ ReadyInv /\ ModulesInv
  BY DEF StateInv
<1>3. Top \in PlainFrame /\ FrameReady(Top) /\ FrameRefers(Top)
  BY <1>1, <1>2, TopFrame
<1>4. CASE /\ returned = "ok" /\ returned' = "none"
           /\ stack' = Append(Under, [Top EXCEPT !.next = @ + 1])
  <2>1. PICK f \in PlainFrame : /\ f = [Top EXCEPT !.next = @ + 1] /\ f \in Frame
                                /\ f.op = Top.op /\ f.at = Top.at
    BY <1>3, TopAdvances
  <2>2. FrameRefers(f) /\ FrameReady(f)'
    BY <1>1, <1>3, <1>4, <2>1 DEF FrameRefers, FrameReady
  <2>3. stack' = Append(Under, f)
    BY <1>4, <2>1
  <2>. QED
    BY <1>1, <1>4, <2>1, <2>2, <2>3, TopChanges
<1>5. CASE stack' = Under /\ returned' = returned /\ returned = "failed"
  BY <1>1, <1>5, CreateReturns
<1>6. CASE stack' = Under /\ returned' = "ok" /\ returned = "none"
  BY <1>1, <1>6, CreateReturns
<1>. QED
  BY <1>4, <1>5, <1>6 DEF RequestCreated

\* A step that changes the links or the statuses of modules, and leaves frames that wait
\* for an evaluation waiting.
LEMMA StatusStep ==
  ASSUME StateInv, UNCHANGED <<files, cache, returned, ended>>,
         modules' \in Seq(Module), Len(modules') = Len(modules),
         \A m \in Numbers :
           /\ modules'[m].path = modules[m].path /\ modules'[m].requests = modules[m].requests
           /\ \A i \in 1 .. Len(modules'[m].links) : modules'[m].links[i] \in Numbers
           /\ modules[m].status \notin {"created", "linking"} =>
                modules'[m].status \notin {"created", "linking"},
         stack' \in Seq(Frame), Shape(stack'),
         \A f \in Range(stack') :
           \/ f \in Range(stack) /\ (f.op = "evaluate" \/ (f.op = "load" /\ f.step = "evaluate"))
           \/ FrameRefers(f) /\ FrameReady(f)',
         returned = "none", stack' # <<>> => ~(Last(stack').op = "load" /\ Last(stack').step = "create"),
         tainted' \in BOOLEAN, unresolved' \in BOOLEAN,
         outcome' \in [settled : {"none", "resolved", "rejected"}, sound : BOOLEAN]
  PROVE  StateInv'
<1>1. FilesInv /\ CacheInv /\ ModulesInv /\ FramesInv /\ ReadyInv /\ HistoryInv
  BY DEF StateInv
<1>2. CacheInv' /\ ModulesInv' /\ Numbers' = Numbers
  BY <1>1, ModulesKept
<1>3. ASSUME NEW f \in Range(stack') PROVE FrameRefers(f)' /\ FrameReady(f)'
  <2>1. CASE f \in Range(stack) /\ (f.op = "evaluate" \/ (f.op = "load" /\ f.step = "evaluate"))
    <3>1. FrameRefers(f) /\ FrameReady(f)
      BY <1>1, <2>1 DEF FramesInv, ReadyInv
    <3>2. FrameReady(f)'
      BY <2>1, <3>1, QuietReady
    <3>. QED
      BY <1>2, <3>1, <3>2 DEF FrameRefers
  <2>2. CASE FrameRefers(f) /\ FrameReady(f)'
    BY <1>2, <2>2 DEF FrameRefers
  <2>. QED
    BY <2>1, <2>2
<1>4. FramesInv' /\ ReadyInv'
  BY <1>3 DEF FramesInv, ReadyInv
<1>5. ReturnInv'
  BY DEF ReturnInv, Top
<1>6. FilesInv' /\ HistoryInv'
  BY <1>1 DEF FilesInv, HistoryInv
<1>. QED
  BY <1>2, <1>4, <1>5, <1>6 DEF StateInv

\* A new frame for linking or evaluating a module.
LEMMA NewFrame ==
  ASSUME NEW op \in {"link", "evaluate"}, ModulesInv, NEW m \in Numbers
  PROVE  \E f \in PlainFrame : /\ f = [op |-> op, at |-> m, next |-> 1] /\ f \in Frame
                               /\ f.op = op /\ f.at = m
<1>1. m \in 1 .. MaxModules
  BY SeqType, ModulatorAssumption DEF ModulesInv, Numbers
<1>2. PICK k \in 1 .. MaxModules : k = m
  BY <1>1
<1>3. PICK f : f = [op |-> op, at |-> k, next |-> 1]
  OBVIOUS
<1>4. f \in PlainFrame /\ f \in Frame /\ f.op = op /\ f.at = k
  BY <1>3 DEF PlainFrame, Frame
<1>. QED
  BY <1>2, <1>3, <1>4

\* V8 begins to link.
LEMMA BeginLinkKeeps ==
  ASSUME StateInv, BeginLink
  PROVE  StateInv'
<1>1. /\ TopIs("load") /\ stack # <<>> /\ Top.op = "load" /\ Top.step = "link"
      /\ UNCHANGED <<files, cache, returned, ended, history>>
  BY DEF BeginLink, AtStep, TopIs
<1>2. FramesInv /\ ReadyInv /\ CacheInv /\ ModulesInv /\ ReturnInv /\ HistoryInv
  BY DEF StateInv
<1>3. /\ Top \in LoadFrame /\ FrameRefers(Top) /\ FrameReady(Top)
      /\ stack \in Seq(Frame) /\ Shape(stack) /\ Range(Under) \subseteq Range(stack)
  BY <1>1, <1>2, TopFrame DEF FramesInv
<1>4. returned = "none"
  BY <1>1, <1>2 DEF ReturnInv, Creating
<1>5. PICK m \in 0 .. MaxModules : m = Top.at /\ m \in Numbers
  BY <1>1, <1>3 DEF LoadFrame, FrameRefers
<1>6. "evaluate" \in Steps
  BY DEF Steps
<1>7. PICK f \in LoadFrame : /\ f = GoTo("evaluate", m) /\ f \in Frame
                             /\ f.op = "load" /\ f.step = "evaluate" /\ f.at = m
  BY <1>3, <1>6, LoadMoves
<1>8. CASE /\ modules[m].status = "created" /\ modules' = SetStatus({m}, "linking")
           /\ stack' = Append(Append(Under, f), [op |-> "link", at |-> m, next |-> 1])
  <2>1. /\ modules' \in Seq(Module) /\ Len(modules') = Len(modules)
        /\ \A n \in Numbers :
             /\ modules'[n].path = modules[n].path /\ modules'[n].requests = modules[n].requests
             /\ modules'[n].links = modules[n].links
             /\ modules'[n].status = IF n \in {m} THEN "linking" ELSE modules[n].status
    <3>1. "linking" \in Status
      BY DEF Status
    <3>. QED
      BY <1>2, <1>8, <3>1, StatusesSet DEF ModulesInv
  <2>2. PICK frames \in Seq(Frame) : /\ frames = Append(Under, f) /\ frames # <<>>
                                     /\ Last(frames) = f /\ Shape(frames)
                                     /\ Range(frames) = Range(Under) \cup {f}
    BY <1>1, <1>3, <1>7, StackReplaced DEF Top, Under
  <2>3. PICK g \in PlainFrame : /\ g = [op |-> "link", at |-> m, next |-> 1] /\ g \in Frame
                                /\ g.op = "link" /\ g.at = m
    BY <1>2, <1>5, NewFrame
  <2>4. Below(Last(frames), g) /\ stack' = Append(frames, g)
    BY <1>7, <1>8, <2>2, <2>3 DEF Below
  <2>5. /\ stack' \in Seq(Frame) /\ Shape(stack') /\ Last(stack') = g
        /\ Range(stack') = Range(frames) \cup {g}
    BY <2>2, <2>3, <2>4, StackPushed
  <2>6. ASSUME NEW h \in Range(stack')
        PROVE  \/ h \in Range(stack) /\ (h.op = "evaluate" \/ (h.op = "load" /\ h.step = "evaluate"))
               \/ FrameRefers(h) /\ FrameReady(h)'
    <3>1. CASE h \in Range(Under)
      BY <1>1, <1>2, <1>3, <3>1, UnderLoad
    <3>2. CASE h = f
      BY <1>5, <1>7, <3>2 DEF FrameRefers, FrameReady
    <3>3. CASE h = g
      <4>1. m \in Range(cache')
        <5>1. Top.path \in DOMAIN cache /\ m = cache[Top.path] /\ cache' = cache
          BY <1>1, <1>3, <1>5 DEF FrameReady
        <5>. QED
          BY <5>1 DEF Range
      <4>2. modules'[m].status = "linking"
        BY <1>5, <2>1
      <4>. QED
        BY <1>5, <2>3, <3>3, <4>1, <4>2 DEF FrameRefers, FrameReady
    <3>. QED
      BY <2>2, <2>5, <3>1, <3>2, <3>3
  <2>7. \A n \in Numbers :
          /\ modules'[n].path = modules[n].path /\ modules'[n].requests = modules[n].requests
          /\ \A i \in 1 .. Len(modules'[n].links) : modules'[n].links[i] \in Numbers
          /\ modules[n].status \notin {"created", "linking"} =>
               modules'[n].status \notin {"created", "linking"}
    <3> SUFFICES ASSUME NEW n \in Numbers
                 PROVE  /\ modules'[n].path = modules[n].path /\ modules'[n].requests = modules[n].requests
                        /\ \A i \in 1 .. Len(modules'[n].links) : modules'[n].links[i] \in Numbers
                        /\ modules[n].status \notin {"created", "linking"} =>
                             modules'[n].status \notin {"created", "linking"}
      OBVIOUS
    <3>1. n = m => modules[n].status = "created"
      BY <1>8
    <3>. QED
      BY <1>2, <2>1, <3>1 DEF ModulesInv
  <2>. QED
    BY <1>1, <1>2, <1>4, <2>1, <2>3, <2>5, <2>6, <2>7, StatusStep DEF HistoryInv, history
<1>9. CASE stack' = Append(Under, f) /\ UNCHANGED modules
  <2>1. FrameRefers(f) /\ FrameReady(f)'
    BY <1>5, <1>7 DEF FrameRefers, FrameReady
  <2>. QED
    BY <1>1, <1>4, <1>7, <1>9, <2>1, TopChanges
<1>. QED
  BY <1>5, <1>7, <1>8, <1>9 DEF BeginLink

\* While a module is evaluated, another gets another status, and what has been on the stack
\* stays there or is popped.
LEMMA EvaluationStep ==
  ASSUME StateInv, stack # <<>>, Top.op = "evaluate" \/ (Top.op = "load" /\ Top.step = "evaluate"),
         NEW m \in Numbers, NEW status \in {"evaluating", "evaluated", "errored"},
         modules' = SetStatus({m}, status),
         UNCHANGED <<files, cache, returned, ended, unresolved, outcome>>, tainted' \in BOOLEAN,
         stack' \in Seq(Frame), Shape(stack'),
         \A f \in Range(stack') :
           \/ f \in Range(stack)
           \/ (f.op = "evaluate" \/ (f.op = "load" /\ f.step = "evaluate")) /\ f.at \in Numbers
              /\ (f.op = "evaluate" => modules'[f.at].status \notin {"created", "linking"})
  PROVE  StateInv'
<1>1. FramesInv /\ ReadyInv /\ ModulesInv /\ ReturnInv /\ HistoryInv
  BY DEF StateInv
<1>2. returned = "none"
  BY <1>1 DEF ReturnInv, Creating
<1>3. status \in Status
  BY DEF Status
<1>4. /\ modules' \in Seq(Module) /\ Len(modules') = Len(modules)
      /\ \A n \in Numbers :
           /\ modules'[n].path = modules[n].path /\ modules'[n].requests = modules[n].requests
           /\ modules'[n].links = modules[n].links
           /\ modules'[n].status = IF n \in {m} THEN status ELSE modules[n].status
  BY <1>1, <1>3, StatusesSet DEF ModulesInv
<1>5. \A n \in Numbers :
        /\ modules'[n].path = modules[n].path /\ modules'[n].requests = modules[n].requests
        /\ \A i \in 1 .. Len(modules'[n].links) : modules'[n].links[i] \in Numbers
        /\ modules[n].status \notin {"created", "linking"} =>
             modules'[n].status \notin {"created", "linking"}
  BY <1>1, <1>4 DEF ModulesInv
<1>6. ASSUME NEW f \in Range(stack')
      PROVE  /\ f.op = "evaluate" \/ (f.op = "load" /\ f.step = "evaluate")
             /\ f \in Range(stack) \/ (FrameRefers(f) /\ FrameReady(f)')
  <2>1. CASE f \in Range(stack)
    BY <1>1, <2>1, QuietFrames
  <2>2. CASE /\ f.op = "evaluate" \/ (f.op = "load" /\ f.step = "evaluate")
             /\ f.at \in Numbers
             /\ f.op = "evaluate" => modules'[f.at].status \notin {"created", "linking"}
             /\ f \in Frame
    <3>1. FrameReady(f)'
      BY <2>2 DEF FrameReady
    <3>2. f.op # "load" => f.next \in Nat \ {0}
      BY <2>2, FrameKinds DEF PlainFrame
    <3>3. FrameRefers(f)
      BY <2>2 DEF FrameRefers
    <3>. QED
      BY <2>2, <3>1, <3>3
  <2>3. f \in Frame
    BY FramesOf
  <2>. QED
    BY <2>1, <2>2, <2>3
<1>7. stack' # <<>> => ~(Last(stack').op = "load" /\ Last(stack').step = "create")
  <2>1. stack' # <<>> => Last(stack') \in Range(stack')
    BY FramesOf
  <2>. QED
    BY <1>6, <2>1
<1>. QED
  BY <1>1, <1>2, <1>4, <1>5, <1>6, <1>7, StatusStep DEF HistoryInv

\* A module begins to be evaluated.
LEMMA BeginEvaluationKeeps ==
  ASSUME StateInv, stack # <<>>, Top.op = "evaluate" \/ (Top.op = "load" /\ Top.step = "evaluate"),
         NEW m \in Numbers, BeginEvaluation(m, stack),
         UNCHANGED <<files, cache, returned, ended, history>>
  PROVE  StateInv'
<1>1. FramesInv /\ ModulesInv /\ stack \in Seq(Frame) /\ Shape(stack) /\ HistoryInv
  BY DEF StateInv, FramesInv
<1>2. modules' = SetStatus({m}, "evaluating") /\ stack' = Append(stack, [op |-> "evaluate", at |-> m, next |-> 1])
  BY DEF BeginEvaluation
<1>3. PICK f \in PlainFrame : /\ f = [op |-> "evaluate", at |-> m, next |-> 1] /\ f \in Frame
                              /\ f.op = "evaluate" /\ f.at = m
  BY <1>1, NewFrame
<1>4. Below(Last(stack), f) /\ stack' = Append(stack, f)
  BY <1>2, <1>3 DEF Below, Top
<1>5. stack' \in Seq(Frame) /\ Shape(stack') /\ Range(stack') = Range(stack) \cup {f}
  BY <1>1, <1>3, <1>4, StackPushed
<1>6. modules'[m].status = "evaluating"
  <2>1. "evaluating" \in Status
    BY DEF Status
  <2>2. m \in {m}
    OBVIOUS
  <2>. QED
    BY <1>1, <1>2, <2>1, <2>2, StatusesSet DEF ModulesInv
<1>. QED
  BY <1>1, <1>2, <1>3, <1>5, <1>6, EvaluationStep DEF HistoryInv, history

\* V8 evaluates the module of a load, or the load is settled.
LEMMA LoadEvaluatesKeeps ==
  ASSUME StateInv, LoadEvaluates
  PROVE  StateInv'
<1>1. /\ TopIs("load") /\ stack # <<>> /\ Top.op = "load" /\ Top.step = "evaluate"
      /\ UNCHANGED <<files, cache, returned, ended>>
  BY DEF LoadEvaluates, AtStep, TopIs
<1>2. FramesInv /\ ReadyInv /\ ReturnInv
  BY DEF StateInv
<1>3. PICK m \in Numbers : m = Top.at
  BY <1>1, <1>2, TopFrame DEF FrameRefers
<1>4. CASE BeginEvaluation(m, stack) /\ UNCHANGED history
  BY <1>1, <1>4, BeginEvaluationKeeps
<1>5. CASE Settle(Verdict(modules[m].status)) /\ UNCHANGED modules
  <2>1. PICK how \in {"resolved", "rejected"} : how = Verdict(modules[m].status)
    BY DEF Verdict
  <2>2. returned' = "none"
    BY <1>1, <1>2 DEF ReturnInv, Creating
  <2>. QED
    BY <1>1, <1>5, <2>1, <2>2, LoadSettles
<1>. QED
  BY <1>3, <1>4, <1>5 DEF LoadEvaluates

\* V8 goes through the links of a module.
LEMMA EvaluateLinksKeeps ==
  ASSUME StateInv, EvaluateLinks
  PROVE  StateInv'
<1>1. /\ TopIs("evaluate") /\ stack # <<>> /\ Top.op = "evaluate"
      /\ Top.next <= Len(modules[Top.at].links)
      /\ UNCHANGED <<files, cache, returned, ended, history>>
  BY DEF EvaluateLinks, TopIs
<1>2. FramesInv /\ ReadyInv /\ ReturnInv /\ ModulesInv /\ HistoryInv
  BY DEF StateInv
<1>3. /\ Top \in PlainFrame /\ FrameReady(Top) /\ FrameRefers(Top)
      /\ Under \in Seq(Frame) /\ Shape(Under) /\ Range(Under) \subseteq Range(stack)
  BY <1>1, <1>2, TopFrame
<1>4. returned = "none"
  BY <1>1, <1>2 DEF ReturnInv, Creating
<1>5. PICK m \in Numbers : m = Top.at
  BY <1>1, <1>3 DEF FrameRefers
<1>6. PICK child \in Numbers : child = modules[m].links[Top.next]
  <2>1. Top.next \in 1 .. Len(modules[m].links)
    <3>1. Top.next \in Nat \ {0} /\ Top.next <= Len(modules[m].links)
      BY <1>1, <1>3, <1>5 DEF PlainFrame
    <3>2. modules[m] \in Module
      BY <1>2, SeqType DEF ModulesInv, Numbers
    <3>3. Len(modules[m].links) \in Nat
      BY <3>2, SeqType DEF Module
    <3>. QED
      BY <3>1, <3>3
  <2>. QED
    BY <1>2, <2>1 DEF ModulesInv
<1>7. CASE BeginEvaluation(child, stack)
  BY <1>1, <1>7, BeginEvaluationKeeps
<1>8. CASE modules' = SetStatus({m}, "errored") /\ stack' = Under
  BY <1>1, <1>2, <1>3, <1>8, EvaluationStep DEF HistoryInv, history
<1>9. CASE stack' = Append(Under, [Top EXCEPT !.next = @ + 1]) /\ UNCHANGED modules
  <2>1. PICK f \in PlainFrame : /\ f = [Top EXCEPT !.next = @ + 1] /\ f \in Frame
                                /\ f.op = Top.op /\ f.at = Top.at
    BY <1>3, TopAdvances
  <2>2. FrameRefers(f) /\ FrameReady(f)'
    BY <1>1, <1>3, <1>9, <2>1 DEF FrameRefers, FrameReady
  <2>3. stack' = Append(Under, f)
    BY <1>9, <2>1
  <2>. QED
    BY <1>1, <1>4, <1>9, <2>1, <2>2, <2>3, TopChanges
<1>. QED
  BY <1>5, <1>6, <1>7, <1>8, <1>9 DEF EvaluateLinks

\* The script of a module ends, or throws.
LEMMA ScriptEndsKeeps ==
  ASSUME StateInv, ScriptEnds
  PROVE  StateInv'
<1>1. /\ stack # <<>> /\ Top.op = "evaluate"
      /\ UNCHANGED <<files, cache, returned, ended, unresolved, outcome>>
  BY DEF ScriptEnds, ScriptRuns
<1>2. FramesInv /\ ReadyInv /\ HistoryInv /\ ModulesInv
  BY DEF StateInv
<1>3. /\ FrameRefers(Top)
      /\ Under \in Seq(Frame) /\ Shape(Under) /\ Range(Under) \subseteq Range(stack)
  BY <1>1, <1>2, TopFrame
<1>4. PICK m \in Numbers : m = Top.at
  BY <1>1, <1>3 DEF FrameRefers
<1>5. CASE modules' = SetStatus({m}, "evaluated") /\ stack' = Under /\ UNCHANGED tainted
  <2>1. tainted' \in BOOLEAN
    BY <1>2, <1>5 DEF HistoryInv
  <2>. QED
    BY <1>1, <1>3, <1>5, <2>1, EvaluationStep
<1>6. CASE modules' = SetStatus({m}, "errored") /\ stack' = Unsound(Under) /\ tainted' = TRUE
  <2>1. PICK s \in Seq(Frame) : s = Under
    BY <1>3
  <2>2. PICK t \in Seq(Frame) :
          /\ t = Unsound(s) /\ DOMAIN t = 1 .. Len(s) /\ (Shape(s) => Shape(t))
          /\ \A k \in 1 .. Len(s) :
               /\ t[k].op = s[k].op /\ t[k].at = s[k].at
               /\ s[k].op = "load" => t[k].step = s[k].step
               /\ s[k].op # "load" => t[k] = s[k]
    BY UnsoundFrames
  <2>3. ASSUME NEW f \in Range(t)
        PROVE  \/ f \in Range(stack)
               \/ f.op = "load" /\ f.step = "evaluate" /\ f.at \in Numbers
    <3>1. PICK k \in 1 .. Len(s) : f = t[k]
      BY <2>2 DEF Range
    <3>2. s[k] \in Range(s)
      BY SeqType DEF Range
    <3>3. s[k] \in Range(stack) /\ FrameRefers(s[k])
      BY <1>2, <1>3, <2>1, <3>2 DEF FramesInv
    <3>4. s[k].op = "evaluate" \/ (s[k].op = "load" /\ s[k].step = "evaluate")
      BY <1>1, <1>2, <3>3, QuietFrames
    <3>. QED
      BY <2>2, <3>1, <3>3, <3>4 DEF FrameRefers
  <2>4. Shape(t) /\ stack' = t
    BY <1>3, <1>6, <2>1, <2>2
  <2>5. \A f \in Range(stack') :
          \/ f \in Range(stack)
          \/ (f.op = "evaluate" \/ (f.op = "load" /\ f.step = "evaluate")) /\ f.at \in Numbers
             /\ (f.op = "evaluate" => modules'[f.at].status \notin {"created", "linking"})
    BY <2>3, <2>4
  <2>. QED
    BY <1>1, <1>6, <2>4, <2>5, EvaluationStep
<1>. QED
  BY <1>4, <1>5, <1>6 DEF ScriptEnds

\* The frames under a load wait for an evaluation.
LEMMA FramesBefore ==
  ASSUME FramesInv, NEW k \in 1 .. Len(stack), stack[k].op = "load"
  PROVE  \E t \in Seq(Frame) :
           /\ t = SubSeq(stack, 1, k - 1) /\ Shape(t)
           /\ \A f \in Range(t) : f \in Range(stack)
                                  /\ (f.op = "evaluate" \/ (f.op = "load" /\ f.step = "evaluate"))
<1>1. stack \in Seq(Frame) /\ Shape(stack) /\ Len(stack) \in Nat /\ DOMAIN stack = 1 .. Len(stack)
  BY SeqType DEF FramesInv
<1>2. PICK t \in Seq(Frame) : /\ t = SubSeq(stack, 1, k - 1) /\ Len(t) = k - 1
                              /\ \A i \in 1 .. k - 1 : t[i] = stack[i]
  <2>1. PICK n \in 0 .. Len(stack) : n = k - 1
    BY <1>1
  <2>2. SubSeq(stack, 1, n) \in Seq(Frame) /\ Len(SubSeq(stack, 1, n)) = n
        /\ \A i \in 1 .. n : SubSeq(stack, 1, n)[i] = stack[i]
    BY <1>1
  <2>. QED
    BY <2>1, <2>2
<1>3. DOMAIN t = 1 .. k - 1
  BY <1>2, SeqType
<1>4. Shape(t)
  <2>1. ASSUME NEW i \in 1 .. Len(t) - 1 PROVE Below(t[i], t[i + 1])
    <3>1. i \in 1 .. Len(stack) - 1 /\ t[i] = stack[i] /\ t[i + 1] = stack[i + 1]
      BY <1>1, <1>2
    <3>. QED
      BY <1>1, <3>1 DEF Shape
  <2>2. t # <<>> => t[1].op = "load"
    <3> SUFFICES ASSUME t # <<>> PROVE t[1].op = "load"
      OBVIOUS
    <3>1. 1 \in 1 .. k - 1 /\ stack # <<>>
      BY <1>1, <1>2, SeqType
    <3>. QED
      BY <1>1, <1>2, <3>1 DEF Shape
  <2>. QED
    BY <2>1, <2>2 DEF Shape
<1>5. ASSUME NEW f \in Range(t)
      PROVE  f \in Range(stack) /\ (f.op = "evaluate" \/ (f.op = "load" /\ f.step = "evaluate"))
  <2>1. PICK i \in 1 .. Len(t) : f = t[i] /\ i \in 1 .. k - 1
    BY <1>2, <1>3 DEF Range
  <2>2. f \in Range(stack)
    BY <1>1, <1>2, <2>1 DEF Range
  <2>3. Last(t).op = "evaluate"
    <3>1. k - 1 \in 1 .. Len(stack) - 1 /\ (k - 1) + 1 = k
      BY <1>1, <2>1
    <3>2. Below(stack[k - 1], stack[k])
      BY <1>1, <3>1 DEF Shape
    <3>3. Last(t) = stack[k - 1]
      BY <1>2, <3>1 DEF Last
    <3>. QED
      BY <3>2, <3>3 DEF Below
  <2>4. f \in Frame
    BY <2>1, SeqType
  <2>5. f.op \in {"load", "create", "link", "evaluate"} /\ (f.op = "load" => f.step \in Steps)
    BY <2>4, FrameKinds DEF LoadFrame
  <2>6. i = Len(t) => f = Last(t)
    BY <2>1 DEF Last
  <2>7. /\ t[i].op = "create" => Last(t).op = "create"
        /\ t[i].op = "link" => Last(t).op = "link"
        /\ t[i].op = "load" /\ t[i].step \in {"find", "link"} => i = Len(t)
        /\ t[i].op = "load" /\ t[i].step = "create" => i = Len(t) \/ Last(t).op = "create"
    BY <1>4, <2>1, ShapeAbove
  <2>. QED
    BY <2>1, <2>2, <2>3, <2>5, <2>6, <2>7 DEF Steps
<1>. QED
  BY <1>2, <1>4, <1>5

\* Something is always being done for a load.
LEMMA LoadingFrame ==
  ASSUME FramesInv, stack # <<>>
  PROVE  /\ Loading \in 1 .. Len(stack) /\ stack[Loading].op = "load"
         /\ \A k \in Loading + 1 .. Len(stack) : stack[k].op # "load"
<1>1. /\ stack \in Seq(Frame) /\ Shape(stack) /\ Len(stack) \in Nat \ {0} /\ DOMAIN stack = 1 .. Len(stack)
  BY SeqType DEF FramesInv
<1> DEFINE L == {k \in DOMAIN stack : stack[k].op = "load"}
           T == {Len(stack) - k : k \in L}
<1>2. 1 \in L
  BY <1>1 DEF Shape
<1>3. T \in SUBSET Nat /\ T # {}
  BY <1>1, <1>2
<1>4. PICK n \in T : \A i \in T : n <= i
  BY <1>3, LeastNatural
<1>5. PICK k \in L : n = Len(stack) - k
  BY <1>4
<1>6. ASSUME NEW i \in L PROVE k >= i
  <2>1. Len(stack) - i \in T
    OBVIOUS
  <2>2. Len(stack) - k <= Len(stack) - i
    BY <1>4, <1>5, <2>1
  <2>3. i \in Nat /\ k \in Nat
    BY <1>1
  <2>. QED
    BY <1>1, <2>2, <2>3
<1>7. Loading \in L /\ \A i \in L : Loading >= i
  BY <1>6 DEF Loading, Max
<1>. QED
  BY <1>1, <1>7

\* What is known while modules are linked, for the steps of it.
LEMMA LinkingFrames ==
  ASSUME StateInv, TopIs("link")
  PROVE  /\ stack # <<>> /\ Top.op = "link" /\ returned = "none"
         /\ Top \in PlainFrame /\ FrameRefers(Top)
         /\ Top.at \in Numbers /\ Top.at \in Range(cache) /\ modules[Top.at].status = "linking"
         /\ stack \in Seq(Frame) /\ Shape(stack) /\ Under \in Seq(Frame) /\ Shape(Under)
         /\ Under # <<>> /\ Below(Last(Under), Top) /\ Last(Under) \in Range(Under)
         /\ \A f \in Range(Under) :
              /\ f \in Range(stack) /\ FrameRefers(f) /\ FrameReady(f)
              /\ f.op \in {"link", "evaluate"} \/ (f.op = "load" /\ f.step = "evaluate")
         /\ \E g \in PlainFrame : /\ g = [Top EXCEPT !.next = @ + 1] /\ g \in Frame
                                  /\ g.op = "link" /\ g.at = Top.at /\ FrameRefers(g)
<1>1. stack # <<>> /\ Top.op = "link"
  BY DEF TopIs
<1>2. FramesInv /\ ReadyInv /\ ReturnInv
  BY DEF StateInv
<1>3. /\ Top \in PlainFrame /\ FrameRefers(Top) /\ FrameReady(Top)
      /\ stack \in Seq(Frame) /\ Shape(stack)
      /\ Under \in Seq(Frame) /\ Shape(Under) /\ Range(Under) \subseteq Range(stack)
      /\ Under # <<>> /\ Below(Last(Under), Top) /\ Last(Under) \in Range(Under)
  BY <1>1, <1>2, TopFrame DEF FramesInv
<1>4. returned = "none"
  BY <1>1, <1>2 DEF ReturnInv, Creating
<1>5. Top.at \in Numbers /\ Top.at \in Range(cache) /\ modules[Top.at].status = "linking"
  BY <1>1, <1>3 DEF FrameRefers, FrameReady
<1>6. ASSUME NEW f \in Range(Under)
      PROVE  /\ f \in Range(stack) /\ FrameRefers(f) /\ FrameReady(f)
             /\ f.op \in {"link", "evaluate"} \/ (f.op = "load" /\ f.step = "evaluate")
  <2>1. /\ f \in Frame /\ f \in Range(stack)
        /\ f.op # "create" /\ (f.op = "load" => f.step = "evaluate")
    BY <1>1, <1>2, FramesUnder
  <2>2. FrameRefers(f) /\ FrameReady(f)
    BY <1>2, <2>1 DEF FramesInv, ReadyInv
  <2>. QED
    BY <2>1, <2>2, FrameKinds
<1>7. PICK g \in PlainFrame : /\ g = [Top EXCEPT !.next = @ + 1] /\ g \in Frame
                              /\ g.op = "link" /\ g.at = Top.at
  BY <1>1, <1>3, TopAdvances
<1>8. FrameRefers(g)
  BY <1>5, <1>7 DEF FrameRefers
<1>. QED
  BY <1>1, <1>3, <1>4, <1>5, <1>6, <1>7, <1>8

\* A request is resolved to a module of the cache, which is linked next if it has not been.
LEMMA LinkResolves ==
  ASSUME StateInv, TopIs("link"), UNCHANGED <<files, cache, returned, ended, history>>,
         NEW child \in Numbers, child \in Range(cache),
         NEW frames, frames = Advanced,
         NEW t, t = Linked(Top.at, child),
         \/ /\ modules[child].status = "created"
            /\ modules' = Relabelled(t, child, "linking")
            /\ stack' = Append(frames, LinkFrame(child))
         \/ modules[child].status # "created" /\ modules' = t /\ stack' = frames
  PROVE  StateInv'
<1>1. ModulesInv /\ HistoryInv
  BY DEF StateInv
<1>2. /\ stack # <<>> /\ Top.op = "link" /\ returned = "none"
      /\ Top.at \in Numbers /\ Top.at \in Range(cache) /\ modules[Top.at].status = "linking"
      /\ stack \in Seq(Frame) /\ Shape(stack)
      /\ \A f \in Range(Under) :
           /\ f \in Range(stack) /\ FrameRefers(f) /\ FrameReady(f)
           /\ f.op \in {"link", "evaluate"} \/ (f.op = "load" /\ f.step = "evaluate")
  BY LinkingFrames
<1>3. PICK g \in PlainFrame : /\ g = [Top EXCEPT !.next = @ + 1] /\ g \in Frame
                              /\ g.op = "link" /\ g.at = Top.at /\ FrameRefers(g)
  BY LinkingFrames
<1>4. PICK m \in Numbers : m = Top.at
  BY <1>2
<1>5. /\ frames \in Seq(Frame) /\ frames # <<>> /\ Last(frames) = g /\ Shape(frames)
      /\ Range(frames) = Range(Under) \cup {g}
  <2>1. frames = Append(Front(stack), g)
    BY <1>3 DEF Advanced, Under
  <2>. QED
    BY ZenonT(40), <1>2, <1>3, <2>1, StackReplaced DEF Top, Under
<1>6. /\ t \in Seq(Module) /\ Len(t) = Len(modules)
      /\ \A n \in Numbers :
           /\ t[n].path = modules[n].path /\ t[n].requests = modules[n].requests
           /\ t[n].links = IF n = m THEN Append(modules[m].links, child) ELSE modules[n].links
           /\ t[n].status = modules[n].status
  <2>1. t = Linked(m, child)
    BY <1>4
  <2>2. modules \in Seq(Module) /\ Len(modules) <= MaxModules
    BY <1>1 DEF ModulesInv
  <2>3. PICK u \in Seq(Module) :
          /\ u = Linked(m, child) /\ Len(u) = Len(modules)
          /\ \A n \in Numbers :
               /\ u[n].path = modules[n].path /\ u[n].requests = modules[n].requests
               /\ u[n].links = IF n = m THEN Append(modules[m].links, child) ELSE modules[n].links
               /\ u[n].status = modules[n].status
    BY <2>2, LinkAdded
  <2>4. t = u
    BY <2>1, <2>3
  <2>. QED
    BY <2>3, <2>4
<1>7. \A n \in Numbers : \A i \in 1 .. Len(t[n].links) : t[n].links[i] \in Numbers
  <2> SUFFICES ASSUME NEW n \in Numbers, NEW i \in 1 .. Len(t[n].links) PROVE t[n].links[i] \in Numbers
    OBVIOUS
  <2>1. CASE n = m
    <3>1. PICK links \in Seq(1 .. MaxModules) : links = modules[m].links
      <4>1. modules[m] \in Module
        BY <1>1, SeqType DEF ModulesInv, Numbers
      <4>. QED
        BY <4>1 DEF Module
    <3>2. \A k \in 1 .. Len(links) : links[k] \in Numbers
      BY <1>1, <3>1 DEF ModulesInv
    <3>3. t[n].links = Append(links, child)
      BY <1>6, <2>1, <3>1
    <3>4. i \in 1 .. Len(links) + 1 /\ Len(links) \in Nat
      BY <3>3
    <3>5. /\ Append(links, child)[Len(links) + 1] = child
          /\ \A k \in 1 .. Len(links) : Append(links, child)[k] = links[k]
      BY PushPlaces
    <3>. QED
      BY <3>2, <3>3, <3>4, <3>5
  <2>2. CASE n # m
    <3>1. t[n].links = modules[n].links
      BY <1>6, <2>2
    <3>. QED
      BY <1>1, <3>1 DEF ModulesInv
  <2>. QED
    BY <2>1, <2>2
<1>8. CASE modules[child].status # "created" /\ modules' = t /\ stack' = frames
  <2>1. \A f \in Range(stack') : FrameRefers(f) /\ FrameReady(f)'
    <3>1. ASSUME NEW f \in Range(Under) PROVE FrameReady(f)'
      BY <1>2, <1>6, <1>8 DEF FrameReady, FrameRefers
    <3>2. FrameReady(g)'
      BY <1>2, <1>3, <1>6, <1>8 DEF FrameReady
    <3>. QED
      BY <1>2, <1>3, <1>5, <1>8, <3>1, <3>2
  <2>2. /\ modules' \in Seq(Module) /\ Len(modules') = Len(modules)
        /\ \A n \in Numbers :
             /\ modules'[n].path = modules[n].path /\ modules'[n].requests = modules[n].requests
             /\ \A i \in 1 .. Len(modules'[n].links) : modules'[n].links[i] \in Numbers
             /\ modules[n].status \notin {"created", "linking"} =>
                  modules'[n].status \notin {"created", "linking"}
    BY <1>6, <1>7, <1>8
  <2>. QED
    BY <1>1, <1>2, <1>3, <1>5, <1>8, <2>1, <2>2, StatusStep DEF HistoryInv, history
<1>9. CASE /\ modules[child].status = "created"
           /\ modules' = Relabelled(t, child, "linking")
           /\ stack' = Append(frames, LinkFrame(child))
  <2>1. PICK h \in PlainFrame : /\ h = LinkFrame(child) /\ h \in Frame
                                /\ h.op = "link" /\ h.at = child
    BY <1>1, NewFrame DEF LinkFrame
  <2>2. /\ stack' \in Seq(Frame) /\ Shape(stack') /\ Last(stack') = h
        /\ Range(stack') = Range(frames) \cup {h}
    <3>1. stack' = Append(frames, h) /\ Below(Last(frames), h)
      BY <1>3, <1>5, <1>9, <2>1 DEF Below
    <3>. QED
      BY <1>5, <2>1, <3>1, StackPushed
  <2>3. /\ modules' \in Seq(Module) /\ Len(modules') = Len(t)
        /\ \A n \in Numbers :
             /\ modules'[n].path = t[n].path /\ modules'[n].requests = t[n].requests
             /\ modules'[n].links = t[n].links
             /\ modules'[n].status = IF n = child THEN "linking" ELSE t[n].status
    <3>1. "linking" \in Status
      BY DEF Status
    <3>2. modules \in Seq(Module) /\ Len(t) = Len(modules) /\ t \in Seq(Module)
      BY <1>1, <1>6 DEF ModulesInv
    <3>3. PICK u \in Seq(Module) :
            /\ u = Relabelled(t, child, "linking") /\ Len(u) = Len(modules)
            /\ \A n \in Numbers :
                 /\ u[n].path = t[n].path /\ u[n].requests = t[n].requests
                 /\ u[n].links = t[n].links
                 /\ u[n].status = IF n = child THEN "linking" ELSE t[n].status
      BY SMTT(30), <3>1, <3>2, StatusOfOne
    <3>4. modules' = u
      BY <1>9, <3>3
    <3>. QED
      BY <3>2, <3>3, <3>4
  <2>4. ASSUME NEW f \in Range(stack') PROVE FrameRefers(f) /\ FrameReady(f)'
    <3>1. CASE f \in Range(Under)
      <4>1. f.op = "link" => modules'[f.at].status = "linking"
        BY <1>2, <1>6, <2>3, <3>1 DEF FrameReady, FrameRefers
      <4>2. f.op = "evaluate" => modules'[f.at].status \notin {"created", "linking"}
        BY SMTT(30), <1>2, <1>6, <1>9, <2>3, <3>1 DEF FrameReady, FrameRefers
      <4>. QED
        BY <1>2, <3>1, <4>1, <4>2 DEF FrameReady
    <3>2. CASE f = g
      BY <1>2, <1>3, <1>6, <2>3, <3>2 DEF FrameReady
    <3>3. CASE f = h
      <4>1. modules'[child].status = "linking"
        BY <2>3
      <4>. QED
        BY <2>1, <3>3, <4>1 DEF FrameReady, FrameRefers, PlainFrame
    <3>. QED
      BY <1>5, <2>2, <3>1, <3>2, <3>3
  <2>5. \A n \in Numbers :
             /\ modules'[n].path = modules[n].path /\ modules'[n].requests = modules[n].requests
             /\ \A i \in 1 .. Len(modules'[n].links) : modules'[n].links[i] \in Numbers
             /\ modules[n].status \notin {"created", "linking"} =>
                  modules'[n].status \notin {"created", "linking"}
    BY <1>6, <1>7, <1>9, <2>3
  <2>. QED
    BY <1>1, <1>2, <1>6, <2>1, <2>2, <2>3, <2>4, <2>5, StatusStep DEF HistoryInv, history
<1>. QED
  BY <1>8, <1>9

\* A request cannot be resolved: V8 gives up.
LEMMA LinkFails ==
  ASSUME StateInv, TopIs("link"), UNCHANGED <<files, cache, returned, ended>>,
         modules' = Unlinked,
         stack' = SubSeq(stack, 1, Loading - 1), unresolved' = TRUE, tainted' = TRUE,
         outcome' = [settled |-> "rejected", sound |-> stack[Loading].sound]
  PROVE  StateInv'
<1>1. ModulesInv /\ FramesInv
  BY DEF StateInv
<1>2. stack # <<>> /\ Top.op = "link" /\ returned = "none" /\ stack \in Seq(Frame)
  BY LinkingFrames
<1>3. PICK k \in 1 .. Len(stack) : k = Loading /\ stack[k].op = "load"
  BY <1>1, <1>2, LoadingFrame
<1>4. PICK t \in Seq(Frame) :
        /\ t = SubSeq(stack, 1, k - 1) /\ Shape(t)
        /\ \A f \in Range(t) : f \in Range(stack)
                               /\ (f.op = "evaluate" \/ (f.op = "load" /\ f.step = "evaluate"))
  BY <1>1, <1>3, FramesBefore
<1>5. stack' = t
  BY <1>3, <1>4
<1>6. /\ modules' \in Seq(Module) /\ Len(modules') = Len(modules)
      /\ \A m \in Numbers :
           /\ modules'[m].path = modules[m].path /\ modules'[m].requests = modules[m].requests
           /\ modules'[m].links = IF modules[m].status = "linking" THEN <<>> ELSE modules[m].links
           /\ modules'[m].status = IF modules[m].status = "linking" THEN "created" ELSE modules[m].status
  BY <1>1, LinksReset DEF ModulesInv, Unlinked
<1>7. ASSUME NEW m \in Numbers
      PROVE  /\ \A i \in 1 .. Len(modules'[m].links) : modules'[m].links[i] \in Numbers
             /\ modules[m].status \notin {"created", "linking"} =>
                  modules'[m].status \notin {"created", "linking"}
  <2>1. CASE modules[m].status = "linking"
    <3>1. modules'[m].links = <<>>
      BY <1>6, <2>1
    <3>2. 1 .. Len(modules'[m].links) = {}
      <4>1. PICK l \in Seq(Nat) : l = <<>>
        <5>1. <<>> \in Seq(Nat)
          OBVIOUS
        <5>. QED
          BY <5>1
      <4>2. 1 .. Len(l) = {}
        BY <4>1, SeqType
      <4>. QED
        BY <3>1, <4>1, <4>2
    <3>. QED
      BY <2>1, <3>2
  <2>2. CASE modules[m].status # "linking"
    BY <1>1, <1>6, <2>2 DEF ModulesInv
  <2>. QED
    BY <2>1, <2>2
<1>8. outcome' \in [settled : {"none", "resolved", "rejected"}, sound : BOOLEAN]
  <2>1. stack[k] \in LoadFrame
    BY <1>2, <1>3, SeqType, FrameKinds
  <2>2. PICK b \in BOOLEAN : b = stack[k].sound
    BY <2>1 DEF LoadFrame
  <2>. QED
    BY <1>3, <2>2
<1>9. stack' # <<>> => ~(Last(stack').op = "load" /\ Last(stack').step = "create")
  <2>1. t # <<>> => Last(t) \in Range(t)
    BY FramesOf
  <2>. QED
    BY <1>4, <1>5, <2>1
<1>10. \A f \in Range(stack') :
         f \in Range(stack) /\ (f.op = "evaluate" \/ (f.op = "load" /\ f.step = "evaluate"))
  BY <1>4, <1>5
<1>11. tainted' \in BOOLEAN /\ unresolved' \in BOOLEAN
  OBVIOUS
<1>. QED
  BY <1>2, <1>4, <1>5, <1>6, <1>7, <1>8, <1>9, <1>10, <1>11, StatusStep

\* All requests of a module have been resolved.
LEMMA LinkEnds ==
  ASSUME StateInv, TopIs("link"), UNCHANGED <<files, cache, returned, ended, history>>,
         stack' = Under,
         modules' = IF Last(Under).op = "load" THEN SetStatus(Linking, "linked") ELSE modules
  PROVE  StateInv'
<1>1. ModulesInv /\ HistoryInv
  BY DEF StateInv
<1>2. /\ returned = "none" /\ stack # <<>> /\ Top.op = "link"
      /\ Under \in Seq(Frame) /\ Shape(Under) /\ Under # <<>> /\ Below(Last(Under), Top)
      /\ \A f \in Range(Under) :
           /\ f \in Range(stack) /\ FrameRefers(f) /\ FrameReady(f)
           /\ f.op \in {"link", "evaluate"} \/ (f.op = "load" /\ f.step = "evaluate")
  BY LinkingFrames
<1>3. ~(Last(Under).op = "load" /\ Last(Under).step = "create")
  BY <1>2 DEF Below
<1>4. CASE Last(Under).op = "load"
  <2>1. modules' = SetStatus(Linking, "linked") /\ "linked" \in Status
    BY <1>4 DEF Status
  <2>2. /\ modules' \in Seq(Module) /\ Len(modules') = Len(modules)
        /\ \A m \in Numbers :
             /\ modules'[m].path = modules[m].path /\ modules'[m].requests = modules[m].requests
             /\ modules'[m].links = modules[m].links
             /\ modules'[m].status = IF m \in Linking THEN "linked" ELSE modules[m].status
    BY <1>1, <2>1, StatusesSet DEF ModulesInv
  <2>3. ASSUME NEW f \in Range(Under) PROVE f.op # "link"
    <3>1. DOMAIN Under = 1 .. Len(Under)
      BY <1>2, SeqType
    <3>2. PICK k \in 1 .. Len(Under) : f = Under[k]
      BY <3>1 DEF Range
    <3>. QED
      BY <1>2, <1>4, <3>2, ShapeAbove
  <2>4. \A m \in Numbers :
          /\ \A i \in 1 .. Len(modules'[m].links) : modules'[m].links[i] \in Numbers
          /\ modules[m].status \notin {"created", "linking"} =>
               modules'[m].status \notin {"created", "linking"}
    BY <1>1, <2>2 DEF ModulesInv
  <2>5. \A f \in Range(stack') :
          f \in Range(stack) /\ (f.op = "evaluate" \/ (f.op = "load" /\ f.step = "evaluate"))
    BY <1>2, <2>3
  <2>. QED
    BY <1>1, <1>2, <1>3, <2>2, <2>4, <2>5, StatusStep DEF HistoryInv, history
<1>5. CASE Last(Under).op # "load"
  <2>1. UNCHANGED modules
    BY <1>5
  <2>2. \A f \in Range(stack') : FrameRefers(f) /\ FrameReady(f)'
    BY <1>2, <2>1, SameReady
  <2>3. /\ modules' \in Seq(Module) /\ Len(modules') = Len(modules)
        /\ \A m \in Numbers :
             /\ modules'[m].path = modules[m].path /\ modules'[m].requests = modules[m].requests
             /\ \A i \in 1 .. Len(modules'[m].links) : modules'[m].links[i] \in Numbers
             /\ modules[m].status \notin {"created", "linking"} =>
                  modules'[m].status \notin {"created", "linking"}
    BY <1>1, <2>1 DEF ModulesInv
  <2>. QED
    BY <1>1, <1>2, <1>3, <2>2, <2>3, StatusStep DEF HistoryInv, history
<1>. QED
  BY <1>4, <1>5

\* V8 links: no DCHECK fails, as a module that is being linked is in the cache.
LEMMA LinkKeeps ==
  ASSUME StateInv, Link
  PROVE  StateInv'
<1>1. TopIs("link") /\ UNCHANGED <<files, cache, returned>>
  BY DEF Link
<1>2. Top.at \in Range(cache)
  BY <1>1, LinkingFrames
<1>3. CacheInv
  BY DEF StateInv
<1>4. PICK request : request = modules[Top.at].requests[Top.next]
  OBVIOUS
<1>5. PICK frames : frames = Advanced
  OBVIOUS
<1>6. CASE /\ request \in DOMAIN cache /\ UNCHANGED <<ended, history>>
           /\ \/ /\ modules[cache[request]].status = "created"
                 /\ modules' = Relabelled(Linked(Top.at, cache[request]), cache[request], "linking")
                 /\ stack' = Append(frames, LinkFrame(cache[request]))
              \/ /\ modules[cache[request]].status # "created"
                 /\ modules' = Linked(Top.at, cache[request]) /\ stack' = frames
  <2>1. PICK child \in Numbers : child = cache[request] /\ child \in Range(cache)
    BY <1>3, <1>6 DEF CacheInv, Range
  <2>2. PICK t : t = Linked(Top.at, child)
    OBVIOUS
  <2>3. \/ /\ modules[child].status = "created"
           /\ modules' = Relabelled(t, child, "linking")
           /\ stack' = Append(frames, LinkFrame(child))
        \/ modules[child].status # "created" /\ modules' = t /\ stack' = frames
    BY <1>6, <2>1, <2>2
  <2>. QED
    BY <1>1, <1>5, <1>6, <2>1, <2>2, <2>3, LinkResolves
<1>7. CASE /\ modules' = Unlinked
           /\ stack' = SubSeq(stack, 1, Loading - 1) /\ unresolved' = TRUE /\ tainted' = TRUE
           /\ outcome' = [settled |-> "rejected", sound |-> stack[Loading].sound]
           /\ UNCHANGED ended
  BY <1>1, <1>7, LinkFails
<1>8. CASE /\ stack' = Under /\ UNCHANGED <<ended, history>>
           /\ modules' = IF Last(Under).op = "load" THEN SetStatus(Linking, "linked") ELSE modules
  BY <1>1, <1>8, LinkEnds
<1>. QED
  BY <1>2, <1>4, <1>5, <1>6, <1>7, <1>8
  DEF Link, Resolved, Linked, Relabelled, LinkFrame, Advanced, Unlinked

\* The first state.
LEMMA InitKeeps ==
  ASSUME Init
  PROVE  StateInv
<1>1. /\ files \in [Paths -> UNION Range(Contents)] /\ \A p \in Paths : files[p] \in Contents[p]
      /\ cache = <<>> /\ modules = <<>> /\ stack = <<>> /\ returned = "none"
      /\ ended = FALSE /\ tainted = FALSE /\ unresolved = FALSE
      /\ outcome = [settled |-> "none", sound |-> TRUE]
  BY DEF Init
<1>2. DOMAIN cache = {}
  BY <1>1
<1>3. modules \in Seq(Module) /\ Len(modules) = 0 /\ stack \in Seq(Frame) /\ Len(stack) = 0
      /\ DOMAIN stack = {}
  BY <1>1
<1>4. Numbers = {} /\ Range(stack) = {} /\ 1 .. Len(stack) - 1 = {}
  BY <1>3 DEF Numbers, Range
<1>5. FilesInv
  BY <1>1 DEF FilesInv
<1>6. CacheInv
  BY <1>2 DEF CacheInv
<1>7. ModulesInv
  BY <1>3, <1>4, ModulatorAssumption DEF ModulesInv
<1>8. FramesInv /\ ReadyInv
  BY <1>1, <1>3, <1>4 DEF FramesInv, ReadyInv, Shape
<1>9. ReturnInv
  BY <1>1 DEF ReturnInv
<1>10. HistoryInv
  BY <1>1 DEF HistoryInv
<1>. QED
  BY <1>5, <1>6, <1>7, <1>8, <1>9, <1>10 DEF StateInv

\* Every step keeps the invariant.
LEMMA StepKeeps ==
  ASSUME StateInv, [Next]_vars
  PROVE  StateInv'
<1>1. CASE Find
  BY <1>1, FindKeeps
<1>2. CASE Created
  BY <1>2, CreatedKeeps
<1>3. CASE CreateRequest
  BY <1>3, CreateRequestKeeps
<1>4. CASE RequestCreated
  BY <1>4, RequestCreatedKeeps
<1>5. CASE BeginLink
  BY <1>5, BeginLinkKeeps
<1>6. CASE Link
  BY <1>6, LinkKeeps
<1>7. CASE LoadEvaluates
  BY <1>7, LoadEvaluatesKeeps
<1>8. CASE EvaluateLinks
  BY <1>8, EvaluateLinksKeeps
<1>9. CASE ScriptEnds
  BY <1>9, ScriptEndsKeeps
<1>10. CASE \/ \E p \in Paths : LoadModule(p)
            \/ \E prefix \in Clearable : ClearCache(prefix)
            \/ \E p \in Paths : \E content \in Contents[p] : Edit(p, content)
  BY <1>10, OutsideKeeps
<1>11. CASE UNCHANGED vars
  BY <1>11 DEF vars, StateInv, FilesInv, CacheInv, ModulesInv, FramesInv, ReturnInv, ReadyInv,
               HistoryInv, Numbers, FrameRefers, FrameReady, Top
<1>. QED
  BY <1>1, <1>2, <1>3, <1>4, <1>5, <1>6, <1>7, <1>8, <1>9, <1>10, <1>11 DEF Next, Step

\* Modules that have been compiled, the frames of what is in progress, and what has been
\* done for each of them fit together in every reachable state.
THEOREM StateInvariant == Spec => []StateInv
<1>1. Init => StateInv
  BY InitKeeps
<1>2. StateInv /\ [Next]_vars => StateInv'
  BY StepKeeps
<1>. QED
  BY <1>1, <1>2, PTL DEF Spec

\* The type invariant, and no DCHECK ever fails: nothing is compiled over a module of the
\* cache, and a module that is being linked is in the cache under its own path
\* (runtime_modulator.cc:203 and :105).
THEOREM ModulatorCorrect == Spec => []ModulatorInv
<1>1. StateInv => ModulatorInv
  <2> SUFFICES ASSUME StateInv PROVE ModulatorInv
    OBVIOUS
  <2>1. FilesInv /\ CacheInv /\ ModulesInv /\ FramesInv /\ ReturnInv /\ HistoryInv
    BY DEF StateInv
  <2>2. ModulatorTypeOK
    BY <2>1 DEF ModulatorTypeOK, FilesInv, CacheInv, ModulesInv, FramesInv, ReturnInv, HistoryInv
  <2>. QED
    BY <2>1, <2>2 DEF ModulatorInv, CacheInv, HistoryInv
<1>. QED
  BY <1>1, StateInvariant, PTL

(***************************************************************************)
(* How often a file is compiled.                                           *)
(***************************************************************************)
Compiled(p) == {m \in Numbers : modules[m].path = p}

\* A file that is not in the cache has been compiled once at most since each clearing.
OnceInv ==
  /\ clears \in Nat
  /\ \A p \in Paths : Cardinality(Compiled(p)) <= (IF p \in DOMAIN cache THEN 1 ELSE 0) + clears

\* Linking and evaluating make no modules.
LEMMA NoneMade ==
  ASSUME StateInv, BeginLink \/ Link \/ LoadEvaluates \/ EvaluateLinks \/ ScriptEnds
  PROVE  /\ UNCHANGED <<files, cache, clears>> /\ Len(modules') = Len(modules)
         /\ \A m \in Numbers : /\ modules'[m].path = modules[m].path
                               /\ modules'[m].requests = modules[m].requests
<1>1. ModulesInv
  BY DEF StateInv
<1>2. UNCHANGED <<files, cache, clears>>
  BY DEF BeginLink, Link, LoadEvaluates, EvaluateLinks, ScriptEnds, bounds
<1>3. ASSUME NEW these, NEW status \in Status, modules' = SetStatus(these, status)
      PROVE  /\ Len(modules') = Len(modules)
             /\ \A m \in Numbers : /\ modules'[m].path = modules[m].path
                                   /\ modules'[m].requests = modules[m].requests
  BY <1>1, <1>3, StatusesSet DEF ModulesInv
<1>4. \/ UNCHANGED modules
      \/ \E these : \E status \in Status : modules' = SetStatus(these, status)
      \/ Link
  BY DEF BeginLink, LoadEvaluates, EvaluateLinks, ScriptEnds, BeginEvaluation, Status
<1>5. CASE Link
  <2>1. TopIs("link")
    BY <1>5 DEF Link
  <2>2. PICK at \in Numbers : at = Top.at
    BY <2>1, LinkingFrames
  <2>3. PICK request : request = modules[Top.at].requests[Top.next]
    OBVIOUS
  <2>4. CASE /\ request \in DOMAIN cache
             /\ \/ modules' = Relabelled(Linked(Top.at, cache[request]), cache[request], "linking")
                \/ modules' = Linked(Top.at, cache[request])
    <3>1. PICK child \in Numbers : child = cache[request]
      BY <2>4 DEF StateInv, CacheInv
    <3>2. PICK t \in Seq(Module) :
            /\ t = Linked(at, child) /\ Len(t) = Len(modules)
            /\ \A n \in Numbers : t[n].path = modules[n].path /\ t[n].requests = modules[n].requests
      BY <1>1, LinkAdded DEF ModulesInv
    <3>3. "linking" \in Status
      BY DEF Status
    <3>4. PICK u \in Seq(Module) :
            /\ u = Relabelled(t, child, "linking") /\ Len(u) = Len(modules)
            /\ \A n \in Numbers :
                 /\ u[n].path = t[n].path /\ u[n].requests = t[n].requests
                 /\ u[n].links = t[n].links
                 /\ u[n].status = IF n = child THEN "linking" ELSE t[n].status
      <4>1. modules \in Seq(Module)
        BY <1>1 DEF ModulesInv
      <4>. QED
        BY SMTT(30), <3>2, <3>3, <4>1, StatusOfOne
    <3>5. modules' = t \/ modules' = u
      BY <2>2, <2>4, <3>1, <3>2, <3>4
    <3>. QED
      BY <1>2, <3>2, <3>4, <3>5
  <2>5. CASE modules' = Unlinked
    BY <1>1, <1>2, <2>5, LinksReset DEF ModulesInv, Unlinked
  <2>6. CASE \/ UNCHANGED modules
             \/ \E these : \E status \in Status : modules' = SetStatus(these, status)
    BY <1>2, <1>3, <2>6
  <2>. QED
    BY <1>5, <2>3, <2>4, <2>5, <2>6 DEF Link, Resolved, Linked, Relabelled, Unlinked, Status
<1>. QED
  BY <1>2, <1>3, <1>4, <1>5

\* A step that compiles nothing.
LEMMA SameCompiled ==
  ASSUME OnceInv, Len(modules') = Len(modules), UNCHANGED <<cache, clears>>,
         \A m \in Numbers : modules'[m].path = modules[m].path
  PROVE  OnceInv'
<1>1. Numbers' = Numbers
  BY DEF Numbers
<1>2. \A p : Compiled(p)' = Compiled(p)
  BY <1>1 DEF Compiled
<1>. QED
  BY <1>2 DEF OnceInv

\* Compiling a file that is not in the cache.
LEMMA CompileOnce ==
  ASSUME StateInv, OnceInv, NEW p \in Paths, p \notin DOMAIN cache, files[p] # Missing,
         NEW frames, Compile(p, frames), UNCHANGED clears
  PROVE  OnceInv'
<1>1. CASE files[p] = Bad
  BY <1>1, SameCompiled DEF Compile
<1>2. CASE files[p] # Bad
  <2>1. Len(modules) < MaxModules /\ files[p] \notin {Bad, Missing}
    BY <1>2 DEF Compile
  <2>2. PICK t \in Seq(Module) :
           /\ t = Append(modules, [path |-> p, requests |-> files[p], links |-> <<>>,
                                   status |-> "created"])
           /\ Len(t) = Len(modules) + 1 /\ Len(modules) \in Nat /\ t[Len(t)].path = p
           /\ \A k \in Numbers : t[k] = modules[k]
    BY <2>1, ModuleMade
  <2>3. modules' = t
    BY <1>2, <2>2 DEF Compile
  <2>4. DOMAIN cache' = DOMAIN cache \cup {p}
    BY <1>2 DEF Compile
  <2>5. Numbers' = Numbers \cup {Len(t)} /\ Len(t) \notin Numbers
    BY <2>2, <2>3 DEF Numbers
  <2>6. \A q : Compiled(q)' = IF q = p THEN Compiled(q) \cup {Len(t)} ELSE Compiled(q)
    BY <2>2, <2>3, <2>5 DEF Compiled
  <2>7. \A q : IsFiniteSet(Compiled(q)) /\ Len(t) \notin Compiled(q) /\ Cardinality(Compiled(q)) \in Nat
    <3> SUFFICES ASSUME NEW q
                 PROVE  IsFiniteSet(Compiled(q)) /\ Len(t) \notin Compiled(q)
                        /\ Cardinality(Compiled(q)) \in Nat
      OBVIOUS
    <3>1. IsFiniteSet(Numbers)
      BY <2>2, FS_Interval DEF Numbers
    <3>2. Compiled(q) \subseteq Numbers
      BY DEF Compiled
    <3>3. IsFiniteSet(Compiled(q))
      BY <3>1, <3>2, FS_Subset
    <3>. QED
      BY <2>5, <3>2, <3>3, FS_CardinalityType
  <2>8. Cardinality(Compiled(p) \cup {Len(t)}) = Cardinality(Compiled(p)) + 1
    BY <2>7, FS_AddElement
  <2>9. ASSUME NEW q \in Paths
        PROVE  Cardinality(Compiled(q)') <= (IF q \in DOMAIN cache' THEN 1 ELSE 0) + clears
    <3>1. CASE q = p
      <4>1. Cardinality(Compiled(p)) <= clears
        BY DEF OnceInv
      <4>2. Cardinality(Compiled(q)') = Cardinality(Compiled(p)) + 1
        BY <2>6, <2>8, <3>1
      <4>3. q \in DOMAIN cache' /\ clears \in Nat /\ Cardinality(Compiled(p)) \in Nat
        BY <2>4, <2>7, <3>1 DEF OnceInv
      <4>. QED
        BY <4>1, <4>2, <4>3
    <3>2. CASE q # p
      <4>1. Compiled(q)' = Compiled(q)
        BY <2>6, <3>2
      <4>2. q \in DOMAIN cache' <=> q \in DOMAIN cache
        BY <2>4, <3>2
      <4>. QED
        BY <4>1, <4>2 DEF OnceInv
    <3>. QED
      BY <3>1, <3>2
  <2>. QED
    BY <2>9 DEF OnceInv
<1>. QED
  BY <1>1, <1>2

\* Every step compiles at most one file, and one that is not in the cache.
LEMMA OnceKept ==
  ASSUME StateInv, OnceInv, [Next]_vars
  PROVE  OnceInv'
<1>1. FramesInv /\ ReadyInv /\ ModulesInv /\ CacheInv
  BY DEF StateInv
<1>2. CASE Find
  <2>1. stack # <<>> /\ Top.op = "load" /\ UNCHANGED clears
    BY <1>2 DEF Find, AtStep, TopIs, bounds
  <2>2. PICK p \in Paths : p = Top.path
    BY <1>1, <2>1, TopFrame DEF LoadFrame
  <2>3. CASE UNCHANGED <<cache, modules>>
    BY <2>1, <2>3, SameCompiled
  <2>4. CASE /\ files[p] # Missing /\ p \notin DOMAIN cache
             /\ Compile(p, Append(Under, GoTo("create", 0)))
    BY <2>1, <2>4, CompileOnce
  <2>. QED
    BY <1>2, <2>2, <2>3, <2>4 DEF Find
<1>3. CASE CreateRequest
  <2>1. stack # <<>> /\ Top.op = "create" /\ UNCHANGED clears
        /\ Top.next <= Len(modules[Top.at].requests)
    BY <1>3 DEF CreateRequest, TopIs, bounds
  <2>2. PICK request : request = modules[Top.at].requests[Top.next]
    OBVIOUS
  <2>3. CASE UNCHANGED <<cache, modules>>
    BY <2>1, <2>3, SameCompiled
  <2>4. CASE request # Http /\ files[request] # Missing /\ request \notin DOMAIN cache
             /\ Compile(request, stack)
    <3>1. request \in Paths
      <4>1. Top \in PlainFrame /\ FrameRefers(Top)
        BY <1>1, <2>1, TopFrame
      <4>2. Top.at \in Numbers /\ Top.next \in Nat \ {0}
        BY <2>1, <4>1 DEF FrameRefers, PlainFrame
      <4>3. modules[Top.at].requests \in Seq(Request)
        BY <1>1, <4>2 DEF ModulesInv
      <4>. QED
        BY <2>1, <2>2, <2>4, <4>2, <4>3 DEF Request
    <3>. QED
      BY <2>1, <2>4, <3>1, CompileOnce
  <2>. QED
    BY <1>3, <2>2, <2>3, <2>4 DEF CreateRequest, Cached
<1>4. CASE Created \/ RequestCreated \/ UNCHANGED vars
  <2>1. UNCHANGED <<cache, modules, clears>>
    BY <1>4 DEF Created, RequestCreated, vars, bounds
  <2>. QED
    BY <2>1, SameCompiled
<1>5. CASE BeginLink \/ Link \/ LoadEvaluates \/ EvaluateLinks \/ ScriptEnds
  BY <1>5, NoneMade, SameCompiled
<1>6. CASE \/ \E p \in Paths : LoadModule(p)
           \/ \E p \in Paths : \E content \in Contents[p] : Edit(p, content)
  <2>1. UNCHANGED <<cache, modules, clears>>
    BY <1>6 DEF LoadModule, Edit
  <2>. QED
    BY <2>1, SameCompiled
<1>7. ASSUME NEW prefix \in Clearable, ClearCache(prefix) PROVE OnceInv'
  <2>1. UNCHANGED modules /\ clears' = clears + 1
    BY <1>7 DEF ClearCache
  <2>2. \A p : Compiled(p)' = Compiled(p)
    BY <2>1 DEF Compiled, Numbers
  <2>3. ASSUME NEW p \in Paths
        PROVE  Cardinality(Compiled(p)) <= (IF p \in DOMAIN cache' THEN 1 ELSE 0) + (clears + 1)
    <3>1. Len(modules) \in Nat
      BY <1>1, SeqType DEF ModulesInv
    <3>2. IsFiniteSet(Numbers) /\ Compiled(p) \subseteq Numbers
      BY <3>1, FS_Interval DEF Numbers, Compiled
    <3>3. Cardinality(Compiled(p)) \in Nat
      BY <3>2, FS_Subset, FS_CardinalityType
    <3>4. clears \in Nat /\ Cardinality(Compiled(p)) <= 1 + clears
      BY <3>3 DEF OnceInv
    <3>. QED
      BY <3>3, <3>4
  <2>. QED
    BY <2>1, <2>2, <2>3 DEF OnceInv
<1>. QED
  BY <1>2, <1>3, <1>4, <1>5, <1>6, <1>7 DEF Next, Step

\* A file is compiled, and its script run, once, and once more at most each time the cache
\* is cleared, however loads and requests are nested (runtime_modulator.cc:143, 225).
THEOREM FilesCompiledOnce == Spec => []CompiledOnce
<1>1. Init => OnceInv
  <2> SUFFICES ASSUME Init PROVE OnceInv
    OBVIOUS
  <2>1. modules = <<>> /\ clears = 0
    BY DEF Init
  <2>2. Numbers = {}
    BY <2>1 DEF Numbers
  <2>3. \A p : Compiled(p) = {}
    BY <2>2 DEF Compiled
  <2>4. \A p : Cardinality(Compiled(p)) = 0
    BY <2>3, FS_EmptySet
  <2>5. \A p : 0 <= (IF p \in DOMAIN cache THEN 1 ELSE 0) + 0
    OBVIOUS
  <2>. QED
    BY <2>1, <2>4, <2>5 DEF OnceInv
<1>2. StateInv /\ OnceInv /\ [Next]_vars => OnceInv'
  BY OnceKept
<1>3. StateInv /\ OnceInv => CompiledOnce
  <2> SUFFICES ASSUME StateInv, OnceInv, NEW p \in Paths
               PROVE  Cardinality({m \in DOMAIN modules : modules[m].path = p}) <= 1 + clears
    BY DEF CompiledOnce
  <2>1. modules \in Seq(Module)
    BY DEF StateInv, ModulesInv
  <2>2. DOMAIN modules = Numbers /\ Len(modules) \in Nat
    BY <2>1, SeqType DEF Numbers
  <2>3. {m \in DOMAIN modules : modules[m].path = p} = Compiled(p)
    BY <2>2 DEF Compiled
  <2>4. IsFiniteSet(Numbers) /\ Compiled(p) \subseteq Numbers
    BY <2>2, FS_Interval DEF Numbers, Compiled
  <2>5. Cardinality(Compiled(p)) \in Nat
    BY <2>4, FS_Subset, FS_CardinalityType
  <2>6. /\ clears \in Nat
        /\ Cardinality(Compiled(p)) <= (IF p \in DOMAIN cache THEN 1 ELSE 0) + clears
    BY DEF OnceInv
  <2>7. Cardinality(Compiled(p)) <= 1 + clears
    BY <2>5, <2>6
  <2>. QED
    BY <2>3, <2>7
<1>. QED
  BY <1>1, <1>2, <1>3, StateInvariant, PTL DEF Spec

(***************************************************************************)
(* The frames a step leaves, and the innermost load.                       *)
(***************************************************************************)
Inner(frames) == frames[Max({k \in DOMAIN frames : frames[k].op = "load"})]

\* Pushing and popping undo each other.
LEMMA PushedPopped ==
  ASSUME NEW S, NEW s \in Seq(S), NEW e \in S
  PROVE  /\ Front(Append(s, e)) = s
         /\ s # <<>> => s = Append(Front(s), Last(s))
<1>0. PICK t \in Seq(S) : t = Append(s, e)
  BY PushType
<1>1. /\ Len(t) = Len(s) + 1 /\ Len(s) \in Nat
      /\ t[Len(s) + 1] = e /\ \A k \in 1 .. Len(s) : t[k] = s[k]
  BY <1>0, Pushed
<1>2. t # <<>>
  BY <1>0, Pushed
<1>3. PICK u \in Seq(S) : /\ u = Front(t) /\ Len(u) = Len(t) - 1
                          /\ \A k \in 1 .. Len(t) - 1 : u[k] = t[k]
  BY <1>2, FrontPlaces
<1>4. u = s
  BY <1>1, <1>3, SameSeq
<1>5. ASSUME s # <<>> PROVE s = Append(Front(s), Last(s))
  <2>1. PICK v \in Seq(S) : /\ v = Front(s) /\ Len(v) = Len(s) - 1
                            /\ \A k \in 1 .. Len(s) - 1 : v[k] = s[k]
    BY <1>5, FrontPlaces
  <2>2. Last(s) = s[Len(s)] /\ Last(s) \in S
    BY <1>5, TopOf
  <2>w. PICK w \in Seq(S) : w = Append(v, Last(s))
    BY <2>2, PushType
  <2>3. /\ Len(w) = Len(v) + 1 /\ w[Len(v) + 1] = Last(s)
        /\ \A k \in 1 .. Len(v) : w[k] = v[k]
    BY <2>2, <2>w, Pushed
  <2>4. Len(w) = Len(s)
    BY <1>1, <2>1, <2>3
  <2>5. ASSUME NEW k \in 1 .. Len(s) PROVE w[k] = s[k]
    <3>1. CASE k = Len(s)
      BY <1>1, <2>1, <2>2, <2>3, <3>1
    <3>2. CASE k # Len(s)
      <4>1. k \in 1 .. Len(v) /\ k \in 1 .. Len(s) - 1
        BY <1>1, <2>1, <3>2
      <4>. QED
        BY <2>1, <2>3, <4>1
    <3>. QED
      BY <3>1, <3>2
  <2>6. w = s
    BY <2>4, <2>5, SameSeq
  <2>. QED
    BY <2>1, <2>w, <2>6
<1>. QED
  BY <1>0, <1>3, <1>4, <1>5

\* The innermost load is the one with none above it.
LEMMA InnerPlace ==
  ASSUME NEW s \in Seq(Frame)
  PROVE  /\ \A k \in 1 .. Len(s) :
              s[k].op = "load" /\ (\A j \in k + 1 .. Len(s) : s[j].op # "load") => Inner(s) = s[k]
         /\ Shape(s) /\ s # <<>> =>
              \E k \in 1 .. Len(s) : /\ s[k].op = "load" /\ Inner(s) = s[k]
                                     /\ k = Max({i \in DOMAIN s : s[i].op = "load"})
                                     /\ \A j \in k + 1 .. Len(s) : s[j].op # "load"
<1>1. Len(s) \in Nat /\ DOMAIN s = 1 .. Len(s)
  BY SeqType
<1> DEFINE L == {k \in DOMAIN s : s[k].op = "load"}
           T == {Len(s) - k : k \in L}
<1>2. ASSUME NEW k \in L, \A i \in L : k >= i PROVE Max(L) = k
  <2>1. Max(L) \in L /\ \A i \in L : Max(L) >= i
    BY <1>2 DEF Max
  <2>2. Max(L) >= k /\ k >= Max(L)
    BY <1>2, <2>1
  <2>3. Max(L) \in Nat /\ k \in Nat
    BY <1>1, <2>1
  <2>. QED
    BY <2>2, <2>3
<1>3. ASSUME NEW k \in 1 .. Len(s), s[k].op = "load", \A j \in k + 1 .. Len(s) : s[j].op # "load"
      PROVE  Inner(s) = s[k]
  <2>1. k \in L
    BY <1>1, <1>3
  <2>2. ASSUME NEW i \in L PROVE k >= i
    <3>1. i \in 1 .. Len(s) /\ i \notin k + 1 .. Len(s)
      BY <1>1, <1>3
    <3>. QED
      BY <1>1, <3>1
  <2>3. Max(L) = k
    BY <1>2, <2>1, <2>2
  <2>. QED
    BY <2>3 DEF Inner
<1>4. ASSUME Shape(s), s # <<>>
      PROVE  \E k \in 1 .. Len(s) : /\ s[k].op = "load" /\ Inner(s) = s[k] /\ k = Max(L)
                                    /\ \A j \in k + 1 .. Len(s) : s[j].op # "load"
  <2>1. 1 \in L
    BY <1>1, <1>4, SeqType DEF Shape
  <2>2. T \in SUBSET Nat /\ T # {}
    BY <1>1, <2>1
  <2>3. PICK n \in T : \A i \in T : n <= i
    BY <2>2, LeastNatural
  <2>4. PICK k \in L : n = Len(s) - k
    BY <2>3
  <2>5. ASSUME NEW i \in L PROVE k >= i
    <3>1. Len(s) - i \in T
      OBVIOUS
    <3>2. Len(s) - k <= Len(s) - i
      BY <2>3, <2>4, <3>1
    <3>3. i \in Nat /\ k \in Nat
      BY <1>1
    <3>. QED
      BY <1>1, <3>2, <3>3
  <2>6. \A j \in k + 1 .. Len(s) : s[j].op # "load"
    <3> SUFFICES ASSUME NEW j \in k + 1 .. Len(s), s[j].op = "load" PROVE FALSE
      OBVIOUS
    <3>1. j \in L
      BY <1>1
    <3>. QED
      BY <1>1, <2>5, <3>1
  <2>7. Max(L) = k
    BY <1>2, <2>5
  <2>8. Inner(s) = s[k]
    BY <2>7 DEF Inner
  <2>. QED
    BY <1>1, <2>6, <2>7, <2>8
<1>. QED
  BY <1>3, <1>4

\* What happens to the innermost load.
LEMMA InnerMoves ==
  ASSUME NEW s \in Seq(Frame), Shape(s), NEW f \in Frame
  PROVE  /\ f.op = "load" => Inner(Append(s, f)) = f
         /\ f.op # "load" /\ s # <<>> => Inner(Append(s, f)) = Inner(s)
         /\ s # <<>> /\ Last(s).op # "load" => Front(s) # <<>> /\ Inner(Front(s)) = Inner(s)
<1>1. ASSUME NEW r \in Seq(Frame), Shape(r), NEW g \in Frame
      PROVE  /\ g.op = "load" => Inner(Append(r, g)) = g
             /\ g.op # "load" /\ r # <<>> => Inner(Append(r, g)) = Inner(r)
  <2>t. PICK t \in Seq(Frame) : t = Append(r, g)
    BY <1>1, PushType
  <2>1. /\ Len(t) = Len(r) + 1 /\ Len(r) \in Nat
        /\ t[Len(r) + 1] = g /\ \A k \in 1 .. Len(r) : t[k] = r[k]
    BY <1>1, <2>t, Pushed
  <2>2. ASSUME g.op = "load" PROVE Inner(t) = g
    <3>1. Len(t) \in 1 .. Len(t) /\ t[Len(t)].op = "load" /\ \A j \in Len(t) + 1 .. Len(t) : FALSE
      BY <2>1, <2>2
    <3>2. Inner(t) = t[Len(t)]
      BY <3>1, InnerPlace
    <3>. QED
      BY <2>1, <3>2
  <2>3. ASSUME g.op # "load", r # <<>> PROVE Inner(t) = Inner(r)
    <3>1. PICK k \in 1 .. Len(r) : /\ r[k].op = "load" /\ Inner(r) = r[k]
                                   /\ \A j \in k + 1 .. Len(r) : r[j].op # "load"
      BY <1>1, <2>3, InnerPlace
    <3>2. k \in 1 .. Len(t) /\ t[k].op = "load" /\ t[k] = r[k]
      BY <2>1, <3>1
    <3>3. ASSUME NEW j \in k + 1 .. Len(t) PROVE t[j].op # "load"
      <4>1. CASE j = Len(r) + 1
        BY <2>1, <2>3, <4>1
      <4>2. CASE j # Len(r) + 1
        <5>1. j \in k + 1 .. Len(r) /\ j \in 1 .. Len(r)
          BY <2>1, <3>1, <4>2
        <5>. QED
          BY <2>1, <3>1, <5>1
      <4>. QED
        BY <4>1, <4>2
    <3>4. Inner(t) = t[k]
      BY <3>2, <3>3, InnerPlace
    <3>. QED
      BY <3>1, <3>2, <3>4
  <2>. QED
    BY <2>t, <2>2, <2>3
<1>2. ASSUME s # <<>>, Last(s).op # "load" PROVE Front(s) # <<>> /\ Inner(Front(s)) = Inner(s)
  <2>1. PICK r \in Seq(Frame) : r = Front(s) /\ Shape(r) /\ r # <<>>
    BY <1>2, ShapePopped, TopOf
  <2>2. PICK g \in Frame : g = Last(s)
    BY <1>2, TopOf
  <2>3. s = Append(r, g)
    BY <1>2, <2>1, <2>2, PushedPopped
  <2>4. Inner(Append(r, g)) = Inner(r)
    BY <1>1, <1>2, <2>1, <2>2
  <2>. QED
    BY <2>1, <2>3, <2>4
<1>. QED
  BY <1>1, <1>2

\* The stack after a frame is popped.
LEMMA StackPopped ==
  ASSUME FramesInv, stack # <<>>, stack' = Under
  PROVE  /\ Range(stack') = Range(Under) /\ Range(Under) \subseteq Range(stack)
         /\ Range(Under') \subseteq Range(Under)
         /\ stack' # <<>> => Top' \in Range(Under) /\ Below(Top', Top)
         /\ Top.op # "load" => stack' # <<>> /\ Inner(stack') = Inner(stack)
<1>1. stack \in Seq(Frame) /\ Shape(stack)
  BY DEF FramesInv
<1>2. PICK u \in Seq(Frame) : u = Under
  BY <1>1, TopOf DEF Under
<1>3. Range(u) \subseteq Range(stack) /\ (u # <<>> => Below(Last(u), Top))
  BY <1>1, <1>2, FramesOf, ShapePopped DEF Under, Top
<1>4. u # <<>> => Last(u) \in Range(u)
  BY FramesOf
<1>5. Range(Front(u)) \subseteq Range(u)
  <2>1. CASE u # <<>>
    BY <2>1, FramesOf
  <2>2. CASE u = <<>>
    <3>1. \A k : k \notin 1 .. (0 - 1)
      OBVIOUS
    <3>2. Len(u) = 0
      BY <2>2, SeqType
    <3>3. Front(u) = [k \in 1 .. (0 - 1) |-> u[k]]
      BY <3>2 DEF Front
    <3>. QED
      BY <3>1, <3>3 DEF Range
  <2>. QED
    BY <2>1, <2>2
<1>6. Top.op # "load" => u # <<>> /\ Inner(u) = Inner(stack)
  <2>1. \E f : f \in Frame
    BY <1>1, TopOf
  <2>. QED
    BY <1>1, <1>2, <2>1, InnerMoves DEF Top, Under
<1>. QED
  BY <1>2, <1>3, <1>4, <1>5, <1>6 DEF Top, Under

\* The stack after the frame on top has become another.
LEMMA StackMoved ==
  ASSUME FramesInv, stack # <<>>, NEW f \in Frame, f.op = Top.op, stack' = Append(Under, f)
  PROVE  /\ stack' # <<>> /\ Top' = f /\ Under' = Under
         /\ Range(stack') = Range(Under) \cup {f} /\ Range(Under) \subseteq Range(stack)
         /\ Inner(stack') = IF f.op = "load" THEN f ELSE Inner(stack)
<1>1. stack \in Seq(Frame) /\ Shape(stack)
  BY DEF FramesInv
<1>2. PICK u \in Seq(Frame) : u = Under
  BY <1>1, TopOf DEF Under
<1>3. /\ stack' # <<>> /\ Last(stack') = f /\ Range(stack') = Range(Under) \cup {f}
  BY <1>2, StackPushed
<1>4. Front(stack') = Under
  BY <1>2, PushedPopped
<1>5. Range(Under) \subseteq Range(stack)
  BY <1>1, FramesOf DEF Under
<1>6. Inner(stack') = IF f.op = "load" THEN f ELSE Inner(stack)
  <2>1. Shape(u) /\ (u = <<>> => Top.op = "load")
    BY <1>1, <1>2, ShapePopped DEF Under, Top
  <2>2. CASE f.op = "load"
    BY <1>2, <2>1, <2>2, InnerMoves
  <2>3. CASE f.op # "load"
    <3>1. u # <<>> /\ Inner(Append(u, f)) = Inner(u)
      BY <2>1, <2>3, InnerMoves
    <3>2. Inner(u) = Inner(stack)
      BY <1>1, <1>2, <2>3, InnerMoves DEF Top, Under
    <3>. QED
      BY <1>2, <2>3, <3>1, <3>2
  <2>. QED
    BY <2>2, <2>3
<1>. QED
  BY <1>3, <1>4, <1>5, <1>6 DEF Top, Under

\* The stack after a frame is pushed.
LEMMA StackGrown ==
  ASSUME FramesInv, NEW f \in Frame, stack' = Append(stack, f), f.op = "load" \/ stack # <<>>
  PROVE  /\ stack' # <<>> /\ Top' = f /\ Under' = stack /\ Range(stack') = Range(stack) \cup {f}
         /\ Inner(stack') = IF f.op = "load" THEN f ELSE Inner(stack)
<1>1. stack \in Seq(Frame) /\ Shape(stack)
  BY DEF FramesInv
<1>2. /\ stack' # <<>> /\ Last(stack') = f /\ Range(stack') = Range(stack) \cup {f}
  BY <1>1, StackPushed
<1>3. Front(stack') = stack
  BY <1>1, PushedPopped
<1>4. Inner(stack') = IF f.op = "load" THEN f ELSE Inner(stack)
  BY <1>1, InnerMoves
<1>. QED
  BY <1>2, <1>3, <1>4 DEF Top, Under

\* The stack after the frame on top has become another, and one is pushed.
LEMMA StackMovedGrown ==
  ASSUME FramesInv, stack # <<>>, NEW f \in Frame, f.op = Top.op, NEW g \in Frame, g.op # "load",
         NEW frames, frames = Append(Under, f), stack' = Append(frames, g)
  PROVE  /\ stack' # <<>> /\ Top' = g /\ Under' = frames
         /\ Range(frames) = Range(Under) \cup {f} /\ Range(stack') = Range(Under) \cup {f, g}
         /\ Range(Under) \subseteq Range(stack)
         /\ Inner(stack') = IF f.op = "load" THEN f ELSE Inner(stack)
<1>1. stack \in Seq(Frame) /\ Shape(stack)
  BY DEF FramesInv
<1>2. PICK u \in Seq(Frame) : u = Under
  BY <1>1, TopOf DEF Under
<1>3. /\ frames \in Seq(Frame) /\ frames # <<>> /\ Shape(frames)
      /\ Range(frames) = Range(Under) \cup {f}
  BY <1>1, StackReplaced DEF Top, Under
<1>4. /\ stack' # <<>> /\ Last(stack') = g /\ Range(stack') = Range(frames) \cup {g}
  BY <1>3, StackPushed
<1>5. Front(stack') = frames
  BY <1>3, PushedPopped
<1>6. Range(Under) \subseteq Range(stack)
  BY <1>1, FramesOf DEF Under
<1>7. Inner(stack') = Inner(frames)
  BY <1>3, InnerMoves
<1>8. Inner(frames) = IF f.op = "load" THEN f ELSE Inner(stack)
  <2>1. Shape(u) /\ (u = <<>> => Top.op = "load")
    BY <1>1, <1>2, ShapePopped DEF Under, Top
  <2>2. CASE f.op = "load"
    BY <1>2, <2>1, <2>2, InnerMoves
  <2>3. CASE f.op # "load"
    <3>1. u # <<>> /\ Inner(Append(u, f)) = Inner(u)
      BY <2>1, <2>3, InnerMoves
    <3>2. Inner(u) = Inner(stack)
      BY <1>1, <1>2, <2>3, InnerMoves DEF Top, Under
    <3>. QED
      BY <1>2, <2>3, <3>1, <3>2
  <2>. QED
    BY <2>2, <2>3
<1>. QED
  BY <1>3, <1>4, <1>5, <1>6, <1>7, <1>8 DEF Top, Under

(***************************************************************************)
(* What a load would read.                                                 *)
(***************************************************************************)
\* The files that are compiled for those of R are in R, are there and can be compiled.
Closed(R) ==
  \A q \in R :
    /\ q \in Paths /\ files[q] # Missing
    /\ q \notin DOMAIN cache => files[q] # Bad /\ Range(files[q]) \subseteq R

Wanted(q) ==
  IF q \in DOMAIN cache \/ q = Http \/ files[q] \in {Missing, Bad} THEN {} ELSE Range(files[q])
WantedBy(R) == UNION {Wanted(q) : q \in R}

\* The function exists, so that it is what its definition says.
LEMMA ReadsRecursion ==
  ASSUME NEW p
  PROVE  \E within :
           /\ Reads(p) = within[Cardinality(Paths)]
           /\ within[0] = {p}
           /\ \A n \in 1 .. Cardinality(Paths) :
                within[n] = within[n - 1] \cup WantedBy(within[n - 1])
<1> DEFINE N == Cardinality(Paths)
           Body(f, n) == IF n = 0 THEN {p} ELSE f[n - 1] \cup WantedBy(f[n - 1])
           Defined == {n \in Nat : \E f : f = [i \in 0 .. n |-> Body(f, i)]}
           within == CHOOSE f : f = [i \in 0 .. N |-> Body(f, i)]
<1>1. N \in Nat
  BY ModulatorAssumption, FS_CardinalityType
<1> HIDE DEF N
<1>2. 0 \in Defined
  <2> DEFINE f == [i \in 0 .. 0 |-> {p}]
  <2>1. f = [i \in 0 .. 0 |-> Body(f, i)]
    OBVIOUS
  <2>. QED
    BY <2>1
<1>3. ASSUME NEW n \in 0 .. N - 1, n \in Defined
      PROVE  n + 1 \in Defined
  <2>1. PICK f : f = [i \in 0 .. n |-> Body(f, i)]
    BY <1>3
  <2> DEFINE g == [i \in 0 .. n + 1 |-> IF i = n + 1 THEN Body(f, i) ELSE f[i]]
  <2>2. \A i \in 0 .. n : f[i] = Body(f, i)
    BY <2>1
  <2>3. ASSUME NEW i \in 0 .. n + 1 PROVE g[i] = Body(g, i)
    <3>0. n \in Nat /\ g[i] = Body(f, i)
      <4>1. n \in Nat /\ (i = n + 1 \/ i \in 0 .. n)
        BY <1>1
      <4>2. i = n + 1 => g[i] = Body(f, i)
        OBVIOUS
      <4>3. i # n + 1 => g[i] = f[i]
        OBVIOUS
      <4> HIDE DEF g, Body
      <4>. QED
        BY <2>2, <4>1, <4>2, <4>3
    <3>1. CASE i = 0
      BY <3>0, <3>1
    <3>2. CASE i # 0
      <4>1. i - 1 \in 0 .. n /\ i - 1 # n + 1
        BY <1>1, <3>2
      <4>2. g[i - 1] = f[i - 1]
        BY <1>1, <4>1
      <4>. QED
        BY <3>0, <3>2, <4>2
    <3>. QED
      BY <3>1, <3>2
  <2>4. g = [i \in 0 .. n + 1 |-> Body(g, i)]
    <3> HIDE DEF Body
    <3>. QED
      BY <2>3
  <2>5. n + 1 \in Nat
    BY <1>1
  <2>6. \E h : h = [i \in 0 .. n + 1 |-> Body(h, i)]
    <3> HIDE DEF Body, g
    <3>. QED
      BY <2>4
  <2>. QED
    BY <2>5, <2>6
<1>4. N \in Defined
  <2> HIDE DEF Defined
  <2>1. \A i \in 0 .. N : i \in Defined
    BY <1>1, <1>2, <1>3, SetInduction
  <2>. QED
    BY <2>1, <1>1
<1>5. within = [i \in 0 .. N |-> Body(within, i)]
  <2>1. \E f : f = [i \in 0 .. N |-> Body(f, i)]
    BY <1>4
  <2> HIDE DEF Body
  <2>. QED
    BY <2>1
<1>6. Reads(p) = within[N]
  BY DEF Reads, WantedBy, Wanted, N
<1> HIDE DEF within
<1>7. within[0] = {p}
  BY <1>1, <1>5
<1>8. ASSUME NEW n \in 1 .. N
      PROVE  within[n] = within[n - 1] \cup WantedBy(within[n - 1])
  <2>1. within[n] = Body(within, n)
    <3> HIDE DEF Body
    <3>1. n \in 0 .. N
      BY <1>1
    <3>. QED
      BY <1>5, <3>1
  <2>2. n # 0
    BY <1>1
  <2>. QED
    BY <2>1, <2>2
<1>. QED
  BY <1>6, <1>7, <1>8 DEF N

\* As there are no more files than rounds, the last round but one has found all of them.
LEMMA ReadsClosed ==
  ASSUME FilesInv, NEW p \in Paths, Sound(p)
  PROVE  \E R \in SUBSET Paths : p \in R /\ Closed(R)
<1>1. PICK within :
        /\ Reads(p) = within[Cardinality(Paths)]
        /\ within[0] = {p}
        /\ \A n \in 1 .. Cardinality(Paths) :
             within[n] = within[n - 1] \cup WantedBy(within[n - 1])
  BY ReadsRecursion
<1>2. PICK N \in Nat : N = Cardinality(Paths)
  BY ModulatorAssumption, FS_CardinalityType
<1>3. \A n \in 0 .. N - 1 : within[n] \subseteq within[n + 1] /\ WantedBy(within[n]) \subseteq within[n + 1]
  <2> SUFFICES ASSUME NEW n \in 0 .. N - 1
               PROVE  within[n] \subseteq within[n + 1] /\ WantedBy(within[n]) \subseteq within[n + 1]
    OBVIOUS
  <2>1. n + 1 \in 1 .. N /\ (n + 1) - 1 = n
    BY <1>2
  <2>2. within[n + 1] = within[(n + 1) - 1] \cup WantedBy(within[(n + 1) - 1])
    BY <1>1, <1>2, <2>1
  <2>. QED
    BY <2>1, <2>2
\* Monotone, to both ends.
<1>4. ASSUME NEW n \in 0 .. N PROVE p \in within[n] /\ within[n] \subseteq Reads(p)
  <2> DEFINE Up == {i \in Nat : p \in within[i]}
             Down == {i \in Nat : within[N - i] \subseteq Reads(p)}
  <2>1. \A i \in 0 .. N : i \in Up
    <3>1. 0 \in Up
      BY <1>1
    <3>2. \A i \in 0 .. N - 1 : i \in Up => i + 1 \in Up
      BY <1>3
    <3> HIDE DEF Up
    <3>. QED
      BY <3>1, <3>2, <1>2, SetInduction
  <2>2. \A i \in 0 .. N : i \in Down
    <3>1. 0 \in Down
      BY <1>1, <1>2
    <3>2. ASSUME NEW i \in 0 .. N - 1, i \in Down PROVE i + 1 \in Down
      <4>1. N - (i + 1) \in 0 .. N - 1 /\ (N - (i + 1)) + 1 = N - i
        BY <1>2
      <4>2. within[N - (i + 1)] \subseteq within[N - i]
        BY <1>3, <4>1
      <4>. QED
        BY <3>2, <4>2
    <3> HIDE DEF Down
    <3>. QED
      BY <3>1, <3>2, <1>2, SetInduction
  <2>3. N - n \in 0 .. N /\ N - (N - n) = n
    BY <1>2
  <2>. QED
    BY <1>4, <2>1, <2>2, <2>3
<1>5. Reads(p) \subseteq Paths
  <2> SUFFICES ASSUME NEW q \in Reads(p) PROVE q \in Paths
    OBVIOUS
  <2> DEFINE Named == {i \in Nat : within[i] \subseteq Paths \cup {Http}}
  <2>1. 0 \in Named
    BY <1>1
  <2>2. ASSUME NEW i \in 0 .. N - 1, i \in Named PROVE i + 1 \in Named
    <3>1. i + 1 \in 1 .. N /\ (i + 1) - 1 = i
      BY <1>2
    <3>2. within[i + 1] = within[i] \cup WantedBy(within[i])
      BY <1>1, <1>2, <3>1
    <3>3. ASSUME NEW r \in within[i] PROVE Wanted(r) \subseteq Paths \cup {Http}
      <4>1. r \in Paths \cup {Http}
        BY <2>2
      <4>2. CASE Wanted(r) = {}
        BY <4>2
      <4>3. CASE Wanted(r) # {}
        <5>1. r \in Paths /\ files[r] \notin {Missing, Bad} /\ Wanted(r) = Range(files[r])
          BY <4>1, <4>3 DEF Wanted
        <5>2. files[r] \in Seq(Paths \cup {Http})
          BY <5>1, ModulatorAssumption DEF FilesInv
        <5>. QED
          BY <5>1, <5>2, FramesOf
      <4>. QED
        BY <4>2, <4>3
    <3>. QED
      BY <2>2, <3>2, <3>3 DEF WantedBy
  <2>3. N \in Named
    <3> HIDE DEF Named
    <3>1. \A i \in 0 .. N : i \in Named
      BY <1>2, <2>1, <2>2, SetInduction
    <3>. QED
      BY <1>2, <3>1
  <2>. QED
    BY <1>1, <1>2, <2>3 DEF Sound
\* Either a round has found nothing, or as many files as there were rounds, and one.
<1>6. \E n \in 0 .. N - 1 : within[n + 1] = within[n]
  <2> SUFFICES ASSUME \A n \in 0 .. N - 1 : within[n + 1] # within[n] PROVE FALSE
    OBVIOUS
  <2> DEFINE Many == {i \in Nat : Cardinality(within[i]) >= i + 1}
  <2>1. \A i \in 0 .. N : IsFiniteSet(within[i]) /\ Cardinality(within[i]) \in Nat
                          /\ Cardinality(within[i]) <= N
    BY <1>2, <1>4, <1>5, ModulatorAssumption, FS_Subset, FS_CardinalityType
  <2>2. 0 \in Many
    <3>1. Cardinality(within[0]) = 1
      BY <1>1, FS_Singleton
    <3>. QED
      BY <3>1
  <2>3. ASSUME NEW i \in 0 .. N - 1, i \in Many PROVE i + 1 \in Many
    <3>1. i \in 0 .. N /\ i + 1 \in 0 .. N /\ i + 1 \in Nat
      BY <1>2
    <3>2. PICK q \in within[i + 1] : q \notin within[i]
      <4>1. within[i] \subseteq within[i + 1] /\ within[i + 1] # within[i]
        BY <1>3
      <4>. QED
        BY <4>1, Zenon
    <3>3. Cardinality(within[i] \cup {q}) = Cardinality(within[i]) + 1
      BY <2>1, <3>1, <3>2, FS_AddElement
    <3>4. within[i] \cup {q} \subseteq within[i + 1]
      BY <1>3, <3>2
    <3>5. Cardinality(within[i] \cup {q}) <= Cardinality(within[i + 1])
      BY <2>1, <3>1, <3>4, FS_Subset
    <3>. QED
      BY <2>1, <2>3, <3>1, <3>3, <3>5
  <2>4. N \in Many
    <3> HIDE DEF Many
    <3>1. \A i \in 0 .. N : i \in Many
      BY <1>2, <2>2, <2>3, SetInduction
    <3>. QED
      BY <1>2, <3>1
  <2>. QED
    BY <1>2, <2>1, <2>4
<1>7. PICK n \in 0 .. N - 1 : within[n + 1] = within[n]
  BY <1>6
<1>8. PICK R : R = within[n]
  OBVIOUS
<1>9. p \in R /\ R \subseteq Reads(p) /\ WantedBy(R) \subseteq R
  BY <1>2, <1>3, <1>4, <1>7, <1>8
<1>10. ASSUME NEW q \in R
       PROVE  /\ q \in Paths /\ files[q] # Missing
              /\ q \notin DOMAIN cache => files[q] # Bad /\ Range(files[q]) \subseteq R
  <2>1. q \in Paths /\ q # Http /\ files[q] # Missing /\ (q \notin DOMAIN cache => files[q] # Bad)
    BY <1>5, <1>9 DEF Sound
  <2>2. ASSUME q \notin DOMAIN cache PROVE Range(files[q]) \subseteq R
    <3>1. Wanted(q) = Range(files[q])
      BY <2>1, <2>2 DEF Wanted
    <3>. QED
      BY <1>9, <3>1 DEF WantedBy
  <2>. QED
    BY <2>1, <2>2
<1>. QED
  BY <1>5, <1>9, <1>10 DEF Closed

(***************************************************************************)
(* The inductive invariant behind SoundLoadsResolve.                       *)
(***************************************************************************)
\* Modules are being created or linked: no script runs until that is done.
Busy ==
  stack # <<>> /\ (Top.op \in {"create", "link"} \/ (Top.op = "load" /\ Top.step # "evaluate"))

\* Linking is not interrupted.
LinkingInv == \A m \in Numbers : modules[m].status = "linking" => stack # <<>> /\ Top.op = "link"

\* The request that a creation waits for, or has waited for, has been created.
RequestMade(f) ==
  f.next <= Len(modules[f.at].requests) /\ modules[f.at].requests[f.next] \in DOMAIN cache

RequestedInv ==
  returned # "failed" /\ stack # <<>> =>
    \A f \in Range(stack) : f.op = "create" /\ (f \in Range(Under) \/ returned = "ok") => RequestMade(f)

\* Why a module of the cache has not been linked: a load will do so, or a module that was
\* compiled before it and requests it has not, or is about to.
Loaded(d, f) == f.op = "load" /\ f.step \in {"create", "link"} /\ f.path = modules[d].path
Requested(d, m, i) ==
  /\ modules[m].requests[i] = modules[d].path
  /\ \/ modules[m].status = "created"
     \/ \E f \in Range(stack) : f.op = "link" /\ f.at = m /\ f.next <= i
Explained(d) ==
  \/ \E f \in Range(stack) : Loaded(d, f)
  \/ \E m \in Range(cache) : m < d /\ \E i \in 1 .. Len(modules[m].requests) : Requested(d, m, i)

ExplainedInv == ~tainted => \A d \in Range(cache) : modules[d].status = "created" => Explained(d)

\* What a sound load still has to read is in R, and what is about to be linked requests
\* nothing else.
RequestKnown(d, i) ==
  \/ modules[d].requests[i] \in DOMAIN cache
  \/ \E f \in Range(stack) : f.op = "create" /\ f.at = d /\ f.next <= i
Unready(d) == modules[d].status \in {"created", "linking"}
Covered(R) ==
  /\ Closed(R) /\ returned # "failed"
  /\ Top.op = "load" /\ Top.step = "find" => Top.path \in R
  /\ \A d \in Range(cache) : Unready(d) =>
       \A i \in 1 .. Len(modules[d].requests) : modules[d].requests[i] \in R /\ RequestKnown(d, i)

SoundInv == Busy /\ Inner(stack).sound => \E R \in SUBSET Paths : Covered(R)

\* Nothing of before the time at which the modules from g on were compiled is in use.
FreshFrame(g, f) == (f.op = "load" /\ f.step \in {"find", "create"}) \/ f.at >= g
FreshModule(g, m) ==
  modules[m].status # "errored" /\ \A i \in 1 .. Len(modules[m].links) : modules[m].links[i] >= g
Fresh(g) ==
  /\ \A p \in DOMAIN cache : cache[p] >= g
  /\ \A f \in Range(stack) : FreshFrame(g, f)
  /\ \A m \in Numbers : m >= g => FreshModule(g, m)
Trusted == ~tainted \/ \E f \in Range(stack) : f.op = "load" /\ f.sound
FreshInv == Trusted => \E g \in 1 .. Len(modules) + 1 : Fresh(g)

ResolveInv ==
  LinkingInv /\ RequestedInv /\ ExplainedInv /\ SoundInv /\ FreshInv /\ SoundLoadsResolve

\* What the frames of a stack are, by the one on top.
LEMMA FrameBelow ==
  ASSUME NEW s \in Seq(Frame), Shape(s), NEW f \in Range(s)
  PROVE  /\ s # <<>> /\ f \in Frame
         /\ f.op = "create" => Last(s).op = "create"
         /\ f.op = "link" => Last(s).op = "link"
         /\ f.op = "load" /\ f.step \in {"find", "link"} => f = Last(s)
         /\ f.op = "load" /\ f.step = "create" => f = Last(s) \/ Last(s).op = "create"
<1>1. DOMAIN s = 1 .. Len(s)
  BY SeqType
<1>2. PICK k \in 1 .. Len(s) : f = s[k]
  BY <1>1 DEF Range
<1>3. s # <<>> /\ f \in Frame
  BY <1>1, <1>2, SeqType
<1>4. Last(s) = s[Len(s)]
  BY <1>3, TopOf
<1>. QED
  BY <1>2, <1>3, <1>4, ShapeAbove

\* Where nothing is busy, everything in the cache has been linked, unless something has failed.
LEMMA NoneCreated ==
  ASSUME StateInv, LinkingInv, ExplainedInv, ~Busy, ~tainted, NEW d \in Range(cache)
  PROVE  ~Unready(d)
<1>1. /\ stack \in Seq(Frame) /\ Shape(stack) /\ modules \in Seq(Module)
      /\ \A m \in Range(cache) : m \in Numbers
  BY DEF StateInv, FramesInv, ModulesInv, CacheInv, Range
<1>2. \A f \in Range(stack) : f.op # "link" /\ ~(f.op = "load" /\ f.step \in {"create", "link"})
  <2>1. ASSUME NEW f \in Range(stack)
        PROVE  f.op # "link" /\ ~(f.op = "load" /\ f.step \in {"create", "link"})
    BY <1>1, <2>1, FrameBelow DEF Busy, Top
  <2>. QED
    BY <2>1
<1>3. \A m \in Numbers : modules[m].status # "linking"
  BY DEF LinkingInv, Busy
<1> DEFINE Left == {m \in Range(cache) : modules[m].status = "created"}
<1>4. Left = {}
  <2> SUFFICES ASSUME Left # {} PROVE FALSE
    OBVIOUS
  <2>1. Left \in SUBSET Nat
    BY <1>1, SeqType DEF Numbers
  <2>2. PICK m \in Left : \A k \in Left : m <= k
    <3> HIDE DEF Left
    <3>. QED
      BY <2>1, LeastNatural
  <2>3. Explained(m)
    BY <2>2 DEF ExplainedInv
  <2>4. PICK k \in Range(cache) :
          k < m /\ \E i \in 1 .. Len(modules[k].requests) : Requested(m, k, i)
    BY <1>2, <2>3 DEF Explained, Loaded
  <2>5. modules[k].status = "created"
    BY <1>2, <2>4 DEF Requested
  <2>6. k \in Left /\ k \in Nat /\ m \in Nat
    BY <2>1, <2>2, <2>4, <2>5
  <2>. QED
    BY <2>2, <2>4, <2>6
<1>. QED
  BY <1>1, <1>3, <1>4 DEF Unready

\* A load is settled.
LEMMA SettleResolves ==
  ASSUME StateInv, ResolveInv, stack # <<>>, Top.op = "load", NEW how \in {"resolved", "rejected"},
         Settle(how), UNCHANGED <<files, cache, modules>>, returned' = "none",
         how = "resolved" => Top.step = "evaluate",
         how = "rejected" => ~Top.sound
  PROVE  ResolveInv'
<1>1. /\ stack' = Under /\ tainted' = (tainted \/ how = "rejected")
      /\ outcome'.settled = how /\ outcome'.sound = Top.sound
  BY DEF Settle
<1>2. FramesInv /\ stack \in Seq(Frame) /\ Shape(stack) /\ HistoryInv
  BY DEF StateInv, FramesInv
<1>3. /\ Range(stack') \subseteq Range(stack)
      /\ stack' # <<>> => Below(Top', Top)
  BY <1>1, <1>2, StackPopped
<1>4. \A f \in Range(stack') : f.op = "evaluate" \/ (f.op = "load" /\ f.step = "evaluate")
  BY <1>1, <1>2, UnderLoad
<1>5. ~Busy'
  BY <1>3 DEF Busy, Below
<1>6. LinkingInv'
  BY DEF ResolveInv, LinkingInv, Numbers
<1>7. RequestedInv'
  BY <1>4 DEF RequestedInv
<1>8. ExplainedInv'
  <2> SUFFICES ASSUME ~tainted' PROVE \A d \in Range(cache) : modules[d].status # "created"
    BY DEF ExplainedInv
  <2>1. ~tainted /\ Top.step = "evaluate"
    BY <1>1, <1>2 DEF HistoryInv
  <2>2. ~Busy
    BY <2>1 DEF Busy
  <2>. QED
    BY <2>1, <2>2, NoneCreated DEF ResolveInv, Unready
<1>9. SoundInv'
  BY <1>5 DEF SoundInv
<1>10. FreshInv'
  <2>1. Trusted' => Trusted
    BY <1>1, <1>2, <1>3 DEF Trusted, HistoryInv
  <2>2. \A g : Fresh(g) => Fresh(g)'
    BY <1>3 DEF Fresh, FreshFrame, FreshModule, Numbers
  <2>. QED
    BY <2>1, <2>2 DEF ResolveInv, FreshInv
<1>11. SoundLoadsResolve'
  BY <1>1 DEF SoundLoadsResolve
<1>. QED
  BY <1>6, <1>7, <1>8, <1>9, <1>10, <1>11 DEF ResolveInv

\* A load goes on to link the module it has found, or has made.
LEMMA LoadLinks ==
  ASSUME StateInv, ResolveInv, stack # <<>>, Top.op = "load", Top.step \in {"find", "create"},
         UNCHANGED <<files, cache, modules, history>>, returned # "failed", returned' = "none",
         NEW f \in Frame, f.op = "load", f.step = "link", f.path = Top.path, f.sound = Top.sound,
         f.path \in DOMAIN cache, f.at = cache[f.path], stack' = Append(Under, f)
  PROVE  ResolveInv'
<1>1. FramesInv /\ ReadyInv /\ stack \in Seq(Frame) /\ Shape(stack)
  BY DEF StateInv, FramesInv
<1>2. /\ stack' # <<>> /\ Top' = f /\ Under' = Under
      /\ Range(stack') = Range(Under) \cup {f} /\ Range(Under) \subseteq Range(stack)
      /\ Inner(stack') = f
  BY <1>1, StackMoved
<1>3. Range(stack) = Range(Under) \cup {Top} /\ Inner(stack) = Top
  <2>1. PICK n \in Nat \ {0} : n = Len(stack) /\ Top = stack[n]
    BY <1>1, TopOf DEF Top
  <2>2. n \in 1 .. n /\ \A j \in n + 1 .. n : FALSE
    BY <2>1
  <2>3. Inner(stack) = stack[n]
    BY <1>1, <2>1, <2>2, InnerPlace
  <2>. QED
    BY <1>1, <2>1, <2>3, TopFrame
<1>4. \A g \in Range(Under) : g.op = "evaluate" \/ (g.op = "load" /\ g.step = "evaluate")
  BY <1>1, UnderLoad
<1>5. tainted' = tainted /\ outcome' = outcome
  BY DEF history
<1>6. LinkingInv'
  BY DEF ResolveInv, LinkingInv, Numbers
<1>7. RequestedInv'
  BY <1>2, <1>4 DEF RequestedInv
<1>8. ExplainedInv'
  <2> SUFFICES ASSUME ~tainted, NEW d \in Range(cache), modules[d].status = "created"
               PROVE  Explained(d)'
    BY <1>5 DEF ExplainedInv
  <2>1. Explained(d)
    BY DEF ResolveInv, ExplainedInv
  <2>2. CASE \E g \in Range(stack) : Loaded(d, g)
    <3>1. Top.path = modules[d].path
      BY <1>3, <1>4, <2>2 DEF Loaded
    <3>2. Loaded(d, f)'
      BY <3>1 DEF Loaded
    <3>. QED
      BY <1>2, <3>2 DEF Explained
  <2>3. CASE \E m \in Range(cache) : m < d /\ \E i \in 1 .. Len(modules[m].requests) : Requested(d, m, i)
    BY <1>2, <1>3, <1>4, <2>3 DEF Explained, Requested
  <2>. QED
    BY <2>1, <2>2, <2>3 DEF Explained
<1>9. SoundInv'
  <2> SUFFICES ASSUME f.sound PROVE \E R \in SUBSET Paths : Covered(R)'
    BY <1>2 DEF SoundInv
  <2>1. Busy /\ Inner(stack).sound
    BY <1>3 DEF Busy
  <2>2. PICK R \in SUBSET Paths : Covered(R)
    BY <2>1 DEF ResolveInv, SoundInv
  <2>3. Closed(R)'
    BY <2>2 DEF Covered, Closed
  <2>4. \A d \in Range(cache) : Unready(d)' =>
          \A i \in 1 .. Len(modules[d].requests) : modules[d].requests[i] \in R /\ RequestKnown(d, i)'
    BY <1>2, <1>3, <1>4, <2>2 DEF Covered, Unready, RequestKnown
  <2>. QED
    BY <1>2, <2>3, <2>4 DEF Covered
<1>10. FreshInv'
  <2>1. Trusted' => Trusted
    BY <1>2, <1>3, <1>5 DEF Trusted
  <2>2. \A g : Fresh(g) => Fresh(g)'
    BY <1>2 DEF Fresh, FreshFrame, FreshModule, Numbers
  <2>. QED
    BY <2>1, <2>2 DEF ResolveInv, FreshInv
<1>11. SoundLoadsResolve'
  BY <1>5 DEF ResolveInv, SoundLoadsResolve
<1>. QED
  BY <1>6, <1>7, <1>8, <1>9, <1>10, <1>11 DEF ResolveInv

\* A creation goes on to its next request.
LEMMA CreateAdvances ==
  ASSUME StateInv, ResolveInv, stack # <<>>, Top.op = "create",
         UNCHANGED <<files, cache, modules, history>>, returned # "failed", returned' = "none",
         NEW f \in Frame, f.op = "create", f.at = Top.at, f.next = Top.next + 1,
         RequestMade(Top), stack' = Append(Under, f)
  PROVE  ResolveInv'
<1>1. FramesInv /\ ReadyInv /\ CacheInv /\ ModulesInv
  BY DEF StateInv
<1>2. /\ stack' # <<>> /\ Top' = f /\ Under' = Under
      /\ Range(stack') = Range(Under) \cup {f} /\ Range(Under) \subseteq Range(stack)
      /\ Inner(stack') = Inner(stack)
  BY <1>1, StackMoved
<1>3. Range(stack) = Range(Under) \cup {Top} /\ Top \in PlainFrame
  BY <1>1, TopFrame
<1>4. tainted' = tainted /\ outcome' = outcome
  BY DEF history
<1>5. LinkingInv'
  BY DEF ResolveInv, LinkingInv, Numbers
<1>6. RequestedInv'
  <2> SUFFICES ASSUME NEW g \in Range(Under), g.op = "create" PROVE RequestMade(g)'
    BY <1>2 DEF RequestedInv
  <2>1. RequestMade(g)
    BY <1>2 DEF ResolveInv, RequestedInv
  <2>. QED
    BY <2>1 DEF RequestMade
<1>7. ExplainedInv'
  <2> SUFFICES ASSUME ~tainted, NEW d \in Range(cache), modules[d].status = "created"
               PROVE  Explained(d)'
    BY <1>4 DEF ExplainedInv
  <2>1. Explained(d)
    BY DEF ResolveInv, ExplainedInv
  <2>. QED
    BY <1>2, <1>3, <2>1 DEF Explained, Loaded, Requested
<1>8. SoundInv'
  <2> SUFFICES ASSUME Inner(stack).sound PROVE \E R \in SUBSET Paths : Covered(R)'
    BY <1>2 DEF SoundInv
  <2>1. PICK R \in SUBSET Paths : Covered(R)
    BY DEF ResolveInv, SoundInv, Busy
  <2>2. Closed(R)'
    BY <2>1 DEF Covered, Closed
  <2>3. ASSUME NEW d \in Range(cache), Unready(d), NEW i \in 1 .. Len(modules[d].requests)
        PROVE  modules[d].requests[i] \in R /\ RequestKnown(d, i)'
    <3>1. modules[d].requests[i] \in R /\ RequestKnown(d, i)
      BY <2>1, <2>3 DEF Covered
    <3>2. i \in Nat /\ Top.next \in Nat
      BY <1>3 DEF PlainFrame
    <3>3. CASE Top.at = d /\ Top.next <= i
      <4>1. CASE i = Top.next
        BY <3>1, <3>3, <4>1 DEF RequestMade, RequestKnown
      <4>2. CASE i # Top.next
        <5>1. f.at = d /\ f.next <= i
          BY <3>2, <3>3, <4>2
        <5>. QED
          BY <1>2, <3>1, <5>1 DEF RequestKnown
      <4>. QED
        BY <4>1, <4>2
    <3>4. CASE ~(Top.at = d /\ Top.next <= i)
      BY <1>2, <1>3, <3>1, <3>4 DEF RequestKnown
    <3>. QED
      BY <3>3, <3>4
  <2>4. \A d : Unready(d)' = Unready(d)
    BY DEF Unready
  <2>. QED
    BY <1>2, <2>2, <2>3, <2>4 DEF Covered
<1>9. FreshInv'
  <2>1. Trusted' => Trusted
    BY <1>2, <1>3, <1>4 DEF Trusted
  <2>2. \A g : Fresh(g) => Fresh(g)'
    BY <1>2, <1>3 DEF Fresh, FreshFrame, FreshModule, Numbers
  <2>. QED
    BY <2>1, <2>2 DEF ResolveInv, FreshInv
<1>10. SoundLoadsResolve'
  BY <1>4 DEF ResolveInv, SoundLoadsResolve
<1>. QED
  BY <1>5, <1>6, <1>7, <1>8, <1>9, <1>10 DEF ResolveInv

\* A creation returns to the one below, or to its load.
LEMMA CreateEnds ==
  ASSUME StateInv, ResolveInv, stack # <<>>, Top.op = "create",
         UNCHANGED <<files, cache, modules, history>>, returned' \in {"ok", "failed"},
         returned' = "ok" => returned = "none" /\ Top.next > Len(modules[Top.at].requests),
         returned' = "failed" => ~Inner(stack).sound,
         stack' = Under
  PROVE  ResolveInv'
<1>1. FramesInv /\ ReadyInv /\ CacheInv /\ ModulesInv
  BY DEF StateInv
<1>2. /\ Range(stack') = Range(Under) /\ Range(Under) \subseteq Range(stack)
      /\ Range(Under') \subseteq Range(Under)
      /\ stack' # <<>> => Top' \in Range(Under)
      /\ stack' # <<>> /\ Inner(stack') = Inner(stack)
  BY <1>1, StackPopped
<1>3. Range(stack) = Range(Under) \cup {Top} /\ Top \in PlainFrame /\ FrameRefers(Top)
  BY <1>1, TopFrame
<1>4. tainted' = tainted /\ outcome' = outcome
  BY DEF history
<1>5. LinkingInv'
  BY DEF ResolveInv, LinkingInv, Numbers
<1>6. RequestedInv'
  <2> SUFFICES ASSUME returned' = "ok", NEW g \in Range(Under), g.op = "create" PROVE RequestMade(g)'
    BY <1>2 DEF RequestedInv
  <2>1. RequestMade(g)
    BY <1>2 DEF ResolveInv, RequestedInv
  <2>. QED
    BY <2>1 DEF RequestMade
<1>7. ExplainedInv'
  <2> SUFFICES ASSUME ~tainted, NEW d \in Range(cache), modules[d].status = "created"
               PROVE  Explained(d)'
    BY <1>4 DEF ExplainedInv
  <2>1. Explained(d)
    BY DEF ResolveInv, ExplainedInv
  <2>. QED
    BY <1>2, <1>3, <2>1 DEF Explained, Loaded, Requested
<1>8. SoundInv'
  <2> SUFFICES ASSUME Inner(stack).sound PROVE \E R \in SUBSET Paths : Covered(R)'
    BY <1>2 DEF SoundInv
  <2>1. PICK R \in SUBSET Paths : Covered(R)
    BY DEF ResolveInv, SoundInv, Busy
  <2>2. Closed(R)'
    BY <2>1 DEF Covered, Closed
  <2>3. ASSUME NEW d \in Range(cache), Unready(d), NEW i \in 1 .. Len(modules[d].requests)
        PROVE  modules[d].requests[i] \in R /\ RequestKnown(d, i)'
    <3>1. modules[d].requests[i] \in R /\ RequestKnown(d, i)
      BY <2>1, <2>3 DEF Covered
    <3>2. ~(Top.at = d /\ Top.next <= i)
      <4>1. d \in Numbers
        BY <1>1 DEF CacheInv, Range
      <4>2. i \in Nat /\ Top.next \in Nat /\ Len(modules[d].requests) \in Nat
        BY <1>1, <1>3, <4>1, SeqType DEF PlainFrame, ModulesInv
      <4>. QED
        BY <4>2
    <3>. QED
      BY <1>2, <1>3, <3>1, <3>2 DEF RequestKnown
  <2>4. \A d : Unready(d)' = Unready(d)
    BY DEF Unready
  <2>5. ~(Top'.op = "load" /\ Top'.step = "find")
    BY <1>1, <1>2, FramesUnder
  <2>. QED
    BY <2>2, <2>3, <2>4, <2>5 DEF Covered
<1>9. FreshInv'
  <2>1. Trusted' => Trusted
    BY <1>2, <1>3, <1>4 DEF Trusted
  <2>2. \A g : Fresh(g) => Fresh(g)'
    BY <1>2, <1>3 DEF Fresh, FreshFrame, FreshModule, Numbers
  <2>. QED
    BY <2>1, <2>2 DEF ResolveInv, FreshInv
<1>10. SoundLoadsResolve'
  BY <1>4 DEF ResolveInv, SoundLoadsResolve
<1>. QED
  BY <1>5, <1>6, <1>7, <1>8, <1>9, <1>10 DEF ResolveInv

\* A module is compiled and put in the cache.
Made(p) ==
  /\ Len(modules) \in Nat /\ Len(modules') = Len(modules) + 1
  /\ \A k \in Numbers : modules'[k] = modules[k]
  /\ modules'[Len(modules) + 1].path = p /\ modules'[Len(modules) + 1].requests = files[p]
  /\ modules'[Len(modules) + 1].status = "created"
  /\ Len(modules'[Len(modules) + 1].links) = 0
  /\ DOMAIN cache' = DOMAIN cache \cup {p} /\ cache'[p] = Len(modules) + 1
  /\ \A q \in DOMAIN cache : cache'[q] = cache[q]
  /\ Range(cache') = Range(cache) \cup {Len(modules) + 1}

\* What Compile does.
LEMMA Compiles ==
  ASSUME StateInv, NEW p \in Paths, p \notin DOMAIN cache, files[p] # Missing, NEW frames,
         Compile(p, frames)
  PROVE  \/ files[p] = Bad /\ returned' = "failed" /\ stack' = frames /\ UNCHANGED <<cache, modules>>
         \/ /\ files[p] # Bad /\ UNCHANGED returned /\ Made(p)
            /\ \E f \in PlainFrame :
                 /\ f \in Frame /\ f.op = "create" /\ f.at = Len(modules) + 1 /\ f.next = 1
                 /\ stack' = Append(frames, f)
<1>1. CASE files[p] = Bad
  BY <1>1 DEF Compile
<1>2. CASE files[p] # Bad
  <2>1. Len(modules) < MaxModules /\ files[p] \notin {Bad, Missing} /\ UNCHANGED returned
    BY <1>2 DEF Compile
  <2>2. PICK t \in Seq(Module) :
           /\ t = Append(modules, [path |-> p, requests |-> files[p], links |-> <<>>,
                                   status |-> "created"])
           /\ Len(t) = Len(modules) + 1 /\ Len(modules) \in Nat /\ Len(t) \in 1 .. MaxModules
           /\ t[Len(t)].requests \in Seq(Request) /\ Len(t[Len(t)].links) = 0
           /\ t[Len(t)].path = p /\ t[Len(t)].status = "created" /\ t[Len(t)].requests = files[p]
           /\ \A k \in Numbers : t[k] = modules[k]
    BY <2>1, ModuleMade
  <2>3. PICK n \in 1 .. MaxModules : n = Len(t)
    BY <2>2
  <2>4. modules' = t
    BY <1>2, <2>2 DEF Compile
  <2>5. cache' = [q \in DOMAIN cache \cup {p} |-> IF q = p THEN n ELSE cache[q]]
    BY <1>2, <2>3, <2>4 DEF Compile
  <2>6. /\ DOMAIN cache' = DOMAIN cache \cup {p} /\ cache'[p] = n
        /\ \A q \in DOMAIN cache : cache'[q] = cache[q]
        /\ Range(cache') = Range(cache) \cup {n}
    BY ZenonT(40), <2>5, CacheGrows DEF StateInv
  <2>7. PICK f : f = [op |-> "create", at |-> n, next |-> 1]
    OBVIOUS
  <2>8. f \in PlainFrame /\ f \in Frame /\ f.op = "create" /\ f.at = n /\ f.next = 1
    BY <2>7 DEF PlainFrame, Frame
  <2>9. stack' = Append(frames, f)
    BY <1>2, <2>3, <2>4, <2>7 DEF Compile
  <2>10. Made(p)
    BY <2>2, <2>3, <2>4, <2>6 DEF Made
  <2>. QED
    BY <1>2, <2>1, <2>2, <2>3, <2>8, <2>9, <2>10
<1>. QED
  BY <1>1, <1>2

\* A file is compiled for a load, or for a request of the module that is being created.
LEMMA CompileResolves ==
  ASSUME StateInv, ResolveInv, Busy, Top.op # "link", returned = "none",
         NEW p \in Paths, p \notin DOMAIN cache, files[p] # Missing,
         UNCHANGED <<files, history>>,
         NEW frames \in Seq(Frame), frames # <<>>, Shape(frames), Inner(frames).sound = Inner(stack).sound,
         Last(frames).op = "create" \/ (Last(frames).op = "load" /\ Last(frames).step = "create"),
         \A f \in Range(frames) :
           \/ f \in Range(stack)
           \/ f.op = "load" /\ f.step = "create" /\ (f.sound => Top.op = "load" /\ Top.sound),
         \A f \in Range(stack) : f \in Range(frames) \/ (f.op = "load" /\ f.step = "find"),
         \A f \in Range(frames) :
           f.op = "create" =>
             \/ RequestMade(f)
             \/ f.next <= Len(modules[f.at].requests) /\ modules[f.at].requests[f.next] = p,
         \/ \E f \in Range(frames) : f.op = "load" /\ f.step = "create" /\ f.path = p
         \/ Top.op = "create" /\ \E i \in 1 .. Len(modules[Top.at].requests) : modules[Top.at].requests[i] = p,
         \A R : Covered(R) => p \in R,
         Compile(p, frames)
  PROVE  ResolveInv'
<1>1. FramesInv /\ ReadyInv /\ CacheInv /\ ModulesInv
  BY DEF StateInv
<1>2. tainted' = tainted /\ outcome' = outcome
  BY DEF history
<1>3. Top \in Range(stack) /\ FrameRefers(Top) /\ FrameReady(Top)
  BY <1>1, TopFrame DEF Busy
<1>4. CASE files[p] = Bad /\ returned' = "failed" /\ stack' = frames /\ UNCHANGED <<cache, modules>>
  <2>1. LinkingInv'
    BY <1>4 DEF ResolveInv, LinkingInv, Numbers
  <2>2. RequestedInv'
    BY <1>4 DEF RequestedInv
  <2>3. ExplainedInv'
    <3> SUFFICES ASSUME ~tainted, NEW d \in Range(cache), modules[d].status = "created"
                 PROVE  Explained(d)'
      BY <1>2, <1>4 DEF ExplainedInv
    <3>1. Explained(d)
      BY DEF ResolveInv, ExplainedInv
    <3>. QED
      BY <1>4, <3>1 DEF Explained, Loaded, Requested
  <2>4. ~Inner(stack).sound
    <3> SUFFICES ASSUME Inner(stack).sound PROVE FALSE
      OBVIOUS
    <3>1. PICK R \in SUBSET Paths : Covered(R)
      BY DEF ResolveInv, SoundInv
    <3>2. p \in R
      BY <3>1
    <3>. QED
      BY <1>4, <3>1, <3>2 DEF Covered, Closed
  <2>5. SoundInv'
    BY <1>4, <2>4 DEF SoundInv
  <2>6. FreshInv'
    <3>1. Trusted' => Trusted
      BY <1>2, <1>3, <1>4 DEF Trusted
    <3>2. \A g : Fresh(g) => Fresh(g)'
      BY <1>4 DEF Fresh, FreshFrame, FreshModule, Numbers
    <3>. QED
      BY <1>4, <3>1, <3>2 DEF ResolveInv, FreshInv
  <2>7. SoundLoadsResolve'
    BY <1>2 DEF ResolveInv, SoundLoadsResolve
  <2>. QED
    BY <2>1, <2>2, <2>3, <2>5, <2>6, <2>7 DEF ResolveInv
<1>5. CASE /\ files[p] # Bad /\ UNCHANGED returned /\ Made(p)
           /\ \E f \in PlainFrame :
                 /\ f \in Frame /\ f.op = "create" /\ f.at = Len(modules) + 1 /\ f.next = 1
                 /\ stack' = Append(frames, f)
  <2>1. PICK f \in PlainFrame :
                 /\ f \in Frame /\ f.op = "create" /\ f.at = Len(modules) + 1 /\ f.next = 1
                 /\ stack' = Append(frames, f)
    BY <1>5
  <2>2. PICK n \in Nat : /\ n = Len(modules) + 1 /\ n = Len(modules')
                         /\ Numbers = 1 .. n - 1 /\ Numbers' = 1 .. n /\ n - 1 = Len(modules)
    BY <1>5 DEF Made, Numbers
  <2>3. /\ \A k \in Numbers : modules'[k] = modules[k]
        /\ modules'[n].path = p /\ modules'[n].requests = files[p]
        /\ modules'[n].status = "created" /\ Len(modules'[n].links) = 0
        /\ DOMAIN cache' = DOMAIN cache \cup {p} /\ cache'[p] = n
        /\ \A q \in DOMAIN cache : cache'[q] = cache[q]
        /\ Range(cache') = Range(cache) \cup {n}
    BY <1>5, <2>2 DEF Made
  <2>4. /\ stack' # <<>> /\ Top' = f /\ Under' = frames
        /\ Range(stack') = Range(frames) \cup {f} /\ Inner(stack') = Inner(frames)
    <3>1. stack' # <<>> /\ Last(stack') = f /\ Range(stack') = Range(frames) \cup {f}
      BY <2>1, StackPushed
    <3>2. Front(stack') = frames
      BY <2>1, PushedPopped
    <3>3. Inner(stack') = Inner(frames)
      BY <2>1, InnerMoves
    <3>. QED
      BY <3>1, <3>2, <3>3 DEF Top, Under
  <2>5. Range(cache) \subseteq Numbers
    BY <1>1 DEF CacheInv, Range
  <2>6. LinkingInv'
    <3> SUFFICES ASSUME NEW m \in 1 .. n, modules'[m].status = "linking" PROVE FALSE
      BY <2>2 DEF LinkingInv
    <3>1. m \in Numbers
      BY <2>2, <2>3
    <3>. QED
      BY <2>3, <3>1 DEF ResolveInv, LinkingInv
  <2>7. RequestedInv'
    <3> SUFFICES ASSUME NEW g \in Range(frames), g.op = "create" PROVE RequestMade(g)'
      BY <1>5, <2>4 DEF RequestedInv
    <3>1. g \in Range(stack) /\ g.at \in Numbers
      BY <1>1 DEF FramesInv, FrameRefers
    <3>. QED
      BY <2>3, <3>1 DEF RequestMade
  <2>8. ExplainedInv'
    <3> SUFFICES ASSUME ~tainted, NEW d \in Range(cache'), modules'[d].status = "created"
                 PROVE  Explained(d)'
      BY <1>2 DEF ExplainedInv
    <3>1. CASE d = n
      <4>1. CASE \E g \in Range(frames) : g.op = "load" /\ g.step = "create" /\ g.path = p
        BY <2>3, <2>4, <3>1, <4>1 DEF Explained, Loaded
      <4>2. CASE /\ Top.op = "create"
                 /\ \E i \in 1 .. Len(modules[Top.at].requests) : modules[Top.at].requests[i] = p
        <5>1. PICK m : m = Top.at /\ m \in Range(cache) /\ m \in Numbers /\ modules[m].status = "created"
          BY <1>3, <2>5, <4>2 DEF FrameReady
        <5>2. PICK i \in 1 .. Len(modules[m].requests) : modules[m].requests[i] = p
          BY <4>2, <5>1
        <5>3. Requested(d, m, i)'
          BY <2>3, <3>1, <5>1, <5>2 DEF Requested
        <5>4. m < d /\ m \in Range(cache') /\ i \in 1 .. Len(modules'[m].requests)
          BY <2>2, <2>3, <3>1, <5>1, <5>2
        <5>. QED
          BY <5>3, <5>4 DEF Explained
      <4>. QED
        BY <4>1, <4>2
    <3>2. CASE d # n
      <4>1. d \in Range(cache) /\ modules'[d] = modules[d]
        BY <2>3, <2>5, <3>2
      <4>2. Explained(d)
        BY <4>1 DEF ResolveInv, ExplainedInv
      <4>3. CASE \E g \in Range(stack) : Loaded(d, g)
        <5>1. PICK g \in Range(stack) : Loaded(d, g)
          BY <4>3
        <5>2. g \in Range(stack') /\ Loaded(d, g)'
          BY <2>4, <4>1, <5>1 DEF Loaded
        <5>. QED
          BY <5>2 DEF Explained
      <4>4. CASE \E m \in Range(cache) : m < d /\ \E i \in 1 .. Len(modules[m].requests) : Requested(d, m, i)
        <5>1. PICK m \in Range(cache) : m < d /\ \E i \in 1 .. Len(modules[m].requests) : Requested(d, m, i)
          BY <4>4
        <5>2. modules'[m] = modules[m] /\ m \in Range(cache')
          BY <2>3, <2>5
        <5>3. PICK i \in 1 .. Len(modules[m].requests) : Requested(d, m, i)
          BY <5>1
        <5>4. Requested(d, m, i)'
          BY <2>4, <4>1, <5>2, <5>3 DEF Requested
        <5>. QED
          BY <5>1, <5>2, <5>4 DEF Explained
      <4>. QED
        BY <4>2, <4>3, <4>4 DEF Explained
    <3>. QED
      BY <3>1, <3>2
  <2>9. SoundInv'
    <3> SUFFICES ASSUME Inner(stack).sound PROVE \E R \in SUBSET Paths : Covered(R)'
      BY <2>4 DEF SoundInv
    <3>1. PICK R \in SUBSET Paths : Covered(R)
      BY DEF ResolveInv, SoundInv
    <3>2. Closed(R) /\ p \in R /\ Range(files[p]) \subseteq R
      BY <3>1 DEF Covered, Closed
    <3>3. Closed(R)'
      BY <2>3, <3>2 DEF Closed
    <3>4. ASSUME NEW d \in Range(cache'), Unready(d)', NEW i \in 1 .. Len(modules'[d].requests)
          PROVE  modules'[d].requests[i] \in R /\ RequestKnown(d, i)'
      <4>1. CASE d = n
        <5>1. files[p] \in Seq(Request)
          <6>1. files[p] \in Contents[p] /\ p \in Paths
            BY DEF StateInv, FilesInv
          <6>. QED
            BY <1>5, <6>1, ModulatorAssumption DEF Request
        <5>2. i \in DOMAIN files[p] /\ 1 <= i
          BY <2>3, <3>4, <4>1, <5>1, SeqType
        <5>3. files[p][i] \in R
          BY <3>2, <5>2 DEF Range
        <5>4. RequestKnown(d, i)'
          BY <2>1, <2>2, <2>4, <4>1, <5>2 DEF RequestKnown
        <5>. QED
          BY <2>3, <4>1, <5>3, <5>4
      <4>2. CASE d # n
        <5>1. d \in Range(cache) /\ modules'[d] = modules[d]
          BY <2>3, <2>5, <4>2
        <5>2. Unready(d)
          BY <3>4, <5>1 DEF Unready
        <5>3. modules[d].requests[i] \in R /\ RequestKnown(d, i)
          BY <3>1, <3>4, <5>1, <5>2 DEF Covered
        <5>4. RequestKnown(d, i)'
          BY <2>3, <2>4, <5>1, <5>3 DEF RequestKnown
        <5>. QED
          BY <5>1, <5>3, <5>4
      <4>. QED
        BY <4>1, <4>2
    <3>. QED
      BY <1>5, <2>1, <2>4, <3>3, <3>4 DEF Covered
  <2>10. FreshInv'
    <3>1. Trusted' => Trusted
      BY <1>2, <1>3, <2>1, <2>4 DEF Trusted
    <3>2. ASSUME NEW g \in 1 .. Len(modules) + 1, Fresh(g) PROVE Fresh(g)'
      <4>1. n >= g
        BY <2>2
      <4>2. \A q \in DOMAIN cache' : cache'[q] >= g
        BY <2>3, <3>2, <4>1 DEF Fresh
      <4>3. \A h \in Range(stack') : FreshFrame(g, h)
        BY <2>1, <2>2, <2>4, <3>2, <4>1 DEF Fresh, FreshFrame
      <4>4. ASSUME NEW m \in Numbers', m >= g PROVE FreshModule(g, m)'
        <5>1. CASE m = n
          BY <2>3, <5>1 DEF FreshModule
        <5>2. CASE m # n
          <6>1. m \in Numbers
            BY <2>2, <5>2
          <6>. QED
            BY <2>3, <3>2, <4>4, <6>1 DEF Fresh, FreshModule
        <5>. QED
          BY <5>1, <5>2
      <4>. QED
        BY <4>2, <4>3, <4>4 DEF Fresh
    <3>3. 1 .. Len(modules) + 1 \subseteq 1 .. Len(modules') + 1
      BY <2>2
    <3>. QED
      BY <3>1, <3>2, <3>3 DEF ResolveInv, FreshInv
  <2>11. SoundLoadsResolve'
    BY <1>2 DEF ResolveInv, SoundLoadsResolve
  <2>. QED
    BY <2>6, <2>7, <2>8, <2>9, <2>10, <2>11 DEF ResolveInv
<1>. QED
  BY <1>4, <1>5, Compiles

\* A load on top is the innermost.
LEMMA InnerTop ==
  ASSUME FramesInv, stack # <<>>, Top.op = "load"
  PROVE  Inner(stack) = Top
<1>1. stack \in Seq(Frame)
  BY DEF FramesInv
<1>2. PICK n \in Nat \ {0} : n = Len(stack) /\ Top = stack[n]
  BY <1>1, TopOf DEF Top
<1>3. n \in 1 .. n /\ \A j \in n + 1 .. n : FALSE
  BY <1>2
<1>. QED
  BY <1>1, <1>2, <1>3, InnerPlace

\* GetModule looks for the file of a load.
LEMMA FindResolves ==
  ASSUME StateInv, ResolveInv, Find
  PROVE  ResolveInv'
<1>1. /\ TopIs("load") /\ stack # <<>> /\ Top.op = "load" /\ Top.step = "find"
      /\ UNCHANGED files
  BY DEF Find, AtStep, TopIs
<1>2. FramesInv /\ ReadyInv /\ ReturnInv /\ CacheInv /\ ModulesInv
  BY DEF StateInv
<1>3. /\ Top \in LoadFrame /\ Range(Under) \subseteq Range(stack) /\ stack \in Seq(Frame) /\ Shape(stack)
      /\ Range(stack) = Range(Under) \cup {Top}
  BY <1>1, <1>2, TopFrame DEF FramesInv
<1>4. returned = "none"
  BY <1>1, <1>2 DEF ReturnInv, Creating
<1>5. PICK p \in Paths : p = Top.path
  BY <1>3 DEF LoadFrame
<1>6. Inner(stack) = Top /\ Busy
  BY <1>1, <1>2, InnerTop DEF Busy
<1>7. CASE files[p] = Missing /\ Settle("rejected") /\ UNCHANGED <<cache, modules, returned, ended>>
  <2>1. ~Top.sound
    <3> SUFFICES ASSUME Top.sound PROVE FALSE
      OBVIOUS
    <3>1. PICK R \in SUBSET Paths : Covered(R)
      BY <1>6 DEF ResolveInv, SoundInv
    <3>. QED
      BY <1>1, <1>5, <1>7, <3>1 DEF Covered, Closed
  <2>. QED
    BY <1>1, <1>4, <1>7, <2>1, SettleResolves
<1>8. CASE /\ p \in DOMAIN cache
           /\ stack' = Append(Under, GoTo("link", cache[p]))
           /\ UNCHANGED <<cache, modules, returned, ended, history>>
  <2>1. PICK n \in 0 .. MaxModules : n = cache[p] /\ n \in Numbers
    <3>1. cache[p] \in Numbers
      BY <1>2, <1>8 DEF CacheInv
    <3>2. Numbers \subseteq 0 .. MaxModules
      BY <1>2, SeqType, ModulatorAssumption DEF ModulesInv, Numbers
    <3>. QED
      BY <3>1, <3>2
  <2>2. "link" \in Steps
    BY DEF Steps
  <2>3. PICK f \in LoadFrame : /\ f = GoTo("link", n) /\ f \in Frame
                               /\ f.op = "load" /\ f.step = "link" /\ f.at = n
                               /\ f.path = Top.path /\ f.sound = Top.sound
    BY <1>3, <2>2, LoadMoves
  <2>4. stack' = Append(Under, f) /\ f.path \in DOMAIN cache /\ f.at = cache[f.path]
    BY <1>5, <1>8, <2>1, <2>3
  <2>. QED
    BY <1>1, <1>4, <1>8, <2>3, <2>4, LoadLinks
<1>9. CASE /\ files[p] # Missing /\ p \notin DOMAIN cache
           /\ Compile(p, Append(Under, GoTo("create", 0)))
           /\ UNCHANGED history
  <2>1. "create" \in Steps /\ 0 \in 0 .. MaxModules
    BY ModulatorAssumption DEF Steps
  <2>2. PICK f \in LoadFrame : /\ f = GoTo("create", 0) /\ f \in Frame
                               /\ f.op = "load" /\ f.step = "create" /\ f.at = 0
                               /\ f.path = Top.path /\ f.sound = Top.sound
    BY <1>3, <2>1, LoadMoves
  <2>3. PICK frames : frames = Append(Under, f)
    OBVIOUS
  <2>4. /\ frames \in Seq(Frame) /\ frames # <<>> /\ Last(frames) = f
        /\ Range(frames) = Range(Under) \cup {f} /\ Shape(frames)
    BY <1>1, <1>3, <2>2, <2>3, StackReplaced DEF Top, Under
  <2>5. Inner(frames).sound = Inner(stack).sound
    <3>1. PICK u \in Seq(Frame) : u = Under /\ Shape(u)
      BY <1>1, <1>2, TopFrame
    <3>2. Inner(frames) = f
      BY <2>2, <2>3, <3>1, InnerMoves
    <3>. QED
      BY <1>6, <2>2, <3>2
  <2>6. \A g \in Range(Under) : g.op # "create"
    BY <1>1, <1>2, UnderLoad
  <2>7. Compile(p, frames)
    BY <1>9, <2>2, <2>3
  <2>8. \A R : Covered(R) => p \in R
    BY <1>1, <1>5 DEF Covered
  <2>9. /\ \A g \in Range(frames) :
             \/ g \in Range(stack)
             \/ g.op = "load" /\ g.step = "create" /\ (g.sound => Top.op = "load" /\ Top.sound)
        /\ \A g \in Range(stack) : g \in Range(frames) \/ (g.op = "load" /\ g.step = "find")
        /\ \A g \in Range(frames) : g.op # "create"
        /\ \E g \in Range(frames) : g.op = "load" /\ g.step = "create" /\ g.path = p
    BY <1>1, <1>3, <1>5, <2>2, <2>4, <2>6
  <2>. QED
    BY <1>1, <1>4, <1>6, <1>9, <2>2, <2>4, <2>5, <2>7, <2>8, <2>9, CompileResolves
<1>. QED
  BY <1>5, <1>7, <1>8, <1>9 DEF Find

\* CreateModule has returned to a load.
LEMMA CreatedResolves ==
  ASSUME StateInv, ResolveInv, Created
  PROVE  ResolveInv'
<1>1. /\ TopIs("load") /\ stack # <<>> /\ Top.op = "load" /\ Top.step = "create"
      /\ returned # "none" /\ returned' = "none" /\ UNCHANGED <<files, cache, modules, ended>>
  BY DEF Created, AtStep, TopIs
<1>2. FramesInv /\ ReadyInv /\ CacheInv /\ ModulesInv
  BY DEF StateInv
<1>3. Top \in LoadFrame /\ FrameReady(Top)
  BY <1>1, <1>2, TopFrame
<1>4. CASE returned = "failed" /\ Settle("rejected")
  <2>1. ~Top.sound
    BY <1>1, <1>2, <1>4, InnerTop DEF ResolveInv, SoundInv, Covered, Busy
  <2>. QED
    BY <1>1, <1>4, <2>1, SettleResolves
<1>5. CASE /\ returned = "ok" /\ UNCHANGED history
           /\ stack' = Append(Under, GoTo("link", cache[Top.path]))
  <2>1. Top.path \in DOMAIN cache
    BY <1>1, <1>3, <1>5 DEF FrameReady
  <2>2. PICK n \in 0 .. MaxModules : n = cache[Top.path] /\ n \in Numbers
    <3>1. cache[Top.path] \in Numbers
      BY <1>2, <2>1 DEF CacheInv
    <3>2. Numbers \subseteq 0 .. MaxModules
      BY <1>2, SeqType, ModulatorAssumption DEF ModulesInv, Numbers
    <3>. QED
      BY <3>1, <3>2
  <2>3. "link" \in Steps
    BY DEF Steps
  <2>4. PICK f \in LoadFrame : /\ f = GoTo("link", n) /\ f \in Frame
                               /\ f.op = "load" /\ f.step = "link" /\ f.at = n
                               /\ f.path = Top.path /\ f.sound = Top.sound
    BY <1>3, <2>3, LoadMoves
  <2>5. stack' = Append(Under, f) /\ f.path \in DOMAIN cache /\ f.at = cache[f.path]
    BY <1>5, <2>1, <2>2, <2>4
  <2>. QED
    BY <1>1, <1>5, <2>4, <2>5, LoadLinks
<1>. QED
  BY <1>4, <1>5 DEF Created

\* A sound load knows the next request of the module that is being created.
LEMMA NextCovered ==
  ASSUME StateInv, ResolveInv, stack # <<>>, Top.op = "create",
         Top.next <= Len(modules[Top.at].requests), NEW R, Covered(R)
  PROVE  modules[Top.at].requests[Top.next] \in R
<1>1. FramesInv /\ ReadyInv /\ ModulesInv
  BY DEF StateInv
<1>2. Top \in PlainFrame /\ FrameReady(Top)
  BY <1>1, TopFrame
<1>3. PICK d \in Range(cache) : d = Top.at /\ Unready(d) /\ Top.next <= Len(modules[d].requests)
  BY <1>2 DEF FrameReady, Unready
<1>4. Top.next \in 1 .. Len(modules[d].requests)
  <2>1. d \in Numbers
    BY <1>3 DEF StateInv, CacheInv, Range
  <2>2. Len(modules[d].requests) \in Nat
    BY <1>1, <2>1, SeqType DEF ModulesInv
  <2>3. Top.next \in Nat \ {0}
    BY <1>2 DEF PlainFrame
  <2>. QED
    BY <1>3, <2>2, <2>3
<1>. QED
  BY <1>3, <1>4 DEF Covered

\* CreateModule looks at a request.
LEMMA CreateRequestResolves ==
  ASSUME StateInv, ResolveInv, CreateRequest
  PROVE  ResolveInv'
<1>1. /\ TopIs("create") /\ stack # <<>> /\ Top.op = "create" /\ returned = "none"
      /\ Top.next <= Len(modules[Top.at].requests) /\ UNCHANGED <<files, history>>
  BY DEF CreateRequest, TopIs
<1>2. FramesInv /\ ReadyInv /\ ModulesInv
  BY DEF StateInv
<1>3. /\ Top \in PlainFrame /\ FrameReady(Top) /\ FrameRefers(Top) /\ stack \in Seq(Frame) /\ Shape(stack)
      /\ Range(stack) = Range(Under) \cup {Top}
  BY <1>1, <1>2, TopFrame DEF FramesInv
<1>4. PICK request : request = modules[Top.at].requests[Top.next]
  OBVIOUS
<1>5. Busy
  BY <1>1 DEF Busy
<1>6. CASE /\ ~(request # Http /\ files[request] # Missing)
           /\ returned' = "failed" /\ stack' = Under /\ UNCHANGED <<cache, modules, ended>>
  <2>1. ~Inner(stack).sound
    <3> SUFFICES ASSUME Inner(stack).sound PROVE FALSE
      OBVIOUS
    <3>1. PICK R \in SUBSET Paths : Covered(R)
      BY <1>5 DEF ResolveInv, SoundInv
    <3>2. request \in R
      BY <1>1, <1>4, <3>1, NextCovered
    <3>. QED
      BY <1>6, <3>1, <3>2, ModulatorAssumption DEF Covered, Closed
  <2>. QED
    BY <1>1, <1>6, <2>1, CreateEnds
<1>7. CASE /\ request \in DOMAIN cache /\ stack' = Append(Under, [Top EXCEPT !.next = @ + 1])
           /\ UNCHANGED <<cache, modules, returned, ended>>
  <2>1. PICK f \in PlainFrame : /\ f = [Top EXCEPT !.next = @ + 1] /\ f \in Frame
                                /\ f.op = Top.op /\ f.at = Top.at /\ f.next = Top.next + 1
    BY <1>3, TopAdvances
  <2>2. stack' = Append(Under, f) /\ RequestMade(Top)
    BY <1>1, <1>4, <1>7, <2>1 DEF RequestMade
  <2>. QED
    BY <1>1, <1>7, <2>1, <2>2, CreateAdvances
<1>8. CASE /\ request # Http /\ files[request] # Missing /\ request \notin DOMAIN cache
           /\ Compile(request, stack)
  <2>1. request \in Request /\ Top.next \in 1 .. Len(modules[Top.at].requests)
    <3>1. Top.at \in Numbers
      BY <1>1, <1>3 DEF FrameRefers
    <3>2. modules[Top.at].requests \in Seq(Request)
      BY <1>2, <3>1 DEF ModulesInv
    <3>3. Top.next \in Nat \ {0}
      BY <1>3 DEF PlainFrame
    <3>. QED
      BY <1>1, <1>4, <3>2, <3>3
  <2>2. PICK p \in Paths : p = request
    BY <1>8, <2>1 DEF Request
  <2>3. \A R : Covered(R) => p \in R
    BY <1>1, <1>4, <2>2, NextCovered
  <2>4. \A f \in Range(stack) :
          f.op = "create" =>
             \/ RequestMade(f)
             \/ f.next <= Len(modules[f.at].requests) /\ modules[f.at].requests[f.next] = p
    BY <1>1, <1>3, <1>4, <2>2 DEF ResolveInv, RequestedInv
  <2>5. \E i \in 1 .. Len(modules[Top.at].requests) : modules[Top.at].requests[i] = p
    BY <1>4, <2>1, <2>2
  <2>6. Last(stack).op = "create"
    BY <1>1 DEF Top
  <2>7. p \notin DOMAIN cache /\ files[p] # Missing /\ Compile(p, stack)
    BY <1>8, <2>2
  <2>. QED
    BY <1>1, <1>3, <1>5, <2>3, <2>4, <2>5, <2>6, <2>7, CompileResolves
<1>. QED
  BY <1>4, <1>6, <1>7, <1>8 DEF CreateRequest, Cached

\* CreateModule has returned to CreateModule, or has come to its end.
LEMMA RequestCreatedResolves ==
  ASSUME StateInv, ResolveInv, RequestCreated
  PROVE  ResolveInv'
<1>1. /\ TopIs("create") /\ stack # <<>> /\ Top.op = "create"
      /\ UNCHANGED <<files, cache, modules, ended, history>>
  BY DEF RequestCreated, TopIs
<1>2. FramesInv /\ ReadyInv
  BY DEF StateInv
<1>3. Top \in PlainFrame /\ Top \in Range(stack)
  BY <1>1, <1>2, TopFrame
<1>4. CASE /\ returned = "ok" /\ returned' = "none"
           /\ stack' = Append(Under, [Top EXCEPT !.next = @ + 1])
  <2>1. PICK f \in PlainFrame : /\ f = [Top EXCEPT !.next = @ + 1] /\ f \in Frame
                                /\ f.op = Top.op /\ f.at = Top.at /\ f.next = Top.next + 1
    BY <1>3, TopAdvances
  <2>2. stack' = Append(Under, f)
    BY <1>4, <2>1
  <2>3. RequestMade(Top)
    BY <1>1, <1>3, <1>4 DEF ResolveInv, RequestedInv
  <2>. QED
    BY <1>1, <1>4, <2>1, <2>2, <2>3, CreateAdvances
<1>5. CASE stack' = Under /\ returned' = returned /\ returned = "failed"
  <2>1. ~Inner(stack).sound
    BY <1>1, <1>5 DEF ResolveInv, SoundInv, Covered, Busy
  <2>. QED
    BY <1>1, <1>5, <2>1, CreateEnds
<1>6. CASE stack' = Under /\ returned' = "ok" /\ returned = "none" /\ Top.next > Len(modules[Top.at].requests)
  BY <1>1, <1>6, CreateEnds
<1>. QED
  BY <1>4, <1>5, <1>6 DEF RequestCreated

\* V8 begins to link the module of a load.
LEMMA BeginLinkResolves ==
  ASSUME StateInv, ResolveInv, BeginLink
  PROVE  ResolveInv'
<1>1. /\ TopIs("load") /\ stack # <<>> /\ Top.op = "load" /\ Top.step = "link"
      /\ UNCHANGED <<files, cache, returned, ended, history>>
  BY DEF BeginLink, AtStep, TopIs
<1>2. FramesInv /\ ReadyInv /\ CacheInv /\ ModulesInv /\ ReturnInv
  BY DEF StateInv
<1>3. /\ Top \in LoadFrame /\ Top \in Range(stack) /\ FrameRefers(Top) /\ FrameReady(Top)
      /\ Range(stack) = Range(Under) \cup {Top}
  BY <1>1, <1>2, TopFrame
<1>4. returned = "none" /\ tainted' = tainted /\ outcome' = outcome
  BY <1>1, <1>2 DEF ReturnInv, Creating, history
<1>5. PICK m \in 0 .. MaxModules : m = Top.at /\ m \in Numbers
  BY <1>1, <1>3 DEF LoadFrame, FrameRefers
<1>6. "evaluate" \in Steps
  BY DEF Steps
<1>7. PICK f \in LoadFrame : /\ f = GoTo("evaluate", m) /\ f \in Frame
                             /\ f.op = "load" /\ f.step = "evaluate" /\ f.at = m
                             /\ f.path = Top.path /\ f.sound = Top.sound
  BY <1>3, <1>6, LoadMoves
<1>8. \A h \in Range(Under) : h.op = "evaluate" \/ (h.op = "load" /\ h.step = "evaluate")
  BY <1>1, <1>2, UnderLoad
<1>9. Inner(stack) = Top /\ Busy
  BY <1>1, <1>2, InnerTop DEF Busy
\* Only a module that was created, and then all that explain one, could lose an explanation.
<1>10. ASSUME ~tainted, NEW d \in Range(cache), modules[d].status = "created", d # m
       PROVE  \E k \in Range(cache) : /\ k < d /\ modules[k].status = "created"
                                      /\ \E i \in 1 .. Len(modules[k].requests) :
                                           modules[k].requests[i] = modules[d].path
  <2>1. Explained(d)
    BY <1>10 DEF ResolveInv, ExplainedInv
  <2>2. modules[d].path # Top.path
    <3>1. PICK q \in DOMAIN cache : d = cache[q]
      BY DEF Range
    <3>2. modules[d].path = q
      BY <1>2, <3>1 DEF CacheInv
    <3>. QED
      BY <1>1, <1>3, <1>5, <1>10, <3>1, <3>2 DEF FrameReady
  <2>. QED
    BY <1>1, <1>3, <1>8, <2>1, <2>2 DEF Explained, Loaded, Requested
<1>11. CASE /\ modules[m].status = "created" /\ modules' = SetStatus({m}, "linking")
            /\ stack' = Append(Append(Under, f), [op |-> "link", at |-> m, next |-> 1])
  <2>1. /\ modules' \in Seq(Module) /\ Len(modules') = Len(modules)
        /\ \A n \in Numbers :
             /\ modules'[n].path = modules[n].path /\ modules'[n].requests = modules[n].requests
             /\ modules'[n].links = modules[n].links
             /\ modules'[n].status = IF n \in {m} THEN "linking" ELSE modules[n].status
    <3>1. "linking" \in Status
      BY DEF Status
    <3>. QED
      BY <1>2, <1>11, <3>1, StatusesSet DEF ModulesInv
  <2>2. PICK frames : frames = Append(Under, f)
    OBVIOUS
  <2>3. PICK g : g = [op |-> "link", at |-> m, next |-> 1]
    OBVIOUS
  <2>4. g \in Frame /\ g.op = "link" /\ g.at = m /\ g.next = 1
    <3>1. PICK k \in 1 .. MaxModules : k = m
      BY <1>2, <1>5, SeqType, ModulatorAssumption DEF ModulesInv, Numbers
    <3>. QED
      BY <2>3, <3>1 DEF Frame
  <2>5. stack' = Append(frames, g)
    BY <1>11, <2>2, <2>3
  <2>6. /\ stack' # <<>> /\ Top' = g /\ Range(stack') = Range(Under) \cup {f, g}
        /\ Inner(stack') = f
    BY <1>1, <1>2, <1>7, <2>2, <2>4, <2>5, StackMovedGrown
  <2>7. Range(cache) \subseteq Numbers /\ Numbers' = Numbers
    BY <1>2, <2>1 DEF CacheInv, Range, Numbers
  <2>8. LinkingInv'
    BY <2>4, <2>6 DEF LinkingInv
  <2>9. RequestedInv'
    BY <1>7, <1>8, <2>4, <2>6 DEF RequestedInv
  <2>10. ExplainedInv'
    <3> SUFFICES ASSUME ~tainted, NEW d \in Range(cache), modules'[d].status = "created"
                 PROVE  Explained(d)'
      BY <1>1, <1>4 DEF ExplainedInv
    <3>1. d # m /\ modules[d].status = "created" /\ modules'[d].path = modules[d].path
      BY <2>1, <2>7
    <3>2. PICK k \in Range(cache) : /\ k < d /\ modules[k].status = "created"
                                    /\ \E i \in 1 .. Len(modules[k].requests) :
                                         modules[k].requests[i] = modules[d].path
      BY <1>10, <3>1
    <3>3. PICK i \in 1 .. Len(modules[k].requests) : modules[k].requests[i] = modules[d].path
      BY <3>2
    <3>4. /\ modules'[k].requests = modules[k].requests
          /\ modules'[k].status = IF k = m THEN "linking" ELSE "created"
      BY <2>1, <2>7, <3>2
    <3>5. Requested(d, k, i)'
      <4>1. 1 <= i
        OBVIOUS
      <4>2. g \in Range(stack') /\ g.op = "link" /\ g.at = m /\ g.next <= i
        BY <2>4, <2>6, <4>1
      <4>. QED
        BY <3>1, <3>3, <3>4, <4>2 DEF Requested
    <3>. QED
      BY <1>1, <3>2, <3>3, <3>4, <3>5 DEF Explained
  <2>11. SoundInv'
    <3> SUFFICES ASSUME Top.sound PROVE \E R \in SUBSET Paths : Covered(R)'
      BY <1>7, <2>6 DEF SoundInv
    <3>1. PICK R \in SUBSET Paths : Covered(R)
      BY <1>9 DEF ResolveInv, SoundInv
    <3>2. Closed(R)'
      BY <1>1, <3>1 DEF Covered, Closed
    <3>3. ASSUME NEW d \in Range(cache), Unready(d)', NEW i \in 1 .. Len(modules'[d].requests)
          PROVE  modules'[d].requests[i] \in R /\ RequestKnown(d, i)'
      <4>1. Unready(d) /\ modules'[d].requests = modules[d].requests
        BY <1>11, <2>1, <2>7, <3>3 DEF Unready
      <4>2. modules[d].requests[i] \in R /\ RequestKnown(d, i)
        BY <3>1, <3>3, <4>1 DEF Covered
      <4>. QED
        BY <1>1, <1>3, <1>8, <4>1, <4>2 DEF RequestKnown
    <3>. QED
      BY <1>1, <1>4, <2>4, <2>6, <3>2, <3>3 DEF Covered
  <2>12. FreshInv'
    <3>1. Trusted' => Trusted
      BY <1>1, <1>3, <1>4, <1>7, <2>4, <2>6 DEF Trusted
    <3>2. ASSUME NEW h, Fresh(h) PROVE Fresh(h)'
      <4>1. m >= h
        BY <1>1, <1>3, <1>5, <3>2 DEF Fresh, FreshFrame
      <4>2. \A e \in Range(stack') : FreshFrame(h, e)
        BY <1>3, <1>7, <2>4, <2>6, <3>2, <4>1 DEF Fresh, FreshFrame
      <4>3. \A n \in Numbers : n >= h => FreshModule(h, n)'
        BY <2>1, <3>2 DEF Fresh, FreshModule
      <4>. QED
        BY <1>1, <2>7, <3>2, <4>2, <4>3 DEF Fresh
    <3>. QED
      BY <2>1, <3>1, <3>2 DEF ResolveInv, FreshInv
  <2>13. SoundLoadsResolve'
    BY <1>4 DEF ResolveInv, SoundLoadsResolve
  <2>. QED
    BY <2>8, <2>9, <2>10, <2>11, <2>12, <2>13 DEF ResolveInv
<1>12. CASE modules[m].status # "created" /\ stack' = Append(Under, f) /\ UNCHANGED modules
  <2>1. stack' # <<>> /\ Top' = f /\ Range(stack') = Range(Under) \cup {f}
    BY <1>1, <1>2, <1>7, <1>12, StackMoved
  <2>2. LinkingInv'
    BY <1>1, <1>12 DEF ResolveInv, LinkingInv, Numbers
  <2>3. RequestedInv'
    BY <1>7, <1>8, <2>1 DEF RequestedInv
  <2>4. ExplainedInv'
    <3> SUFFICES ASSUME ~tainted, NEW d \in Range(cache), modules[d].status = "created"
                 PROVE  Explained(d)'
      BY <1>1, <1>4, <1>12 DEF ExplainedInv
    <3>. QED
      BY <1>1, <1>10, <1>12 DEF Explained, Requested
  <2>5. SoundInv'
    BY <1>7, <2>1 DEF SoundInv, Busy
  <2>6. FreshInv'
    <3>1. Trusted' => Trusted
      BY <1>1, <1>3, <1>4, <1>7, <2>1 DEF Trusted
    <3>2. ASSUME NEW h, Fresh(h) PROVE Fresh(h)'
      <4>1. m >= h
        BY <1>1, <1>3, <1>5, <3>2 DEF Fresh, FreshFrame
      <4>2. \A e \in Range(stack') : FreshFrame(h, e)
        BY <1>3, <1>7, <2>1, <3>2, <4>1 DEF Fresh, FreshFrame
      <4>. QED
        BY <1>1, <1>12, <3>2, <4>2 DEF Fresh, FreshModule, Numbers
    <3>. QED
      BY <1>12, <3>1, <3>2 DEF ResolveInv, FreshInv
  <2>7. SoundLoadsResolve'
    BY <1>4 DEF ResolveInv, SoundLoadsResolve
  <2>. QED
    BY <2>2, <2>3, <2>4, <2>5, <2>6, <2>7 DEF ResolveInv
<1>. QED
  BY <1>5, <1>7, <1>11, <1>12 DEF BeginLink

\* What it does to link the module on top to another, which may be linked next.
LinkDone(child) ==
  /\ Len(modules') = Len(modules)
  /\ \A n \in Numbers :
       /\ modules'[n].path = modules[n].path /\ modules'[n].requests = modules[n].requests
       /\ \A i \in 1 .. Len(modules'[n].links) :
            \/ modules'[n].links[i] = child
            \/ i \in 1 .. Len(modules[n].links) /\ modules'[n].links[i] = modules[n].links[i]
       /\ modules'[n].status = IF n = child /\ modules[child].status = "created"
                                 THEN "linking" ELSE modules[n].status
  /\ stack' # <<>> /\ Top'.op = "link" /\ Inner(stack') = Inner(stack)
  /\ Range(Under) \subseteq Range(stack')
  /\ \E g \in Range(stack') : g.op = "link" /\ g.at = Top.at /\ g.next = Top.next + 1
  /\ \A f \in Range(stack') : f \in Range(Under) \/ (f.op = "link" /\ f.at \in {Top.at, child})
  /\ modules[child].status = "created" =>
       \E h \in Range(stack') : h.op = "link" /\ h.at = child /\ h.next = 1

\* That is what V8 does with a module that has been found.
LEMMA LinkEffect ==
  ASSUME StateInv, TopIs("link"),
         NEW child \in Numbers, child \in Range(cache),
         NEW frames, frames = Advanced,
         NEW t, t = Linked(Top.at, child),
         \/ /\ modules[child].status = "created"
            /\ modules' = Relabelled(t, child, "linking")
            /\ stack' = Append(frames, LinkFrame(child))
         \/ modules[child].status # "created" /\ modules' = t /\ stack' = frames
  PROVE  LinkDone(child)
<1>1. ModulesInv /\ FramesInv
  BY DEF StateInv
<1>2. stack # <<>> /\ Top.op = "link" /\ Top.at \in Numbers /\ Top \in PlainFrame
  BY LinkingFrames
<1>3. PICK g \in PlainFrame : /\ g = [Top EXCEPT !.next = @ + 1] /\ g \in Frame
                              /\ g.op = Top.op /\ g.at = Top.at /\ g.next = Top.next + 1
  BY <1>2, TopAdvances
<1>4. frames = Append(Under, g)
  BY <1>3 DEF Advanced
<1>5. PICK m \in Numbers : m = Top.at
  BY <1>2
<1>6. /\ t \in Seq(Module) /\ Len(t) = Len(modules)
      /\ \A n \in Numbers :
           /\ t[n].path = modules[n].path /\ t[n].requests = modules[n].requests
           /\ t[n].links = IF n = m THEN Append(modules[m].links, child) ELSE modules[n].links
           /\ t[n].status = modules[n].status
  <2>1. t = Linked(m, child)
    BY <1>5
  <2>2. modules \in Seq(Module) /\ Len(modules) <= MaxModules
    BY <1>1 DEF ModulesInv
  <2>3. PICK u \in Seq(Module) :
          /\ u = Linked(m, child) /\ Len(u) = Len(modules)
          /\ \A n \in Numbers :
               /\ u[n].path = modules[n].path /\ u[n].requests = modules[n].requests
               /\ u[n].links = IF n = m THEN Append(modules[m].links, child) ELSE modules[n].links
               /\ u[n].status = modules[n].status
    BY <2>2, LinkAdded
  <2>4. t = u
    BY <2>1, <2>3
  <2>. QED
    BY <2>3, <2>4
<1>7. ASSUME NEW n \in Numbers, NEW i \in 1 .. Len(t[n].links)
      PROVE  \/ t[n].links[i] = child
             \/ i \in 1 .. Len(modules[n].links) /\ t[n].links[i] = modules[n].links[i]
  <2>1. CASE n = m
    <3>1. PICK links \in Seq(1 .. MaxModules) : links = modules[m].links
      <4>1. modules[m] \in Module
        BY <1>1, SeqType DEF ModulesInv, Numbers
      <4>. QED
        BY <4>1 DEF Module
    <3>2. t[n].links = Append(links, child)
      BY <1>6, <2>1, <3>1
    <3>3. i \in 1 .. Len(links) + 1 /\ Len(links) \in Nat
      BY <3>2
    <3>4. /\ Append(links, child)[Len(links) + 1] = child
          /\ \A k \in 1 .. Len(links) : Append(links, child)[k] = links[k]
      BY PushPlaces
    <3>5. i \in 1 .. Len(links) \/ i = Len(links) + 1
      BY <3>3
    <3>. QED
      BY <2>1, <3>1, <3>2, <3>4, <3>5
  <2>2. CASE n # m
    <3>1. t[n].links = modules[n].links
      BY <1>6, <2>2
    <3>. QED
      BY <3>1
  <2>. QED
    BY <2>1, <2>2
<1>8. CASE modules[child].status # "created" /\ modules' = t /\ stack' = frames
  <2>1. /\ stack' # <<>> /\ Top' = g
        /\ Range(stack') = Range(Under) \cup {g} /\ Inner(stack') = Inner(stack)
    BY <1>1, <1>2, <1>3, <1>4, <1>8, StackMoved
  <2>2. \A n \in Numbers :
          /\ modules'[n].path = modules[n].path /\ modules'[n].requests = modules[n].requests
          /\ \A i \in 1 .. Len(modules'[n].links) :
               \/ modules'[n].links[i] = child
               \/ i \in 1 .. Len(modules[n].links) /\ modules'[n].links[i] = modules[n].links[i]
          /\ modules'[n].status = modules[n].status
    BY <1>6, <1>7, <1>8
  <2>. QED
    BY <1>2, <1>3, <1>6, <1>8, <2>1, <2>2 DEF LinkDone
<1>9. CASE /\ modules[child].status = "created"
           /\ modules' = Relabelled(t, child, "linking")
           /\ stack' = Append(frames, LinkFrame(child))
  <2>1. PICK k \in 1 .. MaxModules : k = child
    BY <1>1, SeqType, ModulatorAssumption DEF ModulesInv, Numbers
  <2>2. PICK h : h = [op |-> "link", at |-> k, next |-> 1]
    OBVIOUS
  <2>3. h \in Frame /\ h.op = "link" /\ h.at = child /\ h.next = 1
    BY <2>1, <2>2 DEF Frame
  <2>4. stack' = Append(frames, h)
    BY <1>9, <2>1, <2>2 DEF LinkFrame
  <2>5. /\ stack' # <<>> /\ Top' = h
        /\ Range(stack') = Range(Under) \cup {g, h} /\ Inner(stack') = Inner(stack)
    BY <1>1, <1>2, <1>3, <1>4, <2>3, <2>4, StackMovedGrown
  <2>6. /\ Len(modules') = Len(modules)
        /\ \A n \in Numbers :
             /\ modules'[n].path = t[n].path /\ modules'[n].requests = t[n].requests
             /\ modules'[n].links = t[n].links
             /\ modules'[n].status = IF n = child THEN "linking" ELSE t[n].status
    <3>1. "linking" \in Status
      BY DEF Status
    <3>2. modules \in Seq(Module) /\ Len(t) = Len(modules) /\ t \in Seq(Module)
      BY <1>1, <1>6 DEF ModulesInv
    <3>3. PICK u \in Seq(Module) :
            /\ u = Relabelled(t, child, "linking") /\ Len(u) = Len(modules)
            /\ \A n \in Numbers :
                 /\ u[n].path = t[n].path /\ u[n].requests = t[n].requests
                 /\ u[n].links = t[n].links
                 /\ u[n].status = IF n = child THEN "linking" ELSE t[n].status
      BY SMTT(30), <3>1, <3>2, StatusOfOne
    <3>4. modules' = u
      BY <1>9, <3>3
    <3>. QED
      BY <3>3, <3>4
  <2>7. \A n \in Numbers :
          /\ modules'[n].path = modules[n].path /\ modules'[n].requests = modules[n].requests
          /\ \A i \in 1 .. Len(modules'[n].links) :
               \/ modules'[n].links[i] = child
               \/ i \in 1 .. Len(modules[n].links) /\ modules'[n].links[i] = modules[n].links[i]
          /\ modules'[n].status = IF n = child THEN "linking" ELSE modules[n].status
    BY <1>6, <1>7, <2>6
  <2>8. g \in Range(stack') /\ g.op = "link" /\ h \in Range(stack')
    BY <1>2, <1>3, <2>5
  <2>9. \A f \in Range(stack') : f \in Range(Under) \/ (f.op = "link" /\ f.at \in {Top.at, child})
    BY <1>3, <2>3, <2>5, <2>8
  <2>10. Range(Under) \subseteq Range(stack') /\ Top'.op = "link"
    BY <2>3, <2>5
  <2>11. \A n \in Numbers :
           modules'[n].status = IF n = child /\ modules[child].status = "created"
                                  THEN "linking" ELSE modules[n].status
    BY <1>9, <2>7
  <2>. QED
    BY <1>3, <2>3, <2>5, <2>6, <2>7, <2>8, <2>9, <2>10, <2>11 DEF LinkDone
<1>. QED
  BY <1>8, <1>9

\* A request is resolved to a module of the cache.
LEMMA RequestLinked ==
  ASSUME StateInv, ResolveInv, TopIs("link"), UNCHANGED <<files, cache, returned, history>>,
         NEW request \in DOMAIN cache, request = modules[Top.at].requests[Top.next],
         NEW child \in Numbers, child \in Range(cache), child = cache[request],
         NEW frames, frames = Advanced,
         NEW t, t = Linked(Top.at, child),
         \/ /\ modules[child].status = "created"
            /\ modules' = Relabelled(t, child, "linking")
            /\ stack' = Append(frames, LinkFrame(child))
         \/ modules[child].status # "created" /\ modules' = t /\ stack' = frames
  PROVE  ResolveInv'
<1>1. FramesInv /\ ReadyInv /\ CacheInv /\ ModulesInv
  BY DEF StateInv
<1>2. LinkDone(child)
  BY LinkEffect
<1>3. /\ stack # <<>> /\ Top.op = "link" /\ Top \in PlainFrame
      /\ \A f \in Range(Under) :
           /\ f \in Range(stack)
           /\ f.op \in {"link", "evaluate"} \/ (f.op = "load" /\ f.step = "evaluate")
  BY LinkingFrames
<1>4. Range(stack) = Range(Under) \cup {Top}
  BY <1>1, <1>3, TopFrame
<1>5. Range(cache) \subseteq Numbers /\ Numbers' = Numbers
  <2>1. Range(cache) \subseteq Numbers
    BY <1>1 DEF CacheInv, Range
  <2>2. Numbers' = Numbers
    BY <1>2 DEF LinkDone, Numbers
  <2>. QED
    BY <2>1, <2>2
<1>6. tainted' = tainted /\ outcome' = outcome
  BY DEF history
<1>7. LinkingInv'
  BY <1>2 DEF LinkDone, LinkingInv
<1>8. RequestedInv'
  BY <1>2, <1>3 DEF LinkDone, RequestedInv
<1>9. ExplainedInv'
  <2> SUFFICES ASSUME ~tainted, NEW d \in Range(cache), modules'[d].status = "created"
               PROVE  Explained(d)'
    BY <1>6 DEF ExplainedInv
  <2>1. /\ modules[d].status = "created" /\ d # child
        /\ modules'[d].path = modules[d].path
    BY ZenonT(40), <1>2, <1>5 DEF LinkDone
  <2>2. Explained(d)
    BY <2>1 DEF ResolveInv, ExplainedInv
  <2>3. PICK k \in Range(cache) : k < d /\ \E i \in 1 .. Len(modules[k].requests) : Requested(d, k, i)
    BY <1>3, <1>4, <2>2 DEF Explained, Loaded
  <2>4. PICK i \in 1 .. Len(modules[k].requests) : Requested(d, k, i)
    BY <2>3
  <2>5. modules'[k].requests = modules[k].requests /\ modules[k].requests[i] = modules[d].path
    BY <1>2, <1>5, <2>4 DEF LinkDone, Requested
  <2>6. \/ modules'[k].status = "created"
        \/ \E f \in Range(stack') : f.op = "link" /\ f.at = k /\ f.next <= i
    <3>0. 1 <= i /\ i \in Nat
      OBVIOUS
    <3>1. CASE modules[k].status = "created" /\ k # child
      BY <1>2, <1>5, <3>1 DEF LinkDone
    <3>2. CASE modules[k].status = "created" /\ k = child
      <4>1. PICK h \in Range(stack') : h.op = "link" /\ h.at = child /\ h.next = 1
        BY <1>2, <3>2 DEF LinkDone
      <4>2. h.op = "link" /\ h.at = k /\ h.next <= i
        BY <3>0, <3>2, <4>1
      <4>. QED
        BY <4>2
    <3>3. CASE \E f \in Range(Under) : f.op = "link" /\ f.at = k /\ f.next <= i
      BY <1>2, <3>3 DEF LinkDone
    <3>4. CASE Top.at = k /\ Top.next <= i
      <4>1. Top.next # i
        <5> SUFFICES ASSUME Top.next = i PROVE FALSE
          OBVIOUS
        <5>1. PICK q \in DOMAIN cache : d = cache[q]
          BY DEF Range
        <5>2. modules[d].path = q
          BY <1>1, <5>1 DEF CacheInv
        <5>. QED
          BY <2>1, <2>5, <3>4, <5>1, <5>2
      <4>2. Top.next \in Nat
        BY <1>3 DEF PlainFrame
      <4>3. PICK g \in Range(stack') : g.op = "link" /\ g.at = Top.at /\ g.next = Top.next + 1
        BY <1>2 DEF LinkDone
      <4>4. g.op = "link" /\ g.at = k /\ g.next <= i
        BY <3>0, <3>4, <4>1, <4>2, <4>3
      <4>. QED
        BY <4>4
    <3>. QED
      BY <1>4, <2>4, <3>1, <3>2, <3>3, <3>4 DEF Requested
  <2>7. Requested(d, k, i)'
    BY <2>1, <2>5, <2>6 DEF Requested
  <2>. QED
    BY <2>3, <2>4, <2>5, <2>7 DEF Explained
<1>10. SoundInv'
  <2> SUFFICES ASSUME Inner(stack).sound PROVE \E R \in SUBSET Paths : Covered(R)'
    BY <1>2 DEF LinkDone, SoundInv
  <2>1. PICK R \in SUBSET Paths : Covered(R)
    BY <1>3 DEF ResolveInv, SoundInv, Busy
  <2>2. Closed(R)' /\ returned' # "failed"
    BY <2>1 DEF Covered, Closed
  <2>3. ASSUME NEW d \in Range(cache), Unready(d)', NEW i \in 1 .. Len(modules'[d].requests)
        PROVE  modules'[d].requests[i] \in R /\ RequestKnown(d, i)'
    <3>1. Unready(d) /\ modules'[d].requests = modules[d].requests
      BY <1>2, <1>5, <2>3 DEF LinkDone, Unready
    <3>2. modules[d].requests[i] \in R /\ RequestKnown(d, i)
      BY <2>1, <2>3, <3>1 DEF Covered
    <3>. QED
      BY <1>3, <1>4, <3>1, <3>2 DEF RequestKnown
  <2>. QED
    BY <1>2, <2>2, <2>3 DEF LinkDone, Covered
<1>11. FreshInv'
  <2>1. Trusted' => Trusted
    BY <1>2, <1>3, <1>6 DEF LinkDone, Trusted
  <2>2. ASSUME NEW h, Fresh(h) PROVE Fresh(h)'
    <3>1. Top.at >= h /\ child >= h
      BY <1>3, <1>4, <2>2 DEF Fresh, FreshFrame
    <3>2. \A f \in Range(stack') : FreshFrame(h, f)
      BY <1>2, <1>3, <2>2, <3>1 DEF LinkDone, Fresh, FreshFrame
    <3>3. \A n \in Numbers : n >= h => FreshModule(h, n)'
      BY ZenonT(40), <1>2, <2>2, <3>1 DEF LinkDone, Fresh, FreshModule
    <3>. QED
      BY <1>5, <2>2, <3>2, <3>3 DEF Fresh
  <2>. QED
    BY <1>2, <2>1, <2>2 DEF LinkDone, ResolveInv, FreshInv
<1>12. SoundLoadsResolve'
  BY <1>6 DEF ResolveInv, SoundLoadsResolve
<1>. QED
  BY <1>7, <1>8, <1>9, <1>10, <1>11, <1>12 DEF ResolveInv

\* A request cannot be resolved: what the load has read was not all there.
LEMMA RequestRefused ==
  ASSUME StateInv, ResolveInv, TopIs("link"), UNCHANGED <<files, cache, returned>>,
         Top.next <= Len(modules[Top.at].requests),
         ~Resolved(modules[Top.at].requests[Top.next]),
         modules' = Unlinked,
         stack' = SubSeq(stack, 1, Loading - 1), tainted' = TRUE,
         outcome' = [settled |-> "rejected", sound |-> stack[Loading].sound]
  PROVE  ResolveInv'
<1>1. FramesInv /\ ReadyInv /\ CacheInv /\ ModulesInv
  BY DEF StateInv
<1>2. /\ stack # <<>> /\ Top.op = "link" /\ Top \in PlainFrame
      /\ Top.at \in Numbers /\ Top.at \in Range(cache) /\ modules[Top.at].status = "linking"
      /\ stack \in Seq(Frame) /\ Shape(stack)
  BY LinkingFrames
<1>3. ~Inner(stack).sound
  <2> SUFFICES ASSUME Inner(stack).sound PROVE FALSE
    OBVIOUS
  <2>1. PICK R \in SUBSET Paths : Covered(R)
    BY <1>2 DEF ResolveInv, SoundInv, Busy
  <2>2. PICK i : i = Top.next /\ i \in 1 .. Len(modules[Top.at].requests)
    <3>1. Top.next \in Nat \ {0} /\ Len(modules[Top.at].requests) \in Nat
      BY <1>1, <1>2, SeqType DEF PlainFrame, ModulesInv
    <3>. QED
      BY <3>1
  <2>3. modules[Top.at].requests[i] \in R /\ RequestKnown(Top.at, i)
    BY <1>2, <2>1, <2>2 DEF Covered, Unready
  <2>4. \A f \in Range(stack) : f.op # "create"
    BY <1>2, FrameBelow DEF Top
  <2>5. modules[Top.at].requests[i] \in DOMAIN cache
    BY <2>3, <2>4 DEF RequestKnown
  <2>6. modules[Top.at].requests[i] \in Paths /\ files[modules[Top.at].requests[i]] # Missing
    BY <2>1, <2>3 DEF Covered, Closed
  <2>. QED
    BY <2>2, <2>5, <2>6, ModulatorAssumption DEF Resolved
<1>4. PICK k \in 1 .. Len(stack) : k = Loading /\ stack[k].op = "load"
  BY <1>1, <1>2, LoadingFrame
<1>5. stack[k] = Inner(stack)
  BY <1>4 DEF Loading, Inner
<1>6. PICK t \in Seq(Frame) :
        /\ t = SubSeq(stack, 1, k - 1) /\ Shape(t)
        /\ \A f \in Range(t) : f \in Range(stack)
                               /\ (f.op = "evaluate" \/ (f.op = "load" /\ f.step = "evaluate"))
  BY <1>1, <1>4, FramesBefore
<1>7. /\ stack' = t
      /\ \A f \in Range(stack') : f \in Range(stack)
                                  /\ (f.op = "evaluate" \/ (f.op = "load" /\ f.step = "evaluate"))
  BY <1>4, <1>6
<1>8. ~Busy'
  <2>1. t # <<>> => Last(t) \in Range(t)
    BY FramesOf
  <2>. QED
    BY <1>7, <2>1 DEF Busy, Top
<1>9. /\ Len(modules') = Len(modules)
      /\ \A m \in Numbers :
           /\ modules'[m].links = IF modules[m].status = "linking" THEN <<>> ELSE modules[m].links
           /\ modules'[m].status = IF modules[m].status = "linking" THEN "created" ELSE modules[m].status
  BY <1>1, LinksReset DEF ModulesInv, Unlinked
<1>10. Numbers' = Numbers
  BY <1>9 DEF Numbers
<1>11. LinkingInv'
  BY <1>9, <1>10 DEF LinkingInv
<1>12. RequestedInv'
  BY <1>7 DEF RequestedInv
<1>13. ExplainedInv'
  BY DEF ExplainedInv
<1>14. SoundInv'
  BY <1>8 DEF SoundInv
<1>15. FreshInv'
  <2>1. Trusted' => Trusted
    BY <1>7 DEF Trusted
  <2>2. ASSUME NEW h, Fresh(h) PROVE Fresh(h)'
    <3>1. \A f \in Range(stack') : FreshFrame(h, f)
      BY <1>7, <2>2 DEF Fresh
    <3>2. ASSUME NEW m \in Numbers, m >= h PROVE FreshModule(h, m)'
      <4>1. FreshModule(h, m)
        BY <2>2, <3>2 DEF Fresh
      <4>2. CASE modules[m].status = "linking"
        <5>1. modules'[m].links = <<>>
          BY <1>9, <4>2
        <5>2. 1 .. Len(modules'[m].links) = {}
          <6>1. PICK l \in Seq(Nat) : l = <<>>
            <7>1. <<>> \in Seq(Nat)
              OBVIOUS
            <7>. QED
              BY <7>1
          <6>2. 1 .. Len(l) = {}
            BY <6>1, SeqType
          <6>. QED
            BY <5>1, <6>1, <6>2
        <5>3. modules'[m].status = "created"
          BY <1>9, <4>2
        <5>. QED
          BY <5>2, <5>3 DEF FreshModule
      <4>3. CASE modules[m].status # "linking"
        BY <1>9, <4>1, <4>3 DEF FreshModule
      <4>. QED
        BY <4>2, <4>3
    <3>. QED
      BY <1>10, <2>2, <3>1, <3>2 DEF Fresh
  <2>. QED
    BY <1>9, <2>1, <2>2 DEF ResolveInv, FreshInv
<1>16. SoundLoadsResolve'
  BY <1>3, <1>4, <1>5 DEF SoundLoadsResolve
<1>. QED
  BY <1>11, <1>12, <1>13, <1>14, <1>15, <1>16 DEF ResolveInv

\* All requests of a module have been resolved.
LEMMA RequestsLinked ==
  ASSUME StateInv, ResolveInv, TopIs("link"), UNCHANGED <<files, cache, returned, history>>,
         Top.next > Len(modules[Top.at].requests), stack' = Under,
         modules' = IF Last(Under).op = "load" THEN SetStatus(Linking, "linked") ELSE modules
  PROVE  ResolveInv'
<1>1. FramesInv /\ ReadyInv /\ CacheInv /\ ModulesInv
  BY DEF StateInv
<1>2. /\ stack # <<>> /\ Top.op = "link" /\ Top \in PlainFrame /\ Top.at \in Numbers
      /\ Under \in Seq(Frame) /\ Shape(Under) /\ Under # <<>> /\ Below(Last(Under), Top)
      /\ Last(Under) \in Range(Under)
      /\ \A f \in Range(Under) :
           /\ f \in Range(stack)
           /\ f.op \in {"link", "evaluate"} \/ (f.op = "load" /\ f.step = "evaluate")
  BY LinkingFrames
<1>3. /\ Range(stack) = Range(Under) \cup {Top} /\ stack' # <<>> /\ Top' = Last(Under)
      /\ Top' \in Range(Under) /\ Inner(stack') = Inner(stack)
  BY <1>1, <1>2, TopFrame, StackPopped DEF Top
<1>4. tainted' = tainted /\ outcome' = outcome
  BY DEF history
<1>5. Len(modules[Top.at].requests) \in Nat /\ Top.next \in Nat
  BY <1>1, <1>2, SeqType DEF PlainFrame, ModulesInv
<1>6. /\ Len(modules') = Len(modules)
      /\ \A n \in Numbers :
           /\ modules'[n].path = modules[n].path /\ modules'[n].requests = modules[n].requests
           /\ modules'[n].links = modules[n].links
           /\ modules'[n].status = IF Top'.op = "load" /\ modules[n].status = "linking"
                                     THEN "linked" ELSE modules[n].status
  <2>1. CASE Top'.op = "load"
    <3>1. modules' = SetStatus(Linking, "linked") /\ "linked" \in Status
      BY <1>3, <2>1 DEF Status
    <3>2. /\ Len(modules') = Len(modules)
          /\ \A m \in Numbers :
               /\ modules'[m].path = modules[m].path /\ modules'[m].requests = modules[m].requests
               /\ modules'[m].links = modules[m].links
               /\ modules'[m].status = IF m \in Linking THEN "linked" ELSE modules[m].status
      BY <1>1, <3>1, StatusesSet DEF ModulesInv
    <3>3. DOMAIN modules = Numbers
      BY <1>1, SeqType DEF ModulesInv, Numbers
    <3>. QED
      BY <2>1, <3>2, <3>3 DEF Linking
  <2>2. CASE Top'.op # "load"
    BY <1>3, <2>2
  <2>. QED
    BY <2>1, <2>2
<1>7. Range(cache) \subseteq Numbers /\ Numbers' = Numbers
  BY <1>1, <1>6 DEF CacheInv, Range, Numbers
\* The modules that wait for this one are linked when the load has no others.
<1>8. /\ Top'.op # "load" => Top'.op = "link"
      /\ Top'.op = "load" => Top'.step = "evaluate" /\ \A f \in Range(Under) : f.op # "link"
  <2>1. Top'.op = "load" => \A f \in Range(Under) : f.op # "link"
    <3> SUFFICES ASSUME Top'.op = "load", NEW f \in Range(Under) PROVE f.op # "link"
      OBVIOUS
    <3>. QED
      BY <1>2, <1>3, FrameBelow
  <2>. QED
    BY <1>2, <1>3, <2>1 DEF Below
<1>9. LinkingInv'
  BY <1>3, <1>6, <1>7, <1>8 DEF LinkingInv
<1>10. RequestedInv'
  BY <1>2 DEF RequestedInv
<1>11. ExplainedInv'
  <2> SUFFICES ASSUME ~tainted, NEW d \in Range(cache), modules'[d].status = "created"
               PROVE  Explained(d)'
    BY <1>4 DEF ExplainedInv
  <2>1. modules[d].status = "created" /\ modules'[d].path = modules[d].path
    BY <1>6, <1>7
  <2>2. Explained(d)
    BY <2>1 DEF ResolveInv, ExplainedInv
  <2>3. PICK k \in Range(cache) : k < d /\ \E i \in 1 .. Len(modules[k].requests) : Requested(d, k, i)
    BY <1>2, <1>3, <2>2 DEF Explained, Loaded
  <2>4. PICK i \in 1 .. Len(modules[k].requests) : Requested(d, k, i)
    BY <2>3
  <2>5. modules'[k].requests = modules[k].requests /\ modules[k].requests[i] = modules[d].path
    BY <1>6, <1>7, <2>4 DEF Requested
  <2>6. ~(Top.at = k /\ Top.next <= i)
    BY <1>5
  <2>7. modules[k].status = "created" => modules'[k].status = "created"
    BY <1>6, <1>7
  <2>8. Requested(d, k, i)'
    BY <1>3, <2>1, <2>4, <2>5, <2>6, <2>7 DEF Requested
  <2>. QED
    BY <2>3, <2>4, <2>5, <2>8 DEF Explained
<1>12. SoundInv'
  <2> SUFFICES ASSUME Top'.op = "link", Inner(stack).sound PROVE \E R \in SUBSET Paths : Covered(R)'
    BY <1>3, <1>8 DEF SoundInv, Busy
  <2>1. PICK R \in SUBSET Paths : Covered(R)
    BY <1>2 DEF ResolveInv, SoundInv, Busy
  <2>2. Closed(R)' /\ returned' # "failed"
    BY <2>1 DEF Covered, Closed
  <2>3. ASSUME NEW d \in Range(cache), Unready(d)', NEW i \in 1 .. Len(modules'[d].requests)
        PROVE  modules'[d].requests[i] \in R /\ RequestKnown(d, i)'
    <3>1. Unready(d) /\ modules'[d].requests = modules[d].requests
      BY <1>6, <1>7, <2>3 DEF Unready
    <3>2. modules[d].requests[i] \in R /\ RequestKnown(d, i)
      BY <2>1, <2>3, <3>1 DEF Covered
    <3>. QED
      BY <1>2, <1>3, <3>1, <3>2 DEF RequestKnown
  <2>. QED
    BY <2>2, <2>3 DEF Covered
<1>13. FreshInv'
  <2>1. Trusted' => Trusted
    BY <1>2, <1>4 DEF Trusted
  <2>2. ASSUME NEW h, Fresh(h) PROVE Fresh(h)'
    <3>1. \A f \in Range(stack') : FreshFrame(h, f)
      BY <1>2, <2>2 DEF Fresh
    <3>2. \A n \in Numbers : n >= h => FreshModule(h, n)'
      BY <1>6, <2>2 DEF Fresh, FreshModule
    <3>. QED
      BY <1>7, <2>2, <3>1, <3>2 DEF Fresh
  <2>. QED
    BY <1>6, <2>1, <2>2 DEF ResolveInv, FreshInv
<1>14. SoundLoadsResolve'
  BY <1>4 DEF ResolveInv, SoundLoadsResolve
<1>. QED
  BY <1>9, <1>10, <1>11, <1>12, <1>13, <1>14 DEF ResolveInv

\* V8 links.
LEMMA LinkStepResolves ==
  ASSUME StateInv, ResolveInv, Link
  PROVE  ResolveInv'
<1>1. TopIs("link") /\ UNCHANGED <<files, cache, returned>>
  BY DEF Link
<1>2. Top.at \in Range(cache) /\ CacheInv
  BY <1>1, LinkingFrames DEF StateInv
<1>3. PICK request : request = modules[Top.at].requests[Top.next]
  OBVIOUS
<1>4. PICK frames : frames = Advanced
  OBVIOUS
<1>5. CASE /\ request \in DOMAIN cache /\ UNCHANGED <<ended, history>>
           /\ \/ /\ modules[cache[request]].status = "created"
                 /\ modules' = Relabelled(Linked(Top.at, cache[request]), cache[request], "linking")
                 /\ stack' = Append(frames, LinkFrame(cache[request]))
              \/ /\ modules[cache[request]].status # "created"
                 /\ modules' = Linked(Top.at, cache[request]) /\ stack' = frames
  <2>1. PICK child \in Numbers : child = cache[request] /\ child \in Range(cache)
    BY <1>2, <1>5 DEF CacheInv, Range
  <2>2. PICK t : t = Linked(Top.at, child)
    OBVIOUS
  <2>3. \/ /\ modules[child].status = "created"
           /\ modules' = Relabelled(t, child, "linking")
           /\ stack' = Append(frames, LinkFrame(child))
        \/ modules[child].status # "created" /\ modules' = t /\ stack' = frames
    BY <1>5, <2>1, <2>2
  <2>. QED
    BY <1>1, <1>3, <1>4, <1>5, <2>1, <2>2, <2>3, RequestLinked
<1>6. CASE /\ ~(Top.next > Len(modules[Top.at].requests)) /\ ~Resolved(request)
           /\ modules' = Unlinked
           /\ stack' = SubSeq(stack, 1, Loading - 1) /\ tainted' = TRUE
           /\ outcome' = [settled |-> "rejected", sound |-> stack[Loading].sound]
  <2>1. Top.next \in Nat /\ Len(modules[Top.at].requests) \in Nat
    BY <1>1, LinkingFrames, SeqType DEF StateInv, ModulesInv, PlainFrame
  <2>2. Top.next <= Len(modules[Top.at].requests)
    BY <1>6, <2>1
  <2>. QED
    BY <1>1, <1>3, <1>6, <2>2, RequestRefused
<1>7. CASE /\ Top.next > Len(modules[Top.at].requests)
           /\ stack' = Under /\ UNCHANGED <<ended, history>>
           /\ modules' = IF Last(Under).op = "load" THEN SetStatus(Linking, "linked") ELSE modules
  BY <1>1, <1>7, RequestsLinked
<1>. QED
  BY <1>2, <1>3, <1>4, <1>5, <1>6, <1>7
  DEF Link, Resolved, Linked, Relabelled, LinkFrame, Advanced, Unlinked

\* While modules are evaluated, nothing is left to be linked.
LEMMA QuietResolves ==
  ASSUME StateInv, ResolveInv, ~Busy, UNCHANGED <<files, cache>>,
         stack' \in Seq(Frame), outcome' = outcome, tainted' \in BOOLEAN, tainted => tainted',
         Len(modules') = Len(modules),
         \A n \in Numbers :
           /\ modules'[n].links = modules[n].links
           /\ \/ modules'[n].status = modules[n].status
              \/ modules'[n].status \in {"evaluating", "evaluated", "errored"}
                 /\ (modules'[n].status = "errored" => ~Trusted'),
         \A f \in Range(stack') : f.op = "evaluate" \/ (f.op = "load" /\ f.step = "evaluate"),
         Trusted' => Trusted,
         \A h : Trusted' /\ Fresh(h) => \A f \in Range(stack') : FreshFrame(h, f)
  PROVE  ResolveInv'
<1>1. CacheInv /\ ModulesInv /\ HistoryInv
  BY DEF StateInv
<1>2. Range(cache) \subseteq Numbers /\ Numbers' = Numbers
  BY <1>1 DEF CacheInv, Range, Numbers
<1>3. ~Busy'
  <2>1. stack' # <<>> => Last(stack') \in Range(stack')
    <3>1. PICK s \in Seq(Frame) : s = stack'
      OBVIOUS
    <3>. QED
      BY <3>1, FramesOf
  <2>. QED
    BY <2>1 DEF Busy, Top
<1>4. LinkingInv'
  <2>1. \A n \in Numbers : modules[n].status # "linking"
    BY DEF ResolveInv, LinkingInv, Busy
  <2>. QED
    BY <1>2, <2>1 DEF LinkingInv
<1>5. RequestedInv'
  BY DEF RequestedInv
<1>6. ExplainedInv'
  <2> SUFFICES ASSUME ~tainted', NEW d \in Range(cache) PROVE modules'[d].status # "created"
    BY DEF ExplainedInv
  <2>1. ~tainted
    OBVIOUS
  <2>2. modules[d].status # "created"
    BY <2>1, NoneCreated DEF ResolveInv, Unready
  <2>. QED
    BY <1>2, <2>2
<1>7. SoundInv'
  BY <1>3 DEF SoundInv
<1>8. FreshInv'
  <2> SUFFICES ASSUME Trusted' PROVE \E h \in 1 .. Len(modules) + 1 : Fresh(h)'
    BY DEF FreshInv
  <2>1. PICK h \in 1 .. Len(modules) + 1 : Fresh(h)
    BY DEF ResolveInv, FreshInv
  <2>2. \A n \in Numbers : n >= h => FreshModule(h, n)'
    BY <2>1 DEF Fresh, FreshModule
  <2>3. \A f \in Range(stack') : FreshFrame(h, f)
    BY <2>1
  <2>4. Fresh(h)'
    BY <1>2, <2>1, <2>2, <2>3 DEF Fresh
  <2>. QED
    BY <2>4
<1>9. SoundLoadsResolve'
  BY DEF ResolveInv, SoundLoadsResolve
<1>. QED
  BY <1>4, <1>5, <1>6, <1>7, <1>8, <1>9 DEF ResolveInv

\* A module begins to be evaluated.
LEMMA BeginEvaluationResolves ==
  ASSUME StateInv, ResolveInv, stack # <<>>, Top.op = "evaluate" \/ (Top.op = "load" /\ Top.step = "evaluate"),
         NEW m \in Numbers, BeginEvaluation(m, stack), \A h : Trusted /\ Fresh(h) => m >= h,
         UNCHANGED <<files, cache, returned, history>>
  PROVE  ResolveInv'
<1>1. FramesInv /\ ModulesInv /\ HistoryInv /\ stack \in Seq(Frame)
  BY DEF StateInv, FramesInv
<1>2. modules' = SetStatus({m}, "evaluating") /\ stack' = Append(stack, [op |-> "evaluate", at |-> m, next |-> 1])
  BY DEF BeginEvaluation
<1>3. PICK f \in PlainFrame : /\ f = [op |-> "evaluate", at |-> m, next |-> 1] /\ f \in Frame
                              /\ f.op = "evaluate" /\ f.at = m
  BY <1>1, NewFrame
<1>4. stack' = Append(stack, f)
  BY <1>2, <1>3
<1>5. stack' \in Seq(Frame) /\ Range(stack') = Range(stack) \cup {f}
  BY <1>1, <1>3, <1>4, StackPushed
<1>6. /\ Len(modules') = Len(modules)
      /\ \A n \in Numbers :
           /\ modules'[n].links = modules[n].links
           /\ modules'[n].status = IF n \in {m} THEN "evaluating" ELSE modules[n].status
  <2>1. "evaluating" \in Status
    BY DEF Status
  <2>. QED
    BY <1>1, <1>2, <2>1, StatusesSet DEF ModulesInv
<1>7. ~Busy
  BY DEF Busy
<1>8. \A g \in Range(stack') : g.op = "evaluate" \/ (g.op = "load" /\ g.step = "evaluate")
  BY <1>1, <1>3, <1>5, QuietFrames
<1>9. tainted' = tainted /\ outcome' = outcome /\ tainted \in BOOLEAN
  BY <1>1 DEF history, HistoryInv
<1>10. Trusted' => Trusted
  BY <1>3, <1>5, <1>9 DEF Trusted
<1>11. ASSUME NEW h, Trusted', Fresh(h) PROVE \A g \in Range(stack') : FreshFrame(h, g)
  <2>1. m >= h
    BY <1>10, <1>11
  <2>. QED
    BY <1>3, <1>5, <1>11, <2>1 DEF Fresh, FreshFrame
<1>12. \A n \in Numbers :
         /\ modules'[n].links = modules[n].links
         /\ \/ modules'[n].status = modules[n].status
            \/ modules'[n].status \in {"evaluating", "evaluated", "errored"}
               /\ (modules'[n].status = "errored" => ~Trusted')
  BY <1>6
<1>. QED
  BY <1>5, <1>6, <1>7, <1>8, <1>9, <1>10, <1>11, <1>12, QuietResolves

\* V8 evaluates the module of a load, or the load is settled.
LEMMA LoadEvaluatesResolves ==
  ASSUME StateInv, ResolveInv, LoadEvaluates
  PROVE  ResolveInv'
<1>1. /\ TopIs("load") /\ stack # <<>> /\ Top.op = "load" /\ Top.step = "evaluate"
      /\ UNCHANGED <<files, cache, returned, ended>>
  BY DEF LoadEvaluates, AtStep, TopIs
<1>2. FramesInv /\ ReadyInv /\ ReturnInv
  BY DEF StateInv
<1>3. PICK m \in Numbers : m = Top.at
  BY <1>1, <1>2, TopFrame DEF FrameRefers
<1>4. \A h : Fresh(h) => m >= h
  BY <1>1, <1>2, <1>3, TopFrame DEF Fresh, FreshFrame
<1>5. CASE BeginEvaluation(m, stack) /\ UNCHANGED history
  BY <1>1, <1>4, <1>5, BeginEvaluationResolves
<1>6. CASE Settle(Verdict(modules[m].status)) /\ UNCHANGED modules
  <2>1. PICK how \in {"resolved", "rejected"} : how = Verdict(modules[m].status)
    BY DEF Verdict
  <2>2. returned' = "none"
    BY <1>1, <1>2 DEF ReturnInv, Creating
  <2>3. ASSUME how = "rejected" PROVE ~Top.sound
    <3> SUFFICES ASSUME Top.sound PROVE FALSE
      OBVIOUS
    <3>1. Trusted
      BY <1>1, <1>2, TopFrame DEF Trusted
    <3>2. PICK h \in 1 .. Len(modules) + 1 : Fresh(h)
      BY <3>1 DEF ResolveInv, FreshInv
    <3>3. modules[m].status # "errored"
      BY <1>4, <3>2 DEF Fresh, FreshModule
    <3>. QED
      BY <2>1, <2>3, <3>3 DEF Verdict
  <2>. QED
    BY <1>1, <1>6, <2>1, <2>2, <2>3, SettleResolves
<1>. QED
  BY <1>3, <1>5, <1>6 DEF LoadEvaluates

\* V8 goes through the links of a module.
LEMMA EvaluateLinksResolves ==
  ASSUME StateInv, ResolveInv, EvaluateLinks
  PROVE  ResolveInv'
<1>1. /\ TopIs("evaluate") /\ stack # <<>> /\ Top.op = "evaluate"
      /\ Top.next <= Len(modules[Top.at].links)
      /\ UNCHANGED <<files, cache, returned, ended, history>>
  BY DEF EvaluateLinks, TopIs
<1>2. FramesInv /\ ReadyInv /\ ModulesInv /\ HistoryInv
  BY DEF StateInv
<1>3. /\ Top \in PlainFrame /\ FrameRefers(Top) /\ Top \in Range(stack)
      /\ Under \in Seq(Frame) /\ Range(Under) \subseteq Range(stack)
  BY <1>1, <1>2, TopFrame
<1>4. PICK m \in Numbers : m = Top.at
  BY <1>1, <1>3 DEF FrameRefers
<1>5. PICK i : i = Top.next /\ i \in 1 .. Len(modules[m].links)
  <2>1. Top.next \in Nat \ {0} /\ Top.next <= Len(modules[m].links)
    BY <1>1, <1>3, <1>4 DEF PlainFrame
  <2>2. modules[m] \in Module
    BY <1>2, SeqType DEF ModulesInv, Numbers
  <2>3. Len(modules[m].links) \in Nat
    BY <2>2, SeqType DEF Module
  <2>. QED
    BY <2>1, <2>3
<1>6. PICK child \in Numbers : child = modules[m].links[i]
  BY <1>2, <1>5 DEF ModulesInv
<1>7. ASSUME NEW h, Fresh(h) PROVE m >= h /\ child >= h
  <2>1. m >= h
    BY <1>1, <1>3, <1>4, <1>7 DEF Fresh, FreshFrame
  <2>. QED
    BY <1>5, <1>6, <1>7, <2>1 DEF Fresh, FreshModule
<1>8. /\ ~Busy /\ tainted' = tainted /\ outcome' = outcome /\ tainted \in BOOLEAN
      /\ \A f \in Range(stack) : f.op = "evaluate" \/ (f.op = "load" /\ f.step = "evaluate")
  BY <1>1, <1>2, QuietFrames DEF Busy, history, HistoryInv
<1>9. CASE BeginEvaluation(child, stack)
  BY <1>1, <1>7, <1>9, BeginEvaluationResolves
<1>10. CASE /\ modules[child].status = "errored"
            /\ modules' = SetStatus({m}, "errored") /\ stack' = Under
  <2>1. ~Trusted
    <3> SUFFICES ASSUME Trusted PROVE FALSE
      OBVIOUS
    <3>1. PICK h \in 1 .. Len(modules) + 1 : Fresh(h)
      BY DEF ResolveInv, FreshInv
    <3>. QED
      BY <1>7, <1>10, <3>1 DEF Fresh, FreshModule
  <2>2. ~Trusted'
    BY <1>3, <1>8, <1>10, <2>1 DEF Trusted
  <2>3. /\ Len(modules') = Len(modules)
        /\ \A n \in Numbers :
             /\ modules'[n].links = modules[n].links
             /\ modules'[n].status = IF n \in {m} THEN "errored" ELSE modules[n].status
    <3>1. "errored" \in Status
      BY DEF Status
    <3>. QED
      BY <1>2, <1>10, <3>1, StatusesSet DEF ModulesInv
  <2>4. \A n \in Numbers :
          /\ modules'[n].links = modules[n].links
          /\ \/ modules'[n].status = modules[n].status
             \/ modules'[n].status \in {"evaluating", "evaluated", "errored"}
                /\ (modules'[n].status = "errored" => ~Trusted')
    BY <2>2, <2>3
  <2>. QED
    BY <1>1, <1>3, <1>8, <1>10, <2>2, <2>3, <2>4, QuietResolves
<1>11. CASE stack' = Append(Under, [Top EXCEPT !.next = @ + 1]) /\ UNCHANGED modules
  <2>1. PICK f \in PlainFrame : /\ f = [Top EXCEPT !.next = @ + 1] /\ f \in Frame
                                /\ f.op = Top.op /\ f.at = Top.at
    BY <1>3, TopAdvances
  <2>2. stack' = Append(Under, f)
    BY <1>11, <2>1
  <2>3. stack' \in Seq(Frame) /\ Range(stack') = Range(Under) \cup {f}
    BY <1>3, <2>1, <2>2, StackPushed
  <2>4. Trusted' => Trusted
    BY <1>1, <1>3, <1>8, <2>1, <2>3 DEF Trusted
  <2>5. \A h : Fresh(h) => \A g \in Range(stack') : FreshFrame(h, g)
    BY <1>1, <1>3, <2>1, <2>3 DEF Fresh, FreshFrame
  <2>6. \A g \in Range(stack') : g.op = "evaluate" \/ (g.op = "load" /\ g.step = "evaluate")
    BY <1>1, <1>3, <1>8, <2>1, <2>3
  <2>. QED
    BY <1>1, <1>8, <1>11, <2>3, <2>4, <2>5, <2>6, QuietResolves
<1>. QED
  BY <1>4, <1>5, <1>6, <1>9, <1>10, <1>11 DEF EvaluateLinks

\* The script of a module ends, or throws.
LEMMA ScriptEndsResolves ==
  ASSUME StateInv, ResolveInv, ScriptEnds
  PROVE  ResolveInv'
<1>1. /\ stack # <<>> /\ Top.op = "evaluate"
      /\ UNCHANGED <<files, cache, returned, ended, unresolved, outcome>>
  BY DEF ScriptEnds, ScriptRuns
<1>2. FramesInv /\ ReadyInv /\ HistoryInv /\ ModulesInv
  BY DEF StateInv
<1>3. /\ FrameRefers(Top) /\ Under \in Seq(Frame) /\ Range(Under) \subseteq Range(stack)
  BY <1>1, <1>2, TopFrame
<1>4. PICK m \in Numbers : m = Top.at
  BY <1>1, <1>3 DEF FrameRefers
<1>5. /\ ~Busy
      /\ \A f \in Range(stack) : f.op = "evaluate" \/ (f.op = "load" /\ f.step = "evaluate")
  BY <1>1, <1>2, QuietFrames DEF Busy
<1>6. ASSUME NEW status \in {"evaluated", "errored"}, modules' = SetStatus({m}, status),
             status = "errored" => ~Trusted'
      PROVE  /\ Len(modules') = Len(modules)
             /\ \A n \in Numbers :
                  /\ modules'[n].links = modules[n].links
                  /\ \/ modules'[n].status = modules[n].status
                     \/ modules'[n].status \in {"evaluating", "evaluated", "errored"}
                        /\ (modules'[n].status = "errored" => ~Trusted')
  <2>1. /\ Len(modules') = Len(modules)
        /\ \A n \in Numbers :
             /\ modules'[n].links = modules[n].links
             /\ modules'[n].status = IF n \in {m} THEN status ELSE modules[n].status
    <3>1. status \in Status
      BY DEF Status
    <3>. QED
      BY <1>2, <1>6, <3>1, StatusesSet DEF ModulesInv
  <2>. QED
    BY <1>6, <2>1
<1>7. CASE modules' = SetStatus({m}, "evaluated") /\ stack' = Under /\ UNCHANGED tainted
  <2>1. tainted' \in BOOLEAN /\ (tainted => tainted') /\ (Trusted' => Trusted)
    BY <1>2, <1>3, <1>7 DEF HistoryInv, Trusted
  <2>2. \A h : Fresh(h) => \A g \in Range(stack') : FreshFrame(h, g)
    BY <1>3, <1>7 DEF Fresh
  <2>. QED
    BY <1>1, <1>3, <1>5, <1>6, <1>7, <2>1, <2>2, QuietResolves
<1>8. CASE modules' = SetStatus({m}, "errored") /\ stack' = Unsound(Under) /\ tainted' = TRUE
  <2>1. PICK s \in Seq(Frame) : s = Under
    BY <1>3
  <2>2. PICK t \in Seq(Frame) :
          /\ t = Unsound(s) /\ DOMAIN t = 1 .. Len(s)
          /\ \A k \in 1 .. Len(s) :
               /\ t[k].op = s[k].op
               /\ s[k].op = "load" => t[k].step = s[k].step /\ ~t[k].sound
    BY UnsoundFrames
  <2>3. ASSUME NEW f \in Range(t)
        PROVE  f.op = "evaluate" \/ (f.op = "load" /\ f.step = "evaluate" /\ ~f.sound)
    <3>1. PICK k \in 1 .. Len(s) : f = t[k]
      BY <2>2 DEF Range
    <3>2. s[k] \in Range(stack)
      BY <1>3, <2>1, SeqType DEF Range
    <3>. QED
      BY <1>5, <2>2, <3>1, <3>2
  <2>4. stack' = t
    BY <1>8, <2>1, <2>2
  <2>5. ~Trusted'
    BY <1>8, <2>3, <2>4 DEF Trusted
  <2>. QED
    BY <1>1, <1>5, <1>6, <1>8, <2>3, <2>4, <2>5, QuietResolves
<1>. QED
  BY <1>4, <1>7, <1>8 DEF ScriptEnds

\* A load begins.
LEMMA LoadModuleResolves ==
  ASSUME StateInv, ResolveInv, NEW p \in Paths, LoadModule(p)
  PROVE  ResolveInv'
<1>1. /\ ScriptRuns /\ returned = "none" /\ ~Busy
      /\ UNCHANGED <<files, cache, modules, returned, tainted, outcome>>
  BY DEF LoadModule, ScriptRuns, history, Busy
<1>2. FramesInv /\ HistoryInv /\ FilesInv
  BY DEF StateInv
<1>3. PICK sound \in BOOLEAN : sound = (Sound(p) /\ ~tainted)
  <2>1. (Sound(p) /\ ~tainted) \in BOOLEAN
    BY Zenon DEF Sound
  <2>. QED
    BY <2>1
<1>4. PICK f : f = [op |-> "load", step |-> "find", path |-> p, at |-> 0, sound |-> sound]
  OBVIOUS
<1>5. f \in Frame /\ f.op = "load" /\ f.step = "find" /\ f.path = p /\ f.sound = sound
  <2>1. 0 \in 0 .. MaxModules
    BY ModulatorAssumption
  <2>. QED
    BY <1>4, <2>1 DEF Frame
<1>6. stack' = Append(stack, f)
  BY <1>3, <1>4 DEF LoadModule
<1>7. /\ stack' # <<>> /\ Top' = f /\ Range(stack') = Range(stack) \cup {f} /\ Inner(stack') = f
  BY <1>2, <1>5, <1>6, StackGrown
<1>8. \A g \in Range(stack) : g.op = "evaluate" \/ (g.op = "load" /\ g.step = "evaluate")
  <2>1. stack # <<>> => Top.op = "evaluate"
    BY <1>1 DEF ScriptRuns
  <2>2. stack = <<>> => Range(stack) = {}
    BY DEF Range
  <2>. QED
    BY <1>2, <2>1, <2>2, QuietFrames
<1>9. LinkingInv'
  BY <1>1 DEF ResolveInv, LinkingInv, Busy, Numbers
<1>10. RequestedInv'
  BY <1>5, <1>7, <1>8 DEF RequestedInv
<1>11. ~tainted => \A d \in Range(cache) : ~Unready(d)
  BY <1>1, NoneCreated DEF ResolveInv
<1>12. ExplainedInv'
  BY <1>1, <1>11 DEF ExplainedInv, Unready
<1>13. SoundInv'
  <2> SUFFICES ASSUME Sound(p), ~tainted PROVE \E R \in SUBSET Paths : Covered(R)'
    BY <1>3, <1>5, <1>7 DEF SoundInv
  <2>1. PICK R \in SUBSET Paths : p \in R /\ Closed(R)
    BY <1>2, ReadsClosed
  <2>2. Closed(R)'
    BY <1>1, <2>1 DEF Closed
  <2>3. \A d \in Range(cache) : ~Unready(d)'
    BY <1>1, <1>11 DEF Unready
  <2>. QED
    BY <1>1, <1>5, <1>7, <2>1, <2>2, <2>3 DEF Covered
<1>14. FreshInv'
  <2>1. Trusted' => Trusted
    BY <1>1, <1>3, <1>5, <1>7 DEF Trusted
  <2>2. \A h : Fresh(h) => Fresh(h)'
    BY <1>1, <1>5, <1>7 DEF Fresh, FreshFrame, FreshModule, Numbers
  <2>. QED
    BY <1>1, <2>1, <2>2 DEF ResolveInv, FreshInv
<1>15. SoundLoadsResolve'
  BY <1>1 DEF ResolveInv, SoundLoadsResolve
<1>. QED
  BY <1>9, <1>10, <1>12, <1>13, <1>14, <1>15 DEF ResolveInv

\* No load is sound any more, and nothing else has changed.
LEMMA StackUnsound ==
  ASSUME FramesInv, stack' = Unsound(stack)
  PROVE  /\ stack' # <<>> <=> stack # <<>>
         /\ stack # <<>> =>
              /\ Top'.op = Top.op /\ (Top.op = "load" => Top'.step = Top.step)
              /\ ~Inner(stack').sound
              /\ \A f \in Range(Under') : f.op # "load" => f \in Range(Under)
         /\ \A f \in Range(stack') :
              \E g \in Range(stack) : /\ f.op = g.op /\ f.at = g.at
                                      /\ g.op = "load" => f.step = g.step /\ ~f.sound
                                      /\ g.op # "load" => f = g
         /\ \A g \in Range(stack) :
              \E f \in Range(stack') : /\ f.op = g.op
                                       /\ g.op = "load" => f.step = g.step /\ f.path = g.path
                                       /\ g.op # "load" => f = g
<1>1. stack \in Seq(Frame) /\ Shape(stack)
  BY DEF FramesInv
<1>2. PICK t \in Seq(Frame) :
        /\ t = Unsound(stack) /\ Len(t) = Len(stack) /\ DOMAIN t = 1 .. Len(stack) /\ Shape(t)
        /\ \A k \in 1 .. Len(stack) :
              /\ t[k].op = stack[k].op /\ t[k].at = stack[k].at
              /\ stack[k].op = "load" =>
                   t[k].step = stack[k].step /\ t[k].path = stack[k].path /\ ~t[k].sound
              /\ stack[k].op # "load" => t[k] = stack[k]
  BY <1>1, UnsoundFrames
<1>3. DOMAIN stack = 1 .. Len(stack) /\ Len(stack) \in Nat /\ stack' = t
  BY <1>1, <1>2, SeqType
<1>4. t # <<>> <=> stack # <<>>
  BY <1>1, <1>2, SeqType
<1>5. \A k \in 1 .. Len(stack) : stack[k] \in Range(stack) /\ t[k] \in Range(t)
  BY <1>2, <1>3 DEF Range
<1>6. ASSUME NEW f \in Range(t)
      PROVE  \E g \in Range(stack) : /\ f.op = g.op /\ f.at = g.at
                                     /\ g.op = "load" => f.step = g.step /\ ~f.sound
                                     /\ g.op # "load" => f = g
  <2>1. PICK k \in 1 .. Len(stack) : f = t[k]
    BY <1>2 DEF Range
  <2>. QED
    BY <1>2, <1>5, <2>1
<1>7. ASSUME NEW g \in Range(stack)
      PROVE  \E f \in Range(t) : /\ f.op = g.op
                                 /\ g.op = "load" => f.step = g.step /\ f.path = g.path
                                 /\ g.op # "load" => f = g
  <2>1. PICK k \in 1 .. Len(stack) : g = stack[k]
    BY <1>3 DEF Range
  <2>. QED
    BY <1>2, <1>5, <2>1
<1>8. ASSUME stack # <<>>
      PROVE  /\ Last(t).op = Top.op /\ (Top.op = "load" => Last(t).step = Top.step)
             /\ ~Inner(t).sound
             /\ \A f \in Range(Front(t)) : f.op # "load" => f \in Range(Under)
  <2>1. Top = stack[Len(stack)] /\ Len(stack) \in 1 .. Len(stack) /\ Last(t) = t[Len(stack)]
    <3>1. Top = stack[Len(stack)] /\ Len(stack) \in Nat \ {0}
      BY <1>1, <1>8, TopOf DEF Top
    <3>2. Last(t) = t[Len(t)]
      BY <1>4, <1>8, TopOf
    <3>. QED
      BY <1>2, <3>1, <3>2
  <2>2. ~Inner(t).sound
    <3>1. PICK k \in 1 .. Len(t) : t[k].op = "load" /\ Inner(t) = t[k]
      BY <1>2, <1>4, <1>8, InnerPlace
    <3>. QED
      BY <1>2, <3>1
  <2>3. ASSUME NEW f \in Range(Front(t)), f.op # "load" PROVE f \in Range(Under)
    <3>1. PICK v \in Seq(Frame) : /\ v = Front(t) /\ Len(v) = Len(stack) - 1
                                  /\ \A k \in 1 .. Len(stack) - 1 : v[k] = t[k]
      <4>1. /\ Front(t) \in Seq(Frame) /\ Len(Front(t)) = Len(t) - 1
            /\ \A k \in 1 .. Len(t) - 1 : Front(t)[k] = t[k]
        BY <1>4, <1>8, TopOf
      <4>. QED
        BY <1>2, <4>1
    <3>2. PICK u \in Seq(Frame) : /\ u = Under /\ Len(u) = Len(stack) - 1
                                  /\ \A k \in 1 .. Len(stack) - 1 : u[k] = stack[k]
      BY <1>1, <1>8, TopOf DEF Under
    <3>3. DOMAIN v = 1 .. Len(stack) - 1 /\ DOMAIN u = 1 .. Len(stack) - 1
      BY <3>1, <3>2, SeqType
    <3>4. PICK k \in 1 .. Len(stack) - 1 : f = v[k]
      BY <2>3, <3>1, <3>3 DEF Range
    <3>5. k \in 1 .. Len(stack)
      BY <1>3
    <3>6. f = u[k]
      BY <1>2, <2>3, <3>1, <3>2, <3>4, <3>5
    <3>. QED
      BY <3>2, <3>3, <3>6 DEF Range
  <2>. QED
    BY <1>2, <2>1, <2>2, <2>3
<1>. QED
  BY <1>3, <1>4, <1>6, <1>7, <1>8 DEF Top, Under

\* The cache is cleared.
LEMMA ClearCacheResolves ==
  ASSUME StateInv, ResolveInv, NEW prefix \in Clearable, ClearCache(prefix)
  PROVE  ResolveInv'
<1>1. /\ ScriptRuns /\ stack' = Unsound(stack) /\ ~Busy
      /\ tainted' = (tainted /\ (prefix # Paths \/ stack # <<>>))
      /\ cache' = [p \in DOMAIN cache \ prefix |-> cache[p]]
      /\ UNCHANGED <<files, modules, returned, outcome>>
  BY DEF ClearCache, ScriptRuns, Busy
<1>2. FramesInv /\ HistoryInv /\ CacheInv /\ ModulesInv
  BY DEF StateInv
<1>3. /\ stack' # <<>> <=> stack # <<>>
      /\ stack # <<>> => Top'.op = Top.op /\ (Top.op = "load" => Top'.step = Top.step)
      /\ \A f \in Range(stack') :
              \E g \in Range(stack) : /\ f.op = g.op /\ f.at = g.at
                                      /\ g.op = "load" => f.step = g.step /\ ~f.sound
                                      /\ g.op # "load" => f = g
  BY <1>1, <1>2, StackUnsound
<1>4. \A g \in Range(stack) : g.op = "evaluate" \/ (g.op = "load" /\ g.step = "evaluate")
  <2>1. stack # <<>> => Top.op = "evaluate"
    BY <1>1 DEF ScriptRuns
  <2>2. stack = <<>> => Range(stack) = {}
    BY DEF Range
  <2>. QED
    BY <1>2, <2>1, <2>2, QuietFrames
<1>5. /\ DOMAIN cache' = DOMAIN cache \ prefix
      /\ \A p \in DOMAIN cache' : cache'[p] = cache[p]
      /\ Range(cache') \subseteq Range(cache)
  BY <1>1 DEF Range
<1>6. tainted' \/ ~tainted \/ (stack = <<>> /\ DOMAIN cache' = {} /\ Range(cache') = {})
  <2>1. prefix = Paths => DOMAIN cache' = {}
    BY <1>2, <1>5 DEF CacheInv
  <2>2. DOMAIN cache' = {} => Range(cache') = {}
    BY DEF Range
  <2>. QED
    BY <1>1, <1>2, <2>1, <2>2 DEF HistoryInv
<1>7. LinkingInv'
  BY <1>1 DEF ResolveInv, LinkingInv, Busy, Numbers
<1>8. RequestedInv'
  BY <1>3, <1>4 DEF RequestedInv
<1>9. ExplainedInv'
  <2> SUFFICES ASSUME ~tainted', NEW d \in Range(cache') PROVE modules[d].status # "created"
    BY <1>1 DEF ExplainedInv
  <2>1. ~tainted /\ d \in Range(cache)
    BY <1>5, <1>6
  <2>. QED
    BY <1>1, <2>1, NoneCreated DEF ResolveInv, Unready
<1>10. SoundInv'
  BY <1>1, <1>3 DEF SoundInv, Busy
<1>11. FreshInv'
  <2> SUFFICES ASSUME ~tainted' PROVE \E h \in 1 .. Len(modules) + 1 : Fresh(h)'
    BY <1>1, <1>3, <1>4 DEF FreshInv, Trusted
  <2>1. CASE ~tainted
    <3>1. PICK h \in 1 .. Len(modules) + 1 : Fresh(h)
      BY <2>1 DEF ResolveInv, FreshInv, Trusted
    <3>2. \A f \in Range(stack') : FreshFrame(h, f)
      BY <1>3, <1>4, <3>1 DEF Fresh, FreshFrame
    <3>3. Fresh(h)'
      BY <1>1, <1>5, <3>1, <3>2 DEF Fresh, FreshModule, Numbers
    <3>. QED
      BY <3>3
  <2>2. CASE stack = <<>> /\ DOMAIN cache' = {}
    <3>1. PICK n \in Nat : n = Len(modules)
      BY <1>2, SeqType DEF ModulesInv
    <3>2. Range(stack) = {}
      BY <2>2 DEF Range
    <3>3. Range(stack') = {}
      BY <1>3, <3>2
    <3>4. \A m \in Numbers : ~(m >= n + 1)
      BY <3>1 DEF Numbers
    <3>5. Fresh(n + 1)'
      BY <1>1, <2>2, <3>3, <3>4 DEF Fresh, Numbers
    <3>6. n + 1 \in 1 .. n + 1
      BY <3>1
    <3>. QED
      BY <3>1, <3>5, <3>6
  <2>. QED
    BY <1>6, <2>1, <2>2
<1>12. SoundLoadsResolve'
  BY <1>1 DEF ResolveInv, SoundLoadsResolve
<1>. QED
  BY <1>7, <1>8, <1>9, <1>10, <1>11, <1>12 DEF ResolveInv

\* A file changes.
LEMMA EditResolves ==
  ASSUME StateInv, ResolveInv, NEW p \in Paths, NEW content \in Contents[p], Edit(p, content)
  PROVE  ResolveInv'
<1>1. /\ stack' = Unsound(stack)
      /\ UNCHANGED <<cache, modules, returned, ended, tainted, unresolved, outcome>>
  BY DEF Edit, history
<1>2. FramesInv
  BY DEF StateInv
<1>3. /\ stack' # <<>> <=> stack # <<>>
      /\ stack # <<>> =>
           /\ Top'.op = Top.op /\ (Top.op = "load" => Top'.step = Top.step)
           /\ ~Inner(stack').sound
           /\ \A f \in Range(Under') : f.op # "load" => f \in Range(Under)
      /\ \A f \in Range(stack') :
           \E g \in Range(stack) : /\ f.op = g.op /\ f.at = g.at
                                   /\ g.op = "load" => f.step = g.step /\ ~f.sound
                                   /\ g.op # "load" => f = g
      /\ \A g \in Range(stack) :
           \E f \in Range(stack') : /\ f.op = g.op
                                    /\ g.op = "load" => f.step = g.step /\ f.path = g.path
                                    /\ g.op # "load" => f = g
  BY <1>1, <1>2, StackUnsound
<1>4. LinkingInv'
  BY <1>1, <1>3 DEF ResolveInv, LinkingInv, Numbers
<1>5. RequestedInv'
  <2> SUFFICES ASSUME returned # "failed", stack # <<>>, NEW f \in Range(stack'), f.op = "create",
                      f \in Range(Under') \/ returned = "ok"
               PROVE  RequestMade(f)'
    BY <1>1, <1>3 DEF RequestedInv
  <2>1. f \in Range(stack) /\ (f \in Range(Under') => f \in Range(Under))
    BY <1>3
  <2>2. RequestMade(f)
    BY <2>1 DEF ResolveInv, RequestedInv
  <2>. QED
    BY <1>1, <2>2 DEF RequestMade
<1>6. ExplainedInv'
  <2> SUFFICES ASSUME ~tainted, NEW d \in Range(cache), modules[d].status = "created"
               PROVE  Explained(d)'
    BY <1>1 DEF ExplainedInv
  <2>1. Explained(d)
    BY DEF ResolveInv, ExplainedInv
  <2>2. CASE \E f \in Range(stack) : Loaded(d, f)
    <3>1. PICK g \in Range(stack) : Loaded(d, g)
      BY <2>2
    <3>2. PICK f \in Range(stack') : f.op = "load" /\ f.step = g.step /\ f.path = g.path
      BY <1>3, <3>1 DEF Loaded
    <3>3. Loaded(d, f)'
      BY <1>1, <3>1, <3>2 DEF Loaded
    <3>. QED
      BY <3>3 DEF Explained
  <2>3. CASE \E m \in Range(cache) : m < d /\ \E i \in 1 .. Len(modules[m].requests) : Requested(d, m, i)
    <3>1. \A g \in Range(stack) : g.op = "link" => g \in Range(stack')
      BY <1>3
    <3>. QED
      BY <1>1, <2>3, <3>1 DEF Explained, Requested
  <2>. QED
    BY <2>1, <2>2, <2>3 DEF Explained
<1>7. SoundInv'
  BY <1>3 DEF SoundInv, Busy
<1>8. FreshInv'
  <2>1. Trusted' => Trusted
    <3>1. \A f \in Range(stack') : ~(f.op = "load" /\ f.sound)
      BY <1>3
    <3>. QED
      BY <1>1, <3>1 DEF Trusted
  <2>2. ASSUME NEW h, Fresh(h) PROVE Fresh(h)'
    <3>1. \A f \in Range(stack') : FreshFrame(h, f)
      BY <1>3, <2>2 DEF Fresh, FreshFrame
    <3>. QED
      BY <1>1, <2>2, <3>1 DEF Fresh, FreshModule, Numbers
  <2>. QED
    BY <1>1, <2>1, <2>2 DEF ResolveInv, FreshInv
<1>9. SoundLoadsResolve'
  BY <1>1 DEF ResolveInv, SoundLoadsResolve
<1>. QED
  BY <1>4, <1>5, <1>6, <1>7, <1>8, <1>9 DEF ResolveInv

\* The first state.
LEMMA InitResolves ==
  ASSUME Init
  PROVE  ResolveInv
<1>1. /\ cache = <<>> /\ modules = <<>> /\ stack = <<>> /\ outcome.settled = "none"
  BY DEF Init
<1>2. Len(modules) = 0 /\ Numbers = {} /\ DOMAIN cache = {} /\ Range(cache) = {} /\ Range(stack) = {}
  BY <1>1 DEF Numbers, Range
<1>3. Fresh(1) /\ 1 \in 1 .. Len(modules) + 1
  BY <1>2 DEF Fresh
<1>4. FreshInv
  BY <1>3 DEF FreshInv
<1>. QED
  BY <1>1, <1>2, <1>4
  DEF ResolveInv, LinkingInv, RequestedInv, ExplainedInv, SoundInv, Busy, SoundLoadsResolve

\* Every step keeps the invariant.
LEMMA StepResolves ==
  ASSUME StateInv, ResolveInv, [Next]_vars
  PROVE  ResolveInv'
<1>1. CASE Find
  BY <1>1, FindResolves
<1>2. CASE Created
  BY <1>2, CreatedResolves
<1>3. CASE CreateRequest
  BY <1>3, CreateRequestResolves
<1>4. CASE RequestCreated
  BY <1>4, RequestCreatedResolves
<1>5. CASE BeginLink
  BY <1>5, BeginLinkResolves
<1>6. CASE Link
  BY <1>6, LinkStepResolves
<1>7. CASE LoadEvaluates
  BY <1>7, LoadEvaluatesResolves
<1>8. CASE EvaluateLinks
  BY <1>8, EvaluateLinksResolves
<1>9. CASE ScriptEnds
  BY <1>9, ScriptEndsResolves
<1>10. CASE \E p \in Paths : LoadModule(p)
  BY <1>10, LoadModuleResolves
<1>11. CASE \E prefix \in Clearable : ClearCache(prefix)
  BY <1>11, ClearCacheResolves
<1>12. CASE \E p \in Paths : \E content \in Contents[p] : Edit(p, content)
  BY <1>12, EditResolves
<1>13. CASE UNCHANGED vars
  <2>1. UNCHANGED <<files, cache, modules, stack, returned, tainted, outcome>>
    BY <1>13 DEF vars
  <2>2. Top' = Top /\ Under' = Under /\ Numbers' = Numbers
    BY <2>1 DEF Top, Under, Numbers
  <2>3. LinkingInv' /\ RequestedInv' /\ SoundLoadsResolve'
    BY <2>1, <2>2 DEF ResolveInv, LinkingInv, RequestedInv, RequestMade, SoundLoadsResolve
  <2>4. ExplainedInv'
    <3>1. \A d : Explained(d)' = Explained(d)
      BY <2>1 DEF Explained, Loaded, Requested
    <3>. QED
      BY <2>1, <3>1 DEF ResolveInv, ExplainedInv
  <2>5. SoundInv'
    <3>1. \A R : Covered(R)' = Covered(R)
      BY <2>1, <2>2 DEF Covered, Closed, Unready, RequestKnown
    <3>2. Busy' = Busy /\ Inner(stack)' = Inner(stack)
      BY <2>1, <2>2 DEF Busy, Inner
    <3>. QED
      BY <2>1, <3>1, <3>2 DEF ResolveInv, SoundInv
  <2>6. FreshInv'
    <3>1. \A h : Fresh(h)' = Fresh(h)
      BY <2>1, <2>2 DEF Fresh, FreshFrame, FreshModule
    <3>. QED
      BY <2>1, <3>1 DEF ResolveInv, FreshInv, Trusted
  <2>. QED
    BY <2>3, <2>4, <2>5, <2>6 DEF ResolveInv
<1>. QED
  BY <1>1, <1>2, <1>3, <1>4, <1>5, <1>6, <1>7, <1>8, <1>9, <1>10, <1>11, <1>12, <1>13 DEF Next, Step

\* A load is refused only for a file that is missing or cannot be compiled, a script that
\* throws, or a module an earlier failure has left in the cache: never for what other loads,
\* begun before it or in the middle of it, have put there (runtime_modulator.cc:125-166).
THEOREM SoundLoads == Spec => []SoundLoadsResolve
<1>1. Init => StateInv /\ ResolveInv
  BY InitKeeps, InitResolves
<1>2. StateInv /\ ResolveInv /\ [Next]_vars => (StateInv /\ ResolveInv)'
  BY StepKeeps, StepResolves
<1>3. ResolveInv => SoundLoadsResolve
  BY DEF ResolveInv
<1>. QED
  BY <1>1, <1>2, <1>3, PTL DEF Spec

=============================================================================
