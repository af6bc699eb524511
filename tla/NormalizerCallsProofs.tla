------------------------ MODULE NormalizerCallsProofs ------------------------
(***************************************************************************)
(* Proof that module Normalizer implements NormalizerCalls: every public   *)
(* call either fails or yields exactly one map per schema (a count; the   *)
(* normal form is model-checked only, by NormalizedOutputs).  The          *)
(* refinement mapping is the projection on input, calls,                   *)
(* results and status.                                                     *)
(*                                                                         *)
(* The step argument needs more than IInv (module NormalizerProofs).  A    *)
(* call's progress is counted: the maps produced, the schemas pending and  *)
(* the one live normalizeAt (if the stack is not empty) add up to the      *)
(* number of schemas of the call; the calls still to come are a suffix of *)
(* the document's, so the current call is known; and a frame that returns *)
(* holds a map.                                                             *)
(***************************************************************************)
EXTENDS NormalizerProofs, SequenceTheorems

\* The calls of s after the first k.
Suffix(s, k) == [i \in 1..Len(s) - k |-> s[i + k]]

\* The schemas of the current call.
CurCall == input.calls[Len(input.calls) - Len(calls)]

\* The activations of normalizeAt still live for the current schema.
Live == IF stack = <<>> THEN 0 ELSE 1

\* A frame that is returning returns a map.
RetMap(st) == \A i \in DOMAIN st : st[i].pc = "ret" => IsMap(st[i].val)

CallInv ==
  /\ input \in Docs
  /\ \E k \in 0..Len(input.calls) : calls = Suffix(input.calls, k)
  /\ IsList(pending)
  /\ IsList(results)
  /\ \A i \in DOMAIN results : IsMap(results[i])
  /\ RetMap(stack)
  /\ status = "running" =>
       /\ Len(calls) < Len(input.calls)
       /\ Len(results) + Len(pending) + Live = Len(CurCall)

CInv == IInv /\ CallInv

-----------------------------------------------------------------------------
(***************************************************************************)
(* Lists.                                                                  *)
(***************************************************************************)
LEMMA ListIsSeq ==
  ASSUME NEW s, IsList(s)
  PROVE  /\ Len(s) \in Nat
         /\ DOMAIN s = 1..Len(s)
         /\ s = <<>> <=> Len(s) = 0
BY LenProperties, EmptySeq DEF IsList

\* Every sequence is a list.
LEMMA SeqIsList ==
  ASSUME NEW S, NEW s \in Seq(S)
  PROVE  IsList(s)
<1>1. Len(s) \in Nat /\ s \in [1..Len(s) -> S] /\ DOMAIN s = 1..Len(s)
  BY LenProperties
<1>2. s \in [1..Len(s) -> ElemsOf(s)]
  BY <1>1 DEF ElemsOf
<1>3. Seq(ElemsOf(s)) = UNION {[1..n -> ElemsOf(s)] : n \in Nat}
  BY SeqDef
<1> QED
  BY <1>1, <1>2, <1>3 DEF IsList

LEMMA EmptyList == IsList(<<>>)
BY EmptySeq, SeqIsList

\* Appending keeps a list a list, one longer, its first elements as they were.
LEMMA ListAppend ==
  ASSUME NEW s, IsList(s), NEW e
  PROVE  /\ IsList(Append(s, e))
         /\ Len(Append(s, e)) = Len(s) + 1
         /\ \A i \in 1..Len(s) : Append(s, e)[i] = s[i]
         /\ Append(s, e)[Len(s) + 1] = e
<1> DEFINE S == ElemsOf(s) \cup {e}
<1>1. s \in Seq(S)
  BY SeqMonotonic DEF IsList
<1>2. /\ Append(s, e) \in Seq(S)
      /\ Len(Append(s, e)) = Len(s) + 1
      /\ \A i \in 1..Len(s) : Append(s, e)[i] = s[i]
      /\ Append(s, e)[Len(s) + 1] = e
  BY <1>1, AppendProperties
<1> QED
  BY <1>2, SeqIsList

\* The tail of a list that is not empty is a list, one shorter.
LEMMA ListTail ==
  ASSUME NEW s, IsList(s), s # <<>>
  PROVE  /\ IsList(Tail(s))
         /\ Len(Tail(s)) = Len(s) - 1
<1>1. Tail(s) \in Seq(ElemsOf(s)) /\ Len(Tail(s)) = Len(s) - 1
  BY HeadTailProperties DEF IsList
<1> QED
  BY <1>1, SeqIsList

\* What is left of a list after its first k elements.
LEMMA SuffixList ==
  ASSUME NEW s, IsList(s), NEW k \in 0..Len(s)
  PROVE  /\ Suffix(s, k) \in Seq(ElemsOf(s))
         /\ Len(Suffix(s, k)) = Len(s) - k
         /\ Suffix(s, k) = <<>> <=> k = Len(s)
<1>1. Len(s) \in Nat /\ DOMAIN s = 1..Len(s)
  BY ListIsSeq
<1>2. Len(s) - k \in Nat /\ Suffix(s, k) \in [1..Len(s) - k -> ElemsOf(s)]
  BY <1>1 DEF Suffix, ElemsOf
<1>3. Suffix(s, k) \in Seq(ElemsOf(s))
  BY <1>2, SeqDef, Zenon
<1>4. Len(Suffix(s, k)) = Len(s) - k
  <2>1. DOMAIN Suffix(s, k) = 1..Len(Suffix(s, k)) /\ Len(Suffix(s, k)) \in Nat
    BY <1>3, LenProperties
  <2>2. 1..Len(Suffix(s, k)) = 1..(Len(s) - k)
    BY <1>2, <2>1
  <2> QED
    BY <1>2, <2>1, <2>2
<1> QED
  BY <1>3, <1>4, EmptySeq

\* The first of what is left after k is element k + 1, and dropping it
\* leaves what is left after k + 1.
LEMMA SuffixStep ==
  ASSUME NEW s, IsList(s), NEW k \in 0..Len(s), k # Len(s)
  PROVE  /\ Suffix(s, k) # <<>>
         /\ Head(Suffix(s, k)) = s[k + 1]
         /\ Tail(Suffix(s, k)) = Suffix(s, k + 1)
         /\ k + 1 \in 0..Len(s)
<1>1. Len(s) \in Nat
  BY ListIsSeq
<1>2. /\ Suffix(s, k) \in Seq(ElemsOf(s)) /\ Len(Suffix(s, k)) = Len(s) - k
      /\ Suffix(s, k) # <<>>
  BY SuffixList
<1>3. k + 1 \in 0..Len(s)
  BY <1>1
<1>4. Suffix(s, k + 1) \in Seq(ElemsOf(s)) /\ Len(Suffix(s, k + 1)) = Len(s) - k - 1
  BY <1>3, SuffixList
<1>5. /\ Tail(Suffix(s, k)) \in Seq(ElemsOf(s))
      /\ Len(Tail(Suffix(s, k))) = Len(s) - k - 1
      /\ \A i \in 1..Len(s) - k - 1 : Tail(Suffix(s, k))[i] = Suffix(s, k)[i + 1]
  BY <1>2, HeadTailProperties
<1>6. \A i \in 1..Len(s) - k - 1 : Tail(Suffix(s, k))[i] = Suffix(s, k + 1)[i]
  BY <1>1, <1>5 DEF Suffix
<1>7. Tail(Suffix(s, k)) = Suffix(s, k + 1)
  BY <1>4, <1>5, <1>6, SeqEqual
<1>8. Head(Suffix(s, k)) = s[k + 1]
  BY <1>1 DEF Suffix
<1> QED
  BY <1>2, <1>3, <1>7, <1>8

\* Dropping nothing leaves the list as it is.
LEMMA SuffixZero ==
  ASSUME NEW s, IsList(s)
  PROVE  Suffix(s, 0) = s
<1>1. Len(s) \in Nat /\ s \in Seq(ElemsOf(s))
  BY ListIsSeq DEF IsList
<1>2. Suffix(s, 0) \in Seq(ElemsOf(s)) /\ Len(Suffix(s, 0)) = Len(s)
  BY <1>1, SuffixList
<1>3. \A i \in 1..Len(s) : Suffix(s, 0)[i] = s[i]
  BY <1>1 DEF Suffix
<1> QED
  BY <1>1, <1>2, <1>3, SeqEqual

-----------------------------------------------------------------------------
(***************************************************************************)
(* The steps inside one normalizeAt.  Each either returns an error through *)
(* every frame (Fail), or changes only the frames, keeping one live.       *)
(***************************************************************************)
InnerEffect ==
  \/ /\ status' = "failed" /\ stack' = <<>> /\ pending' = <<>>
     /\ UNCHANGED <<input, calls, results>>
  \/ /\ stack' # <<>> /\ RetMap(stack')
     /\ UNCHANGED <<input, calls, pending, results, status>>

LEMMA FailEffect ==
  ASSUME NEW e, NEW h, Fail(e, h)
  PROVE  InnerEffect
BY DEF Fail, InnerEffect

\* The innermost frame becomes g, which returns a map if it returns.
LEMMA SetTopRet ==
  ASSUME IInv, RetMap(stack), stack # <<>>, NEW g, g.pc = "ret" => IsMap(g.val)
  PROVE  SetTop(g) # <<>> /\ RetMap(SetTop(g))
<1>1. Len(stack) \in Nat \ {0} /\ DOMAIN stack = 1..Len(stack)
  BY DEF IInv, Shape
<1>2. DOMAIN SetTop(g) = DOMAIN stack /\ SetTop(g)[Len(stack)] = g
      /\ \A i \in DOMAIN stack : i # Len(stack) => SetTop(g)[i] = stack[i]
  BY <1>1 DEF SetTop
<1> QED
  BY <1>1, <1>2 DEF RetMap

\* The innermost frame becomes g, which waits, and a fresh frame is pushed.
LEMMA CallRet ==
  ASSUME IInv, RetMap(stack), stack # <<>>, NEW g, g.pc # "ret", NEW v
  PROVE  /\ Append(SetTop(g), NewFrame(v)) # <<>>
         /\ RetMap(Append(SetTop(g), NewFrame(v)))
<1>1. SetTop(g) # <<>> /\ RetMap(SetTop(g))
  BY SetTopRet
<1>2. Len(stack) \in Nat \ {0} /\ DOMAIN SetTop(g) = 1..Len(stack)
  BY DEF IInv, Shape, SetTop
<1>3. NewFrame(v).pc = "enter"
  BY DEF NewFrame
<1> QED
  BY <1>1, <1>2, <1>3 DEF RetMap

\* What every step of the frames needs to know of the innermost frame.
LEMMA TopFields ==
  ASSUME IInv, stack # <<>>
  PROVE  /\ "pc" \in DOMAIN Top /\ "val" \in DOMAIN Top /\ "out" \in DOMAIN Top
         /\ "cur" \in DOMAIN Top /\ "uk" \in DOMAIN Top
BY TopShape DEF FrameFields

\* A step that moves the innermost frame on to stage pc.
LEMMA KeepEffect ==
  ASSUME CInv, stack # <<>>, NEW g, g.pc # "ret", stack' = SetTop(g),
         UNCHANGED <<input, calls, pending, results, status>>
  PROVE  InnerEffect
BY SetTopRet DEF CInv, CallInv, InnerEffect

\* A step that calls normalizeAt on a child.
LEMMA CallEffect ==
  ASSUME CInv, stack # <<>>, NEW g, g.pc # "ret", NEW v,
         stack' = Append(SetTop(g), NewFrame(v)),
         UNCHANGED <<input, calls, pending, results, status>>
  PROVE  InnerEffect
BY CallRet DEF CInv, CallInv, InnerEffect

LEMMA EnterOutsideEffect ==
  ASSUME CInv, EnterOutside
  PROVE  InnerEffect
BY FailEffect DEF EnterOutside

LEMMA EnterRefEffect ==
  ASSUME CInv, EnterRef
  PROVE  InnerEffect
<1> DEFINE f == Top
           m == heap[f.sch.n]
           res == ResolveRef(refStack, m["$ref"].s, heap, input.root)
           g == [f EXCEPT !.pc = "wait", !.held = {res.key}]
<1>1. stack # <<>> /\ g.pc = "wait"
  BY TopFields DEF EnterRef, CInv
<1>2. CASE ~res.ok \/ ~IsMap(res.val)
  BY <1>2, FailEffect DEF EnterRef
<1>3. CASE res.ok /\ IsMap(res.val)
  <2>1. /\ stack' = Append(SetTop(g), NewFrame(res.val))
        /\ UNCHANGED <<input, calls, pending, results, status>>
    BY <1>3 DEF EnterRef, Call
  <2> QED
    BY <1>1, <2>1, CallEffect
<1> QED
  BY <1>2, <1>3

LEMMA EnterAllOfEffect ==
  ASSUME CInv, EnterAllOf
  PROVE  InnerEffect
<1> DEFINE f == Top
           m == heap[f.sch.n]
           fl == FlattenAllOf(heap, refStack, input.root, m["allOf"])
           g == [f EXCEPT !.pc = "wait"]
<1>1. stack # <<>> /\ g.pc = "wait"
  BY TopFields DEF EnterAllOf, CInv
<1>2. CASE ~fl.ok
  BY <1>2, FailEffect DEF EnterAllOf
<1>3. CASE ~~fl.ok
  <2>1. /\ stack' = Append(SetTop(g), NewFrame(Obj(fl.addr)))
        /\ UNCHANGED <<input, calls, pending, results, status>>
    BY <1>3 DEF EnterAllOf, Call
  <2> QED
    BY <1>1, <2>1, CallEffect
<1> QED
  BY <1>2, <1>3

LEMMA EnterPlainEffect ==
  ASSUME CInv, EnterPlain
  PROVE  InnerEffect
<1> DEFINE f == Top
           m == heap[f.sch.n]
           out == Stripped(m)
           out1 == IF "type" \in DOMAIN out
                     THEN Put(out, "type", NormalizeType(out["type"])) ELSE out
           out2 == IF "required" \in DOMAIN out
                     THEN Put(out1, "required", SortedStrs(StrsOf(out["required"])))
                     ELSE out1
           g == [f EXCEPT !.pc = "props", !.out = out2]
           bad == \/ "type" \in DOMAIN out /\ ~TypeValueOK(out["type"])
                  \/ "required" \in DOMAIN out /\ ~StringSetOK(out["required"])
<1>1. stack # <<>> /\ g.pc = "props"
  BY TopFields DEF EnterPlain, CInv
<1>2. CASE bad
  BY <1>2, FailEffect DEF EnterPlain
<1>3. CASE ~bad
  <2>1. stack' = SetTop(g) /\ UNCHANGED <<input, calls, pending, results, status>>
    BY <1>3 DEF EnterPlain
  <2> QED
    BY <1>1, <2>1, KeepEffect
<1> QED
  BY <1>2, <1>3

LEMMA PropsStartEffect ==
  ASSUME CInv, PropsStart
  PROVE  InnerEffect
<1> DEFINE f == Top
           p == f.out["properties"]
           g1 == [f EXCEPT !.pc = "ap"]
           g2 == [f EXCEPT !.pc = "propsLoop", !.pm = p.n, !.keys0 = DOMAIN heap[p.n],
                           !.done = {}, !.nm = EmptyMap]
<1>1. stack # <<>> /\ g1.pc = "ap" /\ g2.pc = "propsLoop"
  BY TopFields DEF PropsStart, CInv
<1>2. CASE "properties" \notin DOMAIN f.out
  <2>1. stack' = SetTop(g1) /\ UNCHANGED <<input, calls, pending, results, status>>
    BY <1>2 DEF PropsStart
  <2> QED
    BY <1>1, <2>1, KeepEffect
<1>3. CASE "properties" \in DOMAIN f.out /\ ~IsMap(p)
  BY <1>3, FailEffect DEF PropsStart
<1>4. CASE "properties" \in DOMAIN f.out /\ IsMap(p)
  <2>1. stack' = SetTop(g2) /\ UNCHANGED <<input, calls, pending, results, status>>
    BY <1>4 DEF PropsStart
  <2> QED
    BY <1>1, <2>1, KeepEffect
<1> QED
  BY <1>2, <1>3, <1>4

LEMMA PropStepEffect ==
  ASSUME CInv, PropStep
  PROVE  InnerEffect
<1> DEFINE f == Top
<1>1. stack # <<>>
  BY DEF PropStep
<1>2. PICK k \in DOMAIN heap[f.pm] \ f.done :
        IF ~IsMap(heap[f.pm][k]) THEN Fail("shape", heap)
        ELSE /\ Call([f EXCEPT !.pc = "prop", !.cur = k], heap[f.pm][k])
             /\ UNCHANGED <<input, heap, refStack, calls, pending, results, status, err>>
  BY DEF PropStep
<1>3. CASE ~IsMap(heap[f.pm][k])
  BY <1>2, <1>3, FailEffect
<1>4. CASE IsMap(heap[f.pm][k])
  <2> DEFINE g == [f EXCEPT !.pc = "prop", !.cur = k]
  <2>1. g.pc = "prop"
    BY <1>1, TopFields DEF CInv
  <2>2. /\ stack' = Append(SetTop(g), NewFrame(heap[f.pm][k]))
        /\ UNCHANGED <<input, calls, pending, results, status>>
    BY <1>2, <1>4 DEF Call
  <2> QED
    BY <1>1, <2>1, <2>2, CallEffect
<1> QED
  BY <1>3, <1>4

LEMMA PropsEndEffect ==
  ASSUME CInv, PropsEnd
  PROVE  InnerEffect
<1> DEFINE g == [Top EXCEPT !.pc = "ap",
                             !.out = Put(Top.out, "properties", Obj(NextAddr(heap)))]
<1>1. stack # <<>> /\ g.pc = "ap"
  BY TopFields DEF PropsEnd, CInv
<1>2. stack' = SetTop(g) /\ UNCHANGED <<input, calls, pending, results, status>>
  BY DEF PropsEnd
<1> QED
  BY <1>1, <1>2, KeepEffect

LEMMA AdditionalPropsEffect ==
  ASSUME CInv, AdditionalProps
  PROVE  InnerEffect
<1> DEFINE f == Top
           K == "additionalProperties"
           g1 == [f EXCEPT !.pc = "items"]
           g2 == [f EXCEPT !.pc = "apw"]
<1>1. stack # <<>> /\ g1.pc = "items" /\ g2.pc = "apw"
  BY TopFields DEF AdditionalProps, CInv
<1>2. CASE K \notin DOMAIN f.out \/ f.out[K].t = "bool"
  <2>1. stack' = SetTop(g1) /\ UNCHANGED <<input, calls, pending, results, status>>
    BY <1>2 DEF AdditionalProps
  <2> QED
    BY <1>1, <2>1, KeepEffect
<1>3. CASE ~(K \notin DOMAIN f.out \/ f.out[K].t = "bool") /\ ~IsMap(f.out[K])
  BY <1>3, FailEffect DEF AdditionalProps
<1>4. CASE ~(K \notin DOMAIN f.out \/ f.out[K].t = "bool") /\ IsMap(f.out[K])
  <2>1. /\ stack' = Append(SetTop(g2), NewFrame(f.out[K]))
        /\ UNCHANGED <<input, calls, pending, results, status>>
    BY <1>4 DEF AdditionalProps, Call
  <2> QED
    BY <1>1, <2>1, CallEffect
<1> QED
  BY <1>2, <1>3, <1>4

LEMMA ItemsEffect ==
  ASSUME CInv, Items
  PROVE  InnerEffect
<1> DEFINE f == Top
           g1 == [f EXCEPT !.pc = "union"]
           g2 == [f EXCEPT !.pc = "itemsw"]
<1>1. stack # <<>> /\ g1.pc = "union" /\ g2.pc = "itemsw"
  BY TopFields DEF Items, CInv
<1>2. CASE "items" \notin DOMAIN f.out
  <2>1. stack' = SetTop(g1) /\ UNCHANGED <<input, calls, pending, results, status>>
    BY <1>2 DEF Items
  <2> QED
    BY <1>1, <2>1, KeepEffect
<1>3. CASE "items" \in DOMAIN f.out /\ ~IsMap(f.out["items"])
  BY <1>3, FailEffect DEF Items
<1>4. CASE "items" \in DOMAIN f.out /\ IsMap(f.out["items"])
  <2>1. /\ stack' = Append(SetTop(g2), NewFrame(f.out["items"]))
        /\ UNCHANGED <<input, calls, pending, results, status>>
    BY <1>4 DEF Items, Call
  <2> QED
    BY <1>1, <2>1, CallEffect
<1> QED
  BY <1>2, <1>3, <1>4

LEMMA UnionEffect ==
  ASSUME CInv, Union
  PROVE  InnerEffect
<1> DEFINE f == Top
           u == f.out[f.uk]
           i == Len(f.vars) + 1
           f2 == [f EXCEPT !.out = Put(f.out, f.uk, Arr(SortVariants(heap, f.vars)))]
           g == [f EXCEPT !.pc = "unionw"]
<1>1. /\ stack # <<>> /\ f.pc = "union" /\ f2.pc = "union" /\ g.pc = "unionw"
      /\ NextUnion(f).pc # "ret" /\ NextUnion(f2).pc # "ret"
  BY TopFields DEF Union, CInv, NextUnion
<1>2. CASE f.uk \notin DOMAIN f.out
  <2>1. stack' = SetTop(NextUnion(f)) /\ UNCHANGED <<input, calls, pending, results, status>>
    BY <1>2 DEF Union
  <2> QED
    BY <1>1, <2>1, KeepEffect
<1>3. CASE f.uk \in DOMAIN f.out /\ ~IsArr(u)
  BY <1>3, FailEffect DEF Union
<1>4. CASE f.uk \in DOMAIN f.out /\ IsArr(u) /\ i <= Len(u.xs) /\ ~IsMap(u.xs[i])
  BY <1>4, FailEffect DEF Union
<1>5. CASE f.uk \in DOMAIN f.out /\ IsArr(u) /\ i <= Len(u.xs) /\ IsMap(u.xs[i])
  <2>1. /\ stack' = Append(SetTop(g), NewFrame(u.xs[i]))
        /\ UNCHANGED <<input, calls, pending, results, status>>
    BY <1>5 DEF Union, Call
  <2> QED
    BY <1>1, <2>1, CallEffect
<1>6. CASE f.uk \in DOMAIN f.out /\ IsArr(u) /\ ~(i <= Len(u.xs))
  <2>1. stack' = SetTop(NextUnion(f2)) /\ UNCHANGED <<input, calls, pending, results, status>>
    BY <1>6 DEF Union
  <2> QED
    BY <1>1, <2>1, KeepEffect
<1> QED
  BY <1>2, <1>3, <1>4, <1>5, <1>6

\* return out: the frame returns the map it built.
LEMMA FinishEffect ==
  ASSUME CInv, Finish
  PROVE  InnerEffect
<1> DEFINE g == [Top EXCEPT !.pc = "ret", !.val = Obj(NextAddr(heap))]
<1>1. stack # <<>> /\ g.pc = "ret" /\ IsMap(g.val)
  BY TopFields DEF Finish, CInv, IsMap, Obj
<1>2. stack' = SetTop(g) /\ UNCHANGED <<input, calls, pending, results, status>>
  BY DEF Finish
<1> QED
  BY <1>1, <1>2, SetTopRet DEF CInv, CallInv, InnerEffect

-----------------------------------------------------------------------------
(***************************************************************************)
(* Each step keeps CallInv and is a step of NormalizerCalls or a stutter.  *)
(***************************************************************************)
\* The step of NormalizerCalls a step of Normalizer maps to.
AStep == [Calls!Next]_Calls!avars

\* A step inside normalizeAt is an Abort or a stutter.
LEMMA InnerStep ==
  ASSUME CInv, stack # <<>>, InnerEffect
  PROVE  CallInv' /\ AStep
<1>1. status = "running"
  BY TopShape DEF CInv
<1>2. CASE status' = "failed" /\ stack' = <<>> /\ pending' = <<>>
           /\ UNCHANGED <<input, calls, results>>
  <2>1. CallInv'
    BY <1>2, EmptyList DEF CInv, CallInv, RetMap
  <2>2. Calls!Abort
    BY <1>1, <1>2 DEF Calls!Abort
  <2> QED
    BY <2>1, <2>2 DEF AStep, Calls!Next
<1>3. CASE stack' # <<>> /\ RetMap(stack')
           /\ UNCHANGED <<input, calls, pending, results, status>>
  <2>1. Live' = Live
    BY <1>3 DEF Live
  <2>2. CallInv'
    BY <1>3, <2>1 DEF CInv, CallInv, CurCall
  <2> QED
    BY <1>3, <2>2 DEF AStep, Calls!avars
<1> QED
  BY <1>2, <1>3 DEF InnerEffect

\* A caller that takes its child's map returns a map if it returns.
LEMMA DeliverRet ==
  ASSUME NEW f, NEW v, DOMAIN f = FrameFields, f.pc \in WaitPCs, IsMap(v)
  PROVE  Deliver(f, v).pc = "ret" => IsMap(Deliver(f, v).val)
BY DEF Deliver, WaitPCs, FrameFields

\* A return of the outermost frame produces a map; any other is a stutter.
LEMMA ReturnCalls ==
  ASSUME CInv, Return
  PROVE  CallInv' /\ AStep
<1> DEFINE n == Len(stack)
<1>0. n = Len(stack)
  OBVIOUS
<1>1. /\ stack # <<>> /\ n \in Nat \ {0} /\ DOMAIN stack = 1..n
      /\ status = "running" /\ Top.pc = "ret"
      /\ UNCHANGED <<input, calls, pending, status>>
  BY TopShape DEF Return, CInv, IInv, Shape
<1>2. IsMap(Top.val)
  BY <1>0, <1>1 DEF CInv, CallInv, RetMap, Top
<1> HIDE DEF n
<1>3. CASE n = 1
  <2>1. stack' = <<>> /\ results' = Append(results, Top.val)
    BY <1>0, <1>3 DEF Return
  <2>2. /\ IsList(results')
        /\ Len(results') = Len(results) + 1
        /\ \A i \in 1..Len(results) : results'[i] = results[i]
        /\ results'[Len(results) + 1] = Top.val
    BY <2>1, ListAppend DEF CInv, CallInv
  <2>3. Len(results) \in Nat /\ DOMAIN results = 1..Len(results)
        /\ Len(pending) \in Nat
    BY ListIsSeq DEF CInv, CallInv
  <2>4. \A i \in DOMAIN results' : IsMap(results'[i])
    BY <1>2, <2>2, <2>3, ListIsSeq DEF CInv, CallInv
  <2>5. Len(results) + Len(pending) + 1 = Len(CurCall)
    BY <1>1, <1>3 DEF CInv, CallInv, Live
  <2>6. CallInv'
    BY <1>1, <2>1, <2>2, <2>3, <2>4, <2>5 DEF CInv, CallInv, Live, RetMap, CurCall
  <2>7. Calls!Produce
    BY <1>1, <1>2, <2>1, <2>2, <2>3, <2>5 DEF Calls!Produce, Calls!Cur, Calls!IsMap, IsMap, CurCall
  <2> QED
    BY <2>6, <2>7 DEF AStep, Calls!Next
<1>4. CASE n # 1
  <2> DEFINE d == Deliver(stack[n - 1], Top.val)
             C == [Callers(stack) EXCEPT ![n - 1] = d]
  <2>1. n > 1 /\ n - 1 \in DOMAIN stack
    BY <1>1, <1>4
  <2>2. stack' = C /\ results' = results
    <3>1. Callers(stack)[n - 1] = stack[n - 1]
      BY <1>0, <1>1, <2>1 DEF Callers
    <3> QED
      BY <1>0, <1>4, <3>1 DEF Return
  <2>3. DOMAIN stack[n - 1] = FrameFields /\ stack[n - 1].pc \in WaitPCs
    BY <1>0, <2>1 DEF CInv, IInv, Shape, FrameShape
  <2>4. d.pc = "ret" => IsMap(d.val)
    BY <1>2, <2>3, DeliverRet
  <2> HIDE DEF d
  <2>5. /\ DOMAIN C = 1..(n - 1)
        /\ C[n - 1] = d
        /\ \A i \in 1..(n - 1) : i # n - 1 => C[i] = stack[i]
    <3>1. /\ DOMAIN Callers(stack) = 1..(n - 1)
          /\ \A i \in 1..(n - 1) : Callers(stack)[i] = stack[i]
          /\ n - 1 \in 1..(n - 1)
      BY <1>0, <1>1, <2>1 DEF Callers
    <3> QED
      BY <3>1, Zenon
  <2>6. C # <<>> /\ RetMap(C)
    BY <1>1, <2>1, <2>4, <2>5 DEF CInv, CallInv, RetMap
  <2>7. Live' = Live
    BY <1>1, <2>2, <2>6 DEF Live
  <2>8. CallInv'
    BY <1>1, <2>2, <2>6, <2>7 DEF CInv, CallInv, CurCall
  <2> QED
    BY <1>1, <2>2, <2>8 DEF AStep, Calls!avars
<1> QED
  BY <1>3, <1>4

\* A public call starts on the next call of the document.
LEMMA StartCallCalls ==
  ASSUME CInv, StartCall
  PROVE  CallInv' /\ AStep
<1>1. /\ status # "running" /\ calls # <<>> /\ stack = <<>>
      /\ pending' = Head(calls) /\ calls' = Tail(calls) /\ results' = <<>>
      /\ status' = "running" /\ UNCHANGED <<input, stack>>
  BY DEF StartCall, CInv, IInv
<1>2. IsList(input.calls) /\ \A i \in DOMAIN input.calls : IsList(input.calls[i])
  BY DocsAssumption DEF CInv, CallInv
<1>3. PICK k \in 0..Len(input.calls) : calls = Suffix(input.calls, k)
  BY DEF CInv, CallInv
<1>4. k # Len(input.calls)
  BY <1>1, <1>2, <1>3, SuffixList
<1>5. /\ Head(calls) = input.calls[k + 1]
      /\ calls' = Suffix(input.calls, k + 1)
      /\ k + 1 \in 0..Len(input.calls)
  BY <1>1, <1>2, <1>3, <1>4, SuffixStep
<1>6. /\ Len(calls') = Len(input.calls) - (k + 1)
      /\ Len(input.calls) \in Nat
      /\ DOMAIN input.calls = 1..Len(input.calls)
  BY <1>2, <1>5, SuffixList, ListIsSeq
<1>7. /\ k + 1 \in DOMAIN input.calls
      /\ Len(calls') < Len(input.calls)
      /\ CurCall' = input.calls[k + 1]
  BY <1>1, <1>5, <1>6 DEF CurCall
<1>8. IsList(pending')
  BY <1>1, <1>2, <1>5, <1>7
<1>9. Len(pending') \in Nat /\ Len(results') = 0 /\ Live' = 0
  BY <1>1, <1>8, ListIsSeq DEF Live
<1>10. CallInv'
  <2>1. \E i \in 0..Len(input.calls) : calls' = Suffix(input.calls, i)
    BY <1>5
  <2> QED
    BY <1>1, <1>5, <1>7, <1>8, <1>9, <2>1, EmptyList DEF CInv, CallInv, RetMap
<1>11. Calls!Start
  BY <1>1 DEF Calls!Start
<1> QED
  BY <1>10, <1>11 DEF AStep, Calls!Next

\* The next schema of the call: {} for nil, produced at once, or a fresh
\* outermost frame.
LEMMA NextSchemaCalls ==
  ASSUME CInv, NextSchema
  PROVE  CallInv' /\ AStep
<1>1. /\ status = "running" /\ stack = <<>> /\ pending # <<>>
      /\ pending' = Tail(pending)
      /\ UNCHANGED <<input, calls, status>>
  BY DEF NextSchema
<1>2. /\ IsList(pending') /\ Len(pending') = Len(pending) - 1
      /\ Len(pending) \in Nat /\ Len(results) \in Nat
  BY <1>1, ListTail, ListIsSeq DEF CInv, CallInv
<1>3. Len(results) + Len(pending) = Len(CurCall) /\ Len(calls) < Len(input.calls)
  BY <1>1 DEF CInv, CallInv, Live
<1>4. CASE Head(pending) = Null
  <2> DEFINE v == Obj(NextAddr(heap))
  <2>1. results' = Append(results, v) /\ stack' = stack
    BY <1>4 DEF NextSchema
  <2>2. /\ IsList(results')
        /\ Len(results') = Len(results) + 1
        /\ \A i \in 1..Len(results) : results'[i] = results[i]
        /\ results'[Len(results) + 1] = v
    BY <2>1, ListAppend DEF CInv, CallInv
  <2>3. IsMap(v)
    BY DEF IsMap, Obj
  <2>4. \A i \in DOMAIN results' : IsMap(results'[i])
    <3>1. DOMAIN results = 1..Len(results) /\ DOMAIN results' = 1..Len(results')
      BY <2>2, ListIsSeq DEF CInv, CallInv
    <3> QED
      BY <1>2, <2>2, <2>3, <3>1 DEF CInv, CallInv
  <2>5. CallInv'
    <3>1. Live' = 0 /\ CurCall' = CurCall /\ RetMap(stack')
      BY <1>1, <2>1 DEF Live, CurCall, CInv, CallInv
    <3>2. Len(results') + Len(pending') + Live' = Len(CurCall')
      BY <1>2, <1>3, <2>2, <3>1
    <3>3. \E k \in 0..Len(input.calls) : calls = Suffix(input.calls, k)
      BY DEF CInv, CallInv
    <3> QED
      BY <1>1, <1>2, <1>3, <2>2, <2>4, <3>1, <3>2, <3>3 DEF CInv, CallInv
  <2>6. Calls!Produce
    BY <1>1, <1>2, <1>3, <2>1, <2>2, <2>3 DEF Calls!Produce, Calls!Cur, Calls!IsMap, IsMap, CurCall
  <2> QED
    BY <2>5, <2>6 DEF AStep, Calls!Next
<1>5. CASE Head(pending) # Null
  <2>1. stack' = <<NewFrame(Head(pending))>> /\ results' = results
    BY <1>5 DEF NextSchema
  <2>2. RetMap(stack') /\ Live' = 1
    <3>0. NewFrame(Head(pending)).pc = "enter"
      BY DEF NewFrame
    <3>1. DOMAIN stack' = {1} /\ stack'[1].pc = "enter"
      BY <2>1, <3>0
    <3>2. stack' # <<>>
      BY <3>1
    <3> QED
      BY <3>1, <3>2, Zenon DEF RetMap, Live
  <2>3. CallInv'
    BY <1>1, <1>2, <1>3, <2>1, <2>2 DEF CInv, CallInv, CurCall
  <2> QED
    BY <1>1, <2>1, <2>3 DEF AStep, Calls!avars
<1> QED
  BY <1>4, <1>5

\* The call ends once every schema is normalized.
LEMMA EndCallCalls ==
  ASSUME CInv, EndCall
  PROVE  CallInv' /\ AStep
<1>1. /\ status = "running" /\ stack = <<>> /\ pending = <<>> /\ status' = "ok"
      /\ UNCHANGED <<input, calls, pending, results, stack>>
  BY DEF EndCall
<1>2. Len(pending) = 0
  BY <1>1, EmptyList, ListIsSeq
<1>3. Len(results) = Len(CurCall)
  BY <1>1, <1>2 DEF CInv, CallInv, Live
<1>4. CallInv'
  BY <1>1 DEF CInv, CallInv, RetMap
<1>5. Calls!Finish
  BY <1>1, <1>3 DEF Calls!Finish, Calls!Cur, CurCall
<1> QED
  BY <1>4, <1>5 DEF AStep, Calls!Next

\* A step that changes nothing keeps CInv and stutters NormalizerCalls.
LEMMA StutterCalls ==
  ASSUME CInv, UNCHANGED vars
  PROVE  CallInv' /\ AStep
BY DEF vars, CInv, CallInv, RetMap, Live, CurCall, AStep, Calls!avars

-----------------------------------------------------------------------------
(***************************************************************************)
(* The refinement.                                                         *)
(***************************************************************************)
\* Every initial state of the Normalizer, idle before its first call,
\* satisfies CInv.
THEOREM InitCInv == Init => CInv
<1> SUFFICES ASSUME Init PROVE CInv
  OBVIOUS
<1>1. PICK d \in Docs : /\ input = d /\ calls = d.calls /\ stack = <<>>
                        /\ pending = <<>> /\ results = <<>> /\ status = "idle"
  BY DEF Init
<1>2. IsList(d.calls)
  BY DocsAssumption
<1>3. \E k \in 0..Len(input.calls) : calls = Suffix(input.calls, k)
  <2>1. 0 \in 0..Len(d.calls)
    BY <1>2, ListIsSeq
  <2> QED
    BY <1>1, <1>2, <2>1, SuffixZero
<1>4. CallInv
  BY <1>1, <1>3, EmptyList DEF CallInv, RetMap
<1> QED
  BY <1>4, InitIInv DEF CInv

\* Every step of the Normalizer keeps CInv and is a step of NormalizerCalls
\* or leaves input, calls, results and status as they were.
THEOREM NextCInv == CInv /\ [Next]_vars => CInv' /\ AStep
<1> SUFFICES ASSUME CInv, [Next]_vars
             PROVE  CInv' /\ AStep
  OBVIOUS
<1>1. IInv'
  BY NextIInv DEF CInv
<1>2. CASE \/ EnterOutside \/ EnterRef \/ EnterAllOf \/ EnterPlain
           \/ PropsStart \/ PropStep \/ PropsEnd \/ AdditionalProps \/ Items
           \/ Union \/ Finish
  <2>1. stack # <<>>
    BY <1>2 DEF EnterOutside, EnterRef, EnterAllOf, EnterPlain, PropsStart,
                PropStep, PropsEnd, AdditionalProps, Items, Union, Finish
  <2>2. InnerEffect
    BY <1>2, EnterOutsideEffect, EnterRefEffect, EnterAllOfEffect,
       EnterPlainEffect, PropsStartEffect, PropStepEffect, PropsEndEffect,
       AdditionalPropsEffect, ItemsEffect, UnionEffect, FinishEffect
  <2> QED
    BY <1>1, <2>1, <2>2, InnerStep DEF CInv
<1>3. CASE Return
  BY <1>1, <1>3, ReturnCalls DEF CInv
<1>4. CASE StartCall
  BY <1>1, <1>4, StartCallCalls DEF CInv
<1>5. CASE NextSchema
  BY <1>1, <1>5, NextSchemaCalls DEF CInv
<1>6. CASE EndCall
  BY <1>1, <1>6, EndCallCalls DEF CInv
<1>7. CASE Done \/ UNCHANGED vars
  <2>1. UNCHANGED vars
    BY <1>7 DEF Done
  <2> QED
    BY <1>1, <2>1, StutterCalls DEF CInv
<1> QED
  BY <1>2, <1>3, <1>4, <1>5, <1>6, <1>7 DEF Next

\* The Normalizer implements NormalizerCalls under the projection on input,
\* calls, results and status: every public call (Normalize,
\* InputCompatible, OutputCompatible, part_004:42-82) either fails or
\* returns exactly one map per schema, no more and no fewer, and only then
\* ends "ok".  That the maps are normalized is checked by TLC only
\* (NormalizedOutputs).
THEOREM CallsRefinementHolds == Spec => CallsRefinement
<1>1. Init => Calls!Init
  <2> SUFFICES ASSUME Init PROVE Calls!Init
    OBVIOUS
  <2>1. PICK d \in Docs : /\ input = d /\ calls = d.calls
                          /\ results = <<>> /\ status = "idle"
    BY DEF Init
  <2> QED
    BY <2>1 DEF Calls!Init
<1>2. CInv /\ [Next]_vars => CInv' /\ [Calls!Next]_Calls!avars
  BY NextCInv DEF AStep
<1> QED
  BY <1>1, <1>2, InitCInv, PTL DEF Spec, CallsRefinement, Calls!Spec

=============================================================================
