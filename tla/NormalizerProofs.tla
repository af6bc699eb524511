-------------------------- MODULE NormalizerProofs --------------------------
(***************************************************************************)
(* Proofs about module Normalizer: the cycle-detection set refStack is at  *)
(* every step exactly the refs whose deferred cleanup is pending, and no   *)
(* two activations of normalizeAt hold the same ref.                       *)
(*                                                                         *)
(* Neither is inductive alone.  The strengthening IInv adds the shape of   *)
(* the stack: only the innermost frame runs (the others wait for a child), *)
(* a frame that has not passed the gate holds nothing, and the stack is   *)
(* empty unless a call is running.                                         *)
(***************************************************************************)
EXTENDS Normalizer, TLAPS

\* The pcs of a frame that waits for the child it called.
WaitPCs == {"wait", "prop", "apw", "itemsw", "unionw"}

\* A frame the proofs can reason about; top says it is the innermost one.
FrameShape(f, top) ==
  /\ DOMAIN f = FrameFields
  /\ f.pc \in PCs
  /\ ~top => f.pc \in WaitPCs
  /\ f.pc = "enter" => f.held = {}

Shape(st) ==
  /\ Len(st) \in Nat
  /\ DOMAIN st = 1..Len(st)
  /\ \A i \in DOMAIN st : FrameShape(st[i], i = Len(st))

\* No two frames hold the same key.
Disjoint(st) ==
  \A i, j \in DOMAIN st : i # j => st[i].held \cap st[j].held = {}

IInv ==
  /\ Shape(stack)
  /\ Disjoint(stack)
  /\ RefStackIsHeldRefs
  /\ stack # <<>> => status = "running"

-----------------------------------------------------------------------------
(***************************************************************************)
(* resolveRef pushes the key only when it is not there yet: a successful   *)
(* resolution returns the set with a key it did not hold (part_004:359-   *)
(* 362, 392), and an error path returns the set unchanged.                 *)
(***************************************************************************)
LEMMA ResolveRefPush ==
  ASSUME NEW rs, NEW r, NEW h, NEW root
  PROVE  LET res == ResolveRef(rs, r, h, root)
         IN  /\ res.ok \in BOOLEAN
             /\ res.ok => res.key \notin rs /\ res.rs = rs \cup {res.key}
             /\ ~res.ok => res.rs = rs
  BY DEF ResolveRef

\* A caller that takes its child's value keeps its ref and goes on waiting
\* or returning (the assignments after each normalizeAt call of
\* part_004:202-329).
LEMMA DeliverShape ==
  ASSUME NEW f, NEW v, DOMAIN f = FrameFields, f.pc \in WaitPCs
  PROVE  /\ DOMAIN Deliver(f, v) = FrameFields
         /\ Deliver(f, v).held = f.held
         /\ Deliver(f, v).pc \in PCs \ {"enter"}
  BY DEF Deliver, WaitPCs, PCs, FrameFields

\* Replacing the innermost frame by g keeps the shape, and adds g's held
\* key, if it is new, to the keys held (SetTop, and the first half of Call).
LEMMA SetTopShape ==
  ASSUME NEW st, NEW g, Shape(st), Disjoint(st), st # <<>>,
         DOMAIN g = FrameFields, g.pc \in PCs, g.pc = "enter" => g.held = {},
         st[Len(st)].held \subseteq g.held,
         (g.held \ st[Len(st)].held) \cap HeldRefs(st) = {}
  PROVE  LET T == [st EXCEPT ![Len(st)] = g]
         IN  /\ Shape(T)
             /\ Disjoint(T)
             /\ HeldRefs(T) = HeldRefs(st) \cup g.held
<1> DEFINE n == Len(st)
           T == [st EXCEPT ![n] = g]
<1>1. n \in Nat \ {0} /\ DOMAIN st = 1..n
  BY DEF Shape
<1>2. Len(T) = n /\ DOMAIN T = 1..n /\ T[n] = g /\ \A i \in 1..n-1 : T[i] = st[i]
  BY <1>1
<1>3. Shape(T)
  BY <1>1, <1>2 DEF Shape, FrameShape
<1>4. Disjoint(T)
  <2> SUFFICES ASSUME NEW i \in 1..n, NEW j \in 1..n, i # j
               PROVE  T[i].held \cap T[j].held = {}
    BY <1>2 DEF Disjoint
  <2>1. \A k \in 1..n : st[k].held \subseteq HeldRefs(st)
    BY <1>1 DEF HeldRefs
  <2>2. \A k \in 1..n-1 : st[k].held \cap g.held = {}
    BY <1>1, <2>1 DEF Disjoint
  <2> QED
    BY <1>1, <1>2, <2>2 DEF Disjoint
<1>5. HeldRefs(T) = HeldRefs(st) \cup g.held
  BY <1>1, <1>2 DEF HeldRefs
<1> QED
  BY <1>3, <1>4, <1>5

\* A call pushes a fresh frame, which holds nothing, over a waiting caller
\* (the second half of Call).
LEMMA PushShape ==
  ASSUME NEW T, NEW v, Shape(T), Disjoint(T), T # <<>>, T[Len(T)].pc \in WaitPCs
  PROVE  LET P == Append(T, NewFrame(v))
         IN  /\ Shape(P)
             /\ Disjoint(P)
             /\ HeldRefs(P) = HeldRefs(T)
<1> DEFINE n == Len(T)
           P == Append(T, NewFrame(v))
<1>1. n \in Nat \ {0} /\ DOMAIN T = 1..n
  BY DEF Shape
<1>2. Len(P) = n + 1 /\ DOMAIN P = 1..n+1 /\ P[n+1] = NewFrame(v)
      /\ \A i \in 1..n : P[i] = T[i]
  BY <1>1
<1>3. DOMAIN NewFrame(v) = FrameFields /\ NewFrame(v).pc = "enter"
      /\ NewFrame(v).held = {}
  BY DEF NewFrame, FrameFields
<1>4. Shape(P)
  BY <1>1, <1>2, <1>3 DEF Shape, FrameShape, WaitPCs, PCs
<1>5. Disjoint(P)
  BY <1>1, <1>2, <1>3 DEF Disjoint
<1>6. HeldRefs(P) = HeldRefs(T)
  BY <1>1, <1>2, <1>3 DEF HeldRefs
<1> QED
  BY <1>4, <1>5, <1>6

\* A return pops the innermost frame, drops its key, and puts d, the caller
\* after it took the value, in the caller's place (Return).
LEMMA PopShape ==
  ASSUME NEW st, NEW d, Shape(st), Disjoint(st), Len(st) > 1,
         DOMAIN d = FrameFields, d.held = st[Len(st) - 1].held,
         d.pc \in PCs \ {"enter"}
  PROVE  LET C == [Callers(st) EXCEPT ![Len(st) - 1] = d]
         IN  /\ Shape(C)
             /\ Disjoint(C)
             /\ HeldRefs(C) = HeldRefs(st) \ st[Len(st)].held
<1> DEFINE n == Len(st)
           C == [Callers(st) EXCEPT ![n - 1] = d]
<1>1. n \in Nat /\ n > 1 /\ DOMAIN st = 1..n
  BY DEF Shape
<1> HIDE DEF n
<1>2. /\ Len(C) = n - 1 /\ DOMAIN C = 1..n-1 /\ C[n - 1] = d
      /\ \A i \in 1..n-1 : i # n - 1 => C[i] = st[i]
  <2>1. /\ Len(Callers(st)) = n - 1 /\ DOMAIN Callers(st) = 1..n-1
        /\ \A i \in 1..n-1 : Callers(st)[i] = st[i]
    BY <1>1 DEF Callers, n
  <2>2. n - 1 \in 1..n-1 /\ n - 1 \in Nat
    BY <1>1
  <2>3. Len(C) = n - 1
    BY <2>1, <2>2
  <2>4. DOMAIN C = 1..n-1 /\ C[n - 1] = d /\ \A i \in 1..n-1 : i # n - 1 => C[i] = st[i]
    BY <2>1, <2>2, Zenon
  <2> QED
    BY <2>3, <2>4
<1> HIDE DEF C
<1>3. Shape(C)
  <2>1. \A i \in 1..n-1 : i # n - 1 => FrameShape(C[i], FALSE)
    <3> SUFFICES ASSUME NEW i \in 1..n-1, i # n - 1
                 PROVE  FrameShape(st[i], FALSE)
      BY <1>2
    <3>1. i \in DOMAIN st /\ i # n
      BY <1>1
    <3> QED
      BY <3>1 DEF Shape, FrameShape, n
  <2>2. FrameShape(C[n - 1], TRUE)
    BY <1>2 DEF FrameShape
  <2>3. Len(C) \in Nat /\ DOMAIN C = 1..Len(C)
    BY <1>1, <1>2
  <2>4. \A i \in DOMAIN C : FrameShape(C[i], i = Len(C))
    BY <1>1, <1>2, <2>1, <2>2
  <2> QED
    BY <2>3, <2>4 DEF Shape
<1>4. Disjoint(C)
  BY <1>1, <1>2 DEF Disjoint
<1>5. HeldRefs(C) = HeldRefs(st) \ st[n].held
  <2>1. \A i \in 1..n-1 : st[i].held \cap st[n].held = {}
    BY <1>1 DEF Disjoint
  <2>2. \A i \in 1..n-1 : C[i].held = st[i].held
    <3>1. d.held = st[n - 1].held
      BY DEF n
    <3> QED
      BY <1>2, <3>1
  <2> QED
    BY <1>1, <1>2, <2>1, <2>2 DEF HeldRefs
<1> QED
  BY <1>3, <1>4, <1>5 DEF C, n

-----------------------------------------------------------------------------
(***************************************************************************)
(* The three ways a step of normalizeAt changes the stack: it returns an   *)
(* error through every frame, it moves the innermost frame on, or it calls *)
(* normalizeAt on a child.                                                  *)
(***************************************************************************)
\* The innermost frame of a well-shaped stack.
LEMMA TopShape ==
  ASSUME IInv, stack # <<>>
  PROVE  /\ Len(stack) \in Nat \ {0}
         /\ Len(stack) \in DOMAIN stack
         /\ DOMAIN Top = FrameFields
         /\ Top.pc \in PCs
         /\ Top.pc = "enter" => Top.held = {}
         /\ Top.held \subseteq refStack
         /\ status = "running"
<1> DEFINE n == Len(stack)
<1>0. n = Len(stack)
  OBVIOUS
<1>1. n \in Nat \ {0} /\ DOMAIN stack = 1..n
  BY DEF IInv, Shape
<1> HIDE DEF n
<1>2. n \in DOMAIN stack
  BY <1>1
<1>3. FrameShape(stack[n], TRUE)
  BY <1>0, <1>2 DEF IInv, Shape
<1>4. stack[n].held \subseteq refStack
  BY <1>2 DEF IInv, RefStackIsHeldRefs, HeldRefs
<1> QED
  BY <1>0, <1>1, <1>2, <1>3, <1>4 DEF FrameShape, IInv, Top

\* Fail: the stack is emptied and every held key removed.
LEMMA FailStep ==
  ASSUME IInv, NEW e, NEW h, Fail(e, h)
  PROVE  IInv'
<1>1. stack' = <<>> /\ refStack' = {}
  BY DEF Fail, IInv, RefStackIsHeldRefs
<1> QED
  BY <1>1 DEF IInv, Shape, Disjoint, RefStackIsHeldRefs, HeldRefs

\* The innermost frame becomes g, which holds what it held.
LEMMA KeepStep ==
  ASSUME IInv, stack # <<>>, NEW g, stack' = SetTop(g),
         DOMAIN g = FrameFields, g.pc \in PCs \ {"enter"}, g.held = Top.held,
         refStack' = refStack, status' = status
  PROVE  IInv'
<1>1. Top.held \subseteq refStack /\ status = "running"
  BY TopShape
<1>2. /\ Shape(stack') /\ Disjoint(stack')
      /\ HeldRefs(stack') = HeldRefs(stack) \cup g.held
  BY SetTopShape DEF IInv, SetTop, Top
<1> QED
  BY <1>1, <1>2 DEF IInv, RefStackIsHeldRefs

\* The innermost frame becomes g, waiting, and calls normalizeAt(v); g may
\* hold a key no frame held.
LEMMA CallStep ==
  ASSUME IInv, stack # <<>>, NEW g, NEW v,
         stack' = Append(SetTop(g), NewFrame(v)),
         DOMAIN g = FrameFields, g.pc \in WaitPCs,
         Top.held \subseteq g.held, (g.held \ Top.held) \cap refStack = {},
         refStack' = refStack \cup g.held, status' = status
  PROVE  IInv'
<1> DEFINE T == SetTop(g)
<1>1. status = "running"
  BY TopShape
<1>2. /\ Shape(T) /\ Disjoint(T) /\ HeldRefs(T) = HeldRefs(stack) \cup g.held
  <2>1. g.pc \in PCs /\ g.pc # "enter"
    BY DEF WaitPCs, PCs
  <2> QED
    BY <2>1, SetTopShape DEF IInv, RefStackIsHeldRefs, SetTop, Top
<1>3. T # <<>> /\ T[Len(T)] = g
  BY TopShape DEF SetTop, Top
<1>4. Shape(stack') /\ Disjoint(stack') /\ HeldRefs(stack') = HeldRefs(T)
  BY <1>2, <1>3, PushShape
<1> QED
  BY <1>1, <1>2, <1>4 DEF IInv, RefStackIsHeldRefs

-----------------------------------------------------------------------------
(***************************************************************************)
(* Each action of normalizeAt preserves IInv.                              *)
(***************************************************************************)
LEMMA EnterOutsideStep ==
  ASSUME IInv, EnterOutside
  PROVE  IInv'
BY FailStep DEF EnterOutside

\* Inlining a $ref holds a key no frame held: resolveRef's cycle check.
LEMMA EnterRefStep ==
  ASSUME IInv, EnterRef
  PROVE  IInv'
<1> DEFINE f == Top
           m == heap[f.sch.n]
           res == ResolveRef(refStack, m["$ref"].s, heap, input.root)
           g == [f EXCEPT !.pc = "wait", !.held = {res.key}]
<1>1. stack # <<>> /\ f.pc = "enter"
  BY DEF EnterRef
<1>2. /\ res.ok \in BOOLEAN
      /\ res.ok => res.key \notin refStack /\ res.rs = refStack \cup {res.key}
  BY ResolveRefPush
<1>3. CASE ~res.ok
  BY <1>3, FailStep DEF EnterRef
<1>4. CASE res.ok /\ ~IsMap(res.val)
  BY <1>4, FailStep DEF EnterRef
<1>5. CASE res.ok /\ IsMap(res.val)
  <2>1. /\ stack' = Append(SetTop(g), NewFrame(res.val))
        /\ refStack' = res.rs
        /\ status' = status
    BY <1>5 DEF EnterRef, Call
  <2>2. DOMAIN f = FrameFields /\ f.held = {}
    BY <1>1, TopShape
  <2>3. DOMAIN g = FrameFields /\ g.pc \in WaitPCs /\ g.held = {res.key}
    BY <2>2 DEF WaitPCs, FrameFields
  <2>4. /\ Top.held \subseteq g.held
        /\ (g.held \ Top.held) \cap refStack = {}
        /\ refStack' = refStack \cup g.held
    BY <1>2, <1>5, <2>1, <2>2, <2>3
  <2> QED
    BY <1>1, <2>1, <2>3, <2>4, CallStep
<1> QED
  BY <1>2, <1>3, <1>4, <1>5

\* Flattening allOf calls normalizeAt on the merged map; the branch refs
\* it resolved are cleaned up already.
LEMMA EnterAllOfStep ==
  ASSUME IInv, EnterAllOf
  PROVE  IInv'
<1> DEFINE f == Top
           m == heap[f.sch.n]
           fl == FlattenAllOf(heap, refStack, input.root, m["allOf"])
           g == [f EXCEPT !.pc = "wait"]
<1>1. stack # <<>> /\ f.pc = "enter"
  BY DEF EnterAllOf
<1>2. CASE ~fl.ok
  BY <1>2, FailStep DEF EnterAllOf
<1>3. CASE ~~fl.ok
  <2>1. /\ stack' = Append(SetTop(g), NewFrame(Obj(fl.addr)))
        /\ refStack' = refStack
        /\ status' = status
    BY <1>3 DEF EnterAllOf, Call
  <2>2. DOMAIN f = FrameFields /\ f.held \subseteq refStack
    BY <1>1, TopShape
  <2>3. DOMAIN g = FrameFields /\ g.pc \in WaitPCs /\ g.held = f.held
    BY <2>2 DEF WaitPCs, FrameFields
  <2> QED
    BY <1>1, <2>1, <2>2, <2>3, CallStep
<1> QED
  BY <1>2, <1>3

\* Stripping and normalizing type and required move the frame on, or fail.
LEMMA EnterPlainStep ==
  ASSUME IInv, EnterPlain
  PROVE  IInv'
<1> DEFINE f == Top
           m == heap[f.sch.n]
           out == Stripped(m)
           out1 == IF "type" \in DOMAIN out
                     THEN Put(out, "type", NormalizeType(out["type"])) ELSE out
           out2 == IF "required" \in DOMAIN out
                     THEN Put(out1, "required", SortedStrs(StrsOf(out["required"])))
                     ELSE out1
           g == [f EXCEPT !.pc = "props", !.out = out2]
           bad == \/ "type" \in DOMAIN out /\ ~TypeValueOK(out["type"])
                  \/ "required" \in DOMAIN out /\ ~StringSetOK(out["required"])
<1>1. stack # <<>>
  BY DEF EnterPlain
<1>2. CASE bad
  BY <1>2, FailStep DEF EnterPlain
<1>3. CASE ~bad
  <2>1. stack' = SetTop(g) /\ refStack' = refStack /\ status' = status
    BY <1>3 DEF EnterPlain
  <2>2. DOMAIN f = FrameFields
    BY <1>1, TopShape
  <2>3. DOMAIN g = FrameFields /\ g.pc \in PCs \ {"enter"} /\ g.held = f.held
    BY <2>2 DEF PCs, FrameFields
  <2> QED
    BY <1>1, <2>1, <2>3, KeepStep
<1> QED
  BY <1>2, <1>3

\* The start of the properties loop.
LEMMA PropsStartStep ==
  ASSUME IInv, PropsStart
  PROVE  IInv'
<1> DEFINE f == Top
           p == f.out["properties"]
<1>1. stack # <<>> /\ DOMAIN f = FrameFields
  BY TopShape DEF PropsStart
<1>2. CASE "properties" \notin DOMAIN f.out
  <2>1. DEFINE g == [f EXCEPT !.pc = "ap"]
  <2>2. stack' = SetTop(g) /\ refStack' = refStack /\ status' = status
    BY <1>2 DEF PropsStart
  <2> QED
    BY <1>1, <2>2, KeepStep DEF PCs, FrameFields
<1>3. CASE "properties" \in DOMAIN f.out /\ ~IsMap(p)
  BY <1>3, FailStep DEF PropsStart
<1>4. CASE "properties" \in DOMAIN f.out /\ IsMap(p)
  <2>1. DEFINE g == [f EXCEPT !.pc = "propsLoop", !.pm = p.n, !.keys0 = DOMAIN heap[p.n],
                              !.done = {}, !.nm = EmptyMap]
  <2>2. stack' = SetTop(g) /\ refStack' = refStack /\ status' = status
    BY <1>4 DEF PropsStart
  <2> QED
    BY <1>1, <2>2, KeepStep DEF PCs, FrameFields
<1> QED
  BY <1>2, <1>3, <1>4

\* One iteration of the properties loop calls normalizeAt on a property.
LEMMA PropStepStep ==
  ASSUME IInv, PropStep
  PROVE  IInv'
<1> DEFINE f == Top
<1>1. stack # <<>> /\ DOMAIN f = FrameFields
  BY TopShape DEF PropStep
<1>2. PICK k \in DOMAIN heap[f.pm] \ f.done :
        IF ~IsMap(heap[f.pm][k]) THEN Fail("shape", heap)
        ELSE /\ Call([f EXCEPT !.pc = "prop", !.cur = k], heap[f.pm][k])
             /\ UNCHANGED <<input, heap, refStack, calls, pending, results, status>>
  BY DEF PropStep
<1>3. CASE ~IsMap(heap[f.pm][k])
  BY <1>2, <1>3, FailStep
<1>4. CASE IsMap(heap[f.pm][k])
  <2>1. DEFINE g == [f EXCEPT !.pc = "prop", !.cur = k]
  <2>2. /\ stack' = Append(SetTop(g), NewFrame(heap[f.pm][k]))
        /\ refStack' = refStack /\ status' = status
    BY <1>2, <1>4 DEF Call
  <2>3. DOMAIN g = FrameFields /\ g.pc \in WaitPCs /\ g.held = Top.held
    BY <1>1 DEF WaitPCs, FrameFields
  <2>4. Top.held \subseteq refStack
    BY <1>1, TopShape
  <2> QED
    BY <1>1, <2>2, <2>3, <2>4, CallStep
<1> QED
  BY <1>3, <1>4

\* The end of the properties loop.
LEMMA PropsEndStep ==
  ASSUME IInv, PropsEnd
  PROVE  IInv'
<1> DEFINE g == [Top EXCEPT !.pc = "ap",
                             !.out = Put(Top.out, "properties", Obj(NextAddr(heap)))]
<1>1. stack # <<>> /\ DOMAIN Top = FrameFields
  BY TopShape DEF PropsEnd
<1>2. stack' = SetTop(g) /\ refStack' = refStack /\ status' = status
  BY DEF PropsEnd
<1> QED
  BY <1>1, <1>2, KeepStep DEF PCs, FrameFields

\* additionalProperties: a bool moves on, a map is normalized.
LEMMA AdditionalPropsStep ==
  ASSUME IInv, AdditionalProps
  PROVE  IInv'
<1> DEFINE f == Top
           K == "additionalProperties"
<1>1. stack # <<>> /\ DOMAIN f = FrameFields
  BY TopShape DEF AdditionalProps
<1>2. CASE K \notin DOMAIN f.out \/ f.out[K].t = "bool"
  <2>1. DEFINE g == [f EXCEPT !.pc = "items"]
  <2>2. stack' = SetTop(g) /\ refStack' = refStack /\ status' = status
    BY <1>2 DEF AdditionalProps
  <2> QED
    BY <1>1, <2>2, KeepStep DEF PCs, FrameFields
<1>3. CASE ~(K \notin DOMAIN f.out \/ f.out[K].t = "bool") /\ ~IsMap(f.out[K])
  BY <1>3, FailStep DEF AdditionalProps
<1>4. CASE ~(K \notin DOMAIN f.out \/ f.out[K].t = "bool") /\ IsMap(f.out[K])
  <2>1. DEFINE g == [f EXCEPT !.pc = "apw"]
  <2>2. /\ stack' = Append(SetTop(g), NewFrame(f.out[K]))
        /\ refStack' = refStack /\ status' = status
    BY <1>4 DEF AdditionalProps, Call
  <2>3. DOMAIN g = FrameFields /\ g.pc \in WaitPCs /\ g.held = Top.held
    BY <1>1 DEF WaitPCs, FrameFields
  <2>4. Top.held \subseteq refStack
    BY <1>1, TopShape
  <2> QED
    BY <1>1, <2>2, <2>3, <2>4, CallStep
<1> QED
  BY <1>2, <1>3, <1>4

\* items: absent moves on, a map is normalized.
LEMMA ItemsStep ==
  ASSUME IInv, Items
  PROVE  IInv'
<1> DEFINE f == Top
<1>1. stack # <<>> /\ DOMAIN f = FrameFields
  BY TopShape DEF Items
<1>2. CASE "items" \notin DOMAIN f.out
  <2>1. DEFINE g == [f EXCEPT !.pc = "union"]
  <2>2. stack' = SetTop(g) /\ refStack' = refStack /\ status' = status
    BY <1>2 DEF Items
  <2> QED
    BY <1>1, <2>2, KeepStep DEF PCs, FrameFields
<1>3. CASE "items" \in DOMAIN f.out /\ ~IsMap(f.out["items"])
  BY <1>3, FailStep DEF Items
<1>4. CASE "items" \in DOMAIN f.out /\ IsMap(f.out["items"])
  <2>1. DEFINE g == [f EXCEPT !.pc = "itemsw"]
  <2>2. /\ stack' = Append(SetTop(g), NewFrame(f.out["items"]))
        /\ refStack' = refStack /\ status' = status
    BY <1>4 DEF Items, Call
  <2>3. DOMAIN g = FrameFields /\ g.pc \in WaitPCs /\ g.held = Top.held
    BY <1>1 DEF WaitPCs, FrameFields
  <2>4. Top.held \subseteq refStack
    BY <1>1, TopShape
  <2> QED
    BY <1>1, <2>2, <2>3, <2>4, CallStep
<1> QED
  BY <1>2, <1>3, <1>4

\* NextUnion keeps the frame's ref and never goes back to the gate.
LEMMA NextUnionShape ==
  ASSUME NEW f, DOMAIN f = FrameFields, f.pc = "union"
  PROVE  /\ DOMAIN NextUnion(f) = FrameFields
         /\ NextUnion(f).pc \in PCs \ {"enter"}
         /\ NextUnion(f).held = f.held
  BY DEF NextUnion, PCs, FrameFields

\* oneOf / anyOf: normalize the next variant, or sort them and move on.
LEMMA UnionStep ==
  ASSUME IInv, Union
  PROVE  IInv'
<1> DEFINE f == Top
           u == f.out[f.uk]
           i == Len(f.vars) + 1
           f2 == [f EXCEPT !.out = Put(f.out, f.uk, Arr(SortVariants(heap, f.vars)))]
<1>1. stack # <<>> /\ DOMAIN f = FrameFields /\ f.pc = "union"
  BY TopShape DEF Union
<1>2. CASE f.uk \notin DOMAIN f.out
  <2>1. stack' = SetTop(NextUnion(f)) /\ refStack' = refStack /\ status' = status
    BY <1>2 DEF Union
  <2>2. /\ DOMAIN NextUnion(f) = FrameFields
        /\ NextUnion(f).pc \in PCs \ {"enter"}
        /\ NextUnion(f).held = Top.held
    BY <1>1, NextUnionShape
  <2> QED
    BY <1>1, <2>1, <2>2, KeepStep
<1>3. CASE f.uk \in DOMAIN f.out /\ ~IsArr(u)
  BY <1>3, FailStep DEF Union
<1>4. CASE f.uk \in DOMAIN f.out /\ IsArr(u) /\ i <= Len(u.xs) /\ ~IsMap(u.xs[i])
  BY <1>4, FailStep DEF Union
<1>5. CASE f.uk \in DOMAIN f.out /\ IsArr(u) /\ i <= Len(u.xs) /\ IsMap(u.xs[i])
  <2>1. DEFINE g == [f EXCEPT !.pc = "unionw"]
  <2>2. /\ stack' = Append(SetTop(g), NewFrame(u.xs[i]))
        /\ refStack' = refStack /\ status' = status
    BY <1>5 DEF Union, Call
  <2>3. DOMAIN g = FrameFields /\ g.pc \in WaitPCs /\ g.held = Top.held
    BY <1>1 DEF WaitPCs, FrameFields
  <2>4. Top.held \subseteq refStack
    BY <1>1, TopShape
  <2> QED
    BY <1>1, <2>2, <2>3, <2>4, CallStep
<1>6. CASE f.uk \in DOMAIN f.out /\ IsArr(u) /\ ~(i <= Len(u.xs))
  <2>1. stack' = SetTop(NextUnion(f2)) /\ refStack' = refStack /\ status' = status
    BY <1>6 DEF Union
  <2>2. DOMAIN f2 = FrameFields /\ f2.pc = "union" /\ f2.held = Top.held
    BY <1>1 DEF FrameFields
  <2>3. /\ DOMAIN NextUnion(f2) = FrameFields
        /\ NextUnion(f2).pc \in PCs \ {"enter"}
        /\ NextUnion(f2).held = Top.held
    BY <2>2, NextUnionShape
  <2> QED
    BY <1>1, <2>1, <2>3, KeepStep
<1> QED
  BY <1>2, <1>3, <1>4, <1>5, <1>6

\* return out: the frame holds its value.
LEMMA FinishStep ==
  ASSUME IInv, Finish
  PROVE  IInv'
<1> DEFINE g == [Top EXCEPT !.pc = "ret", !.val = Obj(NextAddr(heap))]
<1>1. stack # <<>> /\ DOMAIN Top = FrameFields
  BY TopShape DEF Finish
<1>2. stack' = SetTop(g) /\ refStack' = refStack /\ status' = status
  BY DEF Finish
<1> QED
  BY <1>1, <1>2, KeepStep DEF PCs, FrameFields

\* A return hands the value to the caller and runs the deferred cleanup.
LEMMA ReturnStep ==
  ASSUME IInv, Return
  PROVE  IInv'
<1> DEFINE n == Len(stack)
<1>0. n = Len(stack)
  OBVIOUS
<1>1. /\ stack # <<>> /\ n \in Nat \ {0} /\ DOMAIN stack = 1..n
      /\ refStack' = refStack \ Top.held /\ status' = status
  BY TopShape DEF Return, IInv, Shape
<1> HIDE DEF n
<1>2. CASE n = 1
  <2>1. stack' = <<>>
    BY <1>0, <1>2 DEF Return
  <2>2. HeldRefs(stack) = Top.held
    BY <1>0, <1>1, <1>2 DEF HeldRefs, Top
  <2>3. refStack' = {}
    BY <1>1, <2>2 DEF IInv, RefStackIsHeldRefs
  <2> QED
    BY <2>1, <2>3 DEF IInv, Shape, Disjoint, RefStackIsHeldRefs, HeldRefs
<1>3. CASE n # 1
  <2> DEFINE d == Deliver(stack[n - 1], Top.val)
             C == [Callers(stack) EXCEPT ![n - 1] = d]
  <2>1. n > 1 /\ n - 1 \in DOMAIN stack /\ n - 1 # n
    BY <1>1, <1>3
  <2>2. Callers(stack)[n - 1] = stack[n - 1]
    BY <1>0, <1>1, <2>1 DEF Callers
  <2>3. stack' = C
    BY <1>0, <1>3, <2>2 DEF Return
  <2>4. DOMAIN stack[n - 1] = FrameFields /\ stack[n - 1].pc \in WaitPCs
    BY <1>0, <2>1 DEF IInv, Shape, FrameShape
  <2>5. DOMAIN d = FrameFields /\ d.held = stack[n - 1].held /\ d.pc \in PCs \ {"enter"}
    BY <2>4, DeliverShape
  <2> HIDE DEF d
  <2>6. Shape(C) /\ Disjoint(C) /\ HeldRefs(C) = HeldRefs(stack) \ stack[n].held
    BY <1>0, <2>1, <2>5, PopShape DEF IInv
  <2>7. C # <<>>
    <3>1. DOMAIN Callers(stack) = 1..(n - 1)
      BY <1>0, <1>1, <2>1 DEF Callers
    <3>2. DOMAIN C = 1..(n - 1)
      BY <3>1, Zenon
    <3>3. n - 1 \in 1..(n - 1)
      BY <1>1, <2>1
    <3> QED
      BY <3>2, <3>3
  <2>8. status = "running"
    BY <1>1, TopShape
  <2> QED
    BY <1>0, <1>1, <2>3, <2>6, <2>7, <2>8 DEF IInv, RefStackIsHeldRefs, Top
<1> QED
  BY <1>2, <1>3

\* A public call starts with an empty stack and a fresh refStack.
LEMMA StartCallStep ==
  ASSUME IInv, StartCall
  PROVE  IInv'
<1>1. stack = <<>> /\ stack' = stack /\ refStack' = {}
  BY DEF StartCall, IInv
<1> QED
  BY <1>1 DEF IInv, Shape, Disjoint, RefStackIsHeldRefs, HeldRefs

\* The next schema of a call: a fresh frame, or {} for nil.
LEMMA NextSchemaStep ==
  ASSUME IInv, NextSchema
  PROVE  IInv'
<1>1. stack = <<>> /\ refStack = {} /\ refStack' = refStack /\ status' = status
      /\ status = "running"
  BY DEF NextSchema, IInv, RefStackIsHeldRefs, HeldRefs
<1>2. CASE Head(pending) = Null
  BY <1>1, <1>2 DEF NextSchema, IInv, Shape, Disjoint, RefStackIsHeldRefs, HeldRefs
<1>3. CASE Head(pending) # Null
  <2> DEFINE v == Head(pending)
  <2>1. stack' = <<NewFrame(v)>>
    BY <1>3 DEF NextSchema
  <2>2. DOMAIN NewFrame(v) = FrameFields /\ NewFrame(v).pc = "enter" /\ NewFrame(v).held = {}
    BY DEF NewFrame, FrameFields
  <2> HIDE DEF v
  <2>3. Shape(stack')
    BY <2>1, <2>2 DEF Shape, FrameShape, PCs
  <2>4. Disjoint(stack') /\ HeldRefs(stack') = {}
    BY <2>1, <2>2 DEF Disjoint, HeldRefs
  <2> QED
    BY <1>1, <2>3, <2>4 DEF IInv, RefStackIsHeldRefs
<1> QED
  BY <1>2, <1>3

LEMMA EndCallStep ==
  ASSUME IInv, EndCall
  PROVE  IInv'
BY DEF EndCall, IInv, Shape, Disjoint, RefStackIsHeldRefs, HeldRefs

LEMMA StutterStep ==
  ASSUME IInv, UNCHANGED vars
  PROVE  IInv'
BY DEF vars, IInv, Shape, Disjoint, RefStackIsHeldRefs, HeldRefs, FrameShape

-----------------------------------------------------------------------------
(***************************************************************************)
(* IInv is an inductive invariant of Spec.                                 *)
(***************************************************************************)
\* Before the first call nothing is held and the stack is empty.
THEOREM InitIInv == Init => IInv
<1> SUFFICES ASSUME Init PROVE IInv
  OBVIOUS
<1>1. stack = <<>> /\ refStack = {}
  BY DEF Init
<1> QED
  BY <1>1 DEF IInv, Shape, Disjoint, RefStackIsHeldRefs, HeldRefs

\* Every step of a public call, and every step between calls, keeps IInv.
THEOREM NextIInv == IInv /\ [Next]_vars => IInv'
<1> SUFFICES ASSUME IInv, [Next]_vars
             PROVE  IInv'
  OBVIOUS
<1>1. CASE EnterOutside
  BY <1>1, EnterOutsideStep
<1>2. CASE EnterRef
  BY <1>2, EnterRefStep
<1>3. CASE EnterAllOf
  BY <1>3, EnterAllOfStep
<1>4. CASE EnterPlain
  BY <1>4, EnterPlainStep
<1>5. CASE PropsStart
  BY <1>5, PropsStartStep
<1>6. CASE PropStep
  BY <1>6, PropStepStep
<1>7. CASE PropsEnd
  BY <1>7, PropsEndStep
<1>8. CASE AdditionalProps
  BY <1>8, AdditionalPropsStep
<1>9. CASE Items
  BY <1>9, ItemsStep
<1>10. CASE Union
  BY <1>10, UnionStep
<1>11. CASE Finish
  BY <1>11, FinishStep
<1>12. CASE Return
  BY <1>12, ReturnStep
<1>13. CASE StartCall
  BY <1>13, StartCallStep
<1>14. CASE NextSchema
  BY <1>14, NextSchemaStep
<1>15. CASE EndCall
  BY <1>15, EndCallStep
<1>16. CASE Done \/ UNCHANGED vars
  BY <1>16, StutterStep DEF Done
<1> QED
  BY <1>1, <1>2, <1>3, <1>4, <1>5, <1>6, <1>7, <1>8, <1>9, <1>10, <1>11,
     <1>12, <1>13, <1>14, <1>15, <1>16 DEF Next

\* The cycle-detection set of a Normalizer is, in every reachable state,
\* exactly the refs whose inlining is in progress (part_004:192-205,
\* part_005:40-48): no cleanup is missed on a return or on an error path.
THEOREM RefStackIsHeldRefsInvariant == Spec => []RefStackIsHeldRefs
<1>1. IInv => RefStackIsHeldRefs
  BY DEF IInv
<1> QED
  BY <1>1, InitIInv, NextIInv, PTL DEF Spec

\* No ref is held by two activations of normalizeAt: a ref is never inlined
\* inside its own inlining (part_004:359-362).
THEOREM HeldDistinctInvariant == Spec => []HeldDistinct
<1>1. IInv => HeldDistinct
  BY DEF IInv, Disjoint, HeldDistinct
<1> QED
  BY <1>1, InitIInv, NextIInv, PTL DEF Spec

=============================================================================
