------------------------------ MODULE Normalizer ------------------------------
(***************************************************************************)
(* The schema normalizer of package schemaprofile (part_004): the          *)
(* recursive normalizeAt as an explicit stack of frames, resolveRef with   *)
(* its cycle-detection set refStack, and flattenAllOf.  A behaviour is a   *)
(* series of public calls on one Normalizer (Normalize, or the two         *)
(* normalizations of InputCompatible / OutputCompatible, which share one   *)
(* refStack), over one root document.                                      *)
(*                                                                         *)
(* A frame is one activation of normalizeAt: the schema sch it            *)
(* normalizes, its program counter pc, the ref whose deferred cleanup it   *)
(* holds (held: empty, or that one key), the map out it builds, and the loop state of its recursions.    *)
(* mergeAllOfBranch is recursive and comes in as the operator MergeBranch *)
(* (module AllOfMerge); the order of oneOf / anyOf variants by canonical  *)
(* JSON comes in as SortVariants.                                         *)
(***************************************************************************)
EXTENDS Profile

CONSTANTS
  Refs,            \* the $ref strings of the documents
  RefKind,         \* url.Parse of each: "bad" (a parse error), "rel" (a
                   \* relative path), "frag" (fragment only) or "ext"
  RefKey,          \* u.String() of each, after resolution against Base
  RefPtr,          \* its fragment as JSON Pointer: [ok, toks], the tokens
                   \* unescaped; ok is FALSE when it does not start with /
  HasBase,         \* n.Base != nil
  HasFetch,        \* n.Fetch != nil
  Fetch,           \* the fetcher: per key, [r |-> "ok" | "fetch" | "decode", doc]
  ArrIndex,        \* strconv.Atoi on the array index tokens
  MaxDepth,        \* bound on the depth of the normalizeAt recursion
  Docs,            \* the inputs: [heap, root, calls]
  MergeBranch(_, _, _),   \* mergeAllOfBranch(h, acc, branch)
  SortVariants(_, _)      \* the variants sorted by their canonical JSON

\* The keys refStack may hold.
RefKeys == { RefKey[r] : r \in Refs }

\* The public calls of a document are a list, each of a list of schemas
\* (the one argument of Normalize, the two of InputCompatible and
\* OutputCompatible).
ASSUME DocsAssumption ==
  \A d \in Docs : IsList(d.calls) /\ \A i \in DOMAIN d.calls : IsList(d.calls[i])

VARIABLES
  input,     \* the chosen input: never changes
  heap,      \* the maps, see module Profile
  refStack,  \* n.refStack: the keys of the refs being normalized
  stack,     \* the activations of normalizeAt, innermost last
  calls,     \* the public calls still to come: each a sequence of schemas
  pending,   \* the schemas the current call has still to normalize
  results,   \* what the current call normalized so far
  status,    \* "idle", "running", or how the last call ended: "ok", "failed"
  err        \* the kind of error the last call returned, "" if none

vars == <<input, heap, refStack, stack, calls, pending, results, status, err>>

\* The error kinds: OutsideProfileError, RefError (with the cause "cycle
\* detected" apart), SchemaError, and the fmt errors for a malformed keyword.
Errors == {"outside", "ref", "cycle", "schema", "shape"}

(***************************************************************************)
(* resolveJSONPointer (part_003:257-291) over the heap: walk the tokens   *)
(* from doc.                                                               *)
(***************************************************************************)
ResolvePointer(h, doc, ptr) ==
  LET bad == [ok |-> FALSE, val |-> Null]
      walk[i \in 0..Len(ptr.toks)] ==
        IF i = 0 THEN [ok |-> TRUE, val |-> doc]
        ELSE LET w == walk[i - 1]  tok == ptr.toks[i]  cur == w.val
             IN  IF ~w.ok THEN w
                 ELSE IF IsMap(cur)
                   THEN IF tok \in DOMAIN h[cur.n] THEN [ok |-> TRUE, val |-> h[cur.n][tok]]
                        ELSE bad
                 ELSE IF IsArr(cur)
                   THEN IF tok \in DOMAIN ArrIndex /\ ArrIndex[tok] < Len(cur.xs)
                          THEN [ok |-> TRUE, val |-> cur.xs[ArrIndex[tok] + 1]]
                          ELSE bad
                 ELSE bad
  IN  IF ptr.ok THEN walk[Len(ptr.toks)] ELSE bad

\* Mutant: resolveRef without the cycle check of part_004:359-362.
ResolveRefNoCycleCheck(rs, r, h, root) ==
  LET kind == IF RefKind[r] = "rel" /\ HasBase THEN "ext" ELSE RefKind[r]
      key == RefKey[r]
      doc == IF kind = "frag" THEN root ELSE Fetch[key].doc
      ptr == ResolvePointer(h, doc, RefPtr[r])
      fail(e) == [ok |-> FALSE, err |-> e, rs |-> rs, key |-> key, val |-> Null]
  IN  CASE kind \in {"bad", "rel"}                 -> fail("ref")
        [] kind = "ext" /\ ~HasFetch               -> fail("ref")
        [] kind = "ext" /\ Fetch[key].r # "ok"     -> fail("ref")
        [] ~ptr.ok                                 -> fail("ref")
        [] OTHER -> [ok |-> TRUE, err |-> "", rs |-> rs \cup {key}, key |-> key,
                     val |-> ptr.val]

(***************************************************************************)
(* resolveRef (part_004:342-397).  On success the key is pushed on rs and  *)
(* the caller holds its cleanup; on every error path rs is as before (the *)
(* paths after the push call cleanup themselves).                          *)
(***************************************************************************)
ResolveRef(rs, r, h, root) ==
  LET kind == IF RefKind[r] = "rel" /\ HasBase THEN "ext" ELSE RefKind[r]
      key == RefKey[r]
      doc == IF kind = "frag" THEN root ELSE Fetch[key].doc
      ptr == ResolvePointer(h, doc, RefPtr[r])
      fail(e) == [ok |-> FALSE, err |-> e, rs |-> rs, key |-> key, val |-> Null]
  IN  CASE kind \in {"bad", "rel"}                 -> fail("ref")
        [] key \in rs                              -> fail("cycle")
        [] kind = "ext" /\ ~HasFetch               -> fail("ref")
        [] kind = "ext" /\ Fetch[key].r # "ok"     -> fail("ref")
        [] ~ptr.ok                                 -> fail("ref")
        [] OTHER -> [ok |-> TRUE, err |-> "", rs |-> rs \cup {key}, key |-> key,
                     val |-> ptr.val]

\* schema["$ref"].(string) with strings.TrimSpace(ref) != ""
HasRef(m) == "$ref" \in DOMAIN m /\ m["$ref"].t = "str" /\ ~Blank(m["$ref"].s)

(***************************************************************************)
(* flattenAllOf (part_005:11-62): merge the branches into a fresh map, in  *)
(* order; a $ref branch is resolved and its cleanup called at once.        *)
(* Returns [ok, err, h, addr], addr the merged map's.                      *)
(***************************************************************************)
FlattenAllOf(h, rs, root, allOf) ==
  LET acc == NextAddr(h)
      arr == allOf.xs
      step[i \in 0..Len(arr)] ==
        IF i = 0 THEN [ok |-> TRUE, err |-> "", h |-> Append(h, EmptyMap)]
        ELSE LET st == step[i - 1]  item == arr[i]
                 m == st.h[item.n]
                 res == ResolveRef(rs, m["$ref"].s, st.h, root)
                 fail(e) == [ok |-> FALSE, err |-> e, h |-> st.h]
             IN  IF ~st.ok THEN st
                 ELSE IF ~IsMap(item) THEN fail("shape")
                 ELSE IF ~ProfileKeywordsOK(m) THEN fail("outside")
                 ELSE IF "oneOf" \in DOMAIN m \/ "anyOf" \in DOMAIN m THEN fail("outside")
                 ELSE IF ~HasRef(m) THEN MergeBranch(st.h, acc, item.n)
                 ELSE IF ~res.ok THEN fail(res.err)
                 ELSE IF ~IsMap(res.val) THEN fail("ref")
                 ELSE MergeBranch(st.h, acc, res.val.n)
      last == step[Len(arr)]
  IN  IF ~IsArr(allOf) THEN [ok |-> FALSE, err |-> "shape", h |-> h, addr |-> 0]
      ELSE [ok |-> last.ok, err |-> last.err, h |-> last.h, addr |-> acc]

-----------------------------------------------------------------------------
(***************************************************************************)
(* Frames.                                                                 *)
(***************************************************************************)
\* pc: "enter" before the gate; "props", "propsLoop", "ap", "items",
\* "union", "end" the stages after the type and required; "wait", "prop",
\* "apw", "itemsw", "unionw" waiting for a child; "ret" returning val.
PCs == {"enter", "props", "propsLoop", "ap", "items", "union", "end",
        "wait", "prop", "apw", "itemsw", "unionw", "ret"}

\* A new activation normalizeAt(v, path)
NewFrame(v) ==
  [sch |-> v, pc |-> "enter", held |-> {}, out |-> EmptyMap,
   pm |-> 0, keys0 |-> {}, done |-> {}, nm |-> EmptyMap, cur |-> "",
   uk |-> "oneOf", vars |-> <<>>, val |-> Null]

Top == stack[Len(stack)]

\* The frames below the innermost one.
Callers(st) == SubSeq(st, 1, Len(st) - 1)

\* The keys held by the frames on the stack.
HeldRefs(st) == UNION { st[i].held : i \in DOMAIN st }

\* The innermost frame becomes f.
SetTop(f) == [stack EXCEPT ![Len(stack)] = f]

\* The innermost frame becomes f and calls normalizeAt(v).
Call(f, v) ==
  /\ Len(stack) < MaxDepth
  /\ stack' = Append(SetTop(f), NewFrame(v))

\* Return with an error: every frame returns it, and the deferred cleanup
\* of each removes its ref; the call ends with that error.
Fail(e, h) ==
  /\ status' = "failed"
  /\ err' = e
  /\ stack' = <<>>
  /\ pending' = <<>>
  /\ refStack' = refStack \ HeldRefs(stack)
  /\ heap' = h
  /\ UNCHANGED <<input, calls, results>>

(***************************************************************************)
(* normalizeAt (part_004:182-336), one action per stage.  f is the         *)
(* innermost frame and m the schema it normalizes.                         *)
(***************************************************************************)
\* The gate (part_004:187-189): a keyword outside the profile.
EnterOutside ==
  /\ stack # <<>> /\ Top.pc = "enter"
  /\ ~ProfileKeywordsOK(heap[Top.sch.n])
  /\ Fail("outside", heap)

\* Inline $ref (part_004:192-205): resolve, defer the cleanup, recurse.
EnterRef ==
  /\ stack # <<>> /\ Top.pc = "enter"
  /\ LET f == Top  m == heap[f.sch.n]
         res == ResolveRef(refStack, m["$ref"].s, heap, input.root)
     IN  /\ ProfileKeywordsOK(m) /\ HasRef(m)
         /\ IF ~res.ok THEN Fail(res.err, heap)
            ELSE IF ~IsMap(res.val) THEN Fail("ref", heap)
            ELSE /\ refStack' = res.rs
                 /\ Call([f EXCEPT !.pc = "wait", !.held = {res.key}], res.val)
                 /\ UNCHANGED <<input, heap, calls, pending, results, status, err>>

\* Mutant: the copy of part_004:208-217 that forgets the annotations.
StrippedDefsOnly(m) == [k \in DOMAIN m \ {"$defs"} |-> m[k]]

\* The schema without its annotations and $defs (part_004:208-217).
Stripped(m) == [k \in DOMAIN m \ (Annotations \cup {"$defs"}) |-> m[k]]

\* Flatten allOf and normalize the merged schema (part_004:220-227).
EnterAllOf ==
  /\ stack # <<>> /\ Top.pc = "enter"
  /\ LET f == Top  m == heap[f.sch.n]
         fl == FlattenAllOf(heap, refStack, input.root, m["allOf"])
     IN  /\ ProfileKeywordsOK(m) /\ ~HasRef(m) /\ "allOf" \in DOMAIN m
         /\ IF ~fl.ok THEN Fail(fl.err, fl.h)
            ELSE /\ heap' = fl.h
                 /\ Call([f EXCEPT !.pc = "wait"], Obj(fl.addr))
                 /\ UNCHANGED <<input, refStack, calls, pending, results, status, err>>

\* Strip, then normalize type and required (part_004:208-245).
EnterPlain ==
  /\ stack # <<>> /\ Top.pc = "enter"
  /\ LET f == Top  m == heap[f.sch.n]  out == Stripped(m)
         out1 == IF "type" \in DOMAIN out
                   THEN Put(out, "type", NormalizeType(out["type"])) ELSE out
         out2 == IF "required" \in DOMAIN out
                   THEN Put(out1, "required", SortedStrs(StrsOf(out["required"])))
                   ELSE out1
     IN  /\ ProfileKeywordsOK(m) /\ ~HasRef(m) /\ "allOf" \notin DOMAIN m
         /\ IF "type" \in DOMAIN out /\ ~TypeValueOK(out["type"]) THEN Fail("shape", heap)
            ELSE IF "required" \in DOMAIN out /\ ~StringSetOK(out["required"])
              THEN Fail("shape", heap)
            ELSE /\ stack' = SetTop([f EXCEPT !.pc = "props", !.out = out2])
                 /\ UNCHANGED <<input, heap, refStack, calls, pending, results, status, err>>

\* properties (part_004:248-252): start the loop over propsMap.
PropsStart ==
  /\ stack # <<>> /\ Top.pc = "props"
  /\ LET f == Top  p == f.out["properties"]
     IN  IF "properties" \notin DOMAIN f.out
           THEN /\ stack' = SetTop([f EXCEPT !.pc = "ap"])
                /\ UNCHANGED <<input, heap, refStack, calls, pending, results, status, err>>
         ELSE IF ~IsMap(p) THEN Fail("shape", heap)
         ELSE /\ stack' = SetTop([f EXCEPT !.pc = "propsLoop", !.pm = p.n,
                                   !.keys0 = DOMAIN heap[p.n], !.done = {},
                                   !.nm = EmptyMap])
              /\ UNCHANGED <<input, heap, refStack, calls, pending, results, status, err>>

\* One iteration (part_004:254-264).  Go's range visits every key present
\* when the loop started, and may or may not visit one added meanwhile.
PropStep ==
  /\ stack # <<>> /\ Top.pc = "propsLoop"
  /\ \E k \in DOMAIN heap[Top.pm] \ Top.done :
       LET f == Top  v == heap[f.pm][k]
       IN  IF ~IsMap(v) THEN Fail("shape", heap)
           ELSE /\ Call([f EXCEPT !.pc = "prop", !.cur = k], v)
                /\ UNCHANGED <<input, heap, refStack, calls, pending, results, status, err>>

\* The loop is over: out["properties"] = nm (part_004:265).
PropsEnd ==
  /\ stack # <<>> /\ Top.pc = "propsLoop"
  /\ Top.keys0 \subseteq Top.done
  /\ heap' = Append(heap, Top.nm)
  /\ stack' = SetTop([Top EXCEPT !.pc = "ap",
                      !.out = Put(Top.out, "properties", Obj(NextAddr(heap)))])
  /\ UNCHANGED <<input, refStack, calls, pending, results, status, err>>

\* additionalProperties (part_004:268-281): a bool stays, a map recurses.
AdditionalProps ==
  /\ stack # <<>> /\ Top.pc = "ap"
  /\ LET f == Top  K == "additionalProperties"
     IN  IF K \notin DOMAIN f.out \/ f.out[K].t = "bool"
           THEN /\ stack' = SetTop([f EXCEPT !.pc = "items"])
                /\ UNCHANGED <<input, heap, refStack, calls, pending, results, status, err>>
         ELSE IF ~IsMap(f.out[K]) THEN Fail("shape", heap)
         ELSE /\ Call([f EXCEPT !.pc = "apw"], f.out[K])
              /\ UNCHANGED <<input, heap, refStack, calls, pending, results, status, err>>

\* items (part_004:283-293)
Items ==
  /\ stack # <<>> /\ Top.pc = "items"
  /\ LET f == Top
     IN  IF "items" \notin DOMAIN f.out
           THEN /\ stack' = SetTop([f EXCEPT !.pc = "union"])
                /\ UNCHANGED <<input, heap, refStack, calls, pending, results, status, err>>
         ELSE IF ~IsMap(f.out["items"]) THEN Fail("shape", heap)
         ELSE /\ Call([f EXCEPT !.pc = "itemsw"], f.out["items"])
              /\ UNCHANGED <<input, heap, refStack, calls, pending, results, status, err>>

\* After oneOf comes anyOf; after anyOf the frame is done.
NextUnion(f) ==
  IF f.uk = "oneOf" THEN [f EXCEPT !.uk = "anyOf", !.vars = <<>>]
  ELSE [f EXCEPT !.pc = "end"]

\* oneOf / anyOf (part_004:295-333): normalize each variant in turn, then
\* sort them by canonical JSON.
Union ==
  /\ stack # <<>> /\ Top.pc = "union"
  /\ LET f == Top  u == f.out[f.uk]  i == Len(f.vars) + 1
     IN  IF f.uk \notin DOMAIN f.out
           THEN /\ stack' = SetTop(NextUnion(f))
                /\ UNCHANGED <<input, heap, refStack, calls, pending, results, status, err>>
         ELSE IF ~IsArr(u) THEN Fail("shape", heap)
         ELSE IF i <= Len(u.xs)
           THEN IF ~IsMap(u.xs[i]) THEN Fail("shape", heap)
                ELSE /\ Call([f EXCEPT !.pc = "unionw"], u.xs[i])
                     /\ UNCHANGED <<input, heap, refStack, calls, pending, results, status, err>>
         ELSE /\ stack' = SetTop(NextUnion([f EXCEPT
                  !.out = Put(f.out, f.uk, Arr(SortVariants(heap, f.vars)))]))
              /\ UNCHANGED <<input, heap, refStack, calls, pending, results, status, err>>

\* return out, nil (part_004:335)
Finish ==
  /\ stack # <<>> /\ Top.pc = "end"
  /\ heap' = Append(heap, Top.out)
  /\ stack' = SetTop([Top EXCEPT !.pc = "ret", !.val = Obj(NextAddr(heap))])
  /\ UNCHANGED <<input, refStack, calls, pending, results, status, err>>

\* The caller f takes the value v its child returned.
Deliver(f, v) ==
  CASE f.pc = "wait"   -> [f EXCEPT !.pc = "ret", !.val = v]
    [] f.pc = "prop"   -> [f EXCEPT !.pc = "propsLoop", !.nm = Put(f.nm, f.cur, v),
                                    !.done = f.done \cup {f.cur}]
    [] f.pc = "apw"    -> [f EXCEPT !.pc = "items",
                                    !.out = Put(f.out, "additionalProperties", v)]
    [] f.pc = "itemsw" -> [f EXCEPT !.pc = "union", !.out = Put(f.out, "items", v)]
    [] f.pc = "unionw" -> [f EXCEPT !.pc = "union", !.vars = Append(f.vars, v)]

\* Mutant: a return without the deferred cleanup of part_004:198.
ReturnNoCleanup ==
  /\ stack # <<>> /\ Top.pc = "ret"
  /\ UNCHANGED refStack
  /\ IF Len(stack) = 1
       THEN /\ results' = Append(results, Top.val)
            /\ stack' = <<>>
       ELSE /\ stack' = [Callers(stack) EXCEPT ![Len(stack) - 1] = Deliver(@, Top.val)]
            /\ UNCHANGED results
  /\ UNCHANGED <<input, heap, calls, pending, status, err>>

\* A frame returns its value; its deferred cleanup removes its ref
\* (part_004:198).
Return ==
  /\ stack # <<>> /\ Top.pc = "ret"
  /\ refStack' = refStack \ Top.held
  /\ IF Len(stack) = 1
       THEN /\ results' = Append(results, Top.val)
            /\ stack' = <<>>
       ELSE /\ stack' = [Callers(stack) EXCEPT ![Len(stack) - 1] = Deliver(@, Top.val)]
            /\ UNCHANGED results
  /\ UNCHANGED <<input, heap, calls, pending, status, err>>

-----------------------------------------------------------------------------
(***************************************************************************)
(* The public calls (part_004:42-82): each starts a fresh refStack and     *)
(* normalizes its schemas in order with it; the first error ends it.       *)
(***************************************************************************)
StartCall ==
  /\ status # "running" /\ calls # <<>>
  /\ refStack' = {}
  /\ pending' = Head(calls)
  /\ calls' = Tail(calls)
  /\ results' = <<>>
  /\ status' = "running"
  /\ err' = ""
  /\ UNCHANGED <<input, heap, stack>>

\* Mutant: a nil schema returned as nil instead of {}.
NextSchemaNilAsNil ==
  /\ status = "running" /\ stack = <<>> /\ pending # <<>>
  /\ pending' = Tail(pending)
  /\ IF Head(pending) = Null
       THEN /\ results' = Append(results, Null)
            /\ UNCHANGED <<heap, stack>>
       ELSE /\ stack' = <<NewFrame(Head(pending))>>
            /\ UNCHANGED <<heap, results>>
  /\ UNCHANGED <<input, refStack, calls, status, err>>

\* normalizeAt(schema, ""); a nil schema is {} (part_004:183-186).
NextSchema ==
  /\ status = "running" /\ stack = <<>> /\ pending # <<>>
  /\ pending' = Tail(pending)
  /\ IF Head(pending) = Null
       THEN /\ heap' = Append(heap, EmptyMap)
            /\ results' = Append(results, Obj(NextAddr(heap)))
            /\ UNCHANGED stack
       ELSE /\ stack' = <<NewFrame(Head(pending))>>
            /\ UNCHANGED <<heap, results>>
  /\ UNCHANGED <<input, refStack, calls, status, err>>

\* Mutant: the call ends once no frame is live, whether or not a schema
\* is still to come.
EndCallEarly ==
  /\ status = "running" /\ stack = <<>>
  /\ status' = "ok"
  /\ UNCHANGED <<input, heap, refStack, stack, calls, pending, results, err>>

\* The call returns once every schema is normalized (part_004:47, 64, 81).
EndCall ==
  /\ status = "running" /\ stack = <<>> /\ pending = <<>>
  /\ status' = "ok"
  /\ UNCHANGED <<input, heap, refStack, stack, calls, pending, results, err>>

\* Every call has returned.
Done ==
  /\ status # "running" /\ calls = <<>>
  /\ UNCHANGED vars

Init ==
  \E d \in Docs :
    /\ input = d
    /\ heap = d.heap
    /\ refStack = {}
    /\ stack = <<>>
    /\ calls = d.calls
    /\ pending = <<>>
    /\ results = <<>>
    /\ status = "idle"
    /\ err = ""

Next ==
  \/ EnterOutside \/ EnterRef \/ EnterAllOf \/ EnterPlain
  \/ PropsStart \/ PropStep \/ PropsEnd \/ AdditionalProps \/ Items
  \/ Union \/ Finish \/ Return
  \/ StartCall \/ NextSchema \/ EndCall \/ Done

Spec == Init /\ [][Next]_vars

-----------------------------------------------------------------------------
(***************************************************************************)
(* Invariants.                                                             *)
(***************************************************************************)
Statuses == {"idle", "running", "ok", "failed"}

FrameFields == {"sch", "pc", "held", "out", "pm", "keys0", "done", "nm", "cur",
                "uk", "vars", "val"}

FrameOK(f) ==
  /\ DOMAIN f = FrameFields
  /\ f.pc \in PCs
  /\ f.held \subseteq RefKeys
  /\ f.uk \in {"oneOf", "anyOf"}

TypeOK ==
  /\ refStack \subseteq RefKeys
  /\ status \in Statuses
  /\ err \in Errors \cup {""}
  /\ Len(stack) \in Nat
  /\ DOMAIN stack = 1..Len(stack)
  /\ \A i \in DOMAIN stack : FrameOK(stack[i])
  /\ \A i \in DOMAIN results : IsMap(results[i])

\* The cycle-detection set is exactly the refs whose deferred cleanup is
\* pending: every $ref being inlined (part_004:192-205) is in refStack, and
\* nothing else is: resolveRef's own error paths (part_004:374-392), the
\* immediate cleanup of an allOf branch ref (part_005:48) and the deferred
\* cleanups on return and on error all remove what was pushed.  A key left
\* behind would make a later, acyclic use of the same ref in the same call
\* fail with "cycle detected".
RefStackIsHeldRefs == refStack = HeldRefs(stack)

\* No two activations hold the same ref: a ref is inlined again inside its
\* own inlining only by failing with "cycle detected" (part_004:359-362).
HeldDistinct ==
  \A i, j \in DOMAIN stack :
    i # j => stack[i].held \cap stack[j].held = {}

\* normalizeAt never re-enters a schema it is already normalizing with the
\* same refs held: cycle detection is meant to stop every endless recursion,
\* and a repeated (schema, refStack) pair below the top repeats forever.
NoRecursionLoop ==
  \A i, j \in DOMAIN stack :
    i < j => ~ /\ stack[i].sch = stack[j].sch
               /\ HeldRefs(SubSeq(stack, 1, i)) = HeldRefs(SubSeq(stack, 1, j))

\* Normalization does not change its input: the maps of the caller's
\* documents (the root and the schemas) are as they were (spec section 3,
\* "the input is not mutated"; section 5, "immutable borrows").
InputsUnchanged ==
  \A a \in DOMAIN input.heap : heap[a] = input.heap[a]

(***************************************************************************)
(* The public-call contract.  The state of NormalizerCalls is a projection *)
(* of this module's: heap, refStack, the frames, the schemas still pending *)
(* and the error kind are hidden.                                          *)
(***************************************************************************)
Calls == INSTANCE NormalizerCalls
           WITH input <- input, calls <- calls, results <- results, status <- status

\* Every public call of a Normalizer either fails or returns exactly one
\* map for each schema it was given (a count: the normal form of the maps
\* is NormalizedOutputs' concern), the top-level
\* normalizeAt's return being the only step that yields one
\* (part_004:42-82, 183-186).
CallsRefinement == Calls!Spec

====
