-------------------------------- MODULE Compat --------------------------------
(***************************************************************************)
(* The compatibility decider of package schemaprofile (compat.go): the     *)
(* directional test compat(tgt, cand, isInput) on two normalized schemas, *)
(* built on the rules of CompatRules.  The decider is recursive: this      *)
(* module is only model-checked.                                           *)
(***************************************************************************)
EXTENDS CompatRules

RECURSIVE Compat(_, _, _, _), CompatObject(_, _, _, _), CompatUnion(_, _, _, _),
          CompatUnionSomePair(_, _, _, _)

\* compatObject (compat.go:270-367)
CompatObject(h, T, C, isInput) ==
  LET tReq == StringSet(Get(T, "required"))  cReq == StringSet(Get(C, "required"))
      tp == PropsOf(h, T)  cp == PropsOf(h, C)
      both(p) == p \in DOMAIN tp /\ p \in DOMAIN cp /\ IsMap(tp[p]) /\ IsMap(cp[p])
      tAP == Get(T, "additionalProperties")  cAP == Get(C, "additionalProperties")
  IN  IF isInput
        THEN /\ cReq \subseteq tReq
             /\ \A p \in DOMAIN tp : both(p) => Compat(h, h[tp[p].n], h[cp[p].n], TRUE)
        ELSE /\ tReq \subseteq cReq
             /\ \A p \in DOMAIN cp :
                  /\ p \notin DOMAIN tp => tAP # Bool(FALSE)
                  /\ both(p) => Compat(h, h[tp[p].n], h[cp[p].n], FALSE)
             /\ CASE tAP = Bool(FALSE) -> cAP = Bool(FALSE)
                  [] IsMap(tAP) -> IF IsMap(cAP) THEN Compat(h, h[tAP.n], h[cAP.n], FALSE)
                                   ELSE cAP = Bool(FALSE)
                  [] OTHER -> TRUE

\* Mutant: a union is compatible when some pair of variants is.
CompatUnionSomePair(h, T, C, isInput) ==
  LET tu == UnionVariants(h, T)  cu == UnionVariants(h, C)
  IN  tu.ok /\ cu.ok /\ \E v \in tu.vs, w \in cu.vs : Compat(h, v, w, isInput)

\* compatUnion (compat.go:384-432): a union against a non-union is false.
CompatUnion(h, T, C, isInput) ==
  LET tu == UnionVariants(h, T)  cu == UnionVariants(h, C)
  IN  /\ tu.ok /\ cu.ok
      /\ IF isInput THEN \A v \in tu.vs : \E w \in cu.vs : Compat(h, v, w, TRUE)
                    ELSE \A w \in cu.vs : \E v \in tu.vs : Compat(h, v, w, FALSE)

\* compat (compat.go:21-112): Top first, then the rules in the code's order;
\* a rule applies when either side's type set names its type.
Compat(h, T, C, isInput) ==
  IF DOMAIN T = {} THEN ~isInput \/ DOMAIN C = {}
  ELSE IF DOMAIN C = {} THEN isInput
  ELSE LET in(t) == HasType(T, t) \/ HasType(C, t)
       IN  /\ TypeKnown(T) \/ TypeKnown(C) =>
                IF isInput THEN SubsetTypes(T, C) ELSE SubsetTypes(C, T)
           /\ CompatConstEnum(T, C, isInput)
           /\ in("object") => CompatObject(h, T, C, isInput)
           /\ in("array") => Compat(h, SubOrTop(h, T, "items"), SubOrTop(h, C, "items"), isInput)
           /\ in("number") \/ in("integer") => CompatNumericBounds(T, C, isInput)
           /\ in("string") => CompatSimpleBounds(T, C, isInput, "minLength", "maxLength")
           /\ in("array") => CompatSimpleBounds(T, C, isInput, "minItems", "maxItems")
           /\ HasUnion(T) \/ HasUnion(C) => CompatUnion(h, T, C, isInput)

\* inputCompatible (compat.go:4-10): a Top candidate accepts everything.
InputCompatible(h, T, C) == IF DOMAIN C = {} THEN TRUE ELSE Compat(h, T, C, TRUE)

\* outputCompatible (compat.go:13-19): a Top candidate only for a Top target.
OutputCompatible(h, T, C) == IF DOMAIN C = {} THEN DOMAIN T = {} ELSE Compat(h, T, C, FALSE)

-----------------------------------------------------------------------------
(***************************************************************************)
(* A caller asks the decider about two normalized schemas of the heap H.  *)
(* Schemas is the set of their addresses.                                  *)
(***************************************************************************)
CONSTANTS H, Schemas

VARIABLES
  op,       \* the last call: "none", "input" or "output"
  tgt,      \* its target schema's address (0 before the first call)
  cand,     \* its candidate schema's address
  verdict   \* what it returned

cvars == <<op, tgt, cand, verdict>>

Init == op = "none" /\ tgt = 0 /\ cand = 0 /\ verdict = FALSE

\* InputCompatible's decision on its normalized schemas (compat.go:4-10)
CallInputCompatible ==
  /\ op = "none"
  /\ \E t, c \in Schemas :
       /\ op' = "input" /\ tgt' = t /\ cand' = c
       /\ verdict' = InputCompatible(H, H[t], H[c])

\* OutputCompatible's decision on its normalized schemas (compat.go:13-19)
CallOutputCompatible ==
  /\ op = "none"
  /\ \E t, c \in Schemas :
       /\ op' = "output" /\ tgt' = t /\ cand' = c
       /\ verdict' = OutputCompatible(H, H[t], H[c])

\* The call returns its verdict; the decider keeps nothing between calls
\* (spec.md line 169), so the caller is idle again.
Return ==
  /\ op # "none"
  /\ op' = "none" /\ tgt' = 0 /\ cand' = 0 /\ verdict' = FALSE

Next == CallInputCompatible \/ CallOutputCompatible \/ Return

Spec == Init /\ [][Next]_cvars

=============================================================================
