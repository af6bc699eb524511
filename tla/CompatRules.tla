----------------------------- MODULE CompatRules -----------------------------
(***************************************************************************)
(* The non-recursive rules of the compatibility decider of package        *)
(* schemaprofile (compat.go): type sets, const and enum, numeric, length  *)
(* and item-count bounds, and the accessors of the recursive rules.       *)
(*                                                                         *)
(* A schema is the contents of a map of the heap of module Profile (a      *)
(* function from its keys to its values); its sub-schemas are reached     *)
(* through h.  A Go map lookup of an absent key yields nil, which is Null  *)
(* here.  The decider never returns a non-nil error, so its result is a    *)
(* Boolean, and the loops over Go maps, which stop at the first false, are *)
(* quantifiers.  canonicalKey equality is equality of values, which it is  *)
(* for the atoms enum and const hold in the model.  Nothing here is       *)
(* recursive, so CompatProofs proves facts about these rules.             *)
(***************************************************************************)
EXTENDS Profile, FiniteSets

\* m[k] in Go: nil when the key is absent.
Get(m, k) == IF k \in DOMAIN m THEN m[k] ELSE Null

\* hasKey (compat.go:700-703)
HasKey(m, k) == k \in DOMAIN m

(***************************************************************************)
(* Type sets.                                                              *)
(***************************************************************************)
\* typeSet (compat.go:114-133) is not nil: type is present and an array.
TypeKnown(m) == "type" \in DOMAIN m /\ IsArr(m["type"])

\* The strings of that array.
TypeSet(m) == { x.s : x \in { y \in ElemsOf(m["type"].xs) : y.t = "str" } }

\* subsetTypes (compat.go:135-158) on the type sets of schemas a and b; an
\* unknown set is "all types".
SubsetTypes(a, b) ==
  IF ~TypeKnown(a) THEN ~TypeKnown(b)
  ELSE ~TypeKnown(b) \/
       \A k \in TypeSet(a) : k \in TypeSet(b) \/ (k = "integer" /\ "number" \in TypeSet(b))

\* hasType (compat.go:160-167)
HasType(m, t) == TypeKnown(m) /\ t \in TypeSet(m)

\* hasUnion (compat.go:169-173)
HasUnion(m) == "oneOf" \in DOMAIN m \/ "anyOf" \in DOMAIN m

(***************************************************************************)
(* const / enum.                                                           *)
(***************************************************************************)
\* enumSet (compat.go:254-268): the canonical keys of the enum array; a
\* non-array enum is present with an empty (nil) set.
EnumSet(m) == IF IsArr(m["enum"]) THEN ElemsOf(m["enum"].xs) ELSE {}

\* compatConstEnum (compat.go:175-252): the code's if-chains, in order.
CompatConstEnum(T, C, isInput) ==
  LET tc == HasKey(T, "const")  cc == HasKey(C, "const")
      te == HasKey(T, "enum")   ce == HasKey(C, "enum")
  IN  IF isInput
        THEN IF tc THEN IF cc THEN T["const"] = C["const"]
                        ELSE ~ce \/ T["const"] \in EnumSet(C)
             ELSE IF te THEN IF cc THEN Cardinality(EnumSet(T)) = 1 /\ C["const"] \in EnumSet(T)
                             ELSE ~ce \/ EnumSet(T) \subseteq EnumSet(C)
             ELSE TRUE
        ELSE IF te THEN IF cc THEN C["const"] \in EnumSet(T)
                        ELSE ce /\ EnumSet(C) \subseteq EnumSet(T)
             ELSE IF tc THEN IF cc THEN T["const"] = C["const"]
                             ELSE ce /\ Cardinality(EnumSet(C)) = 1 /\ T["const"] \in EnumSet(C)
             ELSE TRUE

(***************************************************************************)
(* Bounds.  A bound is [v |-> value, x |-> exclusive].                     *)
(***************************************************************************)
\* effectiveLowerBound (compat.go:540-558)
EffectiveLowerBound(m) ==
  LET hasMin == HasKey(m, "minimum")  hasEMin == HasKey(m, "exclusiveMinimum")
      mv == ToFloat(Get(m, "minimum"))  ev == ToFloat(Get(m, "exclusiveMinimum"))
  IN  IF hasMin /\ hasEMin THEN IF ev >= mv THEN [v |-> ev, x |-> TRUE]
                                             ELSE [v |-> mv, x |-> FALSE]
      ELSE IF hasEMin THEN [v |-> ev, x |-> TRUE]
      ELSE IF hasMin THEN [v |-> mv, x |-> FALSE]
      ELSE [v |-> 0, x |-> FALSE]

\* effectiveUpperBound (compat.go:561-579)
EffectiveUpperBound(m) ==
  LET hasMax == HasKey(m, "maximum")  hasEMax == HasKey(m, "exclusiveMaximum")
      mv == ToFloat(Get(m, "maximum"))  ev == ToFloat(Get(m, "exclusiveMaximum"))
  IN  IF hasMax /\ hasEMax THEN IF ev <= mv THEN [v |-> ev, x |-> TRUE]
                                             ELSE [v |-> mv, x |-> FALSE]
      ELSE IF hasEMax THEN [v |-> ev, x |-> TRUE]
      ELSE IF hasMax THEN [v |-> mv, x |-> FALSE]
      ELSE [v |-> 0, x |-> FALSE]

\* The four comparisons (compat.go:587-649): at equal values an exclusive
\* lower bound is the higher one, an exclusive upper bound the lower one.
\* Mutants: ties of equal values decided the wrong way round, and the
\* exclusivity of the bounds ignored.
LowerBoundGreaterOrEqualTieInverted(a, b) == a.v > b.v \/ (a.v = b.v /\ a.x /\ ~b.x)
UpperBoundLessOrEqualValueOnly(a, b) == a.v <= b.v

LowerBoundLessOrEqual(a, b)    == a.v < b.v \/ (a.v = b.v /\ ~(a.x /\ ~b.x))
LowerBoundGreaterOrEqual(a, b) == a.v > b.v \/ (a.v = b.v /\ ~(b.x /\ ~a.x))
UpperBoundLessOrEqual(a, b)    == a.v < b.v \/ (a.v = b.v /\ ~(b.x /\ ~a.x))
UpperBoundGreaterOrEqual(a, b) == a.v > b.v \/ (a.v = b.v /\ ~(a.x /\ ~b.x))

HasLo(m) == HasKey(m, "minimum") \/ HasKey(m, "exclusiveMinimum")
HasHi(m) == HasKey(m, "maximum") \/ HasKey(m, "exclusiveMaximum")

\* compatNumericBounds (compat.go:489-537): input checks a bound only when
\* both sides have one; output demands the candidate's bound.
CompatNumericBounds(T, C, isInput) ==
  LET tLo == EffectiveLowerBound(T)  cLo == EffectiveLowerBound(C)
      tHi == EffectiveUpperBound(T)  cHi == EffectiveUpperBound(C)
  IN  IF isInput
        THEN /\ HasLo(T) /\ HasLo(C) => LowerBoundLessOrEqual(cLo, tLo)
             /\ HasHi(T) /\ HasHi(C) => UpperBoundGreaterOrEqual(cHi, tHi)
        ELSE /\ HasLo(T) => HasLo(C) /\ LowerBoundGreaterOrEqual(cLo, tLo)
             /\ HasHi(T) => HasHi(C) /\ UpperBoundLessOrEqual(cHi, tHi)

\* compatSimpleBounds (compat.go:653-698), for minLength / maxLength
\* (compatStringBounds) and minItems / maxItems (compatArrayBounds).
CompatSimpleBounds(T, C, isInput, lo, hi) ==
  IF isInput
    THEN /\ HasKey(T, lo) /\ HasKey(C, lo) => ToFloat(C[lo]) <= ToFloat(T[lo])
         /\ HasKey(T, hi) /\ HasKey(C, hi) => ToFloat(C[hi]) >= ToFloat(T[hi])
    ELSE /\ HasKey(T, lo) => HasKey(C, lo) /\ ToFloat(C[lo]) >= ToFloat(T[lo])
         /\ HasKey(T, hi) => HasKey(C, hi) /\ ToFloat(C[hi]) <= ToFloat(T[hi])

(***************************************************************************)
(* Objects, arrays and unions: the recursive rules.                        *)
(***************************************************************************)
\* stringSet (compat.go:458-472)
StringSet(v) == IF IsArr(v) THEN { x.s : x \in { y \in ElemsOf(v.xs) : y.t = "str" } } ELSE {}

\* asMap(m["properties"]), nil (an empty map) when it is not a map
PropsOf(h, m) == IF IsMap(Get(m, "properties")) THEN h[m["properties"].n] ELSE EmptyMap

\* asMap(m[k]) or {}: the items of compatArray (compat.go:369-382)
SubOrTop(h, m, k) == IF IsMap(Get(m, k)) THEN h[m[k].n] ELSE EmptyMap

\* unionVariants (compat.go:434-456): the variants of oneOf, else anyOf;
\* not ok when the array or one of its elements is malformed.
UnionVariants(h, m) ==
  LET k == IF "oneOf" \in DOMAIN m THEN "oneOf" ELSE "anyOf"
      v == Get(m, k)
  IN  IF HasUnion(m) /\ IsArr(v) /\ \A i \in DOMAIN v.xs : IsMap(v.xs[i])
        THEN [ok |-> TRUE, vs |-> { h[v.xs[i].n] : i \in DOMAIN v.xs }]
        ELSE [ok |-> FALSE, vs |-> {}]

=============================================================================
