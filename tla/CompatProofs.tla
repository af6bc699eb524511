----------------------------- MODULE CompatProofs -----------------------------
(***************************************************************************)
(* Proofs about the non-recursive rules of the compatibility decider       *)
(* (CompatRules), for every schema and every bound value.  A number is an  *)
(* integer here: the rules only compare numbers, so an integer stands for  *)
(* a point of any fixed grid of numbers (MCCompat uses half units).        *)
(***************************************************************************)
EXTENDS CompatRules, Integers, FiniteSets, FiniteSetTheorems, TLAPS

\* The four numeric bound keywords of the profile.
BoundKeys == {"minimum", "exclusiveMinimum", "maximum", "exclusiveMaximum"}

\* The numeric view of every bound keyword of m is a number.
IntBounds(m) == \A k \in BoundKeys : ToFloat(Get(m, k)) \in Int

\* Number x satisfies the lower, the upper bound keywords of schema m, as
\* JSON Schema defines them.
AboveLo(m, x) ==
  /\ HasKey(m, "minimum") => ToFloat(m["minimum"]) <= x
  /\ HasKey(m, "exclusiveMinimum") => ToFloat(m["exclusiveMinimum"]) < x
BelowHi(m, x) ==
  /\ HasKey(m, "maximum") => x <= ToFloat(m["maximum"])
  /\ HasKey(m, "exclusiveMaximum") => x < ToFloat(m["exclusiveMaximum"])

\* The numbers an effective bound [v, x] admits.
LoAdmits(b, x) == IF b.x THEN b.v < x ELSE b.v <= x
HiAdmits(b, x) == IF b.x THEN x < b.v ELSE x <= b.v

\* A bound as effectiveLowerBound and effectiveUpperBound return it.
IsBound(b) == b.v \in Int /\ b.x \in BOOLEAN

-----------------------------------------------------------------------------
(***************************************************************************)
(* effectiveLowerBound and effectiveUpperBound lose nothing: the one bound *)
(* they keep admits exactly the numbers both keywords admit.               *)
(***************************************************************************)
LEMMA EffectiveLowerBoundType ==
  ASSUME NEW m, IntBounds(m)
  PROVE  IsBound(EffectiveLowerBound(m))
BY DEF IntBounds, BoundKeys, IsBound, EffectiveLowerBound, HasKey, Get

LEMMA EffectiveUpperBoundType ==
  ASSUME NEW m, IntBounds(m)
  PROVE  IsBound(EffectiveUpperBound(m))
BY DEF IntBounds, BoundKeys, IsBound, EffectiveUpperBound, HasKey, Get

LEMMA EffectiveLowerBoundExact ==
  ASSUME NEW m, IntBounds(m), HasLo(m), NEW x \in Int
  PROVE  AboveLo(m, x) <=> LoAdmits(EffectiveLowerBound(m), x)
<1> DEFINE mv == ToFloat(Get(m, "minimum"))  ev == ToFloat(Get(m, "exclusiveMinimum"))
<1>1. mv \in Int /\ ev \in Int
  BY DEF IntBounds, BoundKeys
<1>2. /\ HasKey(m, "minimum") => ToFloat(m["minimum"]) = mv
      /\ HasKey(m, "exclusiveMinimum") => ToFloat(m["exclusiveMinimum"]) = ev
  BY DEF HasKey, Get
<1>3. CASE HasKey(m, "minimum") /\ HasKey(m, "exclusiveMinimum")
  <2>1. EffectiveLowerBound(m) = IF ev >= mv THEN [v |-> ev, x |-> TRUE] ELSE [v |-> mv, x |-> FALSE]
    BY <1>3 DEF EffectiveLowerBound
  <2> QED
    BY <1>1, <1>2, <1>3, <2>1 DEF AboveLo, LoAdmits
<1>4. CASE ~HasKey(m, "minimum") /\ HasKey(m, "exclusiveMinimum")
  <2>1. EffectiveLowerBound(m) = [v |-> ev, x |-> TRUE]
    BY <1>4 DEF EffectiveLowerBound
  <2> QED
    BY <1>1, <1>2, <1>4, <2>1 DEF AboveLo, LoAdmits
<1>5. CASE HasKey(m, "minimum") /\ ~HasKey(m, "exclusiveMinimum")
  <2>1. EffectiveLowerBound(m) = [v |-> mv, x |-> FALSE]
    BY <1>5 DEF EffectiveLowerBound
  <2> QED
    BY <1>1, <1>2, <1>5, <2>1 DEF AboveLo, LoAdmits
<1> QED
  BY <1>3, <1>4, <1>5 DEF HasLo

LEMMA EffectiveUpperBoundExact ==
  ASSUME NEW m, IntBounds(m), HasHi(m), NEW x \in Int
  PROVE  BelowHi(m, x) <=> HiAdmits(EffectiveUpperBound(m), x)
<1> DEFINE mv == ToFloat(Get(m, "maximum"))  ev == ToFloat(Get(m, "exclusiveMaximum"))
<1>1. mv \in Int /\ ev \in Int
  BY DEF IntBounds, BoundKeys
<1>2. /\ HasKey(m, "maximum") => ToFloat(m["maximum"]) = mv
      /\ HasKey(m, "exclusiveMaximum") => ToFloat(m["exclusiveMaximum"]) = ev
  BY DEF HasKey, Get
<1>3. CASE HasKey(m, "maximum") /\ HasKey(m, "exclusiveMaximum")
  <2>1. EffectiveUpperBound(m) = IF ev <= mv THEN [v |-> ev, x |-> TRUE] ELSE [v |-> mv, x |-> FALSE]
    BY <1>3 DEF EffectiveUpperBound
  <2> QED
    BY <1>1, <1>2, <1>3, <2>1 DEF BelowHi, HiAdmits
<1>4. CASE ~HasKey(m, "maximum") /\ HasKey(m, "exclusiveMaximum")
  <2>1. EffectiveUpperBound(m) = [v |-> ev, x |-> TRUE]
    BY <1>4 DEF EffectiveUpperBound
  <2> QED
    BY <1>1, <1>2, <1>4, <2>1 DEF BelowHi, HiAdmits
<1>5. CASE HasKey(m, "maximum") /\ ~HasKey(m, "exclusiveMaximum")
  <2>1. EffectiveUpperBound(m) = [v |-> mv, x |-> FALSE]
    BY <1>5 DEF EffectiveUpperBound
  <2> QED
    BY <1>1, <1>2, <1>5, <2>1 DEF BelowHi, HiAdmits
<1> QED
  BY <1>3, <1>4, <1>5 DEF HasHi

\* Without a lower (upper) bound keyword every number is above (below).
LEMMA NoBoundAdmitsAll ==
  ASSUME NEW m, NEW x
  PROVE  /\ ~HasLo(m) => AboveLo(m, x)
         /\ ~HasHi(m) => BelowHi(m, x)
BY DEF HasLo, HasHi, AboveLo, BelowHi

(***************************************************************************)
(* The four comparisons order bounds by the numbers they admit.            *)
(***************************************************************************)
LEMMA LowerBoundGreaterOrEqualAdmits ==
  ASSUME NEW a, NEW b, IsBound(a), IsBound(b), LowerBoundGreaterOrEqual(a, b),
         NEW x \in Int, LoAdmits(a, x)
  PROVE  LoAdmits(b, x)
BY DEF IsBound, LowerBoundGreaterOrEqual, LoAdmits

LEMMA UpperBoundLessOrEqualAdmits ==
  ASSUME NEW a, NEW b, IsBound(a), IsBound(b), UpperBoundLessOrEqual(a, b),
         NEW x \in Int, HiAdmits(a, x)
  PROVE  HiAdmits(b, x)
BY DEF IsBound, UpperBoundLessOrEqual, HiAdmits

LEMMA LowerBoundGreaterOrEqualPreorder ==
  ASSUME NEW a, NEW b, NEW c, IsBound(a), IsBound(b), IsBound(c)
  PROVE  /\ LowerBoundGreaterOrEqual(a, a)
         /\ LowerBoundGreaterOrEqual(a, b) /\ LowerBoundGreaterOrEqual(b, c)
              => LowerBoundGreaterOrEqual(a, c)
BY DEF IsBound, LowerBoundGreaterOrEqual

LEMMA UpperBoundLessOrEqualPreorder ==
  ASSUME NEW a, NEW b, NEW c, IsBound(a), IsBound(b), IsBound(c)
  PROVE  /\ UpperBoundLessOrEqual(a, a)
         /\ UpperBoundLessOrEqual(a, b) /\ UpperBoundLessOrEqual(b, c)
              => UpperBoundLessOrEqual(a, c)
BY DEF IsBound, UpperBoundLessOrEqual

-----------------------------------------------------------------------------
(***************************************************************************)
(* Output soundness of the numeric bounds rule (compatNumericBounds,       *)
(* compat.go:489-537): whenever it lets candidate C stand in for target T *)
(* as an output, every number within C's minimum, exclusiveMinimum,       *)
(* maximum and exclusiveMaximum is within T's, for all bound values, with *)
(* either keyword of a pair or both.  The model runs check this on a few  *)
(* values only.                                                             *)
(***************************************************************************)
THEOREM NumericBoundsOutputSound ==
  ASSUME NEW T, NEW C, IntBounds(T), IntBounds(C), CompatNumericBounds(T, C, FALSE),
         NEW x \in Int, AboveLo(C, x), BelowHi(C, x)
  PROVE  AboveLo(T, x) /\ BelowHi(T, x)
<1>1. IsBound(EffectiveLowerBound(T)) /\ IsBound(EffectiveLowerBound(C))
      /\ IsBound(EffectiveUpperBound(T)) /\ IsBound(EffectiveUpperBound(C))
  BY EffectiveLowerBoundType, EffectiveUpperBoundType
<1>2. AboveLo(T, x)
  <2>1. CASE HasLo(T)
    <3>1. HasLo(C) /\ LowerBoundGreaterOrEqual(EffectiveLowerBound(C), EffectiveLowerBound(T))
      BY <2>1 DEF CompatNumericBounds
    <3>2. LoAdmits(EffectiveLowerBound(C), x)
      BY <3>1, EffectiveLowerBoundExact
    <3>3. LoAdmits(EffectiveLowerBound(T), x)
      BY <1>1, <3>1, <3>2, LowerBoundGreaterOrEqualAdmits
    <3> QED
      BY <2>1, <3>3, EffectiveLowerBoundExact
  <2>2. CASE ~HasLo(T)
    BY <2>2, NoBoundAdmitsAll
  <2> QED
    BY <2>1, <2>2
<1>3. BelowHi(T, x)
  <2>1. CASE HasHi(T)
    <3>1. HasHi(C) /\ UpperBoundLessOrEqual(EffectiveUpperBound(C), EffectiveUpperBound(T))
      BY <2>1 DEF CompatNumericBounds
    <3>2. HiAdmits(EffectiveUpperBound(C), x)
      BY <3>1, EffectiveUpperBoundExact
    <3>3. HiAdmits(EffectiveUpperBound(T), x)
      BY <1>1, <3>1, <3>2, UpperBoundLessOrEqualAdmits
    <3> QED
      BY <2>1, <3>3, EffectiveUpperBoundExact
  <2>2. CASE ~HasHi(T)
    BY <2>2, NoBoundAdmitsAll
  <2> QED
    BY <2>1, <2>2
<1> QED
  BY <1>2, <1>3

(***************************************************************************)
(* The numeric bounds rule is a pre-order in the output direction: a      *)
(* schema's bounds are compatible with themselves, and the rule chains    *)
(* (compatNumericBounds with the effective bounds, compat.go:489-579).    *)
(* Its input direction is reflexive too.                                   *)
(***************************************************************************)
THEOREM NumericBoundsPreorder ==
  ASSUME NEW T, NEW B, NEW C, IntBounds(T), IntBounds(B), IntBounds(C)
  PROVE  /\ CompatNumericBounds(T, T, FALSE)
         /\ CompatNumericBounds(T, T, TRUE)
         /\ CompatNumericBounds(T, B, FALSE) /\ CompatNumericBounds(B, C, FALSE)
              => CompatNumericBounds(T, C, FALSE)
<1>1. IsBound(EffectiveLowerBound(T)) /\ IsBound(EffectiveLowerBound(B))
      /\ IsBound(EffectiveLowerBound(C)) /\ IsBound(EffectiveUpperBound(T))
      /\ IsBound(EffectiveUpperBound(B)) /\ IsBound(EffectiveUpperBound(C))
  BY EffectiveLowerBoundType, EffectiveUpperBoundType
<1>2. CompatNumericBounds(T, T, FALSE)
  BY <1>1, LowerBoundGreaterOrEqualPreorder, UpperBoundLessOrEqualPreorder
  DEF CompatNumericBounds
<1>3. CompatNumericBounds(T, T, TRUE)
  BY <1>1 DEF CompatNumericBounds, IsBound, LowerBoundLessOrEqual, UpperBoundGreaterOrEqual
<1>4. CompatNumericBounds(T, B, FALSE) /\ CompatNumericBounds(B, C, FALSE)
        => CompatNumericBounds(T, C, FALSE)
  BY <1>1, LowerBoundGreaterOrEqualPreorder, UpperBoundLessOrEqualPreorder
  DEF CompatNumericBounds
<1> QED
  BY <1>2, <1>3, <1>4

(***************************************************************************)
(* Output soundness of the length and item-count rule (compatSimpleBounds,*)
(* compat.go:653-688): a count within the candidate's minimum and maximum *)
(* keyword is within the target's.                                         *)
(***************************************************************************)
THEOREM SimpleBoundsOutputSound ==
  ASSUME NEW T, NEW C, NEW lo, NEW hi, NEW n \in Int,
         \A k \in {lo, hi} : ToFloat(Get(T, k)) \in Int /\ ToFloat(Get(C, k)) \in Int,
         CompatSimpleBounds(T, C, FALSE, lo, hi),
         HasKey(C, lo) => ToFloat(C[lo]) <= n,
         HasKey(C, hi) => n <= ToFloat(C[hi])
  PROVE  /\ HasKey(T, lo) => ToFloat(T[lo]) <= n
         /\ HasKey(T, hi) => n <= ToFloat(T[hi])
BY DEF CompatSimpleBounds, HasKey, Get

-----------------------------------------------------------------------------
\* Value x satisfies the const and enum keywords of schema m.
ConstEnumAdmits(m, x) ==
  /\ HasKey(m, "const") => x = m["const"]
  /\ HasKey(m, "enum") => x \in EnumSet(m)

\* A finite set of cardinality one is the singleton of any of its members.
LEMMA SingletonMember ==
  ASSUME NEW S, IsFiniteSet(S), Cardinality(S) = 1, NEW y \in S, NEW x \in S
  PROVE  x = y
BY FS_Singleton

(***************************************************************************)
(* Soundness of the const/enum rule (compatConstEnum, compat.go:175-252)   *)
(* on output: when the target does not carry both const and enum, every  *)
(* value the candidate's const and enum admit is admitted by the target's.*)
(* The condition is needed: for a target with both, the code checks only  *)
(* its enum (run output_const_and_enum).  Enum arrays are finite.          *)
(***************************************************************************)
THEOREM ConstEnumOutputSound ==
  ASSUME NEW T, NEW C, ~(HasKey(T, "const") /\ HasKey(T, "enum")),
         HasKey(C, "enum") => IsFiniteSet(EnumSet(C)),
         CompatConstEnum(T, C, FALSE), NEW x, ConstEnumAdmits(C, x)
  PROVE  ConstEnumAdmits(T, x)
<1>1. CASE HasKey(T, "enum")
  BY <1>1 DEF CompatConstEnum, ConstEnumAdmits
<1>2. CASE ~HasKey(T, "enum") /\ HasKey(T, "const")
  <2>1. CASE HasKey(C, "const")
    BY <1>2, <2>1 DEF CompatConstEnum, ConstEnumAdmits
  <2>2. CASE ~HasKey(C, "const")
    <3>1. HasKey(C, "enum") /\ Cardinality(EnumSet(C)) = 1 /\ T["const"] \in EnumSet(C)
      BY <1>2, <2>2 DEF CompatConstEnum
    <3>2. x \in EnumSet(C)
      BY <3>1 DEF ConstEnumAdmits
    <3>3. x = T["const"]
      BY <3>1, <3>2, SingletonMember
    <3> QED
      BY <1>2, <3>3 DEF ConstEnumAdmits
  <2> QED
    BY <2>1, <2>2
<1>3. CASE ~HasKey(T, "enum") /\ ~HasKey(T, "const")
  BY <1>3 DEF ConstEnumAdmits
<1> QED
  BY <1>1, <1>2, <1>3

(***************************************************************************)
(* Soundness of the const/enum rule on input (compatConstEnum,            *)
(* compat.go:180-211): every value the target's const and enum admit is   *)
(* admitted by the candidate's, unless the candidate constrains a value    *)
(* the target leaves free: the code accepts that, as it does a             *)
(* candidate-only bound (run input_soundness).  A candidate with both      *)
(* const and enum is compared by its const alone, so it is covered only    *)
(* when its const is one of its enum values; the candidates left out are   *)
(* those whose const and enum disagree, which accept no value at all.      *)
(***************************************************************************)
THEOREM ConstEnumInputSound ==
  ASSUME NEW T, NEW C,
         HasKey(C, "const") /\ HasKey(C, "enum") => C["const"] \in EnumSet(C),
         \/ HasKey(T, "const") \/ HasKey(T, "enum")
         \/ ~HasKey(C, "const") /\ ~HasKey(C, "enum"),
         HasKey(T, "enum") => IsFiniteSet(EnumSet(T)),
         CompatConstEnum(T, C, TRUE), NEW x, ConstEnumAdmits(T, x)
  PROVE  ConstEnumAdmits(C, x)
<1>1. CASE HasKey(T, "const")
  BY <1>1 DEF CompatConstEnum, ConstEnumAdmits
<1>2. CASE ~HasKey(T, "const") /\ HasKey(T, "enum")
  <2>1. CASE HasKey(C, "const")
    <3>1. Cardinality(EnumSet(T)) = 1 /\ C["const"] \in EnumSet(T)
      BY <1>2, <2>1 DEF CompatConstEnum
    <3>2. x \in EnumSet(T)
      BY <1>2 DEF ConstEnumAdmits
    <3>3. x = C["const"]
      BY <1>2, <3>1, <3>2, SingletonMember
    <3> QED
      BY <2>1, <3>3 DEF ConstEnumAdmits
  <2>2. CASE ~HasKey(C, "const")
    BY <1>2, <2>2 DEF CompatConstEnum, ConstEnumAdmits
  <2> QED
    BY <2>1, <2>2
<1>3. CASE ~HasKey(T, "const") /\ ~HasKey(T, "enum")
  BY <1>3 DEF ConstEnumAdmits
<1> QED
  BY <1>1, <1>2, <1>3

=============================================================================
