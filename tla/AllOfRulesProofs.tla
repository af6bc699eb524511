--------------------------- MODULE AllOfRulesProofs ---------------------------
(***************************************************************************)
(* Proofs about the keyword rules of mergeAllOfBranch (module AllOfRules,  *)
(* part_005:75-327) against spec.md section 4.4.1, for every heap, every   *)
(* accumulator and every branch.  The recursive rules (properties,         *)
(* additionalProperties, items) are in module AllOfMerge and are only     *)
(* model-checked.                                                          *)
(***************************************************************************)
EXTENDS AllOfRules, Integers, TLAPS

\* The values a set T of type names admits: an integral number when T
\* names "integer" or "number", a number with a fraction only when it names
\* "number", and a value of any other type when T names that type.
AdmitsIntegral(T) == T \cap Numeric # {}
AdmitsFraction(T) == "number" \in T
AdmitsOther(T, n) == n \notin Numeric /\ n \in T

\* The contents of a map: a function from its keys.
IsMapContents(m) == m = [k \in DOMAIN m |-> m[k]]

\* The eight bound keywords.
Bounds == LowerBounds \cup UpperBounds

-----------------------------------------------------------------------------
\* intersectTypeSlices (part_005:276-327) is exact: the intersection admits
\* a value exactly when both type sets admit it, for the numeric kinds as
\* for the other types, and it never names both "number" and "integer".
\* This is spec.md 4.4.1's type rule, and why an empty intersection, the
\* SchemaError of part_005:89-91, means that no value satisfies both.
THEOREM IntersectTypesExact ==
  ASSUME NEW a, NEW b
  PROVE  LET I == IntersectTypes(a, b) IN
         /\ AdmitsIntegral(I) <=> AdmitsIntegral(a) /\ AdmitsIntegral(b)
         /\ AdmitsFraction(I) <=> AdmitsFraction(a) /\ AdmitsFraction(b)
         /\ \A n : AdmitsOther(I, n) <=> AdmitsOther(a, n) /\ AdmitsOther(b, n)
         /\ ~(Numeric \subseteq I)
         /\ I = {} <=> /\ ~(AdmitsIntegral(a) /\ AdmitsIntegral(b))
                       /\ \A n : ~(AdmitsOther(a, n) /\ AdmitsOther(b, n))
BY DEF IntersectTypes, AdmitsIntegral, AdmitsFraction, AdmitsOther, Numeric

-----------------------------------------------------------------------------
(***************************************************************************)
(* Bounds (part_005:228-256).                                              *)
(***************************************************************************)
\* The numeric view of every bound keyword of map m is a number.
IntView(m) == \A k \in Bounds \cap DOMAIN m : ToFloat(m[k]) \in Int

\* A merge of bounds writes only the accumulator, adds only bound keywords
\* of the branch, keeps every other keyword of the accumulator, and every
\* bound it keeps is one of the two maps' own values for that keyword.
LEMMA MergeBoundsFrame ==
  ASSUME NEW st, NEW a \in DOMAIN st.h, NEW b \in DOMAIN st.h
  PROVE  LET r == MergeBounds(st, a, b)  A == st.h[a]  B == st.h[b]
             M == r.h[a]
         IN  /\ r.ok
             /\ DOMAIN r.h = DOMAIN st.h
             /\ \A c \in DOMAIN st.h \ {a} : r.h[c] = st.h[c]
             /\ DOMAIN M = DOMAIN A \cup (DOMAIN B \cap Bounds)
             /\ \A k \in DOMAIN A \ Bounds : M[k] = A[k]
             /\ \A k \in DOMAIN M \cap Bounds :
                  \/ k \in DOMAIN A /\ M[k] = A[k]
                  \/ k \in DOMAIN B /\ M[k] = B[k]
BY DEF MergeBounds, Ok, Bounds

\* The merged lower bound is the higher of the two, the merged upper bound
\* the lower of the two, in the numeric view (spec.md 4.4.1: "keep the
\* maximum ... keep the minimum"): a number passes the merged bound exactly
\* when it passes the bound of each map that has one.  The numeric view of
\* a value that is not a number is 0 (toFloat64, part_003:358), so a
\* malformed bound takes part in the comparison as 0 and may be the value
\* kept.
THEOREM MergeBoundsMostRestrictive ==
  ASSUME NEW st, NEW a \in DOMAIN st.h, NEW b \in DOMAIN st.h,
         IntView(st.h[a]), IntView(st.h[b])
  PROVE  LET r == MergeBounds(st, a, b)  A == st.h[a]  B == st.h[b]
             M == r.h[a]
         IN  /\ \A k \in LowerBounds \cap DOMAIN M, x \in Int :
                  ToFloat(M[k]) <= x <=>
                    /\ k \in DOMAIN A => ToFloat(A[k]) <= x
                    /\ k \in DOMAIN B => ToFloat(B[k]) <= x
             /\ \A k \in UpperBounds \cap DOMAIN M, x \in Int :
                  x <= ToFloat(M[k]) <=>
                    /\ k \in DOMAIN A => x <= ToFloat(A[k])
                    /\ k \in DOMAIN B => x <= ToFloat(B[k])
<1> DEFINE A == st.h[a]  B == st.h[b]  M == MergeBounds(st, a, b).h[a]
<1>1. DOMAIN M = DOMAIN A \cup (DOMAIN B \cap Bounds)
  BY MergeBoundsFrame
<1> DEFINE Wins(k) ==
             /\ k \in DOMAIN B \cap (LowerBounds \cup UpperBounds)
             /\ \/ k \notin DOMAIN A
                \/ k \in LowerBounds /\ ToFloat(B[k]) > ToFloat(A[k])
                \/ k \in UpperBounds /\ ToFloat(B[k]) < ToFloat(A[k])
           W == { k \in DOMAIN B : Wins(k) }
<1>2. M = [k \in DOMAIN A \cup W |-> IF k \in W THEN B[k] ELSE A[k]]
  BY DEF MergeBounds, Ok
<1>3. LowerBounds \cap UpperBounds = {}
  BY DEF LowerBounds, UpperBounds
<1>4. ASSUME NEW k \in LowerBounds \cap DOMAIN M, NEW x \in Int
      PROVE  ToFloat(M[k]) <= x <=>
               /\ k \in DOMAIN A => ToFloat(A[k]) <= x
               /\ k \in DOMAIN B => ToFloat(B[k]) <= x
  <2>1. /\ k \in DOMAIN A => ToFloat(A[k]) \in Int
        /\ k \in DOMAIN B => ToFloat(B[k]) \in Int
    BY DEF IntView, Bounds
  <2>2. k \notin UpperBounds
    BY <1>3
  <2>3. CASE k \in W
    <3>1. M[k] = B[k] /\ k \in DOMAIN B
      BY <1>2, <2>3
    <3>2. k \in DOMAIN A => ToFloat(B[k]) > ToFloat(A[k])
      BY <2>2, <2>3
    <3> QED
      BY <2>1, <3>1, <3>2
  <2>4. CASE k \notin W
    <3>1. M[k] = A[k] /\ k \in DOMAIN A
      BY <1>1, <1>2, <2>4 DEF Bounds
    <3>2. k \in DOMAIN B => ~(ToFloat(B[k]) > ToFloat(A[k]))
      BY <3>1, <2>4
    <3> QED
      BY <2>1, <3>1, <3>2
  <2> QED
    BY <2>3, <2>4
<1>5. ASSUME NEW k \in UpperBounds \cap DOMAIN M, NEW x \in Int
      PROVE  x <= ToFloat(M[k]) <=>
               /\ k \in DOMAIN A => x <= ToFloat(A[k])
               /\ k \in DOMAIN B => x <= ToFloat(B[k])
  <2>1. /\ k \in DOMAIN A => ToFloat(A[k]) \in Int
        /\ k \in DOMAIN B => ToFloat(B[k]) \in Int
    BY DEF IntView, Bounds
  <2>2. k \notin LowerBounds
    BY <1>3
  <2>3. CASE k \in W
    <3>1. M[k] = B[k] /\ k \in DOMAIN B
      BY <1>2, <2>3
    <3>2. k \in DOMAIN A => ToFloat(B[k]) < ToFloat(A[k])
      BY <2>2, <2>3
    <3> QED
      BY <2>1, <3>1, <3>2
  <2>4. CASE k \notin W
    <3>1. M[k] = A[k] /\ k \in DOMAIN A
      BY <1>1, <1>2, <2>4 DEF Bounds
    <3>2. k \in DOMAIN B => ~(ToFloat(B[k]) < ToFloat(A[k]))
      BY <3>1, <2>4
    <3> QED
      BY <2>1, <3>1, <3>2
  <2> QED
    BY <2>3, <2>4
<1> QED
  BY <1>4, <1>5

-----------------------------------------------------------------------------
\* const (part_005:197-205): merging a branch into a well-merged
\* accumulator fails, with a SchemaError and the heap as it was, exactly
\* when both have a const and the two differ; otherwise the accumulator's
\* const afterwards is the const of each side that has one, and no other
\* map and no other keyword changes (spec.md 4.4.1: "values must be
\* canonically equal").
THEOREM MergeConstAgrees ==
  ASSUME NEW h, NEW a \in DOMAIN h, NEW b \in DOMAIN h,
         IsMapContents(h[a]), IsMapContents(h[b])
  PROVE  LET r == MergeConst(Ok(h), a, b)  A == h[a]  B == h[b]
             conflict == /\ "const" \in DOMAIN A /\ "const" \in DOMAIN B
                         /\ A["const"] # B["const"]
         IN  /\ ~r.ok <=> conflict
             /\ ~r.ok => r.err = "schema" /\ r.h = h
             /\ r.ok =>
                  /\ DOMAIN r.h = DOMAIN h
                  /\ \A c \in DOMAIN h \ {a} : r.h[c] = h[c]
                  /\ DOMAIN r.h[a] = DOMAIN A \cup (DOMAIN B \cap {"const"})
                  /\ \A k \in DOMAIN A \ {"const"} : r.h[a][k] = A[k]
                  /\ "const" \in DOMAIN A => r.h[a]["const"] = A["const"]
                  /\ "const" \in DOMAIN B => r.h[a]["const"] = B["const"]
BY DEF MergeConst, Ok, Err, PutAt, Put, IsMapContents

=============================================================================
