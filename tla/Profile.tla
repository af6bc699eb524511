------------------------------- MODULE Profile -------------------------------
(***************************************************************************)
(* The data layer the schema normalizer of package schemaprofile works on: *)
(* the keyword partition of profile v0.1, the decoded JSON values a schema *)
(* is made of, and the non-recursive helpers of the package.               *)
(*                                                                         *)
(* A Go value of static type any is a dynamic type and a datum.  It is     *)
(* modelled as a record with the same four fields for every kind, so that  *)
(* values of different kinds can be compared: t is the dynamic type, s     *)
(* the datum of a string, n the datum of a number or a bool (1 for true)   *)
(* or the address of a map, xs the elements of a []any.                    *)
(*                                                                         *)
(* A map[string]any is shared by reference in Go, and the allOf merger     *)
(* writes into maps it reaches through shallow copies.  Maps therefore     *)
(* live in a heap: a sequence of the maps allocated so far, each a         *)
(* function from its keys to its values; a map value carries its address.  *)
(***************************************************************************)
EXTENDS Naturals, Sequences, TLC

\* The strings the model sorts, in ascending byte order.
CONSTANT Order

\* inScopeKeywords (part_004:146-167): the keywords of profile v0.1
InScope ==
  { "$ref", "$defs", "allOf", "type", "enum", "const", "properties",
    "required", "additionalProperties", "items", "oneOf", "anyOf",
    "minimum", "maximum", "exclusiveMinimum", "exclusiveMaximum",
    "minLength", "maxLength", "minItems", "maxItems" }

\* annotationKeywords (part_004:170-179): stripped during normalization
Annotations ==
  { "title", "description", "examples", "default", "deprecated",
    "readOnly", "writeOnly", "$schema" }

\* The numeric type names intersectTypeSlices treats apart.
Numeric == {"integer", "number"}

\* The lower and the upper bound keywords of mergeAllOfBranch.
LowerBounds == {"minimum", "exclusiveMinimum", "minLength", "minItems"}
UpperBounds == {"maximum", "exclusiveMaximum", "maxLength", "maxItems"}

(***************************************************************************)
(* Values.                                                                 *)
(***************************************************************************)
Str(x)  == [t |-> "str",  s |-> x,  n |-> 0, xs |-> <<>>]
Num(i)  == [t |-> "num",  s |-> "", n |-> i, xs |-> <<>>]
Bool(b) == [t |-> "bool", s |-> "", n |-> IF b THEN 1 ELSE 0, xs |-> <<>>]
Obj(a)  == [t |-> "map",  s |-> "", n |-> a, xs |-> <<>>]
Arr(q)  == [t |-> "arr",  s |-> "", n |-> 0, xs |-> q]
Null    == [t |-> "null", s |-> "", n |-> 0, xs |-> <<>>]

\* asMap / asSlice (part_003:304-312): the dynamic type test
IsMap(v) == v.t = "map"
IsArr(v) == v.t = "arr"

\* The strings of an array, as a set.
StrsOf(v) == { v.xs[i].s : i \in DOMAIN v.xs }

\* The elements of an array.
ElemsOf(q) == { q[i] : i \in DOMAIN q }

\* A finite list: a sequence of its own elements.
IsList(s) == s \in Seq(ElemsOf(s))

\* toFloat64 (part_003:346-360): the numeric view; 0 for a non-number.
ToFloat(v) == IF v.t = "num" THEN v.n ELSE 0

\* strings.TrimSpace(s) == "": the model's only blank string is "".
Blank(x) == x = ""

(***************************************************************************)
(* The heap.                                                               *)
(***************************************************************************)
\* The address the next allocation returns.
NextAddr(h) == Len(h) + 1

\* make(map[string]any) / map[string]any{}: a fresh empty map's contents
EmptyMap == [x \in {} |-> Null]

\* m[k] = v on a map's contents
Put(m, k, v) == [x \in DOMAIN m \cup {k} |-> IF x = k THEN v ELSE m[x]]

\* m[k] = v on the map at address a of the heap
PutAt(h, a, k, v) == [h EXCEPT ![a] = Put(@, k, v)]

\* cloneMap (part_003:293-302): a shallow copy, appended to the heap; the
\* copy's address is NextAddr(h).
CloneMap(h, a) == Append(h, h[a])

(***************************************************************************)
(* Sorting.  Go sorts strings by bytes; Order is the strings the model     *)
(* uses, listed in ascending byte order, and a sorted array without        *)
(* duplicates is the subsequence of Order of its elements.                 *)
(***************************************************************************)
SortedStrs(S) ==
  LET pos[j \in 0..Len(Order)] ==
        IF j = 0 THEN <<>>
        ELSE IF Order[j] \in S THEN Append(pos[j - 1], Str(Order[j]))
             ELSE pos[j - 1]
  IN  Arr(pos[Len(Order)])

(***************************************************************************)
(* assertProfileKeywords (part_003:188-199): every key of a schema is in   *)
(* scope or an annotation.                                                 *)
(***************************************************************************)
ProfileKeywordsOK(m) == DOMAIN m \subseteq InScope \cup Annotations

(***************************************************************************)
(* normalizeType (part_003:208-234): a non-blank string becomes the one-   *)
(* element array; an array of non-blank strings its sorted set; anything   *)
(* else is an error.                                                       *)
(***************************************************************************)
TypeValueOK(v) ==
  \/ v.t = "str" /\ ~Blank(v.s)
  \/ v.t = "arr" /\ \A i \in DOMAIN v.xs : v.xs[i].t = "str" /\ ~Blank(v.xs[i].s)

NormalizeType(v) ==
  IF v.t = "str" THEN Arr(<<v>>) ELSE SortedStrs(StrsOf(v))

(***************************************************************************)
(* normalizeStringSet (part_003:236-255): an array of non-blank strings    *)
(* becomes its sorted set; anything else is an error.                      *)
(***************************************************************************)
StringSetOK(v) ==
  v.t = "arr" /\ \A i \in DOMAIN v.xs : v.xs[i].t = "str" /\ ~Blank(v.xs[i].s)

(***************************************************************************)
(* intersectTypeSlices (part_005:276-327): plain intersection of the non-  *)
(* numeric names; "number" when both sides accept every number, else       *)
(* "integer" when both sides accept some number.                           *)
(***************************************************************************)
IntersectTypes(a, b) ==
  ((a \cap b) \ Numeric)
  \cup (IF a \cap Numeric # {} /\ b \cap Numeric # {}
          THEN IF "number" \in a /\ "number" \in b THEN {"number"} ELSE {"integer"}
          ELSE {})

=============================================================================
