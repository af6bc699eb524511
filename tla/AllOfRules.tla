------------------------------ MODULE AllOfRules ------------------------------
(***************************************************************************)
(* The keyword rules of mergeAllOfBranch (part_005:75-259) that do not     *)
(* recurse: type, required, enum, const and the eight bounds.  Each merges *)
(* branch b into the accumulator a, in place on the heap of module         *)
(* Profile, and returns [ok, err, h] as module AllOfMerge describes.       *)
(***************************************************************************)
EXTENDS Profile

\* A merge that went well, and one that failed with error kind e.
Ok(h) == [ok |-> TRUE, err |-> "", h |-> h]
Err(e, h) == [ok |-> FALSE, err |-> e, h |-> h]

\* type: intersection (part_005:77-96)
MergeType(st, a, b) ==
  LET h == st.h  A == h[a]  B == h[b]
  IN  IF "type" \notin DOMAIN B THEN st
      ELSE IF ~TypeValueOK(B["type"]) THEN Err("shape", h)
      ELSE IF "type" \notin DOMAIN A
        THEN Ok(PutAt(h, a, "type", NormalizeType(B["type"])))
      ELSE IF ~TypeValueOK(A["type"]) THEN Err("shape", h)
      ELSE LET inter == IntersectTypes(StrsOf(NormalizeType(A["type"])),
                                       StrsOf(NormalizeType(B["type"])))
           IN  IF inter = {} THEN Err("schema", h)
               ELSE Ok(PutAt(h, a, "type", SortedStrs(inter)))

\* required: union (part_005:131-146)
MergeRequired(st, a, b) ==
  LET h == st.h  A == h[a]  B == h[b]
  IN  IF "required" \notin DOMAIN B THEN st
      ELSE IF ~StringSetOK(B["required"]) THEN Err("shape", h)
      ELSE IF "required" \notin DOMAIN A
        THEN Ok(PutAt(h, a, "required", SortedStrs(StrsOf(B["required"]))))
      ELSE IF ~StringSetOK(A["required"]) THEN Err("shape", h)
      ELSE Ok(PutAt(h, a, "required",
                    SortedStrs(StrsOf(A["required"]) \cup StrsOf(B["required"]))))

\* enum: intersection, empty is a SchemaError (part_005:180-195)
MergeEnum(st, a, b) ==
  LET h == st.h  A == h[a]  B == h[b]
  IN  IF "enum" \notin DOMAIN B THEN st
      ELSE IF ~IsArr(B["enum"]) THEN Err("shape", h)
      ELSE IF "enum" \notin DOMAIN A THEN Ok(PutAt(h, a, "enum", B["enum"]))
      ELSE LET aEnum == IF IsArr(A["enum"]) THEN A["enum"].xs ELSE <<>>
               inter == SelectSeq(aEnum, LAMBDA x : x \in ElemsOf(B["enum"].xs))
           IN  IF inter = <<>> THEN Err("schema", h)
               ELSE Ok(PutAt(h, a, "enum", Arr(inter)))

\* const: a conflict is a SchemaError (part_005:197-205)
MergeConst(st, a, b) ==
  LET h == st.h  A == h[a]  B == h[b]
  IN  IF "const" \notin DOMAIN B THEN st
      ELSE IF "const" \notin DOMAIN A THEN Ok(PutAt(h, a, "const", B["const"]))
      ELSE IF A["const"] # B["const"] THEN Err("schema", h)
      ELSE st

\* bounds: the highest lower bound and the lowest upper bound win
\* (part_005:230-256); the eight keywords are independent of each other.
MergeBounds(st, a, b) ==
  LET h == st.h  A == h[a]  B == h[b]
      Wins(k) ==
        /\ k \in DOMAIN B \cap (LowerBounds \cup UpperBounds)
        /\ \/ k \notin DOMAIN A
           \/ k \in LowerBounds /\ ToFloat(B[k]) > ToFloat(A[k])
           \/ k \in UpperBounds /\ ToFloat(B[k]) < ToFloat(A[k])
      W == { k \in DOMAIN B : Wins(k) }
  IN  Ok([h EXCEPT ![a] = [k \in DOMAIN A \cup W |-> IF k \in W THEN B[k] ELSE A[k]]])

=============================================================================
