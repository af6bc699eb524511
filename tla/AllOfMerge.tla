------------------------------ MODULE AllOfMerge ------------------------------
(***************************************************************************)
(* mergeAllOfBranch (part_005:75-259): merge one allOf branch into the     *)
(* accumulator, in place, keyword by keyword, recursing into the           *)
(* overlapping property schemas, additionalProperties schemas and items.   *)
(*                                                                         *)
(* The merger works on the heap of module Profile: acc and branch are      *)
(* addresses, every write is a write into the map at an address, and       *)
(* cloneMap is shallow, as in the code.  A merge returns [ok, err, h]: the *)
(* heap after it, and on failure the error kind ("shape" for a malformed   *)
(* keyword, "schema" for a SchemaError).  A failed merge keeps the writes  *)
(* it made before failing, as the code does.                               *)
(*                                                                         *)
(* Go ranges over bProps in a random order; the model takes the keys in    *)
(* one fixed order.  Only which error a failing merge reports, and which   *)
(* writes it made before, can depend on that order.  enum and const values *)
(* are compared by value, which is canonicalKey's equality for the atoms   *)
(* the model puts there.  The keyword rules that do not recurse are in     *)
(* module AllOfRules; this module is recursive and is only model-checked.  *)
(***************************************************************************)
EXTENDS AllOfRules

RECURSIVE MergeAllOfBranch(_, _, _), MergePropKeys(_, _, _, _)

\* merged := cloneMap(asMap(av) or {}); merge bv into it (part_005:110-122,
\* 167-171, 214-222).  The clone is at address NextAddr(h).
MergeInto(h, av, bv) ==
  LET h1 == IF IsMap(av) THEN CloneMap(h, av.n) ELSE Append(h, EmptyMap)
  IN  IF IsMap(bv) THEN MergeAllOfBranch(h1, NextAddr(h), bv.n) ELSE Ok(h1)

\* The loop over bProps (part_005:108-126), for the keys K not yet visited.
MergePropKeys(st, ap, bp, K) ==
  IF ~st.ok \/ K = {} THEN st
  ELSE LET h == st.h  k == CHOOSE k \in K : TRUE  bv == h[bp][k]
           r == IF k \in DOMAIN h[ap]
                  THEN LET m == MergeInto(h, h[ap][k], bv)
                       IN  IF m.ok THEN Ok(PutAt(m.h, ap, k, Obj(NextAddr(h)))) ELSE m
                  ELSE Ok(PutAt(h, ap, k, bv))
       IN  MergePropKeys(r, ap, bp, K \ {k})

\* properties: union of keys, overlapping keys merged (part_005:99-128).
\* aProps is acc's own properties map when it has one: the merger writes
\* into it, and through the shallow clones into the input's maps.
MergeProps(st, a, b) ==
  LET h == st.h  A == h[a]  B == h[b]
  IN  IF "properties" \notin DOMAIN B THEN st
      ELSE IF ~IsMap(B["properties"]) THEN Err("shape", h)
      ELSE LET own == "properties" \in DOMAIN A /\ IsMap(A["properties"])
               ap == IF own THEN A["properties"].n ELSE NextAddr(h)
               h1 == IF own THEN h ELSE Append(h, EmptyMap)
               bp == B["properties"].n
               r == MergePropKeys(Ok(h1), ap, bp, DOMAIN h[bp])
           IN  IF r.ok THEN Ok(PutAt(r.h, a, "properties", Obj(ap))) ELSE r

\* additionalProperties: false wins; schemas merge (part_005:149-177)
MergeAdditional(st, a, b) ==
  LET h == st.h  A == h[a]  B == h[b]  K == "additionalProperties"
  IN  IF K \notin DOMAIN B THEN st
      ELSE LET bv == B[K] IN
      IF bv.t = "bool" /\ bv.n = 0 THEN Ok(PutAt(h, a, K, bv))
      ELSE IF bv.t = "bool" THEN IF K \in DOMAIN A THEN st ELSE Ok(PutAt(h, a, K, bv))
      ELSE IF ~IsMap(bv) THEN st
      ELSE IF K \notin DOMAIN A THEN Ok(PutAt(h, a, K, bv))
      ELSE IF A[K].t = "bool" THEN IF A[K].n = 0 THEN st ELSE Ok(PutAt(h, a, K, bv))
      ELSE IF ~IsMap(A[K]) THEN st
      ELSE LET m == MergeInto(h, A[K], bv)
           IN  IF m.ok THEN Ok(PutAt(m.h, a, K, Obj(NextAddr(h)))) ELSE m

\* items: recursive merge (part_005:208-226)
MergeItems(st, a, b) ==
  LET h == st.h  A == h[a]  B == h[b]
  IN  IF "items" \notin DOMAIN B THEN st
      ELSE IF ~IsMap(B["items"]) THEN Err("shape", h)
      ELSE IF "items" \notin DOMAIN A THEN Ok(PutAt(h, a, "items", B["items"]))
      ELSE LET m == MergeInto(h, A["items"], B["items"])
           IN  IF m.ok THEN Ok(PutAt(m.h, a, "items", Obj(NextAddr(h)))) ELSE m

\* mergeAllOfBranch: the keywords in the code's order, the first error wins.
MergeAllOfBranch(h, a, b) ==
  LET s1 == MergeType(Ok(h), a, b)
      s2 == IF s1.ok THEN MergeProps(s1, a, b) ELSE s1
      s3 == IF s2.ok THEN MergeRequired(s2, a, b) ELSE s2
      s4 == IF s3.ok THEN MergeAdditional(s3, a, b) ELSE s3
      s5 == IF s4.ok THEN MergeEnum(s4, a, b) ELSE s4
      s6 == IF s5.ok THEN MergeConst(s5, a, b) ELSE s5
      s7 == IF s6.ok THEN MergeItems(s6, a, b) ELSE s6
  IN  IF s7.ok THEN MergeBounds(s7, a, b) ELSE s7

=============================================================================
