------------------------------ MODULE NormalForm ------------------------------
(***************************************************************************)
(* The normalized form of spec section 3, over the heap of module Profile, *)
(* and the canonical order of union variants it refers to.  Used by the   *)
(* model-checking instances of the normalizer and of the decider.          *)
(***************************************************************************)
EXTENDS Profile, TLC

(***************************************************************************)
(* The order of union variants: by a fixed total order of their contents  *)
(* (the order of canonical JSON strings, abstracted).                      *)
(***************************************************************************)
RECURSIVE Canon(_, _)
Canon(h, v) ==
  [t |-> v.t, s |-> v.s, n |-> IF IsMap(v) THEN 0 ELSE v.n,
   xs |-> [i \in DOMAIN v.xs |-> Canon(h, v.xs[i])],
   kv |-> IF IsMap(v) THEN [k \in DOMAIN h[v.n] |-> Canon(h, h[v.n][k])]
          ELSE [k \in {} |-> 0]]

SortByCanon(h, vs) ==
  LET D == [i \in DOMAIN vs |-> Canon(h, vs[i])]
      P == Permutations(DOMAIN vs)
      target == CHOOSE q \in { [i \in DOMAIN vs |-> D[p[i]]] : p \in P } : TRUE
      p0 == CHOOSE p \in P : [i \in DOMAIN vs |-> D[p[i]]] = target
  IN  [i \in DOMAIN vs |-> vs[p0[i]]]


(***************************************************************************)
(* The normalized form (spec section 3).                                   *)
(***************************************************************************)
\* A sorted array of unique non-empty strings.
SortedSet(v) ==
  /\ IsArr(v)
  /\ \A i \in DOMAIN v.xs : v.xs[i].t = "str" /\ ~Blank(v.xs[i].s)
  /\ v = SortedStrs(StrsOf(v))

RECURSIVE NormalizedSchema(_, _)
NormalizedSchema(h, v) ==
  /\ IsMap(v)
  /\ LET m == h[v.n]
         Sub(k) == k \in DOMAIN m => NormalizedSchema(h, m[k])
         UnionOK(k) ==
           k \in DOMAIN m =>
             /\ IsArr(m[k])
             /\ \A i \in DOMAIN m[k].xs : NormalizedSchema(h, m[k].xs[i])
             /\ LET vs == m[k].xs
                IN  [i \in DOMAIN vs |-> Canon(h, vs[i])]
                      = [i \in DOMAIN vs |-> Canon(h, SortByCanon(h, vs)[i])]
     IN  /\ DOMAIN m \cap ({"$ref", "$defs", "allOf"} \cup Annotations) = {}
         /\ "type" \in DOMAIN m => SortedSet(m["type"])
         /\ "required" \in DOMAIN m => SortedSet(m["required"])
         /\ "properties" \in DOMAIN m =>
              /\ IsMap(m["properties"])
              /\ \A k \in DOMAIN h[m["properties"].n] :
                   NormalizedSchema(h, h[m["properties"].n][k])
         /\ "additionalProperties" \in DOMAIN m /\ m["additionalProperties"].t # "bool"
              => NormalizedSchema(h, m["additionalProperties"])
         /\ Sub("items")
         /\ UnionOK("oneOf") /\ UnionOK("anyOf")

=============================================================================
