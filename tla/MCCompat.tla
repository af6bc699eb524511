------------------------------- MODULE MCCompat -------------------------------
(***************************************************************************)
(* Model-checking instance of Compat: a heap of normalized schemas that    *)
(* exercise every rule of the decider, a set of JSON instances, and a      *)
(* reference validator that says which instances a schema accepts.  The   *)
(* decider is checked against what the spec's glossary says the two      *)
(* directions mean (spec.md lines 243-244), and for the laws of a          *)
(* pre-order that substituting one contract for another relies on.         *)
(*                                                                         *)
(* Numbers are in half units: Num(k) is k/2, so Num(1) is 0.5 and the      *)
(* integers are the even k.                                                *)
(***************************************************************************)
EXTENDS Compat, NormalForm, Integers, TLC

MCOrder == <<"a", "array", "boolean", "integer", "number", "object", "p", "string">>

\* A type array of sorted names.
Ty(q) == "type" :> Arr([i \in DOMAIN q |-> Str(q[i])])
StrArr(q) == Arr([i \in DOMAIN q |-> Str(q[i])])

(***************************************************************************)
(* The heap: leaf schemas, the properties maps, object, array and union   *)
(* schemas over some of the leaves, and the maps of the object instances. *)
(***************************************************************************)
HLeaves ==
  << EmptyMap,                                                  \* 1 Top
     Ty(<<"integer">>),                                         \* 2
     Ty(<<"number">>),                                          \* 3
     Ty(<<"string">>),                                          \* 4
     Ty(<<"integer", "string">>),                               \* 5
     Ty(<<"number">>) @@ ("minimum" :> Num(0)),                 \* 6
     Ty(<<"number">>) @@ ("exclusiveMinimum" :> Num(0)),        \* 7
     Ty(<<"integer">>) @@ ("maximum" :> Num(2)),                \* 8
     Ty(<<"number">>) @@ ("exclusiveMaximum" :> Num(2)),        \* 9
     Ty(<<"string">>) @@ ("minLength" :> Num(2)),               \* 10
     Ty(<<"string">>) @@ ("maxLength" :> Num(2)),               \* 11
     Ty(<<"string">>) @@ ("enum" :> StrArr(<<"a", "ab">>)),     \* 12
     Ty(<<"string">>) @@ ("const" :> Str("a")),                 \* 13
     "enum" :> StrArr(<<"a">>),                                 \* 14
     "const" :> Str("a"),                                       \* 15
     "minimum" :> Num(0),                                       \* 16
     Ty(<<"boolean">>),                                         \* 17
     "maximum" :> Num(4),                                       \* 18
     Ty(<<"string">>) @@ ("const" :> Str("a"))
                      @@ ("enum" :> StrArr(<<"a", "ab">>)) >>  \* 19

NL == Len(HLeaves)

\* The leaves that appear as property, items and variant schemas.
Kids == <<1, 2, 3, 4, 13>>

\* The properties map {"p": kid}, at address NL + i.
HProps == [i \in DOMAIN Kids |-> "p" :> Obj(Kids[i])]
NP == NL + Len(HProps)

ObjP(i) == Ty(<<"object">>) @@ ("properties" :> Obj(NL + i))
K == Len(Kids)

HObjs ==
  [i \in 1..K |-> ObjP(i)]
  \o [i \in 1..K |-> ObjP(i) @@ ("required" :> StrArr(<<"p">>))]
  \o [i \in 1..K |-> ObjP(i) @@ ("additionalProperties" :> Bool(FALSE))]
  \o << Ty(<<"object">>),
        Ty(<<"object">>) @@ ("additionalProperties" :> Bool(FALSE)),
        Ty(<<"object">>) @@ ("additionalProperties" :> Obj(2)),
        Ty(<<"object">>) @@ ("required" :> StrArr(<<"p">>)) >>

HArrs ==
  [i \in 1..K |-> Ty(<<"array">>) @@ ("items" :> Obj(Kids[i]))]
  \o << Ty(<<"array">>) @@ ("minItems" :> Num(2)),
        Ty(<<"array">>) @@ ("maxItems" :> Num(2)) >>

\* Union variants in canonical order.
Variants(q) == Arr(SortByCanon(HLeaves, [i \in DOMAIN q |-> Obj(q[i])]))

HUnions ==
  << "anyOf" :> Variants(<<2, 4>>),
     "anyOf" :> Variants(<<3, 4>>),
     "anyOf" :> Variants(<<2>>),
     "anyOf" :> Variants(<<13, 2>>),
     "oneOf" :> Variants(<<2, 3>>),
     "oneOf" :> Variants(<<2, 4>>) >>

HSchemas == HLeaves \o HProps \o HObjs \o HArrs \o HUnions

\* The maps of the object instances.
HInst ==
  << EmptyMap,
     "p" :> Num(2),
     "p" :> Str("a"),
     "q" :> Num(2),
     ("p" :> Num(2)) @@ ("q" :> Str("a")) >>

MCH == HSchemas \o HInst

\* Every schema but the properties maps.
MCSchemas == (1..Len(HSchemas)) \ (NL + 1..NP)

\* The decider is only ever called on normalized schemas.
ASSUME \A s \in MCSchemas : NormalizedSchema(MCH, Obj(s))

(***************************************************************************)
(* The instances and the reference validator.                              *)
(***************************************************************************)
Instances ==
  { Null, Bool(TRUE), Num(-2), Num(0), Num(1), Num(2), Num(4), Num(6),
    Str(""), Str("a"), Str("ab"), Str("b"),
    Arr(<<>>), Arr(<<Num(2)>>), Arr(<<Str("a")>>), Arr(<<Num(1), Str("b")>>) }
  \cup { Obj(a) : a \in Len(HSchemas) + 1..Len(MCH) }

StrLen == ("" :> 0) @@ ("a" :> 1) @@ ("b" :> 1) @@ ("ab" :> 2)

\* The JSON type names an instance has.
OfType(x, n) ==
  CASE n = "integer" -> x.t = "num" /\ x.n % 2 = 0
    [] n = "number"  -> x.t = "num"
    [] n = "string"  -> x.t = "str"
    [] n = "boolean" -> x.t = "bool"
    [] n = "null"    -> x.t = "null"
    [] n = "object"  -> x.t = "map"
    [] n = "array"   -> x.t = "arr"

\* Bounds in half units (the instances' numbers are Num(k)); lengths are
\* counts.
Le(m, k, a) == k \in DOMAIN m => m[k].n <= a
Ge(m, k, a) == k \in DOMAIN m => m[k].n >= a
Lt(m, k, a) == k \in DOMAIN m => m[k].n < a
Gt(m, k, a) == k \in DOMAIN m => m[k].n > a

\* Schema m (the contents of a map of h) accepts instance x: the meaning
\* of the profile's keywords in JSON Schema, oneOf as exactly one.
RECURSIVE Accepts(_, _, _)
Accepts(h, m, x) ==
  LET sub(k) == h[m[k].n]
  IN
  /\ "type" \in DOMAIN m => \E y \in ElemsOf(m["type"].xs) : OfType(x, y.s)
  /\ "enum" \in DOMAIN m => x \in ElemsOf(m["enum"].xs)
  /\ "const" \in DOMAIN m => x = m["const"]
  /\ x.t = "num" =>
       /\ Le(m, "minimum", x.n) /\ Lt(m, "exclusiveMinimum", x.n)
       /\ Ge(m, "maximum", x.n) /\ Gt(m, "exclusiveMaximum", x.n)
  /\ x.t = "str" =>
       Le(m, "minLength", 2 * StrLen[x.s]) /\ Ge(m, "maxLength", 2 * StrLen[x.s])
  /\ x.t = "arr" =>
       /\ Le(m, "minItems", 2 * Len(x.xs)) /\ Ge(m, "maxItems", 2 * Len(x.xs))
       /\ "items" \in DOMAIN m => \A i \in DOMAIN x.xs : Accepts(h, sub("items"), x.xs[i])
  /\ x.t = "map" =>
       LET o == h[x.n]  props == PropsOf(h, m)  ap == Get(m, "additionalProperties")
       IN  /\ StringSet(Get(m, "required")) \subseteq DOMAIN o
           /\ \A k \in DOMAIN o :
                IF k \in DOMAIN props THEN Accepts(h, h[props[k].n], o[k])
                ELSE /\ ap # Bool(FALSE)
                     /\ IsMap(ap) => Accepts(h, h[ap.n], o[k])
  /\ "anyOf" \in DOMAIN m =>
       \E i \in DOMAIN m["anyOf"].xs : Accepts(h, h[m["anyOf"].xs[i].n], x)
  /\ "oneOf" \in DOMAIN m =>
       Cardinality({ i \in DOMAIN m["oneOf"].xs : Accepts(h, h[m["oneOf"].xs[i].n], x) }) = 1

\* What schema s accepts, among the instances.
Lang(s) == { x \in Instances : Accepts(MCH, MCH[s], x) }

\* The schemas whose rules the decider gets right: typed schemas that are
\* not objects, with anyOf unions and Top.  The other schemas of the heap
\* are each the witness of one gap (runs output_*).
TypedSchemas ==
  { s \in MCSchemas :
      LET m == MCH[s]
      IN  /\ ~HasType(m, "object") /\ "oneOf" \notin DOMAIN m
          /\ ~(HasKey(m, "const") /\ HasKey(m, "enum"))
          /\ TypeKnown(m) \/ "anyOf" \in DOMAIN m \/ DOMAIN m = {} }
\* Schemas without a type and without a union.
UntypedSchemas ==
  { s \in MCSchemas : ~TypeKnown(MCH[s]) /\ ~HasUnion(MCH[s]) /\ DOMAIN MCH[s] # {} }
\* Object schemas whose additionalProperties is not a schema.
OpenObjectSchemas ==
  { s \in MCSchemas : HasType(MCH[s], "object") /\ ~IsMap(Get(MCH[s], "additionalProperties")) }
\* Object schemas that close their properties or bound them by a schema.
ClosedObjectSchemas ==
  { s \in MCSchemas : HasType(MCH[s], "object") /\ Get(MCH[s], "additionalProperties") # Null }
\* Schemas with both const and enum, as an allOf of the two merges to.
ConstEnumSchemas == { s \in MCSchemas : HasKey(MCH[s], "const") /\ HasKey(MCH[s], "enum") }
\* The oneOf unions.
OneOfSchemas == { s \in MCSchemas : "oneOf" \in DOMAIN MCH[s] }

MCSchemasTyped == TypedSchemas
MCSchemasUntyped == TypedSchemas \cup UntypedSchemas
MCSchemasOpenObjects == TypedSchemas \cup OpenObjectSchemas
MCSchemasClosedObjects == TypedSchemas \cup ClosedObjectSchemas
MCSchemasOneOf == TypedSchemas \cup OneOfSchemas
MCSchemasConstEnum == TypedSchemas \cup ConstEnumSchemas

(***************************************************************************)
(* Properties.                                                             *)
(***************************************************************************)
\* The spec's meaning of output compatibility (glossary): every instance
\* the candidate emits is acceptable to the target.  Checked on the
\* verdicts of outputCompatible (compat.go:13-112).
OutputSound == op = "output" /\ verdict => Lang(cand) \subseteq Lang(tgt)

\* The spec's meaning of input compatibility (glossary): the candidate
\* accepts every instance the target accepts.  Checked on the verdicts of
\* inputCompatible (compat.go:4-112).
InputSound == op = "input" /\ verdict => Lang(tgt) \subseteq Lang(cand)

\* On typed scalar, array and anyOf schemas, an output verdict of true is
\* sound: the bound comparisons with their exclusive/inclusive ties
\* (compat.go:540-649), integer within number, enum and const, items and
\* the variant matching of compatUnion admit no candidate that emits an
\* instance the target rejects.
TypedOutputSound == tgt \in TypedSchemas /\ cand \in TypedSchemas => OutputSound

\* Output compatibility is transitive on those schemas: when the decider
\* lets b stand in for the target and the candidate for b, it lets the
\* candidate stand in for the target, so a chain of contract upgrades
\* never reaches a verdict the direct comparison refuses.
TypedOutputTransitive ==
  /\ op = "output" /\ tgt \in TypedSchemas /\ cand \in TypedSchemas
  /\ \E b \in TypedSchemas : /\ OutputCompatible(MCH, MCH[tgt], MCH[b])
                             /\ OutputCompatible(MCH, MCH[b], MCH[cand])
  => verdict

\* Every schema is compatible with itself in both directions, objects,
\* additionalProperties schemas, bounds at equal exclusive values and
\* oneOf included: compat (compat.go:21-112) never refuses a contract
\* unchanged.
Reflexive == op # "none" /\ tgt = cand => verdict

=============================================================================
