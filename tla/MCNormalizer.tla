----------------------------- MODULE MCNormalizer -----------------------------
(***************************************************************************)
(* Model-checking instance of Normalizer: the constants, the input         *)
(* documents laid out in the heap, the order of union variants, and the   *)
(* properties that need recursion over the heap.                           *)
(***************************************************************************)
EXTENDS Normalizer, AllOfMerge, NormalForm, TLC

(***************************************************************************)
(* JSON documents as trees, laid out into a heap.  M(kv) is an object      *)
(* with the members kv, L(q) an array, and the values of module Profile   *)
(* are the atoms.  A document is the array tree <<root, calls>>; its      *)
(* objects are numbered in the order MapPaths lists their paths, and that  *)
(* number is their address.                                                *)
(***************************************************************************)
M(kv) == [t |-> "tmap", kv |-> kv]
L(q) == [t |-> "tarr", q |-> q]
S(x) == Str(x)
R(x) == M("$ref" :> S(x))

\* The members of the objects, in the order they are numbered.
KeyOrder ==
  <<"$defs", "$ref", "A", "B", "C", "D", "E", "L", "N", "P", "Q", "U", "X",
    "a", "additionalProperties", "allOf", "anyOf", "b", "items", "k",
    "minimum", "oneOf", "pattern", "properties", "required", "title", "type",
    "x">>

\* Path steps are strings: a member name or an array index.
IdxTok == <<"0", "1", "2", "3">>
IdxOf(tok) == CHOOSE i \in DOMAIN IdxTok : IdxTok[i] = tok

Keys(tr) == SelectSeq(KeyOrder, LAMBDA k : k \in DOMAIN tr.kv)

RECURSIVE Concat(_), MapPaths(_, _), At(_, _), Conv(_, _, _)

Concat(ss) == IF ss = <<>> THEN <<>> ELSE Head(ss) \o Concat(Tail(ss))

\* The paths of the objects in tree tr, found at path p.
MapPaths(tr, p) ==
  CASE tr.t = "tmap" ->
         <<p>> \o Concat([i \in DOMAIN Keys(tr) |->
                           MapPaths(tr.kv[Keys(tr)[i]], Append(p, Keys(tr)[i]))])
    [] tr.t = "tarr" ->
         Concat([i \in DOMAIN tr.q |-> MapPaths(tr.q[i], Append(p, IdxTok[i]))])
    [] OTHER -> <<>>

\* The subtree of tr at path p.
At(tr, p) ==
  IF p = <<>> THEN tr
  ELSE IF tr.t = "tmap" THEN At(tr.kv[Head(p)], Tail(p))
  ELSE At(tr.q[IdxOf(Head(p))], Tail(p))

\* The value of tree tr at path p, given the numbering PL.
Conv(PL, tr, p) ==
  CASE tr.t = "tmap" -> Obj(CHOOSE i \in DOMAIN PL : PL[i] = p)
    [] tr.t = "tarr" -> Arr([i \in DOMAIN tr.q |-> Conv(PL, tr.q[i], Append(p, IdxTok[i]))])
    [] OTHER -> tr

\* A nil schema.
NullTree == Null

\* A document: the root tree and the calls, each a sequence of schema trees.
MkDoc(rootTree, callTrees) ==
  LET DT == L(<<rootTree, L([i \in DOMAIN callTrees |-> L(callTrees[i])])>>)
      PL == MapPaths(DT, <<>>)
      node(i) == At(DT, PL[i])
      heap0 == [i \in DOMAIN PL |->
                  [k \in DOMAIN node(i).kv |-> Conv(PL, node(i).kv[k], Append(PL[i], k))]]
      all == Conv(PL, DT, <<>>)
  IN  [heap |-> heap0, root |-> all.xs[1],
       calls |-> [i \in DOMAIN callTrees |-> all.xs[2].xs[i].xs]]

(***************************************************************************)
(* The constants.                                                          *)
(***************************************************************************)
MCOrder == <<"a", "array", "b", "boolean", "integer", "null", "number", "object", "string">>

MCRefs == {"#/A", "#/B", "#/C", "#/D", "#/E", "#/U", "#/N", "#/Z", "#/X",
           "#/L", "#/P", "#/Q", "#A", "x.json", "http://e/x.json", "%zz"}

MCRefKind ==
  [r \in MCRefs |-> CASE r = "%zz" -> "bad"
                      [] r = "x.json" -> "rel"
                      [] r = "http://e/x.json" -> "ext"
                      [] OTHER -> "frag"]

MCRefKey == [r \in MCRefs |-> r]

\* The one token of each fragment ref "#/T".
PtrTok ==
  "#/A" :> "A" @@ "#/B" :> "B" @@ "#/C" :> "C" @@ "#/D" :> "D" @@ "#/E" :> "E"
  @@ "#/U" :> "U" @@ "#/N" :> "N" @@ "#/Z" :> "Z" @@ "#/X" :> "X"
  @@ "#/L" :> "L" @@ "#/P" :> "P" @@ "#/Q" :> "Q"

\* "#/A" is the pointer /A; "#A" has a fragment that is no JSON Pointer; an
\* external ref points at its whole document.
MCRefPtr ==
  [r \in MCRefs |->
     CASE r \in {"#A", "x.json", "%zz"} -> [ok |-> FALSE, toks |-> <<>>]
       [] r = "http://e/x.json"         -> [ok |-> TRUE, toks |-> <<>>]
       [] OTHER -> [ok |-> TRUE, toks |-> <<PtrTok[r]>>]]

MCArrIndex == [t \in {"0", "1"} |-> IF t = "0" THEN 0 ELSE 1]

MCFetch == [k \in {} |-> [r |-> "fetch", doc |-> Null]]

\* The root document: the definitions the schemas refer to.
RootTree ==
  M(  "A" :> M("type" :> S("string") @@ "title" :> S("t"))
   @@ "B" :> R("#/B")
   @@ "C" :> M("properties" :> M("a" :> R("#/A")
                                 @@ "b" :> M("type" :> L(<<S("number"), S("integer"), S("number")>>)))
              @@ "required" :> L(<<S("b"), S("a")>>)
              @@ "additionalProperties" :> Bool(FALSE))
   @@ "D" :> M("allOf" :> L(<<R("#/A"), M("type" :> L(<<S("string"), S("null")>>))>>)
              @@ "$defs" :> M("k" :> Num(1)))
   @@ "E" :> M("items" :> R("#/E"))
   @@ "U" :> M("oneOf" :> L(<<M("type" :> S("string")), M("type" :> S("boolean"))>>))
   @@ "N" :> Num(5)
   @@ "X" :> M("pattern" :> S("x")))

\* The schemas the callers pass, one per public call.
CallSchemas ==
  { R("#/C"), R("#/D"), R("#/B"), R("#/E"), R("#/U"), R("#/N"), R("#/Z"),
    R("x.json"), R("http://e/x.json"), R("#A"), R("%zz"), R("#/X"), NullTree,
    M("allOf" :> L(<<R("#/A"), M("type" :> S("integer"))>>)),
    M("allOf" :> L(<<R("#/C"), M("properties" :> M("a" :> M("minimum" :> Num(1))))>>)),
    M("allOf" :> L(<<R("#/B")>>)),
    M("allOf" :> L(<<R("#/Z")>>)),
    M("allOf" :> L(<<R("#/N")>>)),
    M("allOf" :> L(<<>>)),
    M("allOf" :> S("x")),
    M("allOf" :> L(<<Num(1)>>)),
    M("allOf" :> L(<<M("pattern" :> S("x"))>>)),
    M("allOf" :> L(<<M("oneOf" :> L(<<>>))>>)),
    M("anyOf" :> L(<<M("items" :> M("type" :> S("null"))),
                     M("additionalProperties" :> R("#/A"))>>)),
    M("additionalProperties" :> S("no")),
    M("properties" :> M("a" :> Num(1))),
    M("properties" :> Num(1)),
    M("type" :> S("")),
    M("required" :> S("a")),
    M("items" :> Num(1)),
    M("oneOf" :> S("x")),
    M("oneOf" :> L(<<Num(1)>>)) }

\* Every schema on its own, and three runs of several calls sharing the
\* root: InputCompatible-like pairs and a Normalize after a failed call.
MCDocs ==
  { MkDoc(RootTree, <<<<s>>>>) : s \in CallSchemas }
  \cup { MkDoc(RootTree, << <<R("#/C"), R("#/U")>>, <<R("#/B")>>, <<R("#/D")>> >>),
         MkDoc(RootTree, << <<R("#/E"), R("#/A")>>, <<R("#/C")>> >>),
         MkDoc(RootTree, << <<M("allOf" :> L(<<R("#/C"), R("#/D")>>)), R("#/C")>> >>) }

(***************************************************************************)
(* The inputs of the runs that reproduce a disagreement with the spec.     *)
(***************************************************************************)
\* A recursive type reached through an allOf branch: L's property x is
\* again "all of L".  Entering L by $ref would fail with "cycle detected";
\* entering it through allOf does not hold the ref (part_005:48).
MCDocsAllOfLoop ==
  { MkDoc(M("L" :> M("properties" :> M("x" :> M("allOf" :> L(<<R("#/L")>>))))),
          << <<M("allOf" :> L(<<R("#/L")>>))>> >>) }

\* Two definitions with a nested property a; InputCompatible(all of P and
\* Q, P): merging the branches writes Q's property b into P's own map.
MCDocsMutation ==
  { MkDoc(M(   "P" :> M("properties" :> M("a" :> M("properties" :> M("x" :> M("type" :> S("string"))))))
            @@ "Q" :> M("properties" :> M("a" :> M("properties" :> M("b" :> M("type" :> S("null"))))))),
          << <<M("allOf" :> L(<<R("#/P"), R("#/Q")>>)), R("#/P")>> >>) }

\* A $ref that is the empty string.
MCDocsBlankRef ==
  { MkDoc(M("A" :> M("type" :> S("string"))), << <<M("$ref" :> S(""))>> >>) }

MCMaxDepth == 8

\* Every schema a call returns is in the normalized form of spec section 3:
\* no $ref, $defs, allOf or annotation; type and required sorted unique
\* arrays of non-empty strings; properties, additionalProperties, items and
\* the union variants normalized, the variants in canonical order.  It is
\* what normalizeAt's stages (part_004:182-336) are there to establish.
NormalizedOutputs ==
  \A i \in DOMAIN results : NormalizedSchema(heap, results[i])

=============================================================================
