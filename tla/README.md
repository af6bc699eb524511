# TLA+ models of the openbindings-go schema normalizer and compatibility decider

This directory holds a verification development for package `schemaprofile`.
The package has two parts:

- the **normalizer** reduces a JSON Schema of the v0.1 profile to a normal form;
- the **compatibility decider** compares two normalized schemas.

The normalizer is the part that has state and control:

- a recursive walk;
- a cycle-detection set;
- resolution of `$ref`, which can reach external documents;
- in-place merging of `allOf` branches through shallow copies of maps.

The decider is a pure recursive function of the two normalized schemas.
Both parts are modelled and model-checked, and both are partly proved:

- the normalizer's cycle bookkeeping;
- the decider's bound and const/enum rules.

The decider is checked against a reference validator written from the
spec's definitions of the two directions. The rest of the repository is pure
encoding, and it is listed under "Not modelled" below.

## The system and the modules

| Code | Module | What it is |
|---|---|---|
| inScopeKeywords, annotationKeywords, asMap, cloneMap, normalizeType, normalizeStringSet, intersectTypeSlices (part_003, part_004, part_005) | `Profile` | Decoded JSON values, the heap of maps, and the non-recursive helpers |
| mergeAllOfBranch and toFloat64: type, required, enum, const, bounds (part_005:75-259) | `AllOfRules` | The keyword rules of the merge that do not recurse |
| mergeAllOfBranch: properties, additionalProperties, items (part_005:75-259) | `AllOfMerge` | The recursive rules, and the whole merge of one branch into the accumulator, keyword by keyword in the code's order |
| — | `AllOfRulesProofs` | The TLAPS proofs about the merge rules |
| Normalizer, Normalize, InputCompatible, OutputCompatible, normalizeAt, resolveRef, resolveJSONPointer, flattenAllOf (part_004, part_005:11-62) | `Normalizer` | The state machine |
| — | `NormalForm` | The canonical order of variants (`SortByCanon`) and the normal-form predicate, shared by both MC modules |
| — | `MCNormalizer` | The instance for TLC: documents, refs, the sort order |
| — | `NormalizerProofs` | The TLAPS proofs about the normalizer |
| compat.go: typeSet, subsetTypes, hasType, hasUnion, compatConstEnum, enumSet, the bound functions, compatSimpleBounds, stringSet, compatArray, unionVariants | `CompatRules` | The decider's non-recursive rules |
| compat.go: compat, compatObject, compatUnion, inputCompatible, outputCompatible | `Compat` | The recursive decider, and a caller's calls as actions |
| — | `MCCompat` | A heap of normalized schemas, instances, and the reference validator `Accepts` |
| — | `CompatProofs` | The TLAPS proofs about the decider's rules |

### Values and the heap

A Go value of static type `any` is modelled as a record `[t, s, n, xs]`:

- `t` is the dynamic type;
- `s` holds a string;
- `n` holds a number, a bool, or the address of a map;
- `xs` holds the elements of an array.

Maps are shared by reference in Go, and the code writes into maps it reached
through `cloneMap`, which is shallow. Maps therefore live on a heap
(`heap`, a sequence of maps), and a map value is its address. This keeping of
aliasing is what lets the model find the input-mutation defect below.

### Normalizer state and actions

The variables are:

- `input`: the chosen document and calls;
- `heap`;
- `refStack`: the code's `n.refStack`;
- `stack`: the activations of `normalizeAt`;
- `calls`: the public calls still to come;
- `pending` and `results`: the schemas of the current call;
- `status`: "idle", "running", or how the last call ended, "ok" or
  "failed";
- `err`: the error kind the last failed call returned, `""` otherwise.

A frame has these fields:

- `sch`: its schema;
- `pc`: its stage;
- `held`: the key whose `defer cleanup()` it holds, or empty;
- `out`: the map it builds;
- the loop state of its properties, additionalProperties, items and union recursions.

The actions, in the order of `normalizeAt`:

| Action | Code (part_004) |
|---|---|
| `EnterOutside` | the profile gate, 187-189 |
| `EnterRef` | inline `$ref`, 191-205: `resolveRef`, then push the key and defer its cleanup |
| `EnterAllOf` | 219-227: `flattenAllOf`, then recurse into the merged map |
| `EnterPlain` | strip annotations and `$defs`, normalize `type` and `required`, 207-245 |
| `PropsStart`, `PropStep`, `PropsEnd` | the properties loop, 247-266 |
| `AdditionalProps`, `Items` | 268-293 |
| `Union` | oneOf and anyOf, 295-333: normalize the variants, then sort |
| `Finish` | `return out`, 335 |
| `Return` | a frame returns to its caller and runs its deferred cleanup |

Some parts of the model work as follows:

- **Errors.** `Fail` is an error return. It unwinds every frame, and each
  deferred cleanup runs (`refStack \ HeldRefs(stack)`).
- **Public calls.** `StartCall`, `NextSchema` and `EndCall` model `Normalize`,
  `InputCompatible` and `OutputCompatible`. Each call resets `refStack` and
  then normalizes one or two schemas with it. A nil schema becomes `{}`.
- **Recursive operators.** `resolveRef` and `flattenAllOf` are operators
  evaluated inside the step that calls them, as in the code.
  `mergeAllOfBranch` is recursive, so `Normalizer` takes it as the constant
  operator `MergeBranch`, which the MC module sets to `AllOfMerge`'s
  `MergeAllOfBranch`. The sort of union variants is the constant operator
  `SortVariants`.
- **What a call promises (`NormalizerCalls`).** The abstract specification
  hides the recursion. A public call is `Start`, then one `Produce` per
  schema (a map appended to `results`), then `Finish` ("ok"), or
  `Abort` ("failed") at any point. `Normalizer` instantiates it with the
  identity mapping on `input`, `calls`, `results` and `status`. The
  property `CallsRefinement` is its `Spec`. In `Normalizer`:
  - a step inside one `normalizeAt` is a stutter;
  - `Return` of the outermost frame, and `NextSchema` on a nil schema, are
    `Produce`;
  - `Fail` is `Abort`.
- **Map order.** Go's random iteration order over the properties map is a
  nondeterministic choice of the next key (`PropStep`).

### Abstractions

- **URL parsing.** `url.Parse`, base resolution and `u.String()` are the
  constants `RefKind` and `RefKey`. The fragment, already split into JSON
  Pointer tokens, is `RefPtr`. The fetcher's outcome per key is `Fetch`.
- **Variant order.** The canonical JSON order of union variants is
  abstracted by `SortByCanon`. It is a fixed total order on a variant's
  contents, so it depends only on the contents, as sorting by
  `CanonicalString` does.
- **Error values.** Error messages and paths are reduced to error kinds.
- **Map order inside a merge.** The merge visits `bProps` keys in one fixed
  order. Only which error a failing merge reports can depend on that order.

### The decider (`CompatRules`, `Compat`)

Each function of compat.go is an operator of the same name. Schemas are
maps of the heap, as in the normalizer.

- **No errors.** The decider never returns an error, so its result is a
  Boolean.
- **Loops are quantifiers.** Each loop over a Go map stops at its first
  `false`, so it is a quantifier.
- **Ordered if-chains.** The code's ordered if-chains
  (`effectiveLowerBound`, `compatConstEnum`) stay ordered `IF`s. A `CASE`
  with overlapping arms would leave the choice of arm open.
- **Equality.** `canonicalKey` equality is equality of the model's values.

`Compat`'s state is one call of a caller:

- `op`, `tgt`, `cand` and `verdict`;
- the actions `CallInputCompatible` and `CallOutputCompatible` (the
  normalized schemas are handed to the decider);
- `Return`, back to idle. The decider keeps nothing between calls
  (spec.md line 169).

### The reference validator (`MCCompat`)

`Accepts(h, m, x)` says whether schema `m` accepts JSON instance `x`. It gives
each profile keyword its JSON Schema meaning, with `oneOf` as "exactly
one". `Lang(s)` is the set of instances of `Instances` that schema `s`
accepts.

The spec's glossary (lines 243-244) defines the two directions:

- **input** compatibility is `Lang(tgt) \subseteq Lang(cand)`;
- **output** compatibility is `Lang(cand) \subseteq Lang(tgt)`.

Numbers are in half units (`Num(k)` is k/2), so that the instances hold
both integers and non-integers.

The heap holds 51 normalized schemas, checked by an `ASSUME` with the
normal-form predicate:

- leaves with each type, bound kind, length bound, enum and const;
- untyped leaves;
- objects with required, closed or schema-valued additionalProperties;
- arrays with items and item counts;
- anyOf and oneOf unions.

Besides these there are 21 instances, five of them objects.

## Runs

### Normalizer runs

These runs use `MCNormalizer` with `MaxDepth = 8`. The passing run's document
exercises these behaviours:

- refs to definitions that hold further refs;
- a self-referencing ref, directly (`#/B`) and through `items` (`#/E`), both
  expected to fail with "cycle detected";
- a ref to a missing pointer;
- allOf branches that are refs;
- allOf branches with conflicting `type` (SchemaError);
- nested properties;
- additionalProperties as a bool and as a schema;
- items;
- oneOf and anyOf with variants in non-canonical order;
- annotations and `$defs`;
- a keyword outside the profile;
- a nil schema.

It also runs both one-schema and two-schema call series.

| Run | cfg | Expect | Shows |
|---|---|---|---|
| `normalizer_safety` | `MCNormalizer.cfg` | pass | `TypeOK`; `RefStackIsHeldRefs` (refStack is exactly the keys whose cleanup a live frame holds, across returns, errors at any depth and consecutive calls); `NoRecursionLoop` (the frame stack never reaches the depth bound, so every call terminates); `NormalizedOutputs` (every returned schema is in the spec's normal form, variants in canonical order); `CallsRefinement` (the Normalizer implements `NormalizerCalls`: a call fails or yields exactly one map per schema, and only then ends "ok"; that the maps are normalized is `NormalizedOutputs`' part) |
| `allof_ref_recursion` | `MCNormalizer_AllOfLoop.cfg` | violation of `NoRecursionLoop` | Self-reference through an allOf `$ref` under a property recurses without bound |
| `input_mutation` | `MCNormalizer_Mutation.cfg` | violation of `InputsUnchanged` | Two allOf branches declaring the same object property make the merge write into the root document |
| `blank_ref` | `MCNormalizer_BlankRef.cfg` | violation of `NormalizedOutputs` | `{"$ref": ""}` is returned with its `$ref` |

### Why these bounds are enough

- **Depth.** Every passing document stays below 8 frames (`NoRecursionLoop`
  holds on all of them), so the bound is reached only by unbounded
  recursion.
- **Cycle check.** A ref is held across nested recursions (`#/C` through
  its property to `#/A`), and a ref is found again while it is held (`#/B`,
  `#/E`).
- **Merge conflicts and aliasing.** Need two branches and one nested property.

Every action and every branch of every action fires in the passing run. Each
of its five properties is broken by a mutant of the code under the same cfg:

| Mutant | Breaks |
|---|---|
| a return without the deferred cleanup | `RefStackIsHeldRefs` |
| resolveRef without the cycle check | `NoRecursionLoop` |
| stripping only `$defs`, not the annotations | `NormalizedOutputs` |
| a nil schema returned as nil | `TypeOK` |
| a call that ends "ok" once no frame is live, with schemas still pending | `CallsRefinement` |

### Not exercised

- `HasBase` and `HasFetch` are FALSE in every run. The external-fetch
  branches of `ResolveRef` are in the model, but only their
  "no fetcher" error is reached.

### Decider runs

All decider runs use `MCCompat`. Each run chooses its set of schemas
(`Schemas`).

`TypedSchemas` holds the typed, non-object schemas without both const and
enum, plus anyOf unions and Top. On it, the decider's rules are right. Each
violation run adds one kind of schema to it, and TLC finds the gap that
kind opens.

| Run | cfg | Expect | Shows |
|---|---|---|---|
| `compat_laws` | `MCCompat.cfg` | pass | See below |
| `input_soundness` | `MCCompat_Typed.cfg` | violation of `InputSound` | `{type:[number], minimum:0}` is input-compatible with `{type:[integer]}` |
| `output_untyped` | `MCCompat_Untyped.cfg` | violation of `OutputSound` | `{maximum:2}` is output-compatible with `{minimum:0}` |
| `output_open_objects` | `MCCompat_OpenObjects.cfg` | violation of `OutputSound` | `{type:[object]}` is output-compatible with `{type:[object], properties:{p:{type:[integer]}}}` |
| `output_closed_objects` | `MCCompat_ClosedObjects.cfg` | violation of `OutputSound` | `{type:[object], properties:{p:{}}, additionalProperties:false}` is output-compatible with `{type:[object], additionalProperties:{type:[integer]}}` |
| `output_oneof` | `MCCompat_OneOf.cfg` | violation of `OutputSound` | `anyOf{integer}` is output-compatible with `oneOf{integer, number}` |
| `output_const_and_enum` | `MCCompat_ConstEnum.cfg` | violation of `OutputSound` | `{enum:["a","ab"]}` is output-compatible with `{const:"a", enum:["a","ab"]}` |

`compat_laws` uses all 51 schemas and checks three properties:

- `Reflexive`: every schema is compatible with itself in both directions.
- `TypedOutputSound`: on `TypedSchemas`, every true output verdict is sound.
- `TypedOutputTransitive`: on `TypedSchemas`, output compatibility is
  transitive.

Each property is broken by a mutant under the same cfg:

| Mutant | Breaks |
|---|---|
| equal bounds with the exclusive tie decided the wrong way round (`LowerBoundGreaterOrEqualTieInverted`) | `Reflexive` |
| an upper bound compared by value only, ignoring exclusivity (`UpperBoundLessOrEqualValueOnly`) | `TypedOutputSound` |
| a union compatible when some pair of variants is (`CompatUnionSomePair`) | `TypedOutputTransitive` |

Why these bounds are enough:

- **Instances.** Every bound of the schemas sits between two instance
  values, and one instance value lies on it. Each boundary is therefore
  probed from both sides and at the tie.
- **Strings.** Each string length bound is crossed by `""`, `"a"` and
  `"ab"`.
- **Arrays.** Each item count is crossed by arrays of 0, 1 and 2 elements.
- **Objects.** The object instances have a declared property `p` with either
  type, an undeclared property `q`, or neither.

## Findings

1. **allOf `$ref` recursion is not cycle-safe** (part_005:48).
   - `flattenAllOf` calls the branch ref's cleanup at once, which the spec
     itself prescribes (spec.md line 121).
   - It then normalizes the merged schema. A property that leads back to the
     same definition through another allOf `$ref` is therefore never on
     `refStack`.
   - The recursion has no depth limit, so the goroutine's stack overflows.
   - This contradicts "detects `$ref` cycles" and "cycle-safe" (spec.md
     lines 7 and 83).
2. **The input is mutated** (part_005:104, 118).
   - At the top level, `acc` is a fresh map and its `properties` map is
     fresh too (part_005:104), so nothing of the input is written there.
   - For a property both branches declare, `mergeAllOfBranch` recurses into
     a shallow clone of the first branch's property schema (part_005:118).
     Its `properties` map is still the input's, and the nested merge writes
     the second branch's nested properties into it.
   - This contradicts spec.md lines 54 and 173.
3. **A blank `$ref` survives normalization** (part_004:192). The code skips
   resolution for an empty `$ref` and copies the key to the output. The
   spec's normal form says "no `$ref`" (line 45), while its resolution rule
   covers only non-empty strings (line 98).

4. **Input compatibility is not the glossary's** (compat.go:504; spec gap).
   - On input, a keyword is compared only when both sides have it. This
     holds for bounds, const/enum and properties; additionalProperties is
     ignored.
   - A candidate may therefore reject instances the target accepts. This
     contradicts "the candidate accepts every instance the target accepts"
     (line 243).
   - The spec's detailed rules (lines 144, 148, 154) have the same shape.
5. **Untyped schemas skip every rule but const/enum** (compat.go:162; code
   bug). `hasType` is false without a type, while the comment at
   compat.go:44 says a missing type means all types.
6. **Output object rules miss two cases** (compat.go:317 and 319; spec gap,
   line 149).
   - A target property the candidate leaves undeclared under open
     additionalProperties is never compared.
   - A candidate property the target does not declare is never checked
     against the target's additionalProperties schema.
7. **oneOf is decided as anyOf** (compat.go:415; spec gap, line 159). An
   instance matching two target variants is rejected by the target.
8. **A target's const is ignored when it also has an enum** (compat.go:219;
   code bug against spec.md line 145). An allOf of a const and an enum
   merges to such a target.

The transitivity failures found in the full universe all come from these
gaps. On `TypedSchemas`, output compatibility is sound and transitive.

## Proofs (`NormalizerProofs`)

TLAPS proves, for every value of the constants (any refs, documents, merge
and sort operators, and depth bound):

- `InitIInv` and `NextIInv`: `IInv` is an inductive invariant.
- `RefStackIsHeldRefsInvariant`: `Spec => []RefStackIsHeldRefs`.
- `HeldDistinctInvariant`: `Spec => []HeldDistinct`. No two live frames hold
  the same key.
  It follows from `IInv` in both states of a step. With no frame live,
  refStack is `HeldRefs(<<>>) = {}`. A step that ends a call leaves no frame
  live, because a frame is live only while a call runs.

`IInv` is the conjunction of four facts. Each is needed:

- **`Shape(stack)`.** Every frame has the frame fields and a known pc. Frames
  below the top wait for a child, and a frame in "enter" holds nothing.
  - `Return` delivers into the caller, so the caller must be waiting.
  - `EnterRef` sets `held` on a frame in "enter", so that frame held nothing
    before.
- **`Disjoint(stack)`.** The held sets are pairwise disjoint. `Return`
  removes `Top.held` from `refStack`, which leaves the other frames' keys in
  place only if no other frame holds the same key.
- **`RefStackIsHeldRefs`.** The property itself. `ResolveRef`'s cycle check
  ensures that a key pushed by `EnterRef` is not yet held, which keeps the
  held sets disjoint.
- **A non-empty stack only while a call is running.** This is needed because
  `StartCall` resets `refStack` to `{}`.

## Proofs (`NormalizerCallsProofs`)

`CallsRefinementHolds` proves `Spec => CallsRefinement` for every value of
the constants. It assumes `DocsAssumption`: each document's calls are a
finite list of finite lists of schemas, as the Go slices are. The argument
is the usual one for a refinement:

- `InitCInv`: initial states satisfy `CInv` and map to `NormalizerCalls`'
  initial states.
- `NextCInv`: every step keeps `CInv` and maps to a `NormalizerCalls` step
  or a stutter.
- The conclusion follows by PTL.

What the theorem says about the maps is a count: a call that ends "ok"
has produced exactly one map per schema, each produced by the return of an
outermost `normalizeAt`. That those maps are in the spec's normal form is
checked by TLC only (`NormalizedOutputs`, run `normalizer_safety`).

`CInv` is `IInv` and the following facts:

- **A call's progress is counted.** The maps produced, plus the schemas
  still pending, plus one if a `normalizeAt` is live, equal the number of
  schemas of the call. Without this, `EndCall` could not be shown to be
  `Finish`, whose guard is that every schema has its map. The mutant
  `EndCallEarly` breaks exactly this.
- **The calls still to come are a suffix of the document's calls.** This
  lets the current call be named, as `input.calls[Len(input.calls) -
  Len(calls)]`.
- **A frame in "ret" holds a map.** This is why the outermost `Return` is a
  `Produce` of a map.
  - `Deliver` puts a map into the caller only when the child returns one.
  - The lemma `DeliverRet` states this.

The proof has one lemma per action. There are eleven `...Effect` lemmas
for the steps inside `normalizeAt`, and one lemma each for `Return`,
`StartCall`, `NextSchema` and `EndCall`. The lemmas on lists (`SuffixList`,
`SuffixStep`, `SuffixZero`, `ListAppend`, `ListTail`) are built on
`SequenceTheorems`.

## Proofs (`AllOfRulesProofs`)

The keyword rules of `mergeAllOfBranch` that do not recurse are proved
against spec.md 4.4.1. The theorems hold for every heap, accumulator and
branch.

- `IntersectTypesExact`. `intersectTypeSlices` is exact. The intersection
  admits a value exactly when both type sets admit it. This holds for an
  integral number, a number with a fraction, and a value of any other type.
  The intersection never names both "number" and "integer". So the
  SchemaError on an empty intersection is raised exactly when no value
  satisfies both branches.
- `MergeBoundsMostRestrictive`. Take a merged lower-bound keyword. A number
  passes it, in the numeric view, exactly when it passes the bounds of both
  sides; dually for upper bounds. `MergeBoundsFrame` adds the rest:
  - only the accumulator is written;
  - only bound keywords of the branch are added;
  - every kept bound is one of the two sides' own values.

  This covers the toFloat64 hazard. A non-numeric bound takes part as 0 and
  may be the value kept.
- `MergeConstAgrees`. The const merge fails exactly when both sides have
  different consts. It then fails with "schema" and leaves the heap as it
  was. Otherwise the merged const is each side's const.

`Put` in `Profile` is written as the function it denotes, not with TLC's
`:>` and `@@`, which the provers cannot unfold.

Some merge rules stay model-checked only:
- required: the value written is `SortedStrs` of the union;
- enum: the value written is `SelectSeq` of the intersection;
- properties, additionalProperties and items.

`SortedStrs` and `SelectSeq` are recursive functions, and the last three
rules are RECURSIVE operators.

## Proofs (`CompatProofs`)

These theorems hold for all schemas and all bound values. Numbers are
integers, which stand for any fixed grid of numbers: the rules only compare
them.

- `NumericBoundsOutputSound`. When `compatNumericBounds` accepts an output
  candidate, every number within the candidate's four bound keywords is
  within the target's.
  - `EffectiveLowerBoundExact` and `EffectiveUpperBoundExact` show that the
    single bound the code keeps admits exactly what both keywords admit.
  - `LowerBoundGreaterOrEqualAdmits` and `UpperBoundLessOrEqualAdmits` show
    that the comparisons order bounds by what they admit.
- `NumericBoundsPreorder`. The numeric rule is reflexive in both directions
  and transitive on output.
- `SimpleBoundsOutputSound`. The same as `NumericBoundsOutputSound` for
  lengths and item counts.
- `ConstEnumOutputSound`. The output const/enum rule is sound for every
  target without both const and enum, which is exactly what finding 8 needs.
- `ConstEnumInputSound`. The input const/enum rule is sound unless the
  candidate constrains a value the target leaves free (finding 4). A
  candidate with both const and enum is compared by its const alone, so the
  theorem covers it only when that const is among its enum values. The
  candidates it leaves out have a const outside their own enum and accept
  no value.

Enum arrays are assumed finite, as JSON arrays are.

### What stays out of the prover's reach

- **TypeOK.** Proving it needs what recursive functions (`ResolvePointer`'s
  walk, `FlattenAllOf`'s steps) and the constant operator `MergeBranch`
  return. These are opaque to the provers, so TypeOK is model-checked only.
- **NoRecursionLoop.** It is a consequence of the documents, not of the code,
  and so it is model-checked only.
- **NormalizedOutputs.** It uses `RECURSIVE` operators, which are kept out of
  the proved modules, so it is model-checked only.
- **The decider as a whole.** `compat`, `compatObject` and `compatUnion` are
  mutually recursive over the schema tree. They are RECURSIVE operators, and
  a statement about them for every schema would need induction over data,
  which the installed provers cannot do. `TypedOutputSound`,
  `TypedOutputTransitive` and `Reflexive` are therefore model-checked only.
  The proved theorems cover the non-recursive rules they are built from.
- **Liveness and ENABLED.** These are beyond TLAPS. No liveness property is
  stated yet; the code is sequential, and termination is the safety property
  `NoRecursionLoop` on bounded documents.

## Fairness

None is assumed. The normalizer and the decider are single-threaded and
stateless per call (spec.md line 169), and all properties are safety
properties.

## Not modelled

- **`canonicalKey` and `equalJSONValue`** (compat.go:474-486). Equality of
  canonical JSON is equality of the model's values.
- **`canonicaljson`.** An RFC 8785 encoder, abstracted as `SortByCanon`.
- **`types.go` and lossless JSON (part_006).** Encoding and decoding only.
- **`version.go`.** Semver parsing.
- **`formattoken` (part_007).** String parsing.
- **Test files.** Parts of the unnamed files are conformance tests.
