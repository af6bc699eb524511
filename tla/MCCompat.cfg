\* The decider's laws: reflexivity on every schema of the heap, soundness
\* and transitivity of output compatibility on the typed fragment.
CONSTANTS
  Order <- MCOrder
  H <- MCH
  Schemas <- MCSchemas
INIT Init
NEXT Next
INVARIANTS
  Reflexive
  TypedOutputSound
  TypedOutputTransitive
