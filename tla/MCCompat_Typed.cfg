\* Input verdicts on the typed schemas against the glossary meaning.
CONSTANTS
  Order <- MCOrder
  H <- MCH
  Schemas <- MCSchemasTyped
INIT Init
NEXT Next
INVARIANT InputSound
