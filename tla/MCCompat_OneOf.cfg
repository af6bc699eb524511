\* Output verdicts with oneOf unions.
CONSTANTS
  Order <- MCOrder
  H <- MCH
  Schemas <- MCSchemasOneOf
INIT Init
NEXT Next
INVARIANT OutputSound
