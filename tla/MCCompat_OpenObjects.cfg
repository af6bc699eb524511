\* Output verdicts with object schemas whose additionalProperties is open.
CONSTANTS
  Order <- MCOrder
  H <- MCH
  Schemas <- MCSchemasOpenObjects
INIT Init
NEXT Next
INVARIANT OutputSound
