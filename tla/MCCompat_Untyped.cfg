\* Output verdicts with schemas that have no type.
CONSTANTS
  Order <- MCOrder
  H <- MCH
  Schemas <- MCSchemasUntyped
INIT Init
NEXT Next
INVARIANT OutputSound
