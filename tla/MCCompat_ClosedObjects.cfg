\* Output verdicts with object schemas that close or bound additional properties.
CONSTANTS
  Order <- MCOrder
  H <- MCH
  Schemas <- MCSchemasClosedObjects
INIT Init
NEXT Next
INVARIANT OutputSound
