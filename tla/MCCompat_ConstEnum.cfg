\* Output verdicts with schemas carrying both const and enum.
CONSTANTS
  Order <- MCOrder
  H <- MCH
  Schemas <- MCSchemasConstEnum
INIT Init
NEXT Next
INVARIANT OutputSound
