SPECIFICATION Spec
CONSTANTS
  Radix = 2
  UsizeMax = 255
  MaxLen = 7
  Structs <- ShadowedStructs
  Unions = {}
  Fields <- ShadowedFields
  Variants <- NoVariants
  Tops <- ShadowedStructs
  Callers = {}
  Buffers <- MCBuffers
INVARIANT
  EncodedIsAccepted
