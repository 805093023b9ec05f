SPECIFICATION Spec
CONSTANTS
  Radix = 2
  UsizeMax = 255
  MaxLen = 7
  Structs <- MCStructs
  Unions <- MCUnions
  Fields <- MCFields
  Variants <- MCVariants
  Tops <- MCTops
  Callers = {}
  Buffers <- MCBuffers
INVARIANT
  AllocationIsCapped
