SPECIFICATION Spec
CONSTANTS
  Radix = 2
  UsizeMax = 22
  MaxLen = 11
  Structs <- MCStructs
  Unions <- MCUnions
  Fields <- MCFields
  Variants <- MCVariants
  Tops <- MCTops
  Callers = {}
  Buffers <- MCBuffers
INVARIANTS
  NoPanic
  ErrorIsTruthful
PROPERTIES
  
  ImplementsCodec
