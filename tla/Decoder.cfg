SPECIFICATION Spec
CONSTANTS
  Radix = 2
  UsizeMax = 255
  MaxLen = 9
  Structs <- MCStructs
  Unions <- MCUnions
  Fields <- MCFields
  Variants <- MCVariants
  Tops <- MCTops
  Callers <- MCCallers
  Buffers <- MCBuffers
INVARIANTS
  TypeOK
  Tiling
  NoPanic
  AbsenceIsFinal
  ForgedCountIsHarmless
  ErrorIsTruthful
  CallerCursor
PROPERTY
  Answered
