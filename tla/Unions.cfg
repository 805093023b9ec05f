SPECIFICATION Spec
CONSTANTS
  TagMax = 15
  VariantDecls <- MCVariantDecls
  Enums <- MCEnums
  IdlIdentifiers <- MCIdlIdentifiers
INVARIANTS
  TypeOK
  EveryVariantIsReached
  AcceptsUnions
