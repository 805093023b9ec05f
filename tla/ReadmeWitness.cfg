SPECIFICATION Spec
CONSTANTS
  Types <- ReadmeTypes
  CustomLabels <- MCCustomLabels
  FieldDecls <- ReadmeDecls
  Inputs <- ReadmeWitness
  IdlIdentifiers <- ReadmeIdentifiers
INVARIANT
  ReadmeWitnessAccepted
