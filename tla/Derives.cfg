SPECIFICATION Spec
CONSTANTS
  Types <- DeriveTypes
  CustomLabels <- MCCustomLabels
  FieldDecls <- DeriveDecls
  Inputs <- Derives
  IdlIdentifiers <- MCIdlIdentifiers
INVARIANTS
  TypeOK
  NoMacroPanic
  DecoderExists
  LabelsDescribeWire
  LayoutIsDecided
  AcceptsGrammar
