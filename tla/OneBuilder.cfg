SPECIFICATION Spec
CONSTANTS
  Builders = {"cargo"}
  Exporter = "exporter"
  Release = "cargo"
  Crate <- History
  Size <- MCSize
  IdlPath = "idl.json"
  ExportPath = "artifacts/idl.json"
  MaxMishaps = 2
INVARIANTS
  TypeOK
  SuccessLeavesArtifact
PROPERTIES
  ImplementsRegister
  Heals
