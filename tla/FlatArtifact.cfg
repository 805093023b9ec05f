SPECIFICATION Spec
CONSTANTS
  Builders = {"cargo", "analyzer"}
  Exporter = "exporter"
  Release = "cargo"
  Crate <- Mixed
  Size <- MCSize
  IdlPath = "idl.json"
  ExportPath = "artifacts/idl.json"
  MaxMishaps = 0
INVARIANT
  FlatArtifactInPlace
