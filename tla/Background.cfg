SPECIFICATION Spec
CONSTANTS
  Builders = {"cargo", "analyzer"}
  Exporter = "exporter"
  Release = "cargo"
  Crate <- Nesting
  Size <- MCSize
  IdlPath = "idl.json"
  ExportPath = "artifacts/idl.json"
  MaxMishaps = 1
INVARIANTS
  SameDocumentConverges
  CommitmentMatchesBinary
PROPERTY
  StaleFileIsGone
