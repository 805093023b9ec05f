SPECIFICATION Spec
CONSTANTS
  Types <- NoTypes
  CustomLabels <- MCLabels
  Sources <- MCSources
INVARIANTS
  TypeOK
  PublishedIsComplete
  ExportIgnoresOrder
  TablesAgree
  DocumentTellsLayout
