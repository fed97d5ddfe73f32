SPECIFICATION Spec
CONSTANTS
  Elements <- MCElements
  Pdfs <- MCPdfs
  Declarations <- MCDeclarations
  Dimensions <- MCDimensions
  Components <- MCComponents
  Order <- MCOrder
  Workspaces = {w1, w2}
SYMMETRY Symmetry
INVARIANTS
  RegisteredIffComplete
  DependantsFirst
  FaultsExplained
CHECK_DEADLOCK FALSE
