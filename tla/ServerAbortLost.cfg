SPECIFICATION Spec
CONSTANTS
  a = a  b = b  None = None
  StageId <- MCStages
  Stages <- MCStages
  Deps <- MCDeps
  Conditions <- NoConditions
  Position <- MCPosition
  Adapter = TRUE
  Clients = {p}
  Buttons = {"abort"}
  Updates <- ProgressOnly
PROPERTY AbortIsFinal
