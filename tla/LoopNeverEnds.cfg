SPECIFICATION FairLoopSpec
CONSTANTS
  a = a  b = b  c = c  d = d  None = None
  StageId <- MCStages
  Stages <- MCStages
  Deps <- MCDeps
  Conditions <- NoConditions
  Position <- MCPosition
  Adapter = TRUE
  Clients = {o}
  Updates = {}
  Buttons = {}
CHECK_DEADLOCK FALSE
PROPERTY ReachesCompleted
