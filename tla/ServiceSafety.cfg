SPECIFICATION Spec
CONSTANTS
  a = a  b = b  c = c  d = d  x = x  None = None
  StageId <- MCStageId
  Stages <- MCStages
  Deps <- MCDeps
  Conditions <- MCConditions
  Position <- MCPosition
  Adapter = FALSE
  Callers = {p, q}
  OutputStatus = {"completed", "failed"}
SYMMETRY Symmetry
INVARIANTS TypeOK DependenciesHold 
PROPERTY CompletedStagesKept
