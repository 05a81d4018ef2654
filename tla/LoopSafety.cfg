SPECIFICATION TelemetrySpec
CONSTANTS
  a = a  b = b  c = c  None = None
  StageId <- MCStages
  Stages <- MCStages
  Deps <- MCDeps
  Conditions <- NoConditions
  Position <- MCPosition
  Adapter = TRUE
  Clients = {o}
  Updates = {}
  Buttons = {"pause", "resume", "abort"}
  Capacity = 2
  Spellings <- MCSpellings
  MaxInsights = 3
INVARIANTS TypeOK ProgressRespectsDeps WorkIsReady SummaryAgrees AnalyticsAddUp ViewIsCurrent
PROPERTIES ProgressKept AbortTimeKept
