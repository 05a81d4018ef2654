SPECIFICATION DocSpec
CONSTANTS
  a = a  b = b  c = c  d = d  u = u  self = self  None = None
  Names <- MCNames
  Stages <- MCStages
  Position <- MCPosition
  Graphs <- MCGraphs
  Arn <- MCArn
  Docs <- MCDocs
CHECK_DEADLOCK FALSE
INVARIANTS TypeOK CycleFoundExactly SortSucceeds OrderRespectsDeps GroupsFollowDeps LevelsAgree WarningsPredict DagShowsAll VerdictOfText
