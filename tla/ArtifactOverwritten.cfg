SPECIFICATION Spec
CONSTANTS
  None = None
  Torn = Torn
  Clients = {c, d}
  Ids = {i, j}
  Executions = {e}
  Name = {n, m}
  Contents = {small, large, huge}
  Large = {large, huge}
  Reuse = TRUE
PROPERTY ReadsOwnContent
