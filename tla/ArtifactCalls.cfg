SPECIFICATION Spec
CONSTANTS
  None = None
  Torn = Torn
  Clients = {c, d}
  Ids = {i, j}
  Executions = {e, f}
  Name = {n, m}
  Contents = {small, large, huge}
  Large = {large, huge}
  Reuse = FALSE
INVARIANTS TypeOK RowsBacked FilesOwned
PROPERTIES ReadsOwnContent ImplementsStore
SYMMETRY Symmetry
