SPECIFICATION Spec
CONSTANTS
  w = w  g = g  s = s  r = r  o = o  x = x  blank = blank  new = new  None = None  Torn = Torn
  Arn <- MCArn
  Names = {x}
  Kind <- MCKind
  Pathed = {w, g, s, r}
  Global = {w, g, s, r}
  Defaults <- MCDefaults
  Values = {new}
  Blank = blank
  Shipped <- MCShipped
  Texts <- MCTexts
  UserFiles <- MCUserFiles
  Clients = {p}
  MaxCalls = 1
  MaxCrashes = 0
CHECK_DEADLOCK FALSE
INVARIANT SavedIsReadable
