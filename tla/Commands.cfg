SPECIFICATION Spec
CONSTANTS
  None = None
  Unset = Unset
  NaN = NaN
  old = old
  short = short
  brief = brief
  Savers = {s1, s2}
  Loaders = {l}
  Keys <- MCKeys
  TextLen <- MCTextLen
  OldKey = old
  U64Max = 9
  DefaultMaxPayment = 5
  Gateway <- MCGateway
  Recipients = {gateway}
  ChatCaps = {0, 3}
  ProxyCaps <- MCProxyCaps
SYMMETRY Interchangeable
CHECK_DEADLOCK FALSE
INVARIANTS
  TypeOK
  SavedIsLoadable
  OldKeyNeedsForce
  LoadFindsSavedKey
  ClientsAreAsAsked
  ReportAgrees
