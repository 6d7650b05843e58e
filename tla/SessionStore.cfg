SPECIFICATION Spec
CONSTANTS
  None = None
  SessionTtl = 2
  MaxRecentHashes = 2
  ThreeStrikeThreshold = 2
  Callers = {c1, c2, c3}
  Sessions = {s1}
  Models = {m1, m2}
  Hashes = {h1, h2}
  MaxTime = 3
  MaxLog = 3
INVARIANTS
  TypeOK
  CallersAgree
  EscalatedAfterThreeStrikes
PROPERTIES
  LiveSessionsAreSticky
  ImplementsStickySessions
