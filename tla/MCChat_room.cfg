SPECIFICATION Spec
CONSTANTS
  v1 = v1
  s1 = s1
  s2 = s2
  k1 = k1
  c1 = c1
  c2 = c2
  m1 = m1
  m2 = m2
  h1 = h1
  h2 = h2
  Visitors = {v1}
  Staff = {s1}
  NoSocket = NoSocket
  Keys = {k1}
  NoKey = NoKey
  Conversations = {c1}
  NoConversation = NoConversation
  Messages = {m1, m2}
  NoMessage = NoMessage
  Handlers = {h1, h2}
  TTL = 1
  MaxTime = 1
SYMMETRY Symmetry
INVARIANTS TypeOK RevokedHearNothing BadgeKeepsWaiting NothingMissed
CHECK_DEADLOCK FALSE
