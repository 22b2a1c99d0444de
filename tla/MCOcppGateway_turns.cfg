SPECIFICATION Spec
SYMMETRY Interchangeable
CONSTANTS
  s1 = s1
  s2 = s2
  g1 = g1
  g2 = g2
  cmd = cmd
  m1 = m1
  Sockets = {s1, s2}
  Instances = {g1, g2}
  Commands = {cmd}
  Reserving = {cmd}
  Messages = {m1}
  Overlap = FALSE
  NoSocket = NoSocket
INVARIANTS
  TypeOK
  NoGhostEntry
  RegisteredIsReachable
  AnswerIsCorrelated
  ConfirmedIsPublished
CHECK_DEADLOCK FALSE
