SPECIFICATION FairSpec
CONSTANTS
  a = a
  b = b
  c = c
  k1 = k1
  k2 = k2
  r1 = r1
  r2 = r2
  p1 = p1
  p2 = p2
  p3 = p3
  p4 = p4
  p5 = p5
  NoLink = NoLink
  NoId = NoId
  NoRoom = NoRoom
  LongRoom = LongRoom
  NoEnv = NoEnv
  Links = {a, b}
  Ids = {k1}
  IdOf <- MCIdOf
  Rooms = {r1}
  Packets = {p1, p3}
  Traffic <- ReconnectTraffic
  MaxRoomsPerSession = 1
  Flaky = {}
  Welcomed = {a}
  MayClose = TRUE
PROPERTY GoroutinesFinish
PROPERTY HelloAnswered
CHECK_DEADLOCK FALSE
