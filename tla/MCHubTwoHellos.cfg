SPECIFICATION Spec
CONSTANTS
  a = a
  b = b
  c = c
  k1 = k1
  k2 = k2
  r1 = r1
  r2 = r2
  p1 = p1
  p2 = p2
  p3 = p3
  p4 = p4
  p5 = p5
  NoLink = NoLink
  NoId = NoId
  NoRoom = NoRoom
  LongRoom = LongRoom
  NoEnv = NoEnv
  Links = {a}
  Ids = {k1}
  IdOf <- MCIdOf
  Rooms = {r1}
  Packets = {p1, p2}
  Traffic <- TwoHelloTraffic
  MaxRoomsPerSession = 1
  Flaky = {}
  Welcomed = {}
  MayClose = FALSE
INVARIANT OneWelcome
CHECK_DEADLOCK FALSE
