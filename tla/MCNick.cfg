SPECIFICATION Spec
CONSTANTS
  c1 = c1
  c2 = c2
  c3 = c3
  c4 = c4
  c5 = c5
  r1 = r1
  NoRoom = NoRoom
  Nobody = Nobody
  Calls = {c1, c2, c3, c4, c5}
  Op <- MCOp
  RoomOf <- MCRoomOf
  Rooms = {r1}
  Flaky = TRUE
  IdentityLength = 2
  MessageIDLength = 1
  MaxNickBytes = 3
  Cbor <- MCCbor
  Decodable <- MCDecodable
  Numbers = {0, 1}
  ByteStrings <- MCByteStrings
  Strings <- MCStrings
  Bodies <- MCBodies
  Capabilities <- MCCapabilities
  Raws <- MCRaws
  Nested <- MCNested
  Characters = {"a", " ", "nl", "ctl"}
  Nicks <- MCNicks
INVARIANT NickIdempotent
CHECK_DEADLOCK FALSE
