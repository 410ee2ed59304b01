SPECIFICATION Spec
CONSTANTS
  s1 = s1
  s2 = s2
  s3 = s3
  l1 = l1
  l2 = l2
  short = short
  long = long
  Saves = {s1, s2, s3}
  Loads = {l1}
  Data = {short, long}
  DataOf <- MCDataOf
  Size <- MCSize
  NoFile = NoFile
  Old = Old
  Hole = Hole
  Sizes <- MCSizes
  Payloads <- MCPayloads
  Paddings = {0, 1, 2}
  Texts <- MCTexts
INVARIANT ConfigParseable
CHECK_DEADLOCK FALSE
