SPECIFICATION FairSpec
CONSTANTS
  s1 = s1
  s2 = s2
  n1 = n1
  n2 = n2
  NoLink = NoLink
  NoPeer = NoPeer
  Nobody = Nobody
  Senders = {s1, s2}
  Peers = {n1, n2}
  Kind <- BothEnsure
  Order <- TwoPeers
  Links = {l1, l2}
  Flaky = {}
PROPERTY CallsReturn
CHECK_DEADLOCK FALSE
