SPECIFICATION Spec
CONSTANTS
  s1 = s1
  s2 = s2
  n1 = n1
  n2 = n2
  NoLink = NoLink
  NoPeer = NoPeer
  Nobody = Nobody
  Senders = {s1, s2}
  Peers = {n1, n2}
  Kind <- RetryAndEnsure
  Order <- RetryOrder
  Links = {l1, l2, l3}
  Flaky = {l1, l2, l3}
INVARIANT RightPeer
INVARIANT NoLockWhileWaiting
PROPERTY EvictsOwn
CHECK_DEADLOCK FALSE
SYMMETRY LinkSymmetry
