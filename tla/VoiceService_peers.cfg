SPECIFICATION Spec
CONSTANTS
  Hosts = {h1, h2}
  OutStreams = {s1, s2, s3}
  InStreams = {i1}
  None = None
  QueueMin = 1
  QueueMax = 2
SYMMETRY Symmetry
INVARIANTS
  OneStreamPerPeer
  EveryFriendTended
  TalkTold
  FriendsHeard
