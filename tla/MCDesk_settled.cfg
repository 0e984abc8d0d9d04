SPECIFICATION AllSpec
CONSTANTS
  Creations = {c1, c2, c3}
  Uses = {u1, u2}
  Revokers = {v1}
  MaxKeys = 1
  Signups = {n1, n2}
  Emails = {e1, e2}
  Names = {shop, clinic}
  Browsers = {b1}
  Lengths = {0, 1, 2, 3, 4, 5, 6, 7, 8, 9}
  Targets = {1, 2, 3, 4}
  Overlaps = {0, 1, 2, 3, 4, 5}
  Docs = {k1, k2}
  Servers = {p1, p2}
  Mortal = {p2}
  Unlucky = {k2}
  Sessions = {s1, s2}
  Chats = {s2}
  MaxRows = 2
INVARIANTS
  KeysBounded
  ChunksAreRight
  TypeOK
  OnlyCommittedAnnounced
PROPERTIES
  KeysServed
  SignupsEnd
  IndexSound
  EveryJobSettles
  EveryCommitAnnounced
CHECK_DEADLOCK FALSE
