SPECIFICATION SerialSpec
CONSTANTS
  i1 = i1
  Nodes = {n1, n2}
  IPs = {i1}
  Objects = {o1, o2}
  Accepts <- OneFilter
  Writers = {w1, w2}
  Restored = {n1}
  MaxConsecutiveFailures = 1
  Unbuildable = {n2}
  Flaky = {}
  NoIP = NoIP
  NoNode = NoNode
  NoObject = NoObject
INVARIANTS
  NoStaleMember
  NoMissingMember
PROPERTY WorkEnds
