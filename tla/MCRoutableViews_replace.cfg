SPECIFICATION Spec
CONSTANTS
  i1 = i1
  Nodes = {n1}
  IPs = {i1}
  Objects = {o1, o2}
  Accepts <- OneFilter
  Writers = {w1, w2}
  Restored = {}
  MaxConsecutiveFailures = 1
  Unbuildable = {}
  Flaky = {}
  NoIP = NoIP
  NoNode = NoNode
  NoObject = NoObject
INVARIANT
  NoStaleMember
