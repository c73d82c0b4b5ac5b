SPECIFICATION PartsSpec
CONSTANTS
  k1 = k1
  k2 = k2
  w1 = w1
  w2 = w2
  w3 = w3
  Keys = {k1, k2}
  MarkFirst = {w1, w2}
  MarkLast = {w3}
  WritesTo <- LeaseAndNode
  MaxWrites = 4
  MaxFailures = 2
  MaxCrashes = 1
  Clients = {c1, c2}
  HttpQueueSize = 1
  LogEntries = {e1, e2}
  LogFiles = {f1, f2, f3}
  Readers = {q1}
  LogQueueSize = 2
  FlushBatch = 2
  MaxRows = 1
  RetainCount = 1
  MaxLogFaults = 1
  NoFile = NoFile
INVARIANTS
  SerialNotForgotten
  NoGhostRow
  NothingHeldAtEnd
  VerdictMatchesLog
  NothingSurvivesShutdown
  QuerySeesAccepted
PROPERTIES
  EventuallyPersisted
  TunnelEnds
  ShutdownEnds
  QueryReturns
CHECK_DEADLOCK FALSE
