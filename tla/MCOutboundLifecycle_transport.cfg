SPECIFICATION OutboundSpec
CONSTANTS
  Entries = {e1, e2}
  Outbounds = {o1, o2}
  Callers = {g1, g2, g3}
  NoEntry = NoEntry
  NoOutbound = NoOutbound
INVARIANT TransportDialsOpenOutbound
SYMMETRY Symmetry
CHECK_DEADLOCK FALSE
