SPECIFICATION Spec
CONSTANTS
  t1 = t1
  t2 = t2
  m1 = m1
  m2 = m2
  m3 = m3
  m4 = m4
  m5 = m5
  p1 = p1
  p2 = p2
  r1 = r1
  r2 = r2
  r3 = r3
  Threads = {t1, t2}
  Messages = {m1, m2, m3, m4, m5}
  NoMessage = NoMessage
  Confs <- MCConfs
  Streams = {"s", "u"}
  StreamOf <- MCStreamOf
  Rejected <- MCRejected
  Ignored = {"u"}
  SampleRate = 1
  Group = 2
  Limit = 1
  DropsTo = TRUE
  Producers = {p1, p2}
  Routes <- MCRoutes
  Late = {r3}
  WildcardProducers = FALSE
  MaxTicks = 1
INVARIANTS
  SampleKeepsTurns
  RateHolds
  EndsOnce
  RoutesAreKept
  
CHECK_DEADLOCK FALSE
