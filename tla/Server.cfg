SPECIFICATION ServerSpec
CONSTANTS
  Producer = {p1, p2, p3}
  Message = {m1, m2}
  Nothing = Nothing
  MaxPushes = 3
  Session = {s1, s2}
  Nobody = Nobody
  MaxMessages = 4
  hover = hover
  suggestion = suggestion
  Holder = {h1, h2}
  Uri = {u1, u2}
  DiagFile = {d1}
  MaxRequests = 4
  MaxParses = 3
  MaxPublish = 2
CHECK_DEADLOCK FALSE
INVARIANTS
  WakeupPending
  SessionsReachable
  ClientIsAnswered
PROPERTIES
  ImplementsMessageQueue
  RequestsAreServed
