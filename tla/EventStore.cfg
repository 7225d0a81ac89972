SPECIFICATION FairSpec
CONSTANTS
  p1 = p1
  p2 = p2
  w1 = w1
  w2 = w2
  s1 = s1
  NoOne = NoOne
  Proc = {p1, p2}
  Writer = {w1, w2}
  Subscriber = {s1}
  Home <- MCHome
  Stream = {"a"}
  Type = {"x", "y"}
  Wants <- MCWants
  Hash <- MCHash
  GENESIS_HASH = GENESIS_HASH
  Expected <- MCExpected
  Limit = 2
  MaxCalls = 3
  MaxCrashes = 1
INVARIANTS
  ChainOK
  SubscriberExact
  NoLostWakeup
PROPERTIES
  ImplementsLog
  EventuallySeen
