CONSTANTS
  s1 = s1
  c1 = c1
  listener = listener
  hello = hello
  serial = serial
  Listener <- listener
  Hello <- hello
  Serial <- serial
  Sessions <- OneSession
  Clients <- OneClient
  MAX_DEVICES = 14
  Arrivals <- SomeArrivals
SPECIFICATION FairSpec
INVARIANTS TypeOK NoDanglingSlot NoStaleIdx PollFindsDevice AllPolled
PROPERTIES NoStarvation
