CONSTANTS
  listener = listener  child1 = child1  child2 = child2
  client1 = client1  client2 = client2
  Byte = {"a", "b", "c", "connect", child1, child2}
  Mark = "eos"
  SeqCount = 5
  MaxData = 1
  FinSeqnum = 3
  Evil = {"truncate", "corrupt", "drop"}
  Socket = {listener, child1, child2, client1}
  Listener = listener
  Children <- TwoChildren
  Client = {client1}
  Script <- OneClient
  Request = "connect"
  BufSize = 2
  Garbage = garbage
  Unset = unset
  Capacity = 2
  Path = "loopback"
  LingerOutlastsRetries = TRUE
SPECIFICATION FairSpec
INVARIANTS FileIsWhole
PROPERTIES RequestThenFile PortHandedOver FileArrives
