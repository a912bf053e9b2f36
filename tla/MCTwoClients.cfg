CONSTANTS
  listener = listener  child1 = child1  child2 = child2
  client1 = client1  client2 = client2
  Byte = {"a", "b", "c", "connect", child1, child2}
  Mark = "eos"
  SeqCount = 5
  MaxData = 1
  FinSeqnum = 3
  Evil = {}
  Socket = {listener, child1, child2, client1, client2}
  Listener = listener
  Children <- TwoChildren
  Client = {client1, client2}
  Script <- TwoClients
  Request = "connect"
  BufSize = 2
  Garbage = garbage
  Unset = unset
  Capacity = 6
  Path = "loopback"
  LingerOutlastsRetries = TRUE
SPECIFICATION Spec
INVARIANTS Joined
