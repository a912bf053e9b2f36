CONSTANTS
  Byte = {"a", "b", "c", "d"}
  Mark = "eos"
  SeqCount = 5
  MaxData = 1
  FinSeqnum = 3
  Evil = {"drop"}
  Socket = {client, server}
  Client = client
  Server = server
  Garbage = garbage
  Unset = unset
  Capacity = 2
  Path = "loopback"
  LingerOutlastsRetries = TRUE
  Script <- Leftover
SPECIFICATION FairSpec
PROPERTIES RemainderIsRead
