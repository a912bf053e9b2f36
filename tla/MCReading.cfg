CONSTANTS
  Byte = {"a", "b", "c", "d"}
  Mark = "eos"
  SeqCount = 5
  MaxData = 1
  FinSeqnum = 3
  Evil = {"void", "drop"}
  Socket = {client, server}
  Client = client
  Server = server
  Garbage = garbage
  Unset = unset
  Capacity = 2
  Path = "loopback"
  LingerOutlastsRetries = TRUE
  Script <- Reading
SPECIFICATION FairSpec
PROPERTIES SendReturns
