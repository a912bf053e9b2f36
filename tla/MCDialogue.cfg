CONSTANTS
  Byte = {"a", "b", "c", "d"}
  Mark = "eos"
  SeqCount = 5
  MaxData = 1
  FinSeqnum = 3
  Evil = {"truncate", "void", "corrupt", "drop"}
  Socket = {client, server}
  Client = client
  Server = server
  Garbage = garbage
  Unset = unset
  Capacity = 3
  Path = "fifo"
  LingerOutlastsRetries = FALSE
  Script <- Dialogue
SPECIFICATION Spec
INVARIANTS TurnsInv
PROPERTIES ClientHandsOff ServerHandsOff
