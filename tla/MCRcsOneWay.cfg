CONSTANTS
  Byte = {"a", "b", "c", "d", "e"}
  Mark = "eos"
  SeqCount = 5
  MaxData = 2
  FinSeqnum = 3
  Evil = {"truncate", "void", "corrupt", "drop"}
  Socket = {client, server}
  Client = client
  Server = server
  Garbage = garbage
  Unset = unset
  Capacity = 3
  Path = "fifo"
  LingerOutlastsRetries = FALSE
  Script <- Streaming
  Sender = server
  Receiver = client
SPECIFICATION BufferedSpec
INVARIANTS TypeOK InOrder AckedIsAccepted NothingLost OneSendPerRecv EofIsEnd StreamInv OneWayInv DequeInv DequeIsStream
PROPERTIES HandsOff
