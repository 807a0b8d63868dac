SPECIFICATION QueueSpec
CONSTANTS
  NumRecvSlots = 2
  MaxRecvWr = 3
  RecvCompCap = 1
  Kinds = {"ack", "probe", "small", "error"}
  MaxPackets = 5
  c1 = c1
  c2 = c2
  Callers <- TwoCallers
  Loop = c1
  NumSendSlots = 2
  SendCompCap = 1
  ErrCap = 1
  MaxSends = 4
  MaxRecvErrors = 1
INVARIANTS ReceivesConserved SenderSound LagBounded IntactUnlessLapped
CHECK_DEADLOCK FALSE
