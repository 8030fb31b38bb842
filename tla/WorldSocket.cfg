SPECIFICATION Spec
CONSTANTS
  p1 = p1
  p2 = p2
  p3 = p3
  w1 = w1
  w2 = w2
  net = net
  Item <- MCPacket
  SizeOf <- MCSizeOf
  Producer = {w1, w2, net}
  Net = net
  Stub = Stub
  Null = Null
  None = None
  Capacity = 2
CHECK_DEADLOCK FALSE
INVARIANTS QueueIsSound SessionIsNotUsedAfterFree
PROPERTIES StreamOfPackets RefusedIsClosed SentIsWritten
