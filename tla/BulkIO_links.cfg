SPECIFICATION FairSpec
CONSTANTS
  Answers <- MCAnswers
  Payloads <- MCPayloads
  Requests <- MCRequests
  Links <- MCLinks
  MaxPackets = 3
  MaxSends = 1
INVARIANTS
  SendCountHonest
  UnansweredIsWhole
  CommandsFit
  EarlyAckAgrees
PROPERTIES
  IOReturns
  PacketPipeSpec
CHECK_DEADLOCK FALSE
