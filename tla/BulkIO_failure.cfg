SPECIFICATION FairSpec
CONSTANTS
  Answers <- MCAnswers
  Payloads <- MCPayloads
  Requests <- MCRequests
  Links <- MCFailing
  MaxPackets = 2
  MaxSends = 0
INVARIANTS
  FailureReported
CHECK_DEADLOCK FALSE
