CONSTANTS
  ReqBytes = 3
  AnsBytes = 2
  MaxCalls = 6
SPECIFICATION Spec
INVARIANT TypeOK
INVARIANT FlagGuardsTransfer
INVARIANT InOrder
INVARIANT AnswerTaken
PROPERTY CallReturns
PROPERTY EndDelivered
CHECK_DEADLOCK FALSE
