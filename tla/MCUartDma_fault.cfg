CONSTANTS
  ReqBytes = 3
  AnsBytes = 2
  MaxCalls = 3
SPECIFICATION Spec
PROPERTY FaultEndsSession
CHECK_DEADLOCK FALSE
