SPECIFICATION Spec
CONSTANTS
  MaxId = 2
  Deadline = 2
  Workloads <- MCWorkloads
INVARIANTS ForwardedOnce OnlyDeadRetired RightReply BuffersLive
PROPERTIES TerminalIsFinal
CHECK_DEADLOCK FALSE
