SPECIFICATION FairSpec
CONSTANTS
  left = left
  opened = opened
  audit = audit
  reassign = reassign
  p1 = p1
  p2 = p2
  Processes = {p1, p2}
  Events = {left, opened}
  Handlers = {audit, reassign}
  handlersFor <- Registry
  Free = Free
  BatchSize = 2
  MaxAttempts = 3
  MaxFaults <- NoFaults
  DispatcherBypassesRls = FALSE
PROPERTIES EveryEventHandled
CHECK_DEADLOCK FALSE
