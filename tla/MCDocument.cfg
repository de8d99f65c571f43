CONSTANTS
  empty = empty  managed1 = managed1  plain1 = plain1
  l1 = l1  l2 = l2
  Paths <- MCPaths
  EmptyPath = empty
  Managed = {managed1}
  Revision <- MCRevision
  FailedRevision = 0
  Listeners <- MCListeners
  MaxDepth = 2
  MaxCalls = 4
SPECIFICATION Spec
CHECK_DEADLOCK FALSE
INVARIANT ModifiedViewCurrent
