SPECIFICATION FairSpec
CONSTANTS
  Callers = {"c1", "c2"}
  Ops = {"read", "write"}
  Asks <- MCAsks
  RetryCount = 1
  RetryInterval = 100
  MaxRequest = 2
  NoOne = NoOne
  None = None
INVARIANTS RetryBudget ReplyIsOwn
PROPERTIES ResultKept CloseReturns ImplementsPort
