CONSTANTS
  t1 = t1  t2 = t2  t3 = t3
  locker1 = locker1  mutex1 = mutex1
  NoOwner = NoOwner
  Threads <- MCThreads
  Lockers <- MCLockers
  Mutexes <- MCMutexes
  Rounds = 2
  Elide = TRUE
SPECIFICATION Spec
CHECK_DEADLOCK FALSE
INVARIANTS NoLostUpdate OwnerInScope
PROPERTY AllScopesComplete
