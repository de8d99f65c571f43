CONSTANTS
  c1 = c1  c2 = c2  c3 = c3  c4 = c4  c5 = c5
  o1 = o1  o2 = o2
  Clients <- MCClients
  Others <- MCOthers
  FailAt = {7}
SPECIFICATION Spec
INVARIANTS TypeOK NoUseAfterTeardown ReleasedWhenUnused
PROPERTY SceneLibraryRefined
