CONSTANTS
  typeA = typeA  typeB = typeB
  n1 = n1  n2 = n2  n3 = n3
  id1 = id1  id2 = id2  id3 = id3
  NULL = NULL
  NodeTypes = {typeA, typeB}
  Nodes = {n1, n2, n3}
  Transient = {n3}
  IdOf <- MCSharedId
SPECIFICATION Spec
INVARIANTS TableImpliesLink ListenersSeeInstances
