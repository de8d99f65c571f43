CONSTANTS
  doc0 = doc0  elemA = elemA  elemB = elemB  leaf1 = leaf1
  NULL = NULL  Garbage = Garbage
  Root = doc0
  Elements = {doc0, elemA, elemB}
  Leaves = {leaf1}
  MaxChildren = 3
  Edits = FALSE
SPECIFICATION Spec
INVARIANT ParentChildAgree
PROPERTY InitializeAdoptsDocument
