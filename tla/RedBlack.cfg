SPECIFICATION Spec
CONSTANTS
  Size = 10
  Node <- Elems
  Key <- KeyOf
INVARIANTS
  ReadsAgree
  Balanced
PROPERTIES
  ImplementsOrderedSet
  LoopsEnd
