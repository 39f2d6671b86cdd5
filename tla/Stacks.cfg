SPECIFICATION Spec
CONSTANTS
  WIDTH = 16
  MAXIMUM_BINARY_LENGTH = 32
  Format <- MCFormat
  LongestFormat = 4
  Argument <- MCArgument
  Frame <- MCFrame
  Leaf <- MCLeaf
INVARIANTS
  TypeOK
  PrintsTheNumber
  StaysInRoom
PROPERTIES
  Finishes
