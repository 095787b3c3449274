\* A node without inputs.
CONSTANTS
  Node <- MCGenerator
  Frames = {1, 2}
  Extent = 4
SPECIFICATION Spec
INVARIANTS SilenceIsWhole
