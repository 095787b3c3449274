CONSTANTS
  Words = 16
  Size = {0, 1, 3}
  Asked = {0, 1, 2, 4}
  Offset <- MCOffset
SPECIFICATION Spec
INVARIANTS TypeOK NoOverrun
PROPERTIES ImplementsByteFile
