SPECIFICATION Spec
CONSTANTS
  Byte = {0, 1}
  Zero = 0
  Size = 4
INVARIANT
  TypeOK
PROPERTY
  ImplementsByteQueue
