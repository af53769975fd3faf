SPECIFICATION Spec
CONSTANTS
  Half = 65536
  Hour = 2
  HalfSerial = 3
  MaxSerials = 3
INVARIANTS
  DSNIsSanitized
