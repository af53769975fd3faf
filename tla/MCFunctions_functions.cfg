SPECIFICATION Spec
CONSTANTS
  Half = 65536
  Hour = 2
  HalfSerial = 3
  MaxSerials = 3
INVARIANTS
  DaysAreKept
  LifetimeIsKept
  SerialsAreRevoked
  IssuedIsRevocable
  FilesAreTheSame
  BareNameHasDirectory
