SPECIFICATION Spec
CONSTANTS
  NENV = 3
  Gens = 4
  MaxAlloc = 3
  Value = {ball}
  NoEnv = NoEnv
  NoMail = NoMail
VIEW Seen
INVARIANTS TypeOK FreeListExact CurrentIsIndex BlockedIffReceiving MailHandedOver RegistersPrivate IdResolves
CHECK_DEADLOCK FALSE
