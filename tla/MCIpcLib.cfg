SPECIFICATION LibSpec
CONSTANTS
  NENV = 3
  Gens = 4
  MaxAlloc = 3
  Value = {ball}
  NoEnv = NoEnv
  NoMail = NoMail
VIEW Seen
INVARIANT RecvNeverPanics
PROPERTY RendezvousSpec
CHECK_DEADLOCK FALSE
