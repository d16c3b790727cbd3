SPECIFICATION PingSpec
CONSTANTS
  NENV = 3
  Gens = 4
  MaxAlloc = 2
  Last = 10
  Value <- Balls
  NoEnv = NoEnv
  NoMail = NoMail
INVARIANT OneBall
PROPERTIES RallyEnds NoStarvation
