SPECIFICATION FairSpec
CONSTANTS
  Word = 4
  Milli = 2
  Delay = 3
  Slack = 2
  MaxSleep = 3
  MaxNow = 12
INVARIANTS SleepLongEnough TimerArmed
PROPERTY SleepReturns
