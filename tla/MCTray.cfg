SPECIFICATION FairSpec
CONSTANTS
  a = a
  None = None
  Torn = Torn
  Themes = {a}
  MaxGenerations = 2
  MaxUser = 2
  MaxCli = 1
INVARIANTS TriggerKept
PROPERTIES ActiveIsAccepted NoPollRetry Settles TapFollows
CHECK_DEADLOCK FALSE
