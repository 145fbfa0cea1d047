CONSTANTS
  Subs = {s1, s2}
  Calls = {c1, c2}
  Control = control
  NoSub = NoSub

SPECIFICATION FairSpec
INVARIANTS OneUnadvise WaitIsAnswered
PROPERTIES NeverOverlaps TransitionResolves
