CONSTANTS
  Subs = {s1, s2}
  Calls = {c1}
  Control = control
  NoSub = NoSub

SPECIFICATION Spec
INVARIANTS StoppedIsReplaceable
