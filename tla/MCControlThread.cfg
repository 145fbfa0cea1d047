SPECIFICATION ControlThreadSpec
CONSTANTS
  p1 = p1
  p2 = p2
  p3 = p3
  reload = reload
  continue = continue
  Callers = {p1, p2, p3}
  Commands = {reload, continue}
  MaxGeneration = 2
  NoMessage = NoMessage
  host = host
  a = a
  b = b
  Hosts = {host}
  Control = control
  Themes = {a, b}
  NoTheme = NoTheme
  MaxVersion = 2
  MaxSignals = 0
INVARIANTS OneWakeUp
PROPERTIES Heard TransitionEnds
CHECK_DEADLOCK FALSE
