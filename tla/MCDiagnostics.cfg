SPECIFICATION DiagnosticsSpec
CONSTANTS
  NoOwner = NoOwner
  Owners = {o1, o2}
  Handles = {h1}
  Callers = {t1, t2}
  Hookless = {o2}
  MaxRevision = 4
  host = host
  a = a
  b = b
  Hosts = {host}
  Control = control
  Themes = {a, b}
  NoTheme = NoTheme
  MaxVersion = 2
  MaxSignals = 1
SYMMETRY Symmetry
INVARIANTS
  TypeOK CoverageExact AttemptsOwned ResidualExact
  OneThemeAtATime InactiveIsClean NothingForgotten
PROPERTIES
  SequenceCounts SessionOutlivesHandles LateRestoreIsHarmless
CHECK_DEADLOCK FALSE
