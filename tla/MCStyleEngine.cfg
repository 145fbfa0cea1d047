SPECIFICATION Spec
CONSTANTS
  button = button
  label = label
  Elements = {button, label}
  Properties = {"fill", "size"}
  States = {"rest", "over"}
  Rules <- MCRules
  Keys = {"accent", "missing"}
  Existing = {"accent"}
  Entries <- MCEntries
  MaxTheme = 2
  MaxReports = 2
  MaxShell = 1
  MaxDepth = 2
INVARIANTS ShellValuesKept OneOwner ShowsItsState OverridesUndone
CHECK_DEADLOCK FALSE
