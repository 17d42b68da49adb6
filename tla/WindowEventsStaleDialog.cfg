SPECIFICATION Spec
CONSTANTS
  letter = letter
  sheet = sheet
  alert = alert
  Documents = {letter, sheet}
  Dialogs = {alert}
  None = None
  MaxOpen = 2
  MaxRemembered = 1
  PairedDialogs = FALSE
INVARIANTS
  NoStaleWindow
