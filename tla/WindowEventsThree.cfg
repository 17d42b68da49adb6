SPECIFICATION Spec
CONSTANTS
  letter = letter
  sheet = sheet
  alert = alert
  Documents = {letter, sheet, alert}
  Dialogs = {}
  None = None
  MaxOpen = 3
  MaxRemembered = 1
  PairedDialogs = TRUE
SYMMETRY Symmetry
INVARIANTS
  RedrawsDue
  PendingEventsSound
