\* One draft at a time, one other editor, one fault.
SPECIFICATION Spec
CONSTANTS
  k1 = k1  k2 = k2  r1 = r1  r2 = r2
  NoPrint = NoPrint  NoDraft = NoDraft
  Texts = {1, 2}
  Rests = {0, 1}
  Tiers = {k1}
  Rows = {r1}
  Crews = {1}
  LostAnswers = TRUE
  HISTORY_LIMIT = 1
  MaxEdits = 2
  MaxTabs = 2
  MaxWorld = 1
  MaxFaults = 1
CHECK_DEADLOCK FALSE
INVARIANTS WizTypeOK NoStrandedEdit BadgeSettles
PROPERTIES SaveKeepsTyping NoSilentRevert
