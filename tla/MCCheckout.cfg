\* Two selections, one thing fails.
SPECIFICATION Spec
CONSTANTS
  s1 = s1  s2 = s2  None = None
  Sels = {s1, s2}
  MaxSteps = 6
  MaxFaults = 1
  MaxHolds = 2
CHECK_DEADLOCK FALSE
SYMMETRY SelSymmetry
INVARIANTS CheckoutTypeOK NoForgottenHold ShowsWhatWasChosen LoaderEnds
  
