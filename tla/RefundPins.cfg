CONSTANTS
  l1 = l1  l2 = l2  NoLine = NoLine
  Lines = {l1, l2}  Subtotal <- MCSubtotal  Total = 2
  Clerks = {c1, c2}  MaxPins = 3  MaxRefunds = 2  FreeWindow = FALSE
SPECIFICATION Spec
SYMMETRY MCSymmetry
INVARIANT NumbersRun
PROPERTIES SupersededPinIsNotTaken UsedPinIsNotTaken
CHECK_DEADLOCK FALSE
