CONSTANTS
  Nil = Nil
  Blank = " "
  BadText = {}
  ExtensionName = {}
  UnsafeNumber = {"1.5"}
  MaxDepth = 6
  Inputs <- MCInputs
  OtherIds <- MCOtherIds
  Foreign <- MCForeign
  SealInputs <- MCSealInputs
  UsedSlots = {"who", "did"}
  Keys = {k1, k2}
  MaxHeld = 3
  MaxMembers = 2
  MaxSigned = 1
  MaxFaults = 1
SPECIFICATION Spec
SYMMETRY MCKeySymmetry
CHECK_DEADLOCK FALSE
INVARIANTS EnvelopeAuthentic CopiesStable BindingSound SealedAdmitted
