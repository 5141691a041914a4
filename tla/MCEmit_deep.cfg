\* The base payload is 6 deep, so that 6 is the smallest limit under which
\* every capsule verifies; 5 open brackets bring the texts up to it.
CONSTANTS
  Nil = Nil
  Hole = Hole
  Blank = " "
  BadText = {"bad"}
  ExtensionName = {"x", "y", "domain", "epoch_id", "signature", "key_id", "capsule_id"}
  UnsafeNumber = {"1.5"}
  MaxDepth = 6
  MaxTokens <- MCMaxTokens
  Tokens <- MCTokens
  Inputs <- MCInputs
  Holes <- MCHoles
SPECIFICATION BuilderSpec
CHECK_DEADLOCK FALSE
INVARIANT BuiltVerifies
