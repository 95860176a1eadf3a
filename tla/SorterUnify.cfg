SPECIFICATION Spec
CONSTANTS
  Keys = {0, 1, 2}
  MaxLen = 6
  Configs <- FixintUnify
  Giants = {2}
  MaxKeys = 3
  KeySize = 4
  MinRadix = 1
  MaxRadix = 2
  AddRadix = 1
  MinMultiway = 1
  MaxMultiway = 2
INVARIANT UnifiedExactly
CHECK_DEADLOCK FALSE
