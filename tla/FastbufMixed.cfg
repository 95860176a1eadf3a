SPECIFICATION Spec
CONSTANTS
  Backends = {"file"}
  Cap = 4
  Page = 2
  Window = 4
  Extend = 2
  FileLen = 18
  Targets = {0, 7, 18}
  StreamLen = 3
  Limit = 3
  MaxBlock = 2
  MaxWrites = 1
  Careful = FALSE
PROPERTIES
  FastbufIsFile
CHECK_DEADLOCK FALSE
