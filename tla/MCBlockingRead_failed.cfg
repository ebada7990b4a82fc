\* A file read that fails with PP_ERROR_FAILED waits for a key press.
CONSTANTS
  Ports = {stdin}
  Files = {file}
  Bytes = {a}
  MaxRead = 1
  MaxBytes = 2
SPECIFICATION Spec
INVARIANT OnlyPortBlocks
CHECK_DEADLOCK FALSE
