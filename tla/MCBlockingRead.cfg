\* Reads of up to two bytes while up to three are typed.
CONSTANTS
  Ports = {stdin}
  Files = {file}
  Bytes = {a, b}
  MaxRead = 2
  MaxBytes = 3
SPECIFICATION FairSpec
INVARIANTS TypeOK NoMissedByte
PROPERTIES InOrder BlockingReadBrings StdinDelivered
CHECK_DEADLOCK FALSE
