SPECIFICATION Spec
CONSTANTS
  PTF_MAX_BUF = 8
  IntBits = 3
  LongBits = 5
  NUL = NUL
  Char <- Chars
  Fifo = 2
  Pin <- Pins
  Firmware = {0, 4, 7}
  Boot <- Main
  Scripts <- Calls
INVARIANTS FieldsReadBack InOrder PinsKept
PROPERTY AllPrinted
CHECK_DEADLOCK FALSE
