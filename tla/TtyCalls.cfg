\* The terminal driver: three ways of using it.  The lengths stand for 128, 64, 20
\* and 64: as in the code, the FIFO of the UART takes a whole output buffer.  Writing
\* past the end of the input buffer stops it, hence no check for deadlock.
SPECIFICATION TtySpec
CONSTANTS
  TY_IBUFLEN = 3
  TY_OBUFLEN = 4
  TY_EBUFLEN = 3
  UART_FIFO_SIZE = 4
  MaxUnfinished = 2
  Loads <- ThreeLoads
CHECK_DEADLOCK FALSE
VIEW LiveTty
INVARIANTS
  PlacesCounted
  InputInOrder
  OutputInOrder
PROPERTIES
  AheadOnlyOfWoken
  OutputDrains
