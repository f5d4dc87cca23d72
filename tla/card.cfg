SPECIFICATION Spec
CONSTANTS
  Block = {1, 2}
  Data = {0, 1}
  Unit = 2
  ClockMax = 4
  SD_INIT_TIMEOUT = 2
  SD_READ_TIMEOUT = 1
  SD_WRITE_TIMEOUT = 1
  SD_ERASE_TIMEOUT = 2
  Tries = 1
  Starts = {3}
INVARIANTS DriverIsFit SuccessMeansDone
PROPERTIES OnlyWhatIsWritten CallsReturn
