SPECIFICATION Spec
CONSTANTS
  ann = ann
  bob = bob
  Stranger = stranger
  Person <- MCPerson
  GroupOf <- MCGroupOf
  LoadResults <- FailingLists
  Bodies = {{}, {"BIRLOFF", "IKNOW"}}
  NUMINPUTS = 1
  RequiresResponse = {1}
  NotificationInterval <- MCInterval
  AlCallRestartTime = 1
  I2C_FAIL_NOTIFICATION_PERIOD = 1
  ClockMod = 3
  WireCodes = {0, 2}
  Hours = {0, 1}
  MaxResets = 1
PROPERTY ImplementsLifecycle
