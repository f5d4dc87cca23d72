SPECIFICATION Spec
CONSTANTS
  ann = ann
  bob = bob
  Stranger = stranger
  Person <- MCPerson
  GroupOf <- MCGroupOf
  LoadResults <- OneList
  Bodies = {{"BIRLOFF"}, {"IKNOW"}}
  NUMINPUTS = 1
  RequiresResponse = {1}
  NotificationInterval <- MCInterval
  AlCallRestartTime = 1
  I2C_FAIL_NOTIFICATION_PERIOD = 1
  ClockMod = 3
  WireCodes = {0, 2}
  Hours = {0}
  MaxResets = 0
PROPERTY ActsOnTrustedMessage
