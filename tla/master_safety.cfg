SPECIFICATION Spec
CONSTANTS
  ann = ann
  bob = bob
  Stranger = stranger
  Person <- MCPerson
  GroupOf <- MCGroupOf
  LoadResults <- TwoLists
  Bodies = {{"BIRLOFF"}}
  NUMINPUTS = 2
  RequiresResponse = {1, 2}
  NotificationInterval <- MCInterval
  AlCallRestartTime = 1
  I2C_FAIL_NOTIFICATION_PERIOD = 1
  ClockMod = 2
  WireCodes = {0}
  Hours = {0, 1}
  MaxResets = 1
INVARIANTS EdgesAgree ResponderOnlyWhileAlarmed DisabledMeansQuiet PhoneRingsOnlyForOpenAlarm SlaveMirrorsAlarms
PROPERTIES ListHeldWhileAnswered ImplementsLifecycle
