CONSTANTS
  Messages <- MCMessages
  Quantities = {1, 3, 4}
  Replies <- MCReplies
  TWI_BUFFER_LENGTH = 4
  TWI_TOUT = 2
SPECIFICATION Spec
INVARIANT DriverIsFit
PROPERTIES SuccessMeansHeard MessageIsWhole ReadIsTheAnswer CallsReturn
