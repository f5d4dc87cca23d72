SPECIFICATION FairSpec
CONSTANTS
  NL = NL
  Chr = Chr
  High = High
  PAD = PAD
  Chunk = 2
  LineMax = 3
  CONTACTS_MAX_NUMBER = 2
  MaxRequests = 5
  Files <- OddFiles
  Checksum <- MCChecksum
PROPERTIES
  ListIsComplete
  TransferEnds
  ListLoadedAtLast
