SPECIFICATION Spec
CONSTANTS
  m_fatStartBlock = 1
  m_blocksPerFat = 2
  m_fatCount = 2
  Block = {1, 2, 3, 4, 5, 6, 7, 8, 9, 10, 11, 12, 13, 14}
  m_clusterCount = 4
  EntriesPerFatBlock = 4
  m_dataStartBlock = 7
  m_blocksPerCluster = 2
  EOC = 9
  BlockSize = 3
  DirPerBlock = 3
  m_rootDirStart = 5
  m_rootDirEntryCount = 6
  USE_MULTI_BLOCK_SD_IO = TRUE
  Handles = 2
  FirstByte = 3
  Programs <- MCPrograms
  Prepare <- MCPrepare
INVARIANTS VolumeIsSound SyncedSurvives
PROPERTIES OthersKept ImplementsFileSystem
CHECK_DEADLOCK FALSE
