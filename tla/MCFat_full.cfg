SPECIFICATION Spec
CONSTANTS
  EntriesPerSector = 2
  SectorsPerFat = 3
  LastCluster = 4
  DirsPerCluster = 3
  MaxFiles = 3
  MaxLength = 3
  MaxMounts = 1
  Leftover <- MCLeftover
  Roots <- MCRoots
  FatsOnDisk <- MCFatsOnDisk
PROPERTY NoEntryLost
CHECK_DEADLOCK FALSE
