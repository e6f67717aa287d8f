SPECIFICATION Ext2Only
CONSTANTS
  Task = {t1, t2}
  Mount = {m1, m2}
  MountPaths <- MCMountPaths
  Files <- MCFiles
  MAX_FD = 2
  ZeroedFd = 1
  MaxUnmounts = 1
  MaxLeaks = 1
  Letter = {"a"}
  PathArgs <- MCPathArgs
  MountArgs <- MCMountArgs
  FS_MAX_PATH_LEN = 7
  Images <- MCImages
  Paths <- MCPaths
  Environments <- MCNoFault
  Offsets <- MCOffsets
  Lengths <- MCLengths
  Zero <- MCZero
  BlockSize = 2
  NDIR = 2
  APB = 2
  Word = 64
  MaxDirBlocks = 8
  InlineLink = 4
  LinkBuf = 8
INVARIANT EachComponentFound
CHECK_DEADLOCK FALSE
