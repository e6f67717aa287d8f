SPECIFICATION MCSpec
CONSTANTS
  Task = {t1, t2}
  Mount = {m1, m2}
  MountPaths <- MCMountPaths
  Files <- MCFiles
  MAX_FD = 2
  ZeroedFd = 1
  MaxUnmounts = 1
  MaxLeaks = 1
  Letter = {"a"}
  PathArgs <- MCPathArgs
  MountArgs <- MCMountArgs
  FS_MAX_PATH_LEN = 7
  Images <- MCImages
  Paths <- MCPaths
  Environments <- MCEnvironments
  Offsets <- MCOffsets
  Lengths <- MCLengths
  Zero <- MCZero
  BlockSize = 2
  NDIR = 2
  APB = 2
  Word = 64
  MaxDirBlocks = 8
  InlineLink = 4
  LinkBuf = 8
SYMMETRY MCSymmetry
INVARIANTS RefExact MountOutlivesUse LaterMountsRaced InPlace PathMeaning LookupRight ReadRight
CHECK_DEADLOCK FALSE
