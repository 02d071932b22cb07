CONSTANTS
  Harts = {h1, h2}
  ConsolePorts = {"spike32", "spike64", "ysyxsoc", "nutshell"}
  Fifo = 2
  Chars = {10, 65}
  MaxCalls = 4
  MaxTyped = 2
  Radix <- MCRadix
  Starts = {0, 20, 42, 85, 171, 340}
  MaxTicks = 13
  MaxReads = 2
  Half = 4
  KEY_QUEUE_LEN = 3
  MaxKeys = 8
  KEYDOWN_MASK = 100
  MasksWhilePolling = TRUE
  Q = 2
  BlockWords = 2
  MaxBlkio = 3
  Blknos = {0, 5, 7, 14}
  Blkcnts = {0, 1, 2, 3}
  DisplayW = 3
  DisplayH = 2
  Canary = 2
  VmemSize = 6
  VbufSize = 12
  Chan = 4
  Corners <- MCCorners
  Sizes <- MCSizes
  Scenes <- MCScenes
  MaxDraws = 3
  PipeSize = 2
  PIPE_BUF = 1
  PlayLens = {1, 2}
  CallbackLens = {1, 2}
  AudioK = 5
  MaxDrift = 2
  MaxSpoilt = 1
  SECTSIZE = 2
  ARGSIZE = 4
  HdrAddr = 4
  HdrSize = 4
  ArgAddr = 10
  MemTop = 32
  Kernels <- MCKernels
  MPTables <- MCMPTables
  MAX_CPU = 2
  Reg64K = 4
  MemSizes = {3, 4, 9, 15}
  MaxIntr = 5
  H = 64
  TssAt = 2345
  TssSize = 40
  StubAt = 1500
  IoePorts = {"native", "nemu", "npc", "ysyxsoc", "spike", "nutshell", "qemu"}
  PG = 2
  DataLo = 5
  Pmem = {m1, m2}
  UserPage = {u1}
  MaxProc = 3
SPECIFICATION Spec
INVARIANTS
  ConsoleFaithful
  ClocksCoherent
  KeysInOrder
  BlocksMoved
  PixelsIso
  X86Up
  Served
  SharedAsMeant
PROPERTY SoundPlayed
CHECK_DEADLOCK FALSE
