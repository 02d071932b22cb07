CONSTANTS
  UCHAR_MAX = 3
  SS = 2
  INT_MIN <- MCIntMin
  SIZE_MAX = 63
  PrintfBuf = 4
  PtrMod = 256
  heap_start = 16
  heap_end = 32
  Sizes = {0, 3, 8, 21, 244, 255}
  Seeds = {0, 5, 63}
  Mul = 13
  Inc = 5
  Drop = 4
  RandMod = 16
  LongMod = 64
  MaxDraw = 3
  MaxBlocks = 4
  Mem <- MCMem
  Counts <- MCCounts
  Formats <- MCFormats
  Args <- MCArgs
  Texts <- MCTexts
  W = 4
  XLEN = 8
  B = 4
  Values <- MCValues
  Few <- MCFew
  RdSet = {"x0", "ra", "a0", "s0", "s1"}
  RsSet = {"x0", "sp", "a0", "a1", "s0", "s1"}
SPECIFICATION Spec
CHECK_DEADLOCK FALSE
INVARIANTS
  KlibIso StdlibIso
  RoutinesAreC MacrosFaithful
