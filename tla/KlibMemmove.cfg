CONSTANTS
  UCHAR_MAX = 3
  SS = 2
  INT_MIN <- MCIntMin
  SIZE_MAX = 63
  PrintfBuf = 4
  PtrMod = 256
  heap_start = 16
  heap_end = 32
  Sizes = {0, 3, 8, 21, 244, 255}
  Seeds = {0, 5, 63}
  Mul = 13
  Inc = 5
  Drop = 4
  RandMod = 16
  LongMod = 64
  MaxDraw = 3
  MaxBlocks = 2
  Mem <- MCMem
  Counts <- MCCounts
  Formats <- MCFormats
  Args <- MCArgs
  Texts <- MCTexts
INIT KlibInit
NEXT KlibNext
CHECK_DEADLOCK FALSE
INVARIANT MemmoveIso
