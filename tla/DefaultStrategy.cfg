SPECIFICATION DSpec
CONSTANTS
  ALIGNMENT = 2
  PAGE_SIZE = 8
  LIST_HEAD = 2
  SEG_HEAD = 2
  SEG_TAIL = 2
  Sizes = {1, 6}
  InitialBreaks = {3}
  BreakLimit = 48
  MaxSegs = 4
INVARIANTS
  DefaultIsFirstFit
