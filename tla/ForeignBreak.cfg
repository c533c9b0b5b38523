SPECIFICATION FSpec
CONSTANTS
  ALIGNMENT = 2
  PAGE_SIZE = 16
  LIST_HEAD = 2
  SEG_HEAD = 4
  SEG_TAIL = 4
  Sizes = {1, 9}
  InitialBreaks = {3}
  BreakLimit = 70
  MaxSegs = 3
  ForeignSizes = {4}
INVARIANTS
  FoundGapIsFree
