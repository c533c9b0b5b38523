SPECIFICATION ASpec
CONSTANTS
  ALIGNMENT = 4
  PAGE_SIZE = 16
  LIST_HEAD = 4
  SEG_HEAD = 4
  SEG_TAIL = 4
  SIZE_BITS = 10
  INT_BITS = 7
  Counts = {1, 2, 3}
  Requests <- SmallAndHuge
  Gaps <- AlignedGaps
INVARIANTS
  ExactUpToIntMax
