SPECIFICATION TSpec
CONSTANTS
  ALIGNMENT = 16
  PAGE_SIZE = 4096
  LIST_HEAD = 16
  SEG_HEAD = 32
  SEG_TAIL = 32
  STORAGE_SIZE_TESTING = 10000
  Sizes = {1}
  InitialBreaks = {5000}
  BreakLimit = 1000000
  MaxSegs = 1000
  Rounds <- SampleRounds
  Programs = {"firstfit", "worstfit", "bestfit", "nextfit", "add_entry", "remove_entry", "expand_list", "alignment", "malloc", "realloc"}
INVARIANTS
  TestsPass
