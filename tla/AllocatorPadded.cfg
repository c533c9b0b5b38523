INIT AInit
NEXT ANext
CONSTANTS
  Threads = {t1}
  Writers = {t1}
  NoThread = NoThread
  MaxSize = 3
  Junk = Junk
  Zero = Zero
  ALIGNMENT = 2
  PAGE_SIZE = 8
  LIST_HEAD = 2
  SEG_HEAD = 2
  SEG_TAIL = 2
  InitialBreaks = {3}
  BreakLimit = 40
  MaxBlocks = 2
INVARIANTS
  MemoryIntact
