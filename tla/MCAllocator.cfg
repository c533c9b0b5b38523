INIT AInit
NEXT ANext
SYMMETRY Interchangeable
CONSTANTS
  Threads = {t1, t2}
  Writers = {}
  NoThread = NoThread
  MaxSize = 2
  Junk = Junk
  Zero = Zero
  ALIGNMENT = 1
  PAGE_SIZE = 4
  LIST_HEAD = 1
  SEG_HEAD = 1
  SEG_TAIL = 1
  InitialBreaks = {1}
  BreakLimit = 16
  MaxBlocks = 2
INVARIANTS
  ATypeOK
  MemoryIntact
  NeverStuck
PROPERTIES
  ImplementsMethods
