INIT MInit
NEXT MNext
CONSTANTS
  Threads = {t1}
  Writers = {}
  NoThread = NoThread
  Ptrs = {p1, p2}
  MaxSize = 2
  Junk = Junk
  Zero = Zero
INVARIANTS
  NullWhenNoMemory
