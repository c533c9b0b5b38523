SPECIFICATION MSpec
CONSTANTS
  Threads = {t1, t2}
  Writers = {t1}
  NoThread = NoThread
  Ptrs = {p1, p2}
  MaxSize = 2
  Junk = Junk
  Zero = Zero
INVARIANTS
  MTypeOK
  LockDiscipline
  EveryBlockAccounted
  DataIntact
  OldSizeStillTrue
  PlaceStillFree
PROPERTIES
  SomeCallReturns
  CallReturns
  ImplementsAPI
