SPECIFICATION Spec
CONSTANTS
  ALIGNMENT = 2
  PAGE_SIZE = 16
  LIST_HEAD = 2
  SEG_HEAD = 4
  SEG_TAIL = 4
  Sizes = {1, 2, 3, 9}
  InitialBreaks = {3, 6}
  BreakLimit = 70
  MaxSegs = 3
INVARIANTS
  TypeOK
  ListLinked
  AddressOrder
  GapAccounting
  SegmentsDisjoint
  LastAddrLive
  ArenaBacked
  ArenaInPages
  EmptyArenaReturned
  AllAligned
  CallFits
  NoAbort
PROPERTIES
  GrowsByNeed
  ContractsFully
  ImplementsHeap
