SPECIFICATION Spec
CONSTANTS
  Links <- PlacedLinks
  Page = 32
  Jump = 4
  Instrs = {4}
  Sfst = 32
  Lfss = 12
  Rest = 8
  Ldff = 30
  MinHeap = 24
INVARIANTS BytesOwnedOnce CodeInPage AllPlaced
  MemoryReady HeapUsable HonorsPlacement
