\* Two areas that do not touch: the lists, the tiling, the merging and the
\* refinement of HeapSpec.
SPECIFICATION Spec
CONSTANTS
  Areas <- ApartAreas
  HeadAt = 40
  Requests <- SmallRequests
  Arrays <- SomeArrays
INVARIANTS ListsAgree Tiled PayloadFits UsedIffOwned
PROPERTIES ObjectsUntouched ImplementsHeapSpec
CHECK_DEADLOCK FALSE
