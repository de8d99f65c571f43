CONSTANTS
  DataSizes = {1, 2, 4, 8}
  FileSizes = {0, 3}
  Aligns = {4, 8}
  MaxSize = 20
SPECIFICATION Spec
INVARIANTS WithinCapacity PointersAligned 
