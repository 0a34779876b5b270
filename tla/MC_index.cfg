\* 8-bit addresses, 16-byte pages (two descriptors per descriptor page); tables
\* at a descriptor-page boundary, inside one, and at the top of the address
\* space; calls inside, across and past a table, none of whose end wraps.
CONSTANTS
  ADDR_BITS = 8
  PAGE_SHIFT = 4
  DataAddrs = {0, 48, 224}
  DataSizes = {16, 32, 48}
  CallAddrs = {0, 40, 48, 100, 200}
  CallLens = {0, 1, 9, 24, 48}
SPECIFICATION Spec
INVARIANTS NextWordInMapping
PROPERTIES CoversRange RangeChecked CallReturns
