\* As MC_index, with a call length whose addr + len wraps the address space.
CONSTANTS
  ADDR_BITS = 8
  PAGE_SHIFT = 4
  DataAddrs = {48}
  DataSizes = {48}
  CallAddrs = {48}
  CallLens = {16, 240}
SPECIFICATION Spec
PROPERTIES RangeChecked
