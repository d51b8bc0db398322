CONSTANTS
  exe = exe
  system = system
  const = const
  plugin = plugin
  malloc = malloc
  free = free
  mi_malloc = mi_malloc
  printing_malloc = printing_malloc
  mi_free = mi_free
  calloc = calloc
  mi_calloc = mi_calloc
  Images = {exe, system, const, plugin}
  Resident <- MCResident
  Skipped = {}
  ReadOnly = {}
  Symbols = {malloc, free, calloc}
  Imports <- MCImports
  Hooks = {mi_malloc, printing_malloc, mi_free, mi_calloc}
  Silent = {}
  Calls <- MCCalls
  ImageCalls = {}
  HeapSize = 5
  Concurrent = TRUE
SPECIFICATION FairSpec
INVARIANT ResidentLatest
PROPERTIES CallReturns
CHECK_DEADLOCK FALSE
