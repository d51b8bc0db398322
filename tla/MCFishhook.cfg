CONSTANTS
  exe = exe
  system = system
  const = const
  plugin = plugin
  malloc = malloc
  free = free
  mi_malloc = mi_malloc
  printing_malloc = printing_malloc
  mi_free = mi_free
  calloc = calloc
  mi_calloc = mi_calloc
  Images = {exe, system, const, plugin}
  Resident <- MCResident
  Skipped = {system}
  ReadOnly = {const}
  Symbols = {malloc, free, calloc}
  Imports <- MCImports
  Hooks = {mi_malloc, printing_malloc, mi_free, mi_calloc}
  Silent = {}
  Calls <- MCCalls
  ImageCalls <- MCImageCalls
  HeapSize = 7
  Concurrent = FALSE
SPECIFICATION Spec
INVARIANTS TypeOK LatestWins OriginalReached
CHECK_DEADLOCK FALSE
