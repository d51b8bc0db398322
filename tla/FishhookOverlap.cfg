CONSTANTS
  exe = exe
  system = system
  const = const
  plugin = plugin
  malloc = malloc
  free = free
  mi_malloc = mi_malloc
  printing_malloc = printing_malloc
  mi_free = mi_free
  calloc = calloc
  mi_calloc = mi_calloc
  Images = {exe, system, plugin}
  Resident <- MCResident
  Skipped = {}
  ReadOnly = {}
  Symbols = {malloc, free, calloc}
  Imports <- MCImports
  Hooks = {mi_malloc, printing_malloc, mi_free, mi_calloc}
  Silent = {}
  Calls <- OverlapCalls
  ImageCalls <- OverlapImageCalls
  HeapSize = 7
  Concurrent = FALSE
SPECIFICATION Spec
INVARIANT LatestWins
CHECK_DEADLOCK FALSE
