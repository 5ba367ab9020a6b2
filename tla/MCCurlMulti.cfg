SPECIFICATION CMSpec
CONSTANTS
  Handles = {h1, h2}
  Nodes = {n1, n2, n3}
  Results = {ok, err}
  CURLE_OK = ok
  NULL = NULL
  AllocMayFail = TRUE
INVARIANTS MemorySafe
PROPERTY ImplementsQueue
SYMMETRY Symmetry
