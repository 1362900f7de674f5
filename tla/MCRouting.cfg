SPECIFICATION Spec
CONSTANTS
  x = x
  y = y
  q = q
  Names = {x, y, q}
  None = None
  Idle = Idle
  Creations <- MCCreations
  Bindings <- MCBindings
  Ids = {1, 2}
  Pausable = {x}
  Clients = {c1, c2}
  Parts <- MCParts
  Glob <- MCGlob
  Keys <- MCKeys
  Headers <- MCHeaders
  MaxParts = 3
SYMMETRY Symmetry
INVARIANTS
  NamesResolve
  ChainsEnd
  RoutesExact
  MatchIsExact
