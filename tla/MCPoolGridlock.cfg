CONSTANTS
  Flat = {c1}
  Nesting = {c2, c3}
  Size = 2
  NoClient = NoClient
SPECIFICATION PoolSpec
INVARIANT NoGridlock
