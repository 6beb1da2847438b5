\* One core writes at a time.
CONSTANTS
  Core = {0}
  Page <- MCPages
  NoPage = NoPage
  Offset = {0, 1}
  Bits = {b1}
  Sectors <- OneEach
  Region <- Alone
SPECIFICATION Spec
INVARIANTS TypeOK FlushedIsDurable
PROPERTY ImplementsStore
