SPECIFICATION Spec
CONSTANTS
  e = e  h = h  e1 = e1  e2 = e2  h1 = h1
  d1 = d1  d2 = d2  d3 = d3
  None = None
  Tab = {e, h}
  user <- MCUser
  Chain = {e1, e2, h1}
  tabOf <- MCTabOf
  rank <- MCRank
  Doc = {d1, d2}
  Quota = 1
  MaxFaults = 1
  MaxWhims = 1
INVARIANT TypeOK EmptyRowExplained PageMissesNothing
PROPERTY DoneByUpload ImplementsLifecycle
