SPECIFICATION Spec
CONSTANTS
  c1 = c1
  c2 = c2
  Callers <- MCCallers
  Menu <- MCMenu
  PoolSize = 7
  MaxRetries = 1
INVARIANTS
  TypeOK
  TransportsAgree
  ScopesCoverWhatIsDone
  OfferedRequestsAreServed
  NothingDestroyedUnasked
  SomeHolderCanProceed
PROPERTIES
  RequestsEnd
