CONSTANTS
  alice = alice
  bob = bob
  acme = acme
  globex = globex
  key1 = key1
  one = one
  other = other
  Request = {r1, r2, r3}
  ApiKey = {alice, bob}
  Org = {acme, globex}
  OrgOf <- Owner
  IdemKey = {key1}
  Body = {one, other}
  Inputs <- ThreeInputs
  Limit = 2
  Window = 1
  MaxBuckets = 2
  TTL = 0
  MaxStore = 1
  MaxTime = 1
  SharedTx = TRUE
  Faults = {"store", "commit", "restart"}
SPECIFICATION Spec
SYMMETRY Symmetry
CONSTRAINT FewMeet
CHECK_DEADLOCK FALSE
INVARIANTS
  TypeOK
  WindowHoldsLimit
  ReplayIsTrue
PROPERTIES
  AnsweredOnce
