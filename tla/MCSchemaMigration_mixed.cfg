SPECIFICATION Spec
CONSTANTS
  c1 = c1
  c2 = c2
  c3 = c3
  fieldA = fieldA
  fieldB = fieldB
  h1 = h1
  contacts = contacts
  k = k
  Calls = {c1, c2, c3}
  Fields = {fieldA, fieldB}
  Entities = {contacts}
  Keys = {k}
  Hosts = {h1}
  NoKey = NoKey
  Nobody = Nobody
  Seed = Seed
  NoCall = NoCall
  NoRequest = NoRequest
  EntityOf <- Owning
  HostOf <- Hosted
  Requests <- Mixed
  LockScope = "database"
  Faults = {"execute", "crash"}
  Ticks = {1}
SYMMETRY CallsSymmetry
INVARIANTS
  TypeOK
  OneExecutorPerTarget
  OneLivePerKey
  AppliedIsDone
  FailedIsNotDone
PROPERTIES
  ImplementsRegister
