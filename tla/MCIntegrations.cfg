SPECIFICATION Spec
CONSTANTS
  Callers = {c1, c2}
  MaxTokens = 2
  MaxAgings = 1
  DisableAt = 2
  Text <- Addresses
  Person <- PersonOf
  Mailbox <- Mailboxes
  MaxItems = 2
  BatchSize = 2
  MaxPolls = 2
  MaxContacts = 1
  Events = {e1, e2, e3}
  Checkouts = {e1, e2}
  Deliveries = {d1, d2, d3}
  MaxDeliveries = 5
  MaxProcessedIds = 2
SYMMETRY Symmetric
CHECK_DEADLOCK FALSE
INVARIANTS
  DisabledIsEarned
  CursorPassesNothing
PROPERTIES
  DuplicateNeedsOverlap
  ReturnsOnlyByConsent
  HandledIsRemembered
