SPECIFICATION Spec
CONSTANTS
  Messages = {m1, m2}
  Senders = {owner, stranger}
  Agents = {a1, a2}
  Threads = {t1}
  Admins = {owner}
  a1 = a1
  a2 = a2
  FirstAgent = a1
  owner = owner
  stranger = stranger
  t1 = t1
  Incoming <- MCIncoming
  InitialWiring <- MCWiring
  Policies = {"strict", "request_approval", "public"}
  NoRow = NoRow
  MaxCrashes = 1
INVARIANTS
  TriggerNeedsAccess
  OpenCardHasRow
  ApprovedNotLost
SYMMETRY Symmetry
CHECK_DEADLOCK FALSE
