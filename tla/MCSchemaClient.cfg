SPECIFICATION Spec
CONSTANTS
  s1 = s1
  s2 = s2
  c1 = c1
  c2 = c2
  c3 = c3
  Client = {c1, c2, c3}
  Subject = {s1, s2}
  Predicate = {"email", "handle", "title", "tag"}
  Value = {"a", "b"}
  BatchActions = 3
  Commands <- MCCommands
  RawBatches <- MCRawBatches
  MaxConflictRetries = 1
  MaxDisturbances = 1
SYMMETRY Clients
INVARIANTS
  CommitsAreSerial
  CommitsMeetContract
  OutcomesTruthful
CHECK_DEADLOCK FALSE
