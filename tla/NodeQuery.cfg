SPECIFICATION FairSpec
CONSTANTS
  v0 = v0
  v1 = v1
  Malformed = Malformed
  None = None
  Readers = {r1}
  Callbacks = {c1, c2}
  Writers = {w1}
  Requests <- ReaderRequests
  Writes <- SomeWrites
  Contents <- FirstContents
  MaxChanges = 3
  MaxFaults = 1
CHECK_DEADLOCK FALSE
INVARIANTS  CallbacksEndWithTheCall EndsAreQuiet
PROPERTY ReadsAndEndsReturn
