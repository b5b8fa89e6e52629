CONSTANTS
  a = a
  b = b
  c = c
  plain = plain
  other = other
  deep = deep
  Id = {a, b, c}
  Data = {plain, other, deep}
  Unreadable = {deep}
  Event <- MCEvent
  MaxCauses = 1
  FsyncLinks = TRUE
SPECIFICATION Spec
INVARIANTS
  ReceiptDurable
  RejectedNeverStored
  Recoverable
  IndexExact
  NotifiedOnce
  SnapshotIsPrefix
  IInv
PROPERTIES
  DurableGrows
