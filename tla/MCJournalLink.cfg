CONSTANTS
  a = a
  b = b
  c = c
  plain = plain
  other = other
  deep = deep
  Id = {a, b, c}
  Data = {plain, other, deep}
  Unreadable = {deep}
  Event <- MCEvent
  MaxCauses = 1
  FsyncLinks = FALSE
SPECIFICATION Spec
INVARIANT
  ReceiptDurable
