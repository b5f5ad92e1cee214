\* Three codes of one address, one after the other, in the hands of two requests.
SPECIFICATION Spec
CONSTANTS
  Slots <- OneSlot
  Sessions = {s1, s2}
  MaxAttempts = 2
  MaxSends = 1
  MaxCodes = 3
  ann = ann
  bob = bob
  dan = dan
  Users = {ann, bob, dan}
  Phones = {"p1", "p2"}
  Emails = {"e1", "e2"}
  None = None
  Accounts0 <- MCAccounts0
  MaxEvents = 0
PROPERTIES
  ClosedCodeRefused
\* Once the accounts are merged nobody has a use for a code of the address.
CHECK_DEADLOCK FALSE
SYMMETRY Symmetry
