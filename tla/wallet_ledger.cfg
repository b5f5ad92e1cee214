\* Two users, one reference, debits that may and may not be covered.
SPECIFICATION Spec
CONSTANTS
  u1 = u1
  u2 = u2
  x1 = x1
  Users = {u1, u2}
  References = {x1}
  InitialBalance <- OneYuanEach
  Amounts <- DebitsAndCredits
INVARIANTS TypeOK LedgerChain UniqueReference
\* Every reference may be used up.
CHECK_DEADLOCK FALSE
