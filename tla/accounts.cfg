\* One code at a time in the hands of two requests, two postings or administrative steps.
SPECIFICATION Spec
CONSTANTS
  Slots <- MCSlots
  Sessions = {s1, s2}
  MaxAttempts = 2
  MaxSends = 1
  MaxCodes = 1
  ann = ann
  bob = bob
  dan = dan
  Users = {ann, bob, dan}
  Phones = {"p1", "p2"}
  Emails = {"e1", "e2"}
  None = None
  Accounts0 <- MCAccounts0
  MaxEvents = 2
INVARIANTS
  TypeOK
  WalletMatchesLedger
PROPERTIES
  PhoneStays
SYMMETRY Symmetry
