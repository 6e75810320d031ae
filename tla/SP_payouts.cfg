SPECIFICATION FairSpec
CONSTANTS
  r1 = r1
  r2 = r2
  r3 = r3
  u1 = u1
  u2 = u2
  Free = Free
  Requests = {r1, r2, r3}
  Users = {u1, u2}
  Providers = 2
  Inputs <- MCInputs
  Opening <- MCOpening
INVARIANTS TypeOK ExactLedger OneTransferPerProvider
PROPERTIES DebitsAreAtomic AnsweredUnlessWaiting
CHECK_DEADLOCK FALSE
