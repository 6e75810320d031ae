SPECIFICATION FairSpec
CONSTANTS
  r1 = r1
  r2 = r2
  u1 = u1
  u2 = u2
  Requests = {r1, r2}
  Users = {u1, u2}
  Providers = {"paystack", "flutterwave"}
  WorkerAppContext = TRUE
  Inputs <- TransferInputs
  Opening <- MCOpening
PROPERTIES ImplementsContract SettledIsFinal AnsweredUnlessWaiting
CHECK_DEADLOCK FALSE
