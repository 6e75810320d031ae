SPECIFICATION Spec
CONSTANTS
  r1 = r1
  r2 = r2
  u1 = u1
  u2 = u2
  Requests = {r1, r2}
  Users = {u1}
  Providers = {"paystack", "flutterwave"}
  WorkerAppContext = FALSE
  Inputs <- MixedInputs
  Opening <- MCOpening
INVARIANTS TypeOK OverdrawnOnlyByDoubleDebit NeverOvercharged TransactionFollowsPayment
PROPERTY ImplementsContract
CHECK_DEADLOCK FALSE
