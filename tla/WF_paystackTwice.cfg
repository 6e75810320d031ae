SPECIFICATION Spec
CONSTANTS
  d1 = d1
  d2 = d2
  d3 = d3
  p1 = p1
  p2 = p2
  u1 = u1
  Free = Free
  Deliveries = {d1, d2, d3}
  Payments = {p1, p2}
  Users = {u1}
  pay <- TwiceAndOnce
  Inputs <- AllChannels
  Opening <- MCOpening
  CentralOpening <- MCCentral
INVARIANT PaystackCreditsOnce
CHECK_DEADLOCK FALSE
