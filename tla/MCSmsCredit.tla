----------------------------- MODULE MCSmsCredit -----------------------------
EXTENDS SmsCredit

CONSTANTS p1, p2, m1, m2, spam, u1

MCOwner == [m \in Messages |-> IF m = spam THEN NoUser ELSE u1]
=============================================================================
