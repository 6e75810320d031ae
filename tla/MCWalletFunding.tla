--------------------------- MODULE MCWalletFunding ---------------------------
(* Small instances of WalletFunding: payments and how often they are delivered. *)
EXTENDS WalletFunding

CONSTANTS d1, d2, d3, p1, p2, u1

Payment(c, u, m, n) ==
    [channel |-> c, user |-> u, amount |-> 1, matched |-> m, named |-> n]

MCOpening == [u \in Users |-> 0]

\* Covers one flutterwave payment and not a second.
MCCentral == [a \in Accounts |-> 1]

\* Every channel, on one wallet.
AllChannels ==
    {Payment(c, u1, TRUE, TRUE) : c \in Channels}
    \cup {Payment("monnify", u1, FALSE, TRUE), Payment("moniepoint", u1, TRUE, FALSE)}

\* One payment is delivered twice, the other once.
TwiceAndOnce == [d \in Deliveries |-> IF d = d3 THEN p2 ELSE p1]
=============================================================================
