--------------------------- MODULE MCWalletTransfer ---------------------------
(* Small instances of WalletTransfer: who calls, with what, on which wallet. *)
EXTENDS WalletTransfer

CONSTANTS r1, r2, u1, u2

Input(u, a, p, c, v) ==
    [user |-> u, amount |-> a, provider |-> p, caller |-> c, vendorFound |-> v]

\* Two providers are enough for one to pay while the other is still running.
MCOpening == [u \in Users |-> 2]

\* Both kinds of caller on one wallet that covers either amount once.
MixedInputs ==
    {Input(u1, a, p, c, TRUE) : a \in {1, 2}, p \in {"paystack", "moniepoint"},
                                c \in {"transfer", "direct"}}
    \cup {Input(u1, 1, "paystack", "transfer", FALSE)}

\* Transfers only, on two wallets.
TransferInputs ==
    {Input(u, 2, p, "transfer", TRUE) : u \in {u1, u2}, p \in {"paystack", "moniepoint"}}
=============================================================================
