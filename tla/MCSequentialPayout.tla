-------------------------- MODULE MCSequentialPayout --------------------------
(* Small instances of SequentialPayout: payouts that compete for one wallet. *)
EXTENDS SequentialPayout

CONSTANTS r1, r2, r3, u1, u2

\* Covers one large payout, or a large one not at all after a small one.
MCOpening == [u \in Users |-> 2]

MCInputs ==
    {[user |-> u1, amount |-> a, vendorFound |-> TRUE] : a \in {1, 2}}
    \cup {[user |-> u2, amount |-> 1, vendorFound |-> FALSE]}
=============================================================================
