---------------------------- MODULE PayoutContract ----------------------------
(***************************************************************************)
(* What a vendor payout promises, whatever provider carries it out: no     *)
(* transfer is sent before the wallet was charged, a payout is called paid *)
(* only when a transfer was carried out, and a payout that was refused,    *)
(* failed or abandoned stays so and sends nothing more.  It does not       *)
(* promise a single transfer, nor that a failed payout sent none: a        *)
(* transfer whose answer is lost was sent all the same.                    *)
(***************************************************************************)
EXTENDS Integers

CONSTANT Payouts

VARIABLES
    phase,  \* where each payout is
    sent    \* how many transfers providers carried out for it

contractVars == <<phase, sent>>

Phase == {"open", "charged", "paid", "failed", "refused", "abandoned"}

ContractInit ==
    /\ phase = [p \in Payouts |-> "open"]
    /\ sent = [p \in Payouts |-> 0]

Advance(p, from, to) == phase[p] = from /\ phase' = [phase EXCEPT ![p] = to]

Charge(p) == Advance(p, "open", "charged") /\ UNCHANGED sent
Refuse(p) == Advance(p, "open", "refused") /\ UNCHANGED sent
Fail(p) == Advance(p, "charged", "failed") /\ UNCHANGED sent

\* Transfers are only ever added to a payout's own count.
MoreSent(p) ==
    /\ sent'[p] \in Nat /\ sent'[p] >= sent[p]
    /\ sent' = [sent EXCEPT ![p] = sent'[p]]

Pay(p) == Advance(p, "charged", "paid") /\ MoreSent(p) /\ sent'[p] > 0

\* Transfers carried out while the payout is under way, or by a provider that
\* was asked in parallel with the one that paid.
Send(p) == phase[p] \in {"charged", "paid"} /\ MoreSent(p) /\ UNCHANGED phase

\* The server dies, perhaps with transfers on the wire.
Abandon(p) == Advance(p, "charged", "abandoned") /\ MoreSent(p)

ContractNext ==
    \E p \in Payouts :
        Charge(p) \/ Refuse(p) \/ Fail(p) \/ Pay(p) \/ Send(p) \/ Abandon(p)

Contract == ContractInit /\ [][ContractNext]_contractVars
=============================================================================
