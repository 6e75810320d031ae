---------------------------- MODULE WalletTransfer ----------------------------
(***************************************************************************)
(* The handlers that run the payout engine on a user's wallet:             *)
(*   "transfer"  transfer_funds of src/app/handlers/wallet.py, which keeps *)
(*               a Transaction row of its own around the engine's payment; *)
(*   "direct"    transfer_funds of src/app/handlers/wallet_controller.py   *)
(*               and pay_vendor_by_name of whatsapp_pay_handler.py, which  *)
(*               subtract the amount from the wallet once more when the    *)
(*               engine returns.                                           *)
(* Any number of them run at once against the same wallets.                *)
(***************************************************************************)
EXTENDS PayoutEngine

VARIABLE txn   \* transactions.status of the request's Transaction row

vars == <<engineVars, pc, txn>>

Replied == {"replied_ok", "replied_err"}
Ended == Replied \cup {"crashed"}
PC == Ended \cup
      {"idle", "validate", "debit", "flush", "route", "calling", "fallback",
       "join", "settle", "returned", "payout_error", "value_error",
       "direct_flush"}

Init ==
    /\ EngineInit
    /\ pc = [r \in Requests |-> "idle"]
    /\ txn = [r \in Requests |-> "none"]

\* A handler refuses a request its wallet does not cover.
Refuse(r) ==
    /\ Goto(r, "idle", "replied_err")
    /\ ~Covered(r)
    /\ UNCHANGED <<engineVars, txn>>

\* transfer_funds (wallet.py): the Transaction row is committed first.
OpenTransfer(r) ==
    /\ Goto(r, "idle", "validate")
    /\ req[r].caller = "transfer" /\ Covered(r)
    /\ txn' = [txn EXCEPT ![r] = "processing"]
    /\ UNCHANGED engineVars

CompleteTransfer(r) ==
    /\ Goto(r, "returned", "replied_ok")
    /\ req[r].caller = "transfer"
    /\ txn' = [txn EXCEPT ![r] = "completed"]
    /\ UNCHANGED engineVars

\* except PayoutError: the Transaction row is marked failed.
FailTransfer(r) ==
    /\ Goto(r, "payout_error", "replied_err")
    /\ req[r].caller = "transfer"
    /\ txn' = [txn EXCEPT ![r] = "failed"]
    /\ UNCHANGED engineVars

\* Mutant: the handler catches ValueError too and marks the row failed.
EscapeMarksFailed(r) ==
    /\ Goto(r, "value_error", "replied_err")
    /\ req[r].caller = "transfer"
    /\ txn' = [txn EXCEPT ![r] = "failed"]
    /\ UNCHANGED engineVars

\* Any other exception leaves the handler as it is: a 500, no row touched.
EscapeTransfer(r) ==
    /\ Goto(r, "value_error", "replied_err")
    /\ req[r].caller = "transfer"
    /\ UNCHANGED <<engineVars, txn>>

OpenDirect(r) ==
    /\ Goto(r, "idle", "validate")
    /\ req[r].caller = "direct" /\ Covered(r)
    /\ copy' = [copy EXCEPT ![r] = balance[User(r)]]
    /\ UNCHANGED <<req, balance, payment, fut, asked, moved, charges, debited, txn>>

\* except Exception: every engine error is a 400.
FailDirect(r) ==
    /\ \/ Goto(r, "payout_error", "replied_err")
       \/ Goto(r, "value_error", "replied_err")
    /\ req[r].caller = "direct"
    /\ UNCHANGED <<engineVars, txn>>

\* The engine's result reads wallet.balance, which reloads the row ...
LoadDirect(r) ==
    /\ Goto(r, "returned", "direct_flush")
    /\ req[r].caller = "direct"
    /\ copy' = [copy EXCEPT ![r] = balance[User(r)]]
    /\ UNCHANGED <<req, balance, payment, fut, asked, moved, charges, debited, txn>>

\* ... and wallet.balance -= amount is committed with the Transaction row.
CommitDirect(r) ==
    /\ Goto(r, "direct_flush", "replied_ok")
    /\ WriteBack(r)
    /\ txn' = [txn EXCEPT ![r] = "completed"]
    /\ UNCHANGED <<req, copy, payment, fut, asked, moved>>

Crash(r) ==
    /\ pc[r] \notin Ended
    /\ pc' = [pc EXCEPT ![r] = "crashed"]
    /\ \E n \in 0..OnTheWire(r) : moved' = [moved EXCEPT ![r] = @ + n]
    /\ UNCHANGED <<req, balance, copy, payment, fut, asked, charges, debited, txn>>

HandlerStep(r) ==
    \/ Refuse(r)
    \/ OpenTransfer(r) \/ CompleteTransfer(r) \/ FailTransfer(r) \/ EscapeTransfer(r)
    \/ OpenDirect(r) \/ FailDirect(r) \/ LoadDirect(r) \/ CommitDirect(r)

\* What the server does by itself for a request, and what waits on a provider.
ServerStep(r) == HandlerStep(r) \/ (EngineStep(r) /\ UNCHANGED txn)
AwaitedStep(r) == ProviderStep(r) /\ UNCHANGED txn

Next == \E r \in Requests : ServerStep(r) \/ AwaitedStep(r) \/ Crash(r)

Spec == Init /\ [][Next]_vars

\* A live worker keeps running its requests, fallback threads included.  No
\* fairness is assumed of the providers.
Fairness == \A r \in Requests : WF_vars(ServerStep(r))

FairSpec == Spec /\ Fairness

-----------------------------------------------------------------------------
(* Properties *)

\* The rows, futures and copies hold values of the code's types; a balance may
\* be negative, counts and copies are bounded only by the arguments.
TypeOK ==
    /\ req \in [Requests -> Inputs]
    /\ pc \in [Requests -> PC]
    /\ balance \in [Users -> Int]
    /\ copy \in [Requests -> Int]
    /\ payment \in [Requests -> RowStatus]
    /\ fut \in [Requests -> [Providers -> FutureState]]
    /\ asked \in [Requests -> SUBSET Providers]
    /\ moved \in [Requests -> Nat]
    /\ charges \in [Requests -> Nat]
    /\ debited \in [Users -> Nat]
    /\ txn \in [Requests -> RowStatus]

\* Wallet.debit refuses what the row does not cover, and re-checks on the value
\* it writes back: a wallet goes below zero only through a request whose
\* handler debited it a second time after the engine had.
OverdrawnOnlyByDoubleDebit ==
    \A u \in Users : balance[u] < 0 =>
        \E r \in Requests : User(r) = u /\ req[r].caller = "direct" /\ charges[r] > 1

\* Racing requests that write stale balances back can lose a debit but never
\* take more from a user than the debits that were committed.
NeverOvercharged == \A u \in Users : balance[u] + debited[u] >= Opening[u]

\* As the code stands a payout moves money at most once, although the engine
\* retries at every provider after a call whose answer was lost: its worker
\* threads raise before they send anything.
AtMostOneTransfer == ~WorkerAppContext => \A r \in Requests : moved[r] <= 1

\* The handler's Transaction row never contradicts the engine's payment row: it
\* is completed only over a completed payment that moved money, and failed only
\* when the payment failed or was never opened.
TransactionFollowsPayment ==
    \A r \in Requests :
        /\ txn[r] = "completed" => payment[r] = "completed" /\ moved[r] > 0
        /\ txn[r] = "failed" => payment[r] \in {"none", "failed"}

\* Every request implements the payout contract.
PhaseOf(r) ==
    IF charges[r] = 0
    THEN IF pc[r] \in Ended THEN "refused" ELSE "open"
    ELSE CASE payment[r] = "completed" -> "paid"
           [] payment[r] = "failed" -> "failed"
           [] OTHER -> IF pc[r] = "crashed" THEN "abandoned" ELSE "charged"

Promise == INSTANCE PayoutContract
    WITH Payouts <- Requests, phase <- [r \in Requests |-> PhaseOf(r)], sent <- moved

ImplementsContract == Promise!Contract

\* Once the fallback has marked a payment completed or failed nothing rewrites
\* it, and a Transaction row is settled at most once.
SettledIsFinal ==
    [][\A r \in Requests :
          /\ payment[r] \in {"completed", "failed"} => payment'[r] = payment[r]
          /\ txn[r] \in {"completed", "failed"} => txn'[r] = txn[r]]_vars

\* A request that stops short of its reply is waiting for a provider: the
\* engine itself never blocks, whichever way the fallback futures complete.
WaitsForProvider(r) ==
    \/ pc[r] = "calling"
    \/ WorkerAppContext /\ Working(r) /\ \E p \in Providers : fut[r][p] = "running"

AnsweredUnlessWaiting ==
    \A r \in Requests : <>[](pc[r] \in Ended \/ WaitsForProvider(r))
=============================================================================
