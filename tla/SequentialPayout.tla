--------------------------- MODULE SequentialPayout ---------------------------
(***************************************************************************)
(* Transaction.process_vendor_payout and Wallet.debit_from_db of           *)
(* src/app/database/wallet.py: the payout that tries its providers one     *)
(* after the other and debits the wallet only when one has answered.       *)
(*                                                                         *)
(* debit_from_db selects the wallet FOR UPDATE.  The row lock belongs to   *)
(* the request's database transaction: it is held until that commits, so   *)
(* on the error path until the Transaction row is committed as failed, and *)
(* the database drops it when the worker dies.                             *)
(***************************************************************************)
EXTENDS Integers

CONSTANTS
    Requests,   \* the payouts under way
    Users,      \* the users that own a wallet
    Providers,  \* how many providers are tried in turn (wallet.py:86)
    Inputs,     \* the argument tuples a payout may be called with
    Opening,    \* the balance each wallet starts with
    Free        \* the holder of a row lock nobody holds

InputType == [user : Users, amount : Nat \ {0}, vendorFound : BOOLEAN]

ASSUME InputsAssumption == Inputs \subseteq InputType
ASSUME OpeningAssumption == Opening \in [Users -> Nat]
ASSUME ProvidersAssumption == Providers \in Nat
ASSUME FreeAssumption == Free \notin Requests

VARIABLES
    req,      \* the arguments of each request
    pc,       \* where each request is
    tx,       \* transactions.status of the request's row
    tried,    \* how many providers have failed the request
    balance,  \* wallets.balance, committed
    lock,     \* the request that holds a wallet's row lock
    copy,     \* the balance a request read under the lock
    moved,    \* history: how many transfers providers carried out for it
    debited   \* history: the sum of the debits committed against a wallet

vars == <<req, pc, tx, tried, balance, lock, copy, moved, debited>>
money == <<balance, lock, copy, debited>>

Ended == {"replied", "crashed"}
PC == {"idle", "try", "debit", "write", "refused", "complete"} \cup Ended
TxStatus == {"none", "processing", "completed", "failed"}

User(r) == req[r].user
Amount(r) == req[r].amount

Init ==
    /\ req \in [Requests -> Inputs]
    /\ pc = [r \in Requests |-> "idle"]
    /\ tx = [r \in Requests |-> "none"]
    /\ tried = [r \in Requests |-> 0]
    /\ balance = Opening
    /\ lock = [u \in Users |-> Free]
    /\ copy = [r \in Requests |-> 0]
    /\ moved = [r \in Requests |-> 0]
    /\ debited = [u \in Users |-> 0]

Goto(r, from, to) == pc[r] = from /\ pc' = [pc EXCEPT ![r] = to]
Mark(r, status) == tx' = [tx EXCEPT ![r] = status]

\* The Transaction row is committed before any provider is called.
Open(r) ==
    \/ /\ Goto(r, "idle", "try") /\ req[r].vendorFound
       /\ Mark(r, "processing")
       /\ UNCHANGED <<req, tried, money, moved>>
    \/ /\ Goto(r, "idle", "replied") /\ ~req[r].vendorFound
       /\ UNCHANGED <<req, tx, tried, money, moved>>

(***************************************************************************)
(* The next provider answers.  A success ends the loop; an exception goes  *)
(* on to the next one, also when the transfer was carried out and only its *)
(* answer was an error or unreadable.                                      *)
(***************************************************************************)
Paid(r) ==
    /\ Goto(r, "try", "debit") /\ tried[r] < Providers
    /\ moved' = [moved EXCEPT ![r] = @ + 1]
    /\ UNCHANGED <<req, tx, tried, money>>

\* Mutant: one turn of the loop too many.
NotPaidOffByOne(r) ==
    /\ pc[r] = "try" /\ tried[r] <= Providers
    /\ tried' = [tried EXCEPT ![r] = @ + 1]
    /\ \E n \in {0, 1} : moved' = [moved EXCEPT ![r] = @ + n]
    /\ UNCHANGED <<req, pc, tx, money>>

NotPaid(r) ==
    /\ pc[r] = "try" /\ tried[r] < Providers
    /\ tried' = [tried EXCEPT ![r] = @ + 1]
    /\ \E n \in {0, 1} : moved' = [moved EXCEPT ![r] = @ + n]
    /\ UNCHANGED <<req, pc, tx, money>>

\* Mutant: no "if not provider_used" after the loop.
AllFailedIgnored(r) ==
    /\ Goto(r, "try", "debit") /\ tried[r] = Providers
    /\ UNCHANGED <<req, tx, tried, money, moved>>

AllFailed(r) ==
    /\ Goto(r, "try", "replied") /\ tried[r] = Providers
    /\ Mark(r, "failed")
    /\ UNCHANGED <<req, tried, money, moved>>

(***************************************************************************)
(* debit_from_db: SELECT ... FOR UPDATE and the check in one step, for the *)
(* row cannot change under the lock; then the decrement and its commit.    *)
(***************************************************************************)
\* Mutant: no with_for_update, so nothing keeps others from the row.
AcquireNothing(r) == UNCHANGED lock

Acquire(r) == lock[User(r)] = Free /\ lock' = [lock EXCEPT ![User(r)] = r]
Release(r) == lock' = [u \in Users |-> IF lock[u] = r THEN Free ELSE lock[u]]

\* Mutant: locked, but not checked again.
SelectUnchecked(r) ==
    /\ Acquire(r)
    /\ copy' = [copy EXCEPT ![r] = balance[User(r)]]
    /\ Goto(r, "debit", "write")
    /\ UNCHANGED <<req, tx, tried, balance, moved, debited>>

SelectForUpdate(r) ==
    /\ Acquire(r)
    /\ copy' = [copy EXCEPT ![r] = balance[User(r)]]
    /\ \/ Goto(r, "debit", "write") /\ balance[User(r)] >= Amount(r)
       \/ Goto(r, "debit", "refused") /\ balance[User(r)] < Amount(r)
    /\ UNCHANGED <<req, tx, tried, balance, moved, debited>>

CommitDebit(r) ==
    /\ Goto(r, "write", "complete")
    /\ balance' = [balance EXCEPT ![User(r)] = copy[r] - Amount(r)]
    /\ debited' = [debited EXCEPT ![User(r)] = @ + Amount(r)]
    /\ Release(r)
    /\ UNCHANGED <<req, tx, tried, copy, moved>>

\* Mutant: a refused debit is retried until it succeeds.
RefusedRetries(r) ==
    /\ Goto(r, "refused", "debit")
    /\ Release(r)
    /\ UNCHANGED <<req, tx, tried, balance, copy, moved, debited>>

\* The ValueError is caught while the lock is still held.
DebitRefused(r) ==
    /\ Goto(r, "refused", "replied")
    /\ Mark(r, "failed")
    /\ Release(r)
    /\ UNCHANGED <<req, tried, balance, copy, moved, debited>>

Complete(r) ==
    /\ Goto(r, "complete", "replied")
    /\ Mark(r, "completed")
    /\ UNCHANGED <<req, tried, money, moved>>

\* The worker dies: committed rows stay, its locks go, and a transfer on the
\* wire may still be carried out.
Crash(r) ==
    /\ pc[r] \notin Ended
    /\ pc' = [pc EXCEPT ![r] = "crashed"]
    /\ Release(r)
    /\ \E n \in {0, 1} :
          /\ n = 1 => pc[r] = "try" /\ tried[r] < Providers
          /\ moved' = [moved EXCEPT ![r] = @ + n]
    /\ UNCHANGED <<req, tx, tried, balance, copy, debited>>

ServerStep(r) ==
    \/ Open(r) \/ AllFailed(r) \/ SelectForUpdate(r)
    \/ CommitDebit(r) \/ DebitRefused(r) \/ Complete(r)
ProviderStep(r) == Paid(r) \/ NotPaid(r)

Next == \E r \in Requests : ServerStep(r) \/ ProviderStep(r) \/ Crash(r)

Spec == Init /\ [][Next]_vars

\* Live workers keep running and the database grants a free lock; nothing is
\* assumed of the providers, whose calls have no timeout.
FairSpec == Spec /\ \A r \in Requests : WF_vars(ServerStep(r))

-----------------------------------------------------------------------------
(* Properties *)

TypeOK ==
    /\ req \in [Requests -> Inputs]
    /\ pc \in [Requests -> PC]
    /\ tx \in [Requests -> TxStatus]
    /\ tried \in [Requests -> 0..Providers]
    /\ balance \in [Users -> Int]
    /\ lock \in [Users -> Requests \cup {Free}]
    /\ copy \in [Requests -> Int]
    /\ moved \in [Requests -> Nat]
    /\ debited \in [Users -> Nat]

\* debit_from_db loses no debit: the balance is what the committed debits
\* leave of the opening balance, however the payouts interleave or die.
ExactLedger == \A u \in Users : balance[u] = Opening[u] - debited[u]

\* The locked check and decrement implement a wallet that is debited in one
\* step and never beyond what it holds.
Wallets == INSTANCE AtomicWallet
    WITH Owners <- Users, Start <- Opening, funds <- balance, spent <- debited

DebitsAreAtomic == Wallets!AtomicWalletSpec

\* A row lock outlives no request: whoever holds one is between its SELECT and
\* its commit.
LocksAreHeldByDebtors ==
    \A u \in Users : lock[u] # Free =>
        User(lock[u]) = u /\ pc[lock[u]] \in {"write", "refused"}

\* Fewer transfers than providers tried: a payout moves money at most once per
\* provider, and a completed one at least once.
OneTransferPerProvider ==
    \A r \in Requests :
        /\ moved[r] <= Providers
        /\ tx[r] = "completed" => moved[r] > 0

\* A payout that stops short of its reply is waiting for a provider: waiting for
\* the row lock always ends.
AnsweredUnlessWaiting ==
    \A r \in Requests :
        <>[](pc[r] \in Ended \/ (pc[r] = "try" /\ tried[r] < Providers))

\* "If ANY provider succeeds: Debit user's wallet, Mark transaction as completed.
\* If all fail: Transaction stays failed" (database/wallet.py:63-67): a payout is
\* failed only when all providers failed it.  Violated when a provider paid and
\* the debit that follows is refused.
FailedOnlyIfAllFail == \A r \in Requests : tx[r] = "failed" => tried[r] = Providers
=============================================================================
