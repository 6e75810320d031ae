---------------------------- MODULE WalletFunding ----------------------------
(***************************************************************************)
(* How money gets into a wallet: the load_wallet handlers, which record an *)
(* expected payment, and the four webhooks a payment provider calls when   *)
(* the payment has been made (src/app/handlers):                           *)
(*   "flutterwave"  flutterwave_webhook of flutterwave.py                  *)
(*   "paystack"     payment_webhook of paystark_routes.py                  *)
(*   "monnify"      monnify_payment_complete of monnify.py                 *)
(*   "moniepoint"   moniepoint_webhook of wallet.py                        *)
(* Providers deliver a webhook more than once and concurrently, and the    *)
(* worker that handles one may die between its commits.                    *)
(*                                                                         *)
(* Each query is a step, and each commit; a balance is changed by loading  *)
(* it, computing in memory and writing the result back.  Only paystack     *)
(* selects the wallet FOR UPDATE; an UPDATE of the row waits for that lock.*)
(* transactions.reference is unique, the provider_txn_id of                *)
(* payment_transactions is not.                                            *)
(***************************************************************************)
EXTENDS Integers

CONSTANTS
    Deliveries,      \* the webhook calls
    Payments,        \* the payments they are about
    Users,           \* the owners of wallets
    pay,             \* the payment each delivery is about
    Inputs,          \* what a payment may be
    Opening,         \* the balance each wallet starts with
    CentralOpening,  \* the balance each central account starts with
    Free             \* the holder of a row lock nobody holds

Channels == {"flutterwave", "paystack", "monnify", "moniepoint"}
Accounts == {"moniepoint", "monnify"}

\* "matched": some FullName row matches the customer name (monnify); "named":
\* the payload carries a reference (moniepoint makes one up otherwise).
InputType == [channel : Channels, user : Users, amount : Nat \ {0},
              matched : BOOLEAN, named : BOOLEAN]

ASSUME PayAssumption == pay \in [Deliveries -> Payments]
ASSUME InputsAssumption == Inputs \subseteq InputType
ASSUME OpeningAssumption == Opening \in [Users -> Nat]
ASSUME CentralAssumption == CentralOpening \in [Accounts -> Nat]
ASSUME FreeAssumption == Free \notin Deliveries

VARIABLES
    arg,        \* the arguments of each payment
    pc,         \* where each delivery is
    recorded,   \* payments load_wallet has put in payment_transactions
    processed,  \* payments whose payment_transactions row is processed
    incoming,   \* how many "in" rows monnify has inserted for a payment
    ledger,     \* payments with a row in transactions, by unique reference
    wallet,     \* wallets.balance, committed
    central,    \* central_accounts.balance, committed
    lock,       \* the delivery that holds a wallet's row lock
    wcopy,      \* the wallet balance a delivery has loaded
    ccopy,      \* the central balance a delivery has loaded
    credited,   \* history: how often a payment was credited to its wallet
    received,   \* history: the sum of the credits committed to a wallet
    drawn       \* history: what was committed as taken from the central accounts

rows == <<recorded, processed, incoming, ledger>>
accounts == <<wallet, central, lock>>
memory == <<wcopy, ccopy>>
history == <<credited, received, drawn>>
vars == <<arg, pc, rows, accounts, memory, history>>

Ended == {"replied_ok", "replied_err", "crashed"}
PC == Ended \cup
      {"idle", "flw_central", "flw_wallet", "flw_commit", "psk_lock", "psk_credit", "psk_log",
       "mon_central", "mon_book", "mon_match", "mon_credit", "mon_reload",
       "mon_settle", "mnp_commit"}

User(d) == arg[pay[d]].user
Amount(d) == arg[pay[d]].amount
Via(d, channel) == arg[pay[d]].channel = channel

Init ==
    /\ arg \in [Payments -> Inputs]
    /\ pc = [d \in Deliveries |-> "idle"]
    /\ recorded = {} /\ processed = {} /\ ledger = {}
    /\ incoming = [p \in Payments |-> 0]
    /\ wallet = Opening
    /\ central = CentralOpening
    /\ lock = [u \in Users |-> Free]
    /\ wcopy = [d \in Deliveries |-> 0]
    /\ ccopy = [d \in Deliveries |-> 0]
    /\ credited = [p \in Payments |-> 0]
    /\ received = [u \in Users |-> 0]
    /\ drawn = [a \in Accounts |-> 0]

Goto(d, from, to) == pc[d] = from /\ pc' = [pc EXCEPT ![d] = to]

LoadWallet(d) == wcopy' = [wcopy EXCEPT ![d] = wallet[User(d)]]
LoadCentral(d, a) == ccopy' = [ccopy EXCEPT ![d] = central[a]]

\* The loaded balance plus the amount replaces the balance in the row, once no
\* other delivery holds the row lock.
Credit(d) ==
    /\ lock[User(d)] \in {d, Free}
    /\ wallet' = [wallet EXCEPT ![User(d)] = wcopy[d] + Amount(d)]
    /\ credited' = [credited EXCEPT ![pay[d]] = @ + 1]
    /\ received' = [received EXCEPT ![User(d)] = @ + Amount(d)]

\* The same for a central account; n is negative for a deduction.
BookCentral(d, a, n) ==
    /\ central' = [central EXCEPT ![a] = ccopy[d] + n]
    /\ drawn' = [drawn EXCEPT ![a] = @ - n]

\* load_wallet: initialises the payment at the provider and records it.  (The row
\* load_wallet_get writes for monnify carries a reference of its own making; the
\* webhook looks for the one Monnify made.)
RecordPayment(p) ==
    /\ arg[p].channel \in {"flutterwave", "paystack"} /\ p \notin recorded
    /\ recorded' = recorded \cup {p}
    /\ UNCHANGED <<arg, pc, processed, incoming, ledger, accounts, memory, history>>

\* A bad signature or payload, a payment the provider does not verify, a row
\* that does not exist: an error reply and nothing changed.
Reject(d) ==
    /\ Goto(d, "idle", "replied_err")
    /\ UNCHANGED <<arg, rows, accounts, memory, history>>

(***************************************************************************)
(* flutterwave: check the row, load both balances, commit all at once.     *)
(***************************************************************************)
FlwCheck(d) ==
    /\ Via(d, "flutterwave") /\ pay[d] \in recorded
    /\ \/ Goto(d, "idle", "replied_ok") /\ pay[d] \in processed
       \/ Goto(d, "idle", "flw_central") /\ pay[d] \notin processed
    /\ UNCHANGED <<arg, rows, accounts, memory, history>>

FlwCentral(d) ==
    /\ Goto(d, "flw_central", "flw_wallet")
    /\ LoadCentral(d, "moniepoint")
    /\ UNCHANGED <<arg, rows, accounts, wcopy, history>>

FlwWalletUnchecked(d) ==
    /\ Goto(d, "flw_wallet", "flw_commit")
    /\ LoadWallet(d)
    /\ UNCHANGED <<arg, rows, accounts, ccopy, history>>

FlwWallet(d) ==
    /\ LoadWallet(d)
    /\ \/ Goto(d, "flw_wallet", "flw_commit") /\ ccopy[d] >= Amount(d)
       \/ Goto(d, "flw_wallet", "replied_err") /\ ccopy[d] < Amount(d)
    /\ UNCHANGED <<arg, rows, accounts, ccopy, history>>

FlwCommitNotUnique(d) ==
    /\ Goto(d, "flw_commit", "replied_ok")
    /\ Credit(d) /\ BookCentral(d, "moniepoint", -Amount(d))
    /\ processed' = processed \cup {pay[d]}
    /\ ledger' = ledger \cup {pay[d]}
    /\ UNCHANGED <<arg, recorded, incoming, lock, memory>>

\* The unique ledger references make the commit of a second delivery fail.
FlwCommit(d) ==
    \/ /\ Goto(d, "flw_commit", "replied_ok") /\ pay[d] \notin ledger
       /\ Credit(d) /\ BookCentral(d, "moniepoint", -Amount(d))
       /\ processed' = processed \cup {pay[d]}
       /\ ledger' = ledger \cup {pay[d]}
       /\ UNCHANGED <<arg, recorded, incoming, lock, memory>>
    \/ /\ Goto(d, "flw_commit", "replied_err") /\ pay[d] \in ledger
       /\ UNCHANGED <<arg, rows, accounts, memory, history>>

(***************************************************************************)
(* paystack: the row is checked before the wallet is locked, and           *)
(* Wallet.credit commits, which releases the lock before the row is        *)
(* marked and the ledger row inserted.                                     *)
(***************************************************************************)
PskCheck(d) ==
    /\ Via(d, "paystack") /\ pay[d] \in recorded
    /\ \/ Goto(d, "idle", "replied_ok") /\ pay[d] \in processed
       \/ Goto(d, "idle", "psk_lock") /\ pay[d] \notin processed
    /\ UNCHANGED <<arg, rows, accounts, memory, history>>

PskSelectPlain(d) ==
    /\ Goto(d, "psk_lock", "psk_credit")
    /\ LoadWallet(d)
    /\ UNCHANGED <<arg, rows, accounts, ccopy, history>>

PskLock(d) ==
    /\ Goto(d, "psk_lock", "psk_credit")
    /\ lock[User(d)] = Free /\ lock' = [lock EXCEPT ![User(d)] = d]
    /\ LoadWallet(d)
    /\ UNCHANGED <<arg, rows, wallet, central, ccopy, history>>

Release(d) == lock' = [u \in Users |-> IF lock[u] = d THEN Free ELSE lock[u]]

PskCredit(d) ==
    /\ Goto(d, "psk_credit", "psk_log")
    /\ Credit(d) /\ Release(d)
    /\ UNCHANGED <<arg, rows, central, memory, drawn>>

PskLogAddsAgain(d) ==
    /\ Goto(d, "psk_log", "replied_ok") /\ pay[d] \notin ledger
    /\ processed' = processed \cup {pay[d]}
    /\ ledger' = ledger \cup {pay[d]}
    /\ wallet' = [wallet EXCEPT ![User(d)] = @ + Amount(d)]
    /\ UNCHANGED <<arg, recorded, incoming, central, lock, memory, history>>

PskLog(d) ==
    \/ /\ Goto(d, "psk_log", "replied_ok") /\ pay[d] \notin ledger
       /\ processed' = processed \cup {pay[d]}
       /\ ledger' = ledger \cup {pay[d]}
       /\ UNCHANGED <<arg, recorded, incoming, accounts, memory, history>>
    \/ /\ Goto(d, "psk_log", "replied_err") /\ pay[d] \in ledger
       /\ UNCHANGED <<arg, rows, accounts, memory, history>>

(***************************************************************************)
(* monnify: three commits.  The payment is booked into the central         *)
(* account; if the customer is known the wallet is credited; then the row  *)
(* is marked and the central account debited.                              *)
(***************************************************************************)
MonCheck(d) ==
    /\ Via(d, "monnify")
    /\ \/ Goto(d, "idle", "replied_ok") /\ incoming[pay[d]] > 0
       \/ Goto(d, "idle", "mon_central") /\ incoming[pay[d]] = 0
    /\ UNCHANGED <<arg, rows, accounts, memory, history>>

MonCentral(d) ==
    /\ Goto(d, "mon_central", "mon_book")
    /\ LoadCentral(d, "monnify")
    /\ UNCHANGED <<arg, rows, accounts, wcopy, history>>

MonBook(d) ==
    /\ Goto(d, "mon_book", "mon_match")
    /\ incoming' = [incoming EXCEPT ![pay[d]] = @ + 1]
    /\ BookCentral(d, "monnify", Amount(d))
    /\ UNCHANGED <<arg, recorded, processed, ledger, wallet, lock, memory,
                   credited, received>>

MonMatchMarksAll(d) ==
    \/ /\ Goto(d, "mon_match", "replied_ok") /\ ~arg[pay[d]].matched
       /\ processed' = processed \cup {pay[d]}
       /\ UNCHANGED <<arg, recorded, incoming, ledger, accounts, memory, history>>
    \/ /\ Goto(d, "mon_match", "mon_credit") /\ arg[pay[d]].matched
       /\ LoadWallet(d)
       /\ UNCHANGED <<arg, rows, accounts, ccopy, history>>

MonMatch(d) ==
    \/ /\ Goto(d, "mon_match", "replied_ok") /\ ~arg[pay[d]].matched
       /\ UNCHANGED <<arg, rows, accounts, memory, history>>
    \/ /\ Goto(d, "mon_match", "mon_credit") /\ arg[pay[d]].matched
       /\ LoadWallet(d)
       /\ UNCHANGED <<arg, rows, accounts, ccopy, history>>

MonCredit(d) ==
    /\ Goto(d, "mon_credit", "mon_reload")
    /\ Credit(d)
    /\ UNCHANGED <<arg, rows, central, lock, memory, drawn>>

\* The commit expired the central row; reading its id loads it again.
MonReload(d) ==
    /\ Goto(d, "mon_reload", "mon_settle")
    /\ LoadCentral(d, "monnify")
    /\ UNCHANGED <<arg, rows, accounts, wcopy, history>>

MonSettle(d) ==
    /\ Goto(d, "mon_settle", "replied_ok")
    /\ processed' = processed \cup {pay[d]}
    /\ BookCentral(d, "monnify", -Amount(d))
    /\ UNCHANGED <<arg, recorded, incoming, ledger, wallet, lock, memory,
                   credited, received>>

(***************************************************************************)
(* moniepoint: the wallet is loaded and committed with a ledger row, whose *)
(* reference is unique when the payload names it and fresh otherwise.      *)
(***************************************************************************)
MnpLoad(d) ==
    /\ Via(d, "moniepoint") /\ Goto(d, "idle", "mnp_commit")
    /\ LoadWallet(d)
    /\ UNCHANGED <<arg, rows, accounts, ccopy, history>>

MnpCommit(d) ==
    \/ /\ Goto(d, "mnp_commit", "replied_ok")
       /\ ~arg[pay[d]].named \/ pay[d] \notin ledger
       /\ Credit(d)
       /\ ledger' = ledger \cup {pay[d]}
       /\ UNCHANGED <<arg, recorded, processed, incoming, central, lock, memory, drawn>>
    \/ /\ Goto(d, "mnp_commit", "replied_err")
       /\ arg[pay[d]].named /\ pay[d] \in ledger
       /\ UNCHANGED <<arg, rows, accounts, memory, history>>

\* The worker dies; committed rows stay and its locks go.
Crash(d) ==
    /\ pc[d] \notin Ended
    /\ pc' = [pc EXCEPT ![d] = "crashed"]
    /\ Release(d)
    /\ UNCHANGED <<arg, rows, wallet, central, memory, history>>

WebhookStep(d) ==
    \/ FlwCheck(d) \/ FlwCentral(d) \/ FlwWallet(d) \/ FlwCommit(d)
    \/ PskCheck(d) \/ PskLock(d) \/ PskCredit(d) \/ PskLog(d)
    \/ MonCheck(d) \/ MonCentral(d) \/ MonBook(d) \/ MonMatch(d)
    \/ MonCredit(d) \/ MonReload(d) \/ MonSettle(d)
    \/ MnpLoad(d) \/ MnpCommit(d)

Next ==
    \/ \E p \in Payments : RecordPayment(p)
    \/ \E d \in Deliveries : WebhookStep(d) \/ Reject(d) \/ Crash(d)

Spec == Init /\ [][Next]_vars

-----------------------------------------------------------------------------
(* Properties *)

TypeOK ==
    /\ arg \in [Payments -> Inputs]
    /\ pc \in [Deliveries -> PC]
    /\ recorded \subseteq Payments /\ processed \subseteq Payments
    /\ ledger \subseteq Payments
    /\ incoming \in [Payments -> Nat]
    /\ wallet \in [Users -> Nat]
    /\ central \in [Accounts -> Int] /\ central["moniepoint"] >= 0
    /\ lock \in [Users -> Deliveries \cup {Free}]
    /\ wcopy \in [Deliveries -> Nat] /\ ccopy \in [Deliveries -> Int]
    /\ credited \in [Payments -> Nat] /\ received \in [Users -> Nat]
    /\ drawn \in [Accounts -> Int]

\* A flutterwave payment, and a moniepoint payment that carries a reference, is
\* credited at most once however often and concurrently it is delivered: the
\* credit commits together with a ledger row whose reference is unique.
UniqueReferenceCreditsOnce ==
    \A p \in Payments :
        \/ arg[p].channel = "flutterwave"
        \/ arg[p].channel = "moniepoint" /\ arg[p].named
        => credited[p] = IF p \in ledger THEN 1 ELSE 0

\* A payment marked processed has been credited, and no channel marks a payment
\* it could not attribute to a user.
ProcessedMeansCredited ==
    \A p \in processed :
        /\ credited[p] > 0
        /\ arg[p].channel = "monnify" => arg[p].matched /\ incoming[p] > 0
        /\ arg[p].channel # "monnify" => p \in recorded /\ p \in ledger

\* Racing write-backs lose money of the users and never make any for them: no
\* wallet holds more than the credits committed to it.  For the central account
\* it is the other way round: it never shows less than the deductions leave.
LostUpdatesOnlyLose ==
    /\ \A u \in Users : wallet[u] <= Opening[u] + received[u]
    /\ central["moniepoint"] >= CentralOpening["moniepoint"] - drawn["moniepoint"]

\* A wallet that only paystack pays into is exact: the row lock covers the load
\* and the commit of every credit.
LockedWalletsExact ==
    \A u \in Users :
        (\A p \in Payments : arg[p].user = u => arg[p].channel = "paystack")
        => wallet[u] = Opening[u] + received[u]

\* "Already processed" (paystark_routes.py:35): a paystack payment is credited
\* once.  Violated: processed is read before the lock, which the commit inside
\* Wallet.credit releases before processed is written.
PaystackCreditsOnce ==
    \A p \in Payments : arg[p].channel = "paystack" => credited[p] <= 1
=============================================================================
