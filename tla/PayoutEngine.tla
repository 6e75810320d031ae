----------------------------- MODULE PayoutEngine -----------------------------
(***************************************************************************)
(* process_vendor_payout of src/app/services/services/engine.py, as run    *)
(* concurrently by the request threads of several workers.                 *)
(*                                                                         *)
(* The database is a store of committed rows.  A request works on the      *)
(* in-memory copy of its Wallet row: Wallet.debit computes the new balance *)
(* from the value it loaded and the commit writes that value back, so the  *)
(* load and the commit are two steps with other requests in between.       *)
(* Every commit expires the copy (expire_on_commit), so each read after a  *)
(* commit sees the row as it then is.                                      *)
(*                                                                         *)
(* A provider is external: a call to it may move the money and say so      *)
(* ("ok"), refuse ("rejected"), or move the money and fail to say so       *)
(* ("lost": the response is an error, or never parsed).                    *)
(***************************************************************************)
EXTENDS Integers, FiniteSets

CONSTANTS
    Requests,         \* the HTTP requests that run a payout
    Users,            \* the users that own a wallet
    Providers,        \* "paystack", "flutterwave", "monnify" (engine.py:128)
    Inputs,           \* the argument tuples a request may carry
    Opening,          \* Opening[u]: the balance u's wallet starts with
    WorkerAppContext  \* whether a ThreadPoolExecutor thread can read current_app

\* A request's arguments: "caller" names the handler that calls the engine,
\* "provider" may be a name the engine does not route, "vendorFound" is the
\* result of Vendor.query.get(vendor_id).
InputType == [user: Users, amount: Nat \ {0}, provider: STRING,
              caller: {"transfer", "direct"}, vendorFound: BOOLEAN]

ASSUME InputsAssumption == Inputs \subseteq InputType
ASSUME OpeningAssumption == Opening \in [Users -> Nat]
ASSUME ProvidersAssumption == Providers # {} /\ IsFiniteSet(Providers)
ASSUME ContextAssumption == WorkerAppContext \in BOOLEAN

VARIABLES
    req,      \* the arguments of each request
    pc,       \* where each request is
    balance,  \* wallets.balance, committed
    copy,     \* the balance a request loaded and is about to write back
    payment,  \* payments.status of the request's Vendor_Payment row
    fut,      \* the state of each fallback future of a request
    asked,    \* history: the providers the request sent a transfer to
    moved,    \* history: how many transfers providers carried out for it
    charges,  \* history: how often the request's wallet was debited
    debited   \* history: the sum of the debits committed against a wallet

engineVars == <<req, balance, copy, payment, fut, asked, moved, charges, debited>>

RowStatus == {"none", "processing", "completed", "failed"}
FutureState == {"none", "running", "ok", "error", "seen"}
Outcomes == {"ok", "rejected", "lost"}

Amount(r) == req[r].amount
User(r) == req[r].user

EngineInit ==
    /\ req \in [Requests -> Inputs]
    /\ balance = Opening
    /\ copy = [r \in Requests |-> 0]
    /\ payment = [r \in Requests |-> "none"]
    /\ fut = [r \in Requests |-> [p \in Providers |-> "none"]]
    /\ asked = [r \in Requests |-> {}]
    /\ moved = [r \in Requests |-> 0]
    /\ charges = [r \in Requests |-> 0]
    /\ debited = [u \in Users |-> 0]

Goto(r, from, to) == pc[r] = from /\ pc' = [pc EXCEPT ![r] = to]

\* Mutant: the platform fee is taken on top of the amount.
WriteBackWithFee(r) ==
    /\ balance' = [balance EXCEPT ![User(r)] = copy[r] - Amount(r) - 1]
    /\ charges' = [charges EXCEPT ![r] = @ + 1]
    /\ debited' = [debited EXCEPT ![User(r)] = @ + Amount(r)]

\* The new committed balance is computed from the copy, not from the row.
WriteBack(r) ==
    /\ balance' = [balance EXCEPT ![User(r)] = copy[r] - Amount(r)]
    /\ charges' = [charges EXCEPT ![r] = @ + 1]
    /\ debited' = [debited EXCEPT ![User(r)] = @ + Amount(r)]

Covered(r) == balance[User(r)] >= Amount(r)

\* The balance the engine's own check sees.  A "transfer" caller has committed
\* just before, so the query loads the row; a "direct" caller has not, and the
\* query returns the Wallet object its session already holds.
Loaded(r) == IF req[r].caller = "direct" THEN copy[r] ELSE balance[User(r)]

Accepted(r) == req[r].vendorFound /\ Loaded(r) >= Amount(r)

(***************************************************************************)
(* Vendor and wallet validation, then the payment row, committed as        *)
(* "processing" (nothing else reads that row, so the check and the commit  *)
(* are one step).  A failed check raises PayoutError.                      *)
(***************************************************************************)
Validate(r) ==
    \/ /\ Goto(r, "validate", "debit")
       /\ Accepted(r)
       /\ payment' = [payment EXCEPT ![r] = "processing"]
       /\ UNCHANGED <<req, balance, copy, fut, asked, moved, charges, debited>>
    \/ /\ Goto(r, "validate", "payout_error")
       /\ ~Accepted(r)
       /\ UNCHANGED engineVars

\* Mutant: Wallet.debit trusts the check made before the payment row's commit.
LoadAndDebitUnchecked(r) ==
    /\ Goto(r, "debit", "flush")
    /\ copy' = [copy EXCEPT ![r] = balance[User(r)]]
    /\ UNCHANGED <<req, balance, payment, fut, asked, moved, charges, debited>>

\* wallet.debit(amount) after the commit: reload, check again (the balance may
\* have gone meanwhile: ValueError, which is not a PayoutError), subtract.
LoadAndDebit(r) ==
    \/ /\ Goto(r, "debit", "flush")
       /\ Covered(r)
       /\ copy' = [copy EXCEPT ![r] = balance[User(r)]]
       /\ UNCHANGED <<req, balance, payment, fut, asked, moved, charges, debited>>
    \/ /\ Goto(r, "debit", "value_error")
       /\ ~Covered(r)
       /\ UNCHANGED engineVars

CommitDebit(r) ==
    /\ Goto(r, "flush", "route")
    /\ WriteBack(r)
    /\ UNCHANGED <<req, copy, payment, fut, asked, moved>>

(***************************************************************************)
(* The selected provider is called; an unknown name raises inside the same *)
(* try, so it too falls back to every provider at once.                    *)
(***************************************************************************)
SubmitAll(r) == fut' = [fut EXCEPT ![r] = [p \in Providers |-> "running"]]

Route(r) ==
    \/ /\ Goto(r, "route", "calling")
       /\ req[r].provider \in Providers
       /\ asked' = [asked EXCEPT ![r] = @ \cup {req[r].provider}]
       /\ UNCHANGED <<req, balance, copy, payment, fut, moved, charges, debited>>
    \/ /\ Goto(r, "route", "fallback")
       /\ req[r].provider \notin Providers
       /\ SubmitAll(r)
       /\ UNCHANGED <<req, balance, copy, payment, asked, moved, charges, debited>>

\* What the outcome of a call does to the money the providers hold.
CountMove(r, o) ==
    moved' = [moved EXCEPT ![r] = IF o = "rejected" THEN @ ELSE @ + 1]

ProviderAnswers(r) ==
    \E o \in Outcomes :
        /\ CountMove(r, o)
        /\ \/ o = "ok" /\ Goto(r, "calling", "settle") /\ UNCHANGED fut
           \/ o # "ok" /\ Goto(r, "calling", "fallback") /\ SubmitAll(r)
        /\ UNCHANGED <<req, balance, copy, payment, asked, charges, debited>>

(***************************************************************************)
(* The fallback: one thread per provider.  The provider functions read     *)
(* current_app, which raises in a thread without an application context.   *)
(***************************************************************************)
Working(r) == pc[r] \in {"fallback", "join"}

WorkerAnswers(r, p) ==
    /\ Working(r) /\ fut[r][p] = "running"
    /\ WorkerAppContext
    /\ asked' = [asked EXCEPT ![r] = @ \cup {p}]
    /\ \E o \in Outcomes :
          /\ CountMove(r, o)
          /\ fut' = [fut EXCEPT ![r][p] = IF o = "ok" THEN "ok" ELSE "error"]
    /\ UNCHANGED <<pc, req, balance, copy, payment, charges, debited>>

WorkerRaises(r, p) ==
    /\ Working(r) /\ fut[r][p] = "running"
    /\ ~WorkerAppContext
    /\ fut' = [fut EXCEPT ![r][p] = "error"]
    /\ UNCHANGED <<pc, req, balance, copy, payment, asked, moved, charges, debited>>

\* Mutant: any future that is done completes the payment.
CollectAnything(r, p) ==
    /\ Goto(r, "fallback", "join")
    /\ fut[r][p] \in {"ok", "error"}
    /\ payment' = [payment EXCEPT ![r] = "completed"]
    /\ UNCHANGED <<req, balance, copy, fut, asked, moved, charges, debited>>

\* Mutant: the loop goes on after a success (no return inside it).
CollectAll(r, p) ==
    /\ pc[r] = "fallback" /\ fut[r][p] \in {"ok", "error"}
    /\ fut' = [fut EXCEPT ![r][p] = "seen"]
    /\ payment' = IF fut[r][p] = "ok" THEN [payment EXCEPT ![r] = "completed"] ELSE payment
    /\ UNCHANGED <<pc, req, balance, copy, asked, moved, charges, debited>>

\* as_completed: the first success completes the payment, an error is skipped.
Collect(r, p) ==
    \/ /\ Goto(r, "fallback", "join")
       /\ fut[r][p] = "ok"
       /\ payment' = [payment EXCEPT ![r] = "completed"]
       /\ UNCHANGED <<req, balance, copy, fut, asked, moved, charges, debited>>
    \/ /\ pc[r] = "fallback" /\ fut[r][p] = "error"
       /\ fut' = [fut EXCEPT ![r][p] = "seen"]
       /\ UNCHANGED <<pc, req, balance, copy, payment, asked, moved, charges, debited>>

\* Mutant: waits for every future to have been collected.
JoinCollected(r) ==
    /\ Goto(r, "join", "returned")
    /\ \A p \in Providers : fut[r][p] = "seen"
    /\ UNCHANGED engineVars

\* Leaving the with block waits for the threads that are still running.
Join(r) ==
    /\ Goto(r, "join", "returned")
    /\ \A p \in Providers : fut[r][p] # "running"
    /\ UNCHANGED engineVars

\* Mutant: the row gets the status of the JSON reply.
AllFailedWrongStatus(r) ==
    /\ Goto(r, "fallback", "payout_error")
    /\ \A p \in Providers : fut[r][p] = "seen"
    /\ payment' = [payment EXCEPT ![r] = "error"]
    /\ UNCHANGED <<req, balance, copy, fut, asked, moved, charges, debited>>

AllFailed(r) ==
    /\ Goto(r, "fallback", "payout_error")
    /\ \A p \in Providers : fut[r][p] = "seen"
    /\ payment' = [payment EXCEPT ![r] = "failed"]
    /\ UNCHANGED <<req, balance, copy, fut, asked, moved, charges, debited>>

Settle(r) ==
    /\ Goto(r, "settle", "returned")
    /\ payment' = [payment EXCEPT ![r] = "completed"]
    /\ UNCHANGED <<req, balance, copy, fut, asked, moved, charges, debited>>

\* The steps the server itself takes, and those that wait on a provider: no
\* call of requests.post has a timeout, so only the former are sure to come.
EngineStep(r) ==
    \/ Validate(r) \/ LoadAndDebit(r) \/ CommitDebit(r) \/ Route(r)
    \/ \E p \in Providers : WorkerRaises(r, p) \/ Collect(r, p)
    \/ Join(r) \/ AllFailed(r) \/ Settle(r)

ProviderStep(r) == ProviderAnswers(r) \/ \E p \in Providers : WorkerAnswers(r, p)

(***************************************************************************)
(* A worker dies.  Its rows stay as committed; a transfer that was on the  *)
(* wire may still be carried out, one whose answer nobody waits for.       *)
(***************************************************************************)
OnTheWire(r) ==
    IF pc[r] = "calling" THEN 1
    ELSE IF Working(r) /\ WorkerAppContext
         THEN Cardinality({p \in Providers : fut[r][p] = "running"})
         ELSE 0
=============================================================================
