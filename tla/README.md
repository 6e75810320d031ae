# Gofood: a verification project

Gofood is a food-ordering back end in Python (Flask, SQLAlchemy, Redis, Socket.IO,
Celery): users fund a wallet, order from vendors over the web or WhatsApp, pay from the
wallet, and riders deliver. It reads the bank's SMS alerts through Gammu, whose C source
is kept in the tree (`src/gammu-1.42.0`). This directory holds TLA+ modules translated from
`src/app` and from the parts of Gammu that carry its own protocols, the TLC
configurations that check them on small instances, and theorems about them that TLAPS
checks for every value of the constants.

`src/app` is some 6600 lines; Gammu is some 130,000, most of them drivers that
translate one phone's messages into one structure. `templates`, `static`, `k8s`, `devops`
and `alembic` are assets and configuration.

## 1. Inventory

### Components, their state and their operations

| component | state | operations | hard behaviour |
|---|---|---|---|
| payout engine (`services/services`) | `wallets.balance`, `payments` rows, fallback futures | `process_vendor_payout`, three provider functions | unlocked read-modify-write of balances, lost provider answers, parallel fallback, crashes |
| wallet transfer handlers (`handlers/wallet.py`, `wallet_controller.py`, `whatsapp_pay_handler.py`) | `transactions` rows | three callers of the engine | errors that are not `PayoutError`, a second debit |
| sequential payout (`database/wallet.py`) | `wallets.balance`, its row lock, `transactions` rows | `Transaction.process_vendor_payout`, `Wallet.debit_from_db` | debit after payment, lock held over the error path |
| wallet funding (`handlers/flutterwave.py`, `paystark_routes.py`, `monnify.py`, `payment/`) | central account, wallets, `payment_transactions`, ledger rows | `load_wallet`, provider webhooks | duplicated, concurrent and interrupted webhooks |
| SMS credit (`utils/sms_processor`, `handlers/fund_wallet.py`) | the phone's SMS, central account, wallets | `process_incoming_sms`, `poll_sms_loop`, a 60 s timer | two processors of one SMS, a run that ends between commit and deletion, a session that is never rolled back, reused locations |
| Gammu SMSD outbox (`smsd/core.c`, `smsd/services/sql.c`) | `outbox`, `outbox_multipart`, `sentitems`, a daemon's `SMSID`, `SMSCCache`, `SendingSMSStatus` | `SMSD_SendSMS`, `FindOutboxSMS`, `AddSentSMSInfo`, `UpdateRetries`, `MoveSMS`, `CreateOutboxSMS` | claims that lapse, retries, rows inserted one by one, late reports, outages |
| Gammu SMSD inbox (`smsd/core.c`, `libgammu/service/sms/gsmmulti.c`) | the phone's memory, `inbox`, `IncompleteMessageID`, `IgnoredMessages` | `SMSD_CheckSMSStatus`, `SMSD_ReadDeleteSMS`, `SMSD_CheckMultipart`, `SaveInboxSMS`, `GSM_LinkSMS` | parts in any order, one slot to wait for the rest, crash between saving and deleting, deletion by location |
| Gammu requests and deferred events (`libgammu/gsmstate.c`) | `RequestID`, `DispatchError`, the ring of deferred events | `GSM_WaitFor`, `GSM_ReadDevice`, `GSM_DispatchMessage`, `GSM_DeferEvent` and its kin | nested requests, time-outs, frames that share a reading, a full ring |
| pay for order (`handlers/payment_wallet.py`, `verify_payment_otp.py`) | orders, wallet, OTP keys | `proceed_to_payment` behind an OTP gate | savepoint, second debit by the engine |
| rider claim (`merchants/handlers/accept_order.py`) | Redis claim keys with a TTL | `accept_order`, `unaccept_order` | get-then-set, expiry between check and delete |
| vendor status (`vendor_status_handler.py`, `utils/vendors_utils`, `utils/redis_subscriber.py`) | vendor row, three caches, a rate counter | `set_vendor_status`, `vendor_must_be_open`, subscriber | cache-aside races, counter without TTL |
| orders and notifications (`order_handler.py`, `notification_handler.py`, `delivery_handler.py`, `utils/tasks.py`) | order, single and notification rows | order creation, broadcast, Celery tasks | autoflush deletes, repeated notifications |
| bargain chat (`websocket/*bargain_handler.py`) | Redis history, message rows | `join`, `offer_fee`, `send_message` | sequence numbers from the length of a capped list |
| WhatsApp ordering (`whatsapp/`) | a conversation per phone number | `WhatsAppFlow` states, `webhook` | retried webhooks, order before payment |
| accounts and sign-in (`auth.py`, `auth_signin.py`, `phone_login.py`, `register_vendor.py`, `rider_handler.py`) | user, vendor and rider rows, OTP and session keys | sign-up, sign-in, registration | check-then-insert |
| catalogue (`store_handler.py`, `search_*.py`, `food_item_handler.py`, `wishlist_handler.py`) | vendor, item rows, per-process and Redis caches | reads, item creation | stale per-process caches |
| pages, uploads, wiring; the rest of Gammu | none that a protocol depends on | | |

### How they interact

The web handlers run concurrently: Hypercorn is started with `--workers 3`
(`devops/Dockerfile:37`) and restarted when it dies (`devops/docker-compose.yml:10`).
They share one SQL database and one Redis. Handlers call the payout engine as a
function; the engine calls the providers over HTTP, from the request's thread and, in
the fallback, from a thread per provider. The providers in turn call the funding
webhooks. Vendor status and orders travel over Redis publish/subscribe, chat over
Socket.IO.

`fund_wallet` sends an SMS with payment instructions and starts a timer; the timer and
`poll_sms_loop` read the bank's alerts from the phone through Gammu's state machine and
credit wallets. Gammu's own daemon is another user of the library: several daemons, a
phone each, share one SQL database, and every command they send to a phone goes through
`GSM_WaitFor`, which also receives the calls that come in meanwhile.

### What makes each component correct

Payouts: no transfer before a charge, none called paid that moved nothing, rows that
agree, balances that reflect the debits, every request answered. Funding: each payment
is credited once and central and wallet balances add up. SMS credit: one credit per
alert, none deleted unseen, none left behind. Outbox: one sender of a message at a time,
nothing leaves it unrecorded, bounded retries, everything leaves it in the end. Inbox:
no part lost (but for one exception of the code's own), copies only after a failure,
every part saved in the end. Requests: a
caller gets its own answer, a deferred event is handled, every command returns. Claims:
one rider per order. Status: caches agree with the database once it is quiet. Chat:
sequence numbers order messages. Conversations: one order and one payment per
confirmation. Registration: one account per identity.

`PROJECT.json` lists every component with its status, and every hazard with its line.

## 2. Plan

| step | modules | abstract specification | theorems |
|---|---|---|---|
| 1 (done) | `PayoutEngine`, `WalletTransfer` | `PayoutContract` | types, the money invariants, the rows, settled rows stay, the refinement |
| 2 (done) | `SequentialPayout` | `AtomicWallet` | types, exact ledger, lock discipline, bounded transfers, the refinement |
| 3 (done) | `WalletFunding` | | types, single credit, processed rows, lost updates, locked wallets |
| 4 (done) | `SmsCredit` | | types, single credit, no deletion unseen |
| 5 (done) | `SmsdOutbox` | | types, exclusion of claims, nothing vanishes, bounded tries, on air once and at most once per try |
| 6 (done) | `SmsdInbox` | | types, nothing lost, bounded copies, the awaited message |
| 7 (done) | `RequestReply`, a composition with the ring | `EventQueue` | types, own results, no second sending, no stranded event, quiet ends, the refinement |
| 8 (left) | `WhatsAppFlow`: the conversation under repeated messages, over the payout engine | one order per confirmation | states only advance along the conversation |
| 9 (left) | `StoreCache`, `OrderPayment`, `Registration` | | |

The order follows what a wrong step costs: money that leaves a wallet (1, 2), money that
enters one (3, 4), messages lost or sent twice (5, 6, 7), then conversations and
caches. Each module takes its actors, data and bounds as CONSTANTS with named
assumptions, has one action per step between two points where others can act, and
declares no RECURSIVE operator.

Rider claims, vendor status and orders were planned as modules and are not: section 7 says
what in the source leaves nothing to check there.

## 3. How the code is modelled

* **Steps.** An action is what a handler does between two points where another worker
  can change what it depends on: a query, a commit, a call to a provider or a phone.
  `pc` is the place in the code; the value before the arrow in `Goto` is the code that
  runs next.
* **The database.** Variables named after columns hold committed rows. A handler that
  loads a balance, computes in Python and commits does three things, and its UPDATE writes
  the absolute value it computed (SQLAlchemy 2.0.41, `requirements.txt:125`); a commit
  expires what the session has loaded (`expire_on_commit`), and a query of an object the
  session still holds does not refresh it. Isolation is READ COMMITTED; `with_for_update`
  takes a row lock that an UPDATE of the row waits for and the commit gives back
  (PostgreSQL; on SQLite it would do nothing). SMSD commits every query on its own.
* **Crashes.** `Crash` may happen between any two steps: committed rows stay, locks go,
  a transfer that is on the wire may still be carried out, a phone goes on with what it
  was handed. Nothing restarts a web request; a daemon starts again with an empty memory.
* **Failures.** Queries of SMSD, readings of the phone and runs over SMS may fail where the
  code looks at the error, and each way on is an alternative of its own. A session whose
  query, flush or commit failed refuses to work until it is rolled back, and
  `poll_sms_loop` never does that (`broken` in `SmsCredit`). Crashes,
  failures and lapsed claims are counted in one budget (`MaxMishaps`, `MaxAborts`), and
  properties are stated in terms of how many there were.
* **Providers and phones** are external. A transfer may be carried out and confirmed,
  refused, or carried out without its answer arriving. A phone may answer, answer late or
  not at all, hand several frames over at once, and receive messages and calls at any time.
* **Unfinished code.** Much of the Python tree does not import: `db`, `session`,
  `app.models`, `app.payments.factory` and others are not there, some rows are built with
  columns their class lacks, and the body of `process_vendor_payout` in
  `database/wallet.py:60` is not indented. Such names are modelled as the code uses them (a
  SQLAlchemy session, a row with that column). What the tree does decide is modelled as it
  is: `WorkerAppContext` is FALSE for the code as written, because the fallback threads
  read `current_app` without an application context and raise, and `inContext` in
  `SmsCredit` says which processors have one.
* **Data.** Amounts are small positive integers, names are strings of a fixed set or model
  values. Fees, references, texts and JSON bodies are left out.

## 4. The modules

### PayoutEngine, WalletTransfer (theorems in WalletTransferProofs)

`PayoutEngine` is `process_vendor_payout` of `services/services/engine.py`, one action
per step between its commits and calls: `Validate` (54-90), `LoadAndDebit` and
`CommitDebit` (92-94, with `Wallet.debit`), `Route` (96-125), `ProviderAnswers`,
`WorkerAnswers` or `WorkerRaises` (the threads of 130-134), `Collect` (136-159), `Join` (leaving
the `with` block), `AllFailed` (161-165) and `Settle`. `copy` is the balance in the
session's Wallet object, `fut` the futures of the fallback.

`WalletTransfer` adds the three handlers that call it. "transfer" is `transfer_funds` of
`handlers/wallet.py`, with its Transaction row `txn`; "direct" is `transfer_funds` of
`handlers/wallet_controller.py` and `pay_vendor_by_name` of `whatsapp_pay_handler.py`,
which have the same steps: check, call the engine, subtract the amount again.

`PayoutContract` is what a payout promises: charge before sending, paid only if sent,
final states final. `ImplementsContract` maps charges, payment row and pc to its phases.

### SequentialPayout (theorems in SequentialPayoutProofs)

`Transaction.process_vendor_payout` of `database/wallet.py`: providers are tried in turn
(`Paid`, `NotPaid`, `AllFailed`), then `debit_from_db` locks the row and checks
(`SelectForUpdate`), decrements and commits (`CommitDebit`) or raises while it still
holds the lock (`DebitRefused`). `AtomicWallet` is a wallet debited in one step;
`DebitsAreAtomic` is the refinement.

### WalletFunding (theorems in WalletFundingProofs)

`load_wallet` (`RecordPayment`) and the four webhooks, with a prefix per handler: `Flw`
(`handlers/flutterwave.py`), `Psk` (`paystark_routes.py`), `Mon` (`monnify.py`), `Mnp`
(`moniepoint_webhook` of `handlers/wallet.py`). `recorded`, `processed` and `incoming` are
rows of `payment_transactions`, whose `provider_txn_id` is not unique; `ledger` are
the references in `transactions`, which are. A second insert of one fails the
commit, and with it everything in that commit. `Reject` is every refusal that
changes nothing: signature, payload, verification, missing row.

### SmsCredit (theorems in SmsCreditProofs)

`process_incoming_sms` of `utils/sms_processor/sms_processor.py`, for any number of
processors: the poller and the timers of `handlers/fund_wallet.py`. `Begin` starts a
round, `GetNext` is the loop over `GetNextSMS` with its test for 'UnRead', `Match` finds
amount and user (or turns the SMS down), `LoadWallet` and `LoadCentral` are the two queries,
`Commit` writes both balances and the `PaymentTransaction` row, `Delete` is
`mark_sms_processed`, which deletes a location, whatever is there by now. `wcopy` and `ccopy`
are what the session has loaded. Whether the phone shows an SMS as read once it was read
(`marks`) and which processors have an application context (`inContext`) are chosen at the
start: the timer's thread has none.

A run breaks off when the phone raises (`PhoneFails`) or the database does
(`DatabaseFails`). `poll_sms_loop` prints the error, goes on with the next round and keeps
its session, which SQLAlchemy, or PostgreSQL when a SELECT failed, lets do nothing more
before a rollback: the processor is `broken`. From then on, as in a thread without a
context, `User.query` raises (`QueryRaises`) for every SMS that is read. Only a first query
that got no connection leaves a session that still works. An answer to a commit may be lost
after it was carried out. A new session comes with a new process or the next timer
(`Restart`), neither of which is assumed to come.

The Python binding of Gammu is not in the tree; `GetNextSMS` is modelled as the code uses
it. Each SMS is over the amount 1 and one part long. An SMS the central balance does not
cover is deleted uncredited, as in the code.

### SmsdOutbox (theorems in SmsdOutboxProofs, SmsdOutboxSendingProofs)

`SMSD_SendSMS` of `smsd/core.c` over `smsd/services/sql.c`, for daemons that share one
database and have a phone each.

| code | actions |
|---|---|
| `SMSDSQL_CreateOutboxSMS` (or any author): the row of part 1, then one row per part | `Create` |
| `FindOutboxSMS`: pick an id, claim it with an UPDATE, read its parts | `Select`, `Lock`, `Take` |
| an outbox error: the message is recorded as failed and deleted | `OutboxError` |
| the part loop: SMSC, `GSM_SendSMS`, waiting with `RefreshSendStatus`, the callback | `ReadSMSCFails`, `Submit`, `SubmitFails`, `Refresh`, `Refused`, `GiveUp`, `PhoneAnswers` |
| `AddSentSMSInfo`: INSERT into `sentitems`, then the part's Status | `Record`, `Mark`, `RecordFails` |
| failure of a part; end of a message | `UpdateRetries`, `MoveSMS`, `LeaveFails` |
| more than `MaxRetries` retries | `ErrorBox`, `ErrorBoxFails` |
| `SendingTimeOut` passes | `Expire`, `Overtake` |

The DELETE from `outbox` and the one from `outbox_multipart` (`sql.c:1142-1149`) are each
committed alone and are one step here (`Delete`): a crash between them would leave rows of an
id that no later query asks for.
An UPDATE that claims a row and fails counts as a lost race, as in the code. `sentitems`
refuses a part that is there already (its primary key, `docs/sql/mysql.sql:170`). One outage
fails both calls of `MoveSMS`. `sms.Number` is uninitialised when the first SELECT fails, so
`OutboxError` records any number of parts.

### SmsdInbox (theorems in SmsdInboxProofs)

`Poll` is `SMSD_CheckSMSStatus`, `Read` and `ReadFails` the loop of `SMSD_ReadDeleteSMS` over
`GSM_GetNextSMS` with `GSM_LinkSMS` (`Link`), `Process` and `Skip` are `SMSD_CheckMultipart`'s
two answers, `Save`, `AnswerLost`, `SaveFails`, `Delete` and `DeleteFails` save and delete the
parts one at a time, `EndRound` returns to the main loop, and `Elapse` lets
`MultipartTimeout` pass. `Arrive` and `OwnerDeletes` are the network and the phone's owner.

The daemon deletes by location, not by part: `GSM_DeleteSMS` is told `sms->Location`, reads
what is there, to see that it is an inbox message, and deletes it
(`libgammu/phone/at/at-sms.c:2265`). So `DeleteAt` removes whatever is at that location now,
nothing if it is empty. `location` says where the phone keeps, or kept, each part; a part that
arrives takes a location that no other part is at. The only question is whether the daemon
still has a deletion to do there (`Held`): all other free locations are alike, and `Arrive`
lets the part's own name stand for them.

Messages of different senders may have the same UDH id; those of one sender have different
ones, and the network delivers no part twice.

### RequestReply, EventQueue (theorems in RequestReplyProofs)

`RequestReply` composes `GSM_WaitFor` with the ring of deferred events and the AT phone's
call handlers. `stack` holds the main loop and every call of `GSM_WaitFor` nested in it, each
with the `GSM_ReadDevice` buffer it is dispatching. `Command` and `Enter` begin a request,
`Write` and `WriteFails` send it, `ReadDevice`, `Check`, `TimesOut` and `Idle` are the
loop of `GSM_WaitForOnce`, and `NotRequested`, `NeedAnother`, `Complete`, `IncomingCall` and
`CallEnds` what `GSM_DispatchMessage` does with a frame. `ProcessEvent` takes a deferred
event; its handler is SMSD's, which may hang up with a request of its own (`HangUp`). The
hook before the handler, `ATGEN_BeforeDeferredEventHook` (`atgen.c:285`), always returns
`ERR_NONE` and is left out, so the loop over the events ends only with the ring.
`DispatchReturns` stores the result in `DispatchError`, for whichever request that is now.
Assertions are active, for `CMAKE_BUILD_TYPE` is empty unless it is set: `dead`.

`EventQueue` is what the ring promises, a bounded queue whose waiting events may be
cancelled; `RingIsQueue` maps the slots from `tail` on to it.

### Faulty variants

The definitions introduced by a comment that begins with "Mutant:" and those whose names end
in a fault (`FlwCommitNotUnique`, `RefusedRetries`, ...) belong to no specification. Each is
the action beside it with a plausible bug, and the property it is listed with in
`PROJECT.json` fails when it takes the action's place.

## 5. What is checked

The runs that are to pass finish with all their properties holding.

| run | instance | what it shows |
|---|---|---|
| `transfers_as_written` | 2 requests of either kind, amounts 1 and 2, one wallet of 2, known and unknown provider, unknown vendor; `WorkerAppContext` FALSE | a wallet is overdrawn only by a second debit, users are never charged more than their debits, the two rows agree, the contract is implemented |
| `transfers_with_context` | 2 requests on 2 wallets, 2 providers in parallel; `WorkerAppContext` TRUE | the fan-out the code is written towards implements the contract, settles once, and answers every request unless it waits for a provider |
| `sequential_payouts` | 3 payouts, 2 providers, 2 users | exact ledger, at most one transfer per provider, refinement, no wait for a lock without end |
| `funding_webhooks` | 3 deliveries of 2 payments, one delivered twice, of all channels on one wallet | one credit per unique reference, processed only after the credit, lost updates only lose, exact wallets under the lock |
| `sms_credit` | 2 processors, 3 SMS (one without amount), 2 locations, central balance 1, one failure of phone, database or process | with a phone that marks what was read, one credit per SMS and none deleted unseen; every SMS is handled in the end while a session works, except where the phone's own behaviour rules it out |
| `smsd_outbox` | 2 daemons, one message of 2 parts, `MaxRetries` 1, one mishap | a claim that does not lapse excludes, nothing leaves without a record, tries are bounded, a part goes on air twice only for a cause, every message leaves |
| `smsd_inbox` | messages of 3 and 2 parts with one id, an excluded one, one mishap | no part is lost, unless it took the location of one the owner deleted while the daemon held it; copies are bounded by the mishaps, the daemon waits only for what is there, every part is saved |
| `request_reply` | one command sent up to twice, ring of 2, 3 unsolicited lines, 2 frames per reading | callers get their own answers, answered commands are not sent again, no event is stranded, ended calls stay quiet, the ring is a queue, commands return |

`SettledIsFinal` and `OwnResult` are action properties; `ImplementsContract`,
`DebitsAreAtomic` and `RingIsQueue` are refinements; `AnsweredUnlessWaiting`,
`EverySMSIsHandled`, `EveryMessageLeaves`, `EveryPartIsSaved` and `CommandsReturn` are
liveness.

**Bounds.** Lost updates, stale checks and duplicate deliveries need two actors on one
row; the third payout of `sequential_payouts` lets one hold the lock, one wait and one
die, the third delivery adds an unrelated payment into the same wallet to two of one payment.
Opening balances cover one of the amounts and not both, so each refusal is reached,
before and after the engine's own commit. Two providers are enough for one to succeed
while another runs or has failed; the third of the code adds only more of the same.

`MaxMishaps` and `MaxAborts` count crashes, failures and lapsed claims. One is enough to
break a protocol between any two of its steps, and a new session for a broken one is not
counted; `sms_credit`, without the SMS that has no amount, and `smsd_inbox`, without the
excluded message, were also run with two. Two
daemons and two parts let a daemon claim what another holds, die between two parts, or be
overtaken; one retry separates the last try from the error box. A 3-part message lets a
part be missing in the middle, the 2-part one with its id takes its place in
`IncompleteMessageID`. A ring of 2 wraps and fills (the code has 5,
`gammu-limits.h:25`), three lines are two
calls and the end of one, `ReplyNum` 2 is what the daemon sets (`smsd/core.c:2214`), and two
frames to a reading let one follow the answer. Two locations for three SMS make the phone
reuse one. The largest instances have about 1.05 million (`request_reply`), 459,000
(`sms_credit`) and 404,000 (`smsd_inbox`) distinct states. The theorems of section 6 hold
for every value of these constants.

**Deadlock** is not checked as such: when all requests have ended, all SMS are handled or
the bounds are used up, nothing is left to do, and before that something can always crash or
arrive, so the question would be empty. What it would ask is asked by the liveness
properties.

**Fairness.** Weak fairness of what a live process does by itself, and of time:

* each payout request's own steps: a worker goes on running its handler, and a free
  row lock is granted. A handler waits for a lock only while some other handler, itself
  fair, holds it. None is assumed of the payout providers, whose calls have no timeout;
  hence "unless waiting".
* the SMS processors' steps: `poll_sms_loop` never stops and a timer that fired runs on; a
  new session for a broken one (`Restart`) is never assumed;
* the daemons' steps, as their main loops turn, and the lapse of claims that nobody
  renews (`Expire`); in the inbox the daemon's steps and the passing of
  `MultipartTimeout` (`Elapse`);
* the thread in `GSM_WaitFor`, whose waits end by the clock (`Run`).

Nothing is assumed of authors, phones, networks and providers, and crashes, failures and
lapses under a holder are never fair.

### What the code says and does not do

Each of these runs is expected to find a violation of one statement of the source.

| run | statement | what happens |
|---|---|---|
| `paid_but_failed` | "If all fail: Transaction stays failed" | a provider paid, the debit is refused, the row is failed and the wallet is not debited |
| `paystack_credited_twice` | "Already processed" | both deliveries read `processed` before either sets it |
| `sms_ok_not_sent` | "Message has been sent" | the late report of a submission that was given up is taken for the next one, which the phone refused |
| `events_between_requests` | `assert(s->Phone.Data.RequestID == ID_None)` | the hang-up for one deferred call times out, leaves its RequestID, and the next deferred event is taken |

Met while modelling, and without a run of their own: the direct callers debit again after
the engine, unchecked; two requests that load one balance lose a debit;
`Wallet.debit` raises ValueError, which is not a `PayoutError`, and the Transaction row stays
"processing"; the fallback threads raise before they send, for want of an application
context; a monnify payment may be booked twice (check and insert are two steps), and a crash
after its first commit turns every redelivery into a "duplicate"; the timer behind "System
will verify in 1 minute" (`handlers/fund_wallet.py:64`) has no application context either
and ends at its first query; after one failed commit `poll_sms_loop` reads every SMS and
credits none, until its process is started again; a message part that arrives where the phone's owner has
just deleted one that the daemon has read is deleted unsaved.

## 6. What is proved

For every value of the constants (sets of requests, users, providers, payments, processors,
daemons and messages, amounts, balances, lengths, retries, ring sizes and bounds), from the
named assumptions on the constants alone.

**WalletTransferProofs**: `TypeCorrect`, `OverdraftNeedsDoubleDebit`, `NobodyOvercharged`,
`OneTransferAsWritten`, `RowsAgree`, `SettledStaysSettled`, `EngineImplementsContract`. The
invariant is
`TypeOK /\ Progress /\ Copies /\ OverdrawnOnlyByDoubleDebit /\ NeverOvercharged`. The money
properties are not inductive alone, for a commit writes back what was loaded earlier:
`Copies` says that a balance about to be written is not below what the debits
committed so far leave, and covers the engine's debit. `Progress` ties charges,
transfers and rows to the place in the handler; the rows, the refinement and the action
property follow from it. A lemma shows that a step of one request leaves the others' progress alone.

**SequentialPayoutProofs**: `TypeCorrect`, `LedgerIsExact`, `LocksHeldByDebtors`,
`ImplementsAtomicWallet`, `TransfersAreBounded`. The invariant adds that a request between
its SELECT and its commit holds the lock of its wallet, and that the copy it will write back
is the row (`LockHeld`, `LockedByDebtor`, `CopyIsFresh`): only then does the write-back
subtract. For the transfers, what was moved is counted against the providers tried so far
(`TransfersCounted`).

**WalletFundingProofs**: `TypeCorrect`, `UniqueReferencesCreditOnce`,
`ProcessedIsCredited`, `WriteBacksOnlyLose`, `PaystackWalletsExact`. The invariant adds
what a webhook knows at each place: its channel and what it checked (`OnItsPath`), what
it has committed (`CreditedBefore`), how far its copies may lag (`CentralCopies`,
`WalletCopies`), and that from locking SELECT to commit nobody else writes the row (`Locking`).

**SmsCreditProofs**: `TypeCorrect`, `CreditedOnce`, `NothingDeletedUnseen`. The invariant
adds what the session may have loaded at each place (`SessionInv`), that an SMS lies at one
location at most and is arrived and not gone (`BoxInv`), and, for phones that mark what was
read, that no two processors are at one SMS (`HandsInv`) and that one still undecided is not
credited (`CreditInv`).

**SmsdOutboxProofs**: `TypeCorrect`, `ClaimsExcludeHolds`, `NothingVanishesHolds`. For the
exclusion of claims, what a daemon holds has a row (`HeldWritten`) that is locked unless the
claim lapsed (`Claimed`). `NothingVanishes` needs more: a part marked as sent is recorded
(`MarkedRecorded`), as is one about to be marked (`MarkingRecorded`), and a daemon that
sends, moves or buries a message knows of every part that has a row and is not recorded
(`Knows`). `Frame` says what one step of anybody may do to the rows of a message, and that
is enough to keep what the other daemons know.

**SmsdOutboxSendingProofs**, three counting arguments over the same module:

* `TriesBounded`. `attempts <= MaxRetries + 1 + mishaps` is not inductive, and a bound by
  `retries` alone would be wrong: a daemon that was overtaken writes back the count it read
  long ago. `Covered` counts the tries made with those about to begin (daemons that have
  locked the message but not read it, and one more while it may be locked), and bounds the
  sum by the retries counted in the row and, for every daemon that is at a try, by what that
  daemon is going to write. A try that begins while another is under way was paid for by the
  mishap that took the claim.
* `OnAirTwiceOnlyForCause`. While nothing went amiss (`Quiet`) the state is `Calm`: what is
  held is locked (so by `ClaimsExclude` a daemon is alone with its message), a phone has one
  part at most and it is the one waited for (`InFlight`), a daemon knows which of the
  parts ahead of it are marked (`Ahead`), and for every part (`OnceAt`): once recorded it is
  over, and once on air it is over or its daemon waits with the report in hand or without
  hope of one. Over means marked, deleted or behind the daemon that holds the message
  (`Over`); a part a daemon is about to send is none of these (`NotOver`).
* `OnAirOncePerTry`, which needs no quiet: `air <= attempts` for every part. A part is due
  from a daemon that has yet to hand it over, or from a phone that has it in its queue (`Due`,
  a set of places). What was on air and what is due is never more than the tries (`PaidFor`): a
  try makes a part due once, handing it over moves the place, and an answer removes one (an
  injection from the places left into those before). With `TriesBounded` this gives
  `OnAirBounded`: a recipient gets a part at most `MaxRetries + 1` times and once more per
  mishap. The two bounds on `air` are stated in this module; the run checks the tries.

**SmsdInboxProofs**: `TypeCorrect`, `NothingIsLost`, `CopiesAreBounded`,
`AwaitedStaysPresent`. The invariant relates the daemon's lists to the memory (`ListsInv`,
`LinkedInv`, `PresentInv`), says that no two parts in the memory, and no two the daemon holds, share a
location (`LocationInv`), so that deleting by location takes the part that was read or one
that came in the place of a part the owner deleted, which is the exception `NothingLost` states;
it says that what is about to be deleted is in the inbox
(`SavedInv`), counts copies against mishaps (`CountInv`), and says at each place what the
awaited message has left in the phone, apart from what is due to be deleted (`AwaitedInv`,
`Apart`).

**RequestReplyProofs**: `TypeCorrect`, `ResultsAreOwn`, `AnsweredOnce`, `NoEventStays`,
`EndedStaysQuiet`, `RingImplementsQueue`. `Shape` says that the main loop is at the
bottom of the stack and requests above it. For the results, `Told` says of every request
below the top that it has been answered and of the top one that its answer is in
`DispatchError` or something disturbed it. `NoEventStranded` is inductive beside these types. For
the ring, `head` is `entries` places after `tail` (`InStep`); from it follows that
`GSM_CancelEventsOfType` walks over exactly the waiting events, or over none when the ring
is full (`WalkFacts`), that what is over is cancelled (`OverCancelled`), and that the
slots from `tail` on change like the queue.

Every invariant, action property and refinement that a run checks is a theorem. Only
model-checked is liveness, as fairness and ENABLED are out of the prover's reach:
`AnsweredUnlessWaiting`, `EverySMSIsHandled`, `EveryMessageLeaves`, `EveryPartIsSaved` and
`CommandsReturn`. No definition is recursive, so no induction over data is needed.

## 7. What is not modelled

* **Gofood, left for steps 8 and 9**: WhatsApp conversations, per-process caches of the
  store, the OTP gate of order payment, registration. `PROJECT.json` lists the hazard of the
  conversations.
* **Rider claims and vendor status.** Both compare what Redis returns after
  `.decode()`, and the client is made with `decode_responses=True`
  (`extensions.py:29`), so it returns `str`, which has no such method: each handler raises
  at the first key it finds. A model of what they mean to do would not be one of this code.
* **Orders and notifications** work on models that are not in the tree.
* **Bargain chat** imports `app.merchant`, which does not exist; its sequence number is
  the length of a list capped at 500 (`delivery_bargain_handler.py:166`) and so stops there.
* `get_central_account` and `monnify_payment_complete` create a missing account or wallet row;
  the models start with the rows there. A user without a wallet is one
  whose wallet does not cover the amount.
* Failures of the web handlers' database (those of the SMS processors' are modelled); amounts up to the fee, for which
  `vendor_amount` is not positive.
* `payment/factory.py` does not route "flutterwave" or "monnify", and
  `FlutterwaveProvider.verify_payment` documents the status "successful"
  (`payment/flutterwave_provider.py:76`) where the webhook accepts only "success": with these
  two parts every flutterwave webhook is rejected. The handler imports another factory,
  `app.payments.factory`, which is not in the tree, so the outcome of the verification
  is left open (`Reject` or the next step).
* `load_wallet_get` records monnify payments under a reference of its own; the webhook
  looks for Monnify's `transactionReference`. The model takes these to differ.
* **Gammu's daemon**: status reports to sent messages and the cache of their references (its
  result is negated although `ERR_NONE` is 1, so the branch at `smsd/core.c:2306` is never
  taken), `RunOnReceive`, the reset after time-outs, backends other than SQL, and the
  framing of bytes into answers, for which nested requests share one buffer. Two senders that share a UDH id also share the time
  the daemon waits, which the model has.
* **Gammu's requests**: `s->Abort`, `StartInfo`, start and end of a connection. An answer
  that arrives after its request was given up may be taken by a later request of the same kind
  (`libgammu/gsmstate.c:1054`), and `CancellingCall` stays set when a hang-up is never
  answered (`libgammu/phone/at/atgen.c:4755`); both are in the model, and no property
  is about them.
* **The rest of Gammu**: drivers, message and backup formats, converters and the
  command line are sequential translations of data, most of its 130,000 lines, and have no
  state a property of this project could be about.
* Tokens, signatures, pages, uploads and wiring: likewise.
