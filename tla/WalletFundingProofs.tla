------------------------- MODULE WalletFundingProofs -------------------------
(***************************************************************************)
(* The funding webhooks, for any deliveries, payments, users and amounts:  *)
(* types, the single credit behind a unique reference, what "processed"    *)
(* says, what lost updates may do, and the exact wallets of paystack.      *)
(*                                                                         *)
(* The inductive invariant adds what a handler knows at each point: which  *)
(* channel it serves and what it has checked (OnItsPath), what it has      *)
(* already committed (CreditedBefore), what the balances it holds may be   *)
(* (CentralCopies, WalletCopies), and what the row lock protects (Locking).*)
(***************************************************************************)
EXTENDS WalletFunding, TLAPS

FlwPath == {"flw_central", "flw_wallet", "flw_commit"}
PskPath == {"psk_lock", "psk_credit", "psk_log"}
MonBooked == {"mon_match", "mon_credit", "mon_reload", "mon_settle"}
MonMatched == {"mon_credit", "mon_reload", "mon_settle"}

OnItsPath ==
    \A d \in Deliveries :
        /\ pc[d] \in FlwPath => Via(d, "flutterwave") /\ pay[d] \in recorded
        /\ pc[d] \in PskPath => Via(d, "paystack") /\ pay[d] \in recorded
        /\ pc[d] \in {"mon_central", "mon_book"} \cup MonBooked => Via(d, "monnify")
        /\ pc[d] \in MonBooked => incoming[pay[d]] > 0
        /\ pc[d] \in MonMatched => arg[pay[d]].matched
        /\ pc[d] = "mnp_commit" => Via(d, "moniepoint")

CreditedBefore ==
    \A d \in Deliveries :
        pc[d] \in {"psk_log", "mon_reload", "mon_settle"} => credited[pay[d]] > 0

CentralCopies ==
    \A d \in Deliveries :
        /\ pc[d] = "flw_commit" => ccopy[d] >= Amount(d)
        /\ pc[d] \in {"flw_wallet", "flw_commit"} =>
            ccopy[d] >= CentralOpening["moniepoint"] - drawn["moniepoint"]

WalletCopies ==
    \A d \in Deliveries : wcopy[d] <= Opening[User(d)] + received[User(d)]

Locking ==
    /\ \A u \in Users : lock[u] \in Deliveries =>
            User(lock[u]) = u /\ pc[lock[u]] = "psk_credit"
    /\ \A d \in Deliveries : pc[d] = "psk_credit" =>
            lock[User(d)] = d /\ wcopy[d] = wallet[User(d)]

IInv ==
    /\ TypeOK /\ OnItsPath /\ CreditedBefore /\ CentralCopies /\ WalletCopies /\ Locking
    /\ UniqueReferenceCreditsOnce /\ ProcessedMeansCredited /\ LostUpdatesOnlyLose
    /\ LockedWalletsExact

\* A payment is of a known channel, for a user, of a positive amount.
LEMMA PaymentsOK ==
    ASSUME TypeOK, NEW d \in Deliveries
    PROVE  pay[d] \in Payments /\ User(d) \in Users /\ Amount(d) \in Nat /\ Amount(d) > 0
BY InputsAssumption, PayAssumption DEF TypeOK, InputType, User, Amount

\* Nothing has been paid, loaded or locked at the start.
LEMMA InitIInv == Init => IInv
BY InputsAssumption, PayAssumption, OpeningAssumption, CentralAssumption, FreeAssumption
   DEF Init, IInv, TypeOK, OnItsPath, CreditedBefore, CentralCopies, WalletCopies,
       Locking, UniqueReferenceCreditsOnce, ProcessedMeansCredited, LostUpdatesOnlyLose,
       LockedWalletsExact, FlwPath, PskPath, MonBooked, MonMatched, InputType, PC,
       Ended, Accounts, User, Amount

\* Recording a payment, every webhook step, every rejection and every crash
\* keeps the types.
LEMMA TypePreserved == ASSUME IInv, [Next]_vars PROVE TypeOK'
<1> USE DEF IInv, TypeOK
<1>1. ASSUME NEW p \in Payments, RecordPayment(p) PROVE TypeOK'
  BY <1>1 DEF RecordPayment, accounts, memory, history
<1>2. ASSUME NEW d \in Deliveries, WebhookStep(d) PROVE TypeOK'
  <2> pay[d] \in Payments /\ User(d) \in Users /\ Amount(d) \in Nat /\ Amount(d) > 0
    BY PaymentsOK
  <2> USE <1>2 DEF Goto, PC, Ended, rows, accounts, memory, history
  <2>1. CASE FlwCheck(d) BY <2>1 DEF FlwCheck
  <2>2. CASE FlwCentral(d) BY <2>2 DEF FlwCentral, LoadCentral, Accounts
  <2>3. CASE FlwWallet(d) BY <2>3 DEF FlwWallet, LoadWallet
  <2>4. CASE FlwCommit(d)
    <3>1. CASE pc[d] = "flw_commit" /\ Credit(d) /\ BookCentral(d, "moniepoint", -Amount(d))
      <4>1. ccopy[d] \in Int /\ ccopy[d] >= Amount(d)
        BY <3>1 DEF CentralCopies
      <4> QED BY <2>4, <3>1, <4>1 DEF FlwCommit, Credit, BookCentral, Accounts
    <3>2. CASE ~(pc[d] = "flw_commit" /\ Credit(d) /\ BookCentral(d, "moniepoint", -Amount(d)))
      BY <2>4, <3>2 DEF FlwCommit
    <3> QED BY <3>1, <3>2
  <2>5. CASE PskCheck(d) BY <2>5 DEF PskCheck
  <2>6. CASE PskLock(d) BY <2>6 DEF PskLock, LoadWallet
  <2>7. CASE PskCredit(d) BY <2>7 DEF PskCredit, Credit, Release
  <2>8. CASE PskLog(d) BY <2>8 DEF PskLog
  <2>9. CASE MonCheck(d) BY <2>9 DEF MonCheck
  <2>10. CASE MonCentral(d) BY <2>10 DEF MonCentral, LoadCentral, Accounts
  <2>11. CASE MonBook(d) BY <2>11 DEF MonBook, BookCentral, Accounts
  <2>12. CASE MonMatch(d) BY <2>12 DEF MonMatch, LoadWallet
  <2>13. CASE MonCredit(d) BY <2>13 DEF MonCredit, Credit
  <2>14. CASE MonReload(d) BY <2>14 DEF MonReload, LoadCentral, Accounts
  <2>15. CASE MonSettle(d) BY <2>15 DEF MonSettle, BookCentral, Accounts
  <2>16. CASE MnpLoad(d) BY <2>16 DEF MnpLoad, LoadWallet
  <2>17. CASE MnpCommit(d) BY <2>17 DEF MnpCommit, Credit
  <2> QED
    BY <2>1, <2>2, <2>3, <2>4, <2>5, <2>6, <2>7, <2>8, <2>9, <2>10, <2>11, <2>12,
       <2>13, <2>14, <2>15, <2>16, <2>17 DEF WebhookStep
<1>3. ASSUME NEW d \in Deliveries, Reject(d) PROVE TypeOK'
  BY <1>3 DEF Reject, Goto, PC, Ended, rows, accounts, memory, history
<1>4. ASSUME NEW d \in Deliveries, Crash(d) PROVE TypeOK'
  BY <1>4 DEF Crash, Release, PC, Ended, rows, memory, history
<1>5. CASE UNCHANGED vars BY <1>5 DEF vars, rows, accounts, memory, history
<1> QED BY <1>1, <1>2, <1>3, <1>4, <1>5 DEF Next

\* A handler stays on its channel's path and keeps what it has checked: rows are
\* never taken back.
LEMMA PathPreserved ==
    ASSUME IInv, [Next]_vars
    PROVE  OnItsPath'
<1> USE DEF IInv, TypeOK, OnItsPath, FlwPath, PskPath, MonBooked, MonMatched, Via
<1> USE PayAssumption DEF Ended
<1>1. ASSUME NEW p \in Payments, RecordPayment(p) PROVE OnItsPath'
  BY <1>1 DEF RecordPayment, accounts, memory, history
<1>2. ASSUME NEW d \in Deliveries, WebhookStep(d) PROVE OnItsPath'
  <2> pay[d] \in Payments /\ User(d) \in Users /\ Amount(d) \in Nat /\ Amount(d) > 0
    BY PaymentsOK
  <2> USE <1>2 DEF Goto, rows, accounts, memory, history
  <2>1. CASE FlwCheck(d) BY <2>1 DEF FlwCheck
  <2>2. CASE FlwCentral(d) BY <2>2 DEF FlwCentral, LoadCentral
  <2>3. CASE FlwWallet(d) BY <2>3 DEF FlwWallet, LoadWallet
  <2>4. CASE FlwCommit(d) BY <2>4 DEF FlwCommit, Credit, BookCentral
  <2>5. CASE PskCheck(d) BY <2>5 DEF PskCheck
  <2>6. CASE PskLock(d) BY <2>6 DEF PskLock, LoadWallet
  <2>7. CASE PskCredit(d) BY <2>7 DEF PskCredit, Credit, Release
  <2>8. CASE PskLog(d) BY <2>8 DEF PskLog
  <2>9. CASE MonCheck(d) BY <2>9 DEF MonCheck
  <2>10. CASE MonCentral(d) BY <2>10 DEF MonCentral, LoadCentral
  <2>11. CASE MonBook(d) BY <2>11 DEF MonBook, BookCentral
  <2>12. CASE MonMatch(d) BY <2>12 DEF MonMatch, LoadWallet
  <2>13. CASE MonCredit(d) BY <2>13 DEF MonCredit, Credit
  <2>14. CASE MonReload(d) BY <2>14 DEF MonReload, LoadCentral
  <2>15. CASE MonSettle(d) BY <2>15 DEF MonSettle, BookCentral
  <2>16. CASE MnpLoad(d) BY <2>16 DEF MnpLoad, LoadWallet
  <2>17. CASE MnpCommit(d) BY <2>17 DEF MnpCommit, Credit
  <2> QED
    BY <2>1, <2>2, <2>3, <2>4, <2>5, <2>6, <2>7, <2>8, <2>9, <2>10, <2>11, <2>12,
       <2>13, <2>14, <2>15, <2>16, <2>17 DEF WebhookStep
<1>3. ASSUME NEW d \in Deliveries, Reject(d) PROVE OnItsPath'
  BY <1>3 DEF Reject, Goto, rows, accounts, memory, history
<1>4. ASSUME NEW d \in Deliveries, Crash(d) PROVE OnItsPath'
  BY <1>4 DEF Crash, Release, rows, memory, history
<1>5. CASE UNCHANGED vars BY <1>5 DEF vars, rows, accounts, memory, history
<1> QED BY <1>1, <1>2, <1>3, <1>4, <1>5 DEF Next

\* Credits are counted and never uncounted.
LEMMA CreditedPreserved ==
    ASSUME IInv, [Next]_vars
    PROVE  CreditedBefore'
<1> USE DEF IInv, TypeOK, CreditedBefore
<1> USE PayAssumption DEF Ended
<1>1. ASSUME NEW p \in Payments, RecordPayment(p) PROVE CreditedBefore'
  BY <1>1 DEF RecordPayment, accounts, memory, history
<1>2. ASSUME NEW d \in Deliveries, WebhookStep(d) PROVE CreditedBefore'
  <2> pay[d] \in Payments /\ User(d) \in Users /\ Amount(d) \in Nat /\ Amount(d) > 0
    BY PaymentsOK
  <2> USE <1>2 DEF Goto, rows, accounts, memory, history
  <2>1. CASE FlwCheck(d) BY <2>1 DEF FlwCheck
  <2>2. CASE FlwCentral(d) BY <2>2 DEF FlwCentral, LoadCentral
  <2>3. CASE FlwWallet(d) BY <2>3 DEF FlwWallet, LoadWallet
  <2>4. CASE FlwCommit(d) BY <2>4 DEF FlwCommit, Credit, BookCentral
  <2>5. CASE PskCheck(d) BY <2>5 DEF PskCheck
  <2>6. CASE PskLock(d) BY <2>6 DEF PskLock, LoadWallet
  <2>7. CASE PskCredit(d) BY <2>7 DEF PskCredit, Credit, Release
  <2>8. CASE PskLog(d) BY <2>8 DEF PskLog
  <2>9. CASE MonCheck(d) BY <2>9 DEF MonCheck
  <2>10. CASE MonCentral(d) BY <2>10 DEF MonCentral, LoadCentral
  <2>11. CASE MonBook(d) BY <2>11 DEF MonBook, BookCentral
  <2>12. CASE MonMatch(d) BY <2>12 DEF MonMatch, LoadWallet
  <2>13. CASE MonCredit(d) BY <2>13 DEF MonCredit, Credit
  <2>14. CASE MonReload(d) BY <2>14 DEF MonReload, LoadCentral
  <2>15. CASE MonSettle(d) BY <2>15 DEF MonSettle, BookCentral
  <2>16. CASE MnpLoad(d) BY <2>16 DEF MnpLoad, LoadWallet
  <2>17. CASE MnpCommit(d) BY <2>17 DEF MnpCommit, Credit
  <2> QED
    BY <2>1, <2>2, <2>3, <2>4, <2>5, <2>6, <2>7, <2>8, <2>9, <2>10, <2>11, <2>12,
       <2>13, <2>14, <2>15, <2>16, <2>17 DEF WebhookStep
<1>3. ASSUME NEW d \in Deliveries, Reject(d) PROVE CreditedBefore'
  BY <1>3 DEF Reject, Goto, rows, accounts, memory, history
<1>4. ASSUME NEW d \in Deliveries, Crash(d) PROVE CreditedBefore'
  BY <1>4 DEF Crash, Release, rows, memory, history
<1>5. CASE UNCHANGED vars BY <1>5 DEF vars, rows, accounts, memory, history
<1> QED BY <1>1, <1>2, <1>3, <1>4, <1>5 DEF Next

\* The central balance a flutterwave webhook holds covers its amount and is no
\* less than what the deductions leave.
LEMMA CentralPreserved ==
    ASSUME IInv, [Next]_vars
    PROVE  CentralCopies'
<1> USE DEF IInv, TypeOK, CentralCopies, LostUpdatesOnlyLose, Accounts, Amount
<1> USE CentralAssumption DEF Ended
<1> \A d \in Deliveries : Amount(d) \in Nat /\ Amount(d) > 0 BY PaymentsOK
<1>1. ASSUME NEW p \in Payments, RecordPayment(p) PROVE CentralCopies'
  BY <1>1 DEF RecordPayment, accounts, memory, history
<1>2. ASSUME NEW d \in Deliveries, WebhookStep(d) PROVE CentralCopies'
  <2> pay[d] \in Payments /\ User(d) \in Users /\ Amount(d) \in Nat /\ Amount(d) > 0
    BY PaymentsOK
  <2> USE <1>2 DEF Goto, rows, accounts, memory, history
  <2>1. CASE FlwCheck(d) BY <2>1 DEF FlwCheck
  <2>2. CASE FlwCentral(d) BY <2>2 DEF FlwCentral, LoadCentral
  <2>3. CASE FlwWallet(d) BY <2>3 DEF FlwWallet, LoadWallet
  <2>4. CASE FlwCommit(d) BY <2>4 DEF FlwCommit, Credit, BookCentral
  <2>5. CASE PskCheck(d) BY <2>5 DEF PskCheck
  <2>6. CASE PskLock(d) BY <2>6 DEF PskLock, LoadWallet
  <2>7. CASE PskCredit(d) BY <2>7 DEF PskCredit, Credit, Release
  <2>8. CASE PskLog(d) BY <2>8 DEF PskLog
  <2>9. CASE MonCheck(d) BY <2>9 DEF MonCheck
  <2>10. CASE MonCentral(d) BY <2>10 DEF MonCentral, LoadCentral
  <2>11. CASE MonBook(d) BY <2>11 DEF MonBook, BookCentral
  <2>12. CASE MonMatch(d) BY <2>12 DEF MonMatch, LoadWallet
  <2>13. CASE MonCredit(d) BY <2>13 DEF MonCredit, Credit
  <2>14. CASE MonReload(d) BY <2>14 DEF MonReload, LoadCentral
  <2>15. CASE MonSettle(d) BY <2>15 DEF MonSettle, BookCentral
  <2>16. CASE MnpLoad(d) BY <2>16 DEF MnpLoad, LoadWallet
  <2>17. CASE MnpCommit(d) BY <2>17 DEF MnpCommit, Credit
  <2> QED
    BY <2>1, <2>2, <2>3, <2>4, <2>5, <2>6, <2>7, <2>8, <2>9, <2>10, <2>11, <2>12,
       <2>13, <2>14, <2>15, <2>16, <2>17 DEF WebhookStep
<1>3. ASSUME NEW d \in Deliveries, Reject(d) PROVE CentralCopies'
  BY <1>3 DEF Reject, Goto, rows, accounts, memory, history
<1>4. ASSUME NEW d \in Deliveries, Crash(d) PROVE CentralCopies'
  BY <1>4 DEF Crash, Release, rows, memory, history
<1>5. CASE UNCHANGED vars BY <1>5 DEF vars, rows, accounts, memory, history
<1> QED BY <1>1, <1>2, <1>3, <1>4, <1>5 DEF Next

\* No copy of a wallet is ahead of the credits committed to it.
LEMMA WalletPreserved ==
    ASSUME IInv, [Next]_vars
    PROVE  WalletCopies'
<1> USE DEF IInv, TypeOK, WalletCopies, LostUpdatesOnlyLose, User, Amount
<1> USE OpeningAssumption DEF Ended
<1> \A d \in Deliveries : User(d) \in Users /\ Amount(d) \in Nat BY PaymentsOK
<1>1. ASSUME NEW p \in Payments, RecordPayment(p) PROVE WalletCopies'
  BY <1>1 DEF RecordPayment, accounts, memory, history
<1>2. ASSUME NEW d \in Deliveries, WebhookStep(d) PROVE WalletCopies'
  <2> pay[d] \in Payments /\ User(d) \in Users /\ Amount(d) \in Nat /\ Amount(d) > 0
    BY PaymentsOK
  <2> USE <1>2 DEF Goto, rows, accounts, memory, history
  <2>1. CASE FlwCheck(d) BY <2>1 DEF FlwCheck
  <2>2. CASE FlwCentral(d) BY <2>2 DEF FlwCentral, LoadCentral
  <2>3. CASE FlwWallet(d) BY <2>3 DEF FlwWallet, LoadWallet
  <2>4. CASE FlwCommit(d) BY <2>4 DEF FlwCommit, Credit, BookCentral
  <2>5. CASE PskCheck(d) BY <2>5 DEF PskCheck
  <2>6. CASE PskLock(d) BY <2>6 DEF PskLock, LoadWallet
  <2>7. CASE PskCredit(d) BY <2>7 DEF PskCredit, Credit, Release
  <2>8. CASE PskLog(d) BY <2>8 DEF PskLog
  <2>9. CASE MonCheck(d) BY <2>9 DEF MonCheck
  <2>10. CASE MonCentral(d) BY <2>10 DEF MonCentral, LoadCentral
  <2>11. CASE MonBook(d) BY <2>11 DEF MonBook, BookCentral
  <2>12. CASE MonMatch(d) BY <2>12 DEF MonMatch, LoadWallet
  <2>13. CASE MonCredit(d) BY <2>13 DEF MonCredit, Credit
  <2>14. CASE MonReload(d) BY <2>14 DEF MonReload, LoadCentral
  <2>15. CASE MonSettle(d) BY <2>15 DEF MonSettle, BookCentral
  <2>16. CASE MnpLoad(d) BY <2>16 DEF MnpLoad, LoadWallet
  <2>17. CASE MnpCommit(d) BY <2>17 DEF MnpCommit, Credit
  <2> QED
    BY <2>1, <2>2, <2>3, <2>4, <2>5, <2>6, <2>7, <2>8, <2>9, <2>10, <2>11, <2>12,
       <2>13, <2>14, <2>15, <2>16, <2>17 DEF WebhookStep
<1>3. ASSUME NEW d \in Deliveries, Reject(d) PROVE WalletCopies'
  BY <1>3 DEF Reject, Goto, rows, accounts, memory, history
<1>4. ASSUME NEW d \in Deliveries, Crash(d) PROVE WalletCopies'
  BY <1>4 DEF Crash, Release, rows, memory, history
<1>5. CASE UNCHANGED vars BY <1>5 DEF vars, rows, accounts, memory, history
<1> QED BY <1>1, <1>2, <1>3, <1>4, <1>5 DEF Next

\* A row lock is held exactly from the locking SELECT to the commit of the
\* credit, and nobody else changes the row meanwhile.
LEMMA LockingPreserved ==
    ASSUME IInv, [Next]_vars
    PROVE  Locking'
<1> USE DEF IInv, TypeOK, Locking, User
<1> USE FreeAssumption DEF Ended
<1> \A d \in Deliveries : User(d) \in Users BY PaymentsOK
<1>1. ASSUME NEW p \in Payments, RecordPayment(p) PROVE Locking'
  BY <1>1 DEF RecordPayment, accounts, memory, history
<1>2. ASSUME NEW d \in Deliveries, WebhookStep(d) PROVE Locking'
  <2> pay[d] \in Payments /\ User(d) \in Users /\ Amount(d) \in Nat /\ Amount(d) > 0
    BY PaymentsOK
  <2> USE <1>2 DEF Goto, rows, accounts, memory, history
  <2>c. ASSUME Credit(d), UNCHANGED <<arg, lock, wcopy>>, pc[d] # "psk_credit",
               NEW to, to # "psk_credit", pc' = [pc EXCEPT ![d] = to]
        PROVE  Locking'
    <3>1. ASSUME NEW u \in Users, lock'[u] \in Deliveries
          PROVE  User(lock'[u]) = u /\ pc'[lock'[u]] = "psk_credit"
      BY <2>c, <3>1
    <3>2. ASSUME NEW e \in Deliveries, pc'[e] = "psk_credit"
          PROVE  lock'[User(e)] = e /\ wcopy'[e] = wallet'[User(e)]
      <4>1. e # d /\ pc[e] = "psk_credit" BY <2>c, <3>2
      <4>2. lock[User(e)] = e /\ wcopy[e] = wallet[User(e)] BY <4>1
      <4>3. User(e) # User(d) BY <2>c, <4>1, <4>2 DEF Credit
      <4>4. wallet'[User(e)] = wallet[User(e)] BY <2>c, <4>3 DEF Credit
      <4> QED BY <2>c, <4>2, <4>4
    <3> QED BY <2>c, <3>1, <3>2
  <2>1. CASE FlwCheck(d) BY <2>1 DEF FlwCheck
  <2>2. CASE FlwCentral(d) BY <2>2 DEF FlwCentral, LoadCentral
  <2>3. CASE FlwWallet(d) BY <2>3 DEF FlwWallet, LoadWallet
  <2>4. CASE FlwCommit(d)
    <3>1. CASE Credit(d) BY <2>4, <2>c, <3>1 DEF FlwCommit
    <3>2. CASE UNCHANGED <<rows, accounts, memory, history>> BY <2>4, <3>2 DEF FlwCommit
    <3> QED BY <2>4, <3>1, <3>2 DEF FlwCommit
  <2>5. CASE PskCheck(d) BY <2>5 DEF PskCheck
  <2>6. CASE PskLock(d) BY <2>6 DEF PskLock, LoadWallet
  <2>7. CASE PskCredit(d) BY <2>7 DEF PskCredit, Credit, Release
  <2>8. CASE PskLog(d) BY <2>8 DEF PskLog
  <2>9. CASE MonCheck(d) BY <2>9 DEF MonCheck
  <2>10. CASE MonCentral(d) BY <2>10 DEF MonCentral, LoadCentral
  <2>11. CASE MonBook(d) BY <2>11 DEF MonBook, BookCentral
  <2>12. CASE MonMatch(d) BY <2>12 DEF MonMatch, LoadWallet
  <2>13. CASE MonCredit(d) BY <2>13 DEF MonCredit, Credit
  <2>14. CASE MonReload(d) BY <2>14 DEF MonReload, LoadCentral
  <2>15. CASE MonSettle(d) BY <2>15 DEF MonSettle, BookCentral
  <2>16. CASE MnpLoad(d) BY <2>16 DEF MnpLoad, LoadWallet
  <2>17. CASE MnpCommit(d)
    <3>1. CASE Credit(d) BY <2>17, <2>c, <3>1 DEF MnpCommit
    <3>2. CASE UNCHANGED <<rows, accounts, memory, history>> BY <2>17, <3>2 DEF MnpCommit
    <3> QED BY <2>17, <3>1, <3>2 DEF MnpCommit
  <2> QED
    BY <2>1, <2>2, <2>3, <2>4, <2>5, <2>6, <2>7, <2>8, <2>9, <2>10, <2>11, <2>12,
       <2>13, <2>14, <2>15, <2>16, <2>17 DEF WebhookStep
<1>3. ASSUME NEW d \in Deliveries, Reject(d) PROVE Locking'
  BY <1>3 DEF Reject, Goto, rows, accounts, memory, history
<1>4. ASSUME NEW d \in Deliveries, Crash(d) PROVE Locking'
  BY <1>4 DEF Crash, Release, rows, memory, history
<1>5. CASE UNCHANGED vars BY <1>5 DEF vars, rows, accounts, memory, history
<1> QED BY <1>1, <1>2, <1>3, <1>4, <1>5 DEF Next

\* A credit of a uniquely referenced payment and its ledger row commit together.
LEMMA UniquePreserved ==
    ASSUME IInv, [Next]_vars
    PROVE  UniqueReferenceCreditsOnce'
<1> USE DEF IInv, TypeOK, UniqueReferenceCreditsOnce, OnItsPath, FlwPath, PskPath, MonBooked,
           MonMatched, Via
<1> USE PayAssumption DEF Ended
<1>1. ASSUME NEW p \in Payments, RecordPayment(p) PROVE UniqueReferenceCreditsOnce'
  BY <1>1 DEF RecordPayment, accounts, memory, history
<1>2. ASSUME NEW d \in Deliveries, WebhookStep(d) PROVE UniqueReferenceCreditsOnce'
  <2> pay[d] \in Payments /\ User(d) \in Users /\ Amount(d) \in Nat /\ Amount(d) > 0
    BY PaymentsOK
  <2> USE <1>2 DEF Goto, rows, accounts, memory, history
  <2>1. CASE FlwCheck(d) BY <2>1 DEF FlwCheck
  <2>2. CASE FlwCentral(d) BY <2>2 DEF FlwCentral, LoadCentral
  <2>3. CASE FlwWallet(d) BY <2>3 DEF FlwWallet, LoadWallet
  <2>4. CASE FlwCommit(d) BY <2>4 DEF FlwCommit, Credit, BookCentral
  <2>5. CASE PskCheck(d) BY <2>5 DEF PskCheck
  <2>6. CASE PskLock(d) BY <2>6 DEF PskLock, LoadWallet
  <2>7. CASE PskCredit(d) BY <2>7 DEF PskCredit, Credit, Release
  <2>8. CASE PskLog(d) BY <2>8 DEF PskLog
  <2>9. CASE MonCheck(d) BY <2>9 DEF MonCheck
  <2>10. CASE MonCentral(d) BY <2>10 DEF MonCentral, LoadCentral
  <2>11. CASE MonBook(d) BY <2>11 DEF MonBook, BookCentral
  <2>12. CASE MonMatch(d) BY <2>12 DEF MonMatch, LoadWallet
  <2>13. CASE MonCredit(d) BY <2>13 DEF MonCredit, Credit
  <2>14. CASE MonReload(d) BY <2>14 DEF MonReload, LoadCentral
  <2>15. CASE MonSettle(d) BY <2>15 DEF MonSettle, BookCentral
  <2>16. CASE MnpLoad(d) BY <2>16 DEF MnpLoad, LoadWallet
  <2>17. CASE MnpCommit(d) BY <2>17 DEF MnpCommit, Credit
  <2> QED
    BY <2>1, <2>2, <2>3, <2>4, <2>5, <2>6, <2>7, <2>8, <2>9, <2>10, <2>11, <2>12,
       <2>13, <2>14, <2>15, <2>16, <2>17 DEF WebhookStep
<1>3. ASSUME NEW d \in Deliveries, Reject(d) PROVE UniqueReferenceCreditsOnce'
  BY <1>3 DEF Reject, Goto, rows, accounts, memory, history
<1>4. ASSUME NEW d \in Deliveries, Crash(d) PROVE UniqueReferenceCreditsOnce'
  BY <1>4 DEF Crash, Release, rows, memory, history
<1>5. CASE UNCHANGED vars BY <1>5 DEF vars, rows, accounts, memory, history
<1> QED BY <1>1, <1>2, <1>3, <1>4, <1>5 DEF Next

\* A row is marked processed by the commit of its credit or by a later one.
LEMMA ProcessedPreserved ==
    ASSUME IInv, [Next]_vars
    PROVE  ProcessedMeansCredited'
<1> USE DEF IInv, TypeOK, ProcessedMeansCredited, CreditedBefore, OnItsPath, FlwPath, PskPath, MonBooked,
           MonMatched, Via
<1> USE PayAssumption DEF Ended
<1>1. ASSUME NEW p \in Payments, RecordPayment(p) PROVE ProcessedMeansCredited'
  BY <1>1 DEF RecordPayment, accounts, memory, history
<1>2. ASSUME NEW d \in Deliveries, WebhookStep(d) PROVE ProcessedMeansCredited'
  <2> pay[d] \in Payments /\ User(d) \in Users /\ Amount(d) \in Nat /\ Amount(d) > 0
    BY PaymentsOK
  <2> USE <1>2 DEF Goto, rows, accounts, memory, history
  <2>1. CASE FlwCheck(d) BY <2>1 DEF FlwCheck
  <2>2. CASE FlwCentral(d) BY <2>2 DEF FlwCentral, LoadCentral
  <2>3. CASE FlwWallet(d) BY <2>3 DEF FlwWallet, LoadWallet
  <2>4. CASE FlwCommit(d) BY <2>4 DEF FlwCommit, Credit, BookCentral
  <2>5. CASE PskCheck(d) BY <2>5 DEF PskCheck
  <2>6. CASE PskLock(d) BY <2>6 DEF PskLock, LoadWallet
  <2>7. CASE PskCredit(d) BY <2>7 DEF PskCredit, Credit, Release
  <2>8. CASE PskLog(d) BY <2>8 DEF PskLog
  <2>9. CASE MonCheck(d) BY <2>9 DEF MonCheck
  <2>10. CASE MonCentral(d) BY <2>10 DEF MonCentral, LoadCentral
  <2>11. CASE MonBook(d) BY <2>11 DEF MonBook, BookCentral
  <2>12. CASE MonMatch(d) BY <2>12 DEF MonMatch, LoadWallet
  <2>13. CASE MonCredit(d) BY <2>13 DEF MonCredit, Credit
  <2>14. CASE MonReload(d) BY <2>14 DEF MonReload, LoadCentral
  <2>15. CASE MonSettle(d) BY <2>15 DEF MonSettle, BookCentral
  <2>16. CASE MnpLoad(d) BY <2>16 DEF MnpLoad, LoadWallet
  <2>17. CASE MnpCommit(d) BY <2>17 DEF MnpCommit, Credit
  <2> QED
    BY <2>1, <2>2, <2>3, <2>4, <2>5, <2>6, <2>7, <2>8, <2>9, <2>10, <2>11, <2>12,
       <2>13, <2>14, <2>15, <2>16, <2>17 DEF WebhookStep
<1>3. ASSUME NEW d \in Deliveries, Reject(d) PROVE ProcessedMeansCredited'
  BY <1>3 DEF Reject, Goto, rows, accounts, memory, history
<1>4. ASSUME NEW d \in Deliveries, Crash(d) PROVE ProcessedMeansCredited'
  BY <1>4 DEF Crash, Release, rows, memory, history
<1>5. CASE UNCHANGED vars BY <1>5 DEF vars, rows, accounts, memory, history
<1> QED BY <1>1, <1>2, <1>3, <1>4, <1>5 DEF Next

\* Writing back a copy that is not ahead of the credits keeps the wallet behind
\* them; the central account likewise.
LEMMA LosePreserved ==
    ASSUME IInv, [Next]_vars
    PROVE  LostUpdatesOnlyLose'
<1> USE DEF IInv, TypeOK, LostUpdatesOnlyLose, CentralCopies, WalletCopies, Accounts
<1> USE OpeningAssumption, CentralAssumption DEF Ended
<1>1. ASSUME NEW p \in Payments, RecordPayment(p) PROVE LostUpdatesOnlyLose'
  BY <1>1 DEF RecordPayment, accounts, memory, history
<1>2. ASSUME NEW d \in Deliveries, WebhookStep(d) PROVE LostUpdatesOnlyLose'
  <2> pay[d] \in Payments /\ User(d) \in Users /\ Amount(d) \in Nat /\ Amount(d) > 0
    BY PaymentsOK
  <2> USE <1>2 DEF Goto, rows, accounts, memory, history
  <2>1. CASE FlwCheck(d) BY <2>1 DEF FlwCheck
  <2>2. CASE FlwCentral(d) BY <2>2 DEF FlwCentral, LoadCentral
  <2>3. CASE FlwWallet(d) BY <2>3 DEF FlwWallet, LoadWallet
  <2>4. CASE FlwCommit(d) BY <2>4 DEF FlwCommit, Credit, BookCentral
  <2>5. CASE PskCheck(d) BY <2>5 DEF PskCheck
  <2>6. CASE PskLock(d) BY <2>6 DEF PskLock, LoadWallet
  <2>7. CASE PskCredit(d) BY <2>7 DEF PskCredit, Credit, Release
  <2>8. CASE PskLog(d) BY <2>8 DEF PskLog
  <2>9. CASE MonCheck(d) BY <2>9 DEF MonCheck
  <2>10. CASE MonCentral(d) BY <2>10 DEF MonCentral, LoadCentral
  <2>11. CASE MonBook(d) BY <2>11 DEF MonBook, BookCentral
  <2>12. CASE MonMatch(d) BY <2>12 DEF MonMatch, LoadWallet
  <2>13. CASE MonCredit(d) BY <2>13 DEF MonCredit, Credit
  <2>14. CASE MonReload(d) BY <2>14 DEF MonReload, LoadCentral
  <2>15. CASE MonSettle(d) BY <2>15 DEF MonSettle, BookCentral
  <2>16. CASE MnpLoad(d) BY <2>16 DEF MnpLoad, LoadWallet
  <2>17. CASE MnpCommit(d) BY <2>17 DEF MnpCommit, Credit
  <2> QED
    BY <2>1, <2>2, <2>3, <2>4, <2>5, <2>6, <2>7, <2>8, <2>9, <2>10, <2>11, <2>12,
       <2>13, <2>14, <2>15, <2>16, <2>17 DEF WebhookStep
<1>3. ASSUME NEW d \in Deliveries, Reject(d) PROVE LostUpdatesOnlyLose'
  BY <1>3 DEF Reject, Goto, rows, accounts, memory, history
<1>4. ASSUME NEW d \in Deliveries, Crash(d) PROVE LostUpdatesOnlyLose'
  BY <1>4 DEF Crash, Release, rows, memory, history
<1>5. CASE UNCHANGED vars BY <1>5 DEF vars, rows, accounts, memory, history
<1> QED BY <1>1, <1>2, <1>3, <1>4, <1>5 DEF Next

\* Only paystack credits a wallet only paystack pays into, under the lock.
LEMMA ExactPreserved ==
    ASSUME IInv, [Next]_vars
    PROVE  LockedWalletsExact'
<1> USE DEF IInv, TypeOK, LockedWalletsExact, Locking, User, OnItsPath, FlwPath, PskPath, MonBooked,
           MonMatched, Via
<1> USE PayAssumption, OpeningAssumption DEF Ended
<1>1. ASSUME NEW p \in Payments, RecordPayment(p) PROVE LockedWalletsExact'
  BY <1>1 DEF RecordPayment, accounts, memory, history
<1>2. ASSUME NEW d \in Deliveries, WebhookStep(d) PROVE LockedWalletsExact'
  <2> pay[d] \in Payments /\ User(d) \in Users /\ Amount(d) \in Nat /\ Amount(d) > 0
    BY PaymentsOK
  <2> USE <1>2 DEF Goto, rows, accounts, memory, history
  <2>1. CASE FlwCheck(d) BY <2>1 DEF FlwCheck
  <2>2. CASE FlwCentral(d) BY <2>2 DEF FlwCentral, LoadCentral
  <2>3. CASE FlwWallet(d) BY <2>3 DEF FlwWallet, LoadWallet
  <2>4. CASE FlwCommit(d) BY <2>4 DEF FlwCommit, Credit, BookCentral
  <2>5. CASE PskCheck(d) BY <2>5 DEF PskCheck
  <2>6. CASE PskLock(d) BY <2>6 DEF PskLock, LoadWallet
  <2>7. CASE PskCredit(d) BY <2>7 DEF PskCredit, Credit, Release
  <2>8. CASE PskLog(d) BY <2>8 DEF PskLog
  <2>9. CASE MonCheck(d) BY <2>9 DEF MonCheck
  <2>10. CASE MonCentral(d) BY <2>10 DEF MonCentral, LoadCentral
  <2>11. CASE MonBook(d) BY <2>11 DEF MonBook, BookCentral
  <2>12. CASE MonMatch(d) BY <2>12 DEF MonMatch, LoadWallet
  <2>13. CASE MonCredit(d) BY <2>13 DEF MonCredit, Credit
  <2>14. CASE MonReload(d) BY <2>14 DEF MonReload, LoadCentral
  <2>15. CASE MonSettle(d) BY <2>15 DEF MonSettle, BookCentral
  <2>16. CASE MnpLoad(d) BY <2>16 DEF MnpLoad, LoadWallet
  <2>17. CASE MnpCommit(d) BY <2>17 DEF MnpCommit, Credit
  <2> QED
    BY <2>1, <2>2, <2>3, <2>4, <2>5, <2>6, <2>7, <2>8, <2>9, <2>10, <2>11, <2>12,
       <2>13, <2>14, <2>15, <2>16, <2>17 DEF WebhookStep
<1>3. ASSUME NEW d \in Deliveries, Reject(d) PROVE LockedWalletsExact'
  BY <1>3 DEF Reject, Goto, rows, accounts, memory, history
<1>4. ASSUME NEW d \in Deliveries, Crash(d) PROVE LockedWalletsExact'
  BY <1>4 DEF Crash, Release, rows, memory, history
<1>5. CASE UNCHANGED vars BY <1>5 DEF vars, rows, accounts, memory, history
<1> QED BY <1>1, <1>2, <1>3, <1>4, <1>5 DEF Next

\* The invariant is inductive.
LEMMA IInvPreserved == ASSUME IInv, [Next]_vars PROVE IInv'
BY TypePreserved, PathPreserved, CreditedPreserved, CentralPreserved, WalletPreserved,
   LockingPreserved, UniquePreserved, ProcessedPreserved, LosePreserved, ExactPreserved
   DEF IInv

\* The invariant holds of the funding webhooks in every state they reach.
THEOREM Invariance == Spec => []IInv
<1>1. Init => IInv BY InitIInv
<1>2. IInv /\ [Next]_vars => IInv' BY IInvPreserved
<1> QED BY <1>1, <1>2, PTL DEF Spec

\* The state of the funding webhooks keeps its types; the moniepoint central
\* account, which flutterwave_webhook checks before it deducts, is never negative.
THEOREM TypeCorrect == Spec => []TypeOK
<1>1. IInv => TypeOK BY DEF IInv
<1> QED BY <1>1, Invariance, PTL

\* flutterwave_webhook, and moniepoint_webhook when the payload names a
\* reference, credit a payment exactly when they insert its ledger row: once.
THEOREM UniqueReferencesCreditOnce == Spec => []UniqueReferenceCreditsOnce
<1>1. IInv => UniqueReferenceCreditsOnce BY DEF IInv
<1> QED BY <1>1, Invariance, PTL

\* No webhook marks a payment processed before its user has been credited.
THEOREM ProcessedIsCredited == Spec => []ProcessedMeansCredited
<1>1. IInv => ProcessedMeansCredited BY DEF IInv
<1> QED BY <1>1, Invariance, PTL

\* The unlocked write-backs of the webhooks lose credits and deductions and
\* invent neither.
THEOREM WriteBacksOnlyLose == Spec => []LostUpdatesOnlyLose
<1>1. IInv => LostUpdatesOnlyLose BY DEF IInv
<1> QED BY <1>1, Invariance, PTL

\* with_for_update in payment_webhook keeps a wallet exact as long as no other
\* channel pays into it.
THEOREM PaystackWalletsExact == Spec => []LockedWalletsExact
<1>1. IInv => LockedWalletsExact BY DEF IInv
<1> QED BY <1>1, Invariance, PTL

=============================================================================
