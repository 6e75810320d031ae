------------------------ MODULE SequentialPayoutProofs ------------------------
(***************************************************************************)
(* The sequential payout, for any number of payouts, users, providers and  *)
(* any amounts: types, the exact ledger, and the refinement of the atomic  *)
(* wallet.  The inductive invariant says what the row lock is for: between *)
(* its SELECT and its commit a request holds the lock of its wallet, and   *)
(* the copy it will write back is the balance in the row.                  *)
(***************************************************************************)
EXTENDS SequentialPayout, TLAPS

InCritical(r) == pc[r] \in {"write", "refused"}

LockHeld == \A r \in Requests : InCritical(r) => lock[User(r)] = r
LockedByDebtor ==
    \A u \in Users : lock[u] \in Requests => User(lock[u]) = u /\ InCritical(lock[u])
CopyIsFresh ==
    \A r \in Requests : pc[r] = "write" =>
        copy[r] = balance[User(r)] /\ copy[r] >= Amount(r)
Solvent == \A u \in Users : balance[u] >= 0

IInv == TypeOK /\ LockHeld /\ LockedByDebtor /\ CopyIsFresh /\ ExactLedger /\ Solvent

\* The arguments of a request are a user and a positive amount.
LEMMA ArgumentsOK ==
    ASSUME TypeOK, NEW r \in Requests
    PROVE  User(r) \in Users /\ Amount(r) \in Nat /\ Amount(r) > 0
BY InputsAssumption DEF TypeOK, InputType, User, Amount

\* The payouts start with types of the code and nothing locked or spent.
LEMMA InitIInv == Init => IInv
BY InputsAssumption, OpeningAssumption, ProvidersAssumption, FreeAssumption
   DEF Init, IInv, TypeOK, LockHeld, LockedByDebtor, CopyIsFresh, ExactLedger,
       Solvent, InCritical, PC, Ended, TxStatus, InputType, User, Amount

\* Every step of a payout, every answer of a provider and every crash keeps
\* the types.
LEMMA TypePreserved == ASSUME TypeOK, [Next]_vars PROVE TypeOK'
<1> USE ProvidersAssumption
<1>1. ASSUME NEW r \in Requests, ServerStep(r) PROVE TypeOK'
  <2> User(r) \in Users /\ Amount(r) \in Nat BY ArgumentsOK
  <2> USE <1>1 DEF TypeOK, Goto, Mark, PC, Ended, TxStatus, money
  <2>1. CASE Open(r) BY <2>1 DEF Open
  <2>2. CASE AllFailed(r) BY <2>2 DEF AllFailed
  <2>3. CASE SelectForUpdate(r) BY <2>3 DEF SelectForUpdate, Acquire
  <2>4. CASE CommitDebit(r) BY <2>4 DEF CommitDebit, Release
  <2>5. CASE DebitRefused(r) BY <2>5 DEF DebitRefused, Release
  <2>6. CASE Complete(r) BY <2>6 DEF Complete
  <2> QED BY <2>1, <2>2, <2>3, <2>4, <2>5, <2>6 DEF ServerStep
<1>2. ASSUME NEW r \in Requests, ProviderStep(r) PROVE TypeOK'
  BY <1>2 DEF ProviderStep, Paid, NotPaid, TypeOK, Goto, PC, money
<1>3. ASSUME NEW r \in Requests, Crash(r) PROVE TypeOK'
  BY <1>3 DEF Crash, Release, TypeOK, PC, Ended
<1>4. CASE UNCHANGED vars BY <1>4 DEF vars, TypeOK
<1> QED BY <1>1, <1>2, <1>3, <1>4 DEF Next

\* A step of one payout keeps the lock discipline, the fresh copies and the
\* ledger: what a debtor sees of its row no other step changes.
LEMMA LockedPreserved ==
    ASSUME IInv, [Next]_vars
    PROVE  (LockHeld /\ LockedByDebtor /\ CopyIsFresh)'
<1> TypeOK' BY TypePreserved DEF IInv
<1> USE FreeAssumption
<1>1. ASSUME NEW r \in Requests, ServerStep(r)
      PROVE (LockHeld /\ LockedByDebtor /\ CopyIsFresh)'
  <2> User(r) \in Users /\ Amount(r) \in Nat BY ArgumentsOK DEF IInv
  <2> \A s \in Requests : User(s) \in Users BY ArgumentsOK DEF IInv
  <2> USE <1>1 DEF IInv, TypeOK, LockHeld, LockedByDebtor, CopyIsFresh,
                   InCritical, Goto, Mark, money, User, Amount
  <2>1. CASE Open(r) BY <2>1 DEF Open
  <2>2. CASE AllFailed(r) BY <2>2 DEF AllFailed
  <2>3. CASE SelectForUpdate(r) BY <2>3 DEF SelectForUpdate, Acquire
  <2>4. CASE CommitDebit(r) BY <2>4 DEF CommitDebit, Release
  <2>5. CASE DebitRefused(r) BY <2>5 DEF DebitRefused, Release
  <2>6. CASE Complete(r) BY <2>6 DEF Complete
  <2> QED BY <2>1, <2>2, <2>3, <2>4, <2>5, <2>6 DEF ServerStep
<1>2. ASSUME NEW r \in Requests, ProviderStep(r)
      PROVE (LockHeld /\ LockedByDebtor /\ CopyIsFresh)'
  BY <1>2 DEF ProviderStep, Paid, NotPaid, IInv, TypeOK, LockHeld, LockedByDebtor,
              CopyIsFresh, InCritical, Goto, money, User, Amount
<1>3. ASSUME NEW r \in Requests, Crash(r)
      PROVE (LockHeld /\ LockedByDebtor /\ CopyIsFresh)'
  <2> \A s \in Requests : User(s) \in Users BY ArgumentsOK DEF IInv
  <2> QED BY <1>3 DEF Crash, Release, Ended, IInv, TypeOK, LockHeld, LockedByDebtor,
              CopyIsFresh, InCritical, User, Amount
<1>4. CASE UNCHANGED vars
  BY <1>4 DEF vars, IInv, LockHeld, LockedByDebtor, CopyIsFresh, InCritical, User, Amount
<1> QED BY <1>1, <1>2, <1>3, <1>4 DEF Next

\* Only a commit changes a wallet, by what is added to its debits.
LEMMA WalletStep ==
    ASSUME IInv, [Next]_vars
    PROVE  \/ UNCHANGED <<balance, debited>>
           \/ \E r \in Requests :
                 /\ balance[User(r)] >= Amount(r)
                 /\ balance' = [balance EXCEPT ![User(r)] = @ - Amount(r)]
                 /\ debited' = [debited EXCEPT ![User(r)] = @ + Amount(r)]
<1>1. ASSUME NEW r \in Requests, CommitDebit(r)
      PROVE  /\ balance[User(r)] >= Amount(r)
             /\ balance' = [balance EXCEPT ![User(r)] = @ - Amount(r)]
             /\ debited' = [debited EXCEPT ![User(r)] = @ + Amount(r)]
  BY <1>1 DEF CommitDebit, Goto, IInv, CopyIsFresh
<1>2. ASSUME NEW r \in Requests, ServerStep(r), ~CommitDebit(r)
      PROVE  UNCHANGED <<balance, debited>>
  BY <1>2 DEF ServerStep, Open, AllFailed, SelectForUpdate, DebitRefused, Complete, money
<1>3. ASSUME NEW r \in Requests, ProviderStep(r) \/ Crash(r)
      PROVE  UNCHANGED <<balance, debited>>
  BY <1>3 DEF ProviderStep, Paid, NotPaid, Crash, money
<1> QED BY <1>1, <1>2, <1>3 DEF Next, vars

\* The invariant is inductive.
LEMMA NextIInv == ASSUME IInv, [Next]_vars PROVE IInv'
<1>1. TypeOK' BY TypePreserved DEF IInv
<1>2. (LockHeld /\ LockedByDebtor /\ CopyIsFresh)' BY LockedPreserved
<1>3. (ExactLedger /\ Solvent)'
  <2>1. CASE UNCHANGED <<balance, debited>>
    BY <2>1 DEF IInv, ExactLedger, Solvent
  <2>2. ASSUME NEW r \in Requests,
               balance[User(r)] >= Amount(r),
               balance' = [balance EXCEPT ![User(r)] = @ - Amount(r)],
               debited' = [debited EXCEPT ![User(r)] = @ + Amount(r)]
        PROVE (ExactLedger /\ Solvent)'
    <3>1. User(r) \in Users /\ Amount(r) \in Nat BY ArgumentsOK DEF IInv
    <3>2. SUFFICES ASSUME NEW u \in Users
                   PROVE balance'[u] = Opening[u] - debited'[u] /\ balance'[u] >= 0
      BY DEF ExactLedger, Solvent
    <3>3. /\ balance[u] \in Int /\ debited[u] \in Nat /\ Opening[u] \in Nat
          /\ balance[u] = Opening[u] - debited[u] /\ balance[u] >= 0
      BY OpeningAssumption DEF IInv, TypeOK, ExactLedger, Solvent
    <3>4. /\ balance'[u] = IF u = User(r) THEN balance[u] - Amount(r) ELSE balance[u]
          /\ debited'[u] = IF u = User(r) THEN debited[u] + Amount(r) ELSE debited[u]
      BY <2>2, <3>1 DEF IInv, TypeOK
    <3> QED BY <2>2, <3>1, <3>3, <3>4
  <2> QED BY <2>1, <2>2, WalletStep
<1> QED BY <1>1, <1>2, <1>3 DEF IInv

\* Type correctness.
THEOREM TypeCorrect == Spec => []TypeOK
<1>1. IInv => TypeOK BY DEF IInv
<1> QED BY <1>1, InitIInv, NextIInv, PTL DEF Spec

\* No debit of debit_from_db is ever lost or taken twice.
THEOREM LedgerIsExact == Spec => []ExactLedger
<1>1. IInv => ExactLedger BY DEF IInv
<1> QED BY <1>1, InitIInv, NextIInv, PTL DEF Spec

\* A row lock is only held between a request's SELECT and its commit.
THEOREM LocksHeldByDebtors == Spec => []LocksAreHeldByDebtors
<1>1. IInv => LocksAreHeldByDebtors
  BY DEF IInv, TypeOK, LockedByDebtor, LocksAreHeldByDebtors, InCritical
<1> QED BY <1>1, InitIInv, NextIInv, PTL DEF Spec

\* The locked debit implements the wallet that is debited in one step and
\* never beyond what it holds.
THEOREM ImplementsAtomicWallet == Spec => DebitsAreAtomic
<1>1. Init => Wallets!WalletInit BY DEF Init, Wallets!WalletInit
<1>2. ASSUME IInv, [Next]_vars
      PROVE  [\E o \in Users : Wallets!Withdraw(o)]_<<balance, debited>>
  <2>1. ASSUME NEW r \in Requests,
               balance[User(r)] >= Amount(r),
               balance' = [balance EXCEPT ![User(r)] = @ - Amount(r)],
               debited' = [debited EXCEPT ![User(r)] = @ + Amount(r)]
        PROVE Wallets!Withdraw(User(r))
    <3>1. User(r) \in Users /\ Amount(r) \in Nat /\ Amount(r) > 0 BY <1>2, ArgumentsOK DEF IInv
    <3>2. balance \in [Users -> Int] BY <1>2 DEF IInv, TypeOK
    <3>3. balance'[User(r)] = balance[User(r)] - Amount(r) BY <2>1, <3>1, <3>2
    <3>4. balance'[User(r)] \in 0..(balance[User(r)] - 1) BY <2>1, <3>1, <3>2, <3>3
    <3>5. balance[User(r)] - balance'[User(r)] = Amount(r) BY <3>1, <3>2, <3>3
    <3> QED BY <2>1, <3>3, <3>4, <3>5 DEF Wallets!Withdraw
  <2>2. \/ UNCHANGED <<balance, debited>>
        \/ \E o \in Users : Wallets!Withdraw(o)
    <3>1. \A r \in Requests : User(r) \in Users BY <1>2, ArgumentsOK DEF IInv
    <3> QED BY <1>2, <2>1, <3>1, WalletStep
  <2> QED BY <2>2
<1> QED
  BY <1>1, <1>2, InitIInv, NextIInv, PTL
  DEF Spec, DebitsAreAtomic, Wallets!AtomicWalletSpec, Wallets!walletVars
-----------------------------------------------------------------------------
(* Transfers *)

\* While providers are being tried, each of them that failed carried out at most
\* one transfer, and so did the one that ended the loop.
TransfersCounted ==
    \A r \in Requests :
        /\ moved[r] <= IF pc[r] \in {"idle", "try"} THEN tried[r] ELSE Providers
        /\ pc[r] \in {"debit", "write", "refused", "complete"} => moved[r] > 0
        /\ tx[r] = "completed" => moved[r] > 0

MInv == TypeOK /\ TransfersCounted

LEMMA TransfersInit == Init => MInv
BY InitIInv, ProvidersAssumption DEF Init, IInv, MInv, TransfersCounted

\* Counting stays right: a provider is asked once and only in the loop.
LEMMA TransfersPreserved == ASSUME MInv, [Next]_vars PROVE MInv'
<1>1. TypeOK' BY TypePreserved DEF MInv
<1> USE ProvidersAssumption DEF MInv, TypeOK, TransfersCounted, Goto, money
<1>2. ASSUME NEW r \in Requests, ServerStep(r) PROVE TransfersCounted'
  <2> USE DEF Mark
  <2>1. CASE Open(r) BY <2>1 DEF Open
  <2>2. CASE AllFailed(r) BY <2>2 DEF AllFailed
  <2>3. CASE SelectForUpdate(r) BY <2>3 DEF SelectForUpdate
  <2>4. CASE CommitDebit(r) BY <2>4 DEF CommitDebit
  <2>5. CASE DebitRefused(r) BY <2>5 DEF DebitRefused
  <2>6. CASE Complete(r) BY <2>6 DEF Complete
  <2> QED BY <1>2, <2>1, <2>2, <2>3, <2>4, <2>5, <2>6 DEF ServerStep
<1>3. ASSUME NEW r \in Requests, Paid(r) PROVE TransfersCounted'
  BY <1>3 DEF Paid
<1>4. ASSUME NEW r \in Requests, NotPaid(r) PROVE TransfersCounted'
  BY <1>4 DEF NotPaid
<1>5. ASSUME NEW r \in Requests, Crash(r) PROVE TransfersCounted'
  BY <1>5 DEF Crash, Ended
<1>6. CASE UNCHANGED vars BY <1>6 DEF vars
<1> QED BY <1>1, <1>2, <1>3, <1>4, <1>5, <1>6 DEF Next, ProviderStep

\* A payout moves money at most once per provider, and one that is called
\* completed has moved some, wherever workers die.
THEOREM TransfersAreBounded == Spec => []OneTransferPerProvider
<1>1. MInv => OneTransferPerProvider
  <2> SUFFICES ASSUME MInv, NEW r \in Requests
               PROVE  moved[r] <= Providers /\ (tx[r] = "completed" => moved[r] > 0)
    BY DEF OneTransferPerProvider
  <2>1. moved[r] \in Nat /\ tried[r] \in 0..Providers /\ Providers \in Nat
    BY ProvidersAssumption DEF MInv, TypeOK
  <2>2. moved[r] <= tried[r] \/ moved[r] <= Providers BY DEF MInv, TransfersCounted
  <2> QED BY <2>1, <2>2 DEF MInv, TransfersCounted
<1> QED BY <1>1, TransfersInit, TransfersPreserved, PTL DEF Spec
=============================================================================
