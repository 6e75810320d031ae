------------------------- MODULE WalletTransferProofs -------------------------
(***************************************************************************)
(* The payout engine and its handlers, for any number of requests, users   *)
(* and providers and any arguments, whether or not worker threads have an  *)
(* application context.                                                    *)
(*                                                                         *)
(* The inductive invariant has three parts beside the types: what a        *)
(* request's position says of its rows, charges and transfers (Progress),  *)
(* what the balance it holds in memory can be (Copies), and the two        *)
(* properties of the wallet itself.                                        *)
(***************************************************************************)
EXTENDS WalletTransfer, TLAPS

BeforeCharge == {"idle", "validate", "debit", "flush", "value_error"}
AfterCharge == {"route", "calling", "fallback", "join", "settle", "returned", "direct_flush"}
Unsent == BeforeCharge \cup {"route", "calling"}
PaymentOpen == {"debit", "flush", "value_error", "route", "calling", "fallback", "settle"}
PaymentDone == {"join", "returned", "direct_flush"}

\* Where a request is says which of its rows exist, and what was done for it.
ProgressOf(r) ==
    /\ pc[r] \in BeforeCharge => charges[r] = 0
    /\ pc[r] \in AfterCharge => charges[r] > 0
    /\ pc[r] \in Unsent \/ charges[r] = 0 => moved[r] = 0
    /\ pc[r] \in {"idle", "validate"} => payment[r] = "none"
    /\ pc[r] \in PaymentOpen => payment[r] = "processing"
    /\ pc[r] \in PaymentDone => payment[r] = "completed"
    /\ pc[r] = "payout_error" => payment[r] = IF charges[r] = 0 THEN "none" ELSE "failed"
    /\ pc[r] = "settle" => moved[r] > 0
    /\ \A p \in Providers : fut[r][p] = "ok" => moved[r] > 0
    /\ payment[r] = "completed" => moved[r] > 0
    /\ ~WorkerAppContext => moved[r] <= 1
    /\ pc[r] = "direct_flush" => req[r].caller = "direct"
    /\ txn[r] = "completed" => pc[r] = "replied_ok" /\ payment[r] = "completed"
    /\ txn[r] = "failed" => pc[r] = "replied_err" /\ payment[r] \in {"none", "failed"}

Progress == \A r \in Requests : ProgressOf(r)

\* A balance that is about to be written back is not below what the debits
\* committed so far left, and covers the engine's debit.
Copies ==
    \A r \in Requests :
        /\ pc[r] \in {"flush", "direct_flush"} =>
               copy[r] + debited[User(r)] >= Opening[User(r)]
        /\ pc[r] = "flush" => copy[r] >= Amount(r)

IInv == TypeOK /\ Progress /\ Copies /\ OverdrawnOnlyByDoubleDebit /\ NeverOvercharged

\* The arguments of a request are a user and a positive amount.
LEMMA ArgumentsOK ==
    ASSUME TypeOK
    PROVE  \A r \in Requests :
              User(r) \in Users /\ Amount(r) \in Nat /\ Amount(r) > 0
BY InputsAssumption DEF TypeOK, InputType, User, Amount

\* Before any request there is nothing that could be wrong.
LEMMA InitIInv == Init => IInv
<1> SUFFICES ASSUME Init PROVE IInv OBVIOUS
<1>1. TypeOK
  BY OpeningAssumption DEF Init, EngineInit, TypeOK, PC, Ended, Replied, RowStatus, FutureState
<1>2. Progress
  BY DEF Init, EngineInit, Progress, ProgressOf, BeforeCharge, AfterCharge, Unsent,
         PaymentOpen, PaymentDone
<1>3. Copies BY DEF Init, EngineInit, Copies
<1>4. OverdrawnOnlyByDoubleDebit /\ NeverOvercharged
  BY OpeningAssumption DEF Init, EngineInit, OverdrawnOnlyByDoubleDebit, NeverOvercharged
<1> QED BY <1>1, <1>2, <1>3, <1>4 DEF IInv

\* One future changes its state and the others keep theirs.
LEMMA FutureUpdate ==
    ASSUME TypeOK, NEW r \in Requests, NEW p \in Providers, NEW v \in FutureState
    PROVE  [fut EXCEPT ![r][p] = v] \in [Requests -> [Providers -> FutureState]]
<1>1. fut[r] \in [Providers -> FutureState] BY DEF TypeOK
<1>2. [fut[r] EXCEPT ![p] = v] \in [Providers -> FutureState] BY <1>1
<1>3. [fut EXCEPT ![r] = [fut[r] EXCEPT ![p] = v]] \in [Requests -> [Providers -> FutureState]]
  BY <1>2 DEF TypeOK
<1> QED BY <1>3

\* Submitting a request's futures starts all of them and no others.
LEMMA FutureSubmit ==
    ASSUME TypeOK, NEW r \in Requests, SubmitAll(r)
    PROVE  fut' \in [Requests -> [Providers -> FutureState]]
<1>1. [p \in Providers |-> "running"] \in [Providers -> FutureState] BY DEF FutureState
<1> QED BY <1>1 DEF TypeOK, SubmitAll

\* Every step of a handler, of the engine, of a provider and every crash keeps
\* the types.
LEMMA TypePreserved == ASSUME TypeOK, [Next]_vars PROVE TypeOK'
<1>1. ASSUME NEW r \in Requests, HandlerStep(r) PROVE TypeOK'
  <2> User(r) \in Users /\ Amount(r) \in Nat BY ArgumentsOK
  <2> USE <1>1 DEF TypeOK, Goto, PC, Ended, Replied, RowStatus, engineVars
  <2>1. CASE Refuse(r) BY <2>1 DEF Refuse
  <2>2. CASE OpenTransfer(r) BY <2>2 DEF OpenTransfer
  <2>3. CASE CompleteTransfer(r) BY <2>3 DEF CompleteTransfer
  <2>4. CASE FailTransfer(r) BY <2>4 DEF FailTransfer
  <2>5. CASE EscapeTransfer(r) BY <2>5 DEF EscapeTransfer
  <2>6. CASE OpenDirect(r) BY <2>6 DEF OpenDirect
  <2>7. CASE FailDirect(r) BY <2>7 DEF FailDirect
  <2>8. CASE LoadDirect(r) BY <2>8 DEF LoadDirect
  <2>9. CASE CommitDirect(r) BY <2>9 DEF CommitDirect, WriteBack
  <2> QED BY <2>1, <2>2, <2>3, <2>4, <2>5, <2>6, <2>7, <2>8, <2>9 DEF HandlerStep
<1>2. ASSUME NEW r \in Requests, EngineStep(r), UNCHANGED txn PROVE TypeOK'
  <2> User(r) \in Users /\ Amount(r) \in Nat BY ArgumentsOK
  <2> USE <1>2 DEF TypeOK, Goto, PC, Ended, Replied, RowStatus, FutureState, engineVars
  <2>1. CASE Validate(r) BY <2>1 DEF Validate
  <2>2. CASE LoadAndDebit(r) BY <2>2 DEF LoadAndDebit
  <2>3. CASE CommitDebit(r) BY <2>3 DEF CommitDebit, WriteBack
  <2>4. CASE Route(r)
    <3>1. fut' \in [Requests -> [Providers -> FutureState]]
      BY <2>4, FutureSubmit DEF Route
    <3>2. asked' \in [Requests -> SUBSET Providers]
      <4>1. CASE req[r].provider \in Providers
        <5>1. asked[r] \cup {req[r].provider} \in SUBSET Providers BY <4>1
        <5> QED BY <2>4, <4>1, <5>1, SMTT(30) DEF Route
      <4>2. CASE req[r].provider \notin Providers BY <2>4, <4>2 DEF Route
      <4> QED BY <4>1, <4>2
    <3>3. pc' \in [Requests -> PC] BY <2>4 DEF Route
    <3> HIDE DEF PC, FutureState
    <3> QED BY <2>4, <3>1, <3>2, <3>3 DEF Route
  <2>5. ASSUME NEW p \in Providers, WorkerRaises(r, p) PROVE TypeOK'
    BY <2>5 DEF WorkerRaises
  <2>6. ASSUME NEW p \in Providers, Collect(r, p) PROVE TypeOK'
    <3>1. fut' \in [Requests -> [Providers -> FutureState]]
      <4>1. "seen" \in FutureState OBVIOUS
      <4>2. CASE UNCHANGED fut BY <4>2
      <4>3. CASE fut' = [fut EXCEPT ![r][p] = "seen"]
        <5> HIDE DEF FutureState, TypeOK
        <5> QED BY <4>1, <4>3, FutureUpdate
      <4> QED BY <2>6, <4>2, <4>3 DEF Collect
    <3> QED BY <2>6, <3>1 DEF Collect
  <2>7. CASE Join(r) BY <2>7 DEF Join
  <2>8. CASE AllFailed(r) BY <2>8 DEF AllFailed
  <2>9. CASE Settle(r) BY <2>9 DEF Settle
  <2> QED BY <2>1, <2>2, <2>3, <2>4, <2>5, <2>6, <2>7, <2>8, <2>9 DEF EngineStep
<1>3. ASSUME NEW r \in Requests, AwaitedStep(r) PROVE TypeOK'
  <2> USE <1>3 DEF TypeOK, Goto, PC, Ended, Replied, FutureState, CountMove
  <2>1. CASE ProviderAnswers(r)
    <3>1. fut' \in [Requests -> [Providers -> FutureState]]
      BY <2>1, FutureSubmit DEF ProviderAnswers
    <3>2. moved' \in [Requests -> Nat] BY <2>1 DEF ProviderAnswers
    <3>3. pc' \in [Requests -> PC] BY <2>1 DEF ProviderAnswers
    <3> HIDE DEF PC, FutureState
    <3> QED BY <2>1, <3>1, <3>2, <3>3 DEF ProviderAnswers, AwaitedStep
  <2>2. ASSUME NEW p \in Providers, WorkerAnswers(r, p) PROVE TypeOK'
    BY <2>2 DEF WorkerAnswers, AwaitedStep
  <2> QED BY <2>1, <2>2 DEF AwaitedStep, ProviderStep
<1>4. ASSUME NEW r \in Requests, Crash(r) PROVE TypeOK'
  BY <1>4 DEF Crash, TypeOK, PC, Ended
<1>5. CASE UNCHANGED vars BY <1>5 DEF vars, engineVars, TypeOK
<1> QED BY <1>1, <1>2, <1>3, <1>4, <1>5 DEF Next, ServerStep

\* A step for one request touches the rows and the memory of that request only.
Kept(s) ==
    /\ req'[s] = req[s] /\ pc'[s] = pc[s] /\ copy'[s] = copy[s]
    /\ payment'[s] = payment[s] /\ fut'[s] = fut[s] /\ moved'[s] = moved[s]
    /\ charges'[s] = charges[s] /\ txn'[s] = txn[s]

LEMMA OthersKept ==
    ASSUME TypeOK, NEW r \in Requests, ServerStep(r) \/ AwaitedStep(r) \/ Crash(r)
    PROVE  req' = req /\ \A s \in Requests : s # r => Kept(s)
<1> USE DEF TypeOK, Kept, Goto, engineVars
<1>1. CASE HandlerStep(r)
  BY <1>1 DEF HandlerStep, Refuse, OpenTransfer, CompleteTransfer, FailTransfer,
      EscapeTransfer, OpenDirect, FailDirect, LoadDirect, CommitDirect, WriteBack
<1>2. CASE EngineStep(r) /\ UNCHANGED txn
  BY <1>2 DEF EngineStep, Validate, LoadAndDebit, CommitDebit, WriteBack, Route,
      SubmitAll, WorkerRaises, Collect, Join, AllFailed, Settle
<1>3. CASE AwaitedStep(r)
  BY <1>3 DEF AwaitedStep, ProviderStep, ProviderAnswers, WorkerAnswers, CountMove, SubmitAll
<1>4. CASE Crash(r) BY <1>4 DEF Crash
<1> QED BY <1>1, <1>2, <1>3, <1>4 DEF ServerStep

\* A step leaves the request that takes it with the progress its position says.
LEMMA OwnProgress ==
    ASSUME IInv, NEW r \in Requests, ServerStep(r) \/ AwaitedStep(r) \/ Crash(r)
    PROVE  ProgressOf(r)'
<1> ProgressOf(r) /\ TypeOK BY DEF IInv, Progress
<1> User(r) \in Users BY ArgumentsOK
<1> charges[r] \in Nat /\ moved[r] \in Nat BY DEF TypeOK
<1> USE DEF TypeOK, ProgressOf, BeforeCharge, AfterCharge, Unsent, PaymentOpen,
            PaymentDone, Goto, engineVars
<1>1. CASE HandlerStep(r)
  <2>1. CASE Refuse(r) BY <2>1 DEF Refuse
  <2>2. CASE OpenTransfer(r) BY <2>2 DEF OpenTransfer
  <2>3. CASE CompleteTransfer(r) BY <2>3 DEF CompleteTransfer
  <2>4. CASE FailTransfer(r) BY <2>4 DEF FailTransfer
  <2>5. CASE EscapeTransfer(r) BY <2>5 DEF EscapeTransfer
  <2>6. CASE OpenDirect(r) BY <2>6 DEF OpenDirect
  <2>7. CASE FailDirect(r) BY <2>7 DEF FailDirect
  <2>8. CASE LoadDirect(r) BY <2>8 DEF LoadDirect
  <2>9. CASE CommitDirect(r) BY <2>9 DEF CommitDirect, WriteBack
  <2> QED BY <1>1, <2>1, <2>2, <2>3, <2>4, <2>5, <2>6, <2>7, <2>8, <2>9 DEF HandlerStep
<1>2. CASE EngineStep(r) /\ UNCHANGED txn
  <2> USE <1>2
  <2>1. CASE Validate(r) BY <2>1 DEF Validate
  <2>2. CASE LoadAndDebit(r) BY <2>2 DEF LoadAndDebit
  <2>3. CASE CommitDebit(r) BY <2>3 DEF CommitDebit, WriteBack
  <2>4. CASE Route(r) BY <2>4 DEF Route, SubmitAll
  <2>5. ASSUME NEW p \in Providers, WorkerRaises(r, p) PROVE ProgressOf(r)'
    BY <2>5 DEF WorkerRaises
  <2>6. ASSUME NEW p \in Providers, Collect(r, p) PROVE ProgressOf(r)'
    BY <2>6 DEF Collect
  <2>7. CASE Join(r) BY <2>7 DEF Join
  <2>8. CASE AllFailed(r) BY <2>8 DEF AllFailed
  <2>9. CASE Settle(r) BY <2>9 DEF Settle
  <2> QED BY <2>1, <2>2, <2>3, <2>4, <2>5, <2>6, <2>7, <2>8, <2>9 DEF EngineStep
<1>3. CASE AwaitedStep(r)
  <2> UNCHANGED txn BY <1>3 DEF AwaitedStep
  <2>1. CASE ProviderAnswers(r) BY <2>1 DEF ProviderAnswers, CountMove, SubmitAll
  <2>2. ASSUME NEW p \in Providers, WorkerAnswers(r, p) PROVE ProgressOf(r)'
    BY <2>2 DEF WorkerAnswers, CountMove, Working
  <2> QED BY <1>3, <2>1, <2>2 DEF AwaitedStep, ProviderStep
<1>4. CASE Crash(r)
  <2>1. PICK n \in 0..OnTheWire(r) : moved' = [moved EXCEPT ![r] = @ + n]
    BY <1>4 DEF Crash
  <2>2. n \in Nat BY <2>1
  <2>3. pc[r] \notin {"calling", "fallback", "join"} => n = 0
    BY <2>1 DEF OnTheWire, Working
  <2>4. pc[r] = "calling" => n <= 1 BY <2>1 DEF OnTheWire
  <2>5. CASE WorkerAppContext
    BY <1>4, <2>1, <2>2, <2>3, <2>4, <2>5 DEF Crash, Ended, Replied
  <2>6. CASE ~WorkerAppContext
    <3>1. pc[r] # "calling" => n = 0 BY <2>1, <2>6 DEF OnTheWire
    <3> QED BY <1>4, <2>1, <2>2, <2>4, <2>6, <3>1 DEF Crash, Ended, Replied
  <2> QED BY <2>5, <2>6
<1> QED BY <1>1, <1>2, <1>3, <1>4 DEF ServerStep

\* Progress is kept: by the request that takes a step and by all others.
LEMMA ProgressPreserved == ASSUME IInv, [Next]_vars PROVE Progress'
<1>1. ASSUME NEW r \in Requests, ServerStep(r) \/ AwaitedStep(r) \/ Crash(r)
      PROVE Progress'
  <2>1. ProgressOf(r)' BY <1>1, OwnProgress
  <2>2. ASSUME NEW s \in Requests, s # r PROVE ProgressOf(s)'
    <3>1. Kept(s) BY <1>1, <2>2, OthersKept DEF IInv
    <3>2. ProgressOf(s) BY DEF IInv, Progress
    <3> QED BY <3>1, <3>2 DEF Kept, ProgressOf
  <2> QED BY <2>1, <2>2 DEF Progress
<1>2. CASE UNCHANGED vars
  BY <1>2 DEF vars, engineVars, IInv, Progress, ProgressOf
<1> QED BY <1>1, <1>2 DEF Next

\* A step either leaves all wallets and charges as they are, or writes the
\* balance one request holds in memory back, and charges that request.
LEMMA WalletStep ==
    ASSUME NEW r \in Requests, ServerStep(r) \/ AwaitedStep(r) \/ Crash(r)
    PROVE  \/ UNCHANGED <<balance, charges, debited>>
           \/ pc[r] \in {"flush", "direct_flush"} /\ WriteBack(r)
<1>1. CASE HandlerStep(r)
  BY <1>1 DEF HandlerStep, Refuse, OpenTransfer, CompleteTransfer, FailTransfer,
      EscapeTransfer, OpenDirect, FailDirect, LoadDirect, CommitDirect, Goto, engineVars
<1>2. CASE EngineStep(r)
  BY <1>2 DEF EngineStep, Validate, LoadAndDebit, CommitDebit, Route, WorkerRaises,
      Collect, Join, AllFailed, Settle, Goto, engineVars
<1>3. CASE AwaitedStep(r)
  BY <1>3 DEF AwaitedStep, ProviderStep, ProviderAnswers, WorkerAnswers
<1>4. CASE Crash(r) BY <1>4 DEF Crash
<1> QED BY <1>1, <1>2, <1>3, <1>4 DEF ServerStep

\* A request that gets to write a balance back has just loaded it.
LEMMA CopyLoaded ==
    ASSUME TypeOK, NEW r \in Requests, ServerStep(r) \/ AwaitedStep(r) \/ Crash(r),
           pc'[r] \in {"flush", "direct_flush"}
    PROVE  /\ copy'[r] = balance[User(r)]
           /\ UNCHANGED <<balance, charges, debited>>
           /\ pc'[r] = "flush" => Covered(r)
<1> USE DEF TypeOK, Goto, engineVars
<1>1. CASE HandlerStep(r)
  BY <1>1 DEF HandlerStep, Refuse, OpenTransfer, CompleteTransfer, FailTransfer,
      EscapeTransfer, OpenDirect, FailDirect, LoadDirect, CommitDirect
<1>2. CASE EngineStep(r)
  BY <1>2 DEF EngineStep, Validate, LoadAndDebit, CommitDebit, Route, WorkerRaises,
      Working, Collect, Join, AllFailed, Settle
<1>3. CASE AwaitedStep(r)
  BY <1>3 DEF AwaitedStep, ProviderStep, ProviderAnswers, WorkerAnswers, Working
<1>4. CASE Crash(r) BY <1>4 DEF Crash
<1> QED BY <1>1, <1>2, <1>3, <1>4 DEF ServerStep

\* What a request holds in memory stays above what the debits left, and the
\* wallets stay above it too.
LEMMA MoneyPreserved ==
    ASSUME IInv, [Next]_vars
    PROVE  (Copies /\ OverdrawnOnlyByDoubleDebit /\ NeverOvercharged)'
<1> TypeOK /\ TypeOK' BY TypePreserved DEF IInv
<1> Progress BY DEF IInv
<1>1. ASSUME NEW r \in Requests, ServerStep(r) \/ AwaitedStep(r) \/ Crash(r)
      PROVE  (Copies /\ OverdrawnOnlyByDoubleDebit /\ NeverOvercharged)'
  <2>1. /\ User(r) \in Users /\ Amount(r) \in Nat
        /\ \A s \in Requests : User(s)' = User(s) /\ Amount(s)' = Amount(s)
    BY <1>1, OthersKept, ArgumentsOK DEF User, Amount
  <2>2. \A s \in Requests : User(s) \in Users BY ArgumentsOK
  <2>3. \/ UNCHANGED <<balance, charges, debited>>
        \/ pc[r] \in {"flush", "direct_flush"} /\ WriteBack(r)
    BY <1>1, WalletStep
  <2>4. /\ \A u \in Users : debited'[u] >= debited[u]
        /\ \A s \in Requests : charges'[s] >= charges[s]
    <3>1. CASE UNCHANGED <<balance, charges, debited>> BY <3>1 DEF TypeOK
    <3>2. CASE WriteBack(r)
      <4>1. /\ debited' = [debited EXCEPT ![User(r)] = @ + Amount(r)]
            /\ charges' = [charges EXCEPT ![r] = @ + 1]
        BY <3>2 DEF WriteBack
      <4> QED BY <2>1, <4>1 DEF TypeOK
    <3> QED BY <2>3, <3>1, <3>2
  <2>5. Copies'
    <3>1. ASSUME NEW s \in Requests, s # r, pc'[s] \in {"flush", "direct_flush"}
          PROVE  /\ copy'[s] + debited'[User(s)] >= Opening[User(s)]
                 /\ pc'[s] = "flush" => copy'[s] >= Amount(s)
      <4>1. copy'[s] = copy[s] /\ pc'[s] = pc[s] BY <1>1, <3>1, OthersKept DEF Kept
      <4>2. /\ copy[s] + debited[User(s)] >= Opening[User(s)]
            /\ pc[s] = "flush" => copy[s] >= Amount(s)
        BY <3>1, <4>1 DEF IInv, Copies
      <4>3. /\ copy[s] \in Int /\ debited[User(s)] \in Nat /\ Opening[User(s)] \in Nat
            /\ debited'[User(s)] \in Nat /\ debited'[User(s)] >= debited[User(s)]
        BY <2>2, <2>4, OpeningAssumption DEF TypeOK
      <4> QED BY <4>1, <4>2, <4>3
    <3>2. ASSUME pc'[r] \in {"flush", "direct_flush"}
          PROVE  /\ copy'[r] + debited'[User(r)] >= Opening[User(r)]
                 /\ pc'[r] = "flush" => copy'[r] >= Amount(r)
      BY <1>1, <2>1, <3>2, CopyLoaded DEF IInv, NeverOvercharged, Covered
    <3> QED BY <2>1, <3>1, <3>2 DEF Copies
  <2>6. CASE UNCHANGED <<balance, charges, debited>>
    <3>1. \A s \in Requests : req'[s].caller = req[s].caller BY <1>1, OthersKept
    <3> QED BY <2>1, <2>5, <2>6, <3>1 DEF IInv, OverdrawnOnlyByDoubleDebit, NeverOvercharged
  <2>7. CASE pc[r] \in {"flush", "direct_flush"} /\ WriteBack(r)
    <3>1. /\ balance'[User(r)] = copy[r] - Amount(r)
          /\ debited'[User(r)] = debited[User(r)] + Amount(r)
          /\ charges'[r] = charges[r] + 1
          /\ \A u \in Users : u # User(r) =>
                balance'[u] = balance[u] /\ debited'[u] = debited[u]
      BY <2>1, <2>7 DEF WriteBack, TypeOK
    <3>2. req' = req BY <1>1, OthersKept
    <3>3. NeverOvercharged'
      <4>1. copy[r] + debited[User(r)] >= Opening[User(r)] BY <2>7 DEF IInv, Copies
      <4>2. /\ copy[r] \in Int /\ debited[User(r)] \in Nat /\ Opening[User(r)] \in Nat
        BY <2>1, OpeningAssumption DEF TypeOK
      <4>3. balance'[User(r)] + debited'[User(r)] >= Opening[User(r)]
        BY <2>1, <3>1, <4>1, <4>2
      <4> QED BY <3>1, <4>3 DEF IInv, NeverOvercharged
    <3>4. ASSUME NEW u \in Users, balance'[u] < 0
          PROVE  \E s \in Requests :
                    User(s)' = u /\ req'[s].caller = "direct" /\ charges'[s] > 1
      <4>1. CASE u # User(r)
        <5>1. PICK s \in Requests : User(s) = u /\ req[s].caller = "direct" /\ charges[s] > 1
          BY <3>1, <3>4, <4>1 DEF IInv, OverdrawnOnlyByDoubleDebit
        <5>2. charges[s] \in Nat /\ charges'[s] \in Nat /\ charges'[s] >= charges[s]
          BY <2>4 DEF TypeOK
        <5> QED BY <2>1, <3>2, <5>1, <5>2
      <4>2. CASE u = User(r)
        <5>1. copy[r] - Amount(r) < 0 BY <3>1, <3>4, <4>2
        <5>2. copy[r] \in Int BY DEF TypeOK
        <5>3. pc[r] = "direct_flush" BY <2>1, <2>7, <5>1, <5>2 DEF IInv, Copies
        <5>4. req[r].caller = "direct" /\ charges[r] > 0
          BY <5>3 DEF Progress, ProgressOf, AfterCharge
        <5>5. charges'[r] > 1 BY <3>1, <5>4 DEF TypeOK
        <5> QED BY <2>1, <3>2, <4>2, <5>4, <5>5
      <4> QED BY <4>1, <4>2
    <3> QED BY <2>5, <3>3, <3>4 DEF OverdrawnOnlyByDoubleDebit
  <2> QED BY <2>3, <2>6, <2>7
<1>2. CASE UNCHANGED vars
  BY <1>2 DEF vars, engineVars, IInv, Copies, OverdrawnOnlyByDoubleDebit,
      NeverOvercharged, User, Amount
<1> QED BY <1>1, <1>2 DEF Next

\* The invariant is inductive.
LEMMA NextIInv == ASSUME IInv, [Next]_vars PROVE IInv'
BY TypePreserved, ProgressPreserved, MoneyPreserved DEF IInv

\* Type correctness.
THEOREM TypeCorrect == Spec => []TypeOK
<1>1. IInv => TypeOK BY DEF IInv
<1> QED BY <1>1, InitIInv, NextIInv, PTL DEF Spec

\* A wallet is overdrawn only by a handler that debits it after the engine did.
THEOREM OverdraftNeedsDoubleDebit == Spec => []OverdrawnOnlyByDoubleDebit
<1>1. IInv => OverdrawnOnlyByDoubleDebit BY DEF IInv
<1> QED BY <1>1, InitIInv, NextIInv, PTL DEF Spec

\* Lost updates are never at the user's expense.
THEOREM NobodyOvercharged == Spec => []NeverOvercharged
<1>1. IInv => NeverOvercharged BY DEF IInv
<1> QED BY <1>1, InitIInv, NextIInv, PTL DEF Spec

\* Without an application context in its threads the engine never pays twice.
THEOREM OneTransferAsWritten == Spec => []AtMostOneTransfer
<1>1. IInv => AtMostOneTransfer
  BY DEF IInv, Progress, ProgressOf, AtMostOneTransfer
<1> QED BY <1>1, InitIInv, NextIInv, PTL DEF Spec

\* The handler's row never contradicts the engine's.
THEOREM RowsAgree == Spec => []TransactionFollowsPayment
<1>1. IInv => TransactionFollowsPayment
  BY DEF IInv, Progress, ProgressOf, TransactionFollowsPayment
<1> QED BY <1>1, InitIInv, NextIInv, PTL DEF Spec

\* What a step does to the phase of the request that takes it.
PhaseStep(r) ==
    \/ PhaseOf(r)' = PhaseOf(r) /\ moved'[r] = moved[r]
    \/ PhaseOf(r)' = PhaseOf(r) /\ PhaseOf(r) \in {"charged", "paid"}
    \/ PhaseOf(r) = "open" /\ PhaseOf(r)' \in {"charged", "refused"} /\ moved'[r] = moved[r]
    \/ PhaseOf(r) = "charged" /\ PhaseOf(r)' = "failed" /\ moved'[r] = moved[r]
    \/ PhaseOf(r) = "charged" /\ PhaseOf(r)' = "paid" /\ moved'[r] > 0
    \/ PhaseOf(r) = "charged" /\ PhaseOf(r)' = "abandoned"

\* The phase is a matter of the charges, the payment row and whether the
\* request has ended.
LEMMA PhaseValue ==
    ASSUME NEW r \in Requests
    PROVE  /\ charges[r] = 0 /\ pc[r] \in Ended => PhaseOf(r) = "refused"
           /\ charges[r] = 0 /\ pc[r] \notin Ended => PhaseOf(r) = "open"
           /\ charges[r] # 0 /\ payment[r] = "completed" => PhaseOf(r) = "paid"
           /\ charges[r] # 0 /\ payment[r] = "failed" => PhaseOf(r) = "failed"
           /\ charges[r] # 0 /\ payment[r] \notin {"completed", "failed"} =>
                 PhaseOf(r) = IF pc[r] = "crashed" THEN "abandoned" ELSE "charged"
BY DEF PhaseOf

LEMMA PhaseValueNext ==
    ASSUME NEW r \in Requests
    PROVE  /\ charges'[r] = 0 /\ pc'[r] \in Ended => PhaseOf(r)' = "refused"
           /\ charges'[r] = 0 /\ pc'[r] \notin Ended => PhaseOf(r)' = "open"
           /\ charges'[r] # 0 /\ payment'[r] = "completed" => PhaseOf(r)' = "paid"
           /\ charges'[r] # 0 /\ payment'[r] = "failed" => PhaseOf(r)' = "failed"
           /\ charges'[r] # 0 /\ payment'[r] \notin {"completed", "failed"} =>
                 PhaseOf(r)' = IF pc'[r] = "crashed" THEN "abandoned" ELSE "charged"
BY DEF PhaseOf

\* Every step moves its request along the contract.
LEMMA OwnPhase ==
    ASSUME IInv, NEW r \in Requests, ServerStep(r) \/ AwaitedStep(r) \/ Crash(r)
    PROVE  PhaseStep(r)
<1> TypeOK /\ ProgressOf(r) BY DEF IInv, Progress
<1> ProgressOf(r)' BY OwnProgress
<1> User(r) \in Users BY ArgumentsOK
<1> charges[r] \in Nat /\ moved[r] \in Nat BY DEF TypeOK
<1> USE PhaseValue, PhaseValueNext
    DEF TypeOK, PhaseStep, ProgressOf, BeforeCharge, AfterCharge, Unsent, PaymentOpen,
        PaymentDone, Ended, Replied, Goto, engineVars
<1>1. CASE HandlerStep(r)
  <2>1. CASE Refuse(r) BY <2>1 DEF Refuse
  <2>2. CASE OpenTransfer(r)
    <3>1. PhaseOf(r) = "open" BY <2>2 DEF OpenTransfer
    <3>2. PhaseOf(r)' = PhaseOf(r) /\ moved'[r] = moved[r] BY <2>2, <3>1 DEF OpenTransfer
    <3> QED BY <3>2
  <2>3. CASE CompleteTransfer(r) BY <2>3 DEF CompleteTransfer
  <2>4. CASE FailTransfer(r) BY <2>4 DEF FailTransfer
  <2>5. CASE EscapeTransfer(r) BY <2>5 DEF EscapeTransfer
  <2>6. CASE OpenDirect(r) BY <2>6 DEF OpenDirect
  <2>7. CASE FailDirect(r) BY <2>7 DEF FailDirect
  <2>8. CASE LoadDirect(r) BY <2>8 DEF LoadDirect
  <2>9. CASE CommitDirect(r) BY <2>9 DEF CommitDirect, WriteBack
  <2> QED BY <1>1, <2>1, <2>2, <2>3, <2>4, <2>5, <2>6, <2>7, <2>8, <2>9 DEF HandlerStep
<1>2. CASE EngineStep(r) /\ UNCHANGED txn
  <2>1. CASE Validate(r) BY <2>1 DEF Validate
  <2>2. CASE LoadAndDebit(r) BY <2>2 DEF LoadAndDebit
  <2>3. CASE CommitDebit(r) BY <2>3, ZenonT(60) DEF CommitDebit, WriteBack
  <2>4. CASE Route(r) BY <2>4 DEF Route, SubmitAll
  <2>5. ASSUME NEW p \in Providers, WorkerRaises(r, p) PROVE PhaseStep(r)
    BY <2>5 DEF WorkerRaises, Working
  <2>6. ASSUME NEW p \in Providers, Collect(r, p) PROVE PhaseStep(r)
    BY <2>6 DEF Collect
  <2>7. CASE Join(r) BY <2>7 DEF Join
  <2>8. CASE AllFailed(r) BY <2>8 DEF AllFailed
  <2>9. CASE Settle(r) BY <2>9, SMTT(30) DEF Settle
  <2> QED BY <1>2, <2>1, <2>2, <2>3, <2>4, <2>5, <2>6, <2>7, <2>8, <2>9 DEF EngineStep
<1>3. CASE AwaitedStep(r)
  <2>1. CASE ProviderAnswers(r) BY <2>1 DEF ProviderAnswers
  <2>2. ASSUME NEW p \in Providers, WorkerAnswers(r, p) PROVE PhaseStep(r)
    BY <2>2 DEF WorkerAnswers, Working
  <2> QED BY <1>3, <2>1, <2>2 DEF AwaitedStep, ProviderStep
<1>4. CASE Crash(r)
  <2>1. PICK n \in 0..OnTheWire(r) : moved' = [moved EXCEPT ![r] = @ + n]
    BY <1>4 DEF Crash
  <2>2. pc[r] \notin {"calling", "fallback", "join"} => n = 0
    BY <2>1 DEF OnTheWire, Working
  <2> QED BY <1>4, <2>1, <2>2 DEF Crash
<1> QED BY <1>1, <1>2, <1>3, <1>4 DEF ServerStep

\* Transfers are only added, and only to the request that takes the step.
LEMMA MovedOnlyGrows ==
    ASSUME TypeOK, NEW r \in Requests, ServerStep(r) \/ AwaitedStep(r) \/ Crash(r)
    PROVE  /\ moved'[r] \in Nat /\ moved'[r] >= moved[r]
           /\ moved' = [moved EXCEPT ![r] = moved'[r]]
<1> USE DEF TypeOK, engineVars
<1>1. CASE HandlerStep(r)
  BY <1>1 DEF HandlerStep, Refuse, OpenTransfer, CompleteTransfer, FailTransfer,
      EscapeTransfer, OpenDirect, FailDirect, LoadDirect, CommitDirect
<1>2. CASE EngineStep(r)
  BY <1>2 DEF EngineStep, Validate, LoadAndDebit, CommitDebit, Route, WorkerRaises,
      Collect, Join, AllFailed, Settle
<1>3. CASE AwaitedStep(r)
  BY <1>3 DEF AwaitedStep, ProviderStep, ProviderAnswers, WorkerAnswers, CountMove
<1>4. CASE Crash(r) BY <1>4 DEF Crash
<1> QED BY <1>1, <1>2, <1>3, <1>4 DEF ServerStep

\* The engine and its handlers implement the payout contract.
THEOREM EngineImplementsContract == Spec => ImplementsContract
<1> DEFINE ph == [s \in Requests |-> PhaseOf(s)]
<1>1. Init => Promise!ContractInit
  BY DEF Init, EngineInit, Promise!ContractInit, PhaseOf, Ended, Replied
<1>2. ASSUME IInv, [Next]_vars PROVE Promise!ContractNext \/ UNCHANGED <<ph, moved>>
  <2>1. ASSUME NEW r \in Requests, ServerStep(r) \/ AwaitedStep(r) \/ Crash(r)
        PROVE  Promise!ContractNext \/ UNCHANGED <<ph, moved>>
    <3>1. ph' = [ph EXCEPT ![r] = PhaseOf(r)']
      <4>1. \A s \in Requests : s # r => PhaseOf(s)' = PhaseOf(s)
        BY <1>2, <2>1, OthersKept DEF IInv, Kept, PhaseOf
      <4> QED BY <4>1
    <3>2. /\ moved'[r] \in Nat /\ moved'[r] >= moved[r]
          /\ moved' = [moved EXCEPT ![r] = moved'[r]]
      BY <1>2, <2>1, MovedOnlyGrows DEF IInv
    <3>3. PhaseStep(r) BY <1>2, <2>1, OwnPhase
    <3>4. ph[r] = PhaseOf(r) OBVIOUS
    <3>5. moved'[r] = moved[r] => UNCHANGED moved BY <1>2, <3>2 DEF IInv, TypeOK
    <3>6. PhaseOf(r)' = PhaseOf(r) => UNCHANGED ph BY <3>1
    <3>7. \/ UNCHANGED <<ph, moved>>
          \/ Promise!Charge(r) \/ Promise!Refuse(r) \/ Promise!Fail(r)
          \/ Promise!Pay(r) \/ Promise!Send(r) \/ Promise!Abandon(r)
      <4> HIDE DEF ph
      <4> QED BY <3>1, <3>2, <3>3, <3>4, <3>5, <3>6
          DEF PhaseStep, ph, Promise!Charge, Promise!Refuse, Promise!Fail, Promise!Pay,
              Promise!Send, Promise!Abandon, Promise!Advance, Promise!MoreSent
    <3> QED BY <3>7 DEF Promise!ContractNext
  <2>2. CASE UNCHANGED vars
    BY <2>2 DEF vars, engineVars, PhaseOf
  <2> QED BY <1>2, <2>1, <2>2 DEF Next
<1>3. ASSUME IInv, [Next]_vars PROVE [Promise!ContractNext]_(Promise!contractVars)
  BY <1>2, <1>3 DEF Promise!contractVars
<1> QED
  BY <1>1, <1>3, InitIInv, NextIInv, PTL
  DEF Spec, ImplementsContract, Promise!Contract
\* A step settles a row that was open, and leaves one that was settled.
LEMMA SettledKept ==
    ASSUME IInv, NEW r \in Requests, ServerStep(r) \/ AwaitedStep(r) \/ Crash(r)
    PROVE  /\ payment[r] \in {"completed", "failed"} => payment'[r] = payment[r]
           /\ txn[r] \in {"completed", "failed"} => txn'[r] = txn[r]
<1> TypeOK /\ ProgressOf(r) BY DEF IInv, Progress
<1> USE DEF TypeOK, ProgressOf, PaymentOpen, Goto, engineVars
<1>1. CASE HandlerStep(r)
  BY <1>1 DEF HandlerStep, Refuse, OpenTransfer, CompleteTransfer, FailTransfer,
      EscapeTransfer, OpenDirect, FailDirect, LoadDirect, CommitDirect
<1>2. CASE EngineStep(r) /\ UNCHANGED txn
  BY <1>2 DEF EngineStep, Validate, LoadAndDebit, CommitDebit, Route, WorkerRaises,
      Collect, Join, AllFailed, Settle
<1>3. CASE AwaitedStep(r)
  BY <1>3 DEF AwaitedStep, ProviderStep, ProviderAnswers, WorkerAnswers
<1>4. CASE Crash(r) BY <1>4 DEF Crash
<1> QED BY <1>1, <1>2, <1>3, <1>4 DEF ServerStep

\* No future of the fallback that is done late, and no other request, rewrites a
\* payment or a transaction that has been settled.
THEOREM SettledStaysSettled == Spec => SettledIsFinal
<1> DEFINE Final == \A r \in Requests :
              /\ payment[r] \in {"completed", "failed"} => payment'[r] = payment[r]
              /\ txn[r] \in {"completed", "failed"} => txn'[r] = txn[r]
<1>1. ASSUME IInv, [Next]_vars PROVE Final
  <2>1. ASSUME NEW r \in Requests, ServerStep(r) \/ AwaitedStep(r) \/ Crash(r)
        PROVE  Final
    BY <1>1, <2>1, SettledKept, OthersKept DEF IInv, Kept
  <2>2. CASE UNCHANGED vars BY <2>2 DEF vars, engineVars
  <2> QED BY <1>1, <2>1, <2>2 DEF Next
<1> QED BY <1>1, InitIInv, NextIInv, PTL DEF Spec, SettledIsFinal
=============================================================================
