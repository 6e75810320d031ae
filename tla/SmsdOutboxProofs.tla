-------------------------- MODULE SmsdOutboxProofs --------------------------
(***************************************************************************)
(* The SMS daemons' outbox, for any number of daemons, messages, parts,    *)
(* retries and mishaps: types, the exclusion of claims, and that no        *)
(* message vanishes from the outbox unrecorded.                            *)
(***************************************************************************)
EXTENDS SmsdOutbox, TLAPS

\* A daemon that is at a message knows which one, and at which part of it.
BusyHasId == \A d \in Daemons :
    /\ pc[d] # "idle" => Id(d) \in Messages
    /\ pc[d] \in {"send", "wait", "mark"} => At(d) \in Part

TInv == TypeOK /\ BusyHasId

\* The positions of parts.
LEMMA PartFacts ==
    /\ Part \subseteq Nat \ {0}
    /\ \A m \in Messages : Length[m] \in Nat \ {0} /\ Parts(m) \subseteq Part
    /\ \A p \in Part : 1..p \subseteq Part
BY LengthAssumption DEF Part, Parts

\* What a daemon knows of its message.
LEMMA JobFacts ==
    ASSUME NEW j \in JobType
    PROVE  /\ j.id \in Messages \cup {NoMessage} /\ j.skip \in SUBSET Part
           /\ j.number \in Part \cup {0} /\ j.part \in Part \cup {0}
           /\ j.number \in Nat /\ j.part \in Nat /\ j.retries \in Nat
<1>1. /\ j.id \in Messages \cup {NoMessage} /\ j.skip \in SUBSET Part
      /\ j.number \in Part \cup {0} /\ j.part \in Part \cup {0} /\ j.retries \in Nat
  BY DEF JobType
<1>2. Part \cup {0} \subseteq Nat BY PartFacts
<1> QED BY <1>1, <1>2

\* Where a daemon goes after a part is a state of its own, with a part of the
\* message.
LEMMA AdvanceType ==
    ASSUME TypeOK, NEW d \in Daemons, NEW j \in JobType, NEW k \in Nat, Advance(d, j, k)
    PROVE  /\ pc' \in [Daemons -> PC]
           /\ job' \in [Daemons -> JobType]
           /\ \A e \in Daemons : e # d => pc'[e] = pc[e] /\ job'[e] = job[e]
           /\ job'[d].id = j.id
           /\ pc'[d] = "move" \/ (pc'[d] = "send" /\ job'[d].part \in Part)
<1>1. j.number \in Part \cup {0} /\ j.number \in Nat /\ j.skip \in SUBSET Part
      /\ j.id \in Messages \cup {NoMessage} /\ j.retries \in Nat
  BY JobFacts
<1>2. \A p \in Todo(j, k) : p \in Part
  <2> TAKE p \in Todo(j, k)
  <2>1. p \in 1..j.number BY <1>1 DEF Todo
  <2>2. j.number \in Part BY <1>1, <2>1
  <2> QED BY <2>1, <2>2, PartFacts
<1>3. \A p \in Part \cup {0} : /\ [j EXCEPT !.part = p] \in JobType
                               /\ [j EXCEPT !.part = p].id = j.id
                               /\ [j EXCEPT !.part = p].part = p
  BY <1>1 DEF JobType
<1>4. CASE /\ pc' = [pc EXCEPT ![d] = "move"]
           /\ job' = [job EXCEPT ![d] = [j EXCEPT !.part = 0]]
  BY <1>3, <1>4 DEF TypeOK, PC, Sending
<1>5. ASSUME NEW p \in Todo(j, k),
             pc' = [pc EXCEPT ![d] = "send"],
             job' = [job EXCEPT ![d] = [j EXCEPT !.part = p]]
      PROVE  /\ pc' \in [Daemons -> PC]
             /\ job' \in [Daemons -> JobType]
             /\ \A e \in Daemons : e # d => pc'[e] = pc[e] /\ job'[e] = job[e]
             /\ job'[d].id = j.id
             /\ pc'[d] = "send" /\ job'[d].part \in Part
  BY <1>2, <1>3, <1>5 DEF TypeOK, PC, Sending
<1> QED BY <1>4, <1>5 DEF Advance

\* What FindOutboxSMS makes of the rows of a message.
LEMMA LoadedType ==
    ASSUME TypeOK, NEW m \in Messages, NEW n \in 0..Length[m]
    PROVE  Loaded(m, n) \in JobType
<1>1. n \in Part \cup {0} BY PartFacts DEF Parts
<1>2. marked[m] \cap 1..n \in SUBSET Part /\ retries[m] + 1 \in Nat BY DEF TypeOK
<1> QED BY <1>1, <1>2 DEF Loaded, JobType

\* Back in the main loop.
LEMMA ReturnType ==
    ASSUME TInv, NEW d \in Daemons, Return(d)
    PROVE  /\ pc' \in [Daemons -> PC] /\ job' \in [Daemons -> JobType]
           /\ BusyHasId'
BY DEF TInv, TypeOK, BusyHasId, Return, Idle, JobType, PC, Id, At

\* sentitems keeps its types.
LEMMA RecordType ==
    ASSUME TypeOK, NEW m \in Messages, NEW P, NEW st \in SentState, RecordAll(m, P, st)
    PROVE  sent' \in [Messages -> [Part -> SentState]]
BY DEF TypeOK, RecordAll

\* So does the outbox when a message is deleted.
LEMMA DeleteType ==
    ASSUME TypeOK, NEW m \in Messages, Delete(m)
    PROVE  row' \in [Messages -> RowState] /\ rest' \in [Messages -> SUBSET Part]
BY DEF TypeOK, Delete, RowState

\* A mishap stays within its bound.
LEMMA MishapType == ASSUME TypeOK, Mishap PROVE mishaps' \in 0..MaxMishaps
BY MishapsAssumption DEF TypeOK, Mishap

\* Every action keeps the types.
LEMMA TypePreserved == ASSUME TInv, [Next]_vars PROVE TInv'
<1> USE DEF TInv, BusyHasId, Id, At
<1>1. ASSUME NEW d \in Daemons, Step(d) PROVE TInv'
  <2> USE <1>1 DEF outbox, local, seen
  <2>1. ASSUME NEW m \in Messages, Select(d, m) PROVE TInv'
    BY <2>1 DEF Select, Goto, Idle, TypeOK, JobType, PC
  <2>2. CASE Lock(d)
    <3>1. Id(d) \in Messages BY <2>2 DEF Lock, Goto
    <3>a. row \in [Messages -> RowState] /\ pc \in [Daemons -> PC] BY DEF TypeOK
    <3>b. \/ row' = [row EXCEPT ![Id(d)] = "locked"]
          \/ row' = row
      BY <2>2 DEF Lock
    <3>c. pc' = [pc EXCEPT ![d] = "read"] \/ pc' = [pc EXCEPT ![d] = "idle"]
      BY <2>2 DEF Lock, Goto
    <3>2. row' \in [Messages -> RowState] BY <3>a, <3>b DEF RowState
    <3>3. pc' \in [Daemons -> PC] BY <3>a, <3>c DEF PC, Sending
    <3>4. BusyHasId'
      BY <2>2, <3>1 DEF Lock, Goto, TypeOK
    <3> QED BY <2>2, <3>2, <3>3, <3>4 DEF Lock, TypeOK
  <2>3. CASE Take(d)
    <3>1. Id(d) \in Messages BY <2>3 DEF Take, TakeUpTo
    <3>2. PICK n \in 0..Length[Id(d)] :
             /\ \/ /\ Advance(d, Loaded(Id(d), n), 0)
                   /\ attempts' = [attempts EXCEPT ![Id(d)] = IF Present(Id(d)) THEN @ + 1 ELSE @]
                \/ /\ pc' = [pc EXCEPT ![d] = "errorbox"]
                   /\ job' = [job EXCEPT ![d] = Loaded(Id(d), n)]
                   /\ UNCHANGED attempts
             /\ spoiled' = spoiled \cup {x \in {Id(d)} : Present(Id(d)) /\ n < Length[Id(d)]}
      BY <2>3 DEF Take, TakeUpTo
    <3>3. Loaded(Id(d), n) \in JobType /\ Loaded(Id(d), n).id = Id(d)
      BY <3>1, LoadedType DEF Loaded
    <3>4. /\ pc' \in [Daemons -> PC] /\ job' \in [Daemons -> JobType] /\ BusyHasId'
      <4>1. CASE Advance(d, Loaded(Id(d), n), 0)
        BY <3>1, <3>3, <4>1, AdvanceType
      <4>2. CASE /\ pc' = [pc EXCEPT ![d] = "errorbox"]
                 /\ job' = [job EXCEPT ![d] = Loaded(Id(d), n)]
        BY <3>1, <3>3, <4>2 DEF TypeOK, PC, Sending
      <4> QED BY <3>2, <4>1, <4>2
    <3>5. attempts' \in [Messages -> Nat] /\ spoiled' \in SUBSET Messages
      BY <3>1, <3>2 DEF TypeOK
    <3> QED BY <2>3, <3>4, <3>5 DEF Take, TakeUpTo, TypeOK
  <2>4. CASE OutboxError(d)
    <3>1. Id(d) \in Messages BY <2>4 DEF OutboxError, TypeOK, JobType
    <3>2. sent' \in [Messages -> [Part -> SentState]]
      BY <2>4, <3>1, RecordType DEF OutboxError, SentState
    <3>3. row' \in [Messages -> RowState] /\ rest' \in [Messages -> SUBSET Part]
      BY <2>4, <3>1, DeleteType DEF OutboxError, TypeOK
    <3> QED BY <2>4, <3>1, <3>2, <3>3, ReturnType, MishapType DEF OutboxError, TypeOK
  <2>5. CASE ReadSMSCFails(d)
    BY <2>5, ReturnType, MishapType DEF ReadSMSCFails, TypeOK
  <2>6. CASE Submit(d)
    <3>1. Id(d) \in Messages /\ At(d) \in Part
      BY <2>6 DEF Submit, Goto
    <3> QED BY <2>6, <3>1 DEF Submit, Goto, TypeOK, PC, Sending
  <2>7. CASE SubmitFails(d)
    BY <2>7 DEF SubmitFails, Goto, TypeOK, PC, Sending
  <2>8. CASE Refresh(d)
    BY <2>8 DEF Refresh, TypeOK, RowState
  <2>9. CASE Refused(d)
    BY <2>9 DEF Refused, Goto, TypeOK, PC, Sending
  <2>10. CASE GiveUp(d)
    BY <2>10 DEF GiveUp, Goto, TypeOK, PC, Sending
  <2>11. CASE Record(d)
    <3>1. Id(d) \in Messages /\ job[d] \in JobType /\ At(d) \in Nat /\ job[d].id = Id(d)
      BY <2>11, JobFacts DEF Record, TypeOK
    <3>2. sent' \in [Messages -> [Part -> SentState]]
      BY <2>11, <3>1, RecordType DEF Record, SentState
    <3>3. CASE Advance(d, job[d], At(d))
      BY <2>11, <3>1, <3>2, <3>3, AdvanceType, SMTT(30) DEF Record, TypeOK
    <3>4. CASE (Goto(d, "wait", "failed") \/ Goto(d, "wait", "mark")) /\ UNCHANGED job
      BY <2>11, <3>1, <3>2, <3>4 DEF Record, Goto, TypeOK, PC, Sending
    <3> QED BY <2>11, <3>3, <3>4 DEF Record
  <2>12. CASE Mark(d)
    <3>1. Id(d) \in Messages /\ job[d] \in JobType /\ job[d].id = Id(d)
          /\ At(d) \in Part \cup {0} /\ At(d) \in Nat
      BY <2>12, JobFacts DEF Mark, TypeOK
    <3>2. marked' \in [Messages -> SUBSET Part]
      BY <2>12, <3>1, PartFacts DEF Mark, TypeOK, Rows
    <3>3. Advance(d, job[d], At(d)) BY <2>12 DEF Mark
    <3>4. /\ pc' \in [Daemons -> PC] /\ job' \in [Daemons -> JobType]
          /\ \A e \in Daemons : e # d => pc'[e] = pc[e] /\ job'[e] = job[e]
          /\ job'[d].id = job[d].id
          /\ pc'[d] = "move" \/ (pc'[d] = "send" /\ job'[d].part \in Part)
      BY <3>1, <3>3, AdvanceType
    <3>5. UNCHANGED <<stored, row, rest, retries, sent, status, smsc, phone, mishaps, seen>>
      BY <2>12 DEF Mark
    <3>6. TypeOK' BY <3>2, <3>4, <3>5 DEF TypeOK
    <3>7. BusyHasId' BY <3>1, <3>4
    <3> QED BY <3>6, <3>7
  <2>13. CASE RecordFails(d)
    BY <2>13, MishapType DEF RecordFails, TypeOK, PC, Sending
  <2>14. CASE UpdateRetries(d)
    BY <2>14, ReturnType DEF UpdateRetries, TypeOK, JobType, RowState
  <2>15. CASE MoveSMS(d)
    BY <2>15, ReturnType, DeleteType DEF MoveSMS, TypeOK
  <2>16. CASE LeaveFails(d)
    BY <2>16, ReturnType, MishapType DEF LeaveFails, TypeOK
  <2>17. CASE ErrorBox(d)
    BY <2>17, ReturnType, DeleteType, RecordType DEF ErrorBox, TypeOK, SentState
  <2>18. CASE ErrorBoxFails(d)
    BY <2>18, ReturnType, DeleteType, RecordType, MishapType DEF ErrorBoxFails, TypeOK, SentState
  <2> QED BY <2>1, <2>2, <2>3, <2>4, <2>5, <2>6, <2>7, <2>8, <2>9, <2>10, <2>11,
             <2>12, <2>13, <2>14, <2>15, <2>16, <2>17, <2>18 DEF Step
<1>2. ASSUME NEW d \in Daemons, PhoneAnswers(d) PROVE TInv'
  <2>1. phone[d] \in Seq(Messages \X Part) /\ phone[d] # <<>>
    BY <1>2 DEF PhoneAnswers, TypeOK
  <2>2. Head(phone[d]) \in Messages \X Part /\ Tail(phone[d]) \in Seq(Messages \X Part)
    BY <2>1
  <2>3. phone' \in [Daemons -> Seq(Messages \X Part)]
    BY <1>2, <2>2 DEF PhoneAnswers, TypeOK
  <2>4. PICK m \in Messages, p \in Part, ok \in BOOLEAN, told \in BOOLEAN :
           /\ air' = [air EXCEPT ![m][p] = IF ok THEN @ + 1 ELSE @]
           /\ status' = [status EXCEPT ![d] =
                 IF told /\ pc[d] = "wait" THEN (IF ok THEN "ok" ELSE "error") ELSE @]
    BY <1>2, <2>2 DEF PhoneAnswers
  <2>5. air' \in [Messages -> [Part -> Nat]] BY <2>4 DEF TypeOK
  <2>6. status' \in [Daemons -> {"timeout", "ok", "error"}] BY <2>4 DEF TypeOK
  <2> QED BY <1>2, <2>3, <2>5, <2>6 DEF PhoneAnswers, TypeOK, outbox
<1>3. ASSUME NEW d \in Daemons, Crash(d) PROVE TInv'
  BY <1>3, MishapType DEF Crash, Idle, TypeOK, JobType, PC, outbox, seen
<1>4. ASSUME NEW m \in Messages, Create(m) PROVE TInv'
  <2>1. stored[m] \in Part \cup {0} BY DEF TypeOK
  <2>a. Part \cup {0} \subseteq Nat BY PartFacts
  <2>b. Length[m] \in Nat BY PartFacts
  <2>2. stored[m] \in Nat /\ Length[m] \in Nat BY <2>1, <2>a, <2>b
  <2>3. stored[m] + 1 \in Parts(m) BY <1>4, <2>2 DEF Create, CreateUpTo, Parts
  <2>4. stored[m] + 1 \in Part BY <2>3, PartFacts
  <2>5. stored' \in [Messages -> Part \cup {0}] BY <1>4, <2>4 DEF Create, CreateUpTo, TypeOK
  <2>6. row' \in [Messages -> RowState]
    BY <1>4 DEF Create, CreateUpTo, TypeOK, RowState
  <2>7. rest' \in [Messages -> SUBSET Part]
    <3>1. rest \in [Messages -> SUBSET Part] BY DEF TypeOK
    <3>2. rest' = rest \/ rest' = [rest EXCEPT ![m] = @ \cup {stored[m] + 1}]
      BY <1>4 DEF Create, CreateUpTo
    <3> QED BY <2>4, <3>1, <3>2
  <2> QED BY <1>4, <2>5, <2>6, <2>7 DEF Create, CreateUpTo, TypeOK, local, seen
<1>5. ASSUME NEW m \in Messages, Expire(m) PROVE TInv'
  BY <1>5 DEF Expire, TypeOK, RowState, local, seen
<1>6. ASSUME NEW m \in Messages, Overtake(m) PROVE TInv'
  BY <1>6, MishapType DEF Overtake, TypeOK, RowState, local
<1>7. CASE UNCHANGED vars
  BY <1>7 DEF vars, outbox, local, seen, TypeOK
<1> QED BY <1>1, <1>2, <1>3, <1>4, <1>5, <1>6, <1>7 DEF Next

LEMMA TypeInit == Init => TInv
<1> SUFFICES ASSUME Init PROVE TInv OBVIOUS
<1>1. Idle(NoMessage) \in JobType BY DEF Idle, JobType
<1>2. <<>> \in Seq(Messages \X Part) OBVIOUS
<1>3. /\ stored \in [Messages -> Part \cup {0}]
      /\ row \in [Messages -> RowState]
      /\ rest \in [Messages -> SUBSET Part]
      /\ retries \in [Messages -> Nat]
      /\ marked \in [Messages -> SUBSET Part]
      /\ attempts \in [Messages -> Nat]
  BY DEF Init, RowState
<1>4. sent \in [Messages -> [Part -> SentState]] /\ air \in [Messages -> [Part -> Nat]]
  BY DEF Init, SentState
<1>5. /\ pc \in [Daemons -> PC] /\ job \in [Daemons -> JobType]
      /\ phone \in [Daemons -> Seq(Messages \X Part)]
      /\ status \in [Daemons -> {"timeout", "ok", "error"}]
      /\ smsc \in [Daemons -> {"unread", "read", "blank"}]
  BY <1>1, <1>2 DEF Init, PC
<1>6. mishaps \in 0..MaxMishaps /\ overtaken \in SUBSET Messages /\ spoiled \in SUBSET Messages
  BY MishapsAssumption DEF Init
<1>7. givenUp \in BOOLEAN BY Zenon DEF Init
<1>8. BusyHasId BY DEF Init, BusyHasId
<1> QED BY <1>3, <1>4, <1>5, <1>6, <1>7, <1>8 DEF TInv, TypeOK

\* The state of the daemons, of their phones and of the database keeps its
\* types.
THEOREM TypeCorrect == Spec => []TypeOK
<1>1. Spec => []TInv
  BY TypeInit, TypePreserved, PTL DEF Spec
<1> QED BY <1>1, PTL DEF TInv

-----------------------------------------------------------------------------
(***************************************************************************)
(* What a step changes, told from the database's side.  A message's row    *)
(* becomes free in three ways only, a daemon begins to hold a message only *)
(* by locking its free row, and nothing recorded is forgotten.             *)
(***************************************************************************)
Recorded(m, p) == sent[m][p] # "none"

\* The outbox row of a message exists once its author has begun to store it.
Written == \A m \in Messages : stored[m] = 0 => row[m] = "unwritten"
HeldWritten == \A d \in Daemons, m \in Messages : Holds(d, m) => row[m] # "unwritten"

\* How one step may change a row, what goes with it and the records.
Frame(m) ==
    /\ row'[m] = "unwritten" => row[m] = "unwritten"
    /\ Present(m)' => \/ Present(m) /\ rest[m] \subseteq rest'[m]
                      \/ row[m] = "unwritten" /\ stored[m] = 0
    /\ row'[m] = "free" /\ row[m] # "free" =>
          \/ stored[m] = 0
          \/ \A d \in Daemons : ~Holds(d, m)
          \/ m \in overtaken'
    /\ stored'[m] = 0 => stored[m] = 0 /\ row'[m] = row[m]
    /\ m \in overtaken => m \in overtaken'
    /\ m \in spoiled => m \in spoiled'
    /\ \A p \in Part : Recorded(m, p) => Recorded(m, p)'

LEMMA RecordKeeps ==
    ASSUME TypeOK, NEW m \in Messages, NEW P, NEW st \in SentState \ {"none"},
           RecordAll(m, P, st)
    PROVE  /\ \A x \in Messages, p \in Part : Recorded(x, p) => Recorded(x, p)'
           /\ \A p \in P \cap Rows(m) \cap Part : Recorded(m, p)'
BY DEF RecordAll, Recorded, TypeOK, SentState

\* What a deletion does to the rows.
LEMMA DeleteKeeps ==
    ASSUME TypeOK, NEW m \in Messages, Delete(m)
    PROVE  /\ ~Present(m)'
           /\ \A x \in Messages : x # m => row'[x] = row[x] /\ rest'[x] = rest[x]
           /\ row'[m] = row[m] \/ row'[m] = "gone"
BY DEF Delete, TypeOK, Present

\* The changes of a message's row that daemons and time make.
LEMMA FrameRow ==
    ASSUME NEW m \in Messages,
           stored' = stored, overtaken \subseteq overtaken', spoiled \subseteq spoiled',
           \A p \in Part : Recorded(m, p) => Recorded(m, p)',
           ~Present(m)' \/ rest'[m] = rest[m],
           \/ row'[m] = row[m]
           \/ Present(m) /\ row'[m] = "locked"
           \/ row'[m] = "gone" /\ row[m] # "unwritten"
           \/ /\ row[m] = "locked" /\ row'[m] = "free"
              /\ (\A d \in Daemons : ~Holds(d, m)) \/ m \in overtaken',
           Written
    PROVE  Frame(m)
BY DEF Frame, Present, Written

LEMMA FrameStep ==
    ASSUME TInv, Written, HeldWritten, [Next]_vars, NEW m \in Messages
    PROVE  Frame(m)
<1> USE DEF TInv
<1>t. /\ row \in [Messages -> RowState] /\ rest \in [Messages -> SUBSET Part]
      /\ \A d \in Daemons : Id(d) \in Messages \cup {NoMessage}
  BY JobFacts DEF TypeOK, Id
<1>1. ASSUME NEW d \in Daemons, Step(d) PROVE Frame(m)
  <2>1. CASE \/ \E x \in Messages : Select(d, x)
             \/ Take(d) \/ ReadSMSCFails(d) \/ Submit(d) \/ SubmitFails(d)
             \/ Refused(d) \/ GiveUp(d) \/ Mark(d) \/ RecordFails(d) \/ LeaveFails(d)
    <3>1. UNCHANGED <<stored, row, rest, sent, overtaken>> /\ spoiled \subseteq spoiled'
      BY <2>1 DEF Select, Take, TakeUpTo, ReadSMSCFails, Submit, SubmitFails, Refused,
                  GiveUp, Mark, RecordFails, LeaveFails, outbox, seen
    <3> QED BY <3>1, FrameRow DEF Recorded
  <2>2. CASE Lock(d) \/ Refresh(d) \/ UpdateRetries(d)
    <3>1. /\ row' = row \/ (Present(Id(d)) /\ row' = [row EXCEPT ![Id(d)] = "locked"])
          /\ UNCHANGED <<stored, rest, sent, overtaken, spoiled>>
      <4>1. CASE Lock(d) BY <4>1 DEF Lock, Present, seen
      <4>2. CASE Refresh(d) BY <4>2 DEF Refresh, Present, seen
      <4>3. CASE UpdateRetries(d)
        <5>1. row' = [row EXCEPT ![Id(d)] = IF Present(Id(d)) THEN "locked" ELSE @]
          BY <4>3 DEF UpdateRetries
        <5>2. ~Present(Id(d)) => row' = row BY <1>t, <5>1
        <5> QED BY <4>3, <5>1, <5>2 DEF UpdateRetries, seen
      <4> QED BY <2>2, <4>1, <4>2, <4>3
    <3>2. row'[m] = row[m] \/ (Present(m) /\ row'[m] = "locked")
      BY <1>t, <3>1
    <3> QED BY <3>1, <3>2, FrameRow DEF Recorded
  <2>5. CASE Record(d)
    <3>1. Id(d) \in Messages BY <2>5 DEF Record, BusyHasId
    <3>2. \A p \in Part : Recorded(m, p) => Recorded(m, p)'
      BY <2>5, <3>1, RecordKeeps DEF Record, SentState
    <3>3. UNCHANGED <<stored, row, rest, overtaken, spoiled>>
      BY <2>5 DEF Record, outbox, seen
    <3> QED BY <3>2, <3>3, FrameRow
  <2>6. CASE MoveSMS(d)
    <3>1. Id(d) \in Messages BY <2>6 DEF MoveSMS, BusyHasId
    <3>2. row[Id(d)] # "unwritten"
      BY <2>6, <3>1 DEF MoveSMS, HeldWritten, Holds, Sending
    <3>3. UNCHANGED <<stored, sent, overtaken, spoiled>> /\ Delete(Id(d))
      BY <2>6 DEF MoveSMS, seen
    <3> QED BY <3>1, <3>2, <3>3, DeleteKeeps, FrameRow DEF Recorded
  <2>7. CASE ErrorBox(d) \/ ErrorBoxFails(d) \/ OutboxError(d)
    <3>1. Id(d) \in Messages /\ (pc[d] = "idle" \/ row[Id(d)] # "unwritten")
      BY <1>t, <2>7 DEF ErrorBox, ErrorBoxFails, OutboxError, BusyHasId, HeldWritten, Holds,
                  Sending, TypeOK
    <3>2. "SendingError" \in SentState \ {"none"} /\ "Error" \in SentState \ {"none"}
      BY DEF SentState
    <3>3. \A p \in Part : Recorded(m, p) => Recorded(m, p)'
      <4>1. CASE ErrorBox(d)
        BY <3>1, <3>2, <4>1, RecordKeeps DEF ErrorBox
      <4>2. CASE ErrorBoxFails(d)
        BY <3>1, <3>2, <4>2, RecordKeeps DEF ErrorBoxFails
      <4>3. CASE OutboxError(d)
        BY <3>1, <3>2, <4>3, RecordKeeps DEF OutboxError
      <4> QED BY <2>7, <4>1, <4>2, <4>3
    <3>4. /\ UNCHANGED <<stored, overtaken>> /\ spoiled \subseteq spoiled'
          /\ Delete(Id(d)) \/ UNCHANGED <<row, rest>>
      BY <2>7 DEF ErrorBox, ErrorBoxFails, OutboxError, seen
    <3>5. CASE UNCHANGED <<row, rest>>
      BY <3>3, <3>4, <3>5, FrameRow
    <3>6. CASE Delete(Id(d))
      <4>1. row'[m] = row[m] \/ (row'[m] = "gone" /\ row[m] # "unwritten")
        BY <1>t, <3>6 DEF Delete, Present
      <4>2. ~Present(m)' \/ rest'[m] = rest[m]
        BY <3>1, <3>6, DeleteKeeps
      <4> QED BY <3>3, <3>4, <4>1, <4>2, FrameRow
    <3> QED BY <3>4, <3>5, <3>6
  <2> QED BY <1>1, <2>1, <2>2, <2>5, <2>6, <2>7 DEF Step
<1>2. ASSUME NEW d \in Daemons, PhoneAnswers(d) \/ Crash(d) PROVE Frame(m)
  BY <1>2, FrameRow DEF PhoneAnswers, Crash, Recorded, Present, outbox, seen
<1>3. ASSUME NEW x \in Messages, Create(x) PROVE Frame(m)
  <2>1. stored[x] \in Nat /\ stored' = [stored EXCEPT ![x] = @ + 1]
    <3>1. stored[x] \in Part \cup {0} BY DEF TypeOK
    <3>2. Part \cup {0} \subseteq Nat BY PartFacts
    <3> QED BY <1>3, <3>1, <3>2 DEF Create, CreateUpTo
  <2>2. stored'[m] = 0 => stored[m] = 0 /\ m # x
    BY <2>1 DEF TypeOK
  <2> QED BY <1>3, <2>1, <2>2 DEF Create, CreateUpTo, Frame, Recorded, Present, seen, TypeOK, Written
<1>4. ASSUME NEW x \in Messages, Expire(x) \/ Overtake(x) PROVE Frame(m)
  <2>1. /\ row' = [row EXCEPT ![x] = "free"] /\ row[x] = "locked"
        /\ (\A d \in Daemons : ~Holds(d, x)) \/ x \in overtaken'
        /\ UNCHANGED <<stored, rest, sent, spoiled>> /\ overtaken \subseteq overtaken'
    BY <1>4 DEF Expire, Overtake, seen
  <2>2. row'[m] = row[m] \/ (m = x /\ row'[m] = "free")
    BY <1>t, <2>1
  <2> QED BY <2>1, <2>2, FrameRow DEF Recorded
<1>6. CASE UNCHANGED vars
  BY <1>6, FrameRow DEF vars, outbox, seen, Recorded, Present
<1> QED BY <1>1, <1>2, <1>3, <1>4, <1>6 DEF Next

\* A step of a daemon, its phone or its end changes nothing of another daemon.
LEMMA OnlyActor ==
    ASSUME TInv, NEW d \in Daemons, Step(d) \/ PhoneAnswers(d) \/ Crash(d),
           NEW e \in Daemons, e # d
    PROVE  pc'[e] = pc[e] /\ job'[e] = job[e]
<1>t. pc \in [Daemons -> PC] /\ job \in [Daemons -> JobType] BY DEF TInv, TypeOK
<1>1. CASE \/ \E m \in Messages : Select(d, m)
           \/ Lock(d) \/ ReadSMSCFails(d) \/ Submit(d) \/ SubmitFails(d) \/ Refresh(d)
           \/ Refused(d) \/ GiveUp(d) \/ RecordFails(d) \/ Crash(d)
  BY <1>1, <1>t DEF Select, Lock, ReadSMSCFails, Submit, SubmitFails, Refresh, Refused, GiveUp,
                    RecordFails, Crash, Goto, Return, outbox, local, seen
<1>2. CASE \/ OutboxError(d) \/ UpdateRetries(d) \/ MoveSMS(d) \/ LeaveFails(d)
           \/ ErrorBox(d) \/ ErrorBoxFails(d)
  <2>1. Return(d)
    BY <1>2 DEF OutboxError, UpdateRetries, MoveSMS, LeaveFails, ErrorBox, ErrorBoxFails
  <2> QED BY <1>t, <2>1 DEF Return
<1>3. CASE PhoneAnswers(d)
  BY <1>3 DEF PhoneAnswers
<1>4. ASSUME NEW j, NEW k, Advance(d, j, k) PROVE pc'[e] = pc[e] /\ job'[e] = job[e]
  BY <1>4, <1>t DEF Advance
<1>5. CASE Record(d) \/ Mark(d)
  BY <1>4, <1>5, <1>t DEF Record, Mark, Goto
<1>6. CASE Take(d)
  <2>1. PICK n \in 0..Length[Id(d)] :
           \/ Advance(d, Loaded(Id(d), n), 0)
           \/ /\ pc' = [pc EXCEPT ![d] = "errorbox"]
              /\ job' = [job EXCEPT ![d] = Loaded(Id(d), n)]
    BY <1>6 DEF Take, TakeUpTo
  <2> QED BY <1>4, <1>t, <2>1
<1> QED BY <1>1, <1>2, <1>3, <1>5, <1>6 DEF Step

\* A daemon begins to hold a message only by locking its free row.
LEMMA HoldStep ==
    ASSUME TInv, NEW d \in Daemons, Step(d) \/ PhoneAnswers(d) \/ Crash(d),
           NEW m \in Messages, Holds(d, m)', ~Holds(d, m)
    PROVE  row[m] = "free" /\ row'[m] = "locked" /\ overtaken' = overtaken
<1>t. /\ pc \in [Daemons -> PC] /\ job \in [Daemons -> JobType]
      /\ row \in [Messages -> RowState]
      /\ job[d] \in JobType /\ At(d) \in Nat
  BY JobFacts DEF TInv, TypeOK, At
<1>1. CASE PhoneAnswers(d)
  BY <1>1 DEF PhoneAnswers, Holds, Id
<1>2. CASE Crash(d) \/ \E x \in Messages : Select(d, x)
  BY <1>2, <1>t DEF Crash, Select, Goto, Holds, Sending
<1>3. CASE Lock(d)
  BY <1>3, <1>t DEF Lock, Goto, Holds, Sending, Id, seen
<1>4. CASE \/ OutboxError(d) \/ UpdateRetries(d) \/ MoveSMS(d) \/ LeaveFails(d)
           \/ ErrorBox(d) \/ ErrorBoxFails(d) \/ ReadSMSCFails(d)
  <2>1. Return(d)
    BY <1>4 DEF OutboxError, UpdateRetries, MoveSMS, LeaveFails, ErrorBox, ErrorBoxFails,
                ReadSMSCFails
  <2> QED BY <1>t, <2>1 DEF Return, Holds, Sending
<1>5. CASE \/ Submit(d) \/ SubmitFails(d) \/ Refused(d) \/ GiveUp(d) \/ Refresh(d)
           \/ RecordFails(d)
  <2>1. pc[d] \in Sending /\ job' = job
    BY <1>5 DEF Submit, SubmitFails, Refused, GiveUp, Refresh, RecordFails, Goto, Sending, local
  <2> QED BY <2>1 DEF Holds, Id
<1>6. ASSUME NEW j \in JobType, NEW k \in Nat, Advance(d, j, k), j.id = Id(d), pc[d] \in Sending
      PROVE FALSE
  BY <1>6, AdvanceType DEF Holds, Id, TInv
<1>7. CASE Record(d)
  <2>1. pc[d] \in Sending BY <1>7 DEF Record, Sending
  <2>2. CASE UNCHANGED job BY <2>1, <2>2 DEF Holds, Id
  <2>3. CASE Advance(d, job[d], At(d)) BY <1>6, <1>t, <2>1, <2>3 DEF Id
  <2> QED BY <1>7, <2>2, <2>3 DEF Record
<1>8. CASE Mark(d)
  <2>1. pc[d] \in Sending BY <1>8 DEF Mark, Sending
  <2> QED BY <1>6, <1>8, <1>t, <2>1 DEF Id, Mark
<1>9. CASE Take(d)
  <2>1. pc[d] \in Sending /\ Id(d) \in Messages
    BY <1>9 DEF Take, TakeUpTo, Sending, TInv, BusyHasId
  <2>2. PICK n \in 0..Length[Id(d)] :
           \/ Advance(d, Loaded(Id(d), n), 0)
           \/ /\ pc' = [pc EXCEPT ![d] = "errorbox"]
              /\ job' = [job EXCEPT ![d] = Loaded(Id(d), n)]
    BY <1>9 DEF Take, TakeUpTo
  <2>3. Loaded(Id(d), n) \in JobType /\ Loaded(Id(d), n).id = Id(d)
    BY <2>1, LoadedType DEF Loaded, TInv
  <2>4. CASE Advance(d, Loaded(Id(d), n), 0)
    BY <1>6, <2>1, <2>3, <2>4
  <2>5. CASE job' = [job EXCEPT ![d] = Loaded(Id(d), n)]
    <3>1. job'[d].id = Id(d) BY <1>t, <2>3, <2>5
    <3> QED BY <2>1, <3>1 DEF Holds, Id
  <2> QED BY <2>2, <2>4, <2>5
<1> QED BY <1>1, <1>2, <1>3, <1>4, <1>5, <1>7, <1>8, <1>9 DEF Step

-----------------------------------------------------------------------------
(* Claims *)

\* A message that is being sent under a claim that has not lapsed is locked, or
\* has been deleted by its holder.
Claimed == \A d \in Daemons, m \in Messages :
    Holds(d, m) /\ m \notin overtaken => row[m] \in {"locked", "gone"}

CInv == TInv /\ Written /\ HeldWritten /\ Claimed /\ ClaimsExclude

LEMMA ClaimInit == Init => CInv
<1> SUFFICES ASSUME Init PROVE CInv OBVIOUS
<1>1. \A d \in Daemons, m \in Messages : ~Holds(d, m)
  BY DEF Init, Holds, Sending
<1> QED BY <1>1, TypeInit DEF Init, CInv, Written, HeldWritten, Claimed, ClaimsExclude

LEMMA ClaimPreserved == ASSUME CInv, [Next]_vars PROVE CInv'
<1> USE DEF CInv
<1>1. TInv' BY TypePreserved
<1>2. \A m \in Messages : Frame(m) BY FrameStep
<1>3. \A d \in Daemons, m \in Messages : Holds(d, m)' =>
         \/ Holds(d, m)
         \/ /\ row[m] = "free" /\ row'[m] = "locked" /\ overtaken' = overtaken
            /\ \A e \in Daemons : e # d /\ Holds(e, m)' => Holds(e, m)
  <2> SUFFICES ASSUME NEW d \in Daemons, NEW m \in Messages, Holds(d, m)', ~Holds(d, m)
               PROVE  /\ row[m] = "free" /\ row'[m] = "locked" /\ overtaken' = overtaken
                      /\ \A e \in Daemons : e # d /\ Holds(e, m)' => Holds(e, m)
    OBVIOUS
  <2>1. CASE UNCHANGED vars \/ \E x \in Messages : Create(x) \/ Expire(x) \/ Overtake(x)
    BY <2>1 DEF vars, local, Create, CreateUpTo, Expire, Overtake, Holds, Id
  <2>2. ASSUME NEW a \in Daemons, Step(a) \/ PhoneAnswers(a) \/ Crash(a)
        PROVE  /\ row[m] = "free" /\ row'[m] = "locked" /\ overtaken' = overtaken
               /\ \A e \in Daemons : e # d /\ Holds(e, m)' => Holds(e, m)
    <3>1. \A e \in Daemons : e # a => pc'[e] = pc[e] /\ job'[e] = job[e]
      BY <2>2, OnlyActor
    <3>2. a = d BY <3>1 DEF Holds, Id
    <3> QED BY <2>2, <3>1, <3>2, HoldStep DEF Holds, Id
  <2> QED BY <2>1, <2>2 DEF Next
<1>4. Written' BY <1>2 DEF Written, Frame
<1>5. HeldWritten' BY <1>2, <1>3 DEF HeldWritten, Frame
<1>6. Claimed'
  <2> SUFFICES ASSUME NEW d \in Daemons, NEW m \in Messages, Holds(d, m)', m \notin overtaken'
               PROVE  row'[m] \in {"locked", "gone"}
    BY DEF Claimed
  <2>1. Frame(m) /\ row'[m] \in RowState BY <1>1, <1>2 DEF TInv, TypeOK
  <2>2. CASE Holds(d, m)
    <3>1. row[m] \in {"locked", "gone"} /\ row[m] # "unwritten" /\ stored[m] # 0
      BY <2>1, <2>2 DEF Claimed, Frame, HeldWritten, Written
    <3>2. row'[m] # "free" /\ row'[m] # "unwritten"
      BY <2>1, <2>2, <3>1 DEF Frame
    <3> QED BY <2>1, <3>2 DEF RowState
  <2>3. CASE ~Holds(d, m) BY <1>3, <2>3
  <2> QED BY <2>2, <2>3
<1>7. ClaimsExclude'
  <2> SUFFICES ASSUME NEW m \in Messages, NEW d \in Daemons, NEW e \in Daemons,
                      Holds(d, m)', Holds(e, m)', d # e, m \notin overtaken'
               PROVE  FALSE
    BY DEF ClaimsExclude
  <2>1. m \notin overtaken BY <1>2 DEF Frame
  <2>2. Holds(d, m) \/ Holds(e, m) BY <1>3
  <2>3. ~(Holds(d, m) /\ Holds(e, m)) BY <2>1 DEF ClaimsExclude
  <2>4. row[m] # "free" BY <2>1, <2>2 DEF Claimed
  <2> QED BY <1>3, <2>2, <2>3, <2>4
<1> QED BY <1>1, <1>4, <1>5, <1>6, <1>7

\* Two daemons are never at the same message unless a claim lapsed under its
\* holder: the UPDATE of FindOutboxSMS and those of RefreshSendStatus and
\* UpdateRetries keep the claim until the holder lets go of it.
THEOREM ClaimsExcludeHolds == Spec => []ClaimsExclude
<1>1. Spec => []CInv
  BY ClaimInit, ClaimPreserved, PTL DEF Spec
<1> QED BY <1>1, PTL DEF CInv

-----------------------------------------------------------------------------
(***************************************************************************)
(* Records.  A message that leaves the outbox is recorded part by part,    *)
(* because a daemon at a message knows what is recorded already: the parts *)
(* it read as marked and those before the one it is at.                    *)
(***************************************************************************)
MarkedRecorded == \A m \in Messages : \A p \in marked[m] : Recorded(m, p)
MarkingRecorded == \A d \in Daemons : pc[d] = "mark" => Recorded(Id(d), At(d))

AtPart == {"send", "wait", "mark"}
Informed(d, m) ==
    /\ job[d].number = Length[m] /\ Parts(m) \subseteq Rows(m)
    /\ \A p \in job[d].skip : Recorded(m, p)
    /\ pc[d] \in AtPart => At(d) \in Parts(m) /\ \A p \in Parts(m) : p < At(d) => Recorded(m, p)
    /\ pc[d] = "move" => \A p \in Parts(m) : Recorded(m, p)
Knows(d) ==
    LET m == Id(d) IN
    pc[d] \in AtPart \cup {"move", "errorbox"} /\ m \notin spoiled /\ row[m] # "gone"
        => Informed(d, m)

NInv == CInv /\ MarkedRecorded /\ MarkingRecorded /\ (\A d \in Daemons : Knows(d)) /\ NothingVanishes

\* A row that is gone stays gone, and while a message is held its rows stay.
LEMMA FrameHeld ==
    ASSUME NEW m \in Messages, row \in [Messages -> RowState], row' \in [Messages -> RowState],
           Frame(m)
    PROVE  /\ row[m] = "gone" => row'[m] = "gone"
           /\ row[m] # "unwritten" /\ row'[m] # "gone" => Rows(m) \subseteq Rows(m)'
BY DEF Frame, Present, Rows, RowState

\* What a daemon knows stays true while it stays where it is.
LEMMA InformedStays ==
    ASSUME CInv, CInv', NEW d \in Daemons, NEW m \in Messages, Frame(m), Informed(d, m),
           Holds(d, m), row'[m] # "gone", job'[d] = job[d],
           pc'[d] = pc[d] \/ (pc[d] \in AtPart /\ pc'[d] \in AtPart)
    PROVE  Informed(d, m)'
<1>1. row \in [Messages -> RowState] /\ row' \in [Messages -> RowState] /\ row[m] # "unwritten"
      /\ job[d] \in JobType
  BY DEF CInv, TInv, TypeOK, HeldWritten
<1>2. Rows(m) \subseteq Rows(m)' BY <1>1, FrameHeld
<1>3. job[d].skip \subseteq Part /\ Parts(m) \subseteq Part BY <1>1, JobFacts, PartFacts
<1>4. \A p \in Part : Recorded(m, p) => Recorded(m, p)' BY DEF Frame
<1> QED BY <1>2, <1>3, <1>4 DEF Informed, At, Parts, AtPart

\* Where a daemon goes after part k of a message it is informed about.
LEMMA AdvanceInformed ==
    ASSUME TypeOK, NEW d \in Daemons, NEW m \in Messages, NEW j \in JobType, NEW k \in Nat,
           Advance(d, j, k), j.number = Length[m], Parts(m) \subseteq Rows(m)',
           \A p \in j.skip : Recorded(m, p)',
           \A p \in Parts(m) : p <= k => Recorded(m, p)'
    PROVE  Informed(d, m)'
<1>t. pc \in [Daemons -> PC] /\ job \in [Daemons -> JobType] BY DEF TypeOK
<1>n. Length[m] \in Nat /\ Parts(m) = 1..Length[m] BY PartFacts DEF Parts
<1>f. \A p \in Part \cup {0} : /\ [j EXCEPT !.part = p].part = p
                               /\ [j EXCEPT !.part = p].number = j.number
                               /\ [j EXCEPT !.part = p].skip = j.skip
  BY DEF JobType
<1>1. CASE /\ Todo(j, k) = {}
           /\ pc' = [pc EXCEPT ![d] = "move"]
           /\ job' = [job EXCEPT ![d] = [j EXCEPT !.part = 0]]
  <2>1. \A p \in Parts(m) : p <= k \/ p \in j.skip BY <1>1, <1>n DEF Todo
  <2>2. pc'[d] = "move" /\ job'[d].number = j.number /\ job'[d].skip = j.skip
    BY <1>1, <1>t, <1>f
  <2> QED BY <2>1, <2>2 DEF Informed, AtPart, Parts
<1>2. ASSUME NEW p \in Todo(j, k), \A q \in Todo(j, k) : p <= q,
             pc' = [pc EXCEPT ![d] = "send"],
             job' = [job EXCEPT ![d] = [j EXCEPT !.part = p]]
      PROVE  Informed(d, m)'
  <2>1. p \in Parts(m) BY <1>n DEF Todo
  <2>2. \A q \in Parts(m) : q < p => q <= k \/ q \in j.skip
    BY <1>2, <1>n, <2>1 DEF Todo
  <2>3. /\ pc'[d] = "send" /\ job'[d].part = p
        /\ job'[d].number = j.number /\ job'[d].skip = j.skip
    BY <1>2, <1>t, <1>f, <2>1, PartFacts
  <2> QED BY <2>1, <2>2, <2>3 DEF Informed, AtPart, At, Parts
<1> QED BY <1>1, <1>2 DEF Advance

LEMMA RecordInit == Init => NInv
<1> SUFFICES ASSUME Init PROVE NInv OBVIOUS
<1>1. CInv BY ClaimInit
<1>2. MarkedRecorded /\ MarkingRecorded /\ NothingVanishes
  BY DEF Init, MarkedRecorded, MarkingRecorded, NothingVanishes
<1>3. \A d \in Daemons : Knows(d) BY DEF Init, Knows, AtPart
<1> QED BY <1>1, <1>2, <1>3 DEF NInv

\* So a daemon that moves on with the job it has, or stays, knows what it must.
LEMMA KnowsStays ==
    ASSUME CInv, CInv', NEW d \in Daemons, \A m \in Messages : Frame(m), Knows(d),
           job'[d] = job[d],
           pc'[d] = pc[d] \/ (pc[d] \in AtPart /\ pc'[d] \in AtPart)
    PROVE  Knows(d)'
<1>a. pc'[d] \in AtPart \cup {"move", "errorbox"} =>
         /\ pc[d] \in AtPart \cup {"move", "errorbox"}
         /\ Id(d) \in Messages /\ Id(d)' = Id(d)
  BY DEF AtPart, CInv, TInv, BusyHasId, Id
<1> SUFFICES ASSUME NEW m \in Messages, m = Id(d), m = Id(d)',
                    pc[d] \in AtPart \cup {"move", "errorbox"},
                    m \notin spoiled', row'[m] # "gone"
             PROVE  Informed(d, m)'
  BY <1>a DEF Knows
<1>2. Holds(d, m) BY DEF Holds, Sending, AtPart
<1>3. Frame(m) /\ row \in [Messages -> RowState] /\ row' \in [Messages -> RowState]
  BY DEF CInv, TInv, TypeOK
<1>4. m \notin spoiled /\ row[m] # "gone"
  <2>1. row[m] = "gone" => row'[m] = "gone" BY <1>3, FrameHeld
  <2>2. m \in spoiled => m \in spoiled' BY <1>3 DEF Frame
  <2> QED BY <2>1, <2>2
<1>5. Informed(d, m) BY <1>4 DEF Knows
<1> QED BY <1>2, <1>3, <1>5, InformedStays

\* A message is deleted by a daemon that has sent it, buries it or failed.
LEMMA GoneStep ==
    ASSUME CInv, [Next]_vars, NEW m \in Messages, row[m] # "gone", row'[m] = "gone"
    PROVE  \E d \in Daemons : m = Id(d) /\ (MoveSMS(d) \/ ErrorBox(d) \/ m \in spoiled')
<1>t. row \in [Messages -> RowState] /\ (row[m] = "unwritten" \/ Present(m))
  BY DEF CInv, TInv, TypeOK, RowState, Present
<1>1. ASSUME NEW d \in Daemons, Step(d)
      PROVE  m = Id(d) /\ (MoveSMS(d) \/ ErrorBox(d) \/ m \in spoiled')
  <2>1. CASE \/ \E x \in Messages : Select(d, x)
             \/ Take(d) \/ ReadSMSCFails(d) \/ Submit(d) \/ SubmitFails(d)
             \/ Refused(d) \/ GiveUp(d) \/ Record(d) \/ Mark(d) \/ RecordFails(d) \/ LeaveFails(d)
    BY <2>1 DEF Select, Take, TakeUpTo, ReadSMSCFails, Submit, SubmitFails, Refused,
                GiveUp, Record, Mark, RecordFails, LeaveFails, outbox
  <2>2. CASE Lock(d) \/ Refresh(d) \/ UpdateRetries(d)
    BY <1>t, <2>2 DEF Lock, Refresh, UpdateRetries
  <2>3. ASSUME Delete(Id(d)) PROVE m = Id(d)
    BY <1>t, <2>3 DEF Delete
  <2>4. CASE MoveSMS(d) \/ ErrorBox(d)
    BY <2>3, <2>4 DEF MoveSMS, ErrorBox
  <2>5. CASE ErrorBoxFails(d) \/ OutboxError(d)
    BY <2>3, <2>5 DEF ErrorBoxFails, OutboxError
  <2> QED BY <1>1, <2>1, <2>2, <2>4, <2>5 DEF Step
<1>2. CASE UNCHANGED vars \/ \E d \in Daemons : PhoneAnswers(d) \/ Crash(d)
  BY <1>2 DEF vars, PhoneAnswers, Crash, outbox
<1>3. CASE \E x \in Messages : Create(x) \/ Expire(x) \/ Overtake(x)
  BY <1>t, <1>3 DEF Create, CreateUpTo, Expire, Overtake
<1> QED BY <1>1, <1>2, <1>3 DEF Next

\* Nothing vanishes: what MoveSMS deletes was recorded, and what was tried too
\* often is recorded when it is buried.
LEMMA VanishPreserved ==
    ASSUME NInv, [Next]_vars, \A m \in Messages : Frame(m) PROVE NothingVanishes'
<1> USE DEF NInv
<1> SUFFICES ASSUME NEW m \in Messages, row'[m] = "gone", m \notin spoiled', NEW p \in Parts(m)
             PROVE  Recorded(m, p)'
  BY DEF NothingVanishes, Recorded
<1>1. Frame(m) /\ p \in Part /\ m \notin spoiled BY PartFacts DEF Frame
<1>2. CASE row[m] = "gone"
  BY <1>1, <1>2 DEF NothingVanishes, Recorded, Frame
<1>3. CASE row[m] # "gone"
  <2>1. PICK d \in Daemons : m = Id(d) /\ (MoveSMS(d) \/ ErrorBox(d))
    BY <1>3, GoneStep
  <2>2. Informed(d, m)
    BY <1>1, <1>3, <2>1 DEF Knows, MoveSMS, ErrorBox
  <2>3. CASE MoveSMS(d)
    BY <1>1, <2>2, <2>3 DEF Informed, MoveSMS, Frame
  <2>4. CASE ErrorBox(d)
    <3>1. RecordAll(m, (1..job[d].number) \ job[d].skip, "SendingError")
      BY <2>1, <2>4 DEF ErrorBox
    <3>2. p \in job[d].skip \/ p \in ((1..job[d].number) \ job[d].skip) \cap Rows(m) \cap Part
      BY <1>1, <2>2 DEF Informed, Parts
    <3>3. p \in job[d].skip => Recorded(m, p) BY <2>2 DEF Informed
    <3>4. TypeOK /\ "SendingError" \in SentState \ {"none"} BY DEF CInv, TInv, SentState
    <3> QED BY <1>1, <3>1, <3>2, <3>3, <3>4, RecordKeeps
  <2> QED BY <2>1, <2>3, <2>4
<1> QED BY <1>2, <1>3

\* What is marked in the outbox is recorded, and what a daemon is about to mark.
LEMMA MarksPreserved ==
    ASSUME NInv, CInv', [Next]_vars, \A m \in Messages : Frame(m)
    PROVE  MarkedRecorded' /\ MarkingRecorded'
<1> USE DEF NInv
<1>t. /\ marked \in [Messages -> SUBSET Part] /\ job \in [Daemons -> JobType]
      /\ pc \in [Daemons -> PC] /\ TypeOK /\ TInv
  BY DEF CInv, TInv, TypeOK
<1>k. \A m \in Messages, p \in Part : Recorded(m, p) => Recorded(m, p)'
  BY DEF Frame
<1>1. MarkedRecorded'
  <2>1. CASE UNCHANGED marked
    BY <1>t, <1>k, <2>1 DEF MarkedRecorded
  <2>2. ASSUME NEW d \in Daemons, Mark(d) PROVE MarkedRecorded'
    <3>1. Id(d) \in Messages /\ At(d) \in Part /\ Recorded(Id(d), At(d))
      BY <1>t, <2>2 DEF Mark, TInv, BusyHasId, MarkingRecorded
    <3>2. \A m \in Messages : marked'[m] \subseteq marked[m]
             \/ (m = Id(d) /\ marked'[m] \subseteq marked[m] \cup {At(d)})
      BY <1>t, <2>2 DEF Mark
    <3> QED BY <1>t, <1>k, <3>1, <3>2 DEF MarkedRecorded
  <2>3. CASE \E d \in Daemons : Step(d) /\ ~Mark(d)
    BY <2>1, <2>3 DEF Step, Select, Lock, Take, TakeUpTo, OutboxError, ReadSMSCFails, Submit,
                      SubmitFails, Refresh, Refused, GiveUp, Record, RecordFails, UpdateRetries,
                      MoveSMS, LeaveFails, ErrorBox, ErrorBoxFails, outbox
  <2>4. CASE \/ UNCHANGED vars
             \/ \E d \in Daemons : PhoneAnswers(d) \/ Crash(d)
             \/ \E m \in Messages : Create(m) \/ Expire(m) \/ Overtake(m)
    BY <2>1, <2>4 DEF vars, PhoneAnswers, Crash, Create, CreateUpTo, Expire, Overtake, outbox
  <2> QED BY <2>2, <2>3, <2>4 DEF Next
<1>2. MarkingRecorded'
  <2> SUFFICES ASSUME NEW e \in Daemons, pc'[e] = "mark" PROVE Recorded(Id(e), At(e))'
    BY DEF MarkingRecorded
  <2>1. CASE pc[e] = "mark" /\ job'[e] = job[e]
    <3>1. Id(e) \in Messages /\ At(e) \in Part /\ Recorded(Id(e), At(e))
      BY <1>t, <2>1 DEF TInv, BusyHasId, MarkingRecorded
    <3>2. Id(e)' = Id(e) /\ At(e)' = At(e) BY <2>1 DEF Id, At
    <3> QED BY <1>k, <3>1, <3>2 DEF Recorded
  <2>2. CASE Record(e)
    <3>1. Id(e) \in Messages /\ At(e) \in Part /\ At(e) \in Nat /\ job[e] \in JobType
      BY <1>t, <2>2, PartFacts DEF Record, TInv, BusyHasId
    <3>2. ~Advance(e, job[e], At(e))
      BY <1>t, <3>1, AdvanceType
    <3>3. At(e) \in Rows(Id(e)) /\ UNCHANGED job
      BY <1>t, <2>2, <3>2 DEF Record, Goto
    <3>4. RecordAll(Id(e), {At(e)}, "SendingOK") BY <2>2 DEF Record
    <3>5. "SendingOK" \in SentState \ {"none"} BY DEF SentState
    <3>6. \A m \in Messages, p \in Part :
             m = Id(e) /\ p = At(e) => Recorded(m, p)'
      BY <1>t, <3>1, <3>3, <3>4, <3>5, RecordKeeps
    <3>7. Id(e)' = Id(e) /\ At(e)' = At(e) BY <3>3 DEF Id, At
    <3> QED BY <3>1, <3>6, <3>7 DEF Recorded
  <2>3. ASSUME NEW d \in Daemons, d # e, Step(d) \/ PhoneAnswers(d) \/ Crash(d)
        PROVE  pc[e] = "mark" /\ job'[e] = job[e]
    BY <1>t, <2>3, OnlyActor
  <2>4. CASE Step(e) /\ ~Record(e)
    <3>1. CASE \/ \E m \in Messages : Select(e, m)
               \/ Lock(e) \/ SubmitFails(e) \/ Submit(e) \/ Refused(e) \/ GiveUp(e)
               \/ RecordFails(e)
      BY <1>t, <3>1 DEF Select, Lock, SubmitFails, Submit, Refused, GiveUp, RecordFails, Goto
    <3>2. CASE \/ OutboxError(e) \/ ReadSMSCFails(e) \/ UpdateRetries(e) \/ MoveSMS(e)
               \/ LeaveFails(e) \/ ErrorBox(e) \/ ErrorBoxFails(e)
      <4>1. Return(e)
        BY <3>2 DEF OutboxError, ReadSMSCFails, UpdateRetries, MoveSMS, LeaveFails, ErrorBox,
                    ErrorBoxFails
      <4> QED BY <1>t, <4>1 DEF Return
    <3>3. CASE Refresh(e)
      BY <2>1, <3>3 DEF Refresh, local
    <3>4. CASE Mark(e)
      <4>1. Advance(e, job[e], At(e)) /\ job[e] \in JobType /\ At(e) \in Nat
        BY <1>t, <3>4, PartFacts DEF Mark, TInv, BusyHasId
      <4> QED BY <1>t, <4>1, AdvanceType
    <3>5. CASE Take(e)
      <4>1. Id(e) \in Messages BY <1>t, <3>5 DEF Take, TakeUpTo, TInv, BusyHasId
      <4>2. PICK n \in 0..Length[Id(e)] :
               Advance(e, Loaded(Id(e), n), 0) \/ pc' = [pc EXCEPT ![e] = "errorbox"]
        BY <3>5 DEF Take, TakeUpTo
      <4> QED BY <1>t, <4>1, <4>2, LoadedType, AdvanceType
    <3> QED BY <2>4, <3>1, <3>2, <3>3, <3>4, <3>5 DEF Step
  <2>5. CASE PhoneAnswers(e) BY <2>1, <2>5 DEF PhoneAnswers
  <2>6. CASE Crash(e) BY <1>t, <2>6 DEF Crash
  <2>7. CASE UNCHANGED vars \/ \E m \in Messages : Create(m) \/ Expire(m) \/ Overtake(m)
    BY <2>1, <2>7 DEF vars, Create, CreateUpTo, Expire, Overtake, local
  <2> QED BY <2>1, <2>2, <2>3, <2>4, <2>5, <2>6, <2>7 DEF Next
<1> QED BY <1>1, <1>2

\* Taking a message, a daemon learns what is recorded of it, unless it read the
\* message short.
LEMMA TakeKnows ==
    ASSUME NInv, CInv', \A m \in Messages : Frame(m), NEW d \in Daemons, Take(d)
    PROVE  Knows(d)'
<1> USE DEF NInv
<1>t. /\ TypeOK /\ job \in [Daemons -> JobType] /\ pc \in [Daemons -> PC]
      /\ marked \in [Messages -> SUBSET Part] /\ row \in [Messages -> RowState]
      /\ Id(d) \in Messages /\ pc[d] = "read"
  BY DEF CInv, TInv, TypeOK, BusyHasId, Take, TakeUpTo
<1>1. PICK n \in 0..Length[Id(d)] :
         /\ ReadsUpTo(Id(d), n)
         /\ \/ Advance(d, Loaded(Id(d), n), 0)
            \/ /\ pc' = [pc EXCEPT ![d] = "errorbox"]
               /\ job' = [job EXCEPT ![d] = Loaded(Id(d), n)]
         /\ spoiled' = spoiled \cup {x \in {Id(d)} : Present(Id(d)) /\ n < Length[Id(d)]}
  BY DEF Take, TakeUpTo
<1>2. PICK j \in JobType : j = Loaded(Id(d), n) BY <1>t, LoadedType
<1>3. job'[d].id = Id(d)
  <2>1. j.id = Id(d) BY <1>2 DEF Loaded
  <2>2. CASE Advance(d, j, 0) BY <1>t, <2>1, <2>2, AdvanceType
  <2>3. CASE job' = [job EXCEPT ![d] = j] BY <1>t, <2>1, <2>3
  <2> QED BY <1>1, <1>2, <2>2, <2>3
<1> SUFFICES ASSUME NEW m \in Messages, m = Id(d), m = Id(d)', m \notin spoiled', row'[m] # "gone"
             PROVE  Informed(d, m)'
  BY <1>t, <1>3 DEF Knows, Id
<1>4. UNCHANGED <<row, rest, sent>> BY DEF Take, TakeUpTo, outbox
<1>5. Present(m)
  BY <1>t, <1>4 DEF CInv, HeldWritten, Holds, Sending, Present, RowState
<1>6. n = Length[m] /\ n # 0 /\ 2..n \subseteq rest[m]
  <2>1. Length[m] \in Nat /\ n \in 0..Length[m] BY PartFacts
  <2>2. m \in {x \in {Id(d)} : Present(Id(d)) /\ n < Length[Id(d)]} => m \in spoiled'
    BY <1>1
  <2>3. ~(n < Length[m]) BY <1>5, <2>2
  <2>4. n > 0 /\ Readable(m, n) BY <1>1, <1>5 DEF ReadsUpTo
  <2> QED BY <2>1, <2>3, <2>4 DEF Readable
<1>7. Parts(m) \subseteq Rows(m)'
  <2>1. \A p \in Parts(m) : p = 1 \/ p \in 2..n BY <1>6, PartFacts DEF Parts
  <2> QED BY <1>4, <1>5, <1>6, <2>1 DEF Rows, Present
<1>8. j.number = Length[m] /\ \A p \in j.skip : Recorded(m, p)'
  <2>1. j.number = Length[m] /\ j.skip \subseteq marked[m]
    BY <1>2, <1>6 DEF Loaded
  <2> QED BY <1>4, <2>1 DEF MarkedRecorded, Recorded
<1>9. CASE Advance(d, j, 0)
  <2>1. \A p \in Parts(m) : ~(p <= 0) BY PartFacts DEF Parts
  <2> QED BY <1>t, <1>7, <1>8, <1>9, <2>1, AdvanceInformed
<1>10. CASE pc' = [pc EXCEPT ![d] = "errorbox"] /\ job' = [job EXCEPT ![d] = j]
  <2>1. pc'[d] = "errorbox" /\ job'[d] = j BY <1>t, <1>10
  <2> QED BY <1>7, <1>8, <2>1 DEF Informed, AtPart, Parts
<1> QED BY <1>1, <1>2, <1>9, <1>10

\* Sending a part and marking it, a daemon learns that it is recorded.
LEMMA SendKnows ==
    ASSUME NInv, CInv', \A m \in Messages : Frame(m), NEW d \in Daemons, Record(d) \/ Mark(d)
    PROVE  Knows(d)'
<1> USE DEF NInv
<1>t. /\ TypeOK /\ job \in [Daemons -> JobType] /\ pc \in [Daemons -> PC]
      /\ Id(d) \in Messages /\ At(d) \in Part /\ At(d) \in Nat /\ job[d] \in JobType
      /\ pc[d] \in {"wait", "mark"} /\ UNCHANGED row
  BY PartFacts DEF CInv, TInv, TypeOK, BusyHasId, Record, Mark, outbox
<1>1. CASE UNCHANGED job /\ pc'[d] \in {"failed", "mark"}
  BY <1>1, <1>t, KnowsStays DEF Knows, AtPart
<1>2. CASE Advance(d, job[d], At(d))
  <2>1. job'[d].id = Id(d) BY <1>2, <1>t, AdvanceType DEF Id
  <2> SUFFICES ASSUME NEW m \in Messages, m = Id(d), m = Id(d)', m \notin spoiled', row'[m] # "gone"
               PROVE  Informed(d, m)'
    BY <1>t, <2>1 DEF Knows, Id
  <2>2. Frame(m) /\ m \notin spoiled /\ row[m] # "gone" BY <1>t DEF Frame
  <2>3. Informed(d, m) BY <1>t, <2>2 DEF Knows, AtPart
  <2>4. /\ job[d].number = Length[m] /\ Parts(m) \subseteq Rows(m)
        /\ \A p \in job[d].skip : Recorded(m, p)
        /\ At(d) \in Parts(m) /\ \A p \in Parts(m) : p < At(d) => Recorded(m, p)
    BY <1>t, <2>3 DEF Informed, AtPart
  <2>5. Parts(m) \subseteq Rows(m)'
    BY <1>t, <2>4 DEF Record, Mark, outbox, Rows, Present
  <2>6. \A p \in Part : Recorded(m, p) => Recorded(m, p)' BY <2>2 DEF Frame
  <2>7. \A p \in job[d].skip : Recorded(m, p)' BY <1>t, <2>4, <2>6, JobFacts
  <2>8. \A p \in Part : p = At(d) => Recorded(m, p)'
    <3>1. CASE Mark(d)
      BY <1>t, <2>6, <3>1 DEF Mark, MarkingRecorded
    <3>2. CASE Record(d)
      <4>1. RecordAll(m, {At(d)}, "SendingOK") /\ "SendingOK" \in SentState \ {"none"}
        BY <3>2 DEF Record, SentState
      <4> QED BY <1>t, <2>4, <4>1, RecordKeeps
    <3> QED BY <3>1, <3>2
  <2>9. \A p \in Parts(m) : p <= At(d) => Recorded(m, p)'
    <3> SUFFICES ASSUME NEW p \in Parts(m), p <= At(d) PROVE Recorded(m, p)' OBVIOUS
    <3>1. p \in Part /\ p \in Nat BY PartFacts
    <3>2. CASE p = At(d) BY <2>8, <3>1, <3>2
    <3>3. CASE p < At(d) BY <2>4, <2>6, <3>1, <3>3
    <3> QED BY <1>t, <3>1, <3>2, <3>3
  <2> QED BY <1>t, <1>2, <2>4, <2>5, <2>7, <2>9, AdvanceInformed
<1> QED BY <1>t, <1>1, <1>2 DEF Record, Mark, Goto

\* Whatever is done, and by whom, daemons know what is recorded.
LEMMA KnowsPreserved ==
    ASSUME NInv, CInv', [Next]_vars, \A m \in Messages : Frame(m), NEW e \in Daemons
    PROVE  Knows(e)'
<1> USE DEF NInv
<1>t. pc \in [Daemons -> PC] /\ job \in [Daemons -> JobType] /\ TInv
  BY DEF CInv, TInv, TypeOK
<1>1. CASE pc'[e] = pc[e] /\ job'[e] = job[e]
  BY <1>1, KnowsStays
<1>2. CASE pc'[e] \in {"idle", "lock", "read", "failed"}
  BY <1>2 DEF Knows, AtPart
<1>3. ASSUME NEW d \in Daemons, d # e, Step(d) \/ PhoneAnswers(d) \/ Crash(d)
      PROVE  Knows(e)'
  BY <1>1, <1>3, <1>t, OnlyActor
<1>4. CASE Step(e)
  <2>1. CASE \/ \E m \in Messages : Select(e, m)
             \/ Lock(e) \/ SubmitFails(e) \/ Refused(e) \/ GiveUp(e) \/ RecordFails(e)
    <3>1. pc'[e] \in {"idle", "lock", "read", "failed"}
      BY <1>t, <2>1 DEF Select, Lock, SubmitFails, Refused, GiveUp, RecordFails, Goto
    <3> QED BY <1>2, <3>1
  <2>2. CASE \/ OutboxError(e) \/ ReadSMSCFails(e) \/ UpdateRetries(e) \/ MoveSMS(e)
             \/ LeaveFails(e) \/ ErrorBox(e) \/ ErrorBoxFails(e)
    <3>1. Return(e)
      BY <2>2 DEF OutboxError, ReadSMSCFails, UpdateRetries, MoveSMS, LeaveFails, ErrorBox,
                  ErrorBoxFails
    <3> QED BY <1>t, <1>2, <3>1 DEF Return
  <2>3. CASE Submit(e)
    <3>1. /\ job'[e] = job[e] /\ pc[e] \in AtPart /\ pc'[e] \in AtPart
      BY <1>t, <2>3 DEF Submit, Goto, AtPart
    <3> QED BY <3>1, KnowsStays
  <2>4. CASE Refresh(e) BY <1>1, <2>4 DEF Refresh, local
  <2>5. CASE Take(e) BY <2>5, TakeKnows
  <2>6. CASE Record(e) \/ Mark(e) BY <2>6, SendKnows
  <2> QED BY <1>4, <2>1, <2>2, <2>3, <2>4, <2>5, <2>6 DEF Step
<1>5. CASE PhoneAnswers(e) BY <1>1, <1>5 DEF PhoneAnswers
<1>6. CASE Crash(e) BY <1>2, <1>6, <1>t DEF Crash
<1>7. CASE UNCHANGED vars \/ \E m \in Messages : Create(m) \/ Expire(m) \/ Overtake(m)
  BY <1>1, <1>7 DEF vars, Create, CreateUpTo, Expire, Overtake, local
<1> QED BY <1>3, <1>4, <1>5, <1>6, <1>7 DEF Next

LEMMA RecordPreserved == ASSUME NInv, [Next]_vars PROVE NInv'
<1>1. CInv' BY ClaimPreserved DEF NInv
<1>2. \A m \in Messages : Frame(m) BY FrameStep DEF NInv, CInv
<1>3. MarkedRecorded' /\ MarkingRecorded' BY <1>1, <1>2, MarksPreserved
<1>4. \A d \in Daemons : Knows(d)' BY <1>1, <1>2, KnowsPreserved
<1>5. NothingVanishes' BY <1>2, VanishPreserved
<1> QED BY <1>1, <1>3, <1>4, <1>5 DEF NInv

\* A message leaves the outbox only when sentitems has an entry for each of its
\* parts, whichever daemons MoveSMS and ErrorBox deletes it from and whatever
\* ended or failed before: what is lost was read short or hit by an outbox error.
THEOREM NothingVanishesHolds == Spec => []NothingVanishes
<1>1. Spec => []NInv
  BY RecordInit, RecordPreserved, PTL DEF Spec
<1> QED BY <1>1, PTL DEF NInv
=============================================================================
