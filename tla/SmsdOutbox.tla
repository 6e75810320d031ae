----------------------------- MODULE SmsdOutbox -----------------------------
(***************************************************************************)
(* The sending half of Gammu's SMS daemon with an SQL backend:             *)
(* SMSD_SendSMS (smsd/core.c) over FindOutboxSMS, RefreshSendStatus,       *)
(* AddSentSMSInfo, UpdateRetries and MoveSMS (smsd/services/sql.c), for    *)
(* daemons that share one database and have a phone each.                  *)
(*                                                                         *)
(* An outbox row is claimed by moving its SendingTimeOut into the future;  *)
(* here the row is "free" or "locked", and Expire and Overtake let that    *)
(* time pass.  A fault is an outage of the database (a query that fails    *)
(* after its reconnections) or a failed reading of the phone's SMSC.       *)
(***************************************************************************)
EXTENDS Integers, Sequences

CONSTANTS
    Daemons,       \* the running gammu-smsd processes
    Messages,      \* the messages that may be put into the outbox
    Length,        \* how many parts each of them has
    MaxRetries,    \* the option MaxRetries
    NoMessage,     \* SMSID of a daemon that has not looked at the outbox yet
    MaxMishaps     \* bound: how many crashes, faults and lapsed claims there are

ASSUME LengthAssumption == Length \in [Messages -> Nat \ {0}]
ASSUME RetriesAssumption == MaxRetries \in Nat
ASSUME NoMessageAssumption == NoMessage \notin Messages
ASSUME MishapsAssumption == MaxMishaps \in Nat

VARIABLES
    stored,     \* how many of a message's rows its author has inserted
    row,        \* the outbox row, which is also the row of part 1
    rest,       \* the parts that have a row in outbox_multipart
    retries,    \* outbox.Retries
    marked,     \* the parts whose Status says SendingOK
    sent,       \* sentitems: the Status recorded for each part
    pc,         \* where each daemon is in SMSD_SendSMS
    job,        \* its SMSID and what it has read of that message
    status,     \* its SendingSMSStatus
    smsc,       \* its SMSCCache
    phone,      \* the parts its phone was handed and has not answered for
    mishaps,    \* how many crashes, faults and lapsed claims there have been
    overtaken,  \* history: the messages whose claim lapsed under its holder
    givenUp,    \* history: whether a submission was given up unanswered
    attempts,   \* history: how often a message was taken for sending
    air,        \* history: how often a part went on air
    spoiled     \* history: the messages read short or hit by an outbox error

outbox == <<stored, row, rest, retries, marked>>
local == <<pc, job, status, smsc>>
seen == <<overtaken, givenUp, attempts, air, spoiled>>
vars == <<outbox, sent, local, phone, mishaps, seen>>

Part == UNION {1..Length[m] : m \in Messages}
Parts(m) == 1..Length[m]
RowState == {"unwritten", "free", "locked", "gone"}
SentState == {"none", "SendingOK", "SendingError", "Error"}
Sending == {"read", "send", "wait", "mark", "failed", "move", "errorbox"}
PC == {"idle", "lock"} \cup Sending

Idle(id) == [id |-> id, number |-> 0, skip |-> {}, retries |-> 0, part |-> 0]
JobType == [id : Messages \cup {NoMessage}, number : Part \cup {0},
            skip : SUBSET Part, retries : Nat, part : Part \cup {0}]

Init ==
    /\ stored = [m \in Messages |-> 0]
    /\ row = [m \in Messages |-> "unwritten"]
    /\ rest = [m \in Messages |-> {}]
    /\ retries = [m \in Messages |-> 0]
    /\ marked = [m \in Messages |-> {}]
    /\ sent = [m \in Messages |-> [p \in Part |-> "none"]]
    /\ pc = [d \in Daemons |-> "idle"]
    /\ job = [d \in Daemons |-> Idle(NoMessage)]
    /\ status = [d \in Daemons |-> "timeout"]
    /\ smsc = [d \in Daemons |-> "unread"]
    /\ phone = [d \in Daemons |-> <<>>]
    /\ mishaps = 0
    /\ overtaken = {}
    /\ givenUp = FALSE
    /\ attempts = [m \in Messages |-> 0]
    /\ air = [m \in Messages |-> [p \in Part |-> 0]]
    /\ spoiled = {}

Goto(d, from, to) == pc[d] = from /\ pc' = [pc EXCEPT ![d] = to]
Id(d) == job[d].id
At(d) == job[d].part
Holds(d, m) == pc[d] \in Sending /\ Id(d) = m
Present(m) == row[m] \in {"free", "locked"}
\* The parts of m that have a row.
Rows(m) == (IF Present(m) THEN {1} ELSE {}) \cup rest[m]
\* Back in the main loop; SMSID keeps the id of the last message.
Return(d) ==
    /\ pc' = [pc EXCEPT ![d] = "idle"]
    /\ job' = [job EXCEPT ![d] = Idle(Id(d))]
Mishap == mishaps < MaxMishaps /\ mishaps' = mishaps + 1
Delete(m) ==
    /\ row' = [row EXCEPT ![m] = IF Present(m) THEN "gone" ELSE @]
    /\ rest' = [rest EXCEPT ![m] = {}]
\* INSERT INTO sentitems for the parts P of m that have a row to read; a part
\* already there is refused by the primary key.
RecordAll(m, P, st) ==
    sent' = [sent EXCEPT ![m] = [p \in Part |->
        IF p \in P \cap Rows(m) /\ @[p] = "none" THEN st ELSE @[p]]]

(***************************************************************************)
(* CreateOutboxSMS inserts row by row, each committed: first the outbox    *)
(* row, which a daemon may take at once, then the other parts.             *)
(***************************************************************************)
CreateUpTo(m, n) ==
    /\ stored[m] < n
    /\ stored' = [stored EXCEPT ![m] = @ + 1]
    /\ IF stored[m] = 0
         THEN row' = [row EXCEPT ![m] = "free"] /\ UNCHANGED rest
         ELSE rest' = [rest EXCEPT ![m] = @ \cup {stored[m] + 1}] /\ UNCHANGED row
    /\ UNCHANGED <<retries, marked, sent, local, phone, mishaps, seen>>

\* Mutant: one row too many.
CreateOneMore(m) == CreateUpTo(m, Length[m] + 1)

Create(m) == CreateUpTo(m, Length[m])

(***************************************************************************)
(* FindOutboxSMS.  SMSID is set from the SELECT, before the row is claimed *)
(* by an UPDATE that only matches a free one; a daemon that lost the race  *)
(* selects again.                                                          *)
(***************************************************************************)
Select(d, m) ==
    /\ Goto(d, "idle", "lock") /\ row[m] = "free"
    /\ job' = [job EXCEPT ![d] = Idle(m)]
    /\ UNCHANGED <<outbox, sent, status, smsc, phone, mishaps, seen>>

\* Mutant: the UPDATE matches the id alone.
LockAnyRow(d) ==
    /\ Goto(d, "lock", "read")
    /\ row' = [row EXCEPT ![Id(d)] = IF Present(Id(d)) THEN "locked" ELSE @]
    /\ UNCHANGED <<stored, rest, retries, marked, sent, job, status, smsc, phone, mishaps, seen>>

Lock(d) ==
    /\ \/ /\ Goto(d, "lock", "read") /\ row[Id(d)] = "free"
          /\ row' = [row EXCEPT ![Id(d)] = "locked"]
       \/ /\ Goto(d, "lock", "idle") /\ row[Id(d)] # "free"
          /\ UNCHANGED row
    /\ UNCHANGED <<stored, rest, retries, marked, sent, job, status, smsc, phone, mishaps, seen>>

\* The part to send after part k, and where the daemon goes for it.
Todo(j, k) == {p \in (k + 1)..j.number : p \notin j.skip}
Advance(d, j, k) ==
    \/ /\ Todo(j, k) = {}
       /\ pc' = [pc EXCEPT ![d] = "move"]
       /\ job' = [job EXCEPT ![d] = [j EXCEPT !.part = 0]]
    \/ \E p \in Todo(j, k) :
       /\ \A q \in Todo(j, k) : p <= q
       /\ pc' = [pc EXCEPT ![d] = "send"]
       /\ job' = [job EXCEPT ![d] = [j EXCEPT !.part = p]]

\* The first n parts can be read; reading stops at the first one missing.
Readable(m, n) == n = 0 \/ (Present(m) /\ n \in Parts(m) /\ 2..n \subseteq rest[m])
ReadsUpTo(m, n) ==
    \/ ~Present(m) /\ n = 0
    \/ Present(m) /\ n > 0 /\ Readable(m, n) /\ n + 1 \notin rest[m]
Loaded(m, n) ==
    [id |-> m, number |-> n, skip |-> marked[m] \cap 1..n,
     retries |-> retries[m] + 1, part |-> 0]

TakeUpTo(d, tries) ==
    LET m == Id(d) IN
    /\ pc[d] = "read"
    /\ \E n \in 0..Length[m] :
       /\ ReadsUpTo(m, n)
       /\ \/ /\ retries[m] <= tries
             /\ Advance(d, Loaded(m, n), 0)
             /\ attempts' = [attempts EXCEPT ![m] = IF Present(m) THEN @ + 1 ELSE @]
          \/ /\ retries[m] > tries
             /\ pc' = [pc EXCEPT ![d] = "errorbox"]
             /\ job' = [job EXCEPT ![d] = Loaded(m, n)]
             /\ UNCHANGED attempts
       /\ spoiled' = spoiled \cup {x \in {m} : Present(m) /\ n < Length[m]}
    /\ UNCHANGED <<outbox, sent, status, smsc, phone, mishaps, overtaken, givenUp, air>>

\* Mutant: sending goes on one try too long.
TakeOnceMore(d) == TakeUpTo(d, MaxRetries + 1)

\* The message is read, then sent or, when it was tried too often, buried.
Take(d) == TakeUpTo(d, MaxRetries)

(***************************************************************************)
(* A SELECT of FindOutboxSMS fails.  SMSD_SendSMS records an error for the *)
(* parts read so far and deletes SMSID from the outbox; when it was the    *)
(* first SELECT, sms.Number has not been set and SMSID still names the     *)
(* message of an earlier round.  The outage may last or be over by then.   *)
(***************************************************************************)
OutboxError(d) ==
    /\ \/ /\ pc[d] = "idle" /\ Id(d) # NoMessage
          /\ \E n \in Part \cup {0} : RecordAll(Id(d), 1..n, "Error")
       \/ /\ pc[d] = "read"
          /\ \E n \in 0..Length[Id(d)] :
                /\ Readable(Id(d), n) /\ (Length[Id(d)] = 1 => n = 0)
                /\ RecordAll(Id(d), 1..n, "Error")
    /\ Mishap
    /\ Return(d)
    /\ \/ Delete(Id(d)) \/ UNCHANGED <<row, rest>>
    /\ spoiled' = spoiled \cup {Id(d)}
    /\ UNCHANGED <<stored, retries, marked, status, smsc, phone,
                   overtaken, givenUp, attempts, air>>

(***************************************************************************)
(* Sending a part.  The SMSC is read from the phone once and cached.       *)
(* SMSCCache.Location is set before the reading: when that fails, the      *)
(* round ends without UpdateRetries, and from then on the empty entry is   *)
(* used, with which GSM_SendSMS refuses every message.                     *)
(***************************************************************************)
ReadSMSCFails(d) ==
    /\ pc[d] = "send" /\ smsc[d] = "unread"
    /\ Mishap
    /\ smsc' = [smsc EXCEPT ![d] = "blank"]
    /\ Return(d)
    /\ UNCHANGED <<outbox, sent, status, phone, seen>>

Submit(d) ==
    /\ Goto(d, "send", "wait") /\ smsc[d] # "blank"
    /\ smsc' = [smsc EXCEPT ![d] = "read"]
    /\ status' = [status EXCEPT ![d] = "timeout"]
    /\ phone' = [phone EXCEPT ![d] = Append(@, <<Id(d), At(d)>>)]
    /\ UNCHANGED <<outbox, sent, job, mishaps, seen>>

\* Mutant: the error ends the loop as if all parts were sent.
SubmitFailsUnseen(d) ==
    /\ Goto(d, "send", "move")
    /\ smsc' = [smsc EXCEPT ![d] = IF @ = "unread" THEN "read" ELSE @]
    /\ UNCHANGED <<outbox, sent, job, status, phone, mishaps, seen>>

\* GSM_SendSMS returns an error and the phone was handed nothing.
SubmitFails(d) ==
    /\ Goto(d, "send", "failed")
    /\ smsc' = [smsc EXCEPT ![d] = IF @ = "unread" THEN "read" ELSE @]
    /\ UNCHANGED <<outbox, sent, job, status, phone, mishaps, seen>>

(***************************************************************************)
(* The phone works on the parts it was handed in turn: each goes on air or *)
(* not, and the daemon is told, which may fail.  SMSD_SendSMSStatusCallback*)
(* takes whatever report comes for the part it is waiting for.             *)
(***************************************************************************)
PhoneAnswers(d) ==
    /\ phone[d] # <<>>
    /\ phone' = [phone EXCEPT ![d] = Tail(@)]
    /\ LET m == Head(phone[d])[1]
           p == Head(phone[d])[2] IN
       \E ok \in BOOLEAN, told \in BOOLEAN :
          /\ air' = [air EXCEPT ![m][p] = IF ok THEN @ + 1 ELSE @]
          /\ status' = [status EXCEPT ![d] =
                IF told /\ pc[d] = "wait" THEN (IF ok THEN "ok" ELSE "error") ELSE @]
    /\ UNCHANGED <<outbox, sent, pc, job, smsc, mishaps, overtaken, givenUp, attempts, spoiled>>

\* RefreshSendStatus while waiting: a claim that has lapsed is taken again,
\* unless another daemon has done so.
Refresh(d) ==
    /\ pc[d] = "wait" /\ row[Id(d)] = "free"
    /\ row' = [row EXCEPT ![Id(d)] = "locked"]
    /\ UNCHANGED <<stored, rest, retries, marked, sent, local, phone, mishaps, seen>>

Refused(d) ==
    /\ Goto(d, "wait", "failed") /\ status[d] = "error"
    /\ UNCHANGED <<outbox, sent, job, status, smsc, phone, mishaps, seen>>

\* SendTimeout seconds without a report, or a shutdown while waiting.
GiveUp(d) ==
    /\ Goto(d, "wait", "failed") /\ status[d] = "timeout"
    /\ givenUp' = TRUE
    /\ UNCHANGED <<outbox, sent, job, status, smsc, phone, mishaps, overtaken, attempts, air, spoiled>>

(***************************************************************************)
(* Reported as sent.  AddSentSMSInfo(SMSD_SEND_OK): the part's row is read again (when it is  *)
(* gone there is nothing to record), the part is inserted into sentitems,  *)
(* and a part of a longer message is marked so that it is not sent again.  *)
(***************************************************************************)
Record(d) ==
    LET m == Id(d)
        p == At(d) IN
    /\ pc[d] = "wait" /\ status[d] = "ok"
    /\ RecordAll(m, {p}, "SendingOK")
    /\ \/ p \notin Rows(m) /\ Advance(d, job[d], p)
       \/ p \in Rows(m) /\ sent[m][p] # "none" /\ Goto(d, "wait", "failed") /\ UNCHANGED job
       \/ /\ p \in Rows(m) /\ sent[m][p] = "none"
          /\ \/ job[d].number # 1 /\ Goto(d, "wait", "mark") /\ UNCHANGED job
             \/ job[d].number = 1 /\ Advance(d, job[d], p)
    /\ UNCHANGED <<outbox, status, smsc, phone, mishaps, seen>>

\* Mutant: the part is not marked.
MarkNothing(d) ==
    /\ pc[d] = "mark" /\ Advance(d, job[d], At(d))
    /\ UNCHANGED <<outbox, sent, status, smsc, phone, mishaps, seen>>

Mark(d) ==
    /\ pc[d] = "mark" /\ Advance(d, job[d], At(d))
    /\ marked' = [marked EXCEPT ![Id(d)] = @ \cup ({At(d)} \cap Rows(Id(d)))]
    /\ UNCHANGED <<stored, row, rest, retries, sent, status, smsc, phone, mishaps, seen>>

\* The database fails in either query.
RecordFails(d) ==
    /\ pc[d] = "mark" \/ (pc[d] = "wait" /\ status[d] = "ok")
    /\ pc' = [pc EXCEPT ![d] = "failed"]
    /\ Mishap
    /\ UNCHANGED <<outbox, sent, job, status, smsc, phone, seen>>

(***************************************************************************)
(* UpdateRetries: the next try waits for RetryTimeout.                     *)
(***************************************************************************)
UpdateRetries(d) ==
    LET m == Id(d) IN
    /\ pc[d] = "failed"
    /\ row' = [row EXCEPT ![m] = IF Present(m) THEN "locked" ELSE @]
    /\ retries' = [retries EXCEPT ![m] = IF Present(m) THEN job[d].retries ELSE @]
    /\ Return(d)
    /\ UNCHANGED <<stored, rest, marked, sent, status, smsc, phone, mishaps, seen>>

\* All parts are sent: MoveSMS deletes the message, and is called once more if
\* it fails.
MoveSMS(d) ==
    /\ pc[d] = "move"
    /\ Delete(Id(d))
    /\ Return(d)
    /\ UNCHANGED <<stored, retries, marked, sent, status, smsc, phone, mishaps, seen>>

\* The query of UpdateRetries or both calls of MoveSMS fail: the message stays
\* as it is until its claim lapses.
LeaveFails(d) ==
    /\ pc[d] \in {"failed", "move"}
    /\ Mishap
    /\ Return(d)
    /\ UNCHANGED <<outbox, sent, status, smsc, phone, seen>>

\* Tried too often: the parts that were never marked are recorded as failed.
\* Mutant: and the message stays in the outbox.
ErrorBoxKeeps(d) ==
    /\ pc[d] = "errorbox"
    /\ RecordAll(Id(d), (1..job[d].number) \ job[d].skip, "SendingError")
    /\ Return(d)
    /\ UNCHANGED <<outbox, status, smsc, phone, mishaps, seen>>

ErrorBox(d) ==
    LET m == Id(d) IN
    /\ pc[d] = "errorbox"
    /\ RecordAll(m, (1..job[d].number) \ job[d].skip, "SendingError")
    /\ Delete(m)
    /\ Return(d)
    /\ UNCHANGED <<stored, retries, marked, status, smsc, phone, mishaps, seen>>

\* The errors of these calls are not looked at.
ErrorBoxFails(d) ==
    LET m == Id(d) IN
    /\ pc[d] = "errorbox"
    /\ Mishap
    /\ \/ /\ RecordAll(m, (1..job[d].number) \ job[d].skip, "SendingError")
          /\ UNCHANGED <<row, rest, spoiled>>
       \/ /\ \E n \in Part \cup {0} : RecordAll(m, (1..n) \ job[d].skip, "SendingError")
          /\ Delete(m)
          /\ spoiled' = spoiled \cup {m}
    /\ Return(d)
    /\ UNCHANGED <<stored, retries, marked, status, smsc, phone,
                   overtaken, givenUp, attempts, air>>

-----------------------------------------------------------------------------
(* Time, and daemons that die *)

Expire(m) ==
    /\ row[m] = "locked" /\ \A d \in Daemons : ~Holds(d, m)
    /\ row' = [row EXCEPT ![m] = "free"]
    /\ UNCHANGED <<stored, rest, retries, marked, sent, local, phone, mishaps, seen>>

\* The claim lapses while a daemon is still at it: the parts and the programs
\* of RunOn* may take longer than the claim is made for.
Overtake(m) ==
    /\ row[m] = "locked" /\ \E d \in Daemons : Holds(d, m)
    /\ Mishap
    /\ overtaken' = overtaken \cup {m}
    /\ row' = [row EXCEPT ![m] = "free"]
    /\ UNCHANGED <<stored, rest, retries, marked, sent, local, phone,
                   givenUp, attempts, air, spoiled>>

\* The process ends and is started again; its phone goes on.
Crash(d) ==
    /\ pc[d] # "idle" /\ Mishap
    /\ pc' = [pc EXCEPT ![d] = "idle"]
    /\ job' = [job EXCEPT ![d] = Idle(NoMessage)]
    /\ status' = [status EXCEPT ![d] = "timeout"]
    /\ smsc' = [smsc EXCEPT ![d] = "unread"]
    /\ UNCHANGED <<outbox, sent, phone, seen>>

Step(d) ==
    \/ \E m \in Messages : Select(d, m)
    \/ Lock(d) \/ Take(d) \/ OutboxError(d)
    \/ ReadSMSCFails(d) \/ Submit(d) \/ SubmitFails(d)
    \/ Refresh(d) \/ Refused(d) \/ GiveUp(d)
    \/ Record(d) \/ Mark(d) \/ RecordFails(d)
    \/ UpdateRetries(d) \/ MoveSMS(d) \/ LeaveFails(d)
    \/ ErrorBox(d) \/ ErrorBoxFails(d)

Next ==
    \/ \E d \in Daemons : Step(d) \/ PhoneAnswers(d) \/ Crash(d)
    \/ \E m \in Messages : Create(m) \/ Expire(m) \/ Overtake(m)

Spec == Init /\ [][Next]_vars

\* The daemons' main loops turn, and claims lapse.  Nothing is assumed of
\* authors and phones: they may stop in the middle of a message.
FairSpec ==
    /\ Spec
    /\ \A d \in Daemons : WF_vars(Step(d))
    /\ \A m \in Messages : WF_vars(Expire(m))

-----------------------------------------------------------------------------
(* Properties *)

TypeOK ==
    /\ stored \in [Messages -> Part \cup {0}]
    /\ row \in [Messages -> RowState]
    /\ rest \in [Messages -> SUBSET Part]
    /\ retries \in [Messages -> Nat]
    /\ marked \in [Messages -> SUBSET Part]
    /\ sent \in [Messages -> [Part -> SentState]]
    /\ pc \in [Daemons -> PC]
    /\ job \in [Daemons -> JobType]
    /\ status \in [Daemons -> {"timeout", "ok", "error"}]
    /\ smsc \in [Daemons -> {"unread", "read", "blank"}]
    /\ phone \in [Daemons -> Seq(Messages \X Part)]
    /\ mishaps \in 0..MaxMishaps
    /\ overtaken \in SUBSET Messages
    /\ givenUp \in BOOLEAN
    /\ attempts \in [Messages -> Nat]
    /\ air \in [Messages -> [Part -> Nat]]
    /\ spoiled \in SUBSET Messages

\* The claim on an outbox row keeps two daemons from sending the same message
\* at once, as long as it does not lapse under its holder.
ClaimsExclude ==
    \A m \in Messages : \A d, e \in Daemons :
        Holds(d, m) /\ Holds(e, m) /\ d # e => m \in overtaken

\* A message that has left the outbox is accounted for in sentitems, part by
\* part, whatever daemons died or raced on the way: only an outbox error, or an
\* author who had not stored all parts when the message was taken, loses one.
NothingVanishes ==
    \A m \in Messages : row[m] = "gone" /\ m \notin spoiled =>
        \A p \in Parts(m) : sent[m][p] # "none"

\* "How many times will SMSD try to resend message if sending fails"
\* (docs/manual/smsd/config.rst:186): MaxRetries retries, and one more for each
\* daemon that died, each failed access and each claim that lapsed.
TriesAreBounded ==
    \A m \in Messages :
        attempts[m] <= MaxRetries + 1 + mishaps

\* A part goes on air twice only if something came between its sending and the
\* mark that keeps it from being sent again.
OnAirTwiceHasACause ==
    \A m \in Messages : \A p \in Parts(m) :
        air[m][p] > 1 => givenUp \/ mishaps > 0

\* Every message leaves the outbox, though phones may stay silent, daemons die
\* and the database fail now and then.
EveryMessageLeaves == \A m \in Messages : Present(m) ~> row[m] = "gone"

\* "Message has been sent" (docs/manual/smsd/tables.rst:352): a part recorded as
\* SendingOK has been on air, or is at least still in a phone's hands.  Violated
\* when the report of a submission that was given up arrives while the daemon
\* waits for the next one, which the phone then refuses.
RecordedOKWasSent ==
    \A m \in Messages : \A p \in Parts(m) : sent[m][p] = "SendingOK" =>
        \/ air[m][p] > 0
        \/ \E d \in Daemons : \E i \in DOMAIN phone[d] : phone[d][i] = <<m, p>>
=============================================================================
