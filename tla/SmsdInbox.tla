------------------------------ MODULE SmsdInbox ------------------------------
(***************************************************************************)
(* The receiving half of Gammu's SMS daemon with an SQL backend:           *)
(* SMSD_CheckSMSStatus, SMSD_ReadDeleteSMS, SMSD_CheckMultipart and        *)
(* SMSD_ProcessSMS (smsd/core.c) over GSM_LinkSMS (gsmmulti.c) and         *)
(* SaveInboxSMS (smsd/services/sql.c).                                     *)
(*                                                                         *)
(* Messages of different senders may carry the same UDH id.  Messages of   *)
(* one sender are taken to have different ids, and no part to be delivered *)
(* to the phone twice.  Status reports, which touch neither the inbox nor  *)
(* what is below, and the RunOnReceive program are left out.               *)
(***************************************************************************)
EXTENDS Integers, FiniteSets

CONSTANTS
    Messages,    \* the messages people may send to the phone
    Length,      \* how many parts each of them has; one means no UDH
    UdhId,       \* the id of its UDH
    Excluded,    \* the messages SMSD_ValidMessage turns down
    HasStatus,   \* whether the phone tells how many messages it holds
    NoId,        \* IncompleteMessageID when no message is waited for (-1)
    MaxMishaps   \* bound: how many crashes, failures and outside deletions

ASSUME LengthAssumption == Length \in [Messages -> Nat \ {0}]
ASSUME ExcludedAssumption == Excluded \subseteq Messages
ASSUME IdAssumption == \A m \in Messages : UdhId[m] # NoId
ASSUME StatusAssumption == HasStatus \in BOOLEAN
ASSUME MishapsAssumption == MaxMishaps \in Nat

VARIABLES
    arrived,   \* the parts the network has delivered to the phone
    memory,    \* the parts in the phone's memory
    location,  \* where the phone keeps, or kept, each part
    inbox,     \* how many rows of the inbox table hold each part
    pc,        \* where the daemon is in SMSD_ReadDeleteSMS
    todo,      \* SortedSMS: the linked parts still to be looked at
    group,     \* the linked parts being saved or deleted
    left,      \* those of them whose turn has not come
    ignored,   \* IgnoredMessages
    waiting,   \* IncompleteMessageID
    clock,     \* IncompleteMessageTime: zero, set, or set long ago
    mishaps,   \* how many crashes, failures and outside deletions there have been
    removed    \* history: the parts deleted from the phone by someone else

daemon == <<pc, todo, group, left, ignored, waiting, clock>>
vars == <<arrived, memory, location, inbox, daemon, mishaps, removed>>

Part == UNION {{<<m, p>> : p \in 1..Length[m]} : m \in Messages}
PC == {"idle", "read", "process", "save", "delete"}
Of(x) == x[1]
Valid == {x \in Part : Of(x) \notin Excluded}

Mishap == mishaps < MaxMishaps /\ mishaps' = mishaps + 1
\* SMSD_ReadDeleteSMS returns; what was not looked at is read again later.
Return == pc' = "idle" /\ todo' = {} /\ group' = {} /\ left' = {}

Init ==
    /\ arrived = {} /\ memory = {} /\ removed = {}
    /\ location = [x \in Part |-> x]
    /\ inbox = [x \in Part |-> 0]
    /\ pc = "idle" /\ todo = {} /\ group = {} /\ left = {}
    /\ ignored = 0 /\ waiting = NoId /\ clock = "zero"
    /\ mishaps = 0

-----------------------------------------------------------------------------
(* The phone *)

\* The parts that were read and are still to be deleted at their Location.
Held == (UNION todo) \cup (IF pc = "save" THEN group ELSE left)

(***************************************************************************)
(* A part is kept at a free location.  All that matters is whether it is   *)
(* one the daemon is yet to delete at; any other is as good as one of the  *)
(* part's own, for which the part's name stands.                           *)
(***************************************************************************)
Arrive(x) ==
    /\ x \notin arrived
    /\ \E l \in {x} \cup {location[y] : y \in Held} :
       /\ \A y \in memory : location[y] # l
       /\ location' = [location EXCEPT ![x] = l]
    /\ arrived' = arrived \cup {x}
    /\ memory' = memory \cup {x}
    /\ UNCHANGED <<inbox, daemon, mishaps, removed>>

\* Someone deletes a part with the phone's own menu or another program.
OwnerDeletes(x) ==
    /\ x \in memory
    /\ Mishap
    /\ memory' = memory \ {x}
    /\ removed' = removed \cup {x}
    /\ UNCHANGED <<arrived, location, inbox, daemon>>

-----------------------------------------------------------------------------
(* Reading *)

\* SMSD_CheckSMSStatus: the messages turned down in the last round are not news.
NewMessage ==
    IF HasStatus THEN Cardinality(memory) - ignored > 0 ELSE memory # {}

\* Mutant: the count of ignored messages is never reset.
PollKeepsCount ==
    /\ pc = "idle" /\ NewMessage
    /\ pc' = "read"
    /\ group' = memory
    /\ UNCHANGED <<arrived, memory, location, inbox, todo, left, ignored, waiting, clock, mishaps, removed>>

\* While it is being read, group holds what was there when reading began.
Poll ==
    /\ pc = "idle" /\ NewMessage
    /\ pc' = "read"
    /\ ignored' = 0
    /\ group' = memory
    /\ UNCHANGED <<arrived, memory, location, inbox, todo, left, waiting, clock, mishaps, removed>>

(***************************************************************************)
(* GSM_LinkSMS starts from a part 1 and adds parts as long as the next one *)
(* is there; the parts after a gap stay alone.                             *)
(***************************************************************************)
Linked(R, x) == {<<Of(x), q>> : q \in 1..x[2]} \subseteq R
Chain(R, m) == {x \in R : Of(x) = m /\ Linked(R, x)}
Link(R) ==
    ({Chain(R, m) : m \in Messages} \ {{}}) \cup {{x} : x \in {y \in R : ~Linked(R, y)}}

\* Parts that arrive while the memory is read may be read or be missed.
Read ==
    /\ pc = "read"
    /\ \E R \in SUBSET memory :
       /\ group \cap memory \subseteq R
       /\ ignored' = ignored + Cardinality(R \ Valid)
       /\ todo' = Link(R \cap Valid)
    /\ pc' = "process" /\ group' = {}
    /\ UNCHANGED <<arrived, memory, location, inbox, left, waiting, clock, mishaps, removed>>

\* GSM_GetNextSMS fails.
ReadFails ==
    /\ pc = "read" /\ Mishap
    /\ \E n \in 0..Cardinality(memory \ Valid) : ignored' = ignored + n
    /\ Return
    /\ UNCHANGED <<arrived, memory, location, inbox, waiting, clock, removed>>

-----------------------------------------------------------------------------
(* Processing the linked parts one by one *)

MessageOf(g) == Of(CHOOSE x \in g : TRUE)
Multipart(g) == Length[MessageOf(g)] # 1
IsHead(g) == Multipart(g) /\ <<MessageOf(g), 1>> \in g
IsTail(g) == Multipart(g) /\ <<MessageOf(g), 1>> \notin g
\* Parts without their head come after all heads; otherwise the order is that
\* of the phone's memory.
Turn(g) == g \in todo /\ (IsTail(g) => \A h \in todo : ~IsHead(h))

SameId(g) == waiting # NoId /\ waiting = UdhId[MessageOf(g)]
Complete(g) == Multipart(g) => Cardinality(g) = Length[MessageOf(g)]
Accept(g) ==
    /\ pc = "process" /\ Turn(g)
    /\ pc' = "save" /\ group' = g /\ left' = g
    /\ todo' = todo \ {g}

\* Mutant: "Clean multipart wait flag" is left to the branch of the timeout.
ProcessUncleaned(g) ==
    /\ Accept(g)
    /\ Complete(g) \/ (SameId(g) /\ clock = "elapsed")
    /\ IF Multipart(g) /\ SameId(g) /\ clock = "elapsed"
         THEN waiting' = NoId /\ clock' = "zero"
         ELSE UNCHANGED <<waiting, clock>>
    /\ UNCHANGED <<arrived, memory, location, inbox, ignored, mishaps, removed>>

\* Mutant: the id is forgotten and the time is not.
ProcessHalfCleaned(g) ==
    /\ Accept(g)
    /\ Complete(g) \/ (SameId(g) /\ clock = "elapsed")
    /\ waiting' = IF Multipart(g) /\ SameId(g) THEN NoId ELSE waiting
    /\ UNCHANGED <<arrived, memory, location, inbox, ignored, clock, mishaps, removed>>

\* SMSD_CheckMultipart says yes: the message has all its parts, or the time to
\* wait for them is over.
Process(g) ==
    /\ Accept(g)
    /\ Complete(g) \/ (SameId(g) /\ clock = "elapsed")
    /\ IF Multipart(g) /\ SameId(g)
         THEN waiting' = NoId /\ clock' = "zero"
         ELSE UNCHANGED <<waiting, clock>>
    /\ UNCHANGED <<arrived, memory, location, inbox, ignored, mishaps, removed>>

\* SMSD_CheckMultipart says no, and if no message is waited for yet, this one
\* is from now on.
Skip(g) ==
    /\ pc = "process" /\ Turn(g)
    /\ ~Complete(g)
    /\ \/ SameId(g) /\ clock # "elapsed" /\ UNCHANGED <<waiting, clock>>
       \/ /\ ~SameId(g) /\ clock = "zero"
          /\ waiting' = UdhId[MessageOf(g)] /\ clock' = "set"
       \/ ~SameId(g) /\ clock # "zero" /\ UNCHANGED <<waiting, clock>>
    /\ todo' = todo \ {g}
    /\ UNCHANGED <<arrived, memory, location, inbox, pc, group, left, ignored, mishaps, removed>>

\* The parts of a message are saved, and then deleted, in their order.
Foremost(x) == x \in left /\ \A y \in left : x[2] <= y[2]
Insert(x) == inbox' = [inbox EXCEPT ![x] = @ + 1]

\* SaveInboxSMS inserts the parts in turn, each INSERT committed by itself.
Save(x) ==
    /\ pc = "save" /\ Foremost(x)
    /\ Insert(x)
    /\ IF left = {x} THEN pc' = "delete" /\ left' = group
                    ELSE pc' = pc /\ left' = left \ {x}
    /\ UNCHANGED <<arrived, memory, location, todo, group, ignored, waiting, clock, mishaps, removed>>

\* The answer to an INSERT is lost; it is tried once more.
AnswerLost(x) ==
    /\ pc = "save" /\ Foremost(x) /\ Mishap
    /\ Insert(x)
    /\ UNCHANGED <<arrived, memory, location, daemon, removed>>

\* Mutant: the error of SaveInboxSMS is only logged.
SaveFailsUnseen(x) ==
    /\ pc = "save" /\ Foremost(x) /\ Mishap
    /\ Insert(x) \/ UNCHANGED inbox
    /\ pc' = "delete" /\ left' = group
    /\ UNCHANGED <<arrived, memory, location, todo, group, ignored, waiting, clock, removed>>

\* The INSERT fails for good, or a query after it does.
SaveFails(x) ==
    /\ pc = "save" /\ Foremost(x) /\ Mishap
    /\ Insert(x) \/ UNCHANGED inbox
    /\ Return
    /\ UNCHANGED <<arrived, memory, location, ignored, waiting, clock, removed>>

\* GSM_DeleteSMS reads and then deletes what is at sms->Location now, which need
\* not be the part that was read there.
DeleteAt(l) == memory' = {y \in memory : location[y] # l}

\* Mutant: only the first of the linked parts is deleted.
DeleteFirst(x) ==
    /\ pc = "delete" /\ Foremost(x)
    /\ DeleteAt(location[x])
    /\ pc' = "process" /\ group' = {} /\ left' = {}
    /\ UNCHANGED <<arrived, location, inbox, todo, ignored, waiting, clock, mishaps, removed>>

\* GSM_DeleteSMS for each part; an empty location is no error.
Delete(x) ==
    /\ pc = "delete" /\ Foremost(x)
    /\ DeleteAt(location[x])
    /\ IF left = {x} THEN pc' = "process" /\ group' = {} /\ left' = {}
                    ELSE pc' = pc /\ group' = group /\ left' = left \ {x}
    /\ UNCHANGED <<arrived, location, inbox, todo, ignored, waiting, clock, mishaps, removed>>

\* An error other than ERR_EMPTY; the deletion may have been done all the same.
DeleteFails(x) ==
    /\ pc = "delete" /\ Foremost(x) /\ Mishap
    /\ DeleteAt(location[x]) \/ UNCHANGED memory
    /\ Return
    /\ UNCHANGED <<arrived, location, inbox, ignored, waiting, clock, removed>>

EndRound ==
    /\ pc = "process" /\ todo = {}
    /\ Return
    /\ UNCHANGED <<arrived, memory, location, inbox, ignored, waiting, clock, mishaps, removed>>

-----------------------------------------------------------------------------
(* Time, and a daemon that dies *)

\* MultipartTimeout seconds have passed since IncompleteMessageTime.
Elapse ==
    /\ clock = "set" /\ clock' = "elapsed"
    /\ UNCHANGED <<arrived, memory, location, inbox, pc, todo, group, left, ignored, waiting, mishaps, removed>>

\* The process ends and is started again with a fresh configuration.
Crash ==
    /\ Mishap
    /\ Return
    /\ ignored' = 0 /\ waiting' = NoId /\ clock' = "zero"
    /\ UNCHANGED <<arrived, memory, location, inbox, removed>>

Step ==
    \/ Poll \/ Read \/ ReadFails
    \/ \E g \in todo : Process(g) \/ Skip(g)
    \/ \E x \in left : Save(x) \/ AnswerLost(x) \/ SaveFails(x) \/ Delete(x) \/ DeleteFails(x)
    \/ EndRound

Next ==
    \/ \E x \in Part : Arrive(x) \/ OwnerDeletes(x)
    \/ Step \/ Elapse \/ Crash

Spec == Init /\ [][Next]_vars

\* The main loop turns and time passes; nothing is assumed of the network.
FairSpec == Spec /\ WF_vars(Step) /\ WF_vars(Elapse)

-----------------------------------------------------------------------------
(* Properties *)

TypeOK ==
    /\ arrived \in SUBSET Part /\ removed \in SUBSET Part
    /\ memory \in SUBSET Part /\ location \in [Part -> Part]
    /\ inbox \in [Part -> Nat]
    /\ pc \in PC
    /\ todo \in SUBSET (SUBSET Part)
    /\ group \in SUBSET Part /\ left \in SUBSET group
    /\ ignored \in Nat
    /\ waiting \in {UdhId[m] : m \in Messages} \cup {NoId}
    /\ clock \in {"zero", "set", "elapsed"}
    /\ (clock = "zero") <=> (waiting = NoId)
    /\ mishaps \in 0..MaxMishaps

\* A part leaves the phone only into the inbox, whatever fails or dies between
\* the insertion of its rows and the deletions, unless its owner deletes it.  The
\* one exception is what the code does: a part that arrived at a location where
\* the owner had deleted one that the daemon has read is deleted in its stead,
\* unsaved.
NothingLost ==
    \A x \in arrived :
        \/ x \in memory \/ inbox[x] > 0 \/ x \in removed
        \/ \E y \in removed : y # x /\ location[y] = location[x]

\* Rows are committed one by one and deletions come last, so a round that breaks
\* off saves its parts again; but each time at the cost of one failure.
SavedAgainOnlyByMishap == \A x \in Part : inbox[x] <= 1 + mishaps

\* The daemon waits for one incomplete message at a time, and all others wait
\* behind it: what it waits for is a message the phone still has parts of.
\* Only deletions by others can leave it waiting for one that is gone, until
\* it is restarted.
AwaitedIsPresent ==
    waiting # NoId =>
        \E x \in memory \cup removed :
            Length[Of(x)] # 1 /\ UdhId[Of(x)] = waiting

\* Every part that reaches the phone ends up in the inbox, with its message or
\* after the time to wait for the others, unless parts are deleted by others.
EveryPartIsSaved ==
    \A x \in Valid : x \in memory ~> inbox[x] > 0 \/ removed # {}
=============================================================================
