------------------------------ MODULE SmsCredit ------------------------------
(***************************************************************************)
(* Wallets credited from the bank's SMS alerts: process_incoming_sms of    *)
(* utils/sms_processor/sms_processor.py, run by poll_sms_loop and by the   *)
(* timers of handlers/fund_wallet.py, which read one phone.                *)
(*                                                                         *)
(* The phone is external.  It keeps an SMS at a location that is free for  *)
(* another once it is deleted; whether it shows an SMS as read from the    *)
(* first reading on depends on the phone.                                  *)
(***************************************************************************)
EXTENDS Integers

CONSTANTS
    Processors,   \* the poller and the timers that run process_incoming_sms
    Messages,     \* the SMS that may reach the phone
    Amounted,     \* those in whose text extract_amount_from_text finds an amount
    Users,        \* the users who have a wallet
    Owner,        \* whom an SMS credits; nobody if it matches no user
    NoUser,
    NoMessage,    \* what an empty location holds
    NoCopy,       \* an object the session has not loaded, or has expired
    Locations,    \* how many SMS the phone has room for
    Opening,      \* CentralAccount.balance at the start; each SMS is over the amount 1
    MaxAborts     \* bound: how often the phone, the database or a process fails

ASSUME OwnerAssumption == Owner \in [Messages -> Users \cup {NoUser}]
ASSUME AmountedAssumption == Amounted \subseteq Messages
ASSUME NamesAssumption == NoUser \notin Users /\ NoMessage \notin Messages /\ NoCopy \notin Int
ASSUME SizesAssumption == Locations \in Nat /\ Opening \in Nat /\ MaxAborts \in Nat

VARIABLES
    marks,      \* whether the phone shows an SMS as read once it was read
    inContext,  \* the processors whose thread has a Flask application context
    broken,     \* those whose session failed and was never rolled back
    arrived,    \* the SMS that reached the phone
    box,        \* the SMS at each location
    read,       \* the SMS the phone shows as read
    pc,         \* where each processor is
    at,         \* the location it read last
    cur,        \* msg, as it was read there
    holder,     \* whose wallet its variable wallet is
    wcopy,      \* that wallet's balance as the session loaded it
    ccopy,      \* the central balance as the session loaded it
    wallet,     \* Wallet.balance of each user
    central,    \* CentralAccount.balance
    credited,   \* how many PaymentTransaction rows each SMS has
    discarded,  \* history: the SMS that were turned down
    missed,     \* history: the SMS a run was at when it ended in the middle
    gone,       \* history: the SMS that were deleted
    aborts      \* how often the phone, the database or a process failed

phone == <<arrived, box, read, gone>>
session == <<holder, wcopy, ccopy>>
database == <<wallet, central, credited>>
vars == <<marks, inContext, broken, phone, pc, at, cur, session, database, discarded, missed, aborts>>

Location == 1..Locations
PC == {"idle", "next", "match", "wallet", "central", "commit", "delete"}
Undecided == {"match", "wallet", "central", "commit"}
Goto(p, from, to) == pc[p] = from /\ pc' = [pc EXCEPT ![p] = to]

Init ==
    /\ marks \in BOOLEAN
    /\ inContext \in SUBSET Processors \ {{}}
    /\ broken = {}
    /\ arrived = {} /\ read = {} /\ gone = {} /\ discarded = {} /\ missed = {}
    /\ box = [l \in Location |-> NoMessage]
    /\ pc = [p \in Processors |-> "idle"]
    /\ at = [p \in Processors |-> 0]
    /\ cur = [p \in Processors |-> NoMessage]
    /\ holder = [p \in Processors |-> NoUser]
    /\ wcopy = [p \in Processors |-> NoCopy]
    /\ ccopy = [p \in Processors |-> NoCopy]
    /\ wallet = [u \in Users |-> 0]
    /\ central = Opening
    /\ credited = [m \in Messages |-> 0]
    /\ aborts = 0

Arrive(m) ==
    /\ m \notin arrived
    /\ arrived' = arrived \cup {m}
    /\ \E l \in Location : box[l] = NoMessage /\ box' = [box EXCEPT ![l] = m]
    /\ UNCHANGED <<marks, inContext, broken, read, gone, pc, at, cur, session, database, discarded, missed, aborts>>

-----------------------------------------------------------------------------
(* process_incoming_sms *)

\* Objects are gone with the function that referred to them.
Leave(p) ==
    /\ pc' = [pc EXCEPT ![p] = "idle"]
    /\ at' = [at EXCEPT ![p] = 0]
    /\ cur' = [cur EXCEPT ![p] = NoMessage]
    /\ holder' = [holder EXCEPT ![p] = NoUser]
    /\ wcopy' = [wcopy EXCEPT ![p] = NoCopy]
    /\ ccopy' = [ccopy EXCEPT ![p] = NoCopy]

Begin(p) ==
    /\ Goto(p, "idle", "next")
    /\ UNCHANGED <<marks, inContext, broken, phone, at, cur, session, database, discarded, missed, aborts>>

Ahead(p) == {l \in Location : l > at[p] /\ box[l] # NoMessage}

Look(p, passedOver) ==
    /\ pc[p] = "next"
    /\ \E l \in Ahead(p) :
       /\ \A k \in Ahead(p) : l <= k
       /\ at' = [at EXCEPT ![p] = l]
       /\ IF box[l] \in passedOver
            THEN UNCHANGED <<pc, cur, read>>
            ELSE /\ pc' = [pc EXCEPT ![p] = "match"]
                 /\ cur' = [cur EXCEPT ![p] = box[l]]
                 /\ read' = IF marks THEN read \cup {box[l]} ELSE read
    /\ UNCHANGED <<marks, inContext, broken, arrived, box, gone, session, database, discarded, missed, aborts>>

\* Mutant: without the test of msg['State'].
GetAnyNext(p) == Look(p, {})

\* GetNextSMS; what is not 'UnRead' is passed over.
GetNext(p) == Look(p, read)

EndRound(p) ==
    /\ pc[p] = "next" /\ Ahead(p) = {}
    /\ Leave(p)
    /\ UNCHANGED <<marks, inContext, broken, phone, database, discarded, missed, aborts>>

TurnDown(p) == discarded' = discarded \cup {cur[p]}

\* No query of the session is possible in the thread of a timer, which has no
\* application context, or after a failure without a rollback; an SMS without an
\* amount does not come to one.
Usable == inContext \ broken
Matchable(p) == p \in Usable \/ cur[p] \notin Amounted
Credits(p) == cur[p] \in Amounted /\ Owner[cur[p]] # NoUser

\* Mutant: an SMS that credits nobody is passed over and stays in the phone.
MatchKeeps(p) ==
    /\ Matchable(p)
    /\ \/ Goto(p, "match", "wallet") /\ Credits(p)
       \/ Goto(p, "match", "next") /\ ~Credits(p)
    /\ UNCHANGED <<marks, inContext, broken, phone, at, cur, session, database, discarded, missed, aborts>>

\* The amount and the user are looked up.
Match(p) ==
    /\ Matchable(p)
    /\ \/ Goto(p, "match", "wallet") /\ Credits(p) /\ UNCHANGED discarded
       \/ Goto(p, "match", "delete") /\ ~Credits(p) /\ TurnDown(p)
    /\ UNCHANGED <<marks, inContext, broken, phone, at, cur, session, database, missed, aborts>>

\* User.query raises RuntimeError or PendingRollbackError, which ends the run.
QueryRaises(p) ==
    /\ pc[p] = "match" /\ ~Matchable(p)
    /\ missed' = missed \cup {cur[p]}
    /\ Leave(p)
    /\ UNCHANGED <<marks, inContext, broken, phone, database, discarded, aborts>>

\* A query returns the object that variable wallet refers to, as it was loaded,
\* if that is the row; only a commit or another user's wallet replaces it.
LoadWallet(p) ==
    LET u == Owner[cur[p]] IN
    /\ Goto(p, "wallet", "central")
    /\ IF holder[p] = u /\ wcopy[p] # NoCopy
         THEN UNCHANGED <<holder, wcopy>>
         ELSE /\ holder' = [holder EXCEPT ![p] = u]
              /\ wcopy' = [wcopy EXCEPT ![p] = wallet[u]]
    /\ UNCHANGED <<marks, inContext, broken, phone, at, cur, ccopy, database, discarded, missed, aborts>>

\* Mutant: the central balance is not looked at.
LoadCentralUnchecked(p) ==
    /\ Goto(p, "central", "commit")
    /\ ccopy' = [ccopy EXCEPT ![p] = IF @ = NoCopy THEN central ELSE @]
    /\ UNCHANGED <<marks, inContext, broken, phone, at, cur, holder, wcopy, database, discarded, missed, aborts>>

\* The same for the one central account, which must cover the amount.
LoadCentral(p) ==
    LET c == IF ccopy[p] = NoCopy THEN central ELSE ccopy[p] IN
    /\ ccopy' = [ccopy EXCEPT ![p] = c]
    /\ \/ Goto(p, "central", "commit") /\ c >= 1 /\ UNCHANGED discarded
       \/ Goto(p, "central", "delete") /\ c < 1 /\ TurnDown(p)
    /\ UNCHANGED <<marks, inContext, broken, phone, at, cur, holder, wcopy, database, missed, aborts>>

\* Both balances are written back as computed from the loaded ones, with the
\* PaymentTransaction row.
Write(p) ==
    /\ wallet' = [wallet EXCEPT ![holder[p]] = wcopy[p] + 1]
    /\ central' = ccopy[p] - 1
    /\ credited' = [credited EXCEPT ![cur[p]] = @ + 1]

\* The commit expires what was loaded.  send_sms, whose errors are caught, changes
\* nothing here.
Commit(p) ==
    /\ Goto(p, "commit", "delete")
    /\ Write(p)
    /\ wcopy' = [wcopy EXCEPT ![p] = NoCopy]
    /\ ccopy' = [ccopy EXCEPT ![p] = NoCopy]
    /\ UNCHANGED <<marks, inContext, broken, phone, at, cur, holder, discarded, missed, aborts>>

\* mark_sms_processed deletes whatever is at the location now; DeleteSMS raises
\* if there is nothing, and the round is over.
Delete(p) ==
    LET l == at[p] IN
    \/ /\ Goto(p, "delete", "next") /\ box[l] # NoMessage
       /\ box' = [box EXCEPT ![l] = NoMessage]
       /\ gone' = gone \cup {box[l]}
       /\ cur' = [cur EXCEPT ![p] = NoMessage]
       /\ UNCHANGED <<marks, inContext, broken, arrived, read, at, session, database, discarded, missed, aborts>>
    \/ /\ pc[p] = "delete" /\ box[l] = NoMessage
       /\ Leave(p)
       /\ UNCHANGED <<marks, inContext, broken, phone, database, discarded, missed, aborts>>

-----------------------------------------------------------------------------
(* Runs that end in the middle *)

Mishap == aborts < MaxAborts /\ aborts' = aborts + 1

BreakOff(p) ==
    /\ missed' = missed \cup (IF pc[p] \in Undecided THEN {cur[p]} ELSE {})
    /\ Leave(p)

\* A call to the phone raises; poll_sms_loop goes on with a new round.
PhoneFails(p) ==
    /\ pc[p] \in {"next", "delete"}
    /\ Mishap /\ BreakOff(p)
    /\ UNCHANGED <<marks, inContext, broken, phone, database, discarded>>

\* A query or the commit raises.  poll_sms_loop prints the error and keeps the
\* session, which refuses to work before a rollback that nobody asks for; only if
\* the first query got no connection is there nothing to roll back.  The answer
\* to a commit may be lost when it was carried out.
DatabaseFails(p) ==
    /\ pc[p] \in Undecided /\ cur[p] \in Amounted /\ p \in Usable
    /\ Mishap /\ BreakOff(p)
    /\ \/ broken' = broken \cup {p}
       \/ pc[p] = "match" /\ UNCHANGED broken
    /\ \/ UNCHANGED database
       \/ pc[p] = "commit" /\ Write(p)
    /\ UNCHANGED <<marks, inContext, phone, discarded>>

\* The process ends and is started again by hand, or another timer takes a timer's
\* place: either comes with a new session.
Restart(p) ==
    /\ \/ p \in broken /\ UNCHANGED aborts
       \/ pc[p] # "idle" /\ Mishap
    /\ BreakOff(p)
    /\ broken' = broken \ {p}
    /\ UNCHANGED <<marks, inContext, phone, database, discarded>>

Step(p) ==
    \/ Begin(p) \/ GetNext(p) \/ EndRound(p) \/ Match(p) \/ QueryRaises(p)
    \/ LoadWallet(p) \/ LoadCentral(p) \/ Commit(p) \/ Delete(p)

Next ==
    \/ \E m \in Messages : Arrive(m)
    \/ \E p \in Processors : Step(p) \/ PhoneFails(p) \/ DatabaseFails(p) \/ Restart(p)

Spec == Init /\ [][Next]_vars

\* poll_sms_loop never stops, and a timer that has fired runs on.
FairSpec == Spec /\ \A p \in Processors : WF_vars(Step(p))

-----------------------------------------------------------------------------
(* Properties *)

TypeOK ==
    /\ marks \in BOOLEAN /\ inContext \in SUBSET Processors
    /\ broken \in SUBSET inContext
    /\ arrived \subseteq Messages /\ read \subseteq arrived /\ gone \subseteq arrived
    /\ discarded \subseteq arrived /\ missed \subseteq arrived
    /\ box \in [Location -> Messages \cup {NoMessage}]
    /\ pc \in [Processors -> PC]
    /\ at \in [Processors -> 0..Locations]
    /\ cur \in [Processors -> Messages \cup {NoMessage}]
    /\ holder \in [Processors -> Users \cup {NoUser}]
    /\ wcopy \in [Processors -> Nat \cup {NoCopy}]
    /\ ccopy \in [Processors -> Nat \cup {NoCopy}]
    /\ wallet \in [Users -> Nat]
    /\ central \in Nat
    /\ credited \in [Messages -> Nat]
    /\ aborts \in 0..MaxAborts

\* Nothing in the database keeps an SMS from being credited again: only the
\* phone does, by showing what was read as read.  Then one SMS is one credit,
\* whichever processors read it and wherever they stop.
MarkedIsCreditedOnce == marks => \A m \in Messages : credited[m] <= 1

\* With such a phone an SMS is deleted only after it was credited or turned
\* down, although DeleteSMS is told a location that may hold another by then.
MarkedIsNotDeletedUnseen ==
    marks => \A m \in gone : credited[m] > 0 \/ m \in discarded

\* An SMS the phone receives is credited or turned down in the end, for as long
\* as one processor's session works: no failure of one keeps the others from it.
\* Where the phone marks what was read there is one way to be left out, to be the
\* SMS a run was at when it broke off, as every run of a timer or of a broken
\* session does.  Where it does not, another run may delete the SMS by its
\* location, and once all sessions are broken nothing is credited any more.
EverySMSIsHandled ==
    \A m \in Messages :
        m \in arrived ~> \/ credited[m] > 0 \/ m \in discarded
                         \/ IF marks THEN m \in missed ELSE m \in gone \/ Usable = {}
=============================================================================
