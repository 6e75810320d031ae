--------------------------- MODULE SmsCreditProofs ---------------------------
(***************************************************************************)
(* Proofs about the credits from SMS alerts for any number of processors,  *)
(* SMS, users, locations and interrupted runs: the state keeps its types,  *)
(* the central balance among them never negative, and with a phone that    *)
(* marks what was read an SMS is credited at most once and never deleted   *)
(* unless it was credited or turned down.                                  *)
(***************************************************************************)
EXTENDS SmsCredit, TLAPS

Busy == {"match", "wallet", "central", "commit", "delete"}

\* What a processor has loaded when it comes to use it.
SessionInv ==
    \A p \in Processors :
        /\ pc[p] \in Busy => cur[p] \in arrived /\ at[p] \in Location
        /\ pc[p] \in {"wallet", "central", "commit"} => Owner[cur[p]] # NoUser
        /\ pc[p] \in {"central", "commit"} => holder[p] \in Users /\ wcopy[p] \in Nat
        /\ pc[p] = "commit" => ccopy[p] \in Nat /\ ccopy[p] >= 1

\* An SMS is at one location, until it is deleted.
BoxInv ==
    /\ \A l \in Location : box[l] # NoMessage => box[l] \in arrived /\ box[l] \notin gone
    /\ \A l, k \in Location : box[l] = box[k] /\ box[l] # NoMessage => l = k

\* Where reading marks, an SMS is in the hands of one processor, and stays at
\* the location it was read from until that processor deletes it.
HandsInv ==
    marks => \A p \in Processors : pc[p] \in Busy =>
        /\ cur[p] \in read /\ box[at[p]] = cur[p]
        /\ \A q \in Processors : pc[q] \in Busy /\ cur[q] = cur[p] => q = p

\* A credit was given by the processor that read the SMS, once.
CreditInv ==
    marks =>
        /\ \A m \in Messages : credited[m] > 0 => m \in read
        /\ \A p \in Processors :
              /\ pc[p] \in Undecided => credited[cur[p]] = 0
              /\ pc[p] = "delete" => credited[cur[p]] > 0 \/ cur[p] \in discarded

IInv ==
    /\ TypeOK /\ SessionInv /\ BoxInv /\ HandsInv /\ CreditInv
    /\ MarkedIsCreditedOnce /\ MarkedIsNotDeletedUnseen

-----------------------------------------------------------------------------
(* Every step keeps it *)

\* What is written back is a balance, a covered one the central account's.
LEMMA WrittenTypes ==
    ASSUME IInv, NEW p \in Processors, pc[p] = "commit", Write(p)
    PROVE  wallet' \in [Users -> Nat] /\ central' \in Nat /\ credited' \in [Messages -> Nat]
<1>1. holder[p] \in Users /\ wcopy[p] \in Nat /\ ccopy[p] \in Nat /\ ccopy[p] >= 1
  BY DEF IInv, SessionInv
<1>2. wallet \in [Users -> Nat] /\ credited \in [Messages -> Nat] /\ cur[p] \in Messages
  BY DEF IInv, TypeOK, SessionInv, Busy
<1>3. wallet' \in [Users -> Nat]
  BY <1>1, <1>2 DEF Write
<1>4. central' \in Nat
  BY <1>1 DEF Write
<1>5. credited' \in [Messages -> Nat]
  BY <1>2 DEF Write
<1> QED
  BY <1>3, <1>4, <1>5

\* A run that breaks off leaves a processor that is at nothing.
LEMMA BrokenOffTypes ==
    ASSUME IInv, NEW p \in Processors, BreakOff(p)
    PROVE  /\ pc' \in [Processors -> PC]
           /\ at' \in [Processors -> 0..Locations]
           /\ cur' \in [Processors -> Messages \cup {NoMessage}]
           /\ holder' \in [Processors -> Users \cup {NoUser}]
           /\ wcopy' \in [Processors -> Nat \cup {NoCopy}]
           /\ ccopy' \in [Processors -> Nat \cup {NoCopy}]
           /\ missed' \subseteq arrived
<1> USE SizesAssumption DEF IInv, TypeOK
<1>1. /\ pc' \in [Processors -> PC]
      /\ at' \in [Processors -> 0..Locations]
      /\ cur' \in [Processors -> Messages \cup {NoMessage}]
  BY DEF BreakOff, Leave, PC
<1>2. /\ holder' \in [Processors -> Users \cup {NoUser}]
      /\ wcopy' \in [Processors -> Nat \cup {NoCopy}]
      /\ ccopy' \in [Processors -> Nat \cup {NoCopy}]
  BY DEF BreakOff, Leave
<1>3. missed' \subseteq arrived
  <2>1. pc[p] \in Undecided => cur[p] \in arrived
    BY DEF SessionInv, Busy, Undecided
  <2> QED
    BY <2>1 DEF BreakOff
<1> QED
  BY <1>1, <1>2, <1>3

\* The types, by what the session has loaded.
LEMMA TypePreserved ==
    ASSUME IInv, [Next]_vars
    PROVE  TypeOK'
<1> USE NamesAssumption, SizesAssumption, OwnerAssumption DEF IInv, TypeOK, PC, Location, SessionInv, Busy
<1>1. CASE \E m \in Messages : Arrive(m)
  BY <1>1 DEF Arrive, session, database
<1>2. CASE \E p \in Processors : Begin(p)
  BY <1>2 DEF Begin, Goto, phone, session, database
<1>3. CASE \E p \in Processors : GetNext(p)
  <2>1. PICK p \in Processors : GetNext(p)
    BY <1>3
  <2>2. PICK l \in Ahead(p) :
          /\ at' = [at EXCEPT ![p] = l]
          /\ IF box[l] \in read
               THEN UNCHANGED <<pc, cur, read>>
               ELSE /\ pc' = [pc EXCEPT ![p] = "match"]
                    /\ cur' = [cur EXCEPT ![p] = box[l]]
                    /\ read' = IF marks THEN read \cup {box[l]} ELSE read
    BY <2>1 DEF GetNext, Look
  <2>3. l \in Location /\ box[l] \in Messages /\ box[l] \in arrived
    BY DEF Ahead, BoxInv
  <2>4. UNCHANGED <<marks, inContext, broken, arrived, box, gone, holder, wcopy, ccopy, wallet, central, credited, discarded, missed, aborts>>
    BY <2>1 DEF GetNext, Look, session, database
  <2>5. at' \in [Processors -> 0..Locations]
    BY <2>2, <2>3
  <2>6. CASE box[l] \in read
    BY <2>2, <2>4, <2>5, <2>6
  <2>7. CASE box[l] \notin read
    <3>1. pc' \in [Processors -> PC] /\ cur' \in [Processors -> Messages \cup {NoMessage}]
      BY <2>2, <2>3, <2>7
    <3>2. read' \subseteq arrived
      BY <2>2, <2>3, <2>7
    <3> QED
      BY <2>4, <2>5, <3>1, <3>2
  <2> QED
    BY <2>6, <2>7
<1>4. CASE \E p \in Processors : EndRound(p)
  BY <1>4 DEF EndRound, Leave, phone, database
<1>5. CASE \E p \in Processors : Match(p)
  <2>1. PICK p \in Processors : Match(p)
    BY <1>5
  <2>2. /\ pc[p] = "match" /\ pc' \in {[pc EXCEPT ![p] = "wallet"], [pc EXCEPT ![p] = "delete"]}
        /\ discarded' \in {discarded, discarded \cup {cur[p]}}
    BY <2>1 DEF Match, Goto, TurnDown
  <2>3. pc' \in [Processors -> PC] /\ cur[p] \in arrived
    BY <2>2
  <2>4. UNCHANGED <<marks, inContext, broken, arrived, box, read, gone, at, cur, holder, wcopy, ccopy, wallet, central, credited, missed, aborts>>
    BY <2>1 DEF Match, phone, session, database
  <2> QED
    BY <2>2, <2>3, <2>4
<1>6. CASE \E p \in Processors : LoadWallet(p)
  <2>1. PICK p \in Processors : LoadWallet(p)
    BY <1>6
  <2>2. Owner[cur[p]] \in Users /\ cur[p] \in Messages
    BY <2>1 DEF LoadWallet, Goto
  <2> QED
    <3>1. /\ holder' \in [Processors -> Users \cup {NoUser}]
          /\ wcopy' \in [Processors -> Nat \cup {NoCopy}]
      <4>1. CASE UNCHANGED <<holder, wcopy>>
        BY <4>1
      <4>2. CASE /\ holder' = [holder EXCEPT ![p] = Owner[cur[p]]]
                 /\ wcopy' = [wcopy EXCEPT ![p] = wallet[Owner[cur[p]]]]
        BY <2>2, <4>2
      <4> QED
        BY <2>1, <4>1, <4>2 DEF LoadWallet
    <3>2. /\ pc' \in [Processors -> PC]
          /\ UNCHANGED <<marks, inContext, broken, arrived, box, read, gone, at, cur, ccopy, wallet, central, credited, discarded, missed, aborts>>
      BY <2>1 DEF LoadWallet, Goto, phone, database
    <3> QED
      BY <3>1, <3>2
<1>7. CASE \E p \in Processors : LoadCentral(p)
  <2>1. PICK p \in Processors : LoadCentral(p)
    BY <1>7
  <2>2. PICK c \in Nat : c = IF ccopy[p] = NoCopy THEN central ELSE ccopy[p]
    OBVIOUS
  <2>3. ccopy' = [ccopy EXCEPT ![p] = c] /\ cur[p] \in arrived
    BY <2>1, <2>2 DEF LoadCentral, Goto
  <2>4. /\ pc' \in [Processors -> PC]
        /\ discarded' \in {discarded, discarded \cup {cur[p]}}
    BY <2>1 DEF LoadCentral, Goto, TurnDown
  <2>5. UNCHANGED <<marks, inContext, broken, arrived, box, read, gone, at, cur, holder, wcopy, wallet, central, credited, missed, aborts>>
    BY <2>1 DEF LoadCentral, phone, database
  <2> QED
    BY <2>2, <2>3, <2>4, <2>5
<1>8. CASE \E p \in Processors : Commit(p)
  <2>1. PICK p \in Processors : Commit(p)
    BY <1>8
  <2>2. wallet' \in [Users -> Nat] /\ central' \in Nat /\ credited' \in [Messages -> Nat]
    BY <2>1, WrittenTypes DEF Commit, Goto
  <2>3. /\ pc' \in [Processors -> PC]
        /\ wcopy' \in [Processors -> Nat \cup {NoCopy}]
        /\ ccopy' \in [Processors -> Nat \cup {NoCopy}]
        /\ UNCHANGED <<marks, inContext, broken, arrived, box, read, gone, at, cur, holder, discarded, missed, aborts>>
    BY <2>1 DEF Commit, Goto, phone
  <2> QED
    BY <2>2, <2>3
<1>9. CASE \E p \in Processors : Delete(p)
  <2>1. PICK p \in Processors : Delete(p)
    BY <1>9
  <2>2. pc[p] = "delete" /\ UNCHANGED <<marks, inContext, broken, arrived, read, wallet, central, credited, discarded, missed, aborts>>
    BY <2>1 DEF Delete, Goto, Leave, phone, session, database
  <2>3. CASE box[at[p]] = NoMessage
    <3>1. Leave(p) /\ UNCHANGED <<box, gone>>
      BY <2>1, <2>3 DEF Delete, Goto, phone
    <3> QED
      BY <2>2, <3>1 DEF Leave
  <2>4. CASE box[at[p]] # NoMessage
    <3>1. /\ pc' = [pc EXCEPT ![p] = "next"]
          /\ box' = [box EXCEPT ![at[p]] = NoMessage]
          /\ gone' = gone \cup {box[at[p]]}
          /\ cur' = [cur EXCEPT ![p] = NoMessage]
          /\ UNCHANGED <<at, holder, wcopy, ccopy>>
      BY <2>1, <2>4 DEF Delete, Goto, session
    <3>2. at[p] \in Location /\ box[at[p]] \in arrived
      BY <2>2, <2>4 DEF BoxInv
    <3>3. gone' \subseteq arrived
      BY <3>1, <3>2
    <3>4. /\ box' \in [Location -> Messages \cup {NoMessage}]
          /\ pc' \in [Processors -> PC]
          /\ cur' \in [Processors -> Messages \cup {NoMessage}]
      BY <3>1
    <3> QED
      BY <2>2, <2>4, <3>1, <3>3, <3>4
  <2> QED
    BY <2>3, <2>4
<1>10. CASE \E p \in Processors : PhoneFails(p) \/ Restart(p)
  <2>1. PICK p \in Processors : PhoneFails(p) \/ Restart(p)
    BY <1>10
  <2>2. /\ BreakOff(p) /\ broken' \subseteq broken
        /\ UNCHANGED <<marks, inContext, arrived, box, read, gone, wallet, central, credited, discarded>>
    BY <2>1 DEF PhoneFails, Restart, phone, database
  <2>3. aborts' \in 0..MaxAborts
    BY <2>1 DEF PhoneFails, Restart, Mishap
  <2> QED
    BY <2>2, <2>3, BrokenOffTypes
<1>13. CASE \E p \in Processors : DatabaseFails(p)
  <2>1. PICK p \in Processors : DatabaseFails(p)
    BY <1>13
  <2>2. /\ BreakOff(p) /\ broken' \subseteq inContext
        /\ UNCHANGED <<marks, inContext, arrived, box, read, gone, discarded>>
    BY <2>1 DEF DatabaseFails, Usable, phone
  <2>3. wallet' \in [Users -> Nat] /\ central' \in Nat /\ credited' \in [Messages -> Nat]
    BY <2>1, WrittenTypes DEF DatabaseFails, database
  <2>4. aborts' \in 0..MaxAborts
    BY <2>1 DEF DatabaseFails, Mishap
  <2> QED
    BY <2>2, <2>3, <2>4, BrokenOffTypes
<1>11. CASE \E p \in Processors : QueryRaises(p)
  BY <1>11 DEF QueryRaises, Leave, phone, database
<1>12. CASE UNCHANGED vars
  BY <1>12 DEF vars, phone, session, database
<1> QED
  BY <1>1, <1>2, <1>3, <1>4, <1>5, <1>6, <1>7, <1>8, <1>9, <1>10, <1>11, <1>12, <1>13 DEF Next, Step

\* Each stage of a run leaves what the next one needs.
LEMMA SessionPreserved ==
    ASSUME IInv, [Next]_vars
    PROVE  SessionInv'
<1> USE NamesAssumption, SizesAssumption, OwnerAssumption DEF IInv, TypeOK, PC, Location, SessionInv, BoxInv, Busy
<1>1. CASE \E m \in Messages : Arrive(m)
  BY <1>1 DEF Arrive, session, database
<1>2. CASE \E p \in Processors : Begin(p)
  BY <1>2 DEF Begin, Goto, phone, session, database
<1>3. CASE \E p \in Processors : GetNext(p)
  BY <1>3 DEF GetNext, Look, Ahead, session, database
<1>4. CASE \E p \in Processors : EndRound(p)
  BY <1>4 DEF EndRound, Leave, phone, database
<1>5. CASE \E p \in Processors : Match(p)
  BY <1>5 DEF Match, Credits, Goto, TurnDown, phone, session, database
<1>6. CASE \E p \in Processors : LoadWallet(p)
  BY <1>6 DEF LoadWallet, Goto, phone, database
<1>7. CASE \E p \in Processors : LoadCentral(p)
  BY <1>7 DEF LoadCentral, Goto, TurnDown, phone, database
<1>8. CASE \E p \in Processors : Commit(p)
  BY <1>8 DEF Commit, Write, Goto, phone
<1>9. CASE \E p \in Processors : Delete(p)
  BY <1>9 DEF Delete, Goto, Leave, session, phone, database
<1>10. CASE \E p \in Processors : PhoneFails(p) \/ DatabaseFails(p) \/ Restart(p)
  <2>1. PICK p \in Processors : PhoneFails(p) \/ DatabaseFails(p) \/ Restart(p)
    BY <1>10
  <2>2. Leave(p) /\ UNCHANGED arrived
    BY <2>1 DEF PhoneFails, DatabaseFails, Restart, BreakOff, phone
  <2>3. /\ pc'[p] = "idle"
        /\ \A q \in Processors \ {p} :
              /\ pc'[q] = pc[q] /\ at'[q] = at[q] /\ cur'[q] = cur[q]
              /\ holder'[q] = holder[q] /\ wcopy'[q] = wcopy[q] /\ ccopy'[q] = ccopy[q]
    BY <2>2 DEF Leave
  <2> SUFFICES ASSUME NEW q \in Processors, pc'[q] # "idle"
               PROVE  q # p
    BY <2>2, <2>3
  <2> QED
    BY <2>3
<1>11. CASE \E p \in Processors : QueryRaises(p)
  BY <1>11 DEF QueryRaises, Leave, phone, database
<1>12. CASE UNCHANGED vars
  BY <1>12 DEF vars, phone, session, database
<1> QED
  BY <1>1, <1>2, <1>3, <1>4, <1>5, <1>6, <1>7, <1>8, <1>9, <1>10, <1>11, <1>12 DEF Next, Step

\* Arrivals take free locations only.
LEMMA BoxPreserved ==
    ASSUME IInv, [Next]_vars
    PROVE  BoxInv'
<1> USE NamesAssumption, SizesAssumption, OwnerAssumption DEF IInv, TypeOK, Location, BoxInv, SessionInv, Busy
<1>1. CASE \E m \in Messages : Arrive(m)
  BY <1>1 DEF Arrive, session, database
<1>2. CASE \E p \in Processors : Begin(p)
  BY <1>2 DEF Begin, Goto, phone, session, database
<1>3. CASE \E p \in Processors : GetNext(p)
  BY <1>3 DEF GetNext, Look, Ahead, session, database
<1>4. CASE \E p \in Processors : EndRound(p)
  BY <1>4 DEF EndRound, Leave, phone, database
<1>5. CASE \E p \in Processors : Match(p)
  BY <1>5 DEF Match, Credits, Goto, TurnDown, phone, session, database
<1>6. CASE \E p \in Processors : LoadWallet(p)
  BY <1>6 DEF LoadWallet, Goto, phone, database
<1>7. CASE \E p \in Processors : LoadCentral(p)
  BY <1>7 DEF LoadCentral, Goto, TurnDown, phone, database
<1>8. CASE \E p \in Processors : Commit(p)
  BY <1>8 DEF Commit, Write, Goto, phone
<1>9. CASE \E p \in Processors : Delete(p)
  <2>1. PICK p \in Processors : Delete(p)
    BY <1>9
  <2>2. pc[p] = "delete" /\ UNCHANGED <<marks, inContext, broken, arrived, read, wallet, central, credited, discarded, missed, aborts>>
    BY <2>1 DEF Delete, Goto, Leave, phone, session, database
  <2>3. CASE box[at[p]] = NoMessage
    <3>1. Leave(p) /\ UNCHANGED <<box, gone>>
      BY <2>1, <2>3 DEF Delete, Goto, phone
    <3> QED
      BY <2>2, <3>1 DEF Leave
  <2>4. CASE box[at[p]] # NoMessage
    <3>1. /\ pc' = [pc EXCEPT ![p] = "next"]
          /\ box' = [box EXCEPT ![at[p]] = NoMessage]
          /\ gone' = gone \cup {box[at[p]]}
          /\ cur' = [cur EXCEPT ![p] = NoMessage]
          /\ UNCHANGED <<at, holder, wcopy, ccopy>>
      BY <2>1, <2>4 DEF Delete, Goto, session
    <3> QED
      BY <2>2, <2>4, <3>1
  <2> QED
    BY <2>3, <2>4
<1>10. CASE \E p \in Processors : PhoneFails(p) \/ Restart(p)
  BY <1>10 DEF PhoneFails, Restart, BreakOff, Leave, Undecided, phone, database
<1>13. CASE \E p \in Processors : DatabaseFails(p)
  BY <1>13 DEF DatabaseFails, Write, BreakOff, Leave, Undecided, Usable, phone, database
<1>11. CASE \E p \in Processors : QueryRaises(p)
  BY <1>11 DEF QueryRaises, Leave, phone, database
<1>12. CASE UNCHANGED vars
  BY <1>12 DEF vars, phone, session, database
<1> QED
  BY <1>1, <1>2, <1>3, <1>4, <1>5, <1>6, <1>7, <1>8, <1>9, <1>10, <1>11, <1>12, <1>13 DEF Next, Step

\* Only what is unread gets into a processor's hands.
LEMMA HandsPreserved ==
    ASSUME IInv, [Next]_vars
    PROVE  HandsInv'
<1> USE NamesAssumption, SizesAssumption, OwnerAssumption DEF IInv, TypeOK, PC, Location, SessionInv, BoxInv, HandsInv, Busy
<1>1. CASE \E m \in Messages : Arrive(m)
  BY <1>1 DEF Arrive, session, database
<1>2. CASE \E p \in Processors : Begin(p)
  BY <1>2 DEF Begin, Goto, phone, session, database
<1>3. CASE \E p \in Processors : GetNext(p)
  <2>1. PICK p \in Processors : GetNext(p)
    BY <1>3
  <2>2. PICK l \in Ahead(p) :
          /\ at' = [at EXCEPT ![p] = l]
          /\ IF box[l] \in read
               THEN UNCHANGED <<pc, cur, read>>
               ELSE /\ pc' = [pc EXCEPT ![p] = "match"]
                    /\ cur' = [cur EXCEPT ![p] = box[l]]
                    /\ read' = IF marks THEN read \cup {box[l]} ELSE read
    BY <2>1 DEF GetNext, Look
  <2>3. pc[p] = "next" /\ UNCHANGED <<marks, box>>
    BY <2>1 DEF GetNext, Look
  <2> QED
    BY <2>2, <2>3 DEF Ahead
<1>4. CASE \E p \in Processors : EndRound(p)
  BY <1>4 DEF EndRound, Leave, phone, database
<1>5. CASE \E p \in Processors : Match(p)
  BY <1>5 DEF Match, Credits, Goto, TurnDown, phone, session, database
<1>6. CASE \E p \in Processors : LoadWallet(p)
  BY <1>6 DEF LoadWallet, Goto, phone, database
<1>7. CASE \E p \in Processors : LoadCentral(p)
  BY <1>7 DEF LoadCentral, Goto, TurnDown, phone, database
<1>8. CASE \E p \in Processors : Commit(p)
  BY <1>8 DEF Commit, Write, Goto, phone
<1>9. CASE \E p \in Processors : Delete(p)
  <2>1. PICK p \in Processors : Delete(p)
    BY <1>9
  <2>2. pc[p] = "delete" /\ UNCHANGED <<marks, inContext, broken, arrived, read, wallet, central, credited, discarded, missed, aborts>>
    BY <2>1 DEF Delete, Goto, Leave, phone, session, database
  <2>3. CASE box[at[p]] = NoMessage
    <3>1. Leave(p) /\ UNCHANGED <<box, gone>>
      BY <2>1, <2>3 DEF Delete, Goto, phone
    <3> QED
      BY <2>2, <3>1 DEF Leave
  <2>4. CASE box[at[p]] # NoMessage
    <3>1. /\ pc' = [pc EXCEPT ![p] = "next"]
          /\ box' = [box EXCEPT ![at[p]] = NoMessage]
          /\ gone' = gone \cup {box[at[p]]}
          /\ cur' = [cur EXCEPT ![p] = NoMessage]
          /\ UNCHANGED <<at, holder, wcopy, ccopy>>
      BY <2>1, <2>4 DEF Delete, Goto, session
    <3> QED
      BY <2>2, <2>4, <3>1
  <2> QED
    BY <2>3, <2>4
<1>10. CASE \E p \in Processors : PhoneFails(p) \/ DatabaseFails(p) \/ Restart(p)
  <2>1. PICK p \in Processors : PhoneFails(p) \/ DatabaseFails(p) \/ Restart(p)
    BY <1>10
  <2>2. /\ pc' = [pc EXCEPT ![p] = "idle"] /\ at' = [at EXCEPT ![p] = 0]
        /\ cur' = [cur EXCEPT ![p] = NoMessage]
        /\ UNCHANGED <<marks, box, read>>
    BY <2>1 DEF PhoneFails, DatabaseFails, Restart, BreakOff, Leave, phone
  <2> QED
    BY <2>2
<1>11. CASE \E p \in Processors : QueryRaises(p)
  BY <1>11 DEF QueryRaises, Leave, phone, database
<1>12. CASE UNCHANGED vars
  BY <1>12 DEF vars, phone, session, database
<1> QED
  BY <1>1, <1>2, <1>3, <1>4, <1>5, <1>6, <1>7, <1>8, <1>9, <1>10, <1>11, <1>12 DEF Next, Step

\* What a processor is at was credited by nobody else.
LEMMA CreditPreserved ==
    ASSUME IInv, [Next]_vars
    PROVE  CreditInv' /\ MarkedIsCreditedOnce' /\ MarkedIsNotDeletedUnseen'
<1> USE NamesAssumption, SizesAssumption, OwnerAssumption DEF IInv, TypeOK, PC, Location, SessionInv, BoxInv, HandsInv, CreditInv, MarkedIsCreditedOnce, MarkedIsNotDeletedUnseen, Busy, Undecided
<1>1. CASE \E m \in Messages : Arrive(m)
  BY <1>1 DEF Arrive, session, database
<1>2. CASE \E p \in Processors : Begin(p)
  BY <1>2 DEF Begin, Goto, phone, session, database
<1>3. CASE \E p \in Processors : GetNext(p)
  <2>1. PICK p \in Processors : GetNext(p)
    BY <1>3
  <2>2. PICK l \in Ahead(p) :
          IF box[l] \in read
            THEN UNCHANGED <<pc, cur, read>>
            ELSE /\ pc' = [pc EXCEPT ![p] = "match"]
                 /\ cur' = [cur EXCEPT ![p] = box[l]]
                 /\ read' = IF marks THEN read \cup {box[l]} ELSE read
    BY <2>1 DEF GetNext, Look
  <2>3. pc[p] = "next" /\ UNCHANGED <<marks, gone, credited, discarded>>
    BY <2>1 DEF GetNext, Look, database
  <2>4. box[l] \in Messages
    BY DEF Ahead
  <2>5. CASE box[l] \in read
    BY <2>2, <2>3, <2>5
  <2>6. CASE box[l] \notin read
    <3>1. marks => credited[box[l]] = 0
      BY <2>4, <2>6
    <3>2. /\ pc' = [pc EXCEPT ![p] = "match"] /\ cur' = [cur EXCEPT ![p] = box[l]]
          /\ read \subseteq read'
      BY <2>2, <2>6
    <3> QED
      BY <2>3, <2>4, <3>1, <3>2
  <2> QED
    BY <2>5, <2>6
<1>4. CASE \E p \in Processors : EndRound(p)
  BY <1>4 DEF EndRound, Leave, phone, database
<1>5. CASE \E p \in Processors : Match(p)
  BY <1>5 DEF Match, Credits, Goto, TurnDown, phone, session, database
<1>6. CASE \E p \in Processors : LoadWallet(p)
  BY <1>6 DEF LoadWallet, Goto, phone, database
<1>7. CASE \E p \in Processors : LoadCentral(p)
  BY <1>7 DEF LoadCentral, Goto, TurnDown, phone, database
<1>8. CASE \E p \in Processors : Commit(p)
  BY <1>8 DEF Commit, Write, Goto, phone
<1>9. CASE \E p \in Processors : Delete(p)
  <2>1. PICK p \in Processors : Delete(p)
    BY <1>9
  <2>2. pc[p] = "delete" /\ UNCHANGED <<marks, inContext, broken, arrived, read, wallet, central, credited, discarded, missed, aborts>>
    BY <2>1 DEF Delete, Goto, Leave, phone, session, database
  <2>3. CASE box[at[p]] = NoMessage
    <3>1. Leave(p) /\ UNCHANGED <<box, gone>>
      BY <2>1, <2>3 DEF Delete, Goto, phone
    <3> QED
      BY <2>2, <3>1 DEF Leave
  <2>4. CASE box[at[p]] # NoMessage
    <3>1. /\ pc' = [pc EXCEPT ![p] = "next"]
          /\ box' = [box EXCEPT ![at[p]] = NoMessage]
          /\ gone' = gone \cup {box[at[p]]}
          /\ cur' = [cur EXCEPT ![p] = NoMessage]
          /\ UNCHANGED <<at, holder, wcopy, ccopy>>
      BY <2>1, <2>4 DEF Delete, Goto, session
    <3> QED
      BY <2>2, <2>4, <3>1
  <2> QED
    BY <2>3, <2>4
<1>10. CASE \E p \in Processors : PhoneFails(p) \/ Restart(p)
  <2>1. PICK p \in Processors : PhoneFails(p) \/ Restart(p)
    BY <1>10
  <2>2. /\ pc' = [pc EXCEPT ![p] = "idle"] /\ cur' = [cur EXCEPT ![p] = NoMessage]
        /\ UNCHANGED <<marks, read, gone, credited, discarded>>
    BY <2>1 DEF PhoneFails, Restart, BreakOff, Leave, phone, database
  <2> QED
    BY <2>2
<1>13. CASE \E p \in Processors : DatabaseFails(p)
  <2>1. PICK p \in Processors : DatabaseFails(p)
    BY <1>13
  <2>2. /\ pc' = [pc EXCEPT ![p] = "idle"] /\ cur' = [cur EXCEPT ![p] = NoMessage]
        /\ UNCHANGED <<marks, read, gone, discarded>>
    BY <2>1 DEF DatabaseFails, BreakOff, Leave, phone
  <2>3. CASE UNCHANGED credited
    BY <2>2, <2>3
  <2>4. CASE pc[p] = "commit" /\ credited' = [credited EXCEPT ![cur[p]] = @ + 1]
    <3>1. ASSUME marks
          PROVE  /\ cur[p] \in read /\ credited[cur[p]] = 0
                 /\ \A q \in Processors \ {p} : pc[q] \in Busy => cur[q] # cur[p]
      BY <2>4, <3>1
    <3>2. cur[p] \in Messages /\ credited'[cur[p]] = credited[cur[p]] + 1
      BY <2>4
    <3>3. \A m \in Messages \ {cur[p]} : credited'[m] = credited[m]
      BY <2>4
    <3> QED
      BY <2>2, <2>4, <3>1, <3>2, <3>3
  <2> QED
    BY <2>1, <2>3, <2>4 DEF DatabaseFails, Write, database
<1>11. CASE \E p \in Processors : QueryRaises(p)
  BY <1>11 DEF QueryRaises, Leave, phone, database
<1>12. CASE UNCHANGED vars
  BY <1>12 DEF vars, phone, session, database
<1> QED
  BY <1>1, <1>2, <1>3, <1>4, <1>5, <1>6, <1>7, <1>8, <1>9, <1>10, <1>11, <1>12, <1>13 DEF Next, Step

-----------------------------------------------------------------------------
(* The theorems *)

LEMMA InitInv == Init => IInv
  BY NamesAssumption, SizesAssumption
  DEF Init, IInv, TypeOK, PC, Location, SessionInv, BoxInv, HandsInv, CreditInv,
      MarkedIsCreditedOnce, MarkedIsNotDeletedUnseen, Busy, Undecided

LEMMA StepInv == IInv /\ [Next]_vars => IInv'
  BY TypePreserved, SessionPreserved, BoxPreserved, HandsPreserved, CreditPreserved DEF IInv

THEOREM InductiveInvariant == Spec => []IInv
  BY InitInv, StepInv, PTL DEF Spec

\* Phone, sessions and database keep their types; the central balance, written
\* back from a checked copy, never falls below zero.
THEOREM TypeCorrect == Spec => []TypeOK
<1>1. IInv => TypeOK
  BY DEF IInv
<1> QED
  BY <1>1, InductiveInvariant, PTL

\* One SMS, one credit, where the phone marks what was read.
THEOREM CreditedOnce == Spec => []MarkedIsCreditedOnce
<1>1. IInv => MarkedIsCreditedOnce
  BY DEF IInv
<1> QED
  BY <1>1, InductiveInvariant, PTL

\* There, too, deleting by location never hits an SMS nobody has looked at.
THEOREM NothingDeletedUnseen == Spec => []MarkedIsNotDeletedUnseen
<1>1. IInv => MarkedIsNotDeletedUnseen
  BY DEF IInv
<1> QED
  BY <1>1, InductiveInvariant, PTL
=============================================================================
