----------------------- MODULE SmsdOutboxSendingProofs -----------------------
(***************************************************************************)
(* The SMS daemons' outbox, for any number of daemons, messages, parts,    *)
(* retries and mishaps: how often a message is tried, that a part goes on  *)
(* air twice only for a cause, and how often it may go on air at all.      *)
(***************************************************************************)
EXTENDS SmsdOutboxProofs, FiniteSets, FiniteSetTheorems

\* Where a daemon goes after part k of the message it has read: to the first
\* part that is left, or to the end.
LEMMA AdvanceResult ==
    ASSUME TypeOK, NEW d \in Daemons, NEW j \in JobType, NEW k \in Nat, Advance(d, j, k)
    PROVE  /\ job'[d].id = j.id /\ job'[d].number = j.number
           /\ job'[d].skip = j.skip /\ job'[d].retries = j.retries
           /\ \/ pc'[d] = "move" /\ Todo(j, k) = {}
              \/ pc'[d] = "send" /\ job'[d].part \in Todo(j, k)
<1>t. pc \in [Daemons -> PC] /\ job \in [Daemons -> JobType] BY DEF TypeOK
<1>f. \A p : /\ [j EXCEPT !.part = p].id = j.id
             /\ [j EXCEPT !.part = p].number = j.number
             /\ [j EXCEPT !.part = p].skip = j.skip
             /\ [j EXCEPT !.part = p].retries = j.retries
             /\ [j EXCEPT !.part = p].part = p
  BY DEF JobType
<1>1. CASE /\ Todo(j, k) = {}
           /\ pc' = [pc EXCEPT ![d] = "move"]
           /\ job' = [job EXCEPT ![d] = [j EXCEPT !.part = 0]]
  BY <1>1, <1>t, <1>f
<1>2. ASSUME NEW p \in Todo(j, k),
             pc' = [pc EXCEPT ![d] = "send"],
             job' = [job EXCEPT ![d] = [j EXCEPT !.part = p]]
      PROVE  /\ job'[d].id = j.id /\ job'[d].number = j.number
             /\ job'[d].skip = j.skip /\ job'[d].retries = j.retries
             /\ pc'[d] = "send" /\ job'[d].part \in Todo(j, k)
  BY <1>2, <1>t, <1>f
<1> QED BY <1>1, <1>2 DEF Advance

-----------------------------------------------------------------------------
(***************************************************************************)
(* Tries.  Each try that is counted ends in UpdateRetries, in the deletion *)
(* of the message or in a mishap.  Without lapsed claims tries and retries *)
(* would go together; with them several daemons may be at one message,     *)
(* each with the number of retries it read, and UpdateRetries may set the  *)
(* count back.  What keeps the sum right is that each try that begins while*)
(* another is under way was paid for by the claim that lapsed.             *)
(***************************************************************************)

\* The daemons about to take m, those at a try of it, and whether the message
\* may be claimed or will be.
Readers(m) == {d \in Daemons : pc[d] = "read" /\ Id(d) = m}
Trying(d, m) == Holds(d, m) /\ pc[d] \notin {"read", "errorbox"}
Ready(m) == IF row[m] = "free" \/ (\A d \in Daemons : ~Holds(d, m)) THEN 1 ELSE 0

\* How many tries are about to begin.
Coming(m) == Cardinality(Readers(m)) + Ready(m)

\* Tries made and coming are covered by the retries counted and the mishaps, or
\* by what any daemon at a try is going to count.
Covered(m) ==
    /\ attempts[m] + Coming(m) <= retries[m] + 1 + mishaps
    /\ \A d \in Daemons : Trying(d, m) => attempts[m] + Coming(m) <= job[d].retries + mishaps

Counted(m) ==
    /\ IsFiniteSet(Readers(m))
    /\ row[m] = "unwritten" => attempts[m] = 0 /\ retries[m] = 0
    /\ Present(m) => Covered(m)

AInv == CInv /\ (\A m \in Messages : Counted(m)) /\ TriesAreBounded

\* The types of the numbers.
LEMMA CountTypes ==
    ASSUME TInv, NEW m \in Messages, IsFiniteSet(Readers(m))
    PROVE  /\ attempts[m] \in Nat /\ retries[m] \in Nat /\ mishaps \in Nat
           /\ Cardinality(Readers(m)) \in Nat /\ Ready(m) \in {0, 1} /\ Coming(m) \in Nat
           /\ \A d \in Daemons : job[d].retries \in Nat
<1>1. Cardinality(Readers(m)) \in Nat BY FS_CardinalityType
<1>2. Ready(m) \in {0, 1} BY DEF Ready
<1>3. \A d \in Daemons : job[d] \in JobType BY DEF TInv, TypeOK
<1>4. \A d \in Daemons : job[d].retries \in Nat BY <1>3, JobFacts
<1>5. mishaps \in Nat BY MishapsAssumption DEF TInv, TypeOK
<1>6. attempts[m] \in Nat /\ retries[m] \in Nat BY DEF TInv, TypeOK
<1> QED BY <1>1, <1>2, <1>4, <1>5, <1>6 DEF Coming

\* A step of one daemon changes the number of readers by what it does itself.
LEMMA ReadersStep ==
    ASSUME NEW d \in Daemons, NEW m \in Messages,
           \A e \in Daemons : e # d => pc'[e] = pc[e] /\ job'[e] = job[e],
           IsFiniteSet(Readers(m))
    PROVE  /\ IsFiniteSet(Readers(m)')
           /\ \E n \in Nat :
                 /\ Cardinality(Readers(m)) = IF d \in Readers(m) THEN n + 1 ELSE n
                 /\ Cardinality(Readers(m)') = IF d \in Readers(m)' THEN n + 1 ELSE n
<1> DEFINE R == Readers(m) \ {d}
<1>1. IsFiniteSet(R) /\ Cardinality(R) \in Nat
  <2>1. IsFiniteSet(R) BY FS_Subset
  <2> QED BY <2>1, FS_CardinalityType
<1>2. Readers(m) = (IF d \in Readers(m) THEN R \cup {d} ELSE R) OBVIOUS
<1>3. Readers(m)' = (IF d \in Readers(m)' THEN R \cup {d} ELSE R)
  BY DEF Readers, Id
<1>4. IsFiniteSet(R \cup {d}) /\ Cardinality(R \cup {d}) = Cardinality(R) + 1
  <2>1. d \notin R OBVIOUS
  <2> HIDE DEF R
  <2> QED BY <1>1, <2>1, FS_AddElement
<1> HIDE DEF R
<1> QED BY <1>1, <1>2, <1>3, <1>4

\* A step that adds to what is coming at most the mishap it is, and begins no
\* try, leaves the message covered.
LEMMA CoveredKept ==
    ASSUME TInv, TInv', NEW m \in Messages, IsFiniteSet(Readers(m)), IsFiniteSet(Readers(m)'),
           Covered(m), NEW k \in Nat, mishaps' = mishaps + k,
           attempts'[m] = attempts[m], retries'[m] = retries[m],
           Coming(m)' <= Coming(m) + k,
           \A e \in Daemons : Trying(e, m)' => Trying(e, m) /\ job'[e].retries = job[e].retries
    PROVE  Covered(m)'
<1>1. /\ attempts[m] \in Nat /\ retries[m] \in Nat /\ mishaps \in Nat /\ Coming(m) \in Nat
      /\ \A d \in Daemons : job[d].retries \in Nat
  BY CountTypes
<1>2. Coming(m)' \in Nat
  <2>1. Cardinality(Readers(m)') \in Nat BY FS_CardinalityType
  <2> QED BY <2>1 DEF Coming, Ready
<1>3. attempts[m] + Coming(m)' <= retries[m] + 1 + (mishaps + k)
  BY <1>1, <1>2 DEF Covered
<1>4. ASSUME NEW e \in Daemons, Trying(e, m)'
      PROVE  attempts[m] + Coming(m)' <= job[e].retries + (mishaps + k)
  <2>1. Trying(e, m) BY <1>4
  <2>2. attempts[m] + Coming(m) <= job[e].retries + mishaps BY <2>1 DEF Covered
  <2>3. job[e].retries \in Nat BY <1>1
  <2> QED BY <1>1, <1>2, <2>2, <2>3
<1> QED BY <1>3, <1>4 DEF Covered

\* The same for a step of one daemon, told from what becomes of its own claim.
LEMMA DaemonKept ==
    ASSUME TInv, TInv', NEW d \in Daemons, NEW m \in Messages,
           \A e \in Daemons : e # d => pc'[e] = pc[e] /\ job'[e] = job[e],
           IsFiniteSet(Readers(m)), Covered(m),
           NEW k \in {0, 1}, mishaps' = mishaps + k,
           attempts'[m] = attempts[m], retries'[m] = retries[m],
           row'[m] = "free" => row[m] = "free",
           d \in Readers(m)' => d \in Readers(m),
           Trying(d, m)' => Trying(d, m) /\ job'[d].retries = job[d].retries,
           Holds(d, m) => Holds(d, m)' \/ k = 1
    PROVE  Covered(m)'
<1>1. IsFiniteSet(Readers(m)') BY ReadersStep
<1>2. PICK n \in Nat :
         /\ Cardinality(Readers(m)) = IF d \in Readers(m) THEN n + 1 ELSE n
         /\ Cardinality(Readers(m)') = IF d \in Readers(m)' THEN n + 1 ELSE n
  BY ReadersStep
<1>3. Cardinality(Readers(m)') <= Cardinality(Readers(m)) BY <1>2
<1>4. \A e \in Daemons : e # d => (Holds(e, m)' <=> Holds(e, m)) BY DEF Holds, Id
<1>5. Ready(m)' <= Ready(m) + k
  <2>1. CASE k = 1 BY <2>1 DEF Ready
  <2>2. CASE k = 0
    <3>1. (\A e \in Daemons : ~Holds(e, m)') => \A e \in Daemons : ~Holds(e, m)
      BY <1>4, <2>2
    <3> QED BY <2>2, <3>1 DEF Ready
  <2> QED BY <2>1, <2>2
<1>6. /\ Cardinality(Readers(m)) \in Nat /\ Cardinality(Readers(m)') \in Nat
      /\ Ready(m) \in {0, 1} /\ Ready(m)' \in {0, 1}
  BY <1>2 DEF Ready
<1>7. Coming(m)' <= Coming(m) + k BY <1>3, <1>5, <1>6 DEF Coming
<1>8. \A e \in Daemons : Trying(e, m)' => Trying(e, m) /\ job'[e].retries = job[e].retries
  <2> TAKE e \in Daemons
  <2>1. CASE e = d BY <2>1
  <2>2. CASE e # d BY <2>2 DEF Trying, Holds, Id
  <2> QED BY <2>1, <2>2
<1>9. k \in Nat OBVIOUS
<1> QED BY <1>1, <1>7, <1>8, <1>9, CoveredKept

\* A daemon at a try goes on with it.
AtTry == {"send", "wait", "mark", "failed", "move"}

LEMMA TryGoesOn ==
    ASSUME TInv, TInv', NEW d \in Daemons, NEW m \in Messages,
           \A e \in Daemons : e # d => pc'[e] = pc[e] /\ job'[e] = job[e],
           IsFiniteSet(Readers(m)), Covered(m),
           NEW k \in {0, 1}, mishaps' = mishaps + k,
           attempts' = attempts, retries' = retries,
           row'[m] = "free" => row[m] = "free",
           pc[d] \in AtTry, pc'[d] \in AtTry,
           job'[d].id = job[d].id, job'[d].retries = job[d].retries
    PROVE  Covered(m)'
<1>1. Holds(d, m)' <=> Holds(d, m) BY DEF Holds, Id, Sending, AtTry
<1>2. Trying(d, m)' => Trying(d, m) BY <1>1 DEF Trying, AtTry
<1>3. d \notin Readers(m)' BY DEF Readers, AtTry
<1> QED BY <1>1, <1>2, <1>3, DaemonKept

\* A daemon lets go of its message by a mishap, or has none.
LEMMA LetsGo ==
    ASSUME TInv, TInv', NEW d \in Daemons, NEW m \in Messages,
           \A e \in Daemons : e # d => pc'[e] = pc[e] /\ job'[e] = job[e],
           IsFiniteSet(Readers(m)), Covered(m),
           NEW k \in {0, 1}, mishaps' = mishaps + k,
           attempts' = attempts, retries'[m] = retries[m],
           row'[m] = "free" => row[m] = "free",
           pc'[d] \in {"idle", "lock"}, k = 1 \/ ~Holds(d, m)
    PROVE  Covered(m)'
<1>1. ~Holds(d, m)' BY DEF Holds, Sending
<1>2. ~Trying(d, m)' BY <1>1 DEF Trying
<1>3. d \notin Readers(m)' BY DEF Readers
<1>4. attempts'[m] = attempts[m] OBVIOUS
<1> QED BY <1>1, <1>2, <1>3, <1>4, DaemonKept

\* Locking the row turns what could be claimed into a reader.
LEMMA LockCovers ==
    ASSUME AInv, CInv', NEW d \in Daemons, Lock(d), NEW m \in Messages, Present(m)
    PROVE  Covered(m)'
<1>t. /\ TInv /\ TInv' /\ pc \in [Daemons -> PC] /\ row \in [Messages -> RowState]
      /\ Covered(m) /\ IsFiniteSet(Readers(m))
  BY DEF AInv, CInv, TInv, TypeOK, Counted
<1>o. \A e \in Daemons : e # d => pc'[e] = pc[e] /\ job'[e] = job[e]
  BY <1>t, OnlyActor DEF Step
<1>n. /\ mishaps' = mishaps + 0 /\ attempts' = attempts /\ retries' = retries /\ job' = job
      /\ pc[d] = "lock"
  <2>1. mishaps \in Nat BY MishapsAssumption, <1>t DEF TInv, TypeOK
  <2> QED BY <2>1 DEF Lock, seen, Goto
<1>h. ~Holds(d, m) BY <1>n DEF Holds, Sending
<1>1. CASE Goto(d, "lock", "idle") /\ UNCHANGED row
  <2>1. pc'[d] = "idle" BY <1>1, <1>t DEF Goto
  <2> QED BY <1>1, <1>t, <1>o, <1>n, <1>h, <2>1, LetsGo
<1>2. CASE /\ Goto(d, "lock", "read") /\ row[Id(d)] = "free"
           /\ row' = [row EXCEPT ![Id(d)] = "locked"]
  <2>1. pc'[d] = "read" /\ Id(d)' = Id(d) BY <1>2, <1>t, <1>n DEF Goto, Id
  <2>2. CASE m # Id(d)
    <3>1. ~Holds(d, m)' /\ d \notin Readers(m)' BY <2>1, <2>2 DEF Holds, Readers
    <3>2. ~Trying(d, m)' BY <3>1 DEF Trying
    <3>3. row'[m] = row[m] BY <1>2, <1>t, <2>2
    <3> QED BY <1>t, <1>o, <1>n, <1>h, <3>1, <3>2, <3>3, DaemonKept
  <2>3. CASE m = Id(d)
    <3>1. d \notin Readers(m) /\ d \in Readers(m)' BY <1>n, <2>1, <2>3 DEF Readers
    <3>2. Holds(d, m)' /\ ~Trying(d, m)' BY <2>1, <2>3 DEF Holds, Trying, Sending
    <3>3. PICK n \in Nat : Cardinality(Readers(m)) = n /\ Cardinality(Readers(m)') = n + 1
      BY <1>t, <1>o, <3>1, ReadersStep
    <3>4. Ready(m) = 1 /\ Ready(m)' = 0
      BY <1>2, <1>t, <2>3, <3>2 DEF Ready
    <3>5. Coming(m)' <= Coming(m) + 0 BY <3>3, <3>4 DEF Coming
    <3>6. \A e \in Daemons : Trying(e, m)' => Trying(e, m) /\ job'[e].retries = job[e].retries
      BY <1>o, <3>2 DEF Trying, Holds, Id
    <3>7. IsFiniteSet(Readers(m)') BY <1>t, <1>o, ReadersStep
    <3>8. attempts'[m] = attempts[m] /\ retries'[m] = retries[m] /\ 0 \in Nat BY <1>n
    <3> QED BY <1>t, <1>n, <3>5, <3>6, <3>7, <3>8, CoveredKept
  <2> QED BY <2>2, <2>3
<1> QED BY <1>1, <1>2 DEF Lock

\* A reader's try is one that was coming.
LEMMA TakeCovers ==
    ASSUME AInv, CInv', NEW d \in Daemons, Take(d), NEW m \in Messages, Present(m)
    PROVE  Covered(m)'
<1>t. /\ TypeOK /\ TInv /\ TInv' /\ pc \in [Daemons -> PC] /\ job \in [Daemons -> JobType]
      /\ Covered(m) /\ IsFiniteSet(Readers(m))
  BY DEF AInv, CInv, TInv, TypeOK, Counted
<1>o. \A e \in Daemons : e # d => pc'[e] = pc[e] /\ job'[e] = job[e]
  BY <1>t, OnlyActor DEF Step
<1>n. /\ mishaps' = mishaps /\ retries' = retries /\ row' = row
      /\ pc[d] = "read" /\ Id(d) \in Messages
  BY <1>t DEF Take, TakeUpTo, outbox, TInv, BusyHasId
<1>1. PICK n \in 0..Length[Id(d)] :
         \/ /\ Advance(d, Loaded(Id(d), n), 0)
            /\ attempts' = [attempts EXCEPT ![Id(d)] = IF Present(Id(d)) THEN @ + 1 ELSE @]
         \/ /\ pc' = [pc EXCEPT ![d] = "errorbox"]
            /\ job' = [job EXCEPT ![d] = Loaded(Id(d), n)]
            /\ UNCHANGED attempts
  BY DEF Take, TakeUpTo
<1>2. PICK j \in JobType : j = Loaded(Id(d), n) BY <1>t, <1>n, LoadedType
<1>3. j.id = Id(d) /\ j.retries = retries[Id(d)] + 1 BY <1>2 DEF Loaded
<1>4. /\ job'[d].id = Id(d) /\ job'[d].retries = retries[Id(d)] + 1
      /\ pc'[d] \in {"move", "send", "errorbox"}
  <2>1. CASE Advance(d, j, 0) BY <1>t, <1>3, <2>1, AdvanceResult
  <2>2. CASE pc' = [pc EXCEPT ![d] = "errorbox"] /\ job' = [job EXCEPT ![d] = j]
    BY <1>t, <1>3, <2>2
  <2> QED BY <1>1, <1>2, <2>1, <2>2
<1>5. (Holds(d, m)' <=> Holds(d, m)) /\ d \notin Readers(m)'
  BY <1>n, <1>4 DEF Holds, Id, Sending, Readers
<1>6. attempts'[m] = attempts[m] \/ (m = Id(d) /\ attempts'[m] = attempts[m] + 1 /\ pc'[d] # "errorbox")
  <2>1. attempts \in [Messages -> Nat] BY <1>t DEF TypeOK
  <2>2. CASE UNCHANGED attempts BY <2>2
  <2>3. CASE /\ Advance(d, j, 0)
             /\ attempts' = [attempts EXCEPT ![Id(d)] = IF Present(Id(d)) THEN @ + 1 ELSE @]
    <3>1. pc'[d] # "errorbox" BY <1>t, <2>3, AdvanceResult
    <3> QED BY <1>n, <2>1, <2>3, <3>1
  <2> QED BY <1>1, <1>2, <2>2, <2>3
<1>7. CASE m # Id(d)
  <2>1. ~Holds(d, m) /\ ~Trying(d, m)' /\ attempts'[m] = attempts[m]
    BY <1>5, <1>6, <1>7 DEF Holds, Trying
  <2>2. mishaps' = mishaps + 0
    BY <1>n, <1>t, MishapsAssumption DEF TypeOK
  <2> QED BY <1>t, <1>o, <1>n, <1>5, <2>1, <2>2, DaemonKept
<1>8. CASE m = Id(d)
  <2>1. PICK c \in Nat : Cardinality(Readers(m)) = c + 1 /\ Cardinality(Readers(m)') = c
    <3>1. d \in Readers(m) /\ d \notin Readers(m)' BY <1>n, <1>5, <1>8 DEF Readers
    <3> QED BY <1>t, <1>o, <3>1, ReadersStep
  <2>2. Ready(m)' = Ready(m) /\ Ready(m) \in {0, 1}
    <3>1. Holds(d, m) /\ Holds(d, m)' BY <1>n, <1>5, <1>8 DEF Holds, Sending
    <3> QED BY <1>n, <3>1 DEF Ready
  <2>3. /\ attempts[m] \in Nat /\ retries[m] \in Nat /\ mishaps \in Nat
        /\ \A e \in Daemons : job[e].retries \in Nat
    BY <1>t, CountTypes
  <2>4. attempts'[m] + Coming(m)' <= attempts[m] + Coming(m) /\ Coming(m) \in Nat
        /\ attempts'[m] \in Nat /\ Coming(m)' \in Nat
    BY <1>6, <2>1, <2>2, <2>3 DEF Coming
  <2>5. attempts'[m] + Coming(m)' <= retries[m] + 1 + mishaps
    BY <1>t, <2>3, <2>4 DEF Covered
  <2>6. ASSUME NEW e \in Daemons, Trying(e, m)'
        PROVE  attempts'[m] + Coming(m)' <= job'[e].retries + mishaps
    <3>1. CASE e = d
      BY <1>4, <1>8, <2>5, <3>1
    <3>2. CASE e # d
      <4>1. Trying(e, m) /\ job'[e].retries = job[e].retries
        BY <1>o, <2>6, <3>2 DEF Trying, Holds, Id
      <4>2. attempts[m] + Coming(m) <= job[e].retries + mishaps BY <1>t, <4>1 DEF Covered
      <4>3. job[e].retries \in Nat BY <2>3
      <4> QED BY <2>3, <2>4, <4>1, <4>2, <4>3
    <3> QED BY <3>1, <3>2
  <2> QED BY <1>n, <2>5, <2>6 DEF Covered
<1> QED BY <1>7, <1>8

\* What UpdateRetries counts covers the tries of all, however late it comes.
LEMMA UpdateCovers ==
    ASSUME AInv, CInv', NEW d \in Daemons, UpdateRetries(d), NEW m \in Messages, Present(m)
    PROVE  Covered(m)'
<1>t. /\ TInv /\ TInv' /\ pc \in [Daemons -> PC] /\ row \in [Messages -> RowState]
      /\ retries \in [Messages -> Nat] /\ Covered(m) /\ IsFiniteSet(Readers(m))
  BY DEF AInv, CInv, TInv, TypeOK, Counted
<1>o. \A e \in Daemons : e # d => pc'[e] = pc[e] /\ job'[e] = job[e]
  BY <1>t, OnlyActor DEF Step
<1>n. /\ mishaps' = mishaps /\ attempts' = attempts /\ pc[d] = "failed" /\ pc'[d] = "idle"
      /\ row' = [row EXCEPT ![Id(d)] = IF Present(Id(d)) THEN "locked" ELSE @]
      /\ retries' = [retries EXCEPT ![Id(d)] = IF Present(Id(d)) THEN job[d].retries ELSE @]
  BY <1>t DEF UpdateRetries, Return, seen
<1>1. CASE m # Id(d)
  <2>1. ~Holds(d, m) BY <1>1 DEF Holds
  <2>2. row'[m] = row[m] /\ retries'[m] = retries[m] BY <1>1, <1>n, <1>t
  <2>3. mishaps' = mishaps + 0 BY <1>n, <1>t, MishapsAssumption DEF TInv, TypeOK
  <2> QED BY <1>t, <1>o, <1>n, <2>1, <2>2, <2>3, LetsGo
<1>2. CASE m = Id(d)
  <2>1. row'[m] = "locked" /\ retries'[m] = job[d].retries BY <1>2, <1>n, <1>t
  <2>2. Trying(d, m) BY <1>2, <1>n DEF Trying, Holds, Sending
  <2>3. PICK c \in Nat : Cardinality(Readers(m)) = c /\ Cardinality(Readers(m)') = c
    <3>1. d \notin Readers(m) /\ d \notin Readers(m)' BY <1>n DEF Readers
    <3> QED BY <1>t, <1>o, <3>1, ReadersStep
  <2>4. Ready(m) \in {0, 1} /\ Ready(m)' \in {0, 1} BY DEF Ready
  <2>5. /\ attempts[m] \in Nat /\ mishaps \in Nat
        /\ \A e \in Daemons : job[e].retries \in Nat
    BY <1>t, CountTypes
  <2>6. attempts[m] + Coming(m)' <= job[d].retries + 1 + mishaps
    <3>1. attempts[m] + Coming(m) <= job[d].retries + mishaps BY <1>t, <2>2 DEF Covered
    <3>2. job[d].retries \in Nat BY <2>5
    <3> QED BY <2>3, <2>4, <2>5, <3>1, <3>2 DEF Coming
  <2>7. ASSUME NEW e \in Daemons, Trying(e, m)'
        PROVE  attempts[m] + Coming(m)' <= job'[e].retries + mishaps
    <3>1. e # d BY <1>n, <2>7 DEF Trying, Holds, Sending
    <3>2. Trying(e, m) /\ job'[e].retries = job[e].retries
      BY <1>o, <2>7, <3>1 DEF Trying, Holds, Id
    <3>3. Ready(m)' = 0
      <4>1. Holds(e, m)' BY <2>7 DEF Trying
      <4> QED BY <2>1, <4>1 DEF Ready
    <3>4. attempts[m] + Coming(m) <= job[e].retries + mishaps BY <1>t, <3>2 DEF Covered
    <3>5. job[e].retries \in Nat BY <2>5
    <3> QED BY <2>3, <2>4, <2>5, <3>2, <3>3, <3>4, <3>5 DEF Coming
  <2> QED BY <1>n, <2>1, <2>6, <2>7 DEF Covered
<1> QED BY <1>1, <1>2
\* So does every other step of a daemon, of its phone, and its end.
LEMMA DaemonCovers ==
    ASSUME AInv, CInv', NEW d \in Daemons, Step(d) \/ PhoneAnswers(d) \/ Crash(d),
           NEW m \in Messages, Present(m), Present(m)'
    PROVE  Covered(m)'
<1>t. /\ TypeOK /\ TInv /\ TInv' /\ pc \in [Daemons -> PC] /\ row \in [Messages -> RowState]
      /\ job \in [Daemons -> JobType] /\ Covered(m) /\ IsFiniteSet(Readers(m))
  BY DEF AInv, CInv, TInv, TypeOK, Counted
<1>o. \A e \in Daemons : e # d => pc'[e] = pc[e] /\ job'[e] = job[e]
  BY <1>t, OnlyActor
<1>m. mishaps \in Nat /\ mishaps + 0 = mishaps
  BY <1>t, MishapsAssumption DEF TypeOK
<1>1. CASE \E x \in Messages : Select(d, x)
  <2>1. pc[d] = "idle" /\ pc'[d] = "lock" BY <1>1, <1>t DEF Select, Goto
  <2>2. ~Holds(d, m) BY <2>1 DEF Holds, Sending
  <2>3. mishaps' = mishaps + 0 /\ attempts' = attempts /\ retries'[m] = retries[m] /\ row' = row
    BY <1>1, <1>m DEF Select, outbox, seen
  <2> QED BY <1>t, <1>o, <2>1, <2>2, <2>3, LetsGo
<1>2. CASE Lock(d) BY <1>2, LockCovers
<1>3. CASE Take(d) BY <1>3, TakeCovers
<1>4. CASE UpdateRetries(d) BY <1>4, UpdateCovers
<1>5. CASE \/ Submit(d) \/ SubmitFails(d) \/ Refused(d) \/ GiveUp(d) \/ Refresh(d)
           \/ RecordFails(d)
  <2>1. job' = job /\ attempts' = attempts /\ retries' = retries
    BY <1>5 DEF Submit, SubmitFails, Refused, GiveUp, Refresh, RecordFails, outbox, local, seen
  <2>2. pc[d] \in AtTry /\ pc'[d] \in AtTry
    BY <1>5, <1>t DEF Submit, SubmitFails, Refused, GiveUp, Refresh, RecordFails, Goto, AtTry, local
  <2>3. row' = row \/ row' = [row EXCEPT ![Id(d)] = "locked"]
    BY <1>5 DEF Submit, SubmitFails, Refused, GiveUp, Refresh, RecordFails, outbox
  <2>4. row'[m] = "free" => row[m] = "free" BY <1>t, <2>3
  <2>5. CASE mishaps' = mishaps + 0
    <3>1. 0 \in {0, 1} OBVIOUS
    <3> QED BY <1>t, <1>o, <2>1, <2>2, <2>4, <2>5, <3>1, TryGoesOn
  <2>6. CASE mishaps' = mishaps + 1
    <3>1. 1 \in {0, 1} OBVIOUS
    <3> QED BY <1>t, <1>o, <2>1, <2>2, <2>4, <2>6, <3>1, TryGoesOn
  <2>7. mishaps' = mishaps + 0 \/ mishaps' = mishaps + 1
    BY <1>5, <1>m DEF Submit, SubmitFails, Refused, GiveUp, Refresh, RecordFails, Mishap, seen
  <2> QED BY <2>5, <2>6, <2>7
<1>6. CASE Record(d) \/ Mark(d)
  <2>1. /\ attempts' = attempts /\ retries' = retries /\ row' = row /\ mishaps' = mishaps + 0
        /\ pc[d] \in AtTry
    BY <1>6, <1>m DEF Record, Mark, outbox, seen, AtTry
  <2>2. job[d] \in JobType /\ At(d) \in Nat BY <1>t, JobFacts DEF At
  <2>3. pc'[d] \in AtTry /\ job'[d].id = job[d].id /\ job'[d].retries = job[d].retries
    <3>1. CASE Advance(d, job[d], At(d))
      BY <1>t, <2>2, <3>1, AdvanceResult DEF AtTry
    <3>2. CASE UNCHANGED job /\ (Goto(d, "wait", "failed") \/ Goto(d, "wait", "mark"))
      BY <1>t, <3>2 DEF Goto, AtTry
    <3> QED BY <1>6, <3>1, <3>2 DEF Record, Mark
  <2> QED BY <1>t, <1>o, <2>1, <2>3, TryGoesOn
<1>7. CASE \/ OutboxError(d) \/ ReadSMSCFails(d) \/ LeaveFails(d) \/ ErrorBoxFails(d)
           \/ Crash(d)
  <2>1. attempts' = attempts /\ retries' = retries /\ mishaps' = mishaps + 1
    BY <1>7 DEF OutboxError, ReadSMSCFails, LeaveFails, ErrorBoxFails, Crash, Mishap, outbox, seen
  <2>2. pc'[d] = "idle"
    BY <1>7, <1>t DEF OutboxError, ReadSMSCFails, LeaveFails, ErrorBoxFails, Crash, Return
  <2>3. row' = row \/ Delete(Id(d))
    BY <1>7 DEF OutboxError, ReadSMSCFails, LeaveFails, ErrorBoxFails, Crash, outbox
  <2>4. row'[m] = "free" => row[m] = "free" BY <1>t, <2>3 DEF Delete
  <2> QED BY <1>t, <1>o, <2>1, <2>2, <2>4, LetsGo
<1>8. CASE MoveSMS(d) \/ ErrorBox(d)
  <2>1. attempts' = attempts /\ retries' = retries /\ mishaps' = mishaps + 0
    BY <1>8, <1>m DEF MoveSMS, ErrorBox, seen
  <2>2. pc'[d] = "idle" /\ Delete(Id(d))
    BY <1>8, <1>t DEF MoveSMS, ErrorBox, Return
  <2>3. m # Id(d)
    <3>1. m = Id(d) => ~Present(m)' BY <1>t, <2>2, DeleteKeeps
    <3> QED BY <3>1
  <2>4. ~Holds(d, m) BY <2>3 DEF Holds
  <2>5. row'[m] = row[m] BY <1>t, <2>2, <2>3 DEF Delete
  <2> QED BY <1>t, <1>o, <2>1, <2>2, <2>4, <2>5, LetsGo
<1>9. CASE PhoneAnswers(d)
  <2>1. /\ pc' = pc /\ job' = job /\ row' = row
        /\ attempts' = attempts /\ retries' = retries /\ mishaps' = mishaps + 0
    BY <1>9, <1>m DEF PhoneAnswers, outbox
  <2>2. /\ Holds(d, m)' <=> Holds(d, m)
        /\ Trying(d, m)' <=> Trying(d, m)
        /\ Readers(m)' = Readers(m)
    BY <2>1 DEF Holds, Trying, Readers, Id
  <2> QED BY <1>t, <1>o, <2>1, <2>2, DaemonKept
<1> QED BY <1>1, <1>2, <1>3, <1>4, <1>5, <1>6, <1>7, <1>8, <1>9 DEF Step

\* Authors and time: a claim lapses under its holder only by a mishap.
LEMMA TimeCovers ==
    ASSUME AInv, CInv', NEW m \in Messages, Present(m),
           UNCHANGED vars \/ \E x \in Messages : Create(x) \/ Expire(x) \/ Overtake(x)
    PROVE  Covered(m)'
<1>t. /\ TInv /\ TInv' /\ row \in [Messages -> RowState] /\ mishaps \in Nat
      /\ Covered(m) /\ IsFiniteSet(Readers(m)) /\ Written
  BY MishapsAssumption DEF AInv, CInv, TInv, TypeOK, Counted
<1>1. UNCHANGED <<pc, job, retries, attempts>>
  BY DEF Create, CreateUpTo, Expire, Overtake, vars, outbox, local, seen
<1>2. Readers(m)' = Readers(m) BY <1>1 DEF Readers, Id
<1>3. \A d \in Daemons : (Holds(d, m)' <=> Holds(d, m)) /\ (Trying(d, m)' <=> Trying(d, m))
  BY <1>1 DEF Holds, Trying, Id
<1>4. \E k \in {0, 1} : mishaps' = mishaps + k /\ Ready(m)' <= Ready(m) + k
  <2>1. CASE UNCHANGED <<row, mishaps>>
    <3>1. Ready(m)' = Ready(m) BY <1>3, <2>1 DEF Ready
    <3>2. Ready(m)' <= Ready(m) + 0 /\ mishaps' = mishaps + 0 BY <1>t, <2>1, <3>1 DEF Ready
    <3> QED BY <3>2
  <2>2. ASSUME NEW x \in Messages, Create(x)
        PROVE  mishaps' = mishaps + 0 /\ Ready(m)' <= Ready(m) + 0
    <3>1. row'[m] = row[m]
      <4>1. row' = row \/ (stored[x] = 0 /\ row' = [row EXCEPT ![x] = "free"])
        BY <2>2 DEF Create, CreateUpTo
      <4>2. stored[x] = 0 => ~Present(x) BY <1>t DEF Written, Present
      <4> QED BY <1>t, <4>1, <4>2
    <3>2. Ready(m)' = Ready(m) BY <1>3, <3>1 DEF Ready
    <3> QED BY <1>t, <2>2, <3>2 DEF Create, CreateUpTo, Ready
  <2>3. ASSUME NEW x \in Messages, Expire(x)
        PROVE  mishaps' = mishaps + 0 /\ Ready(m)' <= Ready(m) + 0
    <3>1. x = m => Ready(m) = 1 BY <2>3 DEF Expire, Ready
    <3>2. x # m => row'[m] = row[m] BY <1>t, <2>3 DEF Expire
    <3>3. x # m => Ready(m)' = Ready(m) BY <1>3, <3>2 DEF Ready
    <3>4. Ready(m)' <= Ready(m) BY <3>1, <3>3 DEF Ready
    <3> QED BY <1>t, <2>3, <3>4 DEF Expire, Ready
  <2>4. ASSUME NEW x \in Messages, Overtake(x)
        PROVE  mishaps' = mishaps + 1 /\ Ready(m)' <= Ready(m) + 1
    BY <2>4 DEF Overtake, Mishap, Ready
  <2> QED BY <2>1, <2>2, <2>3, <2>4 DEF vars, outbox
<1>5. PICK k \in {0, 1} : mishaps' = mishaps + k /\ Ready(m)' <= Ready(m) + k BY <1>4
<1>6. Cardinality(Readers(m)) \in Nat BY <1>t, FS_CardinalityType
<1>7. Coming(m)' <= Coming(m) + k
  <2>1. Ready(m) \in {0, 1} /\ Ready(m)' \in {0, 1} BY DEF Ready
  <2> QED BY <1>2, <1>5, <1>6, <2>1 DEF Coming
<1>8. attempts'[m] = attempts[m] /\ retries'[m] = retries[m] /\ k \in Nat
      /\ \A d \in Daemons : job'[d].retries = job[d].retries
  BY <1>1
<1> QED BY <1>t, <1>2, <1>3, <1>5, <1>7, <1>8, CoveredKept

\* Tries and retries are counted only while the message has its row.
LEMMA CountsStay ==
    ASSUME TInv, [Next]_vars, NEW m \in Messages, ~Present(m)
    PROVE  attempts'[m] = attempts[m] /\ retries'[m] = retries[m]
<1>t. attempts \in [Messages -> Nat] /\ retries \in [Messages -> Nat] BY DEF TInv, TypeOK
<1>1. ASSUME NEW d \in Daemons, Take(d) PROVE attempts'[m] = attempts[m] /\ retries'[m] = retries[m]
  <2>1. retries' = retries /\ Id(d) \in Messages
    BY <1>1 DEF Take, TakeUpTo, outbox, TInv, BusyHasId
  <2>2. \/ UNCHANGED attempts
        \/ attempts' = [attempts EXCEPT ![Id(d)] = IF Present(Id(d)) THEN @ + 1 ELSE @]
    BY <1>1 DEF Take, TakeUpTo
  <2> QED BY <1>t, <2>1, <2>2
<1>2. ASSUME NEW d \in Daemons, UpdateRetries(d)
      PROVE  attempts'[m] = attempts[m] /\ retries'[m] = retries[m]
  BY <1>t, <1>2 DEF UpdateRetries, seen
<1>3. ASSUME NEW d \in Daemons, Step(d), ~Take(d), ~UpdateRetries(d)
      PROVE  UNCHANGED <<attempts, retries>>
  BY <1>3 DEF Step, Select, Lock, OutboxError, ReadSMSCFails, Submit, SubmitFails, Refresh,
              Refused, GiveUp, Record, Mark, RecordFails, MoveSMS, LeaveFails, ErrorBox,
              ErrorBoxFails, outbox, seen
<1>4. CASE \/ UNCHANGED vars
           \/ \E d \in Daemons : PhoneAnswers(d) \/ Crash(d)
           \/ \E x \in Messages : Create(x) \/ Expire(x) \/ Overtake(x)
  BY <1>4 DEF vars, PhoneAnswers, Crash, Create, CreateUpTo, Expire, Overtake, outbox, seen
<1> QED BY <1>1, <1>2, <1>3, <1>4 DEF Next
\* A row is written by the author alone.
LEMMA WrittenByCreate ==
    ASSUME TInv, [Next]_vars, NEW m \in Messages, row[m] = "unwritten", row'[m] # "unwritten"
    PROVE  Create(m)
<1>t. row \in [Messages -> RowState] BY DEF TInv, TypeOK
<1>1. ASSUME NEW d \in Daemons, Step(d) PROVE FALSE
  <2>1. ~Delete(Id(d)) BY <1>t DEF Delete, Present
  <2>2. CASE Lock(d) \/ Refresh(d) \/ UpdateRetries(d)
    BY <1>t, <2>2 DEF Lock, Refresh, UpdateRetries, Present
  <2>3. row' # row OBVIOUS
  <2>4. CASE ~Lock(d) /\ ~Refresh(d) /\ ~UpdateRetries(d)
    BY <1>1, <2>1, <2>3, <2>4
       DEF Step, Select, Take, TakeUpTo, OutboxError, ReadSMSCFails, Submit, SubmitFails,
           Refused, GiveUp, Record, Mark, RecordFails, MoveSMS, LeaveFails, ErrorBox,
           ErrorBoxFails, outbox
  <2> QED BY <2>2, <2>4
<1>2. CASE UNCHANGED vars \/ \E d \in Daemons : PhoneAnswers(d) \/ Crash(d)
  BY <1>2 DEF vars, PhoneAnswers, Crash, outbox
<1>3. ASSUME NEW x \in Messages, Create(x) \/ Expire(x) \/ Overtake(x) PROVE Create(m)
  BY <1>t, <1>3 DEF Create, CreateUpTo, Expire, Overtake
<1> QED BY <1>1, <1>2, <1>3 DEF Next

\* A message that has just been stored has not been tried.
LEMMA CreateCovers ==
    ASSUME AInv, CInv', NEW m \in Messages, Create(m), row[m] = "unwritten", row'[m] # "unwritten"
    PROVE  Covered(m)'
<1>t. mishaps \in Nat /\ row \in [Messages -> RowState]
  BY MishapsAssumption DEF AInv, CInv, TInv, TypeOK
<1>1. UNCHANGED <<pc, job, retries, attempts, mishaps>> BY DEF Create, CreateUpTo, local, seen
<1>2. \A d \in Daemons : ~Holds(d, m)' BY <1>1 DEF AInv, CInv, HeldWritten, Holds, Id
<1>3. Readers(m)' = {} BY <1>2 DEF Readers, Holds, Sending
<1>4. Coming(m)' = 1
  <2>1. Cardinality(Readers(m)') = 0 BY <1>3, FS_EmptySet
  <2>2. Ready(m)' = 1 BY <1>2 DEF Ready
  <2> QED BY <2>1, <2>2 DEF Coming
<1>5. attempts'[m] = 0 /\ retries'[m] = 0 BY <1>1 DEF AInv, Counted
<1> QED BY <1>t, <1>1, <1>2, <1>4, <1>5 DEF Covered, Trying

LEMMA CountedPreserved ==
    ASSUME AInv, CInv', [Next]_vars, NEW m \in Messages PROVE Counted(m)'
<1>t. TInv /\ IsFiniteSet(Readers(m)) /\ Frame(m)
  BY FrameStep DEF AInv, CInv, Counted
<1>1. IsFiniteSet(Readers(m)')
  <2>1. ASSUME NEW d \in Daemons, Step(d) \/ PhoneAnswers(d) \/ Crash(d)
        PROVE  IsFiniteSet(Readers(m)')
    BY <1>t, <2>1, OnlyActor, ReadersStep
  <2>2. CASE UNCHANGED vars \/ \E x \in Messages : Create(x) \/ Expire(x) \/ Overtake(x)
    <3>1. UNCHANGED <<pc, job>>
      BY <2>2 DEF Create, CreateUpTo, Expire, Overtake, vars, local
    <3> QED BY <1>t, <3>1 DEF Readers, Id
  <2> QED BY <2>1, <2>2 DEF Next
<1>2. row'[m] = "unwritten" => attempts'[m] = 0 /\ retries'[m] = 0
  <2>1. row'[m] = "unwritten" => row[m] = "unwritten" /\ ~Present(m) BY <1>t DEF Frame, Present
  <2> QED BY <1>t, <2>1, CountsStay DEF AInv, Counted
<1>3. ASSUME Present(m)' PROVE Covered(m)'
  <2>1. CASE Present(m)
    BY <1>3, <2>1, DaemonCovers, TimeCovers DEF Next
  <2>2. CASE ~Present(m)
    <3>1. row[m] = "unwritten" /\ row'[m] # "unwritten" BY <1>t, <1>3, <2>2 DEF Frame, Present
    <3> QED BY <1>t, <3>1, WrittenByCreate, CreateCovers
  <2> QED BY <2>1, <2>2
<1> QED BY <1>1, <1>2, <1>3 DEF Counted

\* A try that is counted begins with no more than MaxRetries retries, and was
\* among those coming.
LEMMA BoundPreserved ==
    ASSUME AInv, CInv', [Next]_vars PROVE TriesAreBounded'
<1>t. /\ TInv /\ mishaps \in Nat /\ mishaps' \in Nat /\ MaxRetries \in Nat
      /\ attempts \in [Messages -> Nat]
  BY MishapsAssumption, RetriesAssumption DEF AInv, CInv, TInv, TypeOK
<1>1. mishaps <= mishaps'
  <2>1. ASSUME NEW d \in Daemons, Step(d) PROVE mishaps' = mishaps \/ mishaps' = mishaps + 1
    <3>1. CASE \/ \E x \in Messages : Select(d, x)
               \/ Lock(d) \/ Take(d) \/ Submit(d) \/ SubmitFails(d) \/ Refresh(d) \/ Refused(d)
               \/ GiveUp(d) \/ Record(d) \/ Mark(d) \/ UpdateRetries(d) \/ MoveSMS(d) \/ ErrorBox(d)
      BY <3>1 DEF Select, Lock, Take, TakeUpTo, Submit, SubmitFails, Refresh, Refused, GiveUp,
                  Record, Mark, UpdateRetries, MoveSMS, ErrorBox
    <3>2. CASE \/ OutboxError(d) \/ ReadSMSCFails(d) \/ RecordFails(d) \/ LeaveFails(d)
               \/ ErrorBoxFails(d)
      BY <3>2 DEF OutboxError, ReadSMSCFails, RecordFails, LeaveFails, ErrorBoxFails, Mishap
    <3> QED BY <2>1, <3>1, <3>2 DEF Step
  <2>2. ASSUME NEW d \in Daemons, PhoneAnswers(d) \/ Crash(d)
        PROVE  mishaps' = mishaps \/ mishaps' = mishaps + 1
    BY <2>2 DEF PhoneAnswers, Crash, Mishap
  <2>3. ASSUME NEW x \in Messages, Create(x) \/ Expire(x) \/ Overtake(x)
        PROVE  mishaps' = mishaps \/ mishaps' = mishaps + 1
    BY <2>3 DEF Create, CreateUpTo, Expire, Overtake, Mishap
  <2>4. UNCHANGED vars => mishaps' = mishaps BY DEF vars
  <2>5. mishaps' = mishaps \/ mishaps' = mishaps + 1 BY <2>1, <2>2, <2>3, <2>4 DEF Next
  <2> QED BY <1>t, <2>5
<1> SUFFICES ASSUME NEW m \in Messages PROVE attempts'[m] <= MaxRetries + 1 + mishaps'
  BY DEF TriesAreBounded
<1>2. attempts[m] <= MaxRetries + 1 + mishaps /\ attempts[m] \in Nat
  BY <1>t DEF AInv, TriesAreBounded
<1>3. CASE attempts'[m] = attempts[m] BY <1>t, <1>1, <1>2, <1>3
<1>4. CASE attempts'[m] # attempts[m]
  <2>1. Present(m) /\ Covered(m) /\ IsFiniteSet(Readers(m))
    BY <1>t, <1>4, CountsStay DEF AInv, Counted
  <2>2. PICK d \in Daemons : Take(d)
    <3>1. ASSUME NEW d \in Daemons, Step(d), ~Take(d) PROVE UNCHANGED attempts
      BY <3>1 DEF Step, Select, Lock, OutboxError, ReadSMSCFails, Submit, SubmitFails, Refresh,
                  Refused, GiveUp, Record, Mark, RecordFails, UpdateRetries, MoveSMS, LeaveFails,
                  ErrorBox, ErrorBoxFails, seen
    <3>2. CASE \/ UNCHANGED vars
               \/ \E d \in Daemons : PhoneAnswers(d) \/ Crash(d)
               \/ \E x \in Messages : Create(x) \/ Expire(x) \/ Overtake(x)
      BY <1>4, <3>2 DEF vars, PhoneAnswers, Crash, Create, CreateUpTo, Expire, Overtake, seen
    <3> QED BY <1>4, <3>1, <3>2 DEF Next
  <2>3. /\ pc[d] = "read" /\ Id(d) \in Messages
        /\ retries[Id(d)] <= MaxRetries
        /\ attempts' = [attempts EXCEPT ![Id(d)] = IF Present(Id(d)) THEN @ + 1 ELSE @]
    BY <1>t, <1>4, <2>2 DEF Take, TakeUpTo, TInv, BusyHasId
  <2>4. m = Id(d) /\ attempts'[m] = attempts[m] + 1
    BY <1>t, <1>4, <2>1, <2>3
  <2>5. Coming(m) >= 1
    <3>1. d \in Readers(m) BY <2>3, <2>4 DEF Readers
    <3>2. Cardinality(Readers(m)) \in Nat /\ Cardinality(Readers(m)) # 0
      BY <2>1, <3>1, FS_CardinalityType, FS_EmptySet
    <3> QED BY <3>2 DEF Coming, Ready
  <2>6. retries[m] \in Nat /\ Coming(m) \in Nat BY <1>t, <2>1, CountTypes
  <2>7. attempts[m] + Coming(m) <= retries[m] + 1 + mishaps BY <2>1 DEF Covered
  <2>8. attempts[m] + 1 <= MaxRetries + 1 + mishaps BY <1>t, <1>2, <2>3, <2>4, <2>5, <2>6, <2>7
  <2> QED BY <1>t, <1>1, <1>2, <2>4, <2>8
<1> QED BY <1>3, <1>4

LEMMA CountInit == Init => AInv
<1> SUFFICES ASSUME Init PROVE AInv OBVIOUS
<1>1. CInv BY ClaimInit
<1>2. ASSUME NEW m \in Messages PROVE Counted(m)
  <2>1. Readers(m) = {} BY DEF Init, Readers
  <2>2. IsFiniteSet(Readers(m)) BY <2>1, FS_EmptySet
  <2>3. attempts[m] = 0 /\ retries[m] = 0 /\ ~Present(m) BY DEF Init, Present
  <2> QED BY <2>2, <2>3 DEF Counted
<1>3. TriesAreBounded BY RetriesAssumption DEF Init, TriesAreBounded
<1> QED BY <1>1, <1>2, <1>3 DEF AInv

\* A message is tried MaxRetries + 1 times, and once more for each daemon that
\* ended, each failed access and each claim that lapsed under its holder, however
\* many daemons are at it and in whatever order they count their retries.
THEOREM TriesBounded == Spec => []TriesAreBounded
<1>1. ASSUME AInv, [Next]_vars PROVE AInv'
  <2>1. CInv' BY <1>1, ClaimPreserved DEF AInv
  <2>2. \A m \in Messages : Counted(m)' BY <1>1, <2>1, CountedPreserved
  <2>3. TriesAreBounded' BY <1>1, <2>1, BoundPreserved
  <2> QED BY <2>1, <2>2, <2>3 DEF AInv
<1>2. AInv => TriesAreBounded BY DEF AInv
<1> QED BY <1>1, <1>2, CountInit, PTL DEF Spec
-----------------------------------------------------------------------------
(***************************************************************************)
(* On air.  As long as nothing went wrong and no submission was given up,  *)
(* a part that was on air is marked, its message is deleted, or the one    *)
(* daemon that holds the message knows that it was.                        *)
(***************************************************************************)
Quiet == ~givenUp /\ mishaps = 0

HeldLocked == \A d \in Daemons, m \in Messages : Holds(d, m) => row[m] = "locked"

\* A phone works on one part, the one its daemon waits for without a report.
InFlight(d) == phone[d] # <<>> =>
    /\ pc[d] = "wait" /\ status[d] = "timeout"
    /\ phone[d] = << <<Id(d), At(d)>> >>

\* A daemon sends parts that have their rows, and from the one it is at onwards
\* it knows which ones are marked.
Ahead(d) == pc[d] \in AtPart =>
    /\ At(d) \in (1..job[d].number) \ job[d].skip
    /\ 1..job[d].number \subseteq Rows(Id(d))
    /\ \A q \in marked[Id(d)] : q \in At(d)..job[d].number => q \in job[d].skip

\* A part nobody will send again, and one whose report is in or will not come.
Behind(d, p) == pc[d] = "move" \/ (pc[d] = "mark" /\ At(d) = p)
Over(m, p) ==
    \/ p \in marked[m]
    \/ row[m] = "gone"
    \/ \E d \in Daemons : Holds(d, m) /\ Behind(d, p)
Reported(d, p) == pc[d] = "wait" /\ At(d) = p /\ phone[d] = <<>> /\ status[d] # "error"
Waited(m, p) == \E d \in Daemons : Holds(d, m) /\ Reported(d, p)

OnceAt(m, p) ==
    /\ Recorded(m, p) => Over(m, p)
    /\ air[m][p] # 0 => Over(m, p) \/ Waited(m, p)
    /\ air[m][p] <= 1

Calm ==
    /\ overtaken = {}
    /\ HeldLocked
    /\ \A d \in Daemons : InFlight(d) /\ Ahead(d)
    /\ \A m \in Messages, p \in Part : OnceAt(m, p)

QInv == CInv /\ (Quiet => Calm)

\* The steps that are neither mishaps nor give a submission up.
QuietAct(d) ==
    \/ \E m \in Messages : Select(d, m)
    \/ Lock(d) \/ Take(d) \/ Submit(d) \/ SubmitFails(d) \/ Refresh(d) \/ Refused(d)
    \/ Record(d) \/ Mark(d) \/ UpdateRetries(d) \/ MoveSMS(d) \/ ErrorBox(d)
    \/ PhoneAnswers(d)
QuietTime ==
    \/ \E m \in Messages : Create(m) \/ Expire(m)
    \/ UNCHANGED vars

LEMMA QuietNext ==
    ASSUME TInv, [Next]_vars, Quiet'
    PROVE  Quiet /\ overtaken' = overtaken /\ (QuietTime \/ \E d \in Daemons : QuietAct(d))
<1>t. mishaps \in Nat BY MishapsAssumption DEF TInv, TypeOK
<1>m. ~Mishap BY <1>t DEF Mishap, Quiet
<1>1. ASSUME NEW d \in Daemons, QuietAct(d)
      PROVE  mishaps' = mishaps /\ givenUp' = givenUp /\ overtaken' = overtaken
  <2>1. CASE PhoneAnswers(d) BY <2>1 DEF PhoneAnswers
  <2>2. CASE ~PhoneAnswers(d)
    BY <1>1, <2>2 DEF QuietAct, Select, Lock, Take, TakeUpTo, Submit, SubmitFails, Refresh,
                      Refused, Record, Mark, UpdateRetries, MoveSMS, ErrorBox, seen
  <2> QED BY <2>1, <2>2
<1>2. ASSUME QuietTime
      PROVE  mishaps' = mishaps /\ givenUp' = givenUp /\ overtaken' = overtaken
  BY <1>2 DEF QuietTime, Create, CreateUpTo, Expire, vars, seen
<1>3. ASSUME NEW d \in Daemons, Step(d) PROVE QuietAct(d)
  <2>1. ~OutboxError(d) /\ ~ReadSMSCFails(d) /\ ~RecordFails(d) /\ ~LeaveFails(d)
        /\ ~ErrorBoxFails(d)
    BY <1>m DEF OutboxError, ReadSMSCFails, RecordFails, LeaveFails, ErrorBoxFails
  <2>2. ~GiveUp(d)
    <3>1. GiveUp(d) => givenUp' = TRUE BY DEF GiveUp
    <3> QED BY <3>1, Zenon DEF Quiet
  <2> QED BY <1>3, <2>1, <2>2 DEF Step, QuietAct
<1>4. \A d \in Daemons : ~Crash(d) BY <1>m DEF Crash
<1>5. \A m \in Messages : ~Overtake(m) BY <1>m DEF Overtake
<1>6. QuietTime \/ \E d \in Daemons : QuietAct(d)
  <2>1. ASSUME NEW d \in Daemons, PhoneAnswers(d) PROVE QuietAct(d) BY <2>1 DEF QuietAct
  <2> QED BY <1>3, <1>4, <1>5, <2>1 DEF Next, QuietTime
<1>7. mishaps' = mishaps /\ givenUp' = givenUp /\ overtaken' = overtaken BY <1>1, <1>2, <1>6
<1> QED BY <1>6, <1>7, Zenon DEF Quiet

\* A calm daemon is alone with its message.
LEMMA Alone ==
    ASSUME CInv, Calm, NEW m \in Messages, NEW d \in Daemons, NEW e \in Daemons,
           Holds(d, m), Holds(e, m)
    PROVE  d = e
BY DEF CInv, ClaimsExclude, Calm

\* A step of one daemon changes neither another's phone nor what that one told.
LEMMA OwnPhone ==
    ASSUME TInv, NEW d \in Daemons, QuietAct(d), NEW e \in Daemons, e # d
    PROVE  /\ pc'[e] = pc[e] /\ job'[e] = job[e]
           /\ phone'[e] = phone[e] /\ status'[e] = status[e]
<1>t. phone \in [Daemons -> Seq(Messages \X Part)]
      /\ status \in [Daemons -> {"timeout", "ok", "error"}]
  BY DEF TInv, TypeOK
<1>1. pc'[e] = pc[e] /\ job'[e] = job[e] BY OnlyActor DEF QuietAct, Step
<1>2. CASE Submit(d) BY <1>t, <1>1, <1>2 DEF Submit
<1>3. CASE PhoneAnswers(d) BY <1>t, <1>1, <1>3 DEF PhoneAnswers
<1>4. CASE ~Submit(d) /\ ~PhoneAnswers(d)
  BY <1>1, <1>4 DEF QuietAct, Select, Lock, Take, TakeUpTo, SubmitFails, Refresh, Refused,
                    Record, Mark, UpdateRetries, MoveSMS, ErrorBox, local
<1> QED BY <1>2, <1>3, <1>4

\* The one who deletes a message is the one who holds it.
LEMMA QuietGone ==
    ASSUME CInv, Calm, NEW m \in Messages, row[m] # "gone", row'[m] = "gone",
           QuietTime \/ \E d \in Daemons : QuietAct(d)
    PROVE  \E d \in Daemons : (MoveSMS(d) \/ ErrorBox(d)) /\ m = Id(d) /\ Holds(d, m)
<1>t. row \in [Messages -> RowState] BY DEF CInv, TInv, TypeOK
<1>1. CASE QuietTime
  BY <1>t, <1>1 DEF QuietTime, Create, CreateUpTo, Expire, vars, outbox
<1>2. ASSUME NEW d \in Daemons, QuietAct(d)
      PROVE  (MoveSMS(d) \/ ErrorBox(d)) /\ m = Id(d) /\ Holds(d, m)
  <2>1. CASE MoveSMS(d) \/ ErrorBox(d)
    <3>1. Delete(Id(d)) BY <2>1 DEF MoveSMS, ErrorBox
    <3>2. m = Id(d) BY <1>t, <3>1 DEF Delete
    <3> QED BY <2>1, <3>2 DEF MoveSMS, ErrorBox, Holds, Sending
  <2>2. CASE Lock(d) \/ Refresh(d) \/ UpdateRetries(d)
    BY <1>t, <2>2 DEF Lock, Refresh, UpdateRetries
  <2>3. CASE ~MoveSMS(d) /\ ~ErrorBox(d) /\ ~Lock(d) /\ ~Refresh(d) /\ ~UpdateRetries(d)
    BY <1>2, <2>3 DEF QuietAct, Select, Take, TakeUpTo, Submit, SubmitFails, Refused, Record,
                      Mark, PhoneAnswers, outbox
  <2> QED BY <2>1, <2>2, <2>3
<1> QED BY <1>1, <1>2

\* What is held stays locked.
LEMMA HeldStaysLocked ==
    ASSUME CInv, CInv', Calm, [Next]_vars, overtaken' = overtaken,
           QuietTime \/ \E d \in Daemons : QuietAct(d)
    PROVE  HeldLocked'
<1> SUFFICES ASSUME NEW d \in Daemons, NEW m \in Messages, Holds(d, m)'
             PROVE  row'[m] = "locked"
  BY DEF HeldLocked
<1>t. TInv /\ row' \in [Messages -> RowState] /\ Frame(m)
  BY FrameStep DEF CInv, TInv, TypeOK
<1>1. CASE Holds(d, m)
  <2>1. row[m] = "locked" /\ m \notin overtaken' BY <1>1 DEF Calm, HeldLocked
  <2>2. row'[m] # "free"
    <3>1. stored[m] # 0 BY <2>1 DEF CInv, Written
    <3> QED BY <1>t, <1>1, <2>1, <3>1 DEF Frame
  <2>3. row'[m] # "unwritten" BY <1>t, <2>1 DEF Frame
  <2>4. row'[m] # "gone"
    <3> SUFFICES ASSUME row'[m] = "gone" PROVE FALSE OBVIOUS
    <3>1. PICK e \in Daemons : (MoveSMS(e) \/ ErrorBox(e)) /\ Holds(e, m)
      BY <2>1, QuietGone
    <3>2. e = d BY <1>1, <3>1, Alone
    <3>3. pc \in [Daemons -> PC] BY <1>t DEF TInv, TypeOK
    <3>4. pc'[d] = "idle" BY <3>1, <3>2, <3>3 DEF MoveSMS, ErrorBox, Return
    <3> QED BY <3>4 DEF Holds, Sending
  <2> QED BY <1>t, <2>2, <2>3, <2>4 DEF RowState
<1>2. CASE ~Holds(d, m)
  <2>1. ASSUME NEW e \in Daemons, QuietAct(e) PROVE row'[m] = "locked"
    <3>1. e = d
      <4>1. e # d => pc'[d] = pc[d] /\ job'[d] = job[d] BY <1>t, <2>1, OwnPhone
      <4> QED BY <1>2, <4>1 DEF Holds, Id
    <3>2. Step(d) \/ PhoneAnswers(d) BY <2>1, <3>1 DEF QuietAct, Step
    <3> QED BY <1>t, <1>2, <3>2, HoldStep
  <2>2. CASE QuietTime
    BY <1>2, <2>2 DEF QuietTime, Create, CreateUpTo, Expire, vars, local, Holds, Id
  <2> QED BY <2>1, <2>2
<1> QED BY <1>1, <1>2

\* A step with nothing amiss, before or after it.
CalmStep ==
    /\ CInv /\ CInv' /\ Calm /\ HeldLocked'
    /\ [Next]_vars /\ overtaken' = overtaken
    /\ QuietTime \/ \E d \in Daemons : QuietAct(d)

LEMMA StepTypes ==
    ASSUME CalmStep
    PROVE  /\ TInv /\ TypeOK /\ HeldLocked /\ BusyHasId
           /\ pc \in [Daemons -> PC] /\ job \in [Daemons -> JobType]
           /\ row \in [Messages -> RowState] /\ row' \in [Messages -> RowState]
           /\ marked \in [Messages -> SUBSET Part]
           /\ \A m \in Messages : Frame(m)
BY FrameStep DEF CalmStep, CInv, TInv, TypeOK, Calm

\* The part a daemon is about to send is not behind it.
LEMMA NotOver ==
    ASSUME CInv, Calm, NEW d \in Daemons, NEW m \in Messages, Id(d) = m,
           pc[d] \in {"send", "wait"}
    PROVE  ~Over(m, At(d))
<1>t. Holds(d, m) /\ job[d] \in JobType
  BY DEF Holds, Sending, CInv, TInv, TypeOK
<1>1. At(d) \notin marked[m]
  <2>1. /\ At(d) \in (1..job[d].number) \ job[d].skip
        /\ \A q \in marked[m] : q \in At(d)..job[d].number => q \in job[d].skip
    BY DEF Calm, Ahead, AtPart
  <2>2. job[d].number \in Nat /\ At(d) \in Nat BY <1>t, JobFacts DEF At
  <2>3. At(d) \in At(d)..job[d].number BY <2>1, <2>2
  <2> QED BY <2>1, <2>3
<1>2. row[m] # "gone" BY <1>t DEF Calm, HeldLocked
<1>3. ASSUME NEW e \in Daemons, Holds(e, m), Behind(e, At(d)) PROVE FALSE
  <2>1. e = d BY <1>3, <1>t, Alone
  <2> QED BY <1>3, <2>1 DEF Behind
<1> QED BY <1>1, <1>2, <1>3 DEF Over

\* Only a daemon that marks a part of a message changes what is marked of it.
LEMMA MarkedStep ==
    ASSUME CalmStep, NEW m \in Messages
    PROVE  /\ marked[m] \subseteq marked'[m]
           /\ \/ marked'[m] = marked[m]
              \/ \E d \in Daemons : Mark(d) /\ Holds(d, m)
<1>t. marked \in [Messages -> SUBSET Part] BY StepTypes
<1>1. CASE QuietTime
  BY <1>1 DEF QuietTime, Create, CreateUpTo, Expire, vars, outbox
<1>2. ASSUME NEW d \in Daemons, QuietAct(d)
      PROVE  /\ marked[m] \subseteq marked'[m]
             /\ marked'[m] = marked[m] \/ (Mark(d) /\ Holds(d, m))
  <2>1. CASE Mark(d) BY <1>t, <2>1 DEF Mark, Holds, Sending
  <2>2. CASE ~Mark(d)
    <3>1. CASE PhoneAnswers(d) BY <3>1 DEF PhoneAnswers, outbox
    <3>2. CASE ~PhoneAnswers(d)
      BY <1>2, <2>2, <3>2 DEF QuietAct, Select, Lock, Take, TakeUpTo, Submit, SubmitFails,
                 Refresh, Refused, Record, UpdateRetries, MoveSMS, ErrorBox, outbox
    <3> QED BY <3>1, <3>2
  <2> QED BY <2>1, <2>2
<1> QED BY <1>1, <1>2 DEF CalmStep

\* The rows of a message stay while a daemon holds it.
LEMMA RowsStay ==
    ASSUME CalmStep, NEW m \in Messages, NEW d \in Daemons, Holds(d, m), row'[m] # "gone"
    PROVE  Rows(m) \subseteq Rows(m)'
<1>1. row[m] = "locked" BY StepTypes DEF HeldLocked
<1> QED BY <1>1, StepTypes, FrameHeld

\* A daemon that stays at its part has the same ahead of it.
LEMMA AheadStays ==
    ASSUME CalmStep, NEW e \in Daemons, job'[e] = job[e],
           pc[e] \in AtPart, pc'[e] \in AtPart, ~Mark(e)
    PROVE  Ahead(e)'
<1>1. PICK m \in Messages : m = Id(e) /\ m = Id(e)'
  BY StepTypes DEF BusyHasId, AtPart, Id
<1>2. Holds(e, m) /\ Holds(e, m)' BY <1>1 DEF Holds, Sending, AtPart
<1>3. Rows(m) \subseteq Rows(m)'
  <2>1. row'[m] = "locked" BY <1>2 DEF CalmStep, HeldLocked
  <2> QED BY <1>2, <2>1, RowsStay
<1>4. marked'[m] = marked[m]
  <2>1. ASSUME NEW d \in Daemons, Mark(d), Holds(d, m) PROVE FALSE
    <3>1. d = e BY <1>2, <2>1, Alone DEF CalmStep
    <3> QED BY <2>1, <3>1
  <2> QED BY <2>1, MarkedStep
<1>5. Ahead(e) BY DEF CalmStep, Calm
<1> QED BY <1>1, <1>3, <1>4, <1>5 DEF Ahead, At, Id

\* Where a daemon goes next is ahead of it.
LEMMA AheadNext ==
    ASSUME CalmStep, NEW d \in Daemons, NEW j \in JobType, NEW k \in Nat, Advance(d, j, k),
           1..j.number \subseteq Rows(j.id)',
           \A q \in marked'[j.id] : q \in (k + 1)..j.number => q \in j.skip
    PROVE  Ahead(d)'
<1>1. /\ job'[d].id = j.id /\ job'[d].number = j.number /\ job'[d].skip = j.skip
      /\ pc'[d] = "move" \/ (pc'[d] = "send" /\ job'[d].part \in Todo(j, k))
  BY StepTypes, AdvanceResult
<1>2. j.number \in Nat BY JobFacts
<1> SUFFICES ASSUME pc'[d] \in AtPart, NEW p \in Todo(j, k), p = job'[d].part PROVE Ahead(d)'
  BY <1>1 DEF Ahead, AtPart
<1>3. p \in 1..j.number /\ p \notin j.skip /\ p..j.number \subseteq (k + 1)..j.number
  BY <1>2 DEF Todo
<1> QED BY <1>1, <1>3 DEF Ahead, At, Id

\* What a daemon has just read is right.
LEMMA AheadTaken == ASSUME CalmStep, NEW d \in Daemons, Take(d) PROVE Ahead(d)'
<1>1. PICK m \in Messages : m = Id(d)
  BY StepTypes DEF Take, TakeUpTo, BusyHasId
<1>2. Holds(d, m) BY <1>1 DEF Take, TakeUpTo, Holds, Sending
<1>3. PICK n \in 0..Length[m] :
         /\ ReadsUpTo(m, n)
         /\ Advance(d, Loaded(m, n), 0) \/ pc' = [pc EXCEPT ![d] = "errorbox"]
  BY <1>1 DEF Take, TakeUpTo
<1>4. CASE pc' = [pc EXCEPT ![d] = "errorbox"]
  BY <1>4, StepTypes DEF Ahead, AtPart
<1>5. CASE Advance(d, Loaded(m, n), 0)
  <2>1. PICK j \in JobType : j = Loaded(m, n) BY StepTypes, LoadedType
  <2>2. j.id = m /\ j.number = n /\ j.skip = marked[m] \cap 1..n BY <2>1 DEF Loaded
  <2>3. n \in Nat /\ UNCHANGED <<row, rest, marked>>
    BY PartFacts DEF Take, TakeUpTo, outbox
  <2>4. 1..n \subseteq Rows(m)
    <3>1. Present(m) BY <1>2, StepTypes DEF HeldLocked, Present
    <3>2. 2..n \subseteq rest[m] BY <1>3, <3>1, <2>3 DEF ReadsUpTo, Readable
    <3>3. \A i \in 1..n : i = 1 \/ i \in 2..n BY <2>3
    <3> QED BY <3>1, <3>2, <3>3 DEF Rows
  <2>5. 1..j.number \subseteq Rows(j.id)' BY <2>2, <2>3, <2>4 DEF Rows, Present
  <2>6. \A q \in marked'[j.id] : q \in (0 + 1)..j.number => q \in j.skip
    BY <2>2, <2>3
  <2> QED BY <1>5, <2>1, <2>5, <2>6, AheadNext
<1> QED BY <1>3, <1>4, <1>5

\* What a daemon does next, reported or marked, leaves out what is done.
LEMMA AheadSent ==
    ASSUME CalmStep, NEW d \in Daemons, Record(d) \/ Mark(d), Advance(d, job[d], At(d))
    PROVE  Ahead(d)'
<1>1. PICK m \in Messages : m = Id(d)
  BY StepTypes DEF Record, Mark, BusyHasId
<1>2. job[d] \in JobType /\ job[d].id = m /\ At(d) \in Nat /\ job[d].number \in Nat
  BY <1>1, StepTypes, JobFacts DEF At, Id
<1>3. /\ 1..job[d].number \subseteq Rows(m)
      /\ \A q \in marked[m] : q \in At(d)..job[d].number => q \in job[d].skip
  BY <1>1 DEF CalmStep, Calm, Ahead, AtPart, Record, Mark
<1>4. Rows(m)' = Rows(m) BY DEF Record, Mark, outbox, Rows, Present
<1>5. marked'[m] \subseteq marked[m] \cup {At(d)}
  <2>1. CASE Record(d) BY <2>1 DEF Record, outbox
  <2>2. CASE Mark(d)
    <3>1. marked' = [marked EXCEPT ![m] = @ \cup ({At(d)} \cap Rows(m))] BY <1>1, <2>2 DEF Mark
    <3> QED BY <3>1, StepTypes
  <2> QED BY <2>1, <2>2
<1>6. \A q \in marked'[m] : q \in (At(d) + 1)..job[d].number => q \in job[d].skip
  BY <1>2, <1>3, <1>5
<1> QED BY <1>2, <1>3, <1>4, <1>6, AheadNext

LEMMA MarkMoves == ASSUME CalmStep, NEW d \in Daemons, Mark(d) PROVE pc'[d] \in {"send", "move"}
<1>1. Advance(d, job[d], At(d)) /\ job[d] \in JobType /\ At(d) \in Nat
  BY StepTypes, JobFacts DEF Mark, At
<1> QED BY <1>1, StepTypes, AdvanceType

LEMMA AheadKept == ASSUME CalmStep, NEW e \in Daemons PROVE Ahead(e)'
<1> SUFFICES ASSUME pc'[e] \in AtPart PROVE Ahead(e)' BY DEF Ahead
<1>1. CASE QuietTime
  <2>1. pc' = pc /\ job' = job
    BY <1>1 DEF QuietTime, Create, CreateUpTo, Expire, vars, local
  <2>2. ~Mark(e) BY <2>1, MarkMoves DEF Mark
  <2> QED BY <2>1, <2>2, AheadStays
<1>2. ASSUME NEW d \in Daemons, d # e, QuietAct(d) PROVE Ahead(e)'
  <2>1. pc'[e] = pc[e] /\ job'[e] = job[e] BY <1>2, StepTypes, OwnPhone
  <2>2. ~Mark(e) BY <2>1, MarkMoves DEF Mark
  <2> QED BY <2>1, <2>2, AheadStays
<1>3. CASE QuietAct(e)
  <2>1. CASE Take(e) BY <2>1, AheadTaken
  <2>2. CASE Mark(e)
    BY <2>2, AheadSent DEF Mark
  <2>3. CASE Record(e) /\ Advance(e, job[e], At(e)) BY <2>3, AheadSent
  <2>4. CASE Record(e) /\ ~Advance(e, job[e], At(e)) /\ ~Mark(e)
    <3>1. job' = job /\ pc[e] \in AtPart BY <2>4 DEF Record, AtPart
    <3> QED BY <2>4, <3>1, AheadStays
  <2>5. CASE Submit(e) /\ ~Mark(e)
    BY <2>5, AheadStays DEF Submit, Goto, AtPart
  <2>6. CASE (Refresh(e) \/ PhoneAnswers(e)) /\ ~Mark(e)
    BY <2>6, AheadStays DEF Refresh, PhoneAnswers, local
  <2>7. CASE \/ \E m \in Messages : Select(e, m)
             \/ Lock(e) \/ SubmitFails(e) \/ Refused(e)
    <3>1. pc'[e] \in {"idle", "lock", "read", "failed"}
      BY <2>7, StepTypes DEF Select, Lock, SubmitFails, Refused, Goto
    <3> QED BY <3>1 DEF AtPart
  <2>8. CASE UpdateRetries(e) \/ MoveSMS(e) \/ ErrorBox(e)
    BY <2>8, StepTypes DEF UpdateRetries, MoveSMS, ErrorBox, Return, AtPart
  <2> QED BY <1>3, <2>1, <2>2, <2>3, <2>4, <2>5, <2>6, <2>7, <2>8 DEF QuietAct
<1> QED BY <1>1, <1>2, <1>3 DEF CalmStep

\* A phone is handed a part when it has none, and it is the part waited for.
LEMMA FlightKept == ASSUME CalmStep, NEW e \in Daemons PROVE InFlight(e)'
<1>t. phone \in [Daemons -> Seq(Messages \X Part)]
      /\ status \in [Daemons -> {"timeout", "ok", "error"}]
  BY StepTypes DEF TypeOK
<1>i. InFlight(e) BY DEF CalmStep, Calm
<1>u. ASSUME pc'[e] = pc[e], job'[e] = job[e], status'[e] = status[e], phone'[e] = phone[e]
      PROVE  InFlight(e)'
  BY <1>i, <1>u DEF InFlight, Id, At
<1>1. CASE QuietTime
  BY <1>1, <1>u DEF QuietTime, Create, CreateUpTo, Expire, vars, local
<1>2. ASSUME NEW d \in Daemons, d # e, QuietAct(d) PROVE InFlight(e)'
  BY <1>2, <1>u, StepTypes, OwnPhone
<1>3. CASE QuietAct(e)
  <2>1. CASE Submit(e)
    <3>1. phone[e] = <<>> BY <1>i, <2>1 DEF InFlight, Submit, Goto
    <3>2. phone'[e] = << <<Id(e), At(e)>> >> BY <1>t, <2>1, <3>1 DEF Submit
    <3>3. pc'[e] = "wait" /\ status'[e] = "timeout" /\ job' = job
      BY <1>t, <2>1, StepTypes DEF Submit, Goto
    <3> QED BY <3>2, <3>3 DEF InFlight, Id, At
  <2>2. CASE PhoneAnswers(e)
    <3>1. phone[e] = << <<Id(e), At(e)>> >> BY <1>i, <2>2 DEF InFlight, PhoneAnswers
    <3>2. phone'[e] = <<>> BY <1>t, <2>2, <3>1 DEF PhoneAnswers
    <3> QED BY <3>2 DEF InFlight
  <2>3. CASE Refresh(e) BY <1>u, <2>3 DEF Refresh, local
  <2>4. CASE \/ \E m \in Messages : Select(e, m)
             \/ Lock(e) \/ Take(e) \/ SubmitFails(e) \/ Refused(e) \/ Record(e) \/ Mark(e)
             \/ UpdateRetries(e) \/ MoveSMS(e) \/ ErrorBox(e)
    <3>1. pc[e] # "wait" \/ status[e] # "timeout"
      BY <2>4 DEF Select, Lock, Take, TakeUpTo, SubmitFails, Refused, Record, Mark,
                  UpdateRetries, MoveSMS, ErrorBox, Goto
    <3>2. phone' = phone
      BY <2>4 DEF Select, Lock, Take, TakeUpTo, SubmitFails, Refused, Record, Mark,
                  UpdateRetries, MoveSMS, ErrorBox
    <3> QED BY <1>i, <3>1, <3>2 DEF InFlight
  <2> QED BY <1>3, <2>1, <2>2, <2>3, <2>4 DEF QuietAct
<1> QED BY <1>1, <1>2, <1>3 DEF CalmStep

\* A daemon deletes the message it holds.
LEMMA HeldDeleted ==
    ASSUME CalmStep, NEW m \in Messages, NEW d \in Daemons, Holds(d, m),
           MoveSMS(d) \/ ErrorBox(d)
    PROVE  row'[m] = "gone"
<1>1. Present(m) BY StepTypes DEF HeldLocked, Present
<1>2. Delete(m) BY DEF Holds, MoveSMS, ErrorBox
<1> QED BY <1>1, <1>2, StepTypes DEF Delete

\* What is over stays over.
LEMMA OverKept ==
    ASSUME CalmStep, NEW m \in Messages, NEW p \in Part, Over(m, p)
    PROVE  Over(m, p)'
<1>1. CASE p \in marked[m] BY <1>1, MarkedStep DEF Over
<1>2. CASE row[m] = "gone" BY <1>2, StepTypes, FrameHeld DEF Over
<1>3. ASSUME NEW d \in Daemons, Holds(d, m), Behind(d, p) PROVE Over(m, p)'
  <2>u. ASSUME pc'[d] = pc[d], job'[d] = job[d] PROVE Over(m, p)'
    <3>1. Holds(d, m)' /\ Behind(d, p)' BY <1>3, <2>u DEF Holds, Behind, Id, At
    <3> QED BY <3>1 DEF Over
  <2>1. CASE QuietTime
    BY <2>1, <2>u DEF QuietTime, Create, CreateUpTo, Expire, vars, local
  <2>2. ASSUME NEW e \in Daemons, e # d, QuietAct(e) PROVE Over(m, p)'
    BY <2>2, <2>u, StepTypes, OwnPhone
  <2>3. CASE PhoneAnswers(d) BY <2>3, <2>u DEF PhoneAnswers
  <2>4. CASE MoveSMS(d) BY <1>3, <2>4, HeldDeleted DEF Over
  <2>5. CASE Mark(d)
    <3>1. p = At(d) /\ Id(d) = m BY <1>3, <2>5 DEF Behind, Holds, Mark
    <3>2. p \in Rows(m)
      BY <2>5, <3>1 DEF CalmStep, Calm, Ahead, AtPart, Mark
    <3>3. p \in marked'[m]
      <4>1. marked' = [marked EXCEPT ![m] = @ \cup ({p} \cap Rows(m))] BY <2>5, <3>1 DEF Mark
      <4> QED BY <3>2, <4>1, StepTypes
    <3> QED BY <3>3 DEF Over
  <2>6. QuietAct(d) => PhoneAnswers(d) \/ MoveSMS(d) \/ Mark(d)
    BY <1>3 DEF Behind, QuietAct, Select, Lock, Take, TakeUpTo, Submit, SubmitFails, Refresh,
                Refused, Record, UpdateRetries, ErrorBox, Goto
  <2> QED BY <2>1, <2>2, <2>3, <2>4, <2>5, <2>6 DEF CalmStep
<1> QED BY <1>1, <1>2, <1>3 DEF Over

\* What a daemon records as sent is new to sentitems, has its row, and is
\* behind the daemon from then on.
LEMMA RecordOver ==
    ASSUME CalmStep, NEW d \in Daemons, Record(d), NEW m \in Messages, NEW p \in Part,
           m = Id(d), p = At(d)
    PROVE  Over(m, p)'
<1>1. pc[d] = "wait" BY DEF Record
<1>2. job[d] \in JobType /\ job[d].id = m /\ job[d].number \in Nat /\ At(d) \in Nat
  BY StepTypes, JobFacts DEF At, Id
<1>3. p \in 1..job[d].number /\ p \in Rows(m)
  BY <1>1 DEF CalmStep, Calm, Ahead, AtPart
<1>4. sent[m][p] = "none"
  <2>1. ~Over(m, p) BY <1>1, NotOver DEF CalmStep
  <2> QED BY <2>1 DEF CalmStep, Calm, OnceAt, Recorded
<1>5. CASE Goto(d, "wait", "mark") /\ UNCHANGED job
  <2>1. pc'[d] = "mark" /\ job'[d] = job[d] BY <1>5, StepTypes DEF Goto
  <2> QED BY <2>1 DEF Over, Holds, Behind, Sending, Id, At
<1>6. CASE job[d].number = 1 /\ Advance(d, job[d], p)
  <2>1. p \in Nat /\ p >= 1 BY <1>2, <1>3
  <2>2. Todo(job[d], p) = {} BY <1>6, <2>1 DEF Todo
  <2>3. pc'[d] = "move" /\ job'[d].id = m
    BY <1>2, <1>6, <2>1, <2>2, StepTypes, AdvanceResult
  <2> QED BY <2>3 DEF Over, Holds, Behind, Sending, Id
<1> QED BY <1>3, <1>4, <1>5, <1>6 DEF Record

\* What is recorded is over.
LEMMA RecordedOver ==
    ASSUME CalmStep, NEW m \in Messages, NEW p \in Part, Recorded(m, p)'
    PROVE  Over(m, p)'
<1>t. sent \in [Messages -> [Part -> SentState]] BY StepTypes DEF TypeOK
<1>1. CASE Recorded(m, p) BY <1>1, OverKept DEF CalmStep, Calm, OnceAt
<1>2. CASE sent' = sent BY <1>1, <1>2 DEF Recorded
<1>3. ASSUME NEW d \in Daemons, Record(d), ~Recorded(m, p) PROVE Over(m, p)'
  <2>1. RecordAll(Id(d), {At(d)}, "SendingOK") BY <1>3 DEF Record
  <2>2. m = Id(d) /\ p = At(d) BY <1>t, <1>3, <2>1 DEF RecordAll, Recorded
  <2> QED BY <1>3, <2>2, RecordOver
<1>4. ASSUME NEW d \in Daemons, ErrorBox(d), ~Recorded(m, p) PROVE Over(m, p)'
  <2>1. RecordAll(Id(d), (1..job[d].number) \ job[d].skip, "SendingError")
    BY <1>4 DEF ErrorBox
  <2>2. m = Id(d) BY <1>t, <1>4, <2>1 DEF RecordAll, Recorded
  <2>3. Holds(d, m) BY <1>4, <2>2 DEF Holds, Sending, ErrorBox
  <2> QED BY <1>4, <2>3, HeldDeleted DEF Over
<1>5. ASSUME NEW d \in Daemons, QuietAct(d), ~Record(d), ~ErrorBox(d) PROVE sent' = sent
  BY <1>5 DEF QuietAct, Select, Lock, Take, TakeUpTo, Submit, SubmitFails, Refresh, Refused,
              Mark, UpdateRetries, MoveSMS, PhoneAnswers
<1>6. QuietTime => sent' = sent BY DEF QuietTime, Create, CreateUpTo, Expire, vars
<1> QED BY <1>1, <1>2, <1>3, <1>4, <1>5, <1>6 DEF CalmStep

\* A part that was on air is over, or its daemon waits with the report in hand
\* or without hope of one.
LEMMA AiredOver ==
    ASSUME CalmStep, NEW m \in Messages, NEW p \in Part, Over(m, p) \/ Waited(m, p)
    PROVE  Over(m, p)' \/ Waited(m, p)'
<1>1. CASE Over(m, p) BY <1>1, OverKept
<1>2. ASSUME NEW d \in Daemons, Holds(d, m), Reported(d, p) PROVE Over(m, p)' \/ Waited(m, p)'
  <2>u. ASSUME pc'[d] = pc[d], job'[d] = job[d], status'[d] = status[d], phone'[d] = phone[d]
        PROVE  Waited(m, p)'
    <3>1. Holds(d, m)' /\ Reported(d, p)' BY <1>2, <2>u DEF Holds, Reported, Id, At
    <3> QED BY <3>1 DEF Waited
  <2>1. CASE QuietTime
    BY <2>1, <2>u DEF QuietTime, Create, CreateUpTo, Expire, vars, local
  <2>2. ASSUME NEW e \in Daemons, e # d, QuietAct(e) PROVE Waited(m, p)'
    BY <2>2, <2>u, StepTypes, OwnPhone
  <2>3. CASE Refresh(d) BY <2>3, <2>u DEF Refresh, local
  <2>4. CASE Record(d)
    BY <1>2, <2>4, RecordOver DEF Holds, Reported
  <2>5. QuietAct(d) => Refresh(d) \/ Record(d)
    BY <1>2 DEF Reported, QuietAct, Select, Lock, Take, TakeUpTo, Submit, SubmitFails, Refused,
                Mark, UpdateRetries, MoveSMS, ErrorBox, PhoneAnswers, Goto
  <2> QED BY <2>1, <2>2, <2>3, <2>4, <2>5 DEF CalmStep
<1> QED BY <1>1, <1>2 DEF Waited

\* A part goes on air once: when it does, it was not over and nobody waited
\* without a part in the phone, so it had not been on air before.
LEMMA OnAirNow ==
    ASSUME CalmStep, NEW m \in Messages, NEW p \in Part, air'[m][p] # air[m][p]
    PROVE  air[m][p] = 0 /\ air'[m][p] = 1 /\ Waited(m, p)'
<1>t. /\ phone \in [Daemons -> Seq(Messages \X Part)]
      /\ status \in [Daemons -> {"timeout", "ok", "error"}]
      /\ air \in [Messages -> [Part -> Nat]]
  BY StepTypes DEF TypeOK
<1>1. PICK d \in Daemons : PhoneAnswers(d)
  <2>1. ~QuietTime BY DEF QuietTime, Create, CreateUpTo, Expire, vars, seen
  <2>2. ASSUME NEW d \in Daemons, QuietAct(d), ~PhoneAnswers(d) PROVE air' = air
    BY <2>2 DEF QuietAct, Select, Lock, Take, TakeUpTo, Submit, SubmitFails, Refresh, Refused,
                Record, Mark, UpdateRetries, MoveSMS, ErrorBox, seen
  <2> QED BY <2>1, <2>2 DEF CalmStep
<1>2. pc[d] = "wait" /\ status[d] = "timeout" /\ phone[d] = << <<Id(d), At(d)>> >>
  BY <1>1 DEF PhoneAnswers, CalmStep, Calm, InFlight
<1>3. Head(phone[d])[1] = Id(d) /\ Head(phone[d])[2] = At(d) /\ Tail(phone[d]) = <<>>
  BY <1>2
<1>4. PICK ok \in BOOLEAN, told \in BOOLEAN :
         /\ air' = [air EXCEPT ![Id(d)][At(d)] = IF ok THEN @ + 1 ELSE @]
         /\ status' = [status EXCEPT ![d] = IF told THEN (IF ok THEN "ok" ELSE "error") ELSE @]
  <2>1. PICK ok \in BOOLEAN, told \in BOOLEAN :
           /\ air' = [air EXCEPT ![Id(d)][At(d)] = IF ok THEN @ + 1 ELSE @]
           /\ status' = [status EXCEPT ![d] =
                 IF told /\ pc[d] = "wait" THEN (IF ok THEN "ok" ELSE "error") ELSE @]
    BY <1>1, <1>3 DEF PhoneAnswers
  <2> QED BY <1>2, <2>1
<1>5. m = Id(d) /\ p = At(d) /\ ok /\ air'[m][p] = air[m][p] + 1
  BY <1>4, <1>t
<1>6. air[m][p] = 0
  <2>1. ~Over(m, p) BY <1>2, <1>5, NotOver DEF CalmStep
  <2>2. ~Waited(m, p)
    <3> SUFFICES ASSUME NEW e \in Daemons, Holds(e, m), Reported(e, p) PROVE FALSE
      BY DEF Waited
    <3>1. Holds(d, m) BY <1>2, <1>5 DEF Holds, Sending
    <3>2. e = d BY <3>1, Alone DEF CalmStep
    <3> QED BY <1>2, <3>2 DEF Reported
  <2> QED BY <2>1, <2>2 DEF CalmStep, Calm, OnceAt
<1>7. Waited(m, p)'
  <2>1. status'[d] # "error" BY <1>t, <1>2, <1>4, <1>5
  <2>2. phone'[d] = <<>> /\ pc' = pc /\ job' = job BY <1>1, <1>3, <1>t DEF PhoneAnswers
  <2>3. Holds(d, m)' /\ Reported(d, p)'
    BY <1>2, <1>5, <2>1, <2>2 DEF Holds, Reported, Sending, Id, At
  <2> QED BY <2>3 DEF Waited
<1> QED BY <1>5, <1>6, <1>7

LEMMA OnceKept ==
    ASSUME CalmStep, NEW m \in Messages, NEW p \in Part
    PROVE  OnceAt(m, p)'
<1>1. OnceAt(m, p) BY DEF CalmStep, Calm
<1>2. Recorded(m, p)' => Over(m, p)' BY RecordedOver
<1>3. CASE air'[m][p] # air[m][p]
  BY <1>2, <1>3, OnAirNow DEF OnceAt
<1>4. CASE air'[m][p] = air[m][p]
  BY <1>1, <1>2, <1>4, AiredOver DEF OnceAt
<1> QED BY <1>3, <1>4

LEMMA QuietPreserved == ASSUME QInv, [Next]_vars PROVE QInv'
<1>1. CInv' BY ClaimPreserved DEF QInv
<1>2. ASSUME Quiet' PROVE Calm'
  <2>1. CInv /\ TInv BY DEF QInv, CInv
  <2>2. Quiet /\ overtaken' = overtaken /\ (QuietTime \/ \E d \in Daemons : QuietAct(d))
    BY <1>2, <2>1, QuietNext
  <2>3. Calm BY <2>2 DEF QInv
  <2>4. HeldLocked' BY <1>1, <2>1, <2>2, <2>3, HeldStaysLocked
  <2>5. CalmStep BY <1>1, <2>1, <2>2, <2>3, <2>4 DEF CalmStep
  <2> QED BY <2>2, <2>3, <2>4, <2>5, AheadKept, FlightKept, OnceKept DEF Calm
<1> QED BY <1>1, <1>2 DEF QInv

LEMMA QuietInit == Init => QInv
<1> SUFFICES ASSUME Init PROVE QInv OBVIOUS
<1>1. CInv BY ClaimInit
<1>2. overtaken = {} /\ HeldLocked BY DEF Init, HeldLocked, Holds, Sending
<1>3. \A d \in Daemons : InFlight(d) /\ Ahead(d) BY DEF Init, InFlight, Ahead, AtPart
<1>4. \A m \in Messages, p \in Part : OnceAt(m, p) BY DEF Init, OnceAt, Recorded
<1> QED BY <1>1, <1>2, <1>3, <1>4 DEF QInv, Calm

\* No part goes on air twice, whatever the daemons, phones and authors do and
\* in which order, as long as no submission is given up, no daemon ends, no
\* access fails and no claim lapses under its holder.
THEOREM OnAirTwiceOnlyForCause == Spec => []OnAirTwiceHasACause
<1>1. QInv => OnAirTwiceHasACause
  <2> SUFFICES ASSUME QInv, NEW m \in Messages, NEW p \in Parts(m), air[m][p] > 1
               PROVE  givenUp \/ mishaps > 0
    BY DEF OnAirTwiceHasACause
  <2>1. p \in Part /\ mishaps \in Nat /\ air[m][p] \in Nat
    <3>1. p \in Part BY PartFacts
    <3>2. mishaps \in 0..MaxMishaps /\ air \in [Messages -> [Part -> Nat]]
      BY DEF QInv, CInv, TInv, TypeOK
    <3> QED BY <3>1, <3>2, MishapsAssumption
  <2>2. ~Calm
    <3>1. ~(air[m][p] <= 1) BY <2>1
    <3> QED BY <2>1, <3>1 DEF Calm, OnceAt
  <2>3. givenUp \/ mishaps # 0 BY <2>2, Zenon DEF QInv, Quiet
  <2>4. mishaps # 0 => mishaps > 0 BY <2>1
  <2> QED BY <2>3, <2>4, Zenon
<1> QED BY <1>1, QuietInit, QuietPreserved, PTL DEF Spec
-----------------------------------------------------------------------------
(***************************************************************************)
(* How often on air, whatever goes wrong.  A try hands each part to a      *)
(* phone at most once.  What a phone still has, after its daemon gave up,  *)
(* died or was overtaken, may go on air at any time, but was paid for by   *)
(* the try that handed it over.                                            *)
(***************************************************************************)

\* A part is on air at most once for each time its message was taken.
OncePerTry == \A m \in Messages : \A p \in Parts(m) : air[m][p] <= attempts[m]

\* A recipient gets a part at most MaxRetries + 1 times, and once more for each
\* daemon that died, each failed access and each claim that lapsed.
AirIsBounded == \A m \in Messages : \A p \in Parts(m) : air[m][p] <= MaxRetries + 1 + mishaps

\* Daemon d has yet to hand part p of m to its phone.
WillHand(d, m, p) ==
    /\ Holds(d, m)
    /\ \/ pc[d] = "send" /\ At(d) <= p
       \/ pc[d] \in {"wait", "mark"} /\ At(d) < p

\* What may still go on air: <<d, 0>> when d has yet to hand the part over, and
\* <<d, i>> when it is the i-th that the phone of d works on.
Due(m, p) == {x \in Daemons \X Nat :
    IF x[2] = 0 THEN WillHand(x[1], m, p)
    ELSE x[2] \in 1..Len(phone[x[1]]) /\ phone[x[1]][x[2]] = <<m, p>>}

PaidFor(m, p) == IsFiniteSet(Due(m, p)) /\ air[m][p] + Cardinality(Due(m, p)) <= attempts[m]

PInv == TInv /\ \A m \in Messages, p \in Part : PaidFor(m, p)

\* One element more makes a set larger by one at most.
LEMMA OneMore ==
    ASSUME NEW S, IsFiniteSet(S), NEW x, NEW T, T \subseteq S \cup {x}
    PROVE  /\ IsFiniteSet(T) /\ Cardinality(T) \in Nat /\ Cardinality(S) \in Nat
           /\ Cardinality(T) <= Cardinality(S) + 1
<1>1. Cardinality(S) \in Nat BY FS_CardinalityType
<1>2. PICK R : R = S \cup {x} OBVIOUS
<1>3. /\ IsFiniteSet(R)
      /\ Cardinality(R) = IF x \in S THEN Cardinality(S) ELSE Cardinality(S) + 1
  BY <1>2, FS_AddElement
<1>4. IsFiniteSet(T) /\ Cardinality(T) <= Cardinality(R)
  <2>1. T \in SUBSET R BY <1>2
  <2> QED BY <1>3, <2>1, FS_Subset
<1>5. Cardinality(T) \in Nat BY <1>4, FS_CardinalityType
<1> QED BY <1>1, <1>3, <1>4, <1>5

LEMMA PaidTypes ==
    ASSUME TInv, NEW m \in Messages, NEW p \in Part, IsFiniteSet(Due(m, p))
    PROVE  attempts[m] \in Nat /\ air[m][p] \in Nat /\ Cardinality(Due(m, p)) \in Nat
<1>1. Cardinality(Due(m, p)) \in Nat BY FS_CardinalityType
<1> QED BY <1>1 DEF TInv, TypeOK

\* A step with no try, after which no more is due, keeps what is due paid for.
LEMMA NoMoreDue ==
    ASSUME TInv, TInv', NEW m \in Messages, NEW p \in Part, PaidFor(m, p),
           air'[m][p] = air[m][p], attempts'[m] = attempts[m],
           Due(m, p)' \subseteq Due(m, p)
    PROVE  PaidFor(m, p)'
<1>1. IsFiniteSet(Due(m, p)') /\ Cardinality(Due(m, p)') <= Cardinality(Due(m, p))
  BY FS_Subset DEF PaidFor
<1>2. /\ attempts[m] \in Nat /\ air[m][p] \in Nat /\ Cardinality(Due(m, p)) \in Nat
      /\ Cardinality(Due(m, p)') \in Nat
  <2>1. Cardinality(Due(m, p)') \in Nat BY <1>1, FS_CardinalityType
  <2> QED BY <2>1, PaidTypes DEF PaidFor
<1> QED BY <1>1, <1>2 DEF PaidFor

\* That is so when the phones stay as they are and no daemon turns to the part.
LEMMA PhonesStay ==
    ASSUME TInv, TInv', NEW m \in Messages, NEW p \in Part, PaidFor(m, p),
           air' = air, attempts' = attempts, phone' = phone,
           \A d \in Daemons : WillHand(d, m, p)' => WillHand(d, m, p)
    PROVE  PaidFor(m, p)'
<1>1. Due(m, p)' \subseteq Due(m, p) BY DEF Due
<1> QED BY <1>1, NoMoreDue

\* Going on, a daemon does not turn back.
LEMMA OnwardsOnly ==
    ASSUME TInv, NEW d \in Daemons, NEW m \in Messages, NEW p \in Part,
           pc[d] \in {"wait", "mark"}, Advance(d, job[d], At(d)), WillHand(d, m, p)'
    PROVE  WillHand(d, m, p)
<1>1. job[d] \in JobType /\ At(d) \in Nat /\ job[d].number \in Nat /\ p \in Nat
  BY JobFacts, PartFacts DEF TInv, TypeOK, At
<1>2. /\ job'[d].id = job[d].id
      /\ pc'[d] = "move" \/ (pc'[d] = "send" /\ job'[d].part \in Todo(job[d], At(d)))
  BY <1>1, AdvanceResult DEF TInv
<1>3. pc'[d] = "send" /\ job'[d].part <= p BY <1>2 DEF WillHand, At
<1>4. At(d) < p BY <1>1, <1>2, <1>3 DEF Todo
<1> QED BY <1>2, <1>4 DEF WillHand, Holds, Id, Sending

\* Taking a message is a try, and the only step that makes a part due.
LEMMA TakePays ==
    ASSUME TInv, TInv', NEW d \in Daemons, Take(d), NEW m \in Messages, NEW p \in Part,
           PaidFor(m, p)
    PROVE  PaidFor(m, p)'
<1>1. /\ air' = air /\ phone' = phone /\ pc[d] = "read" /\ Id(d) \in Messages
      /\ attempts \in [Messages -> Nat]
  BY DEF Take, TakeUpTo, TInv, TypeOK, BusyHasId
<1>2. PICK n \in 0..Length[Id(d)] :
         /\ ReadsUpTo(Id(d), n)
         /\ \/ /\ Advance(d, Loaded(Id(d), n), 0)
               /\ attempts' = [attempts EXCEPT ![Id(d)] = IF Present(Id(d)) THEN @ + 1 ELSE @]
            \/ /\ pc' = [pc EXCEPT ![d] = "errorbox"]
               /\ job' = [job EXCEPT ![d] = Loaded(Id(d), n)]
               /\ UNCHANGED attempts
  BY DEF Take, TakeUpTo
<1>3. \A e \in Daemons : e # d => pc'[e] = pc[e] /\ job'[e] = job[e]
  BY OnlyActor DEF Step
<1>4. \A e \in Daemons : e # d /\ WillHand(e, m, p)' => WillHand(e, m, p)
  BY <1>3 DEF WillHand, Holds, Id, At
<1>5. CASE WillHand(d, m, p)'
  <2>1. PICK j \in JobType : j = Loaded(Id(d), n) BY <1>1, LoadedType DEF TInv
  <2>2. Advance(d, j, 0) /\ attempts' = [attempts EXCEPT ![Id(d)] = IF Present(Id(d)) THEN @ + 1 ELSE @]
    <3>1. pc'[d] # "errorbox" BY <1>5 DEF WillHand
    <3>2. pc \in [Daemons -> PC] BY DEF TInv, TypeOK
    <3> QED BY <1>2, <2>1, <3>1, <3>2
  <2>3. job'[d].id = Id(d) /\ pc'[d] = "send" /\ Todo(j, 0) # {}
    BY <1>5, <2>1, <2>2, AdvanceResult DEF TInv, WillHand, Loaded
  <2>4. m = Id(d) BY <1>5, <2>3 DEF WillHand, Holds, Id
  <2>5. Present(m)
    <3>1. n # 0 BY <2>1, <2>3 DEF Loaded, Todo
    <3> QED BY <1>2, <2>4, <3>1 DEF ReadsUpTo
  <2>6. attempts'[m] = attempts[m] + 1 BY <1>1, <2>2, <2>4, <2>5
  <2>7. Due(m, p)' \subseteq Due(m, p) \cup {<<d, 0>>} BY <1>1, <1>4 DEF Due
  <2>8. /\ IsFiniteSet(Due(m, p)') /\ Cardinality(Due(m, p)') \in Nat
        /\ Cardinality(Due(m, p)') <= Cardinality(Due(m, p)) + 1
    <3>1. IsFiniteSet(Due(m, p)) BY DEF PaidFor
    <3> QED BY <2>7, <3>1, OneMore
  <2>9. attempts[m] \in Nat /\ air[m][p] \in Nat /\ Cardinality(Due(m, p)) \in Nat
    BY PaidTypes DEF PaidFor
  <2> QED BY <1>1, <2>6, <2>8, <2>9 DEF PaidFor
<1>6. CASE ~WillHand(d, m, p)'
  <2>1. Due(m, p)' \subseteq Due(m, p) BY <1>1, <1>4, <1>6 DEF Due
  <2>2. IsFiniteSet(Due(m, p)') /\ Cardinality(Due(m, p)') <= Cardinality(Due(m, p))
    BY <2>1, FS_Subset DEF PaidFor
  <2>3. Cardinality(Due(m, p)') \in Nat BY <2>2, FS_CardinalityType
  <2>4. attempts[m] \in Nat /\ air[m][p] \in Nat /\ Cardinality(Due(m, p)) \in Nat
    BY PaidTypes DEF PaidFor
  <2>5. attempts'[m] = attempts[m] \/ attempts'[m] = attempts[m] + 1
    BY <1>1, <1>2
  <2> QED BY <1>1, <2>2, <2>3, <2>4, <2>5 DEF PaidFor
<1> QED BY <1>5, <1>6

\* What a daemon hands to its phone was due from the daemon, and is now due from
\* the phone.
LEMMA SubmitPays ==
    ASSUME TInv, TInv', NEW d \in Daemons, Submit(d), NEW m \in Messages, NEW p \in Part,
           PaidFor(m, p)
    PROVE  PaidFor(m, p)'
<1>t. /\ phone \in [Daemons -> Seq(Messages \X Part)] /\ pc \in [Daemons -> PC]
      /\ phone[d] \in Seq(Messages \X Part) /\ Len(phone[d]) \in Nat
      /\ At(d) \in Part /\ At(d) \in Nat /\ p \in Nat
  <2>1. phone \in [Daemons -> Seq(Messages \X Part)] /\ pc \in [Daemons -> PC]
    BY DEF TInv, TypeOK
  <2>2. At(d) \in Part BY DEF TInv, BusyHasId, Submit, Goto
  <2>3. phone[d] \in Seq(Messages \X Part) BY <2>1
  <2>4. Len(phone[d]) \in Nat BY <2>3
  <2> QED BY <2>1, <2>2, <2>3, <2>4, PartFacts
<1>1. /\ pc[d] = "send" /\ pc' = [pc EXCEPT ![d] = "wait"] /\ job' = job
      /\ phone' = [phone EXCEPT ![d] = Append(@, <<Id(d), At(d)>>)]
      /\ air' = air /\ attempts' = attempts
  BY DEF Submit, Goto, seen
<1> DEFINE k == Len(phone[d]) + 1
<1>2. /\ k \in Nat \ {0} /\ Len(phone'[d]) = k /\ phone'[d][k] = <<Id(d), At(d)>>
      /\ \A i \in 1..Len(phone[d]) : phone'[d][i] = phone[d][i]
      /\ \A e \in Daemons : e # d => phone'[e] = phone[e]
  <2>1. Len(Append(phone[d], <<Id(d), At(d)>>)) = k BY <1>t
  <2>2. Append(phone[d], <<Id(d), At(d)>>)[k] = <<Id(d), At(d)>> BY <1>t
  <2>3. \A i \in 1..Len(phone[d]) : Append(phone[d], <<Id(d), At(d)>>)[i] = phone[d][i]
    BY <1>t
  <2>4. k \in Nat \ {0} BY <1>t
  <2> QED BY <1>t, <1>1, <2>1, <2>2, <2>3, <2>4
<1>3. \A e \in Daemons : WillHand(e, m, p)' => WillHand(e, m, p)
  <2> SUFFICES ASSUME NEW e \in Daemons, WillHand(e, m, p)' PROVE WillHand(e, m, p) OBVIOUS
  <2>1. CASE e # d BY <1>t, <1>1, <2>1 DEF WillHand, Holds, Id, At
  <2>2. CASE e = d
    <3>1. Id(d) = m /\ At(d) < p BY <1>t, <1>1, <2>2 DEF WillHand, Holds, Id, At
    <3> QED BY <1>t, <1>1, <2>2, <3>1 DEF WillHand, Holds, Sending
  <2> QED BY <2>1, <2>2
<1>4. ASSUME NEW x \in Due(m, p)' PROVE x \in Due(m, p) \/ (x = <<d, k>> /\ <<Id(d), At(d)>> = <<m, p>>)
  <2>1. PICK e \in Daemons, i \in Nat : x = <<e, i>> BY DEF Due
  <2>2. CASE i = 0 BY <1>3, <2>1, <2>2 DEF Due
  <2>3. CASE i # 0
    <3>1. i \in 1..Len(phone'[e]) /\ phone'[e][i] = <<m, p>> BY <2>1, <2>3 DEF Due
    <3>2. CASE e # d BY <1>2, <2>1, <2>3, <3>1, <3>2 DEF Due
    <3>3. CASE e = d /\ i # k
      <4>1. i \in 1..Len(phone[d]) BY <1>t, <1>2, <3>1, <3>3
      <4> QED BY <1>2, <2>1, <2>3, <3>1, <3>3, <4>1 DEF Due
    <3>4. CASE e = d /\ i = k BY <1>2, <2>1, <3>1, <3>4
    <3> QED BY <3>2, <3>3, <3>4
  <2> QED BY <2>2, <2>3
<1>5. CASE <<Id(d), At(d)>> # <<m, p>>
  <2>1. Due(m, p)' \subseteq Due(m, p) BY <1>4, <1>5
  <2> QED BY <1>1, <2>1, NoMoreDue
<1>6. CASE <<Id(d), At(d)>> = <<m, p>>
  <2>1. Id(d) = m /\ At(d) = p BY <1>6
  <2>2. <<d, 0>> \in Due(m, p)
    BY <1>t, <1>1, <2>1 DEF Due, WillHand, Holds, Sending
  <2>3. <<d, 0>> \notin Due(m, p)'
    <3>1. ~WillHand(d, m, p)' BY <1>t, <1>1, <2>1 DEF WillHand, Id, At
    <3> QED BY <3>1 DEF Due
  <2> DEFINE S == Due(m, p) \ {<<d, 0>>}
  <2>4. Due(m, p)' \subseteq S \cup {<<d, k>>} BY <1>4, <2>3
  <2>5. IsFiniteSet(S) /\ Cardinality(S) = Cardinality(Due(m, p)) - 1
    <3>1. IsFiniteSet(Due(m, p)) BY DEF PaidFor
    <3> QED BY <2>2, <3>1, FS_RemoveElement
  <2>6. /\ IsFiniteSet(Due(m, p)') /\ Cardinality(Due(m, p)') \in Nat /\ Cardinality(S) \in Nat
        /\ Cardinality(Due(m, p)') <= Cardinality(S) + 1
    <3> HIDE DEF S, k
    <3> QED BY <2>4, <2>5, OneMore
  <2>7. attempts[m] \in Nat /\ air[m][p] \in Nat /\ Cardinality(Due(m, p)) \in Nat
    BY PaidTypes DEF PaidFor
  <2> HIDE DEF S
  <2> QED BY <1>1, <2>5, <2>6, <2>7 DEF PaidFor
<1> QED BY <1>5, <1>6

\* The part a phone is done with is not due any more; the others move up.
LEMMA AnswerPays ==
    ASSUME TInv, TInv', NEW d \in Daemons, PhoneAnswers(d), NEW m \in Messages, NEW p \in Part,
           PaidFor(m, p)
    PROVE  PaidFor(m, p)'
<1>t. /\ phone \in [Daemons -> Seq(Messages \X Part)] /\ air \in [Messages -> [Part -> Nat]]
      /\ phone[d] \in Seq(Messages \X Part) /\ phone[d] # <<>> /\ Len(phone[d]) \in Nat \ {0}
  <2>1. phone \in [Daemons -> Seq(Messages \X Part)] /\ air \in [Messages -> [Part -> Nat]]
    BY DEF TInv, TypeOK
  <2>2. phone[d] \in Seq(Messages \X Part) /\ phone[d] # <<>> BY <2>1 DEF PhoneAnswers
  <2>3. Len(phone[d]) \in Nat \ {0} BY <2>2
  <2> QED BY <2>1, <2>2, <2>3
<1>1. /\ pc' = pc /\ job' = job /\ attempts' = attempts
      /\ phone' = [phone EXCEPT ![d] = Tail(@)]
  BY DEF PhoneAnswers
<1>2. /\ Len(phone'[d]) = Len(phone[d]) - 1
      /\ \A i \in 1..Len(phone'[d]) : phone'[d][i] = phone[d][i + 1]
      /\ \A e \in Daemons : e # d => phone'[e] = phone[e]
  <2>1. Len(Tail(phone[d])) = Len(phone[d]) - 1 BY <1>t
  <2>2. \A i \in 1..Len(Tail(phone[d])) : Tail(phone[d])[i] = phone[d][i + 1] BY <1>t
  <2> QED BY <1>t, <1>1, <2>1, <2>2
<1>3. air'[m][p] = air[m][p] \/ (phone[d][1] = <<m, p>> /\ air'[m][p] = air[m][p] + 1)
  <2>1. Head(phone[d]) = phone[d][1] /\ phone[d][1] \in Messages \X Part BY <1>t
  <2>2. PICK x \in Messages, q \in Part : phone[d][1] = <<x, q>> BY <2>1
  <2>3. Head(phone[d])[1] = x /\ Head(phone[d])[2] = q BY <2>1, <2>2
  <2>4. PICK ok \in BOOLEAN : air' = [air EXCEPT ![x][q] = IF ok THEN @ + 1 ELSE @]
    BY <2>3 DEF PhoneAnswers
  <2>5. CASE x = m /\ q = p BY <1>t, <2>2, <2>4, <2>5
  <2>6. CASE x # m \/ q # p BY <1>t, <2>4, <2>6
  <2> QED BY <2>5, <2>6
<1> DEFINE S == Due(m, p) \ {<<d, 1>>}
           f == [x \in Due(m, p)' |-> IF x[1] = d /\ x[2] # 0 THEN <<d, x[2] + 1>> ELSE x]
<1>4. \A e \in Daemons : WillHand(e, m, p)' <=> WillHand(e, m, p)
  BY <1>1 DEF WillHand, Holds, Id, At
<1>5. f \in Injection(Due(m, p)', S)
  <2>1. ASSUME NEW x \in Due(m, p)' PROVE f[x] \in S
    <3>1. PICK e \in Daemons, i \in Nat : x = <<e, i>> BY DEF Due
    <3>2. CASE i = 0
      <4>1. f[x] = <<e, 0>> BY <3>1, <3>2
      <4>2. <<e, 0>> \in Due(m, p) BY <1>4, <3>1, <3>2 DEF Due
      <4> QED BY <4>1, <4>2
    <3>3. CASE i # 0 /\ e # d
      <4>1. f[x] = <<e, i>> BY <3>1, <3>3
      <4>2. <<e, i>> \in Due(m, p) BY <1>2, <3>1, <3>3 DEF Due
      <4> QED BY <3>3, <4>1, <4>2
    <3>4. CASE i # 0 /\ e = d
      <4>1. f[x] = <<d, i + 1>> BY <3>1, <3>4
      <4>2. i \in 1..Len(phone'[d]) /\ phone'[d][i] = <<m, p>> BY <3>1, <3>4 DEF Due
      <4>3. i + 1 \in 1..Len(phone[d]) /\ phone[d][i + 1] = <<m, p>> /\ i + 1 # 0 /\ i + 1 # 1
        <5>1. Len(phone'[d]) = Len(phone[d]) - 1 /\ Len(phone[d]) \in Nat BY <1>t, <1>2
        <5>2. i \in 1..(Len(phone[d]) - 1) BY <4>2, <5>1
        <5>3. phone[d][i + 1] = <<m, p>> BY <1>2, <4>2
        <5> QED BY <5>1, <5>2, <5>3
      <4>4. <<d, i + 1>> \in Due(m, p) BY <3>1, <4>3 DEF Due
      <4> QED BY <4>1, <4>3, <4>4
    <3> QED BY <3>2, <3>3, <3>4
  <2>2. ASSUME NEW x \in Due(m, p)', NEW y \in Due(m, p)', f[x] = f[y] PROVE x = y
    <3>1. PICK e \in Daemons, i \in Nat : x = <<e, i>> BY DEF Due
    <3>2. PICK c \in Daemons, j \in Nat : y = <<c, j>> BY DEF Due
    <3>3. f[x] = IF e = d /\ i # 0 THEN <<d, i + 1>> ELSE <<e, i>> BY <3>1
    <3>4. f[y] = IF c = d /\ j # 0 THEN <<d, j + 1>> ELSE <<c, j>> BY <3>2
    <3>5. e = c /\ i = j
      <4> HIDE DEF f
      <4>1. CASE e = d /\ i # 0 /\ c = d /\ j # 0 BY <2>2, <3>1, <3>2, <3>3, <3>4, <4>1
      <4>2. CASE e = d /\ i # 0 /\ ~(c = d /\ j # 0) BY <2>2, <3>1, <3>2, <3>3, <3>4, <4>2
      <4>3. CASE ~(e = d /\ i # 0) /\ c = d /\ j # 0 BY <2>2, <3>1, <3>2, <3>3, <3>4, <4>3
      <4>4. CASE ~(e = d /\ i # 0) /\ ~(c = d /\ j # 0) BY <2>2, <3>1, <3>2, <3>3, <3>4, <4>4
      <4> QED BY <4>1, <4>2, <4>3, <4>4
    <3> QED BY <3>1, <3>2, <3>5
  <2>3. f \in [Due(m, p)' -> S] BY <2>1
  <2> HIDE DEF f, S
  <2> QED BY <2>2, <2>3 DEF Injection, IsInjective
<1>6. IsFiniteSet(Due(m, p)) BY DEF PaidFor
<1>7. IsFiniteSet(S) /\ Cardinality(S) =
         IF <<d, 1>> \in Due(m, p) THEN Cardinality(Due(m, p)) - 1 ELSE Cardinality(Due(m, p))
  BY <1>6, FS_RemoveElement
<1>8. IsFiniteSet(Due(m, p)') /\ Cardinality(Due(m, p)') <= Cardinality(S)
  <2> HIDE DEF f, S
  <2> QED BY <1>5, <1>7, FS_Injection
<1>9. phone[d][1] = <<m, p>> => <<d, 1>> \in Due(m, p) BY <1>t DEF Due
<1>10. /\ attempts[m] \in Nat /\ air[m][p] \in Nat /\ Cardinality(Due(m, p)) \in Nat
       /\ Cardinality(Due(m, p)') \in Nat /\ Cardinality(S) \in Nat
  <2> HIDE DEF f, S
  <2>1. Cardinality(Due(m, p)') \in Nat BY <1>8, FS_CardinalityType
  <2>2. Cardinality(S) \in Nat BY <1>7, FS_CardinalityType
  <2>3. attempts[m] \in Nat /\ air[m][p] \in Nat /\ Cardinality(Due(m, p)) \in Nat
    BY <1>6, PaidTypes
  <2> QED BY <2>1, <2>2, <2>3
<1> HIDE DEF f, S
<1>11. air[m][p] + Cardinality(Due(m, p)) <= attempts[m] BY DEF PaidFor
<1>12. air'[m][p] + Cardinality(Due(m, p)') <= attempts[m]
  <2>1. CASE air'[m][p] = air[m][p] BY <1>7, <1>8, <1>10, <1>11, <2>1
  <2>2. CASE phone[d][1] = <<m, p>> /\ air'[m][p] = air[m][p] + 1
    <3>1. Cardinality(S) = Cardinality(Due(m, p)) - 1 BY <1>7, <1>9, <2>2
    <3> QED BY <1>8, <1>10, <1>11, <2>2, <3>1
  <2> QED BY <1>3, <2>1, <2>2
<1> QED BY <1>1, <1>8, <1>12 DEF PaidFor

\* No other step of a daemon makes it turn to a part.
LEMMA NoneTurns ==
    ASSUME TInv, NEW d \in Daemons, Step(d) \/ Crash(d), ~Take(d), ~Submit(d),
           NEW e \in Daemons, NEW m \in Messages, NEW p \in Part, WillHand(e, m, p)'
    PROVE  WillHand(e, m, p)
<1>t. pc \in [Daemons -> PC] /\ job \in [Daemons -> JobType] BY DEF TInv, TypeOK
<1>u. ASSUME pc'[e] = pc[e], job'[e] = job[e] PROVE WillHand(e, m, p)
  BY <1>u DEF WillHand, Holds, Id, At
<1>1. CASE e # d BY <1>1, <1>u, OnlyActor
<1>2. CASE e = d
  <2>1. CASE Refresh(d) BY <1>u, <1>2, <2>1 DEF Refresh, local
  <2>2. CASE Record(d) \/ Mark(d)
    <3>1. CASE Advance(d, job[d], At(d))
      BY <1>2, <2>2, <3>1, OnwardsOnly DEF Record, Mark
    <3>2. CASE UNCHANGED job /\ pc[d] = "wait" /\ pc' = [pc EXCEPT ![d] = "mark"]
      BY <1>t, <1>2, <3>2 DEF WillHand, Holds, Sending, Id, At
    <3>3. CASE pc' = [pc EXCEPT ![d] = "failed"]
      BY <1>t, <1>2, <3>3 DEF WillHand
    <3> QED BY <2>2, <3>1, <3>2, <3>3 DEF Record, Mark, Goto
  <2>3. CASE \/ \E x \in Messages : Select(d, x)
             \/ Lock(d) \/ SubmitFails(d) \/ Refused(d) \/ GiveUp(d) \/ RecordFails(d) \/ Crash(d)
    <3>1. pc'[d] \in {"idle", "lock", "read", "failed"}
      BY <1>t, <2>3 DEF Select, Lock, SubmitFails, Refused, GiveUp, RecordFails, Crash, Goto
    <3> QED BY <1>2, <3>1 DEF WillHand
  <2>4. CASE \/ OutboxError(d) \/ ReadSMSCFails(d) \/ UpdateRetries(d) \/ MoveSMS(d)
             \/ LeaveFails(d) \/ ErrorBox(d) \/ ErrorBoxFails(d)
    <3>1. Return(d)
      BY <2>4 DEF OutboxError, ReadSMSCFails, UpdateRetries, MoveSMS, LeaveFails, ErrorBox,
                  ErrorBoxFails
    <3> QED BY <1>t, <1>2, <3>1 DEF Return, WillHand
  <2> QED BY <2>1, <2>2, <2>3, <2>4 DEF Step
<1> QED BY <1>1, <1>2

LEMMA PaidPreserved ==
    ASSUME PInv, [Next]_vars
    PROVE  PInv'
<1>1. TInv /\ TInv' BY TypePreserved DEF PInv
<1> SUFFICES ASSUME NEW m \in Messages, NEW p \in Part, PaidFor(m, p) PROVE PaidFor(m, p)'
  BY <1>1 DEF PInv
<1>2. ASSUME NEW d \in Daemons, Step(d) \/ Crash(d), ~Take(d), ~Submit(d)
      PROVE  PaidFor(m, p)'
  <2>1. air' = air /\ attempts' = attempts /\ phone' = phone
    <3>1. CASE Crash(d) BY <3>1 DEF Crash, seen
    <3>2. CASE Step(d)
      BY <1>2, <3>2 DEF Step, Select, Lock, OutboxError, ReadSMSCFails, SubmitFails, Refresh,
                Refused, GiveUp, Record, Mark, RecordFails, UpdateRetries, MoveSMS, LeaveFails,
                ErrorBox, ErrorBoxFails, seen
    <3> QED BY <1>2, <3>1, <3>2
  <2> QED BY <1>1, <1>2, <2>1, NoneTurns, PhonesStay
<1>3. ASSUME NEW d \in Daemons, Take(d) \/ Submit(d) \/ PhoneAnswers(d) PROVE PaidFor(m, p)'
  BY <1>1, <1>3, TakePays, SubmitPays, AnswerPays
<1>4. CASE UNCHANGED vars \/ \E x \in Messages : Create(x) \/ Expire(x) \/ Overtake(x)
  <2>1. air' = air /\ attempts' = attempts /\ phone' = phone /\ pc' = pc /\ job' = job
    BY <1>4 DEF vars, Create, CreateUpTo, Expire, Overtake, local, seen
  <2>2. \A d \in Daemons : WillHand(d, m, p)' => WillHand(d, m, p)
    BY <2>1 DEF WillHand, Holds, Id, At
  <2> QED BY <1>1, <2>1, <2>2, PhonesStay
<1> QED BY <1>2, <1>3, <1>4 DEF Next

LEMMA PaidInit == Init => PInv
<1> SUFFICES ASSUME Init PROVE PInv OBVIOUS
<1>1. TInv BY TypeInit
<1>2. ASSUME NEW m \in Messages, NEW p \in Part PROVE PaidFor(m, p)
  <2>1. Due(m, p) = {}
    <3>1. \A d \in Daemons : ~WillHand(d, m, p)
      <4>1. \A d \in Daemons : pc[d] = "idle" BY DEF Init
      <4> QED BY <4>1 DEF WillHand
    <3>2. \A d \in Daemons : phone[d] = <<>> BY DEF Init
    <3>3. Len(<<>>) = 0 OBVIOUS
    <3>4. \A d \in Daemons : Len(phone[d]) = 0 BY <3>2, <3>3
    <3> QED BY <3>1, <3>4 DEF Due
  <2>2. IsFiniteSet(Due(m, p)) /\ Cardinality(Due(m, p)) = 0 BY <2>1, FS_EmptySet
  <2> QED BY <2>2 DEF Init, PaidFor
<1> QED BY <1>1, <1>2 DEF PInv

\* However often daemons die, give up, are refused or overtake each other, and
\* whatever late phones do, no part is on air more often than its message was
\* taken from the outbox.
THEOREM OnAirOncePerTry == Spec => []OncePerTry
<1>1. PInv => OncePerTry
  <2> SUFFICES ASSUME PInv, NEW m \in Messages, NEW p \in Parts(m)
               PROVE  air[m][p] <= attempts[m]
    BY DEF OncePerTry
  <2>1. p \in Part BY PartFacts
  <2>2. TInv /\ PaidFor(m, p) BY <2>1 DEF PInv
  <2>3. attempts[m] \in Nat /\ air[m][p] \in Nat /\ Cardinality(Due(m, p)) \in Nat
    BY <2>1, <2>2, PaidTypes DEF PaidFor
  <2> QED BY <2>2, <2>3 DEF PaidFor
<1> QED BY <1>1, PaidInit, PaidPreserved, PTL DEF Spec

\* So the option MaxRetries bounds what a recipient gets, but for mishaps.
THEOREM OnAirBounded == Spec => []AirIsBounded
<1>1. TypeOK /\ OncePerTry /\ TriesAreBounded => AirIsBounded
  <2> SUFFICES ASSUME TypeOK, OncePerTry, TriesAreBounded, NEW m \in Messages, NEW p \in Parts(m)
               PROVE  air[m][p] <= MaxRetries + 1 + mishaps
    BY DEF AirIsBounded
  <2>1. air[m][p] <= attempts[m] /\ attempts[m] <= MaxRetries + 1 + mishaps
    BY DEF OncePerTry, TriesAreBounded
  <2>2. air \in [Messages -> [Part -> Nat]] /\ attempts \in [Messages -> Nat] /\ mishaps \in 0..MaxMishaps
    BY DEF TypeOK
  <2>3. p \in Part BY PartFacts
  <2>4. air[m][p] \in Nat /\ attempts[m] \in Nat BY <2>2, <2>3
  <2>5. mishaps \in Nat /\ MaxRetries \in Nat
    BY <2>2, MishapsAssumption, RetriesAssumption
  <2> QED BY <2>1, <2>4, <2>5
<1> QED BY <1>1, TypeCorrect, OnAirOncePerTry, TriesBounded, PTL
=============================================================================
