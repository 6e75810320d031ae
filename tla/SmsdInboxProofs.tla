--------------------------- MODULE SmsdInboxProofs ---------------------------
(***************************************************************************)
(* Proofs about the receiving daemon for any number of messages, parts and *)
(* mishaps, and for any sharing of UDH ids: its state keeps its types, no  *)
(* part is lost between the phone and the inbox unless it came to lie      *)
(* where the owner had deleted one, each further copy of a part is paid    *)
(* for by a mishap, and the daemon never by itself waits for a message     *)
(* that is gone.                                                           *)
(***************************************************************************)
EXTENDS SmsdInbox, FiniteSetTheorems, TLAPS

-----------------------------------------------------------------------------
(* The inductive invariant *)

Finite == IsFiniteSet(memory)
Working == {"process", "save", "delete"}

\* Work lists belong to the stages of a round that use them.
ListsInv ==
    /\ pc \notin Working => todo = {}
    /\ pc = "process" => group = {} /\ left = {}
    /\ pc \in {"idle", "read"} => left = {}

\* Linked parts belong to one message; no part is in two of the lists.
LinkedInv ==
    /\ \A g \in todo : g # {} /\ \A x \in g : Of(x) = MessageOf(g)
    /\ \A g, h \in todo : g = h \/ g \cap h = {}
    /\ pc \in {"save", "delete"} =>
          /\ \A x \in group : Of(x) = MessageOf(group)
          /\ \A g \in todo : g \cap group = {}

\* What is still to be looked at, saved or deleted is in the phone, unless it
\* was deleted by others since it was read.
PresentInv ==
    /\ memory \subseteq arrived /\ removed \subseteq arrived
    /\ \A g \in todo : g \subseteq memory \cup removed
    /\ pc \in {"save", "delete"} => group \subseteq arrived
    /\ pc = "save" => group \subseteq memory \cup removed
    /\ pc = "delete" =>
          /\ left \subseteq memory \cup removed
          /\ \A x \in group \ left : x \notin memory

\* A location keeps one part at a time and was read once in a round; a part that
\* has not arrived has been given none.
LocationInv ==
    /\ \A x, y \in memory : location[x] = location[y] => x = y
    /\ \A x, y \in Held : location[x] = location[y] => x = y
    /\ \A x \in Part : location[x] \in arrived \/ location[x] = x

\* What the daemon is at was saved before its turn to be deleted.
SavedInv ==
    /\ pc = "save" => \A x \in group \ left : inbox[x] > 0
    /\ pc = "delete" => \A x \in group : inbox[x] > 0

\* A part the daemon may yet save without a further mishap.
Done(x) == (pc = "save" /\ x \in group \ left) \/ (pc = "delete" /\ x \in group)
Fresh(x) ==
    /\ ~Done(x)
    /\ \/ x \notin arrived \/ x \in memory
       \/ \E g \in todo : x \in g
       \/ pc = "save" /\ x \in left

CountInv == \A x \in Part : inbox[x] <= mishaps + (IF Fresh(x) THEN 0 ELSE 1)

\* Nothing the daemon is yet to delete has the location of this part.
Apart(x) == \A y \in Held : y # x => location[y] # location[x]

\* The message being saved or deleted is not the one waited for, and that has
\* more in the phone than what may be deleted in the stead of another part.
AwaitedInv ==
    waiting # NoId =>
        /\ pc \in {"save", "delete"} =>
              \A x \in group : Length[Of(x)] = 1 \/ UdhId[Of(x)] # waiting
        /\ \E x \in memory \cup removed :
              Length[Of(x)] # 1 /\ UdhId[Of(x)] = waiting /\ (x \in removed \/ Apart(x))

IInv ==
    /\ TypeOK /\ Finite /\ ListsInv /\ LinkedInv /\ PresentInv
    /\ LocationInv /\ NothingLost /\ SavedInv /\ CountInv
    /\ AwaitedInv

-----------------------------------------------------------------------------
(* Facts about parts and linking *)

\* A part names its message and its number, which are a message and a number.
LEMMA PartFacts ==
    ASSUME NEW x \in Part
    PROVE  Of(x) \in Messages /\ x[2] \in 1..Length[Of(x)] /\ x = <<Of(x), x[2]>>
<1>1. PICK m \in Messages : x \in {<<m, p>> : p \in 1..Length[m]}
  BY DEF Part
<1>2. PICK p \in 1..Length[m] : x = <<m, p>>
  BY <1>1
<1> QED
  BY <1>2 DEF Of

\* GSM_LinkSMS returns nonempty groups of parts of one message each, and no part
\* in two of them.
LEMMA LinkFacts ==
    ASSUME NEW R, R \subseteq Part
    PROVE  /\ \A g \in Link(R) : g # {} /\ g \subseteq R
           /\ \A g \in Link(R) : \A x \in g : Of(x) = MessageOf(g)
           /\ \A g, h \in Link(R) : g = h \/ g \cap h = {}
<1> DEFINE Chains == {Chain(R, m) : m \in Messages} \ {{}}
           Rest == {{x} : x \in {y \in R : ~Linked(R, y)}}
<1>1. Link(R) = Chains \cup Rest
  BY DEF Link
<1>2. ASSUME NEW g \in Chains
      PROVE  \E m \in Messages : g = Chain(R, m) /\ g # {}
  OBVIOUS
<1>3. \A m : \A x \in Chain(R, m) : x \in R /\ Of(x) = m /\ Linked(R, x)
  BY DEF Chain
<1>4. \A g \in Rest : \E x \in R : g = {x} /\ ~Linked(R, x)
  OBVIOUS
<1>5. \A g \in Link(R) : g # {} /\ g \subseteq R
  BY <1>1, <1>2, <1>3, <1>4
<1>6. ASSUME NEW g \in Link(R) PROVE \E m : \A x \in g : Of(x) = m
  <2>1. CASE g \in Chains
    BY <2>1, <1>2, <1>3
  <2>2. CASE g \in Rest
    <3>1. PICK x \in R : g = {x}
      BY <2>2, <1>4
    <3> QED
      BY <3>1
  <2> QED
    BY <1>1, <2>1, <2>2
<1>7. ASSUME NEW g \in Link(R), NEW x \in g PROVE Of(x) = MessageOf(g)
  <2>1. PICK m : \A y \in g : Of(y) = m
    BY <1>6
  <2>2. (CHOOSE y \in g : TRUE) \in g
    OBVIOUS
  <2> QED
    BY <2>1, <2>2 DEF MessageOf
<1>8. ASSUME NEW g \in Link(R), NEW h \in Link(R), NEW x, x \in g, x \in h
      PROVE  g = h
  <2>1. CASE g \in Chains /\ h \in Chains
    BY <2>1, <1>2, <1>3, <1>8
  <2>2. CASE g \in Rest /\ h \in Rest
    BY <2>2, <1>4, <1>8
  <2>3. CASE g \in Chains /\ h \in Rest
    BY <2>3, <1>2, <1>3, <1>4, <1>8
  <2>4. CASE g \in Rest /\ h \in Chains
    BY <2>4, <1>2, <1>3, <1>4, <1>8
  <2> QED
    BY <1>1, <2>1, <2>2, <2>3, <2>4
<1> QED
  BY <1>5, <1>7, <1>8
\* Deleting at the location of a part leaves the other parts the daemon holds;
\* if another part goes, the owner had deleted the one that was read.
LEMMA DeleteFacts ==
    ASSUME IInv, pc = "delete", NEW x \in left, DeleteAt(location[x])
    PROVE  /\ memory' \subseteq memory /\ x \notin memory'
           /\ \A y \in Held : y \in memory /\ y # x => y \in memory'
           /\ \A y \in memory \ memory' :
                 location[y] = location[x] /\ (y = x \/ x \in removed)
<1>1. memory' = {y \in memory : location[y] # location[x]}
  BY DEF DeleteAt
<1>2. x \in Held
  BY DEF Held
<1>3. \A y \in Held : location[x] = location[y] => x = y
  BY <1>2 DEF IInv, LocationInv
<1>4. ASSUME NEW y \in memory, location[y] = location[x], y # x
      PROVE  x \in removed
  BY <1>4 DEF IInv, LocationInv, PresentInv
<1> QED
  BY <1>1, <1>3, <1>4

\* The daemon holds what was read, which has arrived.
LEMMA HeldFacts ==
    ASSUME IInv
    PROVE  Held \subseteq arrived /\ arrived \subseteq Part
<1>1. arrived \subseteq Part /\ left \subseteq group
  BY DEF IInv, TypeOK
<1>2. \A g \in todo : g \subseteq arrived
  BY DEF IInv, PresentInv
<1>3. left # {} => pc \in {"save", "delete"}
  BY DEF IInv, ListsInv, Working, TypeOK, PC
<1>4. pc \in {"save", "delete"} => group \subseteq arrived
  BY DEF IInv, PresentInv
<1> QED
  BY <1>1, <1>2, <1>3, <1>4 DEF Held

-----------------------------------------------------------------------------
(* Each part of the invariant is kept by every step *)

\* Types, with what they need: the memory is finite.
LEMMA TypePreserved ==
    ASSUME IInv, [Next]_vars
    PROVE  TypeOK' /\ Finite'
<1> USE MishapsAssumption DEF IInv, TypeOK, Finite, PC, ListsInv, Working
<1>1. CASE \E x \in Part : Arrive(x)
  <2>1. IsFiniteSet(memory')
    BY <1>1, FS_AddElement DEF Arrive
  <2>2. location' \in [Part -> Part]
    <3>1. PICK x \in Part : Arrive(x)
      BY <1>1
    <3>2. PICK l \in {x} \cup {location[y] : y \in Held} : location' = [location EXCEPT ![x] = l]
      BY <3>1 DEF Arrive
    <3>3. l \in Part
      BY HeldFacts
    <3> QED
      BY <3>2, <3>3
  <2> QED
    BY <1>1, <2>1, <2>2 DEF Arrive, daemon
<1>2. CASE \E x \in Part : OwnerDeletes(x)
  <2>1. IsFiniteSet(memory')
    BY <1>2, FS_Subset DEF OwnerDeletes
  <2> QED
    BY <1>2, <2>1 DEF OwnerDeletes, Mishap, daemon
<1>3. CASE Poll
  BY <1>3 DEF Poll
<1>4. CASE Read
  <2>1. PICK R \in SUBSET memory :
            /\ ignored' = ignored + Cardinality(R \ Valid)
            /\ todo' = Link(R \cap Valid)
    BY <1>4 DEF Read
  <2>2. Cardinality(R \ Valid) \in Nat
    BY FS_Subset, FS_CardinalityType
  <2>3. todo' \in SUBSET (SUBSET Part)
    <3>1. R \cap Valid \subseteq Part
      OBVIOUS
    <3>2. \A g \in Link(R \cap Valid) : g \subseteq Part
      BY <3>1, LinkFacts
    <3> QED
      BY <2>1, <3>2
  <2>4. /\ pc = "read" /\ pc' = "process" /\ group' = {}
        /\ UNCHANGED <<arrived, memory, location, inbox, left, waiting, clock, mishaps, removed>>
    BY <1>4 DEF Read
  <2>5. ignored' \in Nat
    BY <2>1, <2>2
  <2> QED
    BY <2>3, <2>4, <2>5
<1>5. CASE ReadFails
  <2>1. Cardinality(memory \ Valid) \in Nat
    BY FS_Subset, FS_CardinalityType
  <2> QED
    BY <1>5, <2>1 DEF ReadFails, Mishap, Return
<1>6. CASE \E g \in todo : Process(g)
  BY <1>6 DEF Process, Accept, Turn
<1>7. CASE \E g \in todo : Skip(g)
  <2>1. PICK g \in todo : Skip(g)
    BY <1>7
  <2>2. MessageOf(g) \in Messages
    BY PartFacts DEF LinkedInv
  <2> QED
    BY <2>1, <2>2, IdAssumption DEF Skip, Turn
<1>8. CASE \E x \in left : Save(x)
  BY <1>8 DEF Save, Foremost, Insert
<1>9. CASE \E x \in left : AnswerLost(x)
  BY <1>9 DEF AnswerLost, Foremost, Insert, Mishap, daemon
<1>10. CASE \E x \in left : SaveFails(x)
  BY <1>10 DEF SaveFails, Foremost, Insert, Mishap, Return
<1>11. CASE \E x \in left : Delete(x)
  <2>1. IsFiniteSet(memory')
    BY <1>11, FS_Subset DEF Delete, DeleteAt
  <2> QED
    BY <1>11, <2>1 DEF Delete, DeleteAt, Foremost
<1>12. CASE \E x \in left : DeleteFails(x)
  <2>1. IsFiniteSet(memory')
    BY <1>12, FS_Subset DEF DeleteFails, DeleteAt
  <2> QED
    BY <1>12, <2>1 DEF DeleteFails, DeleteAt, Foremost, Mishap, Return
<1>13. CASE EndRound
  BY <1>13 DEF EndRound, Return
<1>14. CASE Elapse
  BY <1>14 DEF Elapse
<1>15. CASE Crash
  BY <1>15 DEF Crash, Mishap, Return
<1>16. CASE UNCHANGED vars
  BY <1>16 DEF vars, daemon
<1> QED
  BY <1>1, <1>2, <1>3, <1>4, <1>5, <1>6, <1>7, <1>8, <1>9, <1>10, <1>11, <1>12, <1>13, <1>14, <1>15, <1>16 DEF Next, Step

\* The work lists are those of the stage the daemon is at.
LEMMA ListsPreserved ==
    ASSUME IInv, [Next]_vars
    PROVE  ListsInv'
<1> USE MishapsAssumption DEF IInv, TypeOK, PC, ListsInv, Working
<1>1. CASE \E x \in Part : Arrive(x)
  BY <1>1 DEF Arrive, daemon
<1>2. CASE \E x \in Part : OwnerDeletes(x)
  BY <1>2 DEF OwnerDeletes, Mishap, daemon
<1>3. CASE Poll
  BY <1>3 DEF Poll
<1>4. CASE Read
  BY <1>4 DEF Read
<1>5. CASE ReadFails
  BY <1>5 DEF ReadFails, Mishap, Return
<1>6. CASE \E g \in todo : Process(g)
  BY <1>6 DEF Process, Accept, Turn
<1>7. CASE \E g \in todo : Skip(g)
  BY <1>7 DEF Skip, Turn
<1>8. CASE \E x \in left : Save(x)
  BY <1>8 DEF Save, Foremost, Insert
<1>9. CASE \E x \in left : AnswerLost(x)
  BY <1>9 DEF AnswerLost, Foremost, Insert, Mishap, daemon
<1>10. CASE \E x \in left : SaveFails(x)
  BY <1>10 DEF SaveFails, Foremost, Insert, Mishap, Return
<1>11. CASE \E x \in left : Delete(x)
  BY <1>11 DEF Delete, Foremost
<1>12. CASE \E x \in left : DeleteFails(x)
  BY <1>12 DEF DeleteFails, Foremost, Mishap, Return
<1>13. CASE EndRound
  BY <1>13 DEF EndRound, Return
<1>14. CASE Elapse
  BY <1>14 DEF Elapse
<1>15. CASE Crash
  BY <1>15 DEF Crash, Mishap, Return
<1>16. CASE UNCHANGED vars
  BY <1>16 DEF vars, daemon
<1> QED
  BY <1>1, <1>2, <1>3, <1>4, <1>5, <1>6, <1>7, <1>8, <1>9, <1>10, <1>11, <1>12, <1>13, <1>14, <1>15, <1>16 DEF Next, Step

\* Linked parts stay apart, each of one message.
LEMMA LinkedPreserved ==
    ASSUME IInv, [Next]_vars
    PROVE  LinkedInv'
<1> USE DEF IInv, ListsInv, Working, LinkedInv
<1>1. CASE \E x \in Part : Arrive(x)
  BY <1>1 DEF Arrive, daemon
<1>2. CASE \E x \in Part : OwnerDeletes(x)
  BY <1>2 DEF OwnerDeletes, Mishap, daemon
<1>3. CASE Poll
  BY <1>3 DEF Poll
<1>4. CASE Read
  <2>1. PICK R \in SUBSET memory : todo' = Link(R \cap Valid)
    BY <1>4 DEF Read
  <2> DEFINE S == R \cap Valid
  <2>2. S \subseteq Part
    BY DEF TypeOK
  <2>3. pc' = "process" /\ todo' = Link(S)
    BY <1>4, <2>1 DEF Read
  <2> HIDE DEF S
  <2>4. /\ \A g \in Link(S) : g # {} /\ \A x \in g : Of(x) = MessageOf(g)
        /\ \A g, h \in Link(S) : g = h \/ g \cap h = {}
    BY <2>2, LinkFacts
  <2> QED
    BY <2>3, <2>4
<1>5. CASE ReadFails
  BY <1>5 DEF ReadFails, Mishap, Return
<1>6. CASE \E g \in todo : Process(g)
  BY <1>6 DEF Process, Accept, Turn
<1>7. CASE \E g \in todo : Skip(g)
  BY <1>7 DEF Skip, Turn
<1>8. CASE \E x \in left : Save(x)
  BY <1>8 DEF Save, Foremost, Insert
<1>9. CASE \E x \in left : AnswerLost(x)
  BY <1>9 DEF AnswerLost, Foremost, Insert, Mishap, daemon
<1>10. CASE \E x \in left : SaveFails(x)
  BY <1>10 DEF SaveFails, Foremost, Insert, Mishap, Return
<1>11. CASE \E x \in left : Delete(x)
  BY <1>11 DEF Delete, Foremost
<1>12. CASE \E x \in left : DeleteFails(x)
  BY <1>12 DEF DeleteFails, Foremost, Mishap, Return
<1>13. CASE EndRound
  BY <1>13 DEF EndRound, Return
<1>14. CASE Elapse
  BY <1>14 DEF Elapse
<1>15. CASE Crash
  BY <1>15 DEF Crash, Mishap, Return
<1>16. CASE UNCHANGED vars
  BY <1>16 DEF vars, daemon
<1> QED
  BY <1>1, <1>2, <1>3, <1>4, <1>5, <1>6, <1>7, <1>8, <1>9, <1>10, <1>11, <1>12, <1>13, <1>14, <1>15, <1>16 DEF Next, Step

\* What the daemon read is in the phone, or was deleted by others.
LEMMA PresentPreserved ==
    ASSUME IInv, [Next]_vars
    PROVE  PresentInv'
<1> USE DEF IInv, TypeOK, ListsInv, Working, LinkedInv, PresentInv
<1>1. CASE \E x \in Part : Arrive(x)
  BY <1>1 DEF Arrive, daemon
<1>2. CASE \E x \in Part : OwnerDeletes(x)
  BY <1>2 DEF OwnerDeletes, Mishap, daemon
<1>3. CASE Poll
  BY <1>3 DEF Poll
<1>4. CASE Read
  <2>1. PICK R \in SUBSET memory : todo' = Link(R \cap Valid)
    BY <1>4 DEF Read
  <2>2. \A g \in Link(R \cap Valid) : g \subseteq R
    <3>1. R \cap Valid \subseteq Part
      OBVIOUS
    <3> QED
      BY <3>1, LinkFacts
  <2>3. /\ pc' = "process" /\ UNCHANGED <<arrived, memory, removed>>
    BY <1>4 DEF Read
  <2> QED
    BY <2>1, <2>2, <2>3
<1>5. CASE ReadFails
  BY <1>5 DEF ReadFails, Mishap, Return
<1>6. CASE \E g \in todo : Process(g)
  BY <1>6 DEF Process, Accept, Turn
<1>7. CASE \E g \in todo : Skip(g)
  BY <1>7 DEF Skip, Turn
<1>8. CASE \E x \in left : Save(x)
  BY <1>8 DEF Save, Foremost, Insert
<1>9. CASE \E x \in left : AnswerLost(x)
  BY <1>9 DEF AnswerLost, Foremost, Insert, Mishap, daemon
<1>10. CASE \E x \in left : SaveFails(x)
  BY <1>10 DEF SaveFails, Foremost, Insert, Mishap, Return
<1>11. CASE \E x \in left : Delete(x)
  <2>1. PICK x \in left : Delete(x)
    BY <1>11
  <2>2. pc = "delete" /\ DeleteAt(location[x]) /\ UNCHANGED <<arrived, removed, todo>>
    BY <2>1 DEF Delete
  <2>3. /\ memory' \subseteq memory /\ x \notin memory'
        /\ \A y \in Held : y \in memory /\ y # x => y \in memory'
    BY <2>2, DeleteFacts
  <2>4. \A g \in todo : g \subseteq Held /\ x \notin g
    BY <2>2 DEF Held
  <2>5. left \subseteq Held
    BY <2>2 DEF Held
  <2>6. \A g \in todo' : g \subseteq memory' \cup removed'
    BY <2>2, <2>3, <2>4
  <2>7. memory' \subseteq arrived' /\ removed' \subseteq arrived'
    BY <2>2, <2>3
  <2>8. CASE left = {x}
    <3>1. pc' = "process"
      BY <2>1, <2>8 DEF Delete
    <3> QED
      BY <2>6, <2>7, <3>1
  <2>9. CASE left # {x}
    <3>1. pc' = "delete" /\ group' = group /\ left' = left \ {x}
      BY <2>1, <2>2, <2>9 DEF Delete
    <3>2. left' \subseteq memory' \cup removed'
      BY <2>2, <2>3, <2>5, <3>1
    <3>3. \A y \in group' \ left' : y \notin memory'
      BY <2>2, <2>3, <3>1
    <3> QED
      BY <2>2, <2>6, <2>7, <3>1, <3>2, <3>3
  <2> QED
    BY <2>8, <2>9
<1>12. CASE \E x \in left : DeleteFails(x)
  BY <1>12 DEF DeleteFails, DeleteAt, Foremost, Mishap, Return
<1>13. CASE EndRound
  BY <1>13 DEF EndRound, Return
<1>14. CASE Elapse
  BY <1>14 DEF Elapse
<1>15. CASE Crash
  BY <1>15 DEF Crash, Mishap, Return
<1>16. CASE UNCHANGED vars
  BY <1>16 DEF vars, daemon
<1> QED
  BY <1>1, <1>2, <1>3, <1>4, <1>5, <1>6, <1>7, <1>8, <1>9, <1>10, <1>11, <1>12, <1>13, <1>14, <1>15, <1>16 DEF Next, Step

\* Only a reading of the memory gives the daemon more to delete.
LEMMA HeldShrinks ==
    ASSUME IInv, [Next]_vars, ~Read
    PROVE  Held' \subseteq Held
<1> USE DEF IInv, TypeOK, PC, ListsInv, Working, Held
<1>1. CASE \E x \in Part : Arrive(x)
  BY <1>1 DEF Arrive, daemon
<1>2. CASE \E x \in Part : OwnerDeletes(x)
  BY <1>2 DEF OwnerDeletes, daemon
<1>3. CASE Poll
  BY <1>3 DEF Poll
<1>5. CASE ReadFails
  BY <1>5 DEF ReadFails, Return
<1>6. CASE \E g \in todo : Process(g)
  BY <1>6 DEF Process, Accept, Turn
<1>7. CASE \E g \in todo : Skip(g)
  BY <1>7 DEF Skip, Turn
<1>8. CASE \E x \in left : Save(x)
  BY <1>8 DEF Save
<1>9. CASE \E x \in left : AnswerLost(x)
  BY <1>9 DEF AnswerLost, daemon
<1>10. CASE \E x \in left : SaveFails(x)
  BY <1>10 DEF SaveFails, Return
<1>11. CASE \E x \in left : Delete(x)
  BY <1>11 DEF Delete
<1>12. CASE \E x \in left : DeleteFails(x)
  BY <1>12 DEF DeleteFails, Return
<1>13. CASE EndRound
  BY <1>13 DEF EndRound, Return
<1>14. CASE Elapse
  BY <1>14 DEF Elapse
<1>15. CASE Crash
  BY <1>15 DEF Crash, Return
<1>16. CASE UNCHANGED vars
  BY <1>16 DEF vars, daemon
<1> QED
  BY <1>1, <1>2, <1>3, <1>5, <1>6, <1>7, <1>8, <1>9, <1>10, <1>11, <1>12, <1>13, <1>14, <1>15, <1>16 DEF Next, Step

\* What a reading gives it to delete is in the memory.
LEMMA HeldRead ==
    ASSUME IInv, Read
    PROVE  Held' \subseteq memory
<1>1. PICK R \in SUBSET memory : todo' = Link(R \cap Valid)
  BY DEF Read
<1>2. R \cap Valid \subseteq Part
  BY DEF IInv, TypeOK
<1>3. \A g \in todo' : g \subseteq memory
  BY <1>1, <1>2, LinkFacts
<1>4. pc' = "process" /\ left' = {}
  BY DEF Read, IInv, ListsInv
<1> QED
  BY <1>3, <1>4 DEF Held

\* Nobody but the network adds to the memory or gives a location.
LEMMA OnlyArrivalsAdd ==
    ASSUME [Next]_vars, \A x \in Part : ~Arrive(x)
    PROVE  memory' \subseteq memory /\ location' = location /\ arrived' = arrived
<1>1. CASE \E x \in Part : OwnerDeletes(x)
  BY <1>1 DEF OwnerDeletes
<1>2. CASE Poll \/ Read \/ ReadFails \/ EndRound
  BY <1>2 DEF Poll, Read, ReadFails, EndRound
<1>3. CASE \E g \in todo : Process(g) \/ Skip(g)
  BY <1>3 DEF Process, Skip
<1>4. CASE \E x \in left : Save(x) \/ AnswerLost(x) \/ SaveFails(x)
  BY <1>4 DEF Save, AnswerLost, SaveFails
<1>5. CASE \E x \in left : Delete(x) \/ DeleteFails(x)
  BY <1>5 DEF Delete, DeleteFails, DeleteAt
<1>6. CASE Elapse \/ Crash
  BY <1>6 DEF Elapse, Crash
<1>7. CASE UNCHANGED vars
  BY <1>7 DEF vars
<1> QED
  BY <1>1, <1>2, <1>3, <1>4, <1>5, <1>6, <1>7 DEF Next, Step

\* An arriving part takes a location that is free, and changes nobody else's.
LEMMA ArrivalFacts ==
    ASSUME IInv, NEW x \in Part, Arrive(x)
    PROVE  /\ \A y \in Part : y # x => location'[y] = location[y]
           /\ \A y \in memory : location[y] # location'[x]
           /\ location'[x] = x \/ location'[x] \in arrived
           /\ x \notin arrived /\ arrived' = arrived \cup {x}
           /\ memory' = memory \cup {x} /\ x \notin Held /\ Held' = Held
           /\ UNCHANGED <<inbox, daemon, removed>>
<1>1. PICK l \in {x} \cup {location[y] : y \in Held} :
        /\ \A y \in memory : location[y] # l
        /\ location' = [location EXCEPT ![x] = l]
  BY DEF Arrive
<1>2. location'[x] = l /\ \A y \in Part : y # x => location'[y] = location[y]
  BY <1>1 DEF IInv, TypeOK
<1>3. l = x \/ l \in arrived
  BY <1>1, HeldFacts DEF IInv, LocationInv
<1>4. x \notin arrived /\ x \notin Held
  BY HeldFacts DEF Arrive
<1>5. Held' = Held
  BY DEF Arrive, daemon, Held
<1> QED
  BY <1>1, <1>2, <1>3, <1>4, <1>5 DEF Arrive

\* Locations stay apart: an arrival takes a free one, a reading sees each once.
LEMMA LocationPreserved ==
    ASSUME IInv, [Next]_vars
    PROVE  LocationInv'
<1>1. Held \subseteq arrived /\ memory \subseteq arrived /\ arrived \subseteq Part
  BY HeldFacts DEF IInv, PresentInv
<1>2. CASE \E x \in Part : Arrive(x)
  <2>1. PICK x \in Part : Arrive(x)
    BY <1>2
  <2>2. /\ \A y \in Part : y # x => location'[y] = location[y]
        /\ \A y \in memory : location[y] # location'[x]
        /\ location'[x] = x \/ location'[x] \in arrived
        /\ x \notin arrived /\ arrived' = arrived \cup {x}
        /\ memory' = memory \cup {x} /\ Held' = Held
    BY <2>1, ArrivalFacts
  <2>3. \A y, z \in memory' : location'[y] = location'[z] => y = z
    BY <1>1, <2>2 DEF IInv, LocationInv
  <2>4. \A y, z \in Held' : location'[y] = location'[z] => y = z
    BY <1>1, <2>2 DEF IInv, LocationInv
  <2>5. \A y \in Part : location'[y] \in arrived' \/ location'[y] = y
    BY <2>2 DEF IInv, LocationInv
  <2> QED
    BY <2>3, <2>4, <2>5 DEF LocationInv
<1>3. CASE ~ \E x \in Part : Arrive(x)
  <2>1. memory' \subseteq memory /\ location' = location /\ arrived' = arrived
    BY <1>3, OnlyArrivalsAdd
  <2>2. Held' \subseteq Held \/ Held' \subseteq memory
    BY HeldShrinks, HeldRead
  <2> QED
    BY <2>1, <2>2 DEF IInv, LocationInv
<1> QED
  BY <1>2, <1>3

\* Nothing is deleted that was not saved, but what lies in the stead of a part
\* the owner deleted.
LEMMA SavedPreserved ==
    ASSUME IInv, [Next]_vars
    PROVE  NothingLost' /\ SavedInv'
<1>0. Held \subseteq arrived /\ arrived \subseteq Part /\ removed \subseteq arrived
  BY HeldFacts DEF IInv, PresentInv
<1>1. CASE \E x \in Part : Arrive(x)
  <2>1. PICK x \in Part : Arrive(x)
    BY <1>1
  <2>2. /\ \A y \in Part : y # x => location'[y] = location[y]
        /\ x \notin arrived /\ arrived' = arrived \cup {x}
        /\ memory' = memory \cup {x}
        /\ UNCHANGED <<inbox, daemon, removed>>
    BY <2>1, ArrivalFacts
  <2>3. SavedInv'
    BY <2>2 DEF IInv, SavedInv, daemon
  <2>4. ASSUME NEW y \in arrived'
        PROVE  \/ y \in memory' \/ inbox'[y] > 0 \/ y \in removed'
               \/ \E z \in removed' : z # y /\ location'[z] = location'[y]
    <3>1. CASE y = x
      BY <2>2, <3>1
    <3>2. CASE y # x
      <4>1. \/ y \in memory \/ inbox[y] > 0 \/ y \in removed
            \/ \E z \in removed : z # y /\ location[z] = location[y]
        BY <2>2, <3>2 DEF IInv, NothingLost
      <4>2. \A z \in removed : location'[z] = location[z]
        BY <1>0, <2>2
      <4>3. location'[y] = location[y]
        BY <1>0, <2>2, <3>2
      <4> QED
        BY <2>2, <4>1, <4>2, <4>3
    <3> QED
      BY <3>1, <3>2
  <2> QED
    BY <2>3, <2>4 DEF NothingLost
<1>11. CASE \E x \in left : Delete(x)
  <2>1. PICK x \in left : Delete(x)
    BY <1>11
  <2>2. /\ pc = "delete" /\ DeleteAt(location[x])
        /\ UNCHANGED <<arrived, removed, inbox, location>>
    BY <2>1 DEF Delete
  <2>3. \A y \in memory \ memory' : inbox[y] > 0 \/ (y # x /\ x \in removed /\ location[y] = location[x])
    <3>1. inbox[x] > 0
      BY <2>2 DEF IInv, SavedInv, TypeOK
    <3> QED
      BY <2>2, <3>1, DeleteFacts
  <2>4. NothingLost'
    BY <2>2, <2>3 DEF IInv, NothingLost
  <2>5. SavedInv'
    BY <2>1, <2>2 DEF Delete, IInv, SavedInv
  <2> QED
    BY <2>4, <2>5
<1>12. CASE \E x \in left : DeleteFails(x)
  <2>1. PICK x \in left : DeleteFails(x)
    BY <1>12
  <2>2. /\ pc = "delete"
        /\ DeleteAt(location[x]) \/ UNCHANGED memory
        /\ UNCHANGED <<arrived, removed, inbox, location>>
        /\ pc' = "idle"
    BY <2>1 DEF DeleteFails, Return
  <2>3. inbox[x] > 0
    BY <2>2 DEF IInv, SavedInv, TypeOK
  <2>4. \A y \in memory \ memory' : inbox[y] > 0 \/ (y # x /\ x \in removed /\ location[y] = location[x])
    BY <2>2, <2>3, DeleteFacts
  <2>5. NothingLost'
    BY <2>2, <2>4 DEF IInv, NothingLost
  <2> QED
    BY <2>2, <2>5 DEF SavedInv
<1> USE DEF IInv, TypeOK, ListsInv, Working, PresentInv, NothingLost, SavedInv
<1>2. CASE \E x \in Part : OwnerDeletes(x)
  BY <1>2 DEF OwnerDeletes, Mishap, daemon
<1>3. CASE Poll
  BY <1>3 DEF Poll
<1>4. CASE Read
  BY <1>4 DEF Read
<1>5. CASE ReadFails
  BY <1>5 DEF ReadFails, Mishap, Return
<1>6. CASE \E g \in todo : Process(g)
  BY <1>6 DEF Process, Accept, Turn
<1>7. CASE \E g \in todo : Skip(g)
  BY <1>7 DEF Skip, Turn
<1>8. CASE \E x \in left : Save(x)
  BY <1>8 DEF Save, Foremost, Insert
<1>9. CASE \E x \in left : AnswerLost(x)
  BY <1>9 DEF AnswerLost, Foremost, Insert, Mishap, daemon
<1>10. CASE \E x \in left : SaveFails(x)
  BY <1>10 DEF SaveFails, Foremost, Insert, Mishap, Return
<1>13. CASE EndRound
  BY <1>13 DEF EndRound, Return
<1>14. CASE Elapse
  BY <1>14 DEF Elapse
<1>15. CASE Crash
  BY <1>15 DEF Crash, Mishap, Return
<1>16. CASE UNCHANGED vars
  BY <1>16 DEF vars, daemon
<1> QED
  BY <1>1, <1>2, <1>3, <1>4, <1>5, <1>6, <1>7, <1>8, <1>9, <1>10, <1>11, <1>12, <1>13, <1>14, <1>15, <1>16 DEF Next, Step

\* A part stays apart from what the daemon is to delete while it is in the phone.
LEMMA ApartKept ==
    ASSUME IInv, [Next]_vars, NEW x \in memory, Apart(x)
    PROVE  Apart(x)'
<1>1. Held \subseteq arrived /\ memory \subseteq arrived /\ arrived \subseteq Part
  BY HeldFacts DEF IInv, PresentInv
<1>2. CASE \E z \in Part : Arrive(z)
  <2>1. PICK z \in Part : Arrive(z)
    BY <1>2
  <2>2. /\ \A y \in Part : y # z => location'[y] = location[y]
        /\ z \notin arrived /\ Held' = Held
    BY <2>1, ArrivalFacts
  <2> QED
    BY <1>1, <2>2 DEF Apart
<1>3. CASE ~ \E z \in Part : Arrive(z)
  <2>1. location' = location
    BY <1>3, OnlyArrivalsAdd
  <2>2. CASE Read
    BY <2>1, <2>2, HeldRead DEF Apart, IInv, LocationInv
  <2>3. CASE ~Read
    BY <2>1, <2>3, HeldShrinks DEF Apart
  <2> QED
    BY <2>2, <2>3
<1> QED
  BY <1>2, <1>3

\* Such a part goes only when it is deleted itself or by its owner.
LEMMA WitnessKept ==
    ASSUME IInv, [Next]_vars, NEW x \in memory \cup removed, x \in removed \/ Apart(x),
           pc = "delete" => x \notin left
    PROVE  x \in memory' \cup removed' /\ (x \in removed' \/ Apart(x)')
<1>1. removed \subseteq removed' /\ (x \in memory => x \in memory' \cup removed')
  <2>1. CASE \E z \in Part : Arrive(z) \/ OwnerDeletes(z)
    BY <2>1 DEF Arrive, OwnerDeletes
  <2>2. CASE Poll \/ Read \/ ReadFails \/ EndRound
    BY <2>2 DEF Poll, Read, ReadFails, EndRound
  <2>3. CASE \E g \in todo : Process(g) \/ Skip(g)
    BY <2>3 DEF Process, Skip
  <2>4. CASE \E z \in left : Save(z) \/ AnswerLost(z) \/ SaveFails(z)
    BY <2>4 DEF Save, AnswerLost, SaveFails
  <2>5. CASE \E z \in left : Delete(z) \/ DeleteFails(z)
    <3>1. PICK z \in left : Delete(z) \/ DeleteFails(z)
      BY <2>5
    <3>2. pc = "delete" /\ z # x /\ z \in Held
      BY <3>1 DEF Delete, DeleteFails, Held
    <3>3. x \in removed \/ location[x] # location[z]
      BY <3>2 DEF Apart
    <3> QED
      BY <3>1, <3>3 DEF Delete, DeleteFails, DeleteAt
  <2>6. CASE Elapse \/ Crash
    BY <2>6 DEF Elapse, Crash
  <2>7. CASE UNCHANGED vars
    BY <2>7 DEF vars
  <2> QED
    BY <2>1, <2>2, <2>3, <2>4, <2>5, <2>6, <2>7 DEF Next, Step
<1> QED
  BY <1>1, ApartKept

\* The message waited for keeps a part there, when no other becomes that message
\* and none of its parts comes to be saved.
LEMMA AwaitedKept ==
    ASSUME IInv, [Next]_vars, waiting' = waiting,
           pc' \in {"save", "delete"} => pc \in {"save", "delete"} /\ group' = group
    PROVE  AwaitedInv'
<1> SUFFICES ASSUME waiting # NoId
             PROVE  /\ pc' \in {"save", "delete"} =>
                          \A x \in group' : Length[Of(x)] = 1 \/ UdhId[Of(x)] # waiting
                    /\ \E x \in memory' \cup removed' :
                          /\ Length[Of(x)] # 1 /\ UdhId[Of(x)] = waiting
                          /\ x \in removed' \/ Apart(x)'
  BY DEF AwaitedInv
<1>1. PICK x \in memory \cup removed :
        Length[Of(x)] # 1 /\ UdhId[Of(x)] = waiting /\ (x \in removed \/ Apart(x))
  BY DEF IInv, AwaitedInv
<1>2. pc = "delete" => x \notin left
  BY <1>1 DEF IInv, AwaitedInv, TypeOK
<1>3. x \in memory' \cup removed' /\ (x \in removed' \/ Apart(x)')
  BY <1>1, <1>2, WitnessKept
<1>4. pc' \in {"save", "delete"} =>
        \A y \in group' : Length[Of(y)] = 1 \/ UdhId[Of(y)] # waiting
  BY DEF IInv, AwaitedInv
<1> QED
  BY <1>1, <1>3, <1>4

\* What the daemon waits for is there, and is not what it is about to delete.
LEMMA AwaitedPreserved ==
    ASSUME IInv, [Next]_vars
    PROVE  AwaitedInv'
<1>1. CASE \E x \in Part : Arrive(x) \/ OwnerDeletes(x)
  BY <1>1, AwaitedKept DEF Arrive, OwnerDeletes, daemon
<1>2. CASE Poll \/ Read \/ ReadFails \/ EndRound
  BY <1>2, AwaitedKept DEF Poll, Read, ReadFails, EndRound, Return
<1>3. CASE \E g \in todo : Process(g)
  <2>1. PICK g \in todo : Process(g)
    BY <1>3
  <2>2. group' = g /\ pc = "process" /\ UNCHANGED <<memory, location, removed>>
    BY <2>1 DEF Process, Accept
  <2>3. \A x \in g : Of(x) = MessageOf(g)
    BY DEF IInv, LinkedInv
  <2>4. CASE Multipart(g) /\ SameId(g)
    <3>1. waiting' = NoId
      BY <2>1, <2>4 DEF Process
    <3> QED
      BY <3>1 DEF AwaitedInv
  <2>5. CASE ~(Multipart(g) /\ SameId(g))
    <3> SUFFICES ASSUME waiting # NoId
                 PROVE  /\ \A x \in group' : Length[Of(x)] = 1 \/ UdhId[Of(x)] # waiting
                        /\ \E x \in memory' \cup removed' :
                              /\ Length[Of(x)] # 1 /\ UdhId[Of(x)] = waiting
                              /\ x \in removed' \/ Apart(x)'
      BY <2>1, <2>5 DEF AwaitedInv, Process
    <3>1. Length[MessageOf(g)] = 1 \/ UdhId[MessageOf(g)] # waiting
      BY <2>5 DEF Multipart, SameId
    <3>2. PICK x \in memory \cup removed :
            Length[Of(x)] # 1 /\ UdhId[Of(x)] = waiting /\ (x \in removed \/ Apart(x))
      BY DEF IInv, AwaitedInv
    <3>3. x \in memory' \cup removed' /\ (x \in removed' \/ Apart(x)')
      BY <2>2, <3>2, WitnessKept
    <3> QED
      BY <2>2, <2>3, <3>1, <3>2, <3>3
  <2> QED
    BY <2>4, <2>5
<1>4. CASE \E g \in todo : Skip(g)
  <2>1. PICK g \in todo : Skip(g)
    BY <1>4
  <2>2. pc = "process" /\ pc' = "process"
    BY <2>1 DEF Skip
  <2>3. CASE waiting' = UdhId[MessageOf(g)]
    <3>1. Length[MessageOf(g)] # 1
      BY <2>1 DEF Skip, Complete, Multipart
    <3>2. PICK x \in g : x \in memory \cup removed /\ Of(x) = MessageOf(g)
      BY DEF IInv, LinkedInv, PresentInv
    <3>3. x \in Held
      BY <3>2 DEF Held
    <3>4. Apart(x)
      BY <3>3 DEF Apart, IInv, LocationInv
    <3>5. x \in memory' \cup removed' /\ (x \in removed' \/ Apart(x)')
      BY <2>2, <3>2, <3>4, WitnessKept
    <3> QED
      BY <2>2, <2>3, <3>1, <3>2, <3>5 DEF AwaitedInv
  <2>4. CASE waiting' = waiting
    BY <2>2, <2>4, AwaitedKept
  <2> QED
    BY <2>1, <2>3, <2>4 DEF Skip
<1>5. CASE \E x \in left : Save(x) \/ AnswerLost(x) \/ SaveFails(x)
  <2>1. /\ waiting' = waiting /\ pc = "save"
        /\ pc' \in {"save", "delete"} => group' = group
    BY <1>5 DEF Save, AnswerLost, SaveFails, Return, daemon
  <2> QED
    BY <2>1, AwaitedKept
<1>6. CASE \E x \in left : Delete(x) \/ DeleteFails(x)
  <2>1. /\ waiting' = waiting /\ pc = "delete"
        /\ pc' \in {"save", "delete"} => group' = group
    BY <1>6 DEF Delete, DeleteFails, Return
  <2> QED
    BY <2>1, AwaitedKept
<1>7. CASE Elapse
  BY <1>7, AwaitedKept DEF Elapse
<1>8. CASE Crash
  BY <1>8 DEF Crash, AwaitedInv
<1>9. CASE UNCHANGED vars
  BY <1>9, AwaitedKept DEF vars, daemon
<1> QED
  BY <1>1, <1>2, <1>3, <1>4, <1>5, <1>6, <1>7, <1>8, <1>9 DEF Next, Step

-----------------------------------------------------------------------------
(* Copies in the inbox *)

\* Without an insertion or a mishap, no part may become fresh.
LEMMA CountKept ==
    ASSUME TypeOK, CountInv, UNCHANGED <<inbox, mishaps>>,
           \A y \in Part : Fresh(y)' => Fresh(y)
    PROVE  CountInv'
<1>1. \A y \in Part : inbox[y] \in Nat /\ mishaps \in Nat
  BY MishapsAssumption DEF TypeOK
<1> SUFFICES ASSUME NEW y \in Part
             PROVE  inbox'[y] <= mishaps' + (IF Fresh(y)' THEN 0 ELSE 1)
  BY DEF CountInv
<1>2. inbox[y] <= mishaps + (IF Fresh(y) THEN 0 ELSE 1)
  BY DEF CountInv
<1>3. CASE Fresh(y)
  BY <1>1, <1>2, <1>3
<1>4. CASE ~Fresh(y)
  BY <1>1, <1>2, <1>4
<1> QED
  BY <1>3, <1>4

\* A mishap pays for whatever becomes fresh by it.
LEMMA CountPaid ==
    ASSUME TypeOK, CountInv, Mishap, UNCHANGED inbox
    PROVE  CountInv'
<1>1. mishaps \in Nat /\ mishaps' = mishaps + 1
  BY MishapsAssumption DEF TypeOK, Mishap
<1> SUFFICES ASSUME NEW y \in Part
             PROVE  inbox'[y] <= mishaps' + (IF Fresh(y)' THEN 0 ELSE 1)
  BY DEF CountInv
<1>2. inbox[y] \in Nat /\ inbox[y] <= mishaps + 1
  BY <1>1 DEF CountInv, TypeOK
<1> QED
  BY <1>1, <1>2

\* A mishap also pays for the row inserted with it.
LEMMA CountPaidInsert ==
    ASSUME TypeOK, CountInv, Mishap, NEW x \in Part, Fresh(x), Insert(x)
    PROVE  CountInv'
<1>1. mishaps \in Nat /\ mishaps' = mishaps + 1
  BY MishapsAssumption DEF TypeOK, Mishap
<1> SUFFICES ASSUME NEW y \in Part
             PROVE  inbox'[y] <= mishaps' + (IF Fresh(y)' THEN 0 ELSE 1)
  BY DEF CountInv
<1>2. inbox[y] \in Nat /\ inbox[y] <= mishaps + (IF Fresh(y) THEN 0 ELSE 1)
  BY DEF CountInv, TypeOK
<1>3. CASE y = x
  <2>1. inbox'[y] = inbox[y] + 1 /\ inbox[y] <= mishaps
    BY <1>1, <1>2, <1>3 DEF Insert, TypeOK
  <2> QED
    BY <1>1, <1>2, <2>1
<1>4. CASE y # x
  <2>1. inbox'[y] = inbox[y] /\ inbox[y] <= mishaps + 1
    BY <1>1, <1>2, <1>4 DEF Insert, TypeOK
  <2> QED
    BY <1>1, <1>2, <2>1
<1> QED
  BY <1>3, <1>4

\* An insertion without a mishap uses the freshness of its part up.
LEMMA CountInsert ==
    ASSUME TypeOK, CountInv, UNCHANGED mishaps, NEW x \in Part, Fresh(x), ~Fresh(x)',
           Insert(x), \A y \in Part : Fresh(y)' => Fresh(y)
    PROVE  CountInv'
<1>1. mishaps \in Nat /\ mishaps' = mishaps
  BY MishapsAssumption DEF TypeOK
<1> SUFFICES ASSUME NEW y \in Part
             PROVE  inbox'[y] <= mishaps' + (IF Fresh(y)' THEN 0 ELSE 1)
  BY DEF CountInv
<1>2. inbox[y] \in Nat /\ inbox[y] <= mishaps + (IF Fresh(y) THEN 0 ELSE 1)
  BY DEF CountInv, TypeOK
<1>3. CASE y = x
  <2>1. inbox'[y] = inbox[y] + 1 /\ inbox[y] <= mishaps
    BY <1>1, <1>2, <1>3 DEF Insert, TypeOK
  <2> QED
    BY <1>1, <1>2, <1>3, <2>1
<1>4. CASE y # x
  <2>1. inbox'[y] = inbox[y]
    BY <1>4 DEF Insert, TypeOK
  <2>2. CASE Fresh(y)
    BY <1>1, <1>2, <2>1, <2>2
  <2>3. CASE ~Fresh(y)
    BY <1>1, <1>2, <2>1, <2>3
  <2> QED
    BY <2>2, <2>3
<1> QED
  BY <1>3, <1>4

\* No step makes a part fresh again, or saves a part that is not, for free.
LEMMA CountPreserved ==
    ASSUME IInv, [Next]_vars
    PROVE  CountInv'
<1>1. CASE \E x \in Part : Arrive(x)
  <2>1. UNCHANGED <<inbox, mishaps>>
    BY <1>1 DEF Arrive
  <2>2. \A y \in Part : Fresh(y)' => Fresh(y)
    BY <1>1 DEF Arrive, daemon, IInv, TypeOK, ListsInv, Working, LinkedInv, PresentInv, Fresh, Done
  <2> QED
    BY <2>1, <2>2, CountKept DEF IInv
<1>2. CASE \E x \in Part : OwnerDeletes(x)
  BY <1>2, CountPaid DEF IInv, OwnerDeletes
<1>3. CASE Poll
  <2>1. UNCHANGED <<inbox, mishaps>>
    BY <1>3 DEF Poll
  <2>2. \A y \in Part : Fresh(y)' => Fresh(y)
    BY <1>3 DEF Poll, IInv, TypeOK, ListsInv, Working, LinkedInv, PresentInv, Fresh, Done
  <2> QED
    BY <2>1, <2>2, CountKept DEF IInv
<1>4. CASE Read
  <2>1. PICK R \in SUBSET memory : todo' = Link(R \cap Valid)
    BY <1>4 DEF Read
  <2>2. \A g \in todo' : g \subseteq memory
    <3>1. R \cap Valid \subseteq Part
      BY DEF IInv, TypeOK
    <3> QED
      BY <2>1, <3>1, LinkFacts
  <2>3. /\ pc = "read" /\ pc' = "process"
        /\ UNCHANGED <<arrived, memory, inbox, mishaps>>
    BY <1>4 DEF Read
  <2>4. \A y \in Part : Fresh(y)' => Fresh(y)
    BY <2>2, <2>3 DEF Fresh, Done
  <2> QED
    BY <2>3, <2>4, CountKept DEF IInv
<1>5. CASE ReadFails
  BY <1>5, CountPaid DEF IInv, ReadFails
<1>6. CASE \E g \in todo : Process(g)
  <2>1. UNCHANGED <<inbox, mishaps>>
    BY <1>6 DEF Process
  <2>2. \A y \in Part : Fresh(y)' => Fresh(y)
    BY <1>6 DEF Process, Accept, Turn, IInv, TypeOK, ListsInv, Working, LinkedInv, PresentInv, Fresh, Done
  <2> QED
    BY <2>1, <2>2, CountKept DEF IInv
<1>7. CASE \E g \in todo : Skip(g)
  <2>1. UNCHANGED <<inbox, mishaps>>
    BY <1>7 DEF Skip
  <2>2. \A y \in Part : Fresh(y)' => Fresh(y)
    BY <1>7 DEF Skip, Turn, IInv, TypeOK, ListsInv, Working, LinkedInv, PresentInv, Fresh, Done
  <2> QED
    BY <2>1, <2>2, CountKept DEF IInv
<1>8. CASE \E x \in left : Save(x)
  <2>1. PICK x \in left : Save(x)
    BY <1>8
  <2>2. x \in Part /\ Fresh(x) /\ ~Fresh(x)' /\ Insert(x) /\ UNCHANGED mishaps
    BY <2>1 DEF Save, Foremost, IInv, TypeOK, ListsInv, Working, LinkedInv, PresentInv, Fresh, Done
  <2>3. \A y \in Part : Fresh(y)' => Fresh(y)
    BY <2>1 DEF Save, IInv, TypeOK, ListsInv, Working, LinkedInv, PresentInv, Fresh, Done
  <2> QED
    BY <2>2, <2>3, CountInsert DEF IInv
<1>9. CASE \E x \in left : AnswerLost(x)
  <2>1. PICK x \in left : AnswerLost(x)
    BY <1>9
  <2>2. x \in Part /\ Fresh(x) /\ Mishap
    BY <2>1 DEF AnswerLost, IInv, TypeOK, ListsInv, Working, LinkedInv, PresentInv, Fresh, Done
  <2> QED
    BY <2>1, <2>2, CountPaidInsert DEF AnswerLost, IInv
<1>10. CASE \E x \in left : SaveFails(x)
  <2>1. PICK x \in left : SaveFails(x)
    BY <1>10
  <2>2. x \in Part /\ Fresh(x) /\ Mishap
    BY <2>1 DEF SaveFails, IInv, TypeOK, ListsInv, Working, LinkedInv, PresentInv, Fresh, Done
  <2> QED
    BY <2>1, <2>2, CountPaid, CountPaidInsert DEF SaveFails, IInv
<1>11. CASE \E x \in left : Delete(x)
  <2>1. UNCHANGED <<inbox, mishaps>>
    BY <1>11 DEF Delete
  <2>2. \A y \in Part : Fresh(y)' => Fresh(y)
    BY <1>11 DEF Delete, DeleteAt, Foremost, IInv, TypeOK, ListsInv, Working, LinkedInv, PresentInv, Fresh, Done
  <2> QED
    BY <2>1, <2>2, CountKept DEF IInv
<1>12. CASE \E x \in left : DeleteFails(x)
  BY <1>12, CountPaid DEF IInv, DeleteFails
<1>13. CASE EndRound
  <2>1. UNCHANGED <<inbox, mishaps>>
    BY <1>13 DEF EndRound
  <2>2. \A y \in Part : Fresh(y)' => Fresh(y)
    BY <1>13 DEF EndRound, Return, IInv, TypeOK, ListsInv, Working, LinkedInv, PresentInv, Fresh, Done
  <2> QED
    BY <2>1, <2>2, CountKept DEF IInv
<1>14. CASE Elapse
  <2>1. UNCHANGED <<inbox, mishaps>>
    BY <1>14 DEF Elapse
  <2>2. \A y \in Part : Fresh(y)' => Fresh(y)
    BY <1>14 DEF Elapse, IInv, TypeOK, ListsInv, Working, LinkedInv, PresentInv, Fresh, Done
  <2> QED
    BY <2>1, <2>2, CountKept DEF IInv
<1>15. CASE Crash
  BY <1>15, CountPaid DEF IInv, Crash
<1>16. CASE UNCHANGED vars
  <2>1. UNCHANGED <<inbox, mishaps>> /\ \A y \in Part : Fresh(y)' => Fresh(y)
    BY <1>16 DEF vars, daemon, Fresh, Done
  <2> QED
    BY <2>1, CountKept DEF IInv
<1> QED
  BY <1>1, <1>2, <1>3, <1>4, <1>5, <1>6, <1>7, <1>8, <1>9, <1>10, <1>11, <1>12, <1>13, <1>14, <1>15, <1>16 DEF Next, Step

-----------------------------------------------------------------------------
(* The theorems *)

LEMMA InitInv == Init => IInv
<1> SUFFICES ASSUME Init PROVE IInv
  OBVIOUS
<1>1. TypeOK
  BY MishapsAssumption, IdAssumption DEF Init, TypeOK, PC
<1>2. Finite
  BY FS_EmptySet DEF Init, Finite
<1>3. ListsInv /\ LinkedInv /\ PresentInv /\ SavedInv /\ AwaitedInv
  BY DEF Init, ListsInv, LinkedInv, PresentInv, SavedInv, AwaitedInv, Working
<1>4. NothingLost /\ LocationInv
  BY DEF Init, NothingLost, LocationInv, Held
<1>5. CountInv
  BY DEF Init, CountInv, Fresh, Done
<1> QED
  BY <1>1, <1>2, <1>3, <1>4, <1>5 DEF IInv

LEMMA StepInv == IInv /\ [Next]_vars => IInv'
<1> SUFFICES ASSUME IInv, [Next]_vars PROVE IInv'
  OBVIOUS
<1> QED
  BY TypePreserved, ListsPreserved, LinkedPreserved, PresentPreserved,
     LocationPreserved, SavedPreserved, AwaitedPreserved, CountPreserved DEF IInv

THEOREM InductiveInvariant == Spec => []IInv
  BY InitInv, StepInv, PTL DEF Spec

\* The daemon, its phone and the inbox table keep their types.
THEOREM TypeCorrect == Spec => []TypeOK
<1>1. IInv => TypeOK
  BY DEF IInv
<1> QED
  BY <1>1, InductiveInvariant, PTL

\* No part leaves the phone for anywhere but the inbox, whatever fails.
THEOREM NothingIsLost == Spec => []NothingLost
<1>1. IInv => NothingLost
  BY DEF IInv
<1> QED
  BY <1>1, InductiveInvariant, PTL

\* A part is in the inbox once, and once more for each mishap at most.
THEOREM CopiesAreBounded == Spec => []SavedAgainOnlyByMishap
<1>1. IInv => SavedAgainOnlyByMishap
  <2> SUFFICES ASSUME IInv, NEW x \in Part PROVE inbox[x] <= 1 + mishaps
    BY DEF SavedAgainOnlyByMishap
  <2>1. mishaps \in Nat /\ inbox[x] \in Nat
    BY MishapsAssumption DEF IInv, TypeOK
  <2>2. inbox[x] <= mishaps + (IF Fresh(x) THEN 0 ELSE 1)
    BY DEF IInv, CountInv
  <2> QED
    BY <2>1, <2>2
<1> QED
  BY <1>1, InductiveInvariant, PTL

\* The daemon never by itself waits for a message the phone no longer has.
THEOREM AwaitedStaysPresent == Spec => []AwaitedIsPresent
<1>1. IInv => AwaitedIsPresent
  BY DEF IInv, AwaitedInv, AwaitedIsPresent
<1> QED
  BY <1>1, InductiveInvariant, PTL
=============================================================================
