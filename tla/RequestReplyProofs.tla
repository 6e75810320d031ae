------------------------- MODULE RequestReplyProofs -------------------------
(***************************************************************************)
(* Gammu's requests and deferred events, for rings of any size, any number *)
(* of tries, commands, lines and frames per reading: types, whose result   *)
(* the caller of a request is told, what becomes of deferred events, and   *)
(* that the ring implements the queue of module EventQueue.                *)
(***************************************************************************)
EXTENDS RequestReply, SequenceTheorems, TLAPS

Slot == 0..MaxDeferred - 1

\* The main loop is at the bottom of the stack and never waits for an answer;
\* above it are calls of GSM_WaitFor.
ShapeOf(s) ==
    /\ s[1].kind = "None" /\ s[1].mode \notin {"write", "wait"}
    /\ \A i \in 2..Len(s) : s[i].kind # "None" /\ s[i].mode # "idle"
Shape == ShapeOf(stack)

TInv == TypeOK /\ Shape

LEMMA TopFacts ==
    ASSUME TypeOK
    PROVE  /\ stack \in Seq(Activation) /\ Len(stack) \in Nat \ {0} /\ top \in Activation
           /\ \A i \in 1..Len(stack) : stack[i] \in Activation
<1>1. stack \in Seq(Activation) /\ stack # <<>> BY DEF TypeOK
<1> QED BY <1>1 DEF top

\* The activation on top is replaced, the others stay.
LEMMA BelowFacts ==
    ASSUME TypeOK, NEW a \in Activation
    PROVE  /\ Below(a) \in Seq(Activation) /\ Below(a) # <<>> /\ Len(Below(a)) = Len(stack)
           /\ Below(a)[Len(stack)] = a
           /\ \A i \in 1..Len(stack) - 1 : Below(a)[i] = stack[i]
           /\ Replace(a) <=> stack' = Below(a)
<1>1. stack \in Seq(Activation) /\ Len(stack) \in Nat \ {0} BY TopFacts
<1> QED BY <1>1 DEF Replace, Below

\* GSM_WaitFor returns: its activation goes, the one below is told.
LEMMA ReturnFacts ==
    ASSUME TypeOK, Len(stack) > 1, Return
    PROVE  /\ stack' \in Seq(Activation) /\ stack' # <<>> /\ Len(stack') = Len(stack) - 1
           /\ stack'[Len(stack) - 1] =
                [stack[Len(stack) - 1] EXCEPT !.disturbed = @ \/ request # "None"]
           /\ \A i \in 1..Len(stack) - 2 : stack'[i] = stack[i]
<1>1. Len(stack) \in Nat \ {0} /\ \A i \in 1..Len(stack) : stack[i] \in Activation
  BY TopFacts
<1>2. \A i \in 1..Len(stack) - 1 :
         [stack[i] EXCEPT !.disturbed = @ \/ request # "None"] \in Activation
  <2> SUFFICES ASSUME NEW i \in 1..Len(stack) - 1
               PROVE  [stack[i] EXCEPT !.disturbed = @ \/ request # "None"] \in Activation
    OBVIOUS
  <2>1. stack[i] \in Activation BY <1>1
  <2>2. PICK b \in BOOLEAN : b = (stack[i].disturbed \/ request # "None") OBVIOUS
  <2>3. [stack[i] EXCEPT !.disturbed = b] \in Activation BY <2>1 DEF Activation
  <2> QED BY <2>2, <2>3
<1>3. stack' = [i \in 1..Len(stack) - 1 |->
                  IF i < Len(stack) - 1 THEN stack[i]
                  ELSE [stack[i] EXCEPT !.disturbed = @ \/ request # "None"]]
  BY DEF Return
<1>4. stack' \in [1..Len(stack) - 1 -> Activation] BY <1>1, <1>2, <1>3
<1>5. Len(stack) - 1 \in Nat BY <1>1
<1>6. stack' \in Seq(Activation) BY <1>4, <1>5, SeqDef
<1>7. Len(stack') = Len(stack) - 1 BY <1>4, <1>5, <1>6
<1> QED BY <1>1, <1>3, <1>6, <1>7

\* A new activation goes on top of a stack.
LEMMA EnterFacts ==
    ASSUME NEW st \in Seq(Activation), NEW k \in Kind, Enter(k, st)
    PROVE  /\ stack' \in Seq(Activation) /\ stack' # <<>> /\ Len(stack') = Len(st) + 1
           /\ stack'[Len(st) + 1] = Call(k, "write")
           /\ \A i \in 1..Len(st) : stack'[i] = st[i]
           /\ request' = k /\ dispatched' = "timeout"
<1>1. Call(k, "write") \in Activation
  <2>1. <<>> \in Seq(Frame) OBVIOUS
  <2>2. 0 \in 0..ReplyNum BY ReplyNumAssumption
  <2> QED BY <2>1, <2>2 DEF Call, Activation, Result
<1>2. \A a \in Activation :
         /\ Append(st, a) \in Seq(Activation) /\ Append(st, a) # <<>>
         /\ Len(Append(st, a)) = Len(st) + 1 /\ Append(st, a)[Len(st) + 1] = a
         /\ \A i \in 1..Len(st) : Append(st, a)[i] = st[i]
  BY AppendProperties
<1> QED BY <1>1, <1>2 DEF Enter

\* The three ways a step may change the stack keep its shape.
LEMMA ShapeBelow ==
    ASSUME TInv, NEW a \in Activation, a.kind = top.kind,
           a.mode \in {"write", "wait"} => top.kind # "None",
           a.mode = "idle" => top.kind = "None"
    PROVE  ShapeOf(Below(a))
<1>1. /\ Len(stack) \in Nat \ {0} /\ Len(Below(a)) = Len(stack) /\ Below(a)[Len(stack)] = a
      /\ \A i \in 1..Len(stack) - 1 : Below(a)[i] = stack[i]
  BY TopFacts, BelowFacts DEF TInv
<1> QED BY <1>1 DEF TInv, Shape, ShapeOf, top

LEMMA ShapeReturn ==
    ASSUME TInv, top.kind # "None", Return
    PROVE  Len(stack) > 1 /\ stack' \in Seq(Activation) /\ stack' # <<>> /\ Shape'
<1>1. Len(stack) \in Nat \ {0} BY TopFacts DEF TInv
<1>2. Len(stack) > 1 BY <1>1 DEF TInv, Shape, ShapeOf, top
<1>3. \A i \in 1..Len(stack) : stack[i] \in Activation BY TopFacts DEF TInv
<1>4. /\ stack' \in Seq(Activation) /\ stack' # <<>> /\ Len(stack') = Len(stack) - 1
      /\ \A i \in 1..Len(stack) - 1 : stack'[i].kind = stack[i].kind /\ stack'[i].mode = stack[i].mode
  <2>1. stack[Len(stack) - 1] \in Activation BY <1>1, <1>2, <1>3
  <2>2. /\ stack' \in Seq(Activation) /\ stack' # <<>> /\ Len(stack') = Len(stack) - 1
        /\ stack'[Len(stack) - 1] =
             [stack[Len(stack) - 1] EXCEPT !.disturbed = @ \/ request # "None"]
        /\ \A i \in 1..Len(stack) - 2 : stack'[i] = stack[i]
    BY <1>2, ReturnFacts DEF TInv
  <2>3. /\ stack'[Len(stack) - 1].kind = stack[Len(stack) - 1].kind
        /\ stack'[Len(stack) - 1].mode = stack[Len(stack) - 1].mode
    BY <2>1, <2>2 DEF Activation
  <2>4. \A i \in 1..Len(stack) - 1 : i = Len(stack) - 1 \/ i \in 1..Len(stack) - 2
    BY <1>1
  <2> QED BY <2>2, <2>3, <2>4
<1> QED BY <1>1, <1>2, <1>4 DEF TInv, Shape, ShapeOf

LEMMA ShapeEnter ==
    ASSUME NEW st \in Seq(Activation), st # <<>>, ShapeOf(st), NEW k \in Kind, Enter(k, st)
    PROVE  stack' \in Seq(Activation) /\ stack' # <<>> /\ Shape'
<1>1. /\ stack' \in Seq(Activation) /\ stack' # <<>> /\ Len(stack') = Len(st) + 1
      /\ stack'[Len(st) + 1] = Call(k, "write") /\ \A i \in 1..Len(st) : stack'[i] = st[i]
  BY EnterFacts
<1>2. Len(st) \in Nat \ {0} OBVIOUS
<1>3. k # "None" BY DEF Kind
<1> QED BY <1>1, <1>2, <1>3 DEF Shape, ShapeOf, Call

\* The handler of an event leaves the stack alone or sends a request of its own.
LEMMA HandlerFacts ==
    ASSUME NEW st \in Seq(Activation), st # <<>>, ShapeOf(st), NEW type, Handler(type, st),
           TypeOK
    PROVE  /\ \/ UNCHANGED <<request, dispatched, cancelling>> /\ stack' = st
              \/ Enter("CancelCall", st) /\ cancelling' = TRUE
           /\ request' \in Kind \cup {"None"} /\ dispatched' \in Result
           /\ cancelling' \in BOOLEAN /\ lastRing' \in BOOLEAN
           /\ stack' \in Seq(Activation) /\ stack' # <<>> /\ Shape'
<1>1. \/ UNCHANGED <<request, dispatched, cancelling>> /\ stack' = st
      \/ Enter("CancelCall", st) /\ cancelling' = TRUE
  BY DEF Handler, HangUp
<1>2. CASE UNCHANGED <<request, dispatched, cancelling>> /\ stack' = st
  BY <1>2 DEF TypeOK, Handler, Shape
<1>3. CASE Enter("CancelCall", st) /\ cancelling' = TRUE
  <2>1. "CancelCall" \in Kind BY DEF Kind
  <2> QED BY <1>3, <2>1, EnterFacts, ShapeEnter DEF TypeOK, Handler, Result
<1> QED BY <1>1, <1>2, <1>3

\* Positions in the ring.
LEMMA ModFacts ==
    ASSUME NEW N \in Nat \ {0}, NEW a \in 0..N - 1, NEW b \in 0..N
    PROVE  /\ (a + b) % N = IF a + b < N THEN a + b ELSE a + b - N
           /\ (a + b) % N \in 0..N - 1
OBVIOUS

LEMMA EventFacts ==
    /\ \A type \in {"IncomingCall", "CallEnd"} : NewEvent(type) \in Event
    /\ \A ev \in Event, b \in BOOLEAN, c \in BOOLEAN :
          [ev EXCEPT !.cancelled = b, !.over = c] \in Event
BY DEF NewEvent, Event

LEMMA CancelType == ASSUME slots \in [Slot -> Event] PROVE CancelEvents \in [Slot -> Event]
<1> SUFFICES ASSUME NEW i \in Slot
             PROVE  [slots[i] EXCEPT !.cancelled = @ \/ i \in Walked, !.over = @ \/ i \in Held] \in Event
  BY DEF CancelEvents, Cancel
<1>1. PICK b \in BOOLEAN : b = (slots[i].cancelled \/ i \in Walked) OBVIOUS
<1>2. PICK c \in BOOLEAN : c = (slots[i].over \/ i \in Held) OBVIOUS
<1>3. slots[i] \in Event OBVIOUS
<1> QED BY <1>1, <1>2, <1>3, EventFacts

LEMMA PushType ==
    ASSUME TypeOK, NEW s \in [Slot -> Event], NEW type \in {"IncomingCall", "CallEnd"},
           Push(s, type)
    PROVE  /\ slots' \in [Slot -> Event] /\ head' \in Slot /\ tail' = tail
           /\ entries' \in 0..MaxDeferred
<1>1. /\ head \in Slot /\ entries \in 0..MaxDeferred /\ MaxDeferred \in Nat \ {0}
      /\ NewEvent(type) \in Event
  BY DeferredAssumption, EventFacts DEF TypeOK, Slot
<1>2. 1 \in 0..MaxDeferred /\ (head + 1) % MaxDeferred \in Slot
  BY <1>1, ModFacts DEF Slot
<1>3. CASE entries = MaxDeferred BY <1>1, <1>3 DEF Push
<1>4. CASE entries # MaxDeferred BY <1>1, <1>2, <1>4 DEF Push
<1> QED BY <1>3, <1>4

\* What is on top after a frame was dispatched.
LEMMA RestFacts ==
    ASSUME TypeOK, top.buf # <<>>
    PROVE  /\ Rest \in Activation /\ Rest.kind = top.kind /\ Rest.mode = top.mode
           /\ Head(top.buf) \in Frame
           /\ \A res \in Result, own \in {"none", "ok", "error"} :
                 /\ [Rest EXCEPT !.mode = "handled", !.result = res] \in Activation
                 /\ [Rest EXCEPT !.mode = "handled", !.result = res].kind = top.kind
                 /\ [Rest EXCEPT !.mode = "handled", !.result = res].mode = "handled"
                 /\ [Rest EXCEPT !.mode = "events", !.result = res, !.own = own] \in Activation
                 /\ [Rest EXCEPT !.mode = "events", !.result = res, !.own = own].kind = top.kind
                 /\ [Rest EXCEPT !.mode = "events", !.result = res, !.own = own].mode = "events"
<1>1. top \in Activation /\ top.buf \in Seq(Frame) BY TopFacts DEF Activation
<1>2. Tail(top.buf) \in Seq(Frame) /\ Head(top.buf) \in Frame
  BY <1>1, HeadTailProperties
<1>3. PICK b \in BOOLEAN : b = (top.disturbed \/ top.own # "none") OBVIOUS
<1>4. PICK s \in Seq(Frame) : s = Tail(top.buf) BY <1>2
<1>5. Rest = [top EXCEPT !.buf = s, !.disturbed = b] BY <1>3, <1>4 DEF Rest
<1>6. Rest \in Activation /\ Rest.kind = top.kind /\ Rest.mode = top.mode
  BY <1>1, <1>5 DEF Activation
<1> QED BY <1>2, <1>6 DEF Activation

\* What is on top after the frame that completes a request.
LEMMA CompletedFacts ==
    ASSUME TypeOK, top.buf # <<>>, NEW res \in Result, NEW own \in {"none", "ok", "error"}
    PROVE  \E a \in Activation :
              /\ a = [Rest EXCEPT !.mode = "events", !.result = res, !.own = own]
              /\ a.kind = top.kind /\ a.mode = "events"
<1>1. Rest \in Activation /\ Rest.kind = top.kind BY RestFacts
<1>2. PICK a : a = [Rest EXCEPT !.mode = "events", !.result = res, !.own = own] OBVIOUS
<1>3. a \in Activation /\ a.kind = top.kind /\ a.mode = "events" BY <1>1, <1>2 DEF Activation
<1> QED BY <1>2, <1>3

\* The ways in which a step changes the activation on top.
LEMMA TopMoves ==
    ASSUME TypeOK
    PROVE  /\ \A m \in {"idle", "write", "wait", "frames"} :
                 /\ [top EXCEPT !.mode = m] \in Activation
                 /\ [top EXCEPT !.mode = m].kind = top.kind /\ [top EXCEPT !.mode = m].mode = m
           /\ [top EXCEPT !.mode = "frames", !.buf = line] \in Activation
           /\ [top EXCEPT !.mode = "frames", !.buf = line].kind = top.kind
           /\ [top EXCEPT !.mode = "frames", !.buf = line].mode = "frames"
           /\ top.tries + 1 < ReplyNum =>
                 /\ [top EXCEPT !.tries = @ + 1, !.mode = "write"] \in Activation
                 /\ [top EXCEPT !.tries = @ + 1, !.mode = "write"].kind = top.kind
                 /\ [top EXCEPT !.tries = @ + 1, !.mode = "write"].mode = "write"
<1>1. top \in Activation /\ line \in Seq(Frame) BY TopFacts DEF TypeOK
<1>2. ReplyNum \in Nat /\ top.tries \in 0..ReplyNum BY <1>1, ReplyNumAssumption DEF Activation
<1>3. \A m \in {"idle", "write", "wait", "frames"} :
         /\ [top EXCEPT !.mode = m] \in Activation
         /\ [top EXCEPT !.mode = m].kind = top.kind /\ [top EXCEPT !.mode = m].mode = m
  BY <1>1 DEF Activation
<1>4. \A b \in Seq(Frame) :
         /\ [top EXCEPT !.mode = "frames", !.buf = b] \in Activation
         /\ [top EXCEPT !.mode = "frames", !.buf = b].kind = top.kind
         /\ [top EXCEPT !.mode = "frames", !.buf = b].mode = "frames"
  BY <1>1 DEF Activation
<1>5. \A n \in 0..ReplyNum :
         /\ [top EXCEPT !.tries = n, !.mode = "write"] \in Activation
         /\ [top EXCEPT !.tries = n, !.mode = "write"].kind = top.kind
         /\ [top EXCEPT !.tries = n, !.mode = "write"].mode = "write"
  BY <1>1 DEF Activation
<1>6. top.tries + 1 < ReplyNum => top.tries + 1 \in 0..ReplyNum BY <1>2
<1> QED BY <1>1, <1>3, <1>4, <1>5, <1>6

\* A step that leaves the ring and the bounds alone needs its types looked at
\* only where it changes something.
Ringless == UNCHANGED <<ring, commands, lines, dead, wasFull, ghosts>>

LEMMA TypeFrame ==
    ASSUME TypeOK, Ringless,
           request' \in Kind \cup {"None"}, dispatched' \in Result,
           cancelling' \in BOOLEAN, lastRing' \in BOOLEAN,
           stack' \in Seq(Activation), stack' # <<>>,
           asked' \in Seq(Kind), line' \in Seq(Frame), Shape'
    PROVE  TInv'
BY DEF TInv, TypeOK, Ringless, ring

LEMMA TypePreserved == ASSUME TInv, [Next]_vars PROVE TInv'
<1> USE DEF TInv
<1>t. /\ top \in Activation /\ stack \in Seq(Activation) /\ stack # <<>>
      /\ top.result \in Result /\ asked \in Seq(Kind) /\ line \in Seq(Frame)
      /\ request \in Kind \cup {"None"} /\ dispatched \in Result
      /\ cancelling \in BOOLEAN /\ lastRing \in BOOLEAN
  BY TopFacts DEF TypeOK, Activation
<1>b. \A a \in Activation :
         /\ Replace(a) /\ a.kind = top.kind /\ (a.mode \in {"write", "wait"} => top.kind # "None")
            /\ (a.mode = "idle" => top.kind = "None")
              => stack' \in Seq(Activation) /\ stack' # <<>> /\ Shape'
  BY BelowFacts, ShapeBelow DEF Shape
<1>k. (top.mode \in {"write", "wait"} => top.kind # "None") /\ (top.mode = "idle" => top.kind = "None")
  <2>1. Len(stack) \in Nat \ {0} BY TopFacts
  <2> QED BY <2>1 DEF Shape, ShapeOf, top
<1>o. ASSUME NEW e, OnceReturns(e), top.kind # "None"
      PROVE  stack' \in Seq(Activation) /\ stack' # <<>> /\ Shape'
  BY <1>b, <1>o, TopMoves, ShapeReturn DEF OnceReturns
<1>1. CASE Command
  <2>1. "GetSecurityStatus" \in Kind BY DEF Kind
  <2>2. /\ stack' \in Seq(Activation) /\ stack' # <<>> /\ Shape'
        /\ request' = "GetSecurityStatus" /\ dispatched' = "timeout"
    BY <1>1, <1>t, <2>1, ShapeEnter, EnterFacts DEF Command, Shape
  <2>3. commands' \in 0..MaxCommands BY <1>1, BoundsAssumption DEF Command, TypeOK
  <2> QED BY <1>1, <2>1, <2>2, <2>3 DEF Command, TypeOK, ring, seen, Result
<1>2. CASE Write
  <2>1. asked' \in Seq(Kind)
    BY <1>2, <1>t, <1>k DEF Write, Mode, Activation
  <2> QED BY <1>2, <1>t, <1>b, <1>k, <2>1, TopMoves, TypeFrame DEF Write, Mode, Ringless, seen
<1>3. CASE WriteFails
  BY <1>3, <1>t, <1>k, ShapeReturn, TypeFrame DEF WriteFails, Mode, Ringless, seen, phone
<1>4. CASE ReadDevice
  <2>1. line' \in Seq(Frame) BY <1>4 DEF ReadDevice
  <2> QED BY <1>4, <1>t, <1>b, <2>1, TopMoves, TypeFrame DEF ReadDevice, Mode, Ringless, seen
<1>5. CASE Check
  <2>1. stack' \in Seq(Activation) /\ stack' # <<>> /\ Shape'
    BY <1>5, <1>o, <1>b, TopMoves DEF Check
  <2> QED BY <1>5, <1>t, <2>1, TypeFrame DEF Check, Ringless, seen, phone
<1>6. CASE TimesOut
  BY <1>6, <1>t, <1>k, <1>o, TypeFrame DEF TimesOut, Mode, Ringless, seen, phone
<1>7. CASE Idle
  BY <1>7, <1>t, <1>b, TopMoves, TypeFrame DEF Idle, Ringless, seen, phone
<1>8. CASE \/ \E k \in Kind, res \in {"more", "ok", "error"} : NotRequested(k, res)
           \/ \E k \in Kind : NeedAnother(k)
  <2>1. top.buf # <<>> /\ Replace(Rest) /\ dispatched' \in Result /\ top.mode = "frames"
    BY <1>8 DEF NotRequested, NeedAnother, Frames, Mode, Result
  <2>2. UNCHANGED <<request, ring, cancelling, lastRing, phone, dead, seen>>
    BY <1>8 DEF NotRequested, NeedAnother
  <2>3. stack' \in Seq(Activation) /\ stack' # <<>> /\ Shape'
    BY <1>b, <2>1, RestFacts
  <2> QED BY <1>t, <2>1, <2>2, <2>3, TypeFrame DEF Ringless, seen, phone
<1>9. ASSUME NEW k \in Kind, NEW res \in {"ok", "error"}, Complete(k, res) PROVE TInv'
  <2>1. stack' \in Seq(Activation) /\ stack' # <<>> /\ Shape'
    <3>1. PICK o \in {"none", "ok", "error"} : o = (IF top.kind = request THEN res ELSE top.own)
      BY <1>t DEF Activation
    <3>2. res \in Result /\ top.buf # <<>> BY <1>9 DEF Complete, Frames, Result
    <3>3. Rest.own = top.own BY <1>t DEF Rest, Activation
    <3>4. Replace([Rest EXCEPT !.mode = "events", !.result = res, !.own = o])
      BY <1>9, <3>1, <3>3 DEF Complete
    <3>5. PICK a \in Activation :
             /\ a = [Rest EXCEPT !.mode = "events", !.result = res, !.own = o]
             /\ a.kind = top.kind /\ a.mode = "events"
      BY <3>1, <3>2, CompletedFacts
    <3>6. Replace(a) BY <3>4, <3>5
    <3> QED BY <1>b, <3>5, <3>6
  <2>2. slots' \in [Slot -> Event] /\ head' \in Slot /\ tail' = tail /\ entries' \in 0..MaxDeferred
        /\ cancelling' \in BOOLEAN
    <3>1. CASE cancelling' = FALSE /\ Push(slots, "CallEnd")
      BY <3>1, PushType DEF TypeOK, Slot
    <3>2. CASE UNCHANGED <<cancelling, ring>> BY <3>2 DEF TypeOK, ring, Slot
    <3> QED BY <1>9, <3>1, <3>2 DEF Complete
  <2> QED BY <1>9, <2>1, <2>2 DEF Complete, TypeOK, Slot, phone, seen
<1>10. CASE IncomingCall
  <2>1. top.buf # <<>> /\ top.mode = "frames" BY <1>10 DEF IncomingCall, Frames, Mode
  <2>2. CASE /\ request = "None"
             /\ Handler("IncomingCall", Below([Rest EXCEPT !.mode = "handled", !.result = "ok"]))
             /\ UNCHANGED ring
    <3>1. PICK a \in Activation : a = [Rest EXCEPT !.mode = "handled", !.result = "ok"]
              /\ a.kind = top.kind /\ a.mode = "handled"
      BY <2>1, RestFacts DEF Result
    <3>2. /\ Below(a) \in Seq(Activation) /\ Below(a) # <<>> /\ ShapeOf(Below(a))
      BY <3>1, BelowFacts, ShapeBelow
    <3>3. /\ request' \in Kind \cup {"None"} /\ dispatched' \in Result
          /\ cancelling' \in BOOLEAN /\ lastRing' \in BOOLEAN
          /\ stack' \in Seq(Activation) /\ stack' # <<>> /\ Shape'
      BY <2>2, <3>1, <3>2, HandlerFacts
    <3> QED BY <1>10, <1>t, <2>2, <3>3, TypeFrame DEF IncomingCall, Ringless, seen, phone
  <2>3. CASE /\ Push(slots, "IncomingCall")
             /\ dispatched' = "ok" /\ Replace(Rest)
             /\ UNCHANGED <<request, cancelling, lastRing>>
    <3>1. stack' \in Seq(Activation) /\ stack' # <<>> /\ Shape'
      BY <1>b, <2>1, <2>3, RestFacts
    <3>2. slots' \in [Slot -> Event] /\ head' \in Slot /\ tail' = tail /\ entries' \in 0..MaxDeferred
      BY <2>3, PushType DEF TypeOK, Slot
    <3> QED BY <1>10, <2>3, <3>1, <3>2 DEF IncomingCall, TypeOK, Slot, phone, seen, Result
  <2> QED BY <1>10, <2>2, <2>3 DEF IncomingCall
<1>11. CASE CallEnds
  <2>1. top.buf # <<>> /\ top.mode = "frames" BY <1>11 DEF CallEnds, Frames, Mode
  <2>2. CancelEvents \in [Slot -> Event] BY CancelType DEF TypeOK, Slot
  <2>3. PICK b \in BOOLEAN : b = (wasFull \/ entries = MaxDeferred) OBVIOUS
  <2>4. wasFull' \in BOOLEAN /\ cancelling' \in BOOLEAN BY <1>11, <2>3 DEF CallEnds
  <2>5. CASE /\ slots' = CancelEvents /\ lastRing' = FALSE
             /\ Replace([Rest EXCEPT !.mode = "handled", !.result = "ok"])
             /\ UNCHANGED <<request, dispatched, head, tail, entries>>
    <3>1. stack' \in Seq(Activation) /\ stack' # <<>> /\ Shape'
      <4>1. "ok" \in Result BY DEF Result
      <4> QED BY <1>b, <2>1, <2>5, <4>1, RestFacts
    <3> QED BY <1>11, <2>2, <2>4, <2>5, <3>1 DEF CallEnds, TypeOK, Slot, phone
  <2>6. CASE /\ Push(CancelEvents, "CallEnd")
             /\ dispatched' = "ok" /\ Replace(Rest)
             /\ UNCHANGED <<request, lastRing>>
    <3>1. stack' \in Seq(Activation) /\ stack' # <<>> /\ Shape'
      BY <1>b, <2>1, <2>6, RestFacts
    <3>2. slots' \in [Slot -> Event] /\ head' \in Slot /\ tail' = tail /\ entries' \in 0..MaxDeferred
      BY <2>2, <2>6, PushType
    <3> QED BY <1>11, <2>4, <2>6, <3>1, <3>2 DEF CallEnds, TypeOK, Slot, phone, Result
  <2> QED BY <1>11, <2>5, <2>6 DEF CallEnds
<1>12. CASE ProcessEvent
  <2>1. /\ slots' \in [Slot -> Event] /\ head' \in Slot /\ tail' \in Slot
        /\ entries' \in 0..MaxDeferred
    <3>1. MaxDeferred \in Nat \ {0} /\ tail \in Slot /\ 1 \in 0..MaxDeferred
      BY DeferredAssumption DEF TypeOK, Slot
    <3>2. (tail + 1) % MaxDeferred \in Slot BY <3>1, ModFacts DEF Slot
    <3> QED BY <1>12, <3>1, <3>2 DEF ProcessEvent, TypeOK, Slot
  <2>2. dead' \in BOOLEAN
    <3>1. PICK b \in BOOLEAN : b = (request # "None") OBVIOUS
    <3> QED BY <1>12, <3>1 DEF ProcessEvent
  <2>3. CASE UNCHANGED <<request, dispatched, cancelling, lastRing, stack, ghosts>>
    BY <1>12, <2>1, <2>2, <2>3 DEF ProcessEvent, TypeOK, Slot, phone, Shape
  <2>4. CASE Handler(slots[tail].type, stack) /\ ghosts' = (ghosts \/ slots[tail].over)
    <3>1. PICK b \in BOOLEAN : b = (ghosts \/ slots[tail].over) OBVIOUS
    <3>2. /\ request' \in Kind \cup {"None"} /\ dispatched' \in Result
          /\ cancelling' \in BOOLEAN /\ lastRing' \in BOOLEAN
          /\ stack' \in Seq(Activation) /\ stack' # <<>> /\ Shape'
      BY <1>t, <2>4, HandlerFacts DEF Shape
    <3> QED BY <1>12, <2>1, <2>2, <2>4, <3>1, <3>2 DEF ProcessEvent, TypeOK, Slot, phone
  <2> QED BY <1>12, <2>3, <2>4 DEF ProcessEvent
<1>13. CASE DispatchReturns
  BY <1>13, <1>t, <1>b, TopMoves, TypeFrame DEF DispatchReturns, Ringless, seen, phone
<1>f. /\ \A k \in Kind, res \in {"more", "ok", "error"} : <<"answer", k, res>> \in Frame
      /\ <<"CLIP">> \in Frame /\ <<"NO CARRIER">> \in Frame
  BY DEF Frame
<1>14. CASE PhoneAnswers
  <2>1. asked' \in Seq(Kind) BY <1>14, <1>t DEF PhoneAnswers
  <2>2. line' \in Seq(Frame)
    <3>1. Head(asked) \in Kind BY <1>14, <1>t DEF PhoneAnswers
    <3>2. \A res \in {"ok", "error"} : Append(line, <<"answer", Head(asked), res>>) \in Seq(Frame)
      <4>1. \A x \in Frame : Append(line, x) \in Seq(Frame) BY <1>t
      <4> QED BY <1>f, <3>1, <4>1, Zenon
    <3> QED BY <1>14, <1>t, <3>2 DEF PhoneAnswers
  <2> QED BY <1>14, <1>t, <2>1, <2>2, TypeFrame DEF PhoneAnswers, Ringless, seen, Shape
<1>15. CASE PhoneSays
  <2>1. line' \in Seq(Frame)
    <3>1. \A x \in Frame : Append(line, x) \in Seq(Frame) BY <1>t
    <3>2. asked # <<>> => Head(asked) \in Kind BY <1>t
    <3> QED BY <1>15, <1>f, <3>1, <3>2 DEF PhoneSays
  <2>2. lines' \in 0..MaxLines
    <3>1. lines' = lines + 1 /\ lines < MaxLines BY <1>15 DEF PhoneSays
    <3>2. lines \in 0..MaxLines /\ MaxLines \in Nat BY BoundsAssumption DEF TypeOK
    <3> QED BY <3>1, <3>2
  <2> QED BY <1>15, <2>1, <2>2 DEF PhoneSays, TypeOK, ring, seen, Shape
<1>16. CASE UNCHANGED vars
  BY <1>16 DEF vars, ring, phone, seen, TypeOK, Shape
<1> QED BY <1>1, <1>2, <1>3, <1>4, <1>5, <1>6, <1>7, <1>8, <1>9, <1>10, <1>11, <1>12, <1>13,
           <1>14, <1>15, <1>16 DEF Next, Run

LEMMA TypeInit == Init => TInv
<1> SUFFICES ASSUME Init PROVE TInv OBVIOUS
<1>1. Call("None", "idle") \in Activation
  <2>1. <<>> \in Seq(Frame) OBVIOUS
  <2>2. 0 \in 0..ReplyNum BY ReplyNumAssumption
  <2> QED BY <2>1, <2>2 DEF Call, Activation, Result
<1>2. /\ stack \in Seq(Activation) /\ stack # <<>> /\ Len(stack) = 1
      /\ stack[1] = Call("None", "idle")
  BY <1>1 DEF Init
<1>3. Shape BY <1>2 DEF Shape, ShapeOf, Call
<1>4. slots \in [Slot -> Event] /\ 0 \in Slot /\ 0 \in 0..MaxDeferred
  <2>1. NewEvent("CallEnd") \in Event BY EventFacts
  <2>2. slots \in [Slot -> Event] BY <2>1 DEF Init, Slot
  <2> QED BY <2>2, DeferredAssumption DEF Slot
<1>5. 0 \in 0..MaxCommands /\ 0 \in 0..MaxLines BY BoundsAssumption
<1>6. asked \in Seq(Kind) /\ line \in Seq(Frame) BY DEF Init
<1>7. /\ request \in Kind \cup {"None"} /\ dispatched \in Result
      /\ cancelling \in BOOLEAN /\ lastRing \in BOOLEAN /\ dead \in BOOLEAN
      /\ wasFull \in BOOLEAN /\ ghosts \in BOOLEAN
  BY DEF Init, Result
<1> QED BY <1>2, <1>3, <1>4, <1>5, <1>6, <1>7 DEF Init, TInv, TypeOK, Slot

\* The state of requests, of the ring and of the line keeps its types.
THEOREM TypeCorrect == Spec => []TypeOK
<1>1. Spec => []TInv
  BY TypeInit, TypePreserved, PTL DEF Spec
<1> QED BY <1>1, PTL DEF TInv

-----------------------------------------------------------------------------
(***************************************************************************)
(* Results.  Only the call of GSM_WaitFor on top may still be without an   *)
(* answer, and then it is its command that is pending.  A call below has   *)
(* its answer and waits for a handler of events; the one on top that has   *)
(* its answer is about to make it DispatchError or has just done so.       *)
(***************************************************************************)
Answered(a) == a.own # "none" /\ (~a.disturbed => a.mode = "events" /\ a.result = a.own)
OnTop(a, req, res) ==
    /\ a.own = "none" => req = a.kind
    /\ a.own # "none" /\ ~a.disturbed =>
          /\ req = "None"
          /\ (a.mode = "events" /\ a.result = a.own) \/ (a.mode = "frames" /\ res = a.own)
Told ==
    /\ \A i \in 2..Len(stack) - 1 : Answered(stack[i])
    /\ Len(stack) > 1 => OnTop(top, request, dispatched)

OInv == TInv /\ Told

OwnStep == Len(stack') < Len(stack) /\ request = "None" => dispatched = top.own \/ top.disturbed

LEMMA ToldBelow ==
    ASSUME OInv, NEW a \in Activation, stack' = Below(a),
           Len(stack) > 1 => OnTop(a, request', dispatched')
    PROVE  Told' /\ OwnStep
<1>1. /\ Len(stack') = Len(stack) /\ stack'[Len(stack)] = a /\ Len(stack) \in Nat \ {0}
      /\ \A i \in 1..Len(stack) - 1 : stack'[i] = stack[i]
  BY BelowFacts, TopFacts DEF OInv, TInv
<1>2. top' = a BY <1>1 DEF top
<1>3. \A i \in 2..Len(stack) - 1 : stack'[i] = stack[i] BY <1>1
<1> QED BY <1>1, <1>2, <1>3 DEF OInv, Told, OwnStep

LEMMA ToldReturn ==
    ASSUME OInv, top.kind # "None", Return, UNCHANGED <<request, dispatched>>
    PROVE  Told'
<1>1. Len(stack) > 1 /\ Len(stack) \in Nat \ {0} BY ShapeReturn, TopFacts DEF OInv, TInv
<1>2. /\ Len(stack') = Len(stack) - 1
      /\ stack'[Len(stack) - 1] = [stack[Len(stack) - 1] EXCEPT !.disturbed = @ \/ request # "None"]
      /\ \A i \in 1..Len(stack) - 2 : stack'[i] = stack[i]
      /\ stack[Len(stack) - 1] \in Activation
  BY <1>1, ReturnFacts, TopFacts DEF OInv, TInv
<1>3. \A i \in 2..Len(stack') - 1 : Answered(stack'[i])
  BY <1>1, <1>2 DEF OInv, Told
<1>4. ASSUME Len(stack') > 1 PROVE OnTop(top, request, dispatched)'
  <2> DEFINE b == stack[Len(stack) - 1]
  <2>1. Answered(b) BY <1>1, <1>2, <1>4 DEF OInv, Told
  <2>2. PICK c \in BOOLEAN : c = (b.disturbed \/ request # "None") OBVIOUS
  <2>3. top' = [b EXCEPT !.disturbed = c] BY <1>1, <1>2, <2>2 DEF top
  <2>4. /\ top'.own = b.own /\ top'.mode = b.mode /\ top'.result = b.result
        /\ top'.disturbed = c
    BY <1>2, <2>3 DEF Activation
  <2> HIDE DEF b
  <2> QED BY <2>1, <2>2, <2>4 DEF Answered, OnTop
<1> QED BY <1>3, <1>4 DEF Told

LEMMA ToldEnter ==
    ASSUME NEW st \in Seq(Activation), NEW k \in Kind, Enter(k, st),
           \A i \in 2..Len(st) : Answered(st[i])
    PROVE  Told'
<1>1. /\ Len(stack') = Len(st) + 1 /\ Len(st) \in Nat
      /\ stack'[Len(st) + 1] = Call(k, "write") /\ \A i \in 1..Len(st) : stack'[i] = st[i]
      /\ request' = k
  BY EnterFacts
<1>2. top' = Call(k, "write") BY <1>1 DEF top
<1>3. OnTop(top, request, dispatched)' BY <1>1, <1>2 DEF OnTop, Call
<1> QED BY <1>1, <1>3 DEF Told

\* A step that returns or tries again, when the request is over or in vain.
LEMMA ToldOnce ==
    ASSUME OInv, NEW e, OnceReturns(e), top.kind # "None", UNCHANGED <<request, dispatched>>,
           e = "timeout" /\ request = "None" => top.disturbed,
           top.own # "none" \/ request = top.kind,
           request # "None" /\ top.own # "none" => top.disturbed
    PROVE  Told'
<1>1. CASE Return BY <1>1, ToldReturn
<1>2. CASE /\ e = "timeout" /\ top.tries + 1 < ReplyNum
           /\ Replace([top EXCEPT !.tries = @ + 1, !.mode = "write"])
  <2>1. top \in Activation BY TopFacts DEF OInv, TInv
  <2>2. PICK a \in Activation : a = [top EXCEPT !.tries = @ + 1, !.mode = "write"]
    BY <1>2, TopMoves DEF OInv, TInv
  <2>3. a.own = top.own /\ a.disturbed = top.disturbed /\ a.kind = top.kind
    BY <2>1, <2>2 DEF Activation
  <2>4. OnTop(a, request', dispatched') BY <1>2, <2>3 DEF OnTop
  <2>5. stack' = Below(a) BY <1>2, <2>2, BelowFacts DEF OInv, TInv
  <2> QED BY <2>4, <2>5, ToldBelow
<1> QED BY <1>1, <1>2 DEF OnceReturns

LEMMA ToldPreserved == ASSUME OInv, [Next]_vars PROVE Told' /\ OwnStep
<1> USE DEF OInv, TInv
<1>t. /\ top \in Activation /\ stack \in Seq(Activation) /\ Len(stack) \in Nat \ {0}
      /\ top.own \in {"none", "ok", "error"} /\ top.kind \in Kind \cup {"None"}
  BY TopFacts DEF Activation
<1>k. /\ Len(stack) > 1 <=> top.kind # "None"
      /\ top.mode \in {"write", "wait"} => top.kind # "None"
      /\ top.mode = "idle" => top.kind = "None"
  BY <1>t DEF Shape, ShapeOf, top
<1>o. top.kind # "None" => OnTop(top, request, dispatched) BY <1>k DEF Told
<1>b. ASSUME NEW a \in Activation, Replace(a), a.kind = top.kind,
             top.kind # "None" => OnTop(a, request', dispatched')
      PROVE  Told' /\ OwnStep
  <2>1. stack' = Below(a) BY <1>b, BelowFacts
  <2> QED BY <1>b, <1>k, <2>1, ToldBelow
<1>m. \A m \in {"idle", "write", "wait", "frames"} :
         LET a == [top EXCEPT !.mode = m] IN
         /\ a \in Activation /\ a.kind = top.kind /\ a.own = top.own /\ a.mode = m
         /\ a.disturbed = top.disturbed /\ a.result = top.result
  BY <1>t DEF Activation
<1>s. UNCHANGED stack => OwnStep BY <1>t DEF OwnStep
<1>1. CASE Command
  <2>a. top.mode = "idle" BY <1>1 DEF Command, Mode
  <2>1. Len(stack) = 1
    <3>1. top.kind = "None" BY <1>k, <2>a
    <3>2. ~(Len(stack) > 1) BY <1>k, <3>1
    <3>3. \A n \in Nat \ {0} : ~(n > 1) => n = 1 OBVIOUS
    <3>4. Len(stack) \in Nat \ {0} BY <1>t
    <3> HIDE DEF OInv, TInv
    <3> QED BY ONLY <3>2, <3>3, <3>4
  <2>2. "GetSecurityStatus" \in Kind BY DEF Kind
  <2>3. Enter("GetSecurityStatus", stack) BY <1>1 DEF Command
  <2>4. Len(stack') = Len(stack) + 1 BY <1>t, <2>2, <2>3, EnterFacts
  <2> QED BY <1>t, <2>1, <2>2, <2>3, <2>4, ToldEnter DEF OwnStep
<1>2. CASE Write
  BY <1>2, <1>b, <1>k, <1>m, <1>o DEF Write, Mode, OnTop
<1>3. CASE WriteFails
  <2>1. top.kind # "None" /\ Return /\ UNCHANGED <<request, dispatched>> /\ top.mode = "write"
    BY <1>3, <1>k DEF WriteFails, Mode
  <2> QED BY <1>t, <1>o, <2>1, ToldReturn DEF OnTop, OwnStep
<1>4. CASE ReadDevice
  <2>1. PICK a \in Activation : a = [top EXCEPT !.mode = "frames", !.buf = line]
    BY TopMoves
  <2>2. /\ a.kind = top.kind /\ a.own = top.own /\ a.disturbed = top.disturbed
    BY <1>t, <2>1 DEF Activation
  <2>3. top.kind # "None" => OnTop(a, request', dispatched')
    BY <1>4, <1>k, <1>o, <2>2 DEF ReadDevice, Mode, OnTop
  <2> QED BY <1>4, <1>b, <2>1, <2>2, <2>3 DEF ReadDevice
<1>5. CASE Check
  <2>1. top.kind # "None" /\ top.mode \in {"frames", "wait"} /\ UNCHANGED <<request, dispatched>>
    BY <1>5 DEF Check, Mode
  <2>2. CASE request = "None" /\ OnceReturns(dispatched)
    <3>1. top.own # "none" /\ (dispatched = top.own \/ top.disturbed)
      BY <1>t, <1>o, <2>1, <2>2 DEF OnTop
    <3>2. dispatched = "timeout" => top.disturbed BY <1>t, <3>1
    <3> QED BY <2>1, <2>2, <3>1, <3>2, ToldOnce DEF OwnStep
  <2>3. CASE request # "None" /\ Replace([top EXCEPT !.mode = "wait"])
    BY <1>b, <1>m, <1>o, <2>1, <2>3 DEF OnTop
  <2> QED BY <1>5, <2>2, <2>3 DEF Check
<1>6. CASE TimesOut
  <2>1. /\ top.kind # "None" /\ request # "None" /\ UNCHANGED <<request, dispatched>>
        /\ OnceReturns("timeout")
    BY <1>6, <1>k DEF TimesOut, Mode
  <2>2. (top.own # "none" \/ request = top.kind) /\ (top.own # "none" => top.disturbed)
    BY <1>o, <2>1 DEF OnTop
  <2> QED BY <2>1, <2>2, ToldOnce DEF OwnStep
<1>7. CASE Idle
  BY <1>7, <1>b, <1>m DEF Idle
<1>r. ASSUME top.buf # <<>>
      PROVE  /\ Rest \in Activation /\ Rest.kind = top.kind /\ Rest.own = top.own
             /\ top.own # "none" => Rest.disturbed
             /\ LET a == [Rest EXCEPT !.mode = "handled", !.result = "ok"] IN
                /\ a \in Activation /\ a.kind = top.kind /\ a.own = top.own
                /\ top.own # "none" => a.disturbed
  <2>1. Rest \in Activation /\ Rest.kind = top.kind BY <1>r, RestFacts
  <2>2. PICK c \in BOOLEAN : c = (top.disturbed \/ top.own # "none") OBVIOUS
  <2>3. PICK b \in Seq(Frame) : b = Tail(top.buf)
    BY <1>r, <1>t, HeadTailProperties DEF Activation
  <2>4. Rest = [top EXCEPT !.buf = b, !.disturbed = c] BY <2>2, <2>3 DEF Rest
  <2>5. Rest.own = top.own /\ (top.own # "none" => Rest.disturbed)
    BY <1>t, <2>2, <2>4 DEF Activation
  <2>6. "ok" \in Result BY DEF Result
  <2> QED BY <2>1, <2>5, <2>6 DEF Activation
<1>q. ASSUME top.buf # <<>>, request' = request
      PROVE  top.kind # "None" => OnTop(Rest, request', dispatched')
  BY <1>o, <1>q, <1>r DEF OnTop
<1>8. CASE \/ \E k \in Kind, res \in {"more", "ok", "error"} : NotRequested(k, res)
           \/ \E k \in Kind : NeedAnother(k)
  <2>1. top.buf # <<>> /\ Replace(Rest) /\ request' = request
    BY <1>8 DEF NotRequested, NeedAnother, Frames
  <2> QED BY <1>b, <1>q, <1>r, <2>1
<1>9. ASSUME NEW k \in Kind, NEW res \in {"ok", "error"}, Complete(k, res) PROVE Told' /\ OwnStep
  <2>1. top.buf # <<>> /\ request' = "None" BY <1>9 DEF Complete, Frames
  <2>2. PICK o \in {"none", "ok", "error"} : o = (IF top.kind = request THEN res ELSE top.own)
    BY <1>t
  <2>3. res \in Result BY DEF Result
  <2>4. PICK a \in Activation : /\ a = [Rest EXCEPT !.mode = "events", !.result = res, !.own = o]
                                /\ a.kind = top.kind /\ a.mode = "events"
    BY <2>1, <2>2, <2>3, CompletedFacts
  <2>5. /\ a.kind = top.kind /\ a.own = o /\ a.mode = "events" /\ a.result = res
        /\ a.disturbed = Rest.disturbed
    BY <1>r, <2>1, <2>4 DEF Activation
  <2>6. Replace(a) BY <1>9, <1>r, <2>1, <2>2, <2>4 DEF Complete
  <2>7. top.kind # "None" => OnTop(a, request', dispatched')
    BY <1>o, <1>r, <2>1, <2>2, <2>5 DEF OnTop
  <2> QED BY <1>b, <2>5, <2>6, <2>7
<1>h. ASSUME NEW st \in Seq(Activation), Len(st) = Len(stack), st # <<>>, ShapeOf(st), NEW type,
             Handler(type, st), \A i \in 2..Len(st) : Answered(st[i]),
             stack' = st => Told' /\ OwnStep
      PROVE  Told' /\ OwnStep
  <2>1. CASE stack' = st BY <1>h, <2>1
  <2>2. CASE Enter("CancelCall", st)
    <3>1. "CancelCall" \in Kind BY DEF Kind
    <3>2. Len(stack') = Len(stack) + 1 BY <1>h, <2>2, <3>1, EnterFacts
    <3> QED BY <1>h, <1>t, <2>2, <3>1, <3>2, ToldEnter DEF OwnStep
  <2> QED BY <1>h, <2>1, <2>2, HandlerFacts
<1>10. CASE IncomingCall
  <2>1. top.buf # <<>> BY <1>10 DEF IncomingCall, Frames
  <2>2. CASE /\ request = "None"
             /\ Handler("IncomingCall", Below([Rest EXCEPT !.mode = "handled", !.result = "ok"]))
    <3>1. PICK a \in Activation : /\ a = [Rest EXCEPT !.mode = "handled", !.result = "ok"]
                                  /\ a.kind = top.kind /\ a.own = top.own /\ a.mode = "handled"
                                  /\ top.own # "none" => a.disturbed
      BY <1>r, <2>1, RestFacts DEF Result
    <3>2. /\ Below(a) \in Seq(Activation) /\ Below(a) # <<>> /\ ShapeOf(Below(a))
          /\ Len(Below(a)) = Len(stack) /\ Below(a)[Len(stack)] = a
          /\ \A i \in 1..Len(stack) - 1 : Below(a)[i] = stack[i]
      BY <3>1, BelowFacts, ShapeBelow
    <3>3. Len(stack) > 1 => a.own # "none" /\ a.disturbed
      BY <1>k, <1>o, <1>t, <2>2, <3>1 DEF OnTop
    <3>4. \A i \in 2..Len(Below(a)) : Answered(Below(a)[i])
      BY <1>t, <3>2, <3>3 DEF Told, Answered
    <3>5. stack' = Below(a) => Told' /\ OwnStep
      BY <3>3, ToldBelow DEF OnTop
    <3> QED BY <1>h, <2>2, <3>1, <3>2, <3>4, <3>5
  <2>3. CASE Replace(Rest) /\ UNCHANGED <<request, cancelling, lastRing>>
    BY <1>b, <1>q, <1>r, <2>1, <2>3
  <2> QED BY <1>10, <2>2, <2>3 DEF IncomingCall
<1>11. CASE CallEnds
  <2>1. top.buf # <<>> /\ request' = request BY <1>11 DEF CallEnds, Frames
  <2>2. CASE Replace([Rest EXCEPT !.mode = "handled", !.result = "ok"])
    <3>1. PICK a \in Activation : /\ a = [Rest EXCEPT !.mode = "handled", !.result = "ok"]
                                  /\ a.kind = top.kind /\ a.own = top.own
                                  /\ top.own # "none" => a.disturbed
      BY <1>r, <2>1
    <3>2. top.kind # "None" => OnTop(a, request', dispatched')
      BY <1>o, <2>1, <3>1 DEF OnTop
    <3> QED BY <1>b, <2>2, <3>1, <3>2
  <2>3. CASE Replace(Rest)
    BY <1>b, <1>q, <1>r, <2>1, <2>3
  <2> QED BY <1>11, <2>2, <2>3 DEF CallEnds
<1>12. CASE ProcessEvent
  <2>1. CASE UNCHANGED <<request, dispatched, stack>>
    BY <1>s, <2>1 DEF Told, top
  <2>2. CASE request = "None" /\ Handler(slots[tail].type, stack)
    <3>1. Len(stack) > 1 => Answered(top)
      BY <1>k, <1>o, <1>t, <1>12, <2>2 DEF OnTop, Answered, ProcessEvent, Mode
    <3>2. \A i \in 2..Len(stack) : Answered(stack[i])
      BY <1>t, <3>1 DEF Told, top
    <3>3. CASE stack' = stack /\ UNCHANGED <<request, dispatched>>
      BY <1>s, <3>3 DEF Told, top
    <3>4. CASE Enter("CancelCall", stack)
      <4>1. "CancelCall" \in Kind BY DEF Kind
      <4>2. Len(stack') = Len(stack) + 1 BY <1>t, <3>4, <4>1, EnterFacts
      <4> QED BY <1>t, <3>2, <3>4, <4>1, <4>2, ToldEnter DEF OwnStep
    <3> QED BY <2>2, <3>3, <3>4 DEF Handler, HangUp
  <2> QED BY <1>12, <2>1, <2>2 DEF ProcessEvent
<1>13. CASE DispatchReturns
  <2>1. /\ Replace([top EXCEPT !.mode = "frames"]) /\ dispatched' = top.result
        /\ request' = request /\ top.mode \in {"handled", "events"}
    BY <1>13 DEF DispatchReturns, Mode
  <2>2. PICK a \in Activation : /\ a = [top EXCEPT !.mode = "frames"]
                                /\ a.kind = top.kind /\ a.own = top.own /\ a.mode = "frames"
                                /\ a.disturbed = top.disturbed
    BY <1>m
  <2>3. top.kind # "None" => OnTop(a, request', dispatched')
    BY <1>o, <2>1, <2>2 DEF OnTop
  <2> QED BY <1>b, <2>1, <2>2, <2>3
<1>14. CASE PhoneAnswers \/ PhoneSays \/ UNCHANGED vars
  <2>1. UNCHANGED <<request, dispatched, stack>> BY <1>14 DEF PhoneAnswers, PhoneSays, vars
  <2> QED BY <1>s, <2>1 DEF Told, top
<1> QED BY <1>1, <1>2, <1>3, <1>4, <1>5, <1>6, <1>7, <1>8, <1>9, <1>10, <1>11, <1>12, <1>13,
           <1>14 DEF Next, Run

LEMMA ToldInv == Spec => []OInv
<1>1. Init => Told BY DEF Init, Told
<1>2. OInv /\ [Next]_vars => OInv' BY TypePreserved, ToldPreserved DEF OInv
<1> QED BY <1>1, <1>2, TypeInit, PTL DEF Spec, OInv

\* The caller of GSM_WaitFor gets the result its own answer had, unless something
\* was dispatched in between, however requests and handlers of events nest.
THEOREM ResultsAreOwn == Spec => OwnResult
<1>1. OInv /\ [Next]_vars =>
        [Len(stack') < Len(stack) /\ request = "None" =>
            dispatched = top.own \/ top.disturbed]_vars
  BY ToldPreserved DEF OwnStep
<1> QED BY <1>1, ToldInv, PTL DEF Spec, OwnResult

\* GSM_WaitFor sends no command again that was answered, with the same exception.
THEOREM AnsweredOnce == Spec => []AnsweredIsNotResent
<1>1. OInv => AnsweredIsNotResent
  <2> SUFFICES ASSUME OInv, top.mode = "write", top.own # "none" PROVE top.disturbed
    BY DEF AnsweredIsNotResent
  <2>1. Len(stack) \in Nat \ {0} BY TopFacts DEF OInv, TInv
  <2>2. Len(stack) > 1 BY <2>1 DEF OInv, TInv, Shape, ShapeOf, top
  <2> QED BY <2>2 DEF OInv, Told, OnTop
<1> QED BY <1>1, ToldInv, PTL

-----------------------------------------------------------------------------
(* No event stays behind.                                                  *)

EventsRun(s) == \E i \in 1..Len(s) : s[i].mode = "events"
SInv == TInv /\ NoEventStranded

LEMMA StrandedMeans ==
    ASSUME TypeOK
    PROVE  NoEventStranded <=> (request = "None" /\ ~EventsRun(stack) => entries = 0)
<1>1. DOMAIN stack = 1..Len(stack) BY TopFacts
<1> QED BY <1>1 DEF NoEventStranded, EventsRun

\* A step that neither completes a request nor defers an event keeps it when it
\* keeps the events that are being processed.
LEMMA StrandKept ==
    ASSUME SInv, TInv', request' = "None" => request = "None", entries' = entries,
           EventsRun(stack) => EventsRun(stack') \/ entries = 0
    PROVE  NoEventStranded'
<1>1. (TypeOK /\ TypeOK') BY DEF SInv, TInv
<1>2. NoEventStranded <=> (request = "None" /\ ~EventsRun(stack) => entries = 0)
  BY <1>1, StrandedMeans
<1>3. stack' \in Seq(Activation) /\ DOMAIN stack' = 1..Len(stack') BY <1>1 DEF TypeOK
<1>4. request' = "None" /\ ~EventsRun(stack') => entries' = 0 BY <1>2 DEF SInv
<1> QED BY <1>3, <1>4 DEF NoEventStranded, EventsRun

LEMMA StrandBelow ==
    ASSUME SInv, TInv', NEW a \in Activation, stack' = Below(a), request' = request,
           entries' = entries, top.mode = "events" => a.mode = "events" \/ entries = 0
    PROVE  NoEventStranded'
<1>1. /\ Len(stack) \in Nat \ {0} /\ Len(Below(a)) = Len(stack) /\ Below(a)[Len(stack)] = a
      /\ \A i \in 1..Len(stack) - 1 : Below(a)[i] = stack[i]
  BY TopFacts, BelowFacts DEF SInv, TInv
<1>2. EventsRun(stack) => EventsRun(stack') \/ entries = 0
  <2> SUFFICES ASSUME NEW i \in 1..Len(stack), stack[i].mode = "events", entries # 0
               PROVE  EventsRun(stack')
    BY DEF EventsRun
  <2>1. i = Len(stack) \/ i \in 1..Len(stack) - 1 BY <1>1
  <2>2. stack'[i].mode = "events" BY <1>1, <2>1 DEF top
  <2> QED BY <1>1, <2>2 DEF EventsRun
<1> QED BY <1>2, StrandKept

LEMMA StrandReturn ==
    ASSUME SInv, TInv', Return, top.kind # "None", request' = request, entries' = entries,
           top.mode # "events"
    PROVE  NoEventStranded'
<1>1. Len(stack) \in Nat \ {0} /\ Len(stack) > 1 BY ShapeReturn, TopFacts DEF SInv, TInv
<1>2. \A i \in 1..Len(stack) : stack[i] \in Activation BY TopFacts DEF SInv, TInv
<1>3. /\ Len(stack') = Len(stack) - 1
      /\ stack'[Len(stack) - 1] =
           [stack[Len(stack) - 1] EXCEPT !.disturbed = @ \/ request # "None"]
      /\ \A i \in 1..Len(stack) - 2 : stack'[i] = stack[i]
  BY <1>1, ReturnFacts DEF SInv, TInv
<1>4. EventsRun(stack) => EventsRun(stack')
  <2> SUFFICES ASSUME NEW i \in 1..Len(stack), stack[i].mode = "events" PROVE EventsRun(stack')
    BY DEF EventsRun
  <2>1. i \in 1..Len(stack) - 1 BY <1>1 DEF top
  <2>2. i = Len(stack) - 1 \/ i \in 1..Len(stack) - 2 BY <1>1, <2>1
  <2>3. stack'[i].mode = stack[i].mode
    <3>1. stack[i] \in Activation BY <1>2
    <3>2. CASE i = Len(stack) - 1 BY <1>3, <3>1, <3>2 DEF Activation
    <3> QED BY <1>3, <2>2, <3>2
  <2> QED BY <1>3, <2>1, <2>3 DEF EventsRun
<1> QED BY <1>4, StrandKept

\* A request or a handler of events begins above what is there.
LEMMA StrandEnter ==
    ASSUME SInv, TInv', request' # "None"
    PROVE  NoEventStranded'
BY DEF NoEventStranded

LEMMA StrandHandler ==
    ASSUME SInv, TInv', NEW st \in Seq(Activation), st # <<>>, ShapeOf(st), NEW type,
           Handler(type, st), request = "None",
           \/ EventsRun(st)
           \/ entries' = entries /\ (EventsRun(stack) => EventsRun(st) \/ entries = 0)
    PROVE  NoEventStranded'
<1>1. TypeOK /\ TypeOK' BY DEF SInv, TInv
<1>2. \/ stack' = st
      \/ Enter("CancelCall", st)
  BY <1>1, HandlerFacts
<1>3. CASE Enter("CancelCall", st) BY <1>3, StrandEnter DEF Enter
<1>4. CASE stack' = st /\ EventsRun(st)
  <2>1. DOMAIN stack' = 1..Len(stack') BY <1>4
  <2> QED BY <1>4, <2>1 DEF NoEventStranded, EventsRun
<1>5. CASE stack' = st /\ entries' = entries /\ (EventsRun(stack) => EventsRun(st) \/ entries = 0)
  BY <1>5, StrandKept
<1> QED BY <1>2, <1>3, <1>4, <1>5

LEMMA StrandRuns == ASSUME TInv', EventsRun(stack') PROVE NoEventStranded'
<1>1. DOMAIN stack' = 1..Len(stack') BY DEF TInv, TypeOK
<1> QED BY <1>1 DEF NoEventStranded, EventsRun

LEMMA StrandPreserved == ASSUME SInv, [Next]_vars PROVE SInv'
<1>i. TInv /\ TypeOK /\ TInv' BY TypePreserved DEF SInv, TInv
<1> SUFFICES NoEventStranded' BY <1>i DEF SInv
<1>t. /\ top \in Activation /\ stack \in Seq(Activation) /\ stack # <<>>
      /\ Len(stack) \in Nat \ {0} /\ top.own \in {"none", "ok", "error"}
  BY <1>i, TopFacts DEF Activation
<1>k. top.mode \in {"write", "wait"} => top.kind # "None"
  BY <1>i, <1>t DEF TInv, Shape, ShapeOf, top
<1>b. ASSUME NEW a \in Activation, Replace(a), request' = request, entries' = entries,
             top.mode = "events" => a.mode = "events" \/ entries = 0
      PROVE  NoEventStranded'
  <2>1. stack' = Below(a) BY <1>b, <1>i, BelowFacts
  <2> QED BY <1>b, <1>i, <2>1, StrandBelow
<1>o. ASSUME NEW e, OnceReturns(e), top.kind # "None", top.mode # "events",
             request' = request, entries' = entries
      PROVE  NoEventStranded'
  BY <1>b, <1>i, <1>o, TopMoves, StrandReturn DEF OnceReturns
<1>1. CASE Command
  <2>1. request' # "None" BY <1>1 DEF Command, Enter
  <2> QED BY <1>i, <2>1, StrandEnter
<1>2. CASE Write \/ Idle
  <2>1. UNCHANGED <<request, entries>> /\ top.mode # "events"
        /\ \E m \in {"idle", "wait"} : Replace([top EXCEPT !.mode = m])
    BY <1>2 DEF Write, Idle, Mode, ring
  <2> QED BY <1>b, <1>i, <2>1, TopMoves
<1>3. CASE WriteFails
  <2>1. UNCHANGED <<request, entries>> /\ top.mode = "write" /\ Return
    BY <1>3 DEF WriteFails, Mode, ring
  <2> QED BY <1>i, <1>k, <2>1, StrandReturn
<1>4. CASE ReadDevice
  <2>1. UNCHANGED <<request, entries>> /\ top.mode # "events"
    BY <1>4 DEF ReadDevice, Mode, ring
  <2> QED BY <1>4, <1>b, <1>i, <2>1, TopMoves DEF ReadDevice
<1>5. CASE Check
  <2>1. UNCHANGED <<request, entries>> /\ top.mode # "events" /\ top.kind # "None"
    BY <1>5 DEF Check, Mode, ring
  <2> QED BY <1>5, <1>b, <1>i, <1>o, <2>1, TopMoves DEF Check
<1>6. CASE TimesOut
  <2>1. UNCHANGED <<request, entries>> /\ top.mode = "wait" /\ OnceReturns("timeout")
    BY <1>6 DEF TimesOut, Mode, ring
  <2> QED BY <1>k, <1>o, <2>1
<1>8. CASE \/ \E k \in Kind, res \in {"more", "ok", "error"} : NotRequested(k, res)
           \/ \E k \in Kind : NeedAnother(k)
  <2>1. /\ top.buf # <<>> /\ top.mode = "frames" /\ Replace(Rest)
        /\ UNCHANGED <<request, entries>>
    BY <1>8 DEF NotRequested, NeedAnother, Frames, Mode, ring
  <2> QED BY <1>b, <1>i, <2>1, RestFacts
<1>9. ASSUME NEW k \in Kind, NEW res \in {"ok", "error"}, Complete(k, res) PROVE NoEventStranded'
  <2>1. top.buf # <<>> /\ res \in Result BY <1>9 DEF Complete, Frames, Result
  <2>2. Rest.own = top.own BY <1>t DEF Rest, Activation
  <2>3. PICK o \in {"none", "ok", "error"} : o = (IF top.kind = request THEN res ELSE top.own)
    BY <1>t
  <2>4. PICK a \in Activation : /\ a = [Rest EXCEPT !.mode = "events", !.result = res, !.own = o]
                                /\ a.kind = top.kind /\ a.mode = "events"
    BY <1>i, <2>1, <2>3, CompletedFacts
  <2>5. stack' = Below(a) BY <1>9, <1>i, <2>2, <2>3, <2>4, BelowFacts DEF Complete
  <2>6. EventsRun(stack')
    <3>1. Len(stack') = Len(stack) /\ stack'[Len(stack)] = a BY <1>i, <2>5, BelowFacts
    <3>2. Len(stack) \in 1..Len(stack') BY <1>t, <3>1
    <3>3. stack'[Len(stack)].mode = "events" BY <2>4, <3>1
    <3> QED BY <3>2, <3>3 DEF EventsRun
  <2> QED BY <1>i, <2>6, StrandRuns
<1>10. CASE IncomingCall
  <2>1. top.buf # <<>> /\ top.mode = "frames" BY <1>10 DEF IncomingCall, Frames, Mode
  <2>2. CASE /\ request = "None"
             /\ Handler("IncomingCall", Below([Rest EXCEPT !.mode = "handled", !.result = "ok"]))
             /\ UNCHANGED ring
    <3>1. PICK a \in Activation : a = [Rest EXCEPT !.mode = "handled", !.result = "ok"]
              /\ a.kind = top.kind /\ a.mode = "handled"
      BY <1>i, <2>1, RestFacts DEF Result
    <3>2. /\ Below(a) \in Seq(Activation) /\ Below(a) # <<>> /\ ShapeOf(Below(a))
          /\ Len(Below(a)) = Len(stack) /\ \A i \in 1..Len(stack) - 1 : Below(a)[i] = stack[i]
      BY <1>i, <3>1, BelowFacts, ShapeBelow
    <3>3. EventsRun(stack) => EventsRun(Below(a))
      <4> SUFFICES ASSUME NEW i \in 1..Len(stack), stack[i].mode = "events"
                   PROVE  EventsRun(Below(a))
        BY DEF EventsRun
      <4>1. i \in 1..Len(stack) - 1 BY <1>t, <2>1 DEF top
      <4> QED BY <1>t, <3>2, <4>1 DEF EventsRun
    <3>4. entries' = entries BY <2>2 DEF ring
    <3> QED BY <1>i, <2>2, <3>1, <3>2, <3>3, <3>4, StrandHandler
  <2>3. CASE request # "None" /\ request' = request
    BY <1>i, <2>3, StrandEnter
  <2> QED BY <1>10, <2>2, <2>3 DEF IncomingCall
<1>11. CASE CallEnds
  <2>1. top.buf # <<>> /\ top.mode = "frames" /\ request' = request
    BY <1>11 DEF CallEnds, Frames, Mode
  <2>2. CASE Replace([Rest EXCEPT !.mode = "handled", !.result = "ok"]) /\ entries' = entries
    <3>1. PICK a \in Activation : a = [Rest EXCEPT !.mode = "handled", !.result = "ok"]
      BY <1>i, <2>1, RestFacts DEF Result
    <3> QED BY <1>b, <2>1, <2>2, <3>1
  <2>3. CASE request # "None" BY <1>i, <2>1, <2>3, StrandEnter
  <2> QED BY <1>11, <2>2, <2>3 DEF CallEnds
<1>12. CASE ProcessEvent
  <2>1. EventsRun(stack)
    <3>1. top.mode = "events" BY <1>12 DEF ProcessEvent, Mode
    <3> QED BY <1>t, <3>1 DEF EventsRun, top
  <2>2. CASE stack' = stack BY <1>i, <2>1, <2>2, StrandRuns
  <2>3. CASE request = "None" /\ Handler(slots[tail].type, stack)
    <3>1. ShapeOf(stack) BY <1>i DEF TInv, Shape
    <3> QED BY <1>i, <1>t, <2>1, <2>3, <3>1, StrandHandler
  <2> QED BY <1>12, <2>2, <2>3 DEF ProcessEvent
<1>13. CASE DispatchReturns
  <2>1. /\ Replace([top EXCEPT !.mode = "frames"]) /\ UNCHANGED <<request, entries>>
        /\ top.mode = "events" => entries = 0
    BY <1>13 DEF DispatchReturns, Mode, ring
  <2> QED BY <1>b, <1>i, <2>1, TopMoves
<1>14. CASE PhoneAnswers \/ PhoneSays \/ UNCHANGED vars
  <2>1. UNCHANGED <<request, entries, stack>> BY <1>14 DEF PhoneAnswers, PhoneSays, vars, ring
  <2> QED BY <1>i, <2>1, StrandKept
<1> QED BY <1>1, <1>2, <1>3, <1>4, <1>5, <1>6, <1>8, <1>9, <1>10, <1>11, <1>12, <1>13,
           <1>14 DEF Next, Run

\* With no request pending and no events being processed the ring is empty: what
\* was deferred during a request is handled when that request completes.
THEOREM NoEventStays == Spec => []NoEventStranded
<1>1. Init => NoEventStranded BY DEF Init, NoEventStranded
<1>2. SInv /\ [Next]_vars => SInv' BY StrandPreserved
<1> QED BY <1>1, <1>2, TypeInit, PTL DEF Spec, SInv

-----------------------------------------------------------------------------
(* The ring.                                                               *)

Pos(t, i) == (t + i - 1) % MaxDeferred

\* head is the next free position, and what is over is cancelled.
InStep == head = (tail + entries) % MaxDeferred
OverCancelled == ~wasFull => \A i \in Slot : slots[i].over => slots[i].cancelled
RInv == TInv /\ InStep /\ OverCancelled /\ EndedCallsStayQuiet

LEMMA PosFacts ==
    ASSUME NEW t \in Slot, NEW n \in 0..MaxDeferred
    PROVE  /\ \A i \in 1..n : Pos(t, i) \in Slot
           /\ \A i, j \in 1..n : Pos(t, i) = Pos(t, j) => i = j
           /\ n < MaxDeferred => \A i \in 1..n : Pos(t, i) # (t + n) % MaxDeferred
           /\ n > 0 => Pos(t, 1) = t
           /\ \A i \in 1..n - 1 : Pos((t + 1) % MaxDeferred, i) = Pos(t, i + 1)
<1>n. MaxDeferred \in Nat \ {0} BY DeferredAssumption
<1>1. \A b \in 0..MaxDeferred :
         /\ (t + b) % MaxDeferred = IF t + b < MaxDeferred THEN t + b ELSE t + b - MaxDeferred
         /\ (t + b) % MaxDeferred \in 0..MaxDeferred - 1
  BY <1>n, ModFacts DEF Slot
<1>2. \A i \in 1..n : /\ Pos(t, i) = IF t + i - 1 < MaxDeferred THEN t + i - 1
                                     ELSE t + i - 1 - MaxDeferred
                      /\ Pos(t, i) \in 0..MaxDeferred - 1
  <2> SUFFICES ASSUME NEW i \in 1..n
               PROVE  /\ Pos(t, i) = IF t + i - 1 < MaxDeferred THEN t + i - 1
                                     ELSE t + i - 1 - MaxDeferred
                      /\ Pos(t, i) \in 0..MaxDeferred - 1
    OBVIOUS
  <2>1. i - 1 \in 0..MaxDeferred /\ t + (i - 1) = t + i - 1 BY <1>n DEF Slot
  <2> QED BY <1>1, <2>1 DEF Pos
<1>3. (t + 1) % MaxDeferred \in 0..MaxDeferred - 1
  /\ (t + 1) % MaxDeferred = IF t + 1 < MaxDeferred THEN t + 1 ELSE t + 1 - MaxDeferred
  BY <1>n, <1>1
<1>4. \A i \in 1..n - 1 : Pos((t + 1) % MaxDeferred, i) = Pos(t, i + 1)
  <2> SUFFICES ASSUME NEW i \in 1..n - 1
               PROVE  Pos((t + 1) % MaxDeferred, i) = Pos(t, i + 1)
    OBVIOUS
  <2> DEFINE u == (t + 1) % MaxDeferred
  <2>1. i - 1 \in 0..MaxDeferred /\ u \in 0..MaxDeferred - 1 /\ u + (i - 1) = u + i - 1
    BY <1>n, <1>3
  <2>2. (u + (i - 1)) % MaxDeferred = IF u + (i - 1) < MaxDeferred THEN u + (i - 1)
                                      ELSE u + (i - 1) - MaxDeferred
    BY <1>n, <2>1, ModFacts
  <2>3. Pos(u, i) = (u + (i - 1)) % MaxDeferred BY <2>1 DEF Pos
  <2>4. i + 1 \in 1..n OBVIOUS
  <2> QED BY <1>2, <1>3, <1>n, <2>2, <2>3, <2>4 DEF Slot
<1>5. n > 0 => Pos(t, 1) = t BY <1>2, <1>n DEF Slot
<1>6. \A i, j \in 1..n : Pos(t, i) = Pos(t, j) => i = j BY <1>2, <1>n DEF Slot
<1>7. ASSUME n < MaxDeferred, NEW i \in 1..n PROVE Pos(t, i) # (t + n) % MaxDeferred
  <2>1. (t + n) % MaxDeferred = IF t + n < MaxDeferred THEN t + n ELSE t + n - MaxDeferred
    BY <1>1
  <2>2. Pos(t, i) = IF t + i - 1 < MaxDeferred THEN t + i - 1 ELSE t + i - 1 - MaxDeferred
    BY <1>2
  <2> QED BY <1>n, <1>7, <2>1, <2>2 DEF Slot
<1>8. \A i \in 1..n : Pos(t, i) \in Slot BY <1>2 DEF Slot
<1> QED BY <1>4, <1>5, <1>6, <1>7, <1>8

\* GSM_CancelEventsOfType walks over exactly the events the ring holds, unless the
\* ring is full: then tail = head, and it walks over none.
LEMMA WalkFacts ==
    ASSUME TypeOK, InStep
    PROVE  /\ Held = {Pos(tail, i) : i \in 1..entries}
           /\ entries < MaxDeferred => Walked = Held
           /\ entries = MaxDeferred => Walked = {}
<1>n. MaxDeferred \in Nat \ {0} /\ tail \in Slot /\ head \in Slot /\ entries \in 0..MaxDeferred
  BY DeferredAssumption DEF TypeOK, Slot
<1>1. \A b \in 0..MaxDeferred :
         (tail + b) % MaxDeferred = IF tail + b < MaxDeferred THEN tail + b
                                    ELSE tail + b - MaxDeferred
  BY <1>n, ModFacts DEF Slot
<1>2. Held = {Pos(tail, i) : i \in 1..entries}
  <2>1. ASSUME NEW i \in 0..entries - 1 PROVE \E j \in 1..entries : (tail + i) % MaxDeferred = Pos(tail, j)
    <3>1. i + 1 \in 1..entries /\ tail + (i + 1) - 1 = tail + i BY <1>n DEF Slot
    <3> QED BY <3>1 DEF Pos
  <2>2. ASSUME NEW j \in 1..entries PROVE \E i \in 0..entries - 1 : (tail + i) % MaxDeferred = Pos(tail, j)
    <3>1. j - 1 \in 0..entries - 1 /\ tail + (j - 1) = tail + j - 1 BY <1>n DEF Slot
    <3> QED BY <3>1 DEF Pos
  <2>3. Held \subseteq {Pos(tail, i) : i \in 1..entries} BY <2>1 DEF Held
  <2>4. {Pos(tail, i) : i \in 1..entries} \subseteq Held BY <2>2 DEF Held
  <2> QED BY <2>3, <2>4
<1>3. head = IF tail + entries < MaxDeferred THEN tail + entries ELSE tail + entries - MaxDeferred
  BY <1>1, <1>n DEF InStep
<1>4. ASSUME entries < MaxDeferred PROVE Walked = Held
  <2>1. ASSUME NEW x \in Held PROVE x \in Walked
    <3>1. PICK i \in 0..entries - 1 : x = (tail + i) % MaxDeferred BY <2>1 DEF Held
    <3>2. x = IF tail + i < MaxDeferred THEN tail + i ELSE tail + i - MaxDeferred
      BY <1>1, <1>n, <3>1
    <3> QED BY <1>3, <1>4, <1>n, <3>2 DEF Walked, Slot
  <2>2. ASSUME NEW x \in Walked PROVE x \in Held
    <3>1. x \in Int /\ 0 <= x /\ x < MaxDeferred BY <1>n, <2>2 DEF Walked, Slot
    <3>t. tail \in Int /\ MaxDeferred \in Int BY <1>n DEF Slot
    <3>2. PICK i \in Int : i = (IF x >= tail THEN x - tail ELSE x - tail + MaxDeferred)
      <4>1. (IF x >= tail THEN x - tail ELSE x - tail + MaxDeferred) \in Int BY <3>1, <3>t
      <4> QED BY <4>1
    <3>3. i \in 0..entries - 1 BY <1>3, <1>4, <1>n, <2>2, <3>1, <3>2 DEF Walked, Slot
    <3>4. (tail + i) % MaxDeferred = x
      <4>1. i \in 0..MaxDeferred BY <1>n, <3>3
      <4>2. (tail + i) % MaxDeferred = IF tail + i < MaxDeferred THEN tail + i
                                       ELSE tail + i - MaxDeferred
        BY <1>1, <4>1
      <4> QED BY <1>n, <3>1, <3>2, <4>1, <4>2 DEF Slot
    <3> QED BY <3>3, <3>4 DEF Held
  <2> QED BY <2>1, <2>2
<1>5. entries = MaxDeferred => Walked = {} BY <1>3, <1>n DEF Walked, Slot
<1> QED BY <1>2, <1>4, <1>5

\* What an event that waits looks like, and the events that wait in a ring.
Shown == [type : {"IncomingCall", "CallEnd"}, cancelled : BOOLEAN]
Seen(ev) == [type |-> ev.type, cancelled |-> ev.cancelled]
WaitingIn(s, t, n) == [i \in 1..n |-> Seen(s[Pos(t, i)])]
LEMMA WaitingMeans == Waiting = WaitingIn(slots, tail, entries)
BY DEF Waiting, WaitingIn, At, Pos, Seen

LEMMA WaitingType ==
    ASSUME NEW s \in [Slot -> Event], NEW t \in Slot, NEW n \in 0..MaxDeferred
    PROVE  /\ WaitingIn(s, t, n) \in Seq(Shown)
           /\ Len(WaitingIn(s, t, n)) = n
<1>1. \A ev \in Event : Seen(ev) \in Shown BY DEF Seen, Event, Shown
<1>2. \A i \in 1..n : s[Pos(t, i)] \in Event BY PosFacts
<1>3. n \in Nat BY DeferredAssumption
<1>4. WaitingIn(s, t, n) \in [1..n -> Shown]
  BY <1>1, <1>2 DEF WaitingIn
<1>5. WaitingIn(s, t, n) \in Seq(Shown) BY <1>3, <1>4, SeqDef
<1>6. Len(WaitingIn(s, t, n)) = n BY <1>3, <1>4, <1>5
<1> QED BY <1>5, <1>6

LEMMA WaitingPut ==
    ASSUME NEW s \in [Slot -> Event], NEW t \in Slot, NEW n \in 0..MaxDeferred - 1,
           NEW ev \in Event
    PROVE  WaitingIn([s EXCEPT ![(t + n) % MaxDeferred] = ev], t, n + 1)
             = Append(WaitingIn(s, t, n), Seen(ev))
<1> DEFINE h == (t + n) % MaxDeferred
           u == [s EXCEPT ![h] = ev]
<1>n. MaxDeferred \in Nat \ {0} /\ n \in 0..MaxDeferred /\ n + 1 \in 0..MaxDeferred /\ n \in Nat
  BY DeferredAssumption
<1>1. h \in Slot /\ u \in [Slot -> Event] BY <1>n, ModFacts DEF Slot
<1>2. Pos(t, n + 1) = h
  <2>1. t + (n + 1) - 1 = t + n BY <1>n DEF Slot
  <2> QED BY <2>1 DEF Pos
<1>3. \A i \in 1..n : Pos(t, i) \in Slot /\ Pos(t, i) # h BY <1>n, PosFacts
<1>4. WaitingIn(u, t, n + 1) \in Seq(Shown) /\ Len(WaitingIn(u, t, n + 1)) = n + 1
  BY <1>n, <1>1, WaitingType
<1>5. WaitingIn(s, t, n) \in Seq(Shown) /\ Len(WaitingIn(s, t, n)) = n BY <1>n, WaitingType
<1>6. \A i \in 1..n : WaitingIn(u, t, n + 1)[i] = WaitingIn(s, t, n)[i]
  <2> SUFFICES ASSUME NEW i \in 1..n PROVE WaitingIn(u, t, n + 1)[i] = WaitingIn(s, t, n)[i]
    OBVIOUS
  <2>1. i \in 1..n + 1 BY <1>n
  <2>2. u[Pos(t, i)] = s[Pos(t, i)] BY <1>3
  <2> QED BY <2>1, <2>2 DEF WaitingIn
<1>7. WaitingIn(u, t, n + 1)[n + 1] = Seen(ev)
  <2>1. n + 1 \in 1..n + 1 BY <1>n
  <2>2. u[Pos(t, n + 1)] = ev BY <1>1, <1>2
  <2> QED BY <2>1, <2>2 DEF WaitingIn
<1>8. Seen(ev) \in Shown BY DEF Seen, Event, Shown
<1>9. /\ Append(WaitingIn(s, t, n), Seen(ev)) \in Seq(Shown)
      /\ Len(Append(WaitingIn(s, t, n), Seen(ev))) = n + 1
      /\ \A i \in 1..n : Append(WaitingIn(s, t, n), Seen(ev))[i] = WaitingIn(s, t, n)[i]
      /\ Append(WaitingIn(s, t, n), Seen(ev))[n + 1] = Seen(ev)
  BY <1>5, <1>8, AppendProperties
<1>10. \A i \in 1..n + 1 : i \in 1..n \/ i = n + 1 BY <1>n
<1> HIDE DEF h, u
<1>11. WaitingIn(u, t, n + 1) = Append(WaitingIn(s, t, n), Seen(ev))
  BY <1>4, <1>6, <1>7, <1>9, <1>10, SeqEqual
<1> QED BY <1>11 DEF u, h

LEMMA WaitingTake ==
    ASSUME NEW s \in [Slot -> Event], NEW t \in Slot, NEW n \in 1..MaxDeferred
    PROVE  WaitingIn(s, (t + 1) % MaxDeferred, n - 1) = Tail(WaitingIn(s, t, n))
<1> DEFINE t1 == (t + 1) % MaxDeferred
<1>n. MaxDeferred \in Nat \ {0} /\ n \in 0..MaxDeferred /\ n - 1 \in 0..MaxDeferred /\ n \in Nat
  BY DeferredAssumption
<1>1. t1 \in Slot BY <1>n, ModFacts DEF Slot
<1>2. WaitingIn(s, t1, n - 1) \in Seq(Shown) /\ Len(WaitingIn(s, t1, n - 1)) = n - 1
  BY <1>n, <1>1, WaitingType
<1>3. WaitingIn(s, t, n) \in Seq(Shown) /\ Len(WaitingIn(s, t, n)) = n BY <1>n, WaitingType
<1>4. WaitingIn(s, t, n) # <<>> BY <1>n, <1>3
<1>5. /\ Tail(WaitingIn(s, t, n)) \in Seq(Shown) /\ Len(Tail(WaitingIn(s, t, n))) = n - 1
      /\ \A i \in 1..n - 1 : Tail(WaitingIn(s, t, n))[i] = WaitingIn(s, t, n)[i + 1]
  BY <1>3, <1>4, HeadTailProperties
<1>6. \A i \in 1..n - 1 : WaitingIn(s, t1, n - 1)[i] = WaitingIn(s, t, n)[i + 1]
  <2> SUFFICES ASSUME NEW i \in 1..n - 1
               PROVE  WaitingIn(s, t1, n - 1)[i] = WaitingIn(s, t, n)[i + 1]
    OBVIOUS
  <2>1. Pos(t1, i) = Pos(t, i + 1) BY <1>n, PosFacts
  <2>2. i + 1 \in 1..n BY <1>n
  <2> QED BY <2>1, <2>2 DEF WaitingIn
<1> HIDE DEF t1
<1>7. WaitingIn(s, t1, n - 1) = Tail(WaitingIn(s, t, n))
  BY <1>2, <1>5, <1>6, SeqEqual
<1> QED BY <1>7 DEF t1

\* GSM_CancelEventsOfType cancels all that waits, unless the ring is full.
LEMMA WaitingCancelled ==
    ASSUME TypeOK, InStep
    PROVE  /\ CancelEvents \in [Slot -> Event]
           /\ WaitingIn(CancelEvents, tail, entries)
                = IF entries < MaxDeferred THEN Queue!Cancelled(Waiting) ELSE Waiting
<1>n. tail \in Slot /\ entries \in 0..MaxDeferred /\ slots \in [Slot -> Event]
      /\ MaxDeferred \in Nat
  BY DeferredAssumption DEF TypeOK, Slot
<1>1. CancelEvents \in [Slot -> Event] BY <1>n, CancelType
<1>2. \A i \in Slot : /\ CancelEvents[i].type = slots[i].type
                      /\ CancelEvents[i].cancelled = (slots[i].cancelled \/ i \in Walked)
  <2> SUFFICES ASSUME NEW i \in Slot
               PROVE  /\ CancelEvents[i].type = slots[i].type
                      /\ CancelEvents[i].cancelled = (slots[i].cancelled \/ i \in Walked)
    OBVIOUS
  <2>1. slots[i] \in Event BY <1>n
  <2>2. CancelEvents[i] = [slots[i] EXCEPT !.cancelled = @ \/ i \in Walked,
                                           !.over = @ \/ i \in Held]
    BY <1>n DEF CancelEvents, Cancel
  <2>3. PICK b \in BOOLEAN : b = (slots[i].cancelled \/ i \in Walked) OBVIOUS
  <2>4. PICK c \in BOOLEAN : c = (slots[i].over \/ i \in Held) OBVIOUS
  <2>5. CancelEvents[i] = [slots[i] EXCEPT !.cancelled = b, !.over = c] BY <2>2, <2>3, <2>4
  <2>6. CancelEvents[i].type = slots[i].type /\ CancelEvents[i].cancelled = b
    BY <2>1, <2>5 DEF Event
  <2> QED BY <2>3, <2>6
<1>3. \A i \in 1..entries : Pos(tail, i) \in Slot BY <1>n, PosFacts
<1>w. Waiting = WaitingIn(slots, tail, entries) BY WaitingMeans
<1>4. CASE entries < MaxDeferred
  <2>1. Queue!Cancelled(Waiting) = [i \in 1..entries |-> [Waiting[i] EXCEPT !.cancelled = TRUE]]
    BY <1>w DEF Queue!Cancelled, WaitingIn
  <2>2. ASSUME NEW i \in 1..entries
        PROVE  Seen(CancelEvents[Pos(tail, i)]) = [Waiting[i] EXCEPT !.cancelled = TRUE]
    <3>1. Pos(tail, i) \in Walked BY <1>4, WalkFacts
    <3>2. PICK p \in Slot : p = Pos(tail, i) BY <1>3
    <3>3. CancelEvents[p].cancelled = TRUE /\ CancelEvents[p].type = slots[p].type
      BY <1>2, <3>1, <3>2
    <3>4. Waiting[i] = Seen(slots[p]) BY <1>w, <3>2 DEF WaitingIn
    <3>5. Waiting[i] \in Shown /\ Waiting[i].type = slots[p].type
      BY <1>n, <3>4 DEF Seen, Shown, Event
    <3>6. /\ [Waiting[i] EXCEPT !.cancelled = TRUE] \in Shown
          /\ [Waiting[i] EXCEPT !.cancelled = TRUE].type = slots[p].type
          /\ [Waiting[i] EXCEPT !.cancelled = TRUE].cancelled = TRUE
      BY <3>5 DEF Shown
    <3>7. /\ Seen(CancelEvents[p]) \in Shown
          /\ Seen(CancelEvents[p]).type = slots[p].type /\ Seen(CancelEvents[p]).cancelled = TRUE
      BY <1>n, <3>3 DEF Seen, Shown, Event
    <3>8. \A v, w \in Shown : v.type = w.type /\ v.cancelled = w.cancelled => v = w
      BY DEF Shown
    <3> QED BY <3>2, <3>6, <3>7, <3>8
  <2> QED BY <1>1, <1>4, <2>1, <2>2 DEF WaitingIn
<1>5. CASE ~(entries < MaxDeferred)
  <2>1. entries = MaxDeferred BY <1>5, <1>n
  <2>2. \A i \in Slot : CancelEvents[i].cancelled = slots[i].cancelled
    <3> SUFFICES ASSUME NEW i \in Slot PROVE CancelEvents[i].cancelled = slots[i].cancelled
      OBVIOUS
    <3>1. slots[i].cancelled \in BOOLEAN BY <1>n DEF Event
    <3>2. CancelEvents[i].cancelled = (slots[i].cancelled \/ FALSE) BY <1>2, <2>1, WalkFacts
    <3> QED BY <3>1, <3>2
  <2>3. \A i \in 1..entries : Seen(CancelEvents[Pos(tail, i)]) = Seen(slots[Pos(tail, i)])
    BY <1>2, <1>3, <2>2 DEF Seen
  <2> QED BY <1>1, <1>5, <1>w, <2>3 DEF WaitingIn
<1> QED BY <1>4, <1>5

\* What a step does to the ring: nothing, an event is deferred, all events are
\* cancelled, both, or the next event is taken.
Untouched == UNCHANGED <<ring, seen>>
Defers == UNCHANGED seen /\ \E type \in {"IncomingCall", "CallEnd"} : Push(slots, type)
CallOver(s) ==
    /\ wasFull' = (wasFull \/ entries = MaxDeferred) /\ UNCHANGED ghosts
    /\ \/ slots' = s /\ UNCHANGED <<head, tail, entries>>
       \/ Push(s, "CallEnd")
Takes ==
    /\ entries > 0
    /\ tail' = (tail + 1) % MaxDeferred /\ entries' = entries - 1
    /\ UNCHANGED <<slots, head, wasFull>>
    /\ ghosts' => ghosts \/ (slots[tail].over /\ ~slots[tail].cancelled)

LEMMA RingSteps ==
    ASSUME TInv, [Next]_vars
    PROVE  Untouched \/ Defers \/ CallOver(CancelEvents) \/ Takes
<1>1. CASE Command \/ PhoneAnswers \/ PhoneSays \/ UNCHANGED vars
  BY <1>1 DEF Command, PhoneAnswers, PhoneSays, vars, Untouched
<1>2. CASE Write \/ WriteFails \/ ReadDevice \/ Check \/ TimesOut \/ Idle \/ DispatchReturns
  BY <1>2 DEF Write, WriteFails, ReadDevice, Check, TimesOut, Idle, DispatchReturns, Untouched
<1>3. CASE \/ \E k \in Kind, res \in {"more", "ok", "error"} : NotRequested(k, res)
           \/ \E k \in Kind : NeedAnother(k)
  BY <1>3 DEF NotRequested, NeedAnother, Untouched
<1>4. ASSUME NEW k \in Kind, NEW res \in {"ok", "error"}, Complete(k, res)
      PROVE  Untouched \/ Defers
  BY <1>4 DEF Complete, Untouched, Defers
<1>5. CASE IncomingCall BY <1>5 DEF IncomingCall, Untouched, Defers, seen
<1>6. CASE CallEnds BY <1>6 DEF CallEnds, CallOver
<1>7. CASE ProcessEvent
  <2>1. CASE ~slots[tail].cancelled /\ ghosts' = (ghosts \/ slots[tail].over)
    BY <1>7, <2>1 DEF ProcessEvent, Takes
  <2>2. CASE ghosts' = ghosts BY <1>7, <2>2 DEF ProcessEvent, Takes
  <2>3. slots[tail].cancelled \/ ~slots[tail].cancelled OBVIOUS
  <2>4. ghosts' = ghosts \/ (~slots[tail].cancelled /\ ghosts' = (ghosts \/ slots[tail].over))
    BY <1>7, <2>3 DEF ProcessEvent
  <2> QED BY <2>1, <2>2, <2>4
<1> QED BY <1>1, <1>2, <1>3, <1>4, <1>5, <1>6, <1>7 DEF Next, Run

LEMMA PushFacts ==
    ASSUME TypeOK, InStep, NEW s \in [Slot -> Event],
           NEW type \in {"IncomingCall", "CallEnd"}, Push(s, type)
    PROVE  /\ InStep'
           /\ \A i \in Slot : slots'[i] = s[i] \/ slots'[i] = NewEvent(type)
           /\ entries = MaxDeferred => Waiting' = WaitingIn(s, tail, entries)
           /\ entries < MaxDeferred =>
                Waiting' = Append(WaitingIn(s, tail, entries), Seen(NewEvent(type)))
<1>n. /\ MaxDeferred \in Nat \ {0} /\ tail \in Slot /\ head \in Slot /\ entries \in 0..MaxDeferred
      /\ NewEvent(type) \in Event
  BY DeferredAssumption, EventFacts DEF TypeOK, Slot
<1>w. Waiting' = WaitingIn(slots', tail', entries')
  BY DEF Waiting, WaitingIn, At, Pos, Seen
<1>1. CASE entries = MaxDeferred
  BY <1>1, <1>n, <1>w DEF Push, InStep
<1>2. CASE entries # MaxDeferred
  <2>1. entries \in 0..MaxDeferred - 1 /\ entries + 1 \in 0..MaxDeferred BY <1>2, <1>n
  <2>2. /\ slots' = [s EXCEPT ![head] = NewEvent(type)] /\ head' = (head + 1) % MaxDeferred
        /\ entries' = entries + 1 /\ tail' = tail
    BY <1>2 DEF Push
  <2>3. InStep'
    <3>1. head = IF tail + entries < MaxDeferred THEN tail + entries
                 ELSE tail + entries - MaxDeferred
      BY <1>n, ModFacts DEF InStep, Slot
    <3>2. (tail + (entries + 1)) % MaxDeferred
            = IF tail + (entries + 1) < MaxDeferred THEN tail + (entries + 1)
              ELSE tail + (entries + 1) - MaxDeferred
      BY <1>n, <2>1, ModFacts DEF Slot
    <3>3. (head + 1) % MaxDeferred
            = IF head + 1 < MaxDeferred THEN head + 1 ELSE head + 1 - MaxDeferred
      <4>1. 1 \in 0..MaxDeferred BY <1>n
      <4> QED BY <1>n, <4>1, ModFacts DEF Slot
    <3>4. (head + 1) % MaxDeferred = (tail + (entries + 1)) % MaxDeferred
      BY <1>n, <2>1, <3>1, <3>2, <3>3 DEF Slot
    <3> QED BY <2>2, <3>4 DEF InStep
  <2>4. \A i \in Slot : slots'[i] = s[i] \/ slots'[i] = NewEvent(type) BY <2>2
  <2>5. Waiting' = Append(WaitingIn(s, tail, entries), Seen(NewEvent(type)))
    BY <1>n, <1>w, <2>1, <2>2, WaitingPut DEF InStep
  <2> QED BY <1>2, <2>3, <2>4, <2>5
<1> QED BY <1>1, <1>2

QueueStep ==
    \/ Waiting' = Waiting
    \/ Queue!Put(Waiting) \/ Queue!Put(Queue!Cancelled(Waiting))
    \/ Queue!Take \/ Queue!CancelAll

LEMMA RingPreserved == ASSUME RInv, [Next]_vars PROVE RInv' /\ QueueStep
<1>i. TypeOK /\ TInv /\ InStep /\ TInv' BY TypePreserved DEF RInv, TInv
<1>n. /\ MaxDeferred \in Nat \ {0} /\ tail \in Slot /\ head \in Slot /\ entries \in 0..MaxDeferred
      /\ slots \in [Slot -> Event] /\ wasFull \in BOOLEAN /\ ghosts \in BOOLEAN
  BY <1>i, DeferredAssumption DEF TypeOK, Slot
<1>w. /\ Waiting = WaitingIn(slots, tail, entries)
      /\ Waiting' = WaitingIn(slots', tail', entries')
  BY WaitingMeans DEF Waiting, WaitingIn, At, Pos, Seen
<1>l. Len(Waiting) = entries /\ DOMAIN Waiting = 1..entries
  BY <1>n, <1>w, WaitingType DEF WaitingIn
<1>e. \A type \in {"IncomingCall", "CallEnd"} :
         /\ Seen(NewEvent(type)) \in [type : {"IncomingCall", "CallEnd"}, cancelled : BOOLEAN]
         /\ ~NewEvent(type).over /\ NewEvent(type) \in Event
  BY EventFacts DEF Seen, NewEvent, Event
<1>c. /\ CancelEvents \in [Slot -> Event]
      /\ WaitingIn(CancelEvents, tail, entries)
           = IF entries < MaxDeferred THEN Queue!Cancelled(Waiting) ELSE Waiting
  BY <1>i, WaitingCancelled
<1>1. CASE Untouched
  <2>1. UNCHANGED <<slots, head, tail, entries, wasFull, ghosts>> BY <1>1 DEF Untouched, ring, seen
  <2>2. RInv' BY <1>i, <2>1 DEF RInv, InStep, OverCancelled, EndedCallsStayQuiet
  <2>3. Waiting' = Waiting BY <1>w, <2>1
  <2> QED BY <2>2, <2>3 DEF QueueStep
<1>2. CASE Defers
  <2>1. PICK type \in {"IncomingCall", "CallEnd"} : Push(slots, type) BY <1>2 DEF Defers
  <2>2. /\ InStep'
        /\ \A i \in Slot : slots'[i] = slots[i] \/ slots'[i] = NewEvent(type)
        /\ entries = MaxDeferred => Waiting' = WaitingIn(slots, tail, entries)
        /\ entries < MaxDeferred =>
             Waiting' = Append(WaitingIn(slots, tail, entries), Seen(NewEvent(type)))
    BY <1>i, <1>n, <2>1, PushFacts
  <2>3. OverCancelled' /\ EndedCallsStayQuiet'
    BY <1>2, <1>e, <2>2 DEF RInv, OverCancelled, EndedCallsStayQuiet, Defers, seen
  <2>4. CASE entries = MaxDeferred
    BY <1>i, <1>w, <2>2, <2>3, <2>4 DEF RInv, QueueStep
  <2>5. CASE entries < MaxDeferred
    <3>1. Queue!Put(Waiting) BY <1>e, <1>l, <1>w, <2>2, <2>5 DEF Queue!Put
    <3> QED BY <1>i, <2>2, <2>3, <3>1 DEF RInv, QueueStep
  <2> QED BY <1>n, <2>4, <2>5
<1>3. CASE CallOver(CancelEvents)
  <2>1. wasFull' = (wasFull \/ entries = MaxDeferred) /\ ghosts' = ghosts BY <1>3 DEF CallOver
  <2>2. ~wasFull' => \A i \in Slot : CancelEvents[i].over => CancelEvents[i].cancelled
    <3> SUFFICES ASSUME ~wasFull', NEW i \in Slot, CancelEvents[i].over
                 PROVE  CancelEvents[i].cancelled
      OBVIOUS
    <3>1. ~wasFull /\ entries < MaxDeferred
      <4>1. ~(wasFull \/ entries = MaxDeferred) BY <2>1
      <4> QED BY <1>n, <4>1
    <3>2. Walked = Held BY <1>i, <3>1, WalkFacts
    <3>3. CancelEvents[i] = [slots[i] EXCEPT !.cancelled = @ \/ i \in Walked,
                                             !.over = @ \/ i \in Held]
      BY <1>n DEF CancelEvents, Cancel
    <3>4. PICK b \in BOOLEAN : b = (slots[i].cancelled \/ i \in Walked) OBVIOUS
    <3>5. PICK c \in BOOLEAN : c = (slots[i].over \/ i \in Held) OBVIOUS
    <3>6. slots[i] \in Event BY <1>n
    <3>7. CancelEvents[i] = [slots[i] EXCEPT !.cancelled = b, !.over = c] BY <3>3, <3>4, <3>5
    <3>8. CancelEvents[i].cancelled = b /\ CancelEvents[i].over = c BY <3>6, <3>7 DEF Event
    <3>9. c => b BY <3>1, <3>2, <3>4, <3>5 DEF RInv, OverCancelled
    <3> QED BY <3>8, <3>9
  <2>3. EndedCallsStayQuiet' BY <2>1 DEF RInv, EndedCallsStayQuiet
  <2>4. CASE slots' = CancelEvents /\ UNCHANGED <<head, tail, entries>>
    <3>1. RInv' BY <1>i, <2>2, <2>3, <2>4 DEF RInv, InStep, OverCancelled
    <3>2. Waiting' = WaitingIn(CancelEvents, tail, entries) BY <1>w, <2>4
    <3>3. Waiting' = Waiting \/ Queue!CancelAll BY <1>c, <3>2 DEF Queue!CancelAll
    <3> QED BY <3>1, <3>3 DEF QueueStep
  <2>5. CASE Push(CancelEvents, "CallEnd")
    <3>1. /\ InStep'
          /\ \A i \in Slot : slots'[i] = CancelEvents[i] \/ slots'[i] = NewEvent("CallEnd")
          /\ entries = MaxDeferred => Waiting' = WaitingIn(CancelEvents, tail, entries)
          /\ entries < MaxDeferred =>
               Waiting' = Append(WaitingIn(CancelEvents, tail, entries), Seen(NewEvent("CallEnd")))
      BY <1>c, <1>i, <2>5, PushFacts
    <3>2. RInv' BY <1>e, <1>i, <2>2, <2>3, <3>1 DEF RInv, OverCancelled
    <3>3. CASE entries = MaxDeferred
      <4>1. Waiting' = Waiting BY <1>c, <1>n, <3>1, <3>3
      <4> QED BY <3>2, <4>1 DEF QueueStep
    <3>4. CASE entries < MaxDeferred
      <4>1. Len(Queue!Cancelled(Waiting)) = entries
        <5>1. WaitingIn(CancelEvents, tail, entries) = Queue!Cancelled(Waiting) BY <1>c, <3>4
        <5>2. Len(WaitingIn(CancelEvents, tail, entries)) = entries BY <1>c, <1>n, WaitingType
        <5> QED BY <5>1, <5>2
      <4>2. Queue!Put(Queue!Cancelled(Waiting))
        BY <1>c, <1>e, <3>1, <3>4, <4>1 DEF Queue!Put
      <4> QED BY <3>2, <4>2 DEF QueueStep
    <3> QED BY <1>n, <3>3, <3>4
  <2> QED BY <1>3, <2>4, <2>5 DEF CallOver
<1>4. CASE Takes
  <2>1. /\ entries > 0 /\ tail' = (tail + 1) % MaxDeferred /\ entries' = entries - 1
        /\ UNCHANGED <<slots, head, wasFull>>
        /\ ghosts' => ghosts \/ (slots[tail].over /\ ~slots[tail].cancelled)
    BY <1>4 DEF Takes
  <2>2. entries \in 1..MaxDeferred BY <1>n, <2>1
  <2>3. Queue!Take
    <3>1. Waiting' = Tail(Waiting)
      <4>1. WaitingIn(slots, (tail + 1) % MaxDeferred, entries - 1)
              = Tail(WaitingIn(slots, tail, entries))
        BY <1>n, <2>2, WaitingTake
      <4>2. WaitingIn(slots', tail', entries')
              = WaitingIn(slots, (tail + 1) % MaxDeferred, entries - 1)
        BY <2>1
      <4> QED BY <1>w, <4>1, <4>2
    <3>2. Waiting # <<>>
      <4>1. Len(Waiting) \in Nat \ {0} BY <1>l, <1>n, <2>2
      <4>2. Len(<<>>) = 0 OBVIOUS
      <4> QED BY <4>1, <4>2
    <3> QED BY <3>1, <3>2 DEF Queue!Take
  <2>4. InStep'
    <3>1. head = IF tail + entries < MaxDeferred THEN tail + entries
                 ELSE tail + entries - MaxDeferred
      BY <1>i, <1>n, ModFacts DEF InStep, Slot
    <3>2. tail' \in 0..MaxDeferred - 1
          /\ tail' = IF tail + 1 < MaxDeferred THEN tail + 1 ELSE tail + 1 - MaxDeferred
      <4>1. 1 \in 0..MaxDeferred BY <1>n
      <4> QED BY <1>n, <2>1, <4>1, ModFacts DEF Slot
    <3>3. (tail' + (entries - 1)) % MaxDeferred
            = IF tail' + (entries - 1) < MaxDeferred THEN tail' + (entries - 1)
              ELSE tail' + (entries - 1) - MaxDeferred
      <4>1. entries - 1 \in 0..MaxDeferred BY <1>n, <2>2
      <4> QED BY <1>n, <3>2, <4>1, ModFacts
    <3>4. head = (tail' + (entries - 1)) % MaxDeferred
      BY <1>n, <2>2, <3>1, <3>2, <3>3 DEF Slot
    <3> QED BY <2>1, <3>4 DEF InStep
  <2>5. EndedCallsStayQuiet'
    BY <1>n, <2>1 DEF RInv, OverCancelled, EndedCallsStayQuiet
  <2>6. OverCancelled' BY <2>1 DEF RInv, OverCancelled
  <2> QED BY <1>i, <2>3, <2>4, <2>5, <2>6 DEF RInv, QueueStep
<1> QED BY <1>i, <1>1, <1>2, <1>3, <1>4, RingSteps

LEMMA RingInit == Init => InStep /\ OverCancelled /\ EndedCallsStayQuiet /\ Queue!QueueInit
<1> SUFFICES ASSUME Init PROVE InStep /\ OverCancelled /\ EndedCallsStayQuiet /\ Queue!QueueInit
  OBVIOUS
<1>1. head = 0 /\ tail = 0 /\ entries = 0 /\ ghosts = FALSE BY DEF Init
<1>2. InStep BY <1>1, DeferredAssumption DEF InStep
<1>3. OverCancelled
  <2>1. \A i \in Slot : slots[i] = NewEvent("CallEnd") BY DEF Init, Slot
  <2> QED BY <2>1 DEF OverCancelled, NewEvent
<1>4. Waiting = <<>> BY <1>1 DEF Waiting
<1> QED BY <1>1, <1>2, <1>3, <1>4 DEF EndedCallsStayQuiet, Queue!QueueInit

\* A call that was over before it could be signalled is not signalled, unless it
\* ended while the ring was full, when nothing in it is cancelled.
THEOREM EndedStaysQuiet == Spec => []EndedCallsStayQuiet
<1>1. Init => RInv BY RingInit, TypeInit DEF RInv
<1>2. RInv /\ [Next]_vars => RInv' BY RingPreserved
<1>3. RInv => EndedCallsStayQuiet BY DEF RInv
<1> QED BY <1>1, <1>2, <1>3, PTL DEF Spec

\* The ring with its head, tail and entries implements the bounded queue.
THEOREM RingImplementsQueue == Spec => RingIsQueue
<1>1. Init => RInv BY RingInit, TypeInit DEF RInv
<1>2. Init => Queue!QueueInit BY RingInit
<1>3. RInv /\ [Next]_vars => RInv' BY RingPreserved
<1>4. RInv /\ [Next]_vars =>
        [\/ Queue!Put(Waiting) \/ Queue!Put(Queue!Cancelled(Waiting))
         \/ Queue!Take \/ Queue!CancelAll]_Waiting
  BY RingPreserved DEF QueueStep
<1> QED BY <1>1, <1>2, <1>3, <1>4, PTL DEF Spec, RingIsQueue, Queue!QueueSpec
=============================================================================
