---------------------------- MODULE RequestReply ----------------------------
(***************************************************************************)
(* Gammu's request machinery (libgammu/gsmstate.c) under the SMS daemon    *)
(* with HangupCalls and an AT phone: GSM_WaitFor sends a command and reads *)
(* the device until the reply function of that command has been called;    *)
(* calls that come in meanwhile are deferred in a ring of events, which    *)
(* are handled when the request completes, within the dispatch of its      *)
(* reply.  The handler hangs up with a request of its own, so requests     *)
(* nest, each reading the device with a buffer of its own.                 *)
(*                                                                         *)
(* A frame is what AT_StateMachine hands to the dispatcher: the lines of   *)
(* an answer with the command they echo, or one unsolicited line.          *)
(***************************************************************************)
EXTENDS Integers, Sequences

CONSTANTS
    MaxDeferred,   \* MAX_DEFERRED_EVENTS
    ReplyNum,      \* how often a request is sent
    MaxCommands,   \* bound: requests of the main loop
    MaxLines,      \* bound: what the phone sends beside final answers
    MaxRead        \* bound: frames that arrive between two readings

ASSUME DeferredAssumption == MaxDeferred \in Nat \ {0}
ASSUME ReplyNumAssumption == ReplyNum \in Nat \ {0}
ASSUME BoundsAssumption == {MaxCommands, MaxLines, MaxRead} \subseteq Nat

VARIABLES
    request,     \* Phone.Data.RequestID
    dispatched,  \* Phone.Data.DispatchError
    slots, head, tail, entries,   \* Phone.Data.DeferredEvents
    cancelling,  \* ATGEN.CancellingCall
    lastRing,    \* whether SMSD's lastRing is set
    stack,       \* the main loop and the calls of GSM_WaitFor nested in it
    asked,       \* commands on their way to the phone or worked on
    line,        \* frames on their way from the phone
    dead,        \* whether an assertion has ended the process
    commands, lines,   \* bounds: commands and other lines so far
    wasFull,     \* history: whether a call ended while the ring was full
    ghosts       \* history: whether the handler was told of a call that was over

ring == <<slots, head, tail, entries>>
phone == <<asked, line, commands, lines>>
seen == <<wasFull, ghosts>>
vars == <<request, dispatched, ring, cancelling, lastRing, stack, phone, dead, seen>>

Kind == {"GetSecurityStatus", "CancelCall"}
Frame == ({"answer"} \X Kind \X {"more", "ok", "error"})
         \cup {<<"CLIP">>, <<"NO CARRIER">>}
\* over is history: the call ended while the event waited.
Event == [type : {"IncomingCall", "CallEnd"}, cancelled : BOOLEAN, over : BOOLEAN]
NewEvent(type) == [type |-> type, cancelled |-> FALSE, over |-> FALSE]
Result == {"ok", "error", "timeout", "write error"}

\* A call of GSM_WaitFor, or the main loop ("None"), and its GSM_ReadDevice.
\* own and disturbed are history: what this request's answer said, and whether
\* something else was dispatched between that answer and the return.
Activation == [kind : Kind \cup {"None"}, tries : 0..ReplyNum,
               mode : {"idle", "write", "wait", "frames", "events", "handled"},
               buf : Seq(Frame), result : Result,
               own : {"none", "ok", "error"}, disturbed : BOOLEAN]
Call(k, m) == [kind |-> k, tries |-> 0, mode |-> m, buf |-> <<>>, result |-> "ok",
               own |-> "none", disturbed |-> FALSE]

Init ==
    /\ request = "None" /\ dispatched = "ok"
    /\ slots = [i \in 0..MaxDeferred - 1 |-> NewEvent("CallEnd")]
    /\ head = 0 /\ tail = 0 /\ entries = 0
    /\ cancelling = FALSE /\ lastRing = FALSE
    /\ stack = <<Call("None", "idle")>>
    /\ asked = <<>> /\ line = <<>> /\ commands = 0 /\ lines = 0
    /\ dead = FALSE
    /\ wasFull = FALSE /\ ghosts = FALSE

top == stack[Len(stack)]
Replace(a) == stack' = [stack EXCEPT ![Len(stack)] = a]
Mode(m) == ~dead /\ top.mode = m

(***************************************************************************)
(* The ring: EventQueue_Push, EventQueue_Pop and GSM_CancelEventsOfType,   *)
(* which walks from tail to head.                                          *)
(***************************************************************************)
At(i) == slots[(tail + i - 1) % MaxDeferred]
Waiting == [i \in 1..entries |-> [type |-> At(i).type, cancelled |-> At(i).cancelled]]

\* Mutant: the event is put into a full ring as well.
PushAnyway(s, type) ==
    /\ slots' = [s EXCEPT ![head] = NewEvent(type)]
    /\ head' = (head + 1) % MaxDeferred
    /\ entries' = entries + 1
    /\ UNCHANGED tail

Push(s, type) ==
    IF entries = MaxDeferred
      THEN slots' = s /\ UNCHANGED <<head, tail, entries>>
      ELSE /\ slots' = [s EXCEPT ![head] = NewEvent(type)]
           /\ head' = (head + 1) % MaxDeferred
           /\ entries' = entries + 1
           /\ UNCHANGED tail

Walked == IF tail <= head THEN tail..head - 1
          ELSE (tail..MaxDeferred - 1) \cup (0..head - 1)
Held == {(tail + i) % MaxDeferred : i \in 0..entries - 1}
Cancel(W) ==
    [i \in DOMAIN slots |->
        [slots[i] EXCEPT !.cancelled = @ \/ i \in W, !.over = @ \/ i \in Held]]
\* Mutant: the walk starts one slot late.
CancelAllButFirst == Cancel(Walked \ {tail})

CancelEvents == Cancel(Walked)

(***************************************************************************)
(* GSM_WaitFor: each try writes the command and waits.  What remains in    *)
(* RequestID when it returns without an answer stays there.                *)
(***************************************************************************)
\* GSM_WaitFor begins, above the activations st.
Enter(k, st) ==
    /\ request' = k /\ dispatched' = "timeout"
    /\ stack' = Append(st, Call(k, "write"))

\* It returns to the activation below.
Return ==
    stack' = [i \in 1..Len(stack) - 1 |->
                IF i < Len(stack) - 1 THEN stack[i]
                ELSE [stack[i] EXCEPT !.disturbed = @ \/ request # "None"]]

Command ==
    /\ Mode("idle") /\ commands < MaxCommands
    /\ commands' = commands + 1
    /\ Enter("GetSecurityStatus", stack)
    /\ UNCHANGED <<ring, cancelling, lastRing, asked, line, lines, dead, seen>>

Write ==
    /\ Mode("write")
    /\ asked' = Append(asked, top.kind)
    /\ Replace([top EXCEPT !.mode = "wait"])
    /\ UNCHANGED <<request, dispatched, ring, cancelling, lastRing, line, commands, lines, dead, seen>>

WriteFails ==
    /\ Mode("write")
    /\ Return
    /\ UNCHANGED <<request, dispatched, ring, cancelling, lastRing, phone, dead, seen>>

\* GSM_ReadDevice gets what has arrived, and dispatches all of it.
ReadDevice ==
    /\ Mode("wait") \/ Mode("idle")
    /\ line # <<>> /\ line' = <<>>
    /\ Replace([top EXCEPT !.mode = "frames", !.buf = line])
    /\ UNCHANGED <<request, dispatched, ring, cancelling, lastRing, asked, commands, lines, dead, seen>>

\* Mutant: whatever the error, it is tried again.
OnceReturnsRetries(e) ==
    IF e # "ok" /\ top.tries + 1 < ReplyNum
      THEN Replace([top EXCEPT !.tries = @ + 1, !.mode = "write"])
      ELSE Return

\* GSM_WaitForOnce returns e: an ERR_TIMEOUT, whoever it is from, means
\* another try.
OnceReturns(e) ==
    IF e = "timeout" /\ top.tries + 1 < ReplyNum
      THEN Replace([top EXCEPT !.tries = @ + 1, !.mode = "write"])
      ELSE Return

\* After a reading, with frames or without.
Check ==
    /\ top.kind # "None"
    /\ \/ Mode("frames") /\ top.buf = <<>>
       \/ Mode("wait") /\ line = <<>>
    /\ \/ request = "None" /\ OnceReturns(dispatched)
       \/ /\ request # "None" /\ top.mode = "frames"
          /\ Replace([top EXCEPT !.mode = "wait"])
    /\ UNCHANGED <<request, dispatched, ring, cancelling, lastRing, phone, dead, seen>>

\* Mutant: an empty reading starts the count anew.
NeverTimesOut == FALSE /\ UNCHANGED vars

TimesOut ==
    /\ Mode("wait") /\ line = <<>> /\ request # "None"
    /\ OnceReturns("timeout")
    /\ UNCHANGED <<request, dispatched, ring, cancelling, lastRing, phone, dead, seen>>

\* The main loop has dispatched what it read.
Idle ==
    /\ Mode("frames") /\ top.kind = "None" /\ top.buf = <<>>
    /\ Replace([top EXCEPT !.mode = "idle"])
    /\ UNCHANGED <<request, dispatched, ring, cancelling, lastRing, phone, dead, seen>>

(***************************************************************************)
(* GSM_DispatchMessage on the next frame.  Its result becomes DispatchError*)
(* when it returns, for whichever request that may be.                     *)
(***************************************************************************)
Frames(f) == Mode("frames") /\ top.buf # <<>> /\ Head(top.buf) = f
Rest == [top EXCEPT !.buf = Tail(@), !.disturbed = @ \/ top.own # "none"]

\* CheckReplyFunctions finds no reply function for it now.
NotRequested(k, res) ==
    /\ Frames(<<"answer", k, res>>) /\ k # request
    /\ dispatched' = "timeout"
    /\ Replace(Rest)
    /\ UNCHANGED <<request, ring, cancelling, lastRing, phone, dead, seen>>

\* ERR_NEEDANOTHERANSWER
NeedAnother(k) ==
    /\ Frames(<<"answer", k, "more">>) /\ k = request
    /\ dispatched' = "ok"
    /\ Replace(Rest)
    /\ UNCHANGED <<request, ring, cancelling, lastRing, phone, dead, seen>>

\* The request is completed; the deferred events come before the dispatch
\* returns.  ATGEN_ReplyCancelCall first defers one more.
Complete(k, res) ==
    /\ Frames(<<"answer", k, res>>) /\ k = request
    /\ request' = "None"
    /\ Replace([Rest EXCEPT !.mode = "events", !.result = res,
                            !.own = IF top.kind = request THEN res ELSE @])
    /\ IF request = "CancelCall" /\ res = "ok"
         THEN cancelling' = FALSE /\ Push(slots, "CallEnd")
         ELSE UNCHANGED <<cancelling, ring>>
    /\ UNCHANGED <<dispatched, lastRing, phone, dead, seen>>

(***************************************************************************)
(* ATGEN_ReplyIncomingCallInfo and GSM_DeferIncomingCallEvent: with no     *)
(* request pending the handler is called at once, else the event waits, or *)
(* is lost when the ring is full.                                          *)
(***************************************************************************)
\* SMSD_IncomingCallCallback: hang up, at most every five seconds; no command
\* is sent while one to hang up is pending.
HangUp(st) ==
    IF cancelling THEN stack' = st /\ UNCHANGED <<request, dispatched, cancelling>>
    ELSE cancelling' = TRUE /\ Enter("CancelCall", st)

Handler(type, st) ==
    IF type = "CallEnd"
    THEN lastRing' = FALSE /\ stack' = st /\ UNCHANGED <<request, dispatched, cancelling>>
    ELSE \/ lastRing' = TRUE /\ HangUp(st)
         \/ lastRing /\ stack' = st /\ UNCHANGED <<request, dispatched, cancelling, lastRing>>

Below(a) == [stack EXCEPT ![Len(stack)] = a]

IncomingCall ==
    /\ Frames(<<"CLIP">>)
    /\ \/ /\ request = "None"
          /\ Handler("IncomingCall", Below([Rest EXCEPT !.mode = "handled", !.result = "ok"]))
          /\ UNCHANGED ring
       \/ /\ request # "None"
          /\ Push(slots, "IncomingCall")
          /\ dispatched' = "ok" /\ Replace(Rest)
          /\ UNCHANGED <<request, cancelling, lastRing>>
    /\ UNCHANGED <<phone, dead, seen>>

CallEnds ==
    /\ Frames(<<"NO CARRIER">>)
    /\ cancelling' = FALSE
    /\ wasFull' = (wasFull \/ entries = MaxDeferred)
    /\ \/ /\ request = "None"
          /\ slots' = CancelEvents /\ lastRing' = FALSE
          /\ Replace([Rest EXCEPT !.mode = "handled", !.result = "ok"])
          /\ UNCHANGED <<request, dispatched, head, tail, entries>>
       \/ /\ request # "None"
          /\ Push(CancelEvents, "CallEnd")
          /\ dispatched' = "ok" /\ Replace(Rest)
          /\ UNCHANGED <<request, lastRing>>
    /\ UNCHANGED <<phone, dead, ghosts>>

\* Mutant: the last event is taken first.
ProcessNewest ==
    LET last == (head + MaxDeferred - 1) % MaxDeferred
        ev == slots[last] IN
    /\ Mode("events") /\ entries > 0
    /\ head' = last /\ entries' = entries - 1 /\ UNCHANGED <<slots, tail>>
    /\ dead' = (request # "None")
    /\ IF dead' \/ ev.cancelled
         THEN UNCHANGED <<request, dispatched, cancelling, lastRing, stack, ghosts>>
         ELSE Handler(ev.type, stack) /\ ghosts' = (ghosts \/ ev.over)
    /\ UNCHANGED <<phone, wasFull>>

\* ProcessDeferredEvent takes the next event.
ProcessEvent ==
    LET ev == slots[tail] IN
    /\ Mode("events") /\ entries > 0
    /\ tail' = (tail + 1) % MaxDeferred /\ entries' = entries - 1 /\ UNCHANGED <<slots, head>>
    /\ dead' = (request # "None")   \* assert(s->Phone.Data.RequestID == ID_None)
    /\ IF dead' \/ ev.cancelled
         THEN UNCHANGED <<request, dispatched, cancelling, lastRing, stack, ghosts>>
         ELSE Handler(ev.type, stack) /\ ghosts' = (ghosts \/ ev.over)
    /\ UNCHANGED <<phone, wasFull>>

\* Mutant: only one event is taken.
DispatchReturnsEarly ==
    /\ Mode("handled") \/ Mode("events")
    /\ dispatched' = top.result
    /\ Replace([top EXCEPT !.mode = "frames"])
    /\ UNCHANGED <<request, ring, cancelling, lastRing, phone, dead, seen>>

\* Mutant: its result does not replace what a nested request left there.
DispatchReturnsNothing ==
    /\ Mode("handled") \/ (Mode("events") /\ entries = 0)
    /\ Replace([top EXCEPT !.mode = "frames"])
    /\ UNCHANGED <<request, dispatched, ring, cancelling, lastRing, phone, dead, seen>>

\* GSM_DispatchMessage returns.
DispatchReturns ==
    /\ Mode("handled") \/ (Mode("events") /\ entries = 0)
    /\ dispatched' = top.result
    /\ Replace([top EXCEPT !.mode = "frames"])
    /\ UNCHANGED <<request, ring, cancelling, lastRing, phone, dead, seen>>

-----------------------------------------------------------------------------
(* The phone works on commands in turn and may leave one unanswered; it    *)
(* reports calls at any time.  Gammu sees nothing of it before it reads,   *)
(* so it is enough to let the phone act while Gammu waits.                 *)

PhoneAnswers ==
    /\ Mode("wait") \/ Mode("idle")
    /\ Len(line) < MaxRead
    /\ asked # <<>> /\ asked' = Tail(asked)
    /\ \/ \E res \in {"ok", "error"} : line' = Append(line, <<"answer", Head(asked), res>>)
       \/ UNCHANGED line
    /\ UNCHANGED <<request, dispatched, ring, cancelling, lastRing, stack, commands, lines, dead, seen>>

PhoneSays ==
    /\ Mode("wait") \/ Mode("idle")
    /\ Len(line) < MaxRead
    /\ lines < MaxLines /\ lines' = lines + 1
    /\ \/ line' = Append(line, <<"CLIP">>)
       \/ line' = Append(line, <<"NO CARRIER">>)
       \/ asked # <<>> /\ line' = Append(line, <<"answer", Head(asked), "more">>)
    /\ UNCHANGED <<request, dispatched, ring, cancelling, lastRing, stack, asked, commands, dead, seen>>

Run ==
    \/ Write \/ WriteFails \/ ReadDevice \/ Check \/ TimesOut \/ Idle
    \/ \E k \in Kind, res \in {"more", "ok", "error"} : NotRequested(k, res)
    \/ \E k \in Kind : NeedAnother(k)
    \/ \E k \in Kind, res \in {"ok", "error"} : Complete(k, res)
    \/ IncomingCall \/ CallEnds
    \/ ProcessEvent \/ DispatchReturns

Next == Run \/ Command \/ PhoneAnswers \/ PhoneSays

Spec == Init /\ [][Next]_vars
\* The thread runs, and its waits end.
FairSpec == Spec /\ WF_vars(Run)

-----------------------------------------------------------------------------
(* Properties *)

TypeOK ==
    /\ request \in Kind \cup {"None"} /\ dispatched \in Result
    /\ slots \in [0..MaxDeferred - 1 -> Event]
    /\ head \in 0..MaxDeferred - 1 /\ tail \in 0..MaxDeferred - 1
    /\ entries \in 0..MaxDeferred
    /\ cancelling \in BOOLEAN /\ lastRing \in BOOLEAN
    /\ stack \in Seq(Activation) /\ stack # <<>>
    /\ asked \in Seq(Kind) /\ line \in Seq(Frame)
    /\ commands \in 0..MaxCommands /\ lines \in 0..MaxLines
    /\ dead \in BOOLEAN
    /\ wasFull \in BOOLEAN /\ ghosts \in BOOLEAN

\* No event stays behind when its request is done: with no request pending and
\* no ProcessDeferredEvent running there is none in the ring.
NoEventStranded ==
    request = "None" /\ (\A i \in DOMAIN stack : stack[i].mode # "events") => entries = 0

\* The caller of a request is told what the answer to that request said, unless
\* something else was dispatched between the answer and the return: another
\* frame of the same reading, or a nested request that never got its answer.
OwnResult ==
    [][Len(stack') < Len(stack) /\ request = "None" =>
          dispatched = top.own \/ top.disturbed]_vars

\* A command that was answered is not sent again, with the same exception.
AnsweredIsNotResent ==
    top.mode = "write" /\ top.own # "none" => top.disturbed

\* An incoming call that ended before it could be signalled is not signalled,
\* unless it ended while the ring was full.
EndedCallsStayQuiet ==
    ghosts => wasFull

Queue == INSTANCE EventQueue WITH
    queue <- Waiting, Capacity <- MaxDeferred,
    Event <- [type : {"IncomingCall", "CallEnd"}, cancelled : BOOLEAN]
\* The ring keeps what the queue promises.
RingIsQueue == Queue!QueueSpec

\* Every command of the main loop returns, whatever the phone leaves
\* unanswered and however hang-ups nest in it.
CommandsReturn == Len(stack) > 1 ~> dead \/ Len(stack) = 1

\* "assert(s->Phone.Data.RequestID == ID_None)" (libgammu/gsmstate.c:1224): events
\* are handled between requests only.  Violated by two deferred calls when the
\* hang-up for the first is not answered.
EventsBetweenRequests == ~dead
=============================================================================
