----------------------------- MODULE EventQueue -----------------------------
(***************************************************************************)
(* What the queue of deferred events (libgammu/gsmstate.h) promises: at    *)
(* most Capacity events, first in, first out; a waiting event may be       *)
(* cancelled but is never lost, overtaken or brought back.  Whether an     *)
(* event that comes in is put there at all is left open.                   *)
(***************************************************************************)
EXTENDS Naturals, Sequences

CONSTANTS Event, Capacity

VARIABLE queue

Cancelled(q) == [i \in DOMAIN q |-> [q[i] EXCEPT !.cancelled = TRUE]]

QueueInit == queue = <<>>

Put(q) == Len(q) < Capacity /\ \E e \in Event : queue' = Append(q, e)

Take == queue # <<>> /\ queue' = Tail(queue)

CancelAll == queue' = Cancelled(queue)

QueueSpec == QueueInit /\ [][Put(queue) \/ Put(Cancelled(queue)) \/ Take \/ CancelAll]_queue
=============================================================================
