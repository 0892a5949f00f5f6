---------------------------- MODULE QueuePromise ----------------------------
(***************************************************************************)
(* What a queue promises: the answer of an enqueue tells whether its item  *)
(* went in, an item is handed out once, and those that wait are handed out *)
(* in the queue's order, as far as the calls themselves were ordered: two  *)
(* enqueues that overlap may enter either way round.  An item may be       *)
(* handed out before its enqueue returns, and stays in the queue if its    *)
(* enqueue is dropped.  FifoQueue and EventQueue implement it.             *)
(***************************************************************************)
EXTENDS Naturals

CONSTANT Items

VARIABLES
    order,      \* which queue this is
    prio,       \* the priority of each item
    call,       \* the enqueue of each item, and its answer
    place,      \* where each item is
    earlier     \* the items whose enqueue had returned when each call was made

vars == <<order, prio, call, place, earlier>>

Init ==
    /\ order \in {"fifo", "lifo", "priority"}
    /\ prio \in [Items -> Nat]
    /\ call = [e \in Items |-> "new"]
    /\ place = [e \in Items |-> "out"]
    /\ earlier = [e \in Items |-> {}]

\* f must leave the queue before e does.
GoesFirst(f, e) ==
    \/ order = "fifo" /\ f \in earlier[e]
    \/ order = "lifo" /\ e \in earlier[f]
    \/ /\ order = "priority"
       /\ prio[f] > prio[e] \/ (prio[f] = prio[e] /\ f \in earlier[e])

\* An enqueue begins, or is refused at once.
Call(e, to) ==
    /\ call[e] = "new"
    /\ to \in {"waiting", "err"}
    /\ call' = [call EXCEPT ![e] = to]
    /\ earlier' = [earlier EXCEPT ![e] = {f \in Items : call[f] = "ok"}]
    /\ UNCHANGED <<order, prio, place>>

Publish(e) ==
    /\ call[e] = "waiting" /\ place[e] = "out"
    /\ place' = [place EXCEPT ![e] = "queued"]
    /\ UNCHANGED <<order, prio, call, earlier>>

Return(e, answer) ==
    /\ call[e] = "waiting"
    /\ answer = IF place[e] = "out" THEN "err" ELSE "ok"
    /\ call' = [call EXCEPT ![e] = answer]
    /\ UNCHANGED <<order, prio, place, earlier>>

\* The caller drops its enqueue.
Drop(e) ==
    /\ call[e] = "waiting"
    /\ call' = [call EXCEPT ![e] = "dropped"]
    /\ UNCHANGED <<order, prio, place, earlier>>

Take(e) ==
    /\ place[e] = "queued"
    /\ \A f \in Items : place[f] = "queued" => ~GoesFirst(f, e)
    /\ place' = [place EXCEPT ![e] = "taken"]
    /\ UNCHANGED <<order, prio, call, earlier>>

Next ==
    \E e \in Items :
        \/ \E to \in {"waiting", "err"} : Call(e, to)
        \/ \E answer \in {"ok", "err"} : Return(e, answer)
        \/ Publish(e) \/ Drop(e) \/ Take(e)

Spec == Init /\ [][Next]_vars

-----------------------------------------------------------------------------

\* An item is in the queue, or was, if its enqueue said Ok; it is not if Err.
Truthful ==
    \A e \in Items :
        /\ call[e] = "ok" => place[e] # "out"
        /\ call[e] = "err" => place[e] = "out"

\* In the FIFO and the priority queue an item is not handed out before one, of at least
\* its priority, whose enqueue had returned when its own was called.
InOrder ==
    \A e \in Items : \A f \in earlier[e] :
        /\ place[e] = "taken"
        /\ order = "fifo" \/ (order = "priority" /\ prio[f] >= prio[e])
        => place[f] = "taken"

=============================================================================
