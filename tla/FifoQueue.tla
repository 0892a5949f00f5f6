----------------------------- MODULE FifoQueue -----------------------------
(***************************************************************************)
(* The default queue, src/crates/jobq-core/src/queue/fifo.rs, over a       *)
(* bounded futures mpsc channel (external).                                *)
(*                                                                         *)
(* What the code uses of the channel: every enqueue sends through a fresh  *)
(* clone of the sender, which may push one message at once; if the channel *)
(* then holds more than `max_capacity' messages the sender parks, and its  *)
(* send() is pending until a receive has unparked it.  So an item is       *)
(* visible to consumers while its enqueue has not returned.  next() is     *)
(* None when the channel is empty and no sender is left.                   *)
(***************************************************************************)
EXTENDS Integers, Sequences, FiniteSets, SequencesExt

CONSTANTS
    Items,      \* the enqueue calls, each with its own item
    Consumers,  \* the tasks that call dequeue
    Capacity,   \* max_capacity
    Usize,      \* how many values usize has
    Nobody

ASSUME FifoAssumption ==
    /\ Capacity \in Nat /\ Usize \in Nat \ {0}
    /\ Nobody \notin Consumers \cup Items

VARIABLES
    pc,         \* where each enqueue call is
    consumer,   \* where each consumer is in dequeue
    holding,    \* the item each consumer has taken, while it holds the mutex
    receiver,   \* the consumer that holds the receiver's mutex
    chan,       \* the messages in the channel
    parkedQueue,\* the senders the channel has parked, in order
    hasSender,  \* FifoQueue.sender is Some
    length,     \* FifoQueue.length
    closed,     \* FifoQueue.closed
    closer,     \* where the call of close() is
    received,   \* the items dequeue has returned
    earlier     \* the items whose enqueue had returned when each call was made

vars == <<pc, consumer, holding, receiver, chan, parkedQueue, hasSender, length,
          closed, closer, received, earlier>>

consumerVars == <<consumer, holding, receiver, received>>
closeVars    == <<hasSender, closed, closer>>

\* The calls that hold a clone of the sender.
Sending == {"cloned", "parked", "sent"}

TypeOK ==
    /\ pc \in [Items -> {"idle", "checked", "ok", "err", "cancelled", "abandoned"} \cup Sending]
    /\ consumer \in [Consumers -> {"idle", "locking", "receiving", "counting", "none", "gone"}]
    /\ holding \in [Consumers -> Items \cup {Nobody}]
    /\ receiver \in Consumers \cup {Nobody}
    /\ chan \in Seq(Items)
    /\ parkedQueue \in Seq(Items)
    /\ hasSender \in BOOLEAN
    /\ length \in 0 .. Usize - 1
    /\ closed \in BOOLEAN
    /\ closer \in {"idle", "taken", "zeroed", "done"}
    /\ received \in SUBSET Items
    /\ earlier \in [Items -> SUBSET Items]

Init ==
    /\ pc = [e \in Items |-> "idle"]
    /\ consumer = [d \in Consumers |-> "idle"]
    /\ holding = [d \in Consumers |-> Nobody]
    /\ receiver = Nobody
    /\ chan = <<>>
    /\ parkedQueue = <<>>
    /\ hasSender = TRUE
    /\ length = 0
    /\ closed = FALSE
    /\ closer = "idle"
    /\ received = {}
    /\ earlier = [e \in Items |-> {}]

-----------------------------------------------------------------------------
(* enqueue *)

\* usize arithmetic.
Wrap(n) == n % Usize

Step(e, from, to) == pc[e] = from /\ pc' = [pc EXCEPT ![e] = to]

\* closed.load, before the wait for the sender's mutex.
CheckClosed(e) ==
    /\ Step(e, "idle", IF closed THEN "err" ELSE "checked")
    /\ earlier' = [earlier EXCEPT ![e] = {f \in Items : pc[f] = "ok"}]
    /\ UNCHANGED <<consumerVars, chan, parkedQueue, length, closeVars>>

\* Mutant of Clone: the call that finds no sender is told Ok.
CloneOrOk(e) ==
    /\ Step(e, "checked", IF hasSender THEN "cloned" ELSE "ok")
    /\ UNCHANGED <<earlier, consumerVars, chan, parkedQueue, length, closeVars>>

\* Under the mutex: clone the sender, or find that close has taken it.
Clone(e) ==
    /\ Step(e, "checked", IF hasSender THEN "cloned" ELSE "err")
    /\ UNCHANGED <<earlier, consumerVars, chan, parkedQueue, length, closeVars>>

\* The message goes in; the sender parks if it is one too many.
Send(e) ==
    /\ chan' = Append(chan, e)
    /\ IF Len(chan) + 1 > Capacity
       THEN Step(e, "cloned", "parked") /\ parkedQueue' = Append(parkedQueue, e)
       ELSE Step(e, "cloned", "sent") /\ UNCHANGED parkedQueue
    /\ UNCHANGED <<earlier, consumerVars, length, closeVars>>

\* The flush of a send that was unparked completes.
Flush(e) ==
    /\ e \notin ToSet(parkedQueue)
    /\ Step(e, "parked", "sent")
    /\ UNCHANGED <<earlier, consumerVars, chan, parkedQueue, length, closeVars>>

\* Mutant of CountIn: a send that was parked is not counted.
CountInOnce(e) ==
    /\ Step(e, "sent", "ok")
    /\ length' = IF Len(chan) > Capacity THEN length ELSE Wrap(length + 1)
    /\ UNCHANGED <<earlier, consumerVars, chan, parkedQueue, closeVars>>

\* length.fetch_add, once the send is over; the clone is dropped.
CountIn(e) ==
    /\ Step(e, "sent", "ok")
    /\ length' = Wrap(length + 1)
    /\ UNCHANGED <<earlier, consumerVars, chan, parkedQueue, closeVars>>

\* The caller drops its enqueue future at an await: waiting for the mutex, or
\* parked, when the item is in the channel already.
Cancel(e) ==
    /\ Step(e, "checked", "cancelled") \/ Step(e, "parked", "abandoned")
    /\ UNCHANGED <<earlier, consumerVars, chan, parkedQueue, length, closeVars>>

-----------------------------------------------------------------------------
(* dequeue *)

Move(d, from, to) == consumer[d] = from /\ consumer' = [consumer EXCEPT ![d] = to]

Call(d) ==
    /\ Move(d, "idle", "locking")
    /\ UNCHANGED <<pc, earlier, holding, receiver, chan, parkedQueue, length, closeVars, received>>

Lock(d) ==
    /\ receiver = Nobody
    /\ receiver' = d
    /\ Move(d, "locking", "receiving")
    /\ UNCHANGED <<pc, earlier, holding, chan, parkedQueue, length, closeVars, received>>

\* Mutant of Receive: no parked sender is woken.
ReceiveAlone(d) ==
    /\ chan # <<>>
    /\ Move(d, "receiving", "counting")
    /\ holding' = [holding EXCEPT ![d] = Head(chan)]
    /\ chan' = Tail(chan)
    /\ UNCHANGED <<pc, earlier, receiver, parkedQueue, length, closeVars, received>>

\* next() yields the first message and unparks the first parked sender.
Receive(d) ==
    /\ chan # <<>>
    /\ Move(d, "receiving", "counting")
    /\ holding' = [holding EXCEPT ![d] = Head(chan)]
    /\ chan' = Tail(chan)
    /\ parkedQueue' = IF parkedQueue = <<>> THEN <<>> ELSE Tail(parkedQueue)
    /\ UNCHANGED <<pc, earlier, receiver, length, closeVars, received>>

\* length.fetch_sub wraps; the item is returned and the mutex released.
CountOut(d) ==
    /\ Move(d, "counting", "idle")
    /\ length' = Wrap(length - 1)
    /\ received' = received \cup {holding[d]}
    /\ holding' = [holding EXCEPT ![d] = Nobody]
    /\ receiver' = Nobody
    /\ UNCHANGED <<pc, earlier, chan, parkedQueue, closeVars>>

\* Mutant of End: None as soon as close has taken the sender.
EndAtClose(d) ==
    /\ ~hasSender
    /\ Move(d, "receiving", "none")
    /\ receiver' = Nobody
    /\ UNCHANGED <<pc, earlier, holding, chan, parkedQueue, length, closeVars, received>>

\* next() yields None: the sender was taken, and no clone is alive.
End(d) ==
    /\ chan = <<>>
    /\ ~hasSender
    /\ \A e \in Items : pc[e] \notin Sending
    /\ Move(d, "receiving", "none")
    /\ receiver' = Nobody
    /\ UNCHANGED <<pc, earlier, holding, chan, parkedQueue, length, closeVars, received>>

\* The worker's select! chose shutdown: its dequeue future is dropped at an await,
\* and it does not come back.
Forget(d) ==
    /\ Move(d, "locking", "gone") \/ Move(d, "receiving", "gone")
    /\ receiver' = IF receiver = d THEN Nobody ELSE receiver
    /\ UNCHANGED <<pc, earlier, holding, chan, parkedQueue, length, closeVars, received>>

-----------------------------------------------------------------------------
(* close: take the sender, length.store(0), closed.store(true). *)

TakeSender ==
    /\ closer = "idle" /\ closer' = "taken"
    /\ hasSender' = FALSE
    /\ UNCHANGED <<pc, earlier, consumerVars, chan, parkedQueue, length, closed>>

ZeroLength ==
    /\ closer = "taken" /\ closer' = "zeroed"
    /\ length' = 0
    /\ UNCHANGED <<pc, earlier, consumerVars, chan, parkedQueue, hasSender, closed>>

SetClosed ==
    /\ closer = "zeroed" /\ closer' = "done"
    /\ closed' = TRUE
    /\ UNCHANGED <<pc, earlier, consumerVars, chan, parkedQueue, hasSender, length>>

Close == TakeSender \/ ZeroLength \/ SetClosed

-----------------------------------------------------------------------------

Enqueue(e) == CheckClosed(e) \/ Clone(e) \/ Send(e) \/ Flush(e) \/ CountIn(e) \/ Cancel(e)
Dequeue(d) == Call(d) \/ Lock(d) \/ Receive(d) \/ CountOut(d) \/ End(d) \/ Forget(d)

Next ==
    \/ \E e \in Items : Enqueue(e)
    \/ \E d \in Consumers : Dequeue(d)
    \/ Close

Spec == Init /\ [][Next]_vars

\* Consumers keep dequeuing, as workers do, and calls that were made are polled on; the
\* mutex is fair, so that a consumer for which it is free again and again gets it.
\* Nobody has to enqueue, to cancel or to close.
Fairness ==
    /\ \A e \in Items : WF_vars(Clone(e) \/ Send(e) \/ Flush(e) \/ CountIn(e))
    /\ \A d \in Consumers : SF_vars(Call(d) \/ Lock(d) \/ Receive(d) \/ CountOut(d) \/ End(d))
    /\ WF_vars(ZeroLength \/ SetClosed)

FairSpec == Spec /\ Fairness

-----------------------------------------------------------------------------

Inside == ToSet(chan) \cup {holding[d] : d \in Consumers} \cup received

\* enqueue's answer is true: Ok means the item is in the queue or was handed to
\* a consumer, Err that it never is; and no item is in two places.
EnqueueTrue ==
    /\ \A e \in Items :
           /\ pc[e] = "ok" => e \in Inside
           /\ pc[e] \in {"err", "cancelled"} => e \notin Inside
    /\ IsInjective(chan)
    /\ ToSet(chan) \cap received = {}

\* dequeue returns None only when nothing is left, and nothing will come.
NoneIsFinal ==
    (\E d \in Consumers : consumer[d] = "none") =>
        /\ chan = <<>> /\ ~hasSender
        /\ \A e \in Items : pc[e] \notin Sending

\* What callers are told is true.
AnswersTrue == EnqueueTrue /\ NoneIsFinal

\* The items whose enqueue has returned never exceed the capacity (fifo.rs tests,
\* enqueue_blocks_if_full): backpressure holds although items of parked
\* senders, cancelled ones too, are in the channel.
Backpressure == Cardinality({e \in ToSet(chan) : pc[e] \in {"ok", "sent"}}) <= Capacity

\* No parked sender is forgotten: a receive unparks one, so the messages in the
\* channel are enough to wake all those that are parked.
NoneStranded == Len(parkedQueue) <= Len(chan)

\* The channel's bound and its parked senders.
CapacityHolds == Backpressure /\ NoneStranded

\* len() before close() has zeroed the counter, when nobody is between the channel and
\* the counter: the number of messages in the channel.  The one way to be wrong before
\* close() is a send that was dropped while it was parked: its message is inside and
\* will never be counted in.
LenSettled ==
    (/\ closer \in {"idle", "taken"}
     /\ \A e \in Items : pc[e] \notin {"parked", "sent", "abandoned"}
     /\ \A d \in Consumers : consumer[d] # "counting") =>
        length = Wrap(Len(chan))

\* The counter's part of the invariant.
LengthSound == TypeOK /\ LenSettled

\* queue/traits.rs:31, "Returns the number of items currently in the queue", whenever no
\* call is under way between the channel and the counter.
LenTrue ==
    (/\ closer \in {"idle", "done"}
     /\ \A e \in Items : pc[e] \notin {"parked", "sent"}
     /\ \A d \in Consumers : consumer[d] # "counting") =>
        length = Len(chan)

\* The queue as its users see it: what became of each call, and of its item.
Answer == [e \in Items |->
    IF pc[e] = "idle" THEN "new"
    ELSE IF pc[e] \in {"ok", "err"} THEN pc[e]
    ELSE IF pc[e] \in {"cancelled", "abandoned"} THEN "dropped" ELSE "waiting"]

Place == [e \in Items |->
    IF e \in ToSet(chan) THEN "queued" ELSE IF e \in Inside THEN "taken" ELSE "out"]

Promise == INSTANCE QueuePromise WITH
    order <- "fifo", prio <- [e \in Items |-> 0], call <- Answer, place <- Place

\* First in, first out, once each, and true answers, whatever several consumers, parked
\* senders and dropped calls do.
ImplementsPromise == Promise!Spec

AllGone == \A d \in Consumers : consumer[d] = "gone"

\* As long as one consumer stays, whichever others are dropped in the middle of a
\* dequeue, items whose enqueue returned Ok reach a consumer, until none is left, and
\* the enqueues that have their sender return.
Delivered(e) == pc[e] = "ok" => e \in received
Returned(e)  == pc[e] \notin Sending

EveryItemArrives ==
    (\E e \in Items : ~Delivered(e)) ~> (\A e \in Items : Delivered(e)) \/ AllGone
EnqueueReturns ==
    (\E e \in Items : ~Returned(e)) ~> (\A e \in Items : Returned(e)) \/ AllGone

\* close() releases the consumers: all of them that stay get their None in the end.
CloseReleases ==
    closer = "done" ~> \A d \in Consumers : consumer[d] \in {"none", "gone"}

\* Nobody waits for ever in a queue that is used or closed.
CallsReturn == EnqueueReturns /\ CloseReleases

=============================================================================
