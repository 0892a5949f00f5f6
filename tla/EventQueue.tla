----------------------------- MODULE EventQueue -----------------------------
(***************************************************************************)
(* The two queues whose consumers sleep on an event_listener::Event        *)
(* (external): src/crates/jobq-core/src/queue/lifo.rs and priority.rs.     *)
(*                                                                         *)
(* listen() registers a listener at once; notify(n) makes sure that n of   *)
(* the registered listeners, the oldest first, are notified, counting      *)
(* those that were notified before and have not woken up yet; it does      *)
(* nothing for a consumer that is about to register.  A notified listener  *)
(* that is dropped passes its notification on, unless one that is notified *)
(* is left: notify(1) asks for no more.                                    *)
(***************************************************************************)
EXTENDS Integers, Sequences, FiniteSets, SequencesExt

CONSTANTS
    Items,      \* the enqueue calls, each with its own item
    Consumers,  \* the tasks that call dequeue, over and over
    Priorities, \* PriorityOptions.priority
    Usize       \* how many values usize has

ASSUME EventQueueAssumption == Priorities \subseteq Nat /\ Usize \in Nat \ {0}

VARIABLES
    kind,       \* which of the two queues this is
    prio,       \* the priority each call was made with
    idx,        \* PriorityItem.idx
    idxCounter, \* PriorityQueue.idx_counter
    pc,         \* where each enqueue call is
    consumer,   \* where each consumer is in dequeue
    inner,      \* the items in the queue, in the order they were pushed
    length,     \* PriorityQueue.length
    closed,
    closer,     \* where the call of close() is
    listeners,  \* the registered listeners, oldest first
    notified,   \* those that have been notified
    popped,     \* the items dequeue has returned, in order
    earlier,    \* the items whose enqueue had returned when each call was made
    missed      \* history: a notification was wasted (see InTheGap and Forget)

vars == <<kind, prio, idx, idxCounter, pc, consumer, inner, length,
          closed, closer, listeners, notified, popped, earlier, missed>>

fixedVars   == <<kind, prio>>
enqueueVars == <<idx, idxCounter, pc>>
closeVars   == <<closed, closer>>
eventVars   == <<listeners, notified>>
historyVars == <<earlier, missed>>

TypeOK ==
    /\ kind \in {"lifo", "priority"}
    /\ prio \in [Items -> Priorities]
    /\ idx \in [Items -> Nat]
    /\ idxCounter \in Nat
    /\ pc \in [Items -> {"idle", "checked", "pushed", "ok", "err", "cancelled"}]
    /\ consumer \in [Consumers -> {"idle", "draining", "looking", "empty", "listening", "gone"}]
    /\ inner \in Seq(Items)
    /\ length \in 0 .. Usize - 1
    /\ closed \in BOOLEAN
    /\ closer \in {"idle", "flagged", "done"}
    /\ listeners \in Seq(Consumers)
    /\ notified \in SUBSET Consumers
    /\ popped \in Seq(Items)
    /\ earlier \in [Items -> SUBSET Items]
    /\ missed \in BOOLEAN

Init ==
    /\ kind \in {"lifo", "priority"}
    /\ prio \in [Items -> Priorities]
    /\ idx = [e \in Items |-> 0]
    /\ idxCounter = 0
    /\ pc = [e \in Items |-> "idle"]
    /\ consumer = [d \in Consumers |-> "idle"]
    /\ inner = <<>>
    /\ length = 0
    /\ closed = FALSE
    /\ closer = "idle"
    /\ listeners = <<>>
    /\ notified = {}
    /\ popped = <<>>
    /\ earlier = [e \in Items |-> {}]
    /\ missed = FALSE

-----------------------------------------------------------------------------
(* The event. *)

Registered == ToSet(listeners)

\* Mutant of NotifyOne: enqueue wakes nobody.
NotifyNobody == UNCHANGED notified

\* The oldest listener that is not notified, if there is one.
NextInLine ==
    {listeners[i] : i \in {k \in DOMAIN listeners :
        listeners[k] \notin notified /\ \A j \in 1 .. k - 1 : listeners[j] \in notified}}

\* notify(1)
NotifyOne == notified' = IF notified = {} THEN NextInLine ELSE notified

\* A consumer that found the queue empty and has not registered yet.
InTheGap == \E d \in Consumers : consumer[d] = "empty"

Deregister(d) ==
    \E i \in DOMAIN listeners : listeners[i] = d /\ listeners' = RemoveAt(listeners, i)

\* A listener that is dropped hands its notification on, as notify(1) does.
DropListener(d) ==
    /\ Deregister(d)
    /\ notified' = IF notified = {d} THEN NextInLine ELSE notified \ {d}

-----------------------------------------------------------------------------
(* The items. *)

\* Mutant of Ahead: the newest of equal priority first.
AheadNewest(a, b) == prio[a] > prio[b] \/ (prio[a] = prio[b] /\ idx[a] > idx[b])

\* PriorityItem's order: higher priority first, then lower index.
Ahead(a, b) == prio[a] > prio[b] \/ (prio[a] = prio[b] /\ idx[a] < idx[b])

\* The place of what pop_back, or the heap's pop, takes.
IsTop(i) ==
    IF kind = "lifo" THEN i = Len(inner)
    ELSE \A j \in DOMAIN inner : ~Ahead(inner[j], inner[i])

\* usize arithmetic.
Wrap(n) == n % Usize

\* Mutant of Pop: the item stays in the queue.
Peek ==
    \E i \in DOMAIN inner : IsTop(i) /\ popped' = Append(popped, inner[i]) /\ UNCHANGED inner

Pop ==
    \E i \in DOMAIN inner :
        IsTop(i) /\ popped' = Append(popped, inner[i]) /\ inner' = RemoveAt(inner, i)

-----------------------------------------------------------------------------
(* enqueue *)

Step(e, from, to) == pc[e] = from /\ pc' = [pc EXCEPT ![e] = to]

\* closed.load; the priority queue numbers the item before it asks for the lock.
CheckClosed(e) ==
    /\ Step(e, "idle", IF closed THEN "err" ELSE "checked")
    /\ earlier' = [earlier EXCEPT ![e] = {f \in Items : pc[f] = "ok"}]
    /\ IF closed \/ kind = "lifo"
       THEN UNCHANGED <<idx, idxCounter>>
       ELSE /\ idx' = [idx EXCEPT ![e] = idxCounter]
            /\ idxCounter' = idxCounter + 1
    /\ UNCHANGED <<fixedVars, missed, consumer, inner, length, closeVars, eventVars, popped>>

Push(e) ==
    /\ Step(e, "checked", "pushed")
    /\ inner' = Append(inner, e)
    /\ UNCHANGED <<fixedVars, idx, idxCounter, historyVars, consumer, length, closeVars,
                   eventVars, popped>>

\* After the lock is released: length.fetch_add, notify(1), Ok.
Announce(e) ==
    /\ Step(e, "pushed", "ok")
    /\ length' = IF kind = "lifo" THEN length ELSE Wrap(length + 1)
    /\ NotifyOne
    /\ missed' = (missed \/ InTheGap)
    /\ UNCHANGED <<fixedVars, idx, idxCounter, earlier, consumer, inner, closeVars,
                   listeners, popped>>

\* The caller gives up while it waits for the lock.
Cancel(e) ==
    /\ Step(e, "checked", "cancelled")
    /\ UNCHANGED <<fixedVars, idx, idxCounter, historyVars, consumer, inner, length,
                   closeVars, eventVars, popped>>

-----------------------------------------------------------------------------
(* dequeue *)

Move(d, from, to) == consumer[d] = from /\ consumer' = [consumer EXCEPT ![d] = to]

\* closed.load, at the head of the loop.
LookAtClosed(d) ==
    /\ Move(d, "idle", IF closed THEN "draining" ELSE "looking")
    /\ UNCHANGED <<fixedVars, enqueueVars, historyVars, inner, length, closeVars,
                   eventVars, popped>>

\* Mutant of Drain: a closed queue answers None.
DrainNothing(d) ==
    /\ Move(d, "draining", "idle")
    /\ UNCHANGED <<fixedVars, enqueueVars, historyVars, inner, popped, length, closeVars, eventVars>>

\* Closed: return what there is, or None; length is left alone.
Drain(d) ==
    /\ Move(d, "draining", "idle")
    /\ Pop \/ (inner = <<>> /\ UNCHANGED <<inner, popped>>)
    /\ UNCHANGED <<fixedVars, enqueueVars, historyVars, length, closeVars, eventVars>>

\* Mutant of Take: the item is not counted out.
TakeUncounted(d) ==
    /\ Move(d, "looking", "idle")
    /\ Pop
    /\ UNCHANGED <<fixedVars, enqueueVars, historyVars, length, closeVars, eventVars>>

\* Open: take an item and count it out under the lock,
Take(d) ==
    /\ Move(d, "looking", "idle")
    /\ Pop
    /\ length' = IF kind = "lifo" THEN length ELSE Wrap(length - 1)
    /\ UNCHANGED <<fixedVars, enqueueVars, historyVars, closeVars, eventVars>>

\* or find nothing and release the lock;
FindNothing(d) ==
    /\ Move(d, "looking", "empty")
    /\ inner = <<>>
    /\ UNCHANGED <<fixedVars, enqueueVars, historyVars, inner, length, closeVars,
                   eventVars, popped>>

\* only then is a listener registered.
Listen(d) ==
    /\ Move(d, "empty", "listening")
    /\ listeners' = Append(listeners, d)
    /\ UNCHANGED <<fixedVars, enqueueVars, historyVars, inner, length, closeVars, notified, popped>>

Wake(d) ==
    /\ d \in notified
    /\ Move(d, "listening", "idle")
    /\ Deregister(d)
    /\ notified' = notified \ {d}
    /\ UNCHANGED <<fixedVars, enqueueVars, historyVars, inner, length, closeVars, popped>>

\* The worker's select! chose shutdown: its dequeue future is dropped, waiting for
\* the event or for the lock, and it does not come back.  A consumer that waits
\* for the lock may have been woken for an item that it will not take.
Forget(d) ==
    /\ consumer[d] \in {"draining", "looking", "listening"}
    /\ consumer' = [consumer EXCEPT ![d] = "gone"]
    /\ IF consumer[d] = "listening" THEN DropListener(d) ELSE UNCHANGED eventVars
    /\ missed' = (missed \/ (consumer[d] # "listening" /\ inner # <<>>))
    /\ UNCHANGED <<fixedVars, enqueueVars, earlier, inner, length, closeVars, popped>>

-----------------------------------------------------------------------------
(* close: closed.store(true), notify(MAX). *)

SetClosed ==
    /\ closer = "idle" /\ closer' = "flagged"
    /\ closed' = TRUE
    /\ UNCHANGED <<fixedVars, enqueueVars, historyVars, consumer, inner, length, eventVars, popped>>

WakeAll ==
    /\ closer = "flagged" /\ closer' = "done"
    /\ notified' = Registered
    /\ missed' = (missed \/ InTheGap)
    /\ UNCHANGED <<fixedVars, enqueueVars, earlier, consumer, inner, length, closed,
                   listeners, popped>>

-----------------------------------------------------------------------------

Enqueue(e) == CheckClosed(e) \/ Push(e) \/ Announce(e) \/ Cancel(e)
Dequeue(d) ==
    \/ LookAtClosed(d) \/ Drain(d) \/ Take(d) \/ FindNothing(d)
    \/ Listen(d) \/ Wake(d) \/ Forget(d)

Next ==
    \/ \E e \in Items : Enqueue(e)
    \/ \E d \in Consumers : Dequeue(d)
    \/ SetClosed \/ WakeAll

Spec == Init /\ [][Next]_vars

\* Calls that were made run on and consumers keep dequeuing; nobody has to
\* enqueue, to give up or to close.
FairSpec ==
    /\ Spec
    /\ \A e \in Items : WF_vars(Push(e)) /\ WF_vars(Announce(e))
    /\ \A d \in Consumers :
           /\ WF_vars(LookAtClosed(d)) /\ WF_vars(Drain(d)) /\ WF_vars(Take(d))
           /\ WF_vars(FindNothing(d)) /\ WF_vars(Listen(d)) /\ WF_vars(Wake(d))
    /\ WF_vars(WakeAll)

-----------------------------------------------------------------------------

\* Ok means the item is in the queue or was handed out, Err that it never is;
\* and no item is handed out twice.
AnswersTrue ==
    /\ \A e \in Items :
           /\ pc[e] \in {"pushed", "ok"} => e \in ToSet(inner) \cup ToSet(popped)
           /\ pc[e] \in {"err", "cancelled"} => e \notin ToSet(inner) \cup ToSet(popped)
    /\ IsInjective(inner \o popped)

\* The queue as its users see it: what became of each call, and of its item.
Answer == [e \in Items |->
    IF pc[e] = "idle" THEN "new"
    ELSE IF pc[e] \in {"ok", "err"} THEN pc[e]
    ELSE IF pc[e] = "cancelled" THEN "dropped" ELSE "waiting"]

Place == [e \in Items |->
    IF e \in ToSet(inner) THEN "queued" ELSE IF e \in ToSet(popped) THEN "taken" ELSE "out"]

Promise == INSTANCE QueuePromise WITH order <- kind, call <- Answer, place <- Place

\* Last in first out, or highest priority first and then first in first out (README.md:183),
\* once each, and true answers.
ImplementsPromise == Promise!Spec

\* len() of the priority queue before close(), when no enqueue is between the heap and
\* the counter: the number of items in the heap, however calls overtook each other.
LenSettled ==
    (kind = "priority" /\ ~closed /\ \A e \in Items : pc[e] # "pushed") =>
        length = Wrap(Len(inner))

\* The counter's part of the invariant.
LengthSound == TypeOK /\ LenSettled

\* queue/traits.rs:31, "Returns the number of items currently in the queue", whenever no
\* enqueue is between the heap and the counter.
LenTrue == (kind = "priority" /\ \A e \in Items : pc[e] # "pushed") => length = Len(inner)

AllGone == \A d \in Consumers : consumer[d] = "gone"

\* Unless a notification was wasted, no item whose enqueue has returned is left to
\* consumers that all sleep: one is awake and on its way to look, or is notified.
NoSleeperBeside ==
    ~missed /\ (\E e \in ToSet(inner) : pc[e] = "ok") =>
        \/ \E d \in Consumers : consumer[d] \in {"idle", "draining", "looking"}
        \/ \E d \in notified : consumer[d] = "listening"
        \/ AllGone

\* An accepted item is in one place, and if that is the queue somebody will look.
AcceptedSafe == AnswersTrue /\ NoSleeperBeside

\* Once the queue is closed, a consumer that is awake empties it, or leaves.
ClosedDrains ==
    \A d \in Consumers :
        closed /\ consumer[d] \in {"idle", "draining"} ~> inner = <<>> \/ consumer[d] = "gone"

\* An item is taken as long as there are consumers, unless a notification was
\* wasted: on a consumer between its look at the queue and the registration of its
\* listener, or on one that was dropped, awake, before it got the lock.  A listener
\* that is dropped, and two pushes in a row, lose nothing.
OnlyWasteStrands ==
    []~missed => \A e \in Items : pc[e] = "ok" ~> e \in ToSet(popped) \/ AllGone

\* queue/lifo.rs:120 and priority.rs, test_dequeue_blocks_until_item_available: a
\* consumer that waits gets the item that is enqueued, in a queue nobody closes.
EveryItemTaken ==
    []~closed => \A e \in Items : pc[e] = "ok" ~> e \in ToSet(popped) \/ AllGone

=============================================================================
