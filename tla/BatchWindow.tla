---------------------------- MODULE BatchWindow ----------------------------
(***************************************************************************)
(* The batch window of jobq-core: src/crates/jobq-core/src/batch/window.rs *)
(* driven by Batcher::enqueue (batch/task.rs) and emptied by Job::execute  *)
(* (job.rs).                                                               *)
(*                                                                         *)
(* Concurrent enqueue calls share one window through a slot.  The call     *)
(* that opens a window creates its admission, the shared future that       *)
(* submits the window's job to the queue; later callers join the window    *)
(* and wait for the same admission until the queue answered.  A call may   *)
(* be cancelled while it waits; the last one to let go of the admission    *)
(* runs its Drop.  A worker takes the job from the queue, waits until the  *)
(* window is full or its time is up, and seals it.                         *)
(*                                                                         *)
(* An action is a stretch of code between two points where another thread  *)
(* can observe something: the slot mutex is held over the whole of join,   *)
(* but a reference count reaching zero and the Drop that follows it are    *)
(* two steps, and so are the queue's publishing of an item and the answer  *)
(* its enqueue returns.                                                    *)
(***************************************************************************)
EXTENDS Integers, FiniteSets

CONSTANTS
    Calls,      \* the enqueue calls; a window is named after the call that opened it
    Options,    \* queue options (only their equality matters)
    MaxSize,    \* BatchPolicy.max_size; 0 and 1 both mean a window of one
    NoWindow    \* Option::None

ASSUME CallsAssumption    == IsFiniteSet(Calls) /\ NoWindow \notin Calls
ASSUME MaxSizeAssumption  == MaxSize \in Nat

VARIABLES
    opts,       \* the queue options each call was made with
    pc,         \* where each call is in Batcher::enqueue
    outcome,    \* what each call returned
    joined,     \* the window each call's member was put into
    discarded,  \* join's discarded_admission, until it is dropped
    dropping,   \* the admission whose last reference the call let go of
    open,       \* the window in the slot
    admission,  \* AdmissionState of the slot's entry
    members,    \* WindowState.inputs / deliveries
    sealed,     \* the windows whose WindowState.sealed is set
    notified,   \* windows whose parked worker the `full' event has woken
    adm,        \* state of each window's admission future
    job,        \* where each window's job is
    batch       \* what Window::seal returned to the job

callVars   == <<opts, pc, outcome, joined, discarded, dropping>>
slotVars   == <<open, admission>>
windowVars == <<members, sealed, notified>>
jobVars    == <<adm, job, batch>>
vars       == <<opts, pc, outcome, joined, discarded, dropping, open, admission,
                members, sealed, notified, adm, job, batch>>

Capacity == IF MaxSize <= 1 THEN 1 ELSE MaxSize

\* A worker between the registration of its listener and its return from ready().
Listening == {"listening", "parked"}
\* The item is, or was, in the queue.
Visible == {"queued", "listening", "parked", "ran"}

TypeOK ==
    /\ opts \in [Calls -> Options]
    /\ pc \in [Calls -> {"idle", "discard", "waiting", "done"}]
    /\ outcome \in [Calls -> {"none", "ok", "err", "cancelled"}]
    /\ joined \in [Calls -> Calls \cup {NoWindow}]
    /\ discarded \in [Calls -> Calls \cup {NoWindow}]
    /\ dropping \in [Calls -> Calls \cup {NoWindow}]
    /\ open \in Calls \cup {NoWindow}
    /\ admission \in {"Pending", "Accepted"}
    /\ members \in [Calls -> SUBSET Calls]
    /\ sealed \in SUBSET Calls
    /\ notified \in SUBSET Calls
    /\ adm \in [Calls -> {"none", "pending", "ok", "err", "cancelled"}]
    /\ job \in [Calls -> {"none", "held", "dropped"} \cup Visible]
    /\ batch \in [Calls -> SUBSET Calls]

Init ==
    /\ opts \in [Calls -> Options]
    /\ pc = [c \in Calls |-> "idle"]
    /\ outcome = [c \in Calls |-> "none"]
    /\ joined = [c \in Calls |-> NoWindow]
    /\ discarded = [c \in Calls |-> NoWindow]
    /\ dropping = [c \in Calls |-> NoWindow]
    /\ open = NoWindow
    /\ admission = "Pending"
    /\ members = [w \in Calls |-> {}]
    /\ sealed = {}
    /\ notified = {}
    /\ adm = [w \in Calls |-> "none"]
    /\ job = [w \in Calls |-> "none"]
    /\ batch = [w \in Calls |-> {}]

-----------------------------------------------------------------------------
(* References to an admission. *)

\* The calls that own a reference to w's admission: what Weak::upgrade sees.
Strong(w) ==
    {c \in Calls : \/ pc[c] \in {"discard", "waiting"} /\ joined[c] = w
                   \/ pc[c] = "discard" /\ discarded[c] = w}

\* Someone is polling w's shared future, so that its submission can progress.
Polled(w) ==
    \E c \in Calls : pc[c] = "waiting" /\ joined[c] = w /\ dropping[c] = NoWindow

\* Mutants of Release and AbandonSlot: every caller that leaves runs the Drop;
\* the Drop forgets the slot; it clears whatever window the slot holds.
ReleaseEach(c, w) == dropping' = [dropping EXCEPT ![c] = w]
AbandonNothing(w) == UNCHANGED slotVars
AbandonAny(w) ==
    /\ open' = IF admission = "Pending" THEN NoWindow ELSE open
    /\ UNCHANGED admission

\* c lets go of w's admission; the last one to do so has its Drop to run.
Release(c, w) ==
    dropping' = [dropping EXCEPT ![c] = IF Strong(w) = {c} THEN w ELSE NoWindow]

\* Drop of a WindowAdmission: slot.abandon, then the submission goes with it,
\* and the job too if the queue has not got it.
AbandonSlot(w) ==
    /\ open' = IF open = w /\ admission = "Pending" THEN NoWindow ELSE open
    /\ UNCHANGED admission

RunDrop(c) ==
    LET w == dropping[c] IN
    /\ w # NoWindow
    /\ AbandonSlot(w)
    /\ adm' = [adm EXCEPT ![w] = IF @ = "pending" THEN "cancelled" ELSE @]
    /\ job' = [job EXCEPT ![w] = IF @ = "held" THEN "dropped" ELSE @]
    /\ dropping' = [dropping EXCEPT ![c] = NoWindow]
    /\ UNCHANGED <<opts, pc, outcome, joined, discarded, members, sealed,
                   notified, batch>>

-----------------------------------------------------------------------------
(* WindowSlot::join, under the slot mutex. *)

\* Mutant of Notify: a window is sealed without waking its worker.
NotifyNone(ws) == UNCHANGED notified

\* event.notify(MAX) reaches the listeners registered at that moment.
Notify(ws) == notified' = notified \cup {w \in ws : job[w] \in Listening}

\* Mutant of Orphaned: join does not look whether the admission is alive.
OrphanedNever == FALSE

\* The slot's entry is pending but nobody owns its admission any more: the last
\* owner is between the decrement of the count and slot.abandon.
Orphaned == admission = "Pending" /\ Strong(open) = {}

\* A fresh window with its first member, after the windows in `closed' have
\* been closed; `old' is the admission to drop once the mutex is released.
OpenWindow(c, closed, old) ==
    /\ members' = [members EXCEPT ![c] = {c}]
    /\ sealed' = sealed \cup closed \cup (IF MaxSize <= 1 THEN {c} ELSE {})
    /\ Notify(closed)
    /\ adm' = [adm EXCEPT ![c] = "pending"]
    /\ job' = [job EXCEPT ![c] = "held"]
    /\ open' = IF MaxSize <= 1 THEN NoWindow ELSE c
    /\ admission' = "Pending"
    /\ joined' = [joined EXCEPT ![c] = c]
    /\ discarded' = [discarded EXCEPT ![c] = old]
    /\ pc' = [pc EXCEPT ![c] = IF old = NoWindow THEN "waiting" ELSE "discard"]
    /\ UNCHANGED <<opts, outcome, dropping, batch>>

\* Nothing to join: the slot is empty.
JoinEmpty(c) ==
    /\ pc[c] = "idle"
    /\ open = NoWindow
    /\ OpenWindow(c, {}, NoWindow)

\* The open window cannot be shared: other options, or an orphan.  It is closed
\* and replaced.
JoinReplacing(c) ==
    /\ pc[c] = "idle"
    /\ open # NoWindow
    /\ opts[open] # opts[c] \/ Orphaned
    /\ OpenWindow(c, {open}, NoWindow)

\* The window was sealed by its worker since it was put in the slot: push
\* refuses the member, and the admission just upgraded is discarded.
JoinSealed(c) ==
    /\ pc[c] = "idle"
    /\ open # NoWindow
    /\ opts[open] = opts[c]
    /\ ~Orphaned
    /\ open \in sealed
    /\ OpenWindow(c, {}, IF admission = "Pending" THEN open ELSE NoWindow)

Fills(w) == Cardinality(members[w]) + 1 >= MaxSize

\* The member goes into the open window; a window it fills is sealed and leaves
\* the slot.  The call waits for a pending admission, and is done otherwise.
JoinOpen(c) ==
    /\ pc[c] = "idle"
    /\ open # NoWindow
    /\ opts[open] = opts[c]
    /\ ~Orphaned
    /\ open \notin sealed
    /\ members' = [members EXCEPT ![open] = @ \cup {c}]
    /\ sealed' = IF Fills(open) THEN sealed \cup {open} ELSE sealed
    /\ Notify(IF Fills(open) THEN {open} ELSE {})
    /\ open' = IF Fills(open) THEN NoWindow ELSE open
    /\ joined' = [joined EXCEPT ![c] = open]
    /\ IF admission = "Pending"
       THEN pc' = [pc EXCEPT ![c] = "waiting"] /\ UNCHANGED outcome
       ELSE /\ pc' = [pc EXCEPT ![c] = "done"]
            /\ outcome' = [outcome EXCEPT ![c] = "ok"]
    /\ UNCHANGED <<opts, discarded, dropping, admission, adm, job, batch>>

\* drop(discarded_admission), after the mutex is released.
Discard(c) ==
    /\ pc[c] = "discard"
    /\ pc' = [pc EXCEPT ![c] = "waiting"]
    /\ Release(c, discarded[c])
    /\ discarded' = [discarded EXCEPT ![c] = NoWindow]
    /\ UNCHANGED <<opts, outcome, joined, open, admission, members, sealed,
                   notified, adm, job, batch>>

-----------------------------------------------------------------------------
(* admission.wait().await? *)

Leave(c, result) ==
    /\ pc[c] = "waiting"
    /\ dropping[c] = NoWindow
    /\ pc' = [pc EXCEPT ![c] = "done"]
    /\ outcome' = [outcome EXCEPT ![c] = result]
    /\ Release(c, joined[c])
    /\ UNCHANGED <<opts, joined, discarded, open, admission, members, sealed,
                   notified, adm, job, batch>>

\* The shared future has an answer.
Answer(c) ==
    /\ pc[c] = "waiting"
    /\ adm[joined[c]] \in {"ok", "err"}
    /\ Leave(c, adm[joined[c]])

\* The caller drops its enqueue future.
Cancel(c) == Leave(c, "cancelled")

-----------------------------------------------------------------------------
(* The submission: queue.enqueue, then slot.accept or slot.evict. *)

\* The queue publishes the item; its enqueue may still be waiting for room.
Submit(w) ==
    /\ adm[w] = "pending"
    /\ job[w] = "held"
    /\ Polled(w)
    /\ job' = [job EXCEPT ![w] = "queued"]
    /\ UNCHANGED <<callVars, slotVars, windowVars, adm, batch>>

\* Mutant of Accept: the window is accepted before the queue has its job.
AcceptEarly(w) ==
    /\ adm[w] = "pending"
    /\ Polled(w)
    /\ adm' = [adm EXCEPT ![w] = "ok"]
    /\ admission' = IF open = w THEN "Accepted" ELSE admission
    /\ UNCHANGED <<callVars, open, windowVars, job, batch>>

\* enqueue returned Ok.
Accept(w) ==
    /\ adm[w] = "pending"
    /\ job[w] \in Visible
    /\ Polled(w)
    /\ adm' = [adm EXCEPT ![w] = "ok"]
    /\ admission' = IF open = w THEN "Accepted" ELSE admission
    /\ UNCHANGED <<callVars, open, windowVars, job, batch>>

\* enqueue returned Err, dropping the item: the queue is closed.
Reject(w) ==
    /\ adm[w] = "pending"
    /\ job[w] = "held"
    /\ Polled(w)
    /\ adm' = [adm EXCEPT ![w] = "err"]
    /\ job' = [job EXCEPT ![w] = "dropped"]
    /\ open' = IF open = w THEN NoWindow ELSE open
    /\ UNCHANGED <<callVars, admission, windowVars, batch>>

-----------------------------------------------------------------------------
(* The worker: dequeue, Window::ready, Window::seal.  What a push does between *)
(* two steps that are one action here it can do before the first of them.      *)

\* The worker takes the job and registers ready's listener, before it looks at
\* the window.
Dequeue(w) ==
    /\ job[w] = "queued"
    /\ job' = [job EXCEPT ![w] = "listening"]
    /\ UNCHANGED <<callVars, slotVars, windowVars, adm, batch>>

\* is_sealed said no: wait for a notification or for the end of max_wait.
Park(w) ==
    /\ job[w] = "listening"
    /\ w \notin sealed
    /\ job' = [job EXCEPT ![w] = "parked"]
    /\ UNCHANGED <<callVars, slotVars, windowVars, adm, batch>>

\* Mutant of Seal: the members are taken but the window is left open.
SealUnmarked(w) ==
    /\ job' = [job EXCEPT ![w] = "ran"]
    /\ batch' = [batch EXCEPT ![w] = members[w]]
    /\ members' = [members EXCEPT ![w] = {}]
    /\ notified' = notified \ {w}
    /\ UNCHANGED <<callVars, slotVars, sealed, adm>>

\* ready returns and seal takes what the window holds.
Seal(w) ==
    /\ job' = [job EXCEPT ![w] = "ran"]
    /\ sealed' = sealed \cup {w}
    /\ batch' = [batch EXCEPT ![w] = members[w]]
    /\ members' = [members EXCEPT ![w] = {}]
    /\ notified' = notified \ {w}
    /\ UNCHANGED <<callVars, slotVars, adm>>

FindSealed(w) == job[w] = "listening" /\ w \in sealed /\ Seal(w)
Wake(w)       == job[w] = "parked" /\ w \in notified /\ Seal(w)
Timeout(w)    == job[w] = "parked" /\ Seal(w)

-----------------------------------------------------------------------------

\* Every call has returned and no job is left.
Terminated ==
    /\ \A c \in Calls : pc[c] = "done" /\ dropping[c] = NoWindow
    /\ \A w \in Calls : job[w] \in {"none", "ran", "dropped"}
    /\ UNCHANGED vars

Join(c) == JoinEmpty(c) \/ JoinReplacing(c) \/ JoinSealed(c) \/ JoinOpen(c)

CallNext(c)  == Join(c) \/ Discard(c) \/ RunDrop(c) \/ Answer(c) \/ Cancel(c)
QueueNext(w) == Submit(w) \/ Accept(w) \/ Reject(w)
WorkNext(w)  == Dequeue(w) \/ Park(w) \/ FindSealed(w) \/ Wake(w) \/ Timeout(w)

Next ==
    \/ \E c \in Calls : CallNext(c) \/ QueueNext(c) \/ WorkNext(c)
    \/ Terminated

Spec == Init /\ [][Next]_vars

\* A call that was polled runs to its next await point, the queue answers every
\* submission that is being polled, a worker keeps taking jobs, and max_wait is
\* finite.  Nothing makes a caller call, or cancel.
Fairness ==
    \A c \in Calls :
        /\ WF_vars(Discard(c) \/ RunDrop(c) \/ Answer(c))
        /\ WF_vars(Submit(c) \/ Accept(c) \/ Reject(c))
        /\ WF_vars(Dequeue(c) \/ Park(c) \/ FindSealed(c) \/ Wake(c) \/ Timeout(c))

FairSpec == Spec /\ Fairness

-----------------------------------------------------------------------------
(* Safety. *)

\* The members a window holds or has handed to its job.
Held(w) == members[w] \cup batch[w]

\* A window never holds, nor hands over, more members than max_size (push seals
\* the window it fills; a window of one is born sealed).
SizeBound == \A w \in Calls : Cardinality(Held(w)) <= Capacity

\* The member of a call is in the window the call joined until the job seals
\* it, and then in the job's batch: never in two windows, never left behind in
\* a sealed one by a join that races with the worker.
MemberKept ==
    \A c, w \in Calls :
        /\ c \in members[w] <=> joined[c] = w /\ job[w] # "ran"
        /\ c \in batch[w]   <=> joined[c] = w /\ job[w] = "ran"

\* Members and windows fit together, whatever the interleaving of joins and seals.
MembersSound == TypeOK /\ SizeBound /\ MemberKept

\* A caller told Ok has its member in a window whose job the queue has: also
\* when it joined an accepted window without waiting for anything.
OkIsQueued ==
    \A c \in Calls : outcome[c] = "ok" => job[joined[c]] \in Visible

\* A caller told Err has its member in no job, and in no window that can still
\* be joined.
ErrNeverRuns ==
    \A c \in Calls : outcome[c] = "err" =>
        job[joined[c]] = "dropped" /\ open # joined[c]

\* The slot offers a window only while joining it can still succeed: the queue
\* has its job, or its submission is pending and owned, or the Drop that will
\* clear the slot is on its way.
SlotSound ==
    open # NoWindow =>
        \/ admission = "Accepted" /\ job[open] \in Visible
        \/ /\ admission = "Pending" /\ adm[open] = "pending"
           /\ Strong(open) # {} \/ \E c \in Calls : dropping[c] = open

\* The members of one window were all enqueued with equal queue options.
SharedOptions ==
    \A c \in Calls : joined[c] # NoWindow => opts[c] = opts[joined[c]]

\* A worker that waits for a window that is sealed has been woken: the join that
\* fills or closes it cannot slip between is_sealed and the wait, which would
\* leave a full batch idle for the rest of max_wait.
NoLostWakeup ==
    \A w \in Calls : job[w] = "parked" /\ w \in sealed => w \in notified

\* Giving up is local: a submission is withdrawn only when every call that
\* joined its window has itself been cancelled.
CancelIsLocal ==
    \A c \in Calls : joined[c] # NoWindow /\ adm[joined[c]] = "cancelled" =>
        outcome[c] = "cancelled"

\* What a caller of enqueue learns is true of its member, and remains so.
AnswersTrue == OkIsQueued /\ ErrNeverRuns /\ CancelIsLocal

\* A window leaves the slot only full, closed, rejected or withdrawn: the answer
\* or the Drop of an older window never evicts the one that replaced it.
NoForeignEviction ==
    [][\A w \in Calls : open = w /\ open' # w =>
           w \in sealed' \/ adm'[w] \in {"err", "cancelled"}]_vars

-----------------------------------------------------------------------------
(* Liveness. *)

\* The calls that were made get to return, until none is waiting.
Returned(c) == pc[c] \in {"idle", "done"}
EveryCallReturns == (\E c \in Calls : ~Returned(c)) ~> (\A c \in Calls : Returned(c))

\* The members of callers that were told Ok are handed to an execution of the job, until
\* none is left.
Run(c) == outcome[c] = "ok" => \E w \in Calls : c \in batch[w]
EveryOkRuns == (\E c \in Calls : ~Run(c)) ~> (\A c \in Calls : Run(c))

-----------------------------------------------------------------------------
(* The promise of the batcher, implemented by the window. *)

Verdict(w) ==
    CASE adm[w] = "ok" -> "admitted"
      [] adm[w] = "err" -> "refused"
      [] adm[w] = "cancelled" -> "withdrawn"
      [] OTHER -> "open"

Promise == INSTANCE BatchPromise
    WITH group <- joined, verdict <- [w \in Calls |-> Verdict(w)], NoGroup <- NoWindow

\* Every behaviour of the window is one the batcher's promise allows.
ImplementsPromise == Promise!Spec

=============================================================================
