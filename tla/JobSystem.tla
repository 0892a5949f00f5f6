----------------------------- MODULE JobSystem -----------------------------
(***************************************************************************)
(* A whole queue system as QueueSystemBuilder::build gives it to a client: *)
(* a JobQueue handle and a WorkerPool, src/crates/jobq-core/src/job.rs and *)
(* builder.rs.  The client clones, downgrades, upgrades and drops handles, *)
(* enqueues jobs and joins a JobFutureSet of their futures.  Of the number *)
(* of its JobQueue handles only whether there is one matters, so clone and *)
(* downgrade, and the drop of one of several, are no steps here.           *)
(*                                                                         *)
(* The queue lives as long as some JobQueue does: the client's, and one in *)
(* each worker of the pool, which the client holds and the task spawned on *)
(* it holds until every worker has stopped.  With the queue go the jobs in *)
(* it, and with a job the setter of its future.                            *)
(***************************************************************************)
EXTENDS WorkerPool

VARIABLES
    call,       \* where the call that enqueues each job is
    failed,     \* the jobs whose result is an Err
    handle,     \* the client has a JobQueue
    poolHeld,   \* the client has the WorkerPool
    joined,     \* the jobs whose futures are in the client's JobFutureSet
    join        \* how the set is joined, or what the join returned

clientVars == <<call, failed, handle, poolHeld, joined, join>>

systemVars == <<vars, clientVars>>

SystemTypeOK ==
    /\ TypeOK
    /\ call \in [Jobs -> {"idle", "sending", "ok", "err", "cancelled"}]
    /\ failed \in SUBSET Jobs
    /\ handle \in BOOLEAN
    /\ poolHeld \in BOOLEAN
    /\ joined \in SUBSET Jobs
    /\ join \in {"none", "all", "try", "results", "values", "err"}

\* JobQueueBuilder: one handle on a queue of one of the three kinds.
NewQueue == handle = TRUE

\* QueueSystemBuilder::build: the pool is spawned on an executor.
SystemInit ==
    /\ Init
    /\ NewQueue
    /\ call = [j \in Jobs |-> "idle"]
    /\ failed = {}
    /\ poolHeld = TRUE
    /\ joined = {}
    /\ join = "none"

Working(w) == worker[w] \notin {"stopped", "aborted"}

\* Weak::upgrade would find the queue.
QueueAlive == handle \/ poolHeld \/ \E w \in Workers : Working(w)

-----------------------------------------------------------------------------
(* Handles *)

HandlesStay == UNCHANGED <<vars, call, failed, joined, join>>

\* Mutant of Upgrade: the weak handle brings the queue back.
UpgradeDead ==
    /\ ~handle /\ handle' = TRUE
    /\ HandlesStay /\ UNCHANGED poolHeld

\* WeakJobQueue::upgrade is Some while the queue lives, be it for its workers only.
Upgrade ==
    /\ ~handle /\ QueueAlive
    /\ handle' = TRUE
    /\ HandlesStay /\ UNCHANGED poolHeld

\* The last handle goes, which a call in progress borrows.
DropHandle ==
    /\ handle /\ \A j \in Jobs : call[j] # "sending"
    /\ handle' = FALSE
    /\ HandlesStay /\ UNCHANGED poolHeld

DropPool ==
    /\ poolHeld /\ poolHeld' = FALSE
    /\ HandlesStay /\ UNCHANGED handle

\* The last JobQueue is dropped, and the queue.
QueueDropped == ~QueueAlive /\ DropQueue /\ UNCHANGED clientVars

-----------------------------------------------------------------------------
(* enqueue_job, enqueue_fn, enqueue_stream, enqueue_stream_fn *)

Moves(j, from, to) ==
    /\ call[j] = from
    /\ call' = [call EXCEPT ![j] = to]
    /\ UNCHANGED <<failed, handle, poolHeld, joined, join>>

\* Job::new or StreamJob::new, and the queue finds itself open.
Send(j) == handle /\ ~closed /\ Moves(j, "idle", "sending") /\ UNCHANGED vars

\* The queue is closed: the call fails before there is anything in the queue.
SendClosed(j) == handle /\ closed /\ Moves(j, "idle", "err") /\ UNCHANGED vars

\* The queue publishes the job.  The call may still have to wait for room (FifoQueue).
Publish(j) == call[j] = "sending" /\ Enqueue(j) /\ UNCHANGED clientVars

\* The queue's enqueue is over: Ok, with the future.
Return(j) == place[j] # "new" /\ Moves(j, "sending", "ok") /\ UNCHANGED vars

\* Mutant of Refuse: the error comes after the job is in the queue.
RefuseLate(j) == closed /\ Moves(j, "sending", "err") /\ Enqueue(j)

\* close() came first: `?' drops the future, and the job has been dropped.
Refuse(j) == closed /\ place[j] = "new" /\ Moves(j, "sending", "err") /\ UNCHANGED vars

\* The caller drops its call: before the job is published, or after, when the job stays in
\* the queue.
CancelSubmission(j) == Moves(j, "sending", "cancelled") /\ UNCHANGED vars

CloseQueue == handle /\ Close /\ UNCHANGED clientVars

-----------------------------------------------------------------------------
(* The pool *)

\* The job sets its result, and its setter is used.
Finish(w, j) ==
    /\ FinishJob(w, j)
    /\ failed' \in {failed, failed \cup {j}}
    /\ UNCHANGED <<call, handle, poolHeld, joined, join>>

WorkerStep(w) ==
    /\ Listen(w) \/ Pend(w) \/ Continue(w) \/ Break(w) \/ \E j \in Jobs : TakeJob(w, j)
    /\ UNCHANGED clientVars

Shutdown ==
    /\ poolHeld
    /\ (\E w \in Workers : Signal(w)) \/ ShutdownReturns
    /\ UNCHANGED clientVars

AbortPool == Abort /\ UNCHANGED clientVars

-----------------------------------------------------------------------------
(* JobFutureSet *)

\* What the future of j says: FutureClosed if the job was dropped.
Resolved(j) == place[j] \in {"done", "dropped"}

GoodResult(j) == place[j] = "done" /\ j \notin failed

\* The client has enqueued its jobs, and joins the futures it was given.
StartJoin(how) ==
    /\ join = "none" /\ \A j \in Jobs : call[j] \notin {"idle", "sending"}
    /\ joined' = {j \in Jobs : call[j] = "ok"}
    /\ joined' # {}
    /\ join' = how
    /\ UNCHANGED <<vars, call, failed, handle, poolHeld>>

Answers(a) == join' = a /\ UNCHANGED <<vars, call, failed, handle, poolHeld, joined>>

\* join_all has every result, good or bad.
JoinAll ==
    /\ join = "all"
    /\ \A j \in joined : Resolved(j)
    /\ Answers("results")

\* Mutant of TryJoinAll: the first error is skipped.
TryJoinRest ==
    /\ join = "try"
    /\ \E j \in joined : GoodResult(j)
    /\ \A j \in joined : Resolved(j)
    /\ Answers("values")

\* try_join_all has every value ...
TryJoinAll ==
    /\ join = "try"
    /\ \A j \in joined : GoodResult(j)
    /\ Answers("values")

\* ... or the first error, and drops the other futures.
TryJoinFails ==
    /\ join = "try"
    /\ \E j \in joined : Resolved(j) /\ ~GoodResult(j)
    /\ Answers("err")

-----------------------------------------------------------------------------

SystemNext ==
    \/ Upgrade \/ DropHandle \/ DropPool \/ QueueDropped
    \/ CloseQueue \/ Shutdown \/ AbortPool
    \/ JoinAll \/ TryJoinAll \/ TryJoinFails
    \/ \E how \in {"all", "try"} : StartJoin(how)
    \/ \E j \in Jobs :
           Send(j) \/ SendClosed(j) \/ Publish(j) \/ Return(j) \/ Refuse(j)
           \/ CancelSubmission(j)
    \/ \E w \in Workers : WorkerStep(w) \/ \E j \in Jobs : Finish(w, j)

SystemSpec == SystemInit /\ [][SystemNext]_systemVars

\* The executor polls the pool's task, join_all comes back to a worker whose turn comes
\* again and again, whichever branch its select then takes, and jobs end; the drop of the
\* queue goes on to its end, and the join is polled when a future is resolved.
Fairness ==
    /\ \A w \in Workers : SF_systemVars(WorkerStep(w) \/ \E j \in Jobs : Finish(w, j))
    /\ WF_systemVars(QueueDropped)
    /\ WF_systemVars(JoinAll \/ TryJoinAll \/ TryJoinFails)

FairSystem == SystemSpec /\ Fairness

-----------------------------------------------------------------------------

\* The pool is sound, whatever the client does with it.
PoolSound == SystemTypeOK /\ JobsHaveOneWorker

\* Ok from enqueue_job means that the job is or was in the queue; a job whose enqueue
\* failed never gets there, also when close() came while the call was on its way.
SubmissionsTrue ==
    \A j \in Jobs :
        /\ call[j] = "ok" => place[j] # "new"
        /\ call[j] \in {"idle", "err"} => place[j] = "new"

\* Queued jobs are dropped only when no call is on its way and no worker will take them,
\* and a queue that nobody holds is gone: no handle finds its way back to it, and no job
\* into it.
DroppedForGood ==
    [][/\ \A j \in Jobs : place[j] = "queued" /\ place'[j] = "dropped" =>
              ~QueueAlive /\ \A i \in Jobs : call[i] # "sending" /\ place[i] # "running"
       /\ ~QueueAlive => ~QueueAlive' /\ \A j \in Jobs : place[j] = "new" => place'[j] = "new"]_systemVars

\* A call that failed, or was cancelled before its job was published, leaves no job behind
\* that is published later.
NoLateJob ==
    [][\A j \in Jobs : call[j] \in {"err", "cancelled"} /\ place[j] = "new" =>
           place'[j] = "new"]_systemVars

\* A job goes one way: published by its call or never, taken once, and dropped for good.
OneWay == NoLateJob /\ TakenOnce /\ DroppedForGood

\* try_join_all gives the values only if every job of the set had one, and the error only
\* if one had not; join_all waits for all of them.
JoinTrue ==
    /\ join = "values" => \A j \in joined : GoodResult(j)
    /\ join = "results" => \A j \in joined : Resolved(j)
    /\ join = "err" => \E j \in joined : Resolved(j) /\ ~GoodResult(j)

Stuck == QueueAlive /\ \A w \in Workers : ~Working(w)

\* A worker runs on the closed and empty queue: `continue' goes round without awaiting
\* anything (worker.rs:73-83), so that unless a lock or a shutdown stops it the task
\* never comes to the other workers (worker.rs:140-148), nor to its own abort.
Spinning == closed /\ Empty /\ polled # NoWorker

Waits(j) == call[j] = "ok" /\ ~Resolved(j)

\* No future waits for ever, unless a worker spins for ever: the jobs that were enqueued
\* are executed or dropped, until none is left, and then a joined set returns, unless
\* all workers have stopped and somebody keeps the queue.
FuturesResolve ==
    ~<>[]Spinning =>
        /\ (\E j \in Jobs : Waits(j)) ~> (\A j \in Jobs : ~Waits(j)) \/ Stuck
        /\ join \in {"all", "try"} ~> join \in {"results", "values", "err"} \/ Stuck

=============================================================================
