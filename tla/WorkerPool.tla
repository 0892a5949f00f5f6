----------------------------- MODULE WorkerPool -----------------------------
(***************************************************************************)
(* Workers and their pool, src/crates/jobq-core/src/worker.rs, on a queue  *)
(* of which only what dequeue_job returns is visible here: a job, None     *)
(* once it is closed and empty, or nothing yet.                            *)
(*                                                                         *)
(* Each turn of JobWorker::run registers a new listener on the worker's    *)
(* shutdown event and selects between it and dequeue_job.  The branch not  *)
(* taken is dropped before the other's body runs, so a worker has no       *)
(* listener while it executes a job, and event.notify reaches only         *)
(* listeners that are registered.                                          *)
(*                                                                         *)
(* All workers are futures of one join_all, and so of one task: one worker *)
(* at a time runs, from where it was waiting to where it waits again, and  *)
(* the others run, or the task is aborted, only then.                      *)
(***************************************************************************)
EXTENDS Integers, FiniteSets

CONSTANTS
    Jobs,
    Workers,
    NoWorker,
    MaxShutdowns    \* how many times WorkerPool::shutdown is called

ASSUME PoolAssumption == MaxShutdowns \in Nat /\ NoWorker \notin Workers

VARIABLES
    place,      \* where each job is
    runner,     \* the worker that took each job
    closed,     \* the queue was closed
    worker,     \* where each worker is in JobWorker::run
    notified,   \* the workers whose registered listener was notified
    polled,     \* the worker that runs now and has not come to wait again
    signalled,  \* the workers the call of shutdown() in progress has signalled
    shutdowns   \* how many calls of shutdown() have returned

vars == <<place, runner, closed, worker, notified, polled, signalled, shutdowns>>

poolVars == <<signalled, shutdowns>>

TypeOK ==
    /\ place \in [Jobs -> {"new", "queued", "running", "done", "dropped"}]
    /\ runner \in [Jobs -> Workers \cup {NoWorker}]
    /\ closed \in BOOLEAN
    /\ worker \in [Workers -> {"top", "selecting", "executing", "stopped", "aborted"}]
    /\ notified \in SUBSET {w \in Workers : worker[w] = "selecting"}
    /\ polled \in {w \in Workers : worker[w] \in {"top", "selecting"}} \cup {NoWorker}
    /\ signalled \in SUBSET Workers
    /\ shutdowns \in 0 .. MaxShutdowns

Init ==
    /\ place = [j \in Jobs |-> "new"]
    /\ runner = [j \in Jobs |-> NoWorker]
    /\ closed = FALSE
    /\ worker = [w \in Workers |-> "top"]
    /\ notified = {}
    /\ polled = NoWorker
    /\ signalled = {}
    /\ shutdowns = 0

-----------------------------------------------------------------------------
(* The queue. *)

\* A call that found the queue open may publish its job after close() has returned.
Enqueue(j) ==
    /\ place[j] = "new"
    /\ place' = [place EXCEPT ![j] = "queued"]
    /\ UNCHANGED <<runner, closed, worker, notified, polled, poolVars>>

Close ==
    /\ ~closed /\ closed' = TRUE
    /\ UNCHANGED <<place, runner, worker, notified, polled, poolVars>>

\* The last reference to the queue has gone, with the workers that had one each: the
\* jobs in it are dropped.
DropQueue ==
    /\ \A w \in Workers : worker[w] \in {"stopped", "aborted"}
    /\ \E j \in Jobs : place[j] = "queued"
    /\ place' = [j \in Jobs |-> IF place[j] = "queued" THEN "dropped" ELSE place[j]]
    /\ UNCHANGED <<runner, closed, worker, notified, polled, poolVars>>

Empty == \A j \in Jobs : place[j] # "queued"

-----------------------------------------------------------------------------
(* JobWorker::run *)

\* join_all polls the workers one after the other.
Turn(w) == polled \in {NoWorker, w}

Move(w, from, to) == Turn(w) /\ worker[w] = from /\ worker' = [worker EXCEPT ![w] = to]

\* shutdown.listen(), with the dequeue it is raced against.
Listen(w) ==
    /\ Move(w, "top", "selecting")
    /\ polled' = w
    /\ UNCHANGED <<place, runner, closed, notified, poolVars>>

\* Another worker selects: its dequeue may be what holds the queue's lock.
Contended(w) == \E v \in Workers \ {w} : worker[v] = "selecting"

\* Neither branch is ready, and the task goes on to the next worker.
Pend(w) ==
    /\ polled = w /\ worker[w] = "selecting"
    /\ w \notin notified
    /\ Contended(w) \/ (Empty /\ ~closed)
    /\ polled' = NoWorker
    /\ UNCHANGED <<place, runner, closed, worker, notified, poolVars>>

\* dequeue_job yields a job: the listener is dropped, notified or not, and the
\* job executed.
TakeJob(w, j) ==
    /\ place[j] = "queued"
    /\ Move(w, "selecting", "executing")
    /\ place' = [place EXCEPT ![j] = "running"]
    /\ runner' = [runner EXCEPT ![j] = w]
    /\ notified' = notified \ {w}
    /\ polled' = NoWorker
    /\ UNCHANGED <<closed, poolVars>>

\* It yields None: `_ => continue', again with the listener dropped.  Nothing was
\* awaited: the worker goes on.
Continue(w) ==
    /\ closed /\ Empty
    /\ Move(w, "selecting", "top")
    /\ notified' = notified \ {w}
    /\ polled' = w
    /\ UNCHANGED <<place, runner, closed, poolVars>>

\* The listener wins: break.
Break(w) ==
    /\ w \in notified
    /\ Move(w, "selecting", "stopped")
    /\ notified' = notified \ {w}
    /\ polled' = NoWorker
    /\ UNCHANGED <<place, runner, closed, poolVars>>

\* Mutant of FinishJob: a job that ended does not give the worker back.
FinishJobOnly(w, j) ==
    /\ place[j] = "running" /\ runner[j] = w
    /\ Move(w, "executing", "executing")
    /\ place' = [place EXCEPT ![j] = "done"]
    /\ UNCHANGED <<runner, closed, notified, polled, poolVars>>

\* execute() returns, whatever the task did: panics are caught inside.
FinishJob(w, j) ==
    /\ place[j] = "running" /\ runner[j] = w
    /\ Move(w, "executing", "top")
    /\ place' = [place EXCEPT ![j] = "done"]
    /\ polled' = w
    /\ UNCHANGED <<runner, closed, notified, poolVars>>

-----------------------------------------------------------------------------
(* WorkerPool *)

\* shutdown() signals one worker after the other; notify reaches a worker only
\* while its listener is registered.
Signal(w) ==
    /\ shutdowns < MaxShutdowns
    /\ w \notin signalled
    /\ signalled' = signalled \cup {w}
    /\ notified' = IF worker[w] = "selecting" THEN notified \cup {w} ELSE notified
    /\ UNCHANGED <<place, runner, closed, worker, polled, shutdowns>>

ShutdownReturns ==
    /\ shutdowns < MaxShutdowns
    /\ signalled = Workers
    /\ signalled' = {}
    /\ shutdowns' = shutdowns + 1
    /\ UNCHANGED <<place, runner, closed, worker, notified, polled>>

\* Mutant of Abort: the jobs that were running go back to the queue.
AbortRequeues ==
    /\ polled = NoWorker
    /\ \E w \in Workers : worker[w] \notin {"stopped", "aborted"}
    /\ worker' = [w \in Workers |-> IF worker[w] = "stopped" THEN "stopped" ELSE "aborted"]
    /\ place' = [j \in Jobs |-> IF place[j] = "running" THEN "queued" ELSE place[j]]
    /\ notified' = {}
    /\ UNCHANGED <<runner, closed, polled, poolVars>>

\* The task the pool was spawned on is aborted, between two of its polls: the jobs that
\* were running are dropped with it.
Abort ==
    /\ polled = NoWorker
    /\ \E w \in Workers : worker[w] \notin {"stopped", "aborted"}
    /\ worker' = [w \in Workers |-> IF worker[w] = "stopped" THEN "stopped" ELSE "aborted"]
    /\ place' = [j \in Jobs |-> IF place[j] = "running" THEN "dropped" ELSE place[j]]
    /\ notified' = {}
    /\ UNCHANGED <<runner, closed, polled, poolVars>>

-----------------------------------------------------------------------------

WorkerNext(w) ==
    \/ Listen(w) \/ Pend(w) \/ Continue(w) \/ Break(w)
    \/ \E j \in Jobs : TakeJob(w, j) \/ FinishJob(w, j)

Next ==
    \/ \E j \in Jobs : Enqueue(j)
    \/ Close
    \/ DropQueue
    \/ \E w \in Workers : WorkerNext(w) \/ Signal(w)
    \/ ShutdownReturns
    \/ Abort

Spec == Init /\ [][Next]_vars

\* The executor polls the task, jobs end, and a shutdown that has begun is carried on.
\* join_all comes back to a worker whose turn comes again and again, but nothing makes
\* the one that runs wait.
FairSpec ==
    /\ Spec
    /\ \A w \in Workers : SF_vars(WorkerNext(w)) /\ WF_vars(signalled # {} /\ Signal(w))
    /\ WF_vars(ShutdownReturns)

-----------------------------------------------------------------------------

Running(w) == {j \in Jobs : place[j] = "running" /\ runner[j] = w}

\* Every job is where its worker says it is: a worker executes one job while it
\* executes, and none when it has stopped, was aborted or waits; so choosing the
\* shutdown branch never loses a job that was dequeued.
JobsHaveOneWorker ==
    \A w \in Workers :
        IF worker[w] = "executing" THEN \E j \in Jobs : Running(w) = {j}
                                   ELSE Running(w) = {}

\* A job leaves the queue once: it never goes back, nor to another worker.
TakenOnce ==
    [][\A j \in Jobs : runner[j] # NoWorker =>
           runner'[j] = runner[j] /\ place'[j] # "queued"]_vars

\* worker.rs:150-156, shutdown: "This method will signal all workers to stop
\* processing jobs. [...] A future that resolves when all workers have been shut
\* down."  A worker executing a job when shutdown() has returned stops after it.
ShutdownStops ==
    []~closed => \A w \in Workers :
        shutdowns > 0 /\ worker[w] = "executing" ~> worker[w] \in {"stopped", "aborted"}

=============================================================================
