-------------------------- MODULE JobSystem_proof --------------------------
(***************************************************************************)
(* Proofs about the worker pool and the system around it, for any jobs,    *)
(* workers and calls of shutdown(): what the client does is a run of       *)
(* WorkerPool, whose invariant therefore holds in it, and the client's own *)
(* part rests on that invariant.                                           *)
(***************************************************************************)
EXTENDS JobSystem, TLAPS

(* A running job and the worker that executes it belong to each other, and *)
(* a job that has a runner is past the queue.                              *)
PoolInv ==
    /\ TypeOK
    /\ \A j \in Jobs : place[j] = "running" => runner[j] # NoWorker /\ worker[runner[j]] = "executing"
    /\ \A w \in Workers :
           worker[w] = "executing" => \E j \in Jobs : place[j] = "running" /\ runner[j] = w
    /\ \A i, j \in Jobs :
           place[i] = "running" /\ place[j] = "running" /\ runner[i] = runner[j] => i = j
    /\ \A j \in Jobs : runner[j] # NoWorker => place[j] \notin {"new", "queued"}

TakenStep ==
    \A j \in Jobs : runner[j] # NoWorker => runner'[j] = runner[j] /\ place'[j] # "queued"

\* Jobs go forward only.
ForwardStep ==
    \A j \in Jobs :
        /\ place[j] \in {"done", "dropped"} => place'[j] = place[j]
        /\ place[j] # "new" => place'[j] # "new"

LEMMA PoolInitInv == Init => PoolInv
<1>. SUFFICES ASSUME Init PROVE PoolInv
  OBVIOUS
<1>1. /\ \A j \in Jobs : place[j] = "new" /\ runner[j] = NoWorker
      /\ \A w \in Workers : worker[w] = "top"
  BY DEF Init
<1>2. TypeOK
  <2>1. /\ place \in [Jobs -> {"new", "queued", "running", "done", "dropped"}]
        /\ runner \in [Jobs -> Workers \cup {NoWorker}]
        /\ worker \in [Workers -> {"top", "selecting", "executing", "stopped", "aborted"}]
    BY DEF Init
  <2>2. shutdowns \in 0 .. MaxShutdowns
    BY PoolAssumption DEF Init
  <2>3. closed \in BOOLEAN /\ signalled = {} /\ notified = {} /\ polled = NoWorker
    BY DEF Init
  <2>. QED BY <2>1, <2>2, <2>3 DEF TypeOK
<1>. QED BY <1>1, <1>2 DEF PoolInv

\* Steps of a worker.
LEMMA WorkerStepInv ==
    ASSUME PoolInv, NEW w \in Workers, WorkerNext(w)
    PROVE  PoolInv' /\ TakenStep /\ ForwardStep
<1>. USE DEF PoolInv
<1>1. CASE Listen(w) \/ Pend(w) \/ Continue(w) \/ Break(w)
  <2>1. /\ place' = place /\ runner' = runner
        /\ worker[w] \in {"top", "selecting"}
        /\ \E to \in {"selecting", "top", "stopped"} :
               /\ worker' = [worker EXCEPT ![w] = to]
               /\ polled' = NoWorker \/ (polled' = w /\ to # "stopped")
        /\ UNCHANGED <<closed, signalled, shutdowns>>
    <3>1. CASE Pend(w)
      <4>1. worker' = [worker EXCEPT ![w] = "selecting"]
        BY <3>1 DEF Pend, TypeOK
      <4>. QED BY <3>1, <4>1 DEF Pend, poolVars
    <3>2. CASE Listen(w) \/ Continue(w) \/ Break(w)
      BY <3>2 DEF Listen, Continue, Break, Move, poolVars
    <3>. QED BY <1>1, <3>1, <3>2
  <2>2. \A v \in Workers : worker'[v] = "executing" <=> worker[v] = "executing"
    BY <2>1 DEF TypeOK
  <2>3. notified' \in SUBSET {v \in Workers : worker'[v] = "selecting"}
    BY <1>1 DEF Listen, Pend, Continue, Break, Move, TypeOK
  <2>4. TypeOK'
    BY <2>1, <2>3 DEF TypeOK
  <2>. QED BY <2>1, <2>2, <2>4 DEF TypeOK, TakenStep, ForwardStep
<1>2. ASSUME NEW j \in Jobs, TakeJob(w, j) PROVE PoolInv' /\ TakenStep /\ ForwardStep
  <2>1. /\ place[j] = "queued" /\ place' = [place EXCEPT ![j] = "running"]
        /\ runner[j] = NoWorker /\ runner' = [runner EXCEPT ![j] = w]
        /\ worker[w] = "selecting" /\ worker' = [worker EXCEPT ![w] = "executing"]
        /\ notified' = notified \ {w} /\ polled' = NoWorker
        /\ UNCHANGED <<closed, signalled, shutdowns>>
    BY <1>2 DEF TakeJob, Move, poolVars
  <2>2. TypeOK'
    BY <2>1 DEF TypeOK
  <2>3. w # NoWorker
    BY PoolAssumption
  <2>4. \A i \in Jobs : place[i] = "running" => runner[i] # w /\ i # j
    BY <2>1 DEF TypeOK
  <2>5. \A i \in Jobs \ {j} : place'[i] = place[i] /\ runner'[i] = runner[i]
    BY <2>1 DEF TypeOK
  <2>6. place'[j] = "running" /\ runner'[j] = w /\ worker'[w] = "executing"
        /\ \A v \in Workers \ {w} : worker'[v] = worker[v]
    BY <2>1 DEF TypeOK
  <2>. QED BY <2>1, <2>2, <2>3, <2>4, <2>5, <2>6 DEF TypeOK, TakenStep, ForwardStep
<1>3. ASSUME NEW j \in Jobs, FinishJob(w, j) PROVE PoolInv' /\ TakenStep /\ ForwardStep
  <2>1. /\ place[j] = "running" /\ place' = [place EXCEPT ![j] = "done"]
        /\ runner[j] = w /\ runner' = runner
        /\ worker[w] = "executing" /\ worker' = [worker EXCEPT ![w] = "top"]
        /\ polled' = w /\ UNCHANGED <<closed, notified, signalled, shutdowns>>
    BY <1>3 DEF FinishJob, Move, poolVars
  <2>2. TypeOK'
    BY <2>1 DEF TypeOK
  <2>3. \A i \in Jobs \ {j} : place'[i] = place[i] /\ (place[i] = "running" => runner[i] # w)
    BY <2>1 DEF TypeOK
  <2>4. place'[j] = "done" /\ worker'[w] = "top" /\ \A v \in Workers \ {w} : worker'[v] = worker[v]
    BY <2>1 DEF TypeOK
  <2>. QED BY <2>1, <2>2, <2>3, <2>4 DEF TypeOK, TakenStep, ForwardStep
<1>. QED BY <1>1, <1>2, <1>3 DEF WorkerNext

LEMMA PoolStep ==
    ASSUME PoolInv, [Next]_vars
    PROVE  PoolInv' /\ TakenStep /\ ForwardStep
<1>. USE DEF PoolInv
<1>1. ASSUME NEW j \in Jobs, Enqueue(j) PROVE PoolInv' /\ TakenStep /\ ForwardStep
  <2>1. /\ place[j] = "new" /\ runner[j] = NoWorker /\ place' = [place EXCEPT ![j] = "queued"]
        /\ UNCHANGED <<runner, closed, worker, notified, polled, signalled, shutdowns>>
    BY <1>1 DEF Enqueue, poolVars
  <2>2. TypeOK'
    BY <2>1 DEF TypeOK
  <2>3. place'[j] = "queued" /\ \A i \in Jobs \ {j} : place'[i] = place[i]
    BY <2>1 DEF TypeOK
  <2>. QED BY <2>1, <2>2, <2>3 DEF TypeOK, TakenStep, ForwardStep
<1>2. CASE DropQueue
  <2>1. /\ place' = [j \in Jobs |-> IF place[j] = "queued" THEN "dropped" ELSE place[j]]
        /\ UNCHANGED <<runner, closed, worker, notified, polled, signalled, shutdowns>>
    BY <1>2 DEF DropQueue, poolVars
  <2>2. TypeOK'
    BY <2>1 DEF TypeOK
  <2>3. \A j \in Jobs : /\ place'[j] = "running" <=> place[j] = "running"
                        /\ place'[j] # "queued" /\ (place'[j] = "new" <=> place[j] = "new")
                        /\ place[j] \in {"done", "dropped"} => place'[j] = place[j]
    BY <2>1
  <2>. QED BY <2>1, <2>2, <2>3 DEF TypeOK, TakenStep, ForwardStep
<1>3. CASE Abort
  <2>1. /\ worker' = [w \in Workers |-> IF worker[w] = "stopped" THEN "stopped" ELSE "aborted"]
        /\ place' = [j \in Jobs |-> IF place[j] = "running" THEN "dropped" ELSE place[j]]
        /\ notified' = {} /\ polled = NoWorker
        /\ UNCHANGED <<runner, closed, polled, signalled, shutdowns>>
    BY <1>3 DEF Abort, poolVars
  <2>2. TypeOK'
    BY <2>1 DEF TypeOK
  <2>3. /\ \A j \in Jobs : /\ place'[j] # "running"
                           /\ place[j] # "running" => place'[j] = place[j]
                           /\ place[j] = "running" => place'[j] = "dropped"
        /\ \A w \in Workers : worker'[w] # "executing"
    BY <2>1 DEF TypeOK
  <2>. QED BY <2>1, <2>2, <2>3 DEF TypeOK, TakenStep, ForwardStep
<1>4. CASE Close \/ ShutdownReturns \/ \E w \in Workers : Signal(w)
  <2>1. UNCHANGED <<place, runner, worker, polled>>
    BY <1>4 DEF Close, ShutdownReturns, Signal
  <2>2. TypeOK'
    <3>1. signalled' \in SUBSET Workers /\ shutdowns' \in 0 .. MaxShutdowns
      BY <1>4, PoolAssumption DEF Close, ShutdownReturns, Signal, TypeOK, poolVars
    <3>2. closed' \in BOOLEAN /\ notified' \in SUBSET {w \in Workers : worker[w] = "selecting"}
      BY <1>4 DEF Close, ShutdownReturns, Signal, TypeOK
    <3>. QED BY <2>1, <3>1, <3>2 DEF TypeOK
  <2>. QED BY <2>1, <2>2 DEF TypeOK, TakenStep, ForwardStep
<1>5. ASSUME NEW w \in Workers, WorkerNext(w) PROVE PoolInv' /\ TakenStep /\ ForwardStep
  BY <1>5, WorkerStepInv
<1>6. CASE UNCHANGED vars
  BY <1>6 DEF vars, TypeOK, TakenStep, ForwardStep
<1>. QED BY <1>1, <1>2, <1>3, <1>4, <1>5, <1>6 DEF Next

\* What the client and its system do is a run of the pool.
LEMMA SystemStep == [SystemNext]_systemVars => [Next]_vars
<1>1. \A j \in Jobs :
          (Send(j) \/ SendClosed(j) \/ Publish(j) \/ Return(j) \/ Refuse(j) \/ CancelSubmission(j))
              => [Next]_vars
  BY DEF Send, SendClosed, Publish, Return, Refuse, CancelSubmission, Next
<1>2. \A w \in Workers : (WorkerStep(w) \/ \E j \in Jobs : Finish(w, j)) => [Next]_vars
  BY DEF WorkerStep, Finish, WorkerNext, Next
<1>3. QueueDropped \/ CloseQueue \/ Shutdown \/ AbortPool => [Next]_vars
  BY DEF QueueDropped, CloseQueue, Shutdown, AbortPool, Next
<1>4. Upgrade \/ DropHandle \/ DropPool \/ JoinAll \/ TryJoinAll \/ TryJoinFails
      \/ (\E how \in {"all", "try"} : StartJoin(how)) => UNCHANGED vars
  BY DEF Upgrade, DropHandle, DropPool, HandlesStay, JoinAll, TryJoinAll, TryJoinFails, Answers,
         StartJoin
<1>5. UNCHANGED systemVars => UNCHANGED vars
  BY DEF systemVars
<1>. QED BY <1>1, <1>2, <1>3, <1>4, <1>5 DEF SystemNext

\* The system is built on the pool: every run of it is a run of WorkerPool.
THEOREM SystemRefinesPool == SystemSpec => Spec
<1>1. SystemInit => Init
  BY DEF SystemInit
<1>. QED BY <1>1, SystemStep, PTL DEF SystemSpec, Spec

-----------------------------------------------------------------------------
(* The client's part: a call that is on its way borrows a handle. *)

ClientInv ==
    /\ PoolInv
    /\ SystemTypeOK
    /\ SubmissionsTrue
    /\ JoinTrue
    /\ \A j \in Jobs : call[j] = "sending" => handle

LEMMA ClientInit == SystemInit => ClientInv
BY PoolInitInv DEF SystemInit, NewQueue, ClientInv, SystemTypeOK, PoolInv, Init, SubmissionsTrue,
   JoinTrue

\* JoinTrue goes on to hold: a resolved future stays so, and so does its result.
LEMMA JoinStays ==
    ASSUME ClientInv, ForwardStep, UNCHANGED <<joined, join>>,
           \A j \in Jobs : place[j] # "running" => (j \in failed' <=> j \in failed),
           failed \subseteq failed'
    PROVE  JoinTrue'
<1>1. \A j \in joined : Resolved(j) => Resolved(j)'
  BY DEF ClientInv, SystemTypeOK, Resolved, ForwardStep
<1>2. \A j \in joined : Resolved(j) /\ ~GoodResult(j) => ~GoodResult(j)'
  BY DEF ClientInv, SystemTypeOK, Resolved, GoodResult, ForwardStep
<1>3. \A j \in joined : GoodResult(j) => GoodResult(j)'
  BY DEF ClientInv, SystemTypeOK, GoodResult, ForwardStep
<1>. QED BY <1>1, <1>2, <1>3 DEF ClientInv, JoinTrue

LEMMA ClientStep ==
    ASSUME ClientInv, [SystemNext]_systemVars
    PROVE  ClientInv'
<1>1. PoolInv' /\ ForwardStep
  BY SystemStep, PoolStep DEF ClientInv
<1>. SUFFICES SystemTypeOK' /\ SubmissionsTrue' /\ JoinTrue'
              /\ \A j \in Jobs : call'[j] = "sending" => handle'
  BY <1>1 DEF ClientInv
<1>2. TypeOK'
  BY <1>1 DEF PoolInv
<1>3. CASE Upgrade \/ DropHandle \/ DropPool \/ UNCHANGED systemVars
  <2>1. /\ UNCHANGED <<place, call, failed, joined, join>>
        /\ handle' \in BOOLEAN /\ poolHeld' \in BOOLEAN
        /\ \A j \in Jobs : call[j] = "sending" => handle'
    BY <1>3 DEF Upgrade, DropHandle, DropPool, HandlesStay, systemVars, clientVars, vars,
       ClientInv, SystemTypeOK
  <2>. QED
    BY <1>2, <2>1 DEF ClientInv, SystemTypeOK, SubmissionsTrue, JoinTrue, Resolved, GoodResult
<1>4. CASE QueueDropped \/ CloseQueue \/ Shutdown \/ AbortPool \/ \E w \in Workers : WorkerStep(w)
  <2>1. UNCHANGED clientVars
    BY <1>4 DEF QueueDropped, CloseQueue, Shutdown, AbortPool, WorkerStep
  <2>2. \A j \in Jobs : place'[j] = "new" <=> place[j] = "new"
    BY <1>4 DEF QueueDropped, DropQueue, CloseQueue, Close, Shutdown, Signal, ShutdownReturns,
       AbortPool, Abort, WorkerStep, Listen, Pend, Continue, Break, TakeJob, ClientInv, PoolInv, TypeOK
  <2>3. JoinTrue'
    BY <1>1, <2>1, JoinStays DEF clientVars
  <2>4. SystemTypeOK' /\ SubmissionsTrue' /\ \A j \in Jobs : call'[j] = "sending" => handle'
    BY <1>2, <2>1, <2>2 DEF clientVars, ClientInv, SystemTypeOK, SubmissionsTrue
  <2>. QED BY <2>3, <2>4
<1>5. ASSUME NEW w \in Workers, NEW i \in Jobs, Finish(w, i)
      PROVE  SystemTypeOK' /\ SubmissionsTrue' /\ JoinTrue'
             /\ \A j \in Jobs : call'[j] = "sending" => handle'
  <2>1. /\ UNCHANGED <<call, handle, poolHeld, joined, join>> /\ failed' \in {failed, failed \cup {i}}
        /\ place[i] = "running" /\ place' = [place EXCEPT ![i] = "done"]
    BY <1>5 DEF Finish, FinishJob
  <2>2. JoinTrue'
    BY <1>1, <2>1, JoinStays
  <2>3. \A j \in Jobs : place'[j] = "new" <=> place[j] = "new"
    BY <2>1 DEF ClientInv, PoolInv, TypeOK
  <2>. QED BY <1>2, <2>1, <2>2, <2>3 DEF ClientInv, SystemTypeOK, SubmissionsTrue
<1>6. ASSUME NEW i \in Jobs,
             Send(i) \/ SendClosed(i) \/ Publish(i) \/ Return(i) \/ Refuse(i) \/ CancelSubmission(i)
      PROVE  SystemTypeOK' /\ SubmissionsTrue' /\ JoinTrue'
             /\ \A j \in Jobs : call'[j] = "sending" => handle'
  <2>1. /\ UNCHANGED <<failed, handle, poolHeld, joined, join>>
        /\ \E to \in {"sending", "ok", "err", "cancelled"} : call' \in {call, [call EXCEPT ![i] = to]}
    BY <1>6 DEF Send, SendClosed, Publish, Return, Refuse, CancelSubmission, Moves, clientVars
  <2>2. JoinTrue'
    BY <1>1, <2>1, JoinStays
  <2>3. SystemTypeOK'
    BY <1>2, <2>1 DEF ClientInv, SystemTypeOK
  <2>4. CASE Publish(i)
    <3>1. call[i] = "sending" /\ call' = call /\ \A j \in Jobs \ {i} : place'[j] = place[j]
      BY <2>4 DEF Publish, Enqueue, clientVars, ClientInv, PoolInv, TypeOK
    <3>2. place'[i] # "new"
      BY <2>4 DEF Publish, Enqueue, ClientInv, PoolInv, TypeOK
    <3>. QED BY <2>1, <2>2, <2>3, <3>1, <3>2 DEF ClientInv, SubmissionsTrue
  <2>5. CASE Send(i) \/ SendClosed(i) \/ Return(i) \/ Refuse(i) \/ CancelSubmission(i)
    <3>1. /\ place' = place /\ \A j \in Jobs \ {i} : call'[j] = call[j]
          /\ call[i] \in {"idle", "sending"} /\ call'[i] \in {"sending", "ok", "err", "cancelled"}
          /\ call'[i] = "sending" => handle
          /\ call'[i] = "ok" => place[i] # "new"
          /\ call'[i] = "err" => call[i] = "idle" \/ place[i] = "new"
      BY <2>5 DEF Send, SendClosed, Return, Refuse, CancelSubmission, Moves, vars, ClientInv,
         SystemTypeOK
    <3>. QED BY <2>1, <2>2, <2>3, <3>1 DEF ClientInv, SubmissionsTrue
  <2>. QED BY <1>6, <2>4, <2>5
<1>7. CASE (\E how \in {"all", "try"} : StartJoin(how)) \/ JoinAll \/ TryJoinAll \/ TryJoinFails
  <2>1. UNCHANGED <<place, call, failed, handle, poolHeld>>
    BY <1>7 DEF StartJoin, JoinAll, TryJoinAll, TryJoinFails, Answers, vars
  <2>2. joined' \in SUBSET Jobs /\ join' \in {"all", "try", "results", "values", "err"}
    BY <1>7 DEF StartJoin, JoinAll, TryJoinAll, TryJoinFails, Answers, ClientInv, SystemTypeOK
  <2>3. JoinTrue'
    BY <1>7, <2>1 DEF StartJoin, JoinAll, TryJoinAll, TryJoinFails, Answers, JoinTrue, Resolved,
       GoodResult
  <2>. QED BY <1>2, <2>1, <2>2, <2>3 DEF ClientInv, SystemTypeOK, SubmissionsTrue
<1>. QED BY <1>3, <1>4, <1>5, <1>6, <1>7 DEF SystemNext

\* ClientInv is an invariant of the system.
THEOREM ClientInvariant == SystemSpec => []ClientInv
<1>1. ClientInv /\ [SystemNext]_systemVars => ClientInv'
  BY ClientStep
<1>. QED BY <1>1, ClientInit, PTL DEF SystemSpec

\* Every job is where its worker says it is, for pools of any size and whatever the client
\* does with it.
THEOREM JobsAreSafe == SystemSpec => []PoolSound
<1>1. ClientInv => PoolSound
  <2>. SUFFICES ASSUME ClientInv PROVE JobsHaveOneWorker
    BY DEF ClientInv, PoolSound
  <2>. SUFFICES ASSUME NEW w \in Workers
                PROVE  IF worker[w] = "executing" THEN \E j \in Jobs : Running(w) = {j}
                                                  ELSE Running(w) = {}
    BY DEF JobsHaveOneWorker
  <2>1. CASE worker[w] = "executing"
    <3>1. PICK j \in Jobs : place[j] = "running" /\ runner[j] = w
      BY <2>1 DEF ClientInv, PoolInv
    <3>2. Running(w) = {j}
      BY <3>1 DEF Running, ClientInv, PoolInv
    <3>. QED BY <2>1, <3>2
  <2>2. CASE worker[w] # "executing"
    BY <2>2 DEF Running, ClientInv, PoolInv
  <2>. QED BY <2>1, <2>2
<1>. QED BY <1>1, ClientInvariant, PTL

\* The answer of every enqueue_job is true.
THEOREM SubmissionsAnswered == SystemSpec => []SubmissionsTrue
<1>1. ClientInv => SubmissionsTrue
  BY DEF ClientInv
<1>. QED BY <1>1, ClientInvariant, PTL

\* So is the answer of a joined set of futures: values only if all of them had one, the
\* error only if one had none.
THEOREM JoinAnswered == SystemSpec => []JoinTrue
<1>1. ClientInv => JoinTrue
  BY DEF ClientInv
<1>. QED BY <1>1, ClientInvariant, PTL

LateStep ==
    \A j \in Jobs : call[j] \in {"err", "cancelled"} /\ place[j] = "new" => place'[j] = "new"

\* Only Publish makes a job leave "new", and only while its call is on its way.
LEMMA LateStepHolds ==
    ASSUME ClientInv, [SystemNext]_systemVars
    PROVE  LateStep
<1>1. ASSUME NEW j \in Jobs, Publish(j) PROVE LateStep
  <2>1. call[j] = "sending" /\ \A i \in Jobs \ {j} : place'[i] = place[i]
    BY <1>1 DEF Publish, Enqueue, ClientInv, PoolInv, TypeOK
  <2>. QED BY <2>1 DEF LateStep
<1>2. CASE \A j \in Jobs : ~Publish(j)
  <2>1. UNCHANGED place \/ QueueDropped \/ AbortPool
        \/ \E w \in Workers, j \in Jobs : TakeJob(w, j) \/ FinishJob(w, j)
    BY <1>2 DEF SystemNext, systemVars, vars, Upgrade, DropHandle, DropPool, HandlesStay,
       CloseQueue, Close, Shutdown, Signal, ShutdownReturns, JoinAll, TryJoinAll, TryJoinFails,
       Answers, StartJoin, Send, SendClosed, Return, Refuse, CancelSubmission, WorkerStep, Listen,
       Pend, Continue, Break, Finish
  <2>2. \A j \in Jobs : place[j] = "new" => place'[j] = "new"
    BY <2>1 DEF QueueDropped, DropQueue, AbortPool, Abort, TakeJob, FinishJob, ClientInv, PoolInv,
       TypeOK
  <2>. QED BY <2>2 DEF LateStep
<1>. QED BY <1>1, <1>2

DroppedStep ==
    /\ \A j \in Jobs : place[j] = "queued" /\ place'[j] = "dropped" =>
           ~QueueAlive /\ \A i \in Jobs : call[i] # "sending" /\ place[i] # "running"
    /\ ~QueueAlive => ~QueueAlive' /\ \A j \in Jobs : place[j] = "new" => place'[j] = "new"

LEMMA DroppedStepHolds ==
    ASSUME ClientInv, [SystemNext]_systemVars
    PROVE  DroppedStep
<1>1. CASE QueueDropped
  <2>1. ~QueueAlive /\ UNCHANGED <<worker, handle, poolHeld>>
        /\ place' = [j \in Jobs |-> IF place[j] = "queued" THEN "dropped" ELSE place[j]]
    BY <1>1 DEF QueueDropped, DropQueue, clientVars
  <2>2. \A i \in Jobs : call[i] # "sending"
    BY <2>1 DEF QueueAlive, ClientInv
  <2>3. \A i \in Jobs : place[i] # "running"
    BY <2>1 DEF QueueAlive, Working, ClientInv, PoolInv, TypeOK
  <2>4. ~QueueAlive'
    BY <2>1 DEF QueueAlive, Working
  <2>. QED BY <2>1, <2>2, <2>3, <2>4 DEF DroppedStep
<1>2. CASE ~QueueDropped
  <2>1. \A j \in Jobs : ~(place[j] = "queued" /\ place'[j] = "dropped")
    <3>1. UNCHANGED place \/ (\E j \in Jobs : Publish(j)) \/ AbortPool
          \/ \E w \in Workers, j \in Jobs : TakeJob(w, j) \/ FinishJob(w, j)
      BY <1>2 DEF SystemNext, systemVars, vars, Upgrade, DropHandle, DropPool, HandlesStay,
         CloseQueue, Close, Shutdown, Signal, ShutdownReturns, JoinAll, TryJoinAll, TryJoinFails,
         Answers, StartJoin, Send, SendClosed, Return, Refuse, CancelSubmission, WorkerStep, Listen,
         Pend, Continue, Break, Finish
    <3>. QED
      BY <3>1 DEF Publish, Enqueue, AbortPool, Abort, TakeJob, FinishJob, ClientInv, PoolInv, TypeOK
  <2>2. ASSUME ~QueueAlive
        PROVE  ~QueueAlive' /\ \A j \in Jobs : place[j] = "new" => place'[j] = "new"
    <3>1. ~handle /\ ~poolHeld /\ \A w \in Workers : worker[w] \in {"stopped", "aborted"}
      BY <2>2 DEF QueueAlive, Working
    <3>2. \A j \in Jobs : ~Publish(j)
      BY <3>1 DEF Publish, ClientInv
    <3>3. \A w \in Workers : ~WorkerStep(w) /\ \A j \in Jobs : ~Finish(w, j)
      BY <3>1 DEF WorkerStep, Listen, Pend, Continue, Break, TakeJob, Finish, FinishJob, Move
    <3>4. ~AbortPool /\ ~Upgrade
      BY <2>2, <3>1 DEF AbortPool, Abort, Upgrade
    <3>5. UNCHANGED <<place, worker>> /\ ~handle' /\ ~poolHeld'
      BY <1>2, <3>1, <3>2, <3>3, <3>4 DEF SystemNext, systemVars, vars, clientVars, DropHandle,
         DropPool, HandlesStay, CloseQueue, Shutdown, JoinAll, TryJoinAll, TryJoinFails, Answers,
         StartJoin, Send, SendClosed, Return, Refuse, CancelSubmission, Moves, QueueDropped
    <3>. QED BY <3>1, <3>5 DEF QueueAlive, Working
  <2>. QED BY <2>1, <2>2 DEF DroppedStep
<1>. QED BY <1>1, <1>2

\* A job is published by its call or never, taken once, and dropped from a queue only when
\* nobody could still enqueue to it or take it.
THEOREM JobsGoOneWay == SystemSpec => OneWay
<1>1. ClientInv /\ [SystemNext]_systemVars => [TakenStep]_vars
  BY SystemStep, PoolStep DEF ClientInv
<1>2. ClientInv /\ [SystemNext]_systemVars => [DroppedStep]_systemVars
  BY DroppedStepHolds
<1>3. ClientInv /\ [SystemNext]_systemVars => [LateStep]_systemVars
  BY LateStepHolds
<1>4. TakenOnce <=> [][TakenStep]_vars
  BY DEF TakenOnce, TakenStep
<1>5. DroppedForGood <=> [][DroppedStep]_systemVars
  BY DEF DroppedForGood, DroppedStep
<1>6. NoLateJob <=> [][LateStep]_systemVars
  BY DEF NoLateJob, LateStep
<1>. QED
  BY <1>1, <1>2, <1>3, <1>4, <1>5, <1>6, ClientInvariant, PTL DEF SystemSpec, OneWay

=============================================================================
