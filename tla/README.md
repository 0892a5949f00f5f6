# A TLA+ model of jobq-rs

jobq is an in-process job queue for async Rust: tasks are enqueued, a pool of
workers executes them, and the caller gets a future (or a stream) of the result.
Tasks can be enqueued one by one or gathered into batches by a *batcher*, and can
be retried.  Everything runs in one process; nothing is persisted.  What can go
wrong is the interleaving of callers, workers and the futures they may drop at
any await point.

This directory holds TLA+ models of the crate `jobq-core` (`src/crates/jobq-core/src`,
called `core/` below), the TLC configurations that check them, and TLAPS proofs.
`PROJECT.json` is the machine-readable index: components, runs, the source lines
each definition stands for, the mutants every property was tried against, the
hazards and the theorems.

    tlc -workers 2 -config BatchWindow.cfg MCBatchWindow
    tlapm BatchWindow_proof.tla

## 1. The system

| Component | Source | State | Operations | Model |
|---|---|---|---|---|
| Batch window, batcher | `core/batch/window.rs`, `core/batch/task.rs` | slot (window, admission, options) under a mutex; window (inputs, deliveries, sealed) under its own; the `full` event; the admission, a shared future with strong and weak references | `join`, `accept`, `abandon`, `evict`, `push`, `close`, `ready`, `seal`, Drop of the admission, `Batcher::enqueue` | `BatchWindow`, `BatchPromise` |
| Job execution, retries | `core/job.rs` 23-80, 250-334, `core/executable.rs` | the round's inputs, deliveries and results; attempts and limit of each member; status | `Job::execute`, `JobDelivery::retry/deliver` | `TaskJob` |
| FIFO queue | `core/queue/fifo.rs` | bounded mpsc channel, `Option<Sender>`, receiver mutex, atomic `length`, `closed` | `enqueue`, `dequeue`, `len`, `close` | `FifoQueue`, `QueuePromise` |
| LIFO and priority queue | `core/queue/lifo.rs`, `priority.rs` | deque or heap under a mutex, `event`, `closed`, `length`, `idx_counter` | `enqueue`, `dequeue`, `len`, `close` | `EventQueue`, `QueuePromise` |
| Worker, worker pool | `core/worker.rs` | one shutdown event per worker; the worker's place in its loop | `run`, `shutdown`, abort of the spawned pool | `WorkerPool` |
| JobQueue facade, handles, builders | `core/job.rs` 500-786, `core/builder.rs` | strong and weak references to the queue | `enqueue_job` and its siblings, `close`, `downgrade`, `upgrade`, drop, `build` | `JobSystem` |
| JobFuture, setters, future sets | `core/future.rs` 200-313, 468-522 | one-shot channel, its receiver under an async mutex, `closed` | `result`, `close`, `set_result`, drop; `join_all`, `try_join_all` | `JobFuture`, `JobSystem` |
| Stream lifecycle, handles | `core/future.rs` 22-198, 316-466 | `CompletionState`, close signal, item channel | `set_terminal`, `send`, `try_send`, `next`, `split`, drop | `JobStream`, `StreamPromise` |
| Streaming job | `core/job.rs` 49-91, 325-420 | its place in `execute`, its delivery | `StreamJob::execute` | `StreamJob` |
| Stream batch job, modes | `core/job.rs` 427-493, `core/batch/stream/*` | members, closures, the count of those left | `StreamBatchJob::execute`, `Multiplexed::run`, `Independent::run` | `StreamBatch`; the batcher itself reuses `WindowSlot`, and its joins are those of `BatchWindow` |
| Task and executable traits, errors, `jobq` facade | `core/task.rs`, `executable.rs`, `error.rs`, `jobq/src/lib.rs` | none | adapters, re-exports | not modelled |

How they interact.  `Batcher::enqueue` joins a window; the call that opens one
submits its job through `JobQueue::enqueue` to one of the three queues.  A worker
races its shutdown event against `dequeue_job`; the job it gets waits for its
window (`ready`: sealed, or `max_wait` over), seals it and executes the members in
rounds; each member's result goes through its `JobFuture`.  A streaming job sends items
through a bounded channel to a `JobStream` and ends it with one terminal outcome, which is
also the value of a `JobFuture<()>`; a stream batch does so for several consumers at once.
The queue lives as long as a client's `JobQueue` or a worker does, and takes the jobs in it
along.  A caller or a worker may drop any of these futures at an await.

What is hard:

- the slot's mutex, the admission's reference count and the queue's answer are three
  clocks; the last owner of an admission decrements the count *before* its Drop clears
  the slot, and answers of old windows arrive when new ones are in the slot;
- events have no memory: `notify` reaches only the listeners registered at that moment
  (window `ready`, LIFO and priority `dequeue`, worker `shutdown`);
- items are visible to consumers before their `enqueue` has returned (FIFO), and counters
  are updated apart from the data they count;
- a batch shrinks from round to round while three parallel vectors stay aligned;
- a stream has several owners and several parties that may end it; a consumer's Drop has
  three steps that others see one by one;
- a batch of streams must end with its last member and neither before nor after, while
  members leave, lag, finish and fail one by one;
- cancellation at every await, abort of the worker pool, `close` at any time.

What makes each component correct: a member is in exactly one batch and a caller's
`Ok`/`Err` tells the truth about it (window); everyone gets their own result after
exactly their own number of attempts (job); an accepted item is handed out once, in
the promised order, and nobody sleeps beside one (queues); a dequeued job has one
worker, and shutdown stops workers (pool); an accepted job's future resolves, or the queue is
still there for a worker to come (system); a stream's items come in order, and its first
outcome is the one that everybody sees (streams); a member's fate is its own (stream
batches).  The list of hazards, each at its line, is
in `PROJECT.json`.

## 2. The modules

### BatchWindow

Granularity: an action is the code between two points where another thread can see
a difference.  `join` holds the slot mutex from its first to its last statement and is
one action in four alternatives: `JoinEmpty`, `JoinReplacing` (other options, or an
orphaned admission), `JoinSealed` (the worker sealed the window since), `JoinOpen`.
`submit()` runs under the mutex too and only builds a future.  After the mutex the
caller drops the admission `join` discarded (`Discard`) and then awaits its own: `Answer`
is the shared future's result, `Cancel` the caller dropping its future.

References: `Strong(w)` is the set of calls that own a reference to w's admission, that
is, what `Weak::upgrade` sees.  `Discard`, `Answer` and `Cancel` give a reference back; if
it was the last, `dropping` is set and `RunDrop` runs the Drop as a *separate* step: a
join in between sees a dead weak reference in a slot that still holds the window
(`Orphaned`).  The submission advances only while someone polls it (`Polled`): `Submit` is
the queue publishing the item, `Accept` the queue's `Ok` followed by `slot.accept`,
`Reject` its `Err` followed by `slot.evict`.  Between `Submit` and `Accept` a worker may
already have dequeued and even run the job, which the FIFO queue allows.  The worker is
`Dequeue` (takes the job and registers `ready`'s listener), `Park`, and one of `FindSealed`,
`Wake` and `Timeout`, each ending in `Seal`.

Left out: values of inputs, the clock (`Timeout` may happen whenever the worker is
parked), the batcher's weak handles, which touch no window.  `Cancel` before the first
poll is a call that never happened.  Each call enqueues one member, and a window is
named after the call that opened it.

### BatchPromise

The abstract specification: calls form groups, a group gets one verdict (admitted,
refused, withdrawn when nobody waits any more), and runs as one batch; a late call may
enter a group only with equal options, while there is room and before it runs or is
refused, and is told `Ok` at once if the group is admitted.  `BatchWindow` implements it
with `group <- joined` and the verdict read off the admission; slot, references, drops,
seals and wake-ups map to stuttering.  What a caller may conclude from it is stated there:
a batch is a whole group (`WholeGroup`), Ok and Err tell the group's verdict
(`ToldTheVerdict`), verdicts and batches are final (`DecidedOnce`).

### TaskJob

`Job::execute` from the moment `seal` returned N members, each with its own
`max_retries`.  `Execute` lets the executor answer each input with a value or a task
error, or fail as a whole: a task error, a wrong number of results, a panic.  `Settle` is
one turn of the loop over `inputs`, `deliveries` and `results`; `EndRound` exchanges the
vectors with the retry vectors.  `DropJob` is the worker being dropped in the middle of an
execution.  A result carries the member its input came from, which is what lets
`OwnResult` see a misalignment.  A single (unbatched) job is N = 1.

### FifoQueue

The bounded `futures::channel::mpsc` is external and modelled by what `fifo.rs` uses: every
`enqueue` sends through a fresh clone, the message goes in at once, and the sender parks if
the channel holds more than `max_capacity` messages.  `enqueue` is `CheckClosed`, `Clone`,
`Send`, `Flush`, `CountIn`; `dequeue` is `Lock`, `Receive`, `CountOut` or `End`; `close` is
`TakeSender`, `ZeroLength`, `SetClosed`.  `Cancel` drops an enqueue at an await (a parked one
leaves its item in the channel), `Forget` drops a dequeue, as a worker's `select!` does when it
chooses shutdown.  `length` counts modulo `Usize`, the number of values a `usize` has.  `earlier` is a history
variable: the calls that had returned when each call was made.  `AnswersTrue` is what
callers are told: `EnqueueTrue`, and `NoneIsFinal` for a dequeue's `None`.

### EventQueue

LIFO and priority queue in one module, `kind` chosen initially: they differ in what `Pop`
takes and in the counters.  `event_listener` is external: registration is immediate,
`notify(n)` counts the listeners already notified, a dropped notified listener passes its
notification on.  `dequeue` is `LookAtClosed`, then `Drain` (closed) or `Take`, `FindNothing`,
`Listen`, `Wake`; `FindNothing` releases the lock and `Listen` registers afterwards, two
steps as in the source.  `IsTop` says which item `Pop` takes, `NextInLine` whom a notification
goes to.  `missed` and `earlier` are history variables: a notification was wasted, and the calls
that had returned when each call was made.  `NoSleeperBeside` is what the event is for: unless a
notification was wasted, an accepted item is never left to consumers that all sleep.

`NextInLine` and `DropListener` follow a non-additional `notify`: a dropped listener hands its
notification on unless another listener is notified already.

### What `len()` says

Both queue modules state it twice.  `LenTrue` is what `queue/traits.rs:31` says: the number of items
currently in the queue, asked for only when no call is between the container and the counter.  It is
false of the code, see section 4.  `LenSettled` is what is true: the same equation (modulo `usize`) *before*
`close`, and for the FIFO while no parked sender has been dropped, however receives overtook the counting
in of what they received.  Nothing corrects the counter in the property; what is wrong is left wrong.

### QueuePromise

What a queue promises, for `FifoQueue` and for both kinds of `EventQueue`: calls are made
(`Call`), put their item in (`Publish`), `Return` the truth or are dropped (`Drop`); `Take` hands out
an item that no waiting item must precede (`GoesFirst`: by the order of the *calls*, since two
enqueues that overlap may enter either way round).  The channel, its capacity, the event, the
counters and `close` are not in it.  The queues map to it with `Answer`, which reads a call's state
off `pc`, and `Place`, which says where its item is: `CheckClosed` is `Call`, `Send` or the push is
`Publish`, the steps that end an enqueue are `Return`, `Receive` or `Drain`/`Take` is `Take`, all
else stutters.  `InOrder` and `Truthful` are the consequences a user is after.

### WorkerPool

`JobWorker::run` as `Listen`, then `TakeJob`, `Continue` (dequeue returned `None`), `Break` or `Pend`
(neither branch is ready); `FinishJob` ends an execution.  `WorkerPool::run` is a `join_all`, so all workers
are futures of one task: `polled` is the worker whose poll is going on, from where it was waiting to where it
waits again, and the others' steps (`Turn`) and `Abort` are possible only in between.  `Continue` awaits
nothing, so it keeps `polled`: a worker on a closed, empty queue goes from `Listen` to `Continue` and
back inside one poll, unless a shutdown reaches it or the queue's lock is `Contended` by another
worker's dequeue.  `Signal` is `event.notify` of one worker, in any order,
`ShutdownReturns` the end of the call, `Abort` the spawned pool being aborted, `DropQueue` the last
reference to the queue going away with the jobs in it.  The queue is reduced to what
`dequeue_job` returns; that a dequeue which is dropped takes no item with it is checked where dequeue has
its steps, in `FifoQueue` and `EventQueue` (`Forget`).

### JobSystem

EXTENDS `WorkerPool` with what `QueueSystemBuilder::build` hands to a client: `handle` and
`poolHeld` say what the client still has, `QueueAlive` whether `Weak::upgrade` finds the queue.
A submission is `Send` or `SendClosed`, then `Publish` and `Return`, or `Refuse`: the queues publish before
their `enqueue` returns (a FIFO call may be parked with its job in the queue), hence the caller may
drop the call before or after (`CancelSubmission`), and close may come in between.
`Finish` gives a job's result, an Err or not; a dropped job's setter makes its future say
`FutureClosed`.  `JobFutureSet` is joined with `join_all`, which answers `results`, good or bad, or
`try_join_all`, which answers `values`, or `err` at the first Err.

### JobFuture

`result` takes the mutex, then the receiver, and *keeps the mutex* while it awaits; `close`
needs the mutex.  `CallResult`/`CallClose` wait for it (`Unlocked`), `FindClosed`, `TakeReceiver`,
`Receive`, `ReceiveNothing` and `CloseFuture` are the parts between the awaits, and `CancelCall` drops
a call at either, with the receiver if it holds it.  The oneshot channel is external.

### JobStream and StreamPromise

`JobStream` has the operations of a stream's two ends and no next-state relation of its own
(`Sent` and `Left` are what its consumer will get and who has gone, read off the channel):
`SetTerminal` (the first outcome is claimed, and the close signal follows), `Push` and `HasRoom`
(the channel: one sender has at most `capacity` items in it, since the buffer is one smaller
and the sender may park with one more), `Connected`, `IsOpen`, and the consumer: `Take` an
item, or `Leave`, `CloseSignal` and `HangUp`, the three steps of the Drop of a `JobStream`: it claims
the outcome (if `DropError` names one), then closes the signal, then drops the receiver.
An item is its number.

`StreamPromise` is what a consumer is promised: items in order and without gaps, none held back
when another is made, one outcome that never changes, and Ok only if everything made was
sent.  The channel, the signal and the steps of a Drop are not in it.

### StreamJob

`StreamJob::execute` on one stream: `Start`, `Yield` (the task's stream has an item), `Send` or
`SendFails`, `StreamEnds`, then `Complete` or `Panic`, and `Lose`, the job dropped in the queue or at an
await.  The result's setter lives in the lifecycle, which the job *and* the `JobStream` own:
`Unowned` drops it with the last of them.  `Caller` are calls of `result` on the handle, or of
`result` and `close` on the future after `Split`.

### StreamBatch

`StreamBatchJob::execute` with both modes.  The job is one future, so what it does between two
awaits is one step; the poll of the task's stream (`PollProducer`, `PollPrepare`) and the handling
of what it yielded are two, because a consumer may leave in between.  The biased select polls
`closures` first: `PollProducer` needs `Ready = {}`.  Multiplexed: `TakeClosure`, `RouteItem` (with the lag
that cuts a member off), `RouteToLeaver`, `RouteFinished`, `IgnoreEvent`, `ProducerEnds`,
`ProducerPanics`, `YieldNow` after `RouteBudget` turns.  Independent: `Depart` while `prepare` runs,
`PrepareSucceeds`, `PrepareFails`, and one `run_member` per stream from `BeginMember` to
`MemberReturns`.  `Conclude` is `fail_unfinished` and the status.

## 3. Runs

| Run | Instance | What it shows |
|---|---|---|
| `window` | 3 calls, 2 option values, `max_size` 2, `MCSpec` | members, answers, slot and wake-ups are sound, no window is evicted by another's answer; refines `BatchPromise`; every waiting call returns, every accepted member is handed to an execution |
| `task_job` | 3 members, limits 0..3, `FairSpec` | own result, attempts exactly as allowed, everyone answered, the loop ends |
| `fifo` | 3 items, 2 consumers, capacity 1, `Usize` 8, `MCSpec` | answers are true, `None` is final, backpressure, no stranded sender, `len` before close; refines `QueuePromise`; accepted items arrive, parked enqueues return, close releases consumers |
| `event_queue` | 2 items, 2 consumers, 2 priorities, `FairSpec` | answers, nobody sleeps beside an item, `len` before close, a closed queue drains; items are stranded only by the two named races; refines `QueuePromise` |
| `workers` | 2 jobs, 2 workers, 1 shutdown, `MCSpec` | one worker per job, submissions and joins are answered truly, jobs go one way, futures resolve unless a worker spins for ever |
| `stream_job` | 1 stream, 3 items, capacities 0..3 with a channel limit of 2, 2 callers, `FairSpec` | the result is the outcome, close is final, calls return, a blocked send is released; refines `StreamPromise` |
| `stream_batch` | 2 streams, 2 items each, capacity 1, budget 2, `FairSpec` | members are counted and settled, faults and slowness are local, an abandoned batch ends; refines `StreamPromise` |
| `fifo_len`, `priority_len`, `event_queue_lost`, `workers_shutdown`, `stream_lost` | smallest instance that shows it | the findings below |

Several properties are conjunctions of named parts (`AnswersTrue` of the window is
`OkIsQueued`, `ErrNeverRuns` and `CancelIsLocal`; `CapacityHolds` is `Backpressure` and
`NoneStranded`; and so on); every module's type invariant is part of one of them.

Bounds.  Three calls are one to open a window, one to join it and one to replace it or to
race with the drop; with windows of two both ways of closing (full, replaced) occur.  Sizes 0
and 1, whose windows are sealed at birth, are left to `MembersFit`: the proofs cover every number of calls and every size.  Three members and limits up to 3 give
rounds that lose the first, a middle or the last member, and limits 0 and 1, which both mean one
attempt.  Capacity 1 with three items has one item stored, and two senders parked on the places after it; a
counter with eight values (`Usize`) is wide enough not to overflow upwards and narrow enough that a wrap
below zero is visible.  Two consumers are needed for handing a notification or a mutex over.
`MaxShutdowns` bounds the calls of `shutdown`.  Two jobs and two workers have one job executing
while another is queued, dropped or taken by the second worker, and a `try_join_all` whose first
error comes with another future open.  Capacities 0 to 3 with a limit of 2 have the
two that are refused (too small, too large) and the two that are not; three items fill a channel
of two and leave one waiting.  Two streams are one that leaves, lags or fails and one that
must not notice; a budget of 2 is used up in the middle of a batch.  `MaxItems` bounds the
items of a stream, `MaxBuffer` stands for `usize::MAX >> 2`, `RouteBudget` for `ROUTE_BUDGET`.  The proofs
cover every value of these constants.

Calls, jobs, workers and consumers are alike.  Where that matters for the size, the MC module looks at the
behaviours in one canonical order of the names (`InOrder` in `MCBatchWindow`, `MCFifoQueue` and
`MCJobSystem`) instead of a SYMMETRY, which would not be sound for the liveness properties these runs check.
Every behaviour is one of those after renaming, and every property treats the names alike, so nothing is
lost; no fairness condition is weakened, for what the order forbids is something (making a call, being
dropped, taking a shutdown) that nobody is obliged to do, or that happens under the other name.

Every call is made at most once and tasks may pend for ever, so the queue, pool and stream
models stop when all has been done: `CHECK_DEADLOCK FALSE` there.  `BatchWindow` and `TaskJob` name
their final states (`Terminated`, `Done`), so a deadlock anywhere else is an error.

The liveness properties of the window, the FIFO and the pool say of *all* calls together "if some wait, a state comes
where none does", which is the same as each of them returning when a call is made at most once and never
waits again, and is far cheaper to check.

Fairness.  The executor polls what is woken, locks are released, workers keep dequeuing (`run` is a
loop), executions end, `max_wait` is finite.  It is stated per call: an enqueue's next step, *whichever it
is*, has weak fairness; so has a window's worker.  A consumer of the FIFO has strong fairness of its steps: consumers
compete for a mutex that is granted in turn.  A worker in `JobSystem` has strong fairness of its next
step, whichever branch its `select!` takes (the choice is random, and nothing prefers shutdown): `join_all`
comes back to a worker whose turn comes again and again.  But nothing makes the worker that is being polled
wait: on a closed, empty queue it may spin for ever, and then it is never another's turn.
`FuturesResolve` is about behaviours in which that does not happen for ever (`~<>[]Spinning`), see section 4.
In `StreamJob` and `StreamBatch` nothing makes a task yield, end or panic, nor a
consumer take an item or leave; once it has begun, a Drop goes to its end.  A multiplexed
producer and `prepare` may pend for ever (`AbandonedEnds` is about just that); of the streams of an
independent batch it is assumed that each goes on, for `SlowIsLocal` is about the others'
consumers.  Nothing forces a caller to enqueue, cancel, close or shut down, nor a consumer to be
dropped.

## 4. Findings

- `fifo_len`: `close` of the FIFO queue zeroes its counter with items inside (`fifo.rs:103`), and each
  dequeue then decrements it below zero (`fifo.rs:91`), so `len()` is first 0 and then near `usize::MAX`, for
  good; an enqueue dropped while it is parked leaves an item that is never counted (`fifo.rs:73-76`).
  `queue/traits.rs:31, 34` promise the number of items and its being zero.
- `priority_len`: a closed priority queue is drained without counting (`priority.rs:112-117`): `len()` stays what it
  was, and `is_empty()` never becomes true.
- `event_queue_lost`: `dequeue` of the LIFO and priority queues registers its listener after it
  released the lock (`lifo.rs:80-81`, `priority.rs:126-127`); an enqueue in between notifies nobody
  and the consumer sleeps beside the item.  `OnlyWasteStrands` shows that this, and a woken consumer
  dropped before it gets the lock, are the only ways to strand an item.
- `workers_shutdown`: the shutdown event has no memory (`worker.rs:75-78, 87`); a signal sent
  while the worker executes, or that loses the `select!`, is gone and the worker never stops.
- `stream_lost`: a streaming job that is dropped without an outcome (worker aborted, queue dropped)
  drops its sender but not the setter of the result, which lives in the lifecycle that the handle's
  own `JobStream` shares (`future.rs:437-441`): `handle.result()` (`future.rs:446-449`) never returns.
  `ResultReturns` shows that this is the only way a call of `result` or `close` waits for ever once the
  job is over: after `split`, dropping the `JobStream` releases it.

One hazard is documented by a condition of a property, not by a run of its own: **a spinning worker**.
All workers are polled by one `join_all` (`worker.rs:140-148`), and on a closed, empty queue `_ => continue`
(`worker.rs:79`) goes round without awaiting anything.  A worker that does so keeps the task: a sibling in the
middle of a job is not polled again, so that job's future does not resolve, and the task cannot be aborted.
`FuturesResolve` holds with the exemption `~<>[]Spinning` and fails without it, with exactly this
behaviour: w1 executes j1, the queue is closed, w2 goes round `Listen`, `Continue` for ever.
So `shutdown` before or soon after `close` is needed for the pool to be well.

## 5. Proofs

Eight modules.  Each theorem below holds for every value of the constants that the modules'
named assumptions allow (finite sets where something is counted, bounds in Nat, "nobody"
not a member); no other assumption is made.

`BatchWindow_proof` proves the runs' safety properties (`MembersFit`, `AnswersSound`, `SlotAlive`,
`WakeupKept`, `NoEviction`), `SharedOptions`, and that the specification implements
`BatchPromise!Spec`.  None of the properties is inductive.  The invariant is
`Inv == ControlInv /\ SizeBound /\ Room`:

- `Starts`, `Windows`, `Jobs`: which combinations of `pc`, `joined`, `outcome`, `adm` and `job` exist;
  `OkIsQueued` and `ErrNeverRuns` follow from `Jobs` and `Outcomes`;
- `Slot`: the state kept in the slot's entry is that of its window's admission, so `accept` and `evict`
  never leave a stale entry;
- `Owners`: a pending admission has an owner or a Drop under way, and never both.  With `Slot` this is
  `SlotSound`, and it is what makes the gap between the count reaching zero and `abandon` harmless;
- `Outcomes`, `CancelIsLocal`: answers agree with the admission; a withdrawn admission has only
  cancelled calls.  `Owners` is needed again: `RunDrop` cancels only what nobody owns;
- `Room`: an unsealed window has room, which is what `SizeBound` needs when `JoinOpen` adds a member;
  a separate lemma about cardinalities, with a window of one sealed at birth.

There is one lemma per action, under it one step per conjunct.  `NoLostWakeup` is proved with its own
induction relative to `ControlInv`.  The refinement proof maps each action to a step of `BatchPromise`
or to a stutter; `GroupsKept` proves of the abstract batcher what its callers may conclude.

`TaskJob_proof` proves `AttemptsSound`, `OwnResult`, `EndsAnswered` and `RetriesOnly`.  The invariant adds
`InStep` (inputs, deliveries and, while settling, results name the same members at the same
positions, each once), `Executing` and `Settling` (which members are still in the round and how their
attempts compare with their runs), `StatusTells` and `Finished`.

`FifoQueue_proof` proves `AnswersTrue`, `CapacityHolds`, `LengthSound` and the refinement of
`QueuePromise`.  `Holds` says that an item is inside exactly while its enqueue is in a state that
says so, and in one place.  Capacity needs `ParkedAreLast`: the parked senders are, in order, those
of the messages from place `Capacity + 1` on, so a receive moves the boundary by one and unparks
exactly the sender of the message that crosses it.  `LenSettled` speaks of settled moments only and is not inductive: `LenInv` is an equation modulo `Usize`
that holds at every moment before `close` (`LenExact`: the counter plus the calls still to count in is the
channel plus those still to count out), so the proof never asks whether the counter has wrapped; `WrapAdd`
says that the wrapped sum of two sides stays equal when both move alike, `LenMoves` names by how much a
step moves them, and `Side` has what the counting needs besides (one holder of the receiver's mutex,
finite sets).  `LengthExact` concludes for the moments when nobody is in between.  The refinement
rests on `Ordered`: no item at a place in the channel, or behind it, had returned when the call of
that place was made; that is what keeps a consumer's `Receive` in order although clones of the
sender enqueue concurrently.  `FirstInFirstOut` proves of the abstract queue itself that it never
hands out an item before one that had returned when its call was made, and `PromiseKept` composes
the two.

`EventQueue_proof` proves the same of the LIFO and the priority queue: `AnswersAreTrue`, `OrderKept`,
`LengthExact`, the refinement, and `SleepersAreWoken`.  `Places` (an item is in one place exactly
if its call pushed it) and `Numbers` (a call's number is greater than those of all calls that had
returned when it was made, although it is drawn before the lock is taken) give the answers and
`NoOvertaking`; `Ordered` is as above.  `SleepersAreWoken` is the safety core of the lost-wakeup finding:
with `EventSound` (the listeners are the listening consumers, once each; and while nothing was wasted
no accepted item lies there while a consumer is between its look and its `listen`), each `notify(1)`
either finds a notified listener or reaches the next in line, and a listener that is dropped hands its
notification on.  So the two races that set `missed` are the *only* ways to leave an accepted
item to sleepers, whatever the numbers of calls and consumers.

`JobSystem_proof` first shows `SystemRefinesPool`, `SystemSpec => Spec`: a step of the system is a step of
`WorkerPool` or leaves it alone, so the pool's invariant `PoolInv` (a running job and its worker
belong to each other) holds in the system.  `ClientInv` adds the client; its key is that a call on
its way borrows a handle, hence no submission outlives the queue.  It proves `PoolSound`,
`SubmissionsTrue` (Ok means in the queue, an error means never there), `JoinTrue` (`values` only if every
job had one, `err` only if one had not, `results` only if all are resolved) and `OneWay`, which
includes that a call that failed, or was cancelled before its job was published, leaves nothing behind
(`NoLateJob`); `JoinStays`, that resolved futures stay resolved and keep their results, is what lets the
answer stay true after jobs have gone on.

`JobStream_proof` proves of the abstract stream that items come in order (`ItemsInOrder`), Ok means all
(`OkIsComplete`) and the first outcome wins (`FirstOutcomeWins`), and has the lemmas about the channel
that both jobs use.
`StreamJob_proof` and `StreamBatch_proof` show that each job implements `StreamPromise!Spec` with
`sent <- Sent` (what was taken and what is in the channel) and `left <- Left`.  For that
`StreamJob`'s invariant relates the place in `execute` to `made` and `Len(Sent)`, and `FutureInv`
tells from the calls what has become of the receiver; it gives `ResultSound` and
`ClosedIsFinal`.  `StreamBatch` needs two: `Control` (`Settled`: an outcome and the close signal go
together, except that a Drop claims its outcome a moment earlier; `Places`: the count of
closures, and who can be settled where) gives `ClosuresSound`, `EndsSettled` and
`FaultsAreLocal`; `Items`, one item per undecided stream at most is made and not sent, gives the
refinement.

Each refinement is put to use: `PromiseKept`, in the modules of the window, the FIFO queue, the streaming
job and the stream batch, says that the consequences of the abstract specification (`GroupsKept`,
`FirstInFirstOut`, the three of the stream) hold of the detailed one.

Only model-checked: all liveness, since it rests on fairness (`EveryCallReturns`, `EveryOkRuns`, `Ends`,
`EveryItemArrives`, `CallsReturn`, `ClosedDrains`, `FuturesResolve`, `ResultReturns`, `BlockedSendReleased`,
`AbandonedEnds`, `SlowIsLocal`, `OnlyWasteStrands`).  What safety lies under `OnlyWasteStrands` is
proved, see `SleepersAreWoken`.  Every safety property and every refinement that a run checks is
proved.  The type invariants of the modules are conjuncts of the invariants above.

## 6. Not modelled

- *A batched job lost before it seals* (worker aborted in `ready`, queue dropped): its window stays
  accepted in the slot, and later calls join it and are told Ok.  `BatchWindow`'s worker
  always reaches `seal`.  Nothing in the repository says what a batcher promises then, so there is
  no property to check; `JobSystem` and `StreamJob` do model lost jobs.
- *The slot's mutex* as a resource: `join` is one action, and that the discarded admission is dropped
  outside the lock is in the model's shape (`Discard`), not a property of it.
- *How many times* a worker spins on a closed, empty queue a runtime's
  cooperative budget is not modelled: nothing the loop polls (a `mea` mutex, an `mpsc` receiver, an `event_listener`) consults one.
- *Progress of siblings in a multiplexed batch*: which member's event the producer yields next is a free choice
  of the task, so no member is owed an item.  That a lagging member does not hold up the others there is in
  the shape of `RouteItem`: `try_send` never waits, the member is cut off in the same step.
  For independent members, where waiting does exist, `SlowIsLocal` is the liveness property.
- `JobSystem` reduces the queue to a set; that the three queues deliver what they accept is what
  `FifoQueue` and `EventQueue` are about, and batches and streams are not composed with it: their
  jobs are `Jobs` there, and what a lost one does to its consumer is in `StreamJob`.
- The batchers' own strong and weak handles, options, identifiers and look-ups, which
  touch none of the state above; task and executor traits, boxing, error construction and
  formatting, the `jobq` facade crate (re-exports).
- The executor, the mutexes, `oneshot` and `mpsc` channels and `event_listener` are external: modelled
  by what the code uses of them.
