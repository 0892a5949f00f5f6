---------------------------- MODULE StreamBatch ----------------------------
(***************************************************************************)
(* A batch of streams run by one job: StreamBatchJob::execute (job.rs) and *)
(* the two modes of src/crates/jobq-core/src/batch/stream, whose members   *)
(* may leave, lag, finish and fail one by one.                             *)
(*                                                                         *)
(* The whole job is one future, so what it does between two awaits is one  *)
(* step here.  Both modes race the members' closures (FuturesUnordered     *)
(* over closed(), one per member) against the task in a biased select:     *)
(* closures first.  A consumer may leave after the closures were polled    *)
(* and before the task's answer is handled, so the poll and the handling   *)
(* are two steps.                                                          *)
(***************************************************************************)
EXTENDS JobStream, FiniteSets

CONSTANT RouteBudget    \* ROUTE_BUDGET

ASSUME BatchAssumption ==
    /\ IsFiniteSet(Streams) /\ Streams # {}
    /\ DropError = "cancelled"
    /\ RouteBudget \in Nat \ {0}

VARIABLES
    mode,       \* the batch's StreamBatchMode
    job,        \* where the job is
    verdict,    \* the JobStatus run() returns
    fired,      \* the members whose closure has been taken from closures
    remaining,  \* `remaining', or members.len() - closed
    routed,     \* how often the loop went round since it last yielded
    delivery,   \* the members whose delivery is still Some
    member      \* Independent: where each run_member is

vars == <<streamVars, mode, job, verdict, fired, remaining, routed, delivery, member>>

batchVars == <<mode, job, verdict, fired, remaining, routed, delivery, member>>

\* What an independent member touches of the batch.
sharedVars == <<mode, job, verdict, fired, remaining, routed>>

TypeOK ==
    /\ StreamTypeOK
    /\ mode \in {"multiplexed", "independent"}
    /\ job \in {"queued", "select", "event", "preparing", "prepared", "members",
                "returned", "panicked", "ended", "lost"}
    /\ verdict \in {"Running", "Completed", "Failed"}
    /\ fired \in SUBSET Streams
    /\ remaining \in 0 .. Cardinality(Streams)
    /\ routed \in 0 .. RouteBudget
    /\ delivery \in SUBSET Streams
    /\ member \in [Streams -> {"start", "polling", "sending", "returned"}]

Init ==
    /\ StreamInit
    /\ mode \in {"multiplexed", "independent"}
    /\ job = "queued"
    /\ verdict = "Running"
    /\ fired = {}
    /\ remaining = Cardinality(Streams)
    /\ routed = 0
    /\ delivery = Streams
    /\ member = [s \in Streams |-> "start"]

\* StreamBatchMember::is_open
MemberOpen(s) == s \in delivery /\ IsOpen(s)

\* StreamBatchMember::finish, on each of S: only a member with its delivery claims an
\* outcome, and it gives the delivery up.
FinishMembers(S, o) ==
    /\ SetTerminal(S \cap delivery, o)
    /\ delivery' = delivery \ S

Ready == {s \in Streams \ fired : shut[s]}

SomeFailed(out) == \E s \in Streams : out[s] \in Errors

Worst(out) == IF SomeFailed(out) THEN "Failed" ELSE "Completed"

-----------------------------------------------------------------------------
(* StreamBatchJob::execute *)

\* ready, seal, and the first look at the members: if none is open the job is over.
Start ==
    /\ job = "queued"
    /\ IF \E s \in Streams : IsOpen(s)
       THEN /\ job' = IF mode = "multiplexed" THEN "select" ELSE "preparing"
            /\ UNCHANGED <<outcome, shut, verdict>>
       ELSE /\ job' = "ended" /\ verdict' = "Failed"
            /\ SetTerminal(Streams, "cancelled")
    /\ UNCHANGED <<capacity, made, buffer, got, consumer, mode, fired, remaining, routed,
                   delivery, member>>

\* run() has returned: fail_unfinished, and the status.
Conclude ==
    /\ job = "returned" /\ job' = "ended"
    /\ SetTerminal(Streams, "incomplete")
    /\ verdict' = IF verdict = "Failed" \/ SomeFailed(outcome') THEN "Failed" ELSE "Completed"
    /\ UNCHANGED <<capacity, made, buffer, got, consumer, mode, fired, remaining, routed,
                   delivery, member>>

\* run() has panicked: every member without an outcome gets the panic.
ConcludePanic ==
    /\ job = "panicked" /\ job' = "ended"
    /\ verdict' = "Failed"
    /\ SetTerminal(Streams, "panic")
    /\ UNCHANGED <<capacity, made, buffer, got, consumer, mode, fired, remaining, routed,
                   delivery, member>>

\* The job is dropped in the queue or at an await.
Lose ==
    /\ job \in {"queued", "select", "preparing", "members"} /\ job' = "lost"
    /\ UNCHANGED <<streamVars, mode, verdict, fired, remaining, routed, delivery, member>>

-----------------------------------------------------------------------------
(* Multiplexed *)

\* What every turn of the loop changes beside the members.
TurnEnds == routed' = routed + 1 /\ UNCHANGED <<mode, fired, remaining, member>>

\* The budget is used up: the job lets others run and goes on.
YieldNow ==
    /\ job = "select" /\ routed = RouteBudget
    /\ routed' = 0
    /\ UNCHANGED <<streamVars, mode, job, verdict, fired, remaining, delivery, member>>

\* closures.next() has a member: it is gone, whoever closed it.  The loop ends with
\* the last one.
TakeClosure(s) ==
    /\ job = "select" /\ routed < RouteBudget
    /\ s \in Ready
    /\ fired' = fired \cup {s}
    /\ remaining' = remaining - 1
    /\ routed' = routed + 1
    /\ FinishMembers({s}, "cancelled")
    /\ IF remaining = 1 THEN job' = "returned" /\ verdict' = Worst(outcome')
                        ELSE UNCHANGED <<job, verdict>>
    /\ UNCHANGED <<capacity, made, buffer, got, consumer, mode, member>>

\* No closure is ready, and the task's stream is.
PollProducer ==
    /\ job = "select" /\ routed < RouteBudget
    /\ Ready = {}
    /\ job' = "event"
    /\ UNCHANGED <<streamVars, mode, verdict, fired, remaining, routed, delivery, member>>

\* Mutant of RouteItem: a full channel drops the item.
RouteItemLossy(s) ==
    /\ job = "event" /\ MemberOpen(s)
    /\ MakeItem(s)
    /\ IF HasRoom(s) THEN Push(s, made'[s]) ELSE UNCHANGED buffer
    /\ job' = "select"
    /\ TurnEnds
    /\ UNCHANGED <<capacity, got, consumer, outcome, shut, verdict, delivery>>

\* An item for an open member: try_send, and a member that lags behind is cut off.
RouteItem(s) ==
    /\ job = "event" /\ MemberOpen(s)
    /\ MakeItem(s)
    /\ IF HasRoom(s)
       THEN Push(s, made'[s]) /\ UNCHANGED <<outcome, shut, delivery>>
       ELSE FinishMembers({s}, "lag") /\ UNCHANGED buffer
    /\ job' = "select"
    /\ TurnEnds
    /\ UNCHANGED <<capacity, got, consumer, verdict>>

\* An item whose member left after it was seen open: try_send says Closed.
RouteToLeaver(s) ==
    /\ job = "event" /\ s \in delivery /\ consumer[s] # "here"
    /\ FinishMembers({s}, "cancelled")
    /\ job' = "select"
    /\ TurnEnds
    /\ UNCHANGED <<capacity, made, buffer, got, consumer, verdict>>

\* An event for a member that is not open, or for an index out of range.
IgnoreEvent ==
    /\ job = "event" /\ job' = "select"
    /\ TurnEnds
    /\ UNCHANGED <<streamVars, verdict, delivery>>

\* Mutant of RouteFinished: the outcome goes to everyone.
RouteFinishedToAll(s, o) ==
    /\ job = "event" /\ MemberOpen(s)
    /\ FinishMembers(Streams, o)
    /\ job' = "select"
    /\ TurnEnds
    /\ UNCHANGED <<capacity, made, buffer, got, consumer, verdict>>

\* A Finished event for an open member.
RouteFinished(s, o) ==
    /\ job = "event" /\ MemberOpen(s)
    /\ FinishMembers({s}, o)
    /\ job' = "select"
    /\ TurnEnds
    /\ UNCHANGED <<capacity, made, buffer, got, consumer, verdict>>

\* The task's stream is over: everyone left has finished well.
ProducerEnds ==
    /\ job = "event" /\ job' = "returned"
    /\ FinishMembers(Streams, "ok")
    /\ verdict' = Worst(outcome')
    /\ UNCHANGED <<capacity, made, buffer, got, consumer, mode, fired, remaining, routed, member>>

ProducerPanics ==
    /\ job = "event" /\ job' = "panicked"
    /\ UNCHANGED <<streamVars, mode, verdict, fired, remaining, routed, delivery, member>>

MultiplexedNext ==
    \/ YieldNow \/ PollProducer \/ IgnoreEvent \/ ProducerEnds \/ ProducerPanics
    \/ \E s \in Streams :
           \/ TakeClosure(s) \/ RouteItem(s) \/ RouteToLeaver(s)
           \/ \E o \in {"ok", "task"} : RouteFinished(s, o)

-----------------------------------------------------------------------------
(* Independent *)

\* Mutant of Depart: departures during prepare are not counted.
DepartUncounted(s) ==
    /\ job = "preparing"
    /\ s \in Ready
    /\ fired' = fired \cup {s}
    /\ UNCHANGED <<streamVars, mode, job, verdict, remaining, routed, delivery, member>>

\* A member leaves while the task prepares; if it was the last there is nothing to do.
Depart(s) ==
    /\ job = "preparing"
    /\ s \in Ready
    /\ fired' = fired \cup {s}
    /\ remaining' = remaining - 1
    /\ IF remaining = 1 THEN job' = "returned" /\ verdict' = "Failed"
                        ELSE UNCHANGED <<job, verdict>>
    /\ UNCHANGED <<streamVars, mode, routed, delivery, member>>

\* No closure is ready, and prepare is.
PollPrepare ==
    /\ job = "preparing"
    /\ Ready = {}
    /\ job' = "prepared"
    /\ UNCHANGED <<streamVars, mode, verdict, fired, remaining, routed, delivery, member>>

PrepareSucceeds ==
    /\ job = "prepared" /\ job' = "members"
    /\ UNCHANGED <<streamVars, mode, verdict, fired, remaining, routed, delivery, member>>

\* prepare fails or panics: so does everyone.
PrepareFails(o) ==
    /\ job = "prepared" /\ job' = "returned"
    /\ FinishMembers(Streams, o)
    /\ verdict' = "Failed"
    /\ UNCHANGED <<capacity, made, buffer, got, consumer, mode, fired, remaining, routed, member>>

\* run_member returns, after it finished its member.
MemberReturns(s, o) ==
    /\ FinishMembers({s}, o)
    /\ member' = [member EXCEPT ![s] = "returned"]
    /\ UNCHANGED <<capacity, made, buffer, got, consumer, sharedVars>>

At(s, p) == job = "members" /\ member[s] = p

Goes(s, p) == member' = [member EXCEPT ![s] = p] /\ UNCHANGED <<sharedVars, delivery>>

\* The task builds the member's stream, or the member has left by then.
BeginMember(s) ==
    /\ At(s, "start")
    /\ IF MemberOpen(s) THEN Goes(s, "polling") /\ UNCHANGED streamVars
                        ELSE MemberReturns(s, "cancelled")

\* Building the stream, or polling it, panics.
MemberPanics(s) ==
    /\ At(s, "polling") \/ (At(s, "start") /\ MemberOpen(s))
    /\ MemberReturns(s, "panic")

\* An item: send() refuses at once if the member is closed, or begins.
MemberItem(s) ==
    /\ At(s, "polling")
    /\ IF MemberOpen(s)
       THEN /\ MakeItem(s) /\ Goes(s, "sending")
            /\ UNCHANGED <<capacity, buffer, got, consumer, outcome, shut>>
       ELSE MemberReturns(s, "cancelled")

\* Mutant of MemberSends: no member sends while another one's channel is full.
MemberSendsTogether(s) ==
    /\ At(s, "sending") /\ Connected(s)
    /\ \A t \in Streams : HasRoom(t)
    /\ Push(s, made[s])
    /\ Goes(s, "polling")
    /\ UNCHANGED <<capacity, made, got, consumer, outcome, shut>>

\* There is room: the item goes out.
MemberSends(s) ==
    /\ At(s, "sending") /\ Connected(s) /\ HasRoom(s)
    /\ Push(s, made[s])
    /\ Goes(s, "polling")
    /\ UNCHANGED <<capacity, made, got, consumer, outcome, shut>>

\* The receiver is gone.
MemberSendFails(s) ==
    /\ At(s, "sending") /\ ~Connected(s)
    /\ MemberReturns(s, "cancelled")

MemberEnds(s) ==
    /\ At(s, "polling")
    /\ MemberReturns(s, "ok")

\* pending.next() is None.
MembersEnd ==
    /\ job = "members" /\ job' = "returned"
    /\ \A s \in Streams : member[s] = "returned"
    /\ verdict' = Worst(outcome)
    /\ UNCHANGED <<streamVars, mode, fired, remaining, routed, delivery, member>>

MemberNext(s) ==
    \/ BeginMember(s) \/ MemberPanics(s) \/ MemberItem(s) \/ MemberSends(s)
    \/ MemberSendFails(s) \/ MemberEnds(s)

IndependentNext ==
    \/ PollPrepare \/ PrepareSucceeds \/ MembersEnd
    \/ \E o \in {"task", "panic"} : PrepareFails(o)
    \/ \E s \in Streams : Depart(s) \/ MemberNext(s)

-----------------------------------------------------------------------------

Consumer(s) == ConsumerNext(s) /\ UNCHANGED batchVars

Next ==
    \/ Start \/ Conclude \/ ConcludePanic \/ Lose
    \/ MultiplexedNext
    \/ IndependentNext
    \/ \E s \in Streams : Consumer(s)

Spec == Init /\ [][Next]_vars

\* An event the task's stream has yielded, and an outcome of prepare, are handled.
Route ==
    \/ IgnoreEvent \/ ProducerEnds \/ ProducerPanics
    \/ \E s \in Streams :
           \/ RouteItem(s) \/ RouteToLeaver(s)
           \/ \E o \in {"ok", "task"} : RouteFinished(s, o)

HandlePrepare == PrepareSucceeds \/ \E o \in {"task", "panic"} : PrepareFails(o)

\* The executor polls the job where it need not wait for the task or a consumer, and
\* a Drop goes on to its end.  That the streams of an independent batch go on is
\* assumed, too; a multiplexed producer and prepare may pend for ever.
FairSpec ==
    /\ Spec
    /\ WF_vars(Start) /\ WF_vars(Conclude) /\ WF_vars(ConcludePanic)
    /\ WF_vars(YieldNow) /\ WF_vars(Route) /\ WF_vars(HandlePrepare) /\ WF_vars(MembersEnd)
    /\ \A s \in Streams :
           /\ WF_vars(TakeClosure(s)) /\ WF_vars(Depart(s))
           /\ WF_vars(BeginMember(s)) /\ WF_vars(MemberSends(s)) /\ WF_vars(MemberSendFails(s))
           /\ WF_vars(MemberItem(s) \/ MemberEnds(s) \/ MemberPanics(s))
           /\ WF_vars(CloseSignal(s) /\ UNCHANGED batchVars)
           /\ WF_vars(HangUp(s) /\ UNCHANGED batchVars)

-----------------------------------------------------------------------------

\* A batch that ended has settled every member, with nothing left for fail_unfinished to
\* call incomplete, and its status is Failed exactly if some member failed.
EndsSettled ==
    /\ job = "ended" =>
           /\ \A s \in Streams : outcome[s] # "none"
           /\ verdict = Worst(outcome)
    /\ \A s \in Streams : outcome[s] # "incomplete"

\* The loops count the members whose closure is still to come: `closures' is never empty
\* while they wait for one.
ClosuresCounted ==
    job \in {"select", "event", "preparing", "prepared"} =>
        /\ remaining = Cardinality(Streams \ fired)
        /\ remaining > 0

\* The bookkeeping of the loops.
ClosuresSound == TypeOK /\ ClosuresCounted

\* README.md:249-250, 391-397: one member's consumer, lag or panic decides its own
\* stream only, and only for its own cause; the others are decided with it only by what
\* the whole batch shares: the end of a multiplexed producer, a failed prepare, a panic.
FaultsAreLocal ==
    [][LET decided == {s \in Streams : outcome'[s] # outcome[s]}
       IN  /\ \A s \in decided :
                  /\ outcome'[s] = "cancelled" => consumer'[s] # "here"
                  /\ outcome'[s] = "lag" => mode = "multiplexed" /\ Len(buffer[s]) = capacity[s]
           /\ Cardinality(decided) > 1 =>
                  \/ mode = "multiplexed" /\ job'= "returned" /\ \A s \in decided : outcome'[s] = "ok"
                  \/ job \in {"panicked", "prepared"}]_vars

\* A job nobody listens to any more ends: a multiplexed one although its producer may
\* pend for ever, an independent one although prepare may.
AbandonedEnds ==
    /\ Left = Streams
    /\ job \in {"queued", "preparing", "prepared"} \/ (mode = "multiplexed" /\ job # "ended")
    ~> job \in {"ended", "lost"}

\* A slow member of an independent batch never affects its siblings: one whose own
\* consumer makes room or leaves is settled, whatever the other consumers do.
SlowIsLocal ==
    \A s \in Streams :
        []<>(HasRoom(s) \/ ~Connected(s)) =>
            (job = "members" ~> outcome[s] # "none" \/ job = "lost")

=============================================================================
