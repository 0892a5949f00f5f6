----------------------------- MODULE StreamJob -----------------------------
(***************************************************************************)
(* A streaming job and its handle: StreamJob::execute, job.rs of           *)
(* src/crates/jobq-core/src, JobStreamHandle and the JobFuture of its      *)
(* result, future.rs.                                                      *)
(*                                                                         *)
(* The setter of the result's future lives in the lifecycle, which the job *)
(* and the JobStream share: finishing the lifecycle uses it, and it is     *)
(* dropped unused only when both are gone without an outcome.  Of the      *)
(* window of such a job nothing is left to see: it is sealed from birth    *)
(* and has one member, Stream.                                             *)
(***************************************************************************)
EXTENDS JobStream, JobFuture

CONSTANT Stream

ASSUME OneStream == Streams = {Stream} /\ DropError = "none"

VARIABLES
    job,        \* where StreamJob::execute is
    split       \* the handle was split into its two parts

vars == <<streamVars, futureVars, job, split>>

TypeOK ==
    /\ StreamTypeOK
    /\ FutureTypeOK
    /\ job \in {"queued", "polling", "sending", "breaking", "completed", "failed", "lost"}
    /\ split \in BOOLEAN

Init ==
    /\ StreamInit
    /\ FutureInit
    /\ job = "queued"
    /\ split = FALSE

Over == job \in {"completed", "failed", "lost"}

-----------------------------------------------------------------------------
(* StreamJob::execute *)

\* ready, seal, and the task's stream.
Start ==
    /\ job = "queued" /\ job' = "polling"
    /\ UNCHANGED <<streamVars, futureVars, split>>

\* stream.next() yields an item, an Ok or an Err alike, and send begins.
Yield ==
    /\ job = "polling" /\ job' = "sending"
    /\ MakeItem(Stream)
    /\ UNCHANGED <<capacity, buffer, got, consumer, outcome, shut, futureVars, split>>

\* Mutant of Send: a full channel is no reason to wait.
SendAnyway ==
    /\ job = "sending" /\ Connected(Stream)
    /\ buffer' = IF HasRoom(Stream) THEN [buffer EXCEPT ![Stream] = Append(@, made[Stream])]
                                    ELSE buffer
    /\ job' = IF IsOpen(Stream) THEN "polling" ELSE "breaking"
    /\ UNCHANGED <<capacity, made, got, consumer, outcome, shut, futureVars, split>>

\* There is room; then `all deliveries closed' ends the loop.  A Drop that begins
\* between the two is seen as if it had begun before: its channel loses the item.
Send ==
    /\ job = "sending" /\ Connected(Stream) /\ HasRoom(Stream)
    /\ Push(Stream, made[Stream])
    /\ job' = IF IsOpen(Stream) THEN "polling" ELSE "breaking"
    /\ UNCHANGED <<capacity, made, got, consumer, outcome, shut, futureVars, split>>

\* Mutant of SendFails: a sender that waits for room does not see the receiver go.
SendFailsEmpty ==
    /\ job = "sending" /\ ~Connected(Stream) /\ got[Stream] # <<>>
    /\ job' = "breaking"
    /\ UNCHANGED <<streamVars, futureVars, split>>

\* The receiver is gone: send fails and the loop ends.
SendFails ==
    /\ job = "sending" /\ ~Connected(Stream)
    /\ job' = "breaking"
    /\ UNCHANGED <<streamVars, futureVars, split>>

\* stream.next() is None.
StreamEnds ==
    /\ job = "polling" /\ job' = "breaking"
    /\ UNCHANGED <<streamVars, futureVars, split>>

\* The outcome reaches the result's future with the claim.
TellResult == IF outcome[Stream] = "none" THEN SetResult ELSE UNCHANGED futureVars

\* Mutant of Complete: the outcome is kept from the result's future.
CompleteSilently ==
    /\ job = "breaking" /\ job' = "completed"
    /\ SetTerminal({Stream}, "ok")
    /\ UNCHANGED <<capacity, made, buffer, got, consumer, futureVars, split>>

\* delivery.complete(Ok(())), after which the deliveries are dropped.
Complete ==
    /\ job = "breaking" /\ job' = "completed"
    /\ SetTerminal({Stream}, "ok") /\ TellResult
    /\ UNCHANGED <<capacity, made, buffer, got, consumer, split>>

\* The task's execute, or its stream, panics: complete(Err).
Panic ==
    /\ job = "polling" /\ job' = "failed"
    /\ SetTerminal({Stream}, "panic") /\ TellResult
    /\ UNCHANGED <<capacity, made, buffer, got, consumer, split>>

\* The setter goes unused with the last of the lifecycle's owners.
Unowned == IF outcome[Stream] = "none" THEN DropSetter ELSE UNCHANGED futureVars

\* The job is dropped in the queue or at an await: the queue was dropped, or the
\* worker aborted.
Lose ==
    /\ job \in {"queued", "polling", "sending"} /\ job' = "lost"
    /\ IF Connected(Stream) THEN UNCHANGED futureVars ELSE Unowned
    /\ UNCHANGED <<streamVars, split>>

JobNext ==
    \/ Start \/ Yield \/ Send \/ SendFails \/ StreamEnds \/ Complete \/ Panic \/ Lose

-----------------------------------------------------------------------------
(* JobStreamHandle *)

Calling == \E c \in Callers : call[c] \in {"result", "close", "awaiting"}

\* result() borrows the handle while taking an item, splitting and dropping need it
\* for themselves; once it is split the two parts are independent.
Exclusive == split \/ ~Calling

TakeItem == Take(Stream) /\ Exclusive /\ UNCHANGED <<futureVars, job, split>>

Split ==
    /\ ~split /\ ~Calling /\ consumer[Stream] = "here"
    /\ split' = TRUE
    /\ UNCHANGED <<streamVars, futureVars, job>>

LeaveStream ==
    /\ Exclusive
    /\ Leave(Stream)
    /\ UNCHANGED <<futureVars, job, split>>

Dropping ==
    /\ CloseSignal(Stream)
    /\ UNCHANGED <<futureVars, job, split>>

\* The JobStream lets go of the lifecycle last.
HangUpStream ==
    /\ HangUp(Stream)
    /\ IF Over THEN Unowned ELSE UNCHANGED futureVars
    /\ UNCHANGED <<job, split>>

\* close() belongs to the JobFuture and needs it split off.
Caller(c) ==
    /\ CallerNext(c)
    /\ split \/ (consumer[Stream] = "here" /\ call'[c] # "close")
    /\ UNCHANGED <<streamVars, job, split>>

Next ==
    \/ JobNext
    \/ TakeItem \/ Split \/ LeaveStream \/ Dropping \/ HangUpStream
    \/ \E c \in Callers : Caller(c)

Spec == Init /\ [][Next]_vars

\* A worker takes the job up, and the executor polls what can go on: the job while it
\* is not waiting for its task's stream, a Drop, a call that is not dropped.  Nothing
\* makes the task go on, nor the consumer take an item.
FairSpec ==
    /\ Spec
    /\ WF_vars(Start) /\ WF_vars(Send) /\ WF_vars(SendFails) /\ WF_vars(Complete)
    /\ WF_vars(Dropping) /\ WF_vars(HangUpStream)
    /\ \A c \in Callers :
           /\ WF_vars(FindClosed(c) /\ Caller(c)) /\ WF_vars(TakeReceiver(c) /\ Caller(c))
           /\ WF_vars(Receive(c) /\ Caller(c)) /\ WF_vars(ReceiveNothing(c) /\ Caller(c))
           /\ WF_vars(CloseFuture(c) /\ Caller(c))

-----------------------------------------------------------------------------

\* The result of the stream follows its lifecycle: there is an outcome exactly if the
\* setter was used, and while one of its owners is left the setter is not dropped.
ResultIsOutcome ==
    /\ outcome[Stream] # "none" <=> setter = "used"
    /\ setter = "dropped" => Over /\ ~Connected(Stream)

\* The result's future and the stream agree, and callers are told the truth.
ResultSound == TypeOK /\ AnswersTrue /\ ResultIsOutcome

InProgress(c) == call[c] \in {"result", "close", "awaiting"}

\* A call of result() or close() returns once the job is over, unless the job was lost
\* and the JobStream, kept, keeps the setter.
ResultReturns ==
    \A c \in Callers : InProgress(c) /\ Over ~>
        ~InProgress(c) \/ (job = "lost" /\ Connected(Stream))

\* future.rs:446, JobStreamHandle::result: "Awaits the terminal outcome of the stream."
\* On a handle that was not split, it returns when the job is over.
ResultEnds == \A c \in Callers : InProgress(c) /\ Over /\ ~split ~> ~InProgress(c)

\* A job that waits for room in the channel of a consumer who has gone does not wait
\* for ever, and its worker is free again.
BlockedSendReleased == job = "sending" /\ ~Connected(Stream) ~> Over

=============================================================================
