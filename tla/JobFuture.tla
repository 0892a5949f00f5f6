----------------------------- MODULE JobFuture -----------------------------
(***************************************************************************)
(* JobFuture and JobFutureSetter, src/crates/jobq-core/src/future.rs: a    *)
(* oneshot channel (external) whose receiver sits in an Option behind an   *)
(* async mutex.  result() keeps the mutex while it awaits the receiver it  *)
(* took out; close() waits for the mutex.  JobFutureInner.result is never  *)
(* set, so result() and close() find nothing in it.                        *)
(*                                                                         *)
(* Several callers share one future (&self), each with one call, result()  *)
(* or close(), which may be dropped at its await.                          *)
(***************************************************************************)
EXTENDS Naturals

CONSTANT Callers

VARIABLES
    setter,     \* JobFutureSetter.sender: held, used by set_result, or dropped
    channel,    \* what the oneshot channel holds
    receiver,   \* in the Option, taken by a call of result(), or dropped
    closed,     \* JobFutureInner.closed
    call,       \* where each caller is
    answer      \* what result() returned to each caller

futureVars == <<setter, channel, receiver, closed, call, answer>>

FutureTypeOK ==
    /\ setter \in {"held", "used", "dropped"}
    /\ channel \in {"empty", "value"}
    /\ receiver \in {"inner", "taken", "dropped"}
    /\ closed \in BOOLEAN
    /\ call \in [Callers -> {"idle", "result", "close", "awaiting", "ended", "cancelled"}]
    /\ answer \in [Callers -> {"none", "value", "closed"}]

\* JobFuture::new
FutureInit ==
    /\ setter = "held"
    /\ channel = "empty"
    /\ receiver = "inner"
    /\ closed = FALSE
    /\ call = [c \in Callers |-> "idle"]
    /\ answer = [c \in Callers |-> "none"]

\* The inner mutex is held by the call that awaits the receiver, and by no other
\* across an await.
Unlocked == \A c \in Callers : call[c] # "awaiting"

-----------------------------------------------------------------------------
(* result() and close() *)

CallResult(c) ==
    /\ call[c] = "idle"
    /\ call' = [call EXCEPT ![c] = "result"]
    /\ UNCHANGED <<setter, channel, receiver, closed, answer>>

CallClose(c) ==
    /\ call[c] = "idle"
    /\ call' = [call EXCEPT ![c] = "close"]
    /\ UNCHANGED <<setter, channel, receiver, closed, answer>>

End(c, a) ==
    /\ call' = [call EXCEPT ![c] = "ended"]
    /\ answer' = [answer EXCEPT ![c] = a]

\* The mutex is free: `closed', or the receiver is gone.
FindClosed(c) ==
    /\ call[c] = "result" /\ Unlocked
    /\ closed \/ receiver # "inner"
    /\ End(c, "closed")
    /\ UNCHANGED <<setter, channel, receiver, closed>>

\* receiver.take(), then the await with the mutex held.
TakeReceiver(c) ==
    /\ call[c] = "result" /\ Unlocked
    /\ ~closed /\ receiver = "inner"
    /\ call' = [call EXCEPT ![c] = "awaiting"]
    /\ receiver' = "taken"
    /\ UNCHANGED <<setter, channel, closed, answer>>

\* Mutant of Receive: the receiver goes back into the Option.
ReceiveAgain(c) ==
    /\ call[c] = "awaiting"
    /\ channel = "value"
    /\ End(c, "value")
    /\ receiver' = "inner"
    /\ UNCHANGED <<setter, channel, closed>>

\* The value arrives, or was there: it is handed to this caller.
Receive(c) ==
    /\ call[c] = "awaiting"
    /\ channel = "value"
    /\ End(c, "value")
    /\ receiver' = "dropped"
    /\ channel' = "empty"
    /\ UNCHANGED <<setter, closed>>

\* The sender was dropped unused.
ReceiveNothing(c) ==
    /\ call[c] = "awaiting"
    /\ channel = "empty" /\ setter # "held"
    /\ End(c, "closed")
    /\ receiver' = "dropped"
    /\ UNCHANGED <<setter, channel, closed>>

\* Mutant of CloseFuture: it does not wait for the mutex nor drop the receiver.
CloseFlagOnly(c) ==
    /\ call[c] = "close"
    /\ closed' = TRUE
    /\ call' = [call EXCEPT ![c] = "ended"]
    /\ UNCHANGED <<setter, channel, receiver, answer>>

\* close() has the mutex: the receiver is dropped, with the value if it has come.
CloseFuture(c) ==
    /\ call[c] = "close" /\ Unlocked
    /\ closed' = TRUE
    /\ receiver' = "dropped"
    /\ channel' = "empty"
    /\ call' = [call EXCEPT ![c] = "ended"]
    /\ UNCHANGED <<setter, answer>>

\* The caller drops its call; a receiver it had taken goes with it, and so does a
\* value that has arrived.
CancelCall(c) ==
    /\ call[c] \in {"result", "close", "awaiting"}
    /\ call' = [call EXCEPT ![c] = "cancelled"]
    /\ IF call[c] = "awaiting" THEN receiver' = "dropped" /\ channel' = "empty"
                               ELSE UNCHANGED <<receiver, channel>>
    /\ UNCHANGED <<setter, closed, answer>>

CallerNext(c) ==
    \/ CallResult(c) \/ CallClose(c)
    \/ FindClosed(c) \/ TakeReceiver(c) \/ Receive(c) \/ ReceiveNothing(c)
    \/ CloseFuture(c) \/ CancelCall(c)

-----------------------------------------------------------------------------
(* JobFutureSetter *)

\* set_result, at most once; without a receiver the value is lost.
SetResult ==
    /\ setter = "held"
    /\ setter' = "used"
    /\ channel' = IF receiver = "dropped" THEN "empty" ELSE "value"
    /\ UNCHANGED <<receiver, closed, call, answer>>

DropSetter ==
    /\ setter = "held"
    /\ setter' = "dropped"
    /\ UNCHANGED <<channel, receiver, closed, call, answer>>

FutureNext ==
    \/ \E c \in Callers : CallerNext(c)
    \/ SetResult
    \/ DropSetter

FutureSpec == FutureInit /\ [][FutureNext]_futureVars

-----------------------------------------------------------------------------

\* The value goes to one caller at most, and somebody is told FutureClosed only for a
\* cause: the setter was dropped, the future closed, or another call had taken the
\* receiver, whether it got the value or was cancelled (future.rs 231-249).
AnswersTrue ==
    /\ \A c, d \in Callers : answer[c] = "value" /\ answer[d] = "value" => c = d
    /\ \A c \in Callers : answer[c] = "value" => setter = "used"
    /\ \A c \in Callers : answer[c] = "closed" =>
           \/ setter = "dropped" \/ closed
           \/ \E d \in Callers \ {c} : call[d] \in {"ended", "cancelled"}

\* Nobody gets a value after close() has been executed, although close() neither stops
\* nor outruns a result() that is waiting (future.rs 252-261).
ClosedIsFinal ==
    [][closed => \A c \in Callers : answer'[c] = "value" => answer[c] = "value"]_futureVars

=============================================================================
