-------------------------- MODULE StreamJob_proof --------------------------
(***************************************************************************)
(* Proofs about the streaming job, its result's future and the promise it  *)
(* keeps, for any number of callers and items and any capacity.            *)
(***************************************************************************)
EXTENDS StreamJob, JobStream_proof

(* The future: what has become of the receiver is known from the calls.    *)

\* A call waits for the receiver.
Awaited == \E c \in Callers : call[c] = "awaiting"

\* A call is over, one way or the other.
SomeOver == \E c \in Callers : call[c] \in {"ended", "cancelled"}

FutureInv ==
    /\ FutureTypeOK
    /\ \A c, d \in Callers : call[c] = "awaiting" /\ call[d] = "awaiting" => c = d
    /\ Awaited <=> receiver = "taken"
    /\ receiver = "dropped" => closed \/ SomeOver
    /\ closed => receiver = "dropped"
    /\ channel = "value" <=> setter = "used" /\ receiver # "dropped"
    /\ \A c \in Callers :
           /\ answer[c] = "value" => receiver = "dropped" /\ setter = "used"
           /\ answer[c] # "none" => call[c] = "ended"
    /\ AnswersTrue

LEMMA FutureInitInv == FutureInit => FutureInv
BY DEF FutureInit, FutureInv, FutureTypeOK, AnswersTrue, Awaited, SomeOver

LEMMA CallStep ==
    ASSUME FutureInv, NEW c \in Callers, CallResult(c) \/ CallClose(c)
    PROVE  FutureInv'
BY DEF FutureInv, FutureTypeOK, AnswersTrue, Awaited, SomeOver, CallResult, CallClose

LEMMA FindClosedStep ==
    ASSUME FutureInv, NEW c \in Callers, FindClosed(c)
    PROVE  FutureInv'
<1>1. closed \/ \E d \in Callers \ {c} : call[d] \in {"ended", "cancelled"}
  BY DEF FutureInv, FutureTypeOK, FindClosed, Unlocked, Awaited, SomeOver
<1>. QED
  BY <1>1 DEF FutureInv, FutureTypeOK, AnswersTrue, Awaited, SomeOver, FindClosed, End

LEMMA TakeReceiverStep ==
    ASSUME FutureInv, NEW c \in Callers, TakeReceiver(c)
    PROVE  FutureInv'
BY DEF FutureInv, FutureTypeOK, AnswersTrue, Awaited, SomeOver, TakeReceiver, Unlocked

LEMMA ReceiveStep ==
    ASSUME FutureInv, NEW c \in Callers, Receive(c)
    PROVE  FutureInv'
<1>1. setter = "used" /\ \A d \in Callers : answer[d] # "value"
  BY DEF FutureInv, FutureTypeOK, Receive
<1>. QED
  BY <1>1 DEF FutureInv, FutureTypeOK, AnswersTrue, Awaited, SomeOver, Receive, End

LEMMA ReceiveNothingStep ==
    ASSUME FutureInv, NEW c \in Callers, ReceiveNothing(c)
    PROVE  FutureInv'
<1>1. setter = "dropped" /\ \A d \in Callers : answer[d] # "value"
  BY DEF FutureInv, FutureTypeOK, ReceiveNothing, Awaited
<1>. QED
  BY <1>1 DEF FutureInv, FutureTypeOK, AnswersTrue, Awaited, SomeOver, ReceiveNothing, End

LEMMA CloseFutureStep ==
    ASSUME FutureInv, NEW c \in Callers, CloseFuture(c)
    PROVE  FutureInv'
BY DEF FutureInv, FutureTypeOK, AnswersTrue, Awaited, SomeOver, CloseFuture, Unlocked

LEMMA CancelCallStep ==
    ASSUME FutureInv, NEW c \in Callers, CancelCall(c)
    PROVE  FutureInv'
<1>1. CASE call[c] = "awaiting"
  BY <1>1 DEF FutureInv, FutureTypeOK, AnswersTrue, Awaited, SomeOver, CancelCall
<1>2. CASE call[c] # "awaiting"
  BY <1>2 DEF FutureInv, FutureTypeOK, AnswersTrue, Awaited, SomeOver, CancelCall
<1>. QED BY <1>1, <1>2

LEMMA SetterStep ==
    ASSUME FutureInv, SetResult \/ DropSetter
    PROVE  FutureInv'
BY DEF FutureInv, FutureTypeOK, AnswersTrue, Awaited, SomeOver, SetResult, DropSetter

LEMMA CallerStep ==
    ASSUME FutureInv, NEW c \in Callers, CallerNext(c)
    PROVE  FutureInv' /\ UNCHANGED setter
<1>1. FutureInv'
  BY CallStep, FindClosedStep, TakeReceiverStep, ReceiveStep, ReceiveNothingStep,
     CloseFutureStep, CancelCallStep DEF CallerNext
<1>. QED
  BY <1>1 DEF CallerNext, CallResult, CallClose, FindClosed, TakeReceiver, Receive,
     ReceiveNothing, CloseFuture, CancelCall

LEMMA FutureStutters == ASSUME FutureInv, UNCHANGED futureVars PROVE FutureInv'
BY DEF FutureInv, FutureTypeOK, AnswersTrue, Awaited, SomeOver, futureVars

-----------------------------------------------------------------------------
(* The job.  Inv says how its place decides the outcome, and what it still  *)
(* holds of the items it made.                                              *)

Inv ==
    /\ TypeOK /\ FutureInv /\ ResultIsOutcome
    /\ outcome[Stream] # "none" <=> job \in {"completed", "failed"}
    /\ job = "sending" => made[Stream] # 0
    /\ Stream \notin Left =>
           /\ job \in {"queued", "polling", "breaking"} => made[Stream] = Len(Sent[Stream])
           /\ job = "sending" => made[Stream] = Len(Sent[Stream]) + 1

\* A step of the promise, or none.
PromiseStep == [Promise!Next]_(Promise!vars)

LEMMA OnlyStream == Stream \in Streams /\ \A s \in Streams : s = Stream
BY OneStream

LEMMA InitInv == Init => Inv /\ Promise!Init
<1>. SUFFICES ASSUME Init PROVE Inv /\ Promise!Init
  OBVIOUS
<1>1. FutureInv
  BY FutureInitInv DEF Init
<1>2. StreamTypeOK /\ Left = {}
  BY StreamAssumption DEF Init, StreamInit, StreamTypeOK, Left
<1>3. Sent = [s \in Streams |-> <<>>]
  <2>1. <<>> \o <<>> = <<>>
    BY ConcatEmptySeq
  <2>. QED BY <1>2, <2>1 DEF Sent, Init, StreamInit
<1>4. Promise!Init
  BY <1>2, <1>3 DEF Promise!Init, Sent, Init, StreamInit
<1>. QED
  BY <1>1, <1>2, <1>3, <1>4, OnlyStream
     DEF Init, StreamInit, FutureInit, Inv, TypeOK, ResultIsOutcome, FutureInv

\* What a step leaves alone of the stream, the promise does not see.
LEMMA StreamStutters ==
    ASSUME Inv, UNCHANGED streamVars
    PROVE  StreamTypeOK' /\ Left' = Left /\ Sent' = Sent /\ PromiseStep
<1>1. Left' = Left /\ Sent' = Sent
  BY DEF streamVars, Left, Sent
<1>. QED
  BY <1>1 DEF Inv, TypeOK, streamVars, StreamTypeOK, PromiseStep, Promise!vars, Sent

LEMMA StartStep == ASSUME Inv, Start \/ StreamEnds PROVE Inv' /\ PromiseStep
<1>1. StreamTypeOK' /\ Left' = Left /\ Sent' = Sent /\ PromiseStep /\ FutureInv'
  BY StreamStutters, FutureStutters DEF Start, StreamEnds, Inv
<1>. QED
  BY <1>1 DEF Inv, TypeOK, ResultIsOutcome, Over, Connected, Start, StreamEnds, streamVars,
     futureVars, FutureInv

LEMMA YieldStep == ASSUME Inv, Yield PROVE Inv' /\ PromiseStep
<1>1. Left' = Left /\ Sent' = Sent
  BY DEF Yield, Left, Sent
<1>2. StreamTypeOK' /\ made' = [made EXCEPT ![Stream] = @ + 1] /\ made[Stream] < MaxItems
  BY OnlyStream, StreamAssumption DEF Yield, MakeItem, Inv, TypeOK, StreamTypeOK
<1>3. FutureInv'
  BY FutureStutters DEF Yield, Inv
<1>4. Promise!Make(Stream)
  BY <1>1, <1>2 DEF Yield, Inv, Promise!Make, Promise!Undecided, Sent
<1>5. PromiseStep
  BY <1>4, OnlyStream DEF PromiseStep, Promise!Next
<1>6. made[Stream] \in Nat /\ made'[Stream] = made[Stream] + 1
  BY <1>2, OnlyStream DEF Inv, TypeOK, StreamTypeOK
<1>. QED
  BY <1>1, <1>2, <1>3, <1>5, <1>6 DEF Inv, TypeOK, ResultIsOutcome, Over, Connected, Yield,
     futureVars, FutureInv

LEMMA SendStep == ASSUME Inv, Send PROVE Inv' /\ PromiseStep
<1>1. made[Stream] \in 1 .. MaxItems
  BY OnlyStream, StreamAssumption DEF Send, Inv, TypeOK, StreamTypeOK
<1>2. /\ buffer' \in [Streams -> Seq(1 .. MaxItems)] /\ Left' = Left
      /\ Stream \in Left => Sent' = Sent
      /\ Stream \notin Left => Sent' = [Sent EXCEPT ![Stream] = Append(@, made[Stream])]
  BY <1>1, OnlyStream, PushSends DEF Send, Inv, TypeOK
<1>3. FutureInv'
  BY FutureStutters DEF Send, Inv
<1>4. StreamTypeOK'
  BY <1>2 DEF Send, Inv, TypeOK, StreamTypeOK
<1>5. Stream \notin Left => Len(Sent'[Stream]) = Len(Sent[Stream]) + 1
  <2>1. Sent[Stream] \in Seq(1 .. MaxItems)
    BY OnlyStream, SentType DEF Inv, TypeOK
  <2>2. Len(Append(Sent[Stream], made[Stream])) = Len(Sent[Stream]) + 1
    BY <1>1, <2>1, AppendProperties
  <2>. QED BY <1>2, <2>2, OnlyStream DEF Sent
<1>6. outcome[Stream] = "none"
  BY DEF Send, Inv
<1>7. PromiseStep
  <2>1. CASE Stream \in Left
    BY <1>2, <2>1 DEF Send, PromiseStep, Promise!vars, Sent
  <2>2. CASE Stream \notin Left
    <3>1. Promise!Accept(Stream)
      BY <1>2, <1>6, <2>2 DEF Send, Inv, Promise!Accept, Sent
    <3>. QED BY <3>1, OnlyStream DEF PromiseStep, Promise!Next
  <2>. QED BY <2>1, <2>2
<1>. QED
  BY <1>1, <1>2, <1>3, <1>4, <1>5, <1>6, <1>7, OnlyStream DEF Inv, TypeOK, ResultIsOutcome, Over,
     Connected, Send, futureVars, FutureInv

LEMMA SendFailsStep == ASSUME Inv, SendFails PROVE Inv' /\ PromiseStep
<1>1. StreamTypeOK' /\ Left' = Left /\ Sent' = Sent /\ PromiseStep /\ FutureInv'
  BY StreamStutters, FutureStutters DEF SendFails, Inv
<1>2. Stream \in Left
  BY OnlyStream DEF SendFails, Connected, Left
<1>. QED
  BY <1>1, <1>2 DEF Inv, TypeOK, ResultIsOutcome, Over, Connected, SendFails, streamVars,
     futureVars, FutureInv

\* Complete and Panic: the outcome, its future and the promise in one step.
LEMMA OutcomeStep == ASSUME Inv, Complete \/ Panic PROVE Inv' /\ PromiseStep
<1>. DEFINE o == IF job = "breaking" THEN "ok" ELSE "panic"
<1>1. Finish({Stream}, o) /\ shut' \in [Streams -> BOOLEAN] /\ o \in Outcomes
  BY DEF Complete, Panic, SetTerminal, Outcomes
<1>2. outcome[Stream] = "none" /\ SetResult
  BY DEF Inv, Complete, Panic, TellResult
<1>3. o = "ok" => \A s \in {Stream} : s \in Left \/ made[s] = Len(Sent[s])
  BY DEF Inv
<1>4. /\ outcome' \in [Streams -> Outcomes \cup {"none"}]
      /\ Promise!Settle({Stream}, o) /\ Left' = Left /\ Sent' = Sent
  BY <1>1, <1>3, OnlyStream, FinishSettles DEF Complete, Panic, Inv, TypeOK
<1>5. FutureInv' /\ setter' = "used" /\ outcome'[Stream] = o
  BY <1>1, <1>2, SetterStep, OnlyStream DEF Inv, SetResult, Finish
<1>6. StreamTypeOK'
  BY <1>1, <1>4 DEF Complete, Panic, Inv, TypeOK, StreamTypeOK
<1>7. PromiseStep
  BY <1>1, <1>4, OnlyStream DEF PromiseStep, Promise!Next
<1>8. Inv'
  BY <1>4, <1>5, <1>6 DEF Inv, TypeOK, ResultIsOutcome, Over, Complete, Panic, FutureInv
<1>. QED BY <1>7, <1>8

LEMMA LoseStep == ASSUME Inv, Lose PROVE Inv' /\ PromiseStep
<1>1. StreamTypeOK' /\ Left' = Left /\ Sent' = Sent /\ PromiseStep
  BY StreamStutters DEF Lose
<1>2. outcome[Stream] = "none"
  BY DEF Lose, Inv
<1>3. CASE Connected(Stream)
  BY <1>1, <1>2, <1>3, FutureStutters DEF Lose, Inv, TypeOK, ResultIsOutcome, Over, Connected,
     streamVars, futureVars, FutureInv
<1>4. CASE ~Connected(Stream)
  <2>1. FutureInv' /\ setter' = "dropped"
    BY <1>2, <1>4, SetterStep DEF Lose, Unowned, Inv, DropSetter
  <2>. QED
    BY <1>1, <1>2, <1>4, <2>1 DEF Lose, Inv, TypeOK, ResultIsOutcome, Over, Connected,
       streamVars, FutureInv
<1>. QED BY <1>3, <1>4

-----------------------------------------------------------------------------
(* The handle. *)

LEMMA TakeItemStep == ASSUME Inv, TakeItem PROVE Inv' /\ PromiseStep
<1>1. StreamTypeOK' /\ Promise!Take(Stream) /\ Sent' = Sent
  BY OnlyStream, TakeRefines DEF TakeItem, Inv, TypeOK
<1>2. FutureInv' /\ Left' = Left
  BY FutureStutters DEF TakeItem, Take, Inv, Left
<1>3. PromiseStep
  BY <1>1, OnlyStream DEF PromiseStep, Promise!Next
<1>. QED
  BY <1>1, <1>2, <1>3 DEF Inv, TypeOK, ResultIsOutcome, Over, Connected, TakeItem, Take,
     futureVars, FutureInv

LEMMA LeaveStreamStep == ASSUME Inv, LeaveStream PROVE Inv' /\ PromiseStep
<1>1. StreamTypeOK' /\ Promise!Leave(Stream, DropError) /\ Stream \in Left'
  BY OnlyStream, LeaveRefines DEF LeaveStream, Inv, TypeOK
<1>2. FutureInv' /\ DropError = "none" /\ UNCHANGED outcome
  BY FutureStutters, OneStream DEF LeaveStream, Leave, Inv
<1>3. PromiseStep
  BY <1>1, <1>2, OnlyStream DEF PromiseStep, Promise!Next
<1>4. Connected(Stream) /\ Connected(Stream)'
  BY OnlyStream DEF Connected, LeaveStream, Leave, Inv, TypeOK, StreamTypeOK
<1>. QED
  BY <1>1, <1>2, <1>3, <1>4 DEF Inv, TypeOK, ResultIsOutcome, Over, LeaveStream, Leave,
     futureVars, FutureInv

LEMMA DroppingStep == ASSUME Inv, Dropping \/ HangUpStream PROVE Inv' /\ PromiseStep
<1>1. StreamTypeOK' /\ UNCHANGED Promise!vars /\ Left' = Left /\ Sent' = Sent
  BY OnlyStream, DropRefines DEF Dropping, HangUpStream, Inv, TypeOK
<1>2. UNCHANGED <<made, outcome, job, split>>
  BY DEF Dropping, CloseSignal, HangUpStream, HangUp
<1>3. FutureInv'
  BY FutureStutters, SetterStep DEF Dropping, HangUpStream, Unowned, Inv
<1>4. ResultIsOutcome'
  <2>1. CASE Dropping
    BY <1>2, <2>1, OnlyStream DEF Dropping, CloseSignal, futureVars, ResultIsOutcome, Over,
       Connected, Inv, TypeOK, StreamTypeOK
  <2>2. CASE HangUpStream
    <3>1. ~Connected(Stream)'
      BY <2>2, OnlyStream DEF HangUpStream, HangUp, Connected, Inv, TypeOK, StreamTypeOK
    <3>. QED
      BY <1>2, <2>2, <3>1 DEF HangUpStream, Unowned, DropSetter, futureVars, ResultIsOutcome,
         Over, Inv
  <2>. QED BY <2>1, <2>2
<1>5. Inv'
  BY <1>1, <1>2, <1>3, <1>4 DEF Inv, TypeOK, FutureInv
<1>. QED BY <1>1, <1>5 DEF PromiseStep

LEMMA HandleStep ==
    ASSUME Inv, Split \/ \E c \in Callers : Caller(c)
    PROVE  Inv' /\ PromiseStep
<1>1. StreamTypeOK' /\ Left' = Left /\ Sent' = Sent /\ PromiseStep
  BY StreamStutters DEF Split, Caller
<1>2. FutureInv' /\ UNCHANGED setter
  BY FutureStutters, CallerStep DEF Split, Caller, futureVars, Inv
<1>. QED
  BY <1>1, <1>2 DEF Inv, TypeOK, ResultIsOutcome, Over, Connected, Split, Caller, streamVars,
     FutureInv

LEMMA NextStep == ASSUME Inv, [Next]_vars PROVE Inv' /\ PromiseStep
<1>1. CASE UNCHANGED vars
  <2>1. StreamTypeOK' /\ Left' = Left /\ Sent' = Sent /\ PromiseStep /\ FutureInv'
    BY <1>1, StreamStutters, FutureStutters DEF vars, Inv
  <2>. QED
    BY <1>1, <2>1 DEF vars, Inv, TypeOK, ResultIsOutcome, Over, Connected, streamVars,
       futureVars, FutureInv
<1>. QED
  BY <1>1, StartStep, YieldStep, SendStep, SendFailsStep, OutcomeStep, LoseStep, TakeItemStep,
     LeaveStreamStep, DroppingStep, HandleStep DEF Next, JobNext

\* Inv is an invariant of the streaming job.
THEOREM Invariance == Spec => []Inv
<1>1. Init => Inv
  BY InitInv
<1>2. Inv /\ [Next]_vars => Inv'
  BY NextStep
<1>. QED BY <1>1, <1>2, PTL DEF Spec

\* The result's future and the stream agree at every moment: there is an outcome exactly
\* when the setter was used, no caller is told a value that was not set, nor two callers
\* the same one, nor FutureClosed without a cause.
THEOREM ResultAgrees == Spec => []ResultSound
<1>1. Inv => ResultSound
  BY DEF Inv, FutureInv, ResultSound
<1>. QED BY <1>1, Invariance, PTL

\* After close() nobody gets a value.
THEOREM CloseIsFinal == Spec => ClosedIsFinal
<1>. DEFINE Safe == closed => \A c \in Callers : answer'[c] = "value" => answer[c] = "value"
<1>1. ASSUME FutureInv, NEW c \in Callers, CallerNext(c) PROVE Safe
  BY <1>1 DEF FutureInv, FutureTypeOK, Awaited, CallerNext, CallResult, CallClose, FindClosed,
     TakeReceiver, Receive, ReceiveNothing, CloseFuture, CancelCall, End
<1>2. ASSUME UNCHANGED answer PROVE Safe
  BY <1>2
<1>3. ASSUME Inv, [Next]_vars PROVE [Safe]_futureVars
  <2>1. ASSUME NEW c \in Callers, Caller(c) PROVE Safe
    BY <1>1, <1>3, <2>1 DEF Inv, Caller
  <2>2. JobNext \/ TakeItem \/ Split \/ LeaveStream \/ Dropping \/ HangUpStream
        \/ UNCHANGED vars => UNCHANGED answer
    BY DEF JobNext, Start, Yield, Send, SendFails, StreamEnds, Complete, Panic, Lose, TellResult,
       Unowned, SetResult, DropSetter, TakeItem, Split, LeaveStream, Dropping, HangUpStream,
       futureVars, vars
  <2>. QED BY <1>2, <1>3, <2>1, <2>2 DEF Next
<1>. QED BY <1>3, Invariance, PTL DEF Spec, ClosedIsFinal

\* A streaming job keeps the promise made to the consumer of its stream.
THEOREM Implementation == Spec => ImplementsPromise
<1>1. Init => Promise!Init
  BY InitInv
<1>2. Inv /\ [Next]_vars => [Promise!Next]_(Promise!vars)
  BY NextStep DEF PromiseStep
<1>. QED BY <1>1, <1>2, Invariance, PTL DEF Spec, Promise!Spec, ImplementsPromise

\* So the consumer of a streaming job has its items in order and without gaps, Ok only
\* after all of them were sent, and one outcome that stays.
THEOREM PromiseKept ==
    Spec => []Promise!InOrder /\ []Promise!OkMeansAll /\ Promise!OutcomeIsFinal
BY Implementation, ItemsInOrder, OkIsComplete, FirstOutcomeWins DEF ImplementsPromise

=============================================================================
