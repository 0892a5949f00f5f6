----------------------------- MODULE JobStream -----------------------------
(***************************************************************************)
(* The two ends of a stream of items, src/crates/jobq-core/src/future.rs:  *)
(* StreamLifecycle (CompletionState and CloseSignal), the bounded channel  *)
(* between JobStreamSetter and JobStream (futures mpsc, external), and the *)
(* consumer, who takes items or drops its JobStream at any time.           *)
(*                                                                         *)
(* A module of operations without a next-state relation of its own:        *)
(* StreamJob and StreamBatch are the jobs at the other end.  What such a   *)
(* job does between two awaits is one step; the consumer drops from        *)
(* another thread, and the parts of its Drop are steps of their own.       *)
(*                                                                         *)
(* One sender never has more than `capacity' items in the channel: the     *)
(* buffer is one smaller, and each sender may park with one message more.  *)
(***************************************************************************)
EXTENDS Naturals, Sequences

CONSTANTS
    Streams,
    Capacities,     \* the capacities callers ask for
    MaxBuffer,      \* the channel's buffer is smaller: usize::MAX >> 2
    MaxItems,       \* bounds the items made for one stream
    DropError       \* receiver_drop_error: an outcome, or "none"

VARIABLES
    capacity,   \* of each stream
    made,       \* how many items the job has made for each stream
    buffer,     \* the items in each channel
    got,        \* the items each consumer has taken
    consumer,   \* the consumer of each stream, and how far its Drop is
    outcome,    \* CompletionState.outcome
    shut        \* CloseSignal.closed

streamVars == <<capacity, made, buffer, got, consumer, outcome, shut>>

Outcomes == {"ok", "cancelled", "lag", "task", "panic", "incomplete"}

Errors == Outcomes \ {"ok"}

ASSUME StreamAssumption ==
    /\ Capacities \subseteq Nat /\ MaxBuffer \in Nat /\ MaxItems \in Nat
    /\ DropError \in Errors \cup {"none"}

\* with_lifecycle: the buffer is checked_sub(1) and must be small enough; any other
\* capacity is an error of the call that asked for it, before there is a stream.
ValidCapacity(n) == n >= 1 /\ n - 1 < MaxBuffer

StreamTypeOK ==
    /\ capacity \in [Streams -> {n \in Capacities : ValidCapacity(n)}]
    /\ made \in [Streams -> 0 .. MaxItems]
    /\ buffer \in [Streams -> Seq(1 .. MaxItems)]
    /\ got \in [Streams -> Seq(1 .. MaxItems)]
    /\ consumer \in [Streams -> {"here", "leaving", "closing", "gone"}]
    /\ outcome \in [Streams -> Outcomes \cup {"none"}]
    /\ shut \in [Streams -> BOOLEAN]

\* JobStreamHandle::new
StreamInit ==
    /\ capacity \in [Streams -> {n \in Capacities : ValidCapacity(n)}]
    /\ made = [s \in Streams |-> 0]
    /\ buffer = [s \in Streams |-> <<>>]
    /\ got = [s \in Streams |-> <<>>]
    /\ consumer = [s \in Streams |-> "here"]
    /\ outcome = [s \in Streams |-> "none"]
    /\ shut = [s \in Streams |-> FALSE]

-----------------------------------------------------------------------------
(* StreamLifecycle *)

IsOpen(s) == ~shut[s] /\ outcome[s] = "none"

Failed(s) == outcome[s] \in Errors

\* Mutant of Finish: the last outcome wins.
FinishLast(S, o) == outcome' = [s \in Streams |-> IF s \in S THEN o ELSE outcome[s]]

\* CompletionState::finish: the first outcome wins.
Finish(S, o) ==
    outcome' = [s \in Streams |-> IF s \in S /\ outcome[s] = "none" THEN o ELSE outcome[s]]

\* set_terminal, on each of S: whoever claims the outcome raises the close signal.
SetTerminal(S, o) ==
    /\ Finish(S, o)
    /\ shut' = [s \in Streams |-> shut[s] \/ (s \in S /\ outcome[s] = "none")]

-----------------------------------------------------------------------------
(* JobStreamSetter *)

\* poll_ready would return: the receiver is gone, or there is room.
Connected(s) == consumer[s] # "gone"

HasRoom(s) == Len(buffer[s]) < capacity[s]

\* start_send of the item made last.
Push(s, n) == buffer' = [buffer EXCEPT ![s] = Append(@, n)]

MakeItem(s) == made[s] < MaxItems /\ made' = [made EXCEPT ![s] = @ + 1]

-----------------------------------------------------------------------------
(* JobStream: the consumer *)

\* poll_next
Take(s) ==
    /\ consumer[s] = "here"
    /\ buffer[s] # <<>>
    /\ got' = [got EXCEPT ![s] = Append(@, Head(buffer[s]))]
    /\ buffer' = [buffer EXCEPT ![s] = Tail(@)]
    /\ UNCHANGED <<capacity, made, consumer, outcome, shut>>

\* Drop begins with receiver_dropped, which claims the outcome first if there is an
\* error for that, ...
Leave(s) ==
    /\ consumer[s] = "here"
    /\ consumer' = [consumer EXCEPT ![s] = "leaving"]
    /\ IF DropError = "none" THEN UNCHANGED outcome ELSE Finish({s}, DropError)
    /\ UNCHANGED <<capacity, made, buffer, got, shut>>

\* ... raises the close signal, ...
CloseSignal(s) ==
    /\ consumer[s] = "leaving"
    /\ consumer' = [consumer EXCEPT ![s] = "closing"]
    /\ shut' = [shut EXCEPT ![s] = TRUE]
    /\ UNCHANGED <<capacity, made, buffer, got, outcome>>

\* ... and then the receiver is dropped, with the items in it.
HangUp(s) ==
    /\ consumer[s] = "closing"
    /\ consumer' = [consumer EXCEPT ![s] = "gone"]
    /\ buffer' = [buffer EXCEPT ![s] = <<>>]
    /\ UNCHANGED <<capacity, made, got, outcome, shut>>

ConsumerNext(s) == Take(s) \/ Leave(s) \/ CloseSignal(s) \/ HangUp(s)

-----------------------------------------------------------------------------

Left == {s \in Streams : consumer[s] # "here"}

\* The items a consumer has or can still get.
Sent == [s \in Streams |-> IF s \in Left THEN got[s] ELSE got[s] \o buffer[s]]

Promise == INSTANCE StreamPromise WITH sent <- Sent, left <- Left

\* The job is a StreamPromise: items in order and without gaps, one outcome that never
\* changes, and Ok only with all the items sent.
ImplementsPromise == Promise!Spec

=============================================================================
