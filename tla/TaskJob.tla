------------------------------ MODULE TaskJob ------------------------------
(***************************************************************************)
(* Job::execute of src/crates/jobq-core/src/job.rs: what happens to the    *)
(* members of a sealed window.  The batch runs in rounds; a round executes *)
(* every input left, then goes through inputs, deliveries and results in   *)
(* step, delivering each result or keeping its member for the next round.  *)
(* A single job is the batch of one (executable.rs, Single).               *)
(***************************************************************************)
EXTENDS Integers, Sequences

CONSTANTS
    N,          \* how many members the window held
    RetryBound  \* the largest max_retries a member was enqueued with

ASSUME SizeAssumption == N \in Nat /\ RetryBound \in Nat

Member == 1 .. N

\* What one execution says of one input: its output, its task error, or the
\* size mismatch or panic shared by the whole execution.
Kind == {"ok", "task", "mismatch", "panic"}

\* A result, with the input it was computed for.
Result == [of : Member, kind : Kind]

NoResult == [of |-> 0, kind |-> "none"]

VARIABLES
    phase,          \* where Job::execute is
    limit,          \* JobDelivery.max_retries of each member
    attempts,       \* JobDelivery.attempts
    inputs,         \* inputs of this round, each the member it came from
    deliveries,     \* the deliveries going with them
    results,        \* what the last execution returned
    next,           \* the position the loop over the three has reached
    retryInputs,    \* retry_inputs
    retryDeliveries,\* retry_deliveries
    status,         \* the status the job will end with
    runs,           \* how many executions each member was in
    received        \* what each member's future received

vars == <<phase, limit, attempts, inputs, deliveries, results, next,
          retryInputs, retryDeliveries, status, runs, received>>

loopVars == <<limit, attempts, status, received>>

TypeOK ==
    /\ phase \in {"executing", "settling", "finished", "dropped"}
    /\ limit \in [Member -> Nat]
    /\ attempts \in [Member -> Nat]
    /\ inputs \in Seq(Member)
    /\ deliveries \in Seq(Member)
    /\ results \in Seq(Result)
    /\ next \in Nat \ {0}
    /\ retryInputs \in Seq(Member)
    /\ retryDeliveries \in Seq(Member)
    /\ status \in {"Completed", "Failed"}
    /\ runs \in [Member -> Nat]
    /\ received \in [Member -> Result \cup {NoResult}]

\* ready and seal have returned: the loop is entered unless the window was empty.
Init ==
    /\ phase = IF N = 0 THEN "finished" ELSE "executing"
    /\ limit \in [Member -> 0 .. RetryBound]
    /\ attempts = [m \in Member |-> 0]
    /\ inputs = [i \in 1 .. N |-> i]
    /\ deliveries = [i \in 1 .. N |-> i]
    /\ results = <<>>
    /\ next = 1
    /\ retryInputs = <<>>
    /\ retryDeliveries = <<>>
    /\ status = "Completed"
    /\ runs = [m \in Member |-> 0]
    /\ received = [m \in Member |-> NoResult]

-----------------------------------------------------------------------------

InRound(m) == \E i \in DOMAIN inputs : inputs[i] = m

\* The executor returns one result per input.
PerInput == \E k \in [DOMAIN inputs -> {"ok", "task"}] :
                results' = [i \in DOMAIN inputs |-> [of |-> inputs[i], kind |-> k[i]]]

\* It fails as a whole, returns the wrong number of results, or panics: every
\* input gets a clone of the same error.
Shared(k) == results' = [i \in DOMAIN inputs |-> [of |-> inputs[i], kind |-> k]]

\* executor().execute(&inputs).catch_unwind().await
Execute ==
    /\ phase = "executing"
    /\ PerInput \/ \E k \in {"task", "mismatch", "panic"} : Shared(k)
    /\ runs' = [m \in Member |-> IF InRound(m) THEN runs[m] + 1 ELSE runs[m]]
    /\ phase' = "settling"
    /\ next' = 1
    /\ retryInputs' = <<>>
    /\ retryDeliveries' = <<>>
    /\ UNCHANGED <<loopVars, inputs, deliveries>>

\* Mutant of Retries: one attempt too few.
RetriesEarly(d) == attempts[d] + 2 < limit[d]

\* JobDelivery::retry.
Retries(d) == attempts[d] + 1 < limit[d]

\* One turn of the loop: a task error with attempts left goes to the next round,
\* anything else is delivered; set_result keeps the first value it is given.
Settle ==
    /\ phase = "settling"
    /\ next <= Len(inputs)
    /\ LET d == deliveries[next]
           r == results[next]
       IN  /\ attempts' = [attempts EXCEPT ![d] = IF r.kind = "task" THEN @ + 1 ELSE @]
           /\ IF r.kind = "task" /\ Retries(d)
              THEN /\ retryInputs' = Append(retryInputs, inputs[next])
                   /\ retryDeliveries' = Append(retryDeliveries, d)
                   /\ UNCHANGED <<status, received>>
              ELSE /\ status' = IF r.kind = "ok" THEN status ELSE "Failed"
                   /\ received' = [received EXCEPT ![d] = IF @ = NoResult THEN r ELSE @]
                   /\ UNCHANGED <<retryInputs, retryDeliveries>>
    /\ next' = next + 1
    /\ UNCHANGED <<phase, limit, inputs, deliveries, results, runs>>

RoundOver == phase = "settling" /\ next > Len(inputs)

\* Mutants of EndRound: the deliveries are not exchanged with the inputs; the
\* members kept are forgotten; everyone is executed again; the loop has no end.
EndRoundInputsOnly ==
    /\ RoundOver
    /\ inputs' = retryInputs
    /\ phase' = IF retryInputs = <<>> THEN "finished" ELSE "executing"
    /\ UNCHANGED <<loopVars, deliveries, results, next, retryInputs, retryDeliveries, runs>>
EndRoundForgetting ==
    /\ RoundOver
    /\ phase' = "finished"
    /\ UNCHANGED <<loopVars, inputs, deliveries, results, next, retryInputs,
                   retryDeliveries, runs>>
EndRoundAll ==
    /\ RoundOver
    /\ phase' = IF retryInputs = <<>> THEN "finished" ELSE "executing"
    /\ UNCHANGED <<loopVars, inputs, deliveries, results, next, retryInputs,
                   retryDeliveries, runs>>
EndRoundForever ==
    /\ RoundOver
    /\ inputs' = retryInputs
    /\ deliveries' = retryDeliveries
    /\ phase' = "executing"
    /\ UNCHANGED <<loopVars, results, next, retryInputs, retryDeliveries, runs>>

\* The loop is over: another round for the members kept, or the end.
EndRound ==
    /\ RoundOver
    /\ inputs' = retryInputs
    /\ deliveries' = retryDeliveries
    /\ phase' = IF retryInputs = <<>> THEN "finished" ELSE "executing"
    /\ UNCHANGED <<loopVars, results, next, retryInputs, retryDeliveries, runs>>

\* The worker's future is dropped while the execution is pending: the setters go
\* with it, and every future not answered yet reports FutureClosed.
DropJob ==
    /\ phase = "executing"
    /\ phase' = "dropped"
    /\ UNCHANGED <<loopVars, inputs, deliveries, results, next, retryInputs,
                   retryDeliveries, runs>>

Done == phase \in {"finished", "dropped"} /\ UNCHANGED vars

Next == Execute \/ Settle \/ EndRound \/ DropJob \/ Done

Spec == Init /\ [][Next]_vars

\* An execution ends, one way or another, and the loop goes on.
FairSpec == Spec /\ WF_vars(Execute) /\ WF_vars(Settle) /\ WF_vars(EndRound)

-----------------------------------------------------------------------------

\* max_retries counts attempts, and zero still executes once (README.md:170).
Allowed(m) == IF limit[m] = 0 THEN 1 ELSE limit[m]

\* Nobody receives the result of another member's input, however many members
\* left the batch in earlier rounds.
OwnResult == \A m \in Member : received[m] # NoResult => received[m].of = m

\* No member is executed more often than its own limit allows, whatever the
\* limits of the members it shares its rounds with.
AttemptsBounded == \A m \in Member : runs[m] <= Allowed(m)

\* A task error is reported only when all the attempts are used up.
AllAttemptsUsed ==
    \A m \in Member : received[m].kind = "task" => runs[m] = Allowed(m)

\* Every budget is kept and used.
AttemptsSound == TypeOK /\ AttemptsBounded /\ AllAttemptsUsed

\* When the job is over every member has been answered, and the status says
\* whether one of them failed.
EndsAnswered ==
    phase = "finished" =>
        /\ \A m \in Member : received[m] # NoResult
        /\ status = "Completed" <=> \A m \in Member : received[m].kind = "ok"

\* A member that was answered is not executed again, and one that is executed
\* again failed each earlier time with a task error.
RetriesOnly ==
    [][\A m \in Member : runs'[m] > runs[m] =>
           received[m] = NoResult /\ attempts[m] = runs[m]]_vars

\* The rounds come to an end.
Ends == <>(phase \in {"finished", "dropped"})

=============================================================================
