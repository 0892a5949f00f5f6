--------------------------- MODULE TaskJob_proof ---------------------------
(***************************************************************************)
(* Proofs about TaskJob for every batch size and every retry limit.        *)
(***************************************************************************)
EXTENDS TaskJob, TLAPS

-----------------------------------------------------------------------------
(* The inductive invariant. *)

Distinct(s) == \A i, j \in DOMAIN s : s[i] = s[j] => i = j

\* m waits for an execution: each one it had failed, and it has attempts left.
Ready(m) ==
    /\ received[m] = NoResult
    /\ attempts[m] = runs[m]
    /\ runs[m] = 0 \/ runs[m] < limit[m]

\* m was in the execution of this round and the loop has not come to it.
Ran(m) ==
    /\ received[m] = NoResult
    /\ runs[m] = attempts[m] + 1
    /\ runs[m] <= Allowed(m)

Left(m) == \E i \in DOMAIN inputs : i >= next /\ inputs[i] = m
Kept(m) == \E i \in DOMAIN retryInputs : retryInputs[i] = m

\* The two vectors of each pair always name the same members, in the same order.
InStep ==
    /\ deliveries = inputs /\ retryDeliveries = retryInputs
    /\ Distinct(inputs) /\ Distinct(retryInputs)

\* Before an execution: the round is made of the members not answered.
Executing ==
    phase = "executing" => \A m \in Member :
        /\ received[m] = NoResult => InRound(m)
        /\ InRound(m) => Ready(m)

\* In the loop: a member not answered is ahead of it, or kept for the next round.
Settling ==
    phase = "settling" =>
        /\ Len(results) = Len(inputs)
        /\ \A i \in DOMAIN inputs : results[i].of = inputs[i]
        /\ \A i \in DOMAIN retryInputs : \E j \in DOMAIN inputs :
               j < next /\ inputs[j] = retryInputs[i]
        /\ \A m \in Member :
               /\ received[m] = NoResult => Left(m) \/ Kept(m)
               /\ Left(m) => Ran(m)
               /\ Kept(m) => Ready(m)

\* The status records the failures delivered so far.
StatusTells ==
    status = "Completed" <=> \A m \in Member : received[m].kind \in {"none", "ok"}

Finished == phase = "finished" => \A m \in Member : received[m] # NoResult

Inv ==
    /\ TypeOK /\ InStep /\ Executing /\ Settling /\ StatusTells /\ Finished
    /\ OwnResult /\ AttemptsBounded /\ AllAttemptsUsed

\* A result answers some member and is never the absence of one.
LEMMA Results ==
    /\ \A r \in Result : r # NoResult /\ r.of \in Member /\ r.kind \in Kind /\ r.kind # "none"
    /\ NoResult.of = 0 /\ NoResult.kind = "none"
BY SizeAssumption DEF Result, NoResult, Member, Kind

\* The invariant holds initially,
LEMMA InitInv == Init => Inv
<1>. SUFFICES ASSUME Init PROVE Inv
  OBVIOUS
<1>1. TypeOK
  BY SizeAssumption DEF Init, TypeOK, Member
<1>2. InStep
  BY DEF Init, InStep, Distinct
<1>3. Executing /\ Settling /\ Finished
  BY SizeAssumption DEF Init, Executing, Settling, Finished, InRound, Ready, Member
<1>4. StatusTells /\ OwnResult /\ AttemptsBounded /\ AllAttemptsUsed
  BY Results, SizeAssumption DEF Init, StatusTells, OwnResult, AttemptsBounded, AllAttemptsUsed, Allowed, Member
<1>. QED BY <1>1, <1>2, <1>3, <1>4 DEF Inv

\* an execution preserves it,
LEMMA ExecuteStep == ASSUME Inv, Execute PROVE Inv'
<1>. USE DEF Inv
<1>1. /\ results' \in Seq(Result) /\ Len(results') = Len(inputs)
      /\ \A i \in DOMAIN inputs : results'[i].of = inputs[i]
  <2>1. inputs \in Seq(Member) /\ DOMAIN inputs = 1 .. Len(inputs) /\ Len(inputs) \in Nat
    BY DEF TypeOK
  <2>2. CASE PerInput
    BY <2>1, <2>2 DEF PerInput, Result, Kind
  <2>3. ASSUME NEW k \in {"task", "mismatch", "panic"}, Shared(k)
        PROVE  /\ results' \in Seq(Result) /\ Len(results') = Len(inputs)
               /\ \A i \in DOMAIN inputs : results'[i].of = inputs[i]
    BY <2>1, <2>3 DEF Shared, Result, Kind
  <2>. QED BY <2>2, <2>3 DEF Execute
<1>2. TypeOK'
  BY <1>1 DEF Execute, TypeOK, loopVars
<1>3. InStep'
  BY DEF Execute, InStep, Distinct, TypeOK
<1>4. \A m \in Member : InRound(m) => Ran(m)'
  <2>1. ASSUME NEW m \in Member, InRound(m) PROVE Ran(m)'
    <3>1. Ready(m) /\ UNCHANGED <<received, attempts, limit>> /\ runs'[m] = runs[m] + 1
      BY <2>1 DEF Execute, Executing, TypeOK, loopVars
    <3>2. runs[m] \in Nat /\ limit[m] \in Nat /\ attempts[m] \in Nat
      BY <2>1 DEF TypeOK
    <3>. QED BY <3>1, <3>2 DEF Ready, Ran, Allowed
  <2>. QED BY <2>1
<1>5. Settling'
  <2>1. \A m \in Member : Left(m)' <=> InRound(m)
    <3>1. next' = 1 /\ inputs' = inputs
      BY DEF Execute
    <3>2. \A i \in DOMAIN inputs : i >= 1
      BY DEF TypeOK
    <3>. QED BY <3>1, <3>2 DEF Left, InRound
  <2>2. \A m \in Member : ~Kept(m)'
    BY DEF Execute, Kept
  <2>3. \A m \in Member : received'[m] = NoResult => InRound(m)
    BY DEF Execute, Executing, loopVars
  <2>4. retryInputs' = <<>> /\ inputs' = inputs
    BY DEF Execute
  <2>. QED BY <1>1, <1>4, <2>1, <2>2, <2>3, <2>4 DEF Settling
<1>6. Executing' /\ Finished' /\ StatusTells' /\ OwnResult'
  BY DEF Execute, Executing, Finished, StatusTells, OwnResult, loopVars
<1>7. AttemptsBounded'
  BY <1>4 DEF Execute, AttemptsBounded, Ran, TypeOK, Allowed, loopVars
<1>8. AllAttemptsUsed'
  BY Results DEF Execute, Executing, AllAttemptsUsed, Ready, TypeOK, Allowed, loopVars
<1>. QED BY <1>2, <1>3, <1>5, <1>6, <1>7, <1>8

\* What Append does to a vector of members.
LEMMA Appended ==
    ASSUME NEW s \in Seq(Member), NEW d \in Member
    PROVE  /\ Append(s, d) \in Seq(Member) /\ Append(s, d) # <<>>
           /\ DOMAIN s = 1 .. Len(s) /\ Len(s) \in Nat
           /\ DOMAIN Append(s, d) = 1 .. Len(s) + 1
           /\ \A i \in 1 .. Len(s) : Append(s, d)[i] = s[i]
           /\ Append(s, d)[Len(s) + 1] = d
OBVIOUS

\* so does one turn of the loop over the results,
LEMMA SettleStep == ASSUME Inv, Settle PROVE Inv'
<1>. USE DEF Inv
<1>1. PICK d \in Member, r \in Result :
        /\ phase = "settling" /\ next \in DOMAIN inputs /\ d = inputs[next]
        /\ r = results[next] /\ r.of = d /\ deliveries[next] = d
  <2>1. phase = "settling" /\ next \in DOMAIN inputs /\ Len(results) = Len(inputs)
    BY DEF Settle, Settling, TypeOK
  <2>2. inputs[next] \in Member /\ results[next] \in Result
    BY <2>1 DEF TypeOK
  <2>. QED BY <2>1, <2>2 DEF Settling, InStep
<1>0. /\ next \in Nat \ {0} /\ inputs \in Seq(Member) /\ retryInputs \in Seq(Member)
      /\ attempts \in [Member -> Nat] /\ DOMAIN inputs = 1 .. Len(inputs)
  BY DEF TypeOK
<1>. DEFINE retried == r.kind = "task" /\ Retries(d)
<1>2. Ran(d)
  BY <1>1 DEF Settling, Left, TypeOK
<1>3. attempts' = [attempts EXCEPT ![d] = IF r.kind = "task" THEN @ + 1 ELSE @]
  BY <1>1 DEF Settle
<1>4. ~retried => /\ status' = IF r.kind = "ok" THEN status ELSE "Failed"
                  /\ received' = [received EXCEPT ![d] = r]
                  /\ UNCHANGED <<retryInputs, retryDeliveries>>
  BY <1>1, <1>2 DEF Settle, Ran, TypeOK
<1>5. retried => /\ retryInputs' = Append(retryInputs, d)
                 /\ retryDeliveries' = Append(retryDeliveries, d)
                 /\ UNCHANGED <<status, received>>
  BY <1>1 DEF Settle
<1>6. next' = next + 1 /\ UNCHANGED <<phase, limit, inputs, deliveries, results, runs>>
  BY DEF Settle
<1>7. TypeOK'
  <2>1. attempts' \in [Member -> Nat] /\ next' \in Nat \ {0}
    BY <1>0, <1>3, <1>6
  <2>2. CASE retried
    <3>1. retryInputs' \in Seq(Member) /\ retryDeliveries' \in Seq(Member)
      BY <1>0, <1>5, <2>2, Appended DEF InStep
    <3>. QED BY <1>5, <1>6, <2>1, <2>2, <3>1 DEF TypeOK
  <2>3. CASE ~retried
    BY <1>1, <1>4, <1>6, <2>1, <2>3 DEF TypeOK
  <2>. QED BY <2>2, <2>3
<1>8. ~Kept(d)
  <2>1. \A j \in DOMAIN inputs : j < next => inputs[j] # d
    BY <1>0, <1>1 DEF InStep, Distinct
  <2>2. \A i \in DOMAIN retryInputs : \E j \in DOMAIN inputs :
            j < next /\ inputs[j] = retryInputs[i]
    BY <1>1 DEF Settling
  <2>. QED BY <2>1, <2>2 DEF Kept
<1>9. InStep'
  <2>1. Distinct(Append(retryInputs, d))
    <3>1. \A i \in DOMAIN retryInputs : retryInputs[i] # d
      BY <1>8 DEF Kept
    <3>. QED BY <1>0, <3>1, Appended DEF InStep, Distinct
  <2>2. CASE retried
    BY <1>5, <1>6, <2>1, <2>2 DEF InStep, Distinct
  <2>3. CASE ~retried
    BY <1>4, <1>6, <2>3 DEF InStep, Distinct
  <2>. QED BY <2>2, <2>3
<1>10. \A m \in Member : Left(m)' => Left(m) /\ m # d
  <2>1. ASSUME NEW i \in DOMAIN inputs, i >= next' PROVE i >= next /\ inputs[i] # d
    <3>1. i \in Nat /\ i >= next /\ i # next
      BY <1>0, <1>6, <2>1
    <3>2. Distinct(inputs) /\ next \in DOMAIN inputs /\ inputs[next] = d
      BY <1>0, <1>1 DEF InStep
    <3>. QED BY <3>1, <3>2 DEF Distinct
  <2>. QED BY <1>6, <2>1 DEF Left
<1>11. \A m \in Member : Left(m) => Left(m)' \/ m = d
  BY <1>1, <1>6 DEF Left, TypeOK
<1>12. \A m \in Member : Kept(m)' <=> Kept(m) \/ (retried /\ m = d)
  <2>1. CASE retried
    <3>. DEFINE t == Append(retryInputs, d)
    <3>2. ASSUME NEW m, NEW i \in DOMAIN t, t[i] = m
          PROVE  (\E j \in DOMAIN retryInputs : retryInputs[j] = m) \/ m = d
      BY <1>0, <3>2, Appended
    <3>3. ASSUME NEW m, NEW i \in DOMAIN retryInputs, retryInputs[i] = m
          PROVE  \E j \in DOMAIN t : t[j] = m
      <4>1. i \in DOMAIN t /\ t[i] = m
        BY <1>0, <3>3, Appended
      <4>. QED BY <4>1
    <3>4. \E j \in DOMAIN t : t[j] = d
      <4>1. Len(retryInputs) + 1 \in DOMAIN t /\ t[Len(retryInputs) + 1] = d
        BY <1>0, Appended
      <4>. QED BY <4>1
    <3>. HIDE DEF t
    <3>. QED BY <1>5, <2>1, <3>2, <3>3, <3>4 DEF Kept
  <2>2. CASE ~retried
    BY <1>4, <2>2 DEF Kept
  <2>. QED BY <2>1, <2>2
<1>13. \A m \in Member : m # d => /\ Ran(m)' <=> Ran(m)
                                  /\ Ready(m)' <=> Ready(m)
                                  /\ received'[m] = received[m]
  BY <1>1, <1>3, <1>4, <1>5, <1>6 DEF Ran, Ready, Allowed, TypeOK
<1>14. retried => Ready(d)'
  BY <1>1, <1>2, <1>3, <1>5, <1>6 DEF Ready, Ran, Retries, TypeOK
<1>15. ~retried => received'[d] = r /\ r # NoResult
  BY <1>1, <1>4, Results DEF TypeOK
<1>16. Settling'
  <2>1. \A i \in DOMAIN retryInputs' : \E j \in DOMAIN inputs :
            j < next' /\ inputs[j] = retryInputs'[i]
    <3>1. \A i \in DOMAIN retryInputs : \E j \in DOMAIN inputs :
              j < next' /\ inputs[j] = retryInputs[i]
      BY <1>1, <1>6 DEF Settling, TypeOK
    <3>2. next \in DOMAIN inputs /\ next < next' /\ inputs[next] = d
      BY <1>1, <1>6 DEF TypeOK
    <3>3. CASE retried
      <4>1. \A i \in DOMAIN Append(retryInputs, d) :
                \/ i \in DOMAIN retryInputs /\ Append(retryInputs, d)[i] = retryInputs[i]
                \/ Append(retryInputs, d)[i] = d
        BY <1>0, Appended
      <4>. QED BY <1>1, <1>5, <3>1, <3>2, <3>3, <4>1
    <3>4. CASE ~retried
      BY <1>4, <3>1, <3>4
    <3>. QED BY <3>3, <3>4
  <2>2. \A m \in Member :
            /\ received'[m] = NoResult => Left(m)' \/ Kept(m)'
            /\ Left(m)' => Ran(m)'
            /\ Kept(m)' => Ready(m)'
    BY <1>1, <1>8, <1>10, <1>11, <1>12, <1>13, <1>14, <1>15 DEF Settling
  <2>. QED BY <1>1, <1>6, <2>1, <2>2 DEF Settling
<1>17. Executing' /\ Finished'
  BY <1>1, <1>6 DEF Executing, Finished
<1>18. StatusTells'
  BY <1>1, <1>2, <1>4, <1>5, Results DEF StatusTells, Ran, TypeOK, Kind
<1>19. OwnResult'
  <2>1. CASE retried
    BY <1>5, <2>1 DEF OwnResult
  <2>2. CASE ~retried
    BY <1>1, <1>4, <2>2 DEF OwnResult, TypeOK
  <2>. QED BY <2>1, <2>2
<1>20. AttemptsBounded'
  BY <1>6 DEF AttemptsBounded, Allowed
<1>21. AllAttemptsUsed'
  <2>1. ~retried /\ r.kind = "task" => runs[d] = Allowed(d)
    <3>1. attempts[d] \in Nat /\ limit[d] \in Nat /\ runs[d] \in Nat
      BY DEF TypeOK
    <3>. QED BY <1>2, <3>1 DEF Ran, Retries, Allowed
  <2>. QED BY <1>1, <1>4, <1>5, <1>6, <1>13, <1>15, <2>1 DEF AllAttemptsUsed, Allowed
<1>. QED BY <1>7, <1>9, <1>16, <1>17, <1>18, <1>19, <1>20, <1>21

\* the exchange of the vectors at the end of a round,
LEMMA EndRoundStep == ASSUME Inv, EndRound PROVE Inv'
<1>. USE DEF Inv
<1>1. TypeOK' /\ InStep'
  BY DEF EndRound, RoundOver, TypeOK, InStep, loopVars
<1>2. \A m \in Member : ~Left(m)
  BY DEF EndRound, RoundOver, Left, TypeOK
<1>3. \A m \in Member : InRound(m)' <=> Kept(m)
  BY DEF EndRound, RoundOver, InRound, Kept
<1>4. \A m \in Member : Ready(m)' <=> Ready(m)
  BY DEF EndRound, RoundOver, Ready, loopVars
<1>5. Executing'
  BY <1>2, <1>3, <1>4 DEF EndRound, RoundOver, Executing, Settling, loopVars
<1>6. Finished'
  <2>1. retryInputs = <<>> => \A m \in Member : ~Kept(m)
    BY DEF Kept
  <2>. QED BY <1>2, <2>1 DEF EndRound, RoundOver, Finished, Settling, loopVars
<1>7. Settling'
  BY DEF EndRound, RoundOver, Settling
<1>8. StatusTells' /\ OwnResult' /\ AttemptsBounded' /\ AllAttemptsUsed'
  BY DEF EndRound, RoundOver, StatusTells, OwnResult, AttemptsBounded, AllAttemptsUsed, Allowed, loopVars
<1>. QED BY <1>1, <1>5, <1>6, <1>7, <1>8

\* and the end of the job.
LEMMA OtherSteps == ASSUME Inv, DropJob \/ UNCHANGED vars PROVE Inv'
<1>. USE DEF Inv
<1>1. TypeOK' /\ InStep'
  BY DEF DropJob, vars, TypeOK, InStep, Distinct, loopVars
<1>2. Executing' /\ Settling' /\ Finished'
  BY DEF DropJob, vars, Executing, Settling, Finished, InRound, Ready, Ran, Left, Kept,
         Allowed, loopVars
<1>3. StatusTells' /\ OwnResult' /\ AttemptsBounded' /\ AllAttemptsUsed'
  BY DEF DropJob, vars, StatusTells, OwnResult, AttemptsBounded, AllAttemptsUsed, Allowed, loopVars
<1>. QED BY <1>1, <1>2, <1>3

\* Inv is an invariant of the specification.
THEOREM Invariance == Spec => []Inv
<1>1. Inv /\ [Next]_vars => Inv'
  BY ExecuteStep, SettleStep, EndRoundStep, OtherSteps DEF Next, Done
<1>. QED BY <1>1, InitInv, PTL DEF Spec

-----------------------------------------------------------------------------

\* However the retries thin out the batch, results reach the members they were
\* computed for.
THEOREM ResultsMatch == Spec => []OwnResult
BY Invariance, PTL DEF Inv

\* No member is executed more often than its limit, nor told its task error while it
\* has attempts left.
THEOREM AttemptsExact == Spec => []AttemptsSound
BY Invariance, PTL DEF Inv, AttemptsSound

\* A finished job has answered everybody and its status is right.
THEOREM AnsweredAtEnd == Spec => []EndsAnswered
<1>1. Inv => EndsAnswered
  BY Results DEF Inv, EndsAnswered, Finished, StatusTells, TypeOK
<1>. QED BY <1>1, Invariance, PTL

\* Only members whose earlier executions all failed with a task error, and that
\* have not been answered, are executed again.
THEOREM OnlyRetries == Spec => RetriesOnly
<1>. DEFINE Safe == \A m \in Member : runs'[m] > runs[m] =>
                        received[m] = NoResult /\ attempts[m] = runs[m]
<1>1. Inv /\ [Next]_vars => Safe
  <2>1. ASSUME Inv, Execute PROVE Safe
    BY <2>1 DEF Inv, Execute, Executing, Ready, TypeOK
  <2>2. ASSUME Inv, UNCHANGED runs PROVE Safe
    BY <2>2 DEF Inv, TypeOK
  <2>. QED
    BY <2>1, <2>2 DEF Next, Settle, EndRound, RoundOver, DropJob, Done, vars
<1>. QED BY <1>1, Invariance, PTL DEF Spec, RetriesOnly

=============================================================================
