-------------------------- MODULE JobStream_proof --------------------------
(***************************************************************************)
(* The steps that every streaming job is built from, seen as steps of the  *)
(* promise (StreamPromise): a lemma each, which the proofs about StreamJob *)
(* and StreamBatch cite; and what follows from the promise.                *)
(***************************************************************************)
EXTENDS JobStream, SequenceTheorems, TLAPS

\* The consumer's own items and those in the channel are items that were made.
LEMMA SentType ==
    ASSUME StreamTypeOK, NEW s \in Streams
    PROVE  /\ got[s] \in Seq(1 .. MaxItems) /\ buffer[s] \in Seq(1 .. MaxItems)
           /\ got[s] \o buffer[s] \in Seq(1 .. MaxItems)
           /\ Len(got[s] \o buffer[s]) = Len(got[s]) + Len(buffer[s])
           /\ Sent[s] \in Seq(1 .. MaxItems)
<1>1. got[s] \in Seq(1 .. MaxItems) /\ buffer[s] \in Seq(1 .. MaxItems)
  BY DEF StreamTypeOK
<1>2. /\ got[s] \o buffer[s] \in Seq(1 .. MaxItems)
      /\ Len(got[s] \o buffer[s]) = Len(got[s]) + Len(buffer[s])
  BY <1>1, ConcatProperties
<1>. QED BY <1>1, <1>2 DEF Sent

\* Taking the head of one sequence to the end of the other changes nothing in all.
LEMMA HeadMoves ==
    ASSUME NEW S, NEW a \in Seq(S), NEW b \in Seq(S), b # <<>>
    PROVE  /\ Append(a, Head(b)) \o Tail(b) = a \o b
           /\ Len(a) < Len(a \o b)
           /\ (a \o b)[Len(a) + 1] = Head(b)
<1>. DEFINE h == Append(a, Head(b))
            t == Tail(b)
<1>1. Head(b) \in S /\ Head(b) = b[1] /\ t \in Seq(S) /\ Len(t) = Len(b) - 1
      /\ \A i \in 1 .. Len(t) : t[i] = b[i + 1]
  BY HeadTailProperties
<1>2. h \in Seq(S) /\ Len(h) = Len(a) + 1 /\ h[Len(a) + 1] = b[1]
      /\ \A i \in 1 .. Len(a) : h[i] = a[i]
  BY <1>1, AppendProperties
<1>3. Len(b) \in Nat \ {0} /\ Len(a) \in Nat
  BY EmptySeq, LenProperties
<1>4. /\ a \o b \in Seq(S) /\ Len(a \o b) = Len(a) + Len(b)
      /\ \A i \in 1 .. Len(a) + Len(b) : (a \o b)[i] = IF i <= Len(a) THEN a[i] ELSE b[i - Len(a)]
  BY ConcatProperties
<1>5. /\ h \o t \in Seq(S) /\ Len(h \o t) = Len(h) + Len(t)
      /\ \A i \in 1 .. Len(h) + Len(t) : (h \o t)[i] = IF i <= Len(h) THEN h[i] ELSE t[i - Len(h)]
  BY <1>1, <1>2, ConcatProperties
<1>6. Len(h \o t) = Len(a \o b)
  BY <1>1, <1>2, <1>3, <1>4, <1>5
<1>7. ASSUME NEW i \in 1 .. Len(h \o t) PROVE (h \o t)[i] = (a \o b)[i]
  <2>. i \in Int /\ i \in 1 .. Len(a) + Len(b) /\ i \in 1 .. Len(h) + Len(t)
    BY <1>4, <1>5, <1>6, <1>7
  <2>1. CASE i <= Len(a)
    BY <2>1, <1>2, <1>3, <1>4, <1>5
  <2>2. CASE i = Len(a) + 1
    BY <2>2, <1>2, <1>3, <1>4, <1>5
  <2>3. CASE i > Len(a) + 1
    <3>1. i - Len(h) \in 1 .. Len(t) /\ (i - Len(h)) + 1 = i - Len(a)
      BY <2>3, <1>1, <1>2, <1>3
    <3>2. t[i - Len(h)] = b[i - Len(a)]
      BY <3>1, <1>1
    <3>. QED BY <2>3, <3>2, <1>2, <1>3, <1>4, <1>5
  <2>. QED BY <2>1, <2>2, <2>3, <1>3
<1>8. h \o t = a \o b
  BY <1>4, <1>5, <1>6, <1>7, SeqEqual
<1>. QED BY <1>1, <1>3, <1>4, <1>8

\* Appending to the channel appends to what was sent.
LEMMA AppendMoves ==
    ASSUME NEW S, NEW a \in Seq(S), NEW b \in Seq(S), NEW x \in S
    PROVE  a \o Append(b, x) = Append(a \o b, x)
<1>1. <<x>> \in Seq(S)
  OBVIOUS
<1>2. Append(b, x) = b \o <<x>> /\ Append(a \o b, x) = (a \o b) \o <<x>>
  BY AppendIsConcat, ConcatProperties
<1>. QED BY <1>1, <1>2, ConcatAssociative

-----------------------------------------------------------------------------
(* The consumer. *)

LEMMA TakeRefines ==
    ASSUME StreamTypeOK, NEW s \in Streams, Take(s)
    PROVE  StreamTypeOK' /\ Promise!Take(s) /\ Sent' = Sent
<1>1. /\ got[s] \in Seq(1 .. MaxItems) /\ buffer[s] \in Seq(1 .. MaxItems) /\ buffer[s] # <<>>
      /\ Head(buffer[s]) \in 1 .. MaxItems /\ Tail(buffer[s]) \in Seq(1 .. MaxItems)
      /\ Append(got[s], Head(buffer[s])) \in Seq(1 .. MaxItems)
  BY HeadTailProperties, AppendProperties DEF StreamTypeOK, Take
<1>2. StreamTypeOK'
  BY <1>1 DEF StreamTypeOK, Take
<1>3. Left' = Left /\ s \notin Left
  BY DEF Left, Take
<1>4. got'[s] \o buffer'[s] = got[s] \o buffer[s]
  BY <1>1, HeadMoves DEF Take, StreamTypeOK
<1>5. Sent' = Sent
  BY <1>3, <1>4 DEF Sent, Take, StreamTypeOK
<1>6. Len(got[s]) < Len(Sent[s]) /\ Sent[s][Len(got[s]) + 1] = Head(buffer[s])
  BY <1>1, <1>3, HeadMoves DEF Sent
<1>. QED BY <1>2, <1>3, <1>5, <1>6 DEF Promise!Take, Take, Sent

LEMMA LeaveRefines ==
    ASSUME StreamTypeOK, NEW s \in Streams, Leave(s)
    PROVE  StreamTypeOK' /\ Promise!Leave(s, DropError) /\ s \in Left'
<1>1. Left' = Left \cup {s} /\ s \notin Left
  BY DEF Left, Leave, StreamTypeOK
<1>2. DropError \in Errors \cup {"none"} /\ DropError # "ok"
  BY StreamAssumption DEF Errors
<1>3. outcome' = [outcome EXCEPT ![s] = IF @ = "none" THEN DropError ELSE @]
  BY DEF Leave, Finish, StreamTypeOK
<1>4. StreamTypeOK'
  BY <1>2, <1>3 DEF Leave, StreamTypeOK, Errors
<1>5. Sent' = [Sent EXCEPT ![s] = got[s]]
  BY <1>1 DEF Sent, Leave
<1>. QED BY <1>1, <1>2, <1>3, <1>4, <1>5 DEF Promise!Leave, Leave, Sent

LEMMA DropRefines ==
    ASSUME StreamTypeOK, NEW s \in Streams, CloseSignal(s) \/ HangUp(s)
    PROVE  StreamTypeOK' /\ UNCHANGED Promise!vars /\ Left' = Left /\ Sent' = Sent
<1>1. Left' = Left /\ s \in Left
  BY DEF Left, CloseSignal, HangUp, StreamTypeOK
<1>2. StreamTypeOK'
  <2>1. <<>> \in Seq(1 .. MaxItems)
    OBVIOUS
  <2>2. CloseSignal(s) => StreamTypeOK'
    BY DEF CloseSignal, StreamTypeOK
  <2>3. HangUp(s) => StreamTypeOK'
    BY <2>1 DEF HangUp, StreamTypeOK
  <2>. QED BY <2>2, <2>3
<1>3. Sent' = Sent
  BY <1>1 DEF Sent, CloseSignal, HangUp, StreamTypeOK
<1>. QED BY <1>1, <1>2, <1>3 DEF Promise!vars, Sent, CloseSignal, HangUp

-----------------------------------------------------------------------------
(* The job. *)

\* An item goes into the channel: it is sent, or lost on a consumer who has left.
LEMMA PushSends ==
    ASSUME StreamTypeOK, NEW s \in Streams, NEW n \in 1 .. MaxItems, Push(s, n),
           UNCHANGED <<got, consumer>>
    PROVE  /\ buffer' \in [Streams -> Seq(1 .. MaxItems)]
           /\ Left' = Left
           /\ s \in Left => Sent' = Sent
           /\ s \notin Left => Sent' = [Sent EXCEPT ![s] = Append(@, n)]
<1>1. Append(buffer[s], n) \in Seq(1 .. MaxItems)
  BY AppendProperties DEF StreamTypeOK
<1>2. got[s] \o Append(buffer[s], n) = Append(got[s] \o buffer[s], n)
  BY AppendMoves DEF StreamTypeOK
<1>3. Left' = Left
  BY DEF Left
<1>. QED BY <1>1, <1>2, <1>3 DEF Push, StreamTypeOK, Sent

\* Outcomes claimed in one step settle their streams.
LEMMA FinishSettles ==
    ASSUME StreamTypeOK, NEW S \in SUBSET Streams, NEW o \in Outcomes, Finish(S, o),
           o = "ok" => \A s \in S : s \in Left \/ made[s] = Len(Sent[s]),
           UNCHANGED <<made, got, buffer, consumer>>
    PROVE  /\ outcome' \in [Streams -> Outcomes \cup {"none"}]
           /\ Promise!Settle(S, o) /\ Left' = Left /\ Sent' = Sent
<1>1. Left' = Left /\ Sent' = Sent
  BY DEF Left, Sent
<1>. QED BY <1>1 DEF Finish, StreamTypeOK, Promise!Settle, Sent

-----------------------------------------------------------------------------
(* What the promise says to a consumer, for any number of streams and     *)
(* items: whatever implements it inherits these theorems.                  *)

PromiseTyped ==
    /\ made \in [Streams -> Nat]
    /\ Sent \in [Streams -> Seq(Nat)]
    /\ got \in [Streams -> Seq(Nat)]
    /\ outcome \in [Streams -> Outcomes \cup {"none"}]
    /\ Left \in SUBSET Streams

PromiseInv == PromiseTyped /\ Promise!InOrder /\ Promise!OkMeansAll

LEMMA PromiseInitInv == Promise!Init => PromiseInv
BY DEF Promise!Init, PromiseInv, PromiseTyped, Promise!InOrder, Promise!OkMeansAll

\* An item that is let in, or made and sent at once, appends the next number.
LEMMA SentGrows ==
    ASSUME PromiseInv, NEW s \in Streams, NEW n \in Nat,
           Sent' = [Sent EXCEPT ![s] = Append(@, n)], n = Len(Sent[s]) + 1, UNCHANGED got
    PROVE  Promise!InOrder' /\ Sent' \in [Streams -> Seq(Nat)]
BY DEF PromiseInv, PromiseTyped, Promise!InOrder

LEMMA PromiseTakeStep == ASSUME PromiseInv, NEW s \in Streams, Promise!Take(s) PROVE PromiseInv'
<1>1. Sent[s][Len(got[s]) + 1] = Len(got[s]) + 1 /\ Len(got[s]) + 1 \in Nat
  BY DEF PromiseInv, PromiseTyped, Promise!InOrder, Promise!Take
<1>2. got' = [got EXCEPT ![s] = Append(@, Len(got[s]) + 1)]
  BY <1>1 DEF Promise!Take, PromiseInv, PromiseTyped
<1>3. got'[s] = Append(got[s], Len(got[s]) + 1) /\ \A t \in Streams \ {s} : got'[t] = got[t]
  BY <1>2 DEF PromiseInv, PromiseTyped
<1>4. PromiseTyped'
  BY <1>1, <1>2 DEF PromiseInv, PromiseTyped, Promise!Take
<1>5. Promise!InOrder'
  <2>. SUFFICES ASSUME NEW t \in Streams
                PROVE  /\ \A i \in 1 .. Len(Sent[t]) : Sent[t][i] = i
                       /\ Len(got'[t]) <= Len(Sent[t])
                       /\ \A i \in 1 .. Len(got'[t]) : got'[t][i] = i
    BY DEF Promise!InOrder, Promise!Take
  <2>1. CASE t = s
    BY <1>1, <1>3, <2>1 DEF PromiseInv, PromiseTyped, Promise!InOrder, Promise!Take
  <2>2. CASE t # s
    BY <1>3, <2>2 DEF PromiseInv, PromiseTyped, Promise!InOrder, Promise!Take
  <2>. QED BY <2>1, <2>2
<1>6. Promise!OkMeansAll'
  BY DEF PromiseInv, Promise!OkMeansAll, Promise!Take
<1>. QED BY <1>4, <1>5, <1>6 DEF PromiseInv

LEMMA PromiseNextStep == ASSUME PromiseInv, [Promise!Next]_(Promise!vars) PROVE PromiseInv'
<1>1. CASE UNCHANGED Promise!vars
  BY <1>1 DEF Promise!vars, PromiseInv, PromiseTyped, Promise!InOrder, Promise!OkMeansAll
<1>2. ASSUME NEW s \in Streams, Promise!Make(s) PROVE PromiseInv'
  BY <1>2 DEF Promise!Make, Promise!Undecided, PromiseInv, PromiseTyped, Promise!InOrder, Promise!OkMeansAll
<1>3. ASSUME NEW s \in Streams, Promise!Accept(s) PROVE PromiseInv'
  <2>1. Promise!InOrder' /\ Sent' \in [Streams -> Seq(Nat)]
    BY <1>3, SentGrows DEF Promise!Accept, PromiseInv, PromiseTyped
  <2>. QED BY <1>3, <2>1 DEF Promise!Accept, PromiseInv, PromiseTyped, Promise!OkMeansAll
<1>4. ASSUME NEW s \in Streams, Promise!Send(s) PROVE PromiseInv'
  <2>1. made[s] + 1 \in Nat /\ made[s] + 1 = Len(Sent[s]) + 1
    BY <1>4 DEF Promise!Send, PromiseInv, PromiseTyped
  <2>2. Sent' = [Sent EXCEPT ![s] = Append(@, made[s] + 1)] /\ UNCHANGED got
    BY <1>4 DEF Promise!Send
  <2>3. Promise!InOrder' /\ Sent' \in [Streams -> Seq(Nat)]
    BY <2>1, <2>2, SentGrows
  <2>. QED BY <1>4, <2>3 DEF Promise!Send, PromiseInv, PromiseTyped, Promise!OkMeansAll
<1>5. ASSUME NEW s \in Streams, NEW o \in Outcomes, Promise!Refuse(s, o) PROVE PromiseInv'
  BY <1>5 DEF Promise!Refuse, PromiseInv, PromiseTyped, Promise!InOrder, Promise!OkMeansAll
<1>6. ASSUME NEW S \in SUBSET Streams, NEW o \in Outcomes, Promise!Settle(S, o) PROVE PromiseInv'
  BY <1>6 DEF Promise!Settle, PromiseInv, PromiseTyped, Promise!InOrder, Promise!OkMeansAll
<1>7. ASSUME NEW s \in Streams, NEW o \in Outcomes \cup {"none"}, Promise!Leave(s, o) PROVE PromiseInv'
  BY <1>7 DEF Promise!Leave, PromiseInv, PromiseTyped, Promise!InOrder, Promise!OkMeansAll
<1>. QED
  BY <1>1, <1>2, <1>3, <1>4, <1>5, <1>6, <1>7, PromiseTakeStep DEF Promise!Next

\* PromiseInv is an invariant of the abstract stream.
THEOREM PromiseInvariance == Promise!Spec => []PromiseInv
BY PromiseInitInv, PromiseNextStep, PTL DEF Promise!Spec

\* The consumer has the items in the order they were made, without gaps.
THEOREM ItemsInOrder == Promise!Spec => []Promise!InOrder
BY PromiseInvariance, PTL DEF PromiseInv

\* Ok is said only of a stream that was sent all its items.
THEOREM OkIsComplete == Promise!Spec => []Promise!OkMeansAll
BY PromiseInvariance, PTL DEF PromiseInv

\* A terminal outcome never changes.
THEOREM FirstOutcomeWins == Promise!Spec => Promise!OutcomeIsFinal
<1>1. PromiseInv /\ [Promise!Next]_(Promise!vars) => \A s \in Streams : outcome[s] # "none" => outcome'[s] = outcome[s]
  BY DEF PromiseInv, PromiseTyped, Promise!Next, Promise!vars, Promise!Make, Promise!Accept, Promise!Send, Promise!Refuse, Promise!Take, Promise!Settle, Promise!Leave
<1>. QED BY <1>1, PromiseInvariance, PTL DEF Promise!Spec, Promise!OutcomeIsFinal

=============================================================================
