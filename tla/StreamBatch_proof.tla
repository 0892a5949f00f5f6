------------------------- MODULE StreamBatch_proof -------------------------
(***************************************************************************)
(* Proofs about the batch of streams, for any number of members, any       *)
(* capacities and items, and both modes.                                   *)
(***************************************************************************)
EXTENDS StreamBatch, JobStream_proof, FiniteSetTheorems

Unsettled == {"none", "cancelled"}

(* Control: who has an outcome, and where the job can then be.  An outcome *)
(* and the close signal go together, except that the Drop of a consumer    *)
(* claims its outcome a moment earlier.                                    *)
Settled ==
    \A s \in Streams :
        /\ s \notin delivery => outcome[s] # "none"
        /\ shut[s] => outcome[s] # "none"
        /\ outcome[s] \notin Unsettled => shut[s]
        /\ s \in fired => shut[s]
        /\ s \in Left => outcome[s] # "none"
        /\ member[s] = "returned" => s \notin delivery
        /\ member[s] = "sending" => job \in {"members", "lost"} /\ made[s] > 0
        /\ member[s] = "sending" /\ s \notin Left => outcome[s] = "none"
        /\ outcome[s] # "incomplete"

Modes ==
    /\ job \in {"select", "event", "panicked"} => mode = "multiplexed"
    /\ job \in {"preparing", "prepared", "members"} => mode = "independent"

Places ==
    /\ job \in {"queued", "select", "event", "preparing", "prepared"} =>
           remaining = Cardinality(Streams \ fired) /\ remaining > 0
    /\ job = "event" =>
           /\ routed < RouteBudget
           /\ \A s \in Streams \ fired : outcome[s] \in Unsettled
    /\ job \in {"queued", "preparing", "prepared"} =>
           \A s \in Streams : outcome[s] \in Unsettled
    /\ job \in {"returned", "ended"} =>
           /\ \A s \in Streams : outcome[s] # "none"
           /\ verdict = Worst(outcome)
    /\ job = "panicked" => \E s \in Streams : outcome[s] \in Unsettled

Control == TypeOK /\ Settled /\ Modes /\ Places

-----------------------------------------------------------------------------

\* One member less whose closure is to come.
LEMMA OneFired ==
    ASSUME TypeOK, NEW s \in Streams \ fired
    PROVE  /\ Cardinality(Streams \ fired) \in Nat
           /\ Cardinality(Streams \ (fired \cup {s})) = Cardinality(Streams \ fired) - 1
           /\ Cardinality(Streams \ fired) = 1 => Streams \subseteq fired \cup {s}
<1>. DEFINE R == Streams \ fired
            Q == Streams \ (fired \cup {s})
<1>1. IsFiniteSet(R) /\ IsFiniteSet(Q)
  BY BatchAssumption, FS_Subset
<1>2. R \ {s} = Q
  OBVIOUS
<1>3. Cardinality(R) \in Nat /\ Cardinality(Q) = Cardinality(R) - 1
  BY <1>1, <1>2, FS_RemoveElement, FS_CardinalityType
<1>4. Cardinality(R) = 1 => Q = {}
  BY <1>1, <1>3, FS_EmptySet
<1>. QED BY <1>3, <1>4

\* At least one member is left to wait for.
LEMMA SomeLeft ==
    ASSUME TypeOK, remaining = Cardinality(Streams \ fired), remaining > 0
    PROVE  \E s \in Streams : s \notin fired
BY FS_EmptySet DEF TypeOK

LEMMA InitControl == Init => Control
<1>. SUFFICES ASSUME Init PROVE Control
  OBVIOUS
<1>1. Cardinality(Streams) \in Nat /\ Cardinality(Streams) > 0 /\ Streams \ fired = Streams
  BY BatchAssumption, FS_CardinalityType, FS_EmptySet DEF Init
<1>2. Left = {}
  BY DEF Left, Init, StreamInit
<1>3. TypeOK
  BY <1>1, BatchAssumption, StreamAssumption DEF Init, StreamInit, TypeOK, StreamTypeOK
<1>. QED
  BY <1>1, <1>2, <1>3 DEF Control, Settled, Modes, Places, Init, StreamInit, Unsettled

\* SetTerminal, member by member.
LEMMA Claims ==
    ASSUME TypeOK, NEW S \in SUBSET Streams, NEW o \in Outcomes, SetTerminal(S, o)
    PROVE  /\ outcome' \in [Streams -> Outcomes \cup {"none"}]
           /\ shut' \in [Streams -> BOOLEAN]
           /\ \A s \in Streams :
                  /\ outcome'[s] = IF s \in S /\ outcome[s] = "none" THEN o ELSE outcome[s]
                  /\ shut'[s] <=> shut[s] \/ (s \in S /\ outcome[s] = "none")
BY DEF SetTerminal, Finish, TypeOK, StreamTypeOK

\* What finishing the members of S does: in a settled batch only members with their
\* delivery are without an outcome.
LEMMA Finished ==
    ASSUME TypeOK, Settled, NEW S \in SUBSET Streams, NEW o \in Outcomes, FinishMembers(S, o)
    PROVE  /\ outcome' \in [Streams -> Outcomes \cup {"none"}]
           /\ shut' \in [Streams -> BOOLEAN]
           /\ delivery' = delivery \ S
           /\ \A s \in Streams :
                  /\ outcome'[s] = IF s \in S /\ outcome[s] = "none" THEN o ELSE outcome[s]
                  /\ shut'[s] <=> shut[s] \/ (s \in S /\ outcome[s] = "none")
<1>. DEFINE D == S \cap delivery
<1>1. D \in SUBSET Streams /\ SetTerminal(D, o) /\ delivery' = delivery \ S
  BY DEF FinishMembers
<1>2. /\ outcome' \in [Streams -> Outcomes \cup {"none"}]
      /\ shut' \in [Streams -> BOOLEAN]
      /\ \A s \in Streams :
             /\ outcome'[s] = IF s \in D /\ outcome[s] = "none" THEN o ELSE outcome[s]
             /\ shut'[s] <=> shut[s] \/ (s \in D /\ outcome[s] = "none")
  <2>. HIDE DEF D
  <2>. QED BY <1>1, Claims
<1>3. \A s \in Streams : s \in D /\ outcome[s] = "none" <=> s \in S /\ outcome[s] = "none"
  BY DEF Settled
<1>. HIDE DEF D
<1>. QED BY <1>1, <1>2, <1>3

\* An outcome for the members of S, with everything about the consumers left alone.
LEMMA FinishedSettled ==
    ASSUME TypeOK, Settled, NEW S \in SUBSET Streams, NEW o \in Outcomes \ {"incomplete"},
           FinishMembers(S, o), UNCHANGED <<consumer, fired>>,
           \A s \in Streams : member'[s] \in {member[s], "returned"},
           \A s \in Streams : member'[s] = "returned" => s \in S \/ member[s] = "returned",
           \A s \in Streams : member'[s] = "sending" =>
               s \notin S /\ job' \in {"members", "lost"} /\ made'[s] > 0
    PROVE  Settled'
<1>1. Left' = Left
  BY DEF Left
<1>2. /\ delivery' = delivery \ S
      /\ \A s \in Streams :
             /\ outcome'[s] = IF s \in S /\ outcome[s] = "none" THEN o ELSE outcome[s]
             /\ shut'[s] <=> shut[s] \/ (s \in S /\ outcome[s] = "none")
  BY Finished
<1>. SUFFICES ASSUME NEW s \in Streams
              PROVE  /\ s \notin delivery' => outcome'[s] # "none"
                     /\ shut'[s] => outcome'[s] # "none"
                     /\ outcome'[s] \notin Unsettled => shut'[s]
                     /\ s \in fired' => shut'[s]
                     /\ s \in Left' => outcome'[s] # "none"
                     /\ member'[s] = "returned" => s \notin delivery'
                     /\ member'[s] = "sending" => job' \in {"members", "lost"} /\ made'[s] > 0
                     /\ member'[s] = "sending" /\ s \notin Left' => outcome'[s] = "none"
                     /\ outcome'[s] # "incomplete"
  BY DEF Settled
<1>3. o # "none"
  BY DEF Outcomes
<1>. QED BY <1>1, <1>2, <1>3 DEF Settled, Unsettled

-----------------------------------------------------------------------------
(* The steps of the job. *)

LEMMA StartControl == Control /\ Start => Control' /\ outcome' = outcome
<1>. SUFFICES ASSUME Control, Start PROVE Control' /\ outcome' = outcome
  OBVIOUS
<1>. USE DEF Control
<1>1. Left' = Left
  BY DEF Left, Start
<1>2. outcome' = outcome /\ shut' = shut
  <2>1. CASE \E s \in Streams : IsOpen(s)
    BY <2>1 DEF Start
  <2>2. CASE ~ \E s \in Streams : IsOpen(s)
    <3>1. "cancelled" \in Outcomes
      BY DEF Outcomes
    <3>2. SetTerminal(Streams, "cancelled")
      BY <2>2 DEF Start
    <3>3. \A s \in Streams : outcome[s] # "none"
      BY <2>2 DEF IsOpen, Settled
    <3>. QED BY <3>2, <3>3 DEF SetTerminal, Finish, TypeOK, StreamTypeOK
  <2>. QED BY <2>1, <2>2
<1>3. CASE \E s \in Streams : IsOpen(s)
  <2>1. TypeOK'
    BY <1>2, <1>3 DEF Start, TypeOK, StreamTypeOK
  <2>2. Settled'
    BY <1>1, <1>2, <1>3 DEF Start, Settled
  <2>3. Modes'
    BY <1>3 DEF Start, Modes, TypeOK
  <2>4. Places'
    BY <1>2, <1>3 DEF Start, Places
  <2>. QED BY <1>2, <2>1, <2>2, <2>3, <2>4
<1>4. CASE ~ \E s \in Streams : IsOpen(s)
  <2>1. \A s \in Streams : outcome[s] = "cancelled"
    BY <1>4 DEF IsOpen, Settled, Places, Start, Unsettled
  <2>2. Worst(outcome') = "Failed"
    BY <1>2, <2>1, BatchAssumption DEF Worst, SomeFailed, Errors, Outcomes
  <2>3. TypeOK'
    BY <1>2, <1>4 DEF Start, TypeOK, StreamTypeOK
  <2>4. Settled'
    BY <1>1, <1>2, <1>4 DEF Start, Settled
  <2>5. Modes'
    BY <1>4 DEF Start, Modes, TypeOK
  <2>6. Places'
    BY <1>2, <1>4, <2>1, <2>2 DEF Start, Places
  <2>. QED BY <1>2, <2>3, <2>4, <2>5, <2>6
<1>. QED BY <1>3, <1>4

LEMMA ConcludeControl == Control /\ Conclude => Control' /\ outcome' = outcome
<1>. SUFFICES ASSUME Control, Conclude PROVE Control' /\ outcome' = outcome
  OBVIOUS
<1>. USE DEF Control
<1>1. Left' = Left
  BY DEF Left, Conclude
<1>2. outcome' = outcome /\ shut' = shut
  BY DEF Conclude, SetTerminal, Finish, TypeOK, StreamTypeOK, Places
<1>3. verdict' = Worst(outcome')
  BY <1>2 DEF Conclude, Places, Worst
<1>4. TypeOK' /\ Settled' /\ Modes'
  BY <1>1, <1>2 DEF Conclude, TypeOK, StreamTypeOK, Settled, Modes
<1>5. Places'
  BY <1>2, <1>3 DEF Conclude, Places
<1>. QED BY <1>2, <1>4, <1>5

LEMMA PanicControl == Control /\ ConcludePanic => Control'
<1>. SUFFICES ASSUME Control, ConcludePanic PROVE Control'
  OBVIOUS
<1>. USE DEF Control
<1>1. Left' = Left /\ "panic" \in Outcomes
  BY DEF Left, ConcludePanic, Outcomes
<1>2. /\ outcome' \in [Streams -> Outcomes \cup {"none"}]
      /\ shut' \in [Streams -> BOOLEAN]
      /\ \A s \in Streams :
             /\ outcome'[s] = IF outcome[s] = "none" THEN "panic" ELSE outcome[s]
             /\ shut'[s] <=> shut[s] \/ outcome[s] = "none"
  <2>1. Streams \in SUBSET Streams /\ SetTerminal(Streams, "panic")
    BY DEF ConcludePanic
  <2>. QED BY <1>1, <2>1, Claims
<1>3. verdict' = Worst(outcome')
  BY <1>2 DEF ConcludePanic, Places, Worst, SomeFailed, Unsettled, Errors, Outcomes
<1>4. TypeOK' /\ Modes'
  BY <1>2 DEF ConcludePanic, TypeOK, StreamTypeOK, Modes
<1>5. Settled'
  BY <1>1, <1>2 DEF ConcludePanic, Settled, TypeOK, Unsettled
<1>6. Places'
  BY <1>2, <1>3 DEF ConcludePanic, Places
<1>. QED BY <1>4, <1>5, <1>6

\* Steps that only move the job.
LEMMA MovesControl ==
    Control /\ (Lose \/ YieldNow \/ PollProducer \/ ProducerPanics \/ PollPrepare \/ PrepareSucceeds
                    \/ IgnoreEvent \/ MembersEnd)
        => Control'
<1>. SUFFICES ASSUME Control,
                     \/ Lose \/ YieldNow \/ PollProducer \/ ProducerPanics
                     \/ PollPrepare \/ PrepareSucceeds \/ IgnoreEvent \/ MembersEnd
              PROVE Control'
  OBVIOUS
<1>. USE DEF Control
<1>1. Left' = Left /\ UNCHANGED <<streamVars, fired, delivery, member, mode>>
  BY DEF Left, Lose, YieldNow, PollProducer, ProducerPanics, PollPrepare, PrepareSucceeds,
         IgnoreEvent, MembersEnd, TurnEnds, streamVars
<1>2. TypeOK'
  <2>1. routed' \in 0 .. RouteBudget
    BY BatchAssumption DEF Lose, YieldNow, PollProducer, ProducerPanics, PollPrepare,
       PrepareSucceeds, IgnoreEvent, MembersEnd, TurnEnds, TypeOK, Places
  <2>2. job' \in {"lost", "select", "event", "panicked", "prepared", "members", "returned"}
    BY DEF Lose, YieldNow, PollProducer, ProducerPanics, PollPrepare,
       PrepareSucceeds, IgnoreEvent, MembersEnd
  <2>3. verdict' \in {verdict, "Completed", "Failed"} /\ remaining' = remaining
    BY DEF Lose, YieldNow, PollProducer, ProducerPanics, PollPrepare,
       PrepareSucceeds, IgnoreEvent, MembersEnd, TurnEnds, Worst
  <2>. QED BY <1>1, <2>1, <2>2, <2>3 DEF TypeOK, StreamTypeOK, streamVars
<1>3. \A s \in Streams : member[s] = "sending" => job' \in {"members", "lost"}
  BY DEF Lose, YieldNow, PollProducer, ProducerPanics, PollPrepare,
     PrepareSucceeds, IgnoreEvent, MembersEnd, Settled
<1>4. Settled'
  BY <1>1, <1>3 DEF Settled, streamVars
<1>5. Modes'
  BY <1>1 DEF Lose, YieldNow, PollProducer, ProducerPanics, PollPrepare,
     PrepareSucceeds, IgnoreEvent, MembersEnd, Modes
<1>6. Places'
  <2>1. CASE Lose
    BY <2>1 DEF Lose, Places
  <2>2. CASE YieldNow \/ IgnoreEvent
    BY <1>1, <2>2 DEF YieldNow, IgnoreEvent, TurnEnds, Places, streamVars
  <2>3. CASE PollProducer
    <3>1. \A s \in Streams \ fired : ~shut[s]
      BY <2>3 DEF PollProducer, Ready
    <3>. QED BY <1>1, <2>3, <3>1 DEF PollProducer, Places, Settled, streamVars
  <2>4. CASE ProducerPanics
    <3>1. \E s \in Streams : s \notin fired
      BY <2>4, SomeLeft DEF ProducerPanics, Places
    <3>. QED BY <1>1, <2>4, <3>1 DEF ProducerPanics, Places, streamVars
  <2>5. CASE PollPrepare \/ PrepareSucceeds
    BY <1>1, <2>5 DEF PollPrepare, PrepareSucceeds, Places, streamVars
  <2>6. CASE MembersEnd
    BY <1>1, <2>6 DEF MembersEnd, Places, Settled, streamVars
  <2>. QED BY <2>1, <2>2, <2>3, <2>4, <2>5, <2>6
<1>. QED BY <1>2, <1>4, <1>5, <1>6

\* TypeOK after a step that finishes members and makes no item.
LEMMA FinishedTypeOK ==
    ASSUME Control, NEW S \in SUBSET Streams, NEW o \in Outcomes, FinishMembers(S, o),
           UNCHANGED <<capacity, made, buffer, got, consumer, mode>>,
           job' \in {"select", "returned", "members"}, verdict' \in {verdict, "Completed", "Failed"},
           fired' \in SUBSET Streams, remaining' \in 0 .. Cardinality(Streams),
           routed' \in 0 .. RouteBudget,
           member' \in [Streams -> {"start", "polling", "sending", "returned"}]
    PROVE  TypeOK'
<1>1. /\ outcome' \in [Streams -> Outcomes \cup {"none"}]
      /\ shut' \in [Streams -> BOOLEAN]
      /\ delivery' = delivery \ S
  BY Finished DEF Control
<1>. QED BY <1>1 DEF Control, TypeOK, StreamTypeOK

LEMMA ClosureControl ==
    ASSUME Control, NEW s \in Streams, TakeClosure(s)
    PROVE  Control' /\ outcome' = outcome
<1>. USE DEF Control
<1>. DEFINE Q == Streams \ (fired \cup {s})
<1>1. s \in Streams \ fired /\ shut[s] /\ outcome[s] # "none" /\ "cancelled" \in Outcomes
  BY DEF TakeClosure, Ready, Settled, Outcomes
<1>2. /\ FinishMembers({s}, "cancelled") /\ {s} \in SUBSET Streams
      /\ fired' = fired \cup {s} /\ remaining' = remaining - 1 /\ job = "select"
      /\ mode' = mode /\ member' = member /\ consumer' = consumer
  BY DEF TakeClosure
<1>3. outcome' = outcome /\ shut' = shut /\ delivery' = delivery \ {s}
  <2>1. /\ outcome' \in [Streams -> Outcomes \cup {"none"}]
        /\ shut' \in [Streams -> BOOLEAN]
        /\ delivery' = delivery \ {s}
        /\ \A r \in Streams :
               /\ outcome'[r] = IF r \in {s} /\ outcome[r] = "none" THEN "cancelled" ELSE outcome[r]
               /\ shut'[r] <=> shut[r] \/ (r \in {s} /\ outcome[r] = "none")
    BY <1>1, <1>2, Finished
  <2>2. \A r \in Streams : outcome'[r] = outcome[r] /\ shut'[r] = shut[r]
    BY <1>1, <2>1 DEF TypeOK, StreamTypeOK
  <2>. QED BY <2>1, <2>2 DEF TypeOK, StreamTypeOK
<1>4. remaining = Cardinality(Streams \ fired) /\ remaining > 0
  BY <1>2 DEF Places
<1>5. /\ Cardinality(Streams \ fired) \in Nat
      /\ Cardinality(Q) = remaining - 1
      /\ remaining = 1 => Streams \subseteq fired'
  BY <1>1, <1>2, <1>4, OneFired
<1>6. remaining' \in 0 .. Cardinality(Streams) /\ routed' \in 0 .. RouteBudget
  BY <1>2, <1>4, BatchAssumption, FS_CardinalityType DEF TakeClosure, TypeOK
<1>7. job' \in {"select", "returned"} /\ verdict' \in {verdict, "Completed", "Failed"}
  BY <1>2 DEF TakeClosure, Worst
<1>8. TypeOK'
  <2>1. UNCHANGED <<capacity, made, buffer, got, consumer, mode>>
    BY DEF TakeClosure
  <2>2. /\ fired' \in SUBSET Streams /\ job' \in {"select", "returned", "members"}
        /\ member' \in [Streams -> {"start", "polling", "sending", "returned"}]
    BY <1>2, <1>7 DEF TypeOK
  <2>. QED BY <1>1, <1>2, <1>6, <1>7, <2>1, <2>2, FinishedTypeOK
<1>9. Left' = Left
  BY <1>2 DEF Left
<1>10. Settled'
  BY <1>1, <1>2, <1>3, <1>9 DEF Settled
<1>11. Modes'
  BY <1>2, <1>7 DEF Modes
<1>12. Places'
  <2>1. CASE remaining = 1
    <3>1. \A r \in Streams : outcome'[r] # "none"
      BY <2>1, <1>5, <1>10 DEF Settled
    <3>2. job' = "returned" /\ verdict' = Worst(outcome')
      BY <2>1 DEF TakeClosure
    <3>. QED BY <3>1, <3>2 DEF Places
  <2>2. CASE remaining # 1
    <3>1. remaining' > 0 /\ job' = "select"
      BY <2>2, <1>2, <1>4, <1>5 DEF TakeClosure
    <3>. QED BY <3>1, <1>2, <1>5 DEF Places
  <2>. QED BY <2>1, <2>2
<1>. QED BY <1>3, <1>8, <1>10, <1>11, <1>12

\* A turn of the multiplexed loop.
LEMMA TurnControl ==
    ASSUME Control, job = "event", job' = "select", TurnEnds, Settled', consumer' = consumer,
           StreamTypeOK', delivery' \in SUBSET Streams, verdict' = verdict
    PROVE  Control'
<1>. USE DEF Control
<1>1. routed' \in 0 .. RouteBudget
  BY BatchAssumption DEF TurnEnds, Places, TypeOK
<1>2. TypeOK'
  BY <1>1 DEF TurnEnds, TypeOK
<1>3. Modes'
  BY DEF TurnEnds, Modes
<1>4. Places'
  BY DEF TurnEnds, Places
<1>. QED BY <1>2, <1>3, <1>4

LEMMA RouteControl ==
    ASSUME Control, NEW s \in Streams,
           RouteItem(s) \/ RouteToLeaver(s) \/ \E o \in {"ok", "task"} : RouteFinished(s, o)
    PROVE  Control'
<1>. USE DEF Control
<1>1. /\ job = "event" /\ job' = "select" /\ TurnEnds /\ verdict' = verdict
      /\ UNCHANGED <<capacity, got, consumer>> /\ member' = member /\ fired' = fired
  BY DEF RouteItem, RouteToLeaver, RouteFinished, TurnEnds
<1>2. {s} \in SUBSET Streams /\ {"ok", "task", "lag", "cancelled"} \subseteq Outcomes \ {"incomplete"}
  BY DEF Outcomes
<1>3. \A r \in Streams : member[r] # "sending"
  BY <1>1 DEF Settled
<1>4. \A S \in SUBSET Streams : \A o \in Outcomes \ {"incomplete"} :
          FinishMembers(S, o) => Settled' /\ delivery' \in SUBSET Streams
              /\ outcome' \in [Streams -> Outcomes \cup {"none"}] /\ shut' \in [Streams -> BOOLEAN]
  <2>. SUFFICES ASSUME NEW S \in SUBSET Streams, NEW o \in Outcomes \ {"incomplete"},
                       FinishMembers(S, o)
                PROVE  Settled' /\ delivery' \in SUBSET Streams
                       /\ outcome' \in [Streams -> Outcomes \cup {"none"}]
                       /\ shut' \in [Streams -> BOOLEAN]
    OBVIOUS
  <2>1. Settled'
    BY <1>1, <1>3, FinishedSettled
  <2>2. /\ outcome' \in [Streams -> Outcomes \cup {"none"}] /\ shut' \in [Streams -> BOOLEAN]
        /\ delivery' = delivery \ S
    BY Finished
  <2>. QED BY <2>1, <2>2 DEF TypeOK
<1>5. CASE RouteItem(s)
  <2>1. made' \in [Streams -> 0 .. MaxItems] /\ made'[s] \in 1 .. MaxItems
    BY <1>5, StreamAssumption DEF RouteItem, MakeItem, TypeOK, StreamTypeOK
  <2>2. CASE HasRoom(s)
    <3>1. Push(s, made'[s]) /\ UNCHANGED <<outcome, shut, delivery>>
      BY <1>5, <2>2 DEF RouteItem
    <3>2. buffer' \in [Streams -> Seq(1 .. MaxItems)] /\ Left' = Left
      <4>. DEFINE n == made'[s]
      <4>. HIDE DEF n
      <4>1. n \in 1 .. MaxItems /\ Push(s, n)
        BY <2>1, <3>1 DEF n
      <4>. QED BY <4>1, <1>1, PushSends DEF TypeOK
    <3>3. StreamTypeOK' /\ delivery' \in SUBSET Streams
      BY <1>1, <2>1, <3>1, <3>2 DEF TypeOK, StreamTypeOK
    <3>4. Settled'
      BY <1>1, <1>3, <3>1, <3>2 DEF Settled
    <3>. QED BY <1>1, <3>3, <3>4, TurnControl
  <2>3. CASE ~HasRoom(s)
    <3>1. FinishMembers({s}, "lag") /\ buffer' = buffer
      BY <1>5, <2>3 DEF RouteItem
    <3>2. Settled' /\ delivery' \in SUBSET Streams
          /\ outcome' \in [Streams -> Outcomes \cup {"none"}] /\ shut' \in [Streams -> BOOLEAN]
      BY <3>1, <1>2, <1>4
    <3>3. StreamTypeOK'
      BY <1>1, <2>1, <3>1, <3>2 DEF TypeOK, StreamTypeOK
    <3>. QED BY <1>1, <3>2, <3>3, TurnControl
  <2>. QED BY <2>2, <2>3
<1>6. CASE RouteToLeaver(s) \/ \E o \in {"ok", "task"} : RouteFinished(s, o)
  <2>1. PICK o \in {"ok", "task", "cancelled"} : FinishMembers({s}, o)
    BY <1>6 DEF RouteToLeaver, RouteFinished
  <2>2. made' = made /\ buffer' = buffer
    BY <1>6 DEF RouteToLeaver, RouteFinished
  <2>3. Settled' /\ delivery' \in SUBSET Streams
        /\ outcome' \in [Streams -> Outcomes \cup {"none"}] /\ shut' \in [Streams -> BOOLEAN]
    BY <2>1, <1>2, <1>4
  <2>4. StreamTypeOK'
    BY <1>1, <2>2, <2>3 DEF TypeOK, StreamTypeOK
  <2>. QED BY <1>1, <2>3, <2>4, TurnControl
<1>. QED BY <1>5, <1>6

\* The end of a producer, or of prepare: everyone is finished.
LEMMA EveryoneControl ==
    ASSUME Control, ProducerEnds \/ \E o \in {"task", "panic"} : PrepareFails(o)
    PROVE  Control'
<1>. USE DEF Control
<1>1. PICK o \in {"ok", "task", "panic"} :
          /\ FinishMembers(Streams, o)
          /\ o = "ok" => ProducerEnds
          /\ o # "ok" => PrepareFails(o)
  BY DEF ProducerEnds, PrepareFails
<1>2. o \in Outcomes \ {"incomplete"} /\ o \in Outcomes /\ Streams \in SUBSET Streams
      /\ (o # "ok" => o \in Errors)
  BY DEF Outcomes, Errors
<1>3. /\ job' = "returned" /\ job \in {"event", "prepared"}
      /\ UNCHANGED <<capacity, made, buffer, got, consumer, mode, fired, remaining, routed>>
      /\ member' = member
  BY <1>1 DEF ProducerEnds, PrepareFails
<1>4. \A s \in Streams : outcome'[s] = IF outcome[s] = "none" THEN o ELSE outcome[s]
  BY <1>1, <1>2, Finished
<1>5. verdict' = Worst(outcome')
  <2>1. CASE o = "ok"
    BY <2>1, <1>1 DEF ProducerEnds
  <2>2. CASE o # "ok"
    <3>1. PrepareFails(o) /\ job = "prepared" /\ verdict' = "Failed"
      BY <2>2, <1>1 DEF PrepareFails
    <3>2. \A s \in Streams : outcome[s] \in Unsettled
      BY <3>1 DEF Places
    <3>3. \A s \in Streams : outcome'[s] \in Errors
      BY <2>2, <3>2, <1>2, <1>4 DEF Unsettled, Errors, Outcomes
    <3>. QED BY <3>1, <3>3, BatchAssumption DEF Worst, SomeFailed
  <2>. QED BY <2>1, <2>2
<1>6. TypeOK'
  <2>1. verdict' \in {verdict, "Completed", "Failed"}
    BY <1>5 DEF Worst
  <2>2. /\ fired' \in SUBSET Streams /\ remaining' \in 0 .. Cardinality(Streams)
        /\ routed' \in 0 .. RouteBudget /\ job' \in {"select", "returned", "members"}
        /\ member' \in [Streams -> {"start", "polling", "sending", "returned"}]
    BY <1>3 DEF TypeOK
  <2>. QED BY <1>1, <1>2, <1>3, <2>1, <2>2, FinishedTypeOK
<1>7. Settled'
  <2>1. \A s \in Streams : member'[s] # "sending"
    BY <1>3 DEF Settled
  <2>. QED BY <1>1, <1>2, <1>3, <2>1, FinishedSettled
<1>8. Modes'
  BY <1>3 DEF Modes
<1>9. Places'
  BY <1>2, <1>3, <1>4, <1>5 DEF Places, Outcomes
<1>. QED BY <1>6, <1>7, <1>8, <1>9

LEMMA DepartControl ==
    ASSUME Control, NEW s \in Streams, Depart(s)
    PROVE  Control'
<1>. USE DEF Control
<1>. DEFINE Q == Streams \ (fired \cup {s})
<1>1. /\ s \in Streams \ fired /\ shut[s] /\ job = "preparing"
      /\ fired' = fired \cup {s} /\ remaining' = remaining - 1
      /\ UNCHANGED <<capacity, made, buffer, got, consumer, outcome, shut>>
      /\ mode' = mode /\ routed' = routed /\ delivery' = delivery /\ member' = member
  BY DEF Depart, Ready, streamVars
<1>2. remaining = Cardinality(Streams \ fired) /\ remaining > 0
  BY <1>1 DEF Places
<1>3. /\ Cardinality(Q) = remaining - 1
      /\ remaining = 1 => Streams \subseteq fired'
  BY <1>1, <1>2, OneFired
<1>4. job' \in {"preparing", "returned"} /\ verdict' \in {verdict, "Failed"}
  BY <1>1 DEF Depart
<1>5. remaining' \in 0 .. Cardinality(Streams)
  BY <1>1, <1>2, BatchAssumption, FS_CardinalityType DEF TypeOK
<1>6. TypeOK'
  BY <1>1, <1>4, <1>5 DEF TypeOK, StreamTypeOK
<1>7. Left' = Left
  BY <1>1 DEF Left
<1>8. Settled'
  BY <1>1, <1>7 DEF Settled
<1>9. Modes'
  BY <1>1, <1>4 DEF Modes
<1>10. Places'
  <2>1. CASE remaining = 1
    <3>1. \A r \in Streams : outcome[r] = "cancelled"
      BY <2>1, <1>1, <1>3, <1>8 DEF Settled, Places, Unsettled
    <3>2. job' = "returned" /\ verdict' = "Failed"
      BY <2>1 DEF Depart
    <3>3. Worst(outcome') = "Failed"
      BY <3>1, <1>1, BatchAssumption DEF Worst, SomeFailed, Errors, Outcomes
    <3>. QED BY <1>1, <3>1, <3>2, <3>3 DEF Places
  <2>2. CASE remaining # 1
    <3>1. remaining' > 0 /\ job' = "preparing"
      BY <2>2, <1>1, <1>2, FS_CardinalityType DEF Depart, TypeOK
    <3>. QED BY <3>1, <1>1, <1>2, <1>3 DEF Places
  <2>. QED BY <2>1, <2>2
<1>. QED BY <1>6, <1>8, <1>9, <1>10

-----------------------------------------------------------------------------
(* The members of an independent batch, and the consumers. *)

\* Steps taken while the independent members run.
LEMMA MembersControl ==
    ASSUME Control, job = "members", sharedVars' = sharedVars, Settled', StreamTypeOK',
           delivery' \in SUBSET Streams,
           member' \in [Streams -> {"start", "polling", "sending", "returned"}]
    PROVE  Control'
BY DEF Control, TypeOK, Modes, Places, sharedVars

LEMMA ReturnControl ==
    ASSUME Control, job = "members", NEW s \in Streams, NEW o \in {"ok", "panic", "cancelled"},
           MemberReturns(s, o)
    PROVE  Control'
<1>. USE DEF Control
<1>1. /\ FinishMembers({s}, o) /\ member' = [member EXCEPT ![s] = "returned"]
      /\ UNCHANGED <<capacity, made, buffer, got, consumer>> /\ sharedVars' = sharedVars
      /\ fired' = fired /\ job' = "members"
  BY DEF MemberReturns, sharedVars
<1>2. o \in Outcomes \ {"incomplete"} /\ o \in Outcomes /\ {s} \in SUBSET Streams
  BY DEF Outcomes
<1>3. \A r \in Streams : member'[r] = IF r = s THEN "returned" ELSE member[r]
  BY <1>1 DEF TypeOK
<1>4. Settled'
  <2>1. /\ \A r \in Streams : member'[r] \in {member[r], "returned"}
        /\ \A r \in Streams : member'[r] = "returned" => r \in {s} \/ member[r] = "returned"
        /\ \A r \in Streams : member'[r] = "sending" =>
               r \notin {s} /\ job' \in {"members", "lost"} /\ made'[r] > 0
    BY <1>1, <1>3 DEF Settled
  <2>2. UNCHANGED <<consumer, fired>>
    BY <1>1
  <2>. QED BY <1>1, <1>2, <2>1, <2>2, FinishedSettled
<1>5. /\ outcome' \in [Streams -> Outcomes \cup {"none"}] /\ shut' \in [Streams -> BOOLEAN]
      /\ delivery' = delivery \ {s}
  BY <1>1, <1>2, Finished
<1>6. StreamTypeOK' /\ delivery' \in SUBSET Streams
      /\ member' \in [Streams -> {"start", "polling", "sending", "returned"}]
  BY <1>1, <1>5 DEF TypeOK, StreamTypeOK
<1>. QED BY <1>1, <1>4, <1>6, MembersControl

LEMMA MemberControl ==
    ASSUME Control, NEW s \in Streams, MemberNext(s)
    PROVE  Control'
<1>. USE DEF Control
<1>1. job = "members"
  BY DEF MemberNext, BeginMember, MemberPanics, MemberItem, MemberSends, MemberSendFails,
         MemberEnds, At
<1>2. CASE \E o \in {"ok", "panic", "cancelled"} : MemberReturns(s, o)
  BY <1>1, <1>2, ReturnControl
<1>3. CASE \E p \in {"polling", "sending"} : Goes(s, p)
  <2>1. PICK p \in {"polling", "sending"} : Goes(s, p)
    BY <1>3
  <2>2. /\ member' = [member EXCEPT ![s] = p] /\ sharedVars' = sharedVars
        /\ delivery' = delivery /\ fired' = fired /\ job' = "members"
        /\ member' \in [Streams -> {"start", "polling", "sending", "returned"}]
        /\ member[s] # "returned" /\ delivery' \in SUBSET Streams
        /\ ~ \E o \in {"ok", "panic", "cancelled"} : MemberReturns(s, o)
    <3>1. member' = [member EXCEPT ![s] = p]
      BY <2>1 DEF Goes
    <3>2. member'[s] = p /\ p # "returned"
      BY <3>1 DEF TypeOK
    <3>3. \A o \in {"ok", "panic", "cancelled"} : ~MemberReturns(s, o)
      BY <3>1, <3>2 DEF MemberReturns, TypeOK
    <3>4. member[s] # "returned"
      BY <3>3 DEF MemberNext, BeginMember, MemberPanics, MemberItem, MemberSends,
         MemberSendFails, MemberEnds, At, TypeOK
    <3>. QED BY <1>1, <2>1, <3>1, <3>3, <3>4 DEF Goes, sharedVars, TypeOK
  <2>3. CASE BeginMember(s) \/ MemberPanics(s) \/ MemberSendFails(s) \/ MemberEnds(s)
    <3>1. /\ UNCHANGED <<capacity, made, buffer, got, consumer, outcome, shut>>
          /\ member[s] = "start" /\ p = "polling"
      <4>1. BeginMember(s) /\ MemberOpen(s)
        BY <2>2, <2>3 DEF BeginMember, MemberPanics, MemberSendFails, MemberEnds
      <4>2. Goes(s, "polling") /\ UNCHANGED streamVars /\ member[s] = "start"
        BY <4>1 DEF BeginMember, At
      <4>3. p = "polling"
        BY <4>2, <2>2 DEF Goes, TypeOK
      <4>. QED BY <4>2, <4>3 DEF streamVars
    <3>2. Left' = Left
      BY <3>1 DEF Left
    <3>3. Settled'
      BY <2>2, <3>1, <3>2 DEF Settled, TypeOK
    <3>4. StreamTypeOK'
      BY <3>1 DEF TypeOK, StreamTypeOK
    <3>. QED BY <1>1, <2>2, <3>3, <3>4, MembersControl
  <2>4. CASE MemberItem(s)
    <3>1. /\ MemberOpen(s) /\ MakeItem(s)
          /\ UNCHANGED <<capacity, buffer, got, consumer, outcome, shut>>
      BY <2>2, <2>4 DEF MemberItem
    <3>2. Left' = Left
      BY <3>1 DEF Left
    <3>3. made[s] \in Nat /\ made' = [made EXCEPT ![s] = @ + 1] /\ made'[s] > 0
      BY <3>1, StreamAssumption DEF MakeItem, TypeOK, StreamTypeOK
    <3>5. Settled'
      BY <2>2, <3>1, <3>2, <3>3 DEF Settled, TypeOK, StreamTypeOK, MemberOpen, IsOpen
    <3>4. StreamTypeOK'
      BY <3>1, StreamAssumption DEF TypeOK, StreamTypeOK, MakeItem
    <3>. QED BY <1>1, <2>2, <3>4, <3>5, MembersControl
  <2>5. CASE MemberSends(s)
    <3>1. /\ Push(s, made[s]) /\ Goes(s, "polling")
          /\ UNCHANGED <<capacity, made, got, consumer, outcome, shut>>
      BY <2>5 DEF MemberSends
    <3>2. p = "polling"
      BY <3>1, <2>2 DEF Goes, TypeOK
    <3>3. Left' = Left
      BY <3>1 DEF Left
    <3>4. Settled'
      BY <2>2, <3>1, <3>2, <3>3 DEF Settled, TypeOK
    <3>5. buffer' \in [Streams -> Seq(1 .. MaxItems)]
      <4>. DEFINE n == made[s]
      <4>1. n \in 1 .. MaxItems /\ Push(s, n)
        BY <2>5, <3>1, StreamAssumption DEF MemberSends, At, Settled, TypeOK, StreamTypeOK
      <4>. HIDE DEF n
      <4>. QED BY <4>1, <3>1, PushSends DEF TypeOK
    <3>6. StreamTypeOK'
      BY <3>1, <3>5 DEF TypeOK, StreamTypeOK
    <3>. QED BY <1>1, <2>2, <3>4, <3>6, MembersControl
  <2>. QED BY <2>3, <2>4, <2>5 DEF MemberNext
<1>. QED BY <1>2, <1>3 DEF MemberNext, BeginMember, MemberPanics, MemberItem, MemberSends,
            MemberSendFails, MemberEnds

LEMMA ConsumerControl ==
    ASSUME Control, NEW s \in Streams, Consumer(s)
    PROVE  Control'
<1>. USE DEF Control
<1>1. /\ UNCHANGED <<mode, job, verdict, fired, remaining, routed, delivery, member>>
      /\ capacity' = capacity /\ made' = made /\ StreamTypeOK
  BY DEF Consumer, batchVars, ConsumerNext, Take, Leave, CloseSignal, HangUp, TypeOK
<1>2. \A r \in Streams :
          /\ outcome'[r] = IF Leave(s) /\ r = s /\ outcome[r] = "none" THEN "cancelled" ELSE outcome[r]
          /\ r \in Left' => r \in Left \/ outcome'[r] # "none"
          /\ r \in Left => r \in Left'
          /\ shut'[r] <=> shut[r] \/ (r = s /\ CloseSignal(s))
  <2>1. CASE Take(s) \/ HangUp(s)
    <3>1. UNCHANGED <<outcome, shut>> /\ Left' = Left /\ ~Leave(s) /\ ~CloseSignal(s)
      BY <2>1, <1>1 DEF Take, HangUp, Leave, CloseSignal, Left, StreamTypeOK
    <3>. QED BY <3>1
  <2>2. CASE Leave(s)
    <3>1. Finish({s}, "cancelled") /\ shut' = shut /\ ~CloseSignal(s)
      BY <2>2, BatchAssumption DEF Leave, CloseSignal
    <3>2. Left' = Left \cup {s}
      BY <2>2, <1>1 DEF Leave, Left, StreamTypeOK
    <3>. QED BY <2>2, <3>1, <3>2, <1>1 DEF Finish, StreamTypeOK, Settled
  <2>3. CASE CloseSignal(s)
    <3>1. outcome' = outcome /\ shut' = [shut EXCEPT ![s] = TRUE] /\ Left' = Left /\ ~Leave(s)
      BY <2>3, <1>1 DEF CloseSignal, Leave, Left, StreamTypeOK
    <3>. QED BY <2>3, <3>1, <1>1 DEF StreamTypeOK
  <2>. QED BY <2>1, <2>2, <2>3 DEF Consumer, ConsumerNext
<1>3. StreamTypeOK'
  <2>1. Take(s) => StreamTypeOK'
    BY <1>1, TakeRefines
  <2>2. Leave(s) => StreamTypeOK'
    BY <1>1, LeaveRefines
  <2>3. CloseSignal(s) \/ HangUp(s) => StreamTypeOK'
    BY <1>1, DropRefines
  <2>. QED BY <2>1, <2>2, <2>3 DEF Consumer, ConsumerNext
<1>4. TypeOK' /\ Modes'
  BY <1>1, <1>3 DEF TypeOK, Modes
<1>5. CloseSignal(s) => s \in Left /\ outcome[s] # "none"
  BY DEF CloseSignal, Left, Settled
<1>6. Settled'
  <2>. SUFFICES ASSUME NEW r \in Streams
                PROVE  /\ r \notin delivery' => outcome'[r] # "none"
                       /\ shut'[r] => outcome'[r] # "none"
                       /\ outcome'[r] \notin Unsettled => shut'[r]
                       /\ r \in fired' => shut'[r]
                       /\ r \in Left' => outcome'[r] # "none"
                       /\ member'[r] = "returned" => r \notin delivery'
                       /\ member'[r] = "sending" => job' \in {"members", "lost"} /\ made'[r] > 0
                       /\ member'[r] = "sending" /\ r \notin Left' => outcome'[r] = "none"
                       /\ outcome'[r] # "incomplete"
    BY DEF Settled
  <2>1. Leave(s) => s \in Left'
    BY DEF Leave, Left, TypeOK, StreamTypeOK
  <2>2. CASE Leave(s) /\ r = s /\ outcome[r] = "none"
    BY <2>2, <2>1, <1>1, <1>2, <1>5 DEF Settled, Unsettled
  <2>3. CASE ~(Leave(s) /\ r = s /\ outcome[r] = "none")
    BY <2>3, <1>1, <1>2, <1>5 DEF Settled, Unsettled
  <2>. QED BY <2>2, <2>3
<1>7. Places'
  <2>1. CASE job \in {"returned", "ended"}
    <3>1. \A r \in Streams : outcome'[r] = outcome[r]
      BY <2>1, <1>2 DEF Places
    <3>2. outcome' = outcome
      BY <3>1, <1>1, <1>3 DEF StreamTypeOK
    <3>. QED BY <2>1, <3>2, <1>1 DEF Places
  <2>2. CASE job \notin {"returned", "ended"}
    <3>1. \A r \in Streams : outcome[r] \in Unsettled => outcome'[r] \in Unsettled
      BY <1>2 DEF Unsettled
    <3>. QED BY <2>2, <3>1, <1>1 DEF Places
  <2>. QED BY <2>1, <2>2
<1>. QED BY <1>4, <1>6, <1>7

-----------------------------------------------------------------------------

LEMMA StepControl == Control /\ [Next]_vars => Control'
<1>. SUFFICES ASSUME Control, [Next]_vars PROVE Control'
  OBVIOUS
<1>1. CASE Start \/ Conclude \/ ConcludePanic
  BY <1>1, StartControl, ConcludeControl, PanicControl
<1>2. CASE \/ Lose \/ YieldNow \/ PollProducer \/ ProducerPanics \/ PollPrepare
           \/ PrepareSucceeds \/ IgnoreEvent \/ MembersEnd
  BY <1>2, MovesControl
<1>3. CASE ProducerEnds \/ \E o \in {"task", "panic"} : PrepareFails(o)
  BY <1>3, EveryoneControl
<1>4. ASSUME NEW s \in Streams, TakeClosure(s) PROVE Control'
  BY <1>4, ClosureControl
<1>5. ASSUME NEW s \in Streams,
             RouteItem(s) \/ RouteToLeaver(s) \/ \E o \in {"ok", "task"} : RouteFinished(s, o)
      PROVE  Control'
  BY <1>5, RouteControl
<1>6. ASSUME NEW s \in Streams, Depart(s) PROVE Control'
  BY <1>6, DepartControl
<1>7. ASSUME NEW s \in Streams, MemberNext(s) PROVE Control'
  BY <1>7, MemberControl
<1>8. ASSUME NEW s \in Streams, Consumer(s) PROVE Control'
  BY <1>8, ConsumerControl
<1>9. CASE UNCHANGED vars
  BY <1>9 DEF Control, TypeOK, StreamTypeOK, Settled, Modes, Places, vars, streamVars, Left,
              Worst, SomeFailed
<1>. QED
  BY <1>1, <1>2, <1>3, <1>4, <1>5, <1>6, <1>7, <1>8, <1>9 DEF Next, MultiplexedNext, IndependentNext

\* The control invariant.
THEOREM ControlInvariant == Spec => []Control
<1>1. Init => Control
  BY InitControl
<1>2. Control /\ [Next]_vars => Control'
  BY StepControl
<1>. QED BY <1>1, <1>2, PTL DEF Spec

\* The loops never count a closure twice or forget one, in batches of any size.
THEOREM ClosuresAgree == Spec => []ClosuresSound
<1>1. Control => ClosuresSound
  BY DEF Control, Places, ClosuresSound, ClosuresCounted
<1>. QED BY <1>1, ControlInvariant, PTL

\* A batch that ended has settled every member and reports the worst of them.
THEOREM AllSettled == Spec => []EndsSettled
<1>1. Control => EndsSettled
  BY DEF Control, Settled, Places, EndsSettled
<1>. QED BY <1>1, ControlInvariant, PTL

-----------------------------------------------------------------------------
(* The promise.  While a stream is undecided, the only item its consumer   *)
(* may lack is the one that its member is about to send.                   *)

Held(s) == IF member[s] = "sending" THEN 1 ELSE 0

Items ==
    \A s \in Streams :
        /\ Len(buffer[s]) <= capacity[s]
        /\ s \notin Left /\ outcome[s] = "none" => made[s] = Len(Sent[s]) + Held(s)

PromiseStep == [Promise!Next]_(Promise!vars)

LEMMA InitItems == Init => Items /\ Promise!Init
<1>. SUFFICES ASSUME Init PROVE Items /\ Promise!Init
  OBVIOUS
<1>1. Left = {} /\ \A s \in Streams : capacity[s] \in Nat
  BY StreamAssumption DEF Init, StreamInit, Left
<1>2. Sent = [s \in Streams |-> <<>>]
  <2>1. <<>> \o <<>> = <<>>
    BY ConcatEmptySeq
  <2>. QED BY <1>1, <2>1 DEF Sent, Init, StreamInit
<1>3. Promise!Init
  BY <1>1, <1>2 DEF Promise!Init, Sent, Init, StreamInit
<1>. QED BY <1>1, <1>2, <1>3 DEF Init, StreamInit, Items, Held

LEMMA StutterItems ==
    ASSUME Items, UNCHANGED <<streamVars, member>>
    PROVE  Items' /\ PromiseStep
<1>1. Left' = Left /\ Sent' = Sent
  BY DEF streamVars, Left, Sent
<1>. QED BY <1>1 DEF Items, Held, streamVars, PromiseStep, Promise!vars, Sent

\* Outcomes for the members of S.
LEMMA SettleItems ==
    ASSUME Control, Items, NEW S \in SUBSET Streams, NEW o \in Outcomes,
           FinishMembers(S, o) \/ SetTerminal(S, o),
           UNCHANGED <<capacity, made, buffer, got, consumer>>,
           o = "ok" => \A s \in S : member[s] # "sending",
           \A s \in Streams : member'[s] = member[s] \/ s \in S
    PROVE  Items' /\ PromiseStep
<1>1. \A s \in Streams :
          outcome'[s] = IF s \in S /\ outcome[s] = "none" THEN o ELSE outcome[s]
  BY Finished, Claims DEF Control
<1>2. outcome' \in [Streams -> Outcomes \cup {"none"}]
  BY Finished, Claims DEF Control
<1>. DEFINE D == {s \in S : outcome[s] = "none"}
<1>3. D \in SUBSET Streams /\ Finish(D, o)
  BY <1>1, <1>2 DEF Finish
<1>4. o = "ok" => \A s \in D : s \in Left \/ made[s] = Len(Sent[s])
  <2>. SUFFICES ASSUME o = "ok", NEW s \in D, s \notin Left PROVE made[s] = Len(Sent[s])
    OBVIOUS
  <2>1. Held(s) = 0 /\ made[s] = Len(Sent[s]) + Held(s) /\ s \in Streams
    BY DEF Items, Held
  <2>2. Len(Sent[s]) \in Nat
    BY <2>1, SentType DEF Control, TypeOK
  <2>. QED BY <2>1, <2>2
<1>5. Promise!Settle(D, o) /\ Left' = Left /\ Sent' = Sent
  <2>1. StreamTypeOK /\ UNCHANGED <<made, got, buffer, consumer>>
    BY DEF Control, TypeOK
  <2>. HIDE DEF D
  <2>. QED BY <1>3, <1>4, <2>1, FinishSettles
<1>6. o # "none"
  BY DEF Outcomes
<1>7. Items'
  BY <1>1, <1>5, <1>6 DEF Items, Held
<1>8. PromiseStep
  <2>. HIDE DEF D
  <2>. QED BY <1>3, <1>5 DEF PromiseStep, Promise!Next
<1>. QED BY <1>7, <1>8

LEMMA RouteItemItems ==
    ASSUME Control, Items, NEW s \in Streams, RouteItem(s)
    PROVE  Items' /\ PromiseStep
<1>1. /\ job = "event" /\ outcome[s] = "none" /\ MakeItem(s)
      /\ UNCHANGED <<capacity, got, consumer>> /\ member' = member
      /\ StreamTypeOK /\ s \notin Left /\ member[s] # "sending"
  BY DEF RouteItem, MemberOpen, IsOpen, TurnEnds, Control, TypeOK, Settled
<1>2. Len(Sent[s]) \in Nat
  BY <1>1, SentType
<1>3. made[s] = Len(Sent[s]) /\ made[s] < MaxItems /\ made' = [made EXCEPT ![s] = @ + 1]
      /\ made'[s] = made[s] + 1 /\ made'[s] \in 1 .. MaxItems
  <2>1. Held(s) = 0 /\ made[s] = Len(Sent[s]) + Held(s)
    BY <1>1 DEF Items, Held
  <2>2. made[s] \in 0 .. MaxItems /\ MaxItems \in Nat
    BY <1>1, StreamAssumption DEF StreamTypeOK
  <2>3. made[s] < MaxItems /\ made' = [made EXCEPT ![s] = @ + 1] /\ made'[s] = made[s] + 1
    BY <1>1 DEF MakeItem, StreamTypeOK
  <2>. QED BY <1>2, <2>1, <2>2, <2>3
<1>4. Left' = Left
  BY <1>1 DEF Left
<1>5. CASE HasRoom(s)
  <2>1. Push(s, made'[s]) /\ outcome' = outcome
    BY <1>5 DEF RouteItem
  <2>2. Sent' = [Sent EXCEPT ![s] = Append(@, made[s] + 1)]
    <3>. DEFINE n == made'[s]
    <3>. HIDE DEF n
    <3>1. n \in 1 .. MaxItems /\ Push(s, n) /\ n = made[s] + 1
      BY <1>3, <2>1 DEF n
    <3>2. Sent' = [Sent EXCEPT ![s] = Append(@, n)]
      BY <1>1, <3>1, PushSends
    <3>. QED BY <3>1, <3>2
  <2>3. Promise!Send(s)
    BY <1>1, <1>3, <1>4, <2>1, <2>2 DEF Promise!Send, Sent
  <2>4. PromiseStep
    BY <2>3 DEF PromiseStep, Promise!Next
  <2>5. \A r \in Streams : Len(buffer'[r]) <= capacity[r]
    <3>1. Len(Append(buffer[s], made'[s])) = Len(buffer[s]) + 1
      <4>1. buffer[s] \in Seq(1 .. MaxItems)
        BY <1>1 DEF StreamTypeOK
      <4>. QED BY <4>1, <1>3, AppendProperties
    <3>2. Len(buffer[s]) \in Nat /\ capacity[s] \in Nat /\ Len(buffer[s]) < capacity[s]
      <4>1. buffer[s] \in Seq(1 .. MaxItems)
        BY <1>1 DEF StreamTypeOK
      <4>. QED BY <4>1, <1>1, <1>5, StreamAssumption, LenProperties DEF StreamTypeOK, HasRoom
    <3>. QED BY <1>1, <2>1, <3>1, <3>2 DEF Push, Items, StreamTypeOK
  <2>6. Len(Sent'[s]) = Len(Sent[s]) + 1 /\ \A r \in Streams \ {s} : Sent'[r] = Sent[r]
    <3>1. Sent[s] \in Seq(1 .. MaxItems) /\ made[s] + 1 \in 1 .. MaxItems
      BY <1>1, <1>3, SentType
    <3>2. Sent'[s] = Append(Sent[s], made[s] + 1) /\ \A r \in Streams \ {s} : Sent'[r] = Sent[r]
      BY <2>2 DEF Sent
    <3>3. Len(Append(Sent[s], made[s] + 1)) = Len(Sent[s]) + 1
      <4>. DEFINE a == Sent[s]
                  n == made[s] + 1
      <4>. HIDE DEF a, n
      <4>1. a \in Seq(1 .. MaxItems) /\ n \in 1 .. MaxItems
        BY <3>1 DEF a, n
      <4>2. Len(Append(a, n)) = Len(a) + 1
        BY <4>1, AppendProperties
      <4>. QED BY <4>2 DEF a, n
    <3>. QED BY <3>2, <3>3
  <2>7. Items'
    <3>1. made'[s] = Len(Sent'[s]) + Held(s)' /\ capacity' = capacity
      BY <1>1, <1>2, <1>3, <2>6 DEF Held
    <3>2. \A r \in Streams \ {s} : made'[r] = made[r] /\ Held(r)' = Held(r)
      BY <1>1, <1>3 DEF Held, StreamTypeOK
    <3>. QED BY <3>1, <3>2, <1>4, <2>1, <2>5, <2>6 DEF Items
  <2>. QED BY <2>4, <2>7
<1>6. CASE ~HasRoom(s)
  <2>1. FinishMembers({s}, "lag") /\ buffer' = buffer /\ "lag" \in Outcomes /\ {s} \in SUBSET Streams
    BY <1>6 DEF RouteItem, Outcomes
  <2>2. \A r \in Streams : outcome'[r] = IF r \in {s} /\ outcome[r] = "none" THEN "lag" ELSE outcome[r]
    BY <2>1, Finished DEF Control
  <2>3. outcome' \in [Streams -> Outcomes \cup {"none"}]
    BY <2>1, Finished DEF Control
  <2>4. outcome' = [outcome EXCEPT ![s] = "lag"]
    BY <1>1, <2>2, <2>3 DEF StreamTypeOK
  <2>5. Sent' = Sent
    BY <1>1, <1>4, <2>1 DEF Sent
  <2>6. Promise!Refuse(s, "lag")
    BY <1>1, <1>3, <1>4, <2>4, <2>5 DEF Promise!Refuse, Sent
  <2>7. PromiseStep
    BY <2>1, <2>6 DEF PromiseStep, Promise!Next
  <2>8. Items'
    BY <1>1, <1>3, <1>4, <2>1, <2>2, <2>5 DEF Items, Held, StreamTypeOK
  <2>. QED BY <2>7, <2>8
<1>. QED BY <1>5, <1>6

\* An independent member that makes an item, or sends it.
LEMMA MemberItems ==
    ASSUME Control, Items, NEW s \in Streams, MemberNext(s)
    PROVE  Items' /\ PromiseStep
<1>1. CASE \E o \in {"ok", "panic", "cancelled"} : MemberReturns(s, o) /\ (o = "ok" => member[s] # "sending")
  <2>1. PICK o \in {"ok", "panic", "cancelled"} :
            MemberReturns(s, o) /\ (o = "ok" => member[s] # "sending")
    BY <1>1
  <2>2. FinishMembers({s}, o) /\ {s} \in SUBSET Streams /\ o \in Outcomes
        /\ UNCHANGED <<capacity, made, buffer, got, consumer>>
        /\ \A r \in Streams : member'[r] = member[r] \/ r \in {s}
    BY <2>1 DEF MemberReturns, Outcomes, Control, TypeOK
  <2>. QED BY <2>1, <2>2, SettleItems
<1>2. CASE BeginMember(s) /\ MemberOpen(s)
  <2>1. UNCHANGED streamVars /\ member' = [member EXCEPT ![s] = "polling"] /\ member[s] = "start"
    BY <1>2 DEF BeginMember, Goes, At
  <2>2. \A r \in Streams : Held(r)' = Held(r)
    BY <2>1 DEF Held, Control, TypeOK
  <2>3. Left' = Left /\ Sent' = Sent
    BY <2>1 DEF streamVars, Left, Sent
  <2>. QED BY <2>1, <2>2, <2>3 DEF Items, streamVars, PromiseStep, Promise!vars, Sent
<1>3. CASE MemberItem(s) /\ MemberOpen(s)
  <2>1. /\ MakeItem(s) /\ member' = [member EXCEPT ![s] = "sending"] /\ member[s] = "polling"
        /\ UNCHANGED <<capacity, buffer, got, consumer, outcome, shut>>
        /\ outcome[s] = "none" /\ StreamTypeOK /\ s \notin Left
    BY <1>3 DEF MemberItem, Goes, At, MemberOpen, IsOpen, Control, TypeOK, Settled
  <2>2. Left' = Left /\ Sent' = Sent
    BY <2>1 DEF Left, Sent
  <2>3. Len(Sent[s]) \in Nat
    BY <2>1, SentType
  <2>4. made[s] = Len(Sent[s]) /\ made' = [made EXCEPT ![s] = @ + 1]
    <3>1. Held(s) = 0 /\ made[s] = Len(Sent[s]) + Held(s)
      BY <2>1 DEF Items, Held
    <3>. QED BY <3>1, <2>1, <2>3 DEF MakeItem
  <2>5. Promise!Make(s)
    BY <2>1, <2>2, <2>4 DEF Promise!Make, Promise!Undecided, MakeItem, Sent
  <2>6. made'[s] = Len(Sent'[s]) + Held(s)'
    BY <2>1, <2>2, <2>4 DEF Held, Control, TypeOK, StreamTypeOK
  <2>7. \A r \in Streams \ {s} : made'[r] = made[r] /\ Held(r)' = Held(r)
    BY <2>1, <2>4 DEF Held, Control, TypeOK, StreamTypeOK
  <2>8. Items'
    BY <2>1, <2>2, <2>6, <2>7 DEF Items
  <2>. QED BY <2>5, <2>8 DEF PromiseStep, Promise!Next
<1>4. CASE MemberSends(s)
  <2>1. /\ Push(s, made[s]) /\ HasRoom(s) /\ member' = [member EXCEPT ![s] = "polling"]
        /\ member[s] = "sending" /\ UNCHANGED <<capacity, made, got, consumer, outcome, shut>>
        /\ StreamTypeOK /\ (s \notin Left => outcome[s] = "none") /\ made[s] > 0
    BY <1>4 DEF MemberSends, Goes, At, Control, TypeOK, Settled
  <2>. DEFINE n == made[s]
  <2>2. n \in 1 .. MaxItems
    BY <2>1, StreamAssumption DEF StreamTypeOK
  <2>3. /\ Left' = Left
        /\ s \in Left => Sent' = Sent
        /\ s \notin Left => Sent' = [Sent EXCEPT ![s] = Append(@, made[s])]
    <3>1. n \in 1 .. MaxItems /\ Push(s, n)
      BY <2>1, <2>2
    <3>2. s \notin Left => Sent' = [Sent EXCEPT ![s] = Append(@, n)]
      <4>. HIDE DEF n
      <4>. QED BY <2>1, <3>1, PushSends
    <3>3. Left' = Left /\ (s \in Left => Sent' = Sent)
      <4>. HIDE DEF n
      <4>. QED BY <2>1, <3>1, PushSends
    <3>. QED BY <3>2, <3>3
  <2>4. \A r \in Streams : Len(buffer'[r]) <= capacity[r]
    <3>1. buffer[s] \in Seq(1 .. MaxItems)
      BY <2>1 DEF StreamTypeOK
    <3>2. Len(Append(buffer[s], made[s])) = Len(buffer[s]) + 1
      <4>. HIDE DEF n
      <4>1. Len(Append(buffer[s], n)) = Len(buffer[s]) + 1
        BY <2>2, <3>1, AppendProperties
      <4>. QED BY <4>1 DEF n
    <3>3. Len(buffer[s]) \in Nat /\ capacity[s] \in Nat /\ Len(buffer[s]) < capacity[s]
      BY <2>1, <3>1, StreamAssumption, LenProperties DEF StreamTypeOK, HasRoom
    <3>. QED BY <2>1, <3>2, <3>3 DEF Push, Items, StreamTypeOK
  <2>5. \A r \in Streams \ {s} : Held(r)' = Held(r)
    BY <2>1 DEF Held, Control, TypeOK
  <2>6. CASE s \in Left
    <3>1. Items'
      BY <2>1, <2>3, <2>4, <2>5, <2>6 DEF Items
    <3>2. PromiseStep
      BY <2>1, <2>3, <2>6 DEF PromiseStep, Promise!vars, Sent
    <3>. QED BY <3>1, <3>2
  <2>7. CASE s \notin Left
    <3>1. Sent[s] \in Seq(1 .. MaxItems) /\ Len(Sent[s]) \in Nat
      BY <2>1, SentType, LenProperties
    <3>2. made[s] = Len(Sent[s]) + 1
      <4>1. Held(s) = 1 /\ made[s] = Len(Sent[s]) + Held(s)
        BY <2>1, <2>7 DEF Items, Held
      <4>. QED BY <4>1
    <3>3. Promise!Accept(s)
      BY <2>1, <2>3, <2>7, <3>2 DEF Promise!Accept, Sent
    <3>4. PromiseStep
      BY <3>3 DEF PromiseStep, Promise!Next
    <3>5. Sent'[s] = Append(Sent[s], made[s]) /\ \A r \in Streams \ {s} : Sent'[r] = Sent[r]
      BY <2>3, <2>7 DEF Sent
    <3>6. Len(Sent'[s]) = Len(Sent[s]) + 1
      <4>. DEFINE a == Sent[s]
      <4>. HIDE DEF a, n
      <4>1. Len(Append(a, n)) = Len(a) + 1
        BY <2>2, <3>1, AppendProperties DEF a
      <4>. QED BY <4>1, <3>5 DEF a, n
    <3>7. made'[s] = Len(Sent'[s]) + Held(s)'
      <4>1. Held(s)' = 0
        BY <2>1 DEF Held, Control, TypeOK
      <4>. QED BY <4>1, <2>1, <3>1, <3>2, <3>6
    <3>8. Items'
      BY <2>1, <2>3, <2>4, <2>5, <3>5, <3>7 DEF Items
    <3>. QED BY <3>4, <3>8
  <2>. QED BY <2>6, <2>7
<1>. QED
  BY <1>1, <1>2, <1>3, <1>4 DEF MemberNext, BeginMember, MemberPanics, MemberItem, MemberSends,
     MemberSendFails, MemberEnds, At

LEMMA ConsumerItems ==
    ASSUME Control, Items, NEW s \in Streams, Consumer(s)
    PROVE  Items' /\ PromiseStep
<1>1. StreamTypeOK /\ UNCHANGED member /\ capacity' = capacity /\ made' = made
  BY DEF Control, TypeOK, Consumer, batchVars, ConsumerNext, Take, Leave, CloseSignal, HangUp
<1>2. \A r \in Streams : Len(buffer'[r]) <= capacity'[r]
  <2>1. CASE Take(s)
    <3>1. buffer[s] \in Seq(1 .. MaxItems) /\ buffer[s] # <<>> /\ capacity[s] \in Nat
      BY <1>1, <2>1, StreamAssumption DEF Take, StreamTypeOK
    <3>2. Len(Tail(buffer[s])) = Len(buffer[s]) - 1 /\ Len(buffer[s]) \in Nat
      BY <3>1, HeadTailProperties, LenProperties
    <3>3. buffer' = [buffer EXCEPT ![s] = Tail(@)]
      BY <2>1 DEF Take
    <3>. QED BY <1>1, <3>1, <3>2, <3>3 DEF Items, StreamTypeOK
  <2>2. CASE Leave(s) \/ CloseSignal(s)
    BY <1>1, <2>2 DEF Leave, CloseSignal, Items
  <2>3. CASE HangUp(s)
    <3>1. buffer' = [buffer EXCEPT ![s] = <<>>] /\ \A r \in Streams : capacity[r] \in Nat
      BY <1>1, <2>3, StreamAssumption DEF HangUp, StreamTypeOK
    <3>. QED BY <1>1, <3>1 DEF Items, StreamTypeOK
  <2>. QED BY <2>1, <2>2, <2>3 DEF Consumer, ConsumerNext
<1>3. CASE Take(s)
  <2>1. Promise!Take(s) /\ Sent' = Sent
    BY <1>1, <1>3, TakeRefines
  <2>2. Left' = Left /\ outcome' = outcome
    BY <1>3 DEF Take, Left
  <2>. QED BY <1>1, <1>2, <2>1, <2>2 DEF Items, Held, PromiseStep, Promise!Next
<1>4. CASE Leave(s)
  <2>1. Promise!Leave(s, DropError) /\ s \in Left'
    BY <1>1, <1>4, LeaveRefines
  <2>2. DropError \in Outcomes
    BY StreamAssumption, BatchAssumption DEF Outcomes
  <2>3. PromiseStep
    BY <2>1, <2>2 DEF PromiseStep, Promise!Next
  <2>4. \A r \in Streams \ {s} : outcome'[r] = outcome[r] /\ (r \in Left' <=> r \in Left)
                                  /\ got'[r] = got[r] /\ buffer'[r] = buffer[r]
    BY <1>1, <1>4, BatchAssumption DEF Leave, Finish, Left, StreamTypeOK
  <2>5. \A r \in Streams \ {s} : Sent'[r] = Sent[r]
    BY <2>4 DEF Sent
  <2>. QED BY <1>1, <1>2, <2>1, <2>3, <2>4, <2>5 DEF Items, Held
<1>5. CASE CloseSignal(s) \/ HangUp(s)
  <2>1. UNCHANGED Promise!vars /\ Left' = Left /\ Sent' = Sent
    BY <1>1, <1>5, DropRefines
  <2>2. outcome' = outcome
    BY <1>5 DEF CloseSignal, HangUp
  <2>. QED BY <1>1, <1>2, <2>1, <2>2 DEF Items, Held, PromiseStep
<1>. QED BY <1>3, <1>4, <1>5 DEF Consumer, ConsumerNext

LEMMA StepItems ==
    ASSUME Control, Items, [Next]_vars
    PROVE  Items' /\ PromiseStep
<1>1. CASE \/ Lose \/ YieldNow \/ PollProducer \/ ProducerPanics \/ PollPrepare \/ UNCHANGED vars
           \/ PrepareSucceeds \/ IgnoreEvent \/ MembersEnd \/ \E s \in Streams : Depart(s)
  <2>1. UNCHANGED <<streamVars, member>>
    BY <1>1 DEF Lose, YieldNow, PollProducer, ProducerPanics, PollPrepare, PrepareSucceeds,
       IgnoreEvent, MembersEnd, Depart, TurnEnds, vars
  <2>. QED BY <2>1, StutterItems
<1>2. CASE Start
  <2>1. UNCHANGED <<capacity, made, buffer, got, consumer, outcome, member>>
    BY <1>2, StartControl DEF Start
  <2>2. Left' = Left /\ Sent' = Sent
    BY <2>1 DEF Left, Sent
  <2>. QED BY <2>1, <2>2 DEF Items, Held, PromiseStep, Promise!vars, Sent
<1>3. CASE Conclude
  <2>1. UNCHANGED <<capacity, made, buffer, got, consumer, outcome, member>>
    BY <1>3, ConcludeControl DEF Conclude
  <2>2. Left' = Left /\ Sent' = Sent
    BY <2>1 DEF Left, Sent
  <2>. QED BY <2>1, <2>2 DEF Items, Held, PromiseStep, Promise!vars, Sent
<1>4. CASE ConcludePanic
  <2>1. /\ SetTerminal(Streams, "panic") /\ Streams \in SUBSET Streams /\ "panic" \in Outcomes
        /\ UNCHANGED <<capacity, made, buffer, got, consumer>> /\ member' = member
    BY <1>4 DEF ConcludePanic, Outcomes
  <2>. QED BY <2>1, SettleItems
<1>5. CASE ProducerEnds \/ \E o \in {"task", "panic"} : PrepareFails(o)
  <2>1. PICK o \in {"ok", "task", "panic"} :
            /\ FinishMembers(Streams, o) /\ job \in {"event", "prepared"}
            /\ UNCHANGED <<capacity, made, buffer, got, consumer>> /\ member' = member
    BY <1>5 DEF ProducerEnds, PrepareFails
  <2>2. o \in Outcomes /\ Streams \in SUBSET Streams /\ \A s \in Streams : member[s] # "sending"
    BY <2>1 DEF Outcomes, Control, Settled
  <2>. QED BY <2>1, <2>2, SettleItems
<1>6. ASSUME NEW s \in Streams,
             TakeClosure(s) \/ RouteToLeaver(s) \/ \E o \in {"ok", "task"} : RouteFinished(s, o)
      PROVE  Items' /\ PromiseStep
  <2>1. PICK o \in {"ok", "task", "cancelled"} :
            /\ FinishMembers({s}, o) /\ job \in {"event", "select"}
            /\ UNCHANGED <<capacity, made, buffer, got, consumer>> /\ member' = member
    BY <1>6 DEF TakeClosure, RouteToLeaver, RouteFinished, TurnEnds
  <2>2. o \in Outcomes /\ {s} \in SUBSET Streams /\ \A r \in Streams : member[r] # "sending"
    BY <2>1 DEF Outcomes, Control, Settled
  <2>. QED BY <2>1, <2>2, SettleItems
<1>7. ASSUME NEW s \in Streams, RouteItem(s) PROVE Items' /\ PromiseStep
  BY <1>7, RouteItemItems
<1>8. ASSUME NEW s \in Streams, MemberNext(s) PROVE Items' /\ PromiseStep
  BY <1>8, MemberItems
<1>9. ASSUME NEW s \in Streams, Consumer(s) PROVE Items' /\ PromiseStep
  BY <1>9, ConsumerItems
<1>. QED
  BY <1>1, <1>2, <1>3, <1>4, <1>5, <1>6, <1>7, <1>8, <1>9 DEF Next, MultiplexedNext, IndependentNext

\* A batch of streams keeps the promise made to each of its consumers, whoever leaves,
\* lags, fails or panics, in either mode.
THEOREM Implementation == Spec => ImplementsPromise
<1>1. Init => Control /\ Items /\ Promise!Init
  BY InitControl, InitItems
<1>2. Control /\ Items /\ [Next]_vars => Control' /\ Items'
  BY StepControl, StepItems
<1>3. Control /\ Items /\ [Next]_vars => [Promise!Next]_(Promise!vars)
  BY StepItems DEF PromiseStep
<1>. QED BY <1>1, <1>2, <1>3, PTL DEF Spec, Promise!Spec, ImplementsPromise

\* So each consumer of a batch has its items in order and without gaps, Ok only after all
\* of its own were sent, and one outcome that stays.
THEOREM PromiseKept ==
    Spec => []Promise!InOrder /\ []Promise!OkMeansAll /\ Promise!OutcomeIsFinal
BY Implementation, ItemsInOrder, OkIsComplete, FirstOutcomeWins DEF ImplementsPromise

-----------------------------------------------------------------------------
(* Faults *)

Decided == {s \in Streams : outcome'[s] # outcome[s]}

LocalStep ==
    /\ \A s \in Decided :
           /\ outcome'[s] = "cancelled" => consumer'[s] # "here"
           /\ outcome'[s] = "lag" => mode = "multiplexed" /\ Len(buffer[s]) = capacity[s]
    /\ Cardinality(Decided) > 1 =>
           \/ mode = "multiplexed" /\ job'= "returned" /\ \A s \in Decided : outcome'[s] = "ok"
           \/ job \in {"panicked", "prepared"}

\* A step that decides one stream, and not for another one's cause.
LEMMA OneDecided ==
    ASSUME NEW s \in Streams, \A r \in Streams \ {s} : outcome'[r] = outcome[r],
           outcome'[s] # outcome[s] =>
               /\ outcome'[s] = "cancelled" => consumer'[s] # "here"
               /\ outcome'[s] = "lag" => mode = "multiplexed" /\ Len(buffer[s]) = capacity[s]
    PROVE  LocalStep
<1>1. Decided \subseteq {s} /\ IsFiniteSet({s}) /\ Cardinality({s}) = 1
  BY FS_Singleton DEF Decided
<1>2. Cardinality(Decided) <= 1 /\ Cardinality(Decided) \in Nat
  BY <1>1, FS_Subset, FS_CardinalityType
<1>3. \A r \in Decided : r = s /\ outcome'[s] # outcome[s]
  BY DEF Decided
<1>4. ~(Cardinality(Decided) > 1)
  BY <1>2
<1>. QED BY <1>3, <1>4 DEF LocalStep

LEMMA NoneDecided == ASSUME outcome' = outcome PROVE LocalStep
BY FS_EmptySet DEF LocalStep, Decided

\* One member is finished.
LEMMA MemberDecided ==
    ASSUME Control, NEW s \in Streams, NEW o \in Outcomes, FinishMembers({s}, o),
           outcome[s] = "none" /\ o = "cancelled" => consumer'[s] # "here",
           o = "lag" => mode = "multiplexed" /\ Len(buffer[s]) = capacity[s]
    PROVE  LocalStep
<1>1. \A r \in Streams : outcome'[r] = IF r \in {s} /\ outcome[r] = "none" THEN o ELSE outcome[r]
  BY Finished DEF Control
<1>. QED BY <1>1, OneDecided

LEMMA StepLocal ==
    ASSUME Control, Items, [Next]_vars
    PROVE  LocalStep
<1>. USE DEF Control
<1>1. CASE \/ Lose \/ YieldNow \/ PollProducer \/ ProducerPanics \/ PollPrepare \/ UNCHANGED vars
           \/ PrepareSucceeds \/ IgnoreEvent \/ MembersEnd \/ \E s \in Streams : Depart(s)
  <2>1. outcome' = outcome
    BY <1>1 DEF Lose, YieldNow, PollProducer, ProducerPanics, PollPrepare, PrepareSucceeds,
       IgnoreEvent, MembersEnd, Depart, TurnEnds, vars, streamVars
  <2>. QED BY <2>1, NoneDecided
<1>2. CASE Start \/ Conclude \/ \E s \in Streams : TakeClosure(s)
  BY <1>2, StartControl, ConcludeControl, ClosureControl, NoneDecided
<1>3. CASE ConcludePanic
  <2>1. Streams \in SUBSET Streams /\ SetTerminal(Streams, "panic") /\ "panic" \in Outcomes
    BY <1>3 DEF ConcludePanic, Outcomes
  <2>2. \A s \in Streams :
            outcome'[s] = IF s \in Streams /\ outcome[s] = "none" THEN "panic" ELSE outcome[s]
    BY <2>1, Claims
  <2>. QED BY <1>3, <2>2 DEF ConcludePanic, LocalStep, Decided
<1>4. CASE ProducerEnds \/ \E o \in {"task", "panic"} : PrepareFails(o)
  <2>1. PICK o \in {"ok", "task", "panic"} :
            /\ FinishMembers(Streams, o)
            /\ o = "ok" => ProducerEnds
            /\ o # "ok" => PrepareFails(o)
    BY <1>4 DEF ProducerEnds, PrepareFails
  <2>2. o \in Outcomes /\ Streams \in SUBSET Streams
    BY DEF Outcomes
  <2>3. \A s \in Streams :
            outcome'[s] = IF s \in Streams /\ outcome[s] = "none" THEN o ELSE outcome[s]
    BY <2>1, <2>2, Finished
  <2>4. o = "ok" => mode = "multiplexed" /\ job' = "returned"
    BY <2>1 DEF ProducerEnds, Modes
  <2>5. o # "ok" => job = "prepared"
    BY <2>1 DEF PrepareFails
  <2>. QED BY <2>3, <2>4, <2>5 DEF LocalStep, Decided
<1>5. ASSUME NEW s \in Streams, RouteItem(s) PROVE LocalStep
  <2>1. job = "event" /\ mode = "multiplexed"
    BY <1>5 DEF RouteItem, Modes
  <2>2. CASE HasRoom(s)
    BY <1>5, <2>2, NoneDecided DEF RouteItem
  <2>3. CASE ~HasRoom(s)
    <3>1. FinishMembers({s}, "lag") /\ "lag" \in Outcomes
      BY <1>5, <2>3 DEF RouteItem, Outcomes
    <3>2. Len(buffer[s]) \in Nat /\ capacity[s] \in Nat /\ Len(buffer[s]) <= capacity[s]
      <4>1. buffer[s] \in Seq(1 .. MaxItems)
        BY DEF TypeOK, StreamTypeOK
      <4>. QED BY <4>1, StreamAssumption, LenProperties DEF Items, TypeOK, StreamTypeOK
    <3>3. Len(buffer[s]) = capacity[s]
      BY <2>3, <3>2 DEF HasRoom
    <3>. QED BY <2>1, <3>1, <3>3, MemberDecided
  <2>. QED BY <2>2, <2>3
<1>6. ASSUME NEW s \in Streams, RouteToLeaver(s) \/ \E o \in {"ok", "task"} : RouteFinished(s, o)
      PROVE  LocalStep
  <2>1. PICK o \in {"ok", "task", "cancelled"} :
            FinishMembers({s}, o) /\ (o = "cancelled" => consumer'[s] # "here")
    BY <1>6 DEF RouteToLeaver, RouteFinished
  <2>2. o \in Outcomes /\ o # "lag"
    BY DEF Outcomes
  <2>. QED BY <2>1, <2>2, MemberDecided
<1>7. ASSUME NEW s \in Streams, MemberNext(s) PROVE LocalStep
  <2>1. CASE \E o \in {"ok", "panic"} : MemberReturns(s, o)
    <3>1. PICK o \in {"ok", "panic"} : FinishMembers({s}, o)
      BY <2>1 DEF MemberReturns
    <3>2. o \in Outcomes /\ o # "lag" /\ o # "cancelled"
      BY DEF Outcomes
    <3>. QED BY <3>1, <3>2, MemberDecided
  <2>2. CASE MemberReturns(s, "cancelled") /\ (MemberSendFails(s) \/ ~MemberOpen(s))
    <3>1. FinishMembers({s}, "cancelled") /\ "cancelled" \in Outcomes
      BY <2>2 DEF MemberReturns, Outcomes
    <3>2. outcome[s] = "none" => MemberSendFails(s)
      BY <2>2 DEF MemberOpen, IsOpen, Settled
    <3>3. MemberSendFails(s) => consumer'[s] # "here"
      BY <2>2 DEF MemberSendFails, Connected, MemberReturns
    <3>. QED BY <3>1, <3>2, <3>3, MemberDecided
  <2>3. CASE outcome' = outcome
    BY <2>3, NoneDecided
  <2>. QED
    BY <1>7, <2>1, <2>2, <2>3 DEF MemberNext, BeginMember, MemberPanics, MemberItem, MemberSends,
       MemberSendFails, MemberEnds, streamVars
<1>8. ASSUME NEW s \in Streams, Consumer(s) PROVE LocalStep
  <2>1. CASE Leave(s)
    <3>1. \A r \in Streams \ {s} : outcome'[r] = outcome[r]
      BY <2>1, BatchAssumption DEF Leave, Finish, TypeOK, StreamTypeOK
    <3>2. consumer'[s] = "leaving" /\ outcome'[s] \in {outcome[s], "cancelled"}
      BY <2>1, BatchAssumption DEF Leave, Finish, TypeOK, StreamTypeOK
    <3>. QED BY <3>1, <3>2, OneDecided
  <2>2. CASE Take(s) \/ CloseSignal(s) \/ HangUp(s)
    BY <2>2, NoneDecided DEF Take, CloseSignal, HangUp
  <2>. QED BY <1>8, <2>1, <2>2 DEF Consumer, ConsumerNext
<1>. QED
  BY <1>1, <1>2, <1>3, <1>4, <1>5, <1>6, <1>7, <1>8 DEF Next, MultiplexedNext, IndependentNext

\* One member's fault never decides another member's stream.
THEOREM Isolation == Spec => FaultsAreLocal
<1>1. Init => Control /\ Items
  BY InitControl, InitItems
<1>2. Control /\ Items /\ [Next]_vars => Control' /\ Items'
  BY StepControl, StepItems
<1>3. Control /\ Items /\ [Next]_vars => [LocalStep]_vars
  BY StepLocal
<1>4. FaultsAreLocal <=> [][LocalStep]_vars
  BY DEF FaultsAreLocal, LocalStep, Decided
<1>. QED BY <1>1, <1>2, <1>3, <1>4, PTL DEF Spec

=============================================================================
