------------------------- MODULE BatchWindow_proof -------------------------
(***************************************************************************)
(* Proofs about BatchWindow for every set of calls, every assignment of    *)
(* options and every max_size.                                             *)
(***************************************************************************)
EXTENDS BatchWindow, FiniteSetTheorems, TLAPS

-----------------------------------------------------------------------------
(* The inductive invariant. *)

\* A call has a window from its join on, and its outcome from its return on.
Starts ==
    \A c \in Calls :
        /\ pc[c] = "idle" <=> joined[c] = NoWindow
        /\ pc[c] = "done" <=> outcome[c] # "none"
        /\ pc[c] = "discard" <=> discarded[c] # NoWindow
        /\ pc[c] \in {"idle", "discard"} => dropping[c] = NoWindow

\* A window exists once the call it is named after has joined it; a discarded
\* admission is not the one its call will wait for.
Windows ==
    /\ \A w \in Calls : adm[w] = "none" <=> joined[w] # w
    /\ \A c \in Calls : joined[c] # NoWindow => adm[joined[c]] # "none"
    /\ \A c \in Calls : discarded[c] # NoWindow =>
           adm[discarded[c]] # "none" /\ discarded[c] # joined[c]
    /\ \A c \in Calls : dropping[c] # NoWindow => adm[dropping[c]] # "none"

\* Where the job can be in each state of its admission.
Jobs ==
    \A w \in Calls :
        /\ adm[w] = "none" => job[w] = "none"
        /\ adm[w] = "pending" => job[w] \in {"held"} \cup Visible
        /\ adm[w] = "ok" => job[w] \in Visible
        /\ adm[w] = "err" => job[w] = "dropped"
        /\ adm[w] = "cancelled" => job[w] \in {"dropped"} \cup Visible
        /\ job[w] = "ran" => w \in sealed

\* The slot's state is that of its window's admission.
Slot ==
    open # NoWindow =>
        adm[open] = IF admission = "Pending" THEN "pending" ELSE "ok"

\* A pending admission is owned, or about to be dropped; never both.
Owners ==
    /\ \A w \in Calls : adm[w] = "pending" /\ Strong(w) = {} =>
           \E c \in Calls : dropping[c] = w
    /\ \A c \in Calls : dropping[c] # NoWindow => Strong(dropping[c]) = {}

\* A call was told what its window's admission was answered.
Outcomes ==
    \A c \in Calls :
        outcome[c] \in {"ok", "err"} => joined[c] # NoWindow /\ adm[joined[c]] = outcome[c]

\* A window that is not sealed has room.
Room ==
    \A w \in Calls : w \notin sealed => Cardinality(Held(w)) < Capacity

ControlInv ==
    /\ TypeOK /\ Starts /\ Windows /\ Jobs /\ Slot /\ Owners /\ Outcomes
    /\ CancelIsLocal /\ SharedOptions /\ MemberKept

Inv == ControlInv /\ SizeBound /\ Room

-----------------------------------------------------------------------------
\* A join on an empty slot preserves the invariant.
LEMMA JoinEmptyStep ==
    ASSUME ControlInv, NEW c \in Calls, JoinEmpty(c) PROVE ControlInv'
<1>1. TypeOK'
  BY DEF ControlInv, TypeOK, JoinEmpty, OpenWindow, Notify
<1>2. Starts'
  BY CallsAssumption DEF ControlInv, TypeOK, Starts, JoinEmpty, OpenWindow
<1>3. Windows'
  BY DEF ControlInv, TypeOK, Windows, JoinEmpty, OpenWindow
<1>4. Jobs'
  BY DEF ControlInv, TypeOK, Jobs, JoinEmpty, OpenWindow
<1>5. Slot'
  BY DEF ControlInv, TypeOK, Slot, JoinEmpty, OpenWindow
<1>6. Owners'
  BY DEF ControlInv, TypeOK, Owners, Starts, Strong, Windows, JoinEmpty, OpenWindow
<1>7. Outcomes'
  BY DEF ControlInv, Outcomes, Starts, Windows, JoinEmpty, OpenWindow
<1>8. CancelIsLocal'
  BY DEF ControlInv, CancelIsLocal, Windows, JoinEmpty, OpenWindow
<1>9. SharedOptions'
  BY DEF ControlInv, SharedOptions, JoinEmpty, OpenWindow
<1>10. MemberKept'
  BY CallsAssumption DEF ControlInv, TypeOK, MemberKept, Starts, Windows, JoinEmpty, OpenWindow
<1>. QED BY <1>1, <1>2, <1>3, <1>4, <1>5, <1>6, <1>7, <1>8, <1>9, <1>10 DEF ControlInv

\* So does one that closes and replaces the open window,
LEMMA JoinReplacingStep ==
    ASSUME ControlInv, NEW c \in Calls, JoinReplacing(c) PROVE ControlInv'
<1>1. TypeOK'
  BY DEF ControlInv, TypeOK, JoinReplacing, OpenWindow, Notify
<1>2. Starts'
  BY CallsAssumption DEF ControlInv, TypeOK, Starts, JoinReplacing, OpenWindow
<1>3. Windows'
  BY DEF ControlInv, TypeOK, Windows, JoinReplacing, OpenWindow
<1>4. Jobs'
  BY DEF ControlInv, TypeOK, Jobs, JoinReplacing, OpenWindow
<1>5. Slot'
  BY DEF ControlInv, TypeOK, Slot, JoinReplacing, OpenWindow
<1>6. Owners'
  BY DEF ControlInv, TypeOK, Owners, Starts, Strong, Windows, JoinReplacing, OpenWindow
<1>7. Outcomes'
  BY DEF ControlInv, Outcomes, Starts, Windows, JoinReplacing, OpenWindow
<1>8. CancelIsLocal'
  BY DEF ControlInv, CancelIsLocal, Windows, JoinReplacing, OpenWindow
<1>9. SharedOptions'
  BY DEF ControlInv, SharedOptions, JoinReplacing, OpenWindow
<1>10. MemberKept'
  BY CallsAssumption DEF ControlInv, TypeOK, MemberKept, Starts, Windows, JoinReplacing, OpenWindow
<1>. QED BY <1>1, <1>2, <1>3, <1>4, <1>5, <1>6, <1>7, <1>8, <1>9, <1>10 DEF ControlInv

\* one that finds the open window sealed by its worker,
LEMMA JoinSealedStep ==
    ASSUME ControlInv, NEW c \in Calls, JoinSealed(c) PROVE ControlInv'
<1>1. TypeOK'
  BY DEF ControlInv, TypeOK, JoinSealed, OpenWindow, Notify
<1>2. Starts'
  BY CallsAssumption DEF ControlInv, TypeOK, Starts, JoinSealed, OpenWindow
<1>3. Windows'
  BY DEF ControlInv, TypeOK, Windows, Starts, Slot, JoinSealed, OpenWindow
<1>4. Jobs'
  BY DEF ControlInv, TypeOK, Jobs, JoinSealed, OpenWindow
<1>5. Slot'
  BY DEF ControlInv, TypeOK, Slot, JoinSealed, OpenWindow
<1>6. Owners'
  BY DEF ControlInv, TypeOK, Owners, Starts, Strong, Windows, JoinSealed, OpenWindow, Orphaned
<1>7. Outcomes'
  BY DEF ControlInv, Outcomes, Starts, Windows, JoinSealed, OpenWindow
<1>8. CancelIsLocal'
  BY DEF ControlInv, CancelIsLocal, Windows, JoinSealed, OpenWindow
<1>9. SharedOptions'
  BY DEF ControlInv, SharedOptions, JoinSealed, OpenWindow
<1>10. MemberKept'
  BY CallsAssumption DEF ControlInv, TypeOK, MemberKept, Starts, Windows, JoinSealed, OpenWindow
<1>. QED BY <1>1, <1>2, <1>3, <1>4, <1>5, <1>6, <1>7, <1>8, <1>9, <1>10 DEF ControlInv

\* and one that puts its member into the open window.
LEMMA JoinOpenStep ==
    ASSUME ControlInv, NEW c \in Calls, JoinOpen(c) PROVE ControlInv'
<1>1. TypeOK'
  BY DEF ControlInv, TypeOK, JoinOpen, Notify
<1>2. Starts'
  BY DEF ControlInv, TypeOK, Starts, JoinOpen
<1>3. Windows'
  BY CallsAssumption DEF ControlInv, Windows, Starts, Slot, JoinOpen
<1>4. Jobs'
  BY DEF ControlInv, Jobs, JoinOpen
<1>5. Slot'
  BY DEF ControlInv, Slot, JoinOpen
<1>6. Owners'
  BY DEF ControlInv, TypeOK, Visible, Owners, Strong, JoinOpen, Orphaned
<1>7. Outcomes'
  BY DEF ControlInv, TypeOK, Outcomes, Starts, Slot, JoinOpen
<1>8. CancelIsLocal'
  BY DEF ControlInv, TypeOK, CancelIsLocal, Slot, JoinOpen
<1>9. SharedOptions'
  BY DEF ControlInv, SharedOptions, JoinOpen
<1>10. MemberKept'
  BY CallsAssumption DEF ControlInv, TypeOK, MemberKept, Jobs, Starts, JoinOpen
<1>. QED BY <1>1, <1>2, <1>3, <1>4, <1>5, <1>6, <1>7, <1>8, <1>9, <1>10 DEF ControlInv

\* Dropping the discarded admission: its last owner gets its Drop to run.
LEMMA DiscardStep ==
    ASSUME ControlInv, NEW c \in Calls, Discard(c) PROVE ControlInv'
<1>1. TypeOK'
  BY DEF ControlInv, TypeOK, Discard, Release
<1>2. Starts'
  BY DEF ControlInv, TypeOK, Starts, Discard, Release
<1>3. Windows'
  BY DEF ControlInv, Windows, Discard, Release
<1>4. Jobs'
  BY DEF ControlInv, Jobs, Discard
<1>5. Slot'
  BY DEF ControlInv, Slot, Discard
<1>6. Owners'
  <2>1. \A w \in Calls : Strong(w)' = IF w = discarded[c] THEN Strong(w) \ {c} ELSE Strong(w)
    BY DEF ControlInv, TypeOK, Windows, Starts, Strong, Discard
  <2>2. dropping[c] = NoWindow
    BY DEF ControlInv, Starts, Discard
  <2>3. \A d \in Calls : d # c => dropping'[d] = dropping[d]
    BY DEF Discard, Release
  <2>4. c \in Strong(discarded[c]) /\ discarded[c] \in Calls
    BY DEF ControlInv, TypeOK, Starts, Strong, Discard
  <2>5. dropping'[c] = IF Strong(discarded[c]) = {c} THEN discarded[c] ELSE NoWindow
    BY DEF ControlInv, TypeOK, Discard, Release
  <2>6. \A d \in Calls : dropping[d] # discarded[c]
    BY <2>4, CallsAssumption DEF ControlInv, Owners
  <2>7. adm' = adm
    BY DEF Discard
  <2>. QED
    BY <2>1, <2>2, <2>3, <2>4, <2>5, <2>6, <2>7, CallsAssumption DEF ControlInv, TypeOK, Owners
<1>7. Outcomes'
  BY DEF ControlInv, Outcomes, Discard
<1>8. CancelIsLocal'
  BY DEF ControlInv, CancelIsLocal, Discard
<1>9. SharedOptions'
  BY DEF ControlInv, SharedOptions, Discard
<1>10. MemberKept'
  BY DEF ControlInv, MemberKept, Discard
<1>. QED BY <1>1, <1>2, <1>3, <1>4, <1>5, <1>6, <1>7, <1>8, <1>9, <1>10 DEF ControlInv

\* An admission's Drop: nobody owns it, so no caller but cancelled ones has joined it.
LEMMA RunDropStep ==
    ASSUME ControlInv, NEW c \in Calls, RunDrop(c) PROVE ControlInv'
<1>1. TypeOK'
  BY DEF ControlInv, TypeOK, RunDrop, AbandonSlot
<1>2. Starts'
  BY DEF ControlInv, Starts, RunDrop
<1>3. Windows'
  BY DEF ControlInv, Windows, RunDrop
<1>4. Jobs'
  BY DEF ControlInv, TypeOK, Visible, Jobs, RunDrop
<1>5. Slot'
  BY DEF ControlInv, Slot, RunDrop, AbandonSlot
<1>6. Owners'
  BY DEF ControlInv, TypeOK, Owners, Strong, RunDrop
<1>7. Outcomes'
  BY DEF ControlInv, Outcomes, RunDrop
<1>8. CancelIsLocal'
  BY DEF ControlInv, TypeOK, CancelIsLocal, Starts, Outcomes, Strong, Owners, RunDrop
<1>9. SharedOptions'
  BY DEF ControlInv, SharedOptions, RunDrop
<1>10. MemberKept'
  BY DEF ControlInv, MemberKept, RunDrop
<1>. QED BY <1>1, <1>2, <1>3, <1>4, <1>5, <1>6, <1>7, <1>8, <1>9, <1>10 DEF ControlInv

\* A call that leaves its window with no owner is the one that drops it.
LEMMA LeaveOwners ==
    ASSUME ControlInv, NEW c \in Calls, NEW result, Leave(c, result)
    PROVE  Owners'
<1>1. /\ c \in Strong(joined[c]) /\ discarded[c] = NoWindow
      /\ \A w \in Calls : Strong(w)' = Strong(w) \ {c}
      /\ \A w \in Calls : c \in Strong(w) => w = joined[c]
      /\ dropping' = [dropping EXCEPT ![c] = IF Strong(joined[c]) = {c} THEN joined[c] ELSE NoWindow]
      /\ adm' = adm /\ dropping[c] = NoWindow
  BY DEF ControlInv, TypeOK, Starts, Strong, Leave, Release
<1>2. joined[c] \in Calls
  BY DEF ControlInv, TypeOK, Starts, Leave
<1>3. ASSUME NEW w \in Calls, adm[w] = "pending", Strong(w)' = {}
      PROVE  \E d \in Calls : dropping'[d] = w
  <2>1. CASE Strong(w) = {}
    <3>1. PICK d \in Calls : dropping[d] = w
      BY <1>3, <2>1 DEF ControlInv, Owners
    <3>2. d # c
      BY <1>1, <3>1, CallsAssumption
    <3>. QED BY <1>1, <3>1, <3>2 DEF ControlInv, TypeOK
  <2>2. CASE Strong(w) # {}
    <3>1. Strong(w) = {c} /\ w = joined[c]
      BY <1>1, <1>3, <2>2
    <3>. QED BY <1>1, <3>1 DEF ControlInv, TypeOK
  <2>. QED BY <2>1, <2>2
<1>4. ASSUME NEW d \in Calls, NEW w \in Calls, dropping'[d] = w
      PROVE  Strong(w)' = {}
  <2>1. CASE d = c
    <3>1. Strong(joined[c]) = {c} /\ w = joined[c]
      BY <1>1, <1>4, <2>1, CallsAssumption DEF ControlInv, TypeOK
    <3>. QED BY <1>1, <3>1
  <2>2. CASE d # c
    <3>1. dropping[d] = w
      BY <1>1, <1>4, <2>2 DEF ControlInv, TypeOK
    <3>2. Strong(w) = {}
      BY <3>1, CallsAssumption DEF ControlInv, Owners
    <3>. QED BY <1>1, <3>2
  <2>. QED BY <2>1, <2>2
<1>5. dropping' \in [Calls -> Calls \cup {NoWindow}]
  BY <1>1, <1>2 DEF ControlInv, TypeOK
<1>6. \A d \in Calls : dropping'[d] # NoWindow => Strong(dropping[d])' = {}
  <2>. SUFFICES ASSUME NEW d \in Calls, dropping'[d] # NoWindow, NEW w, w = dropping'[d]
                PROVE  Strong(w)' = {}
    OBVIOUS
  <2>. QED BY <1>4, <1>5
<1>7. \A w \in Calls : adm'[w] = "pending" /\ Strong(w)' = {} => \E d \in Calls : dropping'[d] = w
  BY <1>1, <1>3
<1>. QED BY <1>6, <1>7 DEF Owners

\* A call returns what its window was answered,
LEMMA AnswerStep ==
    ASSUME ControlInv, NEW c \in Calls, Answer(c) PROVE ControlInv'
<1>1. TypeOK'
  BY DEF ControlInv, TypeOK, Answer, Leave, Release
<1>2. Starts'
  BY DEF ControlInv, TypeOK, Starts, Answer, Leave, Release
<1>3. Windows'
  BY DEF ControlInv, Windows, Answer, Leave, Release
<1>4. Jobs'
  BY DEF ControlInv, Jobs, Answer, Leave
<1>5. Slot'
  BY DEF ControlInv, Slot, Answer, Leave
<1>6. Owners'
  BY LeaveOwners DEF Answer
<1>7. Outcomes'
  BY DEF ControlInv, Outcomes, Starts, Answer, Leave
<1>8. CancelIsLocal'
  BY DEF ControlInv, CancelIsLocal, Answer, Leave
<1>9. SharedOptions'
  BY DEF ControlInv, SharedOptions, Answer, Leave
<1>10. MemberKept'
  BY DEF ControlInv, MemberKept, Answer, Leave
<1>. QED BY <1>1, <1>2, <1>3, <1>4, <1>5, <1>6, <1>7, <1>8, <1>9, <1>10 DEF ControlInv

\* or is cancelled.
LEMMA CancelStep ==
    ASSUME ControlInv, NEW c \in Calls, Cancel(c) PROVE ControlInv'
<1>1. TypeOK'
  BY DEF ControlInv, TypeOK, Cancel, Leave, Release
<1>2. Starts'
  BY DEF ControlInv, TypeOK, Starts, Cancel, Leave, Release
<1>3. Windows'
  BY DEF ControlInv, Windows, Cancel, Leave, Release
<1>4. Jobs'
  BY DEF ControlInv, Jobs, Cancel, Leave
<1>5. Slot'
  BY DEF ControlInv, Slot, Cancel, Leave
<1>6. Owners'
  BY LeaveOwners DEF Cancel
<1>7. Outcomes'
  BY DEF ControlInv, Outcomes, Cancel, Leave
<1>8. CancelIsLocal'
  BY DEF ControlInv, CancelIsLocal, Cancel, Leave
<1>9. SharedOptions'
  BY DEF ControlInv, SharedOptions, Cancel, Leave
<1>10. MemberKept'
  BY DEF ControlInv, MemberKept, Cancel, Leave
<1>. QED BY <1>1, <1>2, <1>3, <1>4, <1>5, <1>6, <1>7, <1>8, <1>9, <1>10 DEF ControlInv

\* The queue publishes the job of a window,
LEMMA SubmitStep ==
    ASSUME ControlInv, NEW c \in Calls, Submit(c) PROVE ControlInv'
<1>1. TypeOK'
  BY DEF ControlInv, TypeOK, Visible, Submit, callVars, slotVars, windowVars
<1>2. Starts'
  BY DEF ControlInv, Starts, Submit, callVars
<1>3. Windows'
  BY DEF ControlInv, Windows, Submit, callVars
<1>4. Jobs'
  BY DEF ControlInv, Visible, Jobs, Submit, windowVars
<1>5. Slot'
  BY DEF ControlInv, Slot, Submit, slotVars
<1>6. Owners'
  BY DEF ControlInv, Owners, Strong, Submit, callVars
<1>7. Outcomes'
  BY DEF ControlInv, Outcomes, Submit, callVars
<1>8. CancelIsLocal'
  BY DEF ControlInv, CancelIsLocal, Submit, callVars
<1>9. SharedOptions'
  BY DEF ControlInv, SharedOptions, Submit, callVars
<1>10. MemberKept'
  BY DEF ControlInv, MemberKept, Submit, callVars, windowVars
<1>. QED BY <1>1, <1>2, <1>3, <1>4, <1>5, <1>6, <1>7, <1>8, <1>9, <1>10 DEF ControlInv

\* accepts it,
LEMMA AcceptStep ==
    ASSUME ControlInv, NEW c \in Calls, Accept(c) PROVE ControlInv'
<1>1. TypeOK'
  BY DEF ControlInv, TypeOK, Accept, callVars, windowVars
<1>2. Starts'
  BY DEF ControlInv, Starts, Accept, callVars
<1>3. Windows'
  BY DEF ControlInv, Windows, Accept, callVars
<1>4. Jobs'
  BY DEF ControlInv, Jobs, Accept, windowVars
<1>5. Slot'
  BY DEF ControlInv, TypeOK, Slot, Accept
<1>6. Owners'
  BY DEF ControlInv, Owners, Strong, Accept, callVars
<1>7. Outcomes'
  BY DEF ControlInv, Outcomes, Accept, callVars
<1>8. CancelIsLocal'
  BY DEF ControlInv, CancelIsLocal, Accept, callVars
<1>9. SharedOptions'
  BY DEF ControlInv, SharedOptions, Accept, callVars
<1>10. MemberKept'
  BY DEF ControlInv, MemberKept, Accept, callVars, windowVars
<1>. QED BY <1>1, <1>2, <1>3, <1>4, <1>5, <1>6, <1>7, <1>8, <1>9, <1>10 DEF ControlInv

\* or refuses it.
LEMMA RejectStep ==
    ASSUME ControlInv, NEW c \in Calls, Reject(c) PROVE ControlInv'
<1>1. TypeOK'
  BY DEF ControlInv, TypeOK, Reject, callVars, windowVars
<1>2. Starts'
  BY DEF ControlInv, Starts, Reject, callVars
<1>3. Windows'
  BY DEF ControlInv, Windows, Reject, callVars
<1>4. Jobs'
  BY DEF ControlInv, TypeOK, Jobs, Reject, windowVars
<1>5. Slot'
  BY DEF ControlInv, Slot, Reject
<1>6. Owners'
  BY DEF ControlInv, Owners, Strong, Reject, callVars
<1>7. Outcomes'
  BY DEF ControlInv, Outcomes, Reject, callVars
<1>8. CancelIsLocal'
  BY DEF ControlInv, CancelIsLocal, Reject, callVars
<1>9. SharedOptions'
  BY DEF ControlInv, SharedOptions, Reject, callVars
<1>10. MemberKept'
  BY DEF ControlInv, MemberKept, Reject, callVars, windowVars
<1>. QED BY <1>1, <1>2, <1>3, <1>4, <1>5, <1>6, <1>7, <1>8, <1>9, <1>10 DEF ControlInv

\* The worker takes the job,
LEMMA DequeueStep ==
    ASSUME ControlInv, NEW c \in Calls, Dequeue(c) PROVE ControlInv'
<1>1. TypeOK'
  BY DEF ControlInv, TypeOK, Visible, Dequeue, callVars, slotVars, windowVars
<1>2. Starts'
  BY DEF ControlInv, Starts, Dequeue, callVars
<1>3. Windows'
  BY DEF ControlInv, Windows, Dequeue, callVars
<1>4. Jobs'
  BY DEF ControlInv, Visible, Jobs, Dequeue, windowVars
<1>5. Slot'
  BY DEF ControlInv, Slot, Dequeue, slotVars
<1>6. Owners'
  BY DEF ControlInv, Owners, Strong, Dequeue, callVars
<1>7. Outcomes'
  BY DEF ControlInv, Outcomes, Dequeue, callVars
<1>8. CancelIsLocal'
  BY DEF ControlInv, CancelIsLocal, Dequeue, callVars
<1>9. SharedOptions'
  BY DEF ControlInv, SharedOptions, Dequeue, callVars
<1>10. MemberKept'
  BY DEF ControlInv, MemberKept, Dequeue, callVars, windowVars
<1>. QED BY <1>1, <1>2, <1>3, <1>4, <1>5, <1>6, <1>7, <1>8, <1>9, <1>10 DEF ControlInv

\* waits for its window,
LEMMA ParkStep ==
    ASSUME ControlInv, NEW c \in Calls, Park(c) PROVE ControlInv'
<1>1. TypeOK'
  BY DEF ControlInv, TypeOK, Visible, Park, callVars, slotVars, windowVars
<1>2. Starts'
  BY DEF ControlInv, Starts, Park, callVars
<1>3. Windows'
  BY DEF ControlInv, Windows, Park, callVars
<1>4. Jobs'
  BY DEF ControlInv, Visible, Jobs, Park, windowVars
<1>5. Slot'
  BY DEF ControlInv, Slot, Park, slotVars
<1>6. Owners'
  BY DEF ControlInv, Owners, Strong, Park, callVars
<1>7. Outcomes'
  BY DEF ControlInv, Outcomes, Park, callVars
<1>8. CancelIsLocal'
  BY DEF ControlInv, CancelIsLocal, Park, callVars
<1>9. SharedOptions'
  BY DEF ControlInv, SharedOptions, Park, callVars
<1>10. MemberKept'
  BY DEF ControlInv, MemberKept, Park, callVars, windowVars
<1>. QED BY <1>1, <1>2, <1>3, <1>4, <1>5, <1>6, <1>7, <1>8, <1>9, <1>10 DEF ControlInv

\* seals it because it was sealed by a join before,
LEMMA FindSealedStep ==
    ASSUME ControlInv, NEW c \in Calls, FindSealed(c) PROVE ControlInv'
<1>1. TypeOK'
  BY DEF ControlInv, TypeOK, Visible, FindSealed, Seal, callVars, slotVars
<1>2. Starts'
  BY DEF ControlInv, Starts, FindSealed, Seal, callVars
<1>3. Windows'
  BY DEF ControlInv, Windows, FindSealed, Seal, callVars
<1>4. Jobs'
  BY DEF ControlInv, Visible, Jobs, FindSealed, Seal
<1>5. Slot'
  BY DEF ControlInv, Slot, FindSealed, Seal, slotVars
<1>6. Owners'
  BY DEF ControlInv, Owners, Strong, FindSealed, Seal, callVars
<1>7. Outcomes'
  BY DEF ControlInv, Outcomes, FindSealed, Seal, callVars
<1>8. CancelIsLocal'
  BY DEF ControlInv, CancelIsLocal, FindSealed, Seal, callVars
<1>9. SharedOptions'
  BY DEF ControlInv, SharedOptions, FindSealed, Seal, callVars
<1>10. MemberKept'
  BY DEF ControlInv, TypeOK, MemberKept, FindSealed, Seal, callVars
<1>. QED BY <1>1, <1>2, <1>3, <1>4, <1>5, <1>6, <1>7, <1>8, <1>9, <1>10 DEF ControlInv

\* because it was notified,
LEMMA WakeStep ==
    ASSUME ControlInv, NEW c \in Calls, Wake(c) PROVE ControlInv'
<1>1. TypeOK'
  BY DEF ControlInv, TypeOK, Visible, Wake, Seal, callVars, slotVars
<1>2. Starts'
  BY DEF ControlInv, Starts, Wake, Seal, callVars
<1>3. Windows'
  BY DEF ControlInv, Windows, Wake, Seal, callVars
<1>4. Jobs'
  BY DEF ControlInv, Visible, Jobs, Wake, Seal
<1>5. Slot'
  BY DEF ControlInv, Slot, Wake, Seal, slotVars
<1>6. Owners'
  BY DEF ControlInv, Owners, Strong, Wake, Seal, callVars
<1>7. Outcomes'
  BY DEF ControlInv, Outcomes, Wake, Seal, callVars
<1>8. CancelIsLocal'
  BY DEF ControlInv, CancelIsLocal, Wake, Seal, callVars
<1>9. SharedOptions'
  BY DEF ControlInv, SharedOptions, Wake, Seal, callVars
<1>10. MemberKept'
  BY DEF ControlInv, TypeOK, MemberKept, Wake, Seal, callVars
<1>. QED BY <1>1, <1>2, <1>3, <1>4, <1>5, <1>6, <1>7, <1>8, <1>9, <1>10 DEF ControlInv

\* or because its time is up.
LEMMA TimeoutStep ==
    ASSUME ControlInv, NEW c \in Calls, Timeout(c) PROVE ControlInv'
<1>1. TypeOK'
  BY DEF ControlInv, TypeOK, Visible, Timeout, Seal, callVars, slotVars
<1>2. Starts'
  BY DEF ControlInv, Starts, Timeout, Seal, callVars
<1>3. Windows'
  BY DEF ControlInv, Windows, Timeout, Seal, callVars
<1>4. Jobs'
  BY DEF ControlInv, Visible, Jobs, Timeout, Seal
<1>5. Slot'
  BY DEF ControlInv, Slot, Timeout, Seal, slotVars
<1>6. Owners'
  BY DEF ControlInv, Owners, Strong, Timeout, Seal, callVars
<1>7. Outcomes'
  BY DEF ControlInv, Outcomes, Timeout, Seal, callVars
<1>8. CancelIsLocal'
  BY DEF ControlInv, CancelIsLocal, Timeout, Seal, callVars
<1>9. SharedOptions'
  BY DEF ControlInv, SharedOptions, Timeout, Seal, callVars
<1>10. MemberKept'
  BY DEF ControlInv, TypeOK, MemberKept, Timeout, Seal, callVars
<1>. QED BY <1>1, <1>2, <1>3, <1>4, <1>5, <1>6, <1>7, <1>8, <1>9, <1>10 DEF ControlInv

\* Every step preserves the control part of the invariant.
LEMMA NextStep ==
    ASSUME ControlInv, [Next]_vars PROVE ControlInv'
<1>1. CASE UNCHANGED vars
  BY <1>1 DEF vars, ControlInv, TypeOK, Starts, Windows, Jobs, Slot, Owners, Strong,
              Outcomes, CancelIsLocal, SharedOptions, MemberKept
<1>2. ASSUME NEW c \in Calls, CallNext(c) PROVE ControlInv'
  BY <1>2, JoinEmptyStep, JoinReplacingStep, JoinSealedStep, JoinOpenStep, DiscardStep,
     RunDropStep, AnswerStep, CancelStep DEF CallNext, Join
<1>3. ASSUME NEW w \in Calls, QueueNext(w) PROVE ControlInv'
  BY <1>3, SubmitStep, AcceptStep, RejectStep DEF QueueNext
<1>4. ASSUME NEW w \in Calls, WorkNext(w) PROVE ControlInv'
  BY <1>4, DequeueStep, ParkStep, FindSealedStep, WakeStep, TimeoutStep DEF WorkNext
<1>. QED BY <1>1, <1>2, <1>3, <1>4 DEF Next, Terminated

\* It holds initially.
LEMMA InitControl == Init => ControlInv
<1>. SUFFICES ASSUME Init PROVE ControlInv
  OBVIOUS
<1>1. \A w \in Calls : Strong(w) = {}
  BY CallsAssumption DEF Init, Strong
<1>. QED
  BY <1>1, CallsAssumption DEF Init, ControlInv, TypeOK, Visible, Starts, Windows, Jobs, Slot,
     Owners, Outcomes, CancelIsLocal, SharedOptions, MemberKept

-----------------------------------------------------------------------------
(* Sizes.  The only steps that put a member in are the joins, and the worker's *)
(* seal moves all the members together.                                        *)

\* Any set of calls is finite, and one more call makes it at most one larger.
LEMMA OneMore ==
    ASSUME NEW S \in SUBSET Calls, NEW c \in Calls
    PROVE  /\ Cardinality(S) \in Nat
           /\ Cardinality(S \cup {c}) \in Nat
           /\ Cardinality(S \cup {c}) <= Cardinality(S) + 1
           /\ Cardinality({}) = 0 /\ Cardinality({c}) = 1
<1>1. IsFiniteSet(S)
  BY CallsAssumption, FS_Subset
<1>2. IsFiniteSet(S \cup {c})
        /\ Cardinality(S \cup {c}) = IF c \in S THEN Cardinality(S) ELSE Cardinality(S) + 1
  BY <1>1, FS_AddElement
<1>3. Cardinality(S) \in Nat /\ Cardinality(S \cup {c}) \in Nat
  BY <1>1, <1>2, FS_CardinalityType
<1>4. Cardinality({}) = 0 /\ Cardinality({c}) = 1
  BY FS_EmptySet, FS_Singleton
<1>5. CASE c \in S
  BY <1>2, <1>3, <1>4, <1>5
<1>6. CASE c \notin S
  BY <1>2, <1>3, <1>4, <1>6
<1>. QED BY <1>5, <1>6

Sizes == SizeBound /\ Room

\* Every step keeps the windows within their size, and those not sealed below it.
LEMMA SizeStep ==
    ASSUME ControlInv, Sizes, [Next]_vars PROVE Sizes'
<1>. USE DEF Sizes
<1>0. Capacity \in Nat \ {0} /\ \A w \in Calls : Held(w) \in SUBSET Calls
  BY MaxSizeAssumption DEF Held, Capacity, ControlInv, TypeOK
<1>1. ASSUME NEW c \in Calls, NEW closed \in SUBSET Calls, NEW old, OpenWindow(c, closed, old),
             pc[c] = "idle"
      PROVE  Sizes'
  <2>1. Held(c)' = {c}
    BY <1>1, CallsAssumption DEF Held, OpenWindow, ControlInv, TypeOK, MemberKept, Starts, Windows, Jobs
  <2>2. \A w \in Calls : w # c => Held(w)' = Held(w)
    BY <1>1 DEF Held, OpenWindow, ControlInv, TypeOK
  <2>3. Cardinality({c}) = 1
    BY OneMore
  <2>4. Capacity = 1 => c \in sealed'
    BY <1>1, MaxSizeAssumption DEF OpenWindow, Capacity
  <2>5. ASSUME NEW w \in Calls
        PROVE  /\ Cardinality(Held(w)') <= Capacity
               /\ w \notin sealed' => Cardinality(Held(w)') < Capacity
    <3>1. CASE w = c
      BY <1>0, <2>1, <2>3, <2>4, <3>1
    <3>2. CASE w # c
      <4>1. Held(w)' = Held(w) /\ (w \notin sealed' => w \notin sealed)
        BY <1>1, <2>2, <3>2 DEF OpenWindow
      <4>. QED BY <4>1 DEF SizeBound, Room
    <3>. QED BY <3>1, <3>2
  <2>. QED BY <2>5 DEF SizeBound, Room, Capacity
<1>2. ASSUME NEW c \in Calls, JoinOpen(c), NEW v \in Calls, v = open PROVE Sizes'
  <2>1. batch[v] = {} /\ v \notin sealed
    BY <1>2 DEF JoinOpen, ControlInv, TypeOK, MemberKept, Jobs
  <2>2. Held(v)' = Held(v) \cup {c}
    BY <1>2, <2>1 DEF Held, JoinOpen, ControlInv, TypeOK
  <2>3. \A w \in Calls : w # v => Held(w)' = Held(w)
    BY <1>2 DEF Held, JoinOpen, ControlInv, TypeOK
  <2>4. sealed' = IF Cardinality(Held(v)) + 1 >= MaxSize THEN sealed \cup {v} ELSE sealed
    <3>1. Held(v) = members[v]
      BY <2>1 DEF Held
    <3>. QED BY <1>2, <3>1 DEF JoinOpen, Fills
  <2>5. /\ Cardinality(Held(v)) \in Nat /\ Cardinality(Held(v)') \in Nat
        /\ Cardinality(Held(v)') <= Cardinality(Held(v)) + 1
    BY <1>0, <2>2, OneMore
  <2>6. Cardinality(Held(v)) < Capacity
    BY <2>1 DEF Room
  <2>7. \A w \in Calls : w # v => (w \notin sealed' => w \notin sealed)
    BY <2>4
  <2>8. SizeBound'
    BY <1>0, <2>3, <2>5, <2>6 DEF SizeBound, Capacity
  <2>9. v \notin sealed' => Cardinality(Held(v)') < Capacity
    BY <1>0, <2>4, <2>5, <2>6, MaxSizeAssumption DEF Capacity
  <2>10. Room'
    BY <2>3, <2>7, <2>9 DEF Room, Capacity
  <2>. QED BY <2>8, <2>10
<1>3. ASSUME NEW v \in Calls, Seal(v), job[v] # "ran" PROVE Sizes'
  <2>1. batch[v] = {}
    BY <1>3 DEF ControlInv, TypeOK, MemberKept
  <2>2. \A w \in Calls : Held(w)' = Held(w)
    BY <1>3, <2>1 DEF Held, Seal, ControlInv, TypeOK
  <2>. QED
    BY <1>3, <2>2 DEF SizeBound, Room, Capacity, Seal
<1>4. ASSUME UNCHANGED <<members, batch, sealed>> PROVE Sizes'
  BY <1>4 DEF SizeBound, Room, Held, Capacity
<1>5. ASSUME NEW c \in Calls, CallNext(c) PROVE Sizes'
  <2>1. JoinEmpty(c) \/ JoinReplacing(c) \/ JoinSealed(c) => Sizes'
    <3>1. JoinEmpty(c) => Sizes'
      BY <1>1 DEF JoinEmpty
    <3>2. JoinReplacing(c) => Sizes'
      BY <1>1 DEF JoinReplacing, ControlInv, TypeOK
    <3>3. JoinSealed(c) => Sizes'
      BY <1>1 DEF JoinSealed
    <3>. QED BY <3>1, <3>2, <3>3
  <2>2. JoinOpen(c) => Sizes'
    BY <1>2 DEF JoinOpen, ControlInv, TypeOK
  <2>3. Discard(c) \/ RunDrop(c) \/ Answer(c) \/ Cancel(c) => Sizes'
    BY <1>4 DEF Discard, RunDrop, Answer, Cancel, Leave
  <2>. QED BY <1>5, <2>1, <2>2, <2>3 DEF CallNext, Join
<1>6. ASSUME NEW w \in Calls, QueueNext(w) PROVE Sizes'
  BY <1>4, <1>6 DEF QueueNext, Submit, Accept, Reject, windowVars
<1>7. ASSUME NEW w \in Calls, WorkNext(w) PROVE Sizes'
  BY <1>3, <1>4, <1>7 DEF WorkNext, Dequeue, Park, FindSealed, Wake, Timeout, windowVars
<1>. QED
  BY <1>4, <1>5, <1>6, <1>7 DEF Next, Terminated, vars

\* Inv is an invariant of the specification.
THEOREM Invariance == Spec => []Inv
<1>1. Init => Inv
  <2>1. ASSUME Init PROVE Sizes
    <3>1. Cardinality({}) = 0
      BY FS_EmptySet
    <3>. QED
      BY <2>1, <3>1, MaxSizeAssumption DEF Init, Sizes, SizeBound, Room, Held, Capacity
  <2>. QED BY <2>1, InitControl DEF Inv, Sizes
<1>2. Inv /\ [Next]_vars => Inv'
  BY NextStep, SizeStep DEF Inv, Sizes
<1>. QED BY <1>1, <1>2, PTL DEF Spec

-----------------------------------------------------------------------------
(* What follows from it. *)

\* Types are kept, no window outgrows max_size, and no join loses or duplicates a
\* member, however joins and seals interleave.
THEOREM MembersFit == Spec => []MembersSound
BY Invariance, PTL DEF Inv, ControlInv, MembersSound

\* Ok means the queue has the job of the caller's window.
THEOREM OkSound == Spec => []OkIsQueued
<1>1. Inv => OkIsQueued
  BY CallsAssumption DEF Inv, ControlInv, TypeOK, Outcomes, Jobs, OkIsQueued
<1>. QED BY <1>1, Invariance, PTL

\* Err means the caller's member will never run, and nobody can join it.
THEOREM ErrSound == Spec => []ErrNeverRuns
<1>1. Inv => ErrNeverRuns
  BY CallsAssumption DEF Inv, ControlInv, TypeOK, Outcomes, Jobs, Slot, ErrNeverRuns
<1>. QED BY <1>1, Invariance, PTL

\* The slot never offers a dead window.
THEOREM SlotAlive == Spec => []SlotSound
<1>1. Inv => SlotSound
  BY CallsAssumption DEF Inv, ControlInv, TypeOK, Jobs, Slot, Owners, SlotSound
<1>. QED BY <1>1, Invariance, PTL

\* A worker that waits for a sealed window has been woken: it registered its
\* listener before it looked, so the join that seals the window notifies it.
THEOREM WakeupKept == Spec => []NoLostWakeup
<1>1. Init => NoLostWakeup
  BY DEF Init, NoLostWakeup
<1>2. ASSUME ControlInv, NoLostWakeup, [Next]_vars PROVE NoLostWakeup'
  <2>1. CASE UNCHANGED vars
    BY <1>2, <2>1 DEF NoLostWakeup, vars
  <2>2. ASSUME NEW c \in Calls, Join(c) PROVE NoLostWakeup'
    <3>1. job[c] = "none"
      <4>1. pc[c] = "idle"
        BY <2>2 DEF Join, JoinEmpty, JoinReplacing, JoinSealed, JoinOpen
      <4>2. adm[c] = "none"
        BY <1>2, <4>1, CallsAssumption DEF ControlInv, Starts, Windows
      <4>. QED BY <1>2, <4>2 DEF ControlInv, Jobs
    <3>2. CASE JoinEmpty(c) \/ JoinReplacing(c) \/ JoinSealed(c)
      BY <1>2, <3>1, <3>2, CallsAssumption DEF NoLostWakeup, ControlInv, TypeOK, JoinEmpty,
         JoinReplacing, JoinSealed, OpenWindow, Notify, Listening
    <3>3. CASE JoinOpen(c)
      BY <1>2, <3>3 DEF NoLostWakeup, ControlInv, TypeOK, JoinOpen, Notify, Listening
    <3>. QED BY <2>2, <3>2, <3>3 DEF Join
  <2>3. ASSUME NEW c \in Calls, Discard(c) \/ Answer(c) \/ Cancel(c) PROVE NoLostWakeup'
    BY <1>2, <2>3 DEF NoLostWakeup, Discard, Answer, Cancel, Leave
  <2>4. ASSUME NEW c \in Calls, RunDrop(c) PROVE NoLostWakeup'
    BY <1>2, <2>4 DEF NoLostWakeup, ControlInv, TypeOK, RunDrop
  <2>5. ASSUME NEW w \in Calls, QueueNext(w) PROVE NoLostWakeup'
    BY <1>2, <2>5 DEF NoLostWakeup, ControlInv, TypeOK, QueueNext, Submit, Accept, Reject,
       windowVars
  <2>6. ASSUME NEW w \in Calls, WorkNext(w) PROVE NoLostWakeup'
    BY <1>2, <2>6 DEF NoLostWakeup, ControlInv, TypeOK, WorkNext, Dequeue, Park, FindSealed,
       Wake, Timeout, Seal, windowVars
  <2>. QED
    BY <1>2, <2>1, <2>2, <2>3, <2>4, <2>5, <2>6 DEF Next, CallNext, Terminated
<1>3. Inv /\ NoLostWakeup /\ [Next]_vars => NoLostWakeup'
  BY <1>2 DEF Inv
<1>. QED BY <1>1, <1>3, Invariance, PTL DEF Spec

\* A window's members share their queue options.
THEOREM OptionsShared == Spec => []SharedOptions
BY Invariance, PTL DEF Inv, ControlInv

\* A cancelled submission had only cancelled callers.
THEOREM CancelLocal == Spec => []CancelIsLocal
BY Invariance, PTL DEF Inv, ControlInv

\* What enqueue answers, or its cancellation, is true of the member.
THEOREM AnswersSound == Spec => []AnswersTrue
BY OkSound, ErrSound, CancelLocal, PTL DEF AnswersTrue

\* No step takes a live window out of the slot: what an older window's answer
\* or Drop does to the slot is guarded by the identity of the window.
THEOREM NoEviction == Spec => NoForeignEviction
<1>. DEFINE Safe == \A w \in Calls : open = w /\ open' # w =>
                        w \in sealed' \/ adm'[w] \in {"err", "cancelled"}
<1>1. ASSUME ControlInv, [Next]_vars PROVE Safe
  <2>1. CASE UNCHANGED vars
    BY <2>1 DEF vars
  <2>2. ASSUME NEW c \in Calls, Join(c) \/ Discard(c) PROVE Safe
    BY <2>2, CallsAssumption DEF Join, JoinEmpty, JoinReplacing, JoinSealed, JoinOpen,
       OpenWindow, Discard
  <2>3. ASSUME NEW c \in Calls, RunDrop(c) PROVE Safe
    BY <1>1, <2>3 DEF RunDrop, AbandonSlot, ControlInv, TypeOK, Slot
  <2>4. ASSUME NEW c \in Calls, Answer(c) \/ Cancel(c) PROVE Safe
    BY <2>4 DEF Answer, Cancel, Leave
  <2>5. ASSUME NEW w \in Calls, QueueNext(w) PROVE Safe
    BY <1>1, <2>5 DEF QueueNext, Submit, Accept, Reject, slotVars, ControlInv, TypeOK
  <2>6. ASSUME NEW w \in Calls, WorkNext(w) PROVE Safe
    BY <2>6 DEF WorkNext, Dequeue, Park, FindSealed, Wake, Timeout, Seal, slotVars
  <2>. QED
    BY <1>1, <2>1, <2>2, <2>3, <2>4, <2>5, <2>6 DEF Next, CallNext, Terminated
<1>2. Inv /\ [Next]_vars => Safe
  BY <1>1 DEF Inv
<1>. QED BY <1>2, Invariance, PTL DEF Spec, NoForeignEviction

-----------------------------------------------------------------------------
(* BatchWindow implements BatchPromise. *)

\* The calls of a group are those its window holds, or has handed over.
LEMMA GroupMembers ==
    ASSUME ControlInv, NEW w \in Calls
    PROVE  /\ Promise!Members(w) = Held(w)
           /\ job[w] # "ran" => batch[w] = {} /\ Promise!Members(w) = members[w]
           /\ adm[w] # "none" => w \in Promise!Members(w)
BY CallsAssumption DEF ControlInv, TypeOK, MemberKept, Windows, Promise!Members, Held

\* What a join that opens a window is for the promise.
LEMMA OpenEnters ==
    ASSUME ControlInv, NEW c \in Calls, NEW closed \in SUBSET Calls, NEW old,
           pc[c] = "idle", OpenWindow(c, closed, old)
    PROVE  Promise!Enter(c, c)
<1>1. joined[c] = NoWindow /\ adm[c] = "none" /\ job[c] = "none" /\ outcome[c] = "none"
  BY CallsAssumption DEF ControlInv, TypeOK, Starts, Windows, Jobs
<1>2. batch[c] = {}
  BY <1>1, GroupMembers
<1>3. [w \in Calls |-> Verdict(w)]' = [w \in Calls |-> Verdict(w)]
  BY <1>1 DEF OpenWindow, Verdict, ControlInv, TypeOK
<1>4. [w \in Calls |-> Verdict(w)][c] = "open"
  BY <1>1 DEF Verdict
<1>5. outcome' = [outcome EXCEPT ![c] = "none"]
  BY <1>1 DEF OpenWindow, ControlInv, TypeOK
<1>. QED
  BY <1>1, <1>2, <1>3, <1>4, <1>5 DEF OpenWindow, Promise!Enter

\* Every join is an Enter of the promise.
LEMMA JoinEnters ==
    ASSUME ControlInv, Sizes, NEW c \in Calls, JoinOpen(c)
    PROVE  Promise!Enter(c, open)
<1>1. open \in Calls /\ adm[open] # "none" /\ job[open] # "ran"
  BY DEF JoinOpen, ControlInv, TypeOK, Slot, Jobs
<1>2. open \in Promise!Members(open) /\ batch[open] = {}
  BY <1>1, GroupMembers
<1>3. Cardinality(Promise!Members(open)) < MaxSize
  <2>1. Promise!Members(open) = Held(open) /\ IsFiniteSet(Held(open))
    BY <1>1, GroupMembers, CallsAssumption, FS_Subset DEF Held, ControlInv, TypeOK
  <2>2. Cardinality(Held(open)) \in Nat /\ Cardinality(Held(open)) # 0
    BY <1>2, <2>1, FS_EmptySet, FS_CardinalityType
  <2>3. Cardinality(Held(open)) < Capacity
    BY <1>1 DEF Sizes, Room, JoinOpen
  <2>. QED BY <2>1, <2>2, <2>3, MaxSizeAssumption DEF Capacity
<1>4. joined[c] = NoWindow /\ outcome[c] = "none"
  BY DEF JoinOpen, ControlInv, TypeOK, Starts
<1>5. [w \in Calls |-> Verdict(w)]' = [w \in Calls |-> Verdict(w)]
  BY DEF JoinOpen, Verdict
<1>6. [w \in Calls |-> Verdict(w)][open] = IF admission = "Pending" THEN "open" ELSE "admitted"
  BY <1>1 DEF JoinOpen, ControlInv, TypeOK, Slot, Verdict
<1>7. outcome' = [outcome EXCEPT ![c] = IF admission = "Pending" THEN "none" ELSE "ok"]
  BY <1>4 DEF JoinOpen, ControlInv, TypeOK
<1>8. /\ opts[open] = opts[c] /\ joined' = [joined EXCEPT ![c] = open]
      /\ UNCHANGED <<opts, batch>>
  BY DEF JoinOpen
<1>9. Promise!Cardinality(Promise!Members(open)) < MaxSize
  BY <1>3, Zenon DEF Promise!Cardinality, Cardinality
<1>10. CASE admission = "Pending"
  <2>1. [w \in Calls |-> Verdict(w)][open] = "open" /\ outcome' = [outcome EXCEPT ![c] = "none"]
    BY <1>6, <1>7, <1>10
  <2>. QED
    BY <2>1, <1>2, <1>3, <1>4, <1>5, <1>8, <1>9 DEF Promise!Enter
<1>11. CASE admission # "Pending"
  <2>1. [w \in Calls |-> Verdict(w)][open] = "admitted" /\ outcome' = [outcome EXCEPT ![c] = "ok"]
    BY <1>6, <1>7, <1>11
  <2>. QED
    BY <2>1, <1>2, <1>3, <1>4, <1>5, <1>8, <1>9 DEF Promise!Enter
<1>. QED BY <1>10, <1>11

\* A call's step is a Return, a Withdraw or a stutter of the promise, or an Enter.
LEMMA CallImplements ==
    ASSUME ControlInv, Sizes, NEW c \in Calls, CallNext(c)
    PROVE  [Promise!Next]_(Promise!vars)
<1>1. CASE JoinEmpty(c)
  BY <1>1, OpenEnters DEF JoinEmpty, Promise!Next
<1>2. CASE JoinReplacing(c)
  BY <1>2, OpenEnters DEF JoinReplacing, Promise!Next, ControlInv, TypeOK
<1>3. CASE JoinSealed(c)
  BY <1>3, OpenEnters DEF JoinSealed, Promise!Next
<1>4. CASE JoinOpen(c)
  BY <1>4, JoinEnters DEF JoinOpen, Promise!Next, ControlInv, TypeOK
<1>5. CASE Discard(c)
  BY <1>5 DEF Discard, Promise!vars, Verdict
<1>6. ASSUME RunDrop(c), NEW w \in Calls, w = dropping[c] PROVE [Promise!Next]_(Promise!vars)
  <2>1. CASE adm[w] = "pending"
    <3>1. [v \in Calls |-> Verdict(v)]' = [[v \in Calls |-> Verdict(v)] EXCEPT ![w] = "withdrawn"]
      BY <1>6, <2>1 DEF RunDrop, Verdict, ControlInv, TypeOK
    <3>2. \A d \in Promise!Members(w) : outcome[d] = "cancelled"
      BY <1>6, <2>1, CallsAssumption
      DEF Promise!Members, ControlInv, TypeOK, Owners, Strong, Starts, Outcomes
    <3>3. Promise!Members(w) # {}
      BY <2>1, GroupMembers
    <3>4. [v \in Calls |-> Verdict(v)][w] = "open"
      BY <2>1 DEF Verdict
    <3>5. Promise!Withdraw(w)
      BY <1>6, <3>1, <3>2, <3>3, <3>4 DEF RunDrop, Promise!Withdraw
    <3>. QED BY <3>5 DEF Promise!Next
  <2>2. CASE adm[w] # "pending"
    BY <1>6, <2>2 DEF RunDrop, Promise!vars, Verdict, ControlInv, TypeOK
  <2>. QED BY <2>1, <2>2
<1>7. ASSUME NEW r, Leave(c, r), r = "cancelled" \/ (r = adm[joined[c]] /\ r \in {"ok", "err"})
      PROVE  [Promise!Next]_(Promise!vars)
  <2>1. joined[c] \in Calls /\ outcome[c] = "none"
    BY <1>7, CallsAssumption DEF Leave, ControlInv, TypeOK, Starts
  <2>2. [w \in Calls |-> Verdict(w)]' = [w \in Calls |-> Verdict(w)]
    BY <1>7 DEF Leave, Verdict
  <2>3. /\ r = "ok" => [w \in Calls |-> Verdict(w)][joined[c]] = "admitted"
        /\ r = "err" => [w \in Calls |-> Verdict(w)][joined[c]] = "refused"
    BY <1>7, <2>1 DEF Verdict
  <2>4. Promise!Return(c)
    BY <1>7, <2>1, <2>2, <2>3, CallsAssumption DEF Leave, Promise!Return
  <2>. QED BY <2>4 DEF Promise!Next
<1>8. RunDrop(c) => dropping[c] \in Calls
  BY DEF RunDrop, ControlInv, TypeOK
<1>. QED
  BY <1>1, <1>2, <1>3, <1>4, <1>5, <1>6, <1>7, <1>8 DEF CallNext, Join, Answer, Cancel

\* The queue's step is a Decide or a stutter,
LEMMA QueueImplements ==
    ASSUME ControlInv, NEW w \in Calls, QueueNext(w)
    PROVE  [Promise!Next]_(Promise!vars)
<1>. DEFINE verdict == [v \in Calls |-> Verdict(v)]
<1>1. CASE Submit(w)
  BY <1>1 DEF Submit, Promise!vars, Verdict, callVars, windowVars
<1>2. ASSUME Accept(w) \/ Reject(w)
      PROVE  /\ verdict[w] = "open"
             /\ \E c \in Promise!Members(w) : outcome[c] = "none"
             /\ UNCHANGED <<opts, outcome, joined, batch>>
  BY <1>2 DEF Accept, Reject, Verdict, Polled, Promise!Members, ControlInv, TypeOK, Starts,
     callVars
<1>3. CASE Accept(w)
  <2>1. verdict' = [verdict EXCEPT ![w] = "admitted"]
    BY <1>3 DEF Accept, Verdict, ControlInv, TypeOK
  <2>2. Promise!Decide(w, "admitted")
    BY <1>2, <1>3, <2>1 DEF Promise!Decide
  <2>. QED BY <2>2 DEF Promise!Next
<1>4. CASE Reject(w)
  <2>1. verdict' = [verdict EXCEPT ![w] = "refused"]
    BY <1>4 DEF Reject, Verdict, ControlInv, TypeOK
  <2>2. batch[w] = {}
    BY <1>4, GroupMembers DEF Reject
  <2>3. Promise!Decide(w, "refused")
    BY <1>2, <1>4, <2>1, <2>2 DEF Promise!Decide
  <2>. QED BY <2>3 DEF Promise!Next
<1>. QED BY <1>1, <1>3, <1>4 DEF QueueNext

\* and the worker's a Run or a stutter.
LEMMA WorkImplements ==
    ASSUME ControlInv, NEW w \in Calls, WorkNext(w)
    PROVE  [Promise!Next]_(Promise!vars)
<1>1. CASE Dequeue(w) \/ Park(w)
  BY <1>1 DEF Dequeue, Park, Promise!vars, Verdict, callVars
<1>2. ASSUME Seal(w), job[w] \in Listening PROVE [Promise!Next]_(Promise!vars)
  <2>1. adm[w] \notin {"none", "err"}
    BY <1>2 DEF ControlInv, TypeOK, Jobs, Listening
  <2>2. batch[w] = {} /\ Promise!Members(w) = members[w] /\ Promise!Members(w) # {}
    BY <1>2, <2>1, GroupMembers DEF Listening
  <2>3. [v \in Calls |-> Verdict(v)][w] # "refused"
    BY <2>1 DEF Verdict
  <2>4. [v \in Calls |-> Verdict(v)]' = [v \in Calls |-> Verdict(v)]
    BY <1>2 DEF Seal, Verdict
  <2>5. Promise!Run(w)
    BY <1>2, <2>2, <2>3, <2>4 DEF Seal, Promise!Run, callVars
  <2>. QED BY <2>5 DEF Promise!Next
<1>. QED BY <1>1, <1>2 DEF WorkNext, FindSealed, Wake, Timeout, Listening

\* The window, with its slot, references, races and cancellations, is an
\* implementation of the promise: one verdict per group, one batch per group.
THEOREM Implementation == Spec => ImplementsPromise
<1>1. Init => Promise!Init
  BY DEF Init, Promise!Init, Verdict
<1>2. Inv /\ [Next]_vars => [Promise!Next]_(Promise!vars)
  <2>1. UNCHANGED vars => UNCHANGED Promise!vars
    BY DEF vars, Promise!vars, Verdict
  <2>. QED
    BY <2>1, CallImplements, QueueImplements, WorkImplements DEF Next, Terminated, Inv, Sizes
<1>. QED BY <1>1, <1>2, Invariance, PTL DEF Spec, Promise!Spec, ImplementsPromise

-----------------------------------------------------------------------------
(* What the promise says to the callers, for any calls and options.        *)

Verdicts == [w \in Calls |-> Verdict(w)]

\* Types, with a refused group that never ran.
PromiseInv ==
    /\ joined \in [Calls -> Calls \cup {NoWindow}]
    /\ outcome \in [Calls -> {"none", "ok", "err", "cancelled"}]
    /\ batch \in [Calls -> SUBSET Calls]
    /\ \A g \in Calls : Verdicts[g] = "refused" => batch[g] = {}
    /\ Promise!WholeGroup
    /\ Promise!ToldTheVerdict

\* A call that enters a group which has not run leaves every batch a whole group.
LEMMA EnterStep ==
    ASSUME PromiseInv, NEW c \in Calls, NEW g \in Calls, Promise!Enter(c, g)
    PROVE  PromiseInv'
<1>1. /\ UNCHANGED <<batch, Verdicts>> /\ batch[g] = {} /\ joined[c] = NoWindow
      /\ joined' = [joined EXCEPT ![c] = g]
      /\ outcome' = [outcome EXCEPT ![c] = IF Verdicts[g] = "admitted" THEN "ok" ELSE "none"]
  BY DEF Promise!Enter, Verdicts
<1>2. Promise!WholeGroup'
  BY <1>1, CallsAssumption DEF PromiseInv, Promise!WholeGroup, Promise!Members
<1>3. Promise!ToldTheVerdict'
  BY <1>1, CallsAssumption DEF PromiseInv, Promise!ToldTheVerdict, Verdicts
<1>. QED BY <1>1, <1>2, <1>3 DEF PromiseInv

\* A group that runs has not been refused, so no member of it was told Err.
LEMMA RunStep ==
    ASSUME PromiseInv, NEW g \in Calls, Promise!Run(g)
    PROVE  PromiseInv'
<1>1. /\ UNCHANGED <<joined, outcome, Verdicts>> /\ Verdicts[g] # "refused" /\ batch[g] = {}
      /\ batch' = [batch EXCEPT ![g] = Promise!Members(g)]
  BY DEF Promise!Run, Verdicts
<1>2. Promise!Members(g) \subseteq Calls /\ \A c \in Promise!Members(g) : joined[c] = g
  BY DEF Promise!Members
<1>3. Promise!WholeGroup'
  BY <1>1, <1>2 DEF PromiseInv, Promise!WholeGroup, Promise!Members
<1>4. Promise!ToldTheVerdict'
  BY <1>1, <1>2 DEF PromiseInv, Promise!ToldTheVerdict, Verdicts
<1>. QED BY <1>1, <1>2, <1>3, <1>4 DEF PromiseInv

\* A verdict, a withdrawal or an answer leaves the groups and the batches alone.
LEMMA VerdictStep ==
    ASSUME PromiseInv, NEW g \in Calls, NEW v \in {"admitted", "refused", "withdrawn"},
           Promise!Decide(g, v) \/ (v = "withdrawn" /\ Promise!Withdraw(g))
    PROVE  PromiseInv'
<1>1. /\ UNCHANGED <<joined, outcome, batch>> /\ Verdicts[g] = "open"
      /\ Verdicts' = [Verdicts EXCEPT ![g] = v]
      /\ v = "refused" => batch[g] = {}
  BY DEF Promise!Decide, Promise!Withdraw, Verdicts
<1>2. Promise!WholeGroup'
  BY <1>1 DEF PromiseInv, Promise!WholeGroup, Promise!Members
<1>3. Promise!ToldTheVerdict'
  BY <1>1 DEF PromiseInv, Promise!ToldTheVerdict, Verdicts
<1>. QED BY <1>1, <1>2, <1>3 DEF PromiseInv, Verdicts

LEMMA ReturnStep ==
    ASSUME PromiseInv, NEW c \in Calls, Promise!Return(c)
    PROVE  PromiseInv'
<1>1. /\ UNCHANGED <<joined, batch, Verdicts>> /\ joined[c] # NoWindow
      /\ \/ Verdicts[joined[c]] = "admitted" /\ outcome' = [outcome EXCEPT ![c] = "ok"]
         \/ Verdicts[joined[c]] = "refused" /\ outcome' = [outcome EXCEPT ![c] = "err"]
         \/ outcome' = [outcome EXCEPT ![c] = "cancelled"]
  BY DEF Promise!Return, Verdicts
<1>2. Promise!WholeGroup'
  BY <1>1 DEF PromiseInv, Promise!WholeGroup, Promise!Members
<1>3. joined[c] \in Calls /\ \A g \in Calls : c \in batch[g] => g = joined[c]
  BY <1>1 DEF PromiseInv, Promise!WholeGroup, Promise!Members
<1>4. Promise!ToldTheVerdict'
  BY <1>1, <1>3 DEF PromiseInv, Promise!ToldTheVerdict, Verdicts
<1>. QED BY <1>1, <1>2, <1>4 DEF PromiseInv

\* A batch of the abstract batcher is a whole group, its callers are told the group's
\* verdict, and verdicts and batches are final: nothing runs twice.
THEOREM GroupsKept ==
    Promise!Spec => []Promise!WholeGroup /\ []Promise!ToldTheVerdict /\ Promise!DecidedOnce
<1>1. Promise!Init => PromiseInv
  BY DEF Promise!Init, PromiseInv, Promise!WholeGroup, Promise!ToldTheVerdict, Verdicts
<1>2. PromiseInv /\ [Promise!Next]_(Promise!vars) => PromiseInv'
  <2>1. ASSUME PromiseInv, UNCHANGED Promise!vars PROVE PromiseInv'
    BY <2>1 DEF Promise!vars, PromiseInv, Promise!WholeGroup, Promise!ToldTheVerdict,
       Promise!Members, Verdicts
  <2>. QED
    BY <2>1, EnterStep, RunStep, VerdictStep, ReturnStep DEF Promise!Next
<1>3. PromiseInv /\ [Promise!Next]_(Promise!vars) =>
        [\A g \in Calls :
            /\ Verdicts[g] # "open" => Verdicts'[g] = Verdicts[g]
            /\ batch[g] # {} => batch'[g] = batch[g]]_(Promise!vars)
  <2>. SUFFICES ASSUME PromiseInv, Promise!Next, NEW g \in Calls
                PROVE  /\ Verdicts[g] # "open" => Verdicts'[g] = Verdicts[g]
                       /\ batch[g] # {} => batch'[g] = batch[g]
    OBVIOUS
  <2>1. ASSUME NEW c \in Calls, NEW h \in Calls, Promise!Enter(c, h) \/ Promise!Return(c)
        PROVE  UNCHANGED <<Verdicts, batch>>
    BY <2>1 DEF Promise!Enter, Promise!Return, Verdicts
  <2>2. ASSUME NEW h \in Calls, NEW v,
               \/ Promise!Decide(h, v)
               \/ v = "withdrawn" /\ Promise!Withdraw(h)
        PROVE  Verdicts[h] = "open" /\ Verdicts' = [Verdicts EXCEPT ![h] = v] /\ batch' = batch
    BY <2>2 DEF Promise!Decide, Promise!Withdraw, Verdicts
  <2>3. ASSUME NEW h \in Calls, Promise!Run(h)
        PROVE  /\ batch[h] = {} /\ Verdicts' = Verdicts
               /\ batch' = [batch EXCEPT ![h] = Promise!Members(h)]
    BY <2>3 DEF Promise!Run, Verdicts
  <2>4. DOMAIN Verdicts = Calls /\ DOMAIN batch = Calls
    BY DEF Verdicts, PromiseInv
  <2>5. CASE \E c \in Calls : Promise!Return(c) \/ \E h \in Calls : Promise!Enter(c, h)
    BY <2>1, <2>5
  <2>6. CASE \E h \in Calls : \/ \E v \in {"admitted", "refused"} : Promise!Decide(h, v)
                              \/ Promise!Withdraw(h)
    BY <2>2, <2>4, <2>6
  <2>7. CASE \E h \in Calls : Promise!Run(h)
    BY <2>3, <2>4, <2>7
  <2>. QED BY <2>5, <2>6, <2>7 DEF Promise!Next
<1>4. PromiseInv => Promise!WholeGroup /\ Promise!ToldTheVerdict
  BY DEF PromiseInv
<1>. QED BY <1>1, <1>2, <1>3, <1>4, PTL DEF Promise!Spec, Promise!DecidedOnce, Verdicts

\* What the abstract batcher promises holds of the window itself.
THEOREM PromiseKept ==
    Spec => []Promise!WholeGroup /\ []Promise!ToldTheVerdict /\ Promise!DecidedOnce
BY Implementation, GroupsKept DEF ImplementsPromise

=============================================================================
