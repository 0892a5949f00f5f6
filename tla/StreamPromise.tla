--------------------------- MODULE StreamPromise ---------------------------
(***************************************************************************)
(* What a streaming job promises the consumer of each of its streams: the  *)
(* items come in the order they were made, without gaps; there is one      *)
(* terminal outcome, it never changes, and it is Ok only if no item was    *)
(* held back from a consumer that is still there.  StreamJob and           *)
(* StreamBatch implement it.                                               *)
(***************************************************************************)
EXTENDS Naturals, Sequences

CONSTANTS
    Streams,
    Outcomes,   \* the terminal outcomes, "ok" among them
    MaxItems

VARIABLES
    made,       \* how many items the job has made for each stream
    sent,       \* those its channel accepted for the consumer
    got,        \* those the consumer has taken
    outcome,    \* its terminal outcome, or "none"
    left        \* the streams whose consumer has gone

vars == <<made, sent, got, outcome, left>>

Init ==
    /\ made = [s \in Streams |-> 0]
    /\ sent = [s \in Streams |-> <<>>]
    /\ got = [s \in Streams |-> <<>>]
    /\ outcome = [s \in Streams |-> "none"]
    /\ left = {}

Undecided(s) == outcome[s] = "none" \/ s \in left

\* An item is made while none is held back: it waits for room, ...
Make(s) ==
    /\ Undecided(s)
    /\ made[s] < MaxItems
    /\ s \in left \/ made[s] = Len(sent[s])
    /\ made' = [made EXCEPT ![s] = @ + 1]
    /\ UNCHANGED <<sent, got, outcome, left>>

\* ... is let in, ...
Accept(s) ==
    /\ outcome[s] = "none" /\ s \notin left
    /\ made[s] = Len(sent[s]) + 1
    /\ sent' = [sent EXCEPT ![s] = Append(@, made[s])]
    /\ UNCHANGED <<made, got, outcome, left>>

\* ... or both at once.
Send(s) ==
    /\ outcome[s] = "none" /\ s \notin left
    /\ made[s] < MaxItems /\ made[s] = Len(sent[s])
    /\ made' = [made EXCEPT ![s] = @ + 1]
    /\ sent' = [sent EXCEPT ![s] = Append(@, made[s] + 1)]
    /\ UNCHANGED <<got, outcome, left>>

\* An item that is refused decides the stream.
Refuse(s, o) ==
    /\ outcome[s] = "none" /\ s \notin left
    /\ made[s] < MaxItems /\ made[s] = Len(sent[s])
    /\ o # "ok"
    /\ made' = [made EXCEPT ![s] = @ + 1]
    /\ outcome' = [outcome EXCEPT ![s] = o]
    /\ UNCHANGED <<sent, got, left>>

Take(s) ==
    /\ s \notin left
    /\ Len(got[s]) < Len(sent[s])
    /\ got' = [got EXCEPT ![s] = Append(@, sent[s][Len(@) + 1])]
    /\ UNCHANGED <<made, sent, outcome, left>>

\* Streams not decided yet get an outcome, several of them in one step when the
\* whole job ends; not Ok while an item is held back.
Settle(S, o) ==
    /\ o = "ok" => \A s \in S : s \in left \/ made[s] = Len(sent[s])
    /\ outcome' = [s \in Streams |-> IF s \in S /\ outcome[s] = "none" THEN o ELSE outcome[s]]
    /\ UNCHANGED <<made, sent, got, left>>

\* The consumer goes, and what it did not take with it.
Leave(s, o) ==
    /\ s \notin left
    /\ left' = left \cup {s}
    /\ sent' = [sent EXCEPT ![s] = got[s]]
    /\ o # "ok"
    /\ outcome' = [outcome EXCEPT ![s] = IF @ = "none" THEN o ELSE @]
    /\ UNCHANGED <<made, got>>

Next ==
    \/ \E s \in Streams : Make(s) \/ Accept(s) \/ Send(s) \/ Take(s)
    \/ \E s \in Streams, o \in Outcomes : Refuse(s, o)
    \/ \E S \in SUBSET Streams, o \in Outcomes : Settle(S, o)
    \/ \E s \in Streams, o \in Outcomes \cup {"none"} : Leave(s, o)

Spec == Init /\ [][Next]_vars

-----------------------------------------------------------------------------

\* The items accepted are 1, 2, 3, ... and the consumer has a prefix of them.
InOrder ==
    \A s \in Streams :
        /\ \A i \in 1 .. Len(sent[s]) : sent[s][i] = i
        /\ Len(got[s]) <= Len(sent[s])
        /\ \A i \in 1 .. Len(got[s]) : got[s][i] = i

\* A stream that ended well was sent all its items.
OkMeansAll ==
    \A s \in Streams \ left : outcome[s] = "ok" => Len(sent[s]) = made[s]

OutcomeIsFinal ==
    [][\A s \in Streams : outcome[s] # "none" => outcome'[s] = outcome[s]]_vars

=============================================================================
