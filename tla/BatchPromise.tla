---------------------------- MODULE BatchPromise ----------------------------
(***************************************************************************)
(* What Batcher::enqueue (src/crates/jobq-core/src/batch/task.rs) promises *)
(* its callers, without slots, admissions or references: calls form        *)
(* groups, a group gets one verdict, and an admitted group runs as one     *)
(* batch.  BatchWindow implements it.                                      *)
(***************************************************************************)
EXTENDS Integers, FiniteSets

CONSTANTS
    Calls,      \* the enqueue calls; a group is named after its first call
    Options,
    MaxSize,
    NoGroup

VARIABLES
    opts,       \* the queue options of each call
    outcome,    \* what each call was told
    group,      \* the group each call belongs to
    verdict,    \* what became of each group's submission
    batch       \* the calls that ran together

vars == <<opts, outcome, group, verdict, batch>>

Members(g) == {c \in Calls : group[c] = g}

Init ==
    /\ opts \in [Calls -> Options]
    /\ outcome = [c \in Calls |-> "none"]
    /\ group = [c \in Calls |-> NoGroup]
    /\ verdict = [g \in Calls |-> "open"]
    /\ batch = [g \in Calls |-> {}]

\* A call opens a group of its own, or enters one with its options, with room,
\* that has neither run nor been refused; it is told Ok at once if the group
\* has been admitted.
Enter(c, g) ==
    /\ group[c] = NoGroup
    /\ \/ g = c
       \/ /\ Members(g) # {}
          /\ opts[g] = opts[c]
          /\ Cardinality(Members(g)) < MaxSize
    /\ batch[g] = {}
    /\ verdict[g] \in {"open", "admitted"}
    /\ group' = [group EXCEPT ![c] = g]
    /\ outcome' = [outcome EXCEPT ![c] = IF verdict[g] = "admitted" THEN "ok" ELSE "none"]
    /\ UNCHANGED <<opts, verdict, batch>>

\* The queue's answer, while some call waits for it; a group that has run is
\* not refused any more.
Decide(g, v) ==
    /\ verdict[g] = "open"
    /\ \E c \in Members(g) : outcome[c] = "none"
    /\ v = "refused" => batch[g] = {}
    /\ verdict' = [verdict EXCEPT ![g] = v]
    /\ UNCHANGED <<opts, outcome, group, batch>>

\* Nobody waits for the answer any more.
Withdraw(g) ==
    /\ verdict[g] = "open"
    /\ Members(g) # {}
    /\ \A c \in Members(g) : outcome[c] = "cancelled"
    /\ verdict' = [verdict EXCEPT ![g] = "withdrawn"]
    /\ UNCHANGED <<opts, outcome, group, batch>>

Return(c) ==
    /\ group[c] # NoGroup
    /\ outcome[c] = "none"
    /\ \/ verdict[group[c]] = "admitted" /\ outcome' = [outcome EXCEPT ![c] = "ok"]
       \/ verdict[group[c]] = "refused" /\ outcome' = [outcome EXCEPT ![c] = "err"]
       \/ outcome' = [outcome EXCEPT ![c] = "cancelled"]
    /\ UNCHANGED <<opts, group, verdict, batch>>

\* The whole group runs, once, unless it was refused.
Run(g) ==
    /\ Members(g) # {}
    /\ batch[g] = {}
    /\ verdict[g] # "refused"
    /\ batch' = [batch EXCEPT ![g] = Members(g)]
    /\ UNCHANGED <<opts, outcome, group, verdict>>

Next ==
    \/ \E c, g \in Calls : Enter(c, g)
    \/ \E g \in Calls, v \in {"admitted", "refused"} : Decide(g, v)
    \/ \E g \in Calls : Withdraw(g) \/ Run(g)
    \/ \E c \in Calls : Return(c)

Spec == Init /\ [][Next]_vars

-----------------------------------------------------------------------------

\* A batch is a whole group: nobody who entered is left out of it, before or after.
WholeGroup == \A g \in Calls : batch[g] # {} => batch[g] = Members(g)

\* Ok means that the call's group was admitted; Err that it was refused, and then the
\* call is in no batch.
ToldTheVerdict ==
    \A c \in Calls :
        /\ outcome[c] = "ok" => group[c] # NoGroup /\ verdict[group[c]] = "admitted"
        /\ outcome[c] = "err" =>
               /\ group[c] # NoGroup
               /\ verdict[group[c]] = "refused"
               /\ \A g \in Calls : c \notin batch[g]

\* A verdict and a batch are final.
DecidedOnce ==
    [][\A g \in Calls :
          /\ verdict[g] # "open" => verdict'[g] = verdict[g]
          /\ batch[g] # {} => batch'[g] = batch[g]]_vars

=============================================================================
