---------------------------- MODULE MCJobSystem ----------------------------
(* Instances of JobSystem for TLC. *)
EXTENDS JobSystem

CONSTANTS j1, j2, w1, w2

TwoJobs    == {j1, j2}
TwoWorkers == {w1, w2}

\* Jobs are alike, and so are workers: it is enough to look at the behaviours in which j1
\* is enqueued before j2 and w2 stops before w1, if it does.  Nobody is obliged to
\* enqueue, or to shut down.
InOrder ==
    /\ call[j2] # "idle" => call[j1] # "idle"
    /\ worker[w1] = "stopped" => worker[w2] = "stopped"

MCSpec == SystemInit /\ [][SystemNext /\ InOrder']_systemVars /\ Fairness

=============================================================================
