--------------------------- MODULE MCBatchWindow ---------------------------
(* Instances of BatchWindow for TLC. *)
EXTENDS BatchWindow

CONSTANTS c1, c2, c3, low, high

ThreeCalls == {c1, c2, c3}
TwoOptions == {low, high}

\* Calls are alike but for their options, of which two at least are the same, and so are
\* options: it is enough to look at the behaviours in which c1 and c2 have the option
\* `low', and c1 is made before c2.  Nobody is obliged to make a call.
MCInit  == Init /\ opts[c1] = low /\ opts[c2] = low
InOrder == pc[c2] # "idle" => pc[c1] # "idle"

MCSpec == MCInit /\ [][Next /\ InOrder']_vars /\ Fairness

=============================================================================
