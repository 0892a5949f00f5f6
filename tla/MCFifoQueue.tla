---------------------------- MODULE MCFifoQueue ----------------------------
(* Instances of FifoQueue for TLC. *)
EXTENDS FifoQueue

CONSTANTS e1, e2, e3, d1, d2

ThreeItems == {e1, e2, e3}
TwoItems == {e1, e2}
TwoConsumers == {d1, d2}
OneConsumer == {d1}

\* Calls are alike, and so are consumers: it is enough to look at the behaviours in which
\* calls are made in the order of their names and d2 is the consumer that goes, if one
\* goes.  If both go, the rest is as if d1 stayed and never ran on, and no liveness
\* property asks for anything.  Nobody is obliged to make a call, or to go.
Made(e) == pc[e] # "idle"
InOrder == (Made(e2) => Made(e1)) /\ (Made(e3) => Made(e2)) /\ consumer[d1] # "gone"

MCSpec == Init /\ [][Next /\ InOrder']_vars /\ Fairness

=============================================================================
