---------------------------- MODULE MCTaskBilling ----------------------------
(* Instances of TaskBilling for TLC. *)
EXTENDS TaskBilling, TLC

CONSTANTS t1, t2, t3, w1, w2

\* One task at a time is followed; which one is left open.  Two loops meet on the
\* ordinary video task t1, one loop runs for the others.  Before a loop sets item,
\* its value does not matter.
OneTask ==
    /\ Cardinality({t \in Tasks : row[t] # "none"}) <= 1
    /\ row[t1] = "none" => \A w \in Workers \ {w1} : phase[w] = "idle"
    /\ \A t \in Tasks : row[t] # "none" => item = [w \in Workers |-> t]
=============================================================================
