-------------------------- MODULE MCTaskEventQueue --------------------------
(* Events between threads: the event queues of a task and publish/subscribe, *)
(* each on its own.                                                          *)
EXTENDS TaskEventQueue, Link, TLC

CONSTANTS q1, q2, p1, p2

MCTwoQueues == {q1, q2}
MCSize == [q \in {q1, q2} |-> IF q = q1 THEN 2 ELSE 1]
MCTwoProducers == {p1, p2}
MCClearQ2 == {q2}
\* The producers are alike, the queues are not.
MCSymmetry == Permutations({p1, p2})

VARIABLE part

\* Each part starts in its initial state and stays there while the other moves.
MCInit == part \in {"queues", "link"} /\ Init /\ LinkInit
MCNext ==
  /\ UNCHANGED part
  /\ \/ part = "queues" /\ Next /\ UNCHANGED linkVars
     \/ part = "link" /\ LinkNext /\ UNCHANGED vars
MCSpec == MCInit /\ [][MCNext]_<<part, vars, linkVars>>
=============================================================================
