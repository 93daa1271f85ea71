-------------------------- MODULE MCControlPlane --------------------------
(* The worlds that the runs of ControlPlane put the client in.             *)
EXTENDS ControlPlane

World(start, snap, faults, requests) ==
  [start |-> start, snap |-> snap, faults |-> faults, requests |-> requests]

\* No call fails: a redeploy whose reads lag, a first deploy whose updates may
\* fail.
OrderlyWorlds ==
  {World("old", TRUE, {"lag"}, 6), World("absent", FALSE, {"updates"}, 6)}

\* Calls fail while reads are current.
FailingWorlds == {World(start, TRUE, {"calls"}, 4) : start \in {"old", "deployed"}}

PassingWorlds == OrderlyWorlds \cup FailingWorlds

\* Both at once.
StaleWorlds == {World("deployed", FALSE, {"lag", "calls"}, 3)}

=============================================================================
