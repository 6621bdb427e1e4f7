-------------------------- MODULE MCSourceRegistry --------------------------
(* TLC instance of SourceRegistry. *)
EXTENDS SourceRegistry, TLC

Symmetry == Permutations(Id) \cup Permutations(Slot) \cup Permutations(Task \ {Boot})

\* Bound: after a race with a reload the calls in flight run to their end, through
\* restarts too, and no other call begins.
OneRace ==
  "reload" \in raced => \A t \in Task : task[t].pc = "idle" => task'[t].pc = "idle"
=============================================================================
