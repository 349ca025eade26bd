--------------------------- MODULE MCRuntimeRunner ---------------------------
(* Model values and symmetry for the runs of RuntimeRunner, and the bound of  *)
(* the two-run model.                                                         *)
EXTENDS RuntimeRunner, TLC

Symmetry == Permutations(Runs) \union Permutations(Handlers)

\* A second run is only looked at while both are unfinished and neither has
\* restored its archive: runs meet in the registry, in the handlers and in the
\* reaper, and what an execution does later touches its own run alone.
Overlapping ==
  created = Runs => \A r \in Runs : run[r].status = "running" /\ milestone[r] = 0

=============================================================================
