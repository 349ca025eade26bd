----------------------- MODULE MCVerificationLifecycle -----------------------
(* The verification lifecycle on a small instance. *)
EXTENDS VerificationLifecycle, TLC

\* Task objects are interchangeable, and so are backups.
Symmetry == Permutations(Tasks) \union Permutations(Backups)
=============================================================================
