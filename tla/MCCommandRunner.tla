-------------------------- MODULE MCCommandRunner --------------------------
(* TLC instances of CommandRunner: jobs are interchangeable, and so are     *)
(* scopes.                                                                  *)
EXTENDS CommandRunner, TLC

Interchange == Permutations(Jobs) \cup Permutations(Scopes)
=============================================================================
