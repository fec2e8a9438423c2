-------------------------- MODULE MCMutationAudit --------------------------
(* Model-checking instance of MutationAudit. *)
EXTENDS MutationAudit, TLC

Symmetry == Permutations(Mutators)
=============================================================================
