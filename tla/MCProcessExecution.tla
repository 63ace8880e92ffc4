-------------------------- MODULE MCProcessExecution --------------------------
(* Two calls of the controller on one operation identity. *)
EXTENDS ProcessExecution, TLC

Symmetry == Permutations(Workers)
=============================================================================
