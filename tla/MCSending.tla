------------------------------ MODULE MCSending ------------------------------
(* Module Sending with interchangeable requests. *)
EXTENDS Sending, TLC

Symmetry == Permutations(Verifications) \cup Permutations(Credentials) \cup Permutations(Rotations)
=============================================================================
