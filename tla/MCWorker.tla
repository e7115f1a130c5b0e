------------------------------ MODULE MCWorker ------------------------------
(* Small instances of Worker: two workers over one change of day, with a   *)
(* client of either mode, and one worker over a change of month, with a    *)
(* client as it is shipped.                                                *)
EXTENDS Worker, TLC

MCSymmetry == Permutations(Workers)
=============================================================================
