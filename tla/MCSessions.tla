----------------------------- MODULE MCSessions -----------------------------
EXTENDS Sessions, TLC

(* What an administrator assigns: a plan with a price, without a trial *)
MCOffers == {<<TRUE, FALSE>>}

MCSymmetry == Permutations(Txs) \cup Permutations(Lists)
=============================================================================
