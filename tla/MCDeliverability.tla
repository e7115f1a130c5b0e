-------------------------- MODULE MCDeliverability --------------------------
(* A small instance of Deliverability.                                     *)
EXTENDS Deliverability, TLC

(* Rates just under 5% that storing rounds up, with everything found.      *)
Edge == [accepted |-> 20000, delivered |-> 19000, bounced |-> 999, rejected |-> 0,
         deferred |-> 0, found |-> Records, limited |-> FALSE]
(* All that counts against a domain, 105 points, the rates at thresholds.  *)
Bad == [accepted |-> 20, delivered |-> 16, bounced |-> 1, rejected |-> 1,
        deferred |-> 2, found |-> {}, limited |-> TRUE]
(* One message accepted today, and yesterday's thousand bounce.            *)
Flood == [accepted |-> 1, delivered |-> 0, bounced |-> 1000, rejected |-> 0,
          deferred |-> 0, found |-> {"spf", "dkim"}, limited |-> FALSE]

MCSymmetry == Permutations(Workers)
MCInputs == {Edge, Bad, Flood}
=============================================================================
