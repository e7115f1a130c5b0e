----------------------------- MODULE MCBilling -----------------------------
(* A small instance of Billing: organizations and credentials are          *)
(* interchangeable, so TLC explores one representative of each symmetry    *)
(* class of states.                                                        *)
EXTENDS Billing, TLC

MCSymmetry == Permutations(Orgs) \cup Permutations(Creds)
=============================================================================
