------------------------------ MODULE MCIngest ------------------------------
(* A small instance of Ingest: two accepted events of one credential, a   *)
(* soft bounce of another, a hard bounce and an event that matches no row  *)
(* of the tables.                                                          *)
EXTENDS Ingest, TLC

CONSTANTS a1, a2, soft, hard, stray, c1, c2

Credential == (a1 :> c1) @@ (a2 :> c1) @@ (soft :> NoCred) @@ (hard :> c1) @@ (stray :> NoCred)
MCCredOf == [e \in Events |-> Credential[e]]
MCOrgOf == [c \in Creds |-> IF c = c1 THEN "o1" ELSE "o2"]

MCSymmetry == Permutations(Handlers)
=============================================================================
