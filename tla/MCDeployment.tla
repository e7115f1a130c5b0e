---------------------------- MODULE MCDeployment ----------------------------
EXTENDS Deployment

(* The steps of a rotation from the key "old" to the key "new": the old    *)
(* key alone, the new one beside it, the old one moved to ENCRYPTION_KEYS  *)
(* or dropped, and two mistakes: the old key left in both places, and no   *)
(* active key chosen.                                                      *)
MCConfig(ks, legacy, act, admin) ==
    [keys |-> ks, legacyKey |-> legacy, legacyId |-> "old", active |-> act,
     firstAdmin |-> admin]

MCFirst == MCConfig({}, TRUE, Null, "a@x")

MCConfigs == {MCFirst,
              MCConfig({"new"}, TRUE, "new", "a@x"),
              MCConfig({"old", "new"}, FALSE, "new", "b@x"),
              MCConfig({"new"}, FALSE, "new", "b@x"),
              MCConfig({"old", "new"}, TRUE, "new", "a@x"),
              MCConfig({"new"}, TRUE, Null, "a@x")}
=============================================================================
