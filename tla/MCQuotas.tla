------------------------------ MODULE MCQuotas ------------------------------
EXTENDS Quotas, TLC

LimitRequest(c, set, reset) == [kind |-> "limits", cred |-> c, set |-> set, reset |-> reset]

(* Two requests about different limits, one that also takes one away and   *)
(* resets both counters, and every other kind of request.                  *)
MCAsked ==
    UNION {{[kind |-> "list", cred |-> c],
            [kind |-> "disable", cred |-> c],
            [kind |-> "enable", cred |-> c],
            LimitRequest(c, [k \in {"per_minute"} |-> 1], {}),
            LimitRequest(c, [k \in {"daily"} |-> 1], {}),
            LimitRequest(c, [k \in Limits |-> IF k = "daily" THEN Null ELSE 1], Limits)}
           : c \in Creds}
    \cup {[kind |-> "overview"], [kind |-> "override", quota |-> 1],
          [kind |-> "override", quota |-> Null]}

MCSymmetry == Permutations(Requests)
=============================================================================
