---------------------------- MODULE MCShieldAPI -----------------------------
(***************************************************************************)
(* Instances of ShieldAPI for TLC.                                         *)
(***************************************************************************)
EXTENDS ShieldAPI

Facts(signature, mutation) ==
    [parsed |-> TRUE, skipUser |-> FALSE, commonSkipUser |-> FALSE, inScopeUser |-> FALSE,
     inScopeObject |-> TRUE, skipObject |-> FALSE, mutation |-> mutation,
     signature |-> signature, images |-> "off"]

\* Every request that the rule concerns, and one per reason that it does not.
Create(facts, action) ==
    [kindSkipped |-> FALSE, excluded |-> FALSE, operation |-> "CREATE", facts |-> facts,
     action |-> action]
Refused == Create(Facts("unverified", "create"), "enforce")

MCReviews ==
    {Create(Facts("verified", "create"), "enforce"), Refused,
     Create(Facts("unverified", "create"), "unset"),
     [Create(Facts("error", "changed"), "unset") EXCEPT !.operation = "UPDATE"],
     [Refused EXCEPT !.kindSkipped = TRUE], [Refused EXCEPT !.excluded = TRUE],
     [Refused EXCEPT !.operation = "DELETE"]}

MCConfigs == {[load |-> "ok", enforce |-> TRUE, denyEvent |-> FALSE], LoadError}
=============================================================================
