----------------------------- MODULE MCServices -----------------------------
(* Three services that share no state, checked side by side: a behaviour is *)
(* one of the service its first state names.                                *)
EXTENDS ResearchTasks, Provisioning, Housekeeping

VARIABLE service

MCEvents ==
    {[org |-> "org1", slug |-> "desk", user |-> "ann", role |-> "org:admin"],
     [org |-> "org1", slug |-> "desk", user |-> "bob", role |-> "org:member"],
     [org |-> "org2", slug |-> "desk", user |-> "bob", role |-> "org:member"],
     [org |-> "org2", slug |-> "lab", user |-> "ann", role |-> "org:member"]}

MCRangeOf == [i \in {"i1", "i2"} |-> <<0, 4>>]
MCHistories == {<<"PROCESSED", "STALE", "STALE">>, <<"STALE", "REJECTED", "PROCESSED">>}
MCDrawdowns == {1, Undefined}

Init ==
    /\ ResearchInit /\ ProvisionInit /\ HousekeepingInit
    /\ service \in {"research", "provisioning", "housekeeping"}

Next ==
    /\ service' = service
    /\ \/ /\ service = "research" /\ ResearchNext
          /\ UNCHANGED <<provisionVars, housekeepingVars>>
       \/ /\ service = "provisioning" /\ ProvisionNext
          /\ UNCHANGED <<researchVars, housekeepingVars>>
       \/ /\ service = "housekeeping" /\ HousekeepingNext
          /\ UNCHANGED <<researchVars, provisionVars>>

vars == <<researchVars, provisionVars, housekeepingVars, service>>

Spec == Init /\ [][Next]_vars /\ (service = "research" => ResearchFairness)
=============================================================================
