-------------------------------- MODULE LaneLease --------------------------------
(* What the AMD queue pool promises (device/src/amd/connector.rs, QueueLease): *)
(* "exclusive publication authority for one hardware compute lane".  A lane    *)
(* has at most one holder; a client is given a free lane and gives it back.    *)
CONSTANTS Client, Lane, Nobody

ASSUME NobodyAssumption == Nobody \notin Client

VARIABLE holder   \* Lane -> the client that may publish on it, or Nobody

LeaseTypeOK == holder \in [Lane -> Client \cup {Nobody}]

LeaseInit == holder = [l \in Lane |-> Nobody]

Lease(c, l) ==
    /\ holder[l] = Nobody
    /\ holder' = [holder EXCEPT ![l] = c]

Release(c, l) ==
    /\ holder[l] = c
    /\ holder' = [holder EXCEPT ![l] = Nobody]

LeaseNext == \E c \in Client, l \in Lane : Lease(c, l) \/ Release(c, l)

LeaseSpec == LeaseInit /\ [][LeaseNext]_holder

=================================================================================
