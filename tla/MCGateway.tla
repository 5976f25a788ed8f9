------------------------------ MODULE MCGateway ------------------------------
(* Instances of Gateway for TLC: one incident of the socket's tenant, one of   *)
(* another tenant, and a service whose logs fill the cache.                    *)
EXTENDS Gateway, TLC

CONSTANTS i1, i2, l1, s1

Updates == <<"incident-updated", 0>>
Logs == <<"raw-logs", 0>>
PartitionOfKeys == (i1 :> Updates) @@ (i2 :> Updates) @@ (l1 :> Logs)
TwoTenants == (i1 :> "t1") @@ (i2 :> "t2") @@ (l1 :> "t1") @@ (s1 :> "t1")
ThreeUpdatesOneLog == (Updates :> 3) @@ (Logs :> 1)
=============================================================================
