-------------------------- MODULE MCSealedPublish --------------------------
(* SealedPublish on small instances: two items, prices around the cap.     *)
EXTENDS SealedPublish

DistinctIds == [i \in 1..N |-> i]

=============================================================================
