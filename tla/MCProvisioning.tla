--------------------------- MODULE MCProvisioning ---------------------------
(* Small instances of Provisioning: which StorageClass each volume has. *)
EXTENDS Provisioning

CONSTANTS v1, v2

HostClass  == [v \in {v1, v2} |-> "dhchap"]
MixedClass == [v \in {v1, v2} |-> IF v = v1 THEN "chap" ELSE "nfs"]
NVMeClass  == [v \in {v1} |-> "nvmeof"]
=============================================================================
