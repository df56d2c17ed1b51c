-------------------------- MODULE MCDriverProcess --------------------------
(* Small instances of DriverProcess. *)
EXTENDS DriverProcess

CONSTANTS r1, r2, r3

Mixed == [r \in {r1, r2, r3} |-> IF r = r3 THEN "iscsi" ELSE "nvmeof"]
============================================================================
