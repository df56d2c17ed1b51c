-------------------------- MODULE SnapshotCatalogue --------------------------
(***************************************************************************)
(* What the controller promises of volumes, their copies and snapshots,    *)
(* whatever ZFS objects are behind them: an object comes and goes through  *)
(* requests for itself only, one that was reported created stays until its *)
(* deletion is asked for, and one that was reported deleted is gone.       *)
(***************************************************************************)

CONSTANTS
    Objects,
    Initial     \* those that are there from the start

VARIABLES live, want, told

vars == <<live, want, told>>

Init ==
    /\ live = Initial
    /\ want = [o \in Objects |-> IF o \in Initial THEN "create" ELSE "none"]
    /\ told = [o \in Objects |-> IF o \in Initial THEN "created" ELSE "none"]

Ask(o) ==
    /\ \/ want[o] = "none" /\ want' = [want EXCEPT ![o] = "create"]
       \/ /\ want[o] = "create" /\ told[o] = "created"
          /\ want' = [want EXCEPT ![o] = "delete"]
    /\ UNCHANGED <<live, told>>

\* Until its creation is reported, an object may come and go.
Create(o) ==
    /\ want[o] = "create" /\ told[o] = "none"
    /\ live' \in {live, live \cup {o}, live \ {o}}
    /\ \/ UNCHANGED told
       \/ o \in live' /\ told' = [told EXCEPT ![o] = "created"]
    /\ UNCHANGED want

Delete(o) ==
    /\ want[o] = "delete"
    /\ live' \in {live, live \ {o}}
    /\ \/ UNCHANGED told
       \/ o \notin live' /\ told' = [told EXCEPT ![o] = "deleted"]
    /\ UNCHANGED want

Next == \E o \in Objects : Ask(o) \/ Create(o) \/ Delete(o)

Spec == Init /\ [][Next]_vars
=============================================================================
