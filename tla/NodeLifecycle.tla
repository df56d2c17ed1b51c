---------------------------- MODULE NodeLifecycle ----------------------------
(***************************************************************************)
(* What the node server promises of a volume that a session carries: the   *)
(* layers are put up from the session over the staging mount to the        *)
(* publications, and taken down in reverse.                                *)
(***************************************************************************)

CONSTANT Targets

VARIABLES attached, severed, staged, published

vars == <<attached, severed, staged, published>>

Init ==
    /\ attached = FALSE /\ severed = FALSE
    /\ staged = FALSE /\ published = {}

Attach ==
    /\ ~staged /\ attached' = TRUE /\ severed' = FALSE
    /\ UNCHANGED <<staged, published>>

Stage ==
    /\ attached /\ ~staged /\ staged' = TRUE
    /\ UNCHANGED <<attached, severed, published>>

Publish(t) ==
    /\ staged /\ published' = published \cup {t}
    /\ UNCHANGED <<attached, severed, staged>>

Unpublish(t) ==
    /\ published' = published \ {t}
    /\ UNCHANGED <<attached, severed, staged>>

Unstage ==
    /\ published = {} /\ staged' = FALSE
    /\ UNCHANGED <<attached, severed, published>>

Detach ==
    /\ ~staged /\ attached' = FALSE
    /\ UNCHANGED <<severed, staged, published>>

\* The kernel gives the session up under whatever is mounted.
Sever ==
    /\ attached' = FALSE /\ severed' = TRUE
    /\ UNCHANGED <<staged, published>>

Reboot ==
    /\ attached' = FALSE /\ severed' = FALSE
    /\ staged' = FALSE /\ published' = {}

Next ==
    \/ Attach \/ Stage \/ Unstage \/ Detach \/ Sever \/ Reboot
    \/ \E t \in Targets : Publish(t) \/ Unpublish(t)

Spec == Init /\ [][Next]_vars
=============================================================================
