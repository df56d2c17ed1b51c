---------------------------- MODULE MCNodeServer ----------------------------
(* Small instances of NodeServer. *)
EXTENDS NodeServer
=============================================================================
