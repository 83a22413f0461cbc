----------------------------- MODULE MCFwUpdate -----------------------------
(* Firmware update, start-up and rollback on a small instance. *)
EXTENDS FwUpdate
=============================================================================
