-------------------------- MODULE MCRcsDescriptors --------------------------
(* The server of two clients. *)
EXTENDS RcsDescriptors
=============================================================================
