----------------------------- MODULE MCMappedIO -----------------------------
(* Instances of MappedIO for TLC. *)
EXTENDS MappedIO
=============================================================================
