-------------------------- MODULE MCMessageFraming --------------------------
(* MessageFraming over packets of two lengths. *)
EXTENDS MessageFraming
=============================================================================
