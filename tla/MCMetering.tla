----------------------------- MODULE MCMetering -----------------------------
(* Model checking of Metering on small instances. *)
EXTENDS Metering
=============================================================================
