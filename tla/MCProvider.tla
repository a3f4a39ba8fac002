----------------------------- MODULE MCProvider -----------------------------
(* Funding requests with two keys, and the provider's events.               *)
EXTENDS Provider
=============================================================================
