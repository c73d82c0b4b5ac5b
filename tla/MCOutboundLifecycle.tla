------------------------ MODULE MCOutboundLifecycle -------------------------
(* Model-checking instance of OutboundLifecycle for the pooled transport. *)
EXTENDS OutboundLifecycle, TLC

Symmetry == Permutations(Outbounds) \cup Permutations(Callers)
=============================================================================
