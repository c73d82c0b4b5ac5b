--------------------------- MODULE MCRoutableViews ---------------------------
(* Model-checking instances of RoutableViews. *)
EXTENDS RoutableViews

CONSTANT i1

\* Every platform configuration accepts the one egress IP.
OneFilter == [o \in Objects |-> {i1}]
=============================================================================
