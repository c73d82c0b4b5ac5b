------------------------ MODULE MCSubscriptionRefresh ------------------------
(* Model-checking instance of SubscriptionRefresh for one subscription that*)
(* is deleted.                                                             *)
EXTENDS SubscriptionRefresh, TLC

CONSTANTS n1

\* Every download yields the node; one refresh and no reconfiguration.
Download == [i \in Inputs |-> {{n1}}]
OneRefresh == [s \in Subs |-> 1]
NoPatch == [s \in Subs |-> 0]

Symmetry == Permutations(Workers)
=============================================================================
