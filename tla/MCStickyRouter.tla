--------------------------- MODULE MCStickyRouter ---------------------------
(* Model-checking instances of StickyRouter. *)
EXTENDS StickyRouter, TLC

\* Accounts, nodes, IPs and goroutines are interchangeable.
Symmetry == Permutations(Accounts) \cup Permutations(Nodes)
            \cup Permutations(IPs) \cup Permutations(Requests)
=============================================================================
