------------------------- MODULE SubscriptionContent -------------------------
(***************************************************************************)
(* What a subscription promises about the nodes it manages, whatever the   *)
(* order in which refreshes, evictions and deletions happen.  A refresh    *)
(* only ever moves a subscription forward, to the result of an attempt     *)
(* that was started later than the one installed; an eviction is final for *)
(* as long as the node stays listed.                                       *)
(***************************************************************************)
EXTENDS Naturals

CONSTANTS Subs, Nodes

VARIABLES
    source,   \* subscription -> number of the attempt whose result it lists
    listed,   \* subscription -> nodes it lists
    evicted   \* subscription -> listed nodes that were evicted

contents == <<source, listed, evicted>>

Init ==
    /\ source = [s \in Subs |-> 0]
    /\ listed \in [Subs -> SUBSET Nodes]
    /\ evicted \in [Subs -> SUBSET Nodes]
    /\ \A s \in Subs : evicted[s] \subseteq listed[s]

\* The other subscriptions keep what they have.
OnlyChanges(s) ==
    \A t \in Subs \ {s} :
        /\ source'[t] = source[t]
        /\ listed'[t] = listed[t]
        /\ evicted'[t] = evicted[t]

\* The result of a later attempt replaces the list; what stays evicted is
\* exactly what was evicted and is still listed.
Install(s) ==
    /\ source'[s] > source[s]
    /\ listed'[s] \subseteq Nodes
    /\ evicted'[s] = evicted[s] \cap listed'[s]
    /\ OnlyChanges(s)

Evict(s) ==
    /\ evicted[s] \subseteq evicted'[s]
    /\ evicted'[s] \subseteq listed[s]
    /\ source'[s] = source[s]
    /\ listed'[s] = listed[s]
    /\ OnlyChanges(s)

Next == \E s \in Subs : Install(s) \/ Evict(s)

Spec == Init /\ [][Next]_contents
=============================================================================
