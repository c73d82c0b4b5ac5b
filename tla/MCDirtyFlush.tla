---------------------------- MODULE MCDirtyFlush ----------------------------
(* Model-checking instance of DirtyFlush for the hot path alone. *)
EXTENDS DirtyFlush

\* Every writer writes every key.
AnyKey == [w \in MarkFirst \cup MarkLast |-> Keys]
=============================================================================
