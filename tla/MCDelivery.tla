----------------------------- MODULE MCDelivery -----------------------------
(***************************************************************************)
(* An instance of Delivery for TLC: a captured turn, the rewind correction *)
(* that waits for it, and the replacement the correction gets when another *)
(* writer has taken the source as far as it may.                            *)
(***************************************************************************)
EXTENDS Delivery, TLC

CONSTANTS turn, correction, replacement

MCDependsOn == [o \in Op |-> IF o = turn THEN NoOp ELSE turn]
MCReplacementOf == [o \in Op |-> IF o = replacement THEN correction ELSE NoOp]
MCTarget == [o \in Op |-> turn]
MCNamed == [o \in Op |-> IF o = replacement THEN MaxRevision ELSE 0]

Symmetry == Permutations(Token) \cup Permutations(Worker \ Closer)
=============================================================================
