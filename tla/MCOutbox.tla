------------------------------ MODULE MCOutbox ------------------------------
(***************************************************************************)
(* Instances of Outbox for TLC: a captured turn, a correction that depends *)
(* on it, and the replacement that a reconciled correction turns into.     *)
(***************************************************************************)
EXTENDS Outbox, TLC

CONSTANTS turn, correction, replacement

MCDependsOn ==
    [o \in Op |-> IF o = turn THEN NoOp ELSE turn]
MCReplacementOf ==
    [o \in Op |-> IF o = replacement THEN correction ELSE NoOp]

Symmetry == Permutations(Token) \cup Permutations(Worker \ Closer)
=============================================================================
