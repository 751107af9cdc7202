----------------------------- MODULE MCRelease -----------------------------
(***************************************************************************)
(* An instance of Release for TLC: two scenarios, of which one mutates the *)
(* stack and one shares a gate with it.  Both require what the one body    *)
(* the driver has measures, so that a release may pass; which of them miss *)
(* a hook is left open.                                                    *)
(***************************************************************************)
EXTENDS Release

CONSTANTS isolation, integrity

MCCheck == {Profiled, Forbidden}
MCGatesOf == <<{isolation}, {isolation, integrity}>>
MCRequired == <<MCCheck, MCCheck>>
MCGateRequired == [g \in Gate |-> {Profiled}]
=============================================================================
