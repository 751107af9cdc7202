----------------------------- MODULE MCOperator -----------------------------
(***************************************************************************)
(* An instance of Operator for TLC: two keys of one project, one of which  *)
(* may be revoked and come from the environment, a key of another project  *)
(* and one that is restricted to none of the two.                          *)
(***************************************************************************)
EXTENDS Operator

CONSTANTS home, work, room, nova, other, k1, k2, kWork, kWide

MCKeyFor(projects) ==
    [type |-> "api_key", scopes |-> {"api:write"}, projects |-> projects, spaces |-> {room},
     agent |-> nova, profile |-> "memory_provider"]
MCCredential ==
    [k \in Key |-> MCKeyFor(CASE k = kWide -> {home, work} [] k = kWork -> {work}
                              [] OTHER -> {home})]
=============================================================================
