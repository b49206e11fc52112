---------------------------- MODULE MCQueryRequest ----------------------------
(* An expression with a repeated, an unsatisfiable and a second selector.   *)
EXTENDS QueryRequest

CONSTANTS k1, k2, k3

Expression == <<k1, k3, k1, k2>>
=============================================================================
