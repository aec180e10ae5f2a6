--------------------------- MODULE MCMembership ---------------------------
(***************************************************************************)
(* Membership for TLC: three agents.  OwnAddresses gives each addresses of *)
(* its own, two to the last one, so that it can come back elsewhere.       *)
(***************************************************************************)
EXTENDS Membership

CONSTANTS n1, n2, n3, a1, a2, a3, a4

OwnAddresses == [n \in Nodes |-> CASE n = n1 -> {a1} [] n = n2 -> {a2} [] n = n3 -> {a3, a4}]
=============================================================================
