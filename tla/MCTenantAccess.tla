--------------------------- MODULE MCTenantAccess ---------------------------
(* Instances of TenantAccess for TLC.                                      *)
EXTENDS TenantAccess, TLC

\* The requests are interchangeable, and so are the clients.
Symmetry == Permutations(Request) \cup Permutations(Client)
=============================================================================
