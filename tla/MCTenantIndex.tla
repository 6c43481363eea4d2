---------------------------- MODULE MCTenantIndex ----------------------------
(* TLC instances of TenantIndex: documents are interchangeable.             *)
EXTENDS TenantIndex, TLC

DocSymmetry == Permutations(Docs)
=============================================================================
