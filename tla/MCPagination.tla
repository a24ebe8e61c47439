------------------------------ MODULE MCPagination ------------------------------
(***************************************************************************)
(* Instances of Pagination for TLC. Urls are interchangeable.              *)
(***************************************************************************)
EXTENDS Pagination, TLC

CONSTANTS u1, u2, u3, u4, u5

Symmetry == Permutations(Urls)
=============================================================================
