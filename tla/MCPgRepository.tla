--------------------------- MODULE MCPgRepository ---------------------------
EXTENDS PgRepositoryProps, TLC

(* No action and no property tells one thread from another. *)
Symmetry == Permutations(Threads)
=============================================================================
