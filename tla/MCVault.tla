------------------------------ MODULE MCVault ------------------------------
(* Vault on two requests, two credentials and three versions of the key.  *)
EXTENDS Vault, TLC

\* Requests are alike, and so are credential ids.
Symmetry == Permutations(Workers) \union Permutations(Creds)
=============================================================================
