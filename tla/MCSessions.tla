----------------------------- MODULE MCSessions -----------------------------
(* One browser with two tabs, and the tokens of its sessions.              *)
EXTENDS Sessions, TLC

CONSTANTS x1, x2, k1, k2, k3

\* Tabs and refresh tokens are each interchangeable.
Symmetry == Permutations({x1, x2}) \union Permutations({k1, k2, k3})
=============================================================================
