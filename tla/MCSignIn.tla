------------------------------ MODULE MCSignIn ------------------------------
(* One browser with two tabs, one email.                                   *)
EXTENDS SignIn, TLC

CONSTANTS x1, x2, k1, l1, l2, l3, a1, a2

\* Tabs, links and forms are each interchangeable.
Symmetry ==
    Permutations({x1, x2}) \union Permutations({l1, l2, l3}) \union Permutations({a1, a2})
=============================================================================
