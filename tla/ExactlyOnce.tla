----------------------------- MODULE ExactlyOnce -----------------------------
(***************************************************************************)
(* What the payment inbox promises: however often an event is delivered,   *)
(* queued and retried, it is credited to its account once.                 *)
(***************************************************************************)
EXTENDS Naturals

CONSTANTS Events, Accounts, AccountOf

VARIABLES
    applied,    \* events that have taken effect
    credit      \* effects on each account

Init ==
    /\ applied = {}
    /\ credit = [a \in Accounts |-> 0]

Apply(e) ==
    /\ e \notin applied
    /\ applied' = applied \union {e}
    /\ credit' = [credit EXCEPT ![AccountOf[e]] = @ + 1]

Next == \E e \in Events : Apply(e)

Spec == Init /\ [][Next]_<<applied, credit>>
=============================================================================
