--------------------------- MODULE MCFulfillment ---------------------------
(* The wiring of attempts and gateway transactions for the runs.           *)
EXTENDS Fulfillment

CONSTANTS b1, b2, a1, a2, t1, t2

\* Two payment attempts, one gateway transaction each.
TwoAttempts == [t \in {t1, t2} |-> IF t = t1 THEN a1 ELSE a2]
OneAttempt  == [t \in {t1} |-> a1]

\* All attempts belong to b1, or each booking has its own.
AttemptsOfB1 == [a \in Attempts |-> b1]
AttemptEach  == [a \in {a1, a2} |-> IF a = a1 THEN b1 ELSE b2]
=============================================================================
