----------------------------- MODULE MCRefunds -----------------------------
(* One booking and the refund rows of its payment.                         *)
EXTENDS Refunds, TLC

CONSTANTS b1, r1, r2

OneBooking == [r \in RefundIds |-> b1]

\* The rows of one payment are interchangeable.
RowSymmetry == Permutations({r1, r2})
=============================================================================
