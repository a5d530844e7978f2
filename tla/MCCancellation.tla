--------------------------- MODULE MCCancellation ---------------------------
(* One booking, the refund rows of its payment, and the pages that cancel.  *)
EXTENDS Cancellation, TLC

CONSTANTS b1, r1, r2, c1, c2

OneBooking == [r \in RefundIds |-> b1]

\* So are two modals of the customer.
RowSymmetry == Permutations({r1, r2}) \union Permutations({c1, c2})
=============================================================================
