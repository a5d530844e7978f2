----------------------------- MODULE MCCheckout -----------------------------
(* One checkout page, one payment page opened from a list, two bookings    *)
(* and two payment attempts.                                               *)
EXTENDS Checkout

CONSTANTS p1, p2, b1, b2, a1, a2
=============================================================================
