---------------------------- MODULE MCSupplierInbox ----------------------------
EXTENDS SupplierInbox, TLC
CONSTANTS q1, q2, w1, w2

\* The second change moves only an arrival, the third takes the first one back.
Departures == [v \in 0 .. MaxChanges |-> IF v \in {1, 2} THEN 1 ELSE 0]
Notices == 1 .. MaxChanges
=============================================================================
