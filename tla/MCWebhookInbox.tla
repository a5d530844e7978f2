---------------------------- MODULE MCWebhookInbox ----------------------------
EXTENDS WebhookInbox, TLC
CONSTANTS b1, a1, t1, t2, q1, q2
TwoTries == (t1 :> a1) @@ (t2 :> a1)
OneAttempt == [a \in {a1} |-> b1]
Callbacks == {<<t1, "final">>, <<t2, "final">>, <<t1, "pending">>}
OldCallbacks == {<<t1, "final">>}
=============================================================================
