--------------------------- MODULE MCWorkerLease ---------------------------
EXTENDS WorkerLease

CONSTANTS w1, w2, e1, e2, e3, ca, cb

OneChannel == [e \in Events |-> ca]
TwoChannels == [e \in Events |-> IF e = e1 THEN ca ELSE cb]
\* The first event is the oldest; the others carry the same stamp.
OldestFirst == [e \in Events |-> IF e = e1 THEN 1 ELSE 2]
OnA == [w \in Workers |-> <<ca>>]
\* The second worker polls the channels in the opposite order.
OnBoth == [w \in Workers |-> IF w = w1 THEN <<ca, cb>> ELSE <<cb, ca>>]
=============================================================================
