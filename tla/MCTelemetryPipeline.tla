------------------------ MODULE MCTelemetryPipeline ------------------------
EXTENDS TelemetryPipeline

CONSTANTS s1, n1, p1, d1, d2, c1, c2, t1

\* The span and the snapshot of one request share a trace; a sweep has its own.
Traces == [e \in Spans \cup Snapshots \cup Sweeps |-> IF e \in Sweeps THEN e ELSE t1]
Domain == [d \in Published |-> IF d = d1 THEN "domain.a" ELSE "domain.b"]
\* One callback at the start; the other subscribes to both channels while the bus is
\* running, which does not poll the second of them.
OneOnA == [ch \in DomainChannels |-> IF ch = "domain.a" THEN <<c1>> ELSE <<>>]
OtherOnBoth == {<<"domain.a", c2>>, <<"domain.b", c2>>}
=============================================================================
