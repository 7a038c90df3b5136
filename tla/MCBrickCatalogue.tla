------------------------- MODULE MCBrickCatalogue -------------------------
EXTENDS BrickCatalogue

CONSTANTS server, script

\* Three traces.  The first has two spans, the second of them unusable; the last span
\* names no boundary.
SpanTrace == [s \in Spans |-> IF s = 2 THEN 1 ELSE s]
SpanTime == [s \in Spans |-> s]
Distinct == [s \in Spans |-> s]
SpanKey == [s \in Spans |-> IF s = 4 THEN None ELSE <<"controller", IF s = 3 THEN "b" ELSE "a">>]

\* Two boundaries whose request and response are the same.
Alike == [s \in Spans |-> IF s = 3 THEN 1 ELSE s]

\* Two usable spans of one boundary, whose nanobar is not known yet.
SameKey == [s \in Spans |-> IF s = 4 THEN None ELSE <<"controller", "b">>]

OneNanobar == << <<"controller", "a">> >>

ServerJobs == [p \in Procs |->
    IF p = server THEN {"generate", "refresh", "update"} ELSE {"generate"}]
=============================================================================
