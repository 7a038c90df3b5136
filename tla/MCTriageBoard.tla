--------------------------- MODULE MCTriageBoard ---------------------------
EXTENDS TriageBoard

CONSTANTS n1, n2, b1, b2, b3

(* Two nanobars that share a brick. *)
MCBound == (n1 :> {b1, b2}) @@ (n2 :> {b2, b3})
============================================================================
