---------------------------- MODULE AtLeastOnce ----------------------------
(***************************************************************************)
(* What the durable event queue promises its producers: an event that was  *)
(* stored is worked on at least once, its effect is idempotent (so a second *)
(* performance changes nothing), it is completed only after a performance,  *)
(* and nothing that was performed or completed is ever undone.  Workers,    *)
(* claims, leases and retries do not exist at this level.                   *)
(***************************************************************************)
CONSTANTS Events,   \* the identities of the events
          Poison    \* the events whose processing always fails

VARIABLES stored,     \* the events somebody stored
          performed,  \* the events whose effect has happened
          completed   \* the events that will never be worked on again

vars == <<stored, performed, completed>>

Init == /\ stored = {}
        /\ performed = {}
        /\ completed = {}

\* Producers store events in batches.
Store == /\ \E new \in SUBSET Events : stored' = stored \cup new
         /\ UNCHANGED <<performed, completed>>

Perform(e) == /\ e \in stored \ Poison
              /\ performed' = performed \cup {e}
              /\ UNCHANGED <<stored, completed>>

Complete(e) == /\ e \in performed
               /\ completed' = completed \cup {e}
               /\ UNCHANGED <<stored, performed>>

Next == Store \/ \E e \in Events : Perform(e) \/ Complete(e)

Spec == Init /\ [][Next]_vars

\* Every stored event that can be processed is performed and then completed.
FairSpec == /\ Spec
            /\ \A e \in Events : WF_vars(Perform(e)) /\ WF_vars(Complete(e))
=============================================================================
