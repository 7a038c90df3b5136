-------------------------- MODULE OrderedDelivery --------------------------
(***************************************************************************)
(* What the in-memory event queues promise: on every channel the consumer   *)
(* finishes the accepted events in the order in which they were accepted,   *)
(* each once, and finishes them all unless the channel has lost its         *)
(* consumer.  Capacity, batches, threads and the shutdown of the process do *)
(* not exist at this level.                                                 *)
(***************************************************************************)
EXTENDS Naturals, Sequences

CONSTANTS Channels, Events

VARIABLES sent,      \* per channel, the events accepted so far, in order
          finished,  \* per channel, the events the consumer is done with, in order
          lost       \* the channels whose consumer is gone for good

vars == <<sent, finished, lost>>

Init == /\ sent = [ch \in Channels |-> <<>>]
        /\ finished = [ch \in Channels |-> <<>>]
        /\ lost \in SUBSET Channels

Send(ch) == /\ \E e \in Events : sent' = [sent EXCEPT ![ch] = Append(@, e)]
            /\ UNCHANGED <<finished, lost>>

Finish(ch) == /\ Len(finished[ch]) < Len(sent[ch])
              /\ finished' = [finished EXCEPT
                                ![ch] = Append(@, sent[ch][Len(finished[ch]) + 1])]
              /\ UNCHANGED <<sent, lost>>

Lose == /\ \E gone \in SUBSET Channels : lost' = lost \cup gone
        /\ UNCHANGED <<sent, finished>>

Next == Lose \/ \E ch \in Channels : Send(ch) \/ Finish(ch)

Spec == Init /\ [][Next]_vars

\* Whatever has been accepted is finished, or the channel's consumer is gone.
FairSpec == /\ Spec
            /\ \A ch \in Channels : WF_vars(ch \notin lost /\ Finish(ch))
=============================================================================
