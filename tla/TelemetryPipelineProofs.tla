---------------------- MODULE TelemetryPipelineProofs ----------------------
(***************************************************************************)
(* Proofs about TelemetryPipeline, for every set of events, channels and    *)
(* callbacks, every queue bound and batch size.  TInv is the type invariant *)
(* with what is known at each place of the three threads; on it rest what   *)
(* the drain did with each event (Sorted, TracesOK), the order of a channel *)
(* (Flow: what was accepted is what is finished, in hand and queued, in     *)
(* this order, from which the refinement of OrderedDelivery follows and,    *)
(* with Sorted, that no event is lost track of), and the order of the       *)
(* callbacks of one domain event (Fresh, Delivery).                         *)
(***************************************************************************)
EXTENDS TelemetryPipeline, TLAPS, SequenceTheorems, FiniteSetTheorems,
        WellFoundedInduction

\* The dispatch thread has an event in hand, also when it died with it.
Serving == bus \in {"dispatching", "hook", "dead"}

\* An event is queued on its own channel only.
Routed == \A ch \in Channels : \A e \in ToSet(queue[ch]) : ChannelOf(e) = ch

\* What the dispatch thread works on is a domain event and a subscribed callback.
AtWork ==
    /\ position \in Nat \ {0}
    /\ Serving => event \in Published
    /\ bus = "hook" => position <= Len(subscribers[ChannelOf(event)])

\* What is being stored is still the first event of the batch.
Storing ==
    drain = "trace stored" =>
        batch # <<>> /\ Head(batch) \notin Contextless \cup Malformed

TInv == TypeOK /\ Routed /\ AtWork /\ Storing

-----------------------------------------------------------------------------
(* The operators the model is built from.                                   *)

LEMMA ChannelTypes ==
    /\ \A e \in Events : ChannelOf(e) \in Channels
    /\ \A e \in Published : ChannelOf(e) = DomainChannelOf[e]
    /\ \A e \in Published : ChannelOf(e) \in DomainChannels
    /\ \A e \in Telemetry : ChannelOf(e) \in {"trace", "snapshot"}
    /\ {"trace", "snapshot"} \subseteq Channels
    /\ DomainChannels \subseteq Channels
    /\ ToSet(Drained) = {"trace", "snapshot"}
<1> USE TelemetryPipelineAssumption
<1>1. ToSet(Drained) = {"trace", "snapshot"}
  BY DEF ToSet, Drained
<1>2. \A e \in Published : e \notin Snapshots \cup CallbackCaptures
  BY DEF Telemetry
<1>3. \A e \in Published : ChannelOf(e) = DomainChannelOf[e]
  BY <1>2 DEF ChannelOf
<1>4. \A e \in Telemetry : ChannelOf(e) \in {"trace", "snapshot"}
  BY DEF ChannelOf
<1>5. QED
  BY <1>1, <1>3, <1>4 DEF Channels, Events

\* A queued event of a drained channel is a telemetry event, one of another a
\* domain event.
LEMMA ChannelKinds ==
    ASSUME NEW e \in Events
    PROVE  /\ ChannelOf(e) \in {"trace", "snapshot"} => e \in Telemetry
           /\ ChannelOf(e) \in DomainChannels => e \in Published
BY ChannelTypes, TelemetryPipelineAssumption DEF Events

\* Every non-empty set of naturals has a least element.
LEMMA LeastNatural ==
    ASSUME NEW S \in SUBSET Nat, S # {}
    PROVE  \E i \in S : \A j \in S : i <= j
<1>1. PICK i \in S : \A j \in S : ~ (<<j, i>> \in OpToRel(<, Nat))
  BY WFMin, NatLessThanWellFounded
<1>2. \A j \in S : ~ (j < i)
  BY <1>1 DEF OpToRel
<1>3. QED
  BY <1>2

\* The domain queues that have a subscriber can be put in a sequence.
LEMMA PolledIsSeq ==
    /\ Polled \in Seq(DomainChannels)
    /\ ToSet(Polled) = {ch \in DomainChannels : Registered[ch] # <<>>}
<1> DEFINE S == {ch \in DomainChannels : Registered[ch] # <<>>}
<1>1. IsFiniteSet(S)
  BY FS_Subset, TelemetryPipelineAssumption
<1>2. Cardinality(S) \in Nat /\ ExistsBijection(1..Cardinality(S), S)
  BY <1>1, FS_NatBijection, FS_CardinalityType
<1>3. PICK f : f \in Bijection(1..Cardinality(S), S)
  BY <1>2 DEF ExistsBijection
<1>4. f \in [1..Cardinality(S) -> S] /\ IsInjective(f)
  BY <1>3 DEF Bijection, Injection, Surjection, IsInjective
<1>5. Polled \in [1..Cardinality(S) -> S] /\ IsInjective(Polled)
  BY <1>4 DEF Polled, SetToSeq
<1>6. Polled \in Seq(DomainChannels) /\ DOMAIN Polled = 1..Cardinality(S)
  <2>1. \A n \in Nat : [1..n -> S] \subseteq Seq(S)
    BY SeqDef, Zenon
  <2>2. Polled \in Seq(S)
    BY <2>1, <1>2, <1>5
  <2>3. S \subseteq DomainChannels
    OBVIOUS
  <2>4. Polled \in Seq(DomainChannels)
    BY <2>2, <2>3, SeqMonotonic, Zenon
  <2>5. QED
    BY <2>4, <1>5
<1>7. Polled \in Injection(1..Cardinality(S), S)
  BY <1>5 DEF Injection, IsInjective
<1>8. IsFiniteSet(1..Cardinality(S)) /\ Cardinality(1..Cardinality(S)) = Cardinality(S)
  BY <1>2, FS_Interval
<1>9. Polled \in Surjection(1..Cardinality(S), S)
  BY <1>1, <1>7, <1>8, FS_Injection
<1>10. \A ch \in S : \E i \in 1..Cardinality(S) : Polled[i] = ch
  BY <1>9 DEF Surjection
<1>11. ToSet(Polled) = S
  BY <1>5, <1>6, <1>10 DEF ToSet
<1>12. QED
  BY <1>6, <1>11

\* The first of the waiting channels is one of those polled, and not empty.
LEMMA FirstWaitingIs ==
    ASSUME NEW channels \in Seq(Channels), Waiting(channels) # {}
    PROVE  /\ FirstWaiting(channels) \in ToSet(channels)
           /\ queue[FirstWaiting(channels)] # <<>>
<1>1. Waiting(channels) \in SUBSET Nat
  BY DEF Waiting
<1>2. PICK i \in Waiting(channels) : \A j \in Waiting(channels) : i <= j
  BY <1>1, LeastNatural
<1> DEFINE k == CHOOSE m \in Waiting(channels) : \A n \in Waiting(channels) : m <= n
<1>3. k \in Waiting(channels)
  BY <1>2
<1>4. QED
  BY <1>3 DEF FirstWaiting, Waiting, ToSet

-----------------------------------------------------------------------------
(* The queues keep their types and their bound, whoever puts or takes.      *)

QueuesOK ==
    /\ queue \in [Channels -> Seq(Events)]
    /\ \A ch \in Channels : Len(queue[ch]) <= MaxSize
    /\ dropped \subseteq Events
    /\ accepted \in [Channels -> Seq(Events)]
    /\ Routed

\* put_nowait keeps the queues within their bounds and each event on its channel.
LEMMA PutKeeps ==
    ASSUME QueuesOK, NEW e \in Events, Put(e)
    PROVE  QueuesOK'
<1> DEFINE ch == ChannelOf(e)
<1>1. ch \in Channels
  BY ChannelTypes
<1>2. CASE Len(queue[ch]) < MaxSize
  <2>1. /\ queue' = [queue EXCEPT ![ch] = Append(@, e)]
        /\ accepted' = [accepted EXCEPT ![ch] = Append(@, e)]
        /\ UNCHANGED dropped
    BY <1>2 DEF Put
  <2>2. Append(queue[ch], e) \in Seq(Events) /\ Append(accepted[ch], e) \in Seq(Events)
    BY <1>1, AppendProperties DEF QueuesOK
  <2>3. queue' \in [Channels -> Seq(Events)] /\ accepted' \in [Channels -> Seq(Events)]
    BY <1>1, <2>1, <2>2 DEF QueuesOK
  <2>4. Len(queue'[ch]) <= MaxSize
    <3>1. queue'[ch] = Append(queue[ch], e) /\ queue[ch] \in Seq(Events)
      BY <1>1, <2>1 DEF QueuesOK
    <3>2. Len(queue'[ch]) = Len(queue[ch]) + 1
      BY <3>1, AppendProperties
    <3>3. QED
      BY <1>2, <3>1, <3>2, TelemetryPipelineAssumption, LenProperties
  <2>5. Routed'
    <3> SUFFICES ASSUME NEW c \in Channels, NEW x \in ToSet(queue'[c])
                 PROVE  ChannelOf(x) = c
      BY DEF Routed
    <3>1. CASE c # ch
      BY <3>1, <2>1 DEF QueuesOK, Routed
    <3>2. CASE c = ch
      <4>1. queue'[c] = Append(queue[c], e) /\ queue[c] \in Seq(Events)
        BY <3>2, <1>1, <2>1 DEF QueuesOK
      <4>2. x = e \/ x \in ToSet(queue[c])
        BY <4>1, AppendProperties, LenProperties DEF ToSet
      <4>3. QED
        BY <3>2, <4>2 DEF QueuesOK, Routed
    <3>3. QED
      BY <3>1, <3>2
  <2>6. QED
    BY <2>1, <2>3, <2>4, <2>5 DEF QueuesOK
<1>3. CASE ~ (Len(queue[ch]) < MaxSize)
  BY <1>3 DEF Put, QueuesOK, Routed
<1>4. QED
  BY <1>2, <1>3

\* What get_nowait takes is an event of the queue's channel.
LEMMA TakeKeeps ==
    ASSUME QueuesOK, NEW ch \in Channels, queue[ch] # <<>>, Take(ch)
    PROVE  /\ QueuesOK'
           /\ Head(queue[ch]) \in Events
           /\ ChannelOf(Head(queue[ch])) = ch
<1>1. queue[ch] \in Seq(Events)
  BY DEF QueuesOK
<1>2. /\ Head(queue[ch]) \in Events
      /\ Tail(queue[ch]) \in Seq(Events)
      /\ Len(Tail(queue[ch])) = Len(queue[ch]) - 1
      /\ \A i \in 1..Len(Tail(queue[ch])) : Tail(queue[ch])[i] = queue[ch][i + 1]
  BY <1>1, HeadTailProperties
<1>3. Head(queue[ch]) \in ToSet(queue[ch])
  BY <1>1, LenProperties, EmptySeq DEF ToSet
<1>4. /\ queue' = [queue EXCEPT ![ch] = Tail(@)]
      /\ UNCHANGED <<dropped, accepted>>
  BY DEF Take
<1>5. queue' \in [Channels -> Seq(Events)]
  BY <1>2, <1>4 DEF QueuesOK
<1>6. \A c \in Channels : Len(queue'[c]) <= MaxSize
  BY <1>1, <1>2, <1>4, LenProperties, TelemetryPipelineAssumption DEF QueuesOK
<1>7. \A c \in Channels : ToSet(queue'[c]) \subseteq ToSet(queue[c])
  <2>1. ToSet(Tail(queue[ch])) \subseteq ToSet(queue[ch])
    BY <1>1, <1>2, LenProperties DEF ToSet
  <2>2. QED
    BY <2>1, <1>4 DEF QueuesOK
<1>8. Routed'
  BY <1>7 DEF Routed, QueuesOK
<1>9. QED
  BY <1>2, <1>3, <1>4, <1>5, <1>6, <1>8 DEF QueuesOK, Routed

\* task_done adds one event to those that are done.
LEMMA FinishKeeps ==
    ASSUME finished \in [Channels -> Seq(Events)], NEW e \in Events, Finish(e)
    PROVE  finished' \in [Channels -> Seq(Events)]
<1>1. ChannelOf(e) \in Channels
  BY ChannelTypes
<1>2. Append(finished[ChannelOf(e)], e) \in Seq(Events)
  BY <1>1, AppendProperties
<1>3. QED
  BY <1>1, <1>2 DEF Finish

\* Every telemetry event is finished on its channel.
LEMMA IngestedKeeps ==
    ASSUME TInv, batch # <<>>, Ingested(Head(batch))
    PROVE  /\ Head(batch) \in Telemetry
           /\ batch' \in Seq(Telemetry)
           /\ finished' \in [Channels -> Seq(Events)]
<1>1. batch \in Seq(Telemetry)
  BY DEF TInv, TypeOK
<1>2. Head(batch) \in Telemetry /\ Tail(batch) \in Seq(Telemetry)
  BY <1>1, HeadTailProperties
<1>3. Head(batch) \in Events
  BY <1>2 DEF Events
<1>4. QED
  BY <1>2, <1>3, FinishKeeps DEF Ingested, TInv, TypeOK

-----------------------------------------------------------------------------
(* Type correctness, one part of the state after the other.                 *)

BusOK ==
    /\ subscribers \in [DomainChannels -> Seq(Callbacks)]
    /\ bus \in {"polling", "dispatching", "hook", "ended", "dead"}
    /\ event \in Published \cup {None}
    /\ delivered \in [Published -> Seq(Callbacks)]
    /\ AtWork

WorkerOK ==
    /\ drain \in {"polling", "draining", "flushing", "trace stored", "ended", "dead"}
    /\ batch \in Seq(Telemetry)
    /\ final \in BOOLEAN
    /\ Storing

RowsOK ==
    /\ traces \subseteq {TraceId(e) : e \in Telemetry \ Contextless}
    /\ spans \cup skipped \cup failed \subseteq Telemetry

RestOK ==
    /\ publisher \in {"sweeping", "waiting", "ended"}
    /\ phase \in {"serving", "publisher", "bus", "drain", "down"}
    /\ finished \in [Channels -> Seq(Events)]
    /\ abandoned \in BOOLEAN

\* TInv, and TInv of the next state, by parts.
LEMMA TInvParts ==
    /\ TInv <=> QueuesOK /\ BusOK /\ WorkerOK /\ RowsOK /\ RestOK
    /\ TInv' <=> QueuesOK' /\ BusOK' /\ WorkerOK' /\ RowsOK' /\ RestOK'
BY DEF TInv, TypeOK, QueuesOK, BusOK, WorkerOK, RowsOK, RestOK, AtWork

\* When the process starts, the queues are empty and the types right.
LEMMA TInvInit == Init => TInv
<1> SUFFICES ASSUME Init PROVE TInv
  OBVIOUS
<1> USE TelemetryPipelineAssumption, ChannelTypes DEF Init
<1>1. QueuesOK
  <2>1. \A ch \in Channels : queue[ch] = <<>> /\ accepted[ch] = <<>>
    OBVIOUS
  <2>2. Routed
    BY <2>1 DEF Routed, ToSet
  <2>3. \A ch \in Channels : Len(queue[ch]) <= MaxSize
    BY <2>1
  <2>4. queue \in [Channels -> Seq(Events)] /\ accepted \in [Channels -> Seq(Events)]
    OBVIOUS
  <2>5. QED
    BY <2>2, <2>3, <2>4 DEF QueuesOK
<1>2. BusOK
  BY DEF BusOK, AtWork, Serving
<1>3. WorkerOK
  <2>1. drain = "polling" /\ batch = <<>> /\ final = FALSE
    OBVIOUS
  <2>2. QED
    BY <2>1, EmptySeq DEF WorkerOK, Storing
<1>4. RowsOK
  BY DEF RowsOK
<1>5. RestOK
  <2>1. finished \in [Channels -> Seq(Events)]
    OBVIOUS
  <2>2. QED
    BY <2>1 DEF RestOK
<1>6. QED
  BY <1>1, <1>2, <1>3, <1>4, <1>5, TInvParts

\* What no step has to look at: a part none of whose variables changes.
LEMMA Untouched ==
    /\ QueuesOK /\ UNCHANGED queues => QueuesOK'
    /\ BusOK /\ UNCHANGED busVars => BusOK'
    /\ WorkerOK /\ UNCHANGED worker => WorkerOK'
    /\ RowsOK /\ UNCHANGED rows => RowsOK'
    /\ RestOK /\ UNCHANGED <<publisher, phase, finished, abandoned>> => RestOK'
<1>1. QueuesOK /\ UNCHANGED queues => QueuesOK'
  BY DEF QueuesOK, queues, Routed
<1>2. BusOK /\ UNCHANGED busVars => BusOK'
  BY DEF BusOK, busVars, AtWork, Serving
<1>3. WorkerOK /\ UNCHANGED worker => WorkerOK'
  BY DEF WorkerOK, worker, Storing
<1>4. RowsOK /\ UNCHANGED rows => RowsOK'
  BY DEF RowsOK, rows
<1>5. RestOK /\ UNCHANGED <<publisher, phase, finished, abandoned>> => RestOK'
  BY DEF RestOK
<1>6. QED
  BY <1>1, <1>2, <1>3, <1>4, <1>5

\* The dispatch thread calls a subscribed callback with a domain event.
LEMMA CallbackType ==
    ASSUME BusOK, Serving, position <= Len(subscribers[ChannelOf(event)])
    PROVE  /\ ChannelOf(event) \in DomainChannels
           /\ Callback \in Callbacks
           /\ CallbackSpan(event, Callback) \in Events
           /\ CallbackCapture(event, Callback) \in Events
<1>1. event \in Published /\ ChannelOf(event) \in DomainChannels
  BY ChannelTypes DEF BusOK, AtWork
<1>2. subscribers[ChannelOf(event)] \in Seq(Callbacks)
  BY <1>1 DEF BusOK
<1>3. position \in 1..Len(subscribers[ChannelOf(event)])
  BY <1>2, LenProperties DEF BusOK, AtWork
<1>4. Callback \in Callbacks
  BY <1>2, <1>3, ElementOfSeq DEF Callback
<1>5. QED
  BY <1>1, <1>4 DEF Events, Telemetry, CallbackSpans, CallbackCaptures

\* The dispatch thread takes an event from a subscribed domain queue.
LEMMA BusPollKeeps == ASSUME TInv, BusPoll PROVE TInv'
<1> USE TInvParts
<1> DEFINE ch == FirstWaiting(Polled)
<1>1. /\ Waiting(Polled) # {}
      /\ event' = Head(queue[ch])
      /\ Take(ch)
      /\ position' = 1
      /\ bus' = "dispatching"
      /\ UNCHANGED <<subscribers, delivered, publisher, worker, rows, phase, finished,
                     abandoned>>
  BY DEF BusPoll
<1>2. Polled \in Seq(Channels)
  BY PolledIsSeq, ChannelTypes, SeqMonotonic
<1>3. ch \in ToSet(Polled) /\ queue[ch] # <<>>
  BY <1>1, <1>2, FirstWaitingIs
<1>4. ch \in DomainChannels
  BY <1>3, PolledIsSeq
<1>5. QueuesOK' /\ event' \in Published
  BY <1>1, <1>3, <1>4, TakeKeeps, ChannelTypes, ChannelKinds
<1>6. BusOK'
  BY <1>1, <1>5 DEF BusOK, AtWork, Serving
<1>7. QED
  BY <1>1, <1>5, <1>6, Untouched

\* The dispatch thread gives its event to the next callback and puts the span.
LEMMA HandleKeeps == ASSUME TInv, Handle PROVE TInv'
<1> USE TInvParts
<1>1. Serving /\ Callback \in Callbacks /\ CallbackSpan(event, Callback) \in Events
  BY CallbackType DEF Handle, Serving
<1>2. QueuesOK'
  BY <1>1, PutKeeps DEF Handle
<1>3. event \in Published /\ Append(delivered[event], Callback) \in Seq(Callbacks)
  BY <1>1, AppendProperties DEF BusOK, AtWork
<1>4. delivered' \in [Published -> Seq(Callbacks)]
  BY <1>3 DEF Handle, BusOK
<1>5. BusOK'
  BY <1>4 DEF Handle, BusOK, AtWork, Serving
<1>6. QED
  BY <1>2, <1>5, Untouched DEF Handle

\* The callback's hook returns, and the capture is put.
LEMMA HookReturnsKeeps == ASSUME TInv, HookReturns PROVE TInv'
<1> USE TInvParts
<1>1. CallbackCapture(event, Callback) \in Events
  BY CallbackType DEF HookReturns, Serving, BusOK, AtWork
<1>2. QueuesOK'
  BY <1>1, PutKeeps DEF HookReturns
<1>3. BusOK'
  BY DEF HookReturns, BusOK, AtWork, Serving
<1>4. QED
  BY <1>2, <1>3, Untouched DEF HookReturns

\* The dispatch thread is done with its event.
LEMMA DispatchedKeeps == ASSUME TInv, Dispatched PROVE TInv'
<1> USE TInvParts
<1>1. event \in Events
  BY DEF Dispatched, BusOK, AtWork, Serving, Events
<1>2. finished' \in [Channels -> Seq(Events)]
  BY <1>1, FinishKeeps DEF Dispatched, RestOK
<1>3. RestOK'
  BY <1>2 DEF Dispatched, RestOK
<1>4. BusOK'
  BY DEF Dispatched, BusOK, AtWork, Serving
<1>5. QED
  BY <1>3, <1>4, Untouched DEF Dispatched

\* A callback joins the list of its channel.
LEMMA SubscribeKeeps == ASSUME TInv, Subscribe PROVE TInv'
<1> USE TInvParts
<1>1. PICK ch \in DomainChannels, c \in Callbacks :
        subscribers' = [subscribers EXCEPT ![ch] = Append(@, c)]
  BY DEF Subscribe
<1>2. subscribers[ch] \in Seq(Callbacks)
  BY DEF BusOK
<1>3. Append(subscribers[ch], c) \in Seq(Callbacks)
      /\ Len(Append(subscribers[ch], c)) = Len(subscribers[ch]) + 1
  BY <1>2, AppendProperties
<1>4. subscribers' \in [DomainChannels -> Seq(Callbacks)]
  BY <1>1, <1>3 DEF BusOK
<1>5. \A x \in DomainChannels : Len(subscribers[x]) <= Len(subscribers'[x])
  BY <1>1, <1>2, <1>3, LenProperties DEF BusOK
<1>6. bus = "hook" => position <= Len(subscribers'[ChannelOf(event)])
  <2> SUFFICES ASSUME bus = "hook"
               PROVE  position <= Len(subscribers'[ChannelOf(event)])
    OBVIOUS
  <2>1. ChannelOf(event) \in DomainChannels
    BY ChannelTypes DEF BusOK, AtWork, Serving
  <2>2. Len(subscribers[ChannelOf(event)]) \in Nat /\ Len(subscribers'[ChannelOf(event)]) \in Nat
    BY <2>1, <1>4, LenProperties DEF BusOK
  <2>3. QED
    BY <2>1, <2>2, <1>5 DEF BusOK, AtWork
<1>7. BusOK'
  BY <1>4, <1>6 DEF Subscribe, BusOK, AtWork, Serving
<1>8. QED
  BY <1>7, Untouched DEF Subscribe

\* Requests and the sweep put events on their queues.
LEMMA PutterKeeps ==
    ASSUME TInv, Request \/ SweepEnds \/ SweepRaises
    PROVE  TInv'
<1> USE TInvParts
<1>1. PICK e \in Events : Put(e)
  BY DEF Request, SweepEnds, SweepRaises, NextSweeps, Events, Telemetry
<1>2. QueuesOK'
  BY <1>1, PutKeeps
<1>3. RestOK'
  BY DEF Request, SweepEnds, SweepRaises, RestOK
<1>4. UNCHANGED <<busVars, worker, rows>>
  BY DEF Request, SweepEnds, SweepRaises
<1>5. QED
  BY <1>2, <1>3, <1>4, Untouched

\* The drain worker takes the first event of one of its two channels.
LEMMA FetchKeeps ==
    ASSUME TInv, Waiting(Drained) # {},
           batch' = Append(batch, Head(queue[FirstWaiting(Drained)])),
           Take(FirstWaiting(Drained))
    PROVE  /\ QueuesOK'
           /\ FirstWaiting(Drained) \in {"trace", "snapshot"}
           /\ queue[FirstWaiting(Drained)] # <<>>
           /\ Head(queue[FirstWaiting(Drained)]) \in Telemetry
           /\ ChannelOf(Head(queue[FirstWaiting(Drained)])) = FirstWaiting(Drained)
           /\ batch' \in Seq(Telemetry)
           /\ batch' # <<>>
<1> USE TInvParts
<1> DEFINE ch == FirstWaiting(Drained)
<1>1. Drained \in Seq(Channels)
  BY ChannelTypes DEF Drained
<1>2. ch \in {"trace", "snapshot"} /\ queue[ch] # <<>>
  BY <1>1, FirstWaitingIs, ChannelTypes
<1>3. ch \in Channels
  BY <1>2, ChannelTypes
<1>4. QueuesOK' /\ Head(queue[ch]) \in Events /\ ChannelOf(Head(queue[ch])) = ch
  BY <1>2, <1>3, TakeKeeps
<1>5. Head(queue[ch]) \in Telemetry
  BY <1>2, <1>4, ChannelKinds
<1>6. batch' \in Seq(Telemetry) /\ batch' # <<>>
  <2> DEFINE x == Head(queue[ch])
  <2>1. batch \in Seq(Telemetry) /\ x \in Telemetry /\ batch' = Append(batch, x)
    BY <1>5 DEF WorkerOK
  <2> HIDE DEF x
  <2>2. QED
    BY <2>1, AppendProperties
<1>7. QED
  BY <1>2, <1>4, <1>5, <1>6

\* The drain takes its first event.
LEMMA DrainPollKeeps == ASSUME TInv, DrainPoll PROVE TInv'
<1> USE TInvParts
<1>1. QueuesOK' /\ batch' \in Seq(Telemetry)
  BY FetchKeeps DEF DrainPoll
<1>2. WorkerOK'
  BY <1>1 DEF DrainPoll, WorkerOK, Storing
<1>3. QED
  BY <1>1, <1>2, Untouched DEF DrainPoll

\* The drain takes what else is there, up to its batch size.
LEMMA DrainRestKeeps == ASSUME TInv, DrainRest PROVE TInv'
<1> USE TInvParts
<1>1. QueuesOK' /\ WorkerOK'
  <2>1. CASE Waiting(Drained) # {}
    <3>1. QueuesOK' /\ batch' \in Seq(Telemetry)
      BY <2>1, FetchKeeps DEF DrainRest
    <3>2. drain' = drain /\ final' = final /\ drain = "draining"
      BY <2>1 DEF DrainRest
    <3>3. QED
      BY <3>1, <3>2 DEF WorkerOK, Storing
  <2>2. CASE Waiting(Drained) = {}
    BY <2>2, Untouched DEF DrainRest, WorkerOK, Storing
  <2>3. QED
    BY <2>1, <2>2
<1>2. QED
  BY <1>1, Untouched DEF DrainRest

\* A drained event is discarded or its span stored.
LEMMA IngestKeeps ==
    ASSUME TInv, Discard \/ StoreSpan
    PROVE  TInv'
<1> USE TInvParts
<1>1. batch # <<>> /\ Ingested(Head(batch)) /\ drain' = "flushing" /\ traces' = traces
  BY DEF Discard, StoreSpan, WorkerOK, Storing
<1>2. /\ Head(batch) \in Telemetry
      /\ batch' \in Seq(Telemetry)
      /\ finished' \in [Channels -> Seq(Events)]
  BY <1>1, IngestedKeeps
<1>3. WorkerOK'
  BY <1>1, <1>2 DEF WorkerOK, Storing, Ingested
<1>4. RowsOK'
  <2>1. /\ spans' \subseteq spans \cup {Head(batch)}
        /\ skipped' \subseteq skipped \cup {Head(batch)}
        /\ failed' \subseteq failed \cup {Head(batch)}
    BY DEF Discard, StoreSpan
  <2>2. QED
    BY <1>1, <1>2, <2>1 DEF RowsOK
<1>5. RestOK'
  BY <1>1, <1>2 DEF Ingested, RestOK
<1>6. QED
  BY <1>1, <1>3, <1>4, <1>5, Untouched DEF Ingested

\* The trace of a drained span is stored.
LEMMA StoreTraceKeeps == ASSUME TInv, StoreTrace PROVE TInv'
<1> USE TInvParts
<1>1. Head(batch) \in Telemetry
  BY HeadTailProperties DEF StoreTrace, WorkerOK
<1>2. RowsOK'
  BY <1>1 DEF StoreTrace, RowsOK
<1>3. WorkerOK'
  BY DEF StoreTrace, WorkerOK, Storing
<1>4. QED
  BY <1>2, <1>3, Untouched DEF StoreTrace

\* A span is stored, and the read that follows ends the thread.
LEMMA RefreshRaisesKeeps == ASSUME TInv, RefreshRaises PROVE TInv'
<1> USE TInvParts
<1>1. batch # <<>> /\ Head(batch) \in Telemetry
  BY HeadTailProperties DEF RefreshRaises, WorkerOK, Storing
<1>2. RowsOK'
  BY <1>1 DEF RefreshRaises, RowsOK
<1>3. WorkerOK'
  BY DEF RefreshRaises, WorkerOK, Storing
<1>4. QED
  BY <1>2, <1>3, Untouched DEF RefreshRaises

\* The steps that only move a thread or the shutdown on.
LEMMA MoveKeeps ==
    ASSUME TInv,
           HookRaises \/ BusEnd \/ Wake \/ DrainStop \/ WindowElapsed \/ IngestRaises
              \/ FlushEnds \/ StopServing \/ Shutdown \/ UNCHANGED vars
    PROVE  TInv'
<1> USE TInvParts
<1>1. CASE HookRaises \/ BusEnd
  <2>1. BusOK'
    BY <1>1 DEF HookRaises, BusEnd, BusOK, AtWork, Serving
  <2>2. QED
    BY <1>1, <2>1, Untouched DEF HookRaises, BusEnd
<1>2. CASE Wake \/ StopServing \/ Shutdown
  <2>1. RestOK'
    BY <1>2 DEF Wake, StopServing, Shutdown, PublisherJoined, BusJoined, DrainJoined, RestOK
  <2>2. QED
    BY <1>2, <2>1, Untouched
       DEF Wake, StopServing, Shutdown, PublisherJoined, BusJoined, DrainJoined
<1>3. CASE DrainStop \/ WindowElapsed \/ IngestRaises \/ FlushEnds
  <2>1. WorkerOK'
    BY <1>3 DEF DrainStop, WindowElapsed, IngestRaises, FlushEnds, WorkerOK, Storing
  <2>2. QED
    BY <1>3, <2>1, Untouched DEF DrainStop, WindowElapsed, IngestRaises, FlushEnds
<1>4. CASE UNCHANGED vars
  BY <1>4, Untouched DEF vars
<1>5. QED
  BY <1>1, <1>2, <1>3, <1>4

\* Every step keeps the types.
LEMMA TInvStep == ASSUME TInv, [Next]_vars PROVE TInv'
BY BusPollKeeps, HandleKeeps, HookReturnsKeeps, DispatchedKeeps, SubscribeKeeps,
   PutterKeeps, DrainPollKeeps, DrainRestKeeps, IngestKeeps, StoreTraceKeeps,
   RefreshRaisesKeeps, MoveKeeps
   DEF Next, Bus, Publisher, Drain, Terminated

\* The types hold always: the other invariants rest on it.
LEMMA TInvAlways == Spec => []TInv
BY TInvInit, TInvStep, PTL DEF Spec

\* The variables have their types, and no queue ever holds more than its bound,
\* whoever puts events on it: EventQueueRepository.put() drops what is too much.
THEOREM TypeCorrect == Spec => []TypeOK
<1>1. TInv => TypeOK
  BY DEF TInv
<1>2. QED
  BY <1>1, TInvAlways, PTL

-----------------------------------------------------------------------------
(* What is stored, skipped and refused.                                     *)

DrainedEvents == ToSet(finished["trace"]) \cup ToSet(finished["snapshot"])

Written == spans \cup skipped \cup failed

\* Where an event ends depends on the event alone: this is why the three sets stay apart
\* although events come through two channels and several batches.  What is written has
\* left the batch, but for the span that a refresh raised about; and a worker that has
\* ended took its batch to the end.
Sorted ==
    /\ spans \cap (Contextless \cup Malformed) = {}
    /\ skipped \subseteq Contextless
    /\ failed \subseteq Malformed \ Contextless
    /\ DrainedEvents \subseteq Written
    /\ \A e \in Written \ DrainedEvents : drain = "dead" /\ e = Head(batch) /\ e \in spans
    /\ drain = "ended" => batch = <<>>

\* The span whose trace has just been stored is the one that is stored next.
TracesOK ==
    /\ TracesHaveSpans
    /\ drain = "trace stored" => TraceId(Head(batch)) \in traces

\* Append adds one element.
LEMMA AppendAdds ==
    ASSUME NEW S, NEW s \in Seq(S), NEW e \in S
    PROVE  ToSet(Append(s, e)) = ToSet(s) \cup {e}
<1> DEFINE t == Append(s, e)
<1>1. /\ t \in Seq(S) /\ Len(t) = Len(s) + 1
      /\ \A i \in 1..Len(s) : t[i] = s[i]
      /\ t[Len(s) + 1] = e
  BY AppendProperties
<1>2. DOMAIN s = 1..Len(s) /\ DOMAIN t = 1..Len(t) /\ Len(s) \in Nat
  BY <1>1, LenProperties
<1>3. ToSet(t) \subseteq ToSet(s) \cup {e}
  BY <1>1, <1>2 DEF ToSet
<1>4. ToSet(s) \subseteq ToSet(t) /\ e \in ToSet(t)
  BY <1>1, <1>2 DEF ToSet
<1>5. QED
  BY <1>3, <1>4

\* Finishing an event adds it to the finished events of its channel.
LEMMA FinishAdds ==
    ASSUME finished \in [Channels -> Seq(Events)], NEW e \in Events, Finish(e)
    PROVE  \A ch \in Channels :
             ToSet(finished'[ch]) =
                 ToSet(finished[ch]) \cup (IF ch = ChannelOf(e) THEN {e} ELSE {})
<1>1. \A ch \in Channels : ToSet(Append(finished[ch], e)) = ToSet(finished[ch]) \cup {e}
  BY AppendAdds
<1>2. QED
  BY <1>1 DEF Finish

\* The drain is done with the head of its batch, and with nothing else.
LEMMA IngestedAdds ==
    ASSUME TInv, batch # <<>>, Ingested(Head(batch))
    PROVE  DrainedEvents' = DrainedEvents \cup {Head(batch)}
<1>1. Head(batch) \in Telemetry /\ finished \in [Channels -> Seq(Events)]
  BY IngestedKeeps DEF TInv, TypeOK
<1>2. Head(batch) \in Events /\ Finish(Head(batch))
  BY <1>1 DEF Events, Ingested
<1>3. \A ch \in Channels :
        ToSet(finished'[ch]) =
          ToSet(finished[ch]) \cup (IF ch = ChannelOf(Head(batch)) THEN {Head(batch)} ELSE {})
  BY <1>1, <1>2, FinishAdds
<1>4. ChannelOf(Head(batch)) \in {"trace", "snapshot"} /\ {"trace", "snapshot"} \subseteq Channels
  BY <1>1, ChannelTypes
<1>5. QED
  BY <1>3, <1>4 DEF DrainedEvents

\* A domain event is finished on a channel of its own.
LEMMA DispatchedAdds ==
    ASSUME TInv, Dispatched
    PROVE  DrainedEvents' = DrainedEvents
<1>1. /\ event \in Published /\ ChannelOf(event) \in DomainChannels
      /\ finished \in [Channels -> Seq(Events)]
  BY ChannelTypes DEF Dispatched, TInv, TypeOK, AtWork, Serving
<1>2. ChannelOf(event) \notin {"trace", "snapshot"}
  BY <1>1, ChannelTypes, TelemetryPipelineAssumption
<1>3. finished'["trace"] = finished["trace"] /\ finished'["snapshot"] = finished["snapshot"]
  BY <1>1, <1>2, ChannelTypes DEF Dispatched, Finish
<1>4. QED
  BY <1>3 DEF DrainedEvents

\* A step that neither writes a row nor finishes a telemetry event, does not wake a worker
\* that is gone, and ends one only with an empty batch.
Resting ==
    /\ UNCHANGED <<rows, DrainedEvents>>
    /\ drain \in {"ended", "dead"} => UNCHANGED <<drain, batch>>
    /\ drain' = "ended" => drain = "ended" \/ batch' = <<>>

\* Only the drain worker touches the rows, and only it finishes telemetry events.
LEMMA RowSteps ==
    ASSUME TInv, [Next]_vars
    PROVE  Resting \/ StoreTrace \/ Discard \/ StoreSpan \/ RefreshRaises
<1>1. CASE Dispatched
  BY <1>1, DispatchedAdds DEF Dispatched, worker, Resting
<1>2. CASE UNCHANGED <<rows, finished, worker>>
  BY <1>2 DEF DrainedEvents, worker, Resting
<1>3. CASE Request \/ Subscribe \/ BusPoll \/ Handle \/ HookReturns \/ HookRaises \/ BusEnd
  BY <1>3, <1>2 DEF Request, Subscribe, BusPoll, Handle, HookReturns, HookRaises, BusEnd
<1>4. CASE Publisher
  BY <1>4, <1>2 DEF Publisher, SweepEnds, SweepRaises, Wake
<1>5. CASE DrainPoll \/ DrainStop \/ DrainRest \/ IngestRaises \/ FlushEnds \/ WindowElapsed
  <2>1. /\ UNCHANGED <<rows, finished>>
        /\ drain \notin {"ended", "dead"}
        /\ drain' = "ended" => batch' = <<>>
    BY <1>5 DEF DrainPoll, DrainStop, DrainRest, IngestRaises, FlushEnds, WindowElapsed
  <2>2. QED
    BY <2>1 DEF Resting, DrainedEvents
<1>6. CASE StopServing \/ Shutdown \/ UNCHANGED vars
  BY <1>6, <1>2 DEF StopServing, Shutdown, PublisherJoined, BusJoined, DrainJoined, vars
<1>7. QED
  BY <1>1, <1>3, <1>4, <1>5, <1>6 DEF Next, Bus, Drain, Terminated

\* Every step keeps what was drained accounted for, by its kind.
LEMMA SortedStep == ASSUME TInv, Sorted, [Next]_vars PROVE Sorted'
<1>1. CASE Resting
  BY <1>1 DEF Resting, Sorted, Written, rows
<1>2. CASE StoreTrace
  BY <1>2 DEF StoreTrace, Sorted, Written, DrainedEvents
<1>3. CASE Discard
  <2>1. DrainedEvents' = DrainedEvents \cup {Head(batch)}
    BY <1>3, IngestedAdds DEF Discard
  <2>2. Written \subseteq DrainedEvents /\ drain' = "flushing"
    BY <1>3 DEF Discard, Sorted
  <2>3. QED
    BY <1>3, <2>1, <2>2 DEF Discard, Sorted, Written
<1>4. CASE StoreSpan
  <2>1. batch # <<>> /\ Head(batch) \notin Contextless \cup Malformed
    BY <1>4 DEF StoreSpan, TInv, Storing
  <2>2. DrainedEvents' = DrainedEvents \cup {Head(batch)}
    BY <1>4, <2>1, IngestedAdds DEF StoreSpan
  <2>3. Written \subseteq DrainedEvents /\ drain' = "flushing"
    BY <1>4 DEF StoreSpan, Sorted
  <2>4. QED
    BY <1>4, <2>1, <2>2, <2>3 DEF StoreSpan, Sorted, Written
<1>5. CASE RefreshRaises
  <2>1. Head(batch) \notin Contextless \cup Malformed
    BY <1>5 DEF RefreshRaises, TInv, Storing
  <2>2. Written \subseteq DrainedEvents
    BY <1>5 DEF RefreshRaises, Sorted
  <2>3. /\ spans' = spans \cup {Head(batch)} /\ Written' = Written \cup {Head(batch)}
        /\ drain' = "dead" /\ batch' = batch /\ DrainedEvents' = DrainedEvents
        /\ skipped' = skipped /\ failed' = failed
    BY <1>5 DEF RefreshRaises, Written, DrainedEvents
  <2>4. QED
    BY <2>1, <2>2, <2>3 DEF Sorted
<1>6. QED
  BY <1>1, <1>2, <1>3, <1>4, <1>5, RowSteps

\* At the start nothing is drained.
LEMMA SortedInit == Init => Sorted
BY ChannelTypes DEF Init, Sorted, Written, DrainedEvents, ToSet

\* So it is in every state.
LEMMA SortedAlways == Spec => []Sorted
BY SortedInit, SortedStep, TInvAlways, PTL DEF Spec

\* Nothing but the drain worker's own steps changes the traces, its place, or the
\* first event of its batch once the batch has one.
LEMMA TraceSteps ==
    ASSUME TInv, [Next]_vars
    PROVE  \/ UNCHANGED <<traces, spans, drain, batch>>
           \/ /\ UNCHANGED <<traces, spans>>
              /\ drain \notin {"trace stored", "dead"}
              /\ drain' # "trace stored"
           \/ IngestRaises
           \/ StoreTrace
           \/ StoreSpan
           \/ RefreshRaises
<1>1. CASE Request \/ Subscribe \/ BusPoll \/ Handle \/ HookReturns \/ HookRaises \/ BusEnd
             \/ Dispatched
  BY <1>1 DEF Request, Subscribe, BusPoll, Handle, HookReturns, HookRaises, BusEnd,
              Dispatched, worker, rows
<1>2. CASE Publisher \/ StopServing \/ Shutdown \/ UNCHANGED vars
  BY <1>2 DEF Publisher, SweepEnds, SweepRaises, Wake, StopServing, Shutdown,
              PublisherJoined, BusJoined, DrainJoined, vars, worker, rows
<1>3. CASE DrainPoll \/ DrainStop \/ DrainRest \/ Discard \/ FlushEnds \/ WindowElapsed
  BY <1>3 DEF DrainPoll, DrainStop, DrainRest, Discard, FlushEnds, WindowElapsed, rows
<1>4. QED
  BY <1>1, <1>2, <1>3 DEF Next, Bus, Drain, Terminated

\* Every step keeps a trace beside each span, and a span beside each trace but one.
LEMMA TracesStep == ASSUME TInv, TracesOK, [Next]_vars PROVE TracesOK'
<1> DEFINE Traced == {TraceId(e) : e \in spans}
<1>1. CASE UNCHANGED <<traces, spans, drain, batch>>
  BY <1>1 DEF TracesOK, TracesHaveSpans
<1>2. CASE /\ UNCHANGED <<traces, spans>>
           /\ drain \notin {"trace stored", "dead"}
           /\ drain' # "trace stored"
  BY <1>2 DEF TracesOK, TracesHaveSpans
<1>3. CASE IngestRaises
  BY <1>3 DEF IngestRaises, TracesOK, TracesHaveSpans, rows
<1>4. CASE StoreTrace
  <2>1. Traced \subseteq traces /\ traces \ Traced = {}
    BY <1>4 DEF StoreTrace, TracesOK, TracesHaveSpans
  <2>2. /\ Traced' = Traced
        /\ traces' = traces \cup {TraceId(Head(batch))}
        /\ batch' = batch /\ drain' = "trace stored"
    BY <1>4 DEF StoreTrace
  <2>3. QED
    BY <2>1, <2>2 DEF TracesOK, TracesHaveSpans
<1>5. CASE StoreSpan \/ RefreshRaises
  <2>1. /\ Traced \subseteq traces
        /\ \A t \in traces \ Traced : t = TraceId(Head(batch))
        /\ TraceId(Head(batch)) \in traces
    BY <1>5 DEF StoreSpan, RefreshRaises, TracesOK, TracesHaveSpans
  <2>2. /\ Traced' = Traced \cup {TraceId(Head(batch))}
        /\ traces' = traces /\ drain' # "trace stored"
    BY <1>5 DEF StoreSpan, RefreshRaises
  <2>3. QED
    BY <2>1, <2>2 DEF TracesOK, TracesHaveSpans
<1>6. QED
  BY <1>1, <1>2, <1>3, <1>4, <1>5, TraceSteps

\* At the start nothing is stored.
LEMMA TracesInit == Init => TracesOK
BY DEF Init, TracesOK, TracesHaveSpans

\* No span row lacks its trace row; and only the trace of the event in hand may lack
\* its span row, in the moment between the drain worker's two commits or when the
\* worker died there.
THEOREM TracesComeWithSpans == Spec => []TracesHaveSpans
<1>1. TracesOK => TracesHaveSpans
  BY DEF TracesOK
<1>2. Spec => []TracesOK
  BY TracesInit, TracesStep, TInvAlways, PTL DEF Spec
<1>3. QED
  BY <1>1, <1>2, PTL

-----------------------------------------------------------------------------
(* The order of the events.  What was accepted on a channel is what has been *)
(* finished, then what its consumer has in hand, then what is queued.        *)

\* The sequence a is f, then h, then q.
Splits(a, f, h, q) == a = (f \o h) \o q

\* An element is added; one goes from q to h; one goes from h to f.
LEMMA FlowPut ==
    ASSUME NEW S, NEW f \in Seq(S), NEW h \in Seq(S), NEW q \in Seq(S), NEW e \in S,
           NEW a, Splits(a, f, h, q)
    PROVE  Splits(Append(a, e), f, h, Append(q, e))
<1>1. f \o h \in Seq(S) /\ (f \o h) \o q \in Seq(S)
  BY ConcatProperties
<1>2. <<e>> \in Seq(S)
  OBVIOUS
<1>3. Append((f \o h) \o q, e) = ((f \o h) \o q) \o <<e>> /\ Append(q, e) = q \o <<e>>
  BY <1>1, AppendIsConcat
<1>4. ASSUME NEW g \in Seq(S), NEW x \in Seq(S) PROVE (g \o q) \o x = g \o (q \o x)
  BY ConcatAssociative
<1>5. ((f \o h) \o q) \o <<e>> = (f \o h) \o (q \o <<e>>)
  BY <1>1, <1>2, <1>4
<1>6. QED
  BY <1>3, <1>5 DEF Splits

\* A sequence is its head and then its tail.
LEMMA HeadThenTail ==
    ASSUME NEW S, NEW s \in Seq(S), s # <<>>
    PROVE  s = <<Head(s)>> \o Tail(s)
<1>1. Len(s) \in Nat \ {0}
  BY EmptySeq
<1>2. SubSeq(s, 1, Len(s)) = s /\ Tail(s) = SubSeq(s, 2, Len(s)) /\ Head(s) = s[1]
  BY SubSeqFull, TailIsSubSeq
<1>3. SubSeq(s, 1, Len(s)) = <<s[1]>> \o SubSeq(s, 1 + 1, Len(s))
  BY <1>1, SubSeqRecursiveFirst
<1>4. QED
  BY <1>2, <1>3

\* Taking the head of the queue moves the border between queued and held.
LEMMA FlowTake ==
    ASSUME NEW S, NEW f \in Seq(S), NEW h \in Seq(S), NEW q \in Seq(S), q # <<>>,
           NEW a, Splits(a, f, h, q)
    PROVE  Splits(a, f, Append(h, Head(q)), Tail(q))
<1>1. Head(q) \in S /\ Tail(q) \in Seq(S)
  BY HeadTailProperties
<1> DEFINE x == <<Head(q)>>
<1>2. x \in Seq(S) /\ q = x \o Tail(q) /\ Append(h, Head(q)) = h \o x
  BY <1>1, HeadThenTail, AppendIsConcat
<1> HIDE DEF x
<1>3. x \in Seq(S) /\ f \o h \in Seq(S)
  BY <1>2, ConcatProperties
<1>4. ((f \o h) \o x) \o Tail(q) = (f \o h) \o (x \o Tail(q))
  <2>1. ASSUME NEW g \in Seq(S), NEW t \in Seq(S) PROVE (g \o x) \o t = g \o (x \o t)
    BY <1>3, ConcatAssociative, SMTT(30)
  <2>2. QED
    BY <1>1, <1>3, <2>1
<1>5. (f \o h) \o x = f \o (h \o x)
  BY <1>3, ConcatAssociative
<1>6. QED
  BY <1>2, <1>4, <1>5 DEF Splits

\* Finishing what is held first moves the border between held and finished.
LEMMA FlowFinish ==
    ASSUME NEW S, NEW f \in Seq(S), NEW h \in Seq(S), NEW q \in Seq(S), h # <<>>,
           NEW a, Splits(a, f, h, q)
    PROVE  /\ Splits(a, Append(f, Head(h)), Tail(h), q)
           /\ Len(f) < Len(a)
           /\ a[Len(f) + 1] = Head(h)
<1>1. /\ Head(h) \in S /\ Head(h) = h[1] /\ Tail(h) \in Seq(S) /\ Len(h) \in Nat \ {0}
      /\ Len(f) \in Nat /\ Len(q) \in Nat
  BY HeadTailProperties, EmptySeq, LenProperties
<1> DEFINE x == <<Head(h)>>
<1>2. x \in Seq(S) /\ h = x \o Tail(h) /\ Append(f, Head(h)) = f \o x
  BY <1>1, HeadThenTail, AppendIsConcat
<1>3. f \o (x \o Tail(h)) = (f \o x) \o Tail(h)
  BY <1>1, <1>2, ConcatAssociative
<1>4. /\ f \o h \in Seq(S)
      /\ Len(f \o h) = Len(f) + Len(h)
      /\ (f \o h)[Len(f) + 1] = h[1]
  BY <1>1, ConcatProperties
<1>5. /\ Len((f \o h) \o q) = Len(f) + Len(h) + Len(q)
      /\ ((f \o h) \o q)[Len(f) + 1] = (f \o h)[Len(f) + 1]
  BY <1>1, <1>4, ConcatProperties
<1>6. (f \o h) \o q = ((f \o x) \o Tail(h)) \o q
  BY <1>2, <1>3
<1> HIDE DEF x
<1>7. Splits(a, Append(f, Head(h)), Tail(h), q)
  BY <1>2, <1>6 DEF Splits
<1>8. Len(f) < Len(a) /\ a[Len(f) + 1] = Head(h)
  BY <1>1, <1>4, <1>5 DEF Splits
<1>9. QED
  BY <1>7, <1>8

\* h is the part of the batch b that came from channel ch, in the order of b.
PartOf(b, h, ch) ==
    \E at \in Seq(1..Len(b)) :
        /\ Len(h) = Len(at)
        /\ \A i, j \in 1..Len(at) : i < j => at[i] < at[j]
        /\ \A i \in 1..Len(b) : ChannelOf(b[i]) = ch <=> \E j \in 1..Len(at) : at[j] = i
        /\ \A j \in 1..Len(h) : h[j] = b[at[j]]

\* A batch that grows by an event of one channel grows for that channel only.
LEMMA PartOfAppend ==
    ASSUME NEW b \in Seq(Telemetry), NEW h \in Seq(Events), NEW ch, NEW x \in Telemetry,
           PartOf(b, h, ch)
    PROVE  /\ ChannelOf(x) = ch => PartOf(Append(b, x), Append(h, x), ch)
           /\ ChannelOf(x) # ch => PartOf(Append(b, x), h, ch)
<1> DEFINE b2 == Append(b, x)
           n  == Len(b)
<1>1. /\ n \in Nat /\ Len(b2) = n + 1
      /\ \A i \in 1..n : b2[i] = b[i]
      /\ b2[n + 1] = x
  BY AppendProperties, LenProperties
<1>2. PICK at \in Seq(1..n) :
        /\ Len(h) = Len(at)
        /\ \A i, j \in 1..Len(at) : i < j => at[i] < at[j]
        /\ \A i \in 1..n : ChannelOf(b[i]) = ch <=> \E j \in 1..Len(at) : at[j] = i
        /\ \A j \in 1..Len(h) : h[j] = b[at[j]]
  BY DEF PartOf
<1>3. Len(at) \in Nat /\ \A j \in 1..Len(at) : at[j] \in 1..n
  BY LenProperties, ElementOfSeq
<1>4. 1..n \subseteq 1..(n + 1) /\ at \in Seq(1..(n + 1))
  BY <1>1, SeqMonotonic
<1> HIDE DEF b2, n
<1>5. CASE ChannelOf(x) # ch
  <2>1. \A i \in 1..Len(b2) : ChannelOf(b2[i]) = ch <=> \E j \in 1..Len(at) : at[j] = i
    BY <1>1, <1>2, <1>3, <1>5
  <2>2. \A j \in 1..Len(h) : h[j] = b2[at[j]]
    BY <1>1, <1>2, <1>3
  <2>3. PartOf(b2, h, ch)
    BY <1>1, <1>2, <1>4, <2>1, <2>2 DEF PartOf
  <2>4. QED
    BY <1>5, <2>3 DEF b2
<1>6. CASE ChannelOf(x) = ch
  <2> DEFINE bt == Append(at, n + 1)
             h2 == Append(h, x)
  <2>1. /\ bt \in Seq(1..(n + 1)) /\ Len(bt) = Len(at) + 1
        /\ \A j \in 1..Len(at) : bt[j] = at[j]
        /\ bt[Len(at) + 1] = n + 1
    BY <1>1, <1>4, AppendProperties
  <2>2. /\ Len(h2) = Len(at) + 1
        /\ \A j \in 1..Len(at) : h2[j] = h[j]
        /\ h2[Len(at) + 1] = x
    BY <1>2, AppendProperties DEF Events
  <2> HIDE DEF bt, h2
  <2>3. \A i, j \in 1..Len(bt) : i < j => bt[i] < bt[j]
    <3> SUFFICES ASSUME NEW i \in 1..Len(bt), NEW j \in 1..Len(bt), i < j
                 PROVE  bt[i] < bt[j]
      OBVIOUS
    <3>1. i \in 1..Len(at) /\ bt[i] = at[i] /\ at[i] \in 1..n
      BY <1>3, <2>1
    <3>2. CASE j = Len(at) + 1
      BY <1>1, <3>1, <3>2, <2>1
    <3>3. CASE j # Len(at) + 1
      <4>1. j \in 1..Len(at) /\ bt[j] = at[j]
        BY <1>3, <2>1, <3>3, SMTT(30)
      <4>2. QED
        BY <1>2, <3>1, <4>1
    <3>4. QED
      BY <3>2, <3>3
  <2>4. \A i \in 1..Len(b2) : ChannelOf(b2[i]) = ch <=> \E j \in 1..Len(bt) : bt[j] = i
    <3> SUFFICES ASSUME NEW i \in 1..Len(b2)
                 PROVE  ChannelOf(b2[i]) = ch <=> \E j \in 1..Len(bt) : bt[j] = i
      OBVIOUS
    <3>1. CASE i = n + 1
      BY <1>1, <1>3, <1>6, <2>1, <3>1, SMTT(30)
    <3>2. CASE i \in 1..n
      <4>1. ChannelOf(b2[i]) = ch <=> \E j \in 1..Len(at) : at[j] = i
        BY <1>1, <1>2, <3>2
      <4>2. (\E j \in 1..Len(at) : at[j] = i) => \E j \in 1..Len(bt) : bt[j] = i
        BY <1>3, <2>1
      <4>3. (\E j \in 1..Len(bt) : bt[j] = i) => \E j \in 1..Len(at) : at[j] = i
        <5> SUFFICES ASSUME NEW j \in 1..Len(bt), bt[j] = i
                     PROVE  \E l \in 1..Len(at) : at[l] = i
          OBVIOUS
        <5>1. j # Len(at) + 1
          BY <1>1, <2>1, <3>2
        <5>2. j \in 1..Len(at) /\ at[j] = i
          BY <1>3, <2>1, <5>1
        <5>3. QED
          BY <5>2
      <4>4. QED
        BY <4>1, <4>2, <4>3
    <3>3. QED
      BY <1>1, <3>1, <3>2
  <2>5. \A j \in 1..Len(h2) : h2[j] = b2[bt[j]]
    <3> SUFFICES ASSUME NEW j \in 1..Len(h2) PROVE h2[j] = b2[bt[j]]
      OBVIOUS
    <3>1. CASE j = Len(at) + 1
      BY <1>1, <2>1, <2>2, <3>1
    <3>2. CASE j # Len(at) + 1
      <4>1. j \in 1..Len(at) /\ bt[j] = at[j] /\ h2[j] = h[j] /\ at[j] \in 1..n
        BY <1>3, <2>1, <2>2, <3>2
      <4>2. QED
        BY <1>1, <1>2, <4>1
    <3>3. QED
      BY <3>1, <3>2
  <2>6. PartOf(b2, h2, ch)
    BY <1>1, <2>1, <2>2, <2>3, <2>4, <2>5, ZenonT(30) DEF PartOf
  <2>7. QED
    BY <1>6, <2>6 DEF b2, h2
<1>7. QED
  BY <1>5, <1>6

\* A batch that loses its head loses it for the head's channel only.
LEMMA PartOfTail ==
    ASSUME NEW b \in Seq(Telemetry), b # <<>>, NEW h \in Seq(Events), NEW ch,
           PartOf(b, h, ch)
    PROVE  /\ ChannelOf(Head(b)) = ch =>
                 h # <<>> /\ Head(h) = Head(b) /\ PartOf(Tail(b), Tail(h), ch)
           /\ ChannelOf(Head(b)) # ch => PartOf(Tail(b), h, ch)
<1> DEFINE c == Tail(b)
           n == Len(c)
<1>1. /\ n \in Nat /\ Len(b) = n + 1 /\ Head(b) = b[1]
      /\ \A i \in 1..n : c[i] = b[i + 1]
  BY HeadTailProperties, LenProperties, EmptySeq
<1>2. PICK at \in Seq(1..Len(b)) :
        /\ Len(h) = Len(at)
        /\ \A i, j \in 1..Len(at) : i < j => at[i] < at[j]
        /\ \A i \in 1..Len(b) : ChannelOf(b[i]) = ch <=> \E j \in 1..Len(at) : at[j] = i
        /\ \A j \in 1..Len(h) : h[j] = b[at[j]]
  BY DEF PartOf
<1>3. Len(at) \in Nat /\ \A j \in 1..Len(at) : at[j] \in 1..(n + 1)
  BY <1>1, LenProperties, ElementOfSeq
<1> HIDE DEF c, n
<1>4. CASE ChannelOf(Head(b)) # ch
  <2>1. \A j \in 1..Len(at) : at[j] # 1
    BY <1>1, <1>2, <1>4
  <2> DEFINE bt == [j \in 1..Len(at) |-> at[j] - 1]
  <2>2. \A j \in 1..Len(at) : at[j] - 1 \in 1..n
    BY <1>1, <1>3, <2>1
  <2>3. bt \in Seq(1..n)
    BY <1>3, <2>2, IsASeq
  <2>4. Len(bt) = Len(at) /\ \A j \in 1..Len(at) : bt[j] = at[j] - 1
    BY <1>3
  <2> HIDE DEF bt
  <2>5. \A i, j \in 1..Len(bt) : i < j => bt[i] < bt[j]
    BY <1>2, <1>3, <2>4
  <2>6. \A i \in 1..n : ChannelOf(c[i]) = ch <=> \E j \in 1..Len(bt) : bt[j] = i
    <3> SUFFICES ASSUME NEW i \in 1..n
                 PROVE  ChannelOf(c[i]) = ch <=> \E j \in 1..Len(bt) : bt[j] = i
      OBVIOUS
    <3>1. i + 1 \in 1..Len(b) /\ c[i] = b[i + 1]
      BY <1>1
    <3>2. ChannelOf(c[i]) = ch <=> \E j \in 1..Len(at) : at[j] = i + 1
      BY <3>1, <1>2
    <3>3. \A j \in 1..Len(at) : at[j] = i + 1 <=> bt[j] = i
      BY <1>1, <1>3, <2>4, SMTT(30)
    <3>4. QED
      BY <3>2, <3>3, <2>4
  <2>7. \A j \in 1..Len(h) : h[j] = c[bt[j]]
    BY <1>1, <1>2, <1>3, <2>2, <2>4
  <2>8. PartOf(c, h, ch)
    BY <1>2, <2>3, <2>4, <2>5, <2>6, <2>7 DEF PartOf, n
  <2>9. QED
    BY <1>4, <2>8 DEF c
<1>5. CASE ChannelOf(Head(b)) = ch
  <2>1. PICK k \in 1..Len(at) : at[k] = 1
    BY <1>1, <1>2, <1>5
  <2>2. k = 1
    BY <1>2, <1>3, <2>1
  <2>3. /\ Len(h) \in Nat \ {0} /\ h # <<>> /\ Head(h) = h[1] /\ h[1] = b[1]
        /\ Len(Tail(h)) = Len(h) - 1
        /\ \A j \in 1..Len(Tail(h)) : Tail(h)[j] = h[j + 1]
    BY <1>2, <1>3, <2>1, <2>2, EmptySeq, HeadTailProperties
  <2>4. \A j \in 2..Len(at) : at[j] - 1 \in 1..n
    BY <1>1, <1>2, <1>3, <2>1, <2>2
  <2> DEFINE m  == Len(at) - 1
             bt == [j \in 1..m |-> at[j + 1] - 1]
  <2>5. m \in Nat /\ \A j \in 1..m : at[j + 1] - 1 \in 1..n
    BY <1>2, <1>3, <2>3, <2>4
  <2>6. bt \in Seq(1..n)
    BY <2>5, IsASeq
  <2>7. Len(bt) = m /\ \A j \in 1..m : bt[j] = at[j + 1] - 1
    BY <2>5
  <2>8. Len(Tail(h)) = m
    BY <1>2, <2>3
  <2>9. Len(at) = m + 1
    BY <2>5, <1>3
  <2> HIDE DEF bt, m
  <2>10. \A i, j \in 1..m : i < j => bt[i] < bt[j]
    BY <1>2, <1>3, <2>5, <2>7, <2>9, SMTT(30)
  <2>11. \A i \in 1..n : ChannelOf(c[i]) = ch <=> \E j \in 1..m : bt[j] = i
    <3> SUFFICES ASSUME NEW i \in 1..n
                 PROVE  ChannelOf(c[i]) = ch <=> \E j \in 1..m : bt[j] = i
      OBVIOUS
    <3>1. i + 1 \in 1..Len(b) /\ c[i] = b[i + 1]
      BY <1>1
    <3>2. ChannelOf(c[i]) = ch <=> \E j \in 1..Len(at) : at[j] = i + 1
      BY <3>1, <1>2
    <3>3. (\E j \in 1..Len(at) : at[j] = i + 1) => \E j \in 1..m : bt[j] = i
      <4> SUFFICES ASSUME NEW j \in 1..Len(at), at[j] = i + 1
                   PROVE  \E l \in 1..m : bt[l] = i
        OBVIOUS
      <4>1. j # 1
        BY <2>1, <2>2, <1>1
      <4>2. PICK l \in 1..m : l + 1 = j
        BY <4>1, <2>5, <2>9
      <4>3. bt[l] = at[j] - 1
        BY <4>2, <2>7
      <4>4. QED
        BY <4>3, <1>1
    <3>4. (\E j \in 1..m : bt[j] = i) => \E j \in 1..Len(at) : at[j] = i + 1
      <4> SUFFICES ASSUME NEW j \in 1..m, bt[j] = i
                   PROVE  \E l \in 1..Len(at) : at[l] = i + 1
        OBVIOUS
      <4>1. j + 1 \in 1..Len(at)
        BY <2>5, <2>9
      <4>2. at[j + 1] = i + 1
        <5>1. bt[j] = at[j + 1] - 1 /\ at[j + 1] \in 1..(n + 1)
          BY <4>1, <2>7, <1>3
        <5>2. QED
          BY <5>1, <1>1
      <4>3. QED
        BY <4>1, <4>2
    <3>5. QED
      BY <3>2, <3>3, <3>4
  <2>12. \A j \in 1..m : Tail(h)[j] = c[bt[j]]
    <3> SUFFICES ASSUME NEW j \in 1..m PROVE Tail(h)[j] = c[bt[j]]
      OBVIOUS
    <3>1. Tail(h)[j] = h[j + 1] /\ j + 1 \in 1..Len(h)
      BY <1>2, <2>3, <2>5, <2>8, <2>9
    <3>2. h[j + 1] = b[at[j + 1]]
      BY <3>1, <1>2
    <3>3. /\ bt[j] = at[j + 1] - 1 /\ at[j + 1] - 1 \in 1..n
          /\ at[j + 1] \in 1..(n + 1)
      BY <1>2, <1>3, <3>1, <2>5, <2>7
    <3>4. c[bt[j]] = b[bt[j] + 1] /\ bt[j] + 1 = at[j + 1]
      BY <1>1, <3>3, SMTT(30)
    <3>5. QED
      BY <3>1, <3>2, <3>4
  <2>13. PartOf(c, Tail(h), ch)
    <3>1. Len(Tail(h)) = Len(bt) /\ Len(bt) = m
      BY <2>7, <2>8
    <3>2. \A j \in 1..Len(Tail(h)) : Tail(h)[j] = c[bt[j]]
      BY <2>12, <3>1
    <3>3. bt \in Seq(1..Len(c))
      BY <2>6 DEF n
    <3>4. \A i \in 1..Len(c) : ChannelOf(c[i]) = ch <=> \E j \in 1..Len(bt) : bt[j] = i
      BY <2>11, <3>1 DEF n
    <3>5. \A i, j \in 1..Len(bt) : i < j => bt[i] < bt[j]
      BY <2>10, <3>1
    <3>6. QED
      BY <3>1, <3>2, <3>3, <3>4, <3>5 DEF PartOf
  <2>14. QED
    BY <1>1, <1>5, <2>3, <2>13 DEF c
<1>6. QED
  BY <1>4, <1>5

-----------------------------------------------------------------------------
(* Every step seen from the queues: an event is put; the dispatch thread or  *)
(* the drain worker takes one; one is finished; or none of this happens.     *)

Consumers == <<finished, batch, event, Serving>>

\* Steps that put an event (a full queue drops it).
Putting ==
    /\ \E e \in Events : Put(e)
    /\ UNCHANGED <<Consumers, Lost>>

\* The drain worker's get_any().
Fetching ==
    /\ \E ch \in {"trace", "snapshot"} :
         /\ queue[ch] # <<>>
         /\ Head(queue[ch]) \in Telemetry
         /\ ChannelOf(Head(queue[ch])) = ch
         /\ Take(ch)
         /\ batch' = Append(batch, Head(queue[ch]))
    /\ UNCHANGED <<finished, event, Serving, Lost>>

\* The dispatch thread's get_any().
Serve ==
    /\ \E ch \in DomainChannels :
         /\ queue[ch] # <<>>
         /\ ChannelOf(Head(queue[ch])) = ch
         /\ Take(ch)
         /\ event' = Head(queue[ch])
    /\ ~Serving /\ Serving'
    /\ UNCHANGED <<finished, batch, Lost>>

Ingesting ==
    /\ batch # <<>>
    /\ Ingested(Head(batch))
    /\ UNCHANGED <<event, Serving, Lost>>

Served ==
    /\ Dispatched
    /\ Serving /\ ~Serving'
    /\ UNCHANGED Lost

Idle ==
    /\ UNCHANGED <<queues, Consumers>>
    /\ Lost \subseteq Lost'

\* Before the join of the publisher nobody has given up on it.
JoinedOnce == phase \in {"serving", "publisher"} => ~abandoned

\* So it is in every state.
LEMMA JoinedOnceAlways == Spec => []JoinedOnce
<1>1. Init => JoinedOnce
  BY DEF Init, JoinedOnce
<1>2. JoinedOnce /\ [Next]_vars => JoinedOnce'
  <2> SUFFICES ASSUME JoinedOnce, [Next]_vars PROVE JoinedOnce'
    OBVIOUS
  <2>1. CASE Shutdown \/ StopServing \/ Terminated \/ UNCHANGED vars
    BY <2>1 DEF Shutdown, PublisherJoined, BusJoined, DrainJoined, StopServing, Terminated,
                vars, JoinedOnce
  <2>2. CASE Request \/ Subscribe \/ Bus \/ Publisher
    BY <2>2 DEF Request, Subscribe, Bus, BusPoll, Handle, HookReturns, HookRaises,
                Dispatched, BusEnd, Publisher, SweepEnds, SweepRaises, Wake, JoinedOnce
  <2>3. CASE Drain \/ WindowElapsed
    BY <2>3 DEF Drain, DrainPoll, DrainStop, DrainRest, Discard, StoreTrace, StoreSpan,
                IngestRaises, RefreshRaises, FlushEnds, WindowElapsed, Ingested, JoinedOnce
  <2>4. QED
    BY <2>1, <2>2, <2>3 DEF Next
<1>3. QED
  BY <1>1, <1>2, PTL DEF Spec

\* What is lost depends on the two threads and the shutdown alone.
LEMMA SameLost ==
    ASSUME drain' = "dead" <=> drain = "dead", bus' = "dead" <=> bus = "dead",
           abandoned' = abandoned
    PROVE  Lost' = Lost
BY DEF Lost, Polled

\* What is lost stays lost.
LEMMA MoreLost ==
    ASSUME drain = "dead" => drain' = "dead", bus = "dead" => bus' = "dead",
           abandoned => abandoned'
    PROVE  Lost \subseteq Lost'
BY DEF Lost, Polled

\* These actions put at most one event on a queue.
LEMMA PuttingSteps ==
    ASSUME TInv, Request \/ SweepEnds \/ SweepRaises \/ Handle \/ HookReturns
    PROVE  Putting
<1> USE TInvParts
<1>1. \E e \in Events : Put(e)
  <2>1. CASE Request \/ SweepEnds \/ SweepRaises
    BY <2>1 DEF Request, SweepEnds, SweepRaises, NextSweeps, Events, Telemetry
  <2>2. CASE Handle
    BY <2>2, CallbackType DEF Handle, Serving
  <2>3. CASE HookReturns
    BY <2>3, CallbackType DEF HookReturns, Serving, BusOK, AtWork
  <2>4. QED
    BY <2>1, <2>2, <2>3
<1>2. UNCHANGED Consumers
  BY DEF Request, SweepEnds, SweepRaises, Handle, HookReturns, Consumers, Serving,
         busVars, worker
<1>3. Lost' = Lost
  BY SameLost DEF Request, SweepEnds, SweepRaises, Handle, HookReturns, busVars, worker
<1>4. QED
  BY <1>1, <1>2, <1>3 DEF Putting

\* These actions move the head of a telemetry queue to the batch.
LEMMA FetchingSteps ==
    ASSUME TInv, DrainPoll \/ (DrainRest /\ Waiting(Drained) # {})
    PROVE  Fetching
<1>1. /\ Waiting(Drained) # {}
      /\ batch' = Append(batch, Head(queue[FirstWaiting(Drained)]))
      /\ Take(FirstWaiting(Drained))
      /\ drain # "dead" /\ drain' # "dead"
      /\ UNCHANGED <<finished, busVars, abandoned>>
  BY DEF DrainPoll, DrainRest
<1>2. Lost' = Lost
  BY <1>1, SameLost DEF busVars
<1>3. UNCHANGED <<finished, event, Serving>>
  BY <1>1 DEF busVars, Serving
<1>4. QED
  BY <1>1, <1>2, <1>3, FetchKeeps DEF Fetching

\* The bus takes the head of a domain queue.
LEMMA ServeSteps == ASSUME TInv, BusPoll PROVE Serve
<1> USE TInvParts
<1> DEFINE ch == FirstWaiting(Polled)
<1>1. /\ bus = "polling" /\ bus' = "dispatching"
      /\ Waiting(Polled) # {}
      /\ event' = Head(queue[ch])
      /\ Take(ch)
      /\ UNCHANGED <<worker, finished, abandoned>>
  BY DEF BusPoll
<1>2. Polled \in Seq(Channels)
  BY PolledIsSeq, ChannelTypes, SeqMonotonic
<1>3. ch \in DomainChannels /\ queue[ch] # <<>>
  BY <1>1, <1>2, FirstWaitingIs, PolledIsSeq
<1>4. ChannelOf(Head(queue[ch])) = ch
  BY <1>1, <1>3, TakeKeeps, ChannelTypes
<1>5. Lost' = Lost
  BY <1>1, SameLost DEF worker
<1>6. QED
  BY <1>1, <1>3, <1>4, <1>5 DEF Serve, Serving, worker

\* These actions finish the head of the batch.
LEMMA IngestingSteps == ASSUME TInv, Discard \/ StoreSpan PROVE Ingesting
<1>1. /\ batch # <<>> /\ Ingested(Head(batch))
      /\ drain # "dead" /\ drain' # "dead"
  BY DEF Discard, StoreSpan, TInv, Storing
<1>2. Lost' = Lost
  BY <1>1, SameLost DEF Ingested, busVars
<1>3. QED
  BY <1>1, <1>2 DEF Ingesting, Ingested, busVars, Serving

\* The bus finishes the event it holds.
LEMMA ServedSteps == ASSUME TInv, Dispatched PROVE Served
BY SameLost DEF Dispatched, Served, Serving, worker

\* The other actions touch neither queues nor what is in hand.
LEMMA IdleSteps ==
    ASSUME TInv, JoinedOnce,
           \/ Subscribe \/ HookRaises \/ BusEnd \/ Wake
           \/ DrainStop \/ (DrainRest /\ Waiting(Drained) = {}) \/ StoreTrace
           \/ IngestRaises \/ RefreshRaises \/ FlushEnds \/ WindowElapsed
           \/ StopServing \/ Shutdown \/ UNCHANGED vars
    PROVE  Idle
<1>1. CASE Subscribe \/ HookRaises \/ BusEnd \/ Wake \/ UNCHANGED vars
  BY <1>1, MoreLost DEF Subscribe, HookRaises, BusEnd, Wake, vars, Idle, Consumers, Serving,
                        busVars, worker
<1>2. CASE DrainStop \/ (DrainRest /\ Waiting(Drained) = {}) \/ StoreTrace
             \/ IngestRaises \/ RefreshRaises \/ FlushEnds \/ WindowElapsed
  <2>1. /\ UNCHANGED <<queues, finished, batch, busVars, abandoned>>
        /\ drain # "dead"
    BY <1>2 DEF DrainStop, DrainRest, StoreTrace, IngestRaises, RefreshRaises, FlushEnds,
                WindowElapsed
  <2>2. Lost \subseteq Lost'
    BY <2>1, MoreLost DEF busVars
  <2>3. QED
    BY <2>1, <2>2 DEF Idle, Consumers, Serving, busVars
<1>3. CASE StopServing \/ Shutdown
  BY <1>3, MoreLost DEF StopServing, Shutdown, PublisherJoined, BusJoined, DrainJoined,
                        JoinedOnce, Idle, Consumers, Serving, busVars, worker
<1>4. QED
  BY <1>1, <1>2, <1>3

\* Of what moves events, every step is one of six.
LEMMA FlowSteps ==
    ASSUME TInv, JoinedOnce, [Next]_vars
    PROVE  Putting \/ Fetching \/ Serve \/ Ingesting \/ Served \/ Idle
BY PuttingSteps, FetchingSteps, ServeSteps, IngestingSteps, ServedSteps, IdleSteps
   DEF Next, Bus, Publisher, Drain, Terminated

-----------------------------------------------------------------------------
(* Nothing is lost, doubled or overtaken between put() and the consumer.     *)

InHand(h, ch) ==
    /\ ch \in DomainChannels =>
         h = IF Serving /\ ChannelOf(event) = ch THEN <<event>> ELSE <<>>
    /\ ch \notin DomainChannels => PartOf(batch, h, ch)

Flow ==
    \A ch \in Channels :
        \E h \in Seq(Events) :
            /\ InHand(h, ch)
            /\ Splits(accepted[ch], finished[ch], h, queue[ch])

\* What Promise!Next allows, on one channel.
Sent(ch) == \E e \in Events : accepted' = [accepted EXCEPT ![ch] = Append(@, e)]
Done(ch) ==
    /\ Len(finished[ch]) < Len(accepted[ch])
    /\ finished' = [finished EXCEPT ![ch] = Append(@, accepted[ch][Len(finished[ch]) + 1])]

\* Putting is the abstract Send of one channel, or refused by a full queue.
LEMMA PuttingFlow ==
    ASSUME TInv, Flow, Putting
    PROVE  /\ Flow'
           /\ (\E ch \in Channels : Sent(ch)) \/ UNCHANGED accepted
<1> USE TInvParts
<1>1. PICK e \in Events : Put(e)
  BY DEF Putting
<1> DEFINE c == ChannelOf(e)
<1>2. c \in Channels
  BY ChannelTypes
<1>3. \A h, ch : InHand(h, ch) => InHand(h, ch)'
  BY DEF Putting, Consumers, InHand, PartOf
<1>4. finished' = finished
  BY DEF Putting, Consumers
<1>5. CASE Len(queue[c]) < MaxSize
  <2>1. /\ queue' = [queue EXCEPT ![c] = Append(@, e)]
        /\ accepted' = [accepted EXCEPT ![c] = Append(@, e)]
    BY <1>1, <1>5 DEF Put
  <2>2. ASSUME NEW ch \in Channels
        PROVE  \E h \in Seq(Events) : /\ InHand(h, ch)'
                                      /\ Splits(accepted'[ch], finished'[ch], h, queue'[ch])
    <3>1. PICK h \in Seq(Events) : /\ InHand(h, ch)
                                   /\ Splits(accepted[ch], finished[ch], h, queue[ch])
      BY DEF Flow
    <3>2. finished[ch] \in Seq(Events) /\ queue[ch] \in Seq(Events)
      BY DEF QueuesOK, RestOK
    <3>3. CASE ch # c
      BY <1>3, <1>4, <2>1, <3>1, <3>3 DEF QueuesOK
    <3>4. CASE ch = c
      <4>1. accepted'[ch] = Append(accepted[ch], e) /\ queue'[ch] = Append(queue[ch], e)
        BY <2>1, <3>4 DEF QueuesOK
      <4>2. Splits(Append(accepted[ch], e), finished[ch], h, Append(queue[ch], e))
        BY <1>1, <3>1, <3>2, FlowPut
      <4>3. QED
        BY <1>3, <1>4, <3>1, <4>1, <4>2
    <3>5. QED
      BY <3>3, <3>4
  <2>3. Flow'
    BY <2>2 DEF Flow
  <2>4. Sent(c)
    BY <2>1 DEF Sent
  <2>5. QED
    BY <1>2, <2>3, <2>4
<1>6. CASE ~ (Len(queue[c]) < MaxSize)
  <2>1. UNCHANGED <<queue, accepted>>
    BY <1>1, <1>6 DEF Put
  <2>2. Flow'
    BY <1>3, <1>4, <2>1 DEF Flow
  <2>3. QED
    BY <2>1, <2>2
<1>7. QED
  BY <1>5, <1>6

\* Fetching moves an event from queued to held, which the promise does not see.
LEMMA FetchingFlow == ASSUME TInv, Flow, Fetching PROVE Flow' /\ UNCHANGED accepted
<1> USE TInvParts
<1>1. PICK c \in {"trace", "snapshot"} :
        /\ queue[c] # <<>>
        /\ Head(queue[c]) \in Telemetry
        /\ ChannelOf(Head(queue[c])) = c
        /\ Take(c)
        /\ batch' = Append(batch, Head(queue[c]))
  BY DEF Fetching
<1>2. c \in Channels /\ c \notin DomainChannels
  BY ChannelTypes, TelemetryPipelineAssumption
<1>3. /\ accepted' = accepted /\ finished' = finished
      /\ queue' = [queue EXCEPT ![c] = Tail(@)]
      /\ event' = event /\ Serving' = Serving
  BY <1>1 DEF Fetching, Take
<1>4. ASSUME NEW ch \in Channels
      PROVE  \E h \in Seq(Events) : /\ InHand(h, ch)'
                                    /\ Splits(accepted'[ch], finished'[ch], h, queue'[ch])
  <2>1. PICK h \in Seq(Events) : /\ InHand(h, ch)
                                 /\ Splits(accepted[ch], finished[ch], h, queue[ch])
    BY DEF Flow
  <2>2. finished[ch] \in Seq(Events) /\ queue[ch] \in Seq(Events) /\ batch \in Seq(Telemetry)
    BY DEF QueuesOK, RestOK, WorkerOK
  <2>3. CASE ch \in DomainChannels
    BY <1>2, <1>3, <2>1, <2>3 DEF InHand, QueuesOK
  <2>4. CASE ch \notin DomainChannels /\ ch # c
    <3>1. PartOf(batch', h, ch)
      BY <1>1, <2>1, <2>2, <2>4, PartOfAppend DEF InHand
    <3>2. QED
      BY <1>3, <2>1, <2>4, <3>1 DEF InHand, QueuesOK
  <2>5. CASE ch = c
    <3> PICK h2 : h2 = Append(h, Head(queue[ch]))
      OBVIOUS
    <3>1. PartOf(batch', h2, ch)
      BY <1>1, <1>2, <2>1, <2>2, <2>5, PartOfAppend DEF InHand
    <3>2. h2 \in Seq(Events)
      BY <1>1, <2>5, AppendProperties DEF Events
    <3>3. queue'[ch] = Tail(queue[ch])
      BY <1>2, <1>3, <2>5 DEF QueuesOK
    <3>4. Splits(accepted[ch], finished[ch], h2, Tail(queue[ch]))
      BY <1>1, <2>1, <2>2, <2>5, FlowTake
    <3>5. InHand(h2, ch)'
      BY <1>2, <2>5, <3>1 DEF InHand
    <3>6. QED
      BY <1>3, <2>1, <3>2, <3>3, <3>4, <3>5
  <2>6. QED
    BY <2>3, <2>4, <2>5
<1>5. QED
  BY <1>3, <1>4 DEF Flow

\* So does serving, of the dispatch thread.
LEMMA ServeFlow == ASSUME TInv, Flow, Serve PROVE Flow' /\ UNCHANGED accepted
<1> USE TInvParts
<1>1. PICK c \in DomainChannels :
        /\ queue[c] # <<>>
        /\ ChannelOf(Head(queue[c])) = c
        /\ Take(c)
        /\ event' = Head(queue[c])
  BY DEF Serve
<1>2. c \in Channels
  BY ChannelTypes
<1>3. /\ accepted' = accepted /\ finished' = finished /\ batch' = batch
      /\ queue' = [queue EXCEPT ![c] = Tail(@)]
      /\ ~Serving /\ Serving'
  BY <1>1 DEF Serve, Take
<1>4. ASSUME NEW ch \in Channels
      PROVE  \E h \in Seq(Events) :
                /\ InHand(h, ch)'
                /\ Splits(accepted'[ch], finished'[ch], h, queue'[ch])
  <2>1. PICK h \in Seq(Events) : /\ InHand(h, ch)
                                 /\ Splits(accepted[ch], finished[ch], h, queue[ch])
    BY DEF Flow
  <2>2. finished[ch] \in Seq(Events) /\ queue[ch] \in Seq(Events)
    BY DEF QueuesOK, RestOK
  <2>3. CASE ch # c
    <3>1. InHand(h, ch)'
      BY <1>1, <1>3, <2>1, <2>3 DEF InHand
    <3>2. QED
      BY <1>3, <2>1, <2>3, <3>1 DEF QueuesOK
  <2>4. CASE ch = c
    <3>1. h = <<>>
      BY <1>3, <2>1, <2>4 DEF InHand
    <3>2. PICK h2 : h2 = Append(h, Head(queue[ch]))
      OBVIOUS
    <3>3. Head(queue[ch]) \in Events
      BY <1>1, <2>2, <2>4, HeadTailProperties
    <3>4. h2 \in Seq(Events) /\ h2 = <<Head(queue[ch])>>
      BY <3>1, <3>2, <3>3, AppendProperties
    <3>5. Splits(accepted[ch], finished[ch], h2, Tail(queue[ch]))
      BY <1>1, <2>1, <2>2, <2>4, <3>2, FlowTake
    <3>6. h2 = <<event'>> /\ ChannelOf(event') = ch
      BY <1>1, <2>4, <3>4
    <3>7. InHand(h2, ch)'
      BY <1>3, <2>4, <3>6 DEF InHand
    <3>8. queue'[ch] = Tail(queue[ch])
      BY <1>2, <1>3, <2>4 DEF QueuesOK
    <3>9. QED
      BY <1>3, <3>4, <3>5, <3>7, <3>8
  <2>5. QED
    BY <2>3, <2>4
<1>5. QED
  BY <1>3, <1>4 DEF Flow

\* Ingesting finishes the oldest event held: the abstract Done.
LEMMA IngestingFlow ==
    ASSUME TInv, Flow, Ingesting
    PROVE  /\ Flow'
           /\ \E ch \in Channels : Done(ch)
           /\ UNCHANGED accepted
<1> USE TInvParts
<1> DEFINE e == Head(batch)
           c == ChannelOf(e)
<1>1. /\ batch # <<>> /\ batch' = Tail(batch) /\ Finish(e)
      /\ UNCHANGED <<queue, accepted, event, Serving>>
  BY DEF Ingesting, Ingested, queues
<1>2. e \in Telemetry /\ batch \in Seq(Telemetry)
  BY <1>1, HeadTailProperties DEF WorkerOK
<1>3. c \in Channels /\ c \notin DomainChannels
  BY <1>2, ChannelTypes, TelemetryPipelineAssumption
<1>4. /\ finished \in [Channels -> Seq(Events)]
      /\ finished' = [finished EXCEPT ![c] = Append(@, e)]
  BY <1>1 DEF Finish, RestOK
<1>5. ASSUME NEW ch \in Channels
      PROVE  /\ \E h \in Seq(Events) :
                   /\ InHand(h, ch)'
                   /\ Splits(accepted'[ch], finished'[ch], h, queue'[ch])
             /\ ch = c => Len(finished[ch]) < Len(accepted[ch])
                          /\ accepted[ch][Len(finished[ch]) + 1] = e
  <2>1. PICK h \in Seq(Events) : /\ InHand(h, ch)
                                 /\ Splits(accepted[ch], finished[ch], h, queue[ch])
    BY DEF Flow
  <2>2. finished[ch] \in Seq(Events) /\ queue[ch] \in Seq(Events)
    BY DEF QueuesOK, RestOK
  <2>3. CASE ch \in DomainChannels
    <3>1. InHand(h, ch)'
      BY <1>1, <2>1, <2>3 DEF InHand
    <3>2. QED
      BY <1>1, <1>3, <1>4, <2>1, <2>3, <3>1
  <2>4. CASE ch \notin DomainChannels /\ ch # c
    <3>1. PartOf(batch', h, ch)
      BY <1>1, <1>2, <2>1, <2>4, PartOfTail DEF InHand
    <3>2. InHand(h, ch)'
      BY <2>4, <3>1 DEF InHand
    <3>3. QED
      BY <1>1, <1>4, <2>1, <2>4, <3>2
  <2>5. CASE ch = c
    <3>1. /\ h # <<>> /\ Head(h) = e
          /\ PartOf(batch', Tail(h), ch)
      BY <1>1, <1>2, <1>3, <2>1, <2>5, PartOfTail DEF InHand
    <3>2. PICK h2 : h2 = Tail(h)
      OBVIOUS
    <3>3. h2 \in Seq(Events)
      BY <2>1, <3>1, <3>2, HeadTailProperties
    <3>4. InHand(h2, ch)'
      BY <1>3, <2>5, <3>1, <3>2 DEF InHand
    <3>5. /\ Splits(accepted[ch], Append(finished[ch], e), h2, queue[ch])
          /\ Len(finished[ch]) < Len(accepted[ch])
          /\ accepted[ch][Len(finished[ch]) + 1] = e
      BY <2>1, <2>2, <3>1, <3>2, FlowFinish
    <3>6. finished'[ch] = Append(finished[ch], e)
      BY <1>4, <2>5
    <3>7. QED
      BY <1>1, <3>3, <3>4, <3>5, <3>6
  <2>6. QED
    BY <2>3, <2>4, <2>5
<1>6. Done(c)
  <2>1. Len(finished[c]) < Len(accepted[c]) /\ accepted[c][Len(finished[c]) + 1] = e
    BY <1>3, <1>5
  <2>2. QED
    BY <1>4, <2>1 DEF Done
<1>7. Flow'
  BY <1>5 DEF Flow
<1>8. QED
  BY <1>1, <1>3, <1>6, <1>7

\* So does the end of a dispatch.
LEMMA ServedFlow ==
    ASSUME TInv, Flow, Served
    PROVE  /\ Flow'
           /\ \E ch \in Channels : Done(ch)
           /\ UNCHANGED accepted
<1> USE TInvParts
<1> DEFINE c == ChannelOf(event)
<1>1. /\ Finish(event) /\ Serving /\ ~Serving'
      /\ UNCHANGED <<queue, accepted, batch>>
  BY DEF Served, Dispatched, queues, worker
<1>2. c \in DomainChannels /\ c \in Channels /\ event \in Events
  BY <1>1, ChannelTypes DEF BusOK, AtWork, Events
<1>3. /\ finished \in [Channels -> Seq(Events)]
      /\ finished' = [finished EXCEPT ![c] = Append(@, event)]
  BY <1>1 DEF Finish, RestOK
<1>4. ASSUME NEW ch \in Channels
      PROVE  /\ \E h \in Seq(Events) :
                   /\ InHand(h, ch)'
                   /\ Splits(accepted'[ch], finished'[ch], h, queue'[ch])
             /\ ch = c => Len(finished[ch]) < Len(accepted[ch])
                          /\ accepted[ch][Len(finished[ch]) + 1] = event
  <2>1. PICK h \in Seq(Events) : /\ InHand(h, ch)
                                 /\ Splits(accepted[ch], finished[ch], h, queue[ch])
    BY DEF Flow
  <2>2. finished[ch] \in Seq(Events) /\ queue[ch] \in Seq(Events)
    BY DEF QueuesOK, RestOK
  <2>3. CASE ch # c
    <3>1. InHand(h, ch)'
      BY <1>1, <2>1, <2>3 DEF InHand
    <3>2. QED
      BY <1>1, <1>3, <2>1, <2>3, <3>1
  <2>4. CASE ch = c
    <3>1. h = <<event>>
      BY <1>1, <1>2, <2>1, <2>4 DEF InHand
    <3>2. h # <<>> /\ Head(h) = event /\ Tail(h) = <<>>
      BY <3>1
    <3>3. /\ Splits(accepted[ch], Append(finished[ch], Head(h)), Tail(h), queue[ch])
          /\ Len(finished[ch]) < Len(accepted[ch])
          /\ accepted[ch][Len(finished[ch]) + 1] = Head(h)
      BY <2>1, <2>2, <3>2, FlowFinish
    <3>4. InHand(<<>>, ch)'
      BY <1>1, <1>2, <2>4 DEF InHand
    <3>5. finished'[ch] = Append(finished[ch], event) /\ <<>> \in Seq(Events)
      BY <1>3, <2>4
    <3>6. QED
      BY <1>1, <3>2, <3>3, <3>4, <3>5
  <2>5. QED
    BY <2>3, <2>4
<1>5. Done(c)
  <2>1. Len(finished[c]) < Len(accepted[c]) /\ accepted[c][Len(finished[c]) + 1] = event
    BY <1>2, <1>4
  <2>2. QED
    BY <1>3, <2>1 DEF Done
<1>6. Flow'
  BY <1>4 DEF Flow
<1>7. QED
  BY <1>1, <1>2, <1>5, <1>6

\* What touches no event is a stuttering step.
LEMMA IdleFlow == ASSUME Flow, Idle PROVE Flow' /\ UNCHANGED accepted
BY DEF Flow, Idle, Consumers, queues, InHand, PartOf

\* At the start every sequence is empty.
LEMMA FlowInit == Init => Flow
<1> SUFFICES ASSUME Init, NEW ch \in Channels
             PROVE  \E h \in Seq(Events) :
                       InHand(h, ch) /\ Splits(accepted[ch], finished[ch], h, queue[ch])
  BY DEF Flow
<1>1. /\ accepted[ch] = <<>> /\ finished[ch] = <<>> /\ queue[ch] = <<>>
      /\ ~Serving /\ batch = <<>>
  BY DEF Init, Serving
<1>2. <<>> \in Seq(Events) /\ <<>> \in Seq(1..Len(batch))
  OBVIOUS
<1>3. PartOf(batch, <<>>, ch)
  <2>1. Len(batch) = 0 /\ 1..0 = {}
    BY <1>1
  <2>2. <<>> \in Seq(1..Len(batch)) /\ Len(<<>>) = 0
    BY <1>2
  <2>3. QED
    BY <2>1, <2>2 DEF PartOf
<1>4. Splits(<<>>, <<>>, <<>>, <<>>)
  BY <1>2, ConcatEmptySeq DEF Splits
<1>5. InHand(<<>>, ch)
  BY <1>1, <1>3 DEF InHand
<1>6. QED
  BY <1>1, <1>2, <1>4, <1>5

\* A step keeps the order, and it is one that the promise allows.
LEMMA FlowStep ==
    ASSUME TInv, JoinedOnce, Flow, [Next]_vars
    PROVE  /\ Flow'
           /\ \/ (\E ch \in Channels : Sent(ch)) /\ UNCHANGED <<finished, Lost>>
              \/ (\E ch \in Channels : Done(ch)) /\ UNCHANGED <<accepted, Lost>>
              \/ Lost \subseteq Lost' /\ UNCHANGED <<accepted, finished>>
<1>1. CASE Putting
  BY <1>1, PuttingFlow DEF Putting, Consumers
<1>2. CASE Fetching
  BY <1>2, FetchingFlow DEF Fetching
<1>3. CASE Serve
  BY <1>3, ServeFlow DEF Serve
<1>4. CASE Ingesting
  BY <1>4, IngestingFlow DEF Ingesting
<1>5. CASE Served
  BY <1>5, ServedFlow DEF Served
<1>6. CASE Idle
  BY <1>6, IdleFlow DEF Idle, Consumers
<1>7. QED
  BY <1>1, <1>2, <1>3, <1>4, <1>5, <1>6, FlowSteps

\* So it is in every state.
LEMMA FlowAlways == Spec => []Flow
BY FlowInit, FlowStep, TInvAlways, JoinedOnceAlways, PTL DEF Spec

\* What is lost are channels.
LEMMA LostType == Lost \in SUBSET Channels /\ Lost' \in SUBSET Channels
BY ChannelTypes DEF Lost

\* On every channel the events that put() accepted are finished in the order of their
\* acceptance and once each, whatever the batches, the threads and the shutdown do:
\* the safety part of what the queues promise.
THEOREM PipelineKeepsPromise == Spec => Promise!Spec
<1>1. Init => Promise!Init
  BY LostType DEF Init, Promise!Init
<1>2. ASSUME TInv, JoinedOnce, Flow, [Next]_vars PROVE [Promise!Next]_Promise!vars
  <2>1. CASE (\E ch \in Channels : Sent(ch)) /\ UNCHANGED <<finished, Lost>>
    BY <2>1 DEF Sent, Promise!Next, Promise!Send
  <2>2. CASE (\E ch \in Channels : Done(ch)) /\ UNCHANGED <<accepted, Lost>>
    BY <2>2 DEF Done, Promise!Next, Promise!Finish
  <2>3. CASE Lost \subseteq Lost' /\ UNCHANGED <<accepted, finished>>
    <3>1. Lost' = Lost \cup Lost'
      BY <2>3
    <3>2. QED
      BY <2>3, <3>1, LostType DEF Promise!Next, Promise!Lose
  <2>4. QED
    BY <1>2, <2>1, <2>2, <2>3, FlowStep
<1>3. QED
  BY <1>1, <1>2, FlowAlways, TInvAlways, JoinedOnceAlways, PTL DEF Spec, Promise!Spec

-----------------------------------------------------------------------------
(* Every telemetry event is accounted for.                                   *)

\* What is in one of two sequences is what is in the two put together.
LEMMA ConcatElements ==
    ASSUME NEW S, NEW s \in Seq(S), NEW t \in Seq(S)
    PROVE  ToSet(s \o t) = ToSet(s) \cup ToSet(t)
<1> DEFINE u == s \o t
<1>1. /\ u \in Seq(S) /\ Len(u) = Len(s) + Len(t)
      /\ \A i \in 1..Len(s) : u[i] = s[i]
      /\ \A i \in 1..Len(t) : u[Len(s) + i] = t[i]
  BY ConcatProperties
<1>2. /\ DOMAIN s = 1..Len(s) /\ DOMAIN t = 1..Len(t) /\ DOMAIN u = 1..Len(u)
      /\ Len(s) \in Nat /\ Len(t) \in Nat
  BY <1>1, LenProperties
<1> HIDE DEF u
<1>3. ASSUME NEW i \in 1..Len(u) PROVE u[i] \in ToSet(s) \cup ToSet(t)
  <2>1. CASE i <= Len(s)
    BY <1>1, <1>2, <2>1 DEF ToSet
  <2>2. CASE i > Len(s)
    <3>1. i - Len(s) \in 1..Len(t) /\ i = Len(s) + (i - Len(s))
      BY <1>1, <1>2, <2>2
    <3>2. u[i] = t[i - Len(s)]
      BY <1>1, <3>1
    <3>3. QED
      BY <1>2, <3>1, <3>2 DEF ToSet
  <2>3. QED
    BY <1>1, <1>2, <2>1, <2>2
<1>4. ToSet(s) \subseteq ToSet(u)
  BY <1>1, <1>2 DEF ToSet
<1>5. ToSet(t) \subseteq ToSet(u)
  <2>1. ASSUME NEW i \in 1..Len(t) PROVE Len(s) + i \in 1..Len(u)
    BY <1>1, <1>2
  <2>2. QED
    BY <1>1, <1>2, <2>1 DEF ToSet
<1>6. ToSet(u) = ToSet(s) \cup ToSet(t)
  BY <1>2, <1>3, <1>4, <1>5 DEF ToSet
<1>7. QED
  BY <1>6 DEF u

\* What a channel has in the batch is in the batch.
LEMMA PartIsHeld ==
    ASSUME NEW b \in Seq(Telemetry), NEW h \in Seq(Events), NEW ch, PartOf(b, h, ch)
    PROVE  ToSet(h) \subseteq ToSet(b)
<1>1. PICK at \in Seq(1..Len(b)) :
        /\ Len(h) = Len(at)
        /\ \A j \in 1..Len(h) : h[j] = b[at[j]]
  BY DEF PartOf
<1>2. /\ DOMAIN h = 1..Len(h) /\ DOMAIN b = 1..Len(b)
      /\ \A j \in 1..Len(at) : at[j] \in 1..Len(b)
  BY LenProperties, ElementOfSeq
<1>3. QED
  BY <1>1, <1>2 DEF ToSet

\* An accepted telemetry event is done, in the batch, or queued.
LEMMA AcceptedIsSomewhere ==
    ASSUME TInv, Flow, NEW ch \in {"trace", "snapshot"}
    PROVE  ToSet(accepted[ch]) \subseteq
             ToSet(finished[ch]) \cup ToSet(batch) \cup ToSet(queue[ch])
<1>1. ch \in Channels /\ ch \notin DomainChannels
  BY ChannelTypes, TelemetryPipelineAssumption
<1>2. /\ finished[ch] \in Seq(Events) /\ queue[ch] \in Seq(Events)
      /\ batch \in Seq(Telemetry)
  BY <1>1 DEF TInv, TypeOK
<1>3. PICK h \in Seq(Events) :
        PartOf(batch, h, ch) /\ accepted[ch] = (finished[ch] \o h) \o queue[ch]
  BY <1>1 DEF Flow, InHand, Splits
<1>4. finished[ch] \o h \in Seq(Events)
  BY <1>2, ConcatProperties
<1>5. ToSet(finished[ch] \o h) = ToSet(finished[ch]) \cup ToSet(h)
  BY <1>2, ConcatElements
<1>6. ToSet(accepted[ch]) = ToSet(finished[ch] \o h) \cup ToSet(queue[ch])
  <2>1. ASSUME NEW g \in Seq(Events) PROVE ToSet(g \o queue[ch]) = ToSet(g) \cup ToSet(queue[ch])
    BY <1>2, ConcatElements
  <2>2. ToSet((finished[ch] \o h) \o queue[ch])
          = ToSet(finished[ch] \o h) \cup ToSet(queue[ch])
    BY <1>4, <2>1, Zenon
  <2>3. QED
    BY <1>3, <2>2, Zenon
<1>7. ToSet(h) \subseteq ToSet(batch)
  BY <1>2, <1>3, PartIsHeld
<1>8. QED
  BY <1>5, <1>6, <1>7

\* Every telemetry event that was put is counted as dropped, waits in a queue or in the
\* worker's batch, or was stored, skipped or refused, and only one of the last three; what
\* left the batch was, and beside it only the span about whose refresh create() raised; a
\* worker that ends by itself leaves its batch empty.  So _ingest_one() loses nothing, and
\* what is lost with a dead thread is what stands in its batch.
THEOREM EveryEventAccounted == Spec => []Accounted
<1>1. ASSUME TInv, Sorted, Flow PROVE Accounted
  <2> DEFINE waiting == ToSet(queue["trace"]) \cup ToSet(queue["snapshot"]) \cup ToSet(batch)
  <2>1. ASSUME NEW e \in Telemetry, WasPut(e), e \notin dropped
        PROVE  e \in waiting \cup Written
    <3>1. ChannelOf(e) \in {"trace", "snapshot"} /\ e \in ToSet(accepted[ChannelOf(e)])
      BY <2>1, ChannelTypes DEF WasPut
    <3>2. e \in ToSet(finished[ChannelOf(e)]) \cup ToSet(batch) \cup ToSet(queue[ChannelOf(e)])
      BY <1>1, <3>1, AcceptedIsSomewhere
    <3>3. QED
      BY <1>1, <3>1, <3>2 DEF Sorted, DrainedEvents
  <2>2. spans \cap (skipped \cup failed) = {} /\ skipped \cap failed = {}
    BY <1>1 DEF Sorted
  <2>3. /\ DrainedEvents \subseteq Written
        /\ \A e \in Written \ DrainedEvents : drain = "dead" /\ e = Head(batch) /\ e \in spans
        /\ drain = "ended" => batch = <<>>
    BY <1>1 DEF Sorted
  <2>4. QED
    BY <2>1, <2>2, <2>3 DEF Accounted, Written, DrainedEvents
<1>2. QED
  BY <1>1, FlowAlways, SortedAlways, TInvAlways, PTL

-----------------------------------------------------------------------------
(* The order of the callbacks of a domain event.                             *)

\* A prefix, element by element.
LEMMA PrefixPointwise ==
    ASSUME NEW S, NEW s \in Seq(S), NEW t \in Seq(S)
    PROVE  IsPrefix(s, t) <=> /\ Len(s) <= Len(t)
                              /\ \A i \in 1..Len(s) : s[i] = t[i]
<1>1. /\ Len(s) \in Nat /\ Len(t) \in Nat
      /\ \A i \in 1..Len(s) : s[i] \in S
      /\ \A i \in 1..Len(t) : t[i] \in S
  BY LenProperties, ElementOfSeq
<1>2. SubSeq(s, 1, Len(s)) = s
  BY SubSeqFull
<1>3. SUFFICES ASSUME Len(s) <= Len(t)
               PROVE  s = SubSeq(t, 1, Len(s)) <=> \A i \in 1..Len(s) : s[i] = t[i]
  BY <1>2 DEF IsPrefix
<1> DEFINE u == SubSeq(t, 1, Len(s))
<1>4. /\ u \in Seq(S) /\ Len(u) = Len(s)
      /\ \A i \in 1..Len(s) : u[i] = t[i]
  <2>1. \A i \in 1..Len(s) : t[i] \in S
    BY <1>1, <1>3
  <2>2. /\ u \in Seq(S)
        /\ Len(u) = IF 1 <= Len(s) THEN Len(s) - 1 + 1 ELSE 0
        /\ \A i \in 1..(Len(s) - 1 + 1) : u[i] = t[1 + i - 1]
    BY <1>1, <2>1, SubSeqProperties
  <2>3. QED
    BY <1>1, <2>2
<1> HIDE DEF u
<1>5. (\A i \in 1..Len(s) : s[i] = t[i]) => s = u
  BY <1>4, SeqEqual
<1>6. QED
  BY <1>4, <1>5 DEF u

\* A prefix stays one when the longer sequence grows.
LEMMA PrefixOfAppend ==
    ASSUME NEW S, NEW s \in Seq(S), NEW t \in Seq(S), NEW e \in S, IsPrefix(s, t)
    PROVE  IsPrefix(s, Append(t, e))
<1> DEFINE u == Append(t, e)
<1>1. /\ u \in Seq(S) /\ Len(u) = Len(t) + 1
      /\ \A i \in 1..Len(t) : u[i] = t[i]
      /\ Len(s) \in Nat /\ Len(t) \in Nat
  BY AppendProperties, LenProperties
<1>2. Len(s) <= Len(t) /\ \A i \in 1..Len(s) : s[i] = t[i]
  BY PrefixPointwise
<1> HIDE DEF u
<1>3. Len(s) <= Len(u) /\ \A i \in 1..Len(s) : s[i] = u[i]
  BY <1>1, <1>2
<1>4. IsPrefix(s, u)
  BY <1>1, <1>3, PrefixPointwise
<1>5. QED
  BY <1>4 DEF u

\* The next element makes the prefix longer.
LEMMA PrefixGrows ==
    ASSUME NEW S, NEW s \in Seq(S), NEW t \in Seq(S), IsPrefix(s, t), Len(s) + 1 <= Len(t)
    PROVE  IsPrefix(Append(s, t[Len(s) + 1]), t)
<1> DEFINE e == t[Len(s) + 1]
           u == Append(s, e)
<1>1. Len(s) \in Nat /\ Len(t) \in Nat
  BY LenProperties
<1>2. e \in S
  BY <1>1, ElementOfSeq
<1>3. /\ u \in Seq(S) /\ Len(u) = Len(s) + 1
      /\ \A i \in 1..Len(s) : u[i] = s[i]
      /\ u[Len(s) + 1] = e
  BY <1>2, AppendProperties
<1>4. \A i \in 1..Len(s) : s[i] = t[i]
  BY PrefixPointwise
<1>5. \A i \in 1..Len(u) : u[i] = t[i]
  BY <1>1, <1>3, <1>4
<1>6. QED
  BY <1>3, <1>5, PrefixPointwise

\* A prefix that is as long as the whole is the whole.
LEMMA PrefixIsAll ==
    ASSUME NEW S, NEW s \in Seq(S), NEW t \in Seq(S), IsPrefix(s, t), Len(s) >= Len(t)
    PROVE  s = t
<1>1. Len(s) \in Nat /\ Len(t) \in Nat /\ Len(s) <= Len(t)
      /\ \A i \in 1..Len(s) : s[i] = t[i]
  BY PrefixPointwise, LenProperties
<1>2. QED
  BY <1>1, SeqEqual

\* A domain event is queued once, and nobody has had it before it leaves its queue.
FreshEvent(d) ==
    LET c == ChannelOf(d) IN
    /\ \A i, j \in 1..Len(queue[c]) : queue[c][i] = d /\ queue[c][j] = d => i = j
    /\ d \in ToSet(queue[c]) => d \in ToSet(accepted[c])
    /\ Serving /\ event = d => d \in ToSet(accepted[c]) \ ToSet(queue[c])
    /\ d \in ToSet(queue[c]) \/ d \notin ToSet(accepted[c]) => delivered[d] = <<>>

Fresh == \A d \in Published : FreshEvent(d)

\* How far the dispatch of an event is.
Progress(d) ==
    LET c == ChannelOf(d) IN
    /\ IsPrefix(delivered[d], subscribers[c])
    /\ IsPrefix(Registered[c], subscribers[c])
    /\ d \in ToSet(finished[c]) => IsPrefix(Registered[c], delivered[d])
    /\ bus = "dispatching" /\ event = d => Len(delivered[d]) + 1 = position
    /\ bus = "hook" /\ event = d => Len(delivered[d]) = position

Delivery == \A d \in Published : Progress(d)

\* What a step does to the queue of a domain event: nothing, a request publishes an
\* event that is new, or the dispatch thread takes the first one.
LEMMA DomainQueueSteps ==
    ASSUME TInv, [Next]_vars, NEW c \in DomainChannels
    PROVE  \/ UNCHANGED <<queue[c], accepted[c]>>
           \/ /\ \E e \in Published : /\ ChannelOf(e) = c
                                      /\ e \notin ToSet(accepted[c])
                                      /\ queue'[c] = Append(queue[c], e)
                                      /\ accepted'[c] = Append(accepted[c], e)
              /\ UNCHANGED busVars
           \/ /\ BusPoll
              /\ queue[c] # <<>>
              /\ queue'[c] = Tail(queue[c])
              /\ event' = Head(queue[c])
              /\ UNCHANGED accepted
<1> USE TInvParts
<1>1. c \in Channels /\ c \notin {"trace", "snapshot"}
  BY ChannelTypes, TelemetryPipelineAssumption
<1>2. ASSUME NEW e \in Telemetry, Put(e)
      PROVE  UNCHANGED <<queue[c], accepted[c]>>
  <2>1. ChannelOf(e) # c
    BY <1>1, ChannelTypes
  <2>2. QED
    BY <1>1, <1>2, <2>1 DEF Put, QueuesOK
<1>3. CASE Request
  <2>1. PICK e \in Spans \cup Snapshots \cup Published : ~WasPut(e) /\ Put(e)
    BY <1>3 DEF Request
  <2>2. CASE e \in Telemetry
    BY <1>2, <2>1, <2>2
  <2>3. CASE e \in Published /\ ChannelOf(e) # c
    BY <1>1, <2>1, <2>3 DEF Put, QueuesOK
  <2>4. CASE e \in Published /\ ChannelOf(e) = c
    <3>1. e \notin ToSet(accepted[c])
      BY <2>1, <2>4 DEF WasPut
    <3>2. QED
      BY <1>1, <1>3, <2>1, <2>4, <3>1 DEF Put, QueuesOK, Request
  <2>5. QED
    BY <2>2, <2>3, <2>4, <2>1 DEF Telemetry
<1>4. CASE SweepEnds \/ SweepRaises \/ Handle \/ HookReturns
  <2>1. \E e \in Telemetry : Put(e)
    <3>1. CASE SweepEnds \/ SweepRaises
      BY <3>1 DEF SweepEnds, SweepRaises, NextSweeps, Telemetry
    <3>2. CASE Handle \/ HookReturns
      <4>1. event \in Published /\ Callback \in Callbacks
        BY <3>2, CallbackType DEF Handle, HookReturns, BusOK, AtWork, Serving
      <4>2. /\ CallbackSpan(event, Callback) \in Telemetry
            /\ CallbackCapture(event, Callback) \in Telemetry
        BY <4>1 DEF Telemetry, CallbackSpans, CallbackCaptures
      <4>3. QED
        BY <3>2, <4>2 DEF Handle, HookReturns
    <3>3. QED
      BY <1>4, <3>1, <3>2
  <2>2. QED
    BY <1>2, <2>1
<1>5. CASE Fetching
  BY <1>1, <1>5 DEF Fetching, Take, QueuesOK
<1>6. CASE BusPoll
  BY <1>1, <1>6 DEF BusPoll, Take, QueuesOK
<1>7. CASE UNCHANGED queues
  BY <1>7 DEF queues
<1>8. CASE Subscribe \/ HookRaises \/ Dispatched \/ BusEnd \/ Wake \/ DrainStop
             \/ Discard \/ StoreTrace \/ StoreSpan \/ IngestRaises \/ RefreshRaises
             \/ FlushEnds
  BY <1>7, <1>8 DEF Subscribe, HookRaises, Dispatched, BusEnd, Wake, DrainStop, Discard,
                    StoreTrace, StoreSpan, Ingested, IngestRaises, RefreshRaises, FlushEnds
<1>9. CASE WindowElapsed \/ StopServing \/ Shutdown \/ UNCHANGED vars
             \/ (DrainRest /\ Waiting(Drained) = {})
  BY <1>7, <1>9 DEF WindowElapsed, StopServing, Shutdown, PublisherJoined, BusJoined,
                    DrainJoined, vars, DrainRest
<1>10. QED
  BY <1>3, <1>4, <1>5, <1>6, <1>8, <1>9, FetchingSteps
     DEF Next, Bus, Publisher, Drain, Terminated

\* Every step keeps that, as an event is published once.
LEMMA FreshStep == ASSUME TInv, Fresh, [Next]_vars PROVE Fresh'
<1> USE TInvParts
<1> SUFFICES ASSUME NEW d \in Published PROVE FreshEvent(d)'
  BY DEF Fresh
<1> DEFINE c == ChannelOf(d)
<1>1. /\ c \in DomainChannels /\ c \in Channels
      /\ queue[c] \in Seq(Events) /\ accepted[c] \in Seq(Events)
      /\ FreshEvent(d)
  BY ChannelTypes DEF Fresh, QueuesOK
<1>2. CASE UNCHANGED <<queue[c], accepted[c]>>
  <2>1. CASE Handle
    <3>1. CASE event = d
      <4>1. d \in ToSet(accepted[c]) \ ToSet(queue[c])
        BY <1>1, <2>1, <3>1 DEF FreshEvent, Handle, Serving
      <4>2. QED
        BY <1>1, <1>2, <4>1 DEF FreshEvent
    <3>2. CASE event # d
      BY <1>1, <1>2, <2>1, <3>2 DEF FreshEvent, Handle, Serving, BusOK
    <3>3. QED
      BY <3>1, <3>2
  <2>2. CASE BusPoll
    <3>1. PICK x \in DomainChannels :
            /\ queue[x] # <<>> /\ ChannelOf(Head(queue[x])) = x /\ Take(x)
            /\ event' = Head(queue[x])
      BY <2>2, ServeSteps DEF Serve
    <3>2. event' # d
      <4>1. CASE x # c
        BY <3>1, <4>1
      <4>2. CASE x = c
        <5>1. queue'[c] = Tail(queue[c])
          BY <1>1, <3>1, <4>2 DEF Take, QueuesOK
        <5>2. Len(queue'[c]) = Len(queue[c]) - 1 /\ Len(queue[c]) \in Nat
          BY <1>1, <3>1, <4>2, <5>1, HeadTailProperties, LenProperties
        <5>3. QED
          BY <1>2, <5>2
      <4>3. QED
        BY <4>1, <4>2
    <3>3. delivered' = delivered
      BY <2>2 DEF BusPoll
    <3>4. QED
      BY <1>1, <1>2, <3>2, <3>3 DEF FreshEvent
  <2>3. CASE ~ Handle /\ ~ BusPoll
    <3>1. delivered' = delivered /\ (Serving' => Serving /\ event' = event)
      <4>1. CASE UNCHANGED busVars
        BY <4>1 DEF busVars, Serving
      <4>2. CASE Subscribe \/ HookReturns \/ HookRaises \/ Dispatched \/ BusEnd
        BY <4>2 DEF Subscribe, HookReturns, HookRaises, Dispatched, BusEnd, Serving
      <4>3. CASE Request \/ Publisher \/ StopServing \/ Shutdown \/ UNCHANGED vars
        BY <4>1, <4>3 DEF Request, Publisher, SweepEnds, SweepRaises, Wake, StopServing,
                          Shutdown, PublisherJoined, BusJoined, DrainJoined, vars
      <4>4. CASE Drain \/ WindowElapsed
        BY <4>1, <4>4 DEF Drain, DrainPoll, DrainStop, DrainRest, Discard, StoreTrace,
                          StoreSpan, Ingested, IngestRaises, RefreshRaises, FlushEnds,
                          WindowElapsed
      <4>5. QED
        BY <2>3, <4>2, <4>3, <4>4 DEF Next, Bus, Terminated
    <3>2. QED
      BY <1>1, <1>2, <3>1 DEF FreshEvent
  <2>4. QED
    BY <2>1, <2>2, <2>3
<1>3. CASE /\ \E e \in Published : /\ ChannelOf(e) = c
                                   /\ e \notin ToSet(accepted[c])
                                   /\ queue'[c] = Append(queue[c], e)
                                   /\ accepted'[c] = Append(accepted[c], e)
           /\ UNCHANGED busVars
  <2>1. PICK e \in Published : /\ e \notin ToSet(accepted[c])
                               /\ queue'[c] = Append(queue[c], e)
                               /\ accepted'[c] = Append(accepted[c], e)
    BY <1>3
  <2>2. /\ ToSet(queue'[c]) = ToSet(queue[c]) \cup {e}
        /\ ToSet(accepted'[c]) = ToSet(accepted[c]) \cup {e}
    <3>1. e \in Events
      BY DEF Events
    <3>2. ToSet(Append(queue[c], e)) = ToSet(queue[c]) \cup {e}
      BY <1>1, <3>1, AppendAdds
    <3>3. ToSet(Append(accepted[c], e)) = ToSet(accepted[c]) \cup {e}
      BY <1>1, <3>1, AppendAdds
    <3>4. QED
      BY <2>1, <3>2, <3>3
  <2>3. /\ Len(queue'[c]) = Len(queue[c]) + 1 /\ Len(queue[c]) \in Nat
        /\ \A i \in 1..Len(queue[c]) : queue'[c][i] = queue[c][i]
        /\ queue'[c][Len(queue[c]) + 1] = e
    BY <1>1, <2>1, AppendProperties, LenProperties DEF Events
  <2>4. \A i, j \in 1..Len(queue'[c]) : queue'[c][i] = d /\ queue'[c][j] = d => i = j
    <3>1. CASE e = d
      <4>1. d \notin ToSet(queue[c])
        BY <1>1, <2>1, <3>1 DEF FreshEvent
      <4>2. \A i \in 1..Len(queue[c]) : queue[c][i] # d
        BY <1>1, <4>1, LenProperties DEF ToSet
      <4>3. QED
        BY <2>3, <4>2
    <3>2. CASE e # d
      <4>1. \A i \in 1..Len(queue'[c]) :
              queue'[c][i] = d => i \in 1..Len(queue[c]) /\ queue[c][i] = d
        BY <2>3, <3>2
      <4>2. QED
        BY <1>1, <4>1 DEF FreshEvent
    <3>3. QED
      BY <3>1, <3>2
  <2>5. UNCHANGED <<Serving, event, delivered>>
    BY <1>3 DEF busVars, Serving
  <2>6. QED
    BY <1>1, <2>1, <2>2, <2>4, <2>5 DEF FreshEvent
<1>4. CASE /\ BusPoll
           /\ queue[c] # <<>>
           /\ queue'[c] = Tail(queue[c])
           /\ event' = Head(queue[c])
           /\ UNCHANGED accepted
  <2> DEFINE q == queue[c]
             t == Tail(q)
  <2>1. /\ q \in Seq(Events) /\ Len(q) \in Nat \ {0} /\ Head(q) = q[1]
        /\ t \in Seq(Events) /\ Len(t) = Len(q) - 1
        /\ \A i \in 1..Len(t) : t[i] = q[i + 1]
    BY <1>1, <1>4, HeadTailProperties, EmptySeq
  <2>2. DOMAIN q = 1..Len(q) /\ DOMAIN t = 1..Len(t)
    BY <2>1, LenProperties
  <2>3. q[1] \in ToSet(q) /\ ToSet(t) \subseteq ToSet(q)
    BY <2>1, <2>2 DEF ToSet
  <2>4. \A i, j \in 1..Len(q) : q[i] = d /\ q[j] = d => i = j
    BY <1>1 DEF FreshEvent
  <2>5. q[1] = d => d \notin ToSet(t)
    <3>1. SUFFICES ASSUME q[1] = d, NEW i \in 1..Len(t), t[i] = d PROVE FALSE
      BY <2>2 DEF ToSet
    <3>2. i + 1 \in 1..Len(q) /\ 1 \in 1..Len(q) /\ q[i + 1] = d /\ i + 1 # 1
      BY <2>1, <3>1
    <3>3. QED
      BY <2>4, <3>1, <3>2
  <2>6. \A i, j \in 1..Len(t) : t[i] = d /\ t[j] = d => i = j
    <3> SUFFICES ASSUME NEW i \in 1..Len(t), NEW j \in 1..Len(t), t[i] = d, t[j] = d
                 PROVE  i = j
      OBVIOUS
    <3>1. /\ i + 1 \in 1..Len(q) /\ q[i + 1] = d
          /\ j + 1 \in 1..Len(q) /\ q[j + 1] = d
      BY <2>1
    <3>2. i + 1 = j + 1
      BY <2>4, <3>1
    <3>3. QED
      BY <3>2
  <2>7. queue'[c] = t /\ event' = q[1] /\ accepted' = accepted /\ delivered' = delivered
    BY <1>4, <2>1 DEF BusPoll
  <2> HIDE DEF q, t
  <2>8. d \in ToSet(q) => d \in ToSet(accepted[c]) /\ delivered[d] = <<>>
    BY <1>1 DEF FreshEvent, q
  <2>9. d \notin ToSet(accepted[c]) => delivered[d] = <<>>
    BY <1>1 DEF FreshEvent
  <2>10. QED
    BY <2>3, <2>5, <2>6, <2>7, <2>8, <2>9 DEF FreshEvent
<1>5. QED
  BY <1>1, <1>2, <1>3, <1>4, DomainQueueSteps

\* At the start no event was published.
LEMMA FreshInit == Init => Fresh
<1> SUFFICES ASSUME Init, NEW d \in Published PROVE FreshEvent(d)
  BY DEF Fresh
<1>1. ChannelOf(d) \in Channels
  BY ChannelTypes
<1>2. queue[ChannelOf(d)] = <<>> /\ delivered[d] = <<>> /\ ~Serving
  BY <1>1 DEF Init, Serving
<1>3. QED
  BY <1>2 DEF FreshEvent, ToSet

\* What happens outside the dispatch thread finishes no domain event.
LEMMA OtherSteps ==
    ASSUME TInv, [Next]_vars, ~ Subscribe, ~ Bus
    PROVE  /\ UNCHANGED busVars
           /\ \A c \in DomainChannels : finished'[c] = finished[c]
<1> USE TInvParts
<1>1. CASE Discard \/ StoreSpan
  <2>1. batch # <<>> /\ Ingested(Head(batch))
    BY <1>1 DEF Discard, StoreSpan, WorkerOK, Storing
  <2>2. ChannelOf(Head(batch)) \notin DomainChannels
    BY <2>1, IngestedKeeps, ChannelTypes, TelemetryPipelineAssumption
  <2>3. QED
    BY <2>1, <2>2, ChannelTypes DEF Ingested, Finish, RestOK
<1>2. CASE Request \/ Publisher \/ StopServing \/ Shutdown \/ UNCHANGED vars
  BY <1>2 DEF Request, Publisher, SweepEnds, SweepRaises, Wake, StopServing, Shutdown,
              PublisherJoined, BusJoined, DrainJoined, vars
<1>3. CASE DrainPoll \/ DrainStop \/ DrainRest \/ StoreTrace \/ IngestRaises
             \/ RefreshRaises \/ FlushEnds \/ WindowElapsed
  BY <1>3 DEF DrainPoll, DrainStop, DrainRest, StoreTrace, IngestRaises, RefreshRaises,
              FlushEnds, WindowElapsed
<1>4. QED
  BY <1>1, <1>2, <1>3 DEF Next, Drain, Terminated

\* Every step keeps what each callback was given in the order of publication.
LEMMA DeliveryStep == ASSUME TInv, Fresh, Delivery, [Next]_vars PROVE Delivery'
<1> USE TInvParts
<1> SUFFICES ASSUME NEW d \in Published PROVE Progress(d)'
  BY DEF Delivery
<1> DEFINE c == ChannelOf(d)
<1>1. /\ c \in DomainChannels /\ c \in Channels
      /\ subscribers[c] \in Seq(Callbacks) /\ delivered[d] \in Seq(Callbacks)
      /\ Registered[c] \in Seq(Callbacks)
      /\ Len(subscribers[c]) \in Nat /\ Len(delivered[d]) \in Nat
      /\ position \in Nat \ {0}
  BY ChannelTypes, TelemetryPipelineAssumption, LenProperties DEF BusOK, AtWork
<1>2. /\ IsPrefix(delivered[d], subscribers[c])
      /\ IsPrefix(Registered[c], subscribers[c])
      /\ d \in ToSet(finished[c]) => IsPrefix(Registered[c], delivered[d])
      /\ bus = "dispatching" /\ event = d => Len(delivered[d]) + 1 = position
      /\ bus = "hook" /\ event = d => Len(delivered[d]) = position
  BY DEF Delivery, Progress
<1>3. CASE ~ Subscribe /\ ~ Bus
  <2>1. UNCHANGED busVars /\ finished'[c] = finished[c]
    BY <1>1, <1>3, OtherSteps
  <2>2. QED
    BY <1>2, <2>1 DEF busVars, Progress
<1>4. CASE Subscribe
  <2>1. PICK ch \in DomainChannels, cb \in Callbacks :
          subscribers' = [subscribers EXCEPT ![ch] = Append(@, cb)]
    BY <1>4 DEF Subscribe
  <2>2. /\ IsPrefix(delivered[d], subscribers'[c])
        /\ IsPrefix(Registered[c], subscribers'[c])
    <3>1. CASE ch # c
      BY <1>1, <1>2, <2>1, <3>1 DEF BusOK
    <3>2. CASE ch = c
      <4>1. subscribers'[c] = Append(subscribers[c], cb)
        BY <1>1, <2>1, <3>2 DEF BusOK
      <4>2. /\ IsPrefix(delivered[d], Append(subscribers[c], cb))
            /\ IsPrefix(Registered[c], Append(subscribers[c], cb))
        BY <1>1, <1>2, <2>1, PrefixOfAppend
      <4>3. QED
        BY <4>1, <4>2
    <3>3. QED
      BY <3>1, <3>2
  <2>3. QED
    BY <1>2, <1>4, <2>2 DEF Subscribe, Progress
<1>5. CASE BusPoll
  <2>1. bus' = "dispatching" /\ position' = 1
        /\ UNCHANGED <<subscribers, delivered, finished>>
    BY <1>5 DEF BusPoll
  <2>2. event' = d => delivered[d] = <<>>
    <3> SUFFICES ASSUME event' = d PROVE delivered[d] = <<>>
      OBVIOUS
    <3>1. PICK x \in DomainChannels :
            /\ queue[x] # <<>> /\ ChannelOf(Head(queue[x])) = x
            /\ event' = Head(queue[x])
      BY <1>5, ServeSteps DEF Serve
    <3>2. x = c
      BY <3>1
    <3>3. queue[c] \in Seq(Events) /\ DOMAIN queue[c] = 1..Len(queue[c])
      BY <1>1, LenProperties DEF QueuesOK
    <3>4. Len(queue[c]) \in Nat \ {0} /\ Head(queue[c]) = queue[c][1]
      BY <3>1, <3>2, <3>3, EmptySeq
    <3>5. d \in ToSet(queue[c])
      BY <3>1, <3>2, <3>3, <3>4 DEF ToSet
    <3>6. QED
      BY <3>5 DEF Fresh, FreshEvent
  <2>3. event' = d => Len(delivered[d]) + 1 = 1
    BY <2>2
  <2>4. QED
    BY <1>2, <2>1, <2>3 DEF Progress
<1>6. CASE Handle
  <2>1. /\ bus = "dispatching" /\ bus' = "hook"
        /\ position <= Len(subscribers[ChannelOf(event)])
        /\ delivered' = [delivered EXCEPT ![event] = Append(@, Callback)]
        /\ UNCHANGED <<subscribers, event, position, finished>>
    BY <1>6 DEF Handle
  <2>2. CASE event # d
    <3>1. delivered'[d] = delivered[d]
      BY <2>1, <2>2 DEF BusOK
    <3>2. QED
      BY <1>2, <2>1, <2>2, <3>1 DEF Progress
  <2>3. CASE event = d
    <3>1. Len(delivered[d]) + 1 = position /\ Callback = subscribers[c][position]
      BY <1>2, <2>1, <2>3 DEF Callback
    <3>2. delivered'[d] = Append(delivered[d], subscribers[c][Len(delivered[d]) + 1])
      BY <2>1, <2>3, <3>1 DEF BusOK
    <3>3. Len(delivered[d]) + 1 <= Len(subscribers[c])
      BY <2>1, <2>3, <3>1
    <3>4. IsPrefix(delivered'[d], subscribers[c])
      BY <1>1, <1>2, <3>2, <3>3, PrefixGrows
    <3>5. subscribers[c][Len(delivered[d]) + 1] \in Callbacks
      BY <1>1, <3>3, ElementOfSeq
    <3>6. Len(delivered'[d]) = position
      BY <1>1, <3>1, <3>2, <3>5, AppendProperties
    <3>7. d \in ToSet(finished[c]) => IsPrefix(Registered[c], delivered'[d])
      BY <1>1, <1>2, <3>2, <3>5, PrefixOfAppend
    <3>8. QED
      BY <1>2, <2>1, <2>3, <3>4, <3>6, <3>7 DEF Progress
  <2>4. QED
    BY <2>2, <2>3
<1>7. CASE HookReturns
  BY <1>1, <1>2, <1>7 DEF HookReturns, Progress
<1>8. CASE HookRaises \/ BusEnd
  BY <1>2, <1>8 DEF HookRaises, BusEnd, Progress
<1>9. CASE Dispatched
  <2>1. /\ bus = "dispatching" /\ bus' = "polling"
        /\ position > Len(subscribers[ChannelOf(event)])
        /\ Finish(event)
        /\ UNCHANGED <<subscribers, position, delivered>>
    BY <1>9 DEF Dispatched
  <2>2. event \in Events /\ finished \in [Channels -> Seq(Events)]
    BY <2>1 DEF BusOK, AtWork, Serving, RestOK, Events
  <2>3. ToSet(finished'[c]) =
          ToSet(finished[c]) \cup (IF c = ChannelOf(event) THEN {event} ELSE {})
    BY <1>1, <2>1, <2>2, FinishAdds
  <2>4. event = d => IsPrefix(Registered[c], delivered[d])
    <3> SUFFICES ASSUME event = d PROVE IsPrefix(Registered[c], delivered[d])
      OBVIOUS
    <3>1. Len(delivered[d]) >= Len(subscribers[c])
      BY <1>1, <1>2, <2>1
    <3>2. delivered[d] = subscribers[c]
      BY <1>1, <1>2, <3>1, PrefixIsAll
    <3>3. QED
      BY <1>2, <3>2
  <2>5. QED
    BY <1>2, <2>1, <2>3, <2>4 DEF Progress
<1>10. QED
  BY <1>3, <1>4, <1>5, <1>6, <1>7, <1>8, <1>9 DEF Bus

\* At the start no callback was given anything.
LEMMA DeliveryInit == Init => Delivery
<1> SUFFICES ASSUME Init, NEW d \in Published PROVE Progress(d)
  BY DEF Delivery
<1> DEFINE c == ChannelOf(d)
<1>1. c \in DomainChannels /\ c \in Channels
  BY ChannelTypes
<1>2. /\ subscribers[c] = Registered[c] /\ delivered[d] = <<>> /\ finished[c] = <<>>
      /\ bus = "polling"
  BY <1>1 DEF Init
<1>3. <<>> \in Seq(Callbacks) /\ Registered[c] \in Seq(Callbacks)
  BY <1>1, TelemetryPipelineAssumption
<1>4. Len(Registered[c]) \in Nat /\ Len(<<>>) = 0 /\ 1..0 = {}
  BY <1>3, LenProperties
<1>5. IsPrefix(<<>>, Registered[c])
  <2>1. \A i \in 1..Len(<<>>) : <<>>[i] = Registered[c][i]
    BY <1>4
  <2>2. Len(<<>>) <= Len(Registered[c])
    BY <1>4
  <2>3. QED
    BY <1>3, <2>1, <2>2, PrefixPointwise
<1>6. IsPrefix(Registered[c], Registered[c])
  <2>1. Len(Registered[c]) <= Len(Registered[c])
    BY <1>4
  <2>2. QED
    BY <1>3, <2>1, PrefixPointwise
<1>7. QED
  BY <1>2, <1>5, <1>6 DEF Progress, ToSet

\* A domain event reaches the callbacks of its channel in the order in which they
\* subscribed, one that subscribes meanwhile included; when its dispatch is over all
\* that were subscribed at the start have had it, whether or not they raised.
THEOREM CallbacksInOrder == Spec => []DeliveredInOrder
<1>1. Delivery => DeliveredInOrder
  BY ChannelTypes DEF Delivery, Progress, DeliveredInOrder
<1>2. Spec => [](Fresh /\ Delivery)
  BY FreshInit, FreshStep, DeliveryInit, DeliveryStep, TInvAlways, PTL DEF Spec
<1>3. QED
  BY <1>1, <1>2, PTL
=============================================================================
