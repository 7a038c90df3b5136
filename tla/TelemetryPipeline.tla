------------------------- MODULE TelemetryPipeline -------------------------
(***************************************************************************)
(* The in-memory side of one server process: request handlers, the domain   *)
(* event bus and the post publisher put events on the bounded channels of   *)
(* the EventQueueRepository; the dispatch thread of the NanobarEventBus     *)
(* runs the subscribers of domain events; the TelemetryDrainWorker writes   *)
(* the "trace" and "snapshot" events into nanobar_api_telemetry.db; and the *)
(* lifespan of app/main.py stops the three threads one after the other.     *)
(* One action is what one thread does between two points at which another   *)
(* thread can see it: a put or a get, a commit, a callback.                 *)
(***************************************************************************)
EXTENDS Naturals, FiniteSets, Sequences, SequencesExt

CONSTANTS
    Spans,         \* put on "trace" by a request: middleware and @span decorators
    Snapshots,     \* put on "snapshot" by a request: capture_layer()
    Sweeps,        \* put on "trace" by the publisher, one for each of its sweeps
    Published,     \* domain events, put on their channel by publish()
    TraceOf,       \* the trace id that a request's or a sweep's event carries
    Untraced,      \* captures made with no trace context (tracing switched off)
    Malformed,     \* events whose envelope the TelemetryValidatorGate refuses
    DomainChannels,
    DomainChannelOf,
    Callbacks,
    Registered,    \* per domain channel, the callbacks subscribed before the bus starts
    Late,          \* <<channel, callback>> pairs that may be subscribed afterwards
    Raising,       \* callbacks whose on_success() or on_failure() can raise
    DbErrors,      \* TRUE: a database call of a background thread may raise
    SlowSweeps,    \* TRUE: a sweep may take longer than the publisher's join waits
    MaxSize, BatchSize

\* What one dispatch of a domain event to one callback puts on the channels: the
\* span around handle(), and the capture after it.  The span context is left before
\* the capture is made, and the dispatch thread has no other: it carries no trace.
CallbackSpan(d, c) == <<"span", d, c>>
CallbackCapture(d, c) == <<"capture", d, c>>
CallbackSpans == {CallbackSpan(d, c) : d \in Published, c \in Callbacks}
CallbackCaptures == {CallbackCapture(d, c) : d \in Published, c \in Callbacks}

Telemetry == Spans \cup Snapshots \cup Sweeps \cup CallbackSpans \cup CallbackCaptures
Events == Telemetry \cup Published
Drained == <<"trace", "snapshot">>
Channels == ToSet(Drained) \cup DomainChannels

ASSUME TelemetryPipelineAssumption ==
    /\ Untraced \subseteq Snapshots
    /\ Malformed \subseteq Spans \cup Snapshots
    /\ DomainChannelOf \in [Published -> DomainChannels]
    /\ Registered \in [DomainChannels -> Seq(Callbacks)]
    /\ Late \subseteq DomainChannels \X Callbacks
    /\ Raising \subseteq Callbacks
    /\ {DbErrors, SlowSweeps} \subseteq BOOLEAN
    /\ {MaxSize, BatchSize} \subseteq Nat \ {0}
    /\ IsFiniteSet(DomainChannels)
    /\ DomainChannels \cap ToSet(Drained) = {}
    /\ Published \cap Telemetry = {}

ChannelOf(e) ==
    CASE e \in Published -> DomainChannelOf[e]
      [] e \in Snapshots \cup CallbackCaptures -> "snapshot"
      [] OTHER -> "trace"

Contextless == Untraced \cup CallbackCaptures
TraceId(e) == IF e \in CallbackSpans THEN e ELSE TraceOf[e]

VARIABLES
    queue,        \* per channel, the queue.Queue
    dropped,      \* the events that dropped_counts has counted
    subscribers,  \* NanobarEventBus._subscribers
    bus,          \* where the dispatch thread is
    event,        \* the domain event being dispatched
    position,     \* index into the list of its subscribers
    publisher,    \* where the publisher thread is
    drain,        \* where the drain worker is
    batch,        \* the drain worker's batch
    final,        \* its last flush has been reached
    traces, spans,  \* the rows of nanobar_api_telemetry.db
    skipped,      \* the events counted by skipped_no_trace_context
    failed,       \* the events counted by write_failures
    phase,        \* how far the lifespan's shutdown is
    (* history *)
    accepted,     \* per channel, the events that put() queued, in order
    finished,     \* per channel, the events its consumer is done with, in order
    delivered,    \* per domain event, the callbacks whose handle() got it, in order
    abandoned     \* the join of the publisher has timed out

queues  == <<queue, dropped, accepted>>
busVars == <<subscribers, bus, event, position, delivered>>
worker  == <<drain, batch, final>>
rows    == <<traces, spans, skipped, failed>>
vars    == <<queues, busVars, publisher, worker, rows, phase, finished, abandoned>>

None == "none"

TypeOK ==
    /\ queue \in [Channels -> Seq(Events)]
    /\ \A ch \in Channels : Len(queue[ch]) <= MaxSize
    /\ dropped \subseteq Events
    /\ subscribers \in [DomainChannels -> Seq(Callbacks)]
    /\ bus \in {"polling", "dispatching", "hook", "ended", "dead"}
    /\ event \in Published \cup {None}
    /\ position \in Nat
    /\ publisher \in {"sweeping", "waiting", "ended"}
    /\ drain \in {"polling", "draining", "flushing", "trace stored", "ended", "dead"}
    /\ batch \in Seq(Telemetry)
    /\ final \in BOOLEAN
    /\ traces \subseteq {TraceId(e) : e \in Telemetry \ Contextless}
    /\ spans \cup skipped \cup failed \subseteq Telemetry
    /\ phase \in {"serving", "publisher", "bus", "drain", "down"}
    /\ accepted \in [Channels -> Seq(Events)]
    /\ finished \in [Channels -> Seq(Events)]
    /\ delivered \in [Published -> Seq(Callbacks)]
    /\ abandoned \in BOOLEAN

Init ==
    /\ queue = [ch \in Channels |-> <<>>]
    /\ dropped = {}
    /\ subscribers = Registered
    /\ bus = "polling"
    /\ event = None
    /\ position = 1
    /\ publisher = "sweeping"
    /\ drain = "polling"
    /\ batch = <<>>
    /\ final = FALSE
    /\ traces = {}
    /\ spans = {}
    /\ skipped = {}
    /\ failed = {}
    /\ phase = "serving"
    /\ accepted = [ch \in Channels |-> <<>>]
    /\ finished = [ch \in Channels |-> <<>>]
    /\ delivered = [d \in Published |-> <<>>]
    /\ abandoned = FALSE

-----------------------------------------------------------------------------
(* EventQueueRepository.                                                    *)

\* Mutant of Put: the queue has no bound.
PutUnbounded(e) ==
    /\ queue' = [queue EXCEPT ![ChannelOf(e)] = Append(@, e)]
    /\ accepted' = [accepted EXCEPT ![ChannelOf(e)] = Append(@, e)]
    /\ UNCHANGED dropped

\* put(): never blocks, never raises on backpressure; a full queue counts a drop.
Put(e) ==
    LET ch == ChannelOf(e) IN
    IF Len(queue[ch]) < MaxSize
    THEN /\ queue' = [queue EXCEPT ![ch] = Append(@, e)]
         /\ accepted' = [accepted EXCEPT ![ch] = Append(@, e)]
         /\ UNCHANGED dropped
    ELSE /\ dropped' = dropped \cup {e}
         /\ UNCHANGED <<queue, accepted>>

WasPut(e) == e \in dropped \/ e \in ToSet(accepted[ChannelOf(e)])

\* get_any(): the channels are scanned in the given order, the first event wins.
Waiting(channels) == {i \in DOMAIN channels : queue[channels[i]] # <<>>}
FirstWaiting(channels) ==
    channels[CHOOSE i \in Waiting(channels) : \A j \in Waiting(channels) : i <= j]

Take(ch) ==
    /\ queue' = [queue EXCEPT ![ch] = Tail(@)]
    /\ UNCHANGED <<dropped, accepted>>

Finish(e) == finished' = [finished EXCEPT ![ChannelOf(e)] = Append(@, e)]

-----------------------------------------------------------------------------
(* Request handlers: any number of them, until the server stops serving.    *)

Request ==
    /\ phase = "serving"
    /\ \E e \in Spans \cup Snapshots \cup Published : ~WasPut(e) /\ Put(e)
    /\ UNCHANGED <<busVars, publisher, worker, rows, phase, finished, abandoned>>

\* Mutant of Subscribe: the callback is put in front of the list.
SubscribeInFront ==
    /\ phase = "serving"
    /\ \E ch \in DomainChannels, c \in Callbacks :
        /\ <<ch, c>> \in Late
        /\ c \notin ToSet(subscribers[ch])
        /\ subscribers' = [subscribers EXCEPT ![ch] = <<c>> \o @]
    /\ UNCHANGED <<queues, bus, event, position, delivered, publisher, worker, rows,
                   phase, finished, abandoned>>

\* subscribe() while the bus is running: the list a dispatch iterates grows at once.
Subscribe ==
    /\ phase = "serving"
    /\ \E ch \in DomainChannels, c \in Callbacks :
        /\ <<ch, c>> \in Late
        /\ c \notin ToSet(subscribers[ch])
        /\ subscribers' = [subscribers EXCEPT ![ch] = Append(@, c)]
    /\ UNCHANGED <<queues, bus, event, position, delivered, publisher, worker, rows,
                   phase, finished, abandoned>>

-----------------------------------------------------------------------------
(* The dispatch thread, NanobarEventBus.run_forever().  It polls the channels *)
(* that had a subscriber when it started; after stop() it goes on until they  *)
(* are empty.                                                                 *)

Polled == SetToSeq({ch \in DomainChannels : Registered[ch] # <<>>})
BusStopped == phase \in {"bus", "drain", "down"}
Callback == subscribers[ChannelOf(event)][position]

BusPoll ==
    /\ bus = "polling"
    /\ Waiting(Polled) # {}
    /\ LET ch == FirstWaiting(Polled) IN
        /\ event' = Head(queue[ch])
        /\ Take(ch)
    /\ position' = 1
    /\ bus' = "dispatching"
    /\ UNCHANGED <<subscribers, delivered, publisher, worker, rows, phase, finished,
                   abandoned>>

\* The next callback's handle() runs inside a span, which is emitted whether
\* handle() returns or raises; both are followed by a hook and a capture.
Handle ==
    /\ bus = "dispatching"
    /\ position <= Len(subscribers[ChannelOf(event)])
    /\ delivered' = [delivered EXCEPT ![event] = Append(@, Callback)]
    /\ Put(CallbackSpan(event, Callback))
    /\ bus' = "hook"
    /\ UNCHANGED <<subscribers, event, position, publisher, worker, rows, phase,
                   finished, abandoned>>

\* on_success() or on_failure() returns, and the capture is put.
HookReturns ==
    /\ bus = "hook"
    /\ Put(CallbackCapture(event, Callback))
    /\ position' = position + 1
    /\ bus' = "dispatching"
    /\ UNCHANGED <<subscribers, event, delivered, publisher, worker, rows, phase,
                   finished, abandoned>>

\* Neither hook is called inside a try: an exception of theirs ends the thread.
HookRaises ==
    /\ bus = "hook"
    /\ Callback \in Raising
    /\ bus' = "dead"
    /\ UNCHANGED <<queues, subscribers, event, position, delivered, publisher, worker,
                   rows, phase, finished, abandoned>>

Dispatched ==
    /\ bus = "dispatching"
    /\ position > Len(subscribers[ChannelOf(event)])
    /\ Finish(event)
    /\ event' = None
    /\ bus' = "polling"
    /\ UNCHANGED <<queues, subscribers, position, delivered, publisher, worker, rows,
                   phase, abandoned>>

BusEnd ==
    /\ bus = "polling"
    /\ BusStopped
    /\ Waiting(Polled) = {}
    /\ bus' = "ended"
    /\ UNCHANGED <<queues, subscribers, event, position, delivered, publisher, worker,
                   rows, phase, finished, abandoned>>

Bus == BusPoll \/ Handle \/ HookReturns \/ HookRaises \/ Dispatched \/ BusEnd

-----------------------------------------------------------------------------
(* The publisher thread, PostPublisherThread.run_forever().                 *)

NextSweeps == {p \in Sweeps : ~WasPut(p)}

\* A sweep ends, and with it its root trace.
SweepEnds ==
    /\ publisher = "sweeping"
    /\ \E p \in NextSweeps : Put(p)
    /\ publisher' = "waiting"
    /\ UNCHANGED <<busVars, worker, rows, phase, finished, abandoned>>

\* A sweep that raises still emits its trace, and then ends the thread.
SweepRaises ==
    /\ DbErrors
    /\ publisher = "sweeping"
    /\ \E p \in NextSweeps : Put(p)
    /\ publisher' = "ended"
    /\ UNCHANGED <<busVars, worker, rows, phase, finished, abandoned>>

\* poll_interval_s passes, or stop() wakes the thread.
Wake ==
    /\ publisher = "waiting"
    /\ \/ phase = "serving" /\ NextSweeps # {} /\ publisher' = "sweeping"
       \/ phase # "serving" /\ publisher' = "ended"
    /\ UNCHANGED <<queues, busVars, worker, rows, phase, finished, abandoned>>

Publisher == SweepEnds \/ SweepRaises \/ Wake

-----------------------------------------------------------------------------
(* The drain worker, TelemetryDrainWorker.run().                            *)

\* Mutant of DrainStopped: the worker is stopped together with the bus.
StoppedWithBus == phase \in {"bus", "drain", "down"}

DrainStopped == phase \in {"drain", "down"}

DrainPoll ==
    /\ drain = "polling"
    /\ ~DrainStopped
    /\ Waiting(Drained) # {}
    /\ LET ch == FirstWaiting(Drained) IN
        /\ batch' = Append(batch, Head(queue[ch]))
        /\ Take(ch)
    /\ drain' = IF Len(batch') >= BatchSize THEN "flushing" ELSE "polling"
    /\ UNCHANGED <<busVars, publisher, final, rows, phase, finished, abandoned>>

\* batch_window_s has passed since the last flush.
WindowElapsed ==
    /\ drain = "polling"
    /\ batch # <<>>
    /\ drain' = "flushing"
    /\ UNCHANGED <<queues, busVars, publisher, batch, final, rows, phase, finished,
                   abandoned>>

DrainStop ==
    /\ drain = "polling"
    /\ DrainStopped
    /\ drain' = "draining"
    /\ UNCHANGED <<queues, busVars, publisher, batch, final, rows, phase, finished,
                   abandoned>>

\* After stop(): everything still queued joins one last batch, however large.
DrainRest ==
    /\ drain = "draining"
    /\ IF Waiting(Drained) # {}
       THEN LET ch == FirstWaiting(Drained) IN
            /\ batch' = Append(batch, Head(queue[ch]))
            /\ Take(ch)
            /\ UNCHANGED <<drain, final>>
       ELSE /\ final' = TRUE
            /\ drain' = "flushing"
            /\ UNCHANGED <<queues, batch>>
    /\ UNCHANGED <<busVars, publisher, rows, phase, finished, abandoned>>

\* _ingest_one() is done with the first event of the batch.
Ingested(e) ==
    /\ batch' = Tail(batch)
    /\ Finish(e)
    /\ UNCHANGED <<queues, busVars, publisher, final, phase, abandoned>>

\* Mutant of Discard: a refused event ends the flush, and the rest of the batch is dropped.
DiscardBatch ==
    /\ drain = "flushing"
    /\ batch # <<>>
    /\ LET e == Head(batch) IN
        /\ e \in Contextless \cup Malformed
        /\ skipped' = skipped \cup ({e} \cap Contextless)
        /\ failed' = failed \cup ({e} \ Contextless)
        /\ Finish(e)
    /\ batch' = <<>>
    /\ UNCHANGED <<queues, busVars, publisher, drain, final, traces, spans, phase, abandoned>>

\* An event without trace context, or one that the gate refuses, is only counted.
Discard ==
    /\ drain = "flushing"
    /\ batch # <<>>
    /\ LET e == Head(batch) IN
        /\ \/ /\ e \in Contextless
              /\ skipped' = skipped \cup {e}
              /\ UNCHANGED failed
           \/ /\ e \in Malformed \ Contextless
              /\ failed' = failed \cup {e}
              /\ UNCHANGED skipped
        /\ Ingested(e)
    /\ UNCHANGED <<drain, traces, spans>>

\* Mutant of StoreTrace: the trace row is looked up and not created.
LookUpTrace ==
    /\ drain = "flushing"
    /\ batch # <<>>
    /\ Head(batch) \notin Contextless \cup Malformed
    /\ drain' = "trace stored"
    /\ UNCHANGED <<queues, busVars, publisher, batch, final, rows, phase, finished,
                   abandoned>>

\* IngestSpanService: the trace row is got or created in a commit of its own.  (An
\* event_id is queued once, so no span row with it exists yet.)
StoreTrace ==
    /\ drain = "flushing"
    /\ batch # <<>>
    /\ Head(batch) \notin Contextless \cup Malformed
    /\ traces' = traces \cup {TraceId(Head(batch))}
    /\ drain' = "trace stored"
    /\ UNCHANGED <<queues, busVars, publisher, batch, final, spans, skipped, failed,
                   phase, finished, abandoned>>

StoreSpan ==
    /\ drain = "trace stored"
    /\ spans' = spans \cup {Head(batch)}
    /\ drain' = "flushing"
    /\ Ingested(Head(batch))
    /\ UNCHANGED <<traces, skipped, failed>>

\* Nothing between the commit and run() catches an exception of the database, which ends
\* the thread.  (After the commit of the trace it leaves what one before that of the span
\* leaves.)
IngestRaises ==
    /\ DbErrors
    /\ \/ drain = "trace stored"
       \/ /\ drain = "flushing"
          /\ batch # <<>>
          /\ Head(batch) \notin Contextless \cup Malformed
    /\ drain' = "dead"
    /\ UNCHANGED <<queues, busVars, publisher, batch, final, rows, phase, finished,
                   abandoned>>

\* create() commits the span and then reads it back: an exception of the refresh ends the
\* thread with the row stored and its event still at the head of the batch.
RefreshRaises ==
    /\ DbErrors
    /\ drain = "trace stored"
    /\ spans' = spans \cup {Head(batch)}
    /\ drain' = "dead"
    /\ UNCHANGED <<queues, busVars, publisher, batch, final, traces, skipped, failed, phase,
                   finished, abandoned>>

FlushEnds ==
    /\ drain = "flushing"
    /\ batch = <<>>
    /\ drain' = IF final THEN "ended" ELSE "polling"
    /\ UNCHANGED <<queues, busVars, publisher, batch, final, rows, phase, finished,
                   abandoned>>

Drain == DrainPoll \/ DrainStop \/ DrainRest \/ Discard \/ StoreTrace \/ StoreSpan
            \/ IngestRaises \/ RefreshRaises \/ FlushEnds

-----------------------------------------------------------------------------
(* The lifespan: an AsyncExitStack leaves the three contexts in the reverse *)
(* order of their entry, each by stop() and then join().                    *)

StopServing ==
    /\ phase = "serving"
    /\ phase' = "publisher"
    /\ UNCHANGED <<queues, busVars, publisher, worker, rows, finished, abandoned>>

\* The join of the publisher returns after at most five seconds.
PublisherJoined ==
    /\ phase = "publisher"
    /\ publisher = "ended" \/ (SlowSweeps /\ publisher = "sweeping")
    /\ abandoned' = (publisher # "ended")
    /\ phase' = "bus"
    /\ UNCHANGED <<queues, busVars, publisher, worker, rows, finished>>

\* Mutant of BusJoined: the lifespan waits for the end of run_forever(), which a
\* dispatch thread that died never reaches.
BusFinished ==
    /\ phase = "bus"
    /\ bus = "ended"
    /\ phase' = "drain"
    /\ UNCHANGED <<queues, busVars, publisher, worker, rows, finished, abandoned>>

BusJoined ==
    /\ phase = "bus"
    /\ bus \in {"ended", "dead"}
    /\ phase' = "drain"
    /\ UNCHANGED <<queues, busVars, publisher, worker, rows, finished, abandoned>>

DrainJoined ==
    /\ phase = "drain"
    /\ drain \in {"ended", "dead"}
    /\ phase' = "down"
    /\ UNCHANGED <<queues, busVars, publisher, worker, rows, finished, abandoned>>

Shutdown == PublisherJoined \/ BusJoined \/ DrainJoined

\* The threads are gone and so is the process.
Terminated ==
    /\ phase = "down"
    /\ publisher = "ended"
    /\ UNCHANGED vars

-----------------------------------------------------------------------------
Next == Request \/ Subscribe \/ Bus \/ Publisher \/ Drain \/ WindowElapsed
            \/ StopServing \/ Shutdown \/ Terminated

Spec == Init /\ [][Next]_vars

\* The threads run, callbacks and sweeps return, the window elapses.  Nobody has to
\* send a request or stop the server.
Fairness ==
    /\ WF_vars(Bus)
    /\ WF_vars(Publisher)
    /\ WF_vars(Drain)
    /\ WF_vars(WindowElapsed)
    /\ WF_vars(Shutdown)

LiveSpec == Spec /\ Fairness

-----------------------------------------------------------------------------
(* Properties.                                                              *)

\* No telemetry event is lost track of.  One that was put was dropped by a full queue, waits
\* in a queue or in the worker's batch, or is stored or counted, in one way only; one that
\* left the batch is stored or counted, and of the others only the span that a refresh
\* raised about may be; and a worker that ends leaves nothing in its batch, so that only a
\* thread that died takes events with it.
Accounted ==
    LET written == spans \cup skipped \cup failed
        done == ToSet(finished["trace"]) \cup ToSet(finished["snapshot"])
        waiting == ToSet(queue["trace"]) \cup ToSet(queue["snapshot"]) \cup ToSet(batch)
    IN
    /\ \A e \in Telemetry : WasPut(e) => e \in dropped \cup waiting \cup written
    /\ done \subseteq written
    /\ \A e \in written \ done : drain = "dead" /\ e = Head(batch) /\ e \in spans
    /\ spans \cap (skipped \cup failed) = {}
    /\ skipped \cap failed = {}
    /\ drain = "ended" => batch = <<>>

\* A span row never lacks its trace row; and a trace row without a span row is what
\* a thread that died, or is about to write it, between its two commits leaves.
TracesHaveSpans ==
    /\ {TraceId(e) : e \in spans} \subseteq traces
    /\ \A t \in traces \ {TraceId(e) : e \in spans} :
          /\ drain \in {"trace stored", "dead"}
          /\ t = TraceId(Head(batch))

\* A domain event reaches its callbacks in the order of their registration, none
\* twice; when its dispatch is over, all that were registered at the start had it.
DeliveredInOrder ==
    \A d \in Published :
        LET ch == DomainChannelOf[d] IN
        /\ IsPrefix(delivered[d], subscribers[ch])
        /\ d \in ToSet(finished[ch]) => IsPrefix(Registered[ch], delivered[d])

\* The shutdown is not held up for ever by a queue, a thread that died or a sweep.
ShutdownCompletes == (phase = "publisher") ~> (phase = "down")

\* The channels whose accepted events nobody will finish: the drain worker or the
\* dispatch thread has died, a channel had no subscriber when the bus started, or the
\* publisher was given up on and may still put its trace.
Lost ==
    (IF drain = "dead" THEN ToSet(Drained) ELSE {})
        \cup (IF abandoned THEN {"trace"} ELSE {})
        \cup (IF bus = "dead" THEN DomainChannels ELSE {})
        \cup (DomainChannels \ ToSet(Polled))

Promise == INSTANCE OrderedDelivery WITH sent <- accepted, lost <- Lost

\* On every channel the accepted events are finished in order and once each, and all
\* of them also when the server is stopped, unless the channel is Lost: the stops are
\* ordered so that what a thread emits while it is stopped still finds its consumer.
ImplementsOrderedDelivery == Promise!FairSpec
=============================================================================
