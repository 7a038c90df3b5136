---------------------------- MODULE WorkerLease ----------------------------
(***************************************************************************)
(* The durable event queue in events.db (nanobar_api/eventbus/store.py) and *)
(* the workers that claim events from it, process them and acknowledge or   *)
(* fail them (nanobar_api/workers.py).  Workers are separate processes that *)
(* share nothing but the database; one action is one committed statement or *)
(* transaction, or one call of user code, so that everything that can       *)
(* happen between two of them can happen here: another worker's statement,  *)
(* the passing of a second, the death of the process.                       *)
(*                                                                          *)
(* Time.  The database stores lease_expires_at and last_heartbeat_at as     *)
(* whole seconds and only ever compares them with the current second.  The  *)
(* model keeps the distance to the current second instead (lease, age), so  *)
(* that Tick, the passing of one second, needs no bound on the clock.       *)
(***************************************************************************)
EXTENDS Integers, FiniteSets, Sequences

CONSTANTS
    Workers, Events, Channels,
    ChannelOf,     \* events.channel of each event
    RecordedAt,    \* events.recorded_at_ns of each event; equal stamps are possible
    Subscribed,    \* WorkerConfig.channels of each worker, a sequence
    OptIn,         \* workers given a dynamic_taxonomy_conn and expected_scenarios
    Restarted,     \* workers that something starts again whenever they are down
    ClaimLimit, LeaseSeconds,
    StaleAfter,    \* the staleness_seconds a monitor passes to list_stale_workers()
    Poison,        \* the events whose process() raises every time
    Timely,        \* TRUE: a live worker finishes its whole batch within the lease
    MaxAttempts,   \* bound: the failure counters saturate here
    MaxCrashes,    \* bound: how many times a worker process may die
    None           \* SQL NULL in claimed_by, Python's "no event"

ASSUME WorkerLeaseAssumption ==
    /\ ChannelOf \in [Events -> Channels]
    /\ RecordedAt \in [Events -> Int]
    /\ Subscribed \in [Workers -> Seq(Channels)]
    /\ OptIn \subseteq Workers
    /\ Restarted \subseteq Workers
    /\ Poison \subseteq Events
    /\ ClaimLimit \in Nat
    /\ LeaseSeconds \in Nat
    /\ StaleAfter \in Nat
    /\ MaxAttempts \in Nat
    /\ MaxCrashes \in Nat
    /\ Timely \in BOOLEAN
    /\ None \notin Workers
    /\ None \notin Events

VARIABLES
    (* the tables of events.db *)
    stored,     \* the events that have a row
    processed,  \* the rows whose processed_at is set
    claimedBy,  \* claimed_by
    lease,      \* lease_expires_at minus the current second; Expired once it is past
    attempts,   \* attempt_count
    logRows,    \* rows of worker_log, per event
    age,        \* the current second minus last_heartbeat_at; Unregistered: no row
    (* other files *)
    logFile,    \* lines of the append-only failure log, per event
    entries,    \* channels with a ("worker", channel) entry in the dynamic taxonomy
    (* the memory of each worker process *)
    pc, todo, batch, current,
    (* what a correctness statement needs to know beyond that *)
    performed,  \* the events some process() call has completed for
    crashes

table  == <<stored, processed, claimedBy, lease, attempts, logRows, age>>
memory == <<pc, todo, batch, current>>
vars   == <<table, logFile, entries, memory, performed, crashes>>

Expired      == -1
Unregistered == -1

\* Where a worker is: not running, asleep between two run_once() calls, in the
\* loops of run_once(), or at one of the calls of _process_one().
PC == {"down", "idle", "polling", "processing", "acking", "raised", "failing",
       "logFile", "logRow"}

TypeOK ==
    /\ stored \in SUBSET Events
    /\ processed \in SUBSET Events
    /\ claimedBy \in [Events -> Workers \cup {None}]
    /\ lease \in [Events -> Expired..LeaseSeconds]
    /\ attempts \in [Events -> 0..MaxAttempts]
    /\ logRows \in [Events -> 0..MaxAttempts]
    /\ age \in [Workers -> Unregistered..(StaleAfter + 1)]
    /\ logFile \in [Events -> 0..MaxAttempts]
    /\ entries \in SUBSET Channels
    /\ pc \in [Workers -> PC]
    /\ todo \in [Workers -> Seq(Channels)]
    /\ batch \in [Workers -> SUBSET Events]
    /\ current \in [Workers -> Events \cup {None}]
    /\ performed \in SUBSET Events
    /\ crashes \in 0..MaxCrashes

Init ==
    /\ stored = {}
    /\ processed = {}
    /\ claimedBy = [e \in Events |-> None]
    /\ lease = [e \in Events |-> Expired]
    /\ attempts = [e \in Events |-> 0]
    /\ logRows = [e \in Events |-> 0]
    /\ age = [w \in Workers |-> Unregistered]
    /\ logFile = [e \in Events |-> 0]
    /\ entries = {}
    /\ pc = [w \in Workers |-> "idle"]
    /\ todo = [w \in Workers |-> <<>>]
    /\ batch = [w \in Workers |-> {}]
    /\ current = [w \in Workers |-> None]
    /\ performed = {}
    /\ crashes = 0

-----------------------------------------------------------------------------
(* The store.                                                               *)

Bump(n) == IF n < MaxAttempts THEN n + 1 ELSE n

\* A producer's insert_events() commits a batch of new rows.  Rows are stamped
\* when the event is emitted, so one may become visible after a younger one.
Insert ==
    /\ \E new \in (SUBSET (Events \ stored)) \ {{}} : stored' = stored \cup new
    /\ UNCHANGED <<processed, claimedBy, lease, attempts, logRows, age,
                   logFile, entries, memory, performed, crashes>>

\* Mutants of Claimable: a lease taken to be over in its last second; the test of
\* processed_at forgotten; the expiry clause forgotten.
ClaimableTooEarly(ch) ==
    {e \in stored \ processed : ChannelOf[e] = ch /\ (claimedBy[e] = None \/ lease[e] <= 0)}
ClaimableProcessed(ch) ==
    {e \in stored : ChannelOf[e] = ch /\ (claimedBy[e] = None \/ lease[e] < 0)}
ClaimableOnce(ch) ==
    {e \in stored \ processed : ChannelOf[e] = ch /\ claimedBy[e] = None}

\* The WHERE clause of claim_events(): the comparison with the current second
\* is strict, so a lease that ends this second still holds.
Claimable(ch) ==
    {e \in stored \ processed :
        /\ ChannelOf[e] = ch
        /\ claimedBy[e] = None \/ lease[e] < 0}

\* ORDER BY recorded_at_ns LIMIT: which S of the candidates are selected.
IsOldest(S, candidates) ==
    /\ IF Cardinality(candidates) <= ClaimLimit
       THEN S = candidates
       ELSE Cardinality(S) = ClaimLimit
    /\ \A e \in S, f \in candidates \ S : RecordedAt[e] <= RecordedAt[f]

Release(e) ==
    /\ claimedBy' = [claimedBy EXCEPT ![e] = None]
    /\ lease' = [lease EXCEPT ![e] = Expired]

-----------------------------------------------------------------------------
(* A worker.                                                                *)

Goto(w, label) == pc' = [pc EXCEPT ![w] = label]

\* run_once() begins: register_worker() upserts the row of the liveness ledger.
RunOnce(w) ==
    /\ pc[w] = "idle"
    /\ Goto(w, "polling")
    /\ todo' = [todo EXCEPT ![w] = Subscribed[w]]
    /\ age' = [age EXCEPT ![w] = 0]
    /\ UNCHANGED <<stored, processed, claimedBy, lease, attempts, logRows,
                   logFile, entries, batch, current, performed, crashes>>

\* Mutant of Claim: the expiry is rounded up, to make up for the part of a second that
\* datetime('now') cuts off, and the claim outlasts its lease_seconds.
ClaimRoundedUp(w) ==
    /\ pc[w] = "polling"
    /\ batch[w] = {}
    /\ todo[w] # <<>>
    /\ \E S \in SUBSET Claimable(Head(todo[w])) :
        /\ IsOldest(S, Claimable(Head(todo[w])))
        /\ batch' = [batch EXCEPT ![w] = S]
        /\ claimedBy' = [e \in Events |-> IF e \in S THEN w ELSE claimedBy[e]]
        /\ lease' = [e \in Events |-> IF e \in S THEN LeaseSeconds + 1 ELSE lease[e]]
    /\ todo' = [todo EXCEPT ![w] = Tail(@)]
    /\ UNCHANGED <<stored, processed, attempts, logRows, age, logFile, entries,
                   pc, current, performed, crashes>>

\* claim_events() on the next channel: one BEGIN IMMEDIATE transaction.  Every
\* event of the batch gets its whole lease now, however late its turn comes.
Claim(w) ==
    /\ pc[w] = "polling"
    /\ batch[w] = {}
    /\ todo[w] # <<>>
    /\ \E S \in SUBSET Claimable(Head(todo[w])) :
        /\ IsOldest(S, Claimable(Head(todo[w])))
        /\ batch' = [batch EXCEPT ![w] = S]
        /\ claimedBy' = [e \in Events |-> IF e \in S THEN w ELSE claimedBy[e]]
        /\ lease' = [e \in Events |-> IF e \in S THEN LeaseSeconds ELSE lease[e]]
    /\ todo' = [todo EXCEPT ![w] = Tail(@)]
    /\ UNCHANGED <<stored, processed, attempts, logRows, age, logFile, entries,
                   pc, current, performed, crashes>>

\* _process_one() on the next event of the batch: the dynamic taxonomy entry is
\* ensured, then process() is called.
Start(w) ==
    /\ pc[w] = "polling"
    /\ \E e \in batch[w] :
        /\ \A f \in batch[w] : RecordedAt[e] <= RecordedAt[f]
        /\ batch' = [batch EXCEPT ![w] = @ \ {e}]
        /\ current' = [current EXCEPT ![w] = e]
        /\ entries' = entries \cup (IF w \in OptIn THEN {ChannelOf[e]} ELSE {})
    /\ Goto(w, "processing")
    /\ UNCHANGED <<table, logFile, todo, performed, crashes>>

\* process() returns; its effect is idempotent by contract, hence a set.
Succeed(w) ==
    /\ pc[w] = "processing"
    /\ current[w] \notin Poison
    /\ performed' = performed \cup {current[w]}
    /\ Goto(w, "acking")
    /\ UNCHANGED <<table, logFile, entries, todo, batch, current, crashes>>

\* Mutant of Raise: the exception is swallowed and the event acknowledged.
RaiseSwallowed(w) ==
    /\ pc[w] = "processing"
    /\ Goto(w, "acking")
    /\ UNCHANGED <<table, logFile, entries, todo, batch, current, performed, crashes>>

\* process() raises an Exception: transiently, or always for a poison event.
Raise(w) ==
    /\ pc[w] = "processing"
    /\ Goto(w, "raised")
    /\ UNCHANGED <<table, logFile, entries, todo, batch, current, performed, crashes>>

\* compensate() returns.  (One that raises takes run_once() down: see Die.)
Compensate(w) ==
    /\ pc[w] = "raised"
    /\ Goto(w, "failing")
    /\ UNCHANGED <<table, logFile, entries, todo, batch, current, performed, crashes>>

\* Mutant of Fail: the attempt is not counted.
FailUncounted(w) ==
    /\ pc[w] = "failing"
    /\ Release(current[w])
    /\ Goto(w, "logFile")
    /\ UNCHANGED <<stored, processed, attempts, logRows, age, logFile, entries,
                   todo, batch, current, performed, crashes>>

\* fail_event() addresses the row by event_id alone: whoever holds the claim by
\* now loses it, and a row that has been processed meanwhile is touched too.
Fail(w) ==
    /\ pc[w] = "failing"
    /\ attempts' = [attempts EXCEPT ![current[w]] = Bump(@)]
    /\ Release(current[w])
    /\ Goto(w, "logFile")
    /\ UNCHANGED <<stored, processed, logRows, age, logFile, entries,
                   todo, batch, current, performed, crashes>>

\* The first sink of log_worker_failure(): a line in the append-only file.
LogToFile(w) ==
    /\ pc[w] = "logFile"
    /\ logFile' = [logFile EXCEPT ![current[w]] = Bump(@)]
    /\ Goto(w, "logRow")
    /\ UNCHANGED <<table, entries, todo, batch, current, performed, crashes>>

\* The second sink: a worker_log row; _process_one() returns.
LogToTable(w) ==
    /\ pc[w] = "logRow"
    /\ logRows' = [logRows EXCEPT ![current[w]] = Bump(@)]
    /\ current' = [current EXCEPT ![w] = None]
    /\ Goto(w, "polling")
    /\ UNCHANGED <<stored, processed, claimedBy, lease, attempts, age, logFile,
                   entries, todo, batch, performed, crashes>>

\* ack_event(), also by event_id alone; _process_one() returns.
Ack(w) ==
    /\ pc[w] = "acking"
    /\ processed' = processed \cup {current[w]}
    /\ Release(current[w])
    /\ current' = [current EXCEPT ![w] = None]
    /\ Goto(w, "polling")
    /\ UNCHANGED <<stored, attempts, logRows, age, logFile, entries, todo, batch,
                   performed, crashes>>

\* All channels done: heartbeat(), and run_once() returns.
Heartbeat(w) ==
    /\ pc[w] = "polling"
    /\ batch[w] = {}
    /\ todo[w] = <<>>
    /\ age' = [age EXCEPT ![w] = 0]
    /\ Goto(w, "idle")
    /\ UNCHANGED <<stored, processed, claimedBy, lease, attempts, logRows,
                   logFile, entries, todo, batch, current, performed, crashes>>

\* The process is killed, or an exception leaves run_once(): one of compensate(),
\* of the taxonomy call, or of a statement that found the database locked.
Die(w) ==
    /\ pc[w] # "down"
    /\ crashes < MaxCrashes
    /\ crashes' = crashes + 1
    /\ Goto(w, "down")
    /\ todo' = [todo EXCEPT ![w] = <<>>]
    /\ batch' = [batch EXCEPT ![w] = {}]
    /\ current' = [current EXCEPT ![w] = None]
    /\ UNCHANGED <<table, logFile, entries, performed>>

\* The supervisor or the external scheduler starts the worker again, same id.
Restart(w) ==
    /\ pc[w] = "down"
    /\ Goto(w, "idle")
    /\ UNCHANGED <<table, logFile, entries, todo, batch, current, performed, crashes>>

-----------------------------------------------------------------------------
(* Time.                                                                    *)

\* The events w still means to acknowledge or fail.
Holding(w) ==
    batch[w] \cup (IF pc[w] \in {"processing", "acking", "raised", "failing"}
                   THEN {current[w]} ELSE {})

\* One second passes.  Under Timely it cannot be the one in which a lease that a
\* live worker still needs runs out: lease_seconds covers the whole batch.
Tick ==
    /\ Timely => \A w \in Workers : \A e \in Holding(w) : lease[e] > 0
    /\ lease' = [e \in Events |-> IF lease[e] > Expired THEN lease[e] - 1 ELSE Expired]
    /\ age' = [w \in Workers |-> IF age[w] = Unregistered \/ age[w] > StaleAfter
                                 THEN age[w] ELSE age[w] + 1]
    /\ UNCHANGED <<stored, processed, claimedBy, attempts, logRows, logFile,
                   entries, memory, performed, crashes>>

-----------------------------------------------------------------------------
Step(w) ==
    \/ RunOnce(w) \/ Claim(w) \/ Start(w)
    \/ Succeed(w) \/ Ack(w)
    \/ Raise(w) \/ Compensate(w) \/ Fail(w) \/ LogToFile(w) \/ LogToTable(w)
    \/ Heartbeat(w)

Next ==
    \/ Insert
    \/ Tick
    \/ \E w \in Workers : Step(w) \/ Die(w) \/ Restart(w)

Spec == Init /\ [][Next]_vars

\* A running worker keeps running, a Restarted one does not stay dead, seconds pass,
\* and a process() call that can succeed does not fail for ever.
Fairness ==
    /\ WF_vars(Tick)
    /\ \A w \in Workers : WF_vars(Step(w)) /\ SF_vars(Succeed(w))
    /\ \A w \in Restarted : WF_vars(Restart(w))

LiveSpec == Spec /\ Fairness

-----------------------------------------------------------------------------
(* Properties.                                                              *)

\* While every lease outlasts the batch it was given to, no event is in the hands
\* of two workers: the claim in claim_events() and the lease together exclude.
Exclusive ==
    \A v, w \in Workers : v # w => Holding(v) \cap Holding(w) = {}

\* A worker that holds an event is the one its row names, with a lease that has
\* not run out, and the row is not processed yet.
HolderOwnsClaim ==
    \A w \in Workers : \A e \in Holding(w) :
        claimedBy[e] = w /\ lease[e] >= 0 /\ e \notin processed

\* Once processed_at is set, nobody claims, fails or reopens that row again.
ProcessedRowFrozen ==
    [][\A e \in processed :
          /\ e \in processed'
          /\ claimedBy'[e] = claimedBy[e]
          /\ attempts'[e] = attempts[e]]_vars

\* A claim whose lease has not run out changes only by the acknowledgement or the
\* failure of the worker it names: not by another worker's claim, nor by a late
\* ack_event() or fail_event() of a worker that had the event before.
UnexpiredClaimKept ==
    [][\A w \in Workers, e \in Events :
          (claimedBy[e] = w /\ lease[e] >= 0 /\ claimedBy'[e] # w) =>
              /\ pc[w] \in {"acking", "failing"}
              /\ current[w] = e
              /\ pc'[w] # pc[w]]_vars

\* A failure is counted before it is logged, and logged to the file before it is
\* logged to the table, whoever dies in between (log_worker_failure()).
CountedBeforeLogged ==
    \A e \in Events : logRows[e] <= logFile[e] /\ logFile[e] <= attempts[e]

\* Mutant of Stale: the comparison the wrong way round.
StaleInverted(w) == age[w] # Unregistered /\ age[w] < StaleAfter

\* The WHERE clause of list_stale_workers().
Stale(w) == age[w] > StaleAfter

\* The ledger's promise: a worker that registered and then stays dead is
\* eventually among list_stale_workers().
DeadWorkerNoticed ==
    \A w \in Workers :
        (pc[w] = "down" /\ age[w] # Unregistered) ~> (Stale(w) \/ pc[w] # "down")

\* What store.py says of claims: row-level lease claiming prevents double
\* processing on its own, that is, whatever the leases and however long process()
\* takes.
NoDoubleProcessing ==
    \A v, w \in Workers :
        (v # w /\ pc[v] = "processing" /\ pc[w] = "processing") => current[v] # current[w]

-----------------------------------------------------------------------------
(* The store and its workers deliver what AtLeastOnce promises.             *)

Contract == INSTANCE AtLeastOnce WITH completed <- processed

\* Safety for every timing: an event is acknowledged only after some process()
\* call for it returned, and an acknowledgement or an effect is never undone.
ImplementsAtLeastOnce == Contract!Spec

\* Liveness: with fewer poison events than claim_limit, every stored event that can
\* be processed is processed, through crashes, transient failures and retries, as
\* long as one of the workers of its channel is started again when it dies.
DeliversAtLeastOnce == Contract!FairSpec
=============================================================================
