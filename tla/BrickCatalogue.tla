-------------------------- MODULE BrickCatalogue --------------------------
(***************************************************************************)
(* From captured spans to regression-bricks and nanobars.  Processes run    *)
(* three jobs against two databases: "generate" (the dashboard's button and *)
(* examples/generate_dashboard_bricks.py), "refresh" (the reconciliation    *)
(* with the route manifest) and "update" (PATCH of one nanobar).  The drain *)
(* worker adds spans meanwhile.  Every transaction on regression_bricks.db  *)
(* opens with BEGIN IMMEDIATE, a plain read included, so it holds the write *)
(* lock until its commit; a statement that waits five seconds for the lock  *)
(* raises and ends its job.  nanobar_api_telemetry.db has no such rule.     *)
(***************************************************************************)
EXTENDS Naturals, FiniteSets, Sequences, SequencesExt

CONSTANTS
    Procs,       \* the server (one job at a time on its event loop) and the scripts
    Jobs,        \* per process, the jobs it may run
    Spans,       \* captures on the "snapshot" channel
    TraceOf,     \* their trace
    RecordedAt,  \* their recorded_at_ns
    HashOf,      \* the content_hash of their request and response
    KeyOf,       \* their <<nanobar_type, route_key>>, or None when one is not stamped
    Malformed,   \* spans whose payload has not the snapshot shape
    Manifest,    \* the route keys of nanobar.api-routes.json
    Fields,      \* the columns it corrects, domain and app_box
    WithManifest,  \* the processes that were given the manifest when generating
    Criticalities, DefaultCriticality,
    Limit,       \* the scan's batch limit
    Early,       \* spans stored before the model begins; the others come meanwhile
    Known,       \* keys of the nanobars there are when the model begins
    MaxJobs,     \* bound of the model: how many jobs are started
    MaxCrashes,  \* bound of the model: how many of them are killed
    None

Unclassified == "unclassified"

ASSUME BrickCatalogueAssumption ==
    /\ Jobs \in [Procs -> SUBSET {"generate", "refresh", "update"}]
    /\ IsFiniteSet(Spans)
    /\ DOMAIN TraceOf = Spans
    /\ DOMAIN HashOf = Spans
    /\ RecordedAt \in [Spans -> Nat]
    /\ \A s, t \in Spans : RecordedAt[s] = RecordedAt[t] => s = t
    /\ \A s \in Spans : KeyOf[s] # None => Len(KeyOf[s]) = 2 /\ KeyOf[s][1] # Unclassified
    /\ Malformed \subseteq Spans
    /\ WithManifest \subseteq Procs
    /\ DefaultCriticality \in Criticalities
    /\ Limit \in Nat \ {0}
    /\ Early \subseteq Spans
    /\ Known \in Seq(ToSet(Known)) /\ IsInjective(Known)
    /\ {MaxJobs, MaxCrashes} \subseteq Nat
    /\ None \notin Procs

VARIABLES
    (* nanobar_api_telemetry.db *)
    stored, processed,  \* the spans; those with processed_at set
    (* regression_bricks.db *)
    bricks,       \* the brick rows, each named by the span it was made from
    nanobars,     \* the nanobar rows, in the order of creation: their keys
    bound,        \* nanobar_regression_bricks: pairs <<row, brick>>
    criticality,  \* per row
    weight,       \* per row, what its regression_weight was computed from
    filed,        \* per row, which of domain and app_box agree with the manifest
    lock,         \* the process that holds the database's write lock
    (* processes *)
    job,          \* per process, where its job is and that job's local variables
    (* history *)
    started, crashes, orphans, forgotten

telemetry == <<stored, processed>>
rowVars   == <<nanobars, criticality, weight, filed>>
catalogue == <<bricks, bound, rowVars>>
failures  == <<crashes, orphans, forgotten>>
history   == <<started, failures>>
vars      == <<telemetry, catalogue, lock, job, history>>

Rows == DOMAIN nanobars
NanobarKeys ==
    {KeyOf[s] : s \in Spans} \cup {<<Unclassified, r>> : r \in Manifest} \cup ToSet(Known)
BoundTo(r) == {b \in bricks : <<r, b>> \in bound}

Unmeasured == <<"unmeasured">>
\* What compute_regression_weight() makes a weight from; a type that the taxonomy
\* does not know keeps the weight it has.
Measure(r) ==
    IF nanobars[r][1] = Unclassified THEN weight[r] ELSE <<BoundTo(r), criticality[r]>>

Idle == [at |-> "idle", backlog |-> {}, more |-> FALSE, traces |-> <<>>, spans |-> <<>>,
         attempted |-> {}, fresh |-> {}, brick |-> None, key |-> None, row |-> 0,
         touched |-> {}, seen |-> Unmeasured, routes |-> {}, listed |-> {}]

Places == {"idle", "look", "select", "scan", "create", "created", "collect", "bind",
           "naming", "named", "binding", "bound", "weigh",
           "cover", "placeholder", "covered", "file", "patch", "patched"}

TypeOK ==
    /\ stored \subseteq Spans
    /\ processed \subseteq stored
    /\ bricks \subseteq stored
    /\ nanobars \in Seq(NanobarKeys)
    /\ bound \subseteq Rows \X bricks
    /\ criticality \in [Rows -> Criticalities]
    /\ weight \in [Rows -> {Unmeasured} \cup ((SUBSET bricks) \X Criticalities)]
    /\ filed \in [Rows -> SUBSET Fields]
    /\ lock \in Procs \cup {None}
    /\ DOMAIN job = Procs
    /\ \A p \in Procs :
        /\ DOMAIN job[p] = DOMAIN Idle
        /\ job[p].at \in Places
        /\ job[p].fresh \subseteq bricks
        /\ job[p].touched \cup job[p].listed \subseteq Rows
        /\ ToSet(job[p].spans) \cup job[p].attempted \subseteq stored
    /\ started \in 0..MaxJobs /\ crashes \in 0..MaxCrashes
    /\ orphans \subseteq bricks
    /\ forgotten \subseteq Rows

Init ==
    /\ stored = Early
    /\ processed = {}
    /\ bricks = {}
    /\ nanobars = Known
    /\ bound = {}
    /\ criticality = [r \in Rows |-> DefaultCriticality]
    /\ weight = [r \in Rows |-> Unmeasured]
    /\ filed = [r \in Rows |-> {}]
    /\ lock = None
    /\ job = [p \in Procs |-> Idle]
    /\ started = 0
    /\ crashes = 0
    /\ orphans = {}
    /\ forgotten = {}

-----------------------------------------------------------------------------
(* Transactions and jobs.                                                   *)

Free(p) == lock \in {None, p}

\* Mutant of Begin: SQLite's deferred BEGIN, with which a read claims nothing.
BeginDeferred(p) == Free(p) /\ UNCHANGED lock

\* A statement: it opens a transaction if none is open, and leaves it open.
Begin(p) == Free(p) /\ lock' = p

\* A commit, or the close of the session.
Release(p) == Free(p) /\ lock' = None

At(p, place) == job[p].at = place
Step(p, next) == job' = [job EXCEPT ![p] = next]
Start(p, kind) ==
    /\ At(p, "idle") /\ kind \in Jobs[p]
    /\ started < MaxJobs
    /\ started' = started + 1

\* A commit expires the rows of the session, and the next use of one reads it again,
\* in a new transaction: session.refresh() after an insert, and the nanobar_id that
\* bind_brick() passes to invalidate().
Reload(p) ==
    /\ \E next \in {<<"created", "scan">>, <<"named", "binding">>, <<"bound", "bind">>,
                    <<"covered", "cover">>, <<"patched", "bind">>} :
          At(p, next[1]) /\ Step(p, [job[p] EXCEPT !.at = next[2]])
    /\ Begin(p)
    /\ UNCHANGED <<telemetry, catalogue, history>>

\* The drain worker stores one more span.
Ingest(s) ==
    /\ s \notin stored
    /\ stored' = stored \cup {s}
    /\ UNCHANGED <<processed, catalogue, lock, job, history>>

-----------------------------------------------------------------------------
(* Generating: the scan.                                                    *)

Unprocessed == stored \ processed
Earlier(s, t) == RecordedAt[s] < RecordedAt[t]
Rank(S, s) == Cardinality({t \in S : Earlier(t, s)}) + 1
Oldest(S) == [i \in 1..Min({Cardinality(S), Limit}) |-> CHOOSE s \in S : Rank(S, s) = i]

\* The first unprocessed span of each trace, and with them the traces of a batch.
Heads == {s \in Unprocessed : \A t \in Unprocessed : TraceOf[t] = TraceOf[s] => ~Earlier(t, s)}
Candidates == LET heads == Oldest(Heads) IN [i \in DOMAIN heads |-> TraceOf[heads[i]]]

StartGenerate(p) ==
    /\ Start(p, "generate")
    /\ Step(p, [job[p] EXCEPT !.at = "look", !.backlog = Unprocessed])
    /\ UNCHANGED <<telemetry, catalogue, lock, failures>>

\* get_many() asks nothing when the scan made no brick.
Scanned(p) == IF job[p].fresh = {} THEN "bind" ELSE "collect"

\* Mutant of Look: one batch and no more.
LookOnce(p) ==
    /\ At(p, "look")
    /\ Step(p, IF Candidates = <<>> THEN [job[p] EXCEPT !.at = Scanned(p), !.more = FALSE]
               ELSE [job[p] EXCEPT !.at = "select", !.more = FALSE])
    /\ UNCHANGED <<telemetry, catalogue, lock, history>>

Look(p) ==
    /\ At(p, "look")
    /\ Step(p, IF Candidates = <<>> THEN [job[p] EXCEPT !.at = Scanned(p), !.more = FALSE]
               ELSE [job[p] EXCEPT !.at = "select", !.more = Len(Candidates) >= Limit])
    /\ UNCHANGED <<telemetry, catalogue, lock, history>>

\* Mutant of Select: the list of new bricks is that of the last batch.
SelectForgetting(p) ==
    /\ At(p, "select")
    /\ Step(p, [job[p] EXCEPT !.at = "scan", !.traces = Candidates, !.fresh = {}])
    /\ UNCHANGED <<telemetry, catalogue, lock, history>>

\* generate_bricks() lists the traces again, which may not be those Look saw.
Select(p) ==
    /\ At(p, "select")
    /\ Step(p, [job[p] EXCEPT !.at = "scan", !.traces = Candidates])
    /\ UNCHANGED <<telemetry, catalogue, lock, history>>

NextTrace(p) ==
    /\ At(p, "scan") /\ job[p].spans = <<>> /\ job[p].traces # <<>>
    /\ LET ofTrace == {s \in Unprocessed : TraceOf[s] = Head(job[p].traces)}
       IN  Step(p, [job[p] EXCEPT !.traces = Tail(@), !.spans = Oldest(ofTrace)])
    /\ UNCHANGED <<telemetry, catalogue, lock, history>>

\* The loop is done with the first of its spans.
Attempted(p, place) ==
    [job[p] EXCEPT !.at = place, !.spans = Tail(@), !.attempted = @ \cup {Head(job[p].spans)}]

SkipMalformed(p) ==
    /\ At(p, "scan") /\ job[p].spans # <<>> /\ Head(job[p].spans) \in Malformed
    /\ Step(p, Attempted(p, "scan"))
    /\ UNCHANGED <<telemetry, catalogue, lock, history>>

LookUpHash(p) ==
    /\ At(p, "scan") /\ job[p].spans # <<>> /\ Head(job[p].spans) \notin Malformed
    /\ Begin(p)
    /\ LET s == Head(job[p].spans)
       IN  Step(p, IF \E b \in bricks : HashOf[b] = HashOf[s]
                   THEN Attempted(p, "scan") ELSE [job[p] EXCEPT !.at = "create"])
    /\ UNCHANGED <<telemetry, catalogue, history>>

CreateBrick(p) ==
    /\ At(p, "create")
    /\ Release(p)
    /\ LET s == Head(job[p].spans)
       IN  /\ bricks' = bricks \cup {s}
           /\ Step(p, [Attempted(p, "created") EXCEPT !.fresh = @ \cup {s}])
    /\ UNCHANGED <<telemetry, bound, rowVars, history>>

\* Mutant of MarkProcessed: the update has no list of ids, only the channel.
MarkAll(p) ==
    /\ At(p, "scan") /\ job[p].spans = <<>> /\ job[p].traces = <<>>
    /\ processed' = stored
    /\ Step(p, [job[p] EXCEPT !.at = IF job[p].more THEN "look" ELSE Scanned(p),
                              !.attempted = {}])
    /\ UNCHANGED <<stored, catalogue, lock, history>>

\* Mutant of MarkProcessed: without its commit the update is rolled back.
MarkUncommitted(p) ==
    /\ At(p, "scan") /\ job[p].spans = <<>> /\ job[p].traces = <<>>
    /\ Step(p, [job[p] EXCEPT !.at = IF job[p].more THEN "look" ELSE Scanned(p),
                              !.attempted = {}])
    /\ UNCHANGED <<telemetry, catalogue, lock, history>>

\* The end of a batch, in the other database: the lock on this one, which the last
\* look-up or reload took, stays where it is.
MarkProcessed(p) ==
    /\ At(p, "scan") /\ job[p].spans = <<>> /\ job[p].traces = <<>>
    /\ processed' = processed \cup job[p].attempted
    /\ Step(p, [job[p] EXCEPT !.at = IF job[p].more THEN "look" ELSE Scanned(p),
                              !.attempted = {}])
    /\ UNCHANGED <<stored, catalogue, lock, history>>

Collect(p) ==
    /\ At(p, "collect")
    /\ Begin(p)
    /\ Step(p, [job[p] EXCEPT !.at = "bind"])
    /\ UNCHANGED <<telemetry, catalogue, history>>

-----------------------------------------------------------------------------
(* Generating: the binding.                                                 *)

SkipUnkeyed(p) ==
    /\ At(p, "bind")
    /\ \E b \in job[p].fresh :
          /\ KeyOf[b] = None
          /\ Step(p, [job[p] EXCEPT !.fresh = @ \ {b}])
    /\ UNCHANGED <<telemetry, catalogue, lock, history>>

\* The rows that this job has resolved are those it has touched.
Resolved(p, key) == {r \in job[p].touched : nanobars[r] = key}

TakeResolved(p) ==
    /\ At(p, "bind")
    /\ \E b \in job[p].fresh, r \in job[p].touched :
          /\ nanobars[r] = KeyOf[b]
          /\ Step(p, [job[p] EXCEPT !.at = "binding", !.brick = b, !.row = r])
    /\ UNCHANGED <<telemetry, catalogue, lock, history>>

FindNanobar(p) ==
    /\ At(p, "bind")
    /\ Begin(p)
    /\ \E b \in job[p].fresh :
          /\ KeyOf[b] # None /\ Resolved(p, KeyOf[b]) = {}
          /\ \/ \E r \in Rows : /\ nanobars[r] = KeyOf[b]
                                /\ Step(p, [job[p] EXCEPT !.at = "binding", !.brick = b, !.row = r])
             \/ /\ KeyOf[b] \notin ToSet(nanobars)
                /\ Step(p, [job[p] EXCEPT !.at = "naming", !.brick = b, !.key = KeyOf[b]])
    /\ UNCHANGED <<telemetry, catalogue, history>>

\* Mutant of InsertNanobar: the new row has no weight yet.
InsertUnweighed(key, known) ==
    /\ nanobars' = Append(nanobars, key)
    /\ criticality' = Append(criticality, DefaultCriticality)
    /\ filed' = Append(filed, IF known /\ key[2] \in Manifest THEN Fields ELSE {})
    /\ UNCHANGED weight

\* A new row; domain and app_box come from the manifest where the caller has it.
InsertNanobar(key, known) ==
    /\ nanobars' = Append(nanobars, key)
    /\ criticality' = Append(criticality, DefaultCriticality)
    /\ weight' = Append(weight, Unmeasured)
    /\ filed' = Append(filed, IF known /\ key[2] \in Manifest THEN Fields ELSE {})

CreateNanobar(p) ==
    /\ At(p, "naming")
    /\ Release(p)
    /\ InsertNanobar(job[p].key, p \in WithManifest)
    /\ Step(p, [job[p] EXCEPT !.at = "named", !.key = None, !.row = Len(nanobars) + 1])
    /\ UNCHANGED <<telemetry, bricks, bound, history>>

Bind(p) ==
    /\ At(p, "binding")
    /\ Release(p)
    /\ LET r == job[p].row  b == job[p].brick
       IN  /\ bound' = bound \cup {<<r, b>>}
           /\ Step(p, [job[p] EXCEPT !.at = "bound", !.row = 0, !.brick = None,
                       !.fresh = @ \ {b}, !.touched = @ \cup {r}])
    /\ UNCHANGED <<telemetry, bricks, rowVars, history>>

\* _recompute_weight() reads the row and its bricks, and writes in the same transaction.
ReadBound(p) ==
    /\ At(p, "bind") /\ job[p].fresh = {}
    /\ Begin(p)
    /\ \E r \in job[p].touched :
          Step(p, [job[p] EXCEPT !.at = "weigh", !.row = r, !.seen = Measure(r)])
    /\ UNCHANGED <<telemetry, catalogue, history>>

WriteWeight(p) ==
    /\ At(p, "weigh")
    /\ Release(p)
    /\ LET r == job[p].row
       IN  /\ weight' = [weight EXCEPT ![r] = job[p].seen]
           /\ forgotten' = forgotten \ {r}
           /\ Step(p, [job[p] EXCEPT !.at = "bind", !.row = 0, !.seen = Unmeasured,
                       !.touched = @ \ {r}])
    /\ UNCHANGED <<telemetry, bricks, bound, nanobars, criticality, filed, started, crashes,
                   orphans>>

\* The count of the result, or the row that an update answers with; then the session
\* is closed.
End(p) ==
    /\ At(p, "bind") /\ job[p].fresh = {} /\ job[p].touched = {}
    /\ Release(p)
    /\ Step(p, Idle)
    /\ UNCHANGED <<telemetry, catalogue, history>>

-----------------------------------------------------------------------------
(* Refreshing and updating.                                                 *)

StartRefresh(p) ==
    /\ Start(p, "refresh")
    /\ Begin(p)
    /\ Step(p, [job[p] EXCEPT !.at = "cover", !.routes = Manifest \ {nanobars[r][2] : r \in Rows}])
    /\ UNCHANGED <<telemetry, catalogue, failures>>

\* The next route that had no nanobar when the refresh began.
Cover(p) ==
    /\ At(p, "cover")
    /\ Begin(p)
    /\ \E route \in job[p].routes :
          LET key == <<Unclassified, route>>
              rest == [job[p] EXCEPT !.routes = @ \ {route}]
          IN  Step(p, IF key \in ToSet(nanobars) THEN rest
                      ELSE [rest EXCEPT !.at = "placeholder", !.key = key])
    /\ UNCHANGED <<telemetry, catalogue, history>>

CreatePlaceholder(p) ==
    /\ At(p, "placeholder")
    /\ Release(p)
    /\ InsertNanobar(job[p].key, TRUE)
    /\ Step(p, [job[p] EXCEPT !.at = "covered", !.key = None])
    /\ UNCHANGED <<telemetry, bricks, bound, history>>

ListNanobars(p) ==
    /\ At(p, "cover") /\ job[p].routes = {}
    /\ Begin(p)
    /\ Step(p, [job[p] EXCEPT !.at = "file", !.listed = {r \in Rows : nanobars[r][2] \in Manifest}])
    /\ UNCHANGED <<telemetry, catalogue, history>>

\* set_domain() and set_app_box(), each with its commit.
File(p) ==
    /\ At(p, "file")
    /\ \E r \in job[p].listed :
          \/ /\ filed[r] = Fields
             /\ Begin(p)
             /\ Step(p, [job[p] EXCEPT !.listed = @ \ {r}])
             /\ UNCHANGED filed
          \/ \E field \in Fields \ filed[r] :
             /\ Release(p)
             /\ filed' = [filed EXCEPT ![r] = @ \cup {field}]
             /\ UNCHANGED job
    /\ UNCHANGED <<telemetry, bricks, bound, nanobars, criticality, weight, history>>

EndRefresh(p) ==
    /\ At(p, "file") /\ job[p].listed = {}
    /\ Release(p)
    /\ Step(p, Idle)
    /\ UNCHANGED <<telemetry, catalogue, history>>

\* PATCH of one nanobar: the row is read, and what the request leaves out is kept.
StartUpdate(p) ==
    /\ Start(p, "update")
    /\ Begin(p)
    /\ \E r \in Rows : Step(p, [job[p] EXCEPT !.at = "patch", !.row = r])
    /\ UNCHANGED <<telemetry, catalogue, failures>>

\* Mutant of Patch: the weight is not computed again.
PatchOnly(p) ==
    /\ At(p, "patch")
    /\ Release(p)
    /\ \E c \in Criticalities, f \in SUBSET Fields :
          LET r == job[p].row
          IN  /\ criticality' = [criticality EXCEPT ![r] = c]
              /\ filed' = [filed EXCEPT ![r] = f]
              /\ Step(p, [job[p] EXCEPT !.at = "patched", !.row = 0])
    /\ UNCHANGED <<telemetry, bricks, bound, nanobars, weight, history>>

\* A change of criticality is followed by the computation of the weight.
Patch(p) ==
    /\ At(p, "patch")
    /\ Release(p)
    /\ \E c \in Criticalities, f \in SUBSET Fields :
          LET r == job[p].row
          IN  /\ criticality' = [criticality EXCEPT ![r] = c]
              /\ filed' = [filed EXCEPT ![r] = f]
              /\ Step(p, [job[p] EXCEPT !.at = "patched", !.row = 0,
                          !.touched = IF c = criticality[r] THEN {} ELSE {r}])
    /\ UNCHANGED <<telemetry, bricks, bound, nanobars, weight, history>>

-----------------------------------------------------------------------------
(* Failures: the job is gone, and with it what only its variables knew.     *)

Abandon(p) ==
    /\ lock' = IF lock = p THEN None ELSE lock
    /\ Step(p, Idle)
    /\ orphans' = orphans \cup job[p].fresh
    /\ forgotten' = forgotten \cup job[p].touched
    /\ UNCHANGED <<telemetry, catalogue, started>>

\* The process is killed, or a statement raises.
Crash(p) ==
    /\ ~At(p, "idle")
    /\ crashes < MaxCrashes
    /\ crashes' = crashes + 1
    /\ Abandon(p)

NeedsLock(p) ==
    \/ job[p].at \in {"created", "collect", "bind", "named", "bound", "covered", "cover",
                      "file", "patched"}
    \/ At(p, "scan") /\ job[p].spans # <<>> /\ Head(job[p].spans) \notin Malformed

\* "database is locked": the five seconds have passed.
LockTimeout(p) ==
    /\ ~Free(p) /\ NeedsLock(p)
    /\ Abandon(p)
    /\ UNCHANGED crashes

-----------------------------------------------------------------------------

Generate(p) ==
    \/ Look(p) \/ Select(p) \/ NextTrace(p) \/ SkipMalformed(p) \/ LookUpHash(p)
    \/ CreateBrick(p) \/ MarkProcessed(p) \/ Collect(p) \/ SkipUnkeyed(p)
    \/ TakeResolved(p) \/ FindNanobar(p) \/ CreateNanobar(p) \/ Bind(p)

Refresh(p) ==
    Cover(p) \/ CreatePlaceholder(p) \/ ListNanobars(p) \/ File(p) \/ EndRefresh(p)

Work(p) ==
    Generate(p) \/ Refresh(p) \/ Patch(p) \/ ReadBound(p) \/ WriteWeight(p) \/ End(p)
    \/ Reload(p) \/ LockTimeout(p)

\* The bound of the model is reached, and nobody calls any more.
Rest ==
    /\ started = MaxJobs /\ stored = Spans
    /\ \A p \in Procs : At(p, "idle")
    /\ UNCHANGED vars

Next ==
    \/ Rest
    \/ \E s \in Spans : Ingest(s)
    \/ \E p \in Procs :
          StartGenerate(p) \/ StartRefresh(p) \/ StartUpdate(p) \/ Work(p) \/ Crash(p)

Spec == Init /\ [][Next]_vars

\* A job goes on, waits for the lock, or gives up: nothing stops it for ever.
LiveSpec == Spec /\ \A p \in Procs : WF_vars(Work(p))

-----------------------------------------------------------------------------
(* Properties.                                                              *)

\* A nanobar is the one row of its (nanobar_type, route_key), although the table has no
\* such constraint: finding none and inserting are one transaction
\* (get_or_create_by_route_key).
NanobarsUnique == \A q, r \in Rows : nanobars[q] = nanobars[r] => q = r

\* A span is marked processed only when its evidence is in the other database, whatever
\* crash or second scan comes between brick and mark (generate_bricks).
EvidenceKept ==
    \A s \in processed \ Malformed : \E b \in bricks : HashOf[b] = HashOf[s]

\* Every brick that names its boundary is on its way to a nanobar or bound to exactly
\* one, that of its own key; only a job cut short may have lost it
\* (generate_dashboard_bricks, bind_new_bricks_to_nanobars).
BricksBound ==
    /\ \A r \in Rows, b \in bricks : <<r, b>> \in bound => nanobars[r] = KeyOf[b]
    /\ \A b \in bricks :
        \/ KeyOf[b] = None
        \/ b \in orphans
        \/ \E p \in Procs : b \in job[p].fresh
        \/ Cardinality({r \in Rows : <<r, b>> \in bound}) = 1

\* The weight of a nanobar is the one its bricks and its criticality give, unless a job
\* is about to compute it or was cut short before (_recompute_weight,
\* NanobarService.handle).
WeightsCurrent ==
    \A r \in Rows :
        \/ r \in forgotten
        \/ \E p \in Procs : r \in job[p].touched
        \/ weight[r] = Unmeasured /\ BoundTo(r) = {}
        \/ weight[r] = Measure(r)

\* A scan that comes to its end has processed the backlog it began with, except what a
\* trace holds beyond one batch (TelemetryScannerService.__call__).
Surplus(s) == Cardinality({t \in Spans : TraceOf[t] = TraceOf[s]}) > Limit
ScanDrains ==
    [][\A p \in Procs :
          job[p].at \in {"look", "scan"} /\ job'[p].at \in {"collect", "bind"}
          => \A s \in job[p].backlog : s \in processed' \/ Surplus(s)]_vars

\* Every job comes to its end: the scan's loop makes progress, and two jobs that want
\* the lock do not hold each other up (TelemetryScannerService, BEGIN IMMEDIATE).
JobsEnd == \A p \in Procs : ~At(p, "idle") ~> At(p, "idle")

\* What README.md:178-179 says of bind_new_bricks_to_nanobars(), and README.md:306-310
\* of the workflow: once every span is processed and no job runs, each boundary that
\* was captured has its nanobar.
BoundariesCatalogued ==
    (/\ processed = stored
     /\ \A p \in Procs : At(p, "idle")
     /\ orphans = {})
    => \A s \in stored \ Malformed : KeyOf[s] # None => KeyOf[s] \in ToSet(nanobars)
=============================================================================
