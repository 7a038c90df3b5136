--------------------------- MODULE ShadowSeeding ---------------------------
(***************************************************************************)
(* What a replay needs in the shadow replica of the blog database: a row    *)
(* for the post that the replayed request updates.  replay_brick_action()   *)
(* seeds it, logs the seed in a database of its own, replays, deletes the   *)
(* row and closes the log entry; the next start of the server sweeps what a *)
(* crash has left.  The action runs on the server's event loop without      *)
(* giving it up, so one replay is done before the next begins; between any  *)
(* two of its commits the server may be killed, or a database call raise.   *)
(***************************************************************************)
EXTENDS Naturals, Sequences

CONSTANTS
    Posts,
    Native,       \* posts that are in the replica for another reason than a seed
    MaxReplays,   \* bound of the model: seeds made
    MaxFailures,  \* bound of the model: crashes and exceptions
    None

ASSUME ShadowSeedingAssumption ==
    /\ Native \subseteq Posts
    /\ MaxReplays \in Nat /\ MaxFailures \in Nat
    /\ None \notin Posts

VARIABLES
    replica,  \* the posts in the shadow database
    log,      \* shadow_seeds: for each row, the post and whether it is torn down
    at,       \* where the server is
    post,     \* the post of the current replay
    entry,    \* its log_id; 0 when its teardown is not this replay's
    pending,  \* what the sweep has yet to do
    (* history *)
    failures,
    unlogged  \* posts whose seed never reached the log

server == <<at, post, entry, pending>>
vars   == <<replica, log, server, failures, unlogged>>

TypeOK ==
    /\ replica \subseteq Posts
    /\ log \in Seq([post : Posts, torn : BOOLEAN]) /\ Len(log) <= MaxReplays
    /\ at \in {"down", "sweeping", "sweep delete", "serving", "seeded", "replaying",
               "replayed", "deleted"}
    /\ post \in Posts \cup {None}
    /\ entry \in 0..Len(log)
    /\ pending \subseteq DOMAIN log
    /\ failures \in 0..MaxFailures
    /\ unlogged \subseteq Posts

Init ==
    /\ replica = Native
    /\ log = <<>>
    /\ at = "down"
    /\ post = None
    /\ entry = 0
    /\ pending = {}
    /\ failures = 0
    /\ unlogged = {}

Pending == {i \in DOMAIN log : ~log[i].torn}
TearDown(i) == log' = [log EXCEPT ![i].torn = TRUE]

-----------------------------------------------------------------------------
(* The start of the server.                                                 *)

Boot ==
    /\ at = "down"
    /\ at' = "sweeping"
    /\ pending' = Pending
    /\ UNCHANGED <<replica, log, post, entry, failures, unlogged>>

\* Mutant of SweepDelete: a worker that sweeps whenever the log shows an open seed.
SweepAnyTime(i) ==
    /\ at \in {"sweeping", "replaying"} /\ i \in Pending
    /\ replica' = replica \ {log[i].post}
    /\ IF at = "sweeping" THEN at' = "sweep delete" /\ pending' = (pending \cup {i})
                          ELSE UNCHANGED <<at, pending>>
    /\ entry' = IF at = "sweeping" THEN i ELSE entry
    /\ UNCHANGED <<log, post, failures, unlogged>>

\* The handler of the domain deletes the row, if there is one, in one database ...
SweepDelete(i) ==
    /\ at = "sweeping" /\ i \in pending
    /\ replica' = replica \ {log[i].post}
    /\ at' = "sweep delete"
    /\ entry' = i
    /\ UNCHANGED <<log, post, pending, failures, unlogged>>

\* Mutant of SweepRecord: the sweep goes on without closing the entry.
SweepUnrecorded ==
    /\ at = "sweep delete"
    /\ at' = "sweeping"
    /\ pending' = pending \ {entry}
    /\ entry' = 0
    /\ UNCHANGED <<replica, log, post, failures, unlogged>>

\* ... and the entry is closed in the other.
SweepRecord ==
    /\ at = "sweep delete"
    /\ TearDown(entry)
    /\ at' = "sweeping"
    /\ pending' = pending \ {entry}
    /\ entry' = 0
    /\ UNCHANGED <<replica, post, failures, unlogged>>

Serve ==
    /\ at = "sweeping" /\ pending = {}
    /\ at' = "serving"
    /\ UNCHANGED <<replica, log, post, entry, pending, failures, unlogged>>

-----------------------------------------------------------------------------
(* A replay.                                                                *)

\* Mutant of FindPost: a post that is there already is torn down like a seed.
FindAndOwn(p) ==
    /\ at = "serving" /\ p \in replica
    /\ Len(log) < MaxReplays
    /\ at' = "seeded"
    /\ post' = p
    /\ UNCHANGED <<replica, log, entry, pending, failures, unlogged>>

\* The post is there already: nothing to seed, and nothing to tear down.
FindPost(p) ==
    /\ at = "serving" /\ p \in replica
    /\ at' = "replaying"
    /\ post' = p
    /\ UNCHANGED <<replica, log, entry, pending, failures, unlogged>>

SeedPost(p) ==
    /\ at = "serving" /\ p \notin replica
    /\ Len(log) < MaxReplays
    /\ replica' = replica \cup {p}
    /\ at' = "seeded"
    /\ post' = p
    /\ UNCHANGED <<log, entry, pending, failures, unlogged>>

\* Mutant of RecordSeed: the id is that of the row after it.
RecordSeedNext ==
    /\ at = "seeded"
    /\ log' = Append(log, [post |-> post, torn |-> FALSE])
    /\ at' = "replaying"
    /\ entry' = Len(log) + 2
    /\ UNCHANGED <<replica, post, pending, failures, unlogged>>

RecordSeed ==
    /\ at = "seeded"
    /\ log' = Append(log, [post |-> post, torn |-> FALSE])
    /\ at' = "replaying"
    /\ entry' = Len(log) + 1
    /\ UNCHANGED <<replica, post, pending, failures, unlogged>>

\* The replay returns or raises; either way the finally clause comes next.
EndReplay ==
    /\ at = "replaying"
    /\ IF entry = 0 THEN at' = "serving" /\ post' = None
                    ELSE at' = "replayed" /\ UNCHANGED post
    /\ UNCHANGED <<replica, log, entry, pending, failures, unlogged>>

DeletePost ==
    /\ at = "replayed"
    /\ replica' = replica \ {post}
    /\ at' = "deleted"
    /\ UNCHANGED <<log, post, entry, pending, failures, unlogged>>

\* Mutant of RecordTeardown: the entry closed is the newest open one's predecessor.
RecordOther ==
    /\ at = "deleted"
    /\ TearDown(IF entry > 1 THEN entry - 1 ELSE entry)
    /\ at' = "serving"
    /\ post' = None
    /\ entry' = 0
    /\ UNCHANGED <<replica, pending, failures, unlogged>>

RecordTeardown ==
    /\ at = "deleted"
    /\ TearDown(entry)
    /\ at' = "serving"
    /\ post' = None
    /\ entry' = 0
    /\ UNCHANGED <<replica, pending, failures, unlogged>>

-----------------------------------------------------------------------------
(* Failures.  A seed that has not reached the log is known to nobody.       *)

Lost == unlogged' = IF at = "seeded" THEN unlogged \cup {post} ELSE unlogged

Fail ==
    /\ failures < MaxFailures
    /\ failures' = failures + 1
    /\ post' = None
    /\ entry' = 0
    /\ Lost
    /\ UNCHANGED <<replica, log>>

Crash ==
    /\ at # "down"
    /\ Fail
    /\ at' = "down"
    /\ pending' = {}

\* A database call of the replay raises: the request is answered with an error and the
\* server goes on.
ReplayRaises ==
    /\ at \in {"serving", "seeded", "replayed", "deleted"}
    /\ Fail
    /\ at' = "serving"
    /\ UNCHANGED pending

\* A database call of the sweep raises: build_app() does not return.
SweepRaises ==
    /\ at \in {"sweeping", "sweep delete"}
    /\ Fail
    /\ at' = "down"
    /\ pending' = {}

-----------------------------------------------------------------------------

Start == Boot \/ (\E i \in DOMAIN log : SweepDelete(i)) \/ SweepRecord \/ Serve

Next ==
    \/ Start
    \/ \E p \in Posts : FindPost(p) \/ SeedPost(p)
    \/ RecordSeed \/ EndReplay \/ DeletePost \/ RecordTeardown
    \/ Crash \/ ReplayRaises \/ SweepRaises

Spec == Init /\ [][Next]_vars

\* Whoever runs the server starts it again, and a start goes on until it serves.
FairSpec == Spec /\ WF_vars(Start)

-----------------------------------------------------------------------------
(* Properties.                                                              *)

\* While a request is replayed, the post it updates is in the replica: no sweep and no
\* teardown takes it away (seed_for_replay, sweep_stale_shadow_seeds).
PostThereForReplay == at = "replaying" => post \in replica

\* What a replay did not seed is never deleted, neither by its teardown nor by a later
\* sweep (seed_post_for_update, "not ours to clean up").
NativeKept == Native \subseteq replica

\* Everything the replica holds has a reason: it was there, the current replay has just
\* seeded it, the log remembers it, or its seed failed before it was logged.
NothingForgotten ==
    \A p \in replica \ Native :
        \/ at = "seeded" /\ p = post
        \/ \E i \in Pending : log[i].post = p
        \/ p \in unlogged

\* A seed left open when the server goes down is swept by a start that follows, however
\* often a start fails (sweep_stale_shadow_seeds).
SweptInTheEnd ==
    \A i \in 1..MaxReplays :
        (at = "down" /\ i \in Pending) ~> (i \in DOMAIN log /\ log[i].torn)

-----------------------------------------------------------------------------
(* What makes the invariants inductive: the open entries are of seeds, the   *)
(* one at hand is the current post's, and an entry is closed only after its  *)
(* row is gone.                                                             *)

OnlySeedsLogged ==
    /\ \A i \in DOMAIN log : log[i].torn \/ log[i].post \notin Native
    /\ at = "seeded" => post \in replica \ Native

EntryAtHand ==
    /\ at \in {"replayed", "deleted", "sweep delete"} => entry \in Pending
    /\ at = "replaying" /\ entry # 0 => entry \in Pending
    /\ at \in {"replaying", "replayed", "deleted"} /\ entry # 0 => log[entry].post = post
    /\ at \in {"seeded", "replaying", "replayed", "deleted"} => post \in Posts
    /\ at = "seeded" => Len(log) < MaxReplays
    /\ at \in {"down", "sweeping", "serving", "seeded"} => entry = 0
    /\ pending \subseteq Pending
    /\ at \notin {"sweeping", "sweep delete"} => pending = {}

GoneBeforeClosed ==
    at \in {"deleted", "sweep delete"} => log[entry].post \notin replica

IInv ==
    /\ TypeOK
    /\ OnlySeedsLogged
    /\ EntryAtHand
    /\ GoneBeforeClosed
    /\ PostThereForReplay
    /\ NativeKept
    /\ NothingForgotten
=============================================================================
