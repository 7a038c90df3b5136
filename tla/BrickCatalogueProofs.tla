----------------------- MODULE BrickCatalogueProofs -----------------------
(***************************************************************************)
(* Proofs about BrickCatalogue, for every set of processes, spans, routes   *)
(* and criticalities, every batch limit and every nanobar known before.     *)
(* TInv is the type invariant with what a job carries from one commit to    *)
(* the next; LockInv says that a job that is to write what it made of a     *)
(* read has held the lock since that read, and that what it read has not    *)
(* changed; BindInv follows each brick, WeightInv each weight.              *)
(***************************************************************************)
EXTENDS BrickCatalogue, TLAPS, SequenceTheorems, FiniteSetTheorems

Weights == {Unmeasured} \cup ((SUBSET bricks) \X Criticalities)

\* The tables, the lock and the history have their types.
DataOK ==
    /\ stored \subseteq Spans
    /\ processed \subseteq stored
    /\ bricks \subseteq stored
    /\ nanobars \in Seq(NanobarKeys)
    /\ bound \subseteq Rows \X bricks
    /\ criticality \in [Rows -> Criticalities]
    /\ weight \in [Rows -> Weights]
    /\ filed \in [Rows -> SUBSET Fields]
    /\ lock \in Procs \cup {None}
    /\ started \in 0..MaxJobs /\ crashes \in 0..MaxCrashes
    /\ orphans \subseteq bricks
    /\ forgotten \subseteq Rows

\* The local variables of a job, and what they are where the job uses them.
JobOK(p) ==
    /\ DOMAIN job[p] = DOMAIN Idle
    /\ job[p].at \in Places
    /\ job[p].fresh \subseteq bricks
    /\ job[p].touched \subseteq Rows
    /\ job[p].listed \subseteq Rows
    /\ job[p].routes \subseteq Manifest
    /\ job[p].attempted \subseteq stored
    /\ job[p].spans \in Seq(stored)
    /\ job[p].at = "create" => job[p].spans # <<>>
    /\ job[p].at \in {"naming", "placeholder"} => job[p].key \in NanobarKeys
    /\ job[p].at \in {"named", "binding", "weigh", "patch"} => job[p].row \in Rows
    /\ job[p].at \in {"naming", "named", "binding"} => job[p].brick \in bricks
    /\ job[p].at = "weigh" => job[p].seen \in Weights

TInv == DataOK /\ DOMAIN job = Procs /\ \A p \in Procs : JobOK(p)

-----------------------------------------------------------------------------
(* The operators the model is built from.                                   *)

\* The elements of a sequence are among those its type admits.
LEMMA ElementsTyped ==
    ASSUME NEW S, NEW s \in Seq(S)
    PROVE  ToSet(s) \subseteq S
BY LenProperties, ElementOfSeq DEF ToSet

\* A row is appended to a table: the others stay.
LEMMA RowAppended ==
    ASSUME NEW S, NEW s \in Seq(S), NEW e \in S
    PROVE  /\ Append(s, e) \in Seq(S)
           /\ DOMAIN Append(s, e) = DOMAIN s \cup {Len(s) + 1}
           /\ Len(s) + 1 \notin DOMAIN s
           /\ \A i \in DOMAIN s : Append(s, e)[i] = s[i]
           /\ Append(s, e)[Len(s) + 1] = e
<1>1. Len(s) \in Nat /\ DOMAIN s = 1..Len(s)
  BY LenProperties
<1>2. /\ Append(s, e) \in Seq(S)
      /\ Len(Append(s, e)) = Len(s) + 1
      /\ \A i \in 1..Len(s) : Append(s, e)[i] = s[i]
      /\ Append(s, e)[Len(s) + 1] = e
  BY AppendProperties
<1>3. DOMAIN Append(s, e) = 1..Len(s) + 1
  BY <1>2, LenProperties
<1>4. QED
  BY <1>1, <1>2, <1>3

\* A table of the columns of the nanobars is a sequence as long as theirs.
LEMMA ColumnIsSequence ==
    ASSUME NEW S, NEW T, NEW t \in Seq(T), NEW f \in [DOMAIN t -> S]
    PROVE  f \in Seq(S) /\ Len(f) = Len(t)
<1>1. Len(t) \in Nat /\ DOMAIN t = 1..Len(t)
  BY LenProperties
<1>2. f \in Seq(S)
  BY <1>1, SeqDef
<1>3. QED
  BY <1>1, <1>2, LenProperties

\* Its new column has the old entries and the new one.
LEMMA ColumnAppended ==
    ASSUME NEW S, NEW T, NEW t \in Seq(T), NEW k \in T, NEW f \in [DOMAIN t -> S], NEW e \in S
    PROVE  /\ Append(f, e) \in [DOMAIN Append(t, k) -> S]
           /\ \A i \in DOMAIN t : Append(f, e)[i] = f[i]
           /\ Append(f, e)[Len(t) + 1] = e
<1>1. f \in Seq(S) /\ Len(f) = Len(t)
  BY ColumnIsSequence
<1>2. DOMAIN Append(f, e) = DOMAIN Append(t, k)
  <2>1. DOMAIN f = DOMAIN t
    OBVIOUS
  <2>2. QED
    BY <1>1, <2>1, RowAppended
<1>3. \A i \in DOMAIN t : Append(f, e)[i] = f[i]
  BY <1>1, RowAppended
<1>4. Append(f, e)[Len(t) + 1] = e
  BY <1>1, RowAppended
<1>5. Append(f, e) \in [DOMAIN Append(f, e) -> S]
  <2>1. Append(f, e) \in Seq(S)
    BY <1>1, RowAppended
  <2>2. QED
    BY <2>1, LenProperties
<1>6. QED
  BY <1>2, <1>3, <1>4, <1>5

\* The smaller of two naturals.
LEMMA MinOfTwo ==
    ASSUME NEW a \in Nat, NEW b \in Nat
    PROVE  Min({a, b}) = IF a <= b THEN a ELSE b
<1> DEFINE m == IF a <= b THEN a ELSE b
<1>1. m \in {a, b} /\ \A y \in {a, b} : m =< y
  OBVIOUS
<1>2. \A x \in {a, b} : (\A y \in {a, b} : x =< y) => x = m
  OBVIOUS
<1>3. QED
  BY <1>1, <1>2 DEF Min

\* Spans are told apart by the time of their recording: of n spans, each has a rank of
\* its own between 1 and n, in the order of recording, and no rank is left out.
LEMMA RanksCount ==
    ASSUME NEW S \in SUBSET Spans
    PROVE  /\ IsFiniteSet(S) /\ Cardinality(S) \in Nat
           /\ \A s \in S : Rank(S, s) \in 1..Cardinality(S)
           /\ \A s, t \in S : Earlier(s, t) => Rank(S, s) < Rank(S, t)
           /\ \A i \in 1..Cardinality(S) : \E s \in S : Rank(S, s) = i
<1> USE BrickCatalogueAssumption
<1>1. IsFiniteSet(S) /\ Cardinality(S) \in Nat
  BY FS_Subset, FS_CardinalityType
<1>2. \A s, t \in S : Earlier(s, t) \in BOOLEAN /\ ~Earlier(s, s)
                      /\ (s # t => Earlier(s, t) \/ Earlier(t, s))
  BY DEF Earlier
<1>3. \A r, s, t \in S : Earlier(r, s) /\ Earlier(s, t) => Earlier(r, t)
  BY DEF Earlier
<1> DEFINE Before(s) == {t \in S : Earlier(t, s)}
<1>4. ASSUME NEW s \in S
      PROVE  /\ IsFiniteSet(Before(s)) /\ Cardinality(Before(s)) \in Nat
             /\ Cardinality(Before(s)) < Cardinality(S)
  <2>1. Before(s) \in SUBSET S /\ Before(s) # S
    BY <1>2
  <2>2. /\ IsFiniteSet(Before(s))
        /\ Cardinality(Before(s)) <= Cardinality(S)
        /\ Cardinality(S) = Cardinality(Before(s)) => S = Before(s)
    BY <1>1, <2>1, FS_Subset
  <2>3. Cardinality(Before(s)) \in Nat
    BY <2>2, FS_CardinalityType
  <2>4. QED
    BY <1>1, <2>1, <2>2, <2>3
<1>5. ASSUME NEW s \in S, NEW t \in S, Earlier(s, t)
      PROVE  Cardinality(Before(s)) < Cardinality(Before(t))
  <2>1. Before(s) \in SUBSET Before(t) /\ Before(s) # Before(t)
    BY <1>2, <1>3, <1>5
  <2>2. /\ Cardinality(Before(s)) <= Cardinality(Before(t))
        /\ Cardinality(Before(t)) = Cardinality(Before(s)) => Before(t) = Before(s)
    BY <1>4, <2>1, FS_Subset
  <2>3. Cardinality(Before(s)) # Cardinality(Before(t))
    BY <2>1, <2>2
  <2>4. Cardinality(Before(s)) \in Nat /\ Cardinality(Before(t)) \in Nat
    BY <1>4
  <2> HIDE DEF Before
  <2>5. QED
    BY <2>2, <2>3, <2>4
<1>6. \A s \in S : Rank(S, s) = Cardinality(Before(s)) + 1
  BY DEF Rank
<1> HIDE DEF Before
<1>7. \A s \in S : Rank(S, s) \in 1..Cardinality(S)
  BY <1>1, <1>4, <1>6
<1>8. \A s, t \in S : Earlier(s, t) => Rank(S, s) < Rank(S, t)
  BY <1>4, <1>5, <1>6
<1> DEFINE N == 1..Cardinality(S)
           rank == [s \in S |-> Rank(S, s)]
<1>9. IsFiniteSet(N) /\ Cardinality(N) = Cardinality(S)
  BY <1>1, FS_Interval
<1>10. rank \in Injection(S, N)
  <2>1. \A s, t \in S : Rank(S, s) = Rank(S, t) => s = t
    <3> SUFFICES ASSUME NEW s \in S, NEW t \in S, s # t
                 PROVE  Rank(S, s) # Rank(S, t)
      OBVIOUS
    <3>1. Rank(S, s) \in Nat /\ Rank(S, t) \in Nat
      BY <1>7
    <3>2. Rank(S, s) < Rank(S, t) \/ Rank(S, t) < Rank(S, s)
      BY <1>2, <1>8
    <3>3. QED
      BY <3>1, <3>2
  <2>2. rank \in [S -> N] /\ \A s, t \in S : rank[s] = rank[t] => s = t
    BY <1>7, <2>1
  <2>3. QED
    BY <2>2 DEF Injection, IsInjective
<1>11. rank \in Surjection(S, N)
  BY <1>9, <1>10, FS_Injection
<1>12. \A i \in N : \E s \in S : rank[s] = i
  BY <1>11 DEF Surjection
<1>13. QED
  BY <1>1, <1>7, <1>8, <1>12

\* The spans a query lists, as many as the limit admits: the i-th is the one of rank i.
LEMMA OldestRanked ==
    ASSUME NEW S \in SUBSET Spans
    PROVE  /\ Oldest(S) \in Seq(S)
           /\ Len(Oldest(S)) = IF Cardinality(S) <= Limit THEN Cardinality(S) ELSE Limit
           /\ \A i \in 1..Len(Oldest(S)) : Rank(S, Oldest(S)[i]) = i
<1> DEFINE n == Min({Cardinality(S), Limit})
           pick(i) == CHOOSE s \in S : Rank(S, s) = i
<1>1. Cardinality(S) \in Nat /\ Limit \in Nat
  BY RanksCount, BrickCatalogueAssumption
<1>2. n = IF Cardinality(S) <= Limit THEN Cardinality(S) ELSE Limit
  BY <1>1, MinOfTwo
<1>3. n \in Nat /\ 1..n \subseteq 1..Cardinality(S)
  BY <1>1, <1>2
<1> HIDE DEF n
<1>4. \A i \in 1..n : pick(i) \in S /\ Rank(S, pick(i)) = i
  BY <1>3, RanksCount
<1> HIDE DEF pick
<1> DEFINE oldest == [i \in 1..n |-> pick(i)]
<1>5. oldest \in Seq(S)
  BY <1>3, <1>4, IsASeq
<1>6. Len(oldest) = n /\ \A i \in 1..n : Rank(S, oldest[i]) = i
  <2>1. DOMAIN oldest = 1..n /\ DOMAIN oldest = 1..Len(oldest) /\ Len(oldest) \in Nat
    BY <1>5, LenProperties
  <2>2. Len(oldest) = n
    BY <2>1, <1>3
  <2>3. QED
    BY <2>2, <1>4
<1>7. Oldest(S) = oldest
  BY DEF Oldest, oldest, n, pick
<1> HIDE DEF oldest
<1>8. QED
  BY <1>2, <1>5, <1>6, <1>7

\* The query lists a span when the limit reaches its rank.
LEMMA OldestLists ==
    ASSUME NEW S \in SUBSET Spans, NEW s \in S, Rank(S, s) <= Limit
    PROVE  s \in ToSet(Oldest(S))
<1> DEFINE o == Oldest(S)
           i == Rank(S, s)
<1>1. /\ o \in Seq(S) /\ DOMAIN o = 1..Len(o)
      /\ Len(o) = IF Cardinality(S) <= Limit THEN Cardinality(S) ELSE Limit
      /\ \A j \in 1..Len(o) : Rank(S, o[j]) = j
  BY OldestRanked, LenProperties
<1>2. i \in 1..Cardinality(S) /\ Cardinality(S) \in Nat /\ Limit \in Nat /\ i <= Limit
  BY RanksCount, BrickCatalogueAssumption
<1>3. i \in 1..Len(o)
  BY <1>1, <1>2
<1>4. o[i] \in S /\ Rank(S, o[i]) = i
  BY <1>1, <1>3, ElementOfSeq
<1>5. \A t \in S : t # s => Earlier(s, t) \/ Earlier(t, s)
  BY BrickCatalogueAssumption DEF Earlier
<1>6. \A t \in S : Rank(S, t) \in Nat
  BY RanksCount
<1>7. \A t \in S : t # s => Rank(S, t) # i
  BY <1>5, <1>6, RanksCount
<1>8. o[i] = s
  BY <1>4, <1>7
<1>9. QED
  BY <1>1, <1>3, <1>8 DEF ToSet

-----------------------------------------------------------------------------
(* Types.                                                                   *)

\* The tables only grow, and the key of a row stays.
Grown ==
    /\ stored \subseteq stored' /\ processed \subseteq processed'
    /\ bricks \subseteq bricks' /\ bound \subseteq bound'
    /\ Rows \subseteq Rows'
    /\ \A r \in Rows : nanobars'[r] = nanobars[r]

\* A step of p takes its job to j and no other one anywhere.
LEMMA StepTakes ==
    ASSUME DOMAIN job = Procs, NEW p \in Procs, NEW j, Step(p, j)
    PROVE  /\ DOMAIN job' = Procs
           /\ job'[p] = j
           /\ \A q \in Procs : q # p => job'[q] = job[q]
BY DEF Step

\* The local variables of a job, by name.
LEMMA FieldsOfJob ==
    DOMAIN Idle = {"at", "backlog", "more", "traces", "spans", "attempted", "fresh", "brick",
                   "key", "row", "touched", "seen", "routes", "listed"}
BY DEF Idle

\* A step of p changes the variables F of its job, and no other job.
Changes(p, F) ==
    /\ DOMAIN job' = Procs /\ DOMAIN job'[p] = DOMAIN Idle
    /\ \A q \in Procs : q # p => job'[q] = job[q]
    /\ \A f \in DOMAIN Idle : f \notin F => job'[p][f] = job[p][f]

\* A step of one job that sets some of its variables leaves the others, and the other jobs, alone.
LEMMA StepChanges ==
    ASSUME DOMAIN job = Procs, NEW p \in Procs, NEW j, NEW F, Step(p, j),
           DOMAIN j = DOMAIN Idle,
           \A f \in DOMAIN Idle : f \notin F => j[f] = job[p][f]
    PROVE  Changes(p, F) /\ job'[p] = j
BY StepTakes DEF Changes

\* The variables of a job that a step does not change, one by one.
LEMMA OthersKept ==
    ASSUME NEW p \in Procs, NEW F, Changes(p, F)
    PROVE  /\ DOMAIN job' = Procs /\ DOMAIN job'[p] = DOMAIN Idle
           /\ \A q \in Procs : q # p => job'[q] = job[q]
           /\ "at" \notin F => job'[p].at = job[p].at
           /\ "backlog" \notin F => job'[p].backlog = job[p].backlog
           /\ "more" \notin F => job'[p].more = job[p].more
           /\ "traces" \notin F => job'[p].traces = job[p].traces
           /\ "spans" \notin F => job'[p].spans = job[p].spans
           /\ "attempted" \notin F => job'[p].attempted = job[p].attempted
           /\ "fresh" \notin F => job'[p].fresh = job[p].fresh
           /\ "brick" \notin F => job'[p].brick = job[p].brick
           /\ "key" \notin F => job'[p].key = job[p].key
           /\ "row" \notin F => job'[p].row = job[p].row
           /\ "touched" \notin F => job'[p].touched = job[p].touched
           /\ "seen" \notin F => job'[p].seen = job[p].seen
           /\ "routes" \notin F => job'[p].routes = job[p].routes
           /\ "listed" \notin F => job'[p].listed = job[p].listed
BY FieldsOfJob DEF Changes

\* Where the steps of a scan take the variables of their job.
LEMMA ScanMoves ==
    ASSUME DOMAIN job = Procs, NEW p \in Procs, DOMAIN job[p] = DOMAIN Idle
    PROVE  /\ StartGenerate(p) =>
               /\ Changes(p, {"at", "backlog"})
               /\ job'[p].at = "look" /\ job'[p].backlog = Unprocessed
           /\ Select(p) =>
               /\ Changes(p, {"at", "traces"})
               /\ job'[p].at = "scan" /\ job'[p].traces = Candidates
           /\ SkipMalformed(p) =>
               /\ Changes(p, {"at", "spans", "attempted"})
               /\ job'[p].at = "scan" /\ job'[p].spans = Tail(job[p].spans)
               /\ job'[p].attempted = job[p].attempted \cup {Head(job[p].spans)}
           /\ CreateBrick(p) =>
               /\ Changes(p, {"at", "spans", "attempted", "fresh"})
               /\ job'[p].at = "created" /\ job'[p].spans = Tail(job[p].spans)
               /\ job'[p].attempted = job[p].attempted \cup {Head(job[p].spans)}
               /\ job'[p].fresh = job[p].fresh \cup {Head(job[p].spans)}
           /\ MarkProcessed(p) =>
               /\ Changes(p, {"at", "attempted"})
               /\ job'[p].at = (IF job[p].more THEN "look" ELSE Scanned(p))
               /\ job'[p].attempted = {}
           /\ Collect(p) =>
               /\ Changes(p, {"at"})
               /\ job'[p].at = "bind"
<1> USE FieldsOfJob
<1>1. ASSUME StartGenerate(p)
      PROVE  /\ Changes(p, {"at", "backlog"})
             /\ job'[p].at = "look" /\ job'[p].backlog = Unprocessed
  <2> DEFINE j == [job[p] EXCEPT !.at = "look", !.backlog = Unprocessed]
  <2>1. Step(p, j)
    BY <1>1 DEF StartGenerate
  <2>2. /\ DOMAIN j = DOMAIN Idle
        /\ j.at = "look" /\ j.backlog = Unprocessed
        /\ \A f \in DOMAIN Idle : f \notin {"at", "backlog"} => j[f] = job[p][f]
    OBVIOUS
  <2> HIDE DEF j
  <2>3. QED
    BY <2>1, <2>2, StepChanges
<1>2. ASSUME Select(p)
      PROVE  /\ Changes(p, {"at", "traces"})
             /\ job'[p].at = "scan" /\ job'[p].traces = Candidates
  <2> DEFINE j == [job[p] EXCEPT !.at = "scan", !.traces = Candidates]
  <2>1. Step(p, j)
    BY <1>2 DEF Select
  <2>2. /\ DOMAIN j = DOMAIN Idle
        /\ j.at = "scan" /\ j.traces = Candidates
        /\ \A f \in DOMAIN Idle : f \notin {"at", "traces"} => j[f] = job[p][f]
    OBVIOUS
  <2> HIDE DEF j
  <2>3. QED
    BY <2>1, <2>2, StepChanges
<1>3. ASSUME SkipMalformed(p)
      PROVE  /\ Changes(p, {"at", "spans", "attempted"})
             /\ job'[p].at = "scan" /\ job'[p].spans = Tail(job[p].spans)
             /\ job'[p].attempted = job[p].attempted \cup {Head(job[p].spans)}
  <2> DEFINE j == [job[p] EXCEPT !.at = "scan",
                                   !.spans = Tail(job[p].spans),
                                   !.attempted = job[p].attempted \cup {Head(job[p].spans)}]
  <2>1. Step(p, j)
    BY <1>3 DEF SkipMalformed, Attempted
  <2>2. /\ DOMAIN j = DOMAIN Idle
        /\ j.at = "scan" /\ j.spans = Tail(job[p].spans)
        /\ j.attempted = job[p].attempted \cup {Head(job[p].spans)}
        /\ \A f \in DOMAIN Idle : f \notin {"at", "spans", "attempted"} => j[f] = job[p][f]
    OBVIOUS
  <2> HIDE DEF j
  <2>3. QED
    BY <2>1, <2>2, StepChanges
<1>4. ASSUME CreateBrick(p)
      PROVE  /\ Changes(p, {"at", "spans", "attempted", "fresh"})
             /\ job'[p].at = "created" /\ job'[p].spans = Tail(job[p].spans)
             /\ job'[p].attempted = job[p].attempted \cup {Head(job[p].spans)}
             /\ job'[p].fresh = job[p].fresh \cup {Head(job[p].spans)}
  <2> DEFINE j == [job[p] EXCEPT !.at = "created",
                                   !.spans = Tail(job[p].spans),
                                   !.attempted = job[p].attempted \cup {Head(job[p].spans)},
                                   !.fresh = job[p].fresh \cup {Head(job[p].spans)}]
  <2>1. Step(p, j)
    BY <1>4 DEF CreateBrick, Attempted
  <2>2. /\ DOMAIN j = DOMAIN Idle
        /\ j.at = "created" /\ j.spans = Tail(job[p].spans)
        /\ j.attempted = job[p].attempted \cup {Head(job[p].spans)}
        /\ j.fresh = job[p].fresh \cup {Head(job[p].spans)}
        /\ \A f \in DOMAIN Idle : f \notin {"at", "spans", "attempted", "fresh"} => j[f] = job[p][f]
    OBVIOUS
  <2> HIDE DEF j
  <2>3. QED
    BY <2>1, <2>2, StepChanges
<1>5. ASSUME MarkProcessed(p)
      PROVE  /\ Changes(p, {"at", "attempted"})
             /\ job'[p].at = (IF job[p].more THEN "look" ELSE Scanned(p))
             /\ job'[p].attempted = {}
  <2> DEFINE j == [job[p] EXCEPT !.at = (IF job[p].more THEN "look" ELSE Scanned(p)),
                                   !.attempted = {}]
  <2>1. Step(p, j)
    BY <1>5 DEF MarkProcessed
  <2>2. /\ DOMAIN j = DOMAIN Idle
        /\ j.at = (IF job[p].more THEN "look" ELSE Scanned(p)) /\ j.attempted = {}
        /\ \A f \in DOMAIN Idle : f \notin {"at", "attempted"} => j[f] = job[p][f]
    OBVIOUS
  <2> HIDE DEF j
  <2>3. QED
    BY <2>1, <2>2, StepChanges
<1>6. ASSUME Collect(p)
      PROVE  /\ Changes(p, {"at"})
             /\ job'[p].at = "bind"
  <2> DEFINE j == [job[p] EXCEPT !.at = "bind"]
  <2>1. Step(p, j)
    BY <1>6 DEF Collect
  <2>2. /\ DOMAIN j = DOMAIN Idle
        /\ j.at = "bind"
        /\ \A f \in DOMAIN Idle : f \notin {"at"} => j[f] = job[p][f]
    OBVIOUS
  <2> HIDE DEF j
  <2>3. QED
    BY <2>1, <2>2, StepChanges
<1>7. QED
  BY <1>1, <1>2, <1>3, <1>4, <1>5, <1>6

\* And those of the binding, of a refresh and of an update.
LEMMA BindMoves ==
    ASSUME DOMAIN job = Procs, NEW p \in Procs, DOMAIN job[p] = DOMAIN Idle
    PROVE  /\ CreateNanobar(p) =>
               /\ Changes(p, {"at", "key", "row"})
               /\ job'[p].at = "named" /\ job'[p].key = None /\ job'[p].row = Len(nanobars) + 1
           /\ Bind(p) =>
               /\ Changes(p, {"at", "row", "brick", "fresh", "touched"})
               /\ job'[p].at = "bound" /\ job'[p].row = 0 /\ job'[p].brick = None
               /\ job'[p].fresh = job[p].fresh \ {job[p].brick}
               /\ job'[p].touched = job[p].touched \cup {job[p].row}
           /\ WriteWeight(p) =>
               /\ Changes(p, {"at", "row", "seen", "touched"})
               /\ job'[p].at = "bind" /\ job'[p].row = 0 /\ job'[p].seen = Unmeasured
               /\ job'[p].touched = job[p].touched \ {job[p].row}
           /\ StartRefresh(p) =>
               /\ Changes(p, {"at", "routes"})
               /\ job'[p].at = "cover"
               /\ job'[p].routes = Manifest \ {nanobars[r][2] : r \in Rows}
           /\ CreatePlaceholder(p) =>
               /\ Changes(p, {"at", "key"})
               /\ job'[p].at = "covered" /\ job'[p].key = None
           /\ ListNanobars(p) =>
               /\ Changes(p, {"at", "listed"})
               /\ job'[p].at = "file"
               /\ job'[p].listed = {r \in Rows : nanobars[r][2] \in Manifest}
<1> USE FieldsOfJob
<1>1. ASSUME CreateNanobar(p)
      PROVE  /\ Changes(p, {"at", "key", "row"})
             /\ job'[p].at = "named" /\ job'[p].key = None /\ job'[p].row = Len(nanobars) + 1
  <2> DEFINE j == [job[p] EXCEPT !.at = "named", !.key = None, !.row = Len(nanobars) + 1]
  <2>1. Step(p, j)
    BY <1>1 DEF CreateNanobar
  <2>2. /\ DOMAIN j = DOMAIN Idle
        /\ j.at = "named" /\ j.key = None /\ j.row = Len(nanobars) + 1
        /\ \A f \in DOMAIN Idle : f \notin {"at", "key", "row"} => j[f] = job[p][f]
    OBVIOUS
  <2> HIDE DEF j
  <2>3. QED
    BY <2>1, <2>2, StepChanges
<1>2. ASSUME Bind(p)
      PROVE  /\ Changes(p, {"at", "row", "brick", "fresh", "touched"})
             /\ job'[p].at = "bound" /\ job'[p].row = 0 /\ job'[p].brick = None
             /\ job'[p].fresh = job[p].fresh \ {job[p].brick}
             /\ job'[p].touched = job[p].touched \cup {job[p].row}
  <2> DEFINE j == [job[p] EXCEPT !.at = "bound",
                                   !.row = 0,
                                   !.brick = None,
                                   !.fresh = job[p].fresh \ {job[p].brick},
                                   !.touched = job[p].touched \cup {job[p].row}]
  <2>1. Step(p, j)
    BY <1>2 DEF Bind
  <2>2. /\ DOMAIN j = DOMAIN Idle
        /\ j.at = "bound" /\ j.row = 0 /\ j.brick = None
        /\ j.fresh = job[p].fresh \ {job[p].brick}
        /\ j.touched = job[p].touched \cup {job[p].row}
        /\ \A f \in DOMAIN Idle : f \notin {"at", "row", "brick", "fresh", "touched"}
                          => j[f] = job[p][f]
    OBVIOUS
  <2> HIDE DEF j
  <2>3. QED
    BY <2>1, <2>2, StepChanges
<1>3. ASSUME WriteWeight(p)
      PROVE  /\ Changes(p, {"at", "row", "seen", "touched"})
             /\ job'[p].at = "bind" /\ job'[p].row = 0 /\ job'[p].seen = Unmeasured
             /\ job'[p].touched = job[p].touched \ {job[p].row}
  <2> DEFINE j == [job[p] EXCEPT !.at = "bind",
                                   !.row = 0,
                                   !.seen = Unmeasured,
                                   !.touched = job[p].touched \ {job[p].row}]
  <2>1. Step(p, j)
    BY <1>3 DEF WriteWeight
  <2>2. /\ DOMAIN j = DOMAIN Idle
        /\ j.at = "bind" /\ j.row = 0 /\ j.seen = Unmeasured
        /\ j.touched = job[p].touched \ {job[p].row}
        /\ \A f \in DOMAIN Idle : f \notin {"at", "row", "seen", "touched"} => j[f] = job[p][f]
    OBVIOUS
  <2> HIDE DEF j
  <2>3. QED
    BY <2>1, <2>2, StepChanges
<1>4. ASSUME StartRefresh(p)
      PROVE  /\ Changes(p, {"at", "routes"})
             /\ job'[p].at = "cover"
             /\ job'[p].routes = Manifest \ {nanobars[r][2] : r \in Rows}
  <2> DEFINE j == [job[p] EXCEPT !.at = "cover",
                                   !.routes = Manifest \ {nanobars[r][2] : r \in Rows}]
  <2>1. Step(p, j)
    BY <1>4 DEF StartRefresh
  <2>2. /\ DOMAIN j = DOMAIN Idle
        /\ j.at = "cover" /\ j.routes = Manifest \ {nanobars[r][2] : r \in Rows}
        /\ \A f \in DOMAIN Idle : f \notin {"at", "routes"} => j[f] = job[p][f]
    OBVIOUS
  <2> HIDE DEF j
  <2>3. QED
    BY <2>1, <2>2, StepChanges
<1>5. ASSUME CreatePlaceholder(p)
      PROVE  /\ Changes(p, {"at", "key"})
             /\ job'[p].at = "covered" /\ job'[p].key = None
  <2> DEFINE j == [job[p] EXCEPT !.at = "covered", !.key = None]
  <2>1. Step(p, j)
    BY <1>5 DEF CreatePlaceholder
  <2>2. /\ DOMAIN j = DOMAIN Idle
        /\ j.at = "covered" /\ j.key = None
        /\ \A f \in DOMAIN Idle : f \notin {"at", "key"} => j[f] = job[p][f]
    OBVIOUS
  <2> HIDE DEF j
  <2>3. QED
    BY <2>1, <2>2, StepChanges
<1>6. ASSUME ListNanobars(p)
      PROVE  /\ Changes(p, {"at", "listed"})
             /\ job'[p].at = "file"
             /\ job'[p].listed = {r \in Rows : nanobars[r][2] \in Manifest}
  <2> DEFINE j == [job[p] EXCEPT !.at = "file",
                                   !.listed = {r \in Rows : nanobars[r][2] \in Manifest}]
  <2>1. Step(p, j)
    BY <1>6 DEF ListNanobars
  <2>2. /\ DOMAIN j = DOMAIN Idle
        /\ j.at = "file" /\ j.listed = {r \in Rows : nanobars[r][2] \in Manifest}
        /\ \A f \in DOMAIN Idle : f \notin {"at", "listed"} => j[f] = job[p][f]
    OBVIOUS
  <2> HIDE DEF j
  <2>3. QED
    BY <2>1, <2>2, StepChanges
<1>7. QED
  BY <1>1, <1>2, <1>3, <1>4, <1>5, <1>6


\* The steps of a generation that depend on what is found.
LEMMA ScanChoices ==
    ASSUME DOMAIN job = Procs, NEW p \in Procs, DOMAIN job[p] = DOMAIN Idle
    PROVE  /\ Look(p) =>
               /\ Changes(p, {"at", "more"})
               /\ \/ Candidates = <<>> /\ job'[p].at = Scanned(p)
                  \/ /\ Candidates # <<>> /\ job'[p].at = "select"
                     /\ job'[p].more = (Len(Candidates) >= Limit)
           /\ NextTrace(p) =>
               /\ Changes(p, {"traces", "spans"}) /\ job'[p].traces = Tail(job[p].traces)
               /\ job'[p].spans = Oldest({s \in Unprocessed : TraceOf[s] = Head(job[p].traces)})
           /\ LookUpHash(p) =>
               \/ /\ \E b \in bricks : HashOf[b] = HashOf[Head(job[p].spans)]
                  /\ Changes(p, {"at", "spans", "attempted"})
                  /\ job'[p].at = "scan" /\ job'[p].spans = Tail(job[p].spans)
                  /\ job'[p].attempted = job[p].attempted \cup {Head(job[p].spans)}
               \/ /\ ~\E b \in bricks : HashOf[b] = HashOf[Head(job[p].spans)]
                  /\ Changes(p, {"at"}) /\ job'[p].at = "create"
           /\ SkipUnkeyed(p) =>
               \E b \in job[p].fresh :
                  /\ KeyOf[b] = None
                  /\ Changes(p, {"fresh"}) /\ job'[p].fresh = job[p].fresh \ {b}
           /\ TakeResolved(p) =>
               \E b \in job[p].fresh, r \in job[p].touched :
                  /\ nanobars[r] = KeyOf[b]
                  /\ Changes(p, {"at", "brick", "row"})
                  /\ job'[p].at = "binding" /\ job'[p].brick = b /\ job'[p].row = r
           /\ FindNanobar(p) =>
               \E b \in job[p].fresh :
                  /\ KeyOf[b] # None
                  /\ \/ \E r \in Rows : /\ nanobars[r] = KeyOf[b]
                                        /\ Changes(p, {"at", "brick", "row"})
                                        /\ job'[p].at = "binding"
                                        /\ job'[p].brick = b /\ job'[p].row = r
                     \/ /\ KeyOf[b] \notin ToSet(nanobars)
                        /\ Changes(p, {"at", "brick", "key"}) /\ job'[p].at = "naming"
                        /\ job'[p].brick = b /\ job'[p].key = KeyOf[b]
           /\ ReadBound(p) =>
               \E r \in job[p].touched :
                  /\ Changes(p, {"at", "row", "seen"})
                  /\ job'[p].at = "weigh" /\ job'[p].row = r /\ job'[p].seen = Measure(r)
<1> USE FieldsOfJob
<1>1. ASSUME Look(p)
      PROVE  /\ Changes(p, {"at", "more"})
             /\ \/ Candidates = <<>> /\ job'[p].at = Scanned(p)
                \/ /\ Candidates # <<>> /\ job'[p].at = "select"
                   /\ job'[p].more = (Len(Candidates) >= Limit)
  <2>1. CASE Candidates = <<>>
    <3> DEFINE j == [job[p] EXCEPT !.at = Scanned(p), !.more = FALSE]
    <3>1. Step(p, j)
      BY <1>1, <2>1 DEF Look
    <3>2. /\ DOMAIN j = DOMAIN Idle
          /\ j.at = Scanned(p) /\ j.more = FALSE
          /\ \A f \in DOMAIN Idle : f \notin {"at", "more"} => j[f] = job[p][f]
      OBVIOUS
    <3> HIDE DEF j
    <3>3. QED
      BY <2>1, <3>1, <3>2, StepChanges
  <2>2. CASE Candidates # <<>>
    <3> DEFINE j == [job[p] EXCEPT !.at = "select", !.more = (Len(Candidates) >= Limit)]
    <3>1. Step(p, j)
      BY <1>1, <2>2 DEF Look
    <3>2. /\ DOMAIN j = DOMAIN Idle
          /\ j.at = "select" /\ j.more = (Len(Candidates) >= Limit)
          /\ \A f \in DOMAIN Idle : f \notin {"at", "more"} => j[f] = job[p][f]
      OBVIOUS
    <3> HIDE DEF j
    <3>3. QED
      BY <2>2, <3>1, <3>2, StepChanges
  <2>3. QED
    BY <2>1, <2>2
<1>2. ASSUME NextTrace(p)
      PROVE  /\ Changes(p, {"traces", "spans"}) /\ job'[p].traces = Tail(job[p].traces)
             /\ job'[p].spans = Oldest({s \in Unprocessed : TraceOf[s] = Head(job[p].traces)})
  <2> DEFINE j == [job[p] EXCEPT !.traces = Tail(job[p].traces),
                                   !.spans = Oldest({s \in Unprocessed :
                                             TraceOf[s] = Head(job[p].traces)})]
  <2>1. Step(p, j)
    BY <1>2 DEF NextTrace
  <2>2. /\ DOMAIN j = DOMAIN Idle
        /\ j.traces = Tail(job[p].traces)
        /\ j.spans = Oldest({s \in Unprocessed : TraceOf[s] = Head(job[p].traces)})
        /\ \A f \in DOMAIN Idle : f \notin {"traces", "spans"} => j[f] = job[p][f]
    OBVIOUS
  <2> HIDE DEF j
  <2>3. QED
    BY <2>1, <2>2, StepChanges
<1>3. ASSUME LookUpHash(p)
      PROVE  \/ /\ \E b \in bricks : HashOf[b] = HashOf[Head(job[p].spans)]
                /\ Changes(p, {"at", "spans", "attempted"})
                /\ job'[p].at = "scan" /\ job'[p].spans = Tail(job[p].spans)
                /\ job'[p].attempted = job[p].attempted \cup {Head(job[p].spans)}
             \/ /\ ~\E b \in bricks : HashOf[b] = HashOf[Head(job[p].spans)]
                /\ Changes(p, {"at"}) /\ job'[p].at = "create"
  <2>1. CASE \E b \in bricks : HashOf[b] = HashOf[Head(job[p].spans)]
    <3> DEFINE j == [job[p] EXCEPT !.at = "scan",
                                     !.spans = Tail(job[p].spans),
                                     !.attempted = job[p].attempted \cup {Head(job[p].spans)}]
    <3>1. Step(p, j)
      BY <1>3, <2>1 DEF LookUpHash, Attempted
    <3>2. /\ DOMAIN j = DOMAIN Idle
          /\ j.at = "scan" /\ j.spans = Tail(job[p].spans)
          /\ j.attempted = job[p].attempted \cup {Head(job[p].spans)}
          /\ \A f \in DOMAIN Idle : f \notin {"at", "spans", "attempted"} => j[f] = job[p][f]
      OBVIOUS
    <3> HIDE DEF j
    <3>3. QED
      BY <2>1, <3>1, <3>2, StepChanges
  <2>2. CASE ~\E b \in bricks : HashOf[b] = HashOf[Head(job[p].spans)]
    <3> DEFINE j == [job[p] EXCEPT !.at = "create"]
    <3>1. Step(p, j)
      BY <1>3, <2>2 DEF LookUpHash
    <3>2. /\ DOMAIN j = DOMAIN Idle
          /\ j.at = "create"
          /\ \A f \in DOMAIN Idle : f \notin {"at"} => j[f] = job[p][f]
      OBVIOUS
    <3> HIDE DEF j
    <3>3. QED
      BY <2>2, <3>1, <3>2, StepChanges
  <2>3. QED
    BY <2>1, <2>2
<1>4. ASSUME SkipUnkeyed(p)
      PROVE  \E b \in job[p].fresh :
                /\ KeyOf[b] = None
                /\ Changes(p, {"fresh"}) /\ job'[p].fresh = job[p].fresh \ {b}
  <2>1. PICK b \in job[p].fresh :
           KeyOf[b] = None /\ Step(p, [job[p] EXCEPT !.fresh = @ \ {b}])
    BY <1>4 DEF SkipUnkeyed
  <2> DEFINE j == [job[p] EXCEPT !.fresh = job[p].fresh \ {b}]
  <2>2. Step(p, j)
    BY <2>1
  <2>3. /\ DOMAIN j = DOMAIN Idle
        /\ j.fresh = job[p].fresh \ {b}
        /\ \A f \in DOMAIN Idle : f \notin {"fresh"} => j[f] = job[p][f]
    OBVIOUS
  <2> HIDE DEF j
  <2>4. QED
    BY <2>1, <2>2, <2>3, StepChanges
<1>5. ASSUME TakeResolved(p)
      PROVE  \E b \in job[p].fresh, r \in job[p].touched :
                /\ nanobars[r] = KeyOf[b]
                /\ Changes(p, {"at", "brick", "row"})
                /\ job'[p].at = "binding" /\ job'[p].brick = b /\ job'[p].row = r
  <2>1. PICK b \in job[p].fresh, r \in job[p].touched :
           /\ nanobars[r] = KeyOf[b]
           /\ Step(p, [job[p] EXCEPT !.at = "binding", !.brick = b, !.row = r])
    BY <1>5 DEF TakeResolved
  <2> DEFINE j == [job[p] EXCEPT !.at = "binding", !.brick = b, !.row = r]
  <2>2. Step(p, j)
    BY <2>1
  <2>3. /\ DOMAIN j = DOMAIN Idle
        /\ j.at = "binding" /\ j.brick = b /\ j.row = r
        /\ \A f \in DOMAIN Idle : f \notin {"at", "brick", "row"} => j[f] = job[p][f]
    OBVIOUS
  <2> HIDE DEF j
  <2>4. QED
    BY <2>1, <2>2, <2>3, StepChanges
<1>6. ASSUME FindNanobar(p)
      PROVE  \E b \in job[p].fresh :
                /\ KeyOf[b] # None
                /\ \/ \E r \in Rows : /\ nanobars[r] = KeyOf[b]
                                      /\ Changes(p, {"at", "brick", "row"})
                                      /\ job'[p].at = "binding"
                                      /\ job'[p].brick = b /\ job'[p].row = r
                   \/ /\ KeyOf[b] \notin ToSet(nanobars)
                      /\ Changes(p, {"at", "brick", "key"}) /\ job'[p].at = "naming"
                      /\ job'[p].brick = b /\ job'[p].key = KeyOf[b]
  <2>1. PICK b \in job[p].fresh :
           /\ KeyOf[b] # None
           /\ \/ \E r \in Rows :
                    /\ nanobars[r] = KeyOf[b]
                    /\ Step(p, [job[p] EXCEPT !.at = "binding", !.brick = b, !.row = r])
              \/ /\ KeyOf[b] \notin ToSet(nanobars)
                 /\ Step(p, [job[p] EXCEPT !.at = "naming", !.brick = b, !.key = KeyOf[b]])
    BY <1>6 DEF FindNanobar
  <2>2. CASE KeyOf[b] \notin ToSet(nanobars)
             /\ Step(p, [job[p] EXCEPT !.at = "naming", !.brick = b, !.key = KeyOf[b]])
    <3> DEFINE j == [job[p] EXCEPT !.at = "naming", !.brick = b, !.key = KeyOf[b]]
    <3>1. Step(p, j)
      BY <2>2
    <3>2. /\ DOMAIN j = DOMAIN Idle
          /\ j.at = "naming" /\ j.brick = b /\ j.key = KeyOf[b]
          /\ \A f \in DOMAIN Idle : f \notin {"at", "brick", "key"} => j[f] = job[p][f]
      OBVIOUS
    <3> HIDE DEF j
    <3>3. QED
      BY <2>1, <2>2, <3>1, <3>2, StepChanges
  <2>3. CASE \E r \in Rows : /\ nanobars[r] = KeyOf[b]
                            /\ Step(p, [job[p] EXCEPT !.at = "binding", !.brick = b, !.row = r])
    <3>0. PICK r \in Rows : /\ nanobars[r] = KeyOf[b]
                            /\ Step(p, [job[p] EXCEPT !.at = "binding", !.brick = b, !.row = r])
      BY <2>3
    <3> DEFINE j == [job[p] EXCEPT !.at = "binding", !.brick = b, !.row = r]
    <3>1. Step(p, j)
      BY <3>0
    <3>2. /\ DOMAIN j = DOMAIN Idle
          /\ j.at = "binding" /\ j.brick = b /\ j.row = r
          /\ \A f \in DOMAIN Idle : f \notin {"at", "brick", "row"} => j[f] = job[p][f]
      OBVIOUS
    <3> HIDE DEF j
    <3>3. QED
      BY <2>1, <3>0, <3>1, <3>2, StepChanges
  <2>4. QED
    BY <2>1, <2>2, <2>3
<1>7. ASSUME ReadBound(p)
      PROVE  \E r \in job[p].touched :
                /\ Changes(p, {"at", "row", "seen"})
                /\ job'[p].at = "weigh" /\ job'[p].row = r /\ job'[p].seen = Measure(r)
  <2>1. PICK r \in job[p].touched :
           Step(p, [job[p] EXCEPT !.at = "weigh", !.row = r, !.seen = Measure(r)])
    BY <1>7 DEF ReadBound
  <2> DEFINE j == [job[p] EXCEPT !.at = "weigh", !.row = r, !.seen = Measure(r)]
  <2>2. Step(p, j)
    BY <2>1
  <2>3. /\ DOMAIN j = DOMAIN Idle
        /\ j.at = "weigh" /\ j.row = r /\ j.seen = Measure(r)
        /\ \A f \in DOMAIN Idle : f \notin {"at", "row", "seen"} => j[f] = job[p][f]
    OBVIOUS
  <2> HIDE DEF j
  <2>4. QED
    BY <2>1, <2>2, <2>3, StepChanges
<1>8. QED
  BY <1>1, <1>2, <1>3, <1>4, <1>5, <1>6, <1>7

\* And those of the other jobs.
LEMMA OtherChoices ==
    ASSUME DOMAIN job = Procs, NEW p \in Procs, DOMAIN job[p] = DOMAIN Idle
    PROVE  /\ Reload(p) =>
               \E from, to \in Places :
                  /\ <<from, to>> \in {<<"created", "scan">>, <<"named", "binding">>,
                                       <<"bound", "bind">>, <<"covered", "cover">>,
                                       <<"patched", "bind">>}
                  /\ job[p].at = from /\ Changes(p, {"at"}) /\ job'[p].at = to
           /\ StartUpdate(p) =>
               \E r \in Rows :
                  Changes(p, {"at", "row"}) /\ job'[p].at = "patch" /\ job'[p].row = r
           /\ Patch(p) =>
               \E c \in Criticalities :
                  /\ criticality' = [criticality EXCEPT ![job[p].row] = c]
                  /\ Changes(p, {"at", "row", "touched"}) /\ job'[p].at = "patched"
                  /\ job'[p].row = 0
                  /\ job'[p].touched = (IF c = criticality[job[p].row] THEN {} ELSE {job[p].row})
           /\ Cover(p) =>
               \E route \in job[p].routes :
                  /\ job'[p].routes = job[p].routes \ {route}
                  /\ \/ Changes(p, {"routes"})
                     \/ /\ <<Unclassified, route>> \notin ToSet(nanobars)
                        /\ Changes(p, {"routes", "at", "key"}) /\ job'[p].at = "placeholder"
                        /\ job'[p].key = <<Unclassified, route>>
           /\ File(p) =>
               \/ job' = job
               \/ \E r \in job[p].listed :
                     Changes(p, {"listed"}) /\ job'[p].listed = job[p].listed \ {r}
<1> USE FieldsOfJob
<1>1. ASSUME Reload(p)
      PROVE  \E from, to \in Places :
                /\ <<from, to>> \in {<<"created", "scan">>, <<"named", "binding">>,
                                     <<"bound", "bind">>, <<"covered", "cover">>,
                                     <<"patched", "bind">>}
                /\ job[p].at = from /\ Changes(p, {"at"}) /\ job'[p].at = to
  <2>1. PICK from \in Places, to \in Places :
           /\ <<from, to>> \in {<<"created", "scan">>, <<"named", "binding">>, <<"bound", "bind">>,
                              <<"covered", "cover">>, <<"patched", "bind">>}
           /\ job[p].at = from /\ Step(p, [job[p] EXCEPT !.at = to])
    BY <1>1 DEF Reload, Places, At
  <2> DEFINE j == [job[p] EXCEPT !.at = to]
  <2>2. Step(p, j)
    BY <2>1
  <2>3. /\ DOMAIN j = DOMAIN Idle
        /\ j.at = to
        /\ \A f \in DOMAIN Idle : f \notin {"at"} => j[f] = job[p][f]
    OBVIOUS
  <2> HIDE DEF j
  <2>4. QED
    BY <2>1, <2>2, <2>3, StepChanges
<1>2. ASSUME StartUpdate(p)
      PROVE  \E r \in Rows :
                Changes(p, {"at", "row"}) /\ job'[p].at = "patch" /\ job'[p].row = r
  <2>1. PICK r \in Rows : Step(p, [job[p] EXCEPT !.at = "patch", !.row = r])
    BY <1>2 DEF StartUpdate
  <2> DEFINE j == [job[p] EXCEPT !.at = "patch", !.row = r]
  <2>2. Step(p, j)
    BY <2>1
  <2>3. /\ DOMAIN j = DOMAIN Idle
        /\ j.at = "patch" /\ j.row = r
        /\ \A f \in DOMAIN Idle : f \notin {"at", "row"} => j[f] = job[p][f]
    OBVIOUS
  <2> HIDE DEF j
  <2>4. QED
    BY <2>1, <2>2, <2>3, StepChanges
<1>3. ASSUME Patch(p)
      PROVE  \E c \in Criticalities :
                /\ criticality' = [criticality EXCEPT ![job[p].row] = c]
                /\ Changes(p, {"at", "row", "touched"}) /\ job'[p].at = "patched" /\ job'[p].row = 0
                /\ job'[p].touched = (IF c = criticality[job[p].row] THEN {} ELSE {job[p].row})
  <2>1. PICK c \in Criticalities :
           /\ criticality' = [criticality EXCEPT ![job[p].row] = c]
           /\ Step(p, [job[p] EXCEPT !.at = "patched", !.row = 0,
                       !.touched = IF c = criticality[job[p].row] THEN {} ELSE {job[p].row}])
    BY <1>3 DEF Patch
  <2> DEFINE j == [job[p] EXCEPT !.at = "patched",
                                   !.row = 0,
                                   !.touched = (IF c = criticality[job[p].row]
                                                THEN {} ELSE {job[p].row})]
  <2>2. Step(p, j)
    BY <2>1
  <2>3. /\ DOMAIN j = DOMAIN Idle
        /\ j.at = "patched" /\ j.row = 0
        /\ j.touched = (IF c = criticality[job[p].row] THEN {} ELSE {job[p].row})
        /\ \A f \in DOMAIN Idle : f \notin {"at", "row", "touched"} => j[f] = job[p][f]
    OBVIOUS
  <2> HIDE DEF j
  <2>4. QED
    BY <2>1, <2>2, <2>3, StepChanges
<1>4. ASSUME Cover(p)
      PROVE  \E route \in job[p].routes :
                /\ job'[p].routes = job[p].routes \ {route}
                /\ \/ Changes(p, {"routes"})
                   \/ /\ <<Unclassified, route>> \notin ToSet(nanobars)
                      /\ Changes(p, {"routes", "at", "key"}) /\ job'[p].at = "placeholder"
                      /\ job'[p].key = <<Unclassified, route>>
  <2>1. PICK route \in job[p].routes :
           \/ Step(p, [job[p] EXCEPT !.routes = @ \ {route}])
           \/ /\ <<Unclassified, route>> \notin ToSet(nanobars)
              /\ Step(p, [job[p] EXCEPT !.routes = @ \ {route}, !.at = "placeholder",
                                        !.key = <<Unclassified, route>>])
    BY <1>4 DEF Cover
  <2>2. CASE Step(p, [job[p] EXCEPT !.routes = @ \ {route}])
    <3> DEFINE j == [job[p] EXCEPT !.routes = job[p].routes \ {route}]
    <3>1. Step(p, j)
      BY <2>2
    <3>2. /\ DOMAIN j = DOMAIN Idle
          /\ j.routes = job[p].routes \ {route}
          /\ \A f \in DOMAIN Idle : f \notin {"routes"} => j[f] = job[p][f]
      OBVIOUS
    <3> HIDE DEF j
    <3>3. QED
      BY <3>1, <3>2, StepChanges
  <2>3. CASE /\ <<Unclassified, route>> \notin ToSet(nanobars)
             /\ Step(p, [job[p] EXCEPT !.routes = @ \ {route}, !.at = "placeholder",
                                       !.key = <<Unclassified, route>>])
    <3> DEFINE j == [job[p] EXCEPT !.routes = job[p].routes \ {route},
                                     !.at = "placeholder",
                                     !.key = <<Unclassified, route>>]
    <3>1. Step(p, j)
      BY <2>3
    <3>2. /\ DOMAIN j = DOMAIN Idle
          /\ j.routes = job[p].routes \ {route} /\ j.at = "placeholder"
          /\ j.key = <<Unclassified, route>>
          /\ \A f \in DOMAIN Idle : f \notin {"routes", "at", "key"} => j[f] = job[p][f]
      OBVIOUS
    <3> HIDE DEF j
    <3>3. QED
      BY <2>3, <3>1, <3>2, StepChanges
  <2>4. QED
    BY <2>1, <2>2, <2>3
<1>5. ASSUME File(p)
      PROVE  \/ job' = job
             \/ \E r \in job[p].listed :
                   Changes(p, {"listed"}) /\ job'[p].listed = job[p].listed \ {r}
  <2>1. CASE job' = job
    BY <2>1
  <2>2. CASE \E r \in job[p].listed : Step(p, [job[p] EXCEPT !.listed = @ \ {r}])
    <3>0. PICK r \in job[p].listed : Step(p, [job[p] EXCEPT !.listed = @ \ {r}])
      BY <2>2
    <3> DEFINE j == [job[p] EXCEPT !.listed = job[p].listed \ {r}]
    <3>1. Step(p, j)
      BY <3>0
    <3>2. /\ DOMAIN j = DOMAIN Idle
          /\ j.listed = job[p].listed \ {r}
          /\ \A f \in DOMAIN Idle : f \notin {"listed"} => j[f] = job[p][f]
      OBVIOUS
    <3> HIDE DEF j
    <3>3. QED
      BY <3>1, <3>2, StepChanges
  <2>3. QED
    BY <1>5, <2>1, <2>2 DEF File
<1>6. QED
  BY <1>1, <1>2, <1>3, <1>4, <1>5

\* A job that is over leaves nothing behind.
LEMMA EndMoves ==
    ASSUME DOMAIN job = Procs, NEW p \in Procs,
           End(p) \/ EndRefresh(p) \/ Crash(p) \/ LockTimeout(p)
    PROVE  /\ DOMAIN job' = Procs /\ job'[p] = Idle
           /\ \A q \in Procs : q # p => job'[q] = job[q]
BY StepTakes DEF End, EndRefresh, Crash, LockTimeout, Abandon

\* What inserting a nanobar does to the table and its columns.
LEMMA Inserted ==
    ASSUME DataOK, NEW key \in NanobarKeys, NEW known, InsertNanobar(key, known)
    PROVE  /\ nanobars' = Append(nanobars, key)
           /\ nanobars' \in Seq(NanobarKeys)
           /\ Rows' = Rows \cup {Len(nanobars) + 1} /\ Len(nanobars) + 1 \notin Rows
           /\ \A r \in Rows : nanobars'[r] = nanobars[r]
           /\ nanobars'[Len(nanobars) + 1] = key
           /\ criticality' \in [Rows' -> Criticalities]
           /\ \A r \in Rows : criticality'[r] = criticality[r]
           /\ weight' \in [Rows' -> Weights]
           /\ \A r \in Rows : weight'[r] = weight[r]
           /\ weight'[Len(nanobars) + 1] = Unmeasured
           /\ filed' \in [Rows' -> SUBSET Fields]
<1>1. nanobars \in Seq(NanobarKeys) /\ nanobars' = Append(nanobars, key)
  BY DEF DataOK, InsertNanobar
<1>2. /\ nanobars' \in Seq(NanobarKeys)
      /\ DOMAIN nanobars' = DOMAIN nanobars \cup {Len(nanobars) + 1}
      /\ Len(nanobars) + 1 \notin DOMAIN nanobars
      /\ \A r \in DOMAIN nanobars : nanobars'[r] = nanobars[r]
      /\ nanobars'[Len(nanobars) + 1] = key
  BY <1>1, RowAppended
<1>3. /\ criticality' \in [DOMAIN nanobars' -> Criticalities]
      /\ \A r \in DOMAIN nanobars : criticality'[r] = criticality[r]
  <2>1. DefaultCriticality \in Criticalities
    BY BrickCatalogueAssumption
  <2>2. /\ criticality' = Append(criticality, DefaultCriticality)
        /\ criticality \in [DOMAIN nanobars -> Criticalities]
    BY DEF DataOK, InsertNanobar, Rows
  <2>3. QED
    BY <1>1, <2>1, <2>2, ColumnAppended
<1>4. /\ weight' \in [DOMAIN nanobars' -> Weights]
      /\ \A r \in DOMAIN nanobars : weight'[r] = weight[r]
      /\ weight'[Len(nanobars) + 1] = Unmeasured
  <2>1. Unmeasured \in Weights
    BY DEF Weights
  <2>2. QED
    BY <1>1, <2>1, ColumnAppended DEF DataOK, InsertNanobar, Rows
<1>5. filed' \in [DOMAIN nanobars' -> SUBSET Fields]
  <2>1. PICK e \in SUBSET Fields : filed' = Append(filed, e)
    BY DEF InsertNanobar
  <2>2. filed \in [DOMAIN nanobars -> SUBSET Fields]
    BY DEF DataOK, Rows
  <2>3. QED
    BY <1>1, <2>1, <2>2, ColumnAppended
<1>6. QED
  BY <1>1, <1>2, <1>3, <1>4, <1>5 DEF Rows

\* The bounds of the model are numbers.
LEMMA MaxNat == MaxJobs \in Nat /\ MaxCrashes \in Nat
BY BrickCatalogueAssumption

\* Every step grows the tables and leaves their types as they are.
LEMMA DataStep ==
    ASSUME TInv, [Next]_vars
    PROVE  DataOK' /\ Grown
<1> USE DEF TInv, DataOK, Grown, Rows, Weights
<1>1. CASE UNCHANGED vars \/ Rest
  BY <1>1 DEF Rest, vars, telemetry, catalogue, rowVars, history, failures
<1>2. ASSUME NEW s \in Spans, Ingest(s)
      PROVE  DataOK' /\ Grown
  BY <1>2 DEF Ingest, catalogue, rowVars, history, failures
<1> USE DEF Begin, Release, Free, telemetry, catalogue, rowVars, history, failures
<1>3. ASSUME NEW p \in Procs, StartGenerate(p) \/ StartRefresh(p) \/ StartUpdate(p)
      PROVE  DataOK' /\ Grown
  <2>1. started < MaxJobs /\ started' = started + 1
    BY <1>3 DEF StartGenerate, StartRefresh, StartUpdate, Start
  <2>2. started' \in 0..MaxJobs
    BY <2>1, MaxNat
  <2>3. UNCHANGED <<telemetry, catalogue, failures>> /\ lock' \in Procs \cup {None}
    BY <1>3 DEF StartGenerate, StartRefresh, StartUpdate
  <2>4. QED
    BY <2>2, <2>3
<1>4. ASSUME NEW p \in Procs,
             \/ Look(p) \/ Select(p) \/ NextTrace(p) \/ SkipMalformed(p) \/ SkipUnkeyed(p)
             \/ TakeResolved(p)
      PROVE  DataOK' /\ Grown
  BY <1>4 DEF Look, Select, NextTrace, SkipMalformed, SkipUnkeyed, TakeResolved
<1>5. ASSUME NEW p \in Procs,
             \/ LookUpHash(p) \/ Collect(p) \/ FindNanobar(p) \/ ReadBound(p) \/ End(p)
             \/ Reload(p) \/ Cover(p) \/ ListNanobars(p) \/ EndRefresh(p)
      PROVE  DataOK' /\ Grown
  <2>1. lock' \in Procs \cup {None}
    BY <1>5 DEF LookUpHash, Collect, FindNanobar, ReadBound, End, Reload, Cover,
                ListNanobars, EndRefresh
  <2>2. UNCHANGED <<telemetry, catalogue, history>>
    BY <1>5 DEF LookUpHash, Collect, FindNanobar, ReadBound, End, Reload, Cover,
                ListNanobars, EndRefresh
  <2>3. QED
    BY <2>1, <2>2
<1>6. ASSUME NEW p \in Procs, CreateBrick(p)
      PROVE  DataOK' /\ Grown
  <2>1. Head(job[p].spans) \in stored
    BY <1>6, HeadTailProperties DEF CreateBrick, At, JobOK
  <2>2. QED
    BY <1>6, <2>1 DEF CreateBrick
<1>7. ASSUME NEW p \in Procs, MarkProcessed(p)
      PROVE  DataOK' /\ Grown
  <2>1. job[p].attempted \subseteq stored
    BY DEF JobOK
  <2>2. QED
    BY <1>7, <2>1 DEF MarkProcessed
<1>8. ASSUME NEW p \in Procs, CreateNanobar(p) \/ CreatePlaceholder(p)
      PROVE  DataOK' /\ Grown
  <2>1. /\ job[p].key \in NanobarKeys
        /\ \/ InsertNanobar(job[p].key, p \in WithManifest)
           \/ InsertNanobar(job[p].key, TRUE)
    BY <1>8 DEF CreateNanobar, CreatePlaceholder, At, JobOK
  <2>2. /\ UNCHANGED <<stored, processed, bricks, bound, started, crashes, orphans, forgotten>>
        /\ lock' \in Procs \cup {None}
    BY <1>8 DEF CreateNanobar, CreatePlaceholder
  <2> HIDE DEF Weights, DataOK
  <2>3. DataOK
    OBVIOUS
  <2>4. /\ nanobars' \in Seq(NanobarKeys)
        /\ Rows \subseteq Rows'
        /\ \A r \in Rows : nanobars'[r] = nanobars[r]
        /\ criticality' \in [Rows' -> Criticalities]
        /\ weight' \in [Rows' -> Weights]
        /\ filed' \in [Rows' -> SUBSET Fields]
    BY <2>1, <2>3, Inserted DEF Rows
  <2>5. Weights' = Weights
    BY <2>2 DEF Weights
  <2> HIDE DEF Rows
  <2>6. QED
    BY <2>2, <2>3, <2>4, <2>5 DEF DataOK
<1>9. ASSUME NEW p \in Procs, Bind(p)
      PROVE  DataOK' /\ Grown
  <2>1. job[p].row \in Rows /\ job[p].brick \in bricks
    BY <1>9 DEF Bind, At, JobOK
  <2>2. QED
    BY <1>9, <2>1 DEF Bind
<1>10. ASSUME NEW p \in Procs, WriteWeight(p)
       PROVE  DataOK' /\ Grown
  <2>1. job[p].row \in Rows /\ job[p].seen \in Weights
    BY <1>10 DEF WriteWeight, At, JobOK
  <2>2. QED
    BY <1>10, <2>1 DEF WriteWeight
<1>11. ASSUME NEW p \in Procs, File(p)
       PROVE  DataOK' /\ Grown
  <2>1. job[p].listed \subseteq Rows
    BY DEF JobOK
  <2>2. CASE UNCHANGED filed
    BY <1>11, <2>2 DEF File
  <2>3. CASE \E r \in job[p].listed, field \in Fields :
                filed' = [filed EXCEPT ![r] = @ \cup {field}]
    <3>1. filed' \in [Rows -> SUBSET Fields]
      BY <2>1, <2>3
    <3>2. QED
      BY <1>11, <3>1 DEF File
  <2>4. QED
    BY <1>11, <2>2, <2>3 DEF File
<1>12. ASSUME NEW p \in Procs, Patch(p)
       PROVE  DataOK' /\ Grown
  <2>1. job[p].row \in Rows
    BY <1>12 DEF Patch, At, JobOK
  <2>2. /\ criticality' \in [Rows -> Criticalities]
        /\ filed' \in [Rows -> SUBSET Fields]
    BY <1>12, <2>1 DEF Patch
  <2>3. QED
    BY <1>12, <2>2 DEF Patch
<1>13. ASSUME NEW p \in Procs, Crash(p) \/ LockTimeout(p)
       PROVE  DataOK' /\ Grown
  <2>1. crashes' \in 0..MaxCrashes
    BY <1>13, MaxNat DEF Crash, LockTimeout
  <2>2. job[p].fresh \subseteq bricks /\ job[p].touched \subseteq Rows
    BY DEF JobOK
  <2>3. QED
    BY <1>13, <2>1, <2>2 DEF Crash, LockTimeout, Abandon
<1>14. QED
  BY <1>1, <1>2, <1>3, <1>4, <1>5, <1>6, <1>7, <1>8, <1>9, <1>10, <1>11, <1>12, <1>13
     DEF Next, Work, Generate, Refresh

\* What a job knows stays true as the tables grow.
Carried(p) ==
    /\ job[p].at \in Places
    /\ job[p].fresh \subseteq bricks'
    /\ job[p].touched \subseteq Rows'
    /\ job[p].listed \subseteq Rows'
    /\ job[p].routes \subseteq Manifest
    /\ job[p].attempted \subseteq stored'
    /\ job[p].spans \in Seq(stored')
    /\ job[p].at = "create" => job[p].spans # <<>>
    /\ job[p].at \in {"naming", "placeholder"} => job[p].key \in NanobarKeys
    /\ job[p].at \in {"named", "binding", "weigh", "patch"} => job[p].row \in Rows'
    /\ job[p].at \in {"naming", "named", "binding"} => job[p].brick \in bricks'
    /\ job[p].at = "weigh" => job[p].seen \in Weights'

\* When the tables only grew, what a job carries stays true of them.
LEMMA AllCarried ==
    ASSUME TInv, Grown, NEW p \in Procs
    PROVE  Carried(p)
<1>1. job[p].spans \in Seq(stored')
  BY SeqMonotonic DEF TInv, JobOK, Grown
<1>2. Weights \subseteq Weights'
  BY DEF Grown, Weights
<1>3. JobOK(p)
  BY DEF TInv
<1>4. QED
  BY <1>1, <1>2, <1>3 DEF JobOK, Grown, Carried

\* A job that did not move keeps its types.
LEMMA JobKept ==
    ASSUME TInv, Grown, NEW p \in Procs, job'[p] = job[p]
    PROVE  JobOK(p)'
<1>1. Carried(p) /\ JobOK(p)
  BY AllCarried DEF TInv
<1>2. QED
  BY <1>1 DEF Carried, JobOK


\* Where a job uses none of the variables that need more than their type.
LEMMA PlainJob ==
    ASSUME NEW p \in Procs, DOMAIN job'[p] = DOMAIN Idle,
           job'[p].at \in Places \ {"create", "naming", "placeholder", "named", "binding",
                                    "weigh", "patch"},
           job'[p].fresh \subseteq bricks', job'[p].touched \subseteq Rows',
           job'[p].listed \subseteq Rows', job'[p].routes \subseteq Manifest,
           job'[p].attempted \subseteq stored', job'[p].spans \in Seq(stored')
    PROVE  JobOK(p)'
BY DEF JobOK

\* A job that moves has variables of their types again.
LEMMA JobMoves ==
    ASSUME TInv, DataOK', Grown, NEW p \in Procs,
           \/ StartGenerate(p) \/ StartRefresh(p) \/ StartUpdate(p) \/ Work(p) \/ Crash(p)
    PROVE  JobOK(p)'
<1>1. Carried(p)
  BY AllCarried
<1>2. JobOK(p)
  BY DEF TInv
<1>3. DOMAIN job = Procs /\ DOMAIN job[p] = DOMAIN Idle
  BY <1>2 DEF TInv, JobOK
<1> USE DEF Places, At
<1>4. CASE StartGenerate(p)
  <2>1. Changes(p, {"at", "backlog"}) /\ job'[p].at = "look"
    BY <1>3, <1>4, ScanMoves
  <2>2. QED
    BY <1>1, <2>1, OthersKept, PlainJob DEF Carried
<1>5. CASE StartRefresh(p)
  <2>1. /\ Changes(p, {"at", "routes"}) /\ job'[p].at = "cover"
        /\ job'[p].routes \subseteq Manifest
    BY <1>3, <1>5, BindMoves
  <2>2. QED
    BY <1>1, <2>1, OthersKept, PlainJob DEF Carried
<1>6. CASE StartUpdate(p)
  <2>1. PICK r \in Rows :
           Changes(p, {"at", "row"}) /\ job'[p].at = "patch" /\ job'[p].row = r
    BY <1>3, <1>6, OtherChoices
  <2>2. QED
    BY <1>1, <2>1, OthersKept DEF Carried, Grown, JobOK
<1>7. CASE Look(p)
  <2>1. Changes(p, {"at", "more"}) /\ job'[p].at \in {"bind", "collect", "select"}
    BY <1>3, <1>7, ScanChoices DEF Scanned
  <2>2. QED
    BY <1>1, <2>1, OthersKept, PlainJob DEF Carried
<1>8. CASE Select(p)
  <2>1. Changes(p, {"at", "traces"}) /\ job'[p].at = "scan"
    BY <1>3, <1>8, ScanMoves
  <2>2. QED
    BY <1>1, <2>1, OthersKept, PlainJob DEF Carried
<1>9. CASE NextTrace(p)
  <2>1. PICK S \in SUBSET stored :
           Changes(p, {"traces", "spans"}) /\ job'[p].spans = Oldest(S)
    BY <1>3, <1>9, ScanChoices DEF Unprocessed
  <2>2. Oldest(S) \in Seq(stored')
    <3>1. S \in SUBSET Spans /\ S \subseteq stored'
      BY DEF TInv, DataOK, Grown
    <3>2. QED
      BY <3>1, OldestRanked, SeqMonotonic
  <2>3. job[p].at = "scan"
    BY <1>9 DEF NextTrace
  <2>4. QED
    BY <1>1, <2>1, <2>2, <2>3, OthersKept, PlainJob DEF Carried
<1>10. CASE SkipMalformed(p) \/ LookUpHash(p) \/ CreateBrick(p)
  <2>1. /\ job[p].spans # <<>>
        /\ Head(job[p].spans) \in stored' /\ Tail(job[p].spans) \in Seq(stored')
    <3>1. job[p].spans # <<>> /\ job[p].spans \in Seq(stored')
      BY <1>1, <1>2, <1>10 DEF SkipMalformed, LookUpHash, CreateBrick, JobOK, Carried
    <3>2. QED
      BY <3>1, HeadTailProperties
  <2>2. ASSUME Changes(p, {"at", "spans", "attempted"}), job'[p].at = "scan",
               job'[p].spans = Tail(job[p].spans),
               job'[p].attempted = job[p].attempted \cup {Head(job[p].spans)}
        PROVE  JobOK(p)'
    <3>1. job'[p].spans \in Seq(stored') /\ job'[p].attempted \subseteq stored'
      BY <1>1, <2>1, <2>2 DEF Carried
    <3>2. /\ DOMAIN job'[p] = DOMAIN Idle /\ job'[p].at \in {"scan"}
          /\ job'[p].fresh = job[p].fresh /\ job'[p].touched = job[p].touched
          /\ job'[p].listed = job[p].listed /\ job'[p].routes = job[p].routes
      BY <2>2, OthersKept
    <3>3. QED
      BY <1>1, <3>1, <3>2, PlainJob DEF Carried
  <2>3. CASE SkipMalformed(p)
    BY <1>3, <2>2, <2>3, ScanMoves
  <2>4. CASE LookUpHash(p)
    <3>1. CASE Changes(p, {"at"}) /\ job'[p].at = "create"
      BY <1>1, <2>1, <3>1, OthersKept DEF Carried, JobOK
    <3>2. QED
      BY <1>3, <2>2, <2>4, <3>1, ScanChoices
  <2>5. CASE CreateBrick(p)
    <3>1. bricks' = bricks \cup {Head(job[p].spans)}
      BY <2>5 DEF CreateBrick
    <3>2. /\ Changes(p, {"at", "spans", "attempted", "fresh"})
          /\ job'[p].at = "created" /\ job'[p].spans = Tail(job[p].spans)
          /\ job'[p].attempted = job[p].attempted \cup {Head(job[p].spans)}
          /\ job'[p].fresh = job[p].fresh \cup {Head(job[p].spans)}
      BY <1>3, <2>5, ScanMoves
    <3>3. /\ job'[p].spans \in Seq(stored') /\ job'[p].attempted \subseteq stored'
          /\ job'[p].fresh \subseteq bricks'
      BY <1>1, <2>1, <3>1, <3>2 DEF Carried
    <3>4. /\ DOMAIN job'[p] = DOMAIN Idle /\ job'[p].at \in {"created"}
          /\ job'[p].touched = job[p].touched
          /\ job'[p].listed = job[p].listed /\ job'[p].routes = job[p].routes
      BY <3>2, OthersKept
    <3>5. QED
      BY <1>1, <3>3, <3>4, PlainJob DEF Carried
  <2>6. QED
    BY <1>10, <2>3, <2>4, <2>5
<1>11. CASE MarkProcessed(p)
  <2>1. /\ Changes(p, {"at", "attempted"}) /\ job'[p].at \in {"look", "bind", "collect"}
        /\ job'[p].attempted = {}
    BY <1>3, <1>11, ScanMoves DEF Scanned
  <2>2. QED
    BY <1>1, <2>1, OthersKept, PlainJob DEF Carried
<1>12. CASE Collect(p)
  <2>1. Changes(p, {"at"}) /\ job'[p].at = "bind"
    BY <1>3, <1>12, ScanMoves
  <2>2. QED
    BY <1>1, <2>1, OthersKept, PlainJob DEF Carried
<1>13. CASE SkipUnkeyed(p)
  <2>1. /\ Changes(p, {"fresh"}) /\ job'[p].fresh \subseteq job[p].fresh
        /\ job[p].at = "bind"
    BY <1>3, <1>13, ScanChoices DEF SkipUnkeyed
  <2>2. QED
    BY <1>1, <2>1, OthersKept, PlainJob DEF Carried
<1>14. CASE TakeResolved(p)
  <2>1. PICK b \in job[p].fresh, r \in job[p].touched :
           /\ Changes(p, {"at", "brick", "row"})
           /\ job'[p].at = "binding" /\ job'[p].brick = b /\ job'[p].row = r
    BY <1>3, <1>14, ScanChoices
  <2>2. QED
    BY <1>1, <2>1, OthersKept DEF Carried, JobOK
<1>15. CASE FindNanobar(p)
  <2>1. \A b \in job[p].fresh : KeyOf[b] \in NanobarKeys
    BY <1>2 DEF JobOK, TInv, DataOK, NanobarKeys
  <2>2. PICK b \in job[p].fresh :
           \/ \E r \in Rows : /\ Changes(p, {"at", "brick", "row"})
                              /\ job'[p].at = "binding" /\ job'[p].brick = b /\ job'[p].row = r
           \/ /\ Changes(p, {"at", "brick", "key"})
              /\ job'[p].at = "naming" /\ job'[p].brick = b /\ job'[p].key = KeyOf[b]
    BY <1>3, <1>15, ScanChoices
  <2>3. QED
    BY <1>1, <2>1, <2>2, OthersKept DEF Carried, JobOK, Grown
<1>16. CASE CreateNanobar(p)
  <2>1. Len(nanobars) + 1 \in Rows'
    BY <1>2, <1>16, Inserted DEF TInv, CreateNanobar, JobOK
  <2>2. /\ Changes(p, {"at", "key", "row"}) /\ job'[p].at = "named"
        /\ job'[p].row = Len(nanobars) + 1 /\ job[p].at = "naming"
    BY <1>3, <1>16, BindMoves DEF CreateNanobar
  <2>3. QED
    BY <1>1, <2>1, <2>2, OthersKept DEF Carried, JobOK
<1>17. CASE Bind(p)
  <2>1. /\ Changes(p, {"at", "row", "brick", "fresh", "touched"}) /\ job'[p].at = "bound"
        /\ job'[p].fresh \subseteq job[p].fresh
        /\ job'[p].touched = job[p].touched \cup {job[p].row} /\ job[p].at = "binding"
    BY <1>3, <1>17, BindMoves DEF Bind
  <2>2. QED
    BY <1>1, <2>1, OthersKept, PlainJob DEF Carried
<1>18. CASE ReadBound(p)
  <2>1. PICK r \in job[p].touched :
           /\ Changes(p, {"at", "row", "seen"})
           /\ job'[p].at = "weigh" /\ job'[p].row = r /\ job'[p].seen = Measure(r)
    BY <1>3, <1>18, ScanChoices
  <2>2. Measure(r) \in Weights'
    BY <1>2, <2>1 DEF Measure, Weights, BoundTo, JobOK, TInv, DataOK, Grown
  <2>3. QED
    BY <1>1, <2>1, <2>2, OthersKept DEF Carried, JobOK
<1>19. CASE WriteWeight(p)
  <2>1. /\ Changes(p, {"at", "row", "seen", "touched"}) /\ job'[p].at = "bind"
        /\ job'[p].touched \subseteq job[p].touched
    BY <1>3, <1>19, BindMoves
  <2>2. QED
    BY <1>1, <2>1, OthersKept, PlainJob DEF Carried
<1>20. CASE End(p) \/ EndRefresh(p) \/ Crash(p) \/ LockTimeout(p)
  <2>1. job'[p] = Idle
    BY <1>3, <1>20, EndMoves
  <2>2. QED
    BY <2>1, EmptySeq DEF Idle, JobOK
<1>21. CASE Reload(p)
  <2>1. PICK from \in Places, to \in Places :
           /\ <<from, to>> \in {<<"created", "scan">>, <<"named", "binding">>,
                                <<"bound", "bind">>, <<"covered", "cover">>,
                                <<"patched", "bind">>}
           /\ job[p].at = from /\ Changes(p, {"at"}) /\ job'[p].at = to
    BY <1>3, <1>21, OtherChoices
  <2>2. CASE from = "named" /\ to = "binding"
    BY <1>1, <2>1, <2>2, OthersKept DEF Carried, JobOK
  <2>3. CASE to \in {"scan", "bind", "cover"}
    BY <1>1, <2>1, <2>3, OthersKept, PlainJob DEF Carried
  <2>4. QED
    BY <2>1, <2>2, <2>3
<1>22. CASE Cover(p)
  <2>1. \A route \in job[p].routes : <<Unclassified, route>> \in NanobarKeys
    BY <1>1 DEF Carried, NanobarKeys
  <2>2. job[p].at = "cover"
    BY <1>22 DEF Cover
  <2>3. PICK route \in job[p].routes :
           /\ job'[p].routes = job[p].routes \ {route}
           /\ \/ Changes(p, {"routes"})
              \/ /\ Changes(p, {"routes", "at", "key"}) /\ job'[p].at = "placeholder"
                 /\ job'[p].key = <<Unclassified, route>>
    BY <1>3, <1>22, OtherChoices
  <2>4. CASE Changes(p, {"routes"})
    BY <1>1, <2>2, <2>3, <2>4, OthersKept, PlainJob DEF Carried
  <2>5. CASE /\ Changes(p, {"routes", "at", "key"}) /\ job'[p].at = "placeholder"
             /\ job'[p].key = <<Unclassified, route>>
    BY <1>1, <2>1, <2>3, <2>5, OthersKept DEF Carried, JobOK
  <2>6. QED
    BY <2>3, <2>4, <2>5
<1>23. CASE CreatePlaceholder(p)
  <2>1. Changes(p, {"at", "key"}) /\ job'[p].at = "covered"
    BY <1>3, <1>23, BindMoves
  <2>2. QED
    BY <1>1, <2>1, OthersKept, PlainJob DEF Carried
<1>24. CASE ListNanobars(p)
  <2>1. /\ Changes(p, {"at", "listed"}) /\ job'[p].at = "file"
        /\ job'[p].listed \subseteq Rows'
    BY <1>3, <1>24, BindMoves DEF Grown
  <2>2. QED
    BY <1>1, <2>1, OthersKept, PlainJob DEF Carried
<1>25. CASE File(p)
  <2>1. CASE job' = job
    BY <1>1, <1>2, <2>1 DEF Carried, JobOK
  <2>2. CASE Changes(p, {"listed"}) /\ job'[p].listed \subseteq job[p].listed
    <3>1. job[p].at = "file"
      BY <1>25 DEF File
    <3>2. QED
      BY <1>1, <2>2, <3>1, OthersKept, PlainJob DEF Carried
  <2>3. QED
    BY <1>3, <1>25, <2>1, <2>2, OtherChoices
<1>26. CASE Patch(p)
  <2>1. /\ Changes(p, {"at", "row", "touched"}) /\ job'[p].at = "patched"
        /\ job'[p].touched \subseteq {job[p].row} /\ job[p].at = "patch"
    BY <1>3, <1>26, OtherChoices DEF Patch
  <2>2. QED
    BY <1>1, <2>1, OthersKept, PlainJob DEF Carried
<1>27. QED
  BY <1>4, <1>5, <1>6, <1>7, <1>8, <1>9, <1>10, <1>11, <1>12, <1>13, <1>14, <1>15, <1>16,
     <1>17, <1>18, <1>19, <1>20, <1>21, <1>22, <1>23, <1>24, <1>25, <1>26
     DEF Work, Generate, Refresh

\* A step of a process leaves the jobs of the others where they are.
LEMMA JobSteps ==
    ASSUME DOMAIN job = Procs, NEW p \in Procs,
           \/ StartGenerate(p) \/ StartRefresh(p) \/ StartUpdate(p) \/ Work(p) \/ Crash(p)
    PROVE  DOMAIN job' = Procs /\ \A q \in Procs : q # p => job'[q] = job[q]
<1> USE StepTakes
<1>1. CASE StartGenerate(p) \/ StartRefresh(p) \/ StartUpdate(p) \/ Reload(p) \/ Patch(p)
  BY <1>1 DEF StartGenerate, StartRefresh, StartUpdate, Reload, Patch
<1>2. CASE \/ Look(p) \/ Select(p) \/ NextTrace(p) \/ SkipMalformed(p) \/ LookUpHash(p)
           \/ CreateBrick(p) \/ MarkProcessed(p) \/ Collect(p) \/ SkipUnkeyed(p)
  BY <1>2 DEF Look, Select, NextTrace, SkipMalformed, LookUpHash, CreateBrick, MarkProcessed,
              Collect, SkipUnkeyed
<1>3. CASE TakeResolved(p) \/ FindNanobar(p) \/ CreateNanobar(p) \/ Bind(p)
  BY <1>3 DEF TakeResolved, FindNanobar, CreateNanobar, Bind
<1>4. CASE ReadBound(p) \/ WriteWeight(p) \/ End(p) \/ LockTimeout(p) \/ Crash(p)
  BY <1>4 DEF ReadBound, WriteWeight, End, LockTimeout, Crash, Abandon
<1>5. CASE Refresh(p)
  BY <1>5 DEF Refresh, Cover, CreatePlaceholder, ListNanobars, File, EndRefresh
<1>6. QED
  BY <1>1, <1>2, <1>3, <1>4, <1>5 DEF Work, Generate

\* The tables start empty, but for the nanobars known before.
LEMMA TInvInit == Init => TInv
<1> SUFFICES ASSUME Init PROVE TInv
  OBVIOUS
<1> USE BrickCatalogueAssumption
<1>1. \A p \in Procs : JobOK(p)
  <2> SUFFICES ASSUME NEW p \in Procs PROVE JobOK(p)
    OBVIOUS
  <2>1. job[p] = Idle
    BY DEF Init
  <2>2. QED
    BY <2>1, EmptySeq DEF JobOK, Idle, Places
<1>2. nanobars \in Seq(NanobarKeys)
  <2>1. ToSet(Known) \subseteq NanobarKeys
    BY DEF NanobarKeys
  <2>2. QED
    BY <2>1, SeqMonotonic DEF Init
<1>3. /\ weight \in [Rows -> Weights]
      /\ criticality \in [Rows -> Criticalities]
      /\ filed \in [Rows -> SUBSET Fields]
  BY DEF Init, Weights
<1>4. started \in 0..MaxJobs /\ crashes \in 0..MaxCrashes
  BY MaxNat DEF Init
<1>5. DOMAIN job = Procs
  BY DEF Init
<1>6. /\ stored \subseteq Spans /\ processed \subseteq stored /\ bricks \subseteq stored
      /\ bound \subseteq Rows \X bricks /\ lock \in Procs \cup {None}
      /\ orphans \subseteq bricks /\ forgotten \subseteq Rows
  BY DEF Init
<1>7. QED
  BY <1>1, <1>2, <1>3, <1>4, <1>5, <1>6 DEF TInv, DataOK

\* Every step of every job keeps the types.
LEMMA TInvStep == TInv /\ [Next]_vars => TInv'
<1> SUFFICES ASSUME TInv, [Next]_vars PROVE TInv'
  OBVIOUS
<1>1. DataOK' /\ Grown
  BY DataStep
<1>2. DOMAIN job = Procs /\ \A p \in Procs : JobOK(p) /\ DOMAIN job[p] = DOMAIN Idle
  BY DEF TInv, JobOK
<1>3. CASE job' = job
  BY <1>1, <1>2, <1>3, JobKept DEF TInv
<1>4. ASSUME NEW p \in Procs,
             \/ StartGenerate(p) \/ StartRefresh(p) \/ StartUpdate(p) \/ Work(p) \/ Crash(p)
      PROVE  TInv'
  <2>1. JobOK(p)'
    BY <1>1, <1>4, JobMoves
  <2>2. DOMAIN job' = Procs /\ \A q \in Procs : q # p => job'[q] = job[q]
    BY <1>2, <1>4, JobSteps
  <2>3. \A q \in Procs : JobOK(q)'
    BY <1>1, <2>1, <2>2, JobKept
  <2>4. QED
    BY <1>1, <2>2, <2>3 DEF TInv
<1>5. QED
  BY <1>3, <1>4 DEF Next, Rest, Ingest, vars

\* The tables hold what their columns may, and each job carries in memory only
\* what it has read: every theorem below rests on it.
THEOREM TInvAlways == Spec => []TInv
BY TInvInit, TInvStep, PTL DEF Spec

\* The tables, the lock and the local variables of the jobs have their types: no row, brick or
\* span is referred to that is not there, and the columns of the nanobars are as long as their
\* table.
THEOREM TypeCorrect == Spec => []TypeOK
<1>1. TInv => TypeOK
  <2> SUFFICES ASSUME TInv PROVE TypeOK
    OBVIOUS
  <2>1. \A p \in Procs : ToSet(job[p].spans) \subseteq stored
    BY ElementsTyped DEF TInv, JobOK
  <2>2. QED
    BY <2>1 DEF TInv, DataOK, JobOK, TypeOK, Weights
<1>2. QED
  BY <1>1, TInvAlways, PTL

-----------------------------------------------------------------------------
(* The write lock: what was read under it is still so when it is used.       *)

\* A job that is to write what it made of a read holds the lock since that read, and what
\* it read has not changed.
Claims(p) ==
    /\ job[p].at \in {"create", "naming", "placeholder", "weigh", "patch"} => lock = p
    /\ job[p].at = "create" => \A b \in bricks : HashOf[b] # HashOf[Head(job[p].spans)]
    /\ job[p].at \in {"naming", "placeholder"} => job[p].key \notin ToSet(nanobars)
    /\ job[p].at = "weigh" => /\ job[p].row \in job[p].touched
                              /\ job[p].seen = Measure(job[p].row)

LockInv == \A p \in Procs : Claims(p)

ProcStep(p) == StartGenerate(p) \/ StartRefresh(p) \/ StartUpdate(p) \/ Work(p) \/ Crash(p)

\* No step of another process touches the catalogue or the lock of the process that has it.
LEMMA HolderUndisturbed ==
    ASSUME NEW p \in Procs, NEW q \in Procs, q # p, lock = q, ProcStep(p)
    PROVE  lock' = q /\ UNCHANGED catalogue
<1>1. ~Free(p)
  BY BrickCatalogueAssumption DEF Free
<1> USE <1>1 DEF Begin, Release
<1>2. CASE StartGenerate(p) \/ StartRefresh(p) \/ StartUpdate(p) \/ Reload(p) \/ Patch(p)
  BY <1>2 DEF StartGenerate, StartRefresh, StartUpdate, Reload, Patch
<1>3. CASE \/ Look(p) \/ Select(p) \/ NextTrace(p) \/ SkipMalformed(p) \/ LookUpHash(p)
           \/ CreateBrick(p) \/ MarkProcessed(p) \/ Collect(p) \/ SkipUnkeyed(p)
  BY <1>3 DEF Look, Select, NextTrace, SkipMalformed, LookUpHash, CreateBrick, MarkProcessed,
              Collect, SkipUnkeyed
<1>4. CASE TakeResolved(p) \/ FindNanobar(p) \/ CreateNanobar(p) \/ Bind(p)
  BY <1>4 DEF TakeResolved, FindNanobar, CreateNanobar, Bind
<1>5. CASE ReadBound(p) \/ WriteWeight(p) \/ End(p) \/ LockTimeout(p) \/ Crash(p)
  BY <1>5 DEF ReadBound, WriteWeight, End, LockTimeout, Crash, Abandon
<1>6. CASE Refresh(p)
  BY <1>6 DEF Refresh, Cover, CreatePlaceholder, ListNanobars, File, EndRefresh
<1>7. QED
  BY <1>2, <1>3, <1>4, <1>5, <1>6 DEF ProcStep, Work, Generate

\* A job at none of the places where the lock is held claims nothing.
LEMMA NoClaim ==
    ASSUME NEW p \in Procs,
           job'[p].at \in Places \ {"create", "naming", "placeholder", "weigh", "patch"}
    PROVE  Claims(p)'
BY DEF Claims

\* What a process claims after a step of its own.
LEMMA ClaimMoves ==
    ASSUME TInv, NEW p \in Procs, Claims(p), ProcStep(p)
    PROVE  Claims(p)'
<1>1. DOMAIN job = Procs /\ DOMAIN job[p] = DOMAIN Idle /\ JobOK(p) /\ job[p].at \in Places
  BY DEF TInv, JobOK
<1> USE DEF Places, At
<1>2. CASE StartGenerate(p) \/ Select(p) \/ SkipMalformed(p) \/ CreateBrick(p) \/ Collect(p)
  BY <1>1, <1>2, ScanMoves, NoClaim
<1>3. CASE MarkProcessed(p) \/ Look(p)
  <2>1. job'[p].at \in {"look", "bind", "collect", "select"}
    BY <1>1, <1>3, ScanMoves, ScanChoices DEF Scanned
  <2>2. QED
    BY <2>1, NoClaim
<1>4. CASE \/ CreateNanobar(p) \/ Bind(p) \/ WriteWeight(p) \/ StartRefresh(p)
           \/ CreatePlaceholder(p) \/ ListNanobars(p)
  BY <1>1, <1>4, BindMoves, NoClaim
<1>5. CASE NextTrace(p)
  <2>1. Changes(p, {"traces", "spans"}) /\ job[p].at = "scan"
    BY <1>1, <1>5, ScanChoices DEF NextTrace
  <2>2. QED
    BY <2>1, OthersKept, NoClaim
<1>6. CASE LookUpHash(p)
  <2>1. CASE job'[p].at = "scan"
    BY <2>1, NoClaim
  <2>2. CASE /\ ~\E b \in bricks : HashOf[b] = HashOf[Head(job[p].spans)]
             /\ Changes(p, {"at"}) /\ job'[p].at = "create"
    <3>1. lock' = p /\ bricks' = bricks
      BY <1>6 DEF LookUpHash, Begin, catalogue
    <3>2. job'[p].spans = job[p].spans
      BY <2>2, OthersKept
    <3>3. QED
      BY <2>2, <3>1, <3>2 DEF Claims
  <2>3. QED
    BY <1>1, <1>6, <2>1, <2>2, ScanChoices
<1>7. CASE SkipUnkeyed(p)
  <2>1. Changes(p, {"fresh"}) /\ job[p].at = "bind"
    BY <1>1, <1>7, ScanChoices DEF SkipUnkeyed
  <2>2. QED
    BY <2>1, OthersKept, NoClaim
<1>8. CASE TakeResolved(p)
  BY <1>1, <1>8, ScanChoices, NoClaim
<1>9. CASE FindNanobar(p)
  <2>1. PICK b \in job[p].fresh :
           \/ job'[p].at = "binding"
           \/ /\ KeyOf[b] \notin ToSet(nanobars)
              /\ job'[p].at = "naming" /\ job'[p].key = KeyOf[b]
    BY <1>1, <1>9, ScanChoices
  <2>2. lock' = p /\ nanobars' = nanobars
    BY <1>9 DEF FindNanobar, Begin, catalogue, rowVars
  <2>3. QED
    BY <2>1, <2>2 DEF Claims
<1>10. CASE ReadBound(p)
  <2>1. PICK r \in job[p].touched :
           /\ Changes(p, {"at", "row", "seen"})
           /\ job'[p].at = "weigh" /\ job'[p].row = r /\ job'[p].seen = Measure(r)
    BY <1>1, <1>10, ScanChoices
  <2>2. lock' = p /\ UNCHANGED <<bricks, bound, nanobars, weight, criticality>>
    BY <1>10 DEF ReadBound, Begin, catalogue, rowVars
  <2>3. job'[p].touched = job[p].touched
    BY <2>1, OthersKept
  <2>4. (Measure(job[p].row))' = Measure(r)
    BY <2>1, <2>2 DEF Measure, BoundTo
  <2>5. QED
    BY <2>1, <2>2, <2>3, <2>4 DEF Claims
<1>11. CASE End(p) \/ EndRefresh(p) \/ Crash(p) \/ LockTimeout(p)
  <2>1. job'[p].at = "idle"
    BY <1>1, <1>11, EndMoves DEF Idle
  <2>2. QED
    BY <2>1, NoClaim
<1>12. CASE Reload(p)
  <2>1. job'[p].at \in {"scan", "binding", "bind", "cover"}
    BY <1>1, <1>12, OtherChoices
  <2>2. QED
    BY <2>1, NoClaim
<1>13. CASE Cover(p)
  <2>1. PICK route \in job[p].routes :
           \/ Changes(p, {"routes"})
           \/ /\ <<Unclassified, route>> \notin ToSet(nanobars)
              /\ job'[p].at = "placeholder"
              /\ job'[p].key = <<Unclassified, route>>
    BY <1>1, <1>13, OtherChoices
  <2>2. lock' = p /\ nanobars' = nanobars /\ job[p].at = "cover"
    BY <1>13 DEF Cover, Begin, catalogue, rowVars
  <2>3. CASE Changes(p, {"routes"})
    BY <2>2, <2>3, OthersKept, NoClaim
  <2>4. QED
    BY <2>1, <2>2, <2>3 DEF Claims
<1>14. CASE File(p)
  <2>1. job[p].at = "file"
    BY <1>14 DEF File
  <2>2. job' = job \/ Changes(p, {"listed"})
    BY <1>1, <1>14, OtherChoices
  <2>3. job'[p].at = "file"
    BY <2>1, <2>2, OthersKept
  <2>4. QED
    BY <2>3, NoClaim
<1>15. CASE StartUpdate(p)
  <2>1. job'[p].at = "patch" /\ lock' = p
    BY <1>1, <1>15, OtherChoices DEF StartUpdate, Begin
  <2>2. QED
    BY <2>1 DEF Claims
<1>16. CASE Patch(p)
  BY <1>1, <1>16, OtherChoices, NoClaim
<1>17. QED
  BY <1>2, <1>3, <1>4, <1>5, <1>6, <1>7, <1>8, <1>9, <1>10, <1>11, <1>12, <1>13, <1>14,
     <1>15, <1>16 DEF ProcStep, Work, Generate, Refresh

\* Every step keeps the lock's invariant.
LEMMA LockStep == TInv /\ LockInv /\ [Next]_vars => LockInv'
<1> SUFFICES ASSUME TInv, LockInv, [Next]_vars PROVE LockInv'
  OBVIOUS
<1>1. CASE UNCHANGED <<catalogue, lock, job>>
  BY <1>1 DEF LockInv, Claims, catalogue, rowVars, Measure, BoundTo
<1>2. ASSUME NEW p \in Procs, ProcStep(p), NEW q \in Procs
      PROVE  Claims(q)'
  <2>1. CASE q = p
    BY <1>2, <2>1, ClaimMoves DEF LockInv
  <2>2. CASE q # p
    <3>1. Claims(q)
      BY DEF LockInv
    <3>2. job'[q] = job[q]
      BY <1>2, <2>2, JobSteps DEF TInv, ProcStep
    <3>3. job[q].at \in Places
      BY DEF TInv, JobOK
    <3>4. CASE lock = q
      <4>1. lock' = q /\ UNCHANGED <<bricks, bound, nanobars, criticality, weight>>
        BY <1>2, <2>2, <3>4, HolderUndisturbed DEF catalogue, rowVars
      <4>2. (Measure(job[q].row))' = Measure(job[q].row)
        BY <3>2, <4>1 DEF Measure, BoundTo
      <4>3. QED
        BY <3>1, <3>2, <4>1, <4>2 DEF Claims
    <3>5. CASE lock # q
      BY <3>1, <3>2, <3>3, <3>5, NoClaim DEF Claims
    <3>6. QED
      BY <3>4, <3>5
  <2>3. QED
    BY <2>1, <2>2
<1>3. QED
  BY <1>1, <1>2 DEF Next, Rest, Ingest, LockInv, vars, ProcStep

\* The lock's invariant holds always.
LEMMA LockAlways == Spec => [](TInv /\ LockInv)
<1>1. Init => LockInv
  <2> SUFFICES ASSUME Init, NEW p \in Procs PROVE Claims(p)
    BY DEF LockInv
  <2>1. job[p] = Idle
    BY DEF Init
  <2>2. QED
    BY <2>1 DEF Claims, Idle
<1>2. QED
  BY <1>1, LockStep, TInvAlways, PTL DEF Spec

-----------------------------------------------------------------------------
(* One nanobar per key, one brick per content.                              *)

\* Where the tables of nanobars and bricks can change at all.
LEMMA InsertsOnly ==
    ASSUME [Next]_vars
    PROVE  /\ \/ UNCHANGED nanobars
              \/ \E p \in Procs : CreateNanobar(p) \/ CreatePlaceholder(p)
           /\ \/ UNCHANGED bricks
              \/ \E p \in Procs : CreateBrick(p)
<1> USE DEF catalogue, rowVars
<1>1. CASE UNCHANGED vars \/ Rest \/ \E s \in Spans : Ingest(s)
  BY <1>1 DEF vars, Rest, Ingest
<1>2. ASSUME NEW p \in Procs,
             StartGenerate(p) \/ StartRefresh(p) \/ StartUpdate(p) \/ Reload(p) \/ Patch(p)
      PROVE  UNCHANGED <<nanobars, bricks>>
  BY <1>2 DEF StartGenerate, StartRefresh, StartUpdate, Reload, Patch
<1>3. ASSUME NEW p \in Procs,
             \/ Look(p) \/ Select(p) \/ NextTrace(p) \/ SkipMalformed(p) \/ LookUpHash(p)
             \/ MarkProcessed(p) \/ Collect(p) \/ SkipUnkeyed(p)
      PROVE  UNCHANGED <<nanobars, bricks>>
  BY <1>3 DEF Look, Select, NextTrace, SkipMalformed, LookUpHash, MarkProcessed, Collect,
              SkipUnkeyed
<1>4. ASSUME NEW p \in Procs, TakeResolved(p) \/ FindNanobar(p) \/ Bind(p)
      PROVE  UNCHANGED <<nanobars, bricks>>
  BY <1>4 DEF TakeResolved, FindNanobar, Bind
<1>5. ASSUME NEW p \in Procs,
             ReadBound(p) \/ WriteWeight(p) \/ End(p) \/ LockTimeout(p) \/ Crash(p)
      PROVE  UNCHANGED <<nanobars, bricks>>
  BY <1>5 DEF ReadBound, WriteWeight, End, LockTimeout, Crash, Abandon
<1>6. ASSUME NEW p \in Procs, Cover(p) \/ ListNanobars(p) \/ File(p) \/ EndRefresh(p)
      PROVE  UNCHANGED <<nanobars, bricks>>
  BY <1>6 DEF Cover, ListNanobars, File, EndRefresh
<1>7. ASSUME NEW p \in Procs, CreateNanobar(p) \/ CreatePlaceholder(p)
      PROVE  UNCHANGED bricks
  BY <1>7 DEF CreateNanobar, CreatePlaceholder
<1>8. ASSUME NEW p \in Procs, CreateBrick(p)
      PROVE  UNCHANGED nanobars
  BY <1>8 DEF CreateBrick
<1>9. QED
  BY <1>1, <1>2, <1>3, <1>4, <1>5, <1>6, <1>7, <1>8 DEF Next, Work, Generate, Refresh

\* A nanobar is the one row of its key: finding none and inserting are one transaction, so
\* that no other process inserts between the two (get_or_create_by_route_key).
THEOREM OneRowPerKey == Spec => []NanobarsUnique
<1>1. Init => NanobarsUnique
  BY BrickCatalogueAssumption DEF Init, NanobarsUnique, Rows, IsInjective
<1>2. ASSUME TInv, LockInv, NanobarsUnique, [Next]_vars
      PROVE  NanobarsUnique'
  <2>1. CASE UNCHANGED nanobars
    BY <1>2, <2>1 DEF NanobarsUnique, Rows
  <2>2. ASSUME NEW p \in Procs, CreateNanobar(p) \/ CreatePlaceholder(p)
        PROVE  NanobarsUnique'
    <3>1. /\ job[p].key \in NanobarKeys /\ job[p].key \notin ToSet(nanobars)
          /\ \/ InsertNanobar(job[p].key, p \in WithManifest)
             \/ InsertNanobar(job[p].key, TRUE)
      BY <1>2, <2>2 DEF CreateNanobar, CreatePlaceholder, At, TInv, JobOK, LockInv, Claims
    <3>2. /\ Rows' = Rows \cup {Len(nanobars) + 1}
          /\ \A r \in Rows : nanobars'[r] = nanobars[r]
          /\ nanobars'[Len(nanobars) + 1] = job[p].key
      BY <1>2, <3>1, Inserted DEF TInv
    <3>3. \A r \in Rows : nanobars[r] # job[p].key
      BY <3>1 DEF ToSet, Rows
    <3>4. QED
      BY <1>2, <3>2, <3>3 DEF NanobarsUnique
  <2>3. QED
    BY <1>2, <2>1, <2>2, InsertsOnly
<1>3. QED
  BY <1>1, <1>2, LockAlways, PTL DEF Spec

\* Evidence that is there already is not stored again: two bricks differ in the hash of their
\* content, although two processes may scan spans that are alike at once
\* (generate_bricks, find_by_content_hash).
BricksDistinct == \A a, b \in bricks : HashOf[a] = HashOf[b] => a = b

\* Two bricks never have the same hash: of two jobs that find the same span
\* unknown, the second looks again under the lock.
THEOREM OneBrickPerHash == Spec => []BricksDistinct
<1>1. Init => BricksDistinct
  BY DEF Init, BricksDistinct
<1>2. ASSUME LockInv, BricksDistinct, [Next]_vars
      PROVE  BricksDistinct'
  <2>1. CASE UNCHANGED bricks
    BY <1>2, <2>1 DEF BricksDistinct
  <2>2. ASSUME NEW p \in Procs, CreateBrick(p)
        PROVE  BricksDistinct'
    <3>1. bricks' = bricks \cup {Head(job[p].spans)}
      BY <2>2 DEF CreateBrick
    <3>2. \A b \in bricks : HashOf[b] # HashOf[Head(job[p].spans)]
      BY <1>2, <2>2 DEF CreateBrick, At, LockInv, Claims
    <3>3. QED
      BY <1>2, <3>1, <3>2 DEF BricksDistinct
  <2>3. QED
    BY <1>2, <2>1, <2>2, InsertsOnly
<1>3. QED
  BY <1>1, <1>2, LockAlways, PTL DEF Spec

-----------------------------------------------------------------------------
(* Which steps touch what.                                                   *)

\* The steps of a process that write a table.
LEMMA TablesKept ==
    ASSUME NEW p \in Procs, ProcStep(p)
    PROVE  /\ UNCHANGED processed \/ MarkProcessed(p)
           /\ UNCHANGED bricks \/ CreateBrick(p)
           /\ UNCHANGED bound \/ Bind(p)
           /\ \/ UNCHANGED <<nanobars, criticality, weight>>
              \/ CreateNanobar(p) \/ CreatePlaceholder(p) \/ WriteWeight(p) \/ Patch(p)
           /\ \/ UNCHANGED <<orphans, forgotten>>
              \/ WriteWeight(p) \/ Crash(p) \/ LockTimeout(p)
<1> USE DEF telemetry, catalogue, rowVars, history, failures
<1>1. CASE StartGenerate(p) \/ StartRefresh(p) \/ StartUpdate(p) \/ Reload(p) \/ Patch(p)
  BY <1>1 DEF StartGenerate, StartRefresh, StartUpdate, Reload, Patch
<1>2. CASE \/ Look(p) \/ Select(p) \/ NextTrace(p) \/ SkipMalformed(p) \/ LookUpHash(p)
           \/ CreateBrick(p) \/ MarkProcessed(p) \/ Collect(p) \/ SkipUnkeyed(p)
  BY <1>2 DEF Look, Select, NextTrace, SkipMalformed, LookUpHash, CreateBrick, MarkProcessed,
              Collect, SkipUnkeyed
<1>3. CASE TakeResolved(p) \/ FindNanobar(p) \/ CreateNanobar(p) \/ Bind(p)
  BY <1>3 DEF TakeResolved, FindNanobar, CreateNanobar, Bind
<1>4. CASE ReadBound(p) \/ WriteWeight(p) \/ End(p) \/ LockTimeout(p) \/ Crash(p)
  BY <1>4 DEF ReadBound, WriteWeight, End, LockTimeout, Crash, Abandon
<1>5. CASE Refresh(p)
  BY <1>5 DEF Refresh, Cover, CreatePlaceholder, ListNanobars, File, EndRefresh
<1>6. QED
  BY <1>1, <1>2, <1>3, <1>4, <1>5 DEF ProcStep, Work, Generate

\* The steps that change what a scan has attempted, the bricks it has yet to bind, and the
\* rows whose weight it has yet to write.
LEMMA ListsKept ==
    ASSUME TInv, NEW p \in Procs, ProcStep(p)
    PROVE  /\ \/ job'[p].attempted = job[p].attempted
              \/ SkipMalformed(p) \/ LookUpHash(p) \/ CreateBrick(p) \/ job'[p].attempted = {}
           /\ \/ job'[p].fresh = job[p].fresh
              \/ CreateBrick(p) \/ SkipUnkeyed(p) \/ Bind(p)
              \/ End(p) \/ EndRefresh(p) \/ Crash(p) \/ LockTimeout(p)
           /\ \/ job'[p].touched = job[p].touched
              \/ Bind(p) \/ WriteWeight(p) \/ Patch(p)
              \/ End(p) \/ EndRefresh(p) \/ Crash(p) \/ LockTimeout(p)
<1> DEFINE A == job'[p].attempted = job[p].attempted
           F == job'[p].fresh = job[p].fresh
           T == job'[p].touched = job[p].touched
<1>1. DOMAIN job = Procs /\ DOMAIN job[p] = DOMAIN Idle
  BY DEF TInv, JobOK
<1>2. ASSUME StartGenerate(p) \/ Select(p) \/ Collect(p)
      PROVE  A /\ F /\ T
  <2>1. Changes(p, {"at", "backlog"}) \/ Changes(p, {"at", "traces"}) \/ Changes(p, {"at"})
    BY <1>1, <1>2, ScanMoves
  <2>2. QED
    BY <2>1, OthersKept
<1>3. ASSUME SkipMalformed(p)
      PROVE  F /\ T
  <2>1. Changes(p, {"at", "spans", "attempted"})
    BY <1>1, <1>3, ScanMoves
  <2>2. QED
    BY <2>1, OthersKept
<1>4. ASSUME CreateBrick(p)
      PROVE  T
  <2>1. Changes(p, {"at", "spans", "attempted", "fresh"})
    BY <1>1, <1>4, ScanMoves
  <2>2. QED
    BY <2>1, OthersKept
<1>5. ASSUME MarkProcessed(p)
      PROVE  job'[p].attempted = {} /\ F /\ T
  <2>1. Changes(p, {"at", "attempted"}) /\ job'[p].attempted = {}
    BY <1>1, <1>5, ScanMoves
  <2>2. QED
    BY <2>1, OthersKept
<1>6. ASSUME \/ CreateNanobar(p) \/ StartRefresh(p) \/ CreatePlaceholder(p) \/ ListNanobars(p)
      PROVE  A /\ F /\ T
  <2>1. \/ Changes(p, {"at", "key", "row"}) \/ Changes(p, {"at", "routes"})
        \/ Changes(p, {"at", "key"}) \/ Changes(p, {"at", "listed"})
    BY <1>1, <1>6, BindMoves
  <2>2. QED
    BY <2>1, OthersKept
<1>7. ASSUME Bind(p)
      PROVE  A
  <2>1. Changes(p, {"at", "row", "brick", "fresh", "touched"})
    BY <1>1, <1>7, BindMoves
  <2>2. QED
    BY <2>1, OthersKept
<1>8. ASSUME WriteWeight(p)
      PROVE  A /\ F
  <2>1. Changes(p, {"at", "row", "seen", "touched"})
    BY <1>1, <1>8, BindMoves
  <2>2. QED
    BY <2>1, OthersKept
<1>9. ASSUME \/ Look(p) \/ NextTrace(p) \/ TakeResolved(p) \/ FindNanobar(p) \/ ReadBound(p)
      PROVE  A /\ F /\ T
  <2>1. \/ Changes(p, {"at", "more"}) \/ Changes(p, {"traces", "spans"})
        \/ Changes(p, {"at", "brick", "row"}) \/ Changes(p, {"at", "brick", "key"})
        \/ Changes(p, {"at", "row", "seen"})
    BY <1>1, <1>9, ScanChoices
  <2>2. QED
    BY <2>1, OthersKept
<1>10. ASSUME LookUpHash(p)
       PROVE  F /\ T
  <2>1. Changes(p, {"at", "spans", "attempted"}) \/ Changes(p, {"at"})
    BY <1>1, <1>10, ScanChoices
  <2>2. QED
    BY <2>1, OthersKept
<1>11. ASSUME SkipUnkeyed(p)
       PROVE  A /\ T
  <2>1. Changes(p, {"fresh"})
    BY <1>1, <1>11, ScanChoices
  <2>2. QED
    BY <2>1, OthersKept
<1>12. ASSUME Reload(p) \/ StartUpdate(p) \/ Cover(p) \/ File(p)
       PROVE  A /\ F /\ T
  <2>1. \/ Changes(p, {"at"}) \/ Changes(p, {"at", "row"}) \/ Changes(p, {"routes"})
        \/ Changes(p, {"routes", "at", "key"}) \/ Changes(p, {"listed"}) \/ job' = job
    BY <1>1, <1>12, OtherChoices
  <2>2. QED
    BY <2>1, OthersKept
<1>13. ASSUME Patch(p)
       PROVE  A /\ F
  <2>1. Changes(p, {"at", "row", "touched"})
    BY <1>1, <1>13, OtherChoices
  <2>2. QED
    BY <2>1, OthersKept
<1>14. ASSUME End(p) \/ EndRefresh(p) \/ Crash(p) \/ LockTimeout(p)
       PROVE  job'[p].attempted = {}
  BY <1>1, <1>14, EndMoves DEF Idle
<1> HIDE DEF A, F, T
<1>15. QED
  BY <1>2, <1>3, <1>4, <1>5, <1>6, <1>7, <1>8, <1>9, <1>10, <1>11, <1>12, <1>13, <1>14
     DEF ProcStep, Work, Generate, Refresh, A, F, T

-----------------------------------------------------------------------------
(* Evidence: what is marked is stored.                                       *)

\* There is a brick with the content of each span in S that can be read.
Evidenced(S) == \A s \in S \ Malformed : \E b \in bricks : HashOf[b] = HashOf[s]

\* It is so of what is marked and, since the mark is written to another database long after
\* the brick, of what a scan has attempted and will mark.
EvidenceInv == Evidenced(processed) /\ \A p \in Procs : Evidenced(job[p].attempted)

\* A step of p adds to the spans attempted by its scan at most one, whose evidence is there.
LEMMA AttemptMoves ==
    ASSUME TInv, Grown, NEW p \in Procs, ProcStep(p), Evidenced(job[p].attempted)
    PROVE  Evidenced(job[p].attempted)' 
<1>1. DOMAIN job = Procs /\ DOMAIN job[p] = DOMAIN Idle
  BY DEF TInv, JobOK
<1>2. \A s \in job[p].attempted \ Malformed : \E b \in bricks' : HashOf[b] = HashOf[s]
  BY DEF Evidenced, Grown
<1>3. CASE job'[p].attempted = job[p].attempted \/ job'[p].attempted = {}
  BY <1>2, <1>3 DEF Evidenced
<1>4. CASE SkipMalformed(p)
  <2>1. /\ job'[p].attempted = job[p].attempted \cup {Head(job[p].spans)}
        /\ Head(job[p].spans) \in Malformed
    BY <1>1, <1>4, ScanMoves DEF SkipMalformed
  <2>2. QED
    BY <1>2, <2>1 DEF Evidenced
<1>5. CASE LookUpHash(p)
  <2>1. CASE /\ \E b \in bricks : HashOf[b] = HashOf[Head(job[p].spans)]
             /\ job'[p].attempted = job[p].attempted \cup {Head(job[p].spans)}
    BY <1>2, <2>1 DEF Evidenced, Grown
  <2>2. CASE Changes(p, {"at"})
    BY <1>3, <2>2, OthersKept
  <2>3. QED
    BY <1>1, <1>5, <2>1, <2>2, ScanChoices
<1>6. CASE CreateBrick(p)
  <2>1. /\ job'[p].attempted = job[p].attempted \cup {Head(job[p].spans)}
        /\ bricks' = bricks \cup {Head(job[p].spans)}
    BY <1>1, <1>6, ScanMoves DEF CreateBrick
  <2>2. QED
    BY <1>2, <2>1 DEF Evidenced
<1>7. QED
  BY <1>3, <1>4, <1>5, <1>6, ListsKept

\* A span is marked as processed only when its evidence is a brick: neither a crash between
\* brick and mark nor a second scan that meanwhile took the same spans leaves a mark without
\* one.
THEOREM MarkedIsStored == Spec => []EvidenceKept
<1>1. Init => EvidenceInv
  BY DEF Init, EvidenceInv, Evidenced, Idle
<1>2. ASSUME TInv, EvidenceInv, [Next]_vars
      PROVE  EvidenceInv'
  <2>1. Grown
    BY <1>2, DataStep
  <2>2. \A p \in Procs : \A s \in job[p].attempted \ Malformed :
           \E b \in bricks' : HashOf[b] = HashOf[s]
    BY <1>2, <2>1 DEF EvidenceInv, Evidenced, Grown
  <2>3. \A s \in processed \ Malformed : \E b \in bricks' : HashOf[b] = HashOf[s]
    BY <1>2, <2>1 DEF EvidenceInv, Evidenced, Grown
  <2>4. CASE UNCHANGED <<processed, job>>
    BY <2>2, <2>3, <2>4 DEF EvidenceInv, Evidenced
  <2>5. ASSUME NEW p \in Procs, ProcStep(p)
        PROVE  EvidenceInv'
    <3>1. \A q \in Procs : Evidenced(job[q].attempted)'
      <4> SUFFICES ASSUME NEW q \in Procs PROVE Evidenced(job[q].attempted)'
        OBVIOUS
      <4>1. CASE q = p
        BY <1>2, <2>1, <2>5, <4>1, AttemptMoves DEF EvidenceInv
      <4>2. CASE q # p
        <5>1. job'[q] = job[q]
          BY <1>2, <2>5, <4>2, JobSteps DEF TInv, ProcStep
        <5>2. QED
          BY <2>2, <5>1 DEF Evidenced
      <4>3. QED
        BY <4>1, <4>2
    <3>2. processed' = processed \/ processed' = processed \cup job[p].attempted
      BY <2>5, TablesKept DEF MarkProcessed
    <3>3. Evidenced(processed)'
      BY <2>2, <2>3, <3>2 DEF Evidenced
    <3>4. QED
      BY <3>1, <3>3 DEF EvidenceInv
  <2>6. QED
    BY <1>2, <2>4, <2>5 DEF Next, Rest, Ingest, vars, telemetry, ProcStep
<1>3. EvidenceInv => EvidenceKept
  BY DEF EvidenceInv, Evidenced, EvidenceKept
<1>4. QED
  BY <1>1, <1>2, <1>3, TInvAlways, PTL DEF Spec

-----------------------------------------------------------------------------
(* Every brick finds its nanobar.                                            *)

\* What a job knows of the brick in its hand: it is still in the list, and the row is that of
\* its key.  A job that is not generating has none to bind.
Binding(p) ==
    /\ job[p].at = "naming" => /\ job[p].brick \in job[p].fresh
                               /\ job[p].key = KeyOf[job[p].brick]
    /\ job[p].at \in {"named", "binding"} => /\ job[p].brick \in job[p].fresh
                                             /\ nanobars[job[p].row] = KeyOf[job[p].brick]
    /\ job[p].at \in {"idle", "cover", "placeholder", "covered", "file", "patch", "patched"}
       => job[p].fresh = {}

\* A row binds only bricks of its key.
KeysAgree == \A r \in Rows, b \in bricks : <<r, b>> \in bound => nanobars[r] = KeyOf[b]

\* No brick is lost between the scan and the binding.
Held(b) ==
    \/ KeyOf[b] = None
    \/ b \in orphans
    \/ \E p \in Procs : b \in job[p].fresh
    \/ \E r \in Rows : <<r, b>> \in bound

BindInv == KeysAgree /\ (\A b \in bricks : Held(b)) /\ \A p \in Procs : Binding(p)

\* A job with no brick in its hand that is generating, or has none to bind.
LEMMA NoBinding ==
    ASSUME NEW p \in Procs,
           \/ job'[p].at \in {"look", "select", "scan", "create", "created", "collect", "bind",
                              "bound", "weigh"}
           \/ job'[p].at \notin {"naming", "named", "binding"} /\ job'[p].fresh = {}
    PROVE  Binding(p)'
BY DEF Binding

\* The brick in the hand of p after a step of its own.
LEMMA BindingMoves ==
    ASSUME TInv, Grown, NEW p \in Procs, Binding(p), ProcStep(p)
    PROVE  Binding(p)'
<1>1. DOMAIN job = Procs /\ DOMAIN job[p] = DOMAIN Idle /\ JobOK(p) /\ job[p].at \in Places
  BY DEF TInv, JobOK
<1> USE DEF Places, At
<1>2. CASE \/ StartGenerate(p) \/ Select(p) \/ SkipMalformed(p) \/ CreateBrick(p) \/ Collect(p)
  BY <1>1, <1>2, ScanMoves, NoBinding
<1>3. CASE MarkProcessed(p) \/ Look(p)
  <2>1. job'[p].at \in {"look", "bind", "collect", "select"}
    BY <1>1, <1>3, ScanMoves, ScanChoices DEF Scanned
  <2>2. QED
    BY <2>1, NoBinding
<1>4. CASE Bind(p) \/ WriteWeight(p)
  BY <1>1, <1>4, BindMoves, NoBinding
<1>5. CASE NextTrace(p) \/ SkipUnkeyed(p)
  <2>1. /\ Changes(p, {"traces", "spans"}) \/ Changes(p, {"fresh"})
        /\ job[p].at \in {"scan", "bind"}
    BY <1>1, <1>5, ScanChoices DEF NextTrace, SkipUnkeyed
  <2>2. QED
    BY <2>1, OthersKept, NoBinding
<1>6. CASE LookUpHash(p) \/ ReadBound(p)
  <2>1. job'[p].at \in {"scan", "create", "weigh"}
    BY <1>1, <1>6, ScanChoices
  <2>2. QED
    BY <2>1, NoBinding
<1>7. CASE TakeResolved(p)
  <2>1. PICK b \in job[p].fresh, r \in job[p].touched :
           /\ nanobars[r] = KeyOf[b]
           /\ Changes(p, {"at", "brick", "row"})
           /\ job'[p].at = "binding" /\ job'[p].brick = b /\ job'[p].row = r
    BY <1>1, <1>7, ScanChoices
  <2>2. job'[p].fresh = job[p].fresh
    BY <2>1, OthersKept
  <2>3. r \in Rows /\ nanobars'[r] = nanobars[r]
    BY <1>1 DEF JobOK, Grown
  <2>4. QED
    BY <2>1, <2>2, <2>3 DEF Binding
<1>8. CASE FindNanobar(p)
  <2>1. PICK b \in job[p].fresh :
           \/ \E r \in Rows : /\ nanobars[r] = KeyOf[b]
                              /\ Changes(p, {"at", "brick", "row"})
                              /\ job'[p].at = "binding" /\ job'[p].brick = b /\ job'[p].row = r
           \/ /\ Changes(p, {"at", "brick", "key"}) /\ job'[p].at = "naming"
              /\ job'[p].brick = b /\ job'[p].key = KeyOf[b]
    BY <1>1, <1>8, ScanChoices, ZenonT(30)
  <2>2. job'[p].fresh = job[p].fresh
    BY <2>1, OthersKept
  <2>3. QED
    BY <2>1, <2>2 DEF Binding, Grown
<1>9. CASE CreateNanobar(p)
  <2>1. /\ job[p].at = "naming" /\ job[p].key \in NanobarKeys
        /\ nanobars'[Len(nanobars) + 1] = job[p].key
    BY <1>1, <1>9, Inserted DEF CreateNanobar, JobOK, TInv
  <2>2. /\ Changes(p, {"at", "key", "row"}) /\ job'[p].at = "named"
        /\ job'[p].row = Len(nanobars) + 1
    BY <1>1, <1>9, BindMoves
  <2>3. job'[p].fresh = job[p].fresh /\ job'[p].brick = job[p].brick
    BY <2>2, OthersKept
  <2>4. QED
    BY <2>1, <2>2, <2>3 DEF Binding
<1>10. CASE StartRefresh(p) \/ StartUpdate(p) \/ CreatePlaceholder(p) \/ ListNanobars(p)
  <2>1. job[p].fresh = {}
    BY <1>10 DEF Binding, StartRefresh, StartUpdate, Start, CreatePlaceholder, ListNanobars
  <2>2. /\ \/ Changes(p, {"at", "routes"}) \/ Changes(p, {"at", "row"})
           \/ Changes(p, {"at", "key"}) \/ Changes(p, {"at", "listed"})
        /\ job'[p].at \in {"cover", "patch", "covered", "file"}
    BY <1>1, <1>10, BindMoves, OtherChoices
  <2>3. job'[p].fresh = {}
    BY <2>1, <2>2, OthersKept
  <2>4. QED
    BY <2>2, <2>3, NoBinding
<1>11. CASE Cover(p)
  <2>1. job[p].at = "cover" /\ job[p].fresh = {}
    BY <1>11 DEF Binding, Cover
  <2>2. \/ Changes(p, {"routes"})
        \/ Changes(p, {"routes", "at", "key"}) /\ job'[p].at = "placeholder"
    BY <1>1, <1>11, OtherChoices
  <2>3. job'[p].fresh = {} /\ job'[p].at \in {"cover", "placeholder"}
    BY <2>1, <2>2, OthersKept
  <2>4. QED
    BY <2>3, NoBinding
<1>12. CASE File(p)
  <2>1. job[p].at = "file" /\ job[p].fresh = {}
    BY <1>12 DEF Binding, File
  <2>2. Changes(p, {"listed"}) \/ job' = job
    BY <1>1, <1>12, OtherChoices
  <2>3. job'[p].fresh = {} /\ job'[p].at = "file"
    BY <2>1, <2>2, OthersKept
  <2>4. QED
    BY <2>3, NoBinding
<1>13. CASE Patch(p)
  <2>1. job[p].fresh = {}
    BY <1>13 DEF Binding, Patch
  <2>2. Changes(p, {"at", "row", "touched"}) /\ job'[p].at = "patched"
    BY <1>1, <1>13, OtherChoices
  <2>3. job'[p].fresh = {}
    BY <2>1, <2>2, OthersKept
  <2>4. QED
    BY <2>2, <2>3, NoBinding
<1>14. CASE Reload(p)
  <2>1. PICK from \in Places, to \in Places :
           /\ <<from, to>> \in {<<"created", "scan">>, <<"named", "binding">>,
                                <<"bound", "bind">>, <<"covered", "cover">>,
                                <<"patched", "bind">>}
           /\ job[p].at = from /\ Changes(p, {"at"}) /\ job'[p].at = to
    BY <1>1, <1>14, OtherChoices
  <2>2. /\ job'[p].fresh = job[p].fresh /\ job'[p].brick = job[p].brick
        /\ job'[p].row = job[p].row
    BY <2>1, OthersKept
  <2>3. CASE from = "named" /\ to = "binding"
    <3>1. job[p].row \in Rows /\ nanobars'[job[p].row] = nanobars[job[p].row]
      BY <1>1, <2>1, <2>3 DEF JobOK, Grown
    <3>2. QED
      BY <2>1, <2>2, <2>3, <3>1 DEF Binding
  <2>4. CASE from = "covered" /\ to = "cover"
    BY <2>1, <2>2, <2>4, NoBinding DEF Binding
  <2>5. CASE to \in {"scan", "bind"}
    BY <2>1, <2>5, NoBinding
  <2>6. QED
    BY <2>1, <2>3, <2>4, <2>5
<1>15. CASE End(p) \/ EndRefresh(p) \/ Crash(p) \/ LockTimeout(p)
  <2>1. job'[p].at = "idle" /\ job'[p].fresh = {}
    BY <1>1, <1>15, EndMoves DEF Idle
  <2>2. QED
    BY <2>1, NoBinding
<1>16. QED
  BY <1>2, <1>3, <1>4, <1>5, <1>6, <1>7, <1>8, <1>9, <1>10, <1>11, <1>12, <1>13, <1>14,
     <1>15 DEF ProcStep, Work, Generate, Refresh

\* Only the right row is bound.
LEMMA KeysStep ==
    ASSUME TInv, Grown, DataOK', BindInv, NEW p \in Procs, ProcStep(p)
    PROVE  KeysAgree'
<1>1. ASSUME NEW r, NEW b, <<r, b>> \in bound
      PROVE  r \in Rows /\ b \in bricks /\ nanobars'[r] = KeyOf[b]
  <2>1. r \in Rows /\ b \in bricks
    BY <1>1 DEF TInv, DataOK
  <2>2. nanobars[r] = KeyOf[b]
    BY <1>1, <2>1 DEF BindInv, KeysAgree
  <2>3. QED
    BY <2>1, <2>2 DEF Grown
<1>2. CASE UNCHANGED bound
  BY <1>1, <1>2 DEF KeysAgree
<1>3. CASE Bind(p)
  <2>1. bound' = bound \cup {<<job[p].row, job[p].brick>>} /\ job[p].at = "binding"
    BY <1>3 DEF Bind, At
  <2>2. nanobars'[job[p].row] = KeyOf[job[p].brick]
    <3>1. job[p].row \in Rows /\ nanobars[job[p].row] = KeyOf[job[p].brick]
      BY <2>1 DEF TInv, JobOK, BindInv, Binding
    <3>2. QED
      BY <3>1 DEF Grown
  <2>3. QED
    BY <1>1, <2>1, <2>2 DEF KeysAgree
<1>4. QED
  BY <1>2, <1>3, TablesKept

\* A brick that leaves the list of a job is bound, has no key, or is an orphan.
LEMMA HeldStep ==
    ASSUME TInv, Grown, BindInv, NEW p \in Procs, ProcStep(p), NEW b \in bricks'
    PROVE  Held(b)'
<1>1. DOMAIN job = Procs /\ DOMAIN job[p] = DOMAIN Idle /\ JobOK(p)
  BY DEF TInv, JobOK
<1>2. Binding(p)
  BY DEF BindInv
<1>3. orphans \subseteq orphans'
  <2>1. CASE Crash(p) \/ LockTimeout(p)
    BY <2>1 DEF Crash, LockTimeout, Abandon
  <2>2. CASE WriteWeight(p)
    BY <2>2 DEF WriteWeight
  <2>3. QED
    BY <2>1, <2>2, TablesKept
<1>4. CASE b \in bricks /\ b \notin job[p].fresh
  <2>1. Held(b)
    BY <1>4 DEF BindInv
  <2>2. ASSUME NEW q \in Procs, b \in job[q].fresh
        PROVE  b \in job'[q].fresh
    <3>1. q # p
      BY <1>4, <2>2
    <3>2. QED
      BY <1>1, <2>2, <3>1, JobSteps DEF ProcStep
  <2>3. QED
    BY <1>3, <2>1, <2>2 DEF Held, Grown
<1>5. CASE b \in job[p].fresh /\ job'[p].fresh = job[p].fresh
  BY <1>5 DEF Held
<1>6. CASE CreateBrick(p)
  <2>1. /\ bricks' = bricks \cup {Head(job[p].spans)}
        /\ job'[p].fresh = job[p].fresh \cup {Head(job[p].spans)}
    BY <1>1, <1>6, ScanMoves DEF CreateBrick
  <2>2. CASE b \in job'[p].fresh
    BY <2>2 DEF Held
  <2>3. QED
    BY <1>4, <2>1, <2>2
<1>7. CASE b \in job[p].fresh /\ SkipUnkeyed(p)
  <2>1. PICK c \in job[p].fresh :
           KeyOf[c] = None /\ job'[p].fresh = job[p].fresh \ {c}
    BY <1>1, <1>7, ScanChoices
  <2>2. QED
    BY <1>7, <2>1 DEF Held
<1>8. CASE b \in job[p].fresh /\ Bind(p)
  <2>1. /\ job'[p].fresh = job[p].fresh \ {job[p].brick} /\ job[p].at = "binding"
        /\ <<job[p].row, job[p].brick>> \in bound'
    BY <1>1, <1>8, BindMoves DEF Bind, At
  <2>2. job[p].row \in Rows'
    BY <1>1, <2>1 DEF JobOK, Grown
  <2>3. QED
    BY <1>8, <2>1, <2>2 DEF Held
<1>9. CASE b \in job[p].fresh /\ (End(p) \/ EndRefresh(p))
  <2>1. job[p].fresh = {}
    BY <1>2, <1>9 DEF End, EndRefresh, At, Binding
  <2>2. QED
    BY <1>9, <2>1
<1>10. CASE b \in job[p].fresh /\ (Crash(p) \/ LockTimeout(p))
  BY <1>10 DEF Crash, LockTimeout, Abandon, Held
<1>11. b \in bricks \/ CreateBrick(p)
  BY TablesKept
<1>12. QED
  BY <1>4, <1>5, <1>6, <1>7, <1>8, <1>9, <1>10, <1>11, ListsKept

\* Every step keeps each brick bound, in the hand of a job, or known to be an orphan.
LEMMA BindStep == TInv /\ BindInv /\ [Next]_vars => BindInv'
<1> SUFFICES ASSUME TInv, BindInv, [Next]_vars PROVE BindInv'
  OBVIOUS
<1>1. DataOK' /\ Grown
  BY DataStep
<1>2. CASE UNCHANGED <<catalogue, orphans, job>>
  BY <1>2 DEF BindInv, KeysAgree, Held, Binding, catalogue, rowVars, Rows
<1>3. ASSUME NEW p \in Procs, ProcStep(p)
      PROVE  BindInv'
  <2>1. \A q \in Procs : Binding(q)'
    <3> SUFFICES ASSUME NEW q \in Procs PROVE Binding(q)'
      OBVIOUS
    <3>1. Binding(q)
      BY DEF BindInv
    <3>2. CASE q = p
      BY <1>1, <1>3, <3>1, <3>2, BindingMoves
    <3>3. CASE q # p
      <4>1. job'[q] = job[q]
        BY <1>3, <3>3, JobSteps DEF TInv, ProcStep
      <4>2. job[q].at \in {"named", "binding"} => nanobars'[job[q].row] = nanobars[job[q].row]
        BY <1>1 DEF TInv, JobOK, Grown
      <4>3. QED
        BY <3>1, <4>1, <4>2 DEF Binding
    <3>4. QED
      BY <3>2, <3>3
  <2>2. KeysAgree'
    BY <1>1, <1>3, KeysStep
  <2>3. \A b \in bricks' : Held(b)'
    BY <1>1, <1>3, HeldStep
  <2>4. QED
    BY <2>1, <2>2, <2>3 DEF BindInv
<1>4. CASE UNCHANGED vars \/ Rest \/ \E s \in Spans : Ingest(s)
  BY <1>2, <1>4 DEF vars, history, failures, Rest, Ingest
<1>5. QED
  BY <1>3, <1>4 DEF Next, ProcStep

\* Every brick that names its boundary is bound to exactly one nanobar, the one of its key, or
\* is in the list of a job that has still to bind it; what else there is was lost by a job that
\* was cut short.
THEOREM BricksReachTheirNanobar == Spec => []BricksBound
<1>1. Init => BindInv
  BY DEF Init, BindInv, KeysAgree, Binding, Idle
<1>2. BindInv /\ NanobarsUnique => BricksBound
  <2> SUFFICES ASSUME BindInv, NanobarsUnique, NEW b \in bricks, NEW r \in Rows,
                      <<r, b>> \in bound
               PROVE  Cardinality({q \in Rows : <<q, b>> \in bound}) = 1
    BY DEF BindInv, KeysAgree, Held, BricksBound
  <2>1. {q \in Rows : <<q, b>> \in bound} = {r}
    BY DEF BindInv, KeysAgree, NanobarsUnique
  <2>2. QED
    BY <2>1, FS_Singleton
<1>3. QED
  BY <1>1, <1>2, BindStep, TInvAlways, OneRowPerKey, PTL DEF Spec

-----------------------------------------------------------------------------
(* Weights.                                                                  *)

\* The weight of row r is right, or known to be wrong.
Weighed(r) ==
    \/ r \in forgotten
    \/ \E p \in Procs : r \in job[p].touched
    \/ weight[r] = Unmeasured /\ BoundTo(r) = {}
    \/ weight[r] = Measure(r)

\* A job that neither generates nor has patched a row has none to weigh.
Untouching(p) ==
    job[p].at \in {"idle", "cover", "placeholder", "covered", "file", "patch"}
    => job[p].touched = {}

WeightInv == (\A r \in Rows : Weighed(r)) /\ \A p \in Procs : Untouching(p)

\* After a step of its own, too.
LEMMA UntouchingMoves ==
    ASSUME TInv, NEW p \in Procs, Untouching(p), ProcStep(p)
    PROVE  Untouching(p)'
<1>1. DOMAIN job = Procs /\ DOMAIN job[p] = DOMAIN Idle /\ JobOK(p) /\ job[p].at \in Places
  BY DEF TInv, JobOK
<1> DEFINE Elsewhere == {"look", "select", "scan", "create", "created", "collect", "bind",
                         "naming", "named", "binding", "bound", "weigh", "patched"}
<1>2. ASSUME job'[p].at \in Elsewhere \/ job'[p].touched = {}
      PROVE  Untouching(p)'
  BY <1>2 DEF Untouching
<1> HIDE DEF Elsewhere
<1>3. CASE StartGenerate(p) \/ Select(p) \/ SkipMalformed(p) \/ CreateBrick(p) \/ Collect(p)
  <2>1. job'[p].at \in Elsewhere
    BY <1>1, <1>3, ScanMoves DEF Elsewhere
  <2>2. QED
    BY <1>2, <2>1
<1>4. CASE MarkProcessed(p) \/ Look(p)
  <2>1. job'[p].at \in Elsewhere
    BY <1>1, <1>4, ScanMoves, ScanChoices DEF Scanned, Elsewhere
  <2>2. QED
    BY <1>2, <2>1
<1>5. CASE CreateNanobar(p) \/ Bind(p) \/ WriteWeight(p)
  <2>1. job'[p].at \in Elsewhere
    BY <1>1, <1>5, BindMoves DEF Elsewhere
  <2>2. QED
    BY <1>2, <2>1
<1>6. CASE NextTrace(p) \/ SkipUnkeyed(p)
  <2>1. /\ Changes(p, {"traces", "spans"}) \/ Changes(p, {"fresh"})
        /\ job[p].at \in {"scan", "bind"}
    BY <1>1, <1>6, ScanChoices DEF NextTrace, SkipUnkeyed, At
  <2>2. job'[p].at \in Elsewhere
    BY <2>1, OthersKept DEF Elsewhere
  <2>3. QED
    BY <1>2, <2>2
<1>7. CASE LookUpHash(p) \/ ReadBound(p) \/ TakeResolved(p) \/ FindNanobar(p)
  <2>1. job'[p].at \in Elsewhere
    BY <1>1, <1>7, ScanChoices DEF Elsewhere
  <2>2. QED
    BY <1>2, <2>1
<1>8. CASE StartRefresh(p) \/ StartUpdate(p) \/ CreatePlaceholder(p) \/ ListNanobars(p)
  <2>1. job[p].touched = {}
    BY <1>8 DEF Untouching, StartRefresh, StartUpdate, Start, CreatePlaceholder, ListNanobars, At
  <2>2. \/ Changes(p, {"at", "routes"}) \/ Changes(p, {"at", "row"})
        \/ Changes(p, {"at", "key"}) \/ Changes(p, {"at", "listed"})
    BY <1>1, <1>8, BindMoves, OtherChoices
  <2>3. job'[p].touched = {}
    BY <2>1, <2>2, OthersKept
  <2>4. QED
    BY <1>2, <2>3
<1>9. CASE Cover(p) \/ File(p)
  <2>1. job[p].touched = {}
    BY <1>9 DEF Untouching, Cover, File, At
  <2>2. \/ Changes(p, {"routes"}) \/ Changes(p, {"routes", "at", "key"})
        \/ Changes(p, {"listed"}) \/ job' = job
    BY <1>1, <1>9, OtherChoices
  <2>3. job'[p].touched = {}
    BY <2>1, <2>2, OthersKept
  <2>4. QED
    BY <1>2, <2>3
<1>10. CASE Patch(p)
  <2>1. job'[p].at \in Elsewhere
    BY <1>1, <1>10, OtherChoices DEF Elsewhere
  <2>2. QED
    BY <1>2, <2>1
<1>11. CASE Reload(p)
  <2>1. PICK from \in Places, to \in Places :
           /\ <<from, to>> \in {<<"created", "scan">>, <<"named", "binding">>,
                                <<"bound", "bind">>, <<"covered", "cover">>,
                                <<"patched", "bind">>}
           /\ job[p].at = from /\ Changes(p, {"at"}) /\ job'[p].at = to
    BY <1>1, <1>11, OtherChoices
  <2>2. CASE from = "covered" /\ to = "cover"
    <3>1. job'[p].touched = job[p].touched /\ job[p].touched = {}
      BY <2>1, <2>2, OthersKept DEF Untouching
    <3>2. QED
      BY <1>2, <3>1
  <2>3. CASE to \in {"scan", "binding", "bind"}
    BY <1>2, <2>1, <2>3 DEF Elsewhere
  <2>4. QED
    BY <2>1, <2>2, <2>3
<1>12. CASE End(p) \/ EndRefresh(p) \/ Crash(p) \/ LockTimeout(p)
  <2>1. job'[p].touched = {}
    BY <1>1, <1>12, EndMoves DEF Idle
  <2>2. QED
    BY <1>2, <2>1
<1>13. QED
  BY <1>3, <1>4, <1>5, <1>6, <1>7, <1>8, <1>9, <1>10, <1>11, <1>12
     DEF ProcStep, Work, Generate, Refresh

\* A row is weighed on as long as what its weight is made from stays as it is, its weight too,
\* and no job forgets it.
LEMMA WeighedKept ==
    ASSUME TInv, Grown, NEW r \in Rows, Weighed(r),
           r \in forgotten => r \in forgotten',
           (\E p \in Procs : r \in job[p].touched)
           => r \in forgotten' \/ \E p \in Procs : r \in job'[p].touched,
           weight'[r] = weight[r], criticality'[r] = criticality[r],
           \A b : <<r, b>> \in bound' <=> <<r, b>> \in bound
    PROVE  Weighed(r)'
<1>1. BoundTo(r)' = BoundTo(r)
  BY DEF BoundTo, TInv, DataOK, Grown
<1>2. nanobars'[r] = nanobars[r]
  BY DEF Grown
<1>3. Measure(r)' = Measure(r)
  BY <1>1, <1>2 DEF Measure
<1>4. QED
  BY <1>1, <1>3 DEF Weighed

\* A row that was there before a step of p.
LEMMA OldRowWeighed ==
    ASSUME TInv, LockInv, WeightInv, Grown, NEW p \in Procs, ProcStep(p), NEW r \in Rows
    PROVE  Weighed(r)'
<1>1. DOMAIN job = Procs /\ DOMAIN job[p] = DOMAIN Idle /\ JobOK(p)
  BY DEF TInv, JobOK
<1>2. Weighed(r) /\ Untouching(p) /\ Claims(p)
  BY DEF WeightInv, LockInv
<1>3. DataOK
  BY DEF TInv
<1>4. ASSUME r \in job[p].touched => r \in forgotten' \/ r \in job'[p].touched
      PROVE  (\E q \in Procs : r \in job[q].touched)
             => r \in forgotten' \/ \E q \in Procs : r \in job'[q].touched
  <2> SUFFICES ASSUME NEW q \in Procs, r \in job[q].touched
               PROVE  r \in forgotten' \/ \E u \in Procs : r \in job'[u].touched
    OBVIOUS
  <2>1. CASE q = p
    BY <1>4, <2>1
  <2>2. CASE q # p
    <3>1. job'[q] = job[q]
      BY <1>1, <2>2, JobSteps DEF ProcStep
    <3>2. QED
      BY <3>1
  <2>3. QED
    BY <2>1, <2>2
<1>5. CASE Bind(p)
  <2>1. /\ job'[p].touched = job[p].touched \cup {job[p].row}
        /\ bound' = bound \cup {<<job[p].row, job[p].brick>>}
        /\ UNCHANGED <<weight, criticality, forgotten>>
    BY <1>1, <1>5, BindMoves DEF Bind, rowVars, history, failures
  <2>2. CASE r = job[p].row
    BY <2>1, <2>2 DEF Weighed
  <2>3. CASE r # job[p].row
    <3>1. \A b : <<r, b>> \in bound' <=> <<r, b>> \in bound
      BY <2>1, <2>3
    <3>2. QED
      BY <1>2, <1>4, <2>1, <3>1, WeighedKept
  <2>4. QED
    BY <2>2, <2>3
<1>6. CASE WriteWeight(p)
  <2>1. /\ job'[p].touched = job[p].touched \ {job[p].row}
        /\ weight' = [weight EXCEPT ![job[p].row] = job[p].seen]
        /\ forgotten' = forgotten \ {job[p].row}
        /\ UNCHANGED <<bricks, bound, nanobars, criticality>>
        /\ job[p].at = "weigh"
    BY <1>1, <1>6, BindMoves DEF WriteWeight, At
  <2>2. CASE r = job[p].row
    <3>1. weight'[r] = Measure(r)
      BY <1>2, <1>3, <2>1, <2>2 DEF Claims, DataOK
    <3>2. Measure(r)' = weight'[r]
      BY <2>1, <3>1 DEF Measure, BoundTo
    <3>3. QED
      BY <3>2 DEF Weighed
  <2>3. CASE r # job[p].row
    <3>1. weight'[r] = weight[r]
      BY <1>3, <2>1, <2>3 DEF DataOK
    <3>2. QED
      BY <1>2, <1>4, <2>1, <2>3, <3>1, WeighedKept
  <2>4. QED
    BY <2>2, <2>3
<1>7. CASE Patch(p)
  <2>1. job[p].at = "patch" /\ job[p].touched = {} /\ UNCHANGED <<bound, weight, forgotten>>
    BY <1>2, <1>7 DEF Patch, At, Untouching, history, failures
  <2>2. PICK c \in Criticalities :
           /\ criticality' = [criticality EXCEPT ![job[p].row] = c]
           /\ job'[p].touched = (IF c = criticality[job[p].row] THEN {} ELSE {job[p].row})
    BY <1>1, <1>7, OtherChoices
  <2>3. CASE r = job[p].row /\ c # criticality[job[p].row]
    BY <2>2, <2>3 DEF Weighed
  <2>4. CASE r # job[p].row \/ c = criticality[job[p].row]
    <3>1. criticality'[r] = criticality[r]
      BY <1>3, <2>2, <2>4 DEF DataOK
    <3>2. QED
      BY <1>2, <1>4, <2>1, <3>1, WeighedKept
  <2>5. QED
    BY <2>3, <2>4
<1>8. CASE CreateNanobar(p) \/ CreatePlaceholder(p)
  <2>1. Changes(p, {"at", "key", "row"}) \/ Changes(p, {"at", "key"})
    BY <1>1, <1>8, BindMoves
  <2>2. job'[p].touched = job[p].touched
    BY <2>1, OthersKept
  <2>3. job[p].key \in NanobarKeys /\ UNCHANGED <<bound, forgotten>>
    BY <1>1, <1>8 DEF CreateNanobar, CreatePlaceholder, At, JobOK, history, failures
  <2>4. weight'[r] = weight[r] /\ criticality'[r] = criticality[r]
    BY <1>3, <1>8, <2>3, Inserted DEF CreateNanobar, CreatePlaceholder
  <2>5. QED
    BY <1>2, <1>4, <2>2, <2>3, <2>4, WeighedKept
<1>9. CASE /\ UNCHANGED <<criticality, weight, bound, forgotten>>
           /\ job'[p].touched = job[p].touched
  BY <1>2, <1>4, <1>9, WeighedKept
<1>10. CASE End(p) \/ EndRefresh(p)
  <2>1. job[p].touched = {} /\ UNCHANGED <<criticality, weight, bound, forgotten>>
    BY <1>2, <1>10 DEF End, EndRefresh, At, Untouching, catalogue, rowVars, history, failures
  <2>2. QED
    BY <1>2, <1>4, <2>1, WeighedKept
<1>11. CASE Crash(p) \/ LockTimeout(p)
  <2>1. /\ forgotten' = forgotten \cup job[p].touched
        /\ UNCHANGED <<criticality, weight, bound>>
    BY <1>11 DEF Crash, LockTimeout, Abandon, catalogue, rowVars
  <2>2. QED
    BY <1>2, <1>4, <2>1, WeighedKept
<1>12. QED
  BY <1>5, <1>6, <1>7, <1>8, <1>9, <1>10, <1>11, TablesKept, ListsKept

\* A new row has neither bricks nor a weight.
LEMMA NewRowWeighed ==
    ASSUME TInv, NEW p \in Procs, ProcStep(p), NEW r \in Rows', r \notin Rows
    PROVE  Weighed(r)'
<1>1. CreateNanobar(p) \/ CreatePlaceholder(p)
  BY TablesKept DEF Rows, WriteWeight, Patch
<1>2. job[p].key \in NanobarKeys /\ bound' = bound /\ DataOK
  BY <1>1 DEF CreateNanobar, CreatePlaceholder, At, TInv, JobOK
<1>3. Rows' = Rows \cup {Len(nanobars) + 1} /\ weight'[Len(nanobars) + 1] = Unmeasured
  BY <1>1, <1>2, Inserted DEF CreateNanobar, CreatePlaceholder
<1>4. weight'[r] = Unmeasured
  BY <1>3
<1>5. BoundTo(r)' = {}
  BY <1>2 DEF BoundTo, DataOK
<1>6. QED
  BY <1>4, <1>5 DEF Weighed

\* Every step keeps each weight right, about to be written, or known to be wrong.
LEMMA WeightStep == TInv /\ LockInv /\ WeightInv /\ [Next]_vars => WeightInv'
<1> SUFFICES ASSUME TInv, LockInv, WeightInv, [Next]_vars PROVE WeightInv'
  OBVIOUS
<1>1. Grown
  BY DataStep
<1>2. CASE UNCHANGED <<catalogue, forgotten, job>>
  BY <1>2 DEF WeightInv, Weighed, Untouching, Measure, BoundTo, catalogue, rowVars, Rows
<1>3. ASSUME NEW p \in Procs, ProcStep(p)
      PROVE  WeightInv'
  <2>1. \A q \in Procs : Untouching(q)'
    <3> SUFFICES ASSUME NEW q \in Procs PROVE Untouching(q)'
      OBVIOUS
    <3>1. Untouching(q)
      BY DEF WeightInv
    <3>2. CASE q = p
      BY <1>3, <3>1, <3>2, UntouchingMoves
    <3>3. CASE q # p
      <4>1. job'[q] = job[q]
        BY <1>3, <3>3, JobSteps DEF TInv, ProcStep
      <4>2. QED
        BY <3>1, <4>1 DEF Untouching
    <3>4. QED
      BY <3>2, <3>3
  <2>2. \A r \in Rows' : Weighed(r)'
    BY <1>1, <1>3, OldRowWeighed, NewRowWeighed
  <2>3. QED
    BY <2>1, <2>2 DEF WeightInv
<1>4. CASE UNCHANGED vars \/ Rest \/ \E s \in Spans : Ingest(s)
  BY <1>2, <1>4 DEF vars, history, failures, Rest, Ingest
<1>5. QED
  BY <1>3, <1>4 DEF Next, ProcStep

\* The weight in a row is the one that its bricks and its criticality give, in spite of the
\* jobs that bind, patch and weigh at once; where it is not, a job has still to write it or was
\* cut short before.
THEOREM WeightsFollow == Spec => []WeightsCurrent
<1>1. Init => WeightInv
  <2> SUFFICES ASSUME Init PROVE WeightInv
    OBVIOUS
  <2>1. \A p \in Procs : Untouching(p)
    BY DEF Init, Untouching, Idle
  <2>2. \A r \in Rows : Weighed(r)
    BY DEF Init, Weighed, BoundTo
  <2>3. QED
    BY <2>1, <2>2 DEF WeightInv
<1>2. WeightInv => WeightsCurrent
  BY DEF WeightInv, Weighed, WeightsCurrent
<1>3. QED
  BY <1>1, <1>2, WeightStep, LockAlways, PTL DEF Spec
=============================================================================
