------------------------- MODULE WorkerLeaseProofs -------------------------
(***************************************************************************)
(* Proofs about WorkerLease, for every number of workers and events, every  *)
(* claim limit and every lease.  One inductive invariant, IInv, carries     *)
(* them all: what each worker remembers (its batch and its current event)   *)
(* is related to the rows of the table, and under Timely the rows are those *)
(* the worker claimed.  The failure counters have an invariant of their     *)
(* own, CountersOK, that rests on it.                                       *)
(***************************************************************************)
EXTENDS WorkerLease, FiniteSetTheorems, TLAPS

Busy == {"processing", "acking", "raised", "failing", "logFile", "logRow"}

\* What a worker remembers is about stored rows, an event is worked on once per
\* batch, and only a performed event is on its way to ack_event().
MemoryOK ==
    \A w \in Workers :
        /\ batch[w] \subseteq stored
        /\ current[w] \notin batch[w]
        /\ pc[w] \notin Busy => current[w] = None
        /\ pc[w] \in Busy => current[w] \in stored
        /\ pc[w] = "acking" => current[w] \in performed \ Poison

\* Only performed rows are processed, and nothing happens for an absent row.
RowsOK == processed \subseteq performed /\ performed \subseteq stored

IInv == TypeOK /\ MemoryOK /\ RowsOK /\ (Timely => HolderOwnsClaim)

-----------------------------------------------------------------------------
\* The table starts empty and the workers idle.
LEMMA InitIInv == Init => IInv
<1> SUFFICES ASSUME Init PROVE IInv
  OBVIOUS
<1> USE WorkerLeaseAssumption DEF Init
<1>1. TypeOK
  BY DEF TypeOK, PC, Expired, Unregistered
<1>2. MemoryOK
  BY DEF MemoryOK, Busy
<1>3. RowsOK
  BY DEF RowsOK
<1>4. HolderOwnsClaim
  BY DEF HolderOwnsClaim, Holding
<1>5. QED
  BY <1>1, <1>2, <1>3, <1>4 DEF IInv

\* Every step keeps the types.
LEMMA TypeStep == ASSUME TypeOK, MemoryOK, [Next]_vars PROVE TypeOK'
<1> USE WorkerLeaseAssumption DEF TypeOK, Expired, Unregistered
<1>1. CASE Insert
  BY <1>1 DEF Insert, memory
<1>2. CASE Tick
  BY <1>2 DEF Tick, memory
<1>3. ASSUME NEW w \in Workers, RunOnce(w) PROVE TypeOK'
  BY <1>3 DEF RunOnce, Goto, PC
<1>4. ASSUME NEW w \in Workers, Claim(w) PROVE TypeOK'
  <2>1. PICK S \in SUBSET Claimable(Head(todo[w])) :
          /\ batch' = [batch EXCEPT ![w] = S]
          /\ claimedBy' = [e \in Events |-> IF e \in S THEN w ELSE claimedBy[e]]
          /\ lease' = [e \in Events |-> IF e \in S THEN LeaseSeconds ELSE lease[e]]
    BY <1>4 DEF Claim
  <2>2. S \in SUBSET Events
    BY DEF Claimable
  <2>3. batch' \in [Workers -> SUBSET Events] /\ claimedBy' \in [Events -> Workers \cup {None}]
        /\ lease' \in [Events -> Expired..LeaseSeconds]
    BY <2>1, <2>2
  <2>4. todo' \in [Workers -> Seq(Channels)]
    BY <1>4 DEF Claim
  <2>5. QED
    BY <1>4, <2>3, <2>4 DEF Claim
<1>5. ASSUME NEW w \in Workers, Start(w) PROVE TypeOK'
  <2>1. PICK e \in batch[w] :
          /\ batch' = [batch EXCEPT ![w] = @ \ {e}]
          /\ current' = [current EXCEPT ![w] = e]
          /\ entries' = entries \cup (IF w \in OptIn THEN {ChannelOf[e]} ELSE {})
    BY <1>5 DEF Start
  <2>2. QED
    BY <1>5, <2>1, SMTT(30) DEF Start, Goto, PC, table
<1>6. ASSUME NEW w \in Workers, Succeed(w) PROVE TypeOK'
  BY <1>6 DEF Succeed, Goto, PC, table, MemoryOK, Busy
<1>7. ASSUME NEW w \in Workers, Ack(w) PROVE TypeOK'
  <2>1. current[w] \in Events
    BY <1>7 DEF Ack, MemoryOK, Busy
  <2>2. /\ claimedBy' \in [Events -> Workers \cup {None}]
        /\ lease' \in [Events -> Expired..LeaseSeconds]
        /\ processed' \in SUBSET Events
    BY <1>7, <2>1 DEF Ack, Release
  <2>3. QED
    BY <1>7, <2>2 DEF Ack, Goto, PC
<1>8. ASSUME NEW w \in Workers, Raise(w) PROVE TypeOK'
  BY <1>8 DEF Raise, Goto, PC, table
<1>9. ASSUME NEW w \in Workers, Compensate(w) PROVE TypeOK'
  BY <1>9 DEF Compensate, Goto, PC, table
<1>10. ASSUME NEW w \in Workers, Fail(w) PROVE TypeOK'
  <2>1. current[w] \in Events
    BY <1>10 DEF Fail, MemoryOK, Busy
  <2>2. /\ claimedBy' \in [Events -> Workers \cup {None}]
        /\ lease' \in [Events -> Expired..LeaseSeconds]
    BY <1>10, <2>1 DEF Fail, Release
  <2>3. attempts' \in [Events -> 0..MaxAttempts]
    BY <1>10, <2>1 DEF Fail, Bump
  <2>4. QED
    BY <1>10, <2>2, <2>3 DEF Fail, Goto, PC
<1>11. ASSUME NEW w \in Workers, LogToFile(w) PROVE TypeOK'
  BY <1>11, SMTT(30) DEF LogToFile, Bump, Goto, PC, table, MemoryOK, Busy
<1>12. ASSUME NEW w \in Workers, LogToTable(w) PROVE TypeOK'
  <2>1. logRows' \in [Events -> 0..MaxAttempts]
    BY <1>12, SMTT(30) DEF LogToTable, Bump, MemoryOK, Busy
  <2>2. QED
    BY <1>12, <2>1 DEF LogToTable, Goto, PC
<1>13. ASSUME NEW w \in Workers, Heartbeat(w) PROVE TypeOK'
  <2>1. age' \in [Workers -> Unregistered..(StaleAfter + 1)]
    BY <1>13 DEF Heartbeat
  <2>2. QED
    BY <1>13, <2>1 DEF Heartbeat, Goto, PC
<1>14. ASSUME NEW w \in Workers, Die(w) PROVE TypeOK'
  BY <1>14 DEF Die, Goto, PC, table
<1>15. ASSUME NEW w \in Workers, Restart(w) PROVE TypeOK'
  BY <1>15 DEF Restart, Goto, PC, table
<1>16. CASE UNCHANGED vars
  BY <1>16 DEF vars, table, memory
<1>17. QED
  BY <1>1, <1>2, <1>3, <1>4, <1>5, <1>6, <1>7, <1>8, <1>9, <1>10, <1>11, <1>12,
     <1>13, <1>14, <1>15, <1>16 DEF Next, Step

\* Every step keeps what the workers remember in agreement with the rows.
LEMMA MemoryStep == ASSUME TypeOK, MemoryOK, RowsOK, [Next]_vars
                    PROVE MemoryOK' /\ RowsOK'
<1> USE WorkerLeaseAssumption DEF TypeOK, MemoryOK, RowsOK, Busy
<1>1. CASE Insert
  BY <1>1 DEF Insert, memory
<1>2. CASE Tick
  BY <1>2 DEF Tick, memory
<1>3. ASSUME NEW w \in Workers, RunOnce(w) PROVE MemoryOK' /\ RowsOK'
  BY <1>3 DEF RunOnce, Goto
<1>4. ASSUME NEW w \in Workers, Claim(w) PROVE MemoryOK' /\ RowsOK'
  <2>1. current[w] = None
    BY <1>4 DEF Claim
  <2>2. PICK S \in SUBSET Claimable(Head(todo[w])) : batch' = [batch EXCEPT ![w] = S]
    BY <1>4 DEF Claim
  <2>3. S \subseteq stored /\ None \notin S
    BY DEF Claimable
  <2>4. QED
    BY <1>4, <2>1, <2>2, <2>3 DEF Claim
<1>5. ASSUME NEW w \in Workers, Start(w) PROVE MemoryOK' /\ RowsOK'
  BY <1>5 DEF Start, Goto, table
<1>6. ASSUME NEW w \in Workers, Succeed(w) PROVE MemoryOK' /\ RowsOK'
  BY <1>6 DEF Succeed, Goto, table
<1>7. ASSUME NEW w \in Workers, Ack(w) PROVE MemoryOK' /\ RowsOK'
  BY <1>7 DEF Ack, Goto
<1>8. ASSUME NEW w \in Workers, Raise(w) PROVE MemoryOK' /\ RowsOK'
  BY <1>8 DEF Raise, Goto, table
<1>9. ASSUME NEW w \in Workers, Compensate(w) PROVE MemoryOK' /\ RowsOK'
  BY <1>9 DEF Compensate, Goto, table
<1>10. ASSUME NEW w \in Workers, Fail(w) PROVE MemoryOK' /\ RowsOK'
  BY <1>10 DEF Fail, Goto
<1>11. ASSUME NEW w \in Workers, LogToFile(w) PROVE MemoryOK' /\ RowsOK'
  BY <1>11 DEF LogToFile, Goto, table
<1>12. ASSUME NEW w \in Workers, LogToTable(w) PROVE MemoryOK' /\ RowsOK'
  BY <1>12 DEF LogToTable, Goto
<1>13. ASSUME NEW w \in Workers, Heartbeat(w) PROVE MemoryOK' /\ RowsOK'
  BY <1>13 DEF Heartbeat, Goto
<1>14. ASSUME NEW w \in Workers, Die(w) PROVE MemoryOK' /\ RowsOK'
  BY <1>14 DEF Die, Goto, table
<1>15. ASSUME NEW w \in Workers, Restart(w) PROVE MemoryOK' /\ RowsOK'
  BY <1>15 DEF Restart, Goto, table
<1>16. CASE UNCHANGED vars
  BY <1>16 DEF vars, table, memory
<1>17. QED
  BY <1>1, <1>2, <1>3, <1>4, <1>5, <1>6, <1>7, <1>8, <1>9, <1>10, <1>11, <1>12,
     <1>13, <1>14, <1>15, <1>16 DEF Next, Step

\* Under Timely every step keeps the held events claimed: a claim takes only rows
\* that no live worker holds, and a release touches only the releaser's own row.
LEMMA HolderStep == ASSUME TypeOK, MemoryOK, RowsOK, Timely, HolderOwnsClaim, [Next]_vars
                    PROVE HolderOwnsClaim'
<1> USE WorkerLeaseAssumption
<1> DEFINE Owns(v, e) == claimedBy[e] = v /\ lease[e] >= 0 /\ e \notin processed
<1>0. \A v \in Workers : Holding(v) \subseteq Events
  BY DEF TypeOK, MemoryOK, Busy, Holding
<1> SUFFICES ASSUME NEW v \in Workers, NEW e \in Holding(v)' PROVE Owns(v, e)'
  BY DEF HolderOwnsClaim
<1>1. CASE Insert
  BY <1>1 DEF Insert, memory, HolderOwnsClaim, Holding
<1>2. CASE Tick
  <2>1. e \in Holding(v) /\ e \in Events
    BY <1>0, <1>2 DEF Tick, memory, Holding
  <2>2. lease[e] > 0 /\ lease[e] \in Int
    BY <1>2, <2>1 DEF Tick, TypeOK, Expired
  <2>3. QED
    BY <1>2, <2>1, <2>2 DEF Tick, HolderOwnsClaim, Expired
<1>3. ASSUME NEW w \in Workers, Claim(w) PROVE Owns(v, e)'
  <2>1. PICK S \in SUBSET Claimable(Head(todo[w])) :
          /\ batch' = [batch EXCEPT ![w] = S]
          /\ claimedBy' = [f \in Events |-> IF f \in S THEN w ELSE claimedBy[f]]
          /\ lease' = [f \in Events |-> IF f \in S THEN LeaseSeconds ELSE lease[f]]
    BY <1>3 DEF Claim
  <2>2. processed' = processed /\ pc' = pc /\ current' = current /\ pc[w] = "polling"
    BY <1>3 DEF Claim
  <2>3. S \subseteq Events /\ S \cap processed = {}
    BY DEF Claimable, TypeOK
  <2>4. CASE e \in S
    <3>1. v = w
      <4> SUFFICES ASSUME v # w PROVE FALSE
        OBVIOUS
      <4>1. e \in Holding(v)
        BY <2>1, <2>2 DEF Holding, TypeOK
      <4>2. claimedBy[e] = v /\ lease[e] >= 0 /\ lease[e] \in Int
        BY <4>1, <1>0 DEF HolderOwnsClaim, TypeOK, Expired
      <4>3. claimedBy[e] = None \/ lease[e] < 0
        BY <2>4 DEF Claimable
      <4>4. QED
        BY <4>2, <4>3
    <3>2. QED
      BY <2>1, <2>2, <2>3, <2>4, <3>1
  <2>5. CASE e \notin S
    <3>1. e \in Holding(v) /\ e \in Events
      BY <1>0, <2>1, <2>2, <2>5 DEF Holding, TypeOK
    <3>2. QED
      BY <2>1, <2>2, <2>5, <3>1 DEF HolderOwnsClaim
  <2>6. QED
    BY <2>4, <2>5
<1>4. ASSUME NEW w \in Workers, Start(w) PROVE Owns(v, e)'
  <2>1. UNCHANGED <<claimedBy, lease, processed>>
    BY <1>4 DEF Start, table
  <2>2. e \in Holding(v)
    BY <1>4, SMTT(30) DEF Start, Goto, Holding, TypeOK
  <2>3. QED
    BY <2>1, <2>2 DEF HolderOwnsClaim
<1>5. ASSUME NEW w \in Workers,
             RunOnce(w) \/ Succeed(w) \/ Raise(w) \/ Compensate(w) \/ LogToFile(w)
               \/ LogToTable(w) \/ Heartbeat(w) \/ Die(w) \/ Restart(w)
      PROVE Owns(v, e)'
  <2>1. UNCHANGED <<claimedBy, lease, processed>>
    BY <1>5 DEF RunOnce, Succeed, Raise, Compensate, LogToFile, LogToTable, Heartbeat, Die,
                Restart, table
  <2>2. e \in Holding(v)
    <3>1. CASE Succeed(w) \/ Raise(w) \/ Compensate(w)
      BY <3>1 DEF Succeed, Raise, Compensate, Goto, Holding, TypeOK
    <3>2. CASE RunOnce(w) \/ Heartbeat(w) \/ Restart(w)
      BY <3>2 DEF RunOnce, Heartbeat, Restart, Goto, Holding, TypeOK
    <3>3. CASE LogToFile(w) \/ LogToTable(w)
      BY <3>3, SMTT(30) DEF LogToFile, LogToTable, Goto, Holding, TypeOK
    <3>4. CASE Die(w)
      BY <3>4 DEF Die, Goto, Holding, TypeOK
    <3>5. QED
      BY <1>5, <3>1, <3>2, <3>3, <3>4
  <2>3. QED
    BY <2>1, <2>2 DEF HolderOwnsClaim
<1>6. ASSUME NEW w \in Workers, Ack(w) \/ Fail(w) PROVE Owns(v, e)'
  <2>1. /\ claimedBy' = [claimedBy EXCEPT ![current[w]] = None]
        /\ lease' = [lease EXCEPT ![current[w]] = Expired]
        /\ processed' \subseteq processed \cup {current[w]}
    BY <1>6 DEF Ack, Fail, Release
  <2>2. current[w] \in Holding(w) /\ current[w] \notin batch[w]
    BY <1>6 DEF Ack, Fail, Holding, MemoryOK
  <2>3. e \in Holding(v) /\ e \in Events
    BY <1>0, <1>6, SMTT(30) DEF Ack, Fail, Goto, Holding, TypeOK
  <2>4. e # current[w]
    <3>1. CASE v = w
      BY <1>6, <2>2, <3>1 DEF Ack, Fail, Goto, Holding, TypeOK
    <3>2. CASE v # w
      BY <2>2, <2>3, <3>2 DEF HolderOwnsClaim
    <3>3. QED
      BY <3>1, <3>2
  <2>5. QED
    BY <2>1, <2>3, <2>4 DEF HolderOwnsClaim, TypeOK
<1>7. CASE UNCHANGED vars
  BY <1>7 DEF vars, table, memory, HolderOwnsClaim, Holding
<1>8. QED
  BY <1>1, <1>2, <1>3, <1>4, <1>5, <1>6, <1>7 DEF Next, Step

\* Every step keeps what the workers remember true of the table.
LEMMA IInvStep == ASSUME IInv, [Next]_vars PROVE IInv'
BY TypeStep, MemoryStep, HolderStep DEF IInv

\* The inductive invariant holds always.
LEMMA Invariance == Spec => []IInv
<1>1. QED
  BY InitIInv, IInvStep, PTL DEF Spec

-----------------------------------------------------------------------------
\* The tables of events.db and the memory of the workers keep their types.
THEOREM TypeCorrect == Spec => []TypeOK
<1>1. IInv => TypeOK
  BY DEF IInv
<1>2. QED
  BY Invariance, <1>1, PTL

\* While leases outlast batches no event is ever in the hands of two workers: the
\* atomic claim_events() and the lease exclude, for any number of workers.
THEOREM Exclusion == ASSUME Timely PROVE Spec => []Exclusive
<1>1. IInv => Exclusive
  BY DEF IInv, HolderOwnsClaim, Exclusive
<1>2. QED
  BY Invariance, <1>1, PTL

\* While leases outlast batches a processed row is never claimed, failed or
\* reopened, although ack_event() and fail_event() do not look at the row first.
THEOREM FrozenRows == ASSUME Timely PROVE Spec => ProcessedRowFrozen
<1> DEFINE Frozen == \A e \in processed : /\ e \in processed'
                                          /\ claimedBy'[e] = claimedBy[e]
                                          /\ attempts'[e] = attempts[e]
<1>1. ASSUME IInv, [Next]_vars PROVE Frozen
  <2> SUFFICES ASSUME NEW e \in processed
               PROVE e \in processed' /\ claimedBy'[e] = claimedBy[e] /\ attempts'[e] = attempts[e]
    OBVIOUS
  <2> USE <1>1 DEF IInv, TypeOK
  <2>1. CASE Insert
    BY <2>1 DEF Insert
  <2>2. CASE Tick
    BY <2>2 DEF Tick
  <2>3. ASSUME NEW w \in Workers, Claim(w)
        PROVE e \in processed' /\ claimedBy'[e] = claimedBy[e] /\ attempts'[e] = attempts[e]
    BY <2>3 DEF Claim, Claimable
  <2>4. ASSUME NEW w \in Workers, Ack(w) \/ Fail(w)
        PROVE e \in processed' /\ claimedBy'[e] = claimedBy[e] /\ attempts'[e] = attempts[e]
    <3>1. current[w] \in Holding(w)
      BY <2>4 DEF Ack, Fail, Holding
    <3>2. e # current[w]
      BY <3>1 DEF HolderOwnsClaim
    <3>3. QED
      BY <2>4, <3>2 DEF Ack, Fail, Release
  <2>5. ASSUME NEW w \in Workers,
               RunOnce(w) \/ Start(w) \/ Succeed(w) \/ Raise(w) \/ Compensate(w)
                 \/ LogToFile(w) \/ LogToTable(w) \/ Heartbeat(w) \/ Die(w) \/ Restart(w)
        PROVE e \in processed' /\ claimedBy'[e] = claimedBy[e] /\ attempts'[e] = attempts[e]
    BY <2>5 DEF RunOnce, Start, Succeed, Raise, Compensate, LogToFile, LogToTable, Heartbeat,
                Die, Restart, table
  <2>6. CASE UNCHANGED vars
    BY <2>6 DEF vars, table
  <2>7. QED
    BY <2>1, <2>2, <2>3, <2>4, <2>5, <2>6 DEF Next, Step
<1>2. QED
  BY Invariance, <1>1, PTL DEF Spec, ProcessedRowFrozen

\* While leases outlast batches an unexpired claim ends only by the ack_event() or
\* fail_event() of the worker the row names, never by that of a previous holder.
THEOREM ClaimsKept == ASSUME Timely PROVE Spec => UnexpiredClaimKept
<1> DEFINE Kept == \A w \in Workers, e \in Events :
                      (claimedBy[e] = w /\ lease[e] >= 0 /\ claimedBy'[e] # w) =>
                          /\ pc[w] \in {"acking", "failing"}
                          /\ current[w] = e
                          /\ pc'[w] # pc[w]
<1>1. ASSUME IInv, [Next]_vars PROVE Kept
  <2> SUFFICES ASSUME NEW w \in Workers, NEW e \in Events,
                      claimedBy[e] = w, lease[e] >= 0, claimedBy'[e] # w
               PROVE pc[w] \in {"acking", "failing"} /\ current[w] = e /\ pc'[w] # pc[w]
    OBVIOUS
  <2> USE <1>1, WorkerLeaseAssumption DEF IInv, TypeOK
  <2>1. ASSUME NEW v \in Workers, Ack(v) \/ Fail(v)
        PROVE pc[w] \in {"acking", "failing"} /\ current[w] = e /\ pc'[w] # pc[w]
    <3>1. current[v] = e
      BY <2>1 DEF Ack, Fail, Release
    <3>2. current[v] \in Holding(v)
      BY <2>1 DEF Ack, Fail, Holding
    <3>3. v = w
      BY <3>1, <3>2 DEF HolderOwnsClaim
    <3>4. QED
      BY <2>1, <3>1, <3>3 DEF Ack, Fail, Goto
  <2>2. ASSUME NEW v \in Workers, Claim(v) PROVE FALSE
    <3>1. PICK S \in SUBSET Claimable(Head(todo[v])) :
             claimedBy' = [f \in Events |-> IF f \in S THEN v ELSE claimedBy[f]]
      BY <2>2 DEF Claim
    <3>2. e \in S
      BY <3>1
    <3>3. claimedBy[e] = None \/ lease[e] < 0
      BY <3>2 DEF Claimable
    <3>4. lease[e] \in Int
      BY DEF Expired
    <3>5. QED
      BY <3>3, <3>4, SMTT(30)
  <2>3. claimedBy' # claimedBy
    OBVIOUS
  <2>4. QED
    BY <2>1, <2>2, <2>3 DEF Next, Step, Insert, Tick, RunOnce, Start, Succeed, Raise,
       Compensate, LogToFile, LogToTable, Heartbeat, Die, Restart, table, vars
<1>2. QED
  BY Invariance, <1>1, PTL DEF Spec, UnexpiredClaimKept

-----------------------------------------------------------------------------
\* Whatever the leases, the timing, the crashes and the retries, the store and its
\* workers implement the safety part of the at-least-once contract.
THEOREM Implementation == Spec => ImplementsAtLeastOnce
<1>1. Init => Contract!Init
  BY DEF Init, Contract!Init
<1>2. ASSUME IInv, [Next]_vars PROVE [Contract!Next]_(Contract!vars)
  <2> USE <1>2 DEF IInv, TypeOK, Contract!Next, Contract!vars
  <2>1. CASE Insert
    <3>1. PICK new \in SUBSET Events : stored' = stored \cup new
      BY <2>1 DEF Insert
    <3>2. Contract!Store
      BY <2>1, <3>1 DEF Insert, Contract!Store
    <3>3. QED
      BY <3>2
  <2>2. ASSUME NEW w \in Workers, Succeed(w) PROVE [Contract!Next]_(Contract!vars)
    <3>1. current[w] \in stored \ Poison /\ current[w] \in Events
      BY <2>2 DEF Succeed, MemoryOK, Busy
    <3>2. Contract!Perform(current[w])
      BY <2>2, <3>1 DEF Succeed, table, Contract!Perform
    <3>3. QED
      BY <3>1, <3>2
  <2>3. ASSUME NEW w \in Workers, Ack(w) PROVE [Contract!Next]_(Contract!vars)
    <3>1. current[w] \in performed /\ current[w] \in Events
      BY <2>3 DEF Ack, MemoryOK, Busy
    <3>2. Contract!Complete(current[w])
      BY <2>3, <3>1 DEF Ack, Contract!Complete
    <3>3. QED
      BY <3>1, <3>2
  <2>4. ASSUME NEW w \in Workers,
               RunOnce(w) \/ Claim(w) \/ Start(w) \/ Raise(w) \/ Compensate(w) \/ Fail(w)
                 \/ LogToFile(w) \/ LogToTable(w) \/ Heartbeat(w) \/ Die(w) \/ Restart(w)
        PROVE UNCHANGED Contract!vars
    BY <2>4 DEF RunOnce, Claim, Start, Raise, Compensate, Fail, LogToFile, LogToTable,
                Heartbeat, Die, Restart, table
  <2>5. CASE Tick
    BY <2>5 DEF Tick
  <2>6. CASE UNCHANGED vars
    BY <2>6 DEF vars, table
  <2>7. QED
    BY <2>1, <2>2, <2>3, <2>4, <2>5, <2>6 DEF Next, Step
<1>3. QED
  BY Invariance, <1>1, <1>2, PTL DEF Spec, ImplementsAtLeastOnce, Contract!Spec
-----------------------------------------------------------------------------
\* Two workers whose leases ran out may fail the same event at the same time, so
\* that a counter is ahead of the next one by as many as stand between the two.
\* The counters saturate, and the workers need not be finitely many: Ahead says it
\* of every finite set of those in between.
Between(label, e) == {w \in Workers : pc[w] = label /\ current[w] = e}

Ahead(among, low, high) ==
    \/ high = MaxAttempts
    \/ \A S \in SUBSET among : IsFiniteSet(S) => low + Cardinality(S) <= high

CountersOK ==
    \A e \in Events : /\ Ahead(Between("logFile", e), logFile[e], attempts[e])
                      /\ Ahead(Between("logRow", e), logRows[e], logFile[e])

\* Nobody in between: the counters are in order.
LEMMA AheadOrders ==
    ASSUME NEW A, NEW low \in 0..MaxAttempts, NEW high \in 0..MaxAttempts, Ahead(A, low, high)
    PROVE  low <= high
<1>1. {} \in SUBSET A /\ IsFiniteSet({}) /\ Cardinality({}) = 0
  BY FS_EmptySet
<1>2. MaxAttempts \in Nat
  BY WorkerLeaseAssumption
<1>3. CASE high = MaxAttempts
  BY <1>2, <1>3
<1>4. CASE high # MaxAttempts
  <2>1. low + 0 <= high
    BY <1>1, <1>4 DEF Ahead
  <2>2. QED
    BY <1>2, <2>1
<1>5. QED
  BY <1>3, <1>4

\* A worker leaves without a trace.
LEMMA AheadFewer ==
    ASSUME NEW A, NEW B \in SUBSET A, NEW low, NEW high, Ahead(A, low, high)
    PROVE  Ahead(B, low, high)
BY DEF Ahead

\* A worker has counted in the one, and still has to count in the other.
LEMMA AheadEnters ==
    ASSUME NEW A, NEW w, NEW B \in SUBSET (A \cup {w}),
           NEW low \in 0..MaxAttempts, NEW high \in 0..MaxAttempts, Ahead(A, low, high)
    PROVE  Ahead(B, low, Bump(high))
<1>1. MaxAttempts \in Nat /\ low \in Nat /\ high \in Nat
  BY WorkerLeaseAssumption
<1>2. CASE Bump(high) = MaxAttempts
  BY <1>2 DEF Ahead
<1>3. CASE Bump(high) # MaxAttempts
  <2>1. Bump(high) = high + 1 /\ high # MaxAttempts
    BY <1>1, <1>3 DEF Bump
  <2>2. ASSUME NEW S \in SUBSET B, IsFiniteSet(S) PROVE low + Cardinality(S) <= high + 1
    <3>1. IsFiniteSet(S \ {w}) /\ S \ {w} \in SUBSET A
          /\ Cardinality(S \ {w}) = IF w \in S THEN Cardinality(S) - 1 ELSE Cardinality(S)
      BY <2>2, FS_RemoveElement
    <3>2. low + Cardinality(S \ {w}) <= high
      BY <2>1, <3>1 DEF Ahead
    <3>3. Cardinality(S) \in Nat
      BY <2>2, FS_CardinalityType
    <3>4. QED
      BY <1>1, <3>1, <3>2, <3>3
  <2>3. QED
    BY <2>1, <2>2 DEF Ahead
<1>4. QED
  BY <1>2, <1>3

\* A worker in between counts in the other.
LEMMA AheadLeaves ==
    ASSUME NEW A, NEW w \in A, NEW B \in SUBSET (A \ {w}),
           NEW low \in 0..MaxAttempts, NEW high \in 0..MaxAttempts, Ahead(A, low, high)
    PROVE  Ahead(B, Bump(low), high)
<1>1. MaxAttempts \in Nat /\ low \in Nat /\ high \in Nat
  BY WorkerLeaseAssumption
<1>2. CASE high = MaxAttempts
  BY <1>2 DEF Ahead
<1>3. CASE high # MaxAttempts
  <2>1. Bump(low) <= low + 1 /\ Bump(low) \in Nat
    BY <1>1 DEF Bump
  <2>2. ASSUME NEW S \in SUBSET B, IsFiniteSet(S) PROVE Bump(low) + Cardinality(S) <= high
    <3>1. IsFiniteSet(S \cup {w}) /\ S \cup {w} \in SUBSET A
          /\ Cardinality(S \cup {w}) = Cardinality(S) + 1
      BY <2>2, FS_AddElement
    <3>2. low + Cardinality(S \cup {w}) <= high
      BY <1>3, <3>1 DEF Ahead
    <3>3. Cardinality(S) \in Nat
      BY <2>2, FS_CardinalityType
    <3>4. QED
      BY <1>1, <2>1, <3>1, <3>2, <3>3
  <2>3. QED
    BY <2>2 DEF Ahead
<1>4. QED
  BY <1>2, <1>3

\* A step that counts nowhere, and after which no worker stands in between that
\* did not before.
LEMMA CountersKept ==
    ASSUME CountersOK, UNCHANGED <<attempts, logFile, logRows>>,
           \A e \in Events : /\ Between("logFile", e)' \subseteq Between("logFile", e)
                             /\ Between("logRow", e)' \subseteq Between("logRow", e)
    PROVE  CountersOK'
<1>1. ASSUME NEW e \in Events
      PROVE  /\ Ahead(Between("logFile", e)', logFile[e], attempts[e])
             /\ Ahead(Between("logRow", e)', logRows[e], logFile[e])
  BY AheadFewer DEF CountersOK
<1>2. QED
  BY <1>1 DEF CountersOK, Ahead

\* Every step keeps a failure counted before it is logged.
LEMMA CountersStep == ASSUME TypeOK, MemoryOK, CountersOK, [Next]_vars PROVE CountersOK'
<1> USE DEF TypeOK
<1>1. CASE Insert \/ Tick
  BY <1>1, CountersKept DEF Insert, Tick, memory, Between
<1>2. ASSUME NEW w \in Workers, RunOnce(w) PROVE CountersOK'
  BY <1>2, CountersKept DEF RunOnce, Goto, Between
<1>3. ASSUME NEW w \in Workers, Claim(w) PROVE CountersOK'
  BY <1>3, CountersKept DEF Claim, Between
<1>4. ASSUME NEW w \in Workers, Start(w) PROVE CountersOK'
  BY <1>4, CountersKept DEF Start, Goto, table, Between
<1>5. ASSUME NEW w \in Workers, Succeed(w) \/ Raise(w) \/ Compensate(w) PROVE CountersOK'
  BY <1>5, CountersKept DEF Succeed, Raise, Compensate, Goto, table, Between
<1>6. ASSUME NEW w \in Workers, Ack(w) PROVE CountersOK'
  BY <1>6, CountersKept DEF Ack, Goto, Between
<1>7. ASSUME NEW w \in Workers, Heartbeat(w) \/ Restart(w) PROVE CountersOK'
  BY <1>7, CountersKept DEF Heartbeat, Restart, Goto, table, Between
<1>8. ASSUME NEW w \in Workers, Die(w) PROVE CountersOK'
  BY <1>8, CountersKept DEF Die, Goto, table, Between
<1>9. CASE UNCHANGED vars
  BY <1>9, CountersKept DEF vars, table, memory, Between
<1>10. ASSUME NEW w \in Workers, Fail(w) PROVE CountersOK'
  <2>1. ASSUME NEW e \in Events
        PROVE  /\ Ahead(Between("logFile", e)', logFile'[e], attempts'[e])
               /\ Ahead(Between("logRow", e)', logRows'[e], logFile'[e])
    <3>1. UNCHANGED <<current, logFile, logRows>> /\ pc' = [pc EXCEPT ![w] = "logFile"]
          /\ attempts' = [attempts EXCEPT ![current[w]] = Bump(@)]
      BY <1>10 DEF Fail, Goto
    <3>2. Between("logRow", e)' \subseteq Between("logRow", e)
      BY <3>1 DEF Between
    <3>3. Ahead(Between("logRow", e)', logRows'[e], logFile'[e])
      BY <3>1, <3>2, AheadFewer DEF CountersOK
    <3>4. CASE current[w] = e
      <4>1. Between("logFile", e)' \subseteq Between("logFile", e) \cup {w}
        BY <3>1 DEF Between
      <4>2. attempts'[e] = Bump(attempts[e])
        BY <3>1, <3>4
      <4>3. Ahead(Between("logFile", e)', logFile[e], Bump(attempts[e]))
        BY <4>1, AheadEnters DEF CountersOK
      <4>4. QED
        BY <3>1, <3>3, <4>2, <4>3
    <3>5. CASE current[w] # e
      <4>1. Between("logFile", e)' \subseteq Between("logFile", e)
        BY <3>1, <3>5 DEF Between
      <4>2. attempts'[e] = attempts[e]
        BY <3>1, <3>5
      <4>3. Ahead(Between("logFile", e)', logFile[e], attempts[e])
        BY <4>1, AheadFewer DEF CountersOK
      <4>4. QED
        BY <3>1, <3>3, <4>2, <4>3
    <3>6. QED
      BY <3>4, <3>5
  <2>2. QED
    BY <2>1 DEF CountersOK, Ahead
<1>11. ASSUME NEW w \in Workers, LogToFile(w) PROVE CountersOK'
  <2>1. ASSUME NEW e \in Events
        PROVE  /\ Ahead(Between("logFile", e)', logFile'[e], attempts'[e])
               /\ Ahead(Between("logRow", e)', logRows'[e], logFile'[e])
    <3>1. UNCHANGED <<current, attempts, logRows>> /\ pc' = [pc EXCEPT ![w] = "logRow"]
          /\ logFile' = [logFile EXCEPT ![current[w]] = Bump(@)] /\ pc[w] = "logFile"
      BY <1>11 DEF LogToFile, Goto, table
    <3>2. CASE current[w] = e
      <4>1. w \in Between("logFile", e)
            /\ Between("logFile", e)' \subseteq Between("logFile", e) \ {w}
            /\ Between("logRow", e)' \subseteq Between("logRow", e) \cup {w}
        BY <3>1, <3>2 DEF Between
      <4>2. logFile'[e] = Bump(logFile[e])
        BY <3>1, <3>2
      <4>3. Ahead(Between("logFile", e)', Bump(logFile[e]), attempts[e])
        BY <4>1, AheadLeaves DEF CountersOK
      <4>4. Ahead(Between("logRow", e)', logRows[e], Bump(logFile[e]))
        BY <4>1, AheadEnters DEF CountersOK
      <4>5. QED
        BY <3>1, <4>2, <4>3, <4>4
    <3>3. CASE current[w] # e
      <4>1. Between("logFile", e)' \subseteq Between("logFile", e)
            /\ Between("logRow", e)' \subseteq Between("logRow", e)
        BY <3>1, <3>3 DEF Between
      <4>2. logFile'[e] = logFile[e]
        BY <3>1, <3>3
      <4>3. Ahead(Between("logFile", e)', logFile[e], attempts[e])
            /\ Ahead(Between("logRow", e)', logRows[e], logFile[e])
        BY <4>1, AheadFewer DEF CountersOK
      <4>4. QED
        BY <3>1, <4>2, <4>3
    <3>4. QED
      BY <3>2, <3>3
  <2>2. QED
    BY <2>1 DEF CountersOK, Ahead
<1>12. ASSUME NEW w \in Workers, LogToTable(w) PROVE CountersOK'
  <2>1. ASSUME NEW e \in Events
        PROVE  /\ Ahead(Between("logFile", e)', logFile'[e], attempts'[e])
               /\ Ahead(Between("logRow", e)', logRows'[e], logFile'[e])
    <3>1. UNCHANGED <<attempts, logFile>> /\ pc' = [pc EXCEPT ![w] = "polling"]
          /\ current' = [current EXCEPT ![w] = None]
          /\ logRows' = [logRows EXCEPT ![current[w]] = Bump(@)] /\ pc[w] = "logRow"
      BY <1>12 DEF LogToTable, Goto
    <3>2. Between("logFile", e)' \subseteq Between("logFile", e)
      BY <3>1 DEF Between
    <3>3. Ahead(Between("logFile", e)', logFile'[e], attempts'[e])
      BY <3>1, <3>2, AheadFewer DEF CountersOK
    <3>4. CASE current[w] = e
      <4>1. w \in Between("logRow", e)
            /\ Between("logRow", e)' \subseteq Between("logRow", e) \ {w}
        BY <3>1, <3>4 DEF Between
      <4>2. logRows'[e] = Bump(logRows[e])
        BY <3>1, <3>4
      <4>3. Ahead(Between("logRow", e)', Bump(logRows[e]), logFile[e])
        BY <4>1, AheadLeaves DEF CountersOK
      <4>4. QED
        BY <3>1, <3>3, <4>2, <4>3
    <3>5. CASE current[w] # e
      <4>1. Between("logRow", e)' \subseteq Between("logRow", e)
        BY <3>1, <3>5 DEF Between
      <4>2. logRows'[e] = logRows[e]
        BY <3>1, <3>5
      <4>3. Ahead(Between("logRow", e)', logRows[e], logFile[e])
        BY <4>1, AheadFewer DEF CountersOK
      <4>4. QED
        BY <3>1, <3>3, <4>2, <4>3
    <3>6. QED
      BY <3>4, <3>5
  <2>2. QED
    BY <2>1 DEF CountersOK, Ahead
<1>13. QED
  BY <1>1, <1>2, <1>3, <1>4, <1>5, <1>6, <1>7, <1>8, <1>9, <1>10, <1>11, <1>12
  DEF Next, Step

\* A failure is counted before it is written to the file, and written to the file
\* before the table: for any number of workers that fail the same event at once,
\* whichever of them dies, whatever the leases.
THEOREM FailuresCounted == Spec => []CountedBeforeLogged
<1>1. ASSUME Init PROVE CountersOK
  <2>1. ASSUME NEW e \in Events
        PROVE  /\ Between("logFile", e) = {} /\ Between("logRow", e) = {}
               /\ attempts[e] = 0 /\ logFile[e] = 0 /\ logRows[e] = 0
    BY <1>1 DEF Init, Between
  <2>2. Ahead({}, 0, 0)
    <3>1. \A S \in SUBSET {} : 0 + Cardinality(S) <= 0
      BY FS_EmptySet
    <3>2. QED
      BY <3>1 DEF Ahead
  <2>3. QED
    BY <2>1, <2>2 DEF CountersOK
<1>2. IInv /\ CountersOK /\ [Next]_vars => CountersOK'
  BY CountersStep DEF IInv
<1>3. TypeOK /\ CountersOK => CountedBeforeLogged
  BY AheadOrders DEF TypeOK, CountersOK, CountedBeforeLogged
<1>4. IInv => TypeOK
  BY DEF IInv
<1>5. QED
  BY Invariance, <1>1, <1>2, <1>3, <1>4, PTL DEF Spec
=============================================================================
