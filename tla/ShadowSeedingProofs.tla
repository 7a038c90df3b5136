------------------------ MODULE ShadowSeedingProofs ------------------------
(***************************************************************************)
(* Proofs about ShadowSeeding, for every set of posts and every number of   *)
(* replays and failures.  IInv relates the server's place and the entry it  *)
(* has at hand to the log and the replica; it is inductive, and its parts   *)
(* are the invariants.                                                      *)
(***************************************************************************)
EXTENDS ShadowSeeding, TLAPS

Entry  == [post : Posts, torn : BOOLEAN]
Places == {"down", "sweeping", "sweep delete", "serving", "seeded", "replaying",
           "replayed", "deleted"}

\* Closing an entry changes nothing but that entry's torn.
LEMMA TearDownFacts ==
    ASSUME log \in Seq(Entry), NEW i \in DOMAIN log, TearDown(i)
    PROVE  /\ log' \in Seq(Entry)
           /\ Len(log') = Len(log)
           /\ DOMAIN log' = DOMAIN log
           /\ \A j \in DOMAIN log : log'[j].post = log[j].post
           /\ Pending' = Pending \ {i}
<1>1. log' \in Seq(Entry) /\ Len(log') = Len(log) /\ DOMAIN log' = DOMAIN log
  <2>1. log \in [1..Len(log) -> Entry] /\ i \in 1..Len(log)
    OBVIOUS
  <2>2. log' = [log EXCEPT ![i] = [log[i] EXCEPT !.torn = TRUE]]
    BY DEF TearDown
  <2>3. [log[i] EXCEPT !.torn = TRUE] \in Entry
    BY <2>1 DEF Entry
  <2>4. QED
    BY <2>1, <2>2, <2>3
<1>2. \A j \in DOMAIN log : log[j] \in Entry
  OBVIOUS
<1>3. \A j \in DOMAIN log : /\ log'[j].post = log[j].post
                            /\ log'[j].torn = (log[j].torn \/ j = i)
  BY <1>2 DEF TearDown, Entry
<1>4. Pending' = Pending \ {i}
  BY <1>1, <1>3 DEF Pending
<1>5. QED
  BY <1>1, <1>3, <1>4

\* A new entry is open and leaves the others as they are.
LEMMA AppendFacts ==
    ASSUME log \in Seq(Entry), NEW p \in Posts,
           log' = Append(log, [post |-> p, torn |-> FALSE])
    PROVE  /\ log' \in Seq(Entry)
           /\ Len(log') = Len(log) + 1
           /\ \A j \in DOMAIN log : j \in DOMAIN log' /\ log'[j] = log[j]
           /\ log'[Len(log) + 1].post = p
           /\ Pending' = Pending \cup {Len(log) + 1}
<1>1. [post |-> p, torn |-> FALSE] \in Entry
  BY DEF Entry
<1>2. /\ log' \in Seq(Entry)
      /\ Len(log') = Len(log) + 1
      /\ DOMAIN log = 1..Len(log) /\ DOMAIN log' = 1..(Len(log) + 1)
      /\ \A j \in DOMAIN log : log'[j] = log[j]
      /\ log'[Len(log) + 1] = [post |-> p, torn |-> FALSE]
  BY <1>1
<1>3. Pending' = Pending \cup {Len(log) + 1}
  BY <1>2 DEF Pending
<1>4. QED
  BY <1>2, <1>3

-----------------------------------------------------------------------------
\* The server starts down, with an empty log.
LEMMA InitIInv == Init => IInv
<1> SUFFICES ASSUME Init PROVE IInv
  OBVIOUS
<1> USE ShadowSeedingAssumption DEF Init, Pending
<1>1. TypeOK
  BY DEF TypeOK
<1>2. OnlySeedsLogged /\ EntryAtHand /\ GoneBeforeClosed
  BY DEF OnlySeedsLogged, EntryAtHand, GoneBeforeClosed
<1>3. PostThereForReplay /\ NativeKept /\ NothingForgotten
  BY DEF PostThereForReplay, NativeKept, NothingForgotten
<1>4. QED
  BY <1>1, <1>2, <1>3 DEF IInv

\* Every step keeps the invariant.
LEMMA NextIInv == ASSUME IInv, [Next]_vars PROVE IInv'
<1> USE ShadowSeedingAssumption DEF IInv
<1>log. /\ log \in Seq(Entry) /\ Len(log) \in Nat
      /\ DOMAIN log = 1..Len(log) /\ Pending \subseteq DOMAIN log
  <2>1. log \in Seq(Entry)
    BY DEF TypeOK, Entry
  <2>2. QED
    BY <2>1 DEF Pending
<1>types. /\ replica \subseteq Posts /\ unlogged \subseteq Posts
       /\ failures \in Nat /\ failures <= MaxFailures /\ MaxFailures \in Nat
       /\ pending \subseteq DOMAIN log
  <2>1. replica \subseteq Posts /\ unlogged \subseteq Posts
    BY DEF TypeOK
  <2>2. MaxFailures \in Nat
    OBVIOUS
  <2>3. failures \in Nat /\ failures <= MaxFailures
    <3>1. failures \in 0..MaxFailures
      BY DEF TypeOK
    <3>2. QED
      BY ONLY <2>2, <3>1
  <2>4. pending \subseteq DOMAIN log
    BY DEF TypeOK
  <2>5. QED
    BY <2>1, <2>2, <2>3, <2>4
<1>1. CASE Boot
  <2> USE <1>1 DEF Boot, Pending
  <2>1. TypeOK'
    BY DEF TypeOK, EntryAtHand
  <2>2. (OnlySeedsLogged /\ EntryAtHand /\ GoneBeforeClosed)'
    BY DEF OnlySeedsLogged, EntryAtHand, GoneBeforeClosed
  <2>3. QED
    BY <2>1, <2>2 DEF PostThereForReplay, NativeKept, NothingForgotten
<1>2. ASSUME NEW i \in DOMAIN log, SweepDelete(i) PROVE IInv'
  <2> USE <1>2 DEF SweepDelete
  <2>1. i \in Pending /\ log[i].post \notin Native /\ Pending' = Pending
    BY DEF EntryAtHand, OnlySeedsLogged, Pending
  <2>2. TypeOK'
    <3>1. /\ replica' \subseteq Posts /\ unlogged' \subseteq Posts
          /\ post' \in Posts \cup {None} /\ failures' \in 0..MaxFailures
      BY DEF TypeOK
    <3>2. log' \in Seq([post : Posts, torn : BOOLEAN]) /\ Len(log') <= MaxReplays
      BY DEF TypeOK
    <3>3. entry' \in 0..Len(log') /\ pending' \subseteq DOMAIN log'
      <4>1. i \in 1..Len(log) /\ entry' = i /\ log' = log /\ pending' = pending
        BY <1>log
      <4>2. QED
        BY ONLY <1>log, <1>types, <4>1
    <3>4. at' \in Places
      BY DEF Places
    <3>5. QED
      BY <3>1, <3>2, <3>3, <3>4 DEF TypeOK, Places
  <2>3. (OnlySeedsLogged /\ EntryAtHand /\ GoneBeforeClosed)'
    BY <2>1 DEF OnlySeedsLogged, EntryAtHand, GoneBeforeClosed
  <2>4. (PostThereForReplay /\ NativeKept /\ NothingForgotten)'
    BY <1>log, <2>1 DEF PostThereForReplay, NativeKept, NothingForgotten
  <2>5. QED
    BY <2>2, <2>3, <2>4
<1>3. CASE SweepRecord
  <2> USE <1>3 DEF SweepRecord
  <2>1. entry \in Pending /\ entry \in DOMAIN log /\ log[entry].post \notin replica
    BY <1>log DEF EntryAtHand, GoneBeforeClosed
  <2>2. /\ log' \in Seq(Entry) /\ Len(log') = Len(log) /\ DOMAIN log' = DOMAIN log
        /\ \A j \in DOMAIN log : log'[j].post = log[j].post
        /\ Pending' = Pending \ {entry}
    BY <1>log, <2>1, TearDownFacts
  <2>3. TypeOK'
    <3>1. /\ replica' \subseteq Posts /\ unlogged' \subseteq Posts
          /\ post' \in Posts \cup {None} /\ failures' \in 0..MaxFailures
      BY DEF TypeOK
    <3>2. log' \in Seq([post : Posts, torn : BOOLEAN]) /\ Len(log') <= MaxReplays
      BY <1>log, <2>2 DEF TypeOK, Entry
    <3>3. entry' \in 0..Len(log') /\ pending' \subseteq DOMAIN log'
      <4>1. entry' = 0 /\ pending' \subseteq pending
        OBVIOUS
      <4>2. QED
        BY ONLY <1>log, <1>types, <2>2, <4>1
    <3>4. at' \in Places
      BY DEF Places
    <3>5. QED
      BY <3>1, <3>2, <3>3, <3>4 DEF TypeOK, Places
  <2>4. OnlySeedsLogged'
    BY <2>2 DEF OnlySeedsLogged, Pending
  <2>5. (EntryAtHand /\ GoneBeforeClosed)'
    BY <2>2 DEF EntryAtHand, GoneBeforeClosed
  <2>6. NothingForgotten'
    BY <1>log, <2>1, <2>2 DEF NothingForgotten
  <2>7. QED
    BY <2>3, <2>4, <2>5, <2>6 DEF PostThereForReplay, NativeKept
<1>4. CASE Serve
  BY <1>4 DEF Serve, TypeOK, OnlySeedsLogged, EntryAtHand, GoneBeforeClosed,
     PostThereForReplay, NativeKept, NothingForgotten, Pending
<1>5. ASSUME NEW p \in Posts, FindPost(p) PROVE IInv'
  BY <1>5 DEF FindPost, TypeOK, OnlySeedsLogged, EntryAtHand, GoneBeforeClosed,
     PostThereForReplay, NativeKept, NothingForgotten, Pending
<1>6. ASSUME NEW p \in Posts, SeedPost(p) PROVE IInv'
  <2> USE <1>6 DEF SeedPost, Pending
  <2>1. p \notin Native
    BY DEF NativeKept
  <2>2. TypeOK'
    BY DEF TypeOK
  <2>3. (OnlySeedsLogged /\ EntryAtHand /\ GoneBeforeClosed)'
    BY <2>1 DEF OnlySeedsLogged, EntryAtHand, GoneBeforeClosed
  <2>4. (PostThereForReplay /\ NativeKept /\ NothingForgotten)'
    BY DEF PostThereForReplay, NativeKept, NothingForgotten
  <2>5. QED
    BY <2>2, <2>3, <2>4
<1>7. CASE RecordSeed
  <2> USE <1>7 DEF RecordSeed
  <2>1. post \in Posts /\ post \notin Native /\ post \in replica
    BY DEF EntryAtHand, OnlySeedsLogged
  <2>2. /\ log' \in Seq(Entry) /\ Len(log') = Len(log) + 1
        /\ \A j \in DOMAIN log : j \in DOMAIN log' /\ log'[j] = log[j]
        /\ log'[Len(log) + 1].post = post
        /\ Pending' = Pending \cup {Len(log) + 1}
    BY <1>log, <2>1, AppendFacts
  <2>3. Len(log) < MaxReplays
    BY DEF EntryAtHand
  <2>4. TypeOK'
    BY <1>log, <2>2, <2>3 DEF TypeOK, Entry
  <2>5. OnlySeedsLogged'
    BY <1>log, <2>1, <2>2 DEF OnlySeedsLogged, Pending
  <2>6. (EntryAtHand /\ GoneBeforeClosed)'
    BY <1>log, <2>1, <2>2 DEF EntryAtHand, GoneBeforeClosed
  <2>7. (PostThereForReplay /\ NativeKept /\ NothingForgotten)'
    BY <1>log, <2>1, <2>2 DEF PostThereForReplay, NativeKept, NothingForgotten
  <2>8. QED
    BY <2>4, <2>5, <2>6, <2>7
<1>8. CASE EndReplay
  <2> USE <1>8 DEF EndReplay, Pending
  <2>1. TypeOK'
    BY DEF TypeOK
  <2>2. QED
    BY <2>1 DEF OnlySeedsLogged, EntryAtHand, GoneBeforeClosed,
       PostThereForReplay, NativeKept, NothingForgotten
<1>9. CASE DeletePost
  <2> USE <1>9 DEF DeletePost, Pending
  <2>1. entry \in Pending /\ log[entry].post = post /\ post \notin Native
    BY <1>log DEF EntryAtHand, OnlySeedsLogged, TypeOK
  <2>2. TypeOK'
    BY DEF TypeOK
  <2>3. QED
    BY <2>1, <2>2 DEF OnlySeedsLogged, EntryAtHand, GoneBeforeClosed,
       PostThereForReplay, NativeKept, NothingForgotten
<1>10. CASE RecordTeardown
  <2> USE <1>10 DEF RecordTeardown
  <2>1. entry \in Pending /\ entry \in DOMAIN log /\ log[entry].post \notin replica
    BY <1>log DEF EntryAtHand, GoneBeforeClosed
  <2>2. /\ log' \in Seq(Entry) /\ Len(log') = Len(log) /\ DOMAIN log' = DOMAIN log
        /\ \A j \in DOMAIN log : log'[j].post = log[j].post
        /\ Pending' = Pending \ {entry}
    BY <1>log, <2>1, TearDownFacts
  <2>3. TypeOK'
    <3>1. /\ replica' \subseteq Posts /\ unlogged' \subseteq Posts
          /\ post' \in Posts \cup {None} /\ failures' \in 0..MaxFailures
      BY DEF TypeOK
    <3>2. log' \in Seq([post : Posts, torn : BOOLEAN]) /\ Len(log') <= MaxReplays
      BY <1>log, <2>2 DEF TypeOK, Entry
    <3>3. entry' \in 0..Len(log') /\ pending' \subseteq DOMAIN log'
      <4>1. entry' = 0 /\ pending' \subseteq pending
        OBVIOUS
      <4>2. QED
        BY ONLY <1>log, <1>types, <2>2, <4>1
    <3>4. at' \in Places
      BY DEF Places
    <3>5. QED
      BY <3>1, <3>2, <3>3, <3>4 DEF TypeOK, Places
  <2>4. OnlySeedsLogged'
    BY <2>2 DEF OnlySeedsLogged, Pending
  <2>5. (EntryAtHand /\ GoneBeforeClosed)'
    BY <2>2 DEF EntryAtHand, GoneBeforeClosed
  <2>6. NothingForgotten'
    BY <1>log, <2>1, <2>2 DEF NothingForgotten
  <2>7. QED
    BY <2>3, <2>4, <2>5, <2>6 DEF PostThereForReplay, NativeKept
<1>11. CASE Crash \/ ReplayRaises \/ SweepRaises
  <2>1. TypeOK'
    <3>1. /\ Fail /\ at' \in Places /\ replica' = replica /\ log' = log
          /\ post' = None /\ entry' = 0 /\ (pending' = {} \/ pending' = pending)
      BY <1>11 DEF Crash, ReplayRaises, SweepRaises, Fail, Places
    <3>2. failures' \in 0..MaxFailures
      BY <1>types, <3>1 DEF Fail
    <3>3. unlogged' \subseteq Posts
      BY <1>types, <3>1 DEF Fail, Lost, EntryAtHand
    <3>4. log' \in Seq([post : Posts, torn : BOOLEAN]) /\ Len(log') <= MaxReplays
      BY <3>1 DEF TypeOK
    <3>5. entry' \in 0..Len(log') /\ pending' \subseteq DOMAIN log'
      BY <1>log, <1>types, <3>1
    <3>6. QED
      BY <1>types, <3>1, <3>2, <3>3, <3>4, <3>5 DEF TypeOK, Places
  <2>2. /\ \/ at' = "down" /\ pending' = {}
           \/ at' = "serving" /\ pending' = pending
        /\ at' = "serving" => at \notin {"sweeping", "sweep delete"}
        /\ entry' = 0 /\ log' = log /\ replica' = replica /\ Pending' = Pending
        /\ unlogged' = IF at = "seeded" THEN unlogged \cup {post} ELSE unlogged
    <3>1. Fail /\ (\/ at' = "down" /\ pending' = {}
                   \/ /\ at' = "serving" /\ pending' = pending
                      /\ at \notin {"sweeping", "sweep delete"})
      BY <1>11 DEF Crash, ReplayRaises, SweepRaises
    <3>2. QED
      BY <3>1 DEF Fail, Lost, Pending
  <2>3. (OnlySeedsLogged /\ EntryAtHand /\ GoneBeforeClosed)'
    BY <2>2 DEF OnlySeedsLogged, EntryAtHand, GoneBeforeClosed
  <2>4. (PostThereForReplay /\ NativeKept)'
    BY <2>2 DEF PostThereForReplay, NativeKept
  <2>5. NothingForgotten'
    BY <2>2 DEF NothingForgotten
  <2>6. QED
    BY <2>1, <2>3, <2>4, <2>5
<1>12. CASE UNCHANGED vars
  BY <1>12 DEF vars, server, TypeOK, OnlySeedsLogged, EntryAtHand, GoneBeforeClosed,
     PostThereForReplay, NativeKept, NothingForgotten, Pending
<1>13. QED
  BY <1>1, <1>2, <1>3, <1>4, <1>5, <1>6, <1>7, <1>8, <1>9, <1>10, <1>11, <1>12
     DEF Next, Start

\* The invariant holds in every reachable state.
THEOREM Invariance == Spec => []IInv
<1>1. Init => IInv
  BY InitIInv
<1>2. IInv /\ [Next]_vars => IInv'
  BY NextIInv
<1>3. QED
  BY <1>1, <1>2, PTL DEF Spec

\* The types, of every variable in every reachable state.
THEOREM TypeCorrect == Spec => []TypeOK
<1>1. IInv => TypeOK
  BY DEF IInv
<1>2. QED
  BY <1>1, Invariance, PTL

\* The post that a replayed request updates stays in the replica until the replay is
\* over (seed_for_replay).
THEOREM PostStays == Spec => []PostThereForReplay
<1>1. IInv => PostThereForReplay
  BY DEF IInv
<1>2. QED
  BY <1>1, Invariance, PTL

\* No teardown and no sweep deletes a row that no replay seeded (seed_post_for_update,
\* sweep_stale_shadow_seeds).
THEOREM NativeStays == Spec => []NativeKept
<1>1. IInv => NativeKept
  BY DEF IInv
<1>2. QED
  BY <1>1, Invariance, PTL

\* A seeded row is always accounted for: the log has it open, or it is one of those
\* whose seeding failed before the log was written (seed_for_replay).
THEOREM SeedsAccounted == Spec => []NothingForgotten
<1>1. IInv => NothingForgotten
  BY DEF IInv
<1>2. QED
  BY <1>1, Invariance, PTL
=============================================================================
