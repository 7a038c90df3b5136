----------------------- MODULE NanobarPatienceProofs -----------------------
(***************************************************************************)
(* What the nanobar page shows to a user who waits: one who does nothing    *)
(* about a brick while its pane, its tags or its replay are on their way.   *)
(* Of such a user, every request about a brick is of the selected one, and  *)
(* requests that touch the same part of the pane are sent one at a time     *)
(* (Alone).  From that follow the Run tab (RunTabRight), then the pane and  *)
(* what the server stores (PaneRight): each layer rests on the one before.  *)
(***************************************************************************)
EXTENDS NanobarPageProofs

PaneKinds == {"detail", "review", "scenario"} \cup TagKinds

(* Requests that no handler sends while the other is on its way: a brick's    *)
(* detail with any other, two about tags, two of the Run tab.                 *)
Excludes(k, l) ==
    \/ k = "detail" /\ l \in BrickKinds
    \/ k \in TagKinds /\ l \in TagKinds
    \/ k \in Work /\ l \in Work

Alone ==
    /\ \A c \in calls : c.kind \in BrickKinds => c.brick = selected
    /\ \A c, d \in calls : Excludes(c.kind, d.kind) => c = d

---------------------------------------------------------------------------
(* How calls change, and what an action leaves in flight *)

(* One request more *)
LEMMA Sent ==
    ASSUME NEW kind, NEW brick, NEW arg, NEW attempt, Send(kind, brick, arg, attempt)
    PROVE  \E r : /\ calls' = calls \cup {r}
                  /\ r.kind = kind /\ r.brick = brick /\ r.arg = arg
                  /\ r.at = "sent" /\ r.answer = None
  <1> DEFINE r == Request(kind, brick, arg, attempt)
  <1>1. /\ r.kind = kind /\ r.brick = brick /\ r.arg = arg
        /\ r.at = "sent" /\ r.answer = None
    BY DEF Request
  <1>2. calls' = calls \cup {r}
    BY DEF Send
  <1> HIDE DEF r
  <1> QED
    BY <1>1, <1>2

(* A request with its answer *)
LEMMA Replied ==
    ASSUME NEW c \in Calls, NEW a, Reply(c, a)
    PROVE  \E d : /\ calls' = (calls \ {c}) \cup {d}
                  /\ d.kind = c.kind /\ d.brick = c.brick /\ d.arg = c.arg
                  /\ d.at = "handled" /\ d.answer = a
  <1> DEFINE d == [c EXCEPT !.at = "handled", !.answer = a]
  <1>1. /\ d.kind = c.kind /\ d.brick = c.brick /\ d.arg = c.arg
        /\ d.at = "handled" /\ d.answer = a
    BY DEF Calls
  <1>2. calls' = (calls \ {c}) \cup {d}
    BY DEF Reply
  <1> HIDE DEF d
  <1> QED
    BY <1>1, <1>2

(* The next request of a handler *)
LEMMA Resent ==
    ASSUME NEW c \in Calls, NEW kind, NEW arg, NEW attempt, Resend(c, kind, arg, attempt)
    PROVE  \E d : /\ calls' = (calls \ {c}) \cup {d}
                  /\ d.kind = kind /\ d.brick = c.brick /\ d.arg = arg
                  /\ d.at = "sent" /\ d.answer = None
  <1> DEFINE d == [c EXCEPT !.kind = kind, !.arg = arg, !.at = "sent",
                            !.answer = None, !.attempt = attempt]
  <1>1. /\ d.kind = kind /\ d.brick = c.brick /\ d.arg = arg
        /\ d.at = "sent" /\ d.answer = None
    BY DEF Calls
  <1>2. calls' = (calls \ {c}) \cup {d}
    BY DEF Resend
  <1> HIDE DEF d
  <1> QED
    BY <1>1, <1>2

(* A poll that sleeps *)
LEMMA FallenAsleep ==
    ASSUME NEW c \in Calls, PollMissed(c)
    PROVE  \E d : /\ calls' = (calls \ {c}) \cup {d}
                  /\ d.kind = c.kind /\ d.brick = c.brick /\ d.arg = c.arg
                  /\ d.at = "asleep" /\ d.answer = None
  <1> DEFINE d == [c EXCEPT !.at = "asleep", !.answer = None]
  <1>1. /\ d.kind = c.kind /\ d.brick = c.brick /\ d.arg = c.arg
        /\ d.at = "asleep" /\ d.answer = None
    BY DEF Calls
  <1>2. calls' = (calls \ {c}) \cup {d}
    BY DEF PollMissed
  <1> HIDE DEF d
  <1> QED
    BY <1>1, <1>2

(* With a brick in the address, the list is followed by two requests. *)
LEMMA Listed ==
    ASSUME NEW c \in Calls, ListAnswered(c), hash # None
    PROVE  \E d, r : /\ calls' = (calls \ {c}) \cup {d, r}
                     /\ d.kind = "gaps" /\ r.kind = "detail" /\ r.brick = hash
                     /\ r.at = "sent" /\ r.answer = None
  <1> DEFINE d == [c EXCEPT !.kind = "gaps", !.at = "sent", !.answer = None]
             r == Request("detail", hash, None, 0)
  <1>1. /\ d.kind = "gaps" /\ r.kind = "detail" /\ r.brick = hash
        /\ r.at = "sent" /\ r.answer = None
    BY DEF Calls, Request
  <1>2. calls' = (calls \ {c}) \cup {d, r}
    BY DEF ListAnswered
  <1> HIDE DEF d, r
  <1> QED
    BY <1>1, <1>2

\* The list is followed by the gaps when the address names no brick.
LEMMA ListedOnly ==
    ASSUME NEW c \in Calls, ListAnswered(c), hash = None
    PROVE  \E d : calls' = (calls \ {c}) \cup {d} /\ d.kind = "gaps"
  <1> DEFINE d == [c EXCEPT !.kind = "gaps", !.at = "sent", !.answer = None]
  <1>1. d.kind = "gaps"
    BY DEF Calls
  <1>2. calls' = (calls \ {c}) \cup {d}
    BY DEF ListAnswered
  <1> HIDE DEF d
  <1> QED
    BY <1>1, <1>2

(* Requests of other kinds come, change and go. *)
LEMMA OthersInFlight ==
    ASSUME NEW K, NEW old \in SUBSET calls, NEW new, calls' = (calls \ old) \cup new,
           \A c \in old \cup new : c.kind \notin K
    PROVE  {c \in calls' : c.kind \in K} = {c \in calls : c.kind \in K}
  OBVIOUS

(* The user waits on. *)
LEMMA Waits ==
    ASSUME NEW K, Act(K), ~hasty'
    PROVE  ~hasty /\ \A c \in calls : c.kind \notin K
  BY DEF Act, InFlight

---------------------------------------------------------------------------
(* One request at a time *)

Alike(k, l) ==
    /\ k \in BrickKinds <=> l \in BrickKinds
    /\ k = "detail" <=> l = "detail"
    /\ k \in TagKinds <=> l \in TagKinds
    /\ k \in Work <=> l \in Work

\* Kinds that are alike exclude the same others.
LEMMA AlikeExclude ==
    ASSUME NEW k, NEW l, Alike(k, l)
    PROVE  \A m : (Excludes(k, m) <=> Excludes(l, m)) /\ (Excludes(m, k) <=> Excludes(m, l))
  BY DEF Alike, Excludes

\* A request of the selected brick that nothing on its way excludes may be sent.
LEMMA AloneSent ==
    ASSUME Alone, NEW kind, NEW brick, NEW arg, NEW attempt, Send(kind, brick, arg, attempt),
           UNCHANGED selected, brick = selected,
           \A c \in calls : ~Excludes(c.kind, kind) /\ ~Excludes(kind, c.kind)
    PROVE  Alone'
  <1>1. PICK r : calls' = calls \cup {r} /\ r.kind = kind /\ r.brick = brick
    BY Sent
  <1> QED
    BY <1>1 DEF Alone

\* A request may end.
LEMMA AloneEnded ==
    ASSUME Alone, NEW c, End(c), UNCHANGED selected
    PROVE  Alone'
  BY DEF Alone, End

\* A request may be followed by one of a kind alike, of the same brick.
LEMMA AloneSwapped ==
    ASSUME Alone, NEW c \in calls, NEW d, calls' = (calls \ {c}) \cup {d},
           Alike(c.kind, d.kind), d.kind \in BrickKinds => d.brick = c.brick,
           UNCHANGED selected
    PROVE  Alone'
  <1>1. \A m : (Excludes(c.kind, m) <=> Excludes(d.kind, m))
               /\ (Excludes(m, c.kind) <=> Excludes(m, d.kind))
    BY AlikeExclude
  <1>2. d.kind \in BrickKinds <=> c.kind \in BrickKinds
    BY DEF Alike
  <1>3. \A e \in calls' : e.kind \in BrickKinds => e.brick = selected
    BY <1>2 DEF Alone
  <1>4. ASSUME NEW e \in calls', NEW f \in calls', Excludes(e.kind, f.kind) PROVE e = f
    <2>1. CASE e = d /\ f = d
      BY <2>1
    <2>2. CASE e = d /\ f # d
      BY <1>1, <1>4, <2>2 DEF Alone
    <2>3. CASE e # d /\ f = d
      BY <1>1, <1>4, <2>3 DEF Alone
    <2>4. CASE e # d /\ f # d
      BY <1>4, <2>4 DEF Alone
    <2> QED
      BY <2>1, <2>2, <2>3, <2>4
  <1> QED
    BY <1>3, <1>4 DEF Alone

\* With no request about a brick on its way, another may be selected.
LEMMA AloneChosen ==
    ASSUME NEW r, NEW old \in SUBSET calls, NEW new, calls' = (calls \ old) \cup new \cup {r},
           \A c \in calls \cup new : c.kind \notin BrickKinds,
           r.kind = "detail", r.brick = selected'
    PROVE  Alone'
  <1>1. \A k, l : Excludes(k, l) => k \in BrickKinds /\ l \in BrickKinds
    BY DEF Excludes, BrickKinds, Work, TagKinds, Polls
  <1> QED
    BY <1>1 DEF Alone

\* A user who waits sends no second request about the same part.
LEMMA AloneOfUser ==
    ASSUME Inv, Controls, Alone, ~hasty', User
    PROVE  Alone'
  <1> USE InvParts
  <1>1. ASSUME NEW b \in Bricks, SelectBrick(b) PROVE Alone'
    <2>1. PICK r : calls' = calls \cup {r} /\ r.kind = "detail" /\ r.brick = b
      BY <1>1, Sent DEF SelectBrick
    <2>2. \A c \in calls : c.kind \notin BrickKinds
      BY <1>1, Waits DEF SelectBrick
    <2>3. r.brick = selected' /\ calls' = (calls \ {}) \cup {} \cup {r}
      BY <1>1, <2>1 DEF SelectBrick, Choose
    <2> QED
      BY <2>1, <2>2, <2>3, AloneChosen
  <1>2. ASSUME NEW s \in Statuses, HandleReviewStatusClick(s) PROVE Alone'
    <2>1. \A c \in calls : c.kind \notin {"detail"}
      BY <1>2, Waits DEF HandleReviewStatusClick
    <2>2. \A c \in calls : ~Excludes(c.kind, "review") /\ ~Excludes("review", c.kind)
      BY <2>1 DEF Excludes, TagKinds, Work, Polls
    <2> QED
      BY <1>2, <2>2, AloneSent DEF HandleReviewStatusClick, place
  <1>3. CASE HandleScenarioSubmit
    <2>1. \A c \in calls : c.kind \notin {"detail"}
      BY <1>3, Waits DEF HandleScenarioSubmit
    <2>2. \A c \in calls : ~Excludes(c.kind, "scenario") /\ ~Excludes("scenario", c.kind)
      BY <2>1 DEF Excludes, TagKinds, Work, Polls
    <2> QED
      BY <1>3, <2>2, AloneSent DEF HandleScenarioSubmit, place
  <1>4. ASSUME NEW t \in Tags, HandleTagAddSubmit(t) PROVE Alone'
    <2>1. \A c \in calls : c.kind \notin {"detail"} \cup TagKinds
      BY <1>4, Waits DEF HandleTagAddSubmit
    <2>2. \A c \in calls : ~Excludes(c.kind, "add tag") /\ ~Excludes("add tag", c.kind)
      BY <2>1 DEF Excludes, TagKinds, Work, Polls
    <2> QED
      BY <1>4, <2>2, AloneSent DEF HandleTagAddSubmit, place
  <1>5. ASSUME NEW t \in Tags, HandleTagRemoveClick(t) PROVE Alone'
    <2>1. \A c \in calls : c.kind \notin {"detail"} \cup TagKinds
      BY <1>5, Waits DEF HandleTagRemoveClick
    <2>2. \A c \in calls : ~Excludes(c.kind, "remove tag") /\ ~Excludes("remove tag", c.kind)
      BY <2>1 DEF Excludes, TagKinds, Work, Polls
    <2> QED
      BY <1>5, <2>2, AloneSent DEF HandleTagRemoveClick, place
  <1>6. CASE HandleRunClick
    <2>1. \A c \in calls : c.kind \notin {"detail"} \cup Polls
      BY <1>6, Waits DEF HandleRunClick
    <2>2. \A c \in calls : c.kind # "run"
      BY <1>6 DEF HandleRunClick, Controls, Control, Buttons
    <2>3. \A c \in calls : ~Excludes(c.kind, "run") /\ ~Excludes("run", c.kind)
      BY <2>1, <2>2 DEF Excludes, TagKinds, Work, Polls
    <2> QED
      BY <1>6, <2>3, AloneSent DEF HandleRunClick, place
  <1>7. CASE HandleRefreshClick
    <2>1. \A c \in calls : c.kind \notin {"detail", "run"} \cup Polls
      BY <1>7, Waits DEF HandleRefreshClick
    <2>2. \A c \in calls : ~Excludes(c.kind, "poll") /\ ~Excludes("poll", c.kind)
      BY <2>1 DEF Excludes, TagKinds, Work, Polls
    <2> QED
      BY <1>7, <2>2, AloneSent DEF HandleRefreshClick, place
  <1>8. CASE HandleEditSubmit
    <2>1. PICK r : calls' = calls \cup {r} /\ r.kind = "edit"
      BY <1>8, Sent DEF HandleEditSubmit
    <2>2. \A c \in calls : ~Excludes(c.kind, "edit") /\ ~Excludes("edit", c.kind)
      BY DEF Excludes, BrickKinds, TagKinds, Work, Polls
    <2>3. ~Excludes("edit", "edit") /\ "edit" \notin BrickKinds
      BY DEF Excludes, BrickKinds, TagKinds, Work, Polls
    <2> QED
      BY <1>8, <2>1, <2>2, <2>3 DEF HandleEditSubmit, place, Alone
  <1>9. CASE UNCHANGED <<calls, selected>>
    BY <1>9 DEF Alone
  <1> QED
    BY <1>1, <1>2, <1>3, <1>4, <1>5, <1>6, <1>7, <1>8, <1>9
    DEF User, EditHash, ClickTab, TypeScenario, HandleEmptyTag, TypeEdit, place

\* The server answers one request by its own answer.
LEMMA AloneOfServer ==
    ASSUME Inv, Alone, NEW c \in calls, Handle(c)
    PROVE  Alone'
  <1>1. c \in Calls /\ UNCHANGED selected
    BY DEF Inv, CallsGood, Good, Handle, place
  <1>2. PICK a : Reply(c, a)
    BY DEF Handle, HandleDetail, HandleReview, HandleScenario, HandleTag, HandleEdit,
           HandleReplay, HandlePoll
  <1>3. PICK d : calls' = (calls \ {c}) \cup {d} /\ d.kind = c.kind /\ d.brick = c.brick
    BY <1>1, <1>2, Replied
  <1> QED
    BY <1>1, <1>3, AloneSwapped DEF Alike

\* A handler of one who waits sends only what goes on from its own request.
LEMMA AloneOfHandler ==
    ASSUME Inv, Alone, NEW c \in calls, Continue(c), ~hasty'
    PROVE  Alone'
  <1>1. c \in Calls /\ (c.at = "asleep" => c.kind \in Polls)
    BY DEF Inv, CallsGood, Good
  <1>2. CASE End(c) /\ UNCHANGED selected
    BY <1>2, AloneEnded
  <1>3. CASE RunAnswered(c)
    <2> DEFINE t == c.answer.trace
               k == "run poll"
    <2>0. Resend(c, k, t, 1)
      BY <1>3 DEF RunAnswered
    <2> HIDE DEF t, k
    <2>1. PICK d : /\ calls' = (calls \ {c}) \cup {d}
                   /\ d.kind = k /\ d.brick = c.brick
      BY <1>1, <2>0, Resent
    <2> USE DEF k
    <2>2. Alike(c.kind, d.kind)
      BY <1>3, <2>1 DEF RunAnswered, Alike, BrickKinds, TagKinds, Work, Polls
    <2> QED
      BY <1>3, <2>1, <2>2, AloneSwapped DEF RunAnswered
  <1>4. CASE PollMissed(c)
    <2>1. PICK d : calls' = (calls \ {c}) \cup {d} /\ d.kind = c.kind /\ d.brick = c.brick
      BY <1>1, <1>4, FallenAsleep
    <2> QED
      BY <1>4, <2>1, AloneSwapped DEF Alike, PollMissed, place
  <1>5. CASE Resend(c, c.kind, c.arg, c.attempt + 1) /\ UNCHANGED selected
    <2>1. PICK d : calls' = (calls \ {c}) \cup {d} /\ d.kind = c.kind /\ d.brick = c.brick
      BY <1>1, <1>5, Resent
    <2> QED
      BY <1>5, <2>1, AloneSwapped DEF Alike
  <1>6. CASE ListAnswered(c) /\ hash # None
    <2>1. PICK d, r : /\ calls' = (calls \ {c}) \cup {d, r}
                      /\ d.kind = "gaps" /\ r.kind = "detail" /\ r.brick = hash
      BY <1>1, <1>6, Listed
    <2>2. \A e \in calls : e.kind \notin BrickKinds
      BY <1>6 DEF ListAnswered, InFlight
    <2>3. d.kind \notin BrickKinds /\ r.brick = selected'
      BY <1>6, <2>1 DEF ListAnswered, Choose, BrickKinds, Polls
    <2>4. calls' = (calls \ {c}) \cup {d} \cup {r} /\ {c} \in SUBSET calls
      BY <2>1
    <2> QED
      BY <2>1, <2>2, <2>3, <2>4, AloneChosen
  <1>7. CASE ListAnswered(c) /\ hash = None
    <2>1. PICK d : calls' = (calls \ {c}) \cup {d} /\ d.kind = "gaps"
      BY <1>1, <1>7, ListedOnly
    <2>2. Alike(c.kind, d.kind) /\ d.kind \notin BrickKinds
      BY <1>7, <2>1 DEF ListAnswered, Alike, BrickKinds, TagKinds, Work, Polls
    <2> QED
      BY <1>7, <2>1, <2>2, AloneSwapped DEF ListAnswered
  <1>8. CASE GapsAnswered(c)
    <2>1. PICK d : /\ calls' = (calls \ {c}) \cup {d}
                   /\ d.kind = "summary" /\ d.brick = c.brick
      BY <1>1, <1>8, Resent DEF GapsAnswered
    <2>2. Alike(c.kind, d.kind) /\ d.kind \notin BrickKinds
      BY <1>8, <2>1 DEF GapsAnswered, Alike, BrickKinds, TagKinds, Work, Polls
    <2> QED
      BY <1>8, <2>1, <2>2, AloneSwapped DEF GapsAnswered, place
  <1> QED
    BY <1>2, <1>3, <1>4, <1>5, <1>6, <1>7, <1>8
    DEF Continue, DetailAnswered, ReviewAnswered, ScenarioAnswered, TagAnswered, RunFailed,
        PollAnswered, EndPolls, Wake, ListFailed, SummaryAnswered, EditAnswered, place

\* The address changes the brick of one who waits only between requests.
LEMMA AloneOfHash ==
    ASSUME Inv, Alone, HandleHashChange, ~hasty'
    PROVE  Alone'
  <1>1. CASE hash \notin {None, selected}
    <2>1. PICK r : calls' = calls \cup {r} /\ r.kind = "detail" /\ r.brick = hash
      BY <1>1, Sent DEF HandleHashChange
    <2>2. \A c \in calls : c.kind \notin BrickKinds
      BY <1>1 DEF HandleHashChange, InFlight
    <2>3. r.brick = selected' /\ calls' = (calls \ {}) \cup {} \cup {r}
      BY <1>1, <2>1 DEF HandleHashChange, Choose
    <2> QED
      BY <2>1, <2>2, <2>3, AloneChosen
  <1>2. CASE hash \in {None, selected}
    BY <1>2 DEF HandleHashChange, Alone
  <1> QED
    BY <1>1, <1>2

(* Once the user has been hasty, nothing more is said. *)
LEMMA HastyStays ==
    ASSUME Inv, [Next]_vars, ~hasty'
    PROVE  ~hasty
  <1>1. CASE User
    BY <1>1
    DEF User, SelectBrick, EditHash, ClickTab, HandleReviewStatusClick, TypeScenario,
        HandleScenarioSubmit, HandleTagAddSubmit, HandleTagRemoveClick, HandleEmptyTag,
        HandleRunClick, HandleRefreshClick, TypeEdit, HandleEditSubmit, Act, history
  <1>2. CASE HandleHashChange
    BY <1>2 DEF HandleHashChange
  <1>3. ASSUME NEW c \in calls, Handle(c) PROVE ~hasty
    BY <1>3 DEF Handle, history
  <1>4. ASSUME NEW c \in calls, Continue(c) PROVE ~hasty
    BY <1>4
    DEF Continue, DetailAnswered, ReviewAnswered, ScenarioAnswered, TagAnswered, RunAnswered,
        RunFailed, PollAnswered, PollMissed, Wake, ListAnswered, ListFailed, GapsAnswered,
        SummaryAnswered, EditAnswered, history
  <1>5. CASE Drain \/ UNCHANGED vars
    BY <1>5 DEF Drain, vars, history
  <1> QED
    BY <1>1, <1>2, <1>3, <1>4, <1>5 DEF Next, Network, Rest

\* Alone is inductive, of a user who waits.
LEMMA AloneStep ==
    ASSUME Inv, Controls, ~hasty => Alone, [Next]_vars
    PROVE  (~hasty => Alone)'
  <1> SUFFICES ASSUME ~hasty' PROVE Alone'
    OBVIOUS
  <1>1. Alone
    BY HastyStays
  <1>2. CASE User
    BY <1>1, <1>2, AloneOfUser
  <1>3. CASE HandleHashChange
    BY <1>1, <1>3, AloneOfHash
  <1>4. ASSUME NEW c \in calls, Handle(c) PROVE Alone'
    BY <1>1, <1>4, AloneOfServer
  <1>5. ASSUME NEW c \in calls, Continue(c) PROVE Alone'
    BY <1>1, <1>5, AloneOfHandler
  <1>6. CASE UNCHANGED <<calls, selected>>
    BY <1>1, <1>6 DEF Alone
  <1> QED
    BY <1>2, <1>3, <1>4, <1>5, <1>6 DEF Next, Network, Drain, Rest, vars, place

(* The controls of a page are its requests' in every state. *)
LEMMA ControlsAlways == Spec => []Controls
  BY ControlsMatch, BusyForm, PTL

(* Of a user who waits, the requests about a brick are all of the selected    *)
(* brick, and no two of them touch the same part of its pane: so no answer    *)
(* can overtake another one that it contradicts.                              *)
THEOREM OneAtATime == Spec => [](~hasty => Alone)
  <1>1. Init => (~hasty => Alone)
    <2> SUFFICES ASSUME Init PROVE Alone
      OBVIOUS
    <2> DEFINE c == [id |-> 1, kind |-> "list", brick |-> None, arg |-> None, at |-> "sent",
                     answer |-> None, attempt |-> 0]
    <2>1. calls = {c}
      BY DEF Init
    <2>2. c.kind \notin BrickKinds
      BY DEF BrickKinds, Polls
    <2> HIDE DEF c
    <2> QED
      BY <2>1, <2>2 DEF Alone
  <1> QED
    BY <1>1, AloneStep, Invariant, ControlsAlways, PTL DEF Spec

---------------------------------------------------------------------------
(* The Run tab *)

Succeeded(c) == c.at = "handled" /\ c.answer # Refused

(* A poll asks for the trace of the Run tab, and is answered with its spans;  *)
(* a replay is answered with a trace of its own brick.                        *)
OfTrace(c) ==
    /\ c.kind \in Polls => c.arg = trace
    /\ Succeeded(c) => IF c.kind = "run" THEN c.answer.trace[1] = c.brick
                                         ELSE c.answer.trace = c.arg

(* The Run tab of a brick, and the requests that are on their way for it *)
RunTabRight ==
    /\ trace # None => trace[1] = selected
    /\ run.spans # None => run.spans[1] = selected
    /\ run.refresh <=> trace # None /\ \A c \in calls : c.kind \notin Polls
    /\ run.progress <=> \E c \in calls : c.kind \in Work
    /\ \A c \in calls : c.kind \in Work => OfTrace(c)

\* The property, from its strengthening.
LEMMA RunTabForm ==
    (~hasty => RunTabRight) => RunTabOfSelected
  BY DEF RunTabRight, RunTabOfSelected, InFlight, Work

\* What touches neither the Run tab nor its requests keeps it.
LEMMA RunTabKept ==
    ASSUME RunTabRight, UNCHANGED <<selected, trace, run>>,
           {c \in calls' : c.kind \in Work} = {c \in calls : c.kind \in Work}
    PROVE  RunTabRight'
  <1>1. \A c : c \in calls' /\ c.kind \in Work <=> c \in calls /\ c.kind \in Work
    OBVIOUS
  <1>2. Polls \subseteq Work
    BY DEF Work
  <1>3. \A c : c \in calls' /\ c.kind \in Polls <=> c \in calls /\ c.kind \in Polls
    BY <1>1, <1>2
  <1>4. \A c : OfTrace(c)' <=> OfTrace(c)
    BY DEF OfTrace, Succeeded
  <1> QED
    BY <1>1, <1>3, <1>4 DEF RunTabRight
\* A request of the Run tab that goes on for the same trace keeps it.
LEMMA RunTabSwapped ==
    ASSUME RunTabRight, UNCHANGED <<selected, trace>>,
           run'.spans = run.spans, run'.refresh = run.refresh, run'.progress = run.progress,
           NEW c \in calls, NEW d, calls' = (calls \ {c}) \cup {d},
           d.kind = c.kind, c.kind \in Work, OfTrace(d)
    PROVE  RunTabRight'
  <1>1. \A e : OfTrace(e)' <=> OfTrace(e)
    BY DEF OfTrace, Succeeded
  <1>2. (\A e \in calls' : e.kind \notin Polls) <=> (\A e \in calls : e.kind \notin Polls)
    OBVIOUS
  <1>3. (\E e \in calls' : e.kind \in Work) <=> (\E e \in calls : e.kind \in Work)
    OBVIOUS
  <1>4. \A e \in calls' : e.kind \in Work => OfTrace(e)'
    BY <1>1 DEF RunTabRight
  <1> QED
    BY <1>2, <1>3, <1>4 DEF RunTabRight

\* What each function of the Run tab does to its spans, its Refresh and its progress.
LEMMA RunFields ==
    ASSUME NEW r \in Runs
    PROVE  /\ ResetRunTab(r).spans = None /\ ResetRunTab(r).refresh = FALSE
           /\ \A t : RenderVerdict(r, t).spans = r.spans
           /\ \A t : RenderRunSpans(r, t).spans = t
           /\ \A m : /\ Message(r, m).spans = r.spans /\ Message(r, m).refresh = r.refresh
                     /\ Message(r, m).progress = r.progress
           /\ \A on : Progress(r, on).spans = r.spans /\ Progress(r, on).refresh = r.refresh
           /\ PollsBegin(r).spans = r.spans /\ PollsBegin(r).refresh = FALSE
                                            /\ PollsBegin(r).progress = TRUE
           /\ PollsEnd(r).spans = r.spans /\ PollsEnd(r).refresh = TRUE
                                          /\ PollsEnd(r).progress = FALSE
  <1>1. ResetRunTab(r).spans = None /\ ResetRunTab(r).refresh = FALSE
    BY DEF Runs, ResetRunTab
  <1>2. \A t : RenderVerdict(r, t).spans = r.spans
    BY DEF Runs, RenderVerdict
  <1>3. \A t : RenderRunSpans(r, t).spans = t
    BY DEF Runs, RenderRunSpans
  <1>4. \A m : /\ Message(r, m).spans = r.spans /\ Message(r, m).refresh = r.refresh
               /\ Message(r, m).progress = r.progress
    BY DEF Runs, Message
  <1>5. \A on : Progress(r, on).spans = r.spans /\ Progress(r, on).refresh = r.refresh
    BY DEF Runs, Progress
  <1>6. PollsBegin(r).spans = r.spans /\ PollsBegin(r).refresh = FALSE
                                      /\ PollsBegin(r).progress = TRUE
    BY DEF Runs, PollsBegin, Progress
  <1>7. PollsEnd(r).spans = r.spans /\ PollsEnd(r).refresh = TRUE
                                    /\ PollsEnd(r).progress = FALSE
    BY DEF Runs, PollsEnd, Progress
  <1> QED
    BY <1>1, <1>2, <1>3, <1>4, <1>5, <1>6, <1>7

(* Another brick is selected, and nothing is on its way for the one before. *)
LEMMA RunTabChosen ==
    ASSUME Inv, RunTabRight, NEW b \in Bricks, Choose(b),
           \A c \in calls \cup calls' : c.kind \notin Work
    PROVE  RunTabRight'
  <1> USE InvParts
  <1>1. trace' = None /\ run'.spans = None /\ run'.refresh = FALSE
    BY RunFields DEF Choose
  <1>2. run'.progress = run.progress
    BY ChooseTypes
  <1>3. ~run.progress
    BY DEF RunTabRight
  <1> QED
    BY <1>1, <1>2, <1>3 DEF RunTabRight

\* At most one request of the Run tab is on its way.
LEMMA OneOfWork ==
    ASSUME Alone, NEW c \in calls, c.kind \in Work
    PROVE  \A d \in calls : d.kind \in Work => d = c
  BY DEF Alone, Excludes

\* The user keeps the Run tab that of the selected brick.
LEMMA RunTabOfUser ==
    ASSUME Inv, Controls, Alone, RunTabRight, ~hasty', User
    PROVE  RunTabRight'
  <1> USE InvParts
  <1>1. ASSUME NEW b \in Bricks, SelectBrick(b) PROVE RunTabRight'
    <2>1. PICK r : calls' = calls \cup {r} /\ r.kind = "detail"
      BY <1>1, Sent DEF SelectBrick
    <2>2. \A c \in calls : c.kind \notin BrickKinds
      BY <1>1, Waits DEF SelectBrick
    <2>3. \A c \in calls \cup calls' : c.kind \notin Work
      BY <2>1, <2>2 DEF BrickKinds, Work, Polls
    <2> QED
      BY <1>1, <2>3, RunTabChosen DEF SelectBrick
  <1>2. CASE HandleRunClick
    <2>1. PICK r : calls' = calls \cup {r} /\ r.kind = "run" /\ r.at = "sent"
      BY <1>2, Sent DEF HandleRunClick
    <2>2. \A c \in calls : c.kind \notin {"detail"} \cup Polls
      BY <1>2, Waits DEF HandleRunClick
    <2>3. \A c \in calls : c.kind # "run"
      BY <1>2 DEF HandleRunClick, Controls, Control, Buttons
    <2> DEFINE p == Progress(run, TRUE)
    <2>4. /\ p \in Runs /\ p.progress = TRUE
          /\ p.spans = run.spans /\ p.refresh = run.refresh
      BY DEF Progress, Runs
    <2>9. run' = Message(p, "running")
      BY <1>2 DEF HandleRunClick
    <2> HIDE DEF p
    <2>5. /\ run'.spans = run.spans /\ run'.refresh = run.refresh /\ run'.progress = TRUE
      BY <2>4, <2>9, RunFields
    <2>6. \A c \in calls' : c.kind \in Work => c = r
      BY <2>1, <2>2, <2>3 DEF Work
    <2>7. OfTrace(r)' /\ r.kind \in Work /\ r.kind \notin Polls
      BY <2>1 DEF OfTrace, Succeeded, Work, Polls
    <2>8. UNCHANGED <<selected, trace>>
      BY <1>2 DEF HandleRunClick, place
    <2> QED
      BY <2>1, <2>2, <2>5, <2>6, <2>7, <2>8 DEF RunTabRight
  <1>3. CASE HandleRefreshClick
    <2>1. PICK r : /\ calls' = calls \cup {r} /\ r.kind = "poll"
                   /\ r.arg = trace /\ r.at = "sent"
      BY <1>3, Sent DEF HandleRefreshClick
    <2>2. \A c \in calls : c.kind \notin {"detail", "run"} \cup Polls
      BY <1>3, Waits DEF HandleRefreshClick
    <2>3. /\ run'.spans = run.spans /\ run'.refresh = FALSE /\ run'.progress = TRUE
      BY <1>3, RunFields DEF HandleRefreshClick
    <2>4. \A c \in calls' : c.kind \in Work => c = r
      BY <2>1, <2>2 DEF Work
    <2>5. UNCHANGED <<selected, trace>>
      BY <1>3 DEF HandleRefreshClick, place
    <2>6. OfTrace(r)' /\ r.kind \in Work /\ r.kind \in Polls
      BY <2>1, <2>5 DEF OfTrace, Succeeded, Work, Polls
    <2> QED
      BY <2>1, <2>3, <2>4, <2>5, <2>6 DEF RunTabRight
  <1>4. ASSUME NEW kind, kind \notin Work, NEW brick, NEW arg, NEW attempt,
               Send(kind, brick, arg, attempt), UNCHANGED <<selected, trace, run>>
        PROVE  RunTabRight'
    <2>1. PICK r : calls' = calls \cup {r} /\ r.kind = kind
      BY <1>4, Sent
    <2>2. {c \in calls' : c.kind \in Work} = {c \in calls : c.kind \in Work}
      BY <1>4, <2>1
    <2> QED
      BY <1>4, <2>2, RunTabKept
  <1>5. ASSUME NEW s \in Statuses, HandleReviewStatusClick(s) PROVE RunTabRight'
    BY <1>4, <1>5 DEF HandleReviewStatusClick, place, Work, Polls
  <1>6. CASE HandleScenarioSubmit
    BY <1>4, <1>6 DEF HandleScenarioSubmit, place, Work, Polls
  <1>7. ASSUME NEW t \in Tags, HandleTagAddSubmit(t) PROVE RunTabRight'
    BY <1>4, <1>7 DEF HandleTagAddSubmit, place, Work, Polls
  <1>8. ASSUME NEW t \in Tags, HandleTagRemoveClick(t) PROVE RunTabRight'
    BY <1>4, <1>8 DEF HandleTagRemoveClick, place, Work, Polls
  <1>9. CASE HandleEditSubmit
    BY <1>4, <1>9 DEF HandleEditSubmit, place, Work, Polls
  <1>10. CASE UNCHANGED <<calls, selected, trace, run>>
    BY <1>10, RunTabKept
  <1> QED
    BY <1>1, <1>2, <1>3, <1>5, <1>6, <1>7, <1>8, <1>9, <1>10
    DEF User, EditHash, ClickTab, TypeScenario, HandleEmptyTag, TypeEdit, place

\* So does the server.
LEMMA RunTabOfServer ==
    ASSUME Inv, Alone, RunTabRight, NEW c \in calls, Handle(c)
    PROVE  RunTabRight'
  <1>1. c \in Calls /\ Good(c)
    BY DEF Inv, CallsGood, Good
  <1>2. UNCHANGED <<selected, trace, run>>
    BY DEF Handle, place
  <1>3. PICK a : /\ Reply(c, a)
                 /\ c.kind = "run" => a.trace[1] = c.brick
                 /\ c.kind \in Polls /\ a # Refused => a.trace = c.arg
    <2>1. CASE HandleReplay(c)
      <3> DEFINE a == [NoAnswer EXCEPT !.trace = <<c.brick, replays + 1>>]
      <3>1. a.trace[1] = c.brick
        BY DEF NoAnswer
      <3>2. Reply(c, a) /\ c.kind = "run"
        BY <2>1 DEF HandleReplay
      <3> HIDE DEF a
      <3> QED
        BY <3>1, <3>2 DEF Polls
    <2>2. CASE HandlePoll(c)
      <3> DEFINE a == [NoAnswer EXCEPT !.trace = c.arg]
      <3>1. a.trace = c.arg
        BY DEF NoAnswer
      <3>2. (Reply(c, a) \/ Reply(c, Refused)) /\ c.kind # "run"
        BY <2>2 DEF HandlePoll, Polls
      <3> HIDE DEF a
      <3> QED
        BY <3>1, <3>2
    <2>3. CASE HandleDetail(c) \/ HandleReview(c) \/ HandleScenario(c) \/ HandleEdit(c)
      BY <2>3 DEF HandleDetail, HandleReview, HandleScenario, HandleEdit, Polls
    <2>4. CASE HandleTag(c)
      BY <2>4 DEF HandleTag, Polls
    <2> QED
      BY <2>1, <2>2, <2>3, <2>4 DEF Handle
  <1>4. PICK d : /\ calls' = (calls \ {c}) \cup {d}
                 /\ d.kind = c.kind /\ d.brick = c.brick /\ d.arg = c.arg
                 /\ d.at = "handled" /\ d.answer = a
    BY <1>1, <1>3, Replied
  <1>5. CASE c.kind \in Work
    <2>1. OfTrace(d)
      BY <1>3, <1>4, <1>5 DEF OfTrace, Succeeded, RunTabRight, Work
    <2> QED
      BY <1>2, <1>4, <1>5, <2>1, RunTabSwapped
  <1>6. CASE c.kind \notin Work
    <2>1. {e \in calls' : e.kind \in Work} = {e \in calls : e.kind \in Work}
      BY <1>4, <1>6
    <2> QED
      BY <1>2, <2>1, RunTabKept
  <1> QED
    BY <1>5, <1>6
\* So does every handler.
LEMMA RunTabOfHandler ==
    ASSUME Inv, Controls, Alone, RunTabRight, NEW c \in calls, Continue(c), ~hasty'
    PROVE  RunTabRight'
  <1> USE InvParts
  <1>1. c \in Calls /\ Good(c) /\ (c.at = "asleep" => c.kind \in Polls)
    BY DEF CallsGood, Good
  <1>2. None \notin Traces
    BY NanobarPageAssumption DEF Traces
  <1>3. \A d \in calls : c.kind \in Work /\ d.kind \in Work => d = c
    BY OneOfWork
  <1>5. CASE RunAnswered(c)
    <2> DEFINE t == c.answer.trace
               k == "run poll"
               v == RenderVerdict(run, t)
    <2>1. RightAnswer(c) /\ c.kind = "run" /\ Succeeded(c)
      BY <1>1, <1>5 DEF Good, RunAnswered, Answered, Succeeded
    <2>2. t \in Traces /\ t[1] = c.brick
      BY <2>1 DEF RightAnswer, RunTabRight, OfTrace, Work
    <2>3. c.brick = selected
      BY <2>1 DEF Alone, BrickKinds
    <2>4. /\ trace' = t /\ run' = PollsBegin(v) /\ UNCHANGED selected
          /\ Resend(c, k, t, 1)
      BY <1>5 DEF RunAnswered
    <2> HIDE DEF t
    <2>5. v \in Runs
      BY <2>2, RunTypes
    <2>6. v.spans = run.spans
      BY RunFields, ZenonT(30)
    <2> HIDE DEF v, k
    <2>7. run'.spans = run.spans /\ run'.refresh = FALSE /\ run'.progress = TRUE
      BY <2>4, <2>5, <2>6, RunFields
    <2>8. PICK d : /\ calls' = (calls \ {c}) \cup {d}
                   /\ d.kind = k /\ d.arg = t /\ d.at = "sent"
      BY <1>1, <2>4, Resent
    <2>9. \A e \in calls' : e.kind \in Work => e = d
      BY <1>3, <2>1, <2>8 DEF Work
    <2>10. OfTrace(d)' /\ d.kind \in Work /\ d.kind \in Polls
      BY <2>4, <2>8 DEF OfTrace, Succeeded, Work, Polls, k
    <2> QED
      BY <2>2, <2>3, <2>4, <2>7, <2>8, <2>9, <2>10 DEF RunTabRight
  <1>6. CASE RunFailed(c)
    <2> DEFINE p == Progress(run, FALSE)
    <2>1. /\ p \in Runs /\ p.progress = FALSE
          /\ p.spans = run.spans /\ p.refresh = run.refresh
      BY DEF Progress, Runs
    <2>2. run' = Message(p, "error") /\ UNCHANGED <<selected, trace>>
          /\ c.kind = "run" /\ calls' = calls \ {c}
      BY <1>6 DEF RunFailed, End, place
    <2> HIDE DEF p
    <2>3. /\ run'.spans = run.spans /\ run'.refresh = run.refresh /\ run'.progress = FALSE
      BY <2>1, <2>2 DEF Message, Runs
    <2>4. \A e \in calls' : e.kind \notin Work
      BY <1>3, <2>2 DEF Work
    <2>5. \A e \in calls : e.kind \notin Polls
      BY <1>3, <2>2 DEF Work, Polls
    <2> QED
      BY <2>2, <2>3, <2>4, <2>5 DEF RunTabRight, Work
  <1>7. ASSUME NEW r \in Runs, c.kind \in Polls, EndPolls(c, r), UNCHANGED <<selected, trace>>,
               r.spans \in {run.spans, trace}
        PROVE  RunTabRight'
    <2>1. /\ run'.spans = r.spans /\ run'.refresh = TRUE /\ run'.progress = FALSE
      BY <1>7, RunFields DEF EndPolls
    <2>2. \A e \in calls' : e.kind \notin Work
      BY <1>3, <1>7 DEF Work, EndPolls, End
    <2>3. trace \in Traces
      BY <1>1, <1>7 DEF RunTabRight, OfTrace, Good, RightRequest, Work
    <2> QED
      BY <1>2, <1>7, <2>1, <2>2, <2>3 DEF RunTabRight, Work
  <1>8. CASE PollAnswered(c)
    <2>1. c.kind \in Polls /\ UNCHANGED <<selected, trace>>
      BY <1>8 DEF PollAnswered, place
    <2>2. CASE EndPolls(c, run)
      BY <1>7, <2>1, <2>2
    <2>3. CASE Answered(c) /\ EndPolls(c, RenderRunSpans(run, c.answer.trace))
      <3>1. c.answer.trace = c.arg /\ c.arg = trace /\ c.arg \in Traces
        BY <1>1, <2>1, <2>3
        DEF Answered, RunTabRight, OfTrace, Succeeded, Good, RightRequest, Work, Polls
      <3>2. RenderRunSpans(run, trace) \in Runs /\ RenderRunSpans(run, trace).spans = trace
        BY <3>1 DEF RenderRunSpans, Runs
      <3>3. EndPolls(c, RenderRunSpans(run, trace))
        BY <2>3, <3>1
      <3> QED
        BY <1>7, <2>1, <3>2, <3>3
    <2> QED
      BY <1>8, <2>2, <2>3 DEF PollAnswered
  <1>9. CASE PollMissed(c)
    <2>1. PICK d : /\ calls' = (calls \ {c}) \cup {d}
                   /\ d.kind = c.kind /\ d.brick = c.brick /\ d.arg = c.arg /\ d.at = "asleep"
      BY <1>1, <1>9, FallenAsleep
    <2>2. c.kind \in Work /\ c.kind \in Polls /\ UNCHANGED <<selected, trace>>
      BY <1>9 DEF PollMissed, place, Work
    <2>5. run' = run \/ run' = Message(run, "waiting")
      BY <1>9 DEF PollMissed
    <2>3. /\ run'.spans = run.spans /\ run'.refresh = run.refresh
          /\ run'.progress = run.progress
      BY <2>5 DEF Message, Runs
    <2>4. OfTrace(d)
      BY <2>1, <2>2 DEF OfTrace, Succeeded, RunTabRight
    <2> QED
      BY <2>1, <2>2, <2>3, <2>4, RunTabSwapped
  <1>10. CASE Wake(c)
    <2>1. c.kind \in Work /\ c.kind \in Polls /\ UNCHANGED <<selected, trace>>
      BY <1>1, <1>10 DEF Wake, place, Work
    <2>2. CASE Resend(c, c.kind, c.arg, c.attempt + 1) /\ UNCHANGED run
      <3>1. PICK d : /\ calls' = (calls \ {c}) \cup {d}
                     /\ d.kind = c.kind /\ d.brick = c.brick /\ d.arg = c.arg /\ d.at = "sent"
        BY <1>1, <2>2, Resent
      <3>2. OfTrace(d)
        BY <2>1, <3>1 DEF OfTrace, Succeeded, RunTabRight
      <3> QED
        BY <2>1, <2>2, <3>1, <3>2, RunTabSwapped
    <2>3. CASE EndPolls(c, run)
      BY <1>7, <2>1, <2>3
    <2> QED
      BY <1>10, <2>2, <2>3 DEF Wake
  <1>11. CASE ListAnswered(c) /\ hash # None
    <2>1. PICK d, r : /\ calls' = (calls \ {c}) \cup {d, r}
                      /\ d.kind = "gaps" /\ r.kind = "detail"
      BY <1>1, <1>11, Listed
    <2>2. \A e \in calls : e.kind \notin BrickKinds
      BY <1>11 DEF ListAnswered, InFlight
    <2>3. \A e \in calls \cup calls' : e.kind \notin Work
      BY <2>1, <2>2 DEF BrickKinds, Work, Polls
    <2>4. hash \in Bricks /\ Choose(hash)
      BY <1>11 DEF ListAnswered, PlaceTypes
    <2> QED
      BY <2>3, <2>4, RunTabChosen
  <1>12. ASSUME c.kind \notin Work, UNCHANGED <<selected, trace, run>>,
                \/ calls' = calls \ {c}
                \/ \E d : calls' = (calls \ {c}) \cup {d} /\ d.kind \notin Work
         PROVE  RunTabRight'
    <2>1. {e \in calls' : e.kind \in Work} = {e \in calls : e.kind \in Work}
      BY <1>12
    <2> QED
      BY <1>12, <2>1, RunTabKept
  <1>13. CASE ListAnswered(c) /\ hash = None
    <2>1. \E d : calls' = (calls \ {c}) \cup {d} /\ d.kind \notin Work
      BY <1>1, <1>13, ListedOnly DEF Work, Polls
    <2> QED
      BY <1>12, <1>13, <2>1 DEF ListAnswered, Work, Polls
  <1>14. CASE GapsAnswered(c)
    <2>2. PICK d : calls' = (calls \ {c}) \cup {d} /\ d.kind = "summary"
      BY <1>1, <1>14, Resent DEF GapsAnswered
    <2>1. \E e : calls' = (calls \ {c}) \cup {e} /\ e.kind \notin Work
      BY <2>2 DEF Work, Polls
    <2> QED
      BY <1>12, <1>14, <2>1 DEF GapsAnswered, place, Work, Polls
  <1>15. CASE DetailAnswered(c) \/ ReviewAnswered(c) \/ ScenarioAnswered(c) \/ TagAnswered(c)
    BY <1>12, <1>15
    DEF DetailAnswered, ReviewAnswered, ScenarioAnswered, TagAnswered, TagKinds, End, place,
        Work, Polls
  <1>16. CASE ListFailed(c) \/ SummaryAnswered(c) \/ EditAnswered(c)
    BY <1>12, <1>16 DEF ListFailed, SummaryAnswered, EditAnswered, End, place, Work, Polls
  <1> QED
    BY <1>5, <1>6, <1>8, <1>9, <1>10, <1>11, <1>13, <1>14, <1>15, <1>16 DEF Continue

\* So does a change of the address.
LEMMA RunTabOfHash ==
    ASSUME Inv, Alone, RunTabRight, HandleHashChange, ~hasty'
    PROVE  RunTabRight'
  <1> USE InvParts
  <1>1. CASE hash \notin {None, selected}
    <2>1. PICK r : calls' = calls \cup {r} /\ r.kind = "detail"
      BY <1>1, Sent DEF HandleHashChange
    <2>2. \A c \in calls : c.kind \notin BrickKinds
      BY <1>1 DEF HandleHashChange, InFlight
    <2>3. \A c \in calls \cup calls' : c.kind \notin Work
      BY <2>1, <2>2 DEF BrickKinds, Work, Polls
    <2>4. hash \in Bricks /\ Choose(hash)
      BY <1>1 DEF HandleHashChange, PlaceTypes
    <2> QED
      BY <2>3, <2>4, RunTabChosen
  <1>2. CASE UNCHANGED <<calls, selected, trace, run>>
    BY <1>2, RunTabKept
  <1> QED
    BY <1>1, <1>2 DEF HandleHashChange

\* RunTabRight is inductive, of a user who waits.
LEMMA RunTabStep ==
    ASSUME Inv, Controls, ~hasty => Alone, ~hasty => RunTabRight, [Next]_vars
    PROVE  (~hasty => RunTabRight)'
  <1> SUFFICES ASSUME ~hasty' PROVE RunTabRight'
    OBVIOUS
  <1>1. Alone /\ RunTabRight
    BY HastyStays
  <1>2. CASE User
    BY <1>1, <1>2, RunTabOfUser
  <1>3. CASE HandleHashChange
    BY <1>1, <1>3, RunTabOfHash
  <1>4. ASSUME NEW c \in calls, Handle(c) PROVE RunTabRight'
    BY <1>1, <1>4, RunTabOfServer
  <1>5. ASSUME NEW c \in calls, Continue(c) PROVE RunTabRight'
    BY <1>1, <1>5, RunTabOfHandler
  <1>6. CASE UNCHANGED <<calls, selected, trace, run>>
    BY <1>1, <1>6, RunTabKept
  <1> QED
    BY <1>2, <1>3, <1>4, <1>5, <1>6 DEF Next, Network, Drain, Rest, vars, place

(* Of a user who waits, the Run tab shows the spans and offers the trace of   *)
(* the selected brick only, and Refresh and the progress bar say truly        *)
(* whether a replay or a poll loop is on its way: for any number of polls and *)
(* replays, and whichever of them fails.                                      *)
THEOREM RunTabStays == Spec => []RunTabOfSelected
  <1>1. Init => (~hasty => RunTabRight)
    <2> SUFFICES ASSUME Init PROVE RunTabRight
      OBVIOUS
    <2> DEFINE c == [id |-> 1, kind |-> "list", brick |-> None, arg |-> None, at |-> "sent",
                     answer |-> None, attempt |-> 0]
    <2>1. calls = {c} /\ c.kind \notin Work
      BY DEF Init, Work, Polls
    <2>2. trace = None /\ run.spans = None /\ run.refresh = FALSE /\ run.progress = FALSE
      BY DEF Init
    <2> HIDE DEF c
    <2> QED
      BY <2>1, <2>2 DEF RunTabRight
  <1>2. Spec => [](~hasty => RunTabRight)
    BY <1>1, RunTabStep, Invariant, ControlsAlways, OneAtATime, PTL DEF Spec
  <1> QED
    BY <1>2, RunTabForm, PTL
---------------------------------------------------------------------------
(* The pane, and what its forms store *)

(* A scenario is on its way with the brick it is for; an answer says what the *)
(* server has.                                                                *)
Told(c) ==
    /\ c.kind = "scenario" => c.arg[1] = c.brick
    /\ Succeeded(c) =>
          /\ c.answer.brick = c.brick
          /\ c.kind \in {"detail", "review"} => c.answer.review = review[c.brick]
          /\ c.kind \in {"detail", "scenario"} => c.answer.scenario = scenario[c.brick]
          /\ c.kind \in {"detail"} \cup TagKinds => c.answer.tags = tags[c.brick]

ReviewShown   == detail.pill = <<selected, review[selected]>> \/ "review" \in busy \cup errors
ScenarioShown == \/ detail.form \in {scenario[selected], <<selected, 1>>}
                 \/ "scenario" \in busy \cup errors
TagsShown     == \/ detail.chips = <<selected, tags[selected]>>
                 \/ "tags" \in errors \/ \E c \in calls : c.kind \in TagKinds

Shown ==
    /\ detail.brick = selected
    /\ detail.form[1] = selected
    /\ ReviewShown /\ ScenarioShown /\ TagsShown

PaneRight ==
    /\ ScenariosOwn
    /\ \A c \in calls : c.kind \in PaneKinds => Told(c)
    /\ detail.brick # None /\ ~Waiting => Shown

\* The two properties, from their strengthening.
LEMMA PaneForm ==
    (~hasty => PaneRight) => ScenariosOwn /\ PanelOfSelected
  <1>1. InFlight({"detail"}) = {} <=> ~Waiting
    BY DEF InFlight, Waiting
  <1>2. InFlight(TagKinds) # {} <=> \E c \in calls : c.kind \in TagKinds
    BY DEF InFlight
  <1> QED
    BY <1>1, <1>2
    DEF PaneRight, ScenariosOwn, PanelOfSelected, Shown, ReviewShown, ScenarioShown, TagsShown

(* What a click or an answer may do to the signs that a value is on its way   *)
SignsKept ==
    /\ "review" \in busy \cup errors => "review" \in busy' \cup errors'
    /\ "scenario" \in busy \cup errors => "scenario" \in busy' \cup errors'
    /\ "tags" \in errors => "tags" \in errors'

FieldsKept ==
    /\ detail'.brick = detail.brick /\ detail'.form = detail.form
    /\ detail'.pill = detail.pill /\ detail'.chips = detail.chips

\* What touches neither the pane, nor its brick's rows, nor its requests keeps it.
LEMMA PaneKept ==
    ASSUME PaneRight, ~hasty, ~hasty', UNCHANGED <<selected, review, scenario, tags>>,
           FieldsKept, SignsKept,
           {c \in calls' : c.kind \in PaneKinds} = {c \in calls : c.kind \in PaneKinds}
    PROVE  PaneRight'
  <1>1. \A c : c \in calls' /\ c.kind \in PaneKinds <=> c \in calls /\ c.kind \in PaneKinds
    OBVIOUS
  <1>2. TagKinds \subseteq PaneKinds /\ "detail" \in PaneKinds
    BY DEF PaneKinds
  <1>3. Waiting' <=> Waiting
    BY <1>1, <1>2 DEF Waiting
  <1>4. (\E c \in calls' : c.kind \in TagKinds) <=> (\E c \in calls : c.kind \in TagKinds)
    BY <1>1, <1>2
  <1>5. \A c : Told(c)' <=> Told(c)
    BY DEF Told, Succeeded
  <1>6. ScenariosOwn'
    BY DEF PaneRight, ScenariosOwn
  <1>7. Shown => Shown'
    BY <1>4 DEF Shown, ReviewShown, ScenarioShown, TagsShown, FieldsKept, SignsKept
  <1> QED
    BY <1>1, <1>3, <1>5, <1>6, <1>7 DEF PaneRight, FieldsKept

\* A request about a part of the pane puts that part in doubt, and no other.
LEMMA PaneSent ==
    ASSUME PaneRight, ~hasty, UNCHANGED <<selected, review, scenario, tags, detail>>,
           NEW r, calls' = calls \cup {r}, r.kind \in PaneKinds \ {"detail"}, r.at = "sent",
           r.kind = "scenario" => r.arg[1] = r.brick,
           "review" \in busy \cup errors => "review" \in busy' \cup errors',
           "scenario" \in busy \cup errors => "scenario" \in busy' \cup errors',
           r.kind \in TagKinds \/ ("tags" \in errors => "tags" \in errors')
    PROVE  PaneRight'
  <1>1. Waiting' <=> Waiting
    BY DEF Waiting
  <1>2. \A c : Told(c)' <=> Told(c)
    BY DEF Told, Succeeded
  <1>3. Told(r)
    BY DEF Told, Succeeded
  <1>4. ScenariosOwn'
    BY DEF PaneRight, ScenariosOwn
  <1>5. Shown => Shown'
    BY DEF Shown, ReviewShown, ScenarioShown, TagsShown
  <1> QED
    BY <1>1, <1>2, <1>3, <1>4, <1>5 DEF PaneRight

(* A brick is selected: nothing is said of the pane until its detail is there. *)
LEMMA PaneChosen ==
    ASSUME PaneRight, ~hasty, UNCHANGED scenario,
           \A c \in calls' : c.kind \in PaneKinds => c.kind = "detail" /\ c.at = "sent",
           \E c \in calls' : c.kind = "detail"
    PROVE  PaneRight'
  <1>1. Waiting'
    BY DEF Waiting
  <1>2. \A c \in calls' : c.kind \in PaneKinds => Told(c)'
    BY DEF Told, Succeeded
  <1>3. ScenariosOwn'
    BY DEF PaneRight, ScenariosOwn
  <1> QED
    BY <1>1, <1>2, <1>3 DEF PaneRight

\* The user keeps the pane that of the selected brick.
LEMMA PaneOfUser ==
    ASSUME Inv, PaneRight, ~hasty, ~hasty', User
    PROVE  PaneRight'
  <1> USE InvParts
  <1>1. ASSUME NEW b \in Bricks, SelectBrick(b) PROVE PaneRight'
    <2>1. PICK r : calls' = calls \cup {r} /\ r.kind = "detail" /\ r.at = "sent"
      BY <1>1, Sent DEF SelectBrick
    <2>2. \A c \in calls : c.kind \notin BrickKinds
      BY <1>1, Waits DEF SelectBrick
    <2>3. \A c \in calls' : c.kind \in PaneKinds => c = r
      BY <2>1, <2>2 DEF BrickKinds, PaneKinds, TagKinds
    <2>4. UNCHANGED scenario
      BY <1>1 DEF SelectBrick, server
    <2> QED
      BY <2>1, <2>3, <2>4, PaneChosen
  <1>2. ASSUME NEW s \in Statuses, HandleReviewStatusClick(s) PROVE PaneRight'
    <2>1. PICK r : calls' = calls \cup {r} /\ r.kind = "review" /\ r.at = "sent"
      BY <1>2, Sent DEF HandleReviewStatusClick
    <2>2. UNCHANGED <<selected, review, scenario, tags, detail>>
      BY <1>2 DEF HandleReviewStatusClick, server, place
    <2>3. busy' = busy \cup {"review"} /\ errors' = errors \ {"review"}
      BY <1>2 DEF HandleReviewStatusClick
    <2>4. r.kind \in PaneKinds \ {"detail"} /\ r.kind # "scenario"
      BY <2>1 DEF PaneKinds
    <2> QED
      BY <2>1, <2>2, <2>3, <2>4, PaneSent
  <1>3. CASE HandleScenarioSubmit
    <2>1. PICK r : /\ calls' = calls \cup {r} /\ r.kind = "scenario" /\ r.at = "sent"
                   /\ r.brick = selected /\ r.arg = detail.form
      BY <1>3, Sent DEF HandleScenarioSubmit
    <2>2. UNCHANGED <<selected, review, scenario, tags, detail>>
      BY <1>3 DEF HandleScenarioSubmit, server, place
    <2>3. busy' = busy \cup {"scenario"} /\ errors' = errors \ {"scenario"}
      BY <1>3 DEF HandleScenarioSubmit
    <2>4. \A c \in calls : c.kind \notin {"detail"}
      BY <1>3, Waits DEF HandleScenarioSubmit
    <2>5. detail.form[1] = selected
      BY <1>3, <2>4 DEF HandleScenarioSubmit, DetailTab, PaneRight, Waiting, Shown
    <2>6. r.kind \in PaneKinds \ {"detail"}
      BY <2>1 DEF PaneKinds
    <2> QED
      BY <2>1, <2>2, <2>3, <2>5, <2>6, PaneSent
  <1>4. ASSUME NEW t \in Tags, HandleTagAddSubmit(t) PROVE PaneRight'
    <2> DEFINE k == "add tag"
    <2>1. k \in TagKinds /\ k \in PaneKinds \ {"detail"} /\ k # "scenario"
      BY DEF PaneKinds, TagKinds
    <2>2. Send(k, selected, t, 0)
      BY <1>4 DEF HandleTagAddSubmit
    <2> HIDE DEF k
    <2>3. PICK r : calls' = calls \cup {r} /\ r.kind = k /\ r.at = "sent"
      BY <2>2, Sent
    <2>4. UNCHANGED <<selected, review, scenario, tags, detail, busy>>
          /\ errors' = errors \ {"tags"}
      BY <1>4 DEF HandleTagAddSubmit, server, place
    <2> QED
      BY <2>1, <2>3, <2>4, PaneSent
  <1>5. ASSUME NEW t \in Tags, HandleTagRemoveClick(t) PROVE PaneRight'
    <2> DEFINE k == "remove tag"
    <2>1. k \in TagKinds /\ k \in PaneKinds \ {"detail"} /\ k # "scenario"
      BY DEF PaneKinds, TagKinds
    <2>2. Send(k, selected, t, 0)
      BY <1>5 DEF HandleTagRemoveClick
    <2> HIDE DEF k
    <2>3. PICK r : calls' = calls \cup {r} /\ r.kind = k /\ r.at = "sent"
      BY <2>2, Sent
    <2>4. UNCHANGED <<selected, review, scenario, tags, detail, busy>>
          /\ errors' = errors \ {"tags"}
      BY <1>5 DEF HandleTagRemoveClick, server, place
    <2> QED
      BY <2>1, <2>3, <2>4, PaneSent
  <1>6. CASE TypeScenario
    <2>1. /\ detail'.brick = detail.brick /\ detail'.form = <<detail.brick, 1>>
          /\ detail'.pill = detail.pill /\ detail'.chips = detail.chips
      BY <1>6 DEF TypeScenario, Details
    <2>2. UNCHANGED <<selected, review, scenario, tags, calls, busy, errors>>
      BY <1>6 DEF TypeScenario, server, place
    <2>3. Shown => Shown'
      BY <2>1, <2>2 DEF Shown, ReviewShown, ScenarioShown, TagsShown
    <2>4. \A c : Told(c)' <=> Told(c)
      BY <2>2 DEF Told, Succeeded
    <2>5. (Waiting' <=> Waiting) /\ ScenariosOwn'
      BY <2>2 DEF Waiting, PaneRight, ScenariosOwn
    <2> QED
      BY <2>1, <2>2, <2>3, <2>4, <2>5 DEF PaneRight
  <1>7. ASSUME NEW kind, kind \notin PaneKinds, NEW brick, NEW arg, NEW attempt,
               Send(kind, brick, arg, attempt),
               UNCHANGED <<selected, review, scenario, tags, detail>>, SignsKept
        PROVE  PaneRight'
    <2>1. PICK r : calls' = calls \cup {r} /\ r.kind = kind
      BY <1>7, Sent
    <2>2. {c \in calls' : c.kind \in PaneKinds} = {c \in calls : c.kind \in PaneKinds}
      BY <1>7, <2>1
    <2> QED
      BY <1>7, <2>2, PaneKept DEF FieldsKept
  <1>8. CASE HandleRunClick
    BY <1>7, <1>8 DEF HandleRunClick, server, place, SignsKept, PaneKinds, TagKinds
  <1>9. CASE HandleRefreshClick
    BY <1>7, <1>9 DEF HandleRefreshClick, server, place, SignsKept, PaneKinds, TagKinds
  <1>10. CASE HandleEditSubmit
    BY <1>7, <1>10 DEF HandleEditSubmit, server, place, SignsKept, PaneKinds, TagKinds
  <1>11. ASSUME NEW t \in {"detail", "run"}, ClickTab(t) PROVE PaneRight'
    <2>1. FieldsKept
      BY <1>11 DEF ClickTab, ShowTab, Details, FieldsKept
    <2> QED
      BY <1>11, <2>1, PaneKept DEF ClickTab, server, place, SignsKept
  <1>12. CASE UNCHANGED <<calls, selected, review, scenario, tags, detail, busy>>
              /\ errors \subseteq errors'
    BY <1>12, PaneKept DEF FieldsKept, SignsKept
  <1> QED
    BY <1>1, <1>2, <1>3, <1>4, <1>5, <1>6, <1>8, <1>9, <1>10, <1>11, <1>12
    DEF User, EditHash, HandleEmptyTag, TypeEdit, server, place
(* What an answer says, of the kinds that the pane waits for *)
LEMMA AnswerFields ==
    ASSUME NEW b, NEW s, NEW x, NEW t
    PROVE  /\ LET a == [NoAnswer EXCEPT !.brick = b, !.review = s, !.scenario = x, !.tags = t]
              IN  a.brick = b /\ a.review = s /\ a.scenario = x /\ a.tags = t
           /\ LET a == [NoAnswer EXCEPT !.brick = b, !.review = s]
              IN  a.brick = b /\ a.review = s
           /\ LET a == [NoAnswer EXCEPT !.brick = b, !.scenario = x]
              IN  a.brick = b /\ a.scenario = x
           /\ LET a == [NoAnswer EXCEPT !.brick = b, !.tags = t]
              IN  a.brick = b /\ a.tags = t
  BY DEF NoAnswer

(* The server handles a request of the pane. *)
LEMMA PaneHandled ==
    ASSUME PaneRight, ~hasty, ~hasty',
           UNCHANGED <<selected, detail, busy, errors>>,
           NEW c \in calls, NEW d, calls' = (calls \ {c}) \cup {d}, d.kind = c.kind,
           ScenariosOwn', Told(d)', c.kind \in PaneKinds,
           \A e \in calls \ {c} : e.kind \in PaneKinds => Told(e)',
           ReviewShown => ReviewShown', ScenarioShown => ScenarioShown', TagsShown => TagsShown'
    PROVE  PaneRight'
  <1>1. Waiting' <=> Waiting
    BY DEF Waiting
  <1>2. Shown => Shown'
    BY DEF Shown
  <1> QED
    BY <1>1, <1>2 DEF PaneRight

\* So does the server, which stores what it answers.
LEMMA PaneOfServer ==
    ASSUME Inv, Controls, Alone, PaneRight, ~hasty, ~hasty', NEW c \in calls, Handle(c)
    PROVE  PaneRight'
  <1> USE InvParts
  <1>1. c \in Calls /\ Good(c)
    BY DEF CallsGood, Good
  <1>2. UNCHANGED <<selected, detail, busy, errors>>
    BY DEF Handle, place
  <1>3. ASSUME c.kind \notin PaneKinds, UNCHANGED server, NEW a, Reply(c, a) PROVE PaneRight'
    <2>1. PICK d : calls' = (calls \ {c}) \cup {d} /\ d.kind = c.kind
      BY <1>1, <1>3, Replied
    <2>2. {e \in calls' : e.kind \in PaneKinds} = {e \in calls : e.kind \in PaneKinds}
      BY <1>3, <2>1
    <2> QED
      BY <1>2, <1>3, <2>2, PaneKept DEF FieldsKept, SignsKept, server
  <1>4. CASE HandleDetail(c)
    <2> DEFINE a == [NoAnswer EXCEPT !.brick = c.brick, !.review = review[c.brick],
                                     !.scenario = scenario[c.brick], !.tags = tags[c.brick]]
    <2>1. /\ a.brick = c.brick /\ a.review = review[c.brick]
          /\ a.scenario = scenario[c.brick] /\ a.tags = tags[c.brick]
      BY DEF NoAnswer
    <2>2. Reply(c, a) /\ c.kind = "detail" /\ UNCHANGED <<review, scenario, tags>>
      BY <1>4 DEF HandleDetail, server
    <2> HIDE DEF a
    <2>3. PICK d : /\ calls' = (calls \ {c}) \cup {d}
                   /\ d.kind = c.kind /\ d.brick = c.brick /\ d.answer = a
      BY <1>1, <2>2, Replied
    <2>4. Told(d)'
      BY <2>1, <2>2, <2>3 DEF Told
    <2>5. \A e : Told(e)' <=> Told(e)
      BY <2>2 DEF Told, Succeeded
    <2>6. c.kind \in PaneKinds /\ ScenariosOwn'
      BY <2>2 DEF PaneKinds, PaneRight, ScenariosOwn
    <2>7. /\ ReviewShown => ReviewShown'
          /\ ScenarioShown => ScenarioShown'
          /\ TagsShown => TagsShown'
      BY <1>2, <2>2, <2>3 DEF ReviewShown, ScenarioShown, TagsShown
    <2>told. \A e \in calls \ {c} : e.kind \in PaneKinds => Told(e)'
      BY <2>5 DEF PaneRight
    <2> QED
      BY <1>2, <2>3, <2>4, <2>told, <2>6, <2>7, PaneHandled
  <1>5. CASE HandleReview(c)
    <2> DEFINE a == [NoAnswer EXCEPT !.brick = c.brick, !.review = c.arg]
    <2>1. a.brick = c.brick /\ a.review = c.arg
      BY DEF NoAnswer
    <2>2. /\ Reply(c, a) /\ c.kind = "review" /\ UNCHANGED <<scenario, tags>>
          /\ review' = [review EXCEPT ![c.brick] = c.arg]
      BY <1>5 DEF HandleReview
    <2> HIDE DEF a
    <2>3. PICK d : /\ calls' = (calls \ {c}) \cup {d}
                   /\ d.kind = c.kind /\ d.brick = c.brick /\ d.answer = a
      BY <1>1, <2>2, Replied
    <2>4. review'[c.brick] = c.arg
      BY <1>1, <2>2 DEF ServerTypes, Good, RightRequest, BrickKinds
    <2>5. Told(d)'
      BY <2>1, <2>2, <2>3, <2>4 DEF Told, TagKinds
    <2>6. \A e \in calls \ {c} : e.kind \notin {"detail", "review"}
      BY <2>2 DEF Alone, Excludes, BrickKinds, Controls, Control, Buttons
    <2>7. \A e \in calls \ {c} : Told(e) => Told(e)'
      BY <2>2, <2>6 DEF Told, Succeeded
    <2>8. c.kind \in PaneKinds /\ ScenariosOwn'
      BY <2>2 DEF PaneKinds, PaneRight, ScenariosOwn
    <2>9. "review" \in busy
      BY <2>2 DEF Controls, Control, Buttons
    <2>10. /\ ReviewShown'
           /\ ScenarioShown => ScenarioShown'
           /\ TagsShown => TagsShown'
      BY <1>2, <2>2, <2>3, <2>9 DEF ReviewShown, ScenarioShown, TagsShown
    <2>told. \A e \in calls \ {c} : e.kind \in PaneKinds => Told(e)'
      BY <2>7 DEF PaneRight
    <2> QED
      BY <1>2, <2>3, <2>5, <2>told, <2>8, <2>10, PaneHandled
  <1>6. CASE HandleScenario(c)
    <2> DEFINE a == [NoAnswer EXCEPT !.brick = c.brick, !.scenario = c.arg]
    <2>1. a.brick = c.brick /\ a.scenario = c.arg
      BY DEF NoAnswer
    <2>2. /\ Reply(c, a) /\ c.kind = "scenario" /\ UNCHANGED <<review, tags>>
          /\ scenario' = [scenario EXCEPT ![c.brick] = c.arg]
      BY <1>6 DEF HandleScenario
    <2> HIDE DEF a
    <2>3. PICK d : /\ calls' = (calls \ {c}) \cup {d} /\ d.arg = c.arg
                   /\ d.kind = c.kind /\ d.brick = c.brick /\ d.answer = a
      BY <1>1, <2>2, Replied
    <2>4. scenario'[c.brick] = c.arg
      BY <1>1, <2>2 DEF ServerTypes, Good, RightRequest, BrickKinds
    <2>5. c.arg[1] = c.brick
      BY <2>2 DEF PaneRight, PaneKinds, Told
    <2>6. Told(d)'
      BY <2>1, <2>2, <2>3, <2>4, <2>5 DEF Told, TagKinds
    <2>7. \A e \in calls \ {c} : e.kind \notin {"detail", "scenario"}
      BY <2>2 DEF Alone, Excludes, BrickKinds, Controls, Control, Buttons
    <2>8. \A e \in calls \ {c} : Told(e) => Told(e)'
      BY <2>2, <2>7 DEF Told, Succeeded
    <2>9. c.kind \in PaneKinds
      BY <2>2 DEF PaneKinds
    <2>10. ScenariosOwn'
      BY <2>2, <2>5 DEF PaneRight, ScenariosOwn, ServerTypes
    <2>11. "scenario" \in busy
      BY <2>2 DEF Controls, Control, Buttons
    <2>12. /\ ReviewShown => ReviewShown'
           /\ ScenarioShown'
           /\ TagsShown => TagsShown'
      BY <1>2, <2>2, <2>3, <2>11 DEF ReviewShown, ScenarioShown, TagsShown
    <2>told. \A e \in calls \ {c} : e.kind \in PaneKinds => Told(e)'
      BY <2>8 DEF PaneRight
    <2> QED
      BY <1>2, <2>3, <2>6, <2>told, <2>9, <2>10, <2>12, PaneHandled
  <1>7. CASE HandleTag(c)
    <2>1. PICK t : /\ Reply(c, [NoAnswer EXCEPT !.brick = c.brick, !.tags = t])
                   /\ tags' = [tags EXCEPT ![c.brick] = t]
      BY <1>7 DEF HandleTag
    <2> DEFINE a == [NoAnswer EXCEPT !.brick = c.brick, !.tags = t]
    <2>2. a.brick = c.brick /\ a.tags = t
      BY DEF NoAnswer
    <2>3. Reply(c, a) /\ c.kind \in TagKinds /\ UNCHANGED <<review, scenario>>
      BY <1>7, <2>1 DEF HandleTag, TagKinds
    <2> HIDE DEF a
    <2>4. PICK d : /\ calls' = (calls \ {c}) \cup {d}
                   /\ d.kind = c.kind /\ d.brick = c.brick /\ d.answer = a
      BY <1>1, <2>3, Replied
    <2>5. tags'[c.brick] = t
      BY <1>1, <2>1, <2>3 DEF ServerTypes, Good, RightRequest, BrickKinds, TagKinds
    <2>6. c.kind \notin {"detail", "review", "scenario"}
      BY <2>3 DEF TagKinds
    <2>7. Told(d)'
      BY <2>2, <2>3, <2>4, <2>5, <2>6 DEF Told
    <2>8. \A e \in calls \ {c} : e.kind \notin {"detail"} \cup TagKinds
      BY <2>3 DEF Alone, Excludes, BrickKinds, TagKinds
    <2>9. \A e \in calls \ {c} : Told(e) => Told(e)'
      BY <2>3, <2>8 DEF Told, Succeeded
    <2>10. c.kind \in PaneKinds /\ ScenariosOwn'
      BY <2>3 DEF PaneKinds, PaneRight, ScenariosOwn
    <2>11. /\ ReviewShown => ReviewShown'
           /\ ScenarioShown => ScenarioShown'
           /\ TagsShown'
      BY <1>2, <2>3, <2>4 DEF ReviewShown, ScenarioShown, TagsShown
    <2>told. \A e \in calls \ {c} : e.kind \in PaneKinds => Told(e)'
      BY <2>9 DEF PaneRight
    <2> QED
      BY <1>2, <2>4, <2>7, <2>told, <2>10, <2>11, PaneHandled
  <1>8. CASE HandleEdit(c) \/ HandleReplay(c)
    <2>1. c.kind \notin PaneKinds /\ UNCHANGED <<review, scenario, tags>>
      BY <1>8 DEF HandleEdit, HandleReplay, PaneKinds, TagKinds
    <2>2. PICK a : Reply(c, a)
      BY <1>8 DEF HandleEdit, HandleReplay
    <2>3. PICK d : calls' = (calls \ {c}) \cup {d} /\ d.kind = c.kind
      BY <1>1, <2>2, Replied
    <2>4. {e \in calls' : e.kind \in PaneKinds} = {e \in calls : e.kind \in PaneKinds}
      BY <2>1, <2>3
    <2> QED
      BY <1>2, <2>1, <2>4, PaneKept DEF FieldsKept, SignsKept
  <1>9. CASE HandlePoll(c)
    <2>1. c.kind \notin PaneKinds /\ UNCHANGED server
      BY <1>9 DEF HandlePoll, Polls, PaneKinds, TagKinds
    <2>2. PICK a : Reply(c, a)
      BY <1>9 DEF HandlePoll
    <2> QED
      BY <1>3, <2>1, <2>2
  <1> QED
    BY <1>4, <1>5, <1>6, <1>7, <1>8, <1>9 DEF Handle
\* What each function of the pane renders.
LEMMA PaneFields ==
    ASSUME NEW d \in Details
    PROVE  /\ \A a : /\ RenderReview(d, a).brick = d.brick /\ RenderReview(d, a).form = d.form
                     /\ RenderReview(d, a).pill = <<a.brick, a.review>>
                     /\ RenderReview(d, a).chips = d.chips
           /\ \A a : /\ RenderScenario(d, a).brick = d.brick
                     /\ RenderScenario(d, a).form = a.scenario
                     /\ RenderScenario(d, a).pill = d.pill
                     /\ RenderScenario(d, a).chips = d.chips
           /\ \A a : /\ RenderTags(d, a).brick = d.brick /\ RenderTags(d, a).form = d.form
                     /\ RenderTags(d, a).pill = d.pill
                     /\ RenderTags(d, a).chips = <<a.brick, a.tags>>
  BY DEF Details, RenderReview, RenderScenario, RenderTags

\* A pane that is filled is that of the answer, in every part.
LEMMA RenderedDetail ==
    ASSUME NEW d \in Details, NEW a, a.brick \in Bricks, a.review \in Statuses,
           a.scenario \in Texts
    PROVE  /\ RenderDetail(d, a).brick = a.brick
           /\ RenderDetail(d, a).form = a.scenario
           /\ RenderDetail(d, a).pill = <<a.brick, a.review>>
           /\ RenderDetail(d, a).chips = <<a.brick, a.tags>>
  <1> DEFINE d1 == [d EXCEPT !.brick = a.brick]
             d2 == RenderReview(d1, a)
             d3 == RenderScenario(d2, a)
             d4 == RenderTags(d3, a)
  <1>1. d1 \in Details /\ d1.brick = a.brick
    BY DEF Details
  <1> HIDE DEF d1
  <1>2. d2 \in Details
    BY <1>1, DetailTypes
  <1>3. d2.brick = a.brick /\ d2.pill = <<a.brick, a.review>>
    BY <1>1, PaneFields
  <1> HIDE DEF d2
  <1>4. d3 \in Details
    BY <1>2, DetailTypes
  <1>5. d3.brick = a.brick /\ d3.pill = <<a.brick, a.review>> /\ d3.form = a.scenario
    BY <1>2, <1>3, PaneFields
  <1> HIDE DEF d3
  <1>6. /\ d4.brick = a.brick /\ d4.pill = <<a.brick, a.review>> /\ d4.form = a.scenario
        /\ d4.chips = <<a.brick, a.tags>>
    BY <1>4, <1>5, PaneFields
  <1>7. RenderDetail(d, a) = d4
    BY DEF RenderDetail, d1, d2, d3
  <1> HIDE DEF d4
  <1> QED
    BY <1>6, <1>7

(* The handler of a request of the pane ends. *)
LEMMA PaneEnded ==
    ASSUME PaneRight, ~hasty, UNCHANGED <<selected, review, scenario, tags>>,
           NEW c \in calls, End(c),
           detail'.brick # None /\ ~Waiting' => Shown'
    PROVE  PaneRight'
  <1>1. \A e : Told(e)' <=> Told(e)
    BY DEF Told, Succeeded
  <1>2. ScenariosOwn'
    BY DEF PaneRight, ScenariosOwn
  <1>3. calls' \subseteq calls
    BY DEF End
  <1> QED
    BY <1>1, <1>2, <1>3 DEF PaneRight

\* Every handler renders the parts that its answer is about.
LEMMA PaneOfHandler ==
    ASSUME Inv, Controls, Alone, PaneRight, ~hasty, ~hasty', NEW c \in calls, Continue(c)
    PROVE  PaneRight'
  <1> USE InvParts
  <1>1. c \in Calls /\ Good(c) /\ (c.at = "asleep" => c.kind \in Polls)
    BY DEF CallsGood, Good
  <1>2. CASE DetailAnswered(c)
    <2>1. c.kind = "detail" /\ End(c) /\ UNCHANGED <<selected, review, scenario, tags>>
          /\ UNCHANGED <<busy, errors>>
      BY <1>2 DEF DetailAnswered, place, server
    <2>2. CASE Answered(c) /\ detail' = RenderDetail(detail, c.answer)
      <3> DEFINE a == c.answer
      <3>1. /\ a.brick \in Bricks /\ a.review \in Statuses /\ a.scenario \in Texts
        BY <1>1, <2>1, <2>2 DEF Answered, Good, RightAnswer
      <3>2. /\ a.brick = c.brick /\ a.review = review[c.brick]
            /\ a.scenario = scenario[c.brick] /\ a.tags = tags[c.brick]
        BY <2>1, <2>2 DEF PaneRight, PaneKinds, Told, Succeeded, Answered
      <3>3. c.brick = selected
        BY <2>1 DEF Alone, BrickKinds
      <3>4. detail' = RenderDetail(detail, a)
        BY <2>2
      <3> HIDE DEF a
      <3>5. /\ detail'.brick = selected /\ detail'.pill = <<selected, review[selected]>>
            /\ detail'.form = scenario[selected] /\ detail'.chips = <<selected, tags[selected]>>
        BY <3>1, <3>2, <3>3, <3>4, RenderedDetail
      <3>6. scenario[selected][1] = selected
        BY <3>1, <3>2, <3>3 DEF PaneRight, ScenariosOwn
      <3>7. Shown'
        BY <2>1, <3>5, <3>6 DEF Shown, ReviewShown, ScenarioShown, TagsShown
      <3> QED
        BY <2>1, <3>7, PaneEnded
    <2>3. CASE detail' = ShowDetailEmpty(detail)
      <3>1. detail'.brick = None
        BY <2>3, DetailTypes
      <3> QED
        BY <2>1, <3>1, PaneEnded
    <2> QED
      BY <1>2, <2>2, <2>3 DEF DetailAnswered
  <1>3. ASSUME c.kind # "detail", End(c), UNCHANGED <<selected, review, scenario, tags>>,
               detail'.brick = detail.brick, Shown => Shown'
        PROVE  PaneRight'
    <2>1. Waiting' <=> Waiting
      BY <1>3 DEF Waiting, End
    <2>2. detail'.brick # None /\ ~Waiting' => Shown'
      BY <1>3, <2>1 DEF PaneRight
    <2> QED
      BY <1>3, <2>2, PaneEnded
  <1>4. CASE ReviewAnswered(c)
    <2>1. /\ c.kind = "review" /\ End(c) /\ UNCHANGED <<selected, review, scenario, tags>>
          /\ busy' = busy \ {"review"} /\ errors \subseteq errors'
      BY <1>4 DEF ReviewAnswered, place, server
    <2>2. TagsShown' <=> \/ detail'.chips = <<selected, tags[selected]>>
                         \/ "tags" \in errors' \/ \E e \in calls : e.kind \in TagKinds
      BY <2>1 DEF TagsShown, End, TagKinds
    <2>3. CASE Answered(c) /\ detail' = RenderReview(detail, c.answer)
      <3> DEFINE a == c.answer
      <3>1. a.brick = c.brick /\ a.review = review[c.brick]
        BY <2>1, <2>3 DEF PaneRight, PaneKinds, Told, Succeeded, Answered
      <3>2. c.brick = selected
        BY <2>1 DEF Alone, BrickKinds
      <3>3. detail' = RenderReview(detail, a)
        BY <2>3
      <3> HIDE DEF a
      <3>4. /\ detail'.brick = detail.brick /\ detail'.form = detail.form
            /\ detail'.pill = <<a.brick, a.review>> /\ detail'.chips = detail.chips
        BY <3>3, PaneFields
      <3>5. Shown => Shown'
        BY <2>1, <2>2, <3>1, <3>2, <3>4 DEF Shown, ReviewShown, ScenarioShown, TagsShown
      <3> QED
        BY <1>3, <2>1, <3>4, <3>5
    <2>4. CASE errors' = errors \cup {"review"} /\ UNCHANGED detail
      <3>1. Shown => Shown'
        BY <2>1, <2>2, <2>4 DEF Shown, ReviewShown, ScenarioShown, TagsShown
      <3> QED
        BY <1>3, <2>1, <2>4, <3>1
    <2> QED
      BY <1>4, <2>3, <2>4 DEF ReviewAnswered
  <1>5. CASE ScenarioAnswered(c)
    <2>1. /\ c.kind = "scenario" /\ End(c) /\ UNCHANGED <<selected, review, scenario, tags>>
          /\ busy' = busy \ {"scenario"} /\ errors \subseteq errors'
      BY <1>5 DEF ScenarioAnswered, place, server
    <2>2. TagsShown' <=> \/ detail'.chips = <<selected, tags[selected]>>
                         \/ "tags" \in errors' \/ \E e \in calls : e.kind \in TagKinds
      BY <2>1 DEF TagsShown, End, TagKinds
    <2>3. CASE Answered(c) /\ detail' = RenderScenario(detail, c.answer)
      <3> DEFINE a == c.answer
      <3>1. a.brick = c.brick /\ a.scenario = scenario[c.brick]
        BY <2>1, <2>3 DEF PaneRight, PaneKinds, Told, Succeeded, Answered
      <3>2. c.brick = selected /\ c.brick \in Bricks
        BY <1>1, <2>1 DEF Alone, BrickKinds, Good, RightRequest
      <3>3. detail' = RenderScenario(detail, a)
        BY <2>3
      <3> HIDE DEF a
      <3>4. /\ detail'.brick = detail.brick /\ detail'.form = a.scenario
            /\ detail'.pill = detail.pill /\ detail'.chips = detail.chips
        BY <3>3, PaneFields
      <3>5. scenario[selected][1] = selected
        BY <3>2 DEF PaneRight, ScenariosOwn
      <3>6. Shown => Shown'
        BY <2>1, <2>2, <3>1, <3>2, <3>4, <3>5
        DEF Shown, ReviewShown, ScenarioShown, TagsShown
      <3> QED
        BY <1>3, <2>1, <3>4, <3>6
    <2>4. CASE errors' = errors \cup {"scenario"} /\ UNCHANGED detail
      <3>1. Shown => Shown'
        BY <2>1, <2>2, <2>4 DEF Shown, ReviewShown, ScenarioShown, TagsShown
      <3> QED
        BY <1>3, <2>1, <2>4, <3>1
    <2> QED
      BY <1>5, <2>3, <2>4 DEF ScenarioAnswered
  <1>6. CASE TagAnswered(c)
    <2>1. /\ c.kind \in TagKinds /\ End(c) /\ UNCHANGED <<selected, review, scenario, tags>>
          /\ UNCHANGED busy /\ errors \subseteq errors'
      BY <1>6 DEF TagAnswered, place, server
    <2>2. c.kind # "detail" /\ c.kind \in PaneKinds
      BY <2>1 DEF TagKinds, PaneKinds
    <2>3. CASE Answered(c) /\ detail' = RenderTags(detail, c.answer)
      <3> DEFINE a == c.answer
      <3>1. a.brick = c.brick /\ a.tags = tags[c.brick]
        BY <2>1, <2>2, <2>3 DEF PaneRight, Told, Succeeded, Answered
      <3>2. c.brick = selected
        BY <2>1 DEF Alone, BrickKinds, TagKinds
      <3>3. detail' = RenderTags(detail, a)
        BY <2>3
      <3> HIDE DEF a
      <3>4. /\ detail'.brick = detail.brick /\ detail'.form = detail.form
            /\ detail'.pill = detail.pill /\ detail'.chips = <<a.brick, a.tags>>
        BY <3>3, PaneFields
      <3>5. Shown => Shown'
        BY <2>1, <3>1, <3>2, <3>4 DEF Shown, ReviewShown, ScenarioShown, TagsShown
      <3> QED
        BY <1>3, <2>1, <2>2, <3>4, <3>5
    <2>4. CASE errors' = errors \cup {"tags"} /\ UNCHANGED detail
      <3>1. Shown => Shown'
        BY <2>1, <2>4 DEF Shown, ReviewShown, ScenarioShown, TagsShown
      <3> QED
        BY <1>3, <2>1, <2>2, <2>4, <3>1
    <2> QED
      BY <1>6, <2>3, <2>4 DEF TagAnswered
  <1>7. ASSUME c.kind \notin PaneKinds, UNCHANGED <<selected, review, scenario, tags, detail>>,
               SignsKept,
               \/ calls' = calls \ {c}
               \/ \E d : calls' = (calls \ {c}) \cup {d} /\ d.kind \notin PaneKinds
        PROVE  PaneRight'
    <2>1. {e \in calls' : e.kind \in PaneKinds} = {e \in calls : e.kind \in PaneKinds}
      BY <1>7
    <2> QED
      BY <1>7, <2>1, PaneKept DEF FieldsKept
  <1>8. CASE RunAnswered(c)
    <2> DEFINE t == c.answer.trace
               k == "run poll"
    <2>1. Resend(c, k, t, 1) /\ k \notin PaneKinds
      BY <1>8 DEF RunAnswered, PaneKinds, TagKinds
    <2> HIDE DEF t, k
    <2>2. \E d : calls' = (calls \ {c}) \cup {d} /\ d.kind \notin PaneKinds
      BY <1>1, <2>1, Resent
    <2> QED
      BY <1>7, <1>8, <2>2 DEF RunAnswered, server, SignsKept, PaneKinds, TagKinds
  <1>9. CASE RunFailed(c)
    BY <1>7, <1>9 DEF RunFailed, server, place, End, SignsKept, PaneKinds, TagKinds
  <1>10. c.kind \in Polls => c.kind \notin PaneKinds
    BY DEF Polls, PaneKinds, TagKinds
  <1>11. ASSUME c.kind \in Polls, NEW r, EndPolls(c, r),
                UNCHANGED <<selected, review, scenario, tags, detail, errors>>
         PROVE  PaneRight'
    BY <1>7, <1>10, <1>11 DEF EndPolls, End, SignsKept
  <1>12. CASE PollAnswered(c)
    BY <1>11, <1>12 DEF PollAnswered, server, place
  <1>13. CASE PollMissed(c)
    <2>1. \E d : calls' = (calls \ {c}) \cup {d} /\ d.kind = c.kind
      BY <1>1, <1>13, FallenAsleep
    <2>2. \E d : calls' = (calls \ {c}) \cup {d} /\ d.kind \notin PaneKinds
      BY <1>10, <1>13, <2>1 DEF PollMissed
    <2> QED
      BY <1>7, <1>10, <1>13, <2>2 DEF PollMissed, server, place, SignsKept
  <1>14. CASE Wake(c)
    <2>1. c.kind \in Polls
      BY <1>1, <1>14 DEF Wake
    <2>2. UNCHANGED <<selected, review, scenario, tags, detail, errors>>
      BY <1>14 DEF Wake, server, place
    <2>3. CASE Resend(c, c.kind, c.arg, c.attempt + 1) /\ UNCHANGED busy
      <3>1. \E d : calls' = (calls \ {c}) \cup {d} /\ d.kind = c.kind
        BY <1>1, <2>3, Resent
      <3>2. \E d : calls' = (calls \ {c}) \cup {d} /\ d.kind \notin PaneKinds
        BY <1>10, <2>1, <3>1
      <3> QED
        BY <1>7, <1>10, <2>1, <2>2, <2>3, <3>2 DEF SignsKept
    <2> QED
      BY <1>11, <1>14, <2>1, <2>2, <2>3 DEF Wake
  <1>15. CASE ListAnswered(c) /\ hash # None
    <2>1. PICK d, r : /\ calls' = (calls \ {c}) \cup {d, r}
                      /\ d.kind = "gaps" /\ r.kind = "detail" /\ r.at = "sent"
      BY <1>1, <1>15, Listed
    <2>2. \A e \in calls : e.kind \notin BrickKinds
      BY <1>15 DEF ListAnswered, InFlight
    <2>3. \A e \in calls' : e.kind \in PaneKinds => e = r
      BY <2>1, <2>2 DEF BrickKinds, PaneKinds, TagKinds
    <2>4. UNCHANGED scenario
      BY <1>15 DEF ListAnswered, server
    <2> QED
      BY <2>1, <2>3, <2>4, PaneChosen
  <1>16. CASE ListAnswered(c) /\ hash = None
    <2>1. \E d : calls' = (calls \ {c}) \cup {d} /\ d.kind \notin PaneKinds
      BY <1>1, <1>16, ListedOnly DEF PaneKinds, TagKinds
    <2> QED
      BY <1>7, <1>16, <2>1 DEF ListAnswered, server, SignsKept, PaneKinds, TagKinds
  <1>17. CASE GapsAnswered(c)
    <2>1. PICK d : calls' = (calls \ {c}) \cup {d} /\ d.kind = "summary"
      BY <1>1, <1>17, Resent DEF GapsAnswered
    <2>2. \E e : calls' = (calls \ {c}) \cup {e} /\ e.kind \notin PaneKinds
      BY <2>1 DEF PaneKinds, TagKinds
    <2> QED
      BY <1>7, <1>17, <2>2 DEF GapsAnswered, server, place, SignsKept, PaneKinds, TagKinds
  <1>18. CASE ListFailed(c) \/ SummaryAnswered(c)
    BY <1>7, <1>18
    DEF ListFailed, SummaryAnswered, server, place, End, SignsKept, PaneKinds, TagKinds
  <1>19. CASE EditAnswered(c)
    BY <1>7, <1>19 DEF EditAnswered, server, place, End, SignsKept, PaneKinds, TagKinds
  <1> QED
    BY <1>2, <1>4, <1>5, <1>6, <1>8, <1>9, <1>12, <1>13, <1>14, <1>15, <1>16, <1>17, <1>18, <1>19
    DEF Continue

\* A change of the address keeps it too.
LEMMA PaneOfHash ==
    ASSUME Inv, PaneRight, ~hasty, ~hasty', HandleHashChange
    PROVE  PaneRight'
  <1>1. CASE hash \notin {None, selected}
    <2>1. PICK r : calls' = calls \cup {r} /\ r.kind = "detail" /\ r.at = "sent"
      BY <1>1, Sent DEF HandleHashChange
    <2>2. \A c \in calls : c.kind \notin BrickKinds
      BY <1>1 DEF HandleHashChange, InFlight
    <2>3. \A c \in calls' : c.kind \in PaneKinds => c = r
      BY <2>1, <2>2 DEF BrickKinds, PaneKinds, TagKinds
    <2>4. UNCHANGED scenario
      BY DEF HandleHashChange, server
    <2> QED
      BY <2>1, <2>3, <2>4, PaneChosen
  <1>2. CASE hash \in {None, selected}
    <2>1. UNCHANGED <<calls, selected, review, scenario, tags, detail, busy, errors>>
      BY <1>2 DEF HandleHashChange, server
    <2> QED
      BY <2>1, PaneKept DEF FieldsKept, SignsKept
  <1> QED
    BY <1>1, <1>2

\* PaneRight is inductive, of a user who waits.
LEMMA PaneStep ==
    ASSUME Inv, Controls, ~hasty => Alone, ~hasty => PaneRight, [Next]_vars
    PROVE  (~hasty => PaneRight)'
  <1> SUFFICES ASSUME ~hasty' PROVE PaneRight'
    OBVIOUS
  <1>1. ~hasty /\ Alone /\ PaneRight
    BY HastyStays
  <1>2. CASE User
    BY <1>1, <1>2, PaneOfUser
  <1>3. CASE HandleHashChange
    BY <1>1, <1>3, PaneOfHash
  <1>4. ASSUME NEW c \in calls, Handle(c) PROVE PaneRight'
    BY <1>1, <1>4, PaneOfServer
  <1>5. ASSUME NEW c \in calls, Continue(c) PROVE PaneRight'
    BY <1>1, <1>5, PaneOfHandler
  <1>6. CASE UNCHANGED <<calls, selected, review, scenario, tags, detail, busy, errors>>
    BY <1>1, <1>6, PaneKept DEF FieldsKept, SignsKept
  <1> QED
    BY <1>2, <1>3, <1>4, <1>5, <1>6 DEF Next, Network, Drain, Rest, vars, place, server

\* PaneRight holds always, of a user who waits.
LEMMA PaneAlways == Spec => [](~hasty => PaneRight)
  <1>1. Init => (~hasty => PaneRight)
    <2> SUFFICES ASSUME Init PROVE PaneRight
      OBVIOUS
    <2> DEFINE c == [id |-> 1, kind |-> "list", brick |-> None, arg |-> None, at |-> "sent",
                     answer |-> None, attempt |-> 0]
    <2>1. calls = {c} /\ c.kind \notin PaneKinds
      BY DEF Init, PaneKinds, TagKinds
    <2>2. detail.brick = None /\ scenario = [b \in Bricks |-> <<b, 0>>]
      BY DEF Init
    <2> HIDE DEF c
    <2> QED
      BY <2>1, <2>2 DEF PaneRight, ScenariosOwn
  <1> QED
    BY <1>1, PaneStep, Invariant, ControlsAlways, OneAtATime, PTL DEF Spec

(* Of a user who waits, the pane shows the selected brick as the server has   *)
(* it, or a sign says that it may not: a control still disabled, or an error. *)
(* Whichever of the writes is refused or lost, the pane never claims a value  *)
(* the server does not have.                                                  *)
THEOREM PanelStays == Spec => []PanelOfSelected
  BY PaneAlways, PaneForm, PTL

(* Of a user who waits, no scenario is stored with another brick than the one *)
(* it was read from or typed for, though form and selectedBrickId are read    *)
(* separately.                                                                *)
THEOREM ScenariosStay == Spec => []ScenariosOwn
  BY PaneAlways, PaneForm, PTL

=============================================================================
