------------------------- MODULE NanobarPageProofs -------------------------
(***************************************************************************)
(* What holds of the nanobar page for every number of bricks, of handlers,  *)
(* of polls and of replays, and for every user: its variables have their    *)
(* types, its controls are disabled exactly while their request is on its   *)
(* way, and the verdict in the Run tab is that of the trace Refresh asks    *)
(* for.                                                                     *)
(***************************************************************************)
EXTENDS NanobarPage, TLAPS

(* Calls says what the fields of any request may hold; which of it a request *)
(* of one kind does hold, its handlers rely on.                              *)
RightRequest(c) ==
    /\ c.kind \in BrickKinds => c.brick \in Bricks
    /\ c.kind = "review" => c.arg \in Statuses
    /\ c.kind = "scenario" => c.arg \in Texts
    /\ c.kind \in TagKinds => c.arg \in Tags
    /\ c.kind = "edit" => c.arg \in Labels
    /\ c.kind \in Polls => c.arg \in Traces

RightAnswer(c) ==
    /\ c.answer \in Answers
    /\ c.kind \in {"detail", "review", "scenario"} \cup TagKinds => c.answer.brick \in Bricks
    /\ c.kind \in {"detail", "review"} => c.answer.review \in Statuses
    /\ c.kind \in {"detail", "scenario"} => c.answer.scenario \in Texts
    /\ c.kind \in {"detail"} \cup TagKinds => c.answer.tags \in SUBSET Tags
    /\ c.kind \in {"run"} \cup Polls => c.answer.trace \in Traces
    /\ c.kind = "edit" => c.answer.label \in Labels

Good(c) ==
    /\ c \in Calls
    /\ RightRequest(c)
    /\ c.at = "handled" /\ c.answer # Refused => RightAnswer(c)
    /\ c.at = "asleep" => c.kind \in Polls

CallsGood == \A c \in calls : Good(c)
Waiting   == \E c \in calls : c.kind = "detail"

(* A pane that shows a brick, or waits for one, has a selected brick and, to *)
(* be submitted, a text.                                                     *)
Pane ==
    /\ detail.brick # None => selected \in Bricks /\ detail.form \in Texts
    /\ Waiting => selected \in Bricks

(* The inductive invariant *)
Inv ==
    /\ TypeOK
    /\ Pane
    /\ CallsGood

---------------------------------------------------------------------------
(* Requests keep their types on their way from one handler to another. *)

LEMMA IdType == Free => Id \in Ids /\ \A c \in calls : c.id # Id
  BY DEF Free, Id

\* A request that is made is a good one.
LEMMA RequestGood ==
    ASSUME Free, NEW kind \in Kinds, NEW brick \in Bricks \cup {None},
           NEW arg \in Statuses \cup Texts \cup Tags \cup Labels \cup Traces \cup {None},
           NEW attempt \in 0..Attempts,
           RightRequest(Request(kind, brick, arg, attempt))
    PROVE  Good(Request(kind, brick, arg, attempt))
  <1>1. Id \in Ids
    BY IdType
  <1>2. Request(kind, brick, arg, attempt) \in Calls
    BY <1>1 DEF Request, Calls
  <1>3. Request(kind, brick, arg, attempt).at = "sent"
    BY DEF Request
  <1> QED
    BY <1>2, <1>3 DEF Good

\* An answer of the right kind leaves the request good.
LEMMA ReplyGood ==
    ASSUME NEW c, Good(c), NEW a \in Answers,
           RightAnswer([c EXCEPT !.at = "handled", !.answer = a])
    PROVE  Good([c EXCEPT !.at = "handled", !.answer = a])
  <1> DEFINE d == [c EXCEPT !.at = "handled", !.answer = a]
  <1>1. c \in Calls /\ RightRequest(c)
    BY DEF Good
  <1>2. d \in Calls
    BY <1>1 DEF Calls
  <1>3. d.kind = c.kind /\ d.brick = c.brick /\ d.arg = c.arg /\ d.at = "handled"
    BY <1>1 DEF Calls
  <1>4. RightRequest(d)
    BY <1>1, <1>3 DEF RightRequest
  <1> QED
    BY <1>2, <1>3, <1>4 DEF Good

\* So does a refusal.
LEMMA RefusedGood ==
    ASSUME NEW c, Good(c)
    PROVE  Good([c EXCEPT !.at = "handled", !.answer = Refused])
  <1> DEFINE d == [c EXCEPT !.at = "handled", !.answer = Refused]
  <1>1. c \in Calls /\ RightRequest(c)
    BY DEF Good
  <1>2. d \in Calls /\ d.answer = Refused
    BY <1>1 DEF Calls
  <1>3. d.kind = c.kind /\ d.brick = c.brick /\ d.arg = c.arg /\ d.at = "handled"
    BY <1>1 DEF Calls
  <1>4. RightRequest(d)
    BY <1>1, <1>3 DEF RightRequest
  <1> QED
    BY <1>2, <1>3, <1>4 DEF Good

\* A request that a handler sends after an answer is a good one.
LEMMA ResendGood ==
    ASSUME NEW c, Good(c), NEW kind \in Kinds,
           NEW arg \in Statuses \cup Texts \cup Tags \cup Labels \cup Traces \cup {None},
           NEW attempt \in 0..Attempts,
           RightRequest([c EXCEPT !.kind = kind, !.arg = arg, !.at = "sent",
                                  !.answer = None, !.attempt = attempt])
    PROVE  Good([c EXCEPT !.kind = kind, !.arg = arg, !.at = "sent",
                          !.answer = None, !.attempt = attempt])
  <1> DEFINE d == [c EXCEPT !.kind = kind, !.arg = arg, !.at = "sent",
                            !.answer = None, !.attempt = attempt]
  <1>1. c \in Calls
    BY DEF Good
  <1>2. d \in Calls
    BY <1>1 DEF Calls
  <1>3. d.at = "sent"
    BY <1>1 DEF Calls
  <1> QED
    BY <1>2, <1>3 DEF Good

---------------------------------------------------------------------------
(* ... and so do the calls of the page, whatever is done with one of them.   *)

LEMMA SendKeeps ==
    ASSUME CallsGood, NEW kind \in Kinds, NEW brick \in Bricks \cup {None},
           NEW arg \in Statuses \cup Texts \cup Tags \cup Labels \cup Traces \cup {None},
           NEW attempt \in 0..Attempts,
           Send(kind, brick, arg, attempt),
           RightRequest(Request(kind, brick, arg, attempt))
    PROVE  CallsGood' /\ (Waiting' => Waiting \/ kind = "detail")
  <1>1. Good(Request(kind, brick, arg, attempt))
    BY RequestGood DEF Send
  <1>2. Request(kind, brick, arg, attempt).kind = kind
    BY DEF Request
  <1> QED
    BY <1>1, <1>2 DEF CallsGood, Waiting, Send

\* A handler that ends leaves the other requests good.
LEMMA EndKeeps ==
    ASSUME CallsGood, NEW c, End(c)
    PROVE  CallsGood' /\ (Waiting' => Waiting)
  BY DEF CallsGood, Waiting, End

\* An answer leaves all requests good.
LEMMA ReplyKeeps ==
    ASSUME CallsGood, NEW c \in calls, NEW a \in Answers, Reply(c, a),
           RightAnswer([c EXCEPT !.at = "handled", !.answer = a])
    PROVE  CallsGood' /\ (Waiting' => Waiting)
  <1> DEFINE d == [c EXCEPT !.at = "handled", !.answer = a]
  <1>1. Good(c) /\ c \in Calls
    BY DEF CallsGood, Good
  <1>2. Good(d)
    BY <1>1, ReplyGood
  <1>3. d.kind = c.kind
    BY <1>1 DEF Calls
  <1> QED
    BY <1>2, <1>3 DEF CallsGood, Waiting, Reply

\* A refusal leaves all requests good.
LEMMA RefusalKeeps ==
    ASSUME CallsGood, NEW c \in calls, Reply(c, Refused)
    PROVE  CallsGood' /\ (Waiting' => Waiting)
  <1> DEFINE d == [c EXCEPT !.at = "handled", !.answer = Refused]
  <1>1. Good(c) /\ c \in Calls
    BY DEF CallsGood, Good
  <1>2. Good(d)
    BY <1>1, RefusedGood
  <1>3. d.kind = c.kind
    BY <1>1 DEF Calls
  <1> QED
    BY <1>2, <1>3 DEF CallsGood, Waiting, Reply

(* The fields of a reply to c *)
LEMMA ReplyFields ==
    ASSUME NEW c \in Calls, NEW a
    PROVE  /\ [c EXCEPT !.at = "handled", !.answer = a].kind = c.kind
           /\ [c EXCEPT !.at = "handled", !.answer = a].answer = a
  BY DEF Calls

\* A request sent after an answer leaves all requests good.
LEMMA ResendKeeps ==
    ASSUME CallsGood, NEW c \in calls, NEW kind \in Kinds \ {"detail"},
           NEW arg \in Statuses \cup Texts \cup Tags \cup Labels \cup Traces \cup {None},
           NEW attempt \in 0..Attempts,
           Resend(c, kind, arg, attempt),
           kind \in BrickKinds => c.brick \in Bricks,
           kind \in Polls \/ kind \in {"gaps", "summary"},
           kind \in Polls => arg \in Traces
    PROVE  CallsGood' /\ (Waiting' => Waiting)
  <1> DEFINE d == [c EXCEPT !.kind = kind, !.arg = arg, !.at = "sent",
                            !.answer = None, !.attempt = attempt]
  <1>1. Good(c) /\ c \in Calls
    BY DEF CallsGood, Good
  <1>2. d.kind = kind /\ d.arg = arg /\ d.brick = c.brick
    BY <1>1 DEF Calls
  <1>3. RightRequest(d)
    BY <1>2 DEF RightRequest, BrickKinds, TagKinds, Polls
  <1>4. Good(d)
    BY <1>1, <1>3, ResendGood
  <1> QED
    BY <1>2, <1>4 DEF CallsGood, Waiting, Resend

---------------------------------------------------------------------------
(* The pane and its Run tab keep their types, whatever is rendered into them. *)

LEMMA DetailTypes ==
    ASSUME NEW d \in Details
    PROVE  /\ \A t \in {"detail", "run"} :
                  ShowTab(d, t) \in Details /\ ShowTab(d, t).brick = d.brick
                                            /\ ShowTab(d, t).form = d.form
           /\ ShowDetailEmpty(d) \in Details /\ ShowDetailEmpty(d).brick = None
           /\ \A a : a.brick \in Bricks /\ a.review \in Statuses =>
                  RenderReview(d, a) \in Details /\ RenderReview(d, a).brick = d.brick
                                                 /\ RenderReview(d, a).form = d.form
           /\ \A a : a.scenario \in Texts =>
                  RenderScenario(d, a) \in Details /\ RenderScenario(d, a).brick = d.brick
                                                   /\ RenderScenario(d, a).form = a.scenario
           /\ \A a : a.brick \in Bricks /\ a.tags \in SUBSET Tags =>
                  RenderTags(d, a) \in Details /\ RenderTags(d, a).brick = d.brick
                                               /\ RenderTags(d, a).form = d.form
  <1>1. \A t \in {"detail", "run"} :
            /\ ShowTab(d, t) \in Details /\ ShowTab(d, t).brick = d.brick
            /\ ShowTab(d, t).form = d.form
    BY DEF Details, ShowTab
  <1>2. ShowDetailEmpty(d) \in Details /\ ShowDetailEmpty(d).brick = None
    BY DEF Details, ShowDetailEmpty
  <1>3. \A a : a.brick \in Bricks /\ a.review \in Statuses =>
            RenderReview(d, a) \in Details /\ RenderReview(d, a).brick = d.brick
                                           /\ RenderReview(d, a).form = d.form
    BY DEF Details, RenderReview, Owned
  <1>4. \A a : a.scenario \in Texts =>
            RenderScenario(d, a) \in Details /\ RenderScenario(d, a).brick = d.brick
                                             /\ RenderScenario(d, a).form = a.scenario
    BY DEF Details, RenderScenario
  <1>5. \A a : a.brick \in Bricks /\ a.tags \in SUBSET Tags =>
            RenderTags(d, a) \in Details /\ RenderTags(d, a).brick = d.brick
                                         /\ RenderTags(d, a).form = d.form
    BY DEF Details, RenderTags, Owned
  <1> QED
    BY <1>1, <1>2, <1>3, <1>4, <1>5

\* A pane that is filled from a good answer is a pane.
LEMMA RenderDetailType ==
    ASSUME NEW d \in Details, NEW a, a.brick \in Bricks, a.review \in Statuses,
           a.scenario \in Texts, a.tags \in SUBSET Tags
    PROVE  RenderDetail(d, a) \in Details /\ RenderDetail(d, a).form \in Texts
  <1> DEFINE d1 == [d EXCEPT !.brick = a.brick]
  <1>1. d1 \in Details
    BY DEF Details
  <1>2. RenderReview(d1, a) \in Details
    BY <1>1, DetailTypes
  <1>3. RenderScenario(RenderReview(d1, a), a) \in Details
        /\ RenderScenario(RenderReview(d1, a), a).form = a.scenario
    BY <1>2, DetailTypes
  <1> HIDE DEF d1
  <1>4. RenderTags(RenderScenario(RenderReview(d1, a), a), a) \in Details
        /\ RenderTags(RenderScenario(RenderReview(d1, a), a), a).form = a.scenario
    BY <1>3, DetailTypes
  <1> QED
    BY <1>4 DEF RenderDetail, d1

\* What each function of the Run tab leaves of its type, its verdict and its sign of progress.
LEMMA RunTypes ==
    ASSUME NEW r \in Runs
    PROVE  /\ ResetRunTab(r) \in Runs /\ ResetRunTab(r).verdict = None
                                      /\ ResetRunTab(r).progress = r.progress
           /\ \A t \in Traces : RenderVerdict(r, t) \in Runs /\ RenderVerdict(r, t).verdict = t
           /\ \A t \in Traces : RenderRunSpans(r, t) \in Runs
                                /\ RenderRunSpans(r, t).verdict = r.verdict
           /\ \A m \in {"hidden", "running", "waiting", "error"} :
                 Message(r, m) \in Runs /\ Message(r, m).verdict = r.verdict
                                        /\ Message(r, m).progress = r.progress
           /\ \A on \in BOOLEAN : Progress(r, on) \in Runs /\ Progress(r, on).verdict = r.verdict
                                                          /\ Progress(r, on).progress = on
           /\ PollsBegin(r) \in Runs /\ PollsBegin(r).verdict = r.verdict
           /\ PollsEnd(r) \in Runs /\ PollsEnd(r).verdict = r.verdict
                                   /\ PollsEnd(r).progress = FALSE
  <1>1. ResetRunTab(r) \in Runs /\ ResetRunTab(r).verdict = None
                                /\ ResetRunTab(r).progress = r.progress
    BY DEF Runs, ResetRunTab
  <1>2. \A t \in Traces : RenderVerdict(r, t) \in Runs /\ RenderVerdict(r, t).verdict = t
    BY DEF Runs, RenderVerdict
  <1>3. \A t \in Traces : RenderRunSpans(r, t) \in Runs /\ RenderRunSpans(r, t).verdict = r.verdict
    BY DEF Runs, RenderRunSpans
  <1>4. \A m \in {"hidden", "running", "waiting", "error"} :
            Message(r, m) \in Runs /\ Message(r, m).verdict = r.verdict
                                   /\ Message(r, m).progress = r.progress
    BY DEF Runs, Message
  <1>5. \A on \in BOOLEAN : Progress(r, on) \in Runs /\ Progress(r, on).verdict = r.verdict
                                                    /\ Progress(r, on).progress = on
    BY DEF Runs, Progress
  <1>6. PollsBegin(r) \in Runs /\ PollsBegin(r).verdict = r.verdict
    BY DEF Runs, PollsBegin, Progress
  <1>7. PollsEnd(r) \in Runs /\ PollsEnd(r).verdict = r.verdict /\ PollsEnd(r).progress = FALSE
    BY DEF Runs, PollsEnd, Progress
  <1> QED
    BY <1>1, <1>2, <1>3, <1>4, <1>5, <1>6, <1>7

---------------------------------------------------------------------------
(* Types are invariant *)

LEMMA InitInv == Init => Inv
  <1> SUFFICES ASSUME Init PROVE Inv
    OBVIOUS
  <1> USE NanobarPageAssumption
  <1>1. CallsGood /\ ~Waiting
    <2> DEFINE c == [id |-> 1, kind |-> "list", brick |-> None, arg |-> None, at |-> "sent",
                     answer |-> None, attempt |-> 0]
    <2>1. calls = {c}
      BY DEF Init
    <2>2. 1 \in Ids
      BY DEF Ids
    <2>3. c \in Calls
      BY <2>2 DEF Calls, Kinds
    <2>4. RightRequest(c)
      BY DEF RightRequest, BrickKinds, TagKinds, Polls
    <2> QED
      BY <2>1, <2>3, <2>4 DEF CallsGood, Waiting, Good
  <1>2. calls \subseteq Calls
    BY <1>1 DEF CallsGood, Good
  <1>3. detail \in Details /\ run \in Runs
    BY DEF Init, Details, Runs, Owned
  <1>4. /\ review \in [Bricks -> Statuses] /\ label \in Labels
        /\ scenario \in [Bricks -> Texts]
        /\ tags \in [Bricks -> SUBSET Tags]
    BY DEF Init, Texts
  <1>5. TypeOK
    <2>1. MaxReplays \in Nat /\ MaxActs \in Nat
      BY NanobarPageAssumption
    <2>2. replays = 0 /\ hashEvents = 0 /\ acts = 0 /\ hasty = FALSE
      BY DEF Init
    <2>3. replays \in 0..MaxReplays /\ acts \in 0..MaxActs /\ hashEvents \in Nat
      BY <2>1, <2>2
    <2>4. /\ queued = {} /\ drained = {} /\ busy = {} /\ errors = {}
          /\ status = "loading" /\ gaps = "hidden" /\ editForm = None
          /\ selected = None /\ trace = None /\ hash \in Bricks \cup {None}
      BY DEF Init
    <2> QED
      BY <1>2, <1>3, <1>4, <2>2, <2>3, <2>4 DEF TypeOK
  <1>6. Pane
    BY <1>1 DEF Pane, Init
  <1> QED
    BY <1>1, <1>5, <1>6 DEF Inv

\* When no request comes or goes, all stay good.
LEMMA SameCalls ==
    ASSUME CallsGood, UNCHANGED calls
    PROVE  CallsGood' /\ (Waiting' => Waiting)
  BY DEF CallsGood, Waiting

(* The parts of TypeOK *)
ServerTypes ==
    /\ review \in [Bricks -> Statuses] /\ scenario \in [Bricks -> Texts]
    /\ tags \in [Bricks -> SUBSET Tags] /\ label \in Labels
    /\ replays \in 0..MaxReplays /\ queued \subseteq Traces /\ drained \subseteq Traces
FrameTypes ==
    /\ status \in {"loading", "shown", "not found", "unreached"}
    /\ gaps \in {"hidden", "loading", "told"}
    /\ editForm \in Labels \cup {None}
PlaceTypes ==
    /\ selected \in Bricks \cup {None} /\ trace \in Traces \cup {None}
    /\ hash \in Bricks \cup {None} /\ hashEvents \in Nat
ControlTypes ==
    /\ busy \subseteq Buttons /\ errors \subseteq Buttons \cup {"tags"}
    /\ acts \in 0..MaxActs /\ hasty \in BOOLEAN

\* The type invariant, by parts.
LEMMA TypeParts ==
    CallsGood => (TypeOK <=> /\ ServerTypes /\ FrameTypes /\ PlaceTypes /\ ControlTypes
                             /\ detail \in Details /\ run \in Runs)
  BY DEF CallsGood, Good, TypeOK, ServerTypes, FrameTypes, PlaceTypes, ControlTypes

\* The inductive invariant, by parts.
LEMMA InvParts ==
    Inv <=> /\ CallsGood /\ Pane /\ ServerTypes /\ FrameTypes /\ PlaceTypes /\ ControlTypes
            /\ detail \in Details /\ run \in Runs
  BY TypeParts DEF Inv

\* The inductive invariant of the next state, from its parts.
LEMMA InvPartsNext ==
    ASSUME CallsGood', Pane', ServerTypes', FrameTypes', PlaceTypes', ControlTypes',
           (detail \in Details)', (run \in Runs)'
    PROVE  Inv'
  BY InvParts, PTL

(* What the user does, and what it counts for *)
LEMMA ActTypes ==
    ASSUME ControlTypes, NEW K, Act(K)
    PROVE  acts' \in 0..MaxActs /\ hasty' \in BOOLEAN
  <1>1. MaxActs \in Nat
    BY NanobarPageAssumption
  <1> QED
    BY <1>1 DEF Act, ControlTypes

\* Selecting a brick empties the pane's Run tab and keeps its form.
LEMMA ChooseTypes ==
    ASSUME NEW b \in Bricks, detail \in Details, run \in Runs, Choose(b)
    PROVE  /\ selected' = b /\ trace' = None
           /\ detail' \in Details /\ detail'.brick = detail.brick /\ detail'.form = detail.form
           /\ run' \in Runs /\ run'.verdict = None /\ run'.progress = run.progress
  BY DetailTypes, RunTypes DEF Choose

\* The address names a brick or none.
LEMMA SetHashTypes ==
    ASSUME NEW b \in Bricks, PlaceTypes, SetHash(b)
    PROVE  hash' \in Bricks \cup {None} /\ hashEvents' \in Nat
  BY DEF SetHash, PlaceTypes

(* One lemma for each action, with its calls first, then what it does to the *)
(* pane, to the Run tab and to the address.                                  *)

LEMMA AttemptRange == 0 \in 0..Attempts /\ 1 \in 0..Attempts
  BY NanobarPageAssumption

\* SelectBrick keeps the inductive invariant.
LEMMA SelectBrickInv ==
    ASSUME Inv, NEW b \in Bricks, SelectBrick(b)
    PROVE  Inv'
  <1> USE InvParts
  <1>1. CallsGood'
    <2>1. b \in Bricks \cup {None} /\ 0 \in 0..Attempts
      BY AttemptRange DEF PlaceTypes
    <2>2. RightRequest(Request("detail", b, None, 0))
      BY DEF RightRequest, Request, BrickKinds, TagKinds, Polls, SelectBrick
    <2>3. "detail" \in Kinds /\ Send("detail", b, None, 0)
      BY DEF Kinds, SelectBrick
    <2>4. None \in Statuses \cup Texts \cup Tags \cup Labels \cup Traces \cup {None}
      BY DEF SelectBrick
    <2> QED
      BY <2>1, <2>2, <2>3, <2>4, SendKeeps
  <1>2. acts' \in 0..MaxActs /\ hasty' \in BOOLEAN
    BY ActTypes DEF SelectBrick
  <1>3. /\ selected' = b /\ trace' = None
        /\ detail' \in Details /\ detail'.brick = detail.brick /\ detail'.form = detail.form
        /\ run' \in Runs
    BY ChooseTypes DEF SelectBrick
  <1>4. hash' \in Bricks \cup {None} /\ hashEvents' \in Nat
    BY SetHashTypes DEF SelectBrick
  <1>5. Pane'
    BY <1>1, <1>2, <1>3, <1>4 DEF Pane, SelectBrick, server, stored, loading, place, history
  <1>6. ServerTypes' /\ FrameTypes'
    BY <1>1, <1>2, <1>3, <1>4
    DEF ServerTypes, FrameTypes, SelectBrick, server, stored, loading, place, history
  <1>7. PlaceTypes' /\ ControlTypes'
    BY <1>1, <1>2, <1>3, <1>4
    DEF PlaceTypes, ControlTypes, SelectBrick, server, stored, loading, place, history
  <1>8. detail' \in Details /\ run' \in Runs
    BY <1>1, <1>2, <1>3, <1>4 DEF SelectBrick
  <1> QED
    BY <1>1, <1>5, <1>6, <1>7, <1>8, InvPartsNext

\* EditHash keeps the inductive invariant.
LEMMA EditHashInv ==
    ASSUME Inv, NEW b \in Bricks, EditHash(b)
    PROVE  Inv'
  <1> USE InvParts
  <1>1. CallsGood' /\ (Waiting' => Waiting)
    BY SameCalls DEF EditHash
  <1>2. acts' \in 0..MaxActs /\ hasty' \in BOOLEAN
    BY ActTypes DEF EditHash
  <1>3. hash' \in Bricks \cup {None} /\ hashEvents' \in Nat
    BY SetHashTypes DEF EditHash
  <1>4. Pane'
    BY <1>1, <1>2, <1>3 DEF Pane, EditHash, server, stored, loading, place, history
  <1>5. ServerTypes' /\ FrameTypes'
    BY <1>1, <1>2, <1>3
    DEF ServerTypes, FrameTypes, EditHash, server, stored, loading, place, history
  <1>6. PlaceTypes' /\ ControlTypes'
    BY <1>1, <1>2, <1>3
    DEF PlaceTypes, ControlTypes, EditHash, server, stored, loading, place, history
  <1>7. detail' \in Details /\ run' \in Runs
    BY <1>1, <1>2, <1>3 DEF EditHash
  <1> QED
    BY <1>1, <1>4, <1>5, <1>6, <1>7, InvPartsNext

\* ClickTab keeps the inductive invariant.
LEMMA ClickTabInv ==
    ASSUME Inv, NEW t \in {"detail", "run"}, ClickTab(t)
    PROVE  Inv'
  <1> USE InvParts
  <1>1. CallsGood' /\ (Waiting' => Waiting)
    BY SameCalls DEF ClickTab
  <1>2. detail' \in Details /\ detail'.brick = detail.brick /\ detail'.form = detail.form
    BY DetailTypes DEF ClickTab
  <1>3. Pane'
    BY <1>1, <1>2 DEF Pane, ClickTab, server, stored, loading, place, history
  <1>4. ServerTypes' /\ FrameTypes'
    BY <1>1, <1>2 DEF ServerTypes, FrameTypes, ClickTab, server, stored, loading, place, history
  <1>5. PlaceTypes' /\ ControlTypes'
    BY <1>1, <1>2 DEF PlaceTypes, ControlTypes, ClickTab, server, stored, loading, place, history
  <1>6. detail' \in Details /\ run' \in Runs
    BY <1>1, <1>2 DEF ClickTab
  <1> QED
    BY <1>1, <1>3, <1>4, <1>5, <1>6, InvPartsNext

\* HandleReviewStatusClick keeps the inductive invariant.
LEMMA HandleReviewStatusClickInv ==
    ASSUME Inv, NEW x \in Statuses, HandleReviewStatusClick(x)
    PROVE  Inv'
  <1> USE InvParts
  <1>1. CallsGood' /\ (Waiting' => Waiting)
    <2>1. selected \in Bricks \cup {None} /\ 0 \in 0..Attempts
      BY AttemptRange DEF PlaceTypes
    <2>2. RightRequest(Request("review", selected, x, 0))
      BY DEF Pane, DetailTab, RightRequest, Request, BrickKinds, TagKinds, Polls,
         HandleReviewStatusClick
    <2>3. "review" \in Kinds /\ Send("review", selected, x, 0)
      BY DEF Kinds, HandleReviewStatusClick
    <2>4. x \in Statuses \cup Texts \cup Tags \cup Labels \cup Traces \cup {None}
      BY DEF Pane, DetailTab, HandleReviewStatusClick
    <2> QED
      BY <2>1, <2>2, <2>3, <2>4, SendKeeps
  <1>2. acts' \in 0..MaxActs /\ hasty' \in BOOLEAN
    BY ActTypes DEF HandleReviewStatusClick
  <1>3. Pane'
    BY <1>1, <1>2 DEF Pane, HandleReviewStatusClick, server, stored, loading, place, history
  <1>4. ServerTypes' /\ FrameTypes'
    BY <1>1, <1>2
    DEF ServerTypes, FrameTypes, HandleReviewStatusClick, server, stored, loading, place, history
  <1>5. PlaceTypes' /\ ControlTypes'
    BY <1>1, <1>2
    DEF PlaceTypes, ControlTypes, HandleReviewStatusClick, server, stored, loading, place,
        history, Buttons
  <1>6. detail' \in Details /\ run' \in Runs
    BY <1>1, <1>2 DEF HandleReviewStatusClick
  <1> QED
    BY <1>1, <1>3, <1>4, <1>5, <1>6, InvPartsNext

\* TypeScenario keeps the inductive invariant.
LEMMA TypeScenarioInv ==
    ASSUME Inv, TypeScenario
    PROVE  Inv'
  <1> USE InvParts
  <1>1. CallsGood' /\ (Waiting' => Waiting)
    BY SameCalls DEF TypeScenario
  <1>2. acts' \in 0..MaxActs /\ hasty' \in BOOLEAN
    BY ActTypes DEF TypeScenario
  <1>3. detail' \in Details /\ detail'.brick = detail.brick /\ detail'.form \in Texts
    <2>1. <<detail.brick, 1>> \in Texts
      BY DEF Texts, TypeScenario, DetailTab, Details
    <2> QED
      BY <2>1 DEF TypeScenario, Details
  <1>4. Pane'
    BY <1>1, <1>2, <1>3 DEF Pane, TypeScenario, server, stored, loading, place, history
  <1>5. ServerTypes' /\ FrameTypes'
    BY <1>1, <1>2, <1>3
    DEF ServerTypes, FrameTypes, TypeScenario, server, stored, loading, place, history
  <1>6. PlaceTypes' /\ ControlTypes'
    BY <1>1, <1>2, <1>3
    DEF PlaceTypes, ControlTypes, TypeScenario, server, stored, loading, place, history
  <1>7. detail' \in Details /\ run' \in Runs
    BY <1>1, <1>2, <1>3 DEF TypeScenario
  <1> QED
    BY <1>1, <1>4, <1>5, <1>6, <1>7, InvPartsNext

\* HandleScenarioSubmit keeps the inductive invariant.
LEMMA HandleScenarioSubmitInv ==
    ASSUME Inv, HandleScenarioSubmit
    PROVE  Inv'
  <1> USE InvParts
  <1>1. CallsGood' /\ (Waiting' => Waiting)
    <2>1. selected \in Bricks \cup {None} /\ 0 \in 0..Attempts
      BY AttemptRange DEF PlaceTypes
    <2>2. RightRequest(Request("scenario", selected, detail.form, 0))
      BY DEF Pane, DetailTab, RightRequest, Request, BrickKinds, TagKinds, Polls,
         HandleScenarioSubmit
    <2>3. "scenario" \in Kinds /\ Send("scenario", selected, detail.form, 0)
      BY DEF Kinds, HandleScenarioSubmit
    <2>4. detail.form \in Statuses \cup Texts \cup Tags \cup Labels \cup Traces \cup {None}
      BY DEF Pane, DetailTab, HandleScenarioSubmit
    <2> QED
      BY <2>1, <2>2, <2>3, <2>4, SendKeeps
  <1>2. acts' \in 0..MaxActs /\ hasty' \in BOOLEAN
    BY ActTypes DEF HandleScenarioSubmit
  <1>3. Pane'
    BY <1>1, <1>2 DEF Pane, HandleScenarioSubmit, server, stored, loading, place, history
  <1>4. ServerTypes' /\ FrameTypes'
    BY <1>1, <1>2
    DEF ServerTypes, FrameTypes, HandleScenarioSubmit, server, stored, loading, place, history
  <1>5. PlaceTypes' /\ ControlTypes'
    BY <1>1, <1>2
    DEF PlaceTypes, ControlTypes, HandleScenarioSubmit, server, stored, loading, place, history,
        Buttons
  <1>6. detail' \in Details /\ run' \in Runs
    BY <1>1, <1>2 DEF HandleScenarioSubmit
  <1> QED
    BY <1>1, <1>3, <1>4, <1>5, <1>6, InvPartsNext

\* HandleTagAddSubmit keeps the inductive invariant.
LEMMA HandleTagAddSubmitInv ==
    ASSUME Inv, NEW t \in Tags, HandleTagAddSubmit(t)
    PROVE  Inv'
  <1> USE InvParts
  <1>1. CallsGood' /\ (Waiting' => Waiting)
    <2>1. selected \in Bricks \cup {None} /\ 0 \in 0..Attempts
      BY AttemptRange DEF PlaceTypes
    <2>2. RightRequest(Request("add tag", selected, t, 0))
      BY DEF Pane, DetailTab, RightRequest, Request, BrickKinds, TagKinds, Polls,
         HandleTagAddSubmit
    <2>3. "add tag" \in Kinds /\ Send("add tag", selected, t, 0)
      BY DEF Kinds, HandleTagAddSubmit
    <2>4. t \in Statuses \cup Texts \cup Tags \cup Labels \cup Traces \cup {None}
      BY DEF Pane, DetailTab, HandleTagAddSubmit
    <2> QED
      BY <2>1, <2>2, <2>3, <2>4, SendKeeps
  <1>2. acts' \in 0..MaxActs /\ hasty' \in BOOLEAN
    BY ActTypes DEF HandleTagAddSubmit
  <1>3. Pane'
    BY <1>1, <1>2 DEF Pane, HandleTagAddSubmit, server, stored, loading, place, history
  <1>4. ServerTypes' /\ FrameTypes'
    BY <1>1, <1>2
    DEF ServerTypes, FrameTypes, HandleTagAddSubmit, server, stored, loading, place, history
  <1>5. PlaceTypes' /\ ControlTypes'
    BY <1>1, <1>2
    DEF PlaceTypes, ControlTypes, HandleTagAddSubmit, server, stored, loading, place, history,
        Buttons
  <1>6. detail' \in Details /\ run' \in Runs
    BY <1>1, <1>2 DEF HandleTagAddSubmit
  <1> QED
    BY <1>1, <1>3, <1>4, <1>5, <1>6, InvPartsNext

\* HandleTagRemoveClick keeps the inductive invariant.
LEMMA HandleTagRemoveClickInv ==
    ASSUME Inv, NEW t \in Tags, HandleTagRemoveClick(t)
    PROVE  Inv'
  <1> USE InvParts
  <1>1. CallsGood' /\ (Waiting' => Waiting)
    <2>1. selected \in Bricks \cup {None} /\ 0 \in 0..Attempts
      BY AttemptRange DEF PlaceTypes
    <2>2. RightRequest(Request("remove tag", selected, t, 0))
      BY DEF Pane, DetailTab, RightRequest, Request, BrickKinds, TagKinds, Polls,
         HandleTagRemoveClick
    <2>3. "remove tag" \in Kinds /\ Send("remove tag", selected, t, 0)
      BY DEF Kinds, HandleTagRemoveClick
    <2>4. t \in Statuses \cup Texts \cup Tags \cup Labels \cup Traces \cup {None}
      BY DEF Pane, DetailTab, HandleTagRemoveClick
    <2> QED
      BY <2>1, <2>2, <2>3, <2>4, SendKeeps
  <1>2. acts' \in 0..MaxActs /\ hasty' \in BOOLEAN
    BY ActTypes DEF HandleTagRemoveClick
  <1>3. Pane'
    BY <1>1, <1>2 DEF Pane, HandleTagRemoveClick, server, stored, loading, place, history
  <1>4. ServerTypes' /\ FrameTypes'
    BY <1>1, <1>2
    DEF ServerTypes, FrameTypes, HandleTagRemoveClick, server, stored, loading, place, history
  <1>5. PlaceTypes' /\ ControlTypes'
    BY <1>1, <1>2
    DEF PlaceTypes, ControlTypes, HandleTagRemoveClick, server, stored, loading, place, history,
        Buttons
  <1>6. detail' \in Details /\ run' \in Runs
    BY <1>1, <1>2 DEF HandleTagRemoveClick
  <1> QED
    BY <1>1, <1>3, <1>4, <1>5, <1>6, InvPartsNext

\* HandleEmptyTag keeps the inductive invariant.
LEMMA HandleEmptyTagInv ==
    ASSUME Inv, HandleEmptyTag
    PROVE  Inv'
  <1> USE InvParts
  <1>1. CallsGood' /\ (Waiting' => Waiting)
    BY SameCalls DEF HandleEmptyTag
  <1>2. acts' \in 0..MaxActs /\ hasty' \in BOOLEAN
    BY ActTypes DEF HandleEmptyTag
  <1>3. Pane'
    BY <1>1, <1>2 DEF Pane, HandleEmptyTag, server, stored, loading, place, history
  <1>4. ServerTypes' /\ FrameTypes'
    BY <1>1, <1>2
    DEF ServerTypes, FrameTypes, HandleEmptyTag, server, stored, loading, place, history
  <1>5. PlaceTypes' /\ ControlTypes'
    BY <1>1, <1>2
    DEF PlaceTypes, ControlTypes, HandleEmptyTag, server, stored, loading, place, history, Buttons
  <1>6. detail' \in Details /\ run' \in Runs
    BY <1>1, <1>2 DEF HandleEmptyTag
  <1> QED
    BY <1>1, <1>3, <1>4, <1>5, <1>6, InvPartsNext

\* HandleRunClick keeps the inductive invariant.
LEMMA HandleRunClickInv ==
    ASSUME Inv, HandleRunClick
    PROVE  Inv'
  <1> USE InvParts
  <1>1. CallsGood' /\ (Waiting' => Waiting)
    <2>1. selected \in Bricks \cup {None} /\ 0 \in 0..Attempts
      BY AttemptRange DEF PlaceTypes
    <2>2. RightRequest(Request("run", selected, None, 0))
      BY DEF Pane, RunTab, RightRequest, Request, BrickKinds, TagKinds, Polls, HandleRunClick
    <2>3. "run" \in Kinds /\ Send("run", selected, None, 0)
      BY DEF Kinds, HandleRunClick
    <2>4. None \in Statuses \cup Texts \cup Tags \cup Labels \cup Traces \cup {None}
      BY DEF Pane, RunTab, HandleRunClick
    <2> QED
      BY <2>1, <2>2, <2>3, <2>4, SendKeeps
  <1>2. acts' \in 0..MaxActs /\ hasty' \in BOOLEAN
    BY ActTypes DEF HandleRunClick
  <1>3. run' \in Runs
    BY RunTypes DEF HandleRunClick
  <1>4. Pane'
    BY <1>1, <1>2, <1>3 DEF Pane, HandleRunClick, server, stored, loading, place, history
  <1>5. ServerTypes' /\ FrameTypes'
    BY <1>1, <1>2, <1>3
    DEF ServerTypes, FrameTypes, HandleRunClick, server, stored, loading, place, history
  <1>6. PlaceTypes' /\ ControlTypes'
    BY <1>1, <1>2, <1>3
    DEF PlaceTypes, ControlTypes, HandleRunClick, server, stored, loading, place, history, Buttons
  <1>7. detail' \in Details /\ run' \in Runs
    BY <1>1, <1>2, <1>3 DEF HandleRunClick
  <1> QED
    BY <1>1, <1>4, <1>5, <1>6, <1>7, InvPartsNext

\* HandleRefreshClick keeps the inductive invariant.
LEMMA HandleRefreshClickInv ==
    ASSUME Inv, HandleRefreshClick
    PROVE  Inv'
  <1> USE InvParts
  <1>1. CallsGood' /\ (Waiting' => Waiting)
    <2>1. selected \in Bricks \cup {None} /\ 1 \in 0..Attempts
      BY AttemptRange DEF PlaceTypes
    <2>2. RightRequest(Request("poll", selected, trace, 1))
      BY DEF Pane, PlaceTypes, RunTab, RightRequest, Request, BrickKinds, TagKinds, Polls,
         HandleRefreshClick
    <2>3. "poll" \in Kinds /\ Send("poll", selected, trace, 1)
      BY DEF Kinds, Polls, HandleRefreshClick
    <2>4. trace \in Statuses \cup Texts \cup Tags \cup Labels \cup Traces \cup {None}
      BY DEF Pane, PlaceTypes, RunTab, HandleRefreshClick
    <2> QED
      BY <2>1, <2>2, <2>3, <2>4, SendKeeps
  <1>2. acts' \in 0..MaxActs /\ hasty' \in BOOLEAN
    BY ActTypes DEF HandleRefreshClick
  <1>3. run' \in Runs
    BY RunTypes DEF HandleRefreshClick
  <1>4. Pane'
    BY <1>1, <1>2, <1>3 DEF Pane, HandleRefreshClick, server, stored, loading, place, history
  <1>5. ServerTypes' /\ FrameTypes'
    BY <1>1, <1>2, <1>3
    DEF ServerTypes, FrameTypes, HandleRefreshClick, server, stored, loading, place, history
  <1>6. PlaceTypes' /\ ControlTypes'
    BY <1>1, <1>2, <1>3
    DEF PlaceTypes, ControlTypes, HandleRefreshClick, server, stored, loading, place, history,
        Buttons
  <1>7. detail' \in Details /\ run' \in Runs
    BY <1>1, <1>2, <1>3 DEF HandleRefreshClick
  <1> QED
    BY <1>1, <1>4, <1>5, <1>6, <1>7, InvPartsNext

\* TypeEdit keeps the inductive invariant.
LEMMA TypeEditInv ==
    ASSUME Inv, NEW l \in Labels, TypeEdit(l)
    PROVE  Inv'
  <1> USE InvParts
  <1>1. CallsGood' /\ (Waiting' => Waiting)
    BY SameCalls DEF TypeEdit
  <1>2. acts' \in 0..MaxActs /\ hasty' \in BOOLEAN
    BY ActTypes DEF TypeEdit
  <1>3. Pane'
    BY <1>1, <1>2 DEF Pane, TypeEdit, server, stored, loading, place, history
  <1>4. ServerTypes' /\ FrameTypes'
    BY <1>1, <1>2 DEF ServerTypes, FrameTypes, TypeEdit, server, stored, loading, place, history
  <1>5. PlaceTypes' /\ ControlTypes'
    BY <1>1, <1>2 DEF PlaceTypes, ControlTypes, TypeEdit, server, stored, loading, place, history
  <1>6. detail' \in Details /\ run' \in Runs
    BY <1>1, <1>2 DEF TypeEdit
  <1> QED
    BY <1>1, <1>3, <1>4, <1>5, <1>6, InvPartsNext

\* HandleEditSubmit keeps the inductive invariant.
LEMMA HandleEditSubmitInv ==
    ASSUME Inv, HandleEditSubmit
    PROVE  Inv'
  <1> USE InvParts
  <1>1. CallsGood' /\ (Waiting' => Waiting)
    <2>1. None \in Bricks \cup {None} /\ 0 \in 0..Attempts
      BY AttemptRange DEF PlaceTypes
    <2>2. RightRequest(Request("edit", None, editForm, 0))
      BY DEF FrameTypes, RightRequest, Request, BrickKinds, TagKinds, Polls, HandleEditSubmit
    <2>3. "edit" \in Kinds /\ Send("edit", None, editForm, 0)
      BY DEF Kinds, HandleEditSubmit
    <2>4. editForm \in Statuses \cup Texts \cup Tags \cup Labels \cup Traces \cup {None}
      BY DEF FrameTypes, HandleEditSubmit
    <2> QED
      BY <2>1, <2>2, <2>3, <2>4, SendKeeps
  <1>2. acts' \in 0..MaxActs /\ hasty' \in BOOLEAN
    BY ActTypes DEF HandleEditSubmit
  <1>3. Pane'
    BY <1>1, <1>2 DEF Pane, HandleEditSubmit, server, stored, loading, place, history
  <1>4. ServerTypes' /\ FrameTypes'
    BY <1>1, <1>2
    DEF ServerTypes, FrameTypes, HandleEditSubmit, server, stored, loading, place, history
  <1>5. PlaceTypes' /\ ControlTypes'
    BY <1>1, <1>2
    DEF PlaceTypes, ControlTypes, HandleEditSubmit, server, stored, loading, place, history,
        Buttons
  <1>6. detail' \in Details /\ run' \in Runs
    BY <1>1, <1>2 DEF HandleEditSubmit
  <1> QED
    BY <1>1, <1>3, <1>4, <1>5, <1>6, InvPartsNext

(* What the server answers, field by field *)
LEMMA AnswerTypes ==
    /\ NoAnswer \in Answers
    /\ \A a \in Answers, b \in Bricks : [a EXCEPT !.brick = b] \in Answers
    /\ \A a \in Answers, r \in Statuses : [a EXCEPT !.review = r] \in Answers
    /\ \A a \in Answers, s \in Texts : [a EXCEPT !.scenario = s] \in Answers
    /\ \A a \in Answers, T \in SUBSET Tags : [a EXCEPT !.tags = T] \in Answers
    /\ \A a \in Answers, t \in Traces : [a EXCEPT !.trace = t] \in Answers
    /\ \A a \in Answers, l \in Labels : [a EXCEPT !.label = l] \in Answers
  <1>1. NoAnswer \in Answers
    BY DEF NoAnswer, Answers
  <1>2. \A a \in Answers, b \in Bricks : [a EXCEPT !.brick = b] \in Answers
    BY DEF Answers
  <1>3. \A a \in Answers, r \in Statuses : [a EXCEPT !.review = r] \in Answers
    BY DEF Answers
  <1>4. \A a \in Answers, s \in Texts : [a EXCEPT !.scenario = s] \in Answers
    BY DEF Answers
  <1>5. \A a \in Answers, T \in SUBSET Tags : [a EXCEPT !.tags = T] \in Answers
    BY DEF Answers
  <1>6. \A a \in Answers, t \in Traces : [a EXCEPT !.trace = t] \in Answers
    BY DEF Answers
  <1>7. \A a \in Answers, l \in Labels : [a EXCEPT !.label = l] \in Answers
    BY DEF Answers
  <1> QED
    BY <1>1, <1>2, <1>3, <1>4, <1>5, <1>6, <1>7

\* HandleDetail keeps the inductive invariant.
LEMMA HandleDetailInv ==
    ASSUME Inv, NEW c \in calls, HandleDetail(c),
           UNCHANGED <<loading, editForm, place, detail, run, busy, errors, history>>
    PROVE  Inv'
  <1> USE InvParts
  <1> DEFINE a == [NoAnswer EXCEPT !.brick = c.brick, !.review = review[c.brick],
                              !.scenario = scenario[c.brick], !.tags = tags[c.brick]]
             d == [c EXCEPT !.at = "handled", !.answer = a]
  <1>1. c \in Calls /\ RightRequest(c)
    BY DEF CallsGood, Good
  <1>2. d.kind = c.kind /\ d.answer = a
    BY <1>1, ReplyFields
  <1>3. /\ c.kind = "detail" /\ c.brick \in Bricks /\ review[c.brick] \in Statuses
        /\ scenario[c.brick] \in Texts /\ tags[c.brick] \in SUBSET Tags
    BY <1>1 DEF HandleDetail, RightRequest, BrickKinds, ServerTypes
  <1>4. a \in Answers
    <2> DEFINE a1 == [NoAnswer EXCEPT !.brick = c.brick]
    <2>1. a1 \in Answers
      BY <1>3, AnswerTypes
    <2> HIDE DEF a1
    <2> DEFINE a2 == [a1 EXCEPT !.review = review[c.brick]]
    <2>2. a2 \in Answers
      BY <1>3, <2>1, AnswerTypes
    <2> HIDE DEF a2
    <2> DEFINE a3 == [a2 EXCEPT !.scenario = scenario[c.brick]]
    <2>3. a3 \in Answers
      BY <1>3, <2>2, AnswerTypes
    <2> HIDE DEF a3
    <2> DEFINE a4 == [a3 EXCEPT !.tags = tags[c.brick]]
    <2>4. a4 \in Answers
      BY <1>3, <2>3, AnswerTypes
    <2> HIDE DEF a4
    <2> QED
      BY <2>4 DEF NoAnswer, a1, a2, a3, a4
  <1>5. RightAnswer(d)
    <2>1. /\ a.brick = c.brick /\ a.review = review[c.brick]
          /\ a.scenario = scenario[c.brick] /\ a.tags = tags[c.brick]
      BY DEF NoAnswer
    <2> QED
      BY <1>2, <1>3, <1>4, <2>1 DEF RightAnswer, TagKinds, Polls, HandleDetail
  <1>6. CallsGood' /\ (Waiting' => Waiting)
    <2> HIDE DEF a
    <2>1. Reply(c, a)
      BY DEF HandleDetail, a
    <2> QED
      BY <1>4, <1>5, <2>1, ReplyKeeps
  <1>7. ServerTypes'
    BY <1>3 DEF HandleDetail, ServerTypes, server, stored
  <1>8. Pane' /\ FrameTypes' /\ PlaceTypes' /\ ControlTypes'
    BY <1>6 DEF Pane, FrameTypes, PlaceTypes, ControlTypes, loading, place, history
  <1>9. detail' \in Details /\ run' \in Runs
    OBVIOUS
  <1> QED
    BY <1>6, <1>7, <1>8, <1>9, InvPartsNext

\* HandleReview keeps the inductive invariant.
LEMMA HandleReviewInv ==
    ASSUME Inv, NEW c \in calls, HandleReview(c),
           UNCHANGED <<loading, editForm, place, detail, run, busy, errors, history>>
    PROVE  Inv'
  <1> USE InvParts
  <1> DEFINE a == [NoAnswer EXCEPT !.brick = c.brick, !.review = c.arg]
             d == [c EXCEPT !.at = "handled", !.answer = a]
  <1>1. c \in Calls /\ RightRequest(c)
    BY DEF CallsGood, Good
  <1>2. d.kind = c.kind /\ d.answer = a
    BY <1>1, ReplyFields
  <1>3. c.kind = "review" /\ c.brick \in Bricks /\ c.arg \in Statuses
    BY <1>1 DEF HandleReview, RightRequest, BrickKinds
  <1>4. a \in Answers
    <2> DEFINE a1 == [NoAnswer EXCEPT !.brick = c.brick]
    <2>1. a1 \in Answers
      BY <1>3, AnswerTypes
    <2> HIDE DEF a1
    <2> DEFINE a2 == [a1 EXCEPT !.review = c.arg]
    <2>2. a2 \in Answers
      BY <1>3, <2>1, AnswerTypes
    <2> HIDE DEF a2
    <2> QED
      BY <2>2 DEF NoAnswer, a1, a2
  <1>5. RightAnswer(d)
    <2>1. a.brick = c.brick /\ a.review = c.arg
      BY DEF NoAnswer
    <2> QED
      BY <1>2, <1>3, <1>4, <2>1 DEF RightAnswer, TagKinds, Polls, HandleReview
  <1>6. CallsGood' /\ (Waiting' => Waiting)
    <2> HIDE DEF a
    <2>1. Reply(c, a)
      BY DEF HandleReview, a
    <2> QED
      BY <1>4, <1>5, <2>1, ReplyKeeps
  <1>7. ServerTypes'
    BY <1>3 DEF HandleReview, ServerTypes, server, stored
  <1>8. Pane' /\ FrameTypes' /\ PlaceTypes' /\ ControlTypes'
    BY <1>6 DEF Pane, FrameTypes, PlaceTypes, ControlTypes, loading, place, history
  <1>9. detail' \in Details /\ run' \in Runs
    OBVIOUS
  <1> QED
    BY <1>6, <1>7, <1>8, <1>9, InvPartsNext

\* HandleScenario keeps the inductive invariant.
LEMMA HandleScenarioInv ==
    ASSUME Inv, NEW c \in calls, HandleScenario(c),
           UNCHANGED <<loading, editForm, place, detail, run, busy, errors, history>>
    PROVE  Inv'
  <1> USE InvParts
  <1> DEFINE a == [NoAnswer EXCEPT !.brick = c.brick, !.scenario = c.arg]
             d == [c EXCEPT !.at = "handled", !.answer = a]
  <1>1. c \in Calls /\ RightRequest(c)
    BY DEF CallsGood, Good
  <1>2. d.kind = c.kind /\ d.answer = a
    BY <1>1, ReplyFields
  <1>3. c.kind = "scenario" /\ c.brick \in Bricks /\ c.arg \in Texts
    BY <1>1 DEF HandleScenario, RightRequest, BrickKinds
  <1>4. a \in Answers
    <2> DEFINE a1 == [NoAnswer EXCEPT !.brick = c.brick]
    <2>1. a1 \in Answers
      BY <1>3, AnswerTypes
    <2> HIDE DEF a1
    <2> DEFINE a2 == [a1 EXCEPT !.scenario = c.arg]
    <2>2. a2 \in Answers
      BY <1>3, <2>1, AnswerTypes
    <2> HIDE DEF a2
    <2> QED
      BY <2>2 DEF NoAnswer, a1, a2
  <1>5. RightAnswer(d)
    <2>1. a.brick = c.brick /\ a.scenario = c.arg
      BY DEF NoAnswer
    <2> QED
      BY <1>2, <1>3, <1>4, <2>1 DEF RightAnswer, TagKinds, Polls, HandleScenario
  <1>6. CallsGood' /\ (Waiting' => Waiting)
    <2> HIDE DEF a
    <2>1. Reply(c, a)
      BY DEF HandleScenario, a
    <2> QED
      BY <1>4, <1>5, <2>1, ReplyKeeps
  <1>7. ServerTypes'
    BY <1>3 DEF HandleScenario, ServerTypes, server, stored
  <1>8. Pane' /\ FrameTypes' /\ PlaceTypes' /\ ControlTypes'
    BY <1>6 DEF Pane, FrameTypes, PlaceTypes, ControlTypes, loading, place, history
  <1>9. detail' \in Details /\ run' \in Runs
    OBVIOUS
  <1> QED
    BY <1>6, <1>7, <1>8, <1>9, InvPartsNext

\* HandleTag keeps the inductive invariant.
LEMMA HandleTagInv ==
    ASSUME Inv, NEW c \in calls, HandleTag(c),
           UNCHANGED <<loading, editForm, place, detail, run, busy, errors, history>>
    PROVE  Inv'
  <1> USE InvParts
  <1> DEFINE new == IF c.kind = "add tag" THEN tags[c.brick] \cup {c.arg}
                                          ELSE tags[c.brick] \ {c.arg}
             a == [NoAnswer EXCEPT !.brick = c.brick, !.tags = new]
             d == [c EXCEPT !.at = "handled", !.answer = a]
  <1>1. c \in Calls /\ RightRequest(c)
    BY DEF CallsGood, Good
  <1>2. d.kind = c.kind /\ d.answer = a
    BY <1>1, ReplyFields
  <1>3. c.kind \in TagKinds /\ c.brick \in Bricks /\ c.arg \in Tags /\ new \in SUBSET Tags
    BY <1>1 DEF HandleTag, RightRequest, BrickKinds, TagKinds, ServerTypes
  <1>4. a \in Answers
    <2> DEFINE a1 == [NoAnswer EXCEPT !.brick = c.brick]
    <2>1. a1 \in Answers
      BY <1>3, AnswerTypes
    <2> HIDE DEF a1
    <2> DEFINE a2 == [a1 EXCEPT !.tags = new]
    <2>2. a2 \in Answers
      BY <1>3, <2>1, AnswerTypes
    <2> HIDE DEF a2
    <2> QED
      BY <2>2 DEF NoAnswer, a1, a2
  <1>5. RightAnswer(d)
    <2>1. a.brick = c.brick /\ a.tags = new
      BY DEF NoAnswer
    <2> QED
      BY <1>2, <1>3, <1>4, <2>1 DEF RightAnswer, TagKinds, Polls, HandleTag
  <1>6. CallsGood' /\ (Waiting' => Waiting)
    <2> HIDE DEF a
    <2>1. Reply(c, a)
      BY DEF HandleTag, a
    <2> QED
      BY <1>4, <1>5, <2>1, ReplyKeeps
  <1>7. ServerTypes'
    BY <1>3 DEF HandleTag, ServerTypes, server, stored
  <1>8. Pane' /\ FrameTypes' /\ PlaceTypes' /\ ControlTypes'
    BY <1>6 DEF Pane, FrameTypes, PlaceTypes, ControlTypes, loading, place, history
  <1>9. detail' \in Details /\ run' \in Runs
    OBVIOUS
  <1> QED
    BY <1>6, <1>7, <1>8, <1>9, InvPartsNext

\* HandleEdit keeps the inductive invariant.
LEMMA HandleEditInv ==
    ASSUME Inv, NEW c \in calls, HandleEdit(c),
           UNCHANGED <<loading, editForm, place, detail, run, busy, errors, history>>
    PROVE  Inv'
  <1> USE InvParts
  <1> DEFINE a == [NoAnswer EXCEPT !.label = c.arg]
             d == [c EXCEPT !.at = "handled", !.answer = a]
  <1>1. c \in Calls /\ RightRequest(c)
    BY DEF CallsGood, Good
  <1>2. d.kind = c.kind /\ d.answer = a
    BY <1>1, ReplyFields
  <1>3. c.kind = "edit" /\ c.arg \in Labels
    BY <1>1 DEF HandleEdit, RightRequest
  <1>4. a \in Answers
    <2> DEFINE a1 == [NoAnswer EXCEPT !.label = c.arg]
    <2>1. a1 \in Answers
      BY <1>3, AnswerTypes
    <2> HIDE DEF a1
    <2> QED
      BY <2>1 DEF NoAnswer, a1
  <1>5. RightAnswer(d)
    <2>1. a.label = c.arg
      BY DEF NoAnswer
    <2> QED
      BY <1>2, <1>3, <1>4, <2>1 DEF RightAnswer, TagKinds, Polls, HandleEdit
  <1>6. CallsGood' /\ (Waiting' => Waiting)
    <2> HIDE DEF a
    <2>1. Reply(c, a)
      BY DEF HandleEdit, a
    <2> QED
      BY <1>4, <1>5, <2>1, ReplyKeeps
  <1>7. ServerTypes'
    BY <1>3 DEF HandleEdit, ServerTypes, server, stored
  <1>8. Pane' /\ FrameTypes' /\ PlaceTypes' /\ ControlTypes'
    BY <1>6 DEF Pane, FrameTypes, PlaceTypes, ControlTypes, loading, place, history
  <1>9. detail' \in Details /\ run' \in Runs
    OBVIOUS
  <1> QED
    BY <1>6, <1>7, <1>8, <1>9, InvPartsNext

\* HandleReplay keeps the inductive invariant.
LEMMA HandleReplayInv ==
    ASSUME Inv, NEW c \in calls, HandleReplay(c),
           UNCHANGED <<loading, editForm, place, detail, run, busy, errors, history>>
    PROVE  Inv'
  <1> USE InvParts
  <1> DEFINE a == [NoAnswer EXCEPT !.trace = <<c.brick, replays + 1>>]
             d == [c EXCEPT !.at = "handled", !.answer = a]
  <1>1. c \in Calls /\ RightRequest(c)
    BY DEF CallsGood, Good
  <1>2. d.kind = c.kind /\ d.answer = a
    BY <1>1, ReplyFields
  <1>3. c.kind = "run" /\ replays + 1 \in 0..MaxReplays /\ <<c.brick, replays + 1>> \in Traces
    <2>1. MaxReplays \in Nat /\ replays \in 0..MaxReplays /\ replays < MaxReplays
      BY NanobarPageAssumption DEF HandleReplay, ServerTypes
    <2>2. replays + 1 \in 0..MaxReplays /\ replays + 1 \in 1..MaxReplays
      BY <2>1
    <2>3. c.kind = "run" /\ c.brick \in Bricks
      BY <1>1 DEF HandleReplay, RightRequest, BrickKinds
    <2> QED
      BY <2>2, <2>3 DEF Traces
  <1>4. a \in Answers
    <2> DEFINE a1 == [NoAnswer EXCEPT !.trace = <<c.brick, replays + 1>>]
    <2>1. a1 \in Answers
      BY <1>3, AnswerTypes
    <2> HIDE DEF a1
    <2> QED
      BY <2>1 DEF NoAnswer, a1
  <1>5. RightAnswer(d)
    <2>1. a.trace = <<c.brick, replays + 1>>
      BY DEF NoAnswer
    <2> QED
      BY <1>2, <1>3, <1>4, <2>1 DEF RightAnswer, TagKinds, Polls, HandleReplay
  <1>6. CallsGood' /\ (Waiting' => Waiting)
    <2> HIDE DEF a
    <2>1. Reply(c, a)
      BY DEF HandleReplay, a
    <2> QED
      BY <1>4, <1>5, <2>1, ReplyKeeps
  <1>7. ServerTypes'
    BY <1>3 DEF HandleReplay, ServerTypes, server, stored
  <1>8. Pane' /\ FrameTypes' /\ PlaceTypes' /\ ControlTypes'
    BY <1>6 DEF Pane, FrameTypes, PlaceTypes, ControlTypes, loading, place, history
  <1>9. detail' \in Details /\ run' \in Runs
    OBVIOUS
  <1> QED
    BY <1>6, <1>7, <1>8, <1>9, InvPartsNext

\* HandlePoll keeps the inductive invariant.
LEMMA HandlePollInv ==
    ASSUME Inv, NEW c \in calls, HandlePoll(c),
           UNCHANGED <<loading, editForm, place, detail, run, busy, errors, history>>
    PROVE  Inv'
  <1> USE InvParts
  <1> DEFINE a == [NoAnswer EXCEPT !.trace = c.arg]
             d == [c EXCEPT !.at = "handled", !.answer = a]
  <1>1. c \in Calls /\ RightRequest(c)
    BY DEF CallsGood, Good
  <1>2. CallsGood' /\ (Waiting' => Waiting)
    <2>1. CASE Reply(c, Refused)
      BY <2>1, RefusalKeeps
    <2>2. CASE Reply(c, a) /\ c.arg \in drained
      <3>1. d.kind = c.kind /\ d.answer = a
        BY <1>1, ReplyFields
      <3>2. c.kind \in Polls /\ c.arg \in Traces
        BY <1>1 DEF HandlePoll, RightRequest
      <3>3. a \in Answers /\ a.trace = c.arg
        BY <3>2, AnswerTypes DEF NoAnswer
      <3>4. RightAnswer(d)
        BY <3>1, <3>2, <3>3 DEF RightAnswer, TagKinds, Polls
      <3> HIDE DEF a
      <3> QED
        BY <2>2, <3>3, <3>4, ReplyKeeps
    <2> QED
      BY <2>1, <2>2 DEF HandlePoll
  <1>3. ServerTypes'
    BY DEF HandlePoll, ServerTypes, server, stored
  <1>4. Pane' /\ FrameTypes' /\ PlaceTypes' /\ ControlTypes'
    BY <1>2 DEF Pane, FrameTypes, PlaceTypes, ControlTypes, loading, place, history
  <1>5. detail' \in Details /\ run' \in Runs
    OBVIOUS
  <1> QED
    BY <1>2, <1>3, <1>4, <1>5, InvPartsNext

\* HandleHashChange keeps the inductive invariant.
LEMMA HandleHashChangeInv ==
    ASSUME Inv, HandleHashChange
    PROVE  Inv'
  <1> USE InvParts
  <1>1. hashEvents' \in Nat
    BY DEF HandleHashChange, PlaceTypes
  <1>2. CASE hash \notin {None, selected}
    <2>1. hash \in Bricks /\ Choose(hash) /\ Send("detail", hash, None, 0)
      BY <1>2 DEF HandleHashChange, PlaceTypes
    <2>2. CallsGood'
      <3>1. RightRequest(Request("detail", hash, None, 0))
        BY <2>1 DEF RightRequest, Request, BrickKinds, TagKinds, Polls
      <3>2. "detail" \in Kinds
        BY DEF Kinds
      <3> QED
        BY <2>1, <3>1, <3>2, AttemptRange, SendKeeps
    <2>3. /\ selected' = hash /\ trace' = None
          /\ detail' \in Details /\ detail'.brick = detail.brick /\ detail'.form = detail.form
          /\ run' \in Runs
      BY <2>1, ChooseTypes
    <2>4. Pane'
      BY <2>1, <2>3 DEF Pane
    <2>5. ServerTypes' /\ FrameTypes'
      BY DEF ServerTypes, FrameTypes, HandleHashChange, server, stored, loading
    <2>6. hasty' \in BOOLEAN
      BY <1>2 DEF HandleHashChange, ControlTypes
    <2>7. PlaceTypes' /\ ControlTypes'
      BY <1>1, <2>1, <2>3, <2>6 DEF PlaceTypes, ControlTypes, HandleHashChange
    <2> QED
      BY <2>2, <2>3, <2>4, <2>5, <2>7, InvPartsNext
  <1>3. CASE hash \in {None, selected}
    <2>1. UNCHANGED <<selected, trace, detail, run, calls, hasty>>
      BY <1>3 DEF HandleHashChange
    <2>2. CallsGood' /\ (Waiting' => Waiting)
      BY <2>1, SameCalls
    <2>3. Pane' /\ detail' \in Details /\ run' \in Runs
      BY <2>1, <2>2 DEF Pane
    <2>4. ServerTypes' /\ FrameTypes'
      BY DEF ServerTypes, FrameTypes, HandleHashChange, server, stored, loading
    <2>5. PlaceTypes' /\ ControlTypes'
      BY <1>1, <2>1 DEF PlaceTypes, ControlTypes, HandleHashChange
    <2> QED
      BY <2>2, <2>3, <2>4, <2>5, InvPartsNext
  <1> QED
    BY <1>2, <1>3

\* Drain keeps the inductive invariant.
LEMMA DrainInv ==
    ASSUME Inv, Drain
    PROVE  Inv'
  <1> USE InvParts
  <1>1. CallsGood' /\ (Waiting' => Waiting)
    BY SameCalls DEF Drain
  <1>2. ServerTypes'
    BY DEF ServerTypes, Drain
  <1>3. Pane' /\ FrameTypes' /\ PlaceTypes' /\ ControlTypes'
    BY <1>1 DEF Pane, FrameTypes, PlaceTypes, ControlTypes, Drain, loading, place, history
  <1>4. detail' \in Details /\ run' \in Runs
    BY DEF Drain
  <1> QED
    BY <1>1, <1>2, <1>3, <1>4, InvPartsNext

\* DetailAnswered keeps the inductive invariant.
LEMMA DetailAnsweredInv ==
    ASSUME Inv, NEW c \in calls, DetailAnswered(c)
    PROVE  Inv'
  <1> USE InvParts
  <1>1. CallsGood' /\ (Waiting' => Waiting)
    BY EndKeeps DEF DetailAnswered
  <1>2. Good(c) /\ c \in Calls /\ selected \in Bricks
    BY DEF CallsGood, Good, Pane, Waiting, DetailAnswered
  <1>3. detail' \in Details /\ (detail'.brick # None => detail'.form \in Texts)
    <2>1. CASE Answered(c) /\ detail' = RenderDetail(detail, c.answer)
      <3>1. RightAnswer(c)
        BY <1>2, <2>1 DEF Good, Answered
      <3>2. /\ c.answer.brick \in Bricks /\ c.answer.review \in Statuses
            /\ c.answer.scenario \in Texts /\ c.answer.tags \in SUBSET Tags
        BY <3>1 DEF RightAnswer, DetailAnswered
      <3> QED
        BY <2>1, <3>2, RenderDetailType
    <2>2. CASE detail' = ShowDetailEmpty(detail)
      BY <2>2, DetailTypes
    <2> QED
      BY <2>1, <2>2 DEF DetailAnswered
  <1>4. Pane'
    BY <1>1, <1>2, <1>3 DEF Pane, DetailAnswered, server, stored, loading, place, history
  <1>5. ServerTypes' /\ FrameTypes'
    BY <1>1, <1>2, <1>3
    DEF ServerTypes, FrameTypes, DetailAnswered, server, stored, loading, place, history
  <1>6. PlaceTypes' /\ ControlTypes'
    BY <1>1, <1>2, <1>3
    DEF PlaceTypes, ControlTypes, DetailAnswered, server, stored, loading, place, history
  <1>7. detail' \in Details /\ run' \in Runs
    BY <1>1, <1>2, <1>3 DEF DetailAnswered
  <1> QED
    BY <1>1, <1>4, <1>5, <1>6, <1>7, InvPartsNext

\* ReviewAnswered keeps the inductive invariant.
LEMMA ReviewAnsweredInv ==
    ASSUME Inv, NEW c \in calls, ReviewAnswered(c)
    PROVE  Inv'
  <1> USE InvParts
  <1>1. CallsGood' /\ (Waiting' => Waiting)
    BY EndKeeps DEF ReviewAnswered
  <1>2. detail' \in Details /\ detail'.brick = detail.brick /\ detail'.form = detail.form
    <2>1. CASE Answered(c) /\ detail' = RenderReview(detail, c.answer)
      <3>1. RightAnswer(c)
        BY <2>1 DEF CallsGood, Good, Answered
      <3>2. c.answer.brick \in Bricks /\ c.answer.review \in Statuses
        BY <3>1 DEF RightAnswer, ReviewAnswered
      <3> QED
        BY <2>1, <3>2, DetailTypes
    <2>2. CASE UNCHANGED detail
      BY <2>2
    <2> QED
      BY <2>1, <2>2 DEF ReviewAnswered
  <1>3. Pane'
    BY <1>1, <1>2 DEF Pane, ReviewAnswered, server, stored, loading, place, history
  <1>4. ServerTypes' /\ FrameTypes'
    BY <1>1, <1>2
    DEF ServerTypes, FrameTypes, ReviewAnswered, server, stored, loading, place, history
  <1>5. PlaceTypes' /\ ControlTypes'
    BY <1>1, <1>2
    DEF PlaceTypes, ControlTypes, ReviewAnswered, server, stored, loading, place, history, Buttons
  <1>6. detail' \in Details /\ run' \in Runs
    BY <1>1, <1>2 DEF ReviewAnswered
  <1> QED
    BY <1>1, <1>3, <1>4, <1>5, <1>6, InvPartsNext

\* ScenarioAnswered keeps the inductive invariant.
LEMMA ScenarioAnsweredInv ==
    ASSUME Inv, NEW c \in calls, ScenarioAnswered(c)
    PROVE  Inv'
  <1> USE InvParts
  <1>1. CallsGood' /\ (Waiting' => Waiting)
    BY EndKeeps DEF ScenarioAnswered
  <1>2. /\ detail' \in Details /\ detail'.brick = detail.brick
        /\ detail'.form \in Texts \/ detail'.form = detail.form
    <2>1. CASE Answered(c) /\ detail' = RenderScenario(detail, c.answer)
      <3>1. RightAnswer(c)
        BY <2>1 DEF CallsGood, Good, Answered
      <3>2. c.answer.scenario \in Texts
        BY <3>1 DEF RightAnswer, ScenarioAnswered
      <3> QED
        BY <2>1, <3>2, DetailTypes
    <2>2. CASE UNCHANGED detail
      BY <2>2
    <2> QED
      BY <2>1, <2>2 DEF ScenarioAnswered
  <1>3. Pane'
    BY <1>1, <1>2 DEF Pane, ScenarioAnswered, server, stored, loading, place, history
  <1>4. ServerTypes' /\ FrameTypes'
    BY <1>1, <1>2
    DEF ServerTypes, FrameTypes, ScenarioAnswered, server, stored, loading, place, history
  <1>5. PlaceTypes' /\ ControlTypes'
    BY <1>1, <1>2
    DEF PlaceTypes, ControlTypes, ScenarioAnswered, server, stored, loading, place, history,
        Buttons
  <1>6. detail' \in Details /\ run' \in Runs
    BY <1>1, <1>2 DEF ScenarioAnswered
  <1> QED
    BY <1>1, <1>3, <1>4, <1>5, <1>6, InvPartsNext

\* TagAnswered keeps the inductive invariant.
LEMMA TagAnsweredInv ==
    ASSUME Inv, NEW c \in calls, TagAnswered(c)
    PROVE  Inv'
  <1> USE InvParts
  <1>1. CallsGood' /\ (Waiting' => Waiting)
    BY EndKeeps DEF TagAnswered
  <1>2. detail' \in Details /\ detail'.brick = detail.brick /\ detail'.form = detail.form
    <2>1. CASE Answered(c) /\ detail' = RenderTags(detail, c.answer)
      <3>1. RightAnswer(c)
        BY <2>1 DEF CallsGood, Good, Answered
      <3>2. c.answer.brick \in Bricks /\ c.answer.tags \in SUBSET Tags
        BY <3>1 DEF RightAnswer, TagAnswered
      <3> QED
        BY <2>1, <3>2, DetailTypes
    <2>2. CASE UNCHANGED detail
      BY <2>2
    <2> QED
      BY <2>1, <2>2 DEF TagAnswered
  <1>3. Pane'
    BY <1>1, <1>2 DEF Pane, TagAnswered, server, stored, loading, place, history
  <1>4. ServerTypes' /\ FrameTypes'
    BY <1>1, <1>2
    DEF ServerTypes, FrameTypes, TagAnswered, server, stored, loading, place, history
  <1>5. PlaceTypes' /\ ControlTypes'
    BY <1>1, <1>2
    DEF PlaceTypes, ControlTypes, TagAnswered, server, stored, loading, place, history, Buttons
  <1>6. detail' \in Details /\ run' \in Runs
    BY <1>1, <1>2 DEF TagAnswered
  <1> QED
    BY <1>1, <1>3, <1>4, <1>5, <1>6, InvPartsNext

\* RunAnswered keeps the inductive invariant.
LEMMA RunAnsweredInv ==
    ASSUME Inv, NEW c \in calls, RunAnswered(c)
    PROVE  Inv'
  <1> USE InvParts
  <1>1. CallsGood' /\ (Waiting' => Waiting)
    <2>1. RightAnswer(c) /\ RightRequest(c)
      BY DEF CallsGood, Good, RunAnswered, Answered
    <2>2. c.brick \in Bricks /\ c.answer.trace \in Traces
      BY <2>1 DEF RightRequest, RightAnswer, BrickKinds, RunAnswered
    <2>3. "run poll" \in Kinds \ {"detail"} /\ "run poll" \in Polls
      BY DEF Kinds, Polls
    <2>4. Resend(c, "run poll", c.answer.trace, 1)
      BY DEF RunAnswered
    <2> QED
      BY <2>2, <2>3, <2>4, AttemptRange, ResendKeeps
  <1>2. trace' \in Traces /\ run' \in Runs /\ run'.verdict = trace'
    <2>1. RightAnswer(c)
      BY DEF CallsGood, Good, RunAnswered, Answered
    <2> DEFINE t == c.answer.trace
    <2>2. t \in Traces
      BY <2>1 DEF RightAnswer, RunAnswered
    <2>3. trace' = t /\ run' = PollsBegin(RenderVerdict(run, t))
      BY DEF RunAnswered
    <2> HIDE DEF t
    <2>4. RenderVerdict(run, t) \in Runs
      BY <2>2, RunTypes
    <2>5. RenderVerdict(run, t).verdict = t
      BY DEF RenderVerdict, Runs
    <2> QED
      BY <2>2, <2>3, <2>4, <2>5, RunTypes
  <1>3. Pane'
    BY <1>1, <1>2 DEF Pane, RunAnswered, server, stored, loading, place, history
  <1>4. ServerTypes' /\ FrameTypes'
    BY <1>1, <1>2
    DEF ServerTypes, FrameTypes, RunAnswered, server, stored, loading, place, history
  <1>5. PlaceTypes' /\ ControlTypes'
    BY <1>1, <1>2
    DEF PlaceTypes, ControlTypes, RunAnswered, server, stored, loading, place, history
  <1>6. detail' \in Details /\ run' \in Runs
    BY <1>1, <1>2 DEF RunAnswered
  <1> QED
    BY <1>1, <1>3, <1>4, <1>5, <1>6, InvPartsNext

\* RunFailed keeps the inductive invariant.
LEMMA RunFailedInv ==
    ASSUME Inv, NEW c \in calls, RunFailed(c)
    PROVE  Inv'
  <1> USE InvParts
  <1>1. CallsGood' /\ (Waiting' => Waiting)
    BY EndKeeps DEF RunFailed
  <1>2. run' \in Runs
    <2>1. Progress(run, FALSE) \in Runs
      BY RunTypes
    <2> QED
      BY <2>1, RunTypes DEF RunFailed
  <1>3. Pane'
    BY <1>1, <1>2 DEF Pane, RunFailed, server, stored, loading, place, history
  <1>4. ServerTypes' /\ FrameTypes'
    BY <1>1, <1>2 DEF ServerTypes, FrameTypes, RunFailed, server, stored, loading, place, history
  <1>5. PlaceTypes' /\ ControlTypes'
    BY <1>1, <1>2
    DEF PlaceTypes, ControlTypes, RunFailed, server, stored, loading, place, history, Buttons
  <1>6. detail' \in Details /\ run' \in Runs
    BY <1>1, <1>2 DEF RunFailed
  <1> QED
    BY <1>1, <1>3, <1>4, <1>5, <1>6, InvPartsNext

\* PollAnswered keeps the inductive invariant.
LEMMA PollAnsweredInv ==
    ASSUME Inv, NEW c \in calls, PollAnswered(c)
    PROVE  Inv'
  <1> USE InvParts
  <1>1. CallsGood' /\ (Waiting' => Waiting)
    BY EndKeeps DEF PollAnswered, EndPolls
  <1>2. run' \in Runs
    <2>1. CASE Answered(c) /\ run' = PollsEnd(RenderRunSpans(run, c.answer.trace))
      <3>1. RightAnswer(c)
        BY <2>1 DEF CallsGood, Good, Answered
      <3>2. c.answer.trace \in Traces
        BY <3>1 DEF RightAnswer, PollAnswered
      <3>3. RenderRunSpans(run, c.answer.trace) \in Runs
        BY <3>2, RunTypes
      <3> QED
        BY <2>1, <3>3, RunTypes
    <2>2. CASE run' = PollsEnd(run)
      BY <2>2, RunTypes
    <2> QED
      BY <2>1, <2>2 DEF PollAnswered, EndPolls
  <1>3. Pane'
    BY <1>1, <1>2 DEF Pane, PollAnswered, server, stored, loading, place, history
  <1>4. ServerTypes' /\ FrameTypes'
    BY <1>1, <1>2
    DEF ServerTypes, FrameTypes, PollAnswered, server, stored, loading, place, history
  <1>5. PlaceTypes' /\ ControlTypes'
    BY <1>1, <1>2
    DEF PlaceTypes, ControlTypes, PollAnswered, server, stored, loading, place, history, Buttons,
        EndPolls
  <1>6. detail' \in Details /\ run' \in Runs
    BY <1>1, <1>2 DEF PollAnswered
  <1> QED
    BY <1>1, <1>3, <1>4, <1>5, <1>6, InvPartsNext

\* PollMissed keeps the inductive invariant.
LEMMA PollMissedInv ==
    ASSUME Inv, NEW c \in calls, PollMissed(c)
    PROVE  Inv'
  <1> USE InvParts
  <1>1. CallsGood' /\ (Waiting' => Waiting)
    <2> DEFINE d == [c EXCEPT !.at = "asleep", !.answer = None]
    <2>1. c \in Calls /\ RightRequest(c)
      BY DEF CallsGood, Good
    <2>2. d \in Calls /\ d.at = "asleep" /\ d.kind = c.kind /\ d.brick = c.brick /\ d.arg = c.arg
      BY <2>1 DEF Calls
    <2>3. Good(d)
      BY <2>1, <2>2 DEF Good, RightRequest, PollMissed
    <2>4. calls' = (calls \ {c}) \cup {d}
      BY DEF PollMissed
    <2> QED
      BY <2>2, <2>3, <2>4 DEF CallsGood, Waiting
  <1>2. run' \in Runs
    BY RunTypes DEF PollMissed
  <1>3. Pane'
    BY <1>1, <1>2 DEF Pane, PollMissed, server, stored, loading, place, history
  <1>4. ServerTypes' /\ FrameTypes'
    BY <1>1, <1>2 DEF ServerTypes, FrameTypes, PollMissed, server, stored, loading, place, history
  <1>5. PlaceTypes' /\ ControlTypes'
    BY <1>1, <1>2
    DEF PlaceTypes, ControlTypes, PollMissed, server, stored, loading, place, history
  <1>6. detail' \in Details /\ run' \in Runs
    BY <1>1, <1>2 DEF PollMissed
  <1> QED
    BY <1>1, <1>3, <1>4, <1>5, <1>6, InvPartsNext

\* Wake keeps the inductive invariant.
LEMMA WakeInv ==
    ASSUME Inv, NEW c \in calls, Wake(c)
    PROVE  Inv'
  <1> USE InvParts
  <1>1. CallsGood' /\ (Waiting' => Waiting)
    <2>. c \in Calls /\ RightRequest(c) /\ c.kind \in Polls
      BY DEF CallsGood, Good, Wake
    <2>1. CASE End(c)
      BY <2>1, EndKeeps
    <2>2. CASE c.attempt < Attempts /\ Resend(c, c.kind, c.arg, c.attempt + 1)
      <3>1. c.attempt \in 0..Attempts /\ Attempts \in Nat
        BY NanobarPageAssumption DEF Calls
      <3>2. c.attempt + 1 \in 0..Attempts
        BY <2>2, <3>1
      <3>3. /\ c.kind \in Kinds \ {"detail"} /\ c.kind \in Polls
            /\ c.brick \in Bricks /\ c.arg \in Traces
        BY DEF Kinds, Polls, RightRequest, BrickKinds
      <3> QED
        BY <2>2, <3>2, <3>3, ResendKeeps
    <2> QED
      BY <2>1, <2>2 DEF Wake, EndPolls
  <1>2. run' \in Runs
    <2>1. CASE UNCHANGED run
      BY <2>1
    <2>2. CASE run' = PollsEnd(run)
      BY <2>2, RunTypes
    <2> QED
      BY <2>1, <2>2 DEF Wake, EndPolls
  <1>3. Pane'
    BY <1>1, <1>2 DEF Pane, Wake, server, stored, loading, place, history
  <1>4. ServerTypes' /\ FrameTypes'
    BY <1>1, <1>2 DEF ServerTypes, FrameTypes, Wake, server, stored, loading, place, history
  <1>5. PlaceTypes' /\ ControlTypes'
    BY <1>1, <1>2
    DEF PlaceTypes, ControlTypes, Wake, server, stored, loading, place, history, Buttons, EndPolls
  <1>6. detail' \in Details /\ run' \in Runs
    BY <1>1, <1>2 DEF Wake
  <1> QED
    BY <1>1, <1>3, <1>4, <1>5, <1>6, InvPartsNext

\* ListFailed keeps the inductive invariant.
LEMMA ListFailedInv ==
    ASSUME Inv, NEW c \in calls, ListFailed(c)
    PROVE  Inv'
  <1> USE InvParts
  <1>1. CallsGood' /\ (Waiting' => Waiting)
    BY EndKeeps DEF ListFailed
  <1>2. Pane'
    BY <1>1 DEF Pane, ListFailed, server, stored, loading, place, history
  <1>3. ServerTypes' /\ FrameTypes'
    BY <1>1 DEF ServerTypes, FrameTypes, ListFailed, server, stored, loading, place, history
  <1>4. PlaceTypes' /\ ControlTypes'
    BY <1>1 DEF PlaceTypes, ControlTypes, ListFailed, server, stored, loading, place, history
  <1>5. detail' \in Details /\ run' \in Runs
    BY <1>1 DEF ListFailed
  <1> QED
    BY <1>1, <1>2, <1>3, <1>4, <1>5, InvPartsNext

\* GapsAnswered keeps the inductive invariant.
LEMMA GapsAnsweredInv ==
    ASSUME Inv, NEW c \in calls, GapsAnswered(c)
    PROVE  Inv'
  <1> USE InvParts
  <1>1. CallsGood' /\ (Waiting' => Waiting)
    <2>1. "summary" \in Kinds \ {"detail"} /\ "summary" \notin BrickKinds \cup Polls
      BY DEF Kinds, Polls, BrickKinds
    <2>2. Resend(c, "summary", None, 0)
      BY DEF GapsAnswered
    <2> QED
      BY <2>1, <2>2, AttemptRange, ResendKeeps
  <1>2. Pane'
    BY <1>1 DEF Pane, GapsAnswered, server, stored, loading, place, history
  <1>3. ServerTypes' /\ FrameTypes'
    BY <1>1 DEF ServerTypes, FrameTypes, GapsAnswered, server, stored, loading, place, history
  <1>4. PlaceTypes' /\ ControlTypes'
    BY <1>1 DEF PlaceTypes, ControlTypes, GapsAnswered, server, stored, loading, place, history
  <1>5. detail' \in Details /\ run' \in Runs
    BY <1>1 DEF GapsAnswered
  <1> QED
    BY <1>1, <1>2, <1>3, <1>4, <1>5, InvPartsNext

\* SummaryAnswered keeps the inductive invariant.
LEMMA SummaryAnsweredInv ==
    ASSUME Inv, NEW c \in calls, SummaryAnswered(c)
    PROVE  Inv'
  <1> USE InvParts
  <1>1. CallsGood' /\ (Waiting' => Waiting)
    BY EndKeeps DEF SummaryAnswered
  <1>2. Pane'
    BY <1>1 DEF Pane, SummaryAnswered, server, stored, loading, place, history
  <1>3. ServerTypes' /\ FrameTypes'
    BY <1>1 DEF ServerTypes, FrameTypes, SummaryAnswered, server, stored, loading, place, history
  <1>4. PlaceTypes' /\ ControlTypes'
    BY <1>1 DEF PlaceTypes, ControlTypes, SummaryAnswered, server, stored, loading, place, history
  <1>5. detail' \in Details /\ run' \in Runs
    BY <1>1 DEF SummaryAnswered
  <1> QED
    BY <1>1, <1>2, <1>3, <1>4, <1>5, InvPartsNext

\* EditAnswered keeps the inductive invariant.
LEMMA EditAnsweredInv ==
    ASSUME Inv, NEW c \in calls, EditAnswered(c)
    PROVE  Inv'
  <1> USE InvParts
  <1>1. CallsGood' /\ (Waiting' => Waiting)
    BY EndKeeps DEF EditAnswered
  <1>2. editForm' \in Labels \cup {None}
    <2>1. CASE Answered(c) /\ editForm' = c.answer.label
      <3>1. RightAnswer(c)
        BY <2>1 DEF CallsGood, Good, Answered
      <3> QED
        BY <2>1, <3>1 DEF RightAnswer, EditAnswered
    <2>2. CASE UNCHANGED editForm
      BY <2>2 DEF FrameTypes
    <2> QED
      BY <2>1, <2>2 DEF EditAnswered
  <1>3. Pane'
    BY <1>1, <1>2 DEF Pane, EditAnswered, server, stored, loading, place, history
  <1>4. ServerTypes' /\ FrameTypes'
    BY <1>1, <1>2
    DEF ServerTypes, FrameTypes, EditAnswered, server, stored, loading, place, history
  <1>5. PlaceTypes' /\ ControlTypes'
    BY <1>1, <1>2
    DEF PlaceTypes, ControlTypes, EditAnswered, server, stored, loading, place, history, Buttons
  <1>6. detail' \in Details /\ run' \in Runs
    BY <1>1, <1>2 DEF EditAnswered
  <1> QED
    BY <1>1, <1>3, <1>4, <1>5, <1>6, InvPartsNext

\* ListAnswered keeps the inductive invariant.
LEMMA ListAnsweredInv ==
    ASSUME Inv, NEW c \in calls, ListAnswered(c)
    PROVE  Inv'
  <1> USE InvParts
  <1> DEFINE next == [c EXCEPT !.kind = "gaps", !.at = "sent", !.answer = None]
  <1>1. next.kind = "gaps" /\ Good(next)
    <2>1. c \in Calls
      BY DEF CallsGood, Good
    <2>2. next \in Calls
      BY <2>1 DEF Calls, Kinds
    <2>3. next.kind = "gaps" /\ next.at = "sent"
      BY <2>1 DEF Calls
    <2>4. RightRequest(next)
      BY <2>3 DEF RightRequest, BrickKinds, TagKinds, Polls
    <2> QED
      BY <2>2, <2>3, <2>4 DEF Good
  <1>2. ServerTypes' /\ FrameTypes'
    BY DEF ServerTypes, FrameTypes, ListAnswered, server, stored
  <1>3. CASE hash # None
    <2> DEFINE first == Request("detail", hash, None, 0)
    <2>1. /\ hash \in Bricks /\ Free /\ Choose(hash)
          /\ calls' = (calls \ {c}) \cup {next, first}
      BY <1>3 DEF ListAnswered, PlaceTypes
    <2>2. Good(first)
      <3>1. RightRequest(first)
        BY <2>1 DEF RightRequest, Request, BrickKinds, TagKinds, Polls
      <3>2. "detail" \in Kinds
        BY DEF Kinds
      <3> QED
        BY <2>1, <3>1, <3>2, AttemptRange, RequestGood
    <2>3. CallsGood'
      BY <1>1, <2>1, <2>2 DEF CallsGood
    <2>4. /\ selected' = hash /\ trace' = None
          /\ detail' \in Details /\ detail'.brick = detail.brick /\ detail'.form = detail.form
          /\ run' \in Runs
      BY <2>1, ChooseTypes
    <2>5. Pane'
      BY <2>1, <2>4 DEF Pane
    <2>6. hasty' \in BOOLEAN
      BY <1>3 DEF ListAnswered, ControlTypes
    <2>7. PlaceTypes' /\ ControlTypes'
      BY <2>1, <2>4, <2>6 DEF PlaceTypes, ControlTypes, ListAnswered
    <2> QED
      BY <1>2, <2>3, <2>4, <2>5, <2>7, InvPartsNext
  <1>4. CASE hash = None
    <2>1. /\ calls' = (calls \ {c}) \cup {next}
          /\ UNCHANGED <<selected, trace, detail, run, hasty>>
      BY <1>4 DEF ListAnswered
    <2>2. CallsGood' /\ (Waiting' => Waiting)
      BY <1>1, <2>1 DEF CallsGood, Waiting
    <2>3. Pane' /\ detail' \in Details /\ run' \in Runs
      BY <2>1, <2>2 DEF Pane
    <2>4. PlaceTypes' /\ ControlTypes'
      BY <2>1 DEF PlaceTypes, ControlTypes, ListAnswered
    <2> QED
      BY <1>2, <2>2, <2>3, <2>4, InvPartsNext
  <1> QED
    BY <1>3, <1>4

\* Nothing happens, and the invariant stays.
LEMMA RestInv ==
    ASSUME Inv, UNCHANGED vars
    PROVE  Inv'
  <1> USE InvParts
  <1>1. CallsGood' /\ (Waiting' => Waiting)
    BY SameCalls DEF vars
  <1>2. Pane' /\ ServerTypes' /\ FrameTypes' /\ PlaceTypes' /\ ControlTypes'
    BY <1>1 DEF Pane, ServerTypes, FrameTypes, PlaceTypes, ControlTypes, vars, server, stored,
                loading, place, history
  <1>3. detail' \in Details /\ run' \in Runs
    BY DEF vars
  <1> QED
    BY <1>1, <1>2, <1>3, InvPartsNext

(* Inv is inductive. *)
LEMMA UserInv ==
    ASSUME Inv, User
    PROVE  Inv'
  <1>1. CASE \E b \in Bricks : SelectBrick(b) \/ EditHash(b)
    BY <1>1, SelectBrickInv, EditHashInv
  <1>2. CASE \E t \in {"detail", "run"} : ClickTab(t)
    BY <1>2, ClickTabInv
  <1>3. CASE \E s \in Statuses : HandleReviewStatusClick(s)
    BY <1>3, HandleReviewStatusClickInv
  <1>4. CASE TypeScenario \/ HandleScenarioSubmit
    BY <1>4, TypeScenarioInv, HandleScenarioSubmitInv
  <1>5. CASE \E t \in Tags : HandleTagAddSubmit(t) \/ HandleTagRemoveClick(t)
    BY <1>5, HandleTagAddSubmitInv, HandleTagRemoveClickInv
  <1>6. CASE HandleEmptyTag
    BY <1>6, HandleEmptyTagInv
  <1>7. CASE HandleRunClick \/ HandleRefreshClick
    BY <1>7, HandleRunClickInv, HandleRefreshClickInv
  <1>8. CASE \E l \in Labels : TypeEdit(l)
    BY <1>8, TypeEditInv
  <1>9. CASE HandleEditSubmit
    BY <1>9, HandleEditSubmitInv
  <1> QED
    BY <1>1, <1>2, <1>3, <1>4, <1>5, <1>6, <1>7, <1>8, <1>9 DEF User

\* The server keeps the invariant, whatever it is asked.
LEMMA HandleInv ==
    ASSUME Inv, NEW c \in calls, Handle(c)
    PROVE  Inv'
  BY HandleDetailInv, HandleReviewInv, HandleScenarioInv, HandleTagInv, HandleEditInv,
     HandleReplayInv, HandlePollInv DEF Handle

\* So does each handler that goes on.
LEMMA ContinueInv ==
    ASSUME Inv, NEW c \in calls, Continue(c)
    PROVE  Inv'
  BY DetailAnsweredInv, ReviewAnsweredInv, ScenarioAnsweredInv, TagAnsweredInv, RunAnsweredInv,
     RunFailedInv, PollAnsweredInv, PollMissedInv, WakeInv, ListAnsweredInv, ListFailedInv,
     GapsAnsweredInv, SummaryAnsweredInv, EditAnsweredInv DEF Continue

\* The invariant is inductive.
LEMMA NextInv == Inv /\ [Next]_vars => Inv'
  BY UserInv, HandleHashChangeInv, HandleInv, ContinueInv, DrainInv, RestInv
  DEF Next, Network, Rest

\* The inductive invariant holds always.
LEMMA Invariant == Spec => []Inv
  BY InitInv, NextInv, PTL DEF Spec

(* Every variable keeps its type: whichever answer arrives after which click, *)
(* the pane holds fields of bricks that exist, and a request goes out with    *)
(* what its handler on the server expects.                                    *)
THEOREM TypeCorrect == Spec => []TypeOK
  <1>1. Inv => TypeOK
    BY DEF Inv
  <1> QED
    BY <1>1, Invariant, PTL

---------------------------------------------------------------------------
(* The verdict and the trace of the Run tab change together. *)

LEMMA VerdictOfUser ==
    ASSUME Inv, VerdictIsOfTrace, User
    PROVE  VerdictIsOfTrace'
  <1> USE InvParts
  <1>1. CASE \E b \in Bricks : SelectBrick(b)
    BY <1>1, ChooseTypes DEF SelectBrick, VerdictIsOfTrace
  <1>2. CASE HandleRunClick
    <2>1. Progress(run, TRUE) \in Runs /\ Progress(run, TRUE).verdict = run.verdict
      BY RunTypes
    <2>2. run'.verdict = run.verdict
      BY <1>2, <2>1, RunTypes DEF HandleRunClick
    <2> QED
      BY <1>2, <2>2 DEF HandleRunClick, VerdictIsOfTrace, place
  <1>3. CASE HandleRefreshClick
    BY <1>3, RunTypes DEF HandleRefreshClick, VerdictIsOfTrace, place
  <1>4. CASE UNCHANGED <<run, trace>>
    BY <1>4 DEF VerdictIsOfTrace
  <1> QED
    BY <1>1, <1>2, <1>3, <1>4
    DEF User, EditHash, ClickTab, HandleReviewStatusClick, TypeScenario, HandleScenarioSubmit,
        HandleTagAddSubmit, HandleTagRemoveClick, HandleEmptyTag, TypeEdit, HandleEditSubmit,
        place

\* A handler that goes on keeps the verdict that of the trace Refresh asks for.
LEMMA VerdictOfHandler ==
    ASSUME Inv, VerdictIsOfTrace, NEW c \in calls, Continue(c)
    PROVE  VerdictIsOfTrace'
  <1> USE InvParts
  <1>1. CASE RunAnswered(c)
    <2> DEFINE t == c.answer.trace
    <2>1. RightAnswer(c)
      BY <1>1 DEF CallsGood, Good, RunAnswered, Answered
    <2>2. t \in Traces
      BY <1>1, <2>1 DEF RightAnswer, RunAnswered
    <2>3. trace' = t /\ run' = PollsBegin(RenderVerdict(run, t))
      BY <1>1 DEF RunAnswered
    <2> HIDE DEF t
    <2>4. RenderVerdict(run, t) \in Runs
      BY <2>2, RunTypes
    <2>5. RenderVerdict(run, t).verdict = t
      BY DEF RenderVerdict, Runs
    <2>6. run'.verdict = t
      BY <2>3, <2>4, <2>5, RunTypes
    <2> QED
      BY <2>3, <2>6 DEF VerdictIsOfTrace
  <1>2. CASE RunFailed(c)
    <2>1. Progress(run, FALSE) \in Runs /\ Progress(run, FALSE).verdict = run.verdict
      BY RunTypes
    <2>2. run'.verdict = run.verdict
      BY <1>2, <2>1, RunTypes DEF RunFailed
    <2> QED
      BY <1>2, <2>2 DEF RunFailed, VerdictIsOfTrace, place
  <1>3. CASE PollAnswered(c)
    <2>1. CASE Answered(c) /\ run' = PollsEnd(RenderRunSpans(run, c.answer.trace))
      <3>1. RightAnswer(c)
        BY <2>1 DEF CallsGood, Good, Answered
      <3>2. c.answer.trace \in Traces
        BY <1>3, <3>1 DEF RightAnswer, PollAnswered
      <3>3. RenderRunSpans(run, c.answer.trace) \in Runs
            /\ RenderRunSpans(run, c.answer.trace).verdict = run.verdict
        BY <3>2 DEF Runs, RenderRunSpans
      <3>4. run'.verdict = run.verdict
        BY <2>1, <3>3, RunTypes
      <3> QED
        BY <1>3, <3>4 DEF PollAnswered, VerdictIsOfTrace, place
    <2>2. CASE run' = PollsEnd(run)
      BY <1>3, <2>2, RunTypes DEF PollAnswered, VerdictIsOfTrace, place
    <2> QED
      BY <1>3, <2>1, <2>2 DEF PollAnswered, EndPolls
  <1>4. CASE PollMissed(c)
    BY <1>4, RunTypes DEF PollMissed, VerdictIsOfTrace, place
  <1>5. CASE Wake(c)
    <2>1. run' = run \/ run' = PollsEnd(run)
      BY <1>5 DEF Wake, EndPolls
    <2> QED
      BY <1>5, <2>1, RunTypes, ZenonT(30) DEF Wake, VerdictIsOfTrace, place
  <1>6. CASE ListAnswered(c)
    <2>1. CASE hash # None
      <3>1. hash \in Bricks /\ Choose(hash)
        BY <1>6, <2>1 DEF ListAnswered, PlaceTypes
      <3> QED
        BY <3>1, ChooseTypes DEF VerdictIsOfTrace
    <2>2. CASE hash = None
      BY <1>6, <2>2 DEF ListAnswered, VerdictIsOfTrace
    <2> QED
      BY <2>1, <2>2
  <1>7. CASE UNCHANGED <<run, trace>>
    BY <1>7 DEF VerdictIsOfTrace
  <1> QED
    BY <1>1, <1>2, <1>3, <1>4, <1>5, <1>6, <1>7
    DEF Continue, DetailAnswered, ReviewAnswered, ScenarioAnswered, TagAnswered, ListFailed,
        GapsAnswered, SummaryAnswered, EditAnswered, place

\* So does a change of the address.
LEMMA VerdictOfHash ==
    ASSUME Inv, VerdictIsOfTrace, HandleHashChange
    PROVE  VerdictIsOfTrace'
  <1> USE InvParts
  <1>1. CASE hash \notin {None, selected}
    <2>1. hash \in Bricks /\ Choose(hash)
      BY <1>1 DEF HandleHashChange, PlaceTypes
    <2> QED
      BY <2>1, ChooseTypes DEF VerdictIsOfTrace
  <1>2. CASE hash \in {None, selected}
    BY <1>2 DEF HandleHashChange, VerdictIsOfTrace
  <1> QED
    BY <1>1, <1>2

(* Refresh never asks for the spans of another trace than the one whose       *)
(* verdict is shown: of any bricks, and with any number of replays and poll   *)
(* loops on their way while the user selects.                                 *)
THEOREM VerdictStays == Spec => []VerdictIsOfTrace
  <1>1. Init => VerdictIsOfTrace
    BY DEF Init, VerdictIsOfTrace
  <1>2. Inv /\ VerdictIsOfTrace /\ [Next]_vars => VerdictIsOfTrace'
    <2> SUFFICES ASSUME Inv, VerdictIsOfTrace, [Next]_vars PROVE VerdictIsOfTrace'
      OBVIOUS
    <2>1. CASE User
      BY <2>1, VerdictOfUser
    <2>2. CASE HandleHashChange
      BY <2>2, VerdictOfHash
    <2>3. ASSUME NEW c \in calls, Continue(c) PROVE VerdictIsOfTrace'
      BY <2>3, VerdictOfHandler
    <2>4. CASE UNCHANGED <<run, trace>>
      BY <2>4 DEF VerdictIsOfTrace
    <2> QED
      BY <2>1, <2>2, <2>3, <2>4 DEF Next, Network, Handle, Drain, Rest, vars, place
  <1> QED
    BY <1>1, <1>2, Invariant, PTL DEF Spec

---------------------------------------------------------------------------
(* Each control has one request at most.  The request of the Run button is    *)
(* followed by the polls of the loop it awaits.                               *)
Control(c) == IF c.kind = "run poll" THEN "run" ELSE c.kind
Work       == {"run"} \cup Polls

Controls ==
    /\ \A k \in Buttons : k \in busy <=> \E c \in calls : Control(c) = k
    /\ \A c, d \in calls : Control(c) = Control(d) /\ Control(c) \in Buttons => c = d
Working  == run.progress => \E c \in calls : c.kind \in Work

\* BusyIsInFlight, in two parts.
LEMMA BusyForm == BusyIsInFlight <=> Controls /\ Working
  <1>1. \A k \in Buttons : \A c : c.kind \in BusyKind(k) <=> Control(c) = k
    BY DEF Buttons, BusyKind, Control
  <1>2. (\A k \in Buttons : k \in busy <=> InFlight(BusyKind(k)) # {})
           <=> (\A k \in Buttons : k \in busy <=> \E c \in calls : Control(c) = k)
    BY <1>1 DEF InFlight
  <1>3. (/\ \A c, d \in calls : c.kind = d.kind /\ c.kind \in Buttons \cup {"run poll"} => c = d
         /\ InFlight({"run"}) = {} \/ InFlight({"run poll"}) = {})
           <=> (\A c, d \in calls : Control(c) = Control(d) /\ Control(c) \in Buttons => c = d)
    BY DEF InFlight, Control, Buttons
  <1>4. (run.progress => InFlight({"run"} \cup Polls) # {}) <=> Working
    BY DEF InFlight, Working, Work
  <1> QED
    BY <1>2, <1>3, <1>4 DEF BusyIsInFlight, Controls

(* What a step does to the requests, and to the controls with it *)
LEMMA OtherCalls ==
    ASSUME Controls, NEW old \in SUBSET calls, NEW new, calls' = (calls \ old) \cup new,
           \A c \in old \cup new : Control(c) \notin Buttons,
           UNCHANGED busy
    PROVE  Controls'
  BY DEF Controls

\* A button is disabled as its request is sent.
LEMMA ClickCalls ==
    ASSUME Controls, NEW r, calls' = calls \cup {r},
           Control(r) \in Buttons \ busy, busy' = busy \cup {Control(r)}
    PROVE  Controls'
  BY DEF Controls

\* A request that goes on for the same button leaves it disabled.
LEMMA SameControl ==
    ASSUME Controls, NEW c \in calls, NEW d, calls' = (calls \ {c}) \cup {d},
           Control(d) = Control(c), UNCHANGED busy
    PROVE  Controls'
  BY DEF Controls

\* A button is enabled as its request ends.
LEMMA EndCalls ==
    ASSUME Controls, NEW c \in calls, End(c),
           \A k \in Buttons : k \in busy' <=> k \in busy /\ k # Control(c)
    PROVE  Controls'
  BY DEF Controls, End

(* The calls of a click, and of none *)
LEMMA SendOther ==
    ASSUME Controls, NEW kind, kind \notin Buttons \cup {"run poll"},
           NEW brick, NEW arg, NEW attempt,
           Send(kind, brick, arg, attempt), UNCHANGED busy
    PROVE  Controls'
  <1> DEFINE r == Request(kind, brick, arg, attempt)
  <1>1. calls' = (calls \ {}) \cup {r}
    BY DEF Send
  <1>2. Control(r) = kind
    BY DEF Request, Control
  <1> HIDE DEF r
  <1>3. {} \in SUBSET calls /\ \A x \in {} \cup {r} : Control(x) \notin Buttons
    BY <1>2
  <1> QED
    BY <1>1, <1>3, OtherCalls

\* A request for a button that was enabled is its only one.
LEMMA SendControl ==
    ASSUME Controls, NEW kind \in Buttons \ busy, NEW brick, NEW arg, NEW attempt,
           Send(kind, brick, arg, attempt), busy' = busy \cup {kind}
    PROVE  Controls'
  <1> DEFINE r == Request(kind, brick, arg, attempt)
  <1>1. calls' = calls \cup {r}
    BY DEF Send
  <1>2. Control(r) = kind
    BY DEF Request, Control, Buttons
  <1> HIDE DEF r
  <1> QED
    BY <1>1, <1>2, ClickCalls

\* The user keeps each disabled button with its one request.
LEMMA ControlsOfUser ==
    ASSUME Inv, Controls, User
    PROVE  Controls'
  <1>1. ASSUME NEW b \in Bricks, SelectBrick(b) PROVE Controls'
    BY <1>1, SendOther DEF SelectBrick, Buttons
  <1>2. ASSUME NEW s \in Statuses, HandleReviewStatusClick(s) PROVE Controls'
    BY <1>2, SendControl DEF HandleReviewStatusClick, Buttons
  <1>3. CASE HandleScenarioSubmit
    BY <1>3, SendControl DEF HandleScenarioSubmit, Buttons
  <1>4. ASSUME NEW t \in Tags, HandleTagAddSubmit(t) PROVE Controls'
    BY <1>4, SendOther DEF HandleTagAddSubmit, Buttons
  <1>5. ASSUME NEW t \in Tags, HandleTagRemoveClick(t) PROVE Controls'
    BY <1>5, SendOther DEF HandleTagRemoveClick, Buttons
  <1>6. CASE HandleRunClick
    BY <1>6, SendControl DEF HandleRunClick, Buttons
  <1>7. CASE HandleRefreshClick
    BY <1>7, SendOther DEF HandleRefreshClick, Buttons
  <1>8. CASE HandleEditSubmit
    BY <1>8, SendControl DEF HandleEditSubmit, Buttons
  <1>9. CASE UNCHANGED <<calls, busy>>
    BY <1>9 DEF Controls
  <1> QED
    BY <1>1, <1>2, <1>3, <1>4, <1>5, <1>6, <1>7, <1>8, <1>9
    DEF User, EditHash, ClickTab, TypeScenario, HandleEmptyTag, TypeEdit

\* So does the server.
LEMMA ControlsOfServer ==
    ASSUME Inv, Controls, NEW c \in calls, Handle(c)
    PROVE  Controls'
  <1>1. c \in Calls
    BY DEF Inv, CallsGood, Good
  <1>2. ASSUME NEW a, Reply(c, a) PROVE Controls'
    <2> DEFINE d == [c EXCEPT !.at = "handled", !.answer = a]
    <2>1. d.kind = c.kind
      BY <1>1, ReplyFields
    <2>2. calls' = (calls \ {c}) \cup {d} /\ UNCHANGED busy
      BY <1>2 DEF Reply, Handle
    <2>3. Control(d) = Control(c)
      BY <2>1 DEF Control
    <2> HIDE DEF d
    <2> QED
      BY <2>2, <2>3, SameControl
  <1>3. \E a : Reply(c, a)
    BY DEF Handle, HandleDetail, HandleReview, HandleScenario, HandleTag, HandleEdit,
       HandleReplay,
           HandlePoll
  <1> QED
    BY <1>2, <1>3

\* So does a handler that sends a further request.
LEMMA ResentControl ==
    ASSUME Controls, NEW c \in calls, c \in Calls, NEW kind \in Kinds, NEW arg, NEW attempt,
           Resend(c, kind, arg, attempt), UNCHANGED busy,
           \/ kind = c.kind
           \/ kind = "run poll" /\ c.kind = "run"
           \/ kind = "summary" /\ c.kind = "gaps"
    PROVE  Controls'
  <1> DEFINE d == [c EXCEPT !.kind = kind, !.arg = arg, !.at = "sent",
                            !.answer = None, !.attempt = attempt]
  <1>1. calls' = (calls \ {c}) \cup {d} /\ d.kind = kind
    BY DEF Resend, Calls
  <1> HIDE DEF d
  <1>2. CASE kind = "summary" /\ c.kind = "gaps"
    <2>1. Control(c) \notin Buttons /\ Control(d) \notin Buttons
      BY <1>1, <1>2 DEF Control, Buttons
    <2>2. {c} \in SUBSET calls /\ \A x \in {c} \cup {d} : Control(x) \notin Buttons
      BY <2>1
    <2> QED
      BY <1>1, <2>2, OtherCalls
  <1>3. CASE kind = c.kind \/ (kind = "run poll" /\ c.kind = "run")
    <2>1. Control(c) = Control(d)
      BY <1>1, <1>3 DEF Control
    <2> QED
      BY <1>1, <2>1, SameControl
  <1> QED
    BY <1>2, <1>3

\* So does every handler.
LEMMA ControlsOfHandler ==
    ASSUME Inv, Controls, NEW c \in calls, Continue(c)
    PROVE  Controls'
  <1>1. c \in Calls /\ (c.at = "asleep" => c.kind \in Polls)
    BY DEF Inv, CallsGood, Good
  <1>2. CASE DetailAnswered(c)
    BY <1>2, EndCalls DEF DetailAnswered, Control, Buttons
  <1>3. CASE ReviewAnswered(c)
    BY <1>3, EndCalls DEF ReviewAnswered, Control, Buttons
  <1>4. CASE ScenarioAnswered(c)
    BY <1>4, EndCalls DEF ScenarioAnswered, Control, Buttons
  <1>5. CASE TagAnswered(c)
    BY <1>5, EndCalls DEF TagAnswered, TagKinds, Control, Buttons
  <1>6. CASE RunAnswered(c)
    <2>1. "run poll" \in Kinds
      BY DEF Kinds, Polls
    <2> QED
      BY <1>1, <1>6, <2>1, ResentControl DEF RunAnswered
  <1>7. CASE RunFailed(c)
    BY <1>7, EndCalls DEF RunFailed, Control, Buttons
  <1>8. ASSUME c.kind \in Polls, NEW r, EndPolls(c, r) PROVE Controls'
    BY <1>8, EndCalls DEF EndPolls, Polls, Control, Buttons
  <1>9. CASE PollAnswered(c)
    BY <1>8, <1>9 DEF PollAnswered
  <1>10. CASE PollMissed(c)
    <2> DEFINE d == [c EXCEPT !.at = "asleep", !.answer = None]
    <2>1. calls' = (calls \ {c}) \cup {d} /\ d.kind = c.kind /\ UNCHANGED busy
      BY <1>1, <1>10 DEF PollMissed, Calls
    <2> HIDE DEF d
    <2> QED
      BY <2>1, SameControl DEF Control
  <1>11. CASE Wake(c)
    <2>1. c.kind \in Polls /\ c.kind \in Kinds
      BY <1>1, <1>11 DEF Wake, Kinds
    <2>2. CASE Resend(c, c.kind, c.arg, c.attempt + 1) /\ UNCHANGED busy
      BY <1>1, <2>1, <2>2, ResentControl
    <2> QED
      BY <1>8, <1>11, <2>1, <2>2 DEF Wake
  <1>12. CASE ListAnswered(c)
    <2> DEFINE next == [c EXCEPT !.kind = "gaps", !.at = "sent", !.answer = None]
               first == Request("detail", hash, None, 0)
    <2>1. next.kind = "gaps"
      BY <1>1 DEF Calls
    <2>2. Control(next) \notin Buttons
      BY <2>1 DEF Control, Buttons
    <2>5. Control(first) \notin Buttons
      BY DEF Request, Control, Buttons
    <2>3. Control(c) \notin Buttons
      BY <1>12 DEF ListAnswered, Control, Buttons
    <2>4. /\ \/ calls' = (calls \ {c}) \cup {next, first}
             \/ calls' = (calls \ {c}) \cup {next}
          /\ UNCHANGED busy
      BY <1>12 DEF ListAnswered
    <2> HIDE DEF next, first
    <2> QED
      BY <2>2, <2>3, <2>4, <2>5, OtherCalls
  <1>13. CASE ListFailed(c)
    BY <1>13, EndCalls DEF ListFailed, Control, Buttons
  <1>14. CASE GapsAnswered(c)
    <2>1. "summary" \in Kinds
      BY DEF Kinds
    <2> QED
      BY <1>1, <1>14, <2>1, ResentControl DEF GapsAnswered
  <1>15. CASE SummaryAnswered(c)
    BY <1>15, EndCalls DEF SummaryAnswered, Control, Buttons
  <1>16. CASE EditAnswered(c)
    BY <1>16, EndCalls DEF EditAnswered, Control, Buttons
  <1> QED
    BY <1>2, <1>3, <1>4, <1>5, <1>6, <1>7, <1>9, <1>10, <1>11, <1>12, <1>13, <1>14, <1>15, <1>16
    DEF Continue

\* So does a change of the address.
LEMMA ControlsOfHash ==
    ASSUME Inv, Controls, HandleHashChange
    PROVE  Controls'
  <1>1. CASE hash \notin {None, selected}
    BY <1>1, SendOther DEF HandleHashChange, Buttons
  <1>2. CASE hash \in {None, selected}
    BY <1>2 DEF HandleHashChange, Controls
  <1> QED
    BY <1>1, <1>2

(* The progress bar is shown while something is on its way: what starts it    *)
(* sends the request, what ends the last request stops it.                    *)
LEMMA SameWork ==
    ASSUME Working, run'.progress => run.progress, calls \subseteq calls'
    PROVE  Working'
  BY DEF Working

\* A request about the Run tab is work on its way.
LEMMA SentWork ==
    ASSUME NEW kind \in Work, NEW brick, NEW arg, NEW attempt, Send(kind, brick, arg, attempt)
    PROVE  Working'
  <1> DEFINE r == Request(kind, brick, arg, attempt)
  <1>1. r \in calls'
    BY DEF Send
  <1>2. r.kind = kind
    BY DEF Request
  <1> HIDE DEF r
  <1> QED
    BY <1>1, <1>2 DEF Working

\* Without work of its own, a request may end.
LEMMA LessWork ==
    ASSUME Working, run'.progress => run.progress, NEW c \in calls,
           c.kind \notin Work, \A d \in calls : d = c \/ d \in calls'
    PROVE  Working'
  BY DEF Working

\* A request that is followed by one of its kind keeps the work on its way.
LEMMA KeptWork ==
    ASSUME Working, run'.progress => run.progress, NEW c \in calls, NEW d \in calls',
           d.kind = c.kind, \A e \in calls : e = c \/ e \in calls'
    PROVE  Working'
  BY DEF Working

\* The user keeps the sign of progress with work on its way.
LEMMA WorkingOfUser ==
    ASSUME Inv, Working, User
    PROVE  Working'
  <1> USE InvParts
  <1>1. ASSUME NEW b \in Bricks, SelectBrick(b) PROVE Working'
    <2>1. run'.progress = run.progress
      BY <1>1, ChooseTypes DEF SelectBrick
    <2> QED
      BY <1>1, <2>1, SameWork DEF SelectBrick, Send
  <1>2. CASE HandleRunClick
    BY <1>2, SentWork DEF HandleRunClick, Work
  <1>3. CASE HandleRefreshClick
    BY <1>3, SentWork DEF HandleRefreshClick, Work, Polls
  <1>4. CASE UNCHANGED run /\ calls \subseteq calls'
    BY <1>4, SameWork
  <1> QED
    BY <1>1, <1>2, <1>3, <1>4
    DEF User, EditHash, ClickTab, HandleReviewStatusClick, TypeScenario, HandleScenarioSubmit,
        HandleTagAddSubmit, HandleTagRemoveClick, HandleEmptyTag, TypeEdit, HandleEditSubmit, Send

\* So does the server.
LEMMA WorkingOfServer ==
    ASSUME Inv, Working, NEW c \in calls, Handle(c)
    PROVE  Working'
  <1>1. c \in Calls
    BY DEF Inv, CallsGood, Good
  <1>2. ASSUME NEW a, Reply(c, a) PROVE Working'
    <2> DEFINE d == [c EXCEPT !.at = "handled", !.answer = a]
    <2>1. d.kind = c.kind
      BY <1>1, ReplyFields
    <2>2. calls' = (calls \ {c}) \cup {d} /\ UNCHANGED run
      BY <1>2 DEF Reply, Handle
    <2> HIDE DEF d
    <2> QED
      BY <2>1, <2>2, KeptWork
  <1>3. \E a : Reply(c, a)
    BY DEF Handle, HandleDetail, HandleReview, HandleScenario, HandleTag, HandleEdit,
       HandleReplay,
           HandlePoll
  <1> QED
    BY <1>2, <1>3

\* So does every handler.
LEMMA WorkingOfHandler ==
    ASSUME Inv, Working, NEW c \in calls, Continue(c)
    PROVE  Working'
  <1> USE InvParts
  <1>1. c \in Calls /\ (c.at = "asleep" => c.kind \in Polls)
    BY DEF CallsGood, Good
  <1>2. ASSUME c.kind \notin Work, End(c), UNCHANGED run PROVE Working'
    BY <1>2, LessWork DEF End
  <1>3. CASE RunAnswered(c)
    <2> DEFINE d == [c EXCEPT !.kind = "run poll", !.arg = c.answer.trace, !.at = "sent",
                              !.answer = None, !.attempt = 1]
    <2>1. d \in calls' /\ d.kind = "run poll"
      BY <1>1, <1>3 DEF RunAnswered, Resend, Calls
    <2> HIDE DEF d
    <2> QED
      BY <2>1 DEF Working, Work, Polls
  <1>4. CASE RunFailed(c)
    <2>1. Progress(run, FALSE) \in Runs /\ Progress(run, FALSE).progress = FALSE
      BY RunTypes
    <2>2. run'.progress = FALSE
      BY <1>4, <2>1, RunTypes DEF RunFailed
    <2> QED
      BY <2>2 DEF Working
  <1>5. CASE PollAnswered(c)
    <2>1. CASE Answered(c) /\ run' = PollsEnd(RenderRunSpans(run, c.answer.trace))
      <3>1. RightAnswer(c)
        BY <2>1 DEF CallsGood, Good, Answered
      <3>2. c.answer.trace \in Traces
        BY <1>5, <3>1 DEF RightAnswer, PollAnswered
      <3>3. RenderRunSpans(run, c.answer.trace) \in Runs
        BY <3>2, RunTypes
      <3>4. run'.progress = FALSE
        BY <2>1, <3>3, RunTypes
      <3> QED
        BY <3>4 DEF Working
    <2>2. CASE run' = PollsEnd(run)
      BY <2>2, RunTypes DEF Working
    <2> QED
      BY <1>5, <2>1, <2>2 DEF PollAnswered, EndPolls
  <1>6. CASE PollMissed(c)
    <2> DEFINE d == [c EXCEPT !.at = "asleep", !.answer = None]
    <2>1. calls' = (calls \ {c}) \cup {d} /\ d.kind = c.kind
      BY <1>1, <1>6 DEF PollMissed, Calls
    <2>2. run'.progress = run.progress
      BY <1>6, RunTypes DEF PollMissed
    <2> HIDE DEF d
    <2> QED
      BY <2>1, <2>2, KeptWork
  <1>7. CASE Wake(c)
    <2>1. CASE run' = PollsEnd(run)
      BY <2>1, RunTypes DEF Working
    <2>2. CASE Resend(c, c.kind, c.arg, c.attempt + 1) /\ UNCHANGED run
      <3> DEFINE d == [c EXCEPT !.kind = c.kind, !.arg = c.arg, !.at = "sent",
                                !.answer = None, !.attempt = c.attempt + 1]
      <3>1. calls' = (calls \ {c}) \cup {d} /\ d.kind = c.kind
        BY <1>1, <2>2 DEF Resend, Calls
      <3> HIDE DEF d
      <3> QED
        BY <2>2, <3>1, KeptWork
    <2> QED
      BY <1>7, <2>1, <2>2 DEF Wake, EndPolls
  <1>8. CASE ListAnswered(c)
    <2>1. c.kind \notin Work
      BY <1>8 DEF ListAnswered, Work, Polls
    <2>2. CASE hash # None
      <3>1. hash \in Bricks /\ Choose(hash)
        BY <1>8, <2>2 DEF ListAnswered, PlaceTypes
      <3>2. run'.progress = run.progress
        BY <3>1, ChooseTypes
      <3>3. \A e \in calls : e = c \/ e \in calls'
        BY <1>8, <2>2 DEF ListAnswered
      <3> QED
        BY <2>1, <3>2, <3>3, LessWork
    <2>3. CASE hash = None
      <3>1. (\A e \in calls : e = c \/ e \in calls') /\ UNCHANGED run
        BY <1>8, <2>3 DEF ListAnswered
      <3> QED
        BY <2>1, <3>1, LessWork
    <2> QED
      BY <2>2, <2>3
  <1>9. CASE GapsAnswered(c)
    BY <1>9, LessWork DEF GapsAnswered, Resend, Work, Polls
  <1>10. CASE DetailAnswered(c) \/ ReviewAnswered(c) \/ ScenarioAnswered(c) \/ TagAnswered(c)
    BY <1>2, <1>10
    DEF DetailAnswered, ReviewAnswered, ScenarioAnswered, TagAnswered, TagKinds, Work, Polls
  <1>11. CASE ListFailed(c) \/ SummaryAnswered(c) \/ EditAnswered(c)
    BY <1>2, <1>11 DEF ListFailed, SummaryAnswered, EditAnswered, Work, Polls
  <1> QED
    BY <1>3, <1>4, <1>5, <1>6, <1>7, <1>8, <1>9, <1>10, <1>11 DEF Continue

\* So does a change of the address.
LEMMA WorkingOfHash ==
    ASSUME Inv, Working, HandleHashChange
    PROVE  Working'
  <1> USE InvParts
  <1>1. CASE hash \notin {None, selected}
    <2>1. hash \in Bricks /\ Choose(hash)
      BY <1>1 DEF HandleHashChange, PlaceTypes
    <2>2. run'.progress = run.progress
      BY <2>1, ChooseTypes
    <2> QED
      BY <1>1, <2>2, SameWork DEF HandleHashChange, Send
  <1>2. CASE hash \in {None, selected}
    BY <1>2 DEF HandleHashChange, Working
  <1> QED
    BY <1>1, <1>2

(* A control is disabled exactly while its one request is on its way, and the *)
(* progress bar is never shown for nothing: whatever else is clicked, answered *)
(* or lost meanwhile, and however long the poll loop is.                      *)
THEOREM ControlsMatch == Spec => []BusyIsInFlight
  <1>1. Init => Controls /\ Working
    <2> SUFFICES ASSUME Init PROVE Controls /\ Working
      OBVIOUS
    <2> DEFINE c == [id |-> 1, kind |-> "list", brick |-> None, arg |-> None, at |-> "sent",
                     answer |-> None, attempt |-> 0]
    <2>1. calls = {c} /\ busy = {} /\ run.progress = FALSE
      BY DEF Init
    <2>2. Control(c) \notin Buttons
      BY DEF Control, Buttons
    <2> HIDE DEF c
    <2> QED
      BY <2>1, <2>2 DEF Controls, Working
  <1>2. Inv /\ Controls /\ Working /\ [Next]_vars => Controls' /\ Working'
    <2> SUFFICES ASSUME Inv, Controls, Working, [Next]_vars PROVE Controls' /\ Working'
      OBVIOUS
    <2>1. CASE User
      BY <2>1, ControlsOfUser, WorkingOfUser
    <2>2. CASE HandleHashChange
      BY <2>2, ControlsOfHash, WorkingOfHash
    <2>3. ASSUME NEW c \in calls, Handle(c) PROVE Controls' /\ Working'
      BY <2>3, ControlsOfServer, WorkingOfServer
    <2>4. ASSUME NEW c \in calls, Continue(c) PROVE Controls' /\ Working'
      BY <2>4, ControlsOfHandler, WorkingOfHandler
    <2>5. CASE UNCHANGED <<calls, run, busy>>
      BY <2>5 DEF Controls, Working
    <2> QED
      BY <2>1, <2>2, <2>3, <2>4, <2>5 DEF Next, Network, Drain, Rest, vars
  <1>3. Spec => [](Controls /\ Working)
    BY <1>1, <1>2, Invariant, PTL DEF Spec
  <1> QED
    BY <1>3, BusyForm, PTL
============================================================================
