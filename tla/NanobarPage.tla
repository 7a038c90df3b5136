---------------------------- MODULE NanobarPage ----------------------------
(***************************************************************************)
(* The detail page of one nanobar, in one browser tab: its bricks in the    *)
(* left pane, the brick selected last in the right one with its Detail and  *)
(* Run tabs.  JavaScript runs one piece of code at a time, from one await   *)
(* to the next, and such a piece is one action here; between two of them    *)
(* the user goes on and other answers arrive.  A request is sent, handled   *)
(* by the server, and answered; any two may overtake each other on the way, *)
(* and any may be lost, before or after the server has handled it.  The     *)
(* handler that waits for the answer lives in the record of its request.    *)
(***************************************************************************)
EXTENDS Naturals

CONSTANTS
    Bricks, Statuses, Tags, Labels,
    Attempts,    \* SPAN_POLL_ATTEMPTS
    MaxCalls,    \* bound of the model: handlers waiting at the same time
    MaxActs,     \* bound of the model: what the user does
    MaxReplays,  \* bound of the model: replays the server performs
    None, Refused

ASSUME NanobarPageAssumption ==
    /\ Attempts \in Nat \ {0} /\ MaxCalls \in Nat \ {0}
    /\ MaxActs \in Nat /\ MaxReplays \in Nat
    /\ Statuses # {} /\ Labels # {}
    /\ None \notin Bricks \cup (Bricks \X (1..MaxReplays))

VARIABLES
    (* the server *)
    review, scenario, tags,  \* of each brick
    label,                   \* of the nanobar, for all that the edit form has
    replays,                 \* how many replays it has made
    queued, drained,         \* the traces whose spans wait for the drain worker; are stored
    (* the page *)
    calls,      \* the handlers that wait, each with its request
    status,     \* what the page as a whole shows
    gaps,       \* what the coverage section shows
    editForm,   \* the label in the edit form; None while the summary is hidden
    selected,   \* selectedBrickId
    trace,      \* lastReplayTraceId
    hash,       \* the brick in window.location.hash
    hashEvents, \* hashchange events to come
    detail,     \* the right pane
    run,        \* its Run tab
    busy,       \* the controls that are disabled while their request is on its way
    errors,     \* the error messages shown
    (* history *)
    acts,
    hasty       \* the user did not wait for an answer about the brick in the pane

stored  == <<queued, drained>>
server  == <<review, scenario, tags, label, replays, stored>>
loading == <<status, gaps>>
place   == <<selected, trace, hash, hashEvents>>
history == <<acts, hasty>>
vars    == <<server, calls, loading, editForm, place, detail, run, busy, errors, history>>

(* What a form, a pill or a stored scenario holds, with the brick it is of *)
Texts  == Bricks \X {0, 1}                \* as stored first; as typed by the user
Traces == Bricks \X (1..MaxReplays)
Owned(S) == (Bricks \X S) \cup {None}

Details == [brick : Bricks \cup {None},   \* whose fields are shown; None: nothing is
            pill  : Owned(Statuses), form : Texts \cup {None}, chips : Owned(SUBSET Tags),
            tab   : {"detail", "run"}]

Runs == [message : {"hidden", "running", "waiting", "error"},
         verdict : Traces \cup {None}, spans : Traces \cup {None},
         refresh : BOOLEAN,   \* the Refresh button is enabled
         progress : BOOLEAN]  \* the progress bar is shown

Answers == [brick : Bricks \cup {None}, review : Statuses \cup {None},
            scenario : Texts \cup {None}, tags : (SUBSET Tags) \cup {None},
            trace : Traces \cup {None}, label : Labels \cup {None}]

Buttons == {"review", "scenario", "run", "edit"}
Polls   == {"poll", "run poll"}   \* of the Refresh button; of the Run button
Kinds   == {"list", "gaps", "summary", "edit", "detail", "review", "scenario",
            "add tag", "remove tag", "run"} \cup Polls
Ids     == 1..MaxCalls

Calls == [id : Ids, kind : Kinds, brick : Bricks \cup {None},
          arg : Statuses \cup Texts \cup Tags \cup Labels \cup Traces \cup {None},
          at : {"sent", "handled", "asleep"}, answer : Answers \cup {None, Refused},
          attempt : 0..Attempts]

TypeOK ==
    /\ review \in [Bricks -> Statuses] /\ scenario \in [Bricks -> Texts]
    /\ tags \in [Bricks -> SUBSET Tags] /\ label \in Labels
    /\ replays \in 0..MaxReplays /\ queued \subseteq Traces /\ drained \subseteq Traces
    /\ calls \subseteq Calls
    /\ status \in {"loading", "shown", "not found", "unreached"}
    /\ gaps \in {"hidden", "loading", "told"}
    /\ editForm \in Labels \cup {None}
    /\ selected \in Bricks \cup {None} /\ trace \in Traces \cup {None}
    /\ hash \in Bricks \cup {None} /\ hashEvents \in Nat
    /\ detail \in Details /\ run \in Runs
    /\ busy \subseteq Buttons /\ errors \subseteq Buttons \cup {"tags"}
    /\ acts \in 0..MaxActs /\ hasty \in BOOLEAN

---------------------------------------------------------------------------
(* Requests *)

Free == \E i \in Ids : \A c \in calls : c.id # i
Id   == CHOOSE i \in Ids : \A c \in calls : c.id # i

Request(kind, brick, arg, attempt) ==
    [id |-> Id, kind |-> kind, brick |-> brick, arg |-> arg, at |-> "sent",
     answer |-> None, attempt |-> attempt]

Send(kind, brick, arg, attempt) ==
    /\ Free
    /\ calls' = calls \cup {Request(kind, brick, arg, attempt)}

(* The handler of c goes on with another request. *)
Resend(c, kind, arg, attempt) ==
    calls' = (calls \ {c}) \cup {[c EXCEPT !.kind = kind, !.arg = arg, !.at = "sent",
                                           !.answer = None, !.attempt = attempt]}

End(c) == calls' = calls \ {c}

(* What the handler of c finds when it goes on: an answer that says "success", *)
(* or a failure, which is no answer at all, so that fetch() throws, or one that *)
(* says "error", to the request as it was sent.                                *)
Answered(c) == c.at = "handled" /\ c.answer # Refused
Failed(c)   == c.at # "asleep"

InFlight(K) == {c \in calls : c.kind \in K}

(* The user does something.  It is hasty when it concerns a brick whose pane *)
(* is still on its way, or when requests of the kinds K are.                 *)
Act(K) ==
    /\ acts < MaxActs
    /\ acts' = acts + 1
    /\ hasty' = (hasty \/ InFlight(K) # {})

---------------------------------------------------------------------------
(* The server: the reading or writing of one request.  What the three requests *)
(* of loadNanobar() read, nothing changes before they are answered, so they    *)
(* have no step of their own here.                                             *)

NoAnswer == [brick |-> None, review |-> None, scenario |-> None, tags |-> None,
             trace |-> None, label |-> None]

Reply(c, a) ==
    calls' = (calls \ {c}) \cup {[c EXCEPT !.at = "handled", !.answer = a]}

HandleDetail(c) ==
    /\ c.kind = "detail"
    /\ Reply(c, [NoAnswer EXCEPT !.brick = c.brick, !.review = review[c.brick],
                                 !.scenario = scenario[c.brick], !.tags = tags[c.brick]])
    /\ UNCHANGED server

HandleReview(c) ==
    /\ c.kind = "review"
    /\ review' = [review EXCEPT ![c.brick] = c.arg]
    /\ Reply(c, [NoAnswer EXCEPT !.brick = c.brick, !.review = c.arg])
    /\ UNCHANGED <<scenario, tags, label, replays, stored>>

HandleScenario(c) ==
    /\ c.kind = "scenario"
    /\ scenario' = [scenario EXCEPT ![c.brick] = c.arg]
    /\ Reply(c, [NoAnswer EXCEPT !.brick = c.brick, !.scenario = c.arg])
    /\ UNCHANGED <<review, tags, label, replays, stored>>

HandleTag(c) ==
    LET new == IF c.kind = "add tag" THEN tags[c.brick] \cup {c.arg}
                                     ELSE tags[c.brick] \ {c.arg}
    IN /\ c.kind \in {"add tag", "remove tag"}
       /\ tags' = [tags EXCEPT ![c.brick] = new]
       /\ Reply(c, [NoAnswer EXCEPT !.brick = c.brick, !.tags = new])
       /\ UNCHANGED <<review, scenario, label, replays, stored>>

HandleEdit(c) ==
    /\ c.kind = "edit"
    /\ label' = c.arg
    /\ Reply(c, [NoAnswer EXCEPT !.label = c.arg])
    /\ UNCHANGED <<review, scenario, tags, replays, stored>>

HandleReplay(c) ==
    /\ c.kind = "run" /\ replays < MaxReplays
    /\ replays' = replays + 1
    /\ queued' = queued \cup {<<c.brick, replays + 1>>}
    /\ Reply(c, [NoAnswer EXCEPT !.trace = <<c.brick, replays + 1>>])
    /\ UNCHANGED <<review, scenario, tags, label, drained>>

HandlePoll(c) ==
    /\ c.kind \in Polls
    /\ Reply(c, IF c.arg \in drained THEN [NoAnswer EXCEPT !.trace = c.arg] ELSE Refused)
    /\ UNCHANGED server

Handle(c) ==
    /\ c.at = "sent"
    /\ \/ HandleDetail(c) \/ HandleReview(c) \/ HandleScenario(c) \/ HandleTag(c)
       \/ HandleEdit(c) \/ HandleReplay(c) \/ HandlePoll(c)
    /\ UNCHANGED <<loading, editForm, place, detail, run, busy, errors, history>>

(* The drain worker stores the spans of a replay. *)
Drain ==
    /\ \E t \in queued : queued' = queued \ {t} /\ drained' = drained \cup {t}
    /\ UNCHANGED <<review, scenario, tags, label, replays, calls, loading, editForm, place,
                   detail, run, busy, errors, history>>

---------------------------------------------------------------------------
(* What nanobar-ui.js does to the right pane and its Run tab. *)

ShowTab(d, t)      == [d EXCEPT !.tab = t]
ShowDetailEmpty(d) == [d EXCEPT !.brick = None]
RenderReview(d, a)   == [d EXCEPT !.pill = <<a.brick, a.review>>]
RenderScenario(d, a) == [d EXCEPT !.form = a.scenario]
RenderTags(d, a)     == [d EXCEPT !.chips = <<a.brick, a.tags>>]

(* Mutant of RenderDetail: the form is filled the first time only. *)
RenderDetailKeepsForm(d, a) ==
    RenderTags(RenderReview([d EXCEPT !.brick = a.brick,
                                      !.form = IF d.form = None THEN a.scenario ELSE d.form], a), a)

RenderDetail(d, a) ==
    RenderTags(RenderScenario(RenderReview([d EXCEPT !.brick = a.brick], a), a), a)

(* Mutant of ResetRunTab: the spans of the brick before stay. *)
ResetRunTabKeepsSpans(r) ==
    [r EXCEPT !.message = "hidden", !.verdict = None, !.refresh = FALSE]

(* Mutant of ResetRunTab: the verdict of the brick before stays. *)
ResetRunTabKeepsVerdict(r) ==
    [r EXCEPT !.message = "hidden", !.spans = None, !.refresh = FALSE]

ResetRunTab(r) ==
    [r EXCEPT !.message = "hidden", !.verdict = None, !.spans = None, !.refresh = FALSE]

RenderVerdict(r, t)  == [r EXCEPT !.message = "hidden", !.verdict = t, !.refresh = TRUE]
RenderRunSpans(r, t) == [r EXCEPT !.spans = t]
Message(r, m)        == [r EXCEPT !.message = m]
Progress(r, on)      == [r EXCEPT !.progress = on]

(* handleRefreshClick() before its first request, and its finally clause *)
PollsBegin(r) == Progress([r EXCEPT !.refresh = FALSE], TRUE)
PollsEnd(r)   == Progress([r EXCEPT !.refresh = TRUE], FALSE)

---------------------------------------------------------------------------
(* Selecting a brick *)

BrickKinds == {"detail", "review", "scenario", "add tag", "remove tag", "run"} \cup Polls

Choose(b) ==
    /\ selected' = b
    /\ trace' = None
    /\ detail' = ShowTab(detail, "detail")
    /\ run' = ResetRunTab(run)

SetHash(b) ==
    /\ hash' = b
    /\ hashEvents' = hashEvents + (IF hash = b THEN 0 ELSE 1)

SelectBrick(b) ==
    /\ status = "shown"
    /\ Act(BrickKinds)
    /\ Choose(b)
    /\ SetHash(b)
    /\ Send("detail", b, None, 0)
    /\ UNCHANGED <<server, loading, editForm, busy, errors>>

(* The user goes back, or edits the address: any time, the page is listening. *)
EditHash(b) ==
    /\ hash # b
    /\ Act({})
    /\ SetHash(b)
    /\ UNCHANGED <<server, calls, loading, editForm, selected, trace, detail, run, busy, errors>>

HandleHashChange ==
    /\ hashEvents > 0
    /\ hashEvents' = hashEvents - 1
    /\ IF hash \notin {None, selected}
       THEN /\ Choose(hash)
            /\ Send("detail", hash, None, 0)
            /\ hasty' = (hasty \/ InFlight(BrickKinds) # {})
       ELSE UNCHANGED <<selected, trace, detail, run, calls, hasty>>
    /\ UNCHANGED <<server, loading, editForm, hash, busy, errors, acts>>

DetailAnswered(c) ==
    /\ c.kind = "detail"
    /\ \/ Answered(c) /\ detail' = RenderDetail(detail, c.answer)
       \/ Failed(c) /\ detail' = ShowDetailEmpty(detail)
    /\ End(c)
    /\ UNCHANGED <<server, loading, editForm, place, run, busy, errors, history>>

---------------------------------------------------------------------------
(* The Detail tab *)

DetailTab == detail.brick # None /\ detail.tab = "detail"
RunTab    == detail.brick # None /\ detail.tab = "run"

ClickTab(t) ==
    /\ detail.brick # None /\ detail.tab # t
    /\ detail' = ShowTab(detail, t)
    /\ UNCHANGED <<server, calls, loading, editForm, place, run, busy, errors, history>>

HandleReviewStatusClick(s) ==
    /\ DetailTab /\ "review" \notin busy
    /\ Act({"detail"})
    /\ errors' = errors \ {"review"}
    /\ busy' = busy \cup {"review"}
    /\ Send("review", selected, s, 0)
    /\ UNCHANGED <<server, loading, editForm, place, detail, run>>

(* Mutant of ReviewAnswered: a failure is not told. *)
ReviewAnsweredSilent(c) ==
    /\ c.kind = "review"
    /\ \/ Answered(c) /\ detail' = RenderReview(detail, c.answer)
       \/ Failed(c) /\ UNCHANGED detail
    /\ busy' = busy \ {"review"}
    /\ End(c)
    /\ UNCHANGED <<server, loading, editForm, place, run, errors, history>>

ReviewAnswered(c) ==
    /\ c.kind = "review"
    /\ \/ /\ Answered(c)
          /\ detail' = RenderReview(detail, c.answer)
          /\ UNCHANGED errors
       \/ /\ Failed(c)
          /\ errors' = errors \cup {"review"}
          /\ UNCHANGED detail
    /\ busy' = busy \ {"review"}
    /\ End(c)
    /\ UNCHANGED <<server, loading, editForm, place, run, history>>

TypeScenario ==
    /\ DetailTab
    /\ Act({})
    /\ detail' = [detail EXCEPT !.form = <<detail.brick, 1>>]
    /\ UNCHANGED <<server, calls, loading, editForm, place, run, busy, errors>>

HandleScenarioSubmit ==
    /\ DetailTab /\ "scenario" \notin busy
    /\ Act({"detail"})
    /\ errors' = errors \ {"scenario"}
    /\ busy' = busy \cup {"scenario"}
    /\ Send("scenario", selected, detail.form, 0)
    /\ UNCHANGED <<server, loading, editForm, place, detail, run>>

ScenarioAnswered(c) ==
    /\ c.kind = "scenario"
    /\ \/ /\ Answered(c)
          /\ detail' = RenderScenario(detail, c.answer)
          /\ UNCHANGED errors
       \/ /\ Failed(c)
          /\ errors' = errors \cup {"scenario"}
          /\ UNCHANGED detail
    /\ busy' = busy \ {"scenario"}
    /\ End(c)
    /\ UNCHANGED <<server, loading, editForm, place, run, history>>

(* The two requests about tags disable nothing: they may overtake each other. *)
TagKinds == {"add tag", "remove tag"}

HandleTagAddSubmit(t) ==
    /\ DetailTab
    /\ Act({"detail"} \cup TagKinds)
    /\ errors' = errors \ {"tags"}
    /\ Send("add tag", selected, t, 0)
    /\ UNCHANGED <<server, loading, editForm, place, detail, run, busy>>

HandleEmptyTag ==
    /\ DetailTab
    /\ Act({})
    /\ errors' = errors \cup {"tags"}
    /\ UNCHANGED <<server, calls, loading, editForm, place, detail, run, busy>>

HandleTagRemoveClick(t) ==
    /\ DetailTab /\ detail.chips # None /\ t \in detail.chips[2]
    /\ Act({"detail"} \cup TagKinds)
    /\ errors' = errors \ {"tags"}
    /\ Send("remove tag", selected, t, 0)
    /\ UNCHANGED <<server, loading, editForm, place, detail, run, busy>>

TagAnswered(c) ==
    /\ c.kind \in TagKinds
    /\ \/ /\ Answered(c)
          /\ detail' = RenderTags(detail, c.answer)
          /\ UNCHANGED errors
       \/ /\ Failed(c)
          /\ errors' = errors \cup {"tags"}
          /\ UNCHANGED detail
    /\ End(c)
    /\ UNCHANGED <<server, loading, editForm, place, run, busy, history>>

---------------------------------------------------------------------------
(* The Run tab *)

HandleRunClick ==
    /\ RunTab /\ "run" \notin busy
    /\ Act({"detail"} \cup Polls)
    /\ busy' = busy \cup {"run"}
    /\ run' = Message(Progress(run, TRUE), "running")
    /\ Send("run", selected, None, 0)
    /\ UNCHANGED <<server, loading, editForm, place, detail, errors>>

(* The verdict is shown, and handleRunClick() awaits handleRefreshClick(). *)
RunAnswered(c) ==
    /\ c.kind = "run" /\ Answered(c)
    /\ trace' = c.answer.trace
    /\ run' = PollsBegin(RenderVerdict(run, c.answer.trace))
    /\ Resend(c, "run poll", c.answer.trace, 1)
    /\ UNCHANGED <<server, loading, editForm, selected, hash, hashEvents, detail, busy,
                   errors, history>>

RunFailed(c) ==
    /\ c.kind = "run" /\ Failed(c)
    /\ run' = Message(Progress(run, FALSE), "error")
    /\ busy' = busy \ {"run"}
    /\ End(c)
    /\ UNCHANGED <<server, loading, editForm, place, detail, errors, history>>

HandleRefreshClick ==
    /\ RunTab /\ run.refresh /\ trace # None
    /\ Act({"detail", "run"} \cup Polls)
    /\ run' = PollsBegin(run)
    /\ Send("poll", selected, trace, 1)
    /\ UNCHANGED <<server, loading, editForm, place, detail, busy, errors>>

(* Mutant of EndPolls: any loop that ends gives the Run button back. *)
EndPollsFreesRun(c, r) == run' = PollsEnd(r) /\ busy' = busy \ {"run"} /\ End(c)

(* A poll loop ends; a loop that handleRunClick() awaits ends that too. *)
EndPolls(c, r) ==
    /\ run' = PollsEnd(r)
    /\ busy' = busy \ (IF c.kind = "run poll" THEN {"run"} ELSE {})
    /\ End(c)

PollAnswered(c) ==
    /\ c.kind \in Polls
    /\ \/ Answered(c) /\ EndPolls(c, RenderRunSpans(run, c.answer.trace))
       \/ Failed(c) /\ EndPolls(c, run)
    /\ UNCHANGED <<server, loading, editForm, place, detail, errors, history>>

(* The spans are not there yet: sleep. *)
PollMissed(c) ==
    /\ c.kind \in Polls /\ c.at = "handled" /\ c.answer = Refused
    /\ run' = IF c.attempt = 1 THEN Message(run, "waiting") ELSE run
    /\ calls' = (calls \ {c}) \cup {[c EXCEPT !.at = "asleep", !.answer = None]}
    /\ UNCHANGED <<server, loading, editForm, place, detail, busy, errors, history>>

(* Mutant of Wake: one poll too many. *)
WakeOnceMore(c) ==
    /\ c.at = "asleep"
    /\ IF c.attempt <= Attempts /\ trace = c.arg
       THEN Resend(c, c.kind, c.arg, c.attempt + 1) /\ UNCHANGED <<run, busy>>
       ELSE EndPolls(c, run)
    /\ UNCHANGED <<server, loading, editForm, place, detail, errors, history>>

(* Mutant of Wake: it polls until the spans are there. *)
WakeForEver(c) ==
    /\ c.at = "asleep"
    /\ IF trace = c.arg
       THEN Resend(c, c.kind, c.arg, c.attempt) /\ UNCHANGED <<run, busy>>
       ELSE EndPolls(c, run)
    /\ UNCHANGED <<server, loading, editForm, place, detail, errors, history>>

Wake(c) ==
    /\ c.at = "asleep"
    /\ IF c.attempt < Attempts /\ trace = c.arg
       THEN Resend(c, c.kind, c.arg, c.attempt + 1) /\ UNCHANGED <<run, busy>>
       ELSE EndPolls(c, run)
    /\ UNCHANGED <<server, loading, editForm, place, detail, errors, history>>

---------------------------------------------------------------------------
(* Loading the page, and editing the nanobar *)

(* With a brick in the address, loadNanobar() selects it on the way. *)
ListAnswered(c) ==
    /\ c.kind = "list"
    /\ status' = "shown"
    /\ gaps' = "loading"
    /\ LET next == [c EXCEPT !.kind = "gaps", !.at = "sent", !.answer = None]
       IN IF hash # None
          THEN /\ Free
               /\ Choose(hash)
               /\ calls' = (calls \ {c}) \cup {next, Request("detail", hash, None, 0)}
               /\ hasty' = (hasty \/ InFlight(BrickKinds) # {})
          ELSE /\ calls' = (calls \ {c}) \cup {next}
               /\ UNCHANGED <<selected, trace, detail, run, hasty>>
    /\ UNCHANGED <<server, editForm, hash, hashEvents, busy, errors, acts>>

ListFailed(c) ==
    /\ c.kind = "list"
    /\ status' \in {"not found", "unreached"}
    /\ End(c)
    /\ UNCHANGED <<server, gaps, editForm, place, detail, run, busy, errors, history>>

GapsAnswered(c) ==
    /\ c.kind = "gaps"
    /\ gaps' = "told"
    /\ Resend(c, "summary", None, 0)
    /\ UNCHANGED <<server, status, editForm, place, detail, run, busy, errors, history>>

SummaryAnswered(c) ==
    /\ c.kind = "summary"
    /\ editForm' \in {label, None}
    /\ End(c)
    /\ UNCHANGED <<server, loading, place, detail, run, busy, errors, history>>

TypeEdit(l) ==
    /\ editForm \notin {None, l}
    /\ Act({})
    /\ editForm' = l
    /\ UNCHANGED <<server, calls, loading, place, detail, run, busy, errors>>

HandleEditSubmit ==
    /\ editForm # None /\ "edit" \notin busy
    /\ Act({})
    /\ errors' = errors \ {"edit"}
    /\ busy' = busy \cup {"edit"}
    /\ Send("edit", None, editForm, 0)
    /\ UNCHANGED <<server, loading, editForm, place, detail, run>>

EditAnswered(c) ==
    /\ c.kind = "edit"
    /\ \/ Answered(c) /\ editForm' = c.answer.label /\ UNCHANGED errors
       \/ Failed(c) /\ errors' = errors \cup {"edit"} /\ UNCHANGED editForm
    /\ busy' = busy \ {"edit"}
    /\ End(c)
    /\ UNCHANGED <<server, loading, place, detail, run, history>>

---------------------------------------------------------------------------
Init ==
    /\ review = [b \in Bricks |-> CHOOSE s \in Statuses : TRUE]
    /\ scenario = [b \in Bricks |-> <<b, 0>>]
    /\ tags = [b \in Bricks |-> {}]
    /\ label = CHOOSE l \in Labels : TRUE
    /\ replays = 0 /\ queued = {} /\ drained = {}
    /\ calls = {[id |-> 1, kind |-> "list", brick |-> None, arg |-> None, at |-> "sent",
                 answer |-> None, attempt |-> 0]}
    /\ status = "loading" /\ gaps = "hidden"
    /\ editForm = None
    /\ selected = None /\ trace = None
    /\ hash \in Bricks \cup {None} /\ hashEvents = 0
    /\ detail = [brick |-> None, pill |-> None, form |-> None, chips |-> None,
                 tab |-> "detail"]
    /\ run = [message |-> "hidden", verdict |-> None, spans |-> None, refresh |-> FALSE,
              progress |-> FALSE]
    /\ busy = {} /\ errors = {}
    /\ acts = 0 /\ hasty = FALSE

User ==
    \/ \E b \in Bricks : SelectBrick(b) \/ EditHash(b)
    \/ \E t \in {"detail", "run"} : ClickTab(t)
    \/ \E s \in Statuses : HandleReviewStatusClick(s)
    \/ TypeScenario \/ HandleScenarioSubmit
    \/ \E t \in Tags : HandleTagAddSubmit(t) \/ HandleTagRemoveClick(t)
    \/ HandleEmptyTag
    \/ HandleRunClick \/ HandleRefreshClick
    \/ \E l \in Labels : TypeEdit(l)
    \/ HandleEditSubmit

Continue(c) ==
    \/ DetailAnswered(c) \/ ReviewAnswered(c) \/ ScenarioAnswered(c) \/ TagAnswered(c)
    \/ RunAnswered(c) \/ RunFailed(c)
    \/ PollAnswered(c) \/ PollMissed(c) \/ Wake(c)
    \/ ListAnswered(c) \/ ListFailed(c) \/ GapsAnswered(c) \/ SummaryAnswered(c)
    \/ EditAnswered(c)

(* Every request is answered or fails, and every sleep ends. *)
Network == \E c \in calls : Handle(c) \/ Continue(c)

Rest == calls = {} /\ acts = MaxActs /\ UNCHANGED vars

Next == User \/ HandleHashChange \/ Network \/ Drain \/ Rest

Spec     == Init /\ [][Next]_vars
FairSpec == Spec /\ WF_vars(Network)

---------------------------------------------------------------------------
(* A control is disabled exactly while its one request is on its way: no form *)
(* is submitted twice, no brick replayed twice at once, whatever the user     *)
(* selects meanwhile, and the progress bar never outlives the work.           *)
BusyKind(k) == IF k = "run" THEN {"run", "run poll"} ELSE {k}

BusyIsInFlight ==
    /\ \A k \in Buttons : k \in busy <=> InFlight(BusyKind(k)) # {}
    /\ \A c, d \in calls : c.kind = d.kind /\ c.kind \in Buttons \cup {"run poll"} => c = d
    /\ InFlight({"run"}) = {} \/ InFlight({"run poll"}) = {}
    /\ run.progress => InFlight({"run"} \cup Polls) # {}

(* The verdict shown is that of the trace Refresh would ask for, if any: also *)
(* for a user who selects another brick while a replay is on its way.         *)
VerdictIsOfTrace == run.verdict = trace

(* Of a user who waits, the Run tab shows nothing of another brick, offers    *)
(* Refresh exactly when there is a trace and no loop is asking for it, and    *)
(* has its progress bar for as long as something is on its way.               *)
RunTabOfSelected ==
    ~hasty =>
        /\ trace # None => trace[1] = selected
        /\ run.spans # None => run.spans[1] = selected
        /\ run.refresh <=> trace # None /\ InFlight(Polls) = {}
        /\ run.progress <=> InFlight({"run"} \cup Polls) # {}

(* Of a user who waits, what the pane shows is of the selected brick and is   *)
(* what the server has, or an error message says that it may not be.          *)
PanelOfSelected ==
    ~hasty /\ detail.brick # None /\ InFlight({"detail"}) = {} =>
        /\ detail.brick = selected
        /\ \/ detail.pill = <<selected, review[selected]>>
           \/ "review" \in busy \cup errors
        /\ \/ detail.chips = <<selected, tags[selected]>>
           \/ InFlight(TagKinds) # {} \/ "tags" \in errors
        /\ \/ detail.form \in {scenario[selected], <<selected, 1>>}
           \/ "scenario" \in busy \cup errors

(* Of a user who waits, a scenario is stored with the brick it was read from  *)
(* or typed for: the form and selectedBrickId, read separately, agree.        *)
ScenariosOwn == ~hasty => \A b \in Bricks : scenario[b][1] = b

(* Every control comes back, and the progress bar goes away: the poll loop    *)
(* gives up, and every catch and finally clause does its part.                *)
Settles == []<>(calls = {} /\ busy = {} /\ ~run.progress)

(* nanobar-controller.js:225-227: the poll loop will "stop rather than        *)
(* clobber newer state with a stale trace's spans".                           *)
NewestSpansShown == [][run'.spans \notin {None, run.spans} => run'.spans = trace']_vars
============================================================================
