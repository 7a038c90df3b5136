--------------------------- MODULE OverviewPages ---------------------------
(***************************************************************************)
(* The other pages: the lists of nanobars and of traces, the workers, the   *)
(* settings, the dashboard of the blog's admin, the forms, and the pages    *)
(* that only read.  One browser tab shows one of them.  As in NanobarPage,  *)
(* a piece of JavaScript between two awaits is one action, requests overtake *)
(* each other, and any may be refused or lost.  None of these pages numbers *)
(* its requests: the answer that comes last is the one that is shown.       *)
(***************************************************************************)
EXTENDS Naturals

CONSTANTS
    Scopes,       \* what is searched for, on the page of nanobars; the date window, of traces
    DefaultScope,
    Types,        \* what the selects or the tick boxes offer
    AnyType,      \* no type in particular
    LastMoment,   \* bound of the model: how often the server's rows come and go by themselves
    Total,        \* at each moment, of each scope and type, how many rows the server has
    PageSize,
    Workers, Rows, Spans,
    On, Off,
    MaxCalls,     \* bound of the model: requests of one kind on their way at a time
    MaxActs,      \* bound of the model: what the user does
    None

ASSUME OverviewPagesAssumption ==
    /\ DefaultScope \in Scopes /\ AnyType \notin Types
    /\ LastMoment \in Nat
    /\ Total \in [0..LastMoment -> [Scopes \X (Types \cup {AnyType}) -> Nat]]
    /\ PageSize \in Nat \ {0} /\ MaxCalls \in Nat \ {0} /\ MaxActs \in Nat
    /\ None \notin Workers \cup Spans
    /\ Rows \cap {"generate", "post", "submit", "toggle"} = {}   \* the other buttons

VARIABLES
    served,  \* the server: how often it changed what a page lists, the capture toggle, and
             \* the moment of its rows
    page,    \* the page in the tab
    calls,   \* the handlers that wait, each with its request
    view,    \* what the page has in memory and shows
    (* history *)
    acts,
    overtaken  \* a panel was asked for again before its last answer came

vars == <<served, page, calls, view, acts, overtaken>>

Lists   == {"nanobars", "traces"}
Forms   == {"edit post", "booking", "login"}
Readers == {"blog", "post", "trace"}
PageNames == Lists \cup Forms \cup Readers \cup {"workers", "settings", "app admin", "left"}

Ceil(m, n) == (m + n - 1) \div n
PageCount(q, m) ==
    LET n == Ceil(Total[m][<<q.scope, q.type>>], PageSize) IN IF n > 1 THEN n ELSE 1

Filters == [scope : Scopes, type : Types \cup {AnyType}]
Queries == [scope : Scopes, type : Types \cup {AnyType}, page : Nat \ {0}]
Served  == [list : Nat, notes : Nat, runs : Nat, tracing : {On, Off}, moment : 0..LastMoment]
Messages == {"none", "loading", "error"}

Buttons == {"generate", "post", "submit"} \cup Rows

View == [query : Queries,   \* what the controller asks for next
         form : Filters,    \* what the user has entered
         timer : BOOLEAN,   \* the debounced search is to come
         offered : SUBSET (Types \cup Workers \cup Spans),  \* the choices the page has
         selected : Workers \cup Spans \cup {None},
         hash : Spans \cup {None}, hashEvents : Nat,
         list  : [message : Messages, rows : [query : Queries, at : Nat] \cup {None}, pager : Nat],
         log   : [message : Messages, rows : Workers \cup {None}],
         notes : [message : Messages, rows : Nat \cup {None}],
         summary : Scopes \cup {None},  \* the date window that the filter panel names
         toggle  : [at : {On, Off}, enabled : BOOLEAN],
         lastRun : Nat,
         leaving : BOOLEAN,   \* window.location.href is set
         busy : SUBSET Buttons,
         told : [Buttons \cup {"toggle"} -> {"nothing", "done", "error"}]]

Loads  == {"nanobars", "options", "traces", "facets", "log", "status", "notes", "posts"}
Writes == {"generate", "refresh", "toggle", "read", "post", "submit"}
Kinds  == Loads \cup Writes \cup {"workers", "settings", "read only"}
Ids    == 1..MaxCalls

Calls == [kind : Kinds, id : Ids, arg : Queries \cup Workers \cup Rows \cup {On, Off, None},
          at : {"sent", "handled"}, answer : Served \cup {None}]

TypeOK ==
    /\ served \in Served /\ page \in PageNames
    /\ calls \subseteq Calls /\ view \in View
    /\ acts \in 0..MaxActs /\ overtaken \in BOOLEAN

---------------------------------------------------------------------------
(* Requests *)

InFlight(K) == {c \in calls : c.kind \in K}

FreeIds(kind) == {i \in Ids : \A c \in InFlight({kind}) : c.id # i}
Id(kind) == IF FreeIds(kind) = {} THEN 0 ELSE CHOOSE i \in FreeIds(kind) : TRUE
Request(kind, arg) ==
    [kind |-> kind, id |-> Id(kind), arg |-> arg, at |-> "sent", answer |-> None]

(* Handlers C end, requests R, of different kinds, are sent. *)
Go(C, R) ==
    /\ \A r \in R : r.id # 0
    /\ calls' = (calls \ C) \cup R
    /\ overtaken' = (overtaken \/ \E r \in R : r.kind \in Loads /\ InFlight({r.kind}) # {})

Act == acts < MaxActs /\ acts' = acts + 1

(* The user does something, and the page changes and sends R. *)
Does(v, R) ==
    /\ Act
    /\ view' = v
    /\ Go({}, R)
    /\ UNCHANGED <<served, page>>

(* The handler of c goes on, to its end. *)
Goes(c, v, R) ==
    /\ view' = v
    /\ Go({c}, R)
    /\ UNCHANGED <<served, page, acts>>

Answered(c) == c.at = "handled"   \* otherwise, and even then, it may fail

(* The server, for what these pages tell apart. *)
Effect(c) ==
    CASE c.kind \in {"generate", "post", "submit"} -> [served EXCEPT !.list = @ + 1]
      [] c.kind = "refresh" -> [served EXCEPT !.runs = @ + 1]
      [] c.kind = "read"    -> [served EXCEPT !.notes = @ + 1]
      [] c.kind = "toggle"  -> [served EXCEPT !.tracing = c.arg]
      [] OTHER -> served

Handle(c) ==
    /\ c.at = "sent"
    /\ served' = Effect(c)
    /\ calls' = (calls \ {c}) \cup {[c EXCEPT !.at = "handled", !.answer = Effect(c)]}
    /\ UNCHANGED <<page, view, acts, overtaken>>

(* Traces leave the window of the last hours, and new rows come. *)
RowsChange ==
    /\ page \in Lists /\ served.moment < LastMoment
    /\ served' = [served EXCEPT !.moment = @ + 1]
    /\ UNCHANGED <<page, calls, view, acts, overtaken>>

---------------------------------------------------------------------------
(* The list of nanobars *)

ShowStatus(v) == [v EXCEPT !.list = [message |-> "loading", rows |-> None, pager |-> 0]]
ShowLoadError(v) == [v EXCEPT !.list = [message |-> "error", rows |-> None, pager |-> 0]]
HideStatus(v) == [v EXCEPT !.list.message = "none"]
RenderGroups(v, rows) == [v EXCEPT !.list.rows = rows]
RenderPagination(v, q, m) ==
    [v EXCEPT !.list.pager = IF PageCount(q, m) <= 1 THEN 0 ELSE PageCount(q, m)]
SetGenerateBricksBusy(v, on) ==
    [v EXCEPT !.busy = IF on THEN @ \cup {"generate"} ELSE @ \ {"generate"}]
ShowGenerateBricks(v, m) == [v EXCEPT !.told["generate"] = m]

(* A select keeps its value when it is still one of the options. *)
PopulateFilters(v, types) ==
    [v EXCEPT !.offered = types, !.form.type = IF @ \in types THEN @ ELSE AnyType]

Distinct(m) == {t \in Types : Total[m][<<DefaultScope, t>>] > 0}

FetchNanobars(v) == Request("nanobars", v.query)

OptionsEnd(c) ==
    /\ c.kind = "options"
    /\ \/ Answered(c) /\ Goes(c, PopulateFilters(view, Distinct(c.answer.moment)), {})
       \/ Goes(c, view, {})

NanobarsEnd(c) ==
    /\ c.kind = "nanobars"
    /\ \/ /\ Answered(c)
          /\ Goes(c, RenderPagination(RenderGroups(HideStatus(view),
                        [query |-> c.arg, at |-> c.answer.list]), c.arg, c.answer.moment), {})
       \/ Goes(c, ShowLoadError(view), {})

(* What the controller asks for changes, and is asked for. *)
LoadNanobars(v) == Does(ShowStatus(v), {FetchNanobars(v)})

(* Mutant of HandleFilterChange: the page number stays. *)
HandleFilterChangeKeepsPage(t) ==
    /\ page = "nanobars" /\ t \in view.offered \cup {AnyType} /\ t # view.form.type
    /\ LoadNanobars([view EXCEPT !.form.type = t, !.query = [@ EXCEPT !.type = t]])

HandleFilterChange(t) ==
    /\ page = "nanobars" /\ t \in view.offered \cup {AnyType} /\ t # view.form.type
    /\ LoadNanobars([view EXCEPT !.form.type = t, !.query = [@ EXCEPT !.type = t, !.page = 1]])

HandleSearchInput(s) ==
    /\ page = "nanobars" /\ s # view.form.scope
    /\ Does([view EXCEPT !.form.scope = s, !.timer = TRUE], {})

SearchTimeout ==
    /\ view.timer
    /\ LET q == [view.query EXCEPT !.scope = view.form.scope, !.page = 1]
           v == [view EXCEPT !.timer = FALSE, !.query = q]
       IN view' = ShowStatus(v) /\ Go({}, {FetchNanobars(v)})
    /\ UNCHANGED <<served, page, acts>>

HandleGenerateBricksClick ==
    /\ page = "nanobars" /\ "generate" \notin view.busy
    /\ Does(SetGenerateBricksBusy(view, TRUE), {Request("generate", None)})

(* Mutant of GenerateEnd: the list is not loaded again. *)
GenerateEndNoReload(c) ==
    /\ c.kind = "generate"
    /\ \/ /\ Answered(c)
          /\ Goes(c, SetGenerateBricksBusy(ShowGenerateBricks(view, "done"), FALSE), {})
       \/ Goes(c, SetGenerateBricksBusy(ShowGenerateBricks(view, "error"), FALSE), {})

(* Mutant of GenerateEnd: no finally clause. *)
GenerateEndStaysBusy(c) ==
    /\ c.kind = "generate"
    /\ \/ /\ Answered(c)
          /\ LET v == SetGenerateBricksBusy(ShowGenerateBricks(view, "done"), FALSE)
             IN Goes(c, ShowStatus(v), {FetchNanobars(v)})
       \/ Goes(c, ShowGenerateBricks(view, "error"), {})

GenerateEnd(c) ==
    /\ c.kind = "generate"
    /\ \/ /\ Answered(c)
          /\ LET v == SetGenerateBricksBusy(ShowGenerateBricks(view, "done"), FALSE)
             IN Goes(c, ShowStatus(v), {FetchNanobars(v)})
       \/ Goes(c, SetGenerateBricksBusy(ShowGenerateBricks(view, "error"), FALSE), {})

(* The two buttons are enabled by the page that is shown, and go by the page  *)
(* that was asked for last.                                                   *)
PrevEnabled == view.list.pager > 0 /\ view.list.rows.query.page > 1
NextEnabled == view.list.pager > 0 /\ view.list.rows.query.page < view.list.pager

(* Mutant of HandlePrevPage: the button is thought to know. *)
HandlePrevPageUnchecked ==
    /\ page = "nanobars" /\ PrevEnabled
    /\ LoadNanobars([view EXCEPT !.query.page = @ - 1])

HandlePrevPage ==
    /\ page = "nanobars" /\ PrevEnabled
    /\ view.query.page > 1
    /\ LoadNanobars([view EXCEPT !.query.page = @ - 1])

HandleNextPage ==
    /\ page = "nanobars" /\ NextEnabled
    /\ view.query.page < view.list.pager
    /\ LoadNanobars([view EXCEPT !.query.page = @ + 1])

---------------------------------------------------------------------------
(* The list of traces: its rows stay while others are loaded. *)

ShowTracesStatus(v) == [v EXCEPT !.list.message = "loading", !.list.pager = 0]
ShowTracesLoadError(v) == [v EXCEPT !.list.message = "error", !.list.pager = 0]
HideTracesStatus(v) == [v EXCEPT !.list.message = "none"]
RenderTraces(v, rows) == [v EXCEPT !.list.rows = rows]
RenderTracesPagination(v, q, m) ==
    [v EXCEPT !.list.pager = IF PageCount(q, m) <= 1 THEN 0 ELSE PageCount(q, m)]
UpdateFilterSummaryText(v, scope) == [v EXCEPT !.summary = scope]

(* A box is ticked when it is one of the types asked for, whatever the user ticked. *)
RenderCheckboxes(v, types, wanted) ==
    [v EXCEPT !.offered = types, !.form.type = IF wanted \in types THEN wanted ELSE AnyType]

Facets(scope, m) == {t \in Types : Total[m][<<scope, t>>] > 0}

FetchTraces(v) == Request("traces", v.query)
FetchTraceFacets(v) == Request("facets", v.query)

FacetsEnd(c) ==
    /\ c.kind = "facets"
    /\ \/ /\ Answered(c)
          /\ LET types == Facets(c.arg.scope, c.answer.moment)
             IN Goes(c, RenderCheckboxes(view, types, view.query.type), {})
       \/ Goes(c, view, {})

(* The summary is of what is asked for when the answer comes. *)
TracesEnd(c) ==
    /\ c.kind = "traces"
    /\ \/ /\ Answered(c)
          /\ LET v == RenderTraces(HideTracesStatus(view), [query |-> c.arg, at |-> c.answer.list])
                 w == RenderTracesPagination(v, c.arg, c.answer.moment)
             IN Goes(c, UpdateFilterSummaryText(w, view.query.scope), {})
       \/ Goes(c, ShowTracesLoadError(view), {})

EnterFilter(f) ==
    /\ page = "traces" /\ f # view.form
    /\ f.type \in view.offered \cup {AnyType}
    /\ Does([view EXCEPT !.form = f], {})

ReadFiltersFromForm(v) ==
    [v EXCEPT !.query = [scope |-> v.form.scope, type |-> v.form.type, page |-> 1]]

HandleApplyFilters ==
    /\ page = "traces"
    /\ LET v == ReadFiltersFromForm(view)
       IN Does(ShowTracesStatus(v), {FetchTraceFacets(v), FetchTraces(v)})

(* The boxes stay ticked until the facets are there. *)
HandleResetFilters ==
    /\ page = "traces"
    /\ LET v == [view EXCEPT !.form.scope = DefaultScope,
                             !.query = [scope |-> DefaultScope, type |-> AnyType, page |-> 1]]
       IN Does(ShowTracesStatus(v), {FetchTraceFacets(v), FetchTraces(v)})

HandleTracesPrevPage ==
    /\ page = "traces" /\ PrevEnabled
    /\ view.query.page > 1
    /\ LET v == [view EXCEPT !.query.page = @ - 1]
       IN Does(ShowTracesStatus(v), {FetchTraces(v)})

HandleTracesNextPage ==
    /\ page = "traces" /\ NextEnabled
    /\ view.query.page < view.list.pager
    /\ LET v == [view EXCEPT !.query.page = @ + 1]
       IN Does(ShowTracesStatus(v), {FetchTraces(v)})

---------------------------------------------------------------------------
(* The workers *)

ShowWorkersError(v) == [v EXCEPT !.list.message = "error"]
RenderWorkersList(v, ws) == [v EXCEPT !.list.message = "none", !.offered = ws]
RenderWorkerDetail(v, w) == [v EXCEPT !.selected = w]
ShowWorkerLogLoading(v) == [v EXCEPT !.log = [message |-> "loading", rows |-> None]]
ShowWorkerLogError(v) == [v EXCEPT !.log = [message |-> "error", rows |-> None]]
RenderWorkerLog(v, w) == [v EXCEPT !.log = [message |-> "none", rows |-> w]]

WorkersEnd(c) ==
    /\ c.kind = "workers"
    /\ \/ Answered(c) /\ \E ws \in {{}, Workers} : Goes(c, RenderWorkersList(view, ws), {})
       \/ Goes(c, ShowWorkersError(view), {})

SelectWorker(w) ==
    /\ page = "workers" /\ w \in view.offered
    /\ Does(ShowWorkerLogLoading(RenderWorkerDetail(view, w)), {Request("log", w)})

LogEnd(c) ==
    /\ c.kind = "log"
    /\ \/ Answered(c) /\ Goes(c, RenderWorkerLog(view, c.arg), {})
       \/ Goes(c, ShowWorkerLogError(view), {})

---------------------------------------------------------------------------
(* The settings *)

ShowSettings(v, m) == [v EXCEPT !.list.message = m]
RenderTracingEnabled(v, at) == [v EXCEPT !.toggle = [at |-> at, enabled |-> TRUE]]
SetTracingToggleBusy(v, on) == [v EXCEPT !.toggle.enabled = ~on]
ShowTracingToggleError(v, on) == [v EXCEPT !.told["toggle"] = IF on THEN "error" ELSE "nothing"]
SetRefreshBusy(v, r, on) == [v EXCEPT !.busy = IF on THEN @ \cup {r} ELSE @ \ {r}]
ShowRefresh(v, r, m) == [v EXCEPT !.told[r] = m]
RenderLastRun(v, n) == [v EXCEPT !.lastRun = n]
Other(at) == IF at = On THEN Off ELSE On

SettingsEnd(c) ==
    /\ c.kind = "settings"
    /\ \/ /\ Answered(c)
          /\ Goes(c, RenderTracingEnabled(ShowSettings(view, "none"), c.answer.tracing), {})
       \/ Goes(c, ShowSettings(view, "error"), {})

HandleTracingToggleChange ==
    /\ page = "settings" /\ view.toggle.enabled
    /\ LET v == [view EXCEPT !.toggle.at = Other(@)]
       IN Does(SetTracingToggleBusy(ShowTracingToggleError(v, FALSE), TRUE),
               {Request("toggle", v.toggle.at)})

ToggleEnd(c) ==
    /\ c.kind = "toggle"
    /\ \/ Answered(c) /\ Goes(c, RenderTracingEnabled(view, c.answer.tracing), {})
       \/ LET v == [view EXCEPT !.toggle.at = Other(c.arg)]
          IN Goes(c, SetTracingToggleBusy(ShowTracingToggleError(v, TRUE), FALSE), {})

StatusEnd(c) ==
    /\ c.kind = "status"
    /\ \/ Answered(c) /\ Goes(c, RenderLastRun(view, c.answer.runs), {})
       \/ Goes(c, view, {})

HandleRefreshClick(r) ==
    /\ page = "settings" /\ r \notin view.busy
    /\ Does(SetRefreshBusy(view, r, TRUE), {Request("refresh", r)})

RefreshEnd(c) ==
    /\ c.kind = "refresh"
    /\ \/ /\ Answered(c)
          /\ Goes(c, SetRefreshBusy(ShowRefresh(view, c.arg, "done"), c.arg, FALSE),
                  {Request("status", None)})
       \/ Goes(c, SetRefreshBusy(ShowRefresh(view, c.arg, "error"), c.arg, FALSE), {})

---------------------------------------------------------------------------
(* The dashboard of the blog's admin *)

ShowNotifications(v, m) == [v EXCEPT !.notes = [message |-> m, rows |-> None]]
RenderNotifications(v, n) == [v EXCEPT !.notes = [message |-> "none", rows |-> n]]
ShowPosts(v, m) == [v EXCEPT !.list = [message |-> m, rows |-> None, pager |-> 0]]
RenderPosts(v, n) ==
    [v EXCEPT !.list.message = "none", !.list.rows = [query |-> v.query, at |-> n]]
NewPostMessage(v, m) == [v EXCEPT !.told["post"] = m]
SetNewPostFormBusy(v, on) == [v EXCEPT !.busy = IF on THEN @ \cup {"post"} ELSE @ \ {"post"}]

NotificationsEnd(c) ==
    /\ c.kind = "notes"
    /\ \/ Answered(c) /\ Goes(c, RenderNotifications(view, c.answer.notes), {})
       \/ Goes(c, ShowNotifications(view, "error"), {})

PostsEnd(c) ==
    /\ c.kind = "posts"
    /\ \/ Answered(c) /\ Goes(c, RenderPosts(view, c.answer.list), {})
       \/ Goes(c, ShowPosts(view, "error"), {})

(* No button is disabled: two notifications may be read at the same time. *)
HandleMarkRead ==
    /\ page = "app admin" /\ view.notes.rows # None
    /\ Does(view, {Request("read", None)})

MarkReadEnd(c) ==
    /\ c.kind = "read"
    /\ Goes(c, ShowNotifications(view, "loading"), {Request("notes", None)})

HandleNewPostSubmit ==
    /\ page = "app admin" /\ "post" \notin view.busy
    /\ Does(SetNewPostFormBusy(NewPostMessage(view, "nothing"), TRUE), {Request("post", None)})

NewPostEnd(c) ==
    /\ c.kind = "post"
    /\ \/ /\ Answered(c)
          /\ Goes(c, ShowPosts(SetNewPostFormBusy(NewPostMessage(view, "done"), FALSE), "loading"),
                  {Request("posts", None)})
       \/ Goes(c, SetNewPostFormBusy(NewPostMessage(view, "error"), FALSE), {})

---------------------------------------------------------------------------
(* The forms: of a post that is edited first loaded, of the others at once.   *)

ShowSaveError(v) == [v EXCEPT !.told["submit"] = "error"]
ClearSaveError(v) == [v EXCEPT !.told["submit"] = "nothing"]
SetFormBusy(v, on) == [v EXCEPT !.busy = IF on THEN @ \cup {"submit"} ELSE @ \ {"submit"}]
Submit(v) == Does(SetFormBusy(ClearSaveError(v), TRUE), {Request("submit", None)})
SubmitFails(c) == Goes(c, SetFormBusy(ShowSaveError(view), FALSE), {})

(* The form is enabled again, while the browser goes to another page. *)
Leave(c) == Goes(c, SetFormBusy([view EXCEPT !.leaving = TRUE], FALSE), {})

(* It is there: what is still on its way finds nobody. *)
Unload ==
    /\ view.leaving
    /\ page' = "left" /\ calls' = {}
    /\ view' = SetFormBusy([view EXCEPT !.leaving = FALSE], FALSE)
    /\ UNCHANGED <<served, acts, overtaken>>

ShowPage(v, m) == [v EXCEPT !.list.message = m]
Content(v, n) == [query |-> v.query, at |-> n]
RenderForm(v, n) == [ShowPage(v, "none") EXCEPT !.list.rows = Content(v, n)]

EditLoadEnd(c) ==
    /\ page = "edit post" /\ c.kind = "read only"
    /\ \/ Answered(c) /\ Goes(c, RenderForm(view, c.answer.list), {})
       \/ Goes(c, ShowPage(view, "error"), {})

HandleEditSubmit ==
    /\ page = "edit post" /\ view.list.rows # None /\ "submit" \notin view.busy
    /\ Submit(view)

EditEnd(c) ==
    /\ page = "edit post" /\ c.kind = "submit"
    /\ (Answered(c) /\ Leave(c)) \/ SubmitFails(c)

HandleBookingSubmit == page = "booking" /\ "submit" \notin view.busy /\ Submit(view)

BookingEnd(c) ==
    /\ page = "booking" /\ c.kind = "submit"
    /\ \/ Answered(c) /\ Goes(c, SetFormBusy([view EXCEPT !.told["submit"] = "done"], FALSE), {})
       \/ SubmitFails(c)

HandleLoginSubmit == page = "login" /\ "submit" \notin view.busy /\ Submit(view)

LoginEnd(c) ==
    /\ page = "login" /\ c.kind = "submit"
    /\ (Answered(c) /\ Leave(c)) \/ SubmitFails(c)

---------------------------------------------------------------------------
(* The pages that read once *)

RenderBlog(v, n) == [ShowPage(v, "none") EXCEPT !.list.rows = Content(v, n)]

BlogEnd(c) ==
    /\ page = "blog" /\ c.kind = "read only"
    /\ \/ Answered(c) /\ Goes(c, RenderBlog(view, c.answer.list), {})
       \/ Goes(c, ShowPage(view, "error"), {})

RenderArticle(v, n) == [ShowPage(v, "none") EXCEPT !.list.rows = Content(v, n)]

PostEnd(c) ==
    /\ page = "post" /\ c.kind = "read only"
    /\ \/ Answered(c) /\ Goes(c, RenderArticle(view, c.answer.list), {})
       \/ Goes(c, ShowPage(view, "error"), {})

(* The spans of one trace, one of which may be named in the address. *)
RenderSpans(v, ss) == [ShowPage(v, "none") EXCEPT !.offered = ss]
RenderSpanDetail(v, s) == [v EXCEPT !.selected = s]
SetHash(v, s) == [v EXCEPT !.hash = s, !.hashEvents = @ + (IF v.hash = s THEN 0 ELSE 1)]
ShowHashed(v) == IF v.hash \in v.offered THEN RenderSpanDetail(v, v.hash) ELSE v

TraceEnd(c) ==
    /\ page = "trace" /\ c.kind = "read only"
    /\ \/ /\ Answered(c)
          /\ \E ss \in {{}, Spans} : Goes(c, ShowHashed(RenderSpans(view, ss)), {})
       \/ Goes(c, ShowPage(view, "error"), {})

SelectSpan(s) ==
    /\ page = "trace" /\ s \in view.offered
    /\ Does(SetHash(RenderSpanDetail(view, s), s), {})

EditHash(s) ==
    /\ page = "trace" /\ view.hash # s
    /\ Does(SetHash(view, s), {})

HandleHashChange ==
    /\ view.hashEvents > 0
    /\ view' = ShowHashed([view EXCEPT !.hashEvents = @ - 1])
    /\ UNCHANGED <<served, page, calls, acts, overtaken>>

---------------------------------------------------------------------------
(* What each page asks for when it is opened *)
FirstRequests(p) ==
    CASE p = "nanobars"  -> {"options", "nanobars"}
      [] p = "traces"    -> {"facets", "traces"}
      [] p = "workers"   -> {"workers"}
      [] p = "settings"  -> {"settings", "status"}
      [] p = "app admin" -> {"notes", "posts"}
      [] p \in Readers \cup {"edit post"} -> {"read only"}
      [] OTHER -> {}

Loading(on) == IF on THEN "loading" ELSE "none"

FirstQuery == [scope |-> DefaultScope, type |-> AnyType, page |-> 1]

FirstView(hash) ==
    [query |-> FirstQuery, form |-> [scope |-> DefaultScope, type |-> AnyType],
     timer |-> FALSE, offered |-> {}, selected |-> None, hash |-> hash, hashEvents |-> 0,
     list |-> [message |-> Loading(FirstRequests(page) # {}), rows |-> None, pager |-> 0],
     log |-> [message |-> "none", rows |-> None],
     notes |-> [message |-> Loading(page = "app admin"), rows |-> None],
     summary |-> None, leaving |-> FALSE, toggle |-> [at |-> Off, enabled |-> FALSE],
     lastRun |-> 0, busy |-> {}, told |-> [b \in Buttons \cup {"toggle"} |-> "nothing"]]

FirstCall(kind) ==
    [kind |-> kind, id |-> 1, arg |-> IF page \in Lists THEN FirstQuery ELSE None,
     at |-> "sent", answer |-> None]

Init ==
    /\ page \in PageNames \ {"left"}
    /\ \E tracing \in {On, Off} :
          served = [list |-> 0, notes |-> 0, runs |-> 0, tracing |-> tracing, moment |-> 0]
    /\ \E hash \in Spans \cup {None} :
          /\ hash # None => page = "trace"
          /\ view = FirstView(hash)
    /\ calls = {FirstCall(k) : k \in FirstRequests(page)}
    /\ acts = 0 /\ overtaken = FALSE

User ==
    \/ \E t \in Types \cup {AnyType} : HandleFilterChange(t)
    \/ \E s \in Scopes : HandleSearchInput(s)
    \/ HandleGenerateBricksClick \/ HandlePrevPage \/ HandleNextPage
    \/ \E f \in Filters : EnterFilter(f)
    \/ HandleApplyFilters \/ HandleResetFilters \/ HandleTracesPrevPage \/ HandleTracesNextPage
    \/ \E w \in Workers : SelectWorker(w)
    \/ HandleTracingToggleChange
    \/ \E r \in Rows : HandleRefreshClick(r)
    \/ HandleMarkRead \/ HandleNewPostSubmit
    \/ HandleEditSubmit \/ HandleBookingSubmit \/ HandleLoginSubmit
    \/ \E s \in Spans : SelectSpan(s) \/ EditHash(s)

Continue(c) ==
    \/ OptionsEnd(c) \/ NanobarsEnd(c) \/ GenerateEnd(c)
    \/ FacetsEnd(c) \/ TracesEnd(c)
    \/ WorkersEnd(c) \/ LogEnd(c)
    \/ SettingsEnd(c) \/ ToggleEnd(c) \/ StatusEnd(c) \/ RefreshEnd(c)
    \/ NotificationsEnd(c) \/ PostsEnd(c) \/ MarkReadEnd(c) \/ NewPostEnd(c)
    \/ EditLoadEnd(c) \/ EditEnd(c) \/ BookingEnd(c) \/ LoginEnd(c)
    \/ BlogEnd(c) \/ PostEnd(c) \/ TraceEnd(c)

(* Every request is answered or fails, and the browser runs its timers and events. *)
Network ==
    \/ \E c \in calls : Handle(c) \/ Continue(c)
    \/ SearchTimeout
    \/ HandleHashChange
    \/ Unload

Rest == calls = {} /\ ~view.timer /\ view.hashEvents = 0 /\ UNCHANGED vars

Next == User \/ Network \/ RowsChange \/ Rest

Spec     == Init /\ [][Next]_vars
FairSpec == Spec /\ WF_vars(Network)

---------------------------------------------------------------------------
Quiet(K) == InFlight(K) = {}
OrError(panel, P) == panel.message = "error" \/ P

(* The nanobars shown are those of the filters, the search and the page asked *)
(* for last, as they are after every generation, or an error says otherwise.  *)
NanobarsCurrent ==
    page = "nanobars" /\ Quiet({"nanobars", "generate"}) =>
        OrError(view.list, /\ view.list.rows.query = view.query
                           /\ \/ view.list.rows.at = served.list
                              \/ view.told["generate"] = "error")

(* The traces shown are those of the filters and the page asked for last; even *)
(* after a failed load, the summary names the window of the rows that are shown. *)
TracesCurrent ==
    page = "traces" /\ Quiet({"traces"}) =>
        /\ OrError(view.list, view.list.rows.query = view.query)
        /\ view.list.rows # None => view.summary = view.list.rows.query.scope

(* The failure log is that of the worker whose detail is beside it.           *)
LogOfSelected ==
    page = "workers" /\ Quiet({"log"}) /\ view.selected # None =>
        OrError(view.log, view.log.rows = view.selected)

(* Each list of the dashboard tells of every notification read and every post  *)
(* saved, also when the answer to the one that changed it was lost.           *)
DashboardCurrent ==
    page = "app admin" =>
        /\ Quiet({"notes", "read"}) => OrError(view.notes, view.notes.rows = served.notes)
        /\ Quiet({"posts", "post"}) =>
              OrError(view.list, \/ view.list.rows.at = served.list
                                 \/ view.told["post"] = "error")

(* The capture toggle is where the server has it, unless it says that its last *)
(* change may not have been saved.                                            *)
ToggleTrue ==
    page = "settings" /\ view.toggle.enabled =>
        view.toggle.at = served.tracing \/ view.told["toggle"] = "error"

(* A span that is named in the address is the one whose detail is shown.      *)
SpanOfHash ==
    page = "trace" /\ view.hashEvents = 0 /\ view.hash \in view.offered =>
        view.selected = view.hash

(* Of a user who waits for each answer, every panel shows what it says.       *)
PanesCurrent ==
    /\ ~overtaken => NanobarsCurrent /\ TracesCurrent /\ LogOfSelected /\ DashboardCurrent
    /\ ToggleTrue /\ SpanOfHash

(* The list of these filters had an n-th page at some moment. *)
HadPage(q, n) == \E m \in 0..served.moment : n <= PageCount(q, m)

(* ... and no page is asked for that the list of its filters never had: rows may *)
(* go while one looks at the last page, but no page of another list is asked for. *)
PageInRange == ~overtaken => HadPage(view.query, view.query.page)

(* No panel keeps its "Loading", and every button comes back.                 *)
Settles ==
    []<>(/\ calls = {} /\ view.busy = {}
         /\ \A p \in {view.list, view.log, view.notes} : p.message # "loading")
============================================================================
