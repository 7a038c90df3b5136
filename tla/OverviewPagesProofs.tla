------------------------ MODULE OverviewPagesProofs ------------------------
(***************************************************************************)
(* Proofs about OverviewPages, for any scopes, types, rows, workers and     *)
(* spans, any number of requests and acts.  TInv is the type invariant with *)
(* what is known of a request of each kind and of the page it belongs to:   *)
(* a tab shows one page, so that what a page promises is a matter of that   *)
(* page's handlers alone.                                                   *)
(***************************************************************************)
EXTENDS OverviewPages, Integers, TLAPS

\* The requests of each page.
KindsOf(p) ==
    CASE p = "nanobars"  -> {"options", "nanobars", "generate"}
      [] p = "traces"    -> {"facets", "traces"}
      [] p = "workers"   -> {"workers", "log"}
      [] p = "settings"  -> {"settings", "status", "toggle", "refresh"}
      [] p = "app admin" -> {"notes", "posts", "read", "post"}
      [] p \in Forms     -> {"read only", "submit"}
      [] p \in Readers   -> {"read only"}
      [] OTHER -> {}

\* What the argument of a request is, where its handler uses it.
RightArg(kind, arg) ==
    /\ arg \in Queries \cup Workers \cup Rows \cup {On, Off, None}
    /\ kind \in {"nanobars", "traces", "facets"} => arg \in Queries
    /\ kind = "log" => arg \in Workers
    /\ kind = "toggle" => arg \in {On, Off}
    /\ kind = "refresh" => arg \in Rows

GoodCall(p, c) ==
    /\ c \in Calls
    /\ c.kind \in KindsOf(p)
    /\ RightArg(c.kind, c.arg)
    /\ c.at = "handled" => c.answer \in Served

\* The timer, the address and the unloading are of one page each.
Placed(p, v) ==
    /\ v.timer => p = "nanobars"
    /\ v.hashEvents > 0 => p = "trace"
    /\ v.leaving => p \in {"edit post", "login"}

\* An answer tells of rows that the server had.
Past == \A c \in calls : Answered(c) => c.answer.moment <= served.moment

TInv ==
    /\ served \in Served /\ page \in PageNames /\ view \in View
    /\ acts \in 0..MaxActs /\ overtaken \in BOOLEAN
    /\ \A c \in calls : GoodCall(page, c)
    /\ Placed(page, view)
    /\ Past

\* Of any number of rows there is at least one page.
LEMMA PageCountType ==
    ASSUME NEW q \in Queries, NEW m \in 0..LastMoment
    PROVE  PageCount(q, m) \in Nat \ {0}
<1>0. q.scope \in Scopes /\ q.type \in Types \cup {AnyType}
  BY DEF Queries
<1>1. Total[m][<<q.scope, q.type>>] \in Nat /\ PageSize \in Nat \ {0}
  BY <1>0, OverviewPagesAssumption
<1>2. ASSUME NEW k \in Nat, NEW n \in Nat \ {0} PROVE Ceil(k, n) \in Int
  BY DEF Ceil
<1>3. Ceil(Total[m][<<q.scope, q.type>>], PageSize) \in Int
  BY <1>1, <1>2
<1>4. QED
  BY <1>3 DEF PageCount

-----------------------------------------------------------------------------
(* What the functions of the pages do to what a page has in memory.          *)

\* They leave the timer, the address and the unloading alone.
Kin(v, w) ==
    /\ w \in View
    /\ w.timer = v.timer /\ w.hashEvents = v.hashEvents /\ w.leaving = v.leaving

\* Most of them also leave what the controller asks for alone, and at most take the
\* pagination away.
Calm(v, w) ==
    /\ Kin(v, w)
    /\ w.query = v.query /\ w.list.pager \in {0, v.list.pager}

Rendered == [query : Queries, at : Nat] \cup {None}
Told     == {"nothing", "done", "error"}

\* The functions of both lists are calm.
LEMMA ListViews ==
    ASSUME NEW v \in View
    PROVE  /\ Calm(v, ShowStatus(v)) /\ Calm(v, ShowLoadError(v)) /\ Calm(v, HideStatus(v))
           /\ Calm(v, ShowTracesStatus(v)) /\ Calm(v, ShowTracesLoadError(v))
           /\ Calm(v, HideTracesStatus(v))
           /\ \A x \in Rendered : Calm(v, RenderGroups(v, x)) /\ Calm(v, RenderTraces(v, x))
           /\ \A on \in BOOLEAN : Calm(v, SetGenerateBricksBusy(v, on))
           /\ \A m \in Told : Calm(v, ShowGenerateBricks(v, m))
           /\ \A s \in Scopes : Calm(v, UpdateFilterSummaryText(v, s))
           /\ \A x \in SUBSET Types : Calm(v, PopulateFilters(v, x))
           /\ \A x \in SUBSET Types : \A w : Calm(v, RenderCheckboxes(v, x, w))
<1> USE DEF View, Calm, Kin
<1>1. Calm(v, ShowStatus(v)) /\ Calm(v, ShowLoadError(v)) /\ Calm(v, HideStatus(v))
  <2>1. Calm(v, ShowStatus(v)) /\ Calm(v, ShowLoadError(v))
    BY DEF ShowStatus, ShowLoadError, Messages
  <2>2. Calm(v, HideStatus(v))
    BY DEF HideStatus, Messages
  <2> HIDE DEF View, Calm, Kin
  <2>3. QED
    BY <2>1, <2>2
<1>2. /\ Calm(v, ShowTracesStatus(v)) /\ Calm(v, ShowTracesLoadError(v))
      /\ Calm(v, HideTracesStatus(v))
  <2>1. Calm(v, ShowTracesStatus(v))
    BY DEF ShowTracesStatus, Messages
  <2>2. Calm(v, ShowTracesLoadError(v))
    BY DEF ShowTracesLoadError, Messages
  <2>3. Calm(v, HideTracesStatus(v))
    BY DEF HideTracesStatus, Messages
  <2> HIDE DEF View, Calm, Kin
  <2>4. QED
    BY <2>1, <2>2, <2>3
<1>3. \A x \in Rendered : Calm(v, RenderGroups(v, x)) /\ Calm(v, RenderTraces(v, x))
  BY DEF Rendered, RenderGroups, RenderTraces
<1>4. \A on \in BOOLEAN : Calm(v, SetGenerateBricksBusy(v, on))
  BY DEF SetGenerateBricksBusy, Buttons
<1>5. \A m \in Told : Calm(v, ShowGenerateBricks(v, m))
  BY DEF Told, ShowGenerateBricks, Buttons
<1>6. \A s \in Scopes : Calm(v, UpdateFilterSummaryText(v, s))
  BY DEF UpdateFilterSummaryText
<1>7. \A x \in SUBSET Types : Calm(v, PopulateFilters(v, x))
  BY DEF PopulateFilters, Filters
<1>8. \A x \in SUBSET Types : \A w : Calm(v, RenderCheckboxes(v, x, w))
  <2>1. ASSUME NEW x \in SUBSET Types, NEW t \in Types \cup {AnyType}
        PROVE  Calm(v, [v EXCEPT !.offered = x, !.form.type = t])
    BY DEF Filters
  <2> HIDE DEF View, Calm, Kin
  <2>2. QED
    BY <2>1 DEF RenderCheckboxes
<1> HIDE DEF View, Calm, Kin
<1>9. QED
  BY <1>1, <1>2, <1>3, <1>4, <1>5, <1>6, <1>7, <1>8

\* The pagination is that of the query of the answer.
LEMMA PagerViews ==
    ASSUME NEW v \in View, NEW q \in Queries, NEW m \in 0..LastMoment
    PROVE  /\ Kin(v, RenderPagination(v, q, m)) /\ Kin(v, RenderTracesPagination(v, q, m))
           /\ RenderPagination(v, q, m).query = v.query
           /\ RenderTracesPagination(v, q, m).query = v.query
           /\ RenderPagination(v, q, m).list.pager \in {0, PageCount(q, m)}
           /\ RenderTracesPagination(v, q, m).list.pager \in {0, PageCount(q, m)}
<1>1. PageCount(q, m) \in Nat
  BY PageCountType
<1>2. QED
  BY <1>1 DEF View, Kin, RenderPagination, RenderTracesPagination

\* What the user does to the filters, and the controller to what it asks for.
LEMMA QueryViews ==
    ASSUME NEW v \in View, NEW q \in Queries
    PROVE  /\ \A t \in Types \cup {AnyType} : Kin(v, [v EXCEPT !.form.type = t, !.query = q])
           /\ \A s \in Scopes : Kin(v, [v EXCEPT !.form.scope = s, !.query = q])
           /\ \A f \in Filters : Kin(v, [v EXCEPT !.form = f])
           /\ Kin(v, [v EXCEPT !.query = q])
<1> USE DEF View, Kin
<1>1. \A t \in Types \cup {AnyType} : Kin(v, [v EXCEPT !.form.type = t, !.query = q])
  BY DEF Filters
<1>2. \A s \in Scopes : Kin(v, [v EXCEPT !.form.scope = s, !.query = q])
  BY DEF Filters
<1>3. (\A f \in Filters : Kin(v, [v EXCEPT !.form = f])) /\ Kin(v, [v EXCEPT !.query = q])
  OBVIOUS
<1> HIDE DEF View, Kin
<1>4. QED
  BY <1>1, <1>2, <1>3

\* So are those of the workers ...
LEMMA WorkerViews ==
    ASSUME NEW v \in View
    PROVE  /\ Calm(v, ShowWorkersError(v))
           /\ \A x \in SUBSET Workers : Calm(v, RenderWorkersList(v, x))
           /\ \A w \in Workers : Calm(v, RenderWorkerDetail(v, w)) /\ Calm(v, RenderWorkerLog(v, w))
           /\ Calm(v, ShowWorkerLogLoading(v)) /\ Calm(v, ShowWorkerLogError(v))
<1> USE DEF View, Calm, Kin, Messages
<1>1. Calm(v, ShowWorkersError(v)) /\ \A x \in SUBSET Workers : Calm(v, RenderWorkersList(v, x))
  <2>1. Calm(v, ShowWorkersError(v))
    BY DEF ShowWorkersError
  <2>2. \A x \in SUBSET Workers : Calm(v, RenderWorkersList(v, x))
    BY DEF RenderWorkersList
  <2> HIDE DEF View, Calm, Kin
  <2>3. QED
    BY <2>1, <2>2
<1>2. \A w \in Workers : Calm(v, RenderWorkerDetail(v, w)) /\ Calm(v, RenderWorkerLog(v, w))
  BY DEF RenderWorkerDetail, RenderWorkerLog
<1>3. Calm(v, ShowWorkerLogLoading(v)) /\ Calm(v, ShowWorkerLogError(v))
  BY DEF ShowWorkerLogLoading, ShowWorkerLogError
<1> HIDE DEF View, Calm, Kin, Messages
<1>4. QED
  BY <1>1, <1>2, <1>3

\* ... of the settings ...
LEMMA SettingsViews ==
    ASSUME NEW v \in View
    PROVE  /\ \A m \in Messages : Calm(v, ShowSettings(v, m))
           /\ \A x \in {On, Off} : /\ Calm(v, RenderTracingEnabled(v, x))
                                   /\ Calm(v, [v EXCEPT !.toggle.at = x])
           /\ \A on \in BOOLEAN : /\ Calm(v, SetTracingToggleBusy(v, on))
                                  /\ Calm(v, ShowTracingToggleError(v, on))
           /\ \A r \in Rows, on \in BOOLEAN : Calm(v, SetRefreshBusy(v, r, on))
           /\ \A r \in Rows, m \in Told : Calm(v, ShowRefresh(v, r, m))
           /\ \A n \in Nat : Calm(v, RenderLastRun(v, n))
<1> USE DEF View, Calm, Kin
<1>1. \A m \in Messages : Calm(v, ShowSettings(v, m))
  BY DEF ShowSettings
<1>2. \A x \in {On, Off} : /\ Calm(v, RenderTracingEnabled(v, x))
                           /\ Calm(v, [v EXCEPT !.toggle.at = x])
  BY DEF RenderTracingEnabled
<1>3. \A on \in BOOLEAN : Calm(v, SetTracingToggleBusy(v, on))
  BY ZenonT(30) DEF SetTracingToggleBusy
<1>4. \A on \in BOOLEAN : Calm(v, ShowTracingToggleError(v, on))
  BY DEF ShowTracingToggleError
<1>5. \A r \in Rows, on \in BOOLEAN : Calm(v, SetRefreshBusy(v, r, on))
  BY DEF SetRefreshBusy, Buttons
<1>6. \A r \in Rows, m \in Told : Calm(v, ShowRefresh(v, r, m))
  BY DEF ShowRefresh, Told, Buttons
<1>7. \A n \in Nat : Calm(v, RenderLastRun(v, n))
  BY DEF RenderLastRun
<1> HIDE DEF View, Calm, Kin
<1>8. QED
  BY <1>1, <1>2, <1>3, <1>4, <1>5, <1>6, <1>7

\* ... of the dashboard ...
LEMMA AdminViews ==
    ASSUME NEW v \in View
    PROVE  /\ \A m \in Messages : Calm(v, ShowNotifications(v, m)) /\ Calm(v, ShowPosts(v, m))
           /\ \A n \in Nat : Calm(v, RenderNotifications(v, n)) /\ Calm(v, RenderPosts(v, n))
           /\ \A m \in Told : Calm(v, NewPostMessage(v, m))
           /\ \A on \in BOOLEAN : Calm(v, SetNewPostFormBusy(v, on))
<1> USE DEF View, Calm, Kin
<1>1. \A m \in Messages : Calm(v, ShowNotifications(v, m)) /\ Calm(v, ShowPosts(v, m))
  BY DEF ShowNotifications, ShowPosts
<1>2. \A n \in Nat : Calm(v, RenderNotifications(v, n))
  BY DEF RenderNotifications, Messages
<1>3. \A n \in Nat : Calm(v, RenderPosts(v, n))
  BY DEF RenderPosts, Messages
<1>4. \A m \in Told : Calm(v, NewPostMessage(v, m))
  BY DEF NewPostMessage, Told, Buttons
<1>5. \A on \in BOOLEAN : Calm(v, SetNewPostFormBusy(v, on))
  BY DEF SetNewPostFormBusy, Buttons
<1> HIDE DEF View, Calm, Kin
<1>6. QED
  BY <1>1, <1>2, <1>3, <1>4, <1>5

\* ... of the forms, and of the pages that read once ...
LEMMA FormViews ==
    ASSUME NEW v \in View
    PROVE  /\ Calm(v, ShowSaveError(v)) /\ Calm(v, ClearSaveError(v))
           /\ Calm(v, [v EXCEPT !.told["submit"] = "done"])
           /\ \A on \in BOOLEAN : Calm(v, SetFormBusy(v, on))
           /\ \A m \in Messages : Calm(v, ShowPage(v, m))
           /\ \A n \in Nat : /\ Calm(v, RenderForm(v, n)) /\ Calm(v, RenderBlog(v, n))
                             /\ Calm(v, RenderArticle(v, n))
<1> USE DEF View, Calm, Kin
<1>1. Calm(v, ShowSaveError(v)) /\ Calm(v, ClearSaveError(v))
  BY DEF ShowSaveError, ClearSaveError, Buttons
<1>2. Calm(v, [v EXCEPT !.told["submit"] = "done"])
  BY DEF Buttons
<1>3. \A on \in BOOLEAN : Calm(v, SetFormBusy(v, on))
  BY DEF SetFormBusy, Buttons
<1>4. \A m \in Messages : Calm(v, ShowPage(v, m))
  BY DEF ShowPage
<1>5. \A n \in Nat : /\ Calm(v, RenderForm(v, n)) /\ Calm(v, RenderBlog(v, n))
                     /\ Calm(v, RenderArticle(v, n))
  BY DEF RenderForm, RenderBlog, RenderArticle, ShowPage, Content, Messages
<1> HIDE DEF View, Calm, Kin
<1>6. QED
  BY <1>1, <1>2, <1>3, <1>4, <1>5

\* ... and of one trace.
LEMMA TraceViews ==
    ASSUME NEW v \in View
    PROVE  /\ \A x \in SUBSET Spans : Calm(v, RenderSpans(v, x))
           /\ \A s \in Spans : Calm(v, RenderSpanDetail(v, s))
           /\ Calm(v, ShowHashed(v))
<1> USE DEF View, Calm, Kin
<1>1. \A x \in SUBSET Spans : Calm(v, RenderSpans(v, x))
  BY DEF RenderSpans, ShowPage, Messages
<1>2. \A s \in Spans \cup {None} : Calm(v, RenderSpanDetail(v, s))
  BY DEF RenderSpanDetail
<1>3. Calm(v, ShowHashed(v))
  BY <1>2 DEF ShowHashed
<1> HIDE DEF View, Calm, Kin
<1>4. QED
  BY <1>1, <1>2, <1>3

-----------------------------------------------------------------------------
(* Requests                                                                  *)

\* A request that is sent, if there is room for it.
GoodSend(p, r) == r.id # 0 => GoodCall(p, r) /\ r.at = "sent"

\* A request of the page's own, with the argument of its kind.
LEMMA GoodRequest ==
    ASSUME NEW p, NEW kind \in KindsOf(p), NEW arg, RightArg(kind, arg)
    PROVE  GoodSend(p, Request(kind, arg))
<1>1. kind \in Kinds
  BY DEF KindsOf, Kinds, Loads, Writes
<1>2. Id(kind) # 0 => Id(kind) \in Ids
  BY DEF Id, FreeIds
<1>3. QED
  BY <1>1, <1>2 DEF GoodSend, GoodCall, Request, Calls, RightArg

\* What the handlers of each page send.
Sendable(p, v) ==
    /\ p = "nanobars" => GoodSend(p, FetchNanobars(v)) /\ GoodSend(p, Request("generate", None))
    /\ p = "traces" => GoodSend(p, FetchTraces(v)) /\ GoodSend(p, FetchTraceFacets(v))
    /\ p = "workers" => \A w \in Workers : GoodSend(p, Request("log", w))
    /\ p = "settings" => /\ \A x \in {On, Off} : GoodSend(p, Request("toggle", x))
                         /\ \A r \in Rows : GoodSend(p, Request("refresh", r))
                         /\ GoodSend(p, Request("status", None))
    /\ p = "app admin" =>
          /\ GoodSend(p, Request("read", None)) /\ GoodSend(p, Request("notes", None))
          /\ GoodSend(p, Request("post", None)) /\ GoodSend(p, Request("posts", None))
    /\ p \in Forms => GoodSend(p, Request("submit", None))

\* Whatever a page sends is a request of its own.
LEMMA SendableHolds ==
    ASSUME NEW p, NEW v \in View
    PROVE  Sendable(p, v)
<1>1. v.query \in Queries
  BY DEF View
<1>2. ASSUME p = "nanobars"
      PROVE  GoodSend(p, FetchNanobars(v)) /\ GoodSend(p, Request("generate", None))
  <2>1. KindsOf(p) = {"options", "nanobars", "generate"}
    BY <1>2 DEF KindsOf, Forms, Readers
  <2>2. RightArg("nanobars", v.query) /\ RightArg("generate", None)
    BY <1>1 DEF RightArg
  <2>3. QED
    BY <2>1, <2>2, GoodRequest DEF FetchNanobars
<1>3. ASSUME p = "traces" PROVE GoodSend(p, FetchTraces(v)) /\ GoodSend(p, FetchTraceFacets(v))
  <2>1. KindsOf(p) = {"facets", "traces"}
    BY <1>3 DEF KindsOf, Forms, Readers
  <2>2. RightArg("traces", v.query) /\ RightArg("facets", v.query)
    BY <1>1 DEF RightArg
  <2>3. QED
    BY <2>1, <2>2, GoodRequest DEF FetchTraces, FetchTraceFacets
<1>4. ASSUME p = "workers" PROVE \A w \in Workers : GoodSend(p, Request("log", w))
  <2>1. KindsOf(p) = {"workers", "log"}
    BY <1>4 DEF KindsOf, Forms, Readers
  <2>2. \A w \in Workers : RightArg("log", w)
    BY DEF RightArg
  <2>3. QED
    BY <2>1, <2>2, GoodRequest
<1>5. ASSUME p = "settings"
      PROVE  /\ \A x \in {On, Off} : GoodSend(p, Request("toggle", x))
             /\ \A r \in Rows : GoodSend(p, Request("refresh", r))
             /\ GoodSend(p, Request("status", None))
  <2>1. KindsOf(p) = {"settings", "status", "toggle", "refresh"}
    BY <1>5 DEF KindsOf, Forms, Readers
  <2>2. /\ \A x \in {On, Off} : RightArg("toggle", x)
        /\ \A r \in Rows : RightArg("refresh", r)
        /\ RightArg("status", None)
    BY DEF RightArg
  <2>3. QED
    BY <2>1, <2>2, GoodRequest
<1>6. ASSUME p = "app admin"
      PROVE  /\ GoodSend(p, Request("read", None)) /\ GoodSend(p, Request("notes", None))
             /\ GoodSend(p, Request("post", None)) /\ GoodSend(p, Request("posts", None))
  <2>1. KindsOf(p) = {"notes", "posts", "read", "post"}
    BY <1>6 DEF KindsOf, Forms, Readers
  <2>2. \A k \in {"notes", "posts", "read", "post"} : RightArg(k, None)
    BY DEF RightArg
  <2>3. QED
    BY <2>1, <2>2, GoodRequest
<1>7. ASSUME p \in Forms PROVE GoodSend(p, Request("submit", None))
  <2>1. KindsOf(p) = {"read only", "submit"}
    BY <1>7 DEF KindsOf, Forms, Readers
  <2>2. RightArg("submit", None)
    BY DEF RightArg
  <2>3. QED
    BY <2>1, <2>2, GoodRequest
<1>8. QED
  BY <1>2, <1>3, <1>4, <1>5, <1>6, <1>7 DEF Sendable

\* Requests come and go.
LEMMA GoneGood ==
    ASSUME TInv, page' = page, served' = served,
           NEW C, NEW R, Go(C, R), \A r \in R : GoodSend(page, r)
    PROVE  (\A c \in calls' : GoodCall(page', c)) /\ overtaken' \in BOOLEAN /\ Past'
<1>1. \A c \in calls' : GoodCall(page', c)
  BY DEF TInv, Go, GoodSend
<1>2. overtaken' \in BOOLEAN
  BY DEF Go
<1>3. Past'
  BY DEF TInv, Past, Answered, Go, GoodSend
<1>4. QED
  BY <1>1, <1>2, <1>3

\* The user does something.
LEMMA DoesGood ==
    ASSUME TInv, NEW v, v \in View, Placed(page, v),
           NEW R, \A r \in R : GoodSend(page, r), Does(v, R)
    PROVE  TInv'
<1>1. page' = page /\ served' = served /\ view' = v /\ Go({}, R)
  BY DEF Does
<1>2. acts' \in 0..MaxActs
  BY OverviewPagesAssumption DEF Does, Act, TInv
<1>3. (\A c \in calls' : GoodCall(page', c)) /\ overtaken' \in BOOLEAN /\ Past'
  BY <1>1, GoneGood
<1>4. QED
  BY <1>1, <1>2, <1>3 DEF TInv

\* A handler goes on to its end.
LEMMA GoesGood ==
    ASSUME TInv, NEW c, NEW v, v \in View, Placed(page, v),
           NEW R, \A r \in R : GoodSend(page, r), Goes(c, v, R)
    PROVE  TInv'
<1>1. page' = page /\ served' = served /\ acts' = acts /\ view' = v /\ Go({c}, R)
  BY DEF Goes
<1>2. (\A d \in calls' : GoodCall(page', d)) /\ overtaken' \in BOOLEAN /\ Past'
  BY <1>1, GoneGood
<1>3. QED
  BY <1>1, <1>2 DEF TInv

\* What is kin stays where it was.
LEMMA KinGood ==
    ASSUME TInv, NEW v, Kin(view, v)
    PROVE  v \in View /\ Placed(page, v)
  BY DEF Kin, Placed, TInv

\* Kinship goes on.
LEMMA Chained ==
    ASSUME NEW u, NEW v, NEW w
    PROVE  /\ Kin(u, v) /\ Kin(v, w) => Kin(u, w)
           /\ Calm(u, v) /\ Calm(v, w) => Calm(u, w)
           /\ Calm(u, v) => Kin(u, v) /\ v \in View
           /\ Kin(u, v) => v \in View
  BY DEF Calm, Kin

-----------------------------------------------------------------------------
(* The steps of each page                                                    *)

NanobarsDo ==
    \/ \E t \in Types \cup {AnyType} : HandleFilterChange(t)
    \/ \E s \in Scopes : HandleSearchInput(s)
    \/ SearchTimeout
    \/ HandleGenerateBricksClick \/ HandlePrevPage \/ HandleNextPage
    \/ \E c \in calls : OptionsEnd(c) \/ NanobarsEnd(c) \/ GenerateEnd(c)

TracesDo ==
    \/ \E f \in Filters : EnterFilter(f)
    \/ HandleApplyFilters \/ HandleResetFilters \/ HandleTracesPrevPage \/ HandleTracesNextPage
    \/ \E c \in calls : FacetsEnd(c) \/ TracesEnd(c)

WorkersDo ==
    \/ \E w \in Workers : SelectWorker(w)
    \/ \E c \in calls : WorkersEnd(c) \/ LogEnd(c)

SettingsDo ==
    \/ HandleTracingToggleChange
    \/ \E r \in Rows : HandleRefreshClick(r)
    \/ \E c \in calls : SettingsEnd(c) \/ ToggleEnd(c) \/ StatusEnd(c) \/ RefreshEnd(c)

AdminDo ==
    \/ HandleMarkRead \/ HandleNewPostSubmit
    \/ \E c \in calls : NotificationsEnd(c) \/ PostsEnd(c) \/ MarkReadEnd(c) \/ NewPostEnd(c)

FormsDo ==
    \/ HandleEditSubmit \/ HandleBookingSubmit \/ HandleLoginSubmit
    \/ \E c \in calls : EditLoadEnd(c) \/ EditEnd(c) \/ BookingEnd(c) \/ LoginEnd(c)

ReadersDo ==
    \/ \E s \in Spans : SelectSpan(s) \/ EditHash(s)
    \/ HandleHashChange
    \/ \E c \in calls : BlogEnd(c) \/ PostEnd(c) \/ TraceEnd(c)

PageDoes ==
    \/ page = "nanobars" /\ NanobarsDo
    \/ page = "traces" /\ TracesDo
    \/ page = "workers" /\ WorkersDo
    \/ page = "settings" /\ SettingsDo
    \/ page = "app admin" /\ AdminDo
    \/ page \in Forms /\ FormsDo
    \/ page \in Readers /\ ReadersDo

\* A handler that goes on is one of the page in the tab.
LEMMA KindSteps ==
    ASSUME TInv, NEW c \in calls
    PROVE  /\ c.kind \in {"options", "nanobars", "generate"} => page = "nanobars"
           /\ c.kind \in {"facets", "traces"} => page = "traces"
           /\ c.kind \in {"workers", "log"} => page = "workers"
           /\ c.kind \in {"settings", "status", "toggle", "refresh"} => page = "settings"
           /\ c.kind \in {"notes", "posts", "read", "post"} => page = "app admin"
           /\ c.kind = "submit" => page \in Forms
           /\ c.kind = "read only" => page \in Forms \cup Readers
           /\ page # "left"
<1>1. c.kind \in KindsOf(page) /\ page \in PageNames
  BY DEF TInv, GoodCall
<1>2. QED
  BY <1>1 DEF KindsOf, PageNames, Lists, Forms, Readers

\* A step is one of the page's own, the server's, the unloading, a change of rows, or none.
LEMMA Steps ==
    ASSUME TInv, [Next]_vars
    PROVE  PageDoes \/ (\E c \in calls : Handle(c)) \/ Unload \/ RowsChange \/ UNCHANGED vars
<1>1. CASE User
  BY <1>1 DEF User, PageDoes, NanobarsDo, TracesDo, WorkersDo, SettingsDo, AdminDo, FormsDo,
     ReadersDo, HandleFilterChange, HandleSearchInput, HandleGenerateBricksClick,
     HandlePrevPage, HandleNextPage, EnterFilter, HandleApplyFilters, HandleResetFilters,
     HandleTracesPrevPage, HandleTracesNextPage, SelectWorker, HandleTracingToggleChange,
     HandleRefreshClick, HandleMarkRead, HandleNewPostSubmit, HandleEditSubmit,
     HandleBookingSubmit, HandleLoginSubmit, SelectSpan, EditHash, Forms, Readers
<1>2. ASSUME NEW c \in calls, Continue(c) PROVE PageDoes
  <2>1. CASE OptionsEnd(c) \/ NanobarsEnd(c) \/ GenerateEnd(c)
    BY <2>1, KindSteps DEF PageDoes, NanobarsDo, OptionsEnd, NanobarsEnd, GenerateEnd
  <2>2. CASE FacetsEnd(c) \/ TracesEnd(c)
    BY <2>2, KindSteps DEF PageDoes, TracesDo, FacetsEnd, TracesEnd
  <2>3. CASE WorkersEnd(c) \/ LogEnd(c)
    BY <2>3, KindSteps DEF PageDoes, WorkersDo, WorkersEnd, LogEnd
  <2>4. CASE SettingsEnd(c) \/ ToggleEnd(c) \/ StatusEnd(c) \/ RefreshEnd(c)
    BY <2>4, KindSteps DEF PageDoes, SettingsDo, SettingsEnd, ToggleEnd, StatusEnd, RefreshEnd
  <2>5. CASE NotificationsEnd(c) \/ PostsEnd(c) \/ MarkReadEnd(c) \/ NewPostEnd(c)
    BY <2>5, KindSteps DEF PageDoes, AdminDo, NotificationsEnd, PostsEnd, MarkReadEnd, NewPostEnd
  <2>6. CASE EditLoadEnd(c) \/ EditEnd(c) \/ BookingEnd(c) \/ LoginEnd(c)
    BY <2>6 DEF PageDoes, FormsDo, EditLoadEnd, EditEnd, BookingEnd, LoginEnd, Forms
  <2>7. CASE BlogEnd(c) \/ PostEnd(c) \/ TraceEnd(c)
    BY <2>7 DEF PageDoes, ReadersDo, BlogEnd, PostEnd, TraceEnd, Readers
  <2>8. QED
    BY <1>2, <2>1, <2>2, <2>3, <2>4, <2>5, <2>6, <2>7 DEF Continue
<1>3. CASE SearchTimeout
  BY <1>3 DEF PageDoes, NanobarsDo, SearchTimeout, TInv, Placed
<1>4. CASE HandleHashChange
  BY <1>4 DEF PageDoes, ReadersDo, Readers, HandleHashChange, TInv, Placed
<1>5. QED
  BY <1>1, <1>2, <1>3, <1>4 DEF Next, Network, Rest

-----------------------------------------------------------------------------
(* No page beyond the last one.                                              *)

\* The page asked for is one that the query had, and so is the last of the pagination that is
\* shown.
RangedView(v) ==
    /\ HadPage(v.query, v.query.page)
    /\ v.list.pager > 0 => HadPage(v.query, v.list.pager)

Ranged == ~overtaken => RangedView(view)

\* How many pages there are does not depend on the one asked for.
LEMMA SameCount ==
    ASSUME NEW q, NEW r, q.scope = r.scope, q.type = r.type, NEW n
    PROVE  HadPage(q, n) <=> HadPage(r, n)
  BY DEF HadPage, PageCount

\* Every list has a first page, and with a page those before it.
LEMMA FirstPage ==
    ASSUME served \in Served, NEW q \in Queries
    PROVE  /\ HadPage(q, 1)
           /\ \A n \in Nat, k \in Nat : HadPage(q, n) /\ k <= n => HadPage(q, k)
<1>1. served.moment \in 0..LastMoment /\ LastMoment \in Nat
  BY OverviewPagesAssumption DEF Served
<1>2. \A m \in 0..served.moment : PageCount(q, m) \in Nat \ {0}
  BY <1>1, PageCountType
<1>3. HadPage(q, 1)
  BY <1>1, <1>2 DEF HadPage
<1>4. ASSUME NEW n \in Nat, NEW k \in Nat, HadPage(q, n), k <= n PROVE HadPage(q, k)
  BY <1>2, <1>4 DEF HadPage
<1>5. QED
  BY <1>3, <1>4

\* The pages an answer tells of, the list had.
LEMMA AnsweredPages ==
    ASSUME TInv, NEW c \in calls, Answered(c)
    PROVE  /\ c.answer.moment \in 0..LastMoment
           /\ \A q \in Queries : HadPage(q, PageCount(q, c.answer.moment))
<1>1. c.answer \in Served /\ c.answer.moment <= served.moment /\ served \in Served
  BY DEF TInv, GoodCall, Answered, Past
<1>2. c.answer.moment \in 0..LastMoment /\ c.answer.moment \in 0..served.moment
  BY <1>1, OverviewPagesAssumption DEF Served
<1>3. ASSUME NEW q \in Queries PROVE HadPage(q, PageCount(q, c.answer.moment))
  <2>1. PageCount(q, c.answer.moment) \in Nat
    BY <1>2, PageCountType
  <2>2. QED
    BY <1>2, <2>1 DEF HadPage
<1>4. QED
  BY <1>2, <1>3

\* What the list had, it has had.
LEMMA RangedNext ==
    ASSUME TInv, TInv', served'.moment >= served.moment, ~overtaken' => RangedView(view')
    PROVE  Ranged'
<1>1. served.moment \in Nat /\ served'.moment \in Nat
  BY OverviewPagesAssumption DEF TInv, Served
<1>2. QED
  BY <1>1 DEF Ranged, RangedView, HadPage, PageCount, Ceil

\* ... at the same moment, too.
LEMMA RangedSame ==
    ASSUME TInv, TInv', served' = served, ~overtaken' => RangedView(view')
    PROVE  Ranged'
<1>1. served.moment \in Nat
  BY OverviewPagesAssumption DEF TInv, Served
<1>2. served'.moment >= served.moment
  BY <1>1
<1>3. QED
  BY <1>2, RangedNext

\* As long as nothing was overtaken, what is sent is the only request of its kind.
LEMMA GoFresh ==
    ASSUME TInv, NEW C, NEW R, Go(C, R)
    PROVE  /\ overtaken => overtaken'
           /\ ~overtaken' => \A r \in R : r.kind \in Loads => \A c \in calls : c.kind # r.kind
  BY DEF Go, InFlight, TInv

\* A view that asks for the same, with the pagination at most taken away.
LEMMA CalmRanged ==
    ASSUME Ranged, NEW v, v.query = view.query, v.list.pager \in {0, view.list.pager},
           overtaken => overtaken'
    PROVE  ~overtaken' => RangedView(v)
  BY DEF Ranged, RangedView

\* What the user does, in general ...
LEMMA DoesWell ==
    ASSUME TInv, NEW v, v \in View, Placed(page, v), ~overtaken' => RangedView(v),
           NEW R, \A r \in R : GoodSend(page, r), Does(v, R)
    PROVE  TInv' /\ Ranged'
<1>1. TInv'
  BY DoesGood
<1>2. view' = v /\ served' = served
  BY DEF Does
<1>3. QED
  BY <1>1, <1>2, RangedSame

\* ... a handler that goes on to its end ...
LEMMA GoesWell ==
    ASSUME TInv, NEW c, NEW v, v \in View, Placed(page, v), ~overtaken' => RangedView(v),
           NEW R, \A r \in R : GoodSend(page, r), Goes(c, v, R)
    PROVE  TInv' /\ Ranged'
<1>1. TInv'
  BY GoesGood
<1>2. view' = v /\ served' = served
  BY DEF Goes
<1>3. QED
  BY <1>1, <1>2, RangedSame

\* ... and where they leave what is asked for alone.
LEMMA DoesCalm ==
    ASSUME TInv, Ranged, NEW v, Calm(view, v),
           NEW R, \A r \in R : GoodSend(page, r), Does(v, R)
    PROVE  TInv' /\ Ranged'
<1>1. v \in View /\ Placed(page, v)
  BY KinGood, Chained DEF Calm
<1>2. ~overtaken' => RangedView(v)
  BY CalmRanged, GoFresh DEF Calm, Does
<1>3. QED
  BY <1>1, <1>2, DoesWell

\* ... and a handler that goes on, too.
LEMMA GoesCalm ==
    ASSUME TInv, Ranged, NEW c, NEW v, Calm(view, v),
           NEW R, \A r \in R : GoodSend(page, r), Goes(c, v, R)
    PROVE  TInv' /\ Ranged'
<1>1. v \in View /\ Placed(page, v)
  BY KinGood, Chained DEF Calm
<1>2. ~overtaken' => RangedView(v)
  BY CalmRanged, GoFresh DEF Calm, Goes
<1>3. QED
  BY <1>1, <1>2, GoesWell

\* The page as it is is calm.
LEMMA SameView == ASSUME TInv PROVE Calm(view, view) /\ view \in View
  BY DEF TInv, Calm, Kin

\* What the handlers know of the call whose answer has come.
LEMMA CallTyped ==
    ASSUME TInv, NEW c \in calls
    PROVE  /\ c \in Calls /\ RightArg(c.kind, c.arg)
           /\ Answered(c) => /\ c.answer \in Served
                             /\ c.answer.list \in Nat /\ c.answer.notes \in Nat
                             /\ c.answer.runs \in Nat /\ c.answer.tracing \in {On, Off}
  BY DEF TInv, GoodCall, Answered, Served

-----------------------------------------------------------------------------
(* The list of nanobars                                                      *)

\* The request on its way, if there is one, is for what the controller asks for now.
Asked(kind) == ~overtaken => \A c \in calls : c.kind = kind => c.arg = view.query

\* A new filter or search begins with the first page.
LEMMA Requeries ==
    ASSUME NEW r \in Queries
    PROVE  /\ \A t \in Types \cup {AnyType} :
                /\ [r EXCEPT !.type = t, !.page = 1] \in Queries
                /\ [r EXCEPT !.type = t, !.page = 1].page = 1
           /\ \A s \in Scopes :
                /\ [r EXCEPT !.scope = s, !.page = 1] \in Queries
                /\ [r EXCEPT !.scope = s, !.page = 1].page = 1
<1>1. ASSUME NEW t \in Types \cup {AnyType}, NEW n \in Nat \ {0}
      PROVE  /\ [r EXCEPT !.type = t, !.page = n] \in Queries
             /\ [r EXCEPT !.type = t, !.page = n].page = n
  BY DEF Queries
<1>2. ASSUME NEW s \in Scopes, NEW n \in Nat \ {0}
      PROVE  /\ [r EXCEPT !.scope = s, !.page = n] \in Queries
             /\ [r EXCEPT !.scope = s, !.page = n].page = n
  BY DEF Queries
<1>3. 1 \in Nat \ {0}
  OBVIOUS
<1>4. QED
  BY <1>1, <1>2, <1>3

\* Nanobars that are loaded, of a page there is.
LEMMA LoadWell ==
    ASSUME TInv, page = "nanobars", NEW v, Kin(view, v),
           ~overtaken => HadPage(v.query, v.query.page), LoadNanobars(v)
    PROVE  TInv' /\ Ranged'
<1>1. v \in View /\ Calm(v, ShowStatus(v))
  BY ListViews, Chained
<1>2. Kin(view, ShowStatus(v))
  BY <1>1, Chained
<1>3. ShowStatus(v).query = v.query /\ ShowStatus(v).list.pager = 0
  BY <1>1 DEF ShowStatus, View
<1>4. ~overtaken' => RangedView(ShowStatus(v))
  BY <1>3, GoFresh DEF RangedView, LoadNanobars, Does
<1>5. GoodSend(page, FetchNanobars(v))
  BY <1>1, SendableHolds DEF Sendable
<1>6. QED
  BY <1>2, <1>4, <1>5, KinGood, DoesWell DEF LoadNanobars

\* The page of nanobars keeps the types, and asks for pages there are: a filter or a search begins
\* with the first, and the pagination is that of the query asked for last.
LEMMA NanobarsWell ==
    ASSUME TInv, Ranged, Asked("nanobars"), page = "nanobars", NanobarsDo
    PROVE  TInv' /\ Ranged'
<1>1. view \in View /\ view.query \in Queries /\ Calm(view, view)
  BY SameView DEF View
<1>2. ASSUME NEW t \in Types \cup {AnyType}, HandleFilterChange(t) PROVE TInv' /\ Ranged'
  <2> DEFINE q == [view.query EXCEPT !.type = t, !.page = 1]
             v == [view EXCEPT !.form.type = t, !.query = q]
  <2>1. q \in Queries /\ q.page = 1
    BY <1>1, Requeries
  <2>2. HadPage(q, 1)
    BY <2>1, FirstPage DEF TInv
  <2>3. Kin(view, v) /\ v.query = q
    <3>1. Kin(view, v)
      BY <1>1, <2>1, QueryViews
    <3>2. v.query = q
      BY <1>1 DEF View
    <3>3. QED
      BY <3>1, <3>2
  <2>4. LoadNanobars(v)
    BY <1>2 DEF HandleFilterChange
  <2> HIDE DEF v, q
  <2>5. QED
    BY <2>1, <2>2, <2>3, <2>4, LoadWell
<1>3. ASSUME NEW s \in Scopes, HandleSearchInput(s) PROVE TInv' /\ Ranged'
  <2> DEFINE v == [view EXCEPT !.form.scope = s, !.timer = TRUE]
  <2>1. v \in View /\ v.query = view.query /\ v.list = view.list
    BY <1>1 DEF View, Filters
  <2>2. Placed(page, v)
    BY <1>1 DEF Placed, TInv, View
  <2>3. Does(v, {})
    BY <1>3 DEF HandleSearchInput
  <2> HIDE DEF v
  <2>4. ~overtaken' => RangedView(v)
    BY <2>1, <2>3, CalmRanged, GoFresh DEF Does
  <2>5. QED
    BY <2>1, <2>2, <2>3, <2>4, DoesWell
<1>4. ASSUME SearchTimeout PROVE TInv' /\ Ranged'
  <2> DEFINE q == [view.query EXCEPT !.scope = view.form.scope, !.page = 1]
             v == [view EXCEPT !.timer = FALSE, !.query = q]
  <2>0. view.form.scope \in Scopes
    BY <1>1 DEF View, Filters
  <2>1. q \in Queries /\ q.page = 1
    BY <1>1, <2>0, Requeries
  <2>2. HadPage(q, 1)
    BY <2>1, FirstPage DEF TInv
  <2>3. v \in View /\ Placed(page, v) /\ v.query = q
    BY <1>1, <2>1 DEF View, Placed, TInv
  <2>4. /\ view' = ShowStatus(v) /\ Go({}, {FetchNanobars(v)})
        /\ UNCHANGED <<served, page, acts>>
    BY <1>4 DEF SearchTimeout
  <2> HIDE DEF v, q
  <2>5. Calm(v, ShowStatus(v)) /\ GoodSend(page, FetchNanobars(v))
    BY <2>3, ListViews, SendableHolds DEF Sendable
  <2>6. ShowStatus(v) \in View /\ Placed(page, ShowStatus(v))
    BY <2>3, <2>5 DEF Calm, Kin, Placed
  <2>7. (\A c \in calls' : GoodCall(page', c)) /\ overtaken' \in BOOLEAN /\ Past'
    BY <2>4, <2>5, GoneGood
  <2>8. TInv'
    BY <2>4, <2>6, <2>7 DEF TInv
  <2>9. ShowStatus(v).query = q /\ ShowStatus(v).list.pager = 0
    BY <2>3 DEF ShowStatus, View
  <2>10. RangedView(view')
    BY <2>1, <2>2, <2>4, <2>9 DEF RangedView
  <2>11. QED
    BY <2>4, <2>8, <2>10, RangedSame
<1>5. ASSUME HandleGenerateBricksClick PROVE TInv' /\ Ranged'
  <2>1. Calm(view, SetGenerateBricksBusy(view, TRUE)) /\ GoodSend(page, Request("generate", None))
    BY <1>1, ListViews, SendableHolds DEF Sendable
  <2>2. QED
    BY <1>5, <2>1, DoesCalm DEF HandleGenerateBricksClick
<1>6. ASSUME NEW n \in Nat \ {0}, LoadNanobars([view EXCEPT !.query.page = n]),
             ~overtaken => HadPage(view.query, n)
      PROVE  TInv' /\ Ranged'
  <2> DEFINE q == [view.query EXCEPT !.page = n]
             v == [view EXCEPT !.query = q]
  <2>1. q \in Queries /\ q.page = n /\ q.scope = view.query.scope /\ q.type = view.query.type
    BY <1>1 DEF Queries
  <2>2. HadPage(q, n) <=> HadPage(view.query, n)
    BY <2>1, SameCount
  <2>3. Kin(view, v) /\ v.query = q /\ v = [view EXCEPT !.query.page = n]
    BY <1>1, <2>1, QueryViews DEF View
  <2> HIDE DEF v, q
  <2>4. LoadNanobars(v)
    BY <1>6, <2>3
  <2>5. QED
    BY <1>6, <2>1, <2>2, <2>3, <2>4, LoadWell
<1>7. ASSUME HandlePrevPage PROVE TInv' /\ Ranged'
  <2>1. view.query.page \in Nat \ {0} /\ served \in Served
    BY <1>1 DEF Queries, TInv
  <2>2. view.query.page - 1 \in Nat \ {0}
    BY <1>7, <2>1 DEF HandlePrevPage
  <2>3. ~overtaken => HadPage(view.query, view.query.page - 1)
    BY <1>1, <2>1, FirstPage DEF Ranged, RangedView
  <2>4. LoadNanobars([view EXCEPT !.query.page = view.query.page - 1])
    BY <1>7 DEF HandlePrevPage
  <2>5. QED
    BY <1>6, <2>2, <2>3, <2>4
<1>8. ASSUME HandleNextPage PROVE TInv' /\ Ranged'
  <2>1. /\ view.query.page + 1 \in Nat \ {0} /\ served \in Served
        /\ view.query.page \in Nat /\ view.list.pager \in Nat
    BY <1>1 DEF Queries, View, TInv
  <2>2. view.query.page < view.list.pager
    BY <1>8 DEF HandleNextPage
  <2>3. ~overtaken => HadPage(view.query, view.query.page + 1)
    BY <1>1, <2>1, <2>2, FirstPage DEF Ranged, RangedView
  <2>4. LoadNanobars([view EXCEPT !.query.page = view.query.page + 1])
    BY <1>8 DEF HandleNextPage
  <2>5. QED
    BY <1>6, <2>1, <2>3, <2>4
<1>9. ASSUME NEW c \in calls, OptionsEnd(c) PROVE TInv' /\ Ranged'
  <2>1. Calm(view, PopulateFilters(view, Distinct(c.answer.moment)))
    BY <1>1, ListViews DEF Distinct
  <2>2. QED
    BY <1>1, <1>9, <2>1, GoesCalm DEF OptionsEnd
<1>10. ASSUME NEW c \in calls, NanobarsEnd(c) PROVE TInv' /\ Ranged'
  <2> DEFINE u == RenderGroups(HideStatus(view), [query |-> c.arg, at |-> c.answer.list])
             w == RenderPagination(u, c.arg, c.answer.moment)
  <2>1. c.kind = "nanobars" /\ c.arg \in Queries /\ (~overtaken => c.arg = view.query)
    BY <1>10, CallTyped DEF NanobarsEnd, RightArg, Asked
  <2>2. ASSUME Answered(c), Goes(c, w, {}) PROVE TInv' /\ Ranged'
    <3>1. [query |-> c.arg, at |-> c.answer.list] \in Rendered
      BY <2>1, <2>2, CallTyped DEF Rendered
    <3>2. Calm(view, HideStatus(view)) /\ Calm(HideStatus(view), u)
      BY <1>1, <3>1, ListViews, Chained
    <3>3. Calm(view, u) /\ u \in View
      BY <3>2, Chained
    <3>4. Kin(u, w) /\ w.query = u.query /\ w.list.pager \in {0, PageCount(c.arg, c.answer.moment)}
      BY <2>1, <2>2, <3>3, AnsweredPages, PagerViews
    <3>5. w \in View /\ Placed(page, w)
      BY <3>3, <3>4, Chained, KinGood
    <3>6. w.query = view.query
      BY <3>3, <3>4 DEF Calm
    <3> HIDE DEF u, w
    <3>7. ~overtaken' => RangedView(w)
      BY <2>1, <2>2, <3>4, <3>6, AnsweredPages, GoFresh DEF Goes, Ranged, RangedView
    <3>8. QED
      BY <2>2, <3>5, <3>7, GoesWell
  <2>3. CASE Goes(c, ShowLoadError(view), {})
    BY <1>1, <2>3, ListViews, GoesCalm
  <2>4. QED
    BY <1>10, <2>2, <2>3 DEF NanobarsEnd
<1>11. ASSUME NEW c \in calls, GenerateEnd(c) PROVE TInv' /\ Ranged'
  <2> DEFINE v == SetGenerateBricksBusy(ShowGenerateBricks(view, "done"), FALSE)
             e == SetGenerateBricksBusy(ShowGenerateBricks(view, "error"), FALSE)
  <2>1. Calm(view, v) /\ v \in View /\ Calm(view, e)
    BY <1>1, ListViews, Chained DEF Told
  <2>2. Calm(view, ShowStatus(v)) /\ GoodSend(page, FetchNanobars(v))
    BY <2>1, ListViews, Chained, SendableHolds DEF Sendable
  <2>3. \/ Goes(c, ShowStatus(v), {FetchNanobars(v)})
        \/ Goes(c, e, {})
    BY <1>11 DEF GenerateEnd
  <2> HIDE DEF v, e
  <2>4. QED
    BY <2>1, <2>2, <2>3, GoesCalm
<1>12. QED
  BY <1>2, <1>3, <1>4, <1>5, <1>7, <1>8, <1>9, <1>10, <1>11 DEF NanobarsDo

-----------------------------------------------------------------------------
(* The list of traces                                                        *)

\* Traces that are loaded, and maybe their facets, of a page there is.
LEMMA LoadTracesWell ==
    ASSUME TInv, page = "traces", NEW v, Kin(view, v),
           ~overtaken => HadPage(v.query, v.query.page),
           NEW R \in SUBSET {FetchTraceFacets(v), FetchTraces(v)}, Does(ShowTracesStatus(v), R)
    PROVE  TInv' /\ Ranged'
<1>1. v \in View /\ Calm(v, ShowTracesStatus(v))
  BY ListViews, Chained
<1>2. Kin(view, ShowTracesStatus(v))
  BY <1>1, Chained
<1>3. ShowTracesStatus(v).query = v.query /\ ShowTracesStatus(v).list.pager = 0
  BY <1>1 DEF ShowTracesStatus, View
<1>4. ~overtaken' => RangedView(ShowTracesStatus(v))
  BY <1>3, GoFresh DEF RangedView, Does
<1>5. \A r \in R : GoodSend(page, r)
  BY <1>1, SendableHolds DEF Sendable
<1>6. QED
  BY <1>2, <1>4, <1>5, KinGood, DoesWell

\* So does the page of traces.
LEMMA TracesWell ==
    ASSUME TInv, Ranged, Asked("traces"), page = "traces", TracesDo
    PROVE  TInv' /\ Ranged'
<1>1. view \in View /\ view.query \in Queries /\ Calm(view, view)
  BY SameView DEF View
<1>2. ASSUME NEW f \in Filters, EnterFilter(f) PROVE TInv' /\ Ranged'
  <2>1. Calm(view, [view EXCEPT !.form = f])
    BY <1>1 DEF Calm, Kin, View
  <2>2. QED
    BY <1>2, <2>1, DoesCalm DEF EnterFilter
<1>3. HandleApplyFilters => TInv' /\ Ranged'
  <2> DEFINE q == [scope |-> view.form.scope, type |-> view.form.type, page |-> 1]
             v == ReadFiltersFromForm(view)
  <2>1. q \in Queries /\ q.page = 1
    BY <1>1 DEF Queries, View, Filters
  <2>2. HadPage(q, 1)
    BY <2>1, FirstPage DEF TInv
  <2>3. Kin(view, v) /\ v.query = q
    <3>1. v = [view EXCEPT !.query = q]
      BY DEF ReadFiltersFromForm
    <3> HIDE DEF q, v
    <3>2. QED
      BY <1>1, <2>1, <3>1, QueryViews DEF View
  <2>4. HandleApplyFilters => Does(ShowTracesStatus(v), {FetchTraceFacets(v), FetchTraces(v)})
    BY DEF HandleApplyFilters
  <2> HIDE DEF v, q
  <2>5. QED
    BY <2>1, <2>2, <2>3, <2>4, LoadTracesWell
<1>4. HandleResetFilters => TInv' /\ Ranged'
  <2> DEFINE q == [scope |-> DefaultScope, type |-> AnyType, page |-> 1]
             v == [view EXCEPT !.form.scope = DefaultScope, !.query = q]
  <2>1. q \in Queries /\ q.page = 1
    BY OverviewPagesAssumption DEF Queries
  <2>2. HadPage(q, 1)
    BY <2>1, FirstPage DEF TInv
  <2>3. HandleResetFilters => Does(ShowTracesStatus(v), {FetchTraceFacets(v), FetchTraces(v)})
    BY DEF HandleResetFilters
  <2> HIDE DEF q
  <2>4. Kin(view, v) /\ v.query = q
    BY <1>1, <2>1, QueryViews, OverviewPagesAssumption DEF View
  <2> HIDE DEF v
  <2>5. QED
    BY <2>1, <2>2, <2>3, <2>4, LoadTracesWell
<1>5. ASSUME NEW n \in Nat \ {0}, ~overtaken => HadPage(view.query, n)
      PROVE  LET v == [view EXCEPT !.query.page = n]
             IN Does(ShowTracesStatus(v), {FetchTraces(v)}) => TInv' /\ Ranged'
  <2> DEFINE q == [view.query EXCEPT !.page = n]
             v == [view EXCEPT !.query = q]
  <2>1. q \in Queries /\ q.page = n /\ q.scope = view.query.scope /\ q.type = view.query.type
    BY <1>1 DEF Queries
  <2>2. HadPage(q, n) <=> HadPage(view.query, n)
    BY <2>1, SameCount
  <2>3. Kin(view, v) /\ v.query = q /\ v = [view EXCEPT !.query.page = n]
    BY <1>1, <2>1, QueryViews DEF View
  <2> HIDE DEF v, q
  <2>4. Does(ShowTracesStatus(v), {FetchTraces(v)}) => TInv' /\ Ranged'
    BY <1>5, <2>1, <2>2, <2>3, LoadTracesWell
  <2>5. QED
    BY <2>3, <2>4
<1>6. HandleTracesPrevPage => TInv' /\ Ranged'
  <2>1. view.query.page \in Nat \ {0} /\ served \in Served
    BY <1>1 DEF Queries, TInv
  <2>2. ~overtaken => HadPage(view.query, view.query.page - 1)
    BY <1>1, <2>1, FirstPage DEF Ranged, RangedView
  <2>3. HandleTracesPrevPage =>
          /\ view.query.page - 1 \in Nat \ {0}
          /\ LET v == [view EXCEPT !.query.page = view.query.page - 1]
             IN Does(ShowTracesStatus(v), {FetchTraces(v)})
    BY <2>1 DEF HandleTracesPrevPage
  <2>4. QED
    BY <1>5, <2>2, <2>3
<1>7. HandleTracesNextPage => TInv' /\ Ranged'
  <2>1. /\ view.query.page \in Nat \ {0} /\ served \in Served
        /\ view.list.pager \in Nat
    BY <1>1 DEF Queries, View, TInv
  <2>2. HandleTracesNextPage =>
          /\ view.query.page < view.list.pager
          /\ LET v == [view EXCEPT !.query.page = view.query.page + 1]
             IN Does(ShowTracesStatus(v), {FetchTraces(v)})
    BY DEF HandleTracesNextPage
  <2>3. view.query.page < view.list.pager /\ ~overtaken
           => HadPage(view.query, view.query.page + 1)
    BY <1>1, <2>1, FirstPage DEF Ranged, RangedView
  <2>4. view.query.page + 1 \in Nat \ {0}
    BY <2>1
  <2>5. QED
    BY <1>5, <2>2, <2>3, <2>4
<1>8. ASSUME NEW c \in calls, FacetsEnd(c) PROVE TInv' /\ Ranged'
  <2>1. Calm(view, RenderCheckboxes(view, Facets(c.arg.scope, c.answer.moment), view.query.type))
    BY <1>1, ListViews DEF Facets
  <2>2. QED
    BY <1>1, <1>8, <2>1, GoesCalm DEF FacetsEnd
<1>9. ASSUME NEW c \in calls, TracesEnd(c) PROVE TInv' /\ Ranged'
  <2> DEFINE t == RenderTraces(HideTracesStatus(view), [query |-> c.arg, at |-> c.answer.list])
             u == RenderTracesPagination(t, c.arg, c.answer.moment)
             w == UpdateFilterSummaryText(u, view.query.scope)
  <2>1. c.kind = "traces" /\ c.arg \in Queries /\ (~overtaken => c.arg = view.query)
    BY <1>9, CallTyped DEF TracesEnd, RightArg, Asked
  <2>2. ASSUME Answered(c), Goes(c, w, {}) PROVE TInv' /\ Ranged'
    <3>1. [query |-> c.arg, at |-> c.answer.list] \in Rendered
      BY <2>1, <2>2, CallTyped DEF Rendered
    <3>2. Calm(view, HideTracesStatus(view)) /\ Calm(HideTracesStatus(view), t)
      BY <1>1, <3>1, ListViews, Chained
    <3>3. Calm(view, t) /\ t \in View
      BY <3>2, Chained
    <3>4. Kin(t, u) /\ u.query = t.query /\ u.list.pager \in {0, PageCount(c.arg, c.answer.moment)}
      BY <2>1, <2>2, <3>3, AnsweredPages, PagerViews
    <3>5. Calm(u, w)
      <4>1. u \in View /\ view.query.scope \in Scopes
        BY <1>1, <3>4, Chained DEF Queries
      <4>2. QED
        BY <4>1, ListViews
    <3>6. w \in View /\ Placed(page, w)
      <4>1. Kin(view, t) /\ Kin(t, u) /\ Kin(u, w)
        BY <3>3, <3>4, <3>5, Chained
      <4> HIDE DEF t, u, w
      <4>2. Kin(view, w)
        BY <4>1, Chained
      <4>3. QED
        BY <4>2, KinGood
    <3>7. w.query = view.query /\ w.list.pager \in {0, PageCount(c.arg, c.answer.moment)}
      BY <3>3, <3>4, <3>5 DEF Calm
    <3> HIDE DEF t, u, w
    <3>8. ~overtaken' => RangedView(w)
      BY <2>1, <2>2, <3>7, AnsweredPages, GoFresh DEF Goes, Ranged, RangedView
    <3>9. QED
      BY <2>2, <3>6, <3>8, GoesWell
  <2>3. CASE Goes(c, ShowTracesLoadError(view), {})
    BY <1>1, <2>3, ListViews, GoesCalm
  <2>4. QED
    BY <1>9, <2>2, <2>3 DEF TracesEnd
<1>10. QED
  BY <1>2, <1>3, <1>4, <1>6, <1>7, <1>8, <1>9 DEF TracesDo

-----------------------------------------------------------------------------
(* The other pages ask for one thing: they are calm.                         *)

LEMMA WorkersWell ==
    ASSUME TInv, Ranged, page = "workers", WorkersDo
    PROVE  TInv' /\ Ranged'
<1>1. view \in View
  BY SameView
<1>2. ASSUME NEW w \in Workers, SelectWorker(w) PROVE TInv' /\ Ranged'
  <2>1. Calm(view, RenderWorkerDetail(view, w)) /\ RenderWorkerDetail(view, w) \in View
    BY <1>1, WorkerViews, Chained
  <2>2. Calm(view, ShowWorkerLogLoading(RenderWorkerDetail(view, w)))
    BY <2>1, WorkerViews, Chained
  <2>3. GoodSend(page, Request("log", w))
    BY <1>1, SendableHolds DEF Sendable
  <2>4. QED
    BY <1>2, <2>2, <2>3, DoesCalm DEF SelectWorker
<1>3. ASSUME NEW c \in calls, WorkersEnd(c) PROVE TInv' /\ Ranged'
  <2>1. Calm(view, ShowWorkersError(view))
        /\ \A ws \in {{}, Workers} : Calm(view, RenderWorkersList(view, ws))
    BY <1>1, WorkerViews
  <2>2. QED
    BY <1>3, <2>1, GoesCalm DEF WorkersEnd
<1>4. ASSUME NEW c \in calls, LogEnd(c) PROVE TInv' /\ Ranged'
  <2>1. c.arg \in Workers
    BY <1>4, CallTyped DEF LogEnd, RightArg
  <2>2. Calm(view, RenderWorkerLog(view, c.arg)) /\ Calm(view, ShowWorkerLogError(view))
    BY <1>1, <2>1, WorkerViews
  <2>3. QED
    BY <1>4, <2>2, GoesCalm DEF LogEnd
<1>5. QED
  BY <1>2, <1>3, <1>4 DEF WorkersDo

\* The toggle is disabled or enabled again, and its message set.
LEMMA ToggleViews ==
    ASSUME NEW v \in View, NEW on \in BOOLEAN, NEW busy \in BOOLEAN
    PROVE  Calm(v, SetTracingToggleBusy(ShowTracingToggleError(v, on), busy))
<1>1. Calm(v, ShowTracingToggleError(v, on))
  BY SettingsViews
<1>2. ShowTracingToggleError(v, on) \in View
  BY <1>1, Chained
<1>3. QED
  BY <1>1, <1>2, SettingsViews, Chained

\* What the settings do is calm.
LEMMA SettingsWell ==
    ASSUME TInv, Ranged, page = "settings", SettingsDo
    PROVE  TInv' /\ Ranged'
<1>1. view \in View /\ Calm(view, view)
  BY SameView
<1>2. HandleTracingToggleChange => TInv' /\ Ranged'
  <2> DEFINE v == [view EXCEPT !.toggle.at = Other(@)]
             w == SetTracingToggleBusy(ShowTracingToggleError(v, FALSE), TRUE)
  <2>1. Calm(view, v) /\ v \in View /\ v.toggle.at \in {On, Off}
    <3>1. Other(view.toggle.at) \in {On, Off}
      BY DEF Other
    <3>2. Calm(view, v)
      BY <1>1, <3>1, SettingsViews
    <3>3. QED
      BY <3>2, Chained DEF View
  <2>2. Calm(v, w)
    BY <2>1, ToggleViews
  <2>3. GoodSend(page, Request("toggle", v.toggle.at))
    BY <1>1, <2>1, SendableHolds DEF Sendable
  <2>4. HandleTracingToggleChange => Does(w, {Request("toggle", v.toggle.at)})
    BY DEF HandleTracingToggleChange
  <2>5. Calm(view, w)
    BY <2>1, <2>2, Chained
  <2> HIDE DEF v, w
  <2>6. QED
    BY <2>3, <2>4, <2>5, DoesCalm
<1>3. ASSUME NEW r \in Rows, HandleRefreshClick(r) PROVE TInv' /\ Ranged'
  <2>1. Calm(view, SetRefreshBusy(view, r, TRUE)) /\ GoodSend(page, Request("refresh", r))
    BY <1>1, SettingsViews, SendableHolds DEF Sendable
  <2>2. QED
    BY <1>3, <2>1, DoesCalm DEF HandleRefreshClick
<1>4. ASSUME NEW c \in calls, SettingsEnd(c) PROVE TInv' /\ Ranged'
  <2>1. Calm(view, ShowSettings(view, "none")) /\ Calm(view, ShowSettings(view, "error"))
    BY <1>1, SettingsViews DEF Messages
  <2>2. Answered(c) => Calm(view, RenderTracingEnabled(ShowSettings(view, "none"),
                                                       c.answer.tracing))
    BY <2>1, CallTyped, SettingsViews, Chained
  <2>3. QED
    BY <1>4, <2>1, <2>2, GoesCalm DEF SettingsEnd
<1>5. ASSUME NEW c \in calls, ToggleEnd(c) PROVE TInv' /\ Ranged'
  <2> DEFINE v == [view EXCEPT !.toggle.at = Other(c.arg)]
             w == SetTracingToggleBusy(ShowTracingToggleError(v, TRUE), FALSE)
  <2>1. Other(c.arg) \in {On, Off}
    BY DEF Other
  <2>2. Calm(view, v) /\ v \in View
    BY <1>1, <2>1, SettingsViews, Chained
  <2>3. Calm(v, w)
    BY <2>2, ToggleViews
  <2>4. Calm(view, w)
    BY <2>2, <2>3, Chained
  <2>5. Answered(c) => Calm(view, RenderTracingEnabled(view, c.answer.tracing))
    BY <1>1, CallTyped, SettingsViews
  <2>6. \/ Answered(c) /\ Goes(c, RenderTracingEnabled(view, c.answer.tracing), {})
        \/ Goes(c, w, {})
    BY <1>5 DEF ToggleEnd
  <2> HIDE DEF v, w
  <2>7. QED
    BY <2>4, <2>5, <2>6, GoesCalm
<1>6. ASSUME NEW c \in calls, StatusEnd(c) PROVE TInv' /\ Ranged'
  <2>1. Answered(c) => Calm(view, RenderLastRun(view, c.answer.runs))
    BY <1>1, CallTyped, SettingsViews
  <2>2. QED
    BY <1>1, <1>6, <2>1, GoesCalm DEF StatusEnd
<1>7. ASSUME NEW c \in calls, RefreshEnd(c) PROVE TInv' /\ Ranged'
  <2> DEFINE v(m) == SetRefreshBusy(ShowRefresh(view, c.arg, m), c.arg, FALSE)
  <2>1. c.arg \in Rows
    BY <1>7, CallTyped DEF RefreshEnd, RightArg
  <2>2. \A m \in Told : Calm(view, v(m))
    BY <1>1, <2>1, SettingsViews, Chained
  <2>3. GoodSend(page, Request("status", None))
    BY <1>1, SendableHolds DEF Sendable
  <2>4. Goes(c, v("done"), {Request("status", None)}) \/ Goes(c, v("error"), {})
    BY <1>7 DEF RefreshEnd
  <2>5. Calm(view, v("done")) /\ Calm(view, v("error"))
    BY <2>2 DEF Told
  <2> HIDE DEF v
  <2>6. QED
    BY <2>3, <2>4, <2>5, GoesCalm
<1>8. QED
  BY <1>2, <1>3, <1>4, <1>5, <1>6, <1>7 DEF SettingsDo

\* The dashboard of the blog's admin is in the tab.
OnAdmin == page = "app admin"

\* What the dashboard does is calm.
LEMMA AdminWell ==
    ASSUME TInv, Ranged, OnAdmin, AdminDo
    PROVE  TInv' /\ Ranged'
<1>1. view \in View /\ Calm(view, view)
  BY SameView
<1>2. /\ GoodSend(page, Request("read", None)) /\ GoodSend(page, Request("notes", None))
      /\ GoodSend(page, Request("post", None)) /\ GoodSend(page, Request("posts", None))
  BY <1>1, SendableHolds DEF Sendable, OnAdmin
<1>3. HandleMarkRead => TInv' /\ Ranged'
  BY <1>1, <1>2, DoesCalm DEF HandleMarkRead
<1>4. HandleNewPostSubmit => TInv' /\ Ranged'
  <2>1. Calm(view, SetNewPostFormBusy(NewPostMessage(view, "nothing"), TRUE))
    BY <1>1, AdminViews, Chained DEF Told
  <2>2. QED
    BY <1>2, <2>1, DoesCalm DEF HandleNewPostSubmit
<1>5. ASSUME NEW c \in calls, NotificationsEnd(c) PROVE TInv' /\ Ranged'
  <2>1. Calm(view, ShowNotifications(view, "error"))
    BY <1>1, AdminViews DEF Messages
  <2>2. Answered(c) => Calm(view, RenderNotifications(view, c.answer.notes))
    BY <1>1, CallTyped, AdminViews
  <2>3. QED
    BY <1>5, <2>1, <2>2, GoesCalm DEF NotificationsEnd
<1>6. ASSUME NEW c \in calls, PostsEnd(c) PROVE TInv' /\ Ranged'
  <2>1. Calm(view, ShowPosts(view, "error"))
    BY <1>1, AdminViews DEF Messages
  <2>2. Answered(c) => Calm(view, RenderPosts(view, c.answer.list))
    BY <1>1, CallTyped, AdminViews
  <2>3. QED
    BY <1>6, <2>1, <2>2, GoesCalm DEF PostsEnd
<1>7. ASSUME NEW c \in calls, MarkReadEnd(c) PROVE TInv' /\ Ranged'
  <2>1. Calm(view, ShowNotifications(view, "loading"))
    BY <1>1, AdminViews DEF Messages
  <2>2. QED
    BY <1>2, <1>7, <2>1, GoesCalm DEF MarkReadEnd
<1>8. ASSUME NEW c \in calls, NewPostEnd(c) PROVE TInv' /\ Ranged'
  <2> DEFINE v(m) == SetNewPostFormBusy(NewPostMessage(view, m), FALSE)
  <2>1. Calm(view, v("done")) /\ v("done") \in View /\ Calm(view, v("error"))
    BY <1>1, AdminViews, Chained DEF Told
  <2>2. Calm(view, ShowPosts(v("done"), "loading"))
    BY <2>1, AdminViews, Chained DEF Messages
  <2>3. \/ Goes(c, ShowPosts(v("done"), "loading"), {Request("posts", None)})
        \/ Goes(c, v("error"), {})
    BY <1>8 DEF NewPostEnd
  <2> HIDE DEF v
  <2>4. QED
    BY <1>2, <2>1, <2>2, <2>3, GoesCalm
<1>9. QED
  BY <1>3, <1>4, <1>5, <1>6, <1>7, <1>8 DEF AdminDo

\* A form that is sent, or was not saved.
LEMMA SubmitWell ==
    ASSUME TInv, Ranged, page \in Forms
    PROVE  /\ Submit(view) => TInv' /\ Ranged'
           /\ \A c : SubmitFails(c) => TInv' /\ Ranged'
<1>1. view \in View /\ Calm(view, ClearSaveError(view)) /\ Calm(view, ShowSaveError(view))
  BY SameView, FormViews
<1>2. /\ Calm(view, SetFormBusy(ClearSaveError(view), TRUE))
      /\ Calm(view, SetFormBusy(ShowSaveError(view), FALSE))
  BY <1>1, FormViews, Chained
<1>3. GoodSend(page, Request("submit", None))
  BY <1>1, SendableHolds DEF Sendable
<1>4. ASSUME Submit(view) PROVE TInv' /\ Ranged'
  BY <1>2, <1>3, <1>4, DoesCalm DEF Submit
<1>5. ASSUME NEW c, SubmitFails(c) PROVE TInv' /\ Ranged'
  <2> DEFINE v == SetFormBusy(ShowSaveError(view), FALSE)
  <2>1. Goes(c, v, {}) /\ Calm(view, v)
    BY <1>2, <1>5 DEF SubmitFails
  <2> HIDE DEF v
  <2>2. QED
    BY <2>1, GoesCalm
<1>6. QED
  BY <1>4, <1>5

\* The pages that another follows.
Leavable == page \in {"edit post", "login"}

\* A form that was saved, on a page that is to be left.
LEMMA LeaveWell ==
    ASSUME TInv, Ranged, Leavable, NEW c, Leave(c)
    PROVE  TInv' /\ Ranged'
<1> DEFINE u == [view EXCEPT !.leaving = TRUE]
           v == SetFormBusy(u, FALSE)
<1>1. u \in View /\ Placed(page, u) /\ u.query = view.query /\ u.list = view.list
  BY SameView DEF View, Placed, TInv, Leavable
<1>2. Calm(u, v)
  BY <1>1, FormViews
<1>3. Goes(c, v, {})
  BY DEF Leave
<1> HIDE DEF u, v
<1>4. v \in View /\ Placed(page, v)
  BY <1>1, <1>2 DEF Calm, Kin, Placed
<1>5. ~overtaken' => RangedView(v)
  BY <1>1, <1>2, <1>3, CalmRanged, GoFresh DEF Calm, Goes
<1>6. QED
  BY <1>3, <1>4, <1>5, GoesWell

\* What the forms do is calm, or leaves the page.
LEMMA FormsWell ==
    ASSUME TInv, Ranged, page \in Forms, FormsDo
    PROVE  TInv' /\ Ranged'
<1>1. view \in View
  BY SameView
<1>2. CASE HandleEditSubmit \/ HandleBookingSubmit \/ HandleLoginSubmit
  BY <1>2, SubmitWell DEF HandleEditSubmit, HandleBookingSubmit, HandleLoginSubmit
<1>3. ASSUME NEW c \in calls, EditLoadEnd(c) PROVE TInv' /\ Ranged'
  <2>1. Calm(view, ShowPage(view, "error"))
    BY <1>1, FormViews DEF Messages
  <2>2. Answered(c) => Calm(view, RenderForm(view, c.answer.list))
    BY <1>1, CallTyped, FormViews
  <2>3. \/ Answered(c) /\ Goes(c, RenderForm(view, c.answer.list), {})
        \/ Goes(c, ShowPage(view, "error"), {})
    BY <1>3 DEF EditLoadEnd
  <2>4. QED
    BY <2>1, <2>2, <2>3, GoesCalm
<1>4. ASSUME NEW c \in calls, EditEnd(c) \/ LoginEnd(c) PROVE TInv' /\ Ranged'
  <2>1. Leavable /\ (Leave(c) \/ SubmitFails(c))
    BY <1>4 DEF EditEnd, LoginEnd, Leavable
  <2>2. QED
    BY <2>1, LeaveWell, SubmitWell
<1>5. ASSUME NEW c \in calls, BookingEnd(c) PROVE TInv' /\ Ranged'
  <2> DEFINE u == [view EXCEPT !.told["submit"] = "done"]
             v == SetFormBusy(u, FALSE)
  <2>1. Calm(view, u) /\ u \in View
    BY <1>1, FormViews, Chained
  <2>2. Calm(u, v)
    BY <2>1, FormViews
  <2>3. Goes(c, v, {}) \/ SubmitFails(c)
    BY <1>5 DEF BookingEnd
  <2> HIDE DEF u, v
  <2>4. Calm(view, v)
    BY <2>1, <2>2, Chained
  <2>5. QED
    BY <2>3, <2>4, GoesCalm, SubmitWell
<1>6. QED
  BY <1>2, <1>3, <1>4, <1>5 DEF FormsDo

\* What the pages that read once do is calm, but for the address.
LEMMA ReadersWell ==
    ASSUME TInv, Ranged, page \in Readers, ReadersDo
    PROVE  TInv' /\ Ranged'
<1>1. view \in View /\ Calm(view, view)
  BY SameView
<1>2. ASSUME NEW v \in View, Calm(view, v), NEW s \in Spans \cup {None}, page = "trace"
      PROVE  /\ SetHash(v, s) \in View /\ Placed(page, SetHash(v, s))
             /\ SetHash(v, s).query = view.query
             /\ SetHash(v, s).list.pager \in {0, view.list.pager}
  <2> DEFINE k == v.hashEvents + (IF v.hash = s THEN 0 ELSE 1)
  <2>0. SetHash(v, s) = [v EXCEPT !.hash = s, !.hashEvents = k]
    BY DEF SetHash
  <2>1. k \in Nat
    BY DEF View
  <2> HIDE DEF k
  <2>2. ASSUME NEW w, w = [v EXCEPT !.hash = s, !.hashEvents = k]
        PROVE  /\ w \in View /\ w.query = v.query /\ w.list = v.list
               /\ w.timer = v.timer /\ w.leaving = v.leaving
    BY <2>1, <2>2 DEF View
  <2>3. /\ SetHash(v, s) \in View
        /\ SetHash(v, s).query = v.query /\ SetHash(v, s).list = v.list
        /\ SetHash(v, s).timer = v.timer /\ SetHash(v, s).leaving = v.leaving
    BY <2>0, <2>2
  <2>4. QED
    BY <1>2, <2>3 DEF Calm, Kin, Placed, TInv
<1>4. ASSUME NEW s \in Spans, SelectSpan(s) PROVE TInv' /\ Ranged'
  <2>1. page = "trace" /\ Does(SetHash(RenderSpanDetail(view, s), s), {})
    BY <1>4 DEF SelectSpan
  <2>2. Calm(view, RenderSpanDetail(view, s)) /\ RenderSpanDetail(view, s) \in View
    BY <1>1, TraceViews, Chained
  <2>3. QED
    BY <2>1, <2>2, <1>2, CalmRanged, GoFresh, DoesWell DEF Does
<1>5. ASSUME NEW s \in Spans, EditHash(s) PROVE TInv' /\ Ranged'
  <2>1. page = "trace" /\ Does(SetHash(view, s), {})
    BY <1>5 DEF EditHash
  <2>2. QED
    BY <2>1, <1>1, <1>2, CalmRanged, GoFresh, DoesWell DEF Does
<1>6. HandleHashChange => TInv' /\ Ranged'
  <2> DEFINE v == [view EXCEPT !.hashEvents = @ - 1]
  <2>1. ASSUME view.hashEvents > 0
        PROVE  /\ v \in View /\ Placed(page, v) /\ v.query = view.query
               /\ v.list = view.list
    BY <1>1, <2>1 DEF View, Placed, TInv
  <2>2. HandleHashChange => /\ view.hashEvents > 0 /\ view' = ShowHashed(v)
                            /\ UNCHANGED <<served, page, calls, acts, overtaken>>
    BY DEF HandleHashChange
  <2> HIDE DEF v
  <2>3. SUFFICES ASSUME HandleHashChange PROVE TInv' /\ Ranged'
    OBVIOUS
  <2>4. Calm(v, ShowHashed(v))
    BY <2>1, <2>2, <2>3, TraceViews
  <2>5. ShowHashed(v) \in View /\ Placed(page, ShowHashed(v))
    BY <2>1, <2>2, <2>3, <2>4 DEF Calm, Kin, Placed
  <2>6. TInv'
    BY <2>2, <2>3, <2>5 DEF TInv, Past
  <2>7. ~overtaken' => RangedView(ShowHashed(v))
    BY <2>1, <2>2, <2>3, <2>4, CalmRanged DEF Calm
  <2>8. QED
    BY <2>2, <2>3, <2>6, <2>7, RangedSame
<1>7. ASSUME NEW c \in calls, BlogEnd(c) \/ PostEnd(c) PROVE TInv' /\ Ranged'
  <2>1. Calm(view, ShowPage(view, "error"))
    BY <1>1, FormViews DEF Messages
  <2>2. Answered(c) => /\ Calm(view, RenderBlog(view, c.answer.list))
                       /\ Calm(view, RenderArticle(view, c.answer.list))
    BY <1>1, CallTyped, FormViews
  <2>3. \/ Answered(c) /\ Goes(c, RenderBlog(view, c.answer.list), {})
        \/ Answered(c) /\ Goes(c, RenderArticle(view, c.answer.list), {})
        \/ Goes(c, ShowPage(view, "error"), {})
    BY <1>7 DEF BlogEnd, PostEnd
  <2>4. QED
    BY <2>1, <2>2, <2>3, GoesCalm
<1>8. ASSUME NEW c \in calls, TraceEnd(c) PROVE TInv' /\ Ranged'
  <2>1. Calm(view, ShowPage(view, "error"))
    BY <1>1, FormViews DEF Messages
  <2>2. ASSUME NEW ss \in SUBSET Spans PROVE Calm(view, ShowHashed(RenderSpans(view, ss)))
    BY <1>1, TraceViews, Chained
  <2>3. \/ \E ss \in SUBSET Spans : Goes(c, ShowHashed(RenderSpans(view, ss)), {})
        \/ Goes(c, ShowPage(view, "error"), {})
    BY <1>8 DEF TraceEnd
  <2>4. QED
    BY <2>1, <2>2, <2>3, GoesCalm
<1>9. QED
  BY <1>4, <1>5, <1>6, <1>7, <1>8 DEF ReadersDo

-----------------------------------------------------------------------------
(* The server, the unloading, and the first state                            *)

\* What the server does for a call of each kind.
LEMMA Effects ==
    ASSUME TInv, NEW c \in calls
    PROVE  /\ Effect(c) \in Served
           /\ c.kind \notin {"generate", "post", "submit"} => Effect(c).list = served.list
           /\ Effect(c).moment = served.moment
           /\ c.kind # "read" => Effect(c).notes = served.notes
           /\ c.kind # "toggle" => Effect(c).tracing = served.tracing
           /\ c.kind = "toggle" => Effect(c).tracing = c.arg
<1>1. served \in Served /\ (c.kind = "toggle" => c.arg \in {On, Off})
  BY CallTyped DEF TInv, RightArg
<1>2. CASE c.kind \in {"generate", "post", "submit"}
  BY <1>1, <1>2 DEF Effect, Served
<1>3. CASE c.kind = "refresh"
  BY <1>1, <1>3 DEF Effect, Served
<1>4. CASE c.kind = "read"
  BY <1>1, <1>4 DEF Effect, Served
<1>5. CASE c.kind = "toggle"
  BY <1>1, <1>5 DEF Effect, Served
<1>6. CASE c.kind \notin {"generate", "post", "submit", "refresh", "read", "toggle"}
  BY <1>1, <1>6 DEF Effect
<1>7. QED
  BY <1>2, <1>3, <1>4, <1>5, <1>6

\* A call that is handled stays the call it was, with an answer that tells of all that
\* the server has done.
LEMMA Handled ==
    ASSUME TInv, NEW c \in calls, Handle(c)
    PROVE  /\ page' = page /\ view' = view /\ acts' = acts /\ overtaken' = overtaken
           /\ served' = Effect(c)
           /\ \E d : /\ calls' = (calls \ {c}) \cup {d}
                     /\ d \in Calls /\ d.kind = c.kind /\ d.arg = c.arg
                     /\ d.at = "handled" /\ d.answer = served'
           /\ c.at = "sent"
<1>1. c \in Calls /\ Effect(c) \in Served
  BY CallTyped, Effects
<1> DEFINE d == [c EXCEPT !.at = "handled", !.answer = Effect(c)]
<1>2. d \in Calls /\ d.kind = c.kind /\ d.arg = c.arg /\ d.at = "handled" /\ d.answer = Effect(c)
  BY <1>1 DEF Calls
<1>3. QED
  BY <1>2 DEF Handle

\* The server changes nothing of the page.
LEMMA HandleWell ==
    ASSUME TInv, Ranged, NEW c \in calls, Handle(c)
    PROVE  TInv' /\ Ranged'
<1>1. PICK d : /\ calls' = (calls \ {c}) \cup {d}
               /\ d \in Calls /\ d.kind = c.kind /\ d.arg = c.arg
               /\ d.at = "handled" /\ d.answer = served'
  BY Handled
<1>2. page' = page /\ view' = view /\ acts' = acts /\ overtaken' = overtaken /\ served' \in Served
  BY Handled, Effects
<1>3. GoodCall(page, d)
  BY <1>1, <1>2 DEF TInv, GoodCall
<1>4. \A e \in calls' : GoodCall(page', e)
  BY <1>1, <1>2, <1>3 DEF TInv
<1>5. served'.moment = served.moment /\ served.moment \in Nat
  BY Handled, Effects, OverviewPagesAssumption DEF TInv, Served
<1>6. Past'
  BY <1>1, <1>5 DEF TInv, Past, Answered
<1>7. TInv'
  BY <1>2, <1>4, <1>6 DEF TInv
<1>8. served'.moment >= served.moment
  BY <1>5
<1>9. QED
  BY <1>2, <1>7, <1>8, RangedNext DEF Ranged

\* The page that is left has no requests, timers or events.
LEMMA UnloadWell ==
    ASSUME TInv, Ranged, Unload
    PROVE  TInv' /\ Ranged' /\ page' = "left"
<1> DEFINE u == [view EXCEPT !.leaving = FALSE]
           v == SetFormBusy(u, FALSE)
<1>1. u \in View /\ u.query = view.query /\ u.list = view.list /\ u.timer = view.timer
      /\ u.hashEvents = view.hashEvents /\ u.leaving = FALSE
  BY SameView DEF View
<1>2. Calm(u, v)
  BY <1>1, FormViews
<1>3. /\ view.leaving /\ page' = "left" /\ calls' = {} /\ view' = v
      /\ UNCHANGED <<served, acts, overtaken>>
  BY DEF Unload
<1> HIDE DEF u, v
<1>4. v \in View /\ Placed("left", v)
  <2>1. ~view.timer /\ ~(view.hashEvents > 0)
    BY <1>3 DEF TInv, Placed
  <2>2. QED
    BY <1>1, <1>2, <2>1 DEF Calm, Kin, Placed
<1>5. TInv'
  BY <1>3, <1>4 DEF TInv, Past, PageNames
<1>6. ~overtaken' => RangedView(v)
  BY <1>1, <1>2, <1>3, CalmRanged DEF Calm
<1>7. QED
  BY <1>3, <1>5, <1>6, RangedSame

\* A step that does nothing.
LEMMA StutterWell ==
    ASSUME TInv, Ranged, UNCHANGED vars
    PROVE  TInv' /\ Ranged'
<1>1. TInv'
  BY DEF vars, TInv, Placed, Past
<1>2. QED
  BY <1>1, RangedSame DEF vars, Ranged

\* Rows come and go: what was answered was before.
LEMMA RowsChangeWell ==
    ASSUME TInv, Ranged, RowsChange
    PROVE  /\ TInv' /\ Ranged'
           /\ UNCHANGED <<page, calls, view, acts, overtaken>>
           /\ served'.list = served.list /\ served'.notes = served.notes
           /\ served'.tracing = served.tracing
<1>1. /\ served.moment < LastMoment /\ served' = [served EXCEPT !.moment = @ + 1]
      /\ UNCHANGED <<page, calls, view, acts, overtaken>>
  BY DEF RowsChange
<1>2. /\ served' \in Served /\ served.moment \in Nat /\ served'.moment = served.moment + 1
      /\ served'.list = served.list /\ served'.notes = served.notes
      /\ served'.tracing = served.tracing
  <2>1. served \in Served
    BY DEF TInv
  <2>2. served.moment \in Nat /\ served.moment + 1 \in 0..LastMoment
    BY <1>1, <2>1, OverviewPagesAssumption DEF Served
  <2>3. QED
    BY <1>1, <2>1, <2>2 DEF Served
<1>3. Past'
  <2>1. ASSUME NEW c \in calls, Answered(c) PROVE c.answer.moment <= served'.moment
    <3>1. c.answer.moment \in Nat /\ c.answer.moment <= served.moment
      BY <2>1, OverviewPagesAssumption DEF TInv, GoodCall, Answered, Past, Served
    <3>2. QED
      BY <1>2, <3>1
  <2>2. QED
    BY <1>1, <2>1 DEF Past, Answered
<1>4. TInv'
  BY <1>1, <1>2, <1>3 DEF TInv, Placed
<1>5. served'.moment >= served.moment
  BY <1>2
<1>6. Ranged'
  BY <1>1, <1>4, <1>5, RangedNext DEF Ranged
<1>7. QED
  BY <1>1, <1>2, <1>4, <1>6

\* Every page opens with its own requests, for the first page of everything.
LEMMA FirstCalls ==
    ASSUME page \in PageNames
    PROVE  \A k \in FirstRequests(page) :
               /\ FirstCall(k).kind = k /\ FirstCall(k).at = "sent"
               /\ GoodCall(page, FirstCall(k))
               /\ k \in {"nanobars", "traces"} => FirstCall(k).arg = FirstQuery
<1> SUFFICES ASSUME NEW k \in FirstRequests(page)
             PROVE  /\ FirstCall(k).kind = k /\ FirstCall(k).at = "sent"
                    /\ GoodCall(page, FirstCall(k))
                    /\ k \in {"nanobars", "traces"} => FirstCall(k).arg = FirstQuery
  OBVIOUS
<1>1. FirstQuery \in Queries
  BY OverviewPagesAssumption DEF FirstQuery, Queries
<1>2. /\ k \in KindsOf(page) /\ k \in Kinds
      /\ k \in {"nanobars", "traces", "facets"} => page \in Lists
      /\ k \notin {"log", "toggle", "refresh"}
  BY DEF FirstRequests, KindsOf, Kinds, Loads, Writes, PageNames, Lists, Forms, Readers
<1> DEFINE a == IF page \in Lists THEN FirstQuery ELSE None
<1>3. a \in Queries \cup {None} /\ (page \in Lists => a = FirstQuery)
  BY <1>1
<1>4. RightArg(k, a)
  BY <1>1, <1>2, <1>3 DEF RightArg
<1> HIDE DEF a
<1>5. 1 \in Ids
  BY OverviewPagesAssumption DEF Ids
<1>6. FirstCall(k) = [kind |-> k, id |-> 1, arg |-> a, at |-> "sent", answer |-> None]
  BY DEF FirstCall, a
<1>7. QED
  BY <1>2, <1>3, <1>4, <1>5, <1>6 DEF GoodCall, Calls

\* A page opens with the first page of everything.
LEMMA InitWell ==
    ASSUME Init
    PROVE  TInv /\ Ranged
<1>1. FirstQuery \in Queries /\ FirstQuery.page = 1
  BY OverviewPagesAssumption DEF FirstQuery, Queries
<1>2. served \in Served
  BY OverviewPagesAssumption DEF Init, Served
<1>3. PICK hash \in Spans \cup {None} : view = FirstView(hash)
  BY DEF Init
<1>4. view \in View
  BY <1>1, <1>3, OverviewPagesAssumption DEF FirstView, View, Filters, Loading, Messages, Buttons
<1>5. /\ view.query = FirstQuery /\ view.list.pager = 0 /\ view.hashEvents = 0
      /\ ~view.timer /\ ~view.leaving
  BY <1>3 DEF FirstView
<1>6. HadPage(FirstQuery, 1)
  BY <1>1, <1>2, FirstPage
<1>7. page \in PageNames /\ acts = 0 /\ overtaken \in BOOLEAN
  BY DEF Init
<1>8. \A c \in calls : GoodCall(page, c)
  BY <1>7, FirstCalls DEF Init
<1>9. TInv
  <2>0. ~(view.hashEvents > 0)
    BY <1>5
  <2>1. Placed(page, view)
    BY <1>5, <2>0, Zenon DEF Placed
  <2>2. acts \in 0..MaxActs
    BY <1>7, OverviewPagesAssumption
  <2>3. Past
    BY FirstCalls DEF Init, Past, Answered
  <2>4. QED
    BY <1>4, <1>2, <1>7, <1>8, <2>1, <2>2, <2>3 DEF TInv
<1>10. Ranged
  BY <1>1, <1>5, <1>6 DEF Ranged, RangedView
<1>11. QED
  BY <1>9, <1>10

-----------------------------------------------------------------------------
(* What the page of nanobars shows                                           *)

\* A list that tells of all that was done, or will be loaded again after what is being
\* done, or says that the last change failed.
ListNow(n, write) == n = served.list \/ ~Quiet({write}) \/ view.told[write] = "error"

NanobarsInv ==
    page = "nanobars" /\ ~overtaken =>
        /\ \A c \in calls : c.kind = "nanobars" =>
              /\ c.arg = view.query
              /\ Answered(c) => ListNow(c.answer.list, "generate")
        /\ Quiet({"nanobars"}) =>
              OrError(view.list, /\ view.list.rows.query = view.query
                                 /\ ListNow(view.list.rows.at, "generate"))

\* The list is asked for anew.
LEMMA NanobarsLoaded ==
    ASSUME TInv, NEW C, NEW v, Go(C, {FetchNanobars(v)}), view'.query = v.query
    PROVE  NanobarsInv'
<1>1. /\ FetchNanobars(v).kind = "nanobars" /\ FetchNanobars(v).arg = v.query
      /\ FetchNanobars(v).at = "sent"
  BY DEF FetchNanobars, Request
<1>2. FetchNanobars(v) \in calls'
  BY DEF Go
<1>3. ASSUME ~overtaken', NEW c \in calls', c.kind = "nanobars"
      PROVE  c.arg = view'.query /\ c.at = "sent"
  <2>1. \A d \in calls : d.kind # "nanobars"
    BY <1>1, <1>3, GoFresh DEF Loads
  <2>2. c = FetchNanobars(v)
    BY <1>3, <2>1 DEF Go
  <2>3. QED
    BY <1>1, <2>2
<1>4. QED
  BY <1>1, <1>2, <1>3 DEF NanobarsInv, Quiet, InFlight, Answered

\* The list is left alone, and so is what is on its way, or the page says that the
\* generation failed.
LEMMA NanobarsKept ==
    ASSUME NanobarsInv, page' = page, overtaken => overtaken', served' = served,
           view'.query = view.query, view'.list = view.list,
           \A c : c.kind = "nanobars" => (c \in calls' <=> c \in calls),
           \/ /\ view'.told["generate"] = view.told["generate"]
              /\ \A c \in calls : c.kind = "generate" => c \in calls'
           \/ view'.told["generate"] = "error"
    PROVE  NanobarsInv'
<1>1. \A n : ListNow(n, "generate") => ListNow(n, "generate")'
  BY DEF ListNow, Quiet, InFlight
<1>2. Quiet({"nanobars"})' => Quiet({"nanobars"})
  BY DEF Quiet, InFlight
<1>3. QED
  BY <1>1, <1>2 DEF NanobarsInv, OrError, Answered

\* What of the view matters here.
LEMMA NanobarsSeen ==
    ASSUME NEW v \in View
    PROVE  /\ ShowStatus(v).query = v.query /\ ShowLoadError(v).query = v.query
           /\ ShowLoadError(v).list.message = "error" /\ ShowLoadError(v).told = v.told
           /\ \A on \in BOOLEAN : LET w == SetGenerateBricksBusy(v, on)
                 IN w.query = v.query /\ w.list = v.list /\ w.told = v.told
           /\ \A m \in Told : LET w == ShowGenerateBricks(v, m)
                 IN w.query = v.query /\ w.list = v.list /\ w.told["generate"] = m
           /\ \A x \in SUBSET Types : LET w == PopulateFilters(v, x)
                 IN w.query = v.query /\ w.list = v.list /\ w.told = v.told
           /\ \A q \in Queries, x \in Rendered, m \in 0..LastMoment :
                 LET w == RenderPagination(RenderGroups(HideStatus(v), x), q, m)
                 IN w.query = v.query /\ w.told = v.told /\ w.list.rows = x
<1> USE DEF View
<1>1. /\ ShowStatus(v).query = v.query /\ ShowLoadError(v).query = v.query
      /\ ShowLoadError(v).list.message = "error" /\ ShowLoadError(v).told = v.told
  BY DEF ShowStatus, ShowLoadError
<1>2. ASSUME NEW on \in BOOLEAN
      PROVE  LET w == SetGenerateBricksBusy(v, on)
             IN  w.query = v.query /\ w.list = v.list /\ w.told = v.told
  BY DEF SetGenerateBricksBusy
<1>3. ASSUME NEW m \in Told
      PROVE  LET w == ShowGenerateBricks(v, m)
             IN  w.query = v.query /\ w.list = v.list /\ w.told["generate"] = m
  BY DEF ShowGenerateBricks, Buttons
<1>4. ASSUME NEW x \in SUBSET Types
      PROVE  LET w == PopulateFilters(v, x)
             IN  w.query = v.query /\ w.list = v.list /\ w.told = v.told
  BY DEF PopulateFilters
<1>5. ASSUME NEW q \in Queries, NEW x \in Rendered, NEW m \in 0..LastMoment
      PROVE  LET w == RenderPagination(RenderGroups(HideStatus(v), x), q, m)
             IN  w.query = v.query /\ w.told = v.told /\ w.list.rows = x
  BY DEF RenderPagination, RenderGroups, HideStatus
<1> HIDE DEF View
<1>6. QED
  BY <1>1, <1>2, <1>3, <1>4, <1>5

\* What a page shows is kept by what the page does ...
LEMMA NanobarsTrue ==
    ASSUME TInv, NanobarsInv, page = "nanobars", NanobarsDo
    PROVE  NanobarsInv'
<1>1. view \in View /\ view.query \in Queries
  BY SameView DEF View
<1>2. ASSUME NEW v \in View, LoadNanobars(v) PROVE NanobarsInv'
  BY <1>2, NanobarsLoaded, NanobarsSeen DEF LoadNanobars, Does
<1>3. ASSUME NEW t \in Types \cup {AnyType}, HandleFilterChange(t) PROVE NanobarsInv'
  <2> DEFINE q == [view.query EXCEPT !.type = t, !.page = 1]
             v == [view EXCEPT !.form.type = t, !.query = q]
  <2>1. q \in Queries
    BY <1>1, Requeries
  <2>2. v \in View
    BY <1>1, <2>1, QueryViews DEF Kin
  <2>3. LoadNanobars(v)
    BY <1>3 DEF HandleFilterChange
  <2> HIDE DEF v
  <2>4. QED
    BY <1>2, <2>2, <2>3
<1>4. ASSUME NEW n \in Nat \ {0}, LoadNanobars([view EXCEPT !.query.page = n])
      PROVE  NanobarsInv'
  <2>1. [view EXCEPT !.query.page = n] \in View
    BY <1>1 DEF View, Queries
  <2>2. QED
    BY <1>2, <1>4, <2>1
<1>5. HandlePrevPage \/ HandleNextPage => NanobarsInv'
  <2>1. view.query.page \in Nat \ {0}
    BY <1>1 DEF Queries
  <2>2. HandlePrevPage => /\ view.query.page - 1 \in Nat \ {0}
                          /\ LoadNanobars([view EXCEPT !.query.page = view.query.page - 1])
    BY <2>1 DEF HandlePrevPage
  <2>3. HandleNextPage => /\ view.query.page + 1 \in Nat \ {0}
                          /\ LoadNanobars([view EXCEPT !.query.page = view.query.page + 1])
    BY <2>1 DEF HandleNextPage
  <2>4. QED
    BY <1>4, <2>2, <2>3
<1>6. SearchTimeout => NanobarsInv'
  <2> DEFINE q == [view.query EXCEPT !.scope = view.form.scope, !.page = 1]
             v == [view EXCEPT !.timer = FALSE, !.query = q]
  <2>1. view.form.scope \in Scopes
    BY <1>1 DEF View, Filters
  <2>2. q \in Queries
    BY <1>1, <2>1, Requeries
  <2>3. v \in View
    BY <1>1, <2>2 DEF View
  <2>4. SearchTimeout => view' = ShowStatus(v) /\ Go({}, {FetchNanobars(v)})
    BY DEF SearchTimeout
  <2> HIDE DEF v
  <2>5. QED
    BY <2>3, <2>4, NanobarsLoaded, NanobarsSeen
<1>7. ASSUME NEW s \in Scopes, HandleSearchInput(s) PROVE NanobarsInv'
  <2> DEFINE v == [view EXCEPT !.form.scope = s, !.timer = TRUE]
  <2>1. v.query = view.query /\ v.list = view.list /\ v.told = view.told
    BY <1>1 DEF View
  <2>2. view' = v /\ page' = page /\ served' = served /\ Go({}, {})
    BY <1>7 DEF HandleSearchInput, Does
  <2> HIDE DEF v
  <2>3. calls' = calls
    BY <2>2 DEF Go
  <2>4. QED
    BY <2>1, <2>2, <2>3, GoFresh, NanobarsKept
<1>8. HandleGenerateBricksClick => NanobarsInv'
  <2> DEFINE v == SetGenerateBricksBusy(view, TRUE)
             r == Request("generate", None)
  <2>1. v.query = view.query /\ v.list = view.list /\ v.told = view.told
    BY <1>1, NanobarsSeen
  <2>2. HandleGenerateBricksClick => view' = v /\ page' = page /\ served' = served /\ Go({}, {r})
    BY DEF HandleGenerateBricksClick, Does
  <2>3. r.kind = "generate"
    BY DEF Request
  <2> HIDE DEF v, r
  <2>4. Go({}, {r}) => calls' = calls \cup {r}
    BY DEF Go
  <2>5. QED
    BY <2>1, <2>2, <2>3, <2>4, GoFresh, NanobarsKept
<1>9. ASSUME NEW c \in calls, OptionsEnd(c) PROVE NanobarsInv'
  <2> DEFINE f == PopulateFilters(view, Distinct(c.answer.moment))
  <2>1. c.kind = "options" /\ (Goes(c, f, {}) \/ Goes(c, view, {}))
    BY <1>9 DEF OptionsEnd
  <2>2. Distinct(c.answer.moment) \in SUBSET Types
    BY DEF Distinct
  <2>3. /\ view'.query = view.query /\ view'.list = view.list /\ view'.told = view.told
        /\ page' = page /\ served' = served /\ Go({c}, {})
    BY <1>1, <2>1, <2>2, NanobarsSeen DEF Goes
  <2>4. calls' = calls \ {c}
    BY <2>3 DEF Go
  <2>5. QED
    BY <2>1, <2>3, <2>4, GoFresh, NanobarsKept
<1>10. ASSUME NEW c \in calls, NanobarsEnd(c) PROVE NanobarsInv'
  <2> DEFINE x == [query |-> c.arg, at |-> c.answer.list]
             w == RenderPagination(RenderGroups(HideStatus(view), x), c.arg, c.answer.moment)
  <2>1. c.kind = "nanobars" /\ c.arg \in Queries
    BY <1>10, CallTyped DEF NanobarsEnd, RightArg
  <2>2. ASSUME Answered(c), Goes(c, w, {}) PROVE NanobarsInv'
    <3>1. x \in Rendered
      BY <2>1, <2>2, CallTyped DEF Rendered
    <3>2. w.query = view.query /\ w.told = view.told /\ w.list.rows = x
      BY <1>1, <2>1, <2>2, <3>1, AnsweredPages, NanobarsSeen
    <3>3. x.query = c.arg /\ x.at = c.answer.list
      OBVIOUS
    <3> HIDE DEF x, w
    <3>4. view' = w /\ served' = served /\ calls' = calls \ {c} /\ Go({c}, {})
      BY <2>2 DEF Goes, Go
    <3>5. \A n : ListNow(n, "generate") => ListNow(n, "generate")'
      BY <2>1, <3>2, <3>4 DEF ListNow, Quiet, InFlight
    <3>6. QED
      BY <2>1, <2>2, <3>2, <3>3, <3>4, <3>5, GoFresh DEF NanobarsInv, OrError, Answered
  <2>3. CASE Goes(c, ShowLoadError(view), {})
    <3>1. /\ view'.query = view.query /\ view'.told = view.told /\ view'.list.message = "error"
          /\ served' = served /\ calls' = calls \ {c} /\ Go({c}, {})
      BY <1>1, <2>3, NanobarsSeen DEF Goes, Go
    <3>2. \A n : ListNow(n, "generate") => ListNow(n, "generate")'
      BY <2>1, <3>1 DEF ListNow, Quiet, InFlight
    <3>3. QED
      BY <3>1, <3>2, GoFresh DEF NanobarsInv, OrError, Answered
  <2>4. QED
    BY <1>10, <2>2, <2>3 DEF NanobarsEnd
<1>11. ASSUME NEW c \in calls, GenerateEnd(c) PROVE NanobarsInv'
  <2> DEFINE t == ShowGenerateBricks(view, "done")
             v == SetGenerateBricksBusy(t, FALSE)
             u == ShowGenerateBricks(view, "error")
             e == SetGenerateBricksBusy(u, FALSE)
  <2>1. v \in View /\ u \in View
    <3>1. t \in View /\ u \in View
      BY <1>1, ListViews, Chained DEF Told
    <3> HIDE DEF t
    <3>2. Calm(t, v)
      BY <3>1, ListViews
    <3> HIDE DEF v
    <3>3. QED
      BY <3>1, <3>2, Chained
  <2>2. u.query = view.query /\ u.list = view.list /\ u.told["generate"] = "error"
    BY <1>1, NanobarsSeen DEF Told
  <2>3. c.kind = "generate" /\ (Goes(c, ShowStatus(v), {FetchNanobars(v)}) \/ Goes(c, e, {}))
    BY <1>11 DEF GenerateEnd
  <2> HIDE DEF u, v
  <2>4. e.query = u.query /\ e.list = u.list /\ e.told = u.told
    BY <2>1, NanobarsSeen
  <2> HIDE DEF e
  <2>5. CASE Goes(c, ShowStatus(v), {FetchNanobars(v)})
    BY <2>1, <2>5, NanobarsLoaded, NanobarsSeen DEF Goes
  <2>6. CASE Goes(c, e, {})
    <3>1. view' = e /\ page' = page /\ served' = served /\ calls' = calls \ {c} /\ Go({c}, {})
      BY <2>6 DEF Goes, Go
    <3>2. QED
      BY <2>2, <2>3, <2>4, <3>1, GoFresh, NanobarsKept
  <2>7. QED
    BY <2>3, <2>5, <2>6
<1>12. QED
  BY <1>3, <1>5, <1>6, <1>7, <1>8, <1>9, <1>10, <1>11 DEF NanobarsDo

\* ... and by the server.
LEMMA NanobarsHandled ==
    ASSUME TInv, NanobarsInv, page = "nanobars", NEW c \in calls, Handle(c)
    PROVE  NanobarsInv'
<1>1. PICK d : /\ calls' = (calls \ {c}) \cup {d}
               /\ d.kind = c.kind /\ d.arg = c.arg /\ d.answer = served'
  BY Handled
<1>2. view' = view /\ overtaken' = overtaken /\ page' = page
  BY Handled
<1>3. c.kind \in {"options", "nanobars", "generate"}
  BY DEF TInv, GoodCall, KindsOf, Forms, Readers
<1>4. c.kind # "generate" => served'.list = served.list
  BY <1>3, Handled, Effects
<1>5. \A n : ListNow(n, "generate") => ListNow(n, "generate")'
  BY <1>1, <1>2, <1>4 DEF ListNow, Quiet, InFlight
<1>6. ListNow(d.answer.list, "generate")'
  BY <1>1 DEF ListNow
<1>7. Quiet({"nanobars"})' => Quiet({"nanobars"})
  BY <1>1 DEF Quiet, InFlight
<1>8. QED
  BY <1>1, <1>2, <1>5, <1>6, <1>7 DEF NanobarsInv, OrError, Answered

-----------------------------------------------------------------------------
(* What the page of traces shows: its rows stay while others are loaded, and *)
(* the summary is theirs.                                                    *)

TracesInv ==
    page = "traces" /\ ~overtaken =>
        /\ \A c \in calls : c.kind = "traces" => c.arg = view.query
        /\ Quiet({"traces"}) => OrError(view.list, view.list.rows.query = view.query)
        /\ view.list.rows # None => view.summary = view.list.rows.query.scope

\* The list is asked for anew.
LEMMA TracesLoaded ==
    ASSUME TInv, TracesInv, page' = page,
           NEW v, NEW R \in SUBSET {FetchTraceFacets(v), FetchTraces(v)}, FetchTraces(v) \in R,
           Go({}, R), view'.query = v.query, view'.list.rows = view.list.rows,
           view'.summary = view.summary
    PROVE  TracesInv'
<1>1. /\ FetchTraces(v).kind = "traces" /\ FetchTraces(v).arg = v.query
      /\ FetchTraceFacets(v).kind = "facets"
  BY DEF FetchTraces, FetchTraceFacets, Request
<1>2. FetchTraces(v) \in calls'
  BY DEF Go
<1>3. ASSUME ~overtaken', NEW c \in calls', c.kind = "traces" PROVE c.arg = view'.query
  <2>1. \A d \in calls : d.kind # "traces"
    BY <1>1, <1>3, GoFresh DEF Loads
  <2>2. c = FetchTraces(v)
    BY <1>1, <1>3, <2>1 DEF Go
  <2>3. QED
    BY <1>1, <2>2
<1>4. QED
  BY <1>1, <1>2, <1>3, GoFresh DEF TracesInv, Quiet, InFlight

\* What of the view matters here.
LEMMA TracesSeen ==
    ASSUME NEW v \in View
    PROVE  /\ LET w == ShowTracesStatus(v)
              IN w.query = v.query /\ w.list.rows = v.list.rows /\ w.summary = v.summary
           /\ LET w == ShowTracesLoadError(v)
              IN /\ w.query = v.query /\ w.list.rows = v.list.rows /\ w.summary = v.summary
                 /\ w.list.message = "error"
           /\ \A x \in SUBSET Types : \A t : LET w == RenderCheckboxes(v, x, t)
                 IN w.query = v.query /\ w.list = v.list /\ w.summary = v.summary
           /\ \A q \in Queries, x \in Rendered, s \in Scopes, m \in 0..LastMoment :
                 LET w == UpdateFilterSummaryText(
                              RenderTracesPagination(RenderTraces(HideTracesStatus(v), x), q, m), s)
                 IN w.query = v.query /\ w.list.rows = x /\ w.summary = s
<1> USE DEF View
<1>1. LET w == ShowTracesStatus(v)
      IN  w.query = v.query /\ w.list.rows = v.list.rows /\ w.summary = v.summary
  BY DEF ShowTracesStatus
<1>2. LET w == ShowTracesLoadError(v)
      IN  /\ w.query = v.query /\ w.list.rows = v.list.rows /\ w.summary = v.summary
          /\ w.list.message = "error"
  BY DEF ShowTracesLoadError
<1>3. ASSUME NEW x \in SUBSET Types, NEW t
      PROVE  LET w == RenderCheckboxes(v, x, t)
             IN  w.query = v.query /\ w.list = v.list /\ w.summary = v.summary
  BY DEF RenderCheckboxes
<1>4. ASSUME NEW q \in Queries, NEW x \in Rendered, NEW s \in Scopes,
             NEW m \in 0..LastMoment
      PROVE  LET w == UpdateFilterSummaryText(
                          RenderTracesPagination(RenderTraces(HideTracesStatus(v), x), q, m), s)
             IN  w.query = v.query /\ w.list.rows = x /\ w.summary = s
  BY DEF UpdateFilterSummaryText, RenderTracesPagination, RenderTraces, HideTracesStatus
<1> HIDE DEF View
<1>5. QED
  BY <1>1, <1>2, <1>3, <1>4

\* What a page shows is kept by what the page does ...
LEMMA TracesTrue ==
    ASSUME TInv, TracesInv, page = "traces", TracesDo
    PROVE  TracesInv'
<1>1. view \in View /\ view.query \in Queries
  BY SameView DEF View
<1>2. ASSUME NEW v, v \in View, v.list = view.list, v.summary = view.summary,
             NEW R \in SUBSET {FetchTraceFacets(v), FetchTraces(v)}, FetchTraces(v) \in R,
             Does(ShowTracesStatus(v), R)
      PROVE  TracesInv'
  BY <1>2, TracesLoaded, TracesSeen DEF Does
<1>3. ASSUME NEW f \in Filters, EnterFilter(f) PROVE TracesInv'
  <2> DEFINE v == [view EXCEPT !.form = f]
  <2>1. v.query = view.query /\ v.list = view.list /\ v.summary = view.summary
    BY <1>1 DEF View
  <2>2. view' = v /\ page' = page /\ Go({}, {})
    BY <1>3 DEF EnterFilter, Does
  <2> HIDE DEF v
  <2>3. calls' = calls
    BY <2>2 DEF Go
  <2>4. QED
    BY <2>1, <2>2, <2>3, GoFresh DEF TracesInv, OrError, Quiet, InFlight
<1>4. HandleApplyFilters => TracesInv'
  <2> DEFINE q == [scope |-> view.form.scope, type |-> view.form.type, page |-> 1]
             v == ReadFiltersFromForm(view)
  <2>1. q \in Queries
    BY <1>1 DEF Queries, View, Filters
  <2>2. v \in View /\ v.list = view.list /\ v.summary = view.summary
    <3>1. v = [view EXCEPT !.query = q]
      BY DEF ReadFiltersFromForm
    <3> HIDE DEF q, v
    <3>2. QED
      BY <1>1, <2>1, <3>1 DEF View
  <2>3. HandleApplyFilters => Does(ShowTracesStatus(v), {FetchTraceFacets(v), FetchTraces(v)})
    BY DEF HandleApplyFilters
  <2> HIDE DEF v
  <2>4. QED
    BY <1>2, <2>2, <2>3
<1>5. HandleResetFilters => TracesInv'
  <2> DEFINE q == [scope |-> DefaultScope, type |-> AnyType, page |-> 1]
             v == [view EXCEPT !.form.scope = DefaultScope, !.query = q]
  <2>1. q \in Queries
    BY OverviewPagesAssumption DEF Queries
  <2>2. HandleResetFilters => Does(ShowTracesStatus(v), {FetchTraceFacets(v), FetchTraces(v)})
    BY DEF HandleResetFilters
  <2> HIDE DEF q
  <2>3. v \in View /\ v.list = view.list /\ v.summary = view.summary
    BY <1>1, <2>1, OverviewPagesAssumption DEF View, Filters
  <2> HIDE DEF v
  <2>4. QED
    BY <1>2, <2>2, <2>3
<1>6. ASSUME NEW n \in Nat \ {0}
      PROVE  LET v == [view EXCEPT !.query.page = n]
             IN  Does(ShowTracesStatus(v), {FetchTraces(v)}) => TracesInv'
  <2> DEFINE v == [view EXCEPT !.query.page = n]
  <2>1. v \in View /\ v.list = view.list /\ v.summary = view.summary
    BY <1>1 DEF View, Queries
  <2> HIDE DEF v
  <2>2. Does(ShowTracesStatus(v), {FetchTraces(v)}) => TracesInv'
    BY <1>2, <2>1
  <2>3. QED
    BY <2>2 DEF v
<1>7. HandleTracesPrevPage \/ HandleTracesNextPage => TracesInv'
  <2>1. view.query.page \in Nat \ {0}
    BY <1>1 DEF Queries
  <2>2. HandleTracesPrevPage =>
          /\ view.query.page - 1 \in Nat \ {0}
          /\ LET v == [view EXCEPT !.query.page = view.query.page - 1]
             IN Does(ShowTracesStatus(v), {FetchTraces(v)})
    BY <2>1 DEF HandleTracesPrevPage
  <2>3. HandleTracesNextPage =>
          /\ view.query.page + 1 \in Nat \ {0}
          /\ LET v == [view EXCEPT !.query.page = view.query.page + 1]
             IN Does(ShowTracesStatus(v), {FetchTraces(v)})
    BY <2>1 DEF HandleTracesNextPage
  <2>4. QED
    BY <1>6, <2>2, <2>3
<1>8. ASSUME NEW c \in calls, FacetsEnd(c) PROVE TracesInv'
  <2> DEFINE w == RenderCheckboxes(view, Facets(c.arg.scope, c.answer.moment), view.query.type)
  <2>1. c.kind = "facets" /\ (Goes(c, w, {}) \/ Goes(c, view, {}))
    BY <1>8 DEF FacetsEnd
  <2>2. w.query = view.query /\ w.list = view.list /\ w.summary = view.summary
    <3>1. Facets(c.arg.scope, c.answer.moment) \in SUBSET Types
      BY DEF Facets
    <3>2. QED
      BY <1>1, <3>1, TracesSeen
  <2> HIDE DEF w
  <2>3. /\ view'.query = view.query /\ view'.list = view.list /\ view'.summary = view.summary
        /\ page' = page /\ calls' = calls \ {c} /\ Go({c}, {})
    BY <2>1, <2>2 DEF Goes, Go
  <2>4. QED
    BY <2>1, <2>3, GoFresh DEF TracesInv, OrError, Quiet, InFlight
<1>9. ASSUME NEW c \in calls, TracesEnd(c) PROVE TracesInv'
  <2> DEFINE x == [query |-> c.arg, at |-> c.answer.list]
             w == UpdateFilterSummaryText(
                      RenderTracesPagination(RenderTraces(HideTracesStatus(view), x), c.arg,
                                             c.answer.moment),
                      view.query.scope)
  <2>1. c.kind = "traces" /\ c.arg \in Queries /\ view.query.scope \in Scopes
    BY <1>1, <1>9, CallTyped DEF TracesEnd, RightArg, Queries
  <2>2. ASSUME Answered(c), Goes(c, w, {}) PROVE TracesInv'
    <3>1. x \in Rendered
      BY <2>1, <2>2, CallTyped DEF Rendered
    <3>2. w.query = view.query /\ w.list.rows = x /\ w.summary = view.query.scope
      BY <1>1, <2>1, <2>2, <3>1, AnsweredPages, TracesSeen
    <3>3. x.query = c.arg
      OBVIOUS
    <3> HIDE DEF x, w
    <3>4. view' = w /\ calls' = calls \ {c} /\ Go({c}, {})
      BY <2>2 DEF Goes, Go
    <3>5. QED
      BY <2>1, <3>2, <3>3, <3>4, GoFresh DEF TracesInv, OrError
  <2>3. CASE Goes(c, ShowTracesLoadError(view), {})
    <3>1. /\ view'.query = view.query /\ view'.list.rows = view.list.rows
          /\ view'.summary = view.summary /\ view'.list.message = "error"
          /\ calls' = calls \ {c} /\ Go({c}, {})
      BY <1>1, <2>3, TracesSeen DEF Goes, Go
    <3>2. QED
      BY <3>1, GoFresh DEF TracesInv, OrError
  <2>4. QED
    BY <1>9, <2>2, <2>3 DEF TracesEnd
<1>10. QED
  BY <1>3, <1>4, <1>5, <1>7, <1>8, <1>9 DEF TracesDo

\* ... and by the server.
LEMMA TracesHandled ==
    ASSUME TInv, TracesInv, NEW c \in calls, Handle(c)
    PROVE  TracesInv'
<1>1. PICK d : /\ calls' = (calls \ {c}) \cup {d}
               /\ d.kind = c.kind /\ d.arg = c.arg
  BY Handled
<1>2. view' = view /\ overtaken' = overtaken /\ page' = page
  BY Handled
<1>3. Quiet({"traces"})' => Quiet({"traces"})
  BY <1>1 DEF Quiet, InFlight
<1>4. QED
  BY <1>1, <1>2, <1>3 DEF TracesInv, OrError

-----------------------------------------------------------------------------
(* What the page of workers shows                                            *)

LogInv ==
    page = "workers" /\ ~overtaken =>
        /\ \A c \in calls : c.kind = "log" => c.arg = view.selected
        /\ Quiet({"log"}) /\ view.selected # None =>
              OrError(view.log, view.log.rows = view.selected)

\* What of the view matters here.
LEMMA LogSeen ==
    ASSUME NEW v \in View
    PROVE  /\ ShowWorkersError(v).selected = v.selected /\ ShowWorkersError(v).log = v.log
           /\ \A x \in SUBSET Workers : LET w == RenderWorkersList(v, x)
                 IN w.selected = v.selected /\ w.log = v.log
           /\ \A x \in Workers :
                 /\ ShowWorkerLogLoading(RenderWorkerDetail(v, x)).selected = x
                 /\ RenderWorkerLog(v, x).selected = v.selected
                 /\ RenderWorkerLog(v, x).log.rows = x
           /\ ShowWorkerLogError(v).selected = v.selected
           /\ ShowWorkerLogError(v).log.message = "error"
  BY DEF View, ShowWorkersError, RenderWorkersList, RenderWorkerDetail, ShowWorkerLogLoading,
     RenderWorkerLog, ShowWorkerLogError

\* It is kept by what the page does ...
LEMMA LogTrue ==
    ASSUME TInv, LogInv, page = "workers", WorkersDo
    PROVE  LogInv'
<1>1. view \in View
  BY SameView
<1>2. ASSUME NEW w \in Workers, SelectWorker(w) PROVE LogInv'
  <2> DEFINE v == ShowWorkerLogLoading(RenderWorkerDetail(view, w))
             r == Request("log", w)
  <2>1. v.selected = w
    BY <1>1, LogSeen
  <2>2. view' = v /\ page' = page /\ Go({}, {r})
    BY <1>2 DEF SelectWorker, Does
  <2>3. r.kind = "log" /\ r.arg = w
    BY DEF Request
  <2> HIDE DEF v, r
  <2>4. calls' = calls \cup {r}
    BY <2>2 DEF Go
  <2>5. ~overtaken' => \A c \in calls : c.kind # "log"
    BY <2>2, <2>3, GoFresh DEF Loads
  <2>6. ~Quiet({"log"})'
    BY <2>3, <2>4 DEF Quiet, InFlight
  <2>7. QED
    BY <2>1, <2>2, <2>3, <2>4, <2>5, <2>6 DEF LogInv
<1>3. ASSUME NEW c \in calls, WorkersEnd(c) PROVE LogInv'
  <2>1. /\ c.kind = "workers"
        /\ \/ \E ws \in SUBSET Workers : Goes(c, RenderWorkersList(view, ws), {})
           \/ Goes(c, ShowWorkersError(view), {})
    BY <1>3 DEF WorkersEnd
  <2>2. /\ view'.selected = view.selected /\ view'.log = view.log /\ page' = page
        /\ calls' = calls \ {c} /\ Go({c}, {})
    BY <1>1, <2>1, LogSeen DEF Goes, Go
  <2>3. Quiet({"log"})' => Quiet({"log"})
    BY <2>1, <2>2 DEF Quiet, InFlight
  <2>4. QED
    BY <2>2, <2>3, GoFresh DEF LogInv, OrError
<1>4. ASSUME NEW c \in calls, LogEnd(c) PROVE LogInv'
  <2>1. c.kind = "log" /\ c.arg \in Workers
    BY <1>4, CallTyped DEF LogEnd, RightArg
  <2>2. Goes(c, RenderWorkerLog(view, c.arg), {}) \/ Goes(c, ShowWorkerLogError(view), {})
    BY <1>4 DEF LogEnd
  <2>3. /\ view'.selected = view.selected
        /\ view'.log.rows = c.arg \/ view'.log.message = "error"
        /\ calls' = calls \ {c} /\ Go({c}, {})
    BY <1>1, <2>1, <2>2, LogSeen DEF Goes, Go
  <2>4. QED
    BY <2>1, <2>3, GoFresh DEF LogInv, OrError
<1>5. QED
  BY <1>2, <1>3, <1>4 DEF WorkersDo

\* ... and by the server.
LEMMA LogHandled ==
    ASSUME TInv, LogInv, NEW c \in calls, Handle(c)
    PROVE  LogInv'
<1>1. PICK d : /\ calls' = (calls \ {c}) \cup {d}
               /\ d.kind = c.kind /\ d.arg = c.arg
  BY Handled
<1>2. view' = view /\ overtaken' = overtaken /\ page' = page
  BY Handled
<1>3. Quiet({"log"})' => Quiet({"log"})
  BY <1>1 DEF Quiet, InFlight
<1>4. QED
  BY <1>1, <1>2, <1>3 DEF LogInv, OrError

-----------------------------------------------------------------------------
(* What the settings show: while the toggle is enabled, nobody is on the way *)
(* to change it, and while it is not, one handler is.                        *)

Toggling == {"settings", "toggle"}

ToggleInv ==
    page = "settings" =>
        /\ \A c, d \in calls : c.kind \in Toggling /\ d.kind \in Toggling => c = d
        /\ \A c \in calls : c.kind \in Toggling =>
              /\ ~view.toggle.enabled
              /\ Answered(c) => c.answer.tracing = served.tracing
        /\ view.toggle.enabled =>
              view.toggle.at = served.tracing \/ view.told["toggle"] = "error"

\* What of the view matters here.
LEMMA ToggleSeen ==
    ASSUME NEW v \in View
    PROVE  /\ \A m \in Messages : ShowSettings(v, m).toggle = v.toggle
                               /\ ShowSettings(v, m).told = v.told
           /\ \A x \in {On, Off} : /\ RenderTracingEnabled(v, x).toggle.at = x
                                   /\ RenderTracingEnabled(v, x).told = v.told
           /\ \A r \in Rows, on \in BOOLEAN : /\ SetRefreshBusy(v, r, on).toggle = v.toggle
                                              /\ SetRefreshBusy(v, r, on).told = v.told
           /\ \A r \in Rows, m \in Told : /\ ShowRefresh(v, r, m).toggle = v.toggle
                                          /\ ShowRefresh(v, r, m).told["toggle"] = v.told["toggle"]
           /\ \A n \in Nat : /\ RenderLastRun(v, n).toggle = v.toggle
                             /\ RenderLastRun(v, n).told = v.told
           /\ SetTracingToggleBusy(ShowTracingToggleError(v, FALSE), TRUE).toggle.enabled = FALSE
           /\ SetTracingToggleBusy(ShowTracingToggleError(v, TRUE), FALSE).told["toggle"] = "error"
<1> USE DEF View
<1>1. \A m \in Messages : ShowSettings(v, m).toggle = v.toggle /\ ShowSettings(v, m).told = v.told
  BY DEF ShowSettings
<1>2. \A x \in {On, Off} : /\ RenderTracingEnabled(v, x).toggle.at = x
                           /\ RenderTracingEnabled(v, x).told = v.told
  BY DEF RenderTracingEnabled
<1>3. \A r \in Rows, on \in BOOLEAN : /\ SetRefreshBusy(v, r, on).toggle = v.toggle
                                      /\ SetRefreshBusy(v, r, on).told = v.told
  BY DEF SetRefreshBusy
<1>4. \A r \in Rows, m \in Told : /\ ShowRefresh(v, r, m).toggle = v.toggle
                                  /\ ShowRefresh(v, r, m).told["toggle"] = v.told["toggle"]
  <2>1. \A r \in Rows : r # "toggle"
    BY OverviewPagesAssumption
  <2>2. QED
    BY <2>1 DEF ShowRefresh, Buttons
<1>5. \A n \in Nat : RenderLastRun(v, n).toggle = v.toggle /\ RenderLastRun(v, n).told = v.told
  BY DEF RenderLastRun
<1>6. SetTracingToggleBusy(ShowTracingToggleError(v, FALSE), TRUE).toggle.enabled = FALSE
  BY DEF SetTracingToggleBusy, ShowTracingToggleError
<1>7. SetTracingToggleBusy(ShowTracingToggleError(v, TRUE), FALSE).told["toggle"] = "error"
  BY DEF SetTracingToggleBusy, ShowTracingToggleError, Buttons
<1> HIDE DEF View
<1>8. QED
  BY <1>1, <1>2, <1>3, <1>4, <1>5, <1>6, <1>7

\* The toggle, and who is on the way to change it, is left alone.
LEMMA ToggleKept ==
    ASSUME ToggleInv, page' = page, served' = served,
           view'.toggle = view.toggle, view'.told["toggle"] = view.told["toggle"],
           \A c \in calls' : c.kind \in Toggling => c \in calls
    PROVE  ToggleInv'
  BY DEF ToggleInv, Answered

\* The only handler on the way to change it comes to its end.
LEMMA ToggleSet ==
    ASSUME ToggleInv, page = "settings", page' = page, served' = served,
           NEW c \in calls, c.kind \in Toggling, calls' = calls \ {c},
           \/ view'.toggle.at = served.tracing
           \/ view'.told["toggle"] = "error"
           \/ view'.toggle = view.toggle
    PROVE  ToggleInv'
<1>1. \A d \in calls' : d.kind \notin Toggling
  BY DEF ToggleInv
<1>2. ~view.toggle.enabled
  BY DEF ToggleInv
<1>3. QED
  BY <1>1, <1>2 DEF ToggleInv

\* It is kept by what the page does ...
LEMMA ToggleKeeps ==
    ASSUME TInv, ToggleInv, page = "settings", SettingsDo
    PROVE  ToggleInv'
<1>1. view \in View
  BY SameView
<1>2. HandleTracingToggleChange => ToggleInv'
  <2> DEFINE v == [view EXCEPT !.toggle.at = Other(@)]
             w == SetTracingToggleBusy(ShowTracingToggleError(v, FALSE), TRUE)
             r == Request("toggle", v.toggle.at)
  <2>1. SUFFICES ASSUME HandleTracingToggleChange PROVE ToggleInv'
    OBVIOUS
  <2>2. view.toggle.enabled /\ view' = w /\ page' = page /\ served' = served /\ Go({}, {r})
    BY <2>1 DEF HandleTracingToggleChange, Does
  <2>3. v \in View
    BY <1>1 DEF View, Other
  <2>4. r.kind = "toggle" /\ r.at = "sent"
    BY DEF Request
  <2> HIDE DEF v, r
  <2>5. w.toggle.enabled = FALSE
    BY <2>3, ToggleSeen
  <2> HIDE DEF w
  <2>6. \A c \in calls : c.kind \notin Toggling
    BY <2>2 DEF ToggleInv
  <2>7. calls' = calls \cup {r}
    BY <2>2 DEF Go
  <2>8. QED
    BY <2>2, <2>4, <2>5, <2>6, <2>7 DEF ToggleInv, Answered
<1>3. ASSUME NEW r \in Rows, HandleRefreshClick(r) PROVE ToggleInv'
  <2> DEFINE v == SetRefreshBusy(view, r, TRUE)
             s == Request("refresh", r)
  <2>1. v.toggle = view.toggle /\ v.told = view.told
    BY <1>1, ToggleSeen
  <2>2. view' = v /\ page' = page /\ served' = served /\ calls' = calls \cup {s}
    BY <1>3 DEF HandleRefreshClick, Does, Go
  <2>3. s.kind \notin Toggling
    BY DEF Request, Toggling
  <2> HIDE DEF v, s
  <2>4. QED
    BY <2>1, <2>2, <2>3, ToggleKept
<1>4. ASSUME NEW c \in calls, SettingsEnd(c) PROVE ToggleInv'
  <2> DEFINE u == ShowSettings(view, "none")
             v == RenderTracingEnabled(u, c.answer.tracing)
             e == ShowSettings(view, "error")
  <2>1. c.kind \in Toggling /\ ((Answered(c) /\ Goes(c, v, {})) \/ Goes(c, e, {}))
    BY <1>4 DEF SettingsEnd, Toggling
  <2>2. e.toggle = view.toggle
    BY <1>1, ToggleSeen DEF Messages
  <2>3. Answered(c) => v.toggle.at = served.tracing
    <3>1. u \in View
      BY <1>1, SettingsViews, Chained DEF Messages
    <3> HIDE DEF u
    <3>2. Answered(c) => v.toggle.at = c.answer.tracing
      BY <3>1, CallTyped, ToggleSeen
    <3> HIDE DEF v
    <3>3. QED
      BY <2>1, <3>2 DEF ToggleInv
  <2> HIDE DEF v, e
  <2>4. /\ page' = page /\ served' = served /\ calls' = calls \ {c}
        /\ view'.toggle.at = served.tracing \/ view'.toggle = view.toggle
    BY <2>1, <2>2, <2>3 DEF Goes, Go
  <2>5. QED
    BY <2>1, <2>4, ToggleSet
<1>5. ASSUME NEW c \in calls, ToggleEnd(c) PROVE ToggleInv'
  <2> DEFINE v == RenderTracingEnabled(view, c.answer.tracing)
             u == [view EXCEPT !.toggle.at = Other(c.arg)]
             e == SetTracingToggleBusy(ShowTracingToggleError(u, TRUE), FALSE)
  <2>1. c.kind \in Toggling /\ ((Answered(c) /\ Goes(c, v, {})) \/ Goes(c, e, {}))
    BY <1>5 DEF ToggleEnd, Toggling
  <2>2. u \in View
    BY <1>1 DEF View, Other
  <2> HIDE DEF u
  <2>3. e.told["toggle"] = "error"
    BY <2>2, ToggleSeen
  <2>4. Answered(c) => v.toggle.at = c.answer.tracing
    BY <1>1, CallTyped, ToggleSeen
  <2> HIDE DEF v, e
  <2>5. Answered(c) => v.toggle.at = served.tracing
    BY <2>1, <2>4 DEF ToggleInv
  <2>6. /\ page' = page /\ served' = served /\ calls' = calls \ {c}
        /\ view'.toggle.at = served.tracing \/ view'.told["toggle"] = "error"
    BY <2>1, <2>3, <2>5 DEF Goes, Go
  <2>7. QED
    BY <2>1, <2>6, ToggleSet
<1>6. ASSUME NEW c \in calls, StatusEnd(c) PROVE ToggleInv'
  <2> DEFINE v == RenderLastRun(view, c.answer.runs)
  <2>1. (Answered(c) /\ Goes(c, v, {})) \/ Goes(c, view, {})
    BY <1>6 DEF StatusEnd
  <2>2. Answered(c) => v.toggle = view.toggle /\ v.told = view.told
    BY <1>1, CallTyped, ToggleSeen
  <2> HIDE DEF v
  <2>3. /\ view'.toggle = view.toggle /\ view'.told = view.told
        /\ page' = page /\ served' = served /\ calls' = calls \ {c}
    BY <2>1, <2>2 DEF Goes, Go
  <2>4. QED
    BY <2>3, ToggleKept
<1>7. ASSUME NEW c \in calls, RefreshEnd(c) PROVE ToggleInv'
  <2> DEFINE u(m) == ShowRefresh(view, c.arg, m)
             v(m) == SetRefreshBusy(u(m), c.arg, FALSE)
             r == Request("status", None)
  <2>1. c.kind = "refresh" /\ c.arg \in Rows
    BY <1>7, CallTyped DEF RefreshEnd, RightArg
  <2>2. Goes(c, v("done"), {r}) \/ Goes(c, v("error"), {})
    BY <1>7 DEF RefreshEnd
  <2>3. r.kind \notin Toggling
    BY DEF Request, Toggling
  <2> HIDE DEF r
  <2>4. ASSUME NEW m \in Told
        PROVE  v(m).toggle = view.toggle /\ v(m).told["toggle"] = view.told["toggle"]
    <3>1. u(m) \in View
      BY <1>1, <2>1, SettingsViews, Chained
    <3>2. u(m).toggle = view.toggle /\ u(m).told["toggle"] = view.told["toggle"]
      BY <1>1, <2>1, ToggleSeen
    <3> HIDE DEF u
    <3>3. v(m).toggle = u(m).toggle /\ v(m).told = u(m).told
      BY <2>1, <3>1, ToggleSeen
    <3>4. QED
      BY <3>2, <3>3
  <2>5. "done" \in Told /\ "error" \in Told
    BY DEF Told
  <2> HIDE DEF v
  <2>6. /\ view'.toggle = view.toggle /\ view'.told["toggle"] = view.told["toggle"]
        /\ page' = page /\ served' = served
        /\ calls' = (calls \ {c}) \cup {r} \/ calls' = calls \ {c}
    BY <2>2, <2>4, <2>5 DEF Goes, Go
  <2>7. QED
    BY <2>3, <2>6, ToggleKept
<1>8. QED
  BY <1>2, <1>3, <1>4, <1>5, <1>6, <1>7 DEF SettingsDo

\* ... and by the server.
LEMMA ToggleHandled ==
    ASSUME TInv, ToggleInv, NEW c \in calls, Handle(c)
    PROVE  ToggleInv'
<1>1. PICK d : /\ calls' = (calls \ {c}) \cup {d}
               /\ d.kind = c.kind /\ d.answer = served'
  BY Handled
<1>2. view' = view /\ page' = page
  BY Handled
<1>3. CASE c.kind \in Toggling
  <2>1. page = "settings" => /\ ~view.toggle.enabled
                             /\ \A e \in calls' : e.kind \in Toggling => e = d
    BY <1>1, <1>3 DEF ToggleInv
  <2>2. QED
    BY <1>1, <1>2, <2>1 DEF ToggleInv
<1>4. CASE c.kind \notin Toggling
  <2>1. served'.tracing = served.tracing
    BY <1>4, Handled, Effects DEF Toggling
  <2>2. QED
    BY <1>1, <1>2, <1>4, <2>1 DEF ToggleInv
<1>5. QED
  BY <1>3, <1>4

-----------------------------------------------------------------------------
(* What the dashboard shows                                                  *)

NotesNow(n) == n = served.notes \/ ~Quiet({"read"})

NotesInv ==
    OnAdmin /\ ~overtaken =>
        /\ \A c \in calls : c.kind = "notes" /\ Answered(c) => NotesNow(c.answer.notes)
        /\ Quiet({"notes"}) => OrError(view.notes, NotesNow(view.notes.rows))

PostsInv ==
    OnAdmin /\ ~overtaken =>
        /\ \A c \in calls : c.kind = "posts" /\ Answered(c) => ListNow(c.answer.list, "post")
        /\ Quiet({"posts"}) => OrError(view.list, ListNow(view.list.rows.at, "post"))

\* A list is asked for anew.
LEMMA NotesLoaded ==
    ASSUME TInv, NEW C, Go(C, {Request("notes", None)})
    PROVE  NotesInv'
<1>1. Request("notes", None).kind = "notes" /\ Request("notes", None).at = "sent"
  BY DEF Request
<1>2. Request("notes", None) \in calls'
  BY DEF Go
<1>3. ASSUME ~overtaken', NEW c \in calls', c.kind = "notes" PROVE c.at = "sent"
  <2>1. \A d \in calls : d.kind # "notes"
    BY <1>1, <1>3, GoFresh DEF Loads
  <2>2. QED
    BY <1>1, <1>3, <2>1 DEF Go
<1>4. QED
  BY <1>1, <1>2, <1>3 DEF NotesInv, Quiet, InFlight, Answered

\* So are the posts.
LEMMA PostsLoaded ==
    ASSUME TInv, NEW C, Go(C, {Request("posts", None)})
    PROVE  PostsInv'
<1>1. Request("posts", None).kind = "posts" /\ Request("posts", None).at = "sent"
  BY DEF Request
<1>2. Request("posts", None) \in calls'
  BY DEF Go
<1>3. ASSUME ~overtaken', NEW c \in calls', c.kind = "posts" PROVE c.at = "sent"
  <2>1. \A d \in calls : d.kind # "posts"
    BY <1>1, <1>3, GoFresh DEF Loads
  <2>2. QED
    BY <1>1, <1>3, <2>1 DEF Go
<1>4. QED
  BY <1>1, <1>2, <1>3 DEF PostsInv, Quiet, InFlight, Answered

\* A list is left alone, and so is what is on its way, or the page says that the post
\* was not saved.
LEMMA NotesKept ==
    ASSUME NotesInv, page' = page, overtaken => overtaken', served' = served,
           view'.notes = view.notes,
           \A c : c.kind = "notes" => (c \in calls' <=> c \in calls),
           \A c \in calls : c.kind = "read" => c \in calls'
    PROVE  NotesInv'
<1>1. \A n : NotesNow(n) => NotesNow(n)'
  BY DEF NotesNow, Quiet, InFlight
<1>2. Quiet({"notes"})' => Quiet({"notes"})
  BY DEF Quiet, InFlight
<1>3. OnAdmin' <=> OnAdmin
  BY Zenon DEF OnAdmin
<1>4. QED
  BY <1>1, <1>2, <1>3 DEF NotesInv, OrError, Answered

\* So it is with the posts.
LEMMA PostsKept ==
    ASSUME PostsInv, page' = page, overtaken => overtaken', served' = served,
           view'.list = view.list,
           \A c : c.kind = "posts" => (c \in calls' <=> c \in calls),
           \/ /\ view'.told["post"] = view.told["post"] \/ ~Quiet({"post"})'
              /\ \A c \in calls : c.kind = "post" => c \in calls'
           \/ view'.told["post"] = "error"
    PROVE  PostsInv'
<1>1. \A n : ListNow(n, "post") => ListNow(n, "post")'
  BY DEF ListNow, Quiet, InFlight
<1>2. Quiet({"posts"})' => Quiet({"posts"})
  BY DEF Quiet, InFlight
<1>3. OnAdmin' <=> OnAdmin
  BY Zenon DEF OnAdmin
<1>4. QED
  BY <1>1, <1>2, <1>3 DEF PostsInv, OrError, Answered

\* The answer is shown, or an error.
LEMMA NotesShown ==
    ASSUME NotesInv, page' = page, overtaken => overtaken', served' = served,
           NEW c \in calls, c.kind = "notes", calls' = calls \ {c},
           \/ Answered(c) /\ view'.notes.rows = c.answer.notes
           \/ view'.notes.message = "error"
    PROVE  NotesInv'
<1>1. \A n : NotesNow(n) => NotesNow(n)'
  BY DEF NotesNow, Quiet, InFlight
<1>2. OnAdmin' <=> OnAdmin
  BY Zenon DEF OnAdmin
<1>3. QED
  BY <1>1, <1>2 DEF NotesInv, OrError, Answered

\* So it is with the posts.
LEMMA PostsShown ==
    ASSUME PostsInv, page' = page, overtaken => overtaken', served' = served,
           view'.told = view.told,
           NEW c \in calls, c.kind = "posts", calls' = calls \ {c},
           \/ Answered(c) /\ view'.list.rows.at = c.answer.list
           \/ view'.list.message = "error"
    PROVE  PostsInv'
<1>1. \A n : ListNow(n, "post") => ListNow(n, "post")'
  BY DEF ListNow, Quiet, InFlight
<1>2. OnAdmin' <=> OnAdmin
  BY Zenon DEF OnAdmin
<1>3. QED
  BY <1>1, <1>2 DEF PostsInv, OrError, Answered

\* What of the view matters here.
LEMMA AdminSeen ==
    ASSUME NEW v \in View
    PROVE  /\ \A m \in Messages : LET w == ShowNotifications(v, m)
                 IN w.list = v.list /\ w.told = v.told /\ w.notes.message = m
           /\ \A n \in Nat : LET w == RenderNotifications(v, n)
                 IN w.list = v.list /\ w.told = v.told /\ w.notes.rows = n
           /\ \A m \in Messages : LET w == ShowPosts(v, m)
                 IN w.notes = v.notes /\ w.told = v.told /\ w.list.message = m
           /\ \A n \in Nat : LET w == RenderPosts(v, n)
                 IN w.notes = v.notes /\ w.told = v.told /\ w.list.rows.at = n
           /\ \A m \in Told : LET w == NewPostMessage(v, m)
                 IN w.notes = v.notes /\ w.list = v.list /\ w.told["post"] = m
           /\ \A on \in BOOLEAN : LET w == SetNewPostFormBusy(v, on)
                 IN w.notes = v.notes /\ w.list = v.list /\ w.told = v.told
<1> USE DEF View
<1>1. ASSUME NEW m \in Messages
      PROVE  LET w == ShowNotifications(v, m)
             IN  w.list = v.list /\ w.told = v.told /\ w.notes.message = m
  BY DEF ShowNotifications
<1>2. ASSUME NEW n \in Nat
      PROVE  LET w == RenderNotifications(v, n)
             IN  w.list = v.list /\ w.told = v.told /\ w.notes.rows = n
  BY DEF RenderNotifications
<1>3. ASSUME NEW m \in Messages
      PROVE  LET w == ShowPosts(v, m)
             IN  w.notes = v.notes /\ w.told = v.told /\ w.list.message = m
  BY DEF ShowPosts
<1>4. ASSUME NEW n \in Nat
      PROVE  LET w == RenderPosts(v, n)
             IN  w.notes = v.notes /\ w.told = v.told /\ w.list.rows.at = n
  BY DEF RenderPosts
<1>5. ASSUME NEW m \in Told
      PROVE  LET w == NewPostMessage(v, m)
             IN  w.notes = v.notes /\ w.list = v.list /\ w.told["post"] = m
  BY DEF NewPostMessage, Buttons
<1>6. ASSUME NEW on \in BOOLEAN
      PROVE  LET w == SetNewPostFormBusy(v, on)
             IN  w.notes = v.notes /\ w.list = v.list /\ w.told = v.told
  BY DEF SetNewPostFormBusy
<1> HIDE DEF View
<1>7. QED
  BY <1>1, <1>2, <1>3, <1>4, <1>5, <1>6

\* It is kept by what the page does ...
LEMMA DashboardTrue ==
    ASSUME TInv, NotesInv, PostsInv, AdminDo
    PROVE  NotesInv' /\ PostsInv'
<1>1. view \in View
  BY SameView
<1>2. HandleMarkRead => NotesInv' /\ PostsInv'
  <2> DEFINE r == Request("read", None)
  <2>1. r.kind = "read"
    BY DEF Request
  <2>2. HandleMarkRead => /\ view' = view /\ page' = page /\ served' = served
                          /\ calls' = calls \cup {r} /\ Go({}, {r})
    BY DEF HandleMarkRead, Does, Go
  <2> HIDE DEF r
  <2>3. HandleMarkRead => NotesInv'
    BY <2>1, <2>2, GoFresh, NotesKept
  <2>4. HandleMarkRead => PostsInv'
    BY <2>1, <2>2, GoFresh, PostsKept
  <2>5. QED
    BY <2>3, <2>4
<1>3. HandleNewPostSubmit => NotesInv' /\ PostsInv'
  <2> DEFINE r == Request("post", None)
             u == NewPostMessage(view, "nothing")
             v == SetNewPostFormBusy(u, TRUE)
  <2>1. r.kind = "post"
    BY DEF Request
  <2>2. u \in View /\ u.notes = view.notes /\ u.list = view.list
    <3>1. "nothing" \in Told
      BY DEF Told
    <3>2. QED
      BY <1>1, <3>1, AdminSeen, AdminViews, Chained
  <2>3. HandleNewPostSubmit => /\ view' = v /\ page' = page /\ served' = served
                               /\ calls' = calls \cup {r} /\ Go({}, {r})
    BY DEF HandleNewPostSubmit, Does, Go
  <2> HIDE DEF r, u
  <2>4. v.notes = view.notes /\ v.list = view.list
    BY <2>2, AdminSeen
  <2> HIDE DEF v
  <2>5. HandleNewPostSubmit => ~Quiet({"post"})'
    BY <2>1, <2>3 DEF Quiet, InFlight
  <2>6. HandleNewPostSubmit => NotesInv'
    BY <2>1, <2>3, <2>4, GoFresh, NotesKept
  <2>7. HandleNewPostSubmit => PostsInv'
    BY <2>1, <2>3, <2>4, <2>5, GoFresh, PostsKept
  <2>8. QED
    BY <2>6, <2>7
<1>4. ASSUME NEW c \in calls, NotificationsEnd(c) PROVE NotesInv' /\ PostsInv'
  <2> DEFINE v == RenderNotifications(view, c.answer.notes)
             e == ShowNotifications(view, "error")
  <2>1. c.kind = "notes" /\ ((Answered(c) /\ Goes(c, v, {})) \/ Goes(c, e, {}))
    BY <1>4 DEF NotificationsEnd
  <2>2. Answered(c) => v.list = view.list /\ v.told = view.told /\ v.notes.rows = c.answer.notes
    BY <1>1, CallTyped, AdminSeen
  <2>3. e.list = view.list /\ e.told = view.told /\ e.notes.message = "error"
    BY <1>1, AdminSeen DEF Messages
  <2> HIDE DEF v, e
  <2>4. /\ page' = page /\ served' = served /\ calls' = calls \ {c} /\ Go({c}, {})
        /\ view'.list = view.list /\ view'.told = view.told
        /\ \/ Answered(c) /\ view'.notes.rows = c.answer.notes
           \/ view'.notes.message = "error"
    BY <2>1, <2>2, <2>3 DEF Goes, Go
  <2>5. NotesInv'
    BY <2>1, <2>4, GoFresh, NotesShown
  <2>6. PostsInv'
    BY <2>1, <2>4, GoFresh, PostsKept
  <2>7. QED
    BY <2>5, <2>6
<1>5. ASSUME NEW c \in calls, PostsEnd(c) PROVE NotesInv' /\ PostsInv'
  <2> DEFINE v == RenderPosts(view, c.answer.list)
             e == ShowPosts(view, "error")
  <2>1. c.kind = "posts" /\ ((Answered(c) /\ Goes(c, v, {})) \/ Goes(c, e, {}))
    BY <1>5 DEF PostsEnd
  <2>2. Answered(c) => v.notes = view.notes /\ v.told = view.told /\ v.list.rows.at = c.answer.list
    BY <1>1, CallTyped, AdminSeen
  <2>3. e.notes = view.notes /\ e.told = view.told /\ e.list.message = "error"
    BY <1>1, AdminSeen DEF Messages
  <2> HIDE DEF v, e
  <2>4. /\ page' = page /\ served' = served /\ calls' = calls \ {c} /\ Go({c}, {})
        /\ view'.notes = view.notes /\ view'.told = view.told
        /\ \/ Answered(c) /\ view'.list.rows.at = c.answer.list
           \/ view'.list.message = "error"
    BY <2>1, <2>2, <2>3 DEF Goes, Go
  <2>5. NotesInv'
    BY <2>1, <2>4, GoFresh, NotesKept
  <2>6. PostsInv'
    BY <2>1, <2>4, GoFresh, PostsShown
  <2>7. QED
    BY <2>5, <2>6
<1>6. ASSUME NEW c \in calls, MarkReadEnd(c) PROVE NotesInv' /\ PostsInv'
  <2> DEFINE v == ShowNotifications(view, "loading")
             r == Request("notes", None)
  <2>1. c.kind = "read" /\ Goes(c, v, {r})
    BY <1>6 DEF MarkReadEnd
  <2>2. v.list = view.list /\ v.told = view.told
    BY <1>1, AdminSeen DEF Messages
  <2>3. r.kind = "notes"
    BY DEF Request
  <2>4. NotesInv'
    BY <2>1, NotesLoaded DEF Goes
  <2> HIDE DEF v, r
  <2>5. /\ page' = page /\ served' = served /\ calls' = (calls \ {c}) \cup {r} /\ Go({c}, {r})
        /\ view'.list = view.list /\ view'.told = view.told
    BY <2>1, <2>2 DEF Goes, Go
  <2>6. PostsInv'
    BY <2>1, <2>3, <2>5, GoFresh, PostsKept
  <2>7. QED
    BY <2>4, <2>6
<1>7. ASSUME NEW c \in calls, NewPostEnd(c) PROVE NotesInv' /\ PostsInv'
  <2> DEFINE u(m) == NewPostMessage(view, m)
             v(m) == SetNewPostFormBusy(u(m), FALSE)
             w == ShowPosts(v("done"), "loading")
             r == Request("posts", None)
  <2>1. c.kind = "post" /\ (Goes(c, w, {r}) \/ Goes(c, v("error"), {}))
    BY <1>7 DEF NewPostEnd
  <2>2. r.kind = "posts"
    BY DEF Request
  <2>3. ASSUME NEW m \in Told
        PROVE  /\ v(m) \in View /\ v(m).notes = view.notes /\ v(m).list = view.list
               /\ v(m).told["post"] = m
    <3>1. u(m) \in View
      BY <1>1, AdminViews, Chained
    <3>2. u(m).notes = view.notes /\ u(m).list = view.list /\ u(m).told["post"] = m
      BY <1>1, AdminSeen
    <3> HIDE DEF u
    <3>3. v(m).notes = u(m).notes /\ v(m).list = u(m).list /\ v(m).told = u(m).told
      BY <3>1, AdminSeen
    <3>4. Calm(u(m), v(m))
      BY <3>1, AdminViews
    <3> HIDE DEF v
    <3>5. QED
      BY <3>2, <3>3, <3>4, Chained
  <2>4. "done" \in Told /\ "error" \in Told /\ "loading" \in Messages
    BY DEF Told, Messages
  <2> HIDE DEF v
  <2>5. w.notes = view.notes
    BY <2>3, <2>4, AdminSeen
  <2> HIDE DEF w
  <2>6. ASSUME Goes(c, w, {r}) PROVE NotesInv' /\ PostsInv'
    <3>1. PostsInv'
      BY <2>6, PostsLoaded DEF Goes
    <3> HIDE DEF r
    <3>2. /\ page' = page /\ served' = served /\ calls' = (calls \ {c}) \cup {r}
          /\ Go({c}, {r}) /\ view'.notes = view.notes
      BY <2>5, <2>6 DEF Goes, Go
    <3>3. NotesInv'
      BY <2>1, <2>2, <3>2, GoFresh, NotesKept
    <3>4. QED
      BY <3>1, <3>3
  <2>7. ASSUME Goes(c, v("error"), {}) PROVE NotesInv' /\ PostsInv'
    <3>1. /\ page' = page /\ served' = served /\ calls' = calls \ {c} /\ Go({c}, {})
          /\ view'.notes = view.notes /\ view'.list = view.list /\ view'.told["post"] = "error"
      BY <2>3, <2>4, <2>7 DEF Goes, Go
    <3>2. NotesInv'
      BY <2>1, <3>1, GoFresh, NotesKept
    <3>3. PostsInv'
      BY <2>1, <3>1, GoFresh, PostsKept
    <3>4. QED
      BY <3>2, <3>3
  <2>8. QED
    BY <2>1, <2>6, <2>7
<1>8. QED
  BY <1>2, <1>3, <1>4, <1>5, <1>6, <1>7 DEF AdminDo

\* ... and by the server.
LEMMA DashboardHandled ==
    ASSUME TInv, NotesInv, PostsInv, NEW c \in calls, Handle(c)
    PROVE  NotesInv' /\ PostsInv'
<1>1. PICK d : /\ calls' = (calls \ {c}) \cup {d}
               /\ d.kind = c.kind /\ d.answer = served'
  BY Handled
<1>2. view' = view /\ overtaken' = overtaken /\ page' = page
  BY Handled
<1>3. (OnAdmin' <=> OnAdmin) /\ (OnAdmin => c.kind \in {"notes", "posts", "read", "post"})
  <2>1. OnAdmin' <=> OnAdmin
    BY <1>2, Zenon DEF OnAdmin
  <2>2. OnAdmin => c.kind \in {"notes", "posts", "read", "post"}
    BY DEF TInv, GoodCall, KindsOf, OnAdmin, Forms, Readers
  <2>3. QED
    BY <2>1, <2>2
<1>4. /\ c.kind # "read" => served'.notes = served.notes
      /\ c.kind \in {"notes", "posts", "read"} => served'.list = served.list
  BY Handled, Effects
<1>5. \A n : NotesNow(n) => NotesNow(n)'
  BY <1>1, <1>4 DEF NotesNow, Quiet, InFlight
<1>6. OnAdmin => \A n : ListNow(n, "post") => ListNow(n, "post")'
  BY <1>1, <1>2, <1>3, <1>4 DEF ListNow, Quiet, InFlight
<1>7. NotesNow(d.answer.notes)' /\ ListNow(d.answer.list, "post")'
  BY <1>1 DEF NotesNow, ListNow
<1>8. (Quiet({"notes"})' => Quiet({"notes"})) /\ (Quiet({"posts"})' => Quiet({"posts"}))
  BY <1>1 DEF Quiet, InFlight
<1>9. NotesInv'
  BY <1>1, <1>2, <1>3, <1>5, <1>7, <1>8 DEF NotesInv, OrError, Answered
<1>10. PostsInv'
  BY <1>1, <1>2, <1>3, <1>6, <1>7, <1>8 DEF PostsInv, OrError, Answered
<1>11. QED
  BY <1>9, <1>10

-----------------------------------------------------------------------------
(* What the page of one trace shows                                          *)

\* The address and the detail agree as soon as the browser has told of the change.
LEMMA SpanTrue ==
    ASSUME TInv, SpanOfHash, page \in Readers, ReadersDo
    PROVE  SpanOfHash'
<1>1. view \in View
  BY SameView
<1>2. ASSUME NEW v \in View, view' = ShowHashed(v)
      PROVE  SpanOfHash'
  <2>1. CASE v.hash \in v.offered
    <3>1. view'.selected = v.hash /\ view'.hash = v.hash
      BY <1>2, <2>1 DEF ShowHashed, RenderSpanDetail, View
    <3>2. QED
      BY <3>1 DEF SpanOfHash
  <2>2. CASE v.hash \notin v.offered
    BY <1>2, <2>2 DEF ShowHashed, SpanOfHash
  <2>3. QED
    BY <2>1, <2>2
<1>3. ASSUME NEW s \in Spans, SelectSpan(s) PROVE SpanOfHash'
  <2> DEFINE v == RenderSpanDetail(view, s)
  <2>1. v \in View /\ v.selected = s
    BY <1>1, TraceViews, Chained DEF RenderSpanDetail, View
  <2>2. view' = SetHash(v, s)
    BY <1>3 DEF SelectSpan, Does
  <2> HIDE DEF v
  <2>3. view'.selected = s /\ view'.hash = s
    BY <2>1, <2>2 DEF SetHash, View
  <2>4. QED
    BY <2>3 DEF SpanOfHash
<1>4. ASSUME NEW s \in Spans, EditHash(s) PROVE SpanOfHash'
  <2>1. view.hash # s /\ view' = SetHash(view, s)
    BY <1>4 DEF EditHash, Does
  <2>2. view'.hashEvents = view.hashEvents + 1 /\ view.hashEvents \in Nat
    BY <1>1, <2>1 DEF SetHash, View
  <2>3. view'.hashEvents # 0
    BY <2>2
  <2>4. QED
    BY <2>3 DEF SpanOfHash
<1>5. HandleHashChange => SpanOfHash'
  <2> DEFINE v == [view EXCEPT !.hashEvents = @ - 1]
  <2>1. HandleHashChange => view.hashEvents > 0 /\ view' = ShowHashed(v)
    BY DEF HandleHashChange
  <2>2. view.hashEvents > 0 => v \in View
    BY <1>1 DEF View
  <2> HIDE DEF v
  <2>3. QED
    BY <1>2, <2>1, <2>2
<1>6. ASSUME NEW c \in calls, BlogEnd(c) \/ PostEnd(c) PROVE SpanOfHash'
  BY <1>6, Zenon DEF BlogEnd, PostEnd, SpanOfHash, Goes
<1>7. ASSUME NEW c \in calls, TraceEnd(c) PROVE SpanOfHash'
  <2>1. \/ \E ss \in SUBSET Spans : Goes(c, ShowHashed(RenderSpans(view, ss)), {})
        \/ Goes(c, ShowPage(view, "error"), {})
    BY <1>7 DEF TraceEnd
  <2>2. ASSUME NEW ss \in SUBSET Spans, Goes(c, ShowHashed(RenderSpans(view, ss)), {})
        PROVE  SpanOfHash'
    <3>1. RenderSpans(view, ss) \in View
      BY <1>1, TraceViews, Chained
    <3>2. QED
      BY <1>2, <2>2, <3>1 DEF Goes
  <2>3. CASE Goes(c, ShowPage(view, "error"), {})
    <3>1. /\ view'.hash = view.hash /\ view'.hashEvents = view.hashEvents
          /\ view'.offered = view.offered /\ view'.selected = view.selected /\ page' = page
      BY <1>1, <2>3 DEF Goes, ShowPage, View
    <3>2. QED
      BY <3>1 DEF SpanOfHash
  <2>4. QED
    BY <2>1, <2>2, <2>3
<1>8. QED
  BY <1>3, <1>4, <1>5, <1>6, <1>7 DEF ReadersDo

-----------------------------------------------------------------------------
(* The inductive invariant                                                   *)

IInv ==
    /\ TInv /\ Ranged
    /\ NanobarsInv /\ TracesInv /\ LogInv /\ ToggleInv /\ NotesInv /\ PostsInv /\ SpanOfHash

\* What a page does does not change the page.
LEMMA PageStays ==
    ASSUME PageDoes
    PROVE  page' = page
<1> USE DEF Does, Goes
<1>1. CASE NanobarsDo
  BY <1>1 DEF NanobarsDo, HandleFilterChange, HandleSearchInput, SearchTimeout, LoadNanobars,
     HandleGenerateBricksClick, HandlePrevPage, HandleNextPage, OptionsEnd, NanobarsEnd,
     GenerateEnd
<1>2. CASE TracesDo
  BY <1>2 DEF TracesDo, EnterFilter, HandleApplyFilters, HandleResetFilters,
     HandleTracesPrevPage, HandleTracesNextPage, FacetsEnd, TracesEnd
<1>3. CASE WorkersDo
  BY <1>3 DEF WorkersDo, SelectWorker, WorkersEnd, LogEnd
<1>4. CASE SettingsDo
  BY <1>4 DEF SettingsDo, HandleTracingToggleChange, HandleRefreshClick, SettingsEnd, ToggleEnd,
     StatusEnd, RefreshEnd
<1>5. CASE AdminDo
  BY <1>5 DEF AdminDo, HandleMarkRead, HandleNewPostSubmit, NotificationsEnd, PostsEnd,
     MarkReadEnd, NewPostEnd
<1>6. CASE FormsDo
  BY <1>6 DEF FormsDo, HandleEditSubmit, HandleBookingSubmit, HandleLoginSubmit, Submit,
     EditLoadEnd, EditEnd, BookingEnd, LoginEnd, Leave, SubmitFails
<1>7. CASE ReadersDo
  BY <1>7 DEF ReadersDo, SelectSpan, EditHash, HandleHashChange, BlogEnd, PostEnd, TraceEnd
<1> HIDE DEF Does, Goes
<1>8. QED
  BY <1>1, <1>2, <1>3, <1>4, <1>5, <1>6, <1>7 DEF PageDoes

\* What a page promises is nothing to the others.
LEMMA Elsewhere ==
    /\ page' # "nanobars" => NanobarsInv'
    /\ page' # "traces" => TracesInv'
    /\ page' # "workers" => LogInv'
    /\ page' # "settings" => ToggleInv'
    /\ ~OnAdmin' => NotesInv' /\ PostsInv'
    /\ page' # "trace" => SpanOfHash'
  BY DEF NanobarsInv, TracesInv, LogInv, ToggleInv, NotesInv, PostsInv, SpanOfHash

\* The pages are apart.
LEMMA Apart ==
    /\ page' \in {"nanobars", "traces", "workers", "settings", "left"} \cup Forms \cup Readers
          => ~OnAdmin'
    /\ OnAdmin' \/ page' \in Forms \cup Readers
          => page' \notin {"nanobars", "traces", "workers", "settings"}
    /\ OnAdmin' \/ page' \in Forms => page' # "trace"
  BY DEF OnAdmin, Forms, Readers

\* What a page does keeps the invariant: its own part by its own lemma, the others' since they are
\* not in the tab.
LEMMA PageKeeps ==
    ASSUME IInv, PageDoes
    PROVE  IInv'
<1>1. page' = page
  BY PageStays
<1>2. CASE page = "nanobars" /\ NanobarsDo
  <2>1. Asked("nanobars")
    BY <1>2 DEF IInv, NanobarsInv, Asked
  <2>2. TInv' /\ Ranged' /\ NanobarsInv'
    BY <1>2, <2>1, NanobarsWell, NanobarsTrue DEF IInv
  <2>3. QED
    BY <1>1, <1>2, <2>2, Elsewhere, Apart DEF IInv
<1>3. CASE page = "traces" /\ TracesDo
  <2>1. Asked("traces")
    BY <1>3 DEF IInv, TracesInv, Asked
  <2>2. TInv' /\ Ranged' /\ TracesInv'
    BY <1>3, <2>1, TracesWell, TracesTrue DEF IInv
  <2>3. QED
    BY <1>1, <1>3, <2>2, Elsewhere, Apart DEF IInv
<1>4. CASE page = "workers" /\ WorkersDo
  <2>1. TInv' /\ Ranged' /\ LogInv'
    BY <1>4, WorkersWell, LogTrue DEF IInv
  <2>2. QED
    BY <1>1, <1>4, <2>1, Elsewhere, Apart DEF IInv
<1>5. CASE page = "settings" /\ SettingsDo
  <2>1. TInv' /\ Ranged' /\ ToggleInv'
    BY <1>5, SettingsWell, ToggleKeeps DEF IInv
  <2>2. QED
    BY <1>1, <1>5, <2>1, Elsewhere, Apart DEF IInv
<1>6. CASE OnAdmin /\ AdminDo
  <2>1. TInv' /\ Ranged' /\ NotesInv' /\ PostsInv'
    BY <1>6, AdminWell, DashboardTrue DEF IInv
  <2>2. OnAdmin'
    BY <1>1, <1>6, Zenon DEF OnAdmin
  <2>3. QED
    BY <2>1, <2>2, Elsewhere, Apart DEF IInv
<1>7. CASE page \in Forms /\ FormsDo
  <2>1. TInv' /\ Ranged'
    BY <1>7, FormsWell DEF IInv
  <2>2. QED
    BY <1>1, <1>7, <2>1, Elsewhere, Apart DEF IInv
<1>8. CASE page \in Readers /\ ReadersDo
  <2>1. TInv' /\ Ranged' /\ SpanOfHash'
    BY <1>8, ReadersWell, SpanTrue DEF IInv
  <2>2. QED
    BY <1>1, <1>8, <2>1, Elsewhere, Apart DEF IInv
<1>9. QED
  BY <1>2, <1>3, <1>4, <1>5, <1>6, <1>7, <1>8 DEF PageDoes, OnAdmin

\* The server keeps it ...
LEMMA ServerKeeps ==
    ASSUME IInv, NEW c \in calls, Handle(c)
    PROVE  IInv'
<1>1. TInv' /\ Ranged' /\ page' = page
  BY HandleWell, Handled DEF IInv
<1>2. NanobarsInv'
  BY <1>1, NanobarsHandled, Elsewhere DEF IInv
<1>3. TracesInv' /\ LogInv' /\ ToggleInv'
  BY TracesHandled, LogHandled, ToggleHandled DEF IInv
<1>4. NotesInv' /\ PostsInv'
  BY DashboardHandled DEF IInv
<1>5. SpanOfHash'
  <2>1. view' = view
    BY Handled DEF IInv
  <2>2. QED
    BY <1>1, <2>1 DEF IInv, SpanOfHash
<1>6. QED
  BY <1>1, <1>2, <1>3, <1>4, <1>5 DEF IInv

\* ... and so does the unloading ...
LEMMA UnloadKeeps ==
    ASSUME IInv, Unload
    PROVE  IInv'
<1>1. TInv' /\ Ranged' /\ page' = "left"
  BY UnloadWell DEF IInv
<1>2. QED
  BY <1>1, Elsewhere, Apart DEF IInv

\* ... a change of the rows, of which no panel but the pagination tells ...
LEMMA RowsChangeKeeps ==
    ASSUME IInv, RowsChange
    PROVE  IInv'
<1>1. /\ TInv' /\ Ranged' /\ UNCHANGED <<page, calls, view, acts, overtaken>>
      /\ served'.list = served.list /\ served'.notes = served.notes
      /\ served'.tracing = served.tracing
  BY RowsChangeWell DEF IInv
<1>2. NanobarsInv' /\ TracesInv' /\ LogInv'
  BY <1>1 DEF IInv, NanobarsInv, TracesInv, LogInv, ListNow, OrError, Quiet, InFlight, Answered
<1>3. ToggleInv' /\ SpanOfHash'
  BY <1>1 DEF IInv, ToggleInv, SpanOfHash, Answered
<1>4. NotesInv' /\ PostsInv'
  BY <1>1 DEF IInv, NotesInv, PostsInv, OnAdmin, NotesNow, ListNow, OrError, Quiet, InFlight,
     Answered
<1>5. QED
  BY <1>1, <1>2, <1>3, <1>4 DEF IInv

\* ... a step that does nothing ...
LEMMA StutterKeeps ==
    ASSUME IInv, UNCHANGED vars
    PROVE  IInv'
<1>1. TInv' /\ Ranged'
  BY StutterWell DEF IInv
<1>2. NanobarsInv' /\ TracesInv' /\ LogInv'
  BY DEF IInv, vars, NanobarsInv, TracesInv, LogInv, ListNow, OrError, Quiet, InFlight, Answered
<1>3. ToggleInv' /\ SpanOfHash'
  BY DEF IInv, vars, ToggleInv, SpanOfHash, Answered
<1>4. NotesInv' /\ PostsInv'
  BY DEF IInv, vars, NotesInv, PostsInv, OnAdmin, NotesNow, ListNow, OrError, Quiet, InFlight,
     Answered
<1>5. QED
  BY <1>1, <1>2, <1>3, <1>4 DEF IInv

\* ... and the opening of a page establishes it.
LEMMA InitKeeps ==
    ASSUME Init
    PROVE  IInv
<1>1. TInv /\ Ranged
  BY InitWell
<1>2. PICK hash \in Spans \cup {None} : view = FirstView(hash)
  BY DEF Init
<1>3. /\ view.query = FirstQuery /\ view.list.rows = None /\ view.selected = None
      /\ view.offered = {} /\ ~view.toggle.enabled
  BY <1>2 DEF FirstView
<1>4. page \in PageNames /\ calls = {FirstCall(k) : k \in FirstRequests(page)}
  BY DEF Init
<1>5. \A k \in FirstRequests(page) :
         /\ FirstCall(k).kind = k /\ FirstCall(k).at = "sent"
         /\ k \in {"nanobars", "traces"} => FirstCall(k).arg = FirstQuery
  BY <1>4, FirstCalls
<1>6. NanobarsInv
  <2>1. page = "nanobars" => "nanobars" \in FirstRequests(page)
    BY DEF FirstRequests, Readers
  <2>2. \A c \in calls : c.at = "sent" /\ (c.kind = "nanobars" => c.arg = FirstQuery)
    BY <1>4, <1>5
  <2>3. page = "nanobars" => \E c \in calls : c.kind = "nanobars"
    BY <1>4, <1>5, <2>1
  <2>4. QED
    BY <1>3, <2>2, <2>3 DEF NanobarsInv, Answered, Quiet, InFlight
<1>7. TracesInv
  <2>1. page = "traces" => "traces" \in FirstRequests(page)
    BY DEF FirstRequests, Readers
  <2>2. QED
    BY <1>3, <1>4, <1>5, <2>1 DEF TracesInv, Quiet, InFlight
<1>8. LogInv
  <2>1. page = "workers" => FirstRequests(page) = {"workers"}
    BY DEF FirstRequests, Readers
  <2>2. QED
    BY <1>3, <1>4, <1>5, <2>1 DEF LogInv
<1>9. ToggleInv
  <2>1. page = "settings" => FirstRequests(page) = {"settings", "status"}
    BY DEF FirstRequests, Readers
  <2>2. QED
    BY <1>3, <1>4, <1>5, <2>1 DEF ToggleInv, Toggling, Answered
<1>10. NotesInv /\ PostsInv
  <2>1. OnAdmin => FirstRequests(page) = {"notes", "posts"}
    BY DEF FirstRequests, Readers, OnAdmin
  <2>2. QED
    BY <1>4, <1>5, <2>1 DEF NotesInv, PostsInv, Answered, Quiet, InFlight
<1>11. SpanOfHash
  BY <1>3 DEF SpanOfHash
<1>12. QED
  BY <1>1, <1>6, <1>7, <1>8, <1>9, <1>10, <1>11 DEF IInv

\* The invariant is one.
LEMMA Invariant == Spec => []IInv
<1>1. Init => IInv
  BY InitKeeps
<1>2. IInv /\ [Next]_vars => IInv'
  <2> SUFFICES ASSUME IInv, [Next]_vars PROVE IInv'
    OBVIOUS
  <2>1. PageDoes \/ (\E c \in calls : Handle(c)) \/ Unload \/ RowsChange \/ UNCHANGED vars
    BY Steps DEF IInv
  <2>2. QED
    BY <2>1, PageKeeps, ServerKeeps, UnloadKeeps, RowsChangeKeeps, StutterKeeps
<1>3. QED
  BY <1>1, <1>2, PTL DEF Spec

-----------------------------------------------------------------------------
(* The theorems                                                              *)

\* Every variable has its type: a search asks for a page from 1 on, the controllers'
\* requests and the answers are of their kinds.
THEOREM TypeCorrect == Spec => []TypeOK
<1>1. IInv => TypeOK
  BY DEF IInv, TInv, TypeOK, GoodCall
<1>2. QED
  BY <1>1, Invariant, PTL

\* Of a user who waits for each answer, every list is of the filters and the page asked for
\* last and tells of every write, the log is of the worker beside it, and, whatever the user
\* does, the toggle is where the server has it and the detail is of the span in the address.
THEOREM PanesStayCurrent == Spec => []PanesCurrent
<1>1. IInv => PanesCurrent
  <2> SUFFICES ASSUME IInv PROVE PanesCurrent
    OBVIOUS
  <2>1. Quiet({"nanobars", "generate"}) => Quiet({"nanobars"}) /\ Quiet({"generate"})
    BY DEF Quiet, InFlight
  <2>2. Quiet({"notes", "read"}) => Quiet({"notes"}) /\ Quiet({"read"})
    BY DEF Quiet, InFlight
  <2>3. Quiet({"posts", "post"}) => Quiet({"posts"}) /\ Quiet({"post"})
    BY DEF Quiet, InFlight
  <2>4. ~overtaken => NanobarsCurrent
    BY <2>1 DEF IInv, NanobarsInv, NanobarsCurrent, OrError, ListNow
  <2>5. ~overtaken => TracesCurrent /\ LogOfSelected
    BY DEF IInv, TracesInv, TracesCurrent, LogInv, LogOfSelected
  <2>6. ~overtaken => DashboardCurrent
    <3>1. ~overtaken /\ OnAdmin =>
             /\ Quiet({"notes", "read"}) => OrError(view.notes, view.notes.rows = served.notes)
             /\ Quiet({"posts", "post"}) =>
                   OrError(view.list, \/ view.list.rows.at = served.list
                                      \/ view.told["post"] = "error")
      BY <2>2, <2>3 DEF IInv, NotesInv, PostsInv, OrError, NotesNow, ListNow
    <3>2. QED
      BY <3>1, Zenon DEF DashboardCurrent, OnAdmin
  <2>7. ToggleTrue /\ SpanOfHash
    BY DEF IInv, ToggleInv, ToggleTrue
  <2>8. QED
    BY <2>4, <2>5, <2>6, <2>7 DEF PanesCurrent
<1>2. QED
  BY <1>1, Invariant, PTL

\* Of a user who waits for each answer, no page is asked for that the list of its filters
\* never had, however its rows come and go.
THEOREM PagesStayInRange == Spec => []PageInRange
<1>1. IInv => PageInRange
  BY DEF IInv, Ranged, RangedView, PageInRange
<1>2. QED
  BY <1>1, Invariant, PTL
=============================================================================
