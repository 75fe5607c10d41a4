---------------------------- MODULE WebDashboard ----------------------------
(* The dashboard (clients/web/index.html): one thread of callbacks.  What  *)
(* follows an await runs in a later turn, when the user may have gone to   *)
(* another tab, and the answers come in any order.  The search box and the *)
(* filters choose among a rendered list's lines: content holds the list.   *)
EXTENDS Api

CONSTANTS WebTabs, NewsTabs,
          Held,           \* what the daemon holds
          MaxPending,     \* requests in flight, at most
          MaxFailures,    \* requests that fail, at most
          MaxClicks,      \* the tabs the user goes to, at most
          Nothing         \* no list, no page

ASSUME WebAssumption ==
  /\ IsFiniteSet(WebTabs) /\ "crypto" \in WebTabs /\ WebTabs \cap {"status", "sources"} = {}
  /\ NewsTabs \subseteq WebTabs
  /\ MaxPending \in Nat \ {0, 1}

VARIABLES activeTab, cachedData,
          content,        \* the list on the page and the tab it is laid out for
          header,         \* what is shown of the last status and sources
          pending,        \* the requests of each kind whose answer is awaited
          failures, clicks

webVars == <<activeTab, cachedData, content, header, pending, failures, clicks>>

Requests == WebTabs \cup {"status", "sources"}
Awaited(p) == {x \in Requests \X (1..MaxPending) : x[2] <= p[x[1]]}
InFlight == Cardinality(Awaited(pending))
render(list, tab) == [list |-> list, tab |-> tab]

(* loadTab, to its await: the request is of the tab that is active now.    *)
loadTab(tab, sent) == content' = Nothing /\ pending' = [sent EXCEPT ![tab] = @ + 1]

WebInit ==
  /\ activeTab = "crypto"
  /\ cachedData = [t \in WebTabs |-> Nothing]
  /\ content = Nothing
  /\ header = [status |-> Nothing, sources |-> Nothing]
  /\ pending = [r \in Requests |-> IF r \in {"crypto", "status"} THEN 1 ELSE 0]
  /\ failures = 0 /\ clicks = 0

(* The slip: the timer refreshes the header only.                          *)
SlipHeaderOnly ==
  /\ InFlight + 2 <= MaxPending
  /\ pending' = [pending EXCEPT !["status"] = @ + 1]
  /\ UNCHANGED <<activeTab, cachedData, content, header, failures, clicks>>

(* refreshAll, from the timer and the button: loadTab and loadMeta.        *)
refreshAll ==
  /\ InFlight + 2 <= MaxPending
  /\ loadTab(activeTab, [pending EXCEPT !["status"] = @ + 1])
  /\ UNCHANGED <<activeTab, cachedData, header, failures, clicks>>

(* The list in the cache is rendered, and loadTab at once hides it.        *)
ClickTab ==
  /\ clicks < MaxClicks /\ InFlight < MaxPending
  /\ clicks' = clicks + 1
  /\ activeTab' \in WebTabs
  /\ loadTab(activeTab', pending)
  /\ UNCHANGED <<cachedData, header, failures>>

(* For the search box and the filters.                                     *)
rerenderFromCache ==
  /\ cachedData[activeTab] # Nothing
  /\ content' = render(cachedData[activeTab], activeTab)
  /\ UNCHANGED <<activeTab, cachedData, header, pending, failures, clicks>>

-----------------------------------------------------------------------------
(* After the awaits.  A list of news is kept and laid out as the request's *)
(* tab, a list of entries as the tab that is active by now.                *)

Answer(tab) == IF tab \in NewsTabs THEN handle_news(Held, tab) ELSE handle_entries(Held, tab)
LandsOn(tab) == IF tab \in NewsTabs THEN tab ELSE activeTab
Taken(r) == [pending EXCEPT ![r] = @ - 1]
Fails == failures < MaxFailures /\ failures' = failures + 1

TabAnswered(tab) ==
  /\ pending[tab] > 0
  /\ cachedData' = [cachedData EXCEPT ![LandsOn(tab)] = Answer(tab)]
  /\ content' = render(Answer(tab), LandsOn(tab))
  /\ pending' = Taken(tab)
  /\ UNCHANGED <<activeTab, header, failures, clicks>>

TabFailed(tab) ==
  /\ pending[tab] > 0
  /\ Fails
  /\ content' = Nothing
  /\ pending' = Taken(tab)
  /\ UNCHANGED <<activeTab, cachedData, header, clicks>>

(* loadMeta asks for the sources after the status, answered or not.        *)
StatusEnds ==
  /\ pending["status"] > 0
  /\ \/ header' = [header EXCEPT !.status = handle_status(Held)] /\ UNCHANGED failures
     \/ header' = [header EXCEPT !.status = Nothing] /\ Fails
  /\ pending' = [Taken("status") EXCEPT !["sources"] = @ + 1]
  /\ UNCHANGED <<activeTab, cachedData, content, clicks>>

SourcesEnd ==
  /\ pending["sources"] > 0
  /\ \/ header' = [header EXCEPT !.sources = handle_sources(Held)] /\ UNCHANGED failures
     \/ header' = [header EXCEPT !.sources = Nothing] /\ Fails
  /\ pending' = Taken("sources")
  /\ UNCHANGED <<activeTab, cachedData, content, clicks>>

WebNext ==
  \/ refreshAll \/ ClickTab \/ rerenderFromCache \/ StatusEnds \/ SourcesEnd
  \/ \E t \in WebTabs : TabAnswered(t) \/ TabFailed(t)

-----------------------------------------------------------------------------
(* The type invariant.  A list of news is only kept under the tab that     *)
(* asked for it, whatever tab is active when it arrives (index.html        *)
(* 853-864); a list of entries may be kept under any tab.                  *)
WebTypeOK ==
  /\ activeTab \in WebTabs
  /\ \A t \in WebTabs : cachedData[t] \in {Nothing} \cup {Answer(u) : u \in {t} \cup (WebTabs \ NewsTabs)}
  /\ \A r \in Requests : pending[r] \in 0..MaxPending
=============================================================================
