------------------------------- MODULE Clients -------------------------------
(* The two clients side by side: a behaviour is one of either.             *)
EXTENDS Tui, WebDashboard

VARIABLE client    \* "tui" or "web"

vars == <<client, tuiVars, webVars>>
Terminal(A) == client = "tui" /\ A /\ UNCHANGED <<client, webVars>>
Browser(A) == client = "web" /\ A /\ UNCHANGED <<client, tuiVars>>

Init ==
  /\ TuiInit /\ WebInit
  /\ \/ client = "tui"
     \/ client = "web" /\ pc = "ended" /\ served = Down
Next ==
  \/ Terminal(TuiNext)
  \/ Browser(WebNext)

(* The terminal's loop waits half a second at most.  In the browser the    *)
(* timer ticks every second and each request ends, answered or failed.     *)
Fairness ==
  /\ WF_vars(Terminal(Loop))
  /\ WF_vars(Browser(refreshAll))
  /\ \A t \in WebTabs : WF_vars(Browser(TabAnswered(t) \/ TabFailed(t)))
  /\ WF_vars(Browser(StatusEnds)) /\ WF_vars(Browser(SourcesEnd))
Spec == Init /\ [][Next]_vars /\ Fairness

-----------------------------------------------------------------------------
(* The type invariants of the two: what the terminal keeps fits in its     *)
(* arrays, and a list of news is only kept under the tab that asked for it *)
(* (index.html 853-864).                                                   *)
ClientsTypeOK == TuiTypeOK /\ WebTypeOK

(* Data the daemon goes on holding reach the terminal's lists, whatever    *)
(* the mode and the keys, unless the list is empty (ui.c 338-343, 571).    *)
CatchesUp ==
  \A s \in Snapshots :
    <>[](client = "tui" /\ served = s) =>
      <>[](\/ pc = "ended"
           \/ /\ entries = FirstOf(s.entries, MAX_ENTRIES)
              /\ s.news # <<>> => news = FirstOf(s.news, MAX_NEWS))

(* When the user has stopped going from tab to tab, the page ends up       *)
(* showing the active tab's own list and no other, although an answer may  *)
(* have been stored and laid out under the wrong tab (index.html 850-874). *)
SettlesOnActiveTab ==
  client = "web" =>
    /\ <>[](content # Nothing => content = render(Answer(activeTab), activeTab))
    /\ []<>(content # Nothing)
=============================================================================
