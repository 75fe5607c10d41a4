--------------------------------- MODULE Tui ---------------------------------
(* The terminal client (clients/tui/src): one thread that, for ever,       *)
(* fetches from the daemon on every fourth tick, draws the active tab and  *)
(* waits half a second for one key.  The lists it draws are replaced under *)
(* its cursor, its scroll offset, its search and its pop-up.               *)
EXTENDS Api, Selections

CONSTANTS Tabs,                           \* tab_categories
          MAX_ENTRIES, MAX_NEWS, MAX_SEARCH, PAGE_SIZE,
          Heights,                        \* the rows the terminal may have
          Characters,                     \* what names and titles are made of
          Letters,                        \* the keys that type a character
          Snapshots,                      \* what the daemon may hold
          Down, NoItem

Text == Seq(Characters)
AnEntry == [symbol : Text, display_name : Text, source : Text, category : CategoryNames]
AStory == [title : Text, source : Text, category : CategoryNames]

ASSUME TuiAssumption ==
  /\ MAX_ENTRIES \in Nat /\ MAX_NEWS \in Nat /\ MaxServed \in Nat
  /\ MAX_SEARCH \in Nat \ {0} /\ PAGE_SIZE \in Nat \ {0} /\ Heights \subseteq Nat
  /\ 1 \in DOMAIN Tabs /\ Letters \subseteq Characters
  /\ \A s \in Snapshots : s.entries \in Seq(AnEntry) /\ s.news \in Seq(AStory)

VARIABLES served,          \* what the daemon answers from, Down when it does not
          pc, tick, mode, active_tab, cursor_pos, scroll_pos, filtered_total, search_query,
          max_y, content_h,               \* rows of the terminal, of content_win
          entries, news,
          popup,                          \* the item of the pop-up on the screen
          opened,                         \* the item opened since the last drawing
          disturbed                       \* history: the cursor may be past the list's end,
                                          \* askew to the lines drawn: see CursorInView

lists == <<entries, news>>
position == <<cursor_pos, scroll_pos, disturbed>>
window == <<max_y, content_h>>
tuiVars == <<served, pc, tick, mode, active_tab, filtered_total, search_query, popup, opened,
             lists, position, window>>

-----------------------------------------------------------------------------
(* What is drawn.                                                          *)

str_match(haystack, needle) ==
  \E i \in 0..(Len(haystack) - Len(needle)) : SubSeq(haystack, i + 1, i + Len(needle)) = needle
entry_matches(e, filter) ==
  \E field \in {e.symbol, e.display_name, e.source} : str_match(field, filter)
news_matches(n, filter) == \E field \in {n.title, n.source} : str_match(field, filter)

OnNews == Tabs[active_tab] = "news"
Filtered(es, ns, filter) ==
  IF OnNews THEN Passing(ns, LAMBDA n : news_matches(n, filter))
  ELSE Passing(es, LAMBDA e : e.category = Tabs[active_tab] /\ entry_matches(e, filter))
Shown == Filtered(entries, news, search_query)
(* get_filtered_entry and get_filtered_news, for the cursor.               *)
Selected(list) == IF cursor_pos < Len(list) THEN list[cursor_pos + 1] ELSE NoItem

(* The rows between the header and the last line of the window; the lines  *)
(* that head a group take rows of their own.                               *)
Grouped == Tabs[active_tab] \in {"stock_index", "forex", "commodity"}
HeadsGroup(k) == Grouped /\ (k = 0 \/ Shown[k].source # Shown[k + 1].source)
RowBefore(i) == 2 + (i - scroll_pos) + Cardinality({k \in scroll_pos..(i - 1) : HeadsGroup(k)})
Drawn(i) == i >= scroll_pos /\ i < Len(Shown) /\ RowBefore(i) <= content_h - 2

-----------------------------------------------------------------------------
(* The loop.                                                               *)

(* A terminal that is too small, lower than 8 rows or narrower than 20     *)
(* columns, ends the client before its loop.                               *)
TuiInit ==
  /\ served \in Snapshots \cup {Down}
  /\ max_y \in Heights
  /\ content_h = max_y - 4
  /\ \E wide \in BOOLEAN : pc = IF max_y >= 8 /\ wide THEN "fetch" ELSE "ended"
  /\ tick = 0 /\ mode = "normal" /\ active_tab = 1
  /\ cursor_pos = 0 /\ scroll_pos = 0 /\ filtered_total = 0 /\ search_query = <<>>
  /\ entries = <<>> /\ news = <<>>
  /\ popup = NoItem /\ opened = NoItem /\ disturbed = {}

(* The daemon's side, from one request to the next.                        *)
Serve ==
  /\ pc # "ended"
  /\ served' \in Snapshots \cup {Down}
  /\ UNCHANGED <<pc, tick, mode, active_tab, filtered_total, search_query, popup, opened,
                 lists, position, window>>

(* mc_client_get_entries and mc_client_get_news.  An answer that is empty, *)
(* or none, keeps the list of before.  The slip: the array's length is not *)
(* asked for.                                                              *)
SlipWholeAnswer(list, answer, max) == IF answer = <<>> THEN list ELSE answer
Received(list, answer, max) == IF answer = <<>> THEN list ELSE FirstOf(answer, max)
ReadBack(answer) == [i \in DOMAIN answer |->
                       [answer[i] EXCEPT !.category = cat_from_str(mc_category_str(@))]]
Past(es, ns, filter) == IF Len(Filtered(es, ns, filter)) < Len(Shown) THEN {"past"} ELSE {}

FetchEntries ==
  /\ pc = "fetch"
  /\ entries' = IF served = Down THEN entries
                ELSE Received(entries, ReadBack(handle_entries(served, NotGiven)), MAX_ENTRIES)
  /\ disturbed' = disturbed \cup Past(entries', news, search_query)
  /\ pc' = "news"
  /\ UNCHANGED <<served, tick, mode, active_tab, filtered_total, search_query, popup, opened,
                 news, cursor_pos, scroll_pos, window>>

FetchNews ==
  /\ pc = "news"
  /\ news' = IF served = Down THEN news
             ELSE Received(news, ReadBack(handle_news(served, NotGiven)), MAX_NEWS)
  /\ disturbed' = disturbed \cup Past(entries, news', search_query)
  /\ pc' = "draw"
  /\ UNCHANGED <<served, tick, mode, active_tab, filtered_total, search_query, popup, opened,
                 entries, cursor_pos, scroll_pos, window>>

Draw ==
  /\ pc = "draw"
  /\ filtered_total' = IF mode = "detail" THEN filtered_total ELSE Len(Shown)
  /\ popup' = IF mode = "detail" THEN Selected(Shown) ELSE NoItem
  /\ opened' = NoItem
  /\ pc' = "getch"
  /\ UNCHANGED <<served, tick, mode, active_tab, search_query, lists, position, window>>

-----------------------------------------------------------------------------
(* Keys.  Each ends the iteration.                                         *)

EndIteration(t) ==
  /\ pc = "getch"
  /\ tick' = t
  /\ pc' = IF t = 0 THEN "fetch" ELSE "draw"
(* The slip: the counter advances in normal mode only.                     *)
SlipTickWhenNormal == IF mode = "normal" THEN (tick + 1) % 4 ELSE tick
Ticked == (tick + 1) % 4

Fits == max_y >= 8 /\ content_h = max_y - 4
Undisturbed == disturbed' = IF Fits THEN {} ELSE {"askew"}
AtTop == cursor_pos' = 0 /\ scroll_pos' = 0 /\ Undisturbed
(* The slip forgets one of the two head lines.                             *)
SlipOneHeadLine == max_y - 4 - 2
visible_rows == max_y - 4 - 3
ScrolledTo(c) == IF c >= scroll_pos + visible_rows THEN c - visible_rows + 1 ELSE scroll_pos
NotBelow(c) == IF c < scroll_pos THEN c ELSE scroll_pos
MoveTo(c, s) == cursor_pos' = c /\ scroll_pos' = s /\ UNCHANGED disturbed

(* No key within half a second, one that the mode ignores, the theme.      *)
NoKey ==
  /\ EndIteration(Ticked)
  /\ UNCHANGED <<served, mode, active_tab, filtered_total, search_query, popup, opened, lists,
                 position, window>>

Type(ch) ==
  /\ mode = "search"
  /\ Len(search_query) < MAX_SEARCH - 1
  /\ search_query' = Append(search_query, ch)
  /\ disturbed' = disturbed \cup Past(entries, news, search_query')
  /\ EndIteration(Ticked)
  /\ UNCHANGED <<served, mode, active_tab, filtered_total, popup, opened, lists, cursor_pos,
                 scroll_pos, window>>

Backspace ==
  /\ mode = "search"
  /\ search_query # <<>>
  /\ search_query' = SubSeq(search_query, 1, Len(search_query) - 1)
  /\ EndIteration(Ticked)
  /\ UNCHANGED <<served, mode, active_tab, filtered_total, popup, opened, lists, position, window>>

(* Enter keeps the query, ESC clears it.                                   *)
EndSearch ==
  /\ mode = "search"
  /\ mode' = "normal"
  /\ search_query' \in {search_query, <<>>}
  /\ AtTop
  /\ EndIteration(Ticked)
  /\ UNCHANGED <<served, active_tab, filtered_total, popup, opened, lists, window>>

(* The slip: the search is not passed on.                                  *)
SlipOpenUnfiltered ==
  /\ mode = "detail"
  /\ opened' = Selected(Filtered(entries, news, <<>>))
  /\ EndIteration(Ticked)
  /\ UNCHANGED <<served, mode, active_tab, filtered_total, search_query, popup, lists, position,
                 window>>

Open ==
  /\ mode = "detail"
  /\ opened' = Selected(Shown)
  /\ EndIteration(Ticked)
  /\ UNCHANGED <<served, mode, active_tab, filtered_total, search_query, popup, lists, position,
                 window>>

CloseDetail ==
  /\ mode = "detail"
  /\ mode' = "normal"
  /\ EndIteration(Ticked)
  /\ UNCHANGED <<served, active_tab, filtered_total, search_query, popup, opened, lists, position,
                 window>>

Quit ==
  /\ pc = "getch" /\ mode = "normal"
  /\ pc' = "ended"
  /\ UNCHANGED <<served, tick, mode, active_tab, filtered_total, search_query, popup, opened,
                 lists, position, window>>

ChangeTab ==
  /\ mode = "normal"
  /\ active_tab' \in DOMAIN Tabs
  /\ AtTop
  /\ EndIteration(Ticked)
  /\ UNCHANGED <<served, mode, filtered_total, search_query, popup, opened, lists, window>>

LineDown ==
  /\ cursor_pos < filtered_total - 1
  /\ MoveTo(cursor_pos + 1, ScrolledTo(cursor_pos + 1))

LineUp ==
  /\ cursor_pos > 0
  /\ MoveTo(cursor_pos - 1, NotBelow(cursor_pos - 1))

PageDown ==
  LET c == IF cursor_pos + PAGE_SIZE >= filtered_total THEN filtered_total - 1
           ELSE cursor_pos + PAGE_SIZE
  IN /\ filtered_total > 0
     /\ cursor_pos' = c /\ scroll_pos' = ScrolledTo(c)
     /\ disturbed' = (IF c < cursor_pos THEN {"askew"} ELSE disturbed) \ {"past"}

PageUp ==
  LET c == IF cursor_pos < PAGE_SIZE THEN 0 ELSE cursor_pos - PAGE_SIZE IN MoveTo(c, NotBelow(c))

Home == AtTop

End ==
  /\ filtered_total > 0
  /\ cursor_pos' = filtered_total - 1
  /\ scroll_pos' = IF filtered_total - 1 >= visible_rows THEN filtered_total - visible_rows ELSE 0
  /\ Undisturbed

Move ==
  /\ mode = "normal"
  /\ LineDown \/ LineUp \/ PageDown \/ PageUp \/ Home \/ End
  /\ EndIteration(Ticked)
  /\ UNCHANGED <<served, mode, active_tab, filtered_total, search_query, popup, opened, lists,
                 window>>

StartSearch ==
  /\ mode = "normal"
  /\ mode' = "search"
  /\ EndIteration(Ticked)
  /\ UNCHANGED <<served, active_tab, filtered_total, search_query, popup, opened, lists, position,
                 window>>

ClearSearch ==
  /\ mode = "normal"
  /\ search_query # <<>>
  /\ search_query' = <<>>
  /\ AtTop
  /\ EndIteration(Ticked)
  /\ UNCHANGED <<served, mode, active_tab, filtered_total, popup, opened, lists, window>>

OpenDetail ==
  /\ mode = "normal"
  /\ filtered_total > 0
  /\ mode' = "detail"
  /\ EndIteration(Ticked)
  /\ UNCHANGED <<served, active_tab, filtered_total, search_query, popup, opened, lists, position,
                 window>>

(* mc_client_refresh, then tick = -1.                                      *)
Refresh ==
  /\ mode = "normal"
  /\ EndIteration(0)
  /\ UNCHANGED <<served, mode, active_tab, filtered_total, search_query, popup, opened, lists,
                 position, window>>

(* The windows follow in normal mode and in a terminal of 8 rows and 20    *)
(* columns or more; otherwise they have the height ncurses leaves them.    *)
Resize ==
  /\ \E h \in Heights, left \in Heights, wide \in BOOLEAN :
       /\ max_y' = IF mode = "normal" THEN h ELSE max_y
       /\ content_h' = IF mode = "normal" /\ h >= 8 /\ wide THEN h - 4 ELSE left - 4
  /\ disturbed' = IF max_y' >= max_y /\ max_y' >= 8 /\ content_h' = max_y' - 4
                  THEN disturbed ELSE disturbed \cup {"askew"}
  /\ EndIteration(Ticked)
  /\ UNCHANGED <<served, mode, active_tab, filtered_total, search_query, popup, opened, lists,
                 cursor_pos, scroll_pos>>

Key ==
  \/ NoKey \/ Backspace \/ EndSearch \/ Open \/ CloseDetail \/ Quit \/ ChangeTab \/ Move
  \/ StartSearch \/ ClearSearch \/ OpenDetail \/ Refresh \/ Resize
  \/ \E ch \in Letters : Type(ch)
Loop == FetchEntries \/ FetchNews \/ Draw \/ Key
TuiNext == Serve \/ Loop

-----------------------------------------------------------------------------
(* The type invariant.  The cursor stays within what a list can hold.      *)
MaxListed == IF MAX_ENTRIES < MAX_NEWS THEN MAX_NEWS ELSE MAX_ENTRIES
TuiTypeOK ==
  /\ pc \in {"fetch", "news", "draw", "getch", "ended"} /\ tick \in 0..3
  /\ mode \in {"normal", "search", "detail"}
  /\ active_tab \in DOMAIN Tabs
  /\ served \in Snapshots \cup {Down}
  /\ entries \in Seq(AnEntry) /\ Len(entries) <= MAX_ENTRIES
  /\ news \in Seq(AStory) /\ Len(news) <= MAX_NEWS
  /\ filtered_total \in 0..MaxListed
  /\ cursor_pos \in 0..MaxListed /\ scroll_pos \in Nat
  /\ search_query \in Seq(Letters) /\ Len(search_query) < MAX_SEARCH
  /\ max_y \in Heights /\ content_h \in Int /\ disturbed \subseteq {"past", "askew"}

(* The cursor is among the visible_rows lines from the scroll offset on,   *)
(* in every tab, whatever is fetched and typed; if it is on an item, that  *)
(* line is drawn; and on an item it is, if there is one (ui.c 386-568).    *)
(* What may undo this is named, and each is undone by the next jump to an  *)
(* end of the list, new tab or search: a fetch or a typed letter that      *)
(* makes the list shorter leaves the cursor past its end, page down then   *)
(* brings it back above the lines drawn, and a terminal that gets smaller  *)
(* cuts them off.  In the tabs of headed groups (forex, indices,           *)
(* commodities) the heads take rows that visible_rows does not count: a    *)
(* line within the offsets need not be drawn there.                        *)
CursorInView ==
  pc = "getch" =>
    /\ "askew" \notin disturbed =>
         /\ scroll_pos <= cursor_pos /\ cursor_pos < scroll_pos + visible_rows
         /\ ~Grouped /\ cursor_pos < Len(Shown) => Drawn(cursor_pos)
    /\ "past" \notin disturbed => cursor_pos = 0 \/ cursor_pos < Len(Shown)

(* The page that o opens is the one of the item in the pop-up on the       *)
(* screen, whatever was fetched since Enter (ui.c 349-364, 425-439).       *)
OpensWhatIsShown == [][opened' # opened => opened' \in {NoItem, popup}]_tuiVars
=============================================================================
