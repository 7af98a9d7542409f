-------------------------------- MODULE GuiViews --------------------------------
(***************************************************************************)
(* The event views of gui.c: how the GUI thread turns queued events into    *)
(* the store's history, alerts, list rows and Overview lists, while the     *)
(* user filters, sorts, clears, pauses and resumes.  Everything runs on the *)
(* GUI thread: each window message is handled to its end.  Only draining    *)
(* takes several steps here, one per popped event.                          *)
(*                                                                         *)
(* What the store accepts is EventStore's matter: here an event is accepted, *)
(* coalesced or dropped.  Rows hold indexes into the history, as their      *)
(* lParam does; texts, columns' widths and painting are left out.  A list    *)
(* control may refuse a row, the tree find no memory, Windows give no timer: *)
(* the code goes on without them.                                            *)
(***************************************************************************)
EXTENDS Naturals, FiniteSets, SequencesExt, Detection

CONSTANTS
  Arrivals,      \* events the collectors may push
  NameOrder,     \* alphabetical order of the process names: a number for each
  Searches,      \* texts of the search box; "" matches everything
  RecentEvents,  \* RECENT_EVENT_LIMIT
  RecentAlerts,  \* RECENT_ALERT_LIMIT
  MaxArrivals,   \* bound: events popped from the queue
  MaxInputs,     \* bound: inputs of the user
  MayRefuse      \* bound: the rows, <<view, index>>, that a list control may refuse

ASSUME LimitsAssumption == {RecentEvents, RecentAlerts, MaxArrivals, MaxInputs} \subseteq Nat
ASSUME SearchesAssumption == "" \in Searches
ASSUME NameOrderAssumption == NameOrder \in [DOMAIN NameOrder -> Nat]

\* What is shown of an event, sorted by or judged.
Event(types) ==
  [type : types, process_name : DOMAIN NameOrder, parent_name : STRING,
   executable_path : STRING, timestamp : Nat, rule_name : ToSet(Rules) \union {""}]

\* Collectors push no alerts.
ASSUME ArrivalsAssumption == Arrivals \subseteq Event({"start", "stop", "network"})

VARIABLES
  events,               \* the store's history; an event's sequence number is its index
  drain,                \* drain_events: running, and its local variables
  rows,                 \* the three event lists: indexes into events, top row first
  recent,               \* the two Overview lists, newest first
  refused,              \* the rows that a list control refused since it was last filled
  tree, tree_failed,    \* length of the history when the process tree was last rebuilt,
                        \* or 0 because there was no memory to rebuild it
  view_floor,           \* what was cleared away, per view
  sort_states,          \* the sort column of each event list, once the user chose one
  search, event_filter, \* the search box and the event type selected
  filter_timer_active,  \* a changed search text waits for its timer
  filter_timer,         \* Windows has that timer
  rendering_paused, render_dirty,
  metric,               \* number of events shown in the Overview
  arrivals, inputs      \* how many of each there were

display == <<rows, recent, refused, tree, tree_failed, metric>>
controls == <<view_floor, sort_states, search, event_filter, filter_timer_active, filter_timer,
              rendering_paused, render_dirty>>
vars == <<events, drain, display, controls, arrivals, inputs>>

ListViews == {"timeline", "network", "alerts"}
ClearableViews == ListViews \union {"overview"}
EventFilters == {"all", "processes", "network", "alerts"}
Columns == {"time", "process_name"}
SortStates == [column : Columns, ascending : BOOLEAN, active : BOOLEAN]
DefaultSort == [column |-> "time", ascending |-> TRUE, active |-> FALSE]
Idle == [running |-> FALSE, count_before |-> 0, any_accepted |-> FALSE, tree_changed |-> FALSE]

Init ==
  /\ events = <<>> /\ drain = Idle
  /\ rows = [view \in ListViews |-> <<>>]
  /\ recent = [events |-> <<>>, alerts |-> <<>>]
  /\ refused = {} /\ tree = 0 /\ tree_failed = FALSE /\ metric = 0
  /\ view_floor = [view \in ClearableViews |-> 0]
  /\ sort_states = [view \in ListViews |-> DefaultSort]
  /\ search = "" /\ event_filter = "all"
  /\ filter_timer_active = FALSE /\ filter_timer = FALSE
  /\ rendering_paused = FALSE /\ render_dirty = FALSE
  /\ arrivals = 0 /\ inputs = 0

-----------------------------------------------------------------------------
(* Filtering *)

\* event_matches_search looks for the text in every field that is shown.
MatchesSearch(event) ==
  \/ search = ""
  \/ search \in {event.type, event.process_name, event.parent_name,
                 event.executable_path, event.rule_name}

MatchesTypeFilter(event, filter) ==
  \/ filter = "all"
  \/ filter = "processes" /\ event.type \in {"start", "stop"}
  \/ filter = "network" /\ event.type = "network"
  \/ filter = "alerts" /\ event.type = "alert"

\* Faulty variant: only the timeline remembers what was cleared.
HasRowUncleared(view, history, filter, index) ==
  LET event == history[index]
  IN  /\ view = "timeline" => index > view_floor[view]
      /\ MatchesSearch(event)
      /\ \/ view \in {"timeline", "overview"} /\ MatchesTypeFilter(event, filter)
         \/ view = "network" /\ event.type = "network"
         \/ view = "alerts" /\ event.type = "alert"

\* Which events are given a row in a list: add_timeline_row, add_network_row,
\* add_alert_row, rebuild_overview_lists and the conditions under which they do.
HasRow(view, history, filter, index) ==
  LET event == history[index]
  IN  /\ index > view_floor[view]
      /\ MatchesSearch(event)
      /\ \/ view \in {"timeline", "overview"} /\ MatchesTypeFilter(event, filter)
         \/ view = "network" /\ event.type = "network"
         \/ view = "alerts" /\ event.type = "alert"

RowsOf(view, history, filter) == {i \in DOMAIN history : HasRow(view, history, filter, i)}

\* Without those that the list refused: insert_list_item gives a negative row, and
\* its callers leave the event out.
Listed(view, history, filter, lost) ==
  {i \in RowsOf(view, history, filter) : <<view, i>> \notin lost}

\* What the lists of some views may refuse of the events from one on.
Refusable(views, history, filter, first) ==
  {row \in MayRefuse : /\ row[1] \in views /\ row[2] >= first
                       /\ row[2] \in RowsOf(row[1], history, filter)}

-----------------------------------------------------------------------------
(* Sorting: compare_event_items orders by the column, then by sequence number. *)

ColumnValue(event, column) ==
  IF column = "time" THEN event.timestamp ELSE NameOrder[event.process_name]

Before(sort, history, left, right) ==
  LET l == ColumnValue(history[left], sort.column)
      r == ColumnValue(history[right], sort.column)
      less == l < r \/ (l = r /\ left < right)
  IN  left # right /\ (less <=> sort.ascending)

SortedBy(sort, history, shown) ==
  [k \in 1..Cardinality(shown) |->
     CHOOSE i \in shown : Cardinality({j \in shown : Before(sort, history, j, i)}) = k - 1]

\* Faulty variant: only a rebuilt list is sorted.
SortViewForced(sort, forced, history, list) ==
  IF forced THEN SortedBy(IF sort.active THEN sort ELSE DefaultSort, history, ToSet(list))
  ELSE list

\* sort_view: the column the user chose, or time when a default order is forced.
SortView(sort, forced, history, list) ==
  IF sort.active \/ forced
  THEN SortedBy(IF sort.active THEN sort ELSE DefaultSort, history, ToSet(list))
  ELSE list

-----------------------------------------------------------------------------
(* Rebuilding *)

\* Faulty variant: the old rows are not deleted.
RebuiltRowsAppended(filter, lost) ==
  [view \in ListViews |-> rows[view] \o InOrder(Listed(view, events, filter, lost))]

\* rebuild_event_lists
RebuiltRows(filter, lost) ==
  [view \in ListViews |->
     SortView(sort_states[view], TRUE, events, InOrder(Listed(view, events, filter, lost)))]

\* rebuild_overview_lists: from the newest event down to what was cleared, until
\* both lists are full; a refused row does not count.
Newest(shown, limit) ==
  Reverse(InOrder({i \in shown : Cardinality({j \in shown : j > i}) < limit}))

RebuiltRecent(filter, lost) ==
  LET Shown == Listed("overview", events, filter, lost)
      Alerts == {i \in Shown : events[i].type = "alert"}
  IN  [events |-> Newest(Shown \ Alerts, RecentEvents),
       alerts |-> Newest(Alerts, RecentAlerts)]

\* rebuild_process_tree: the tree is emptied before its arrays are allocated.
RebuildTree ==
  \/ tree' = Len(events) /\ tree_failed' = FALSE
  \/ /\ \E i \in DOMAIN events : events[i].type \in {"start", "stop"}
     /\ tree' = 0 /\ tree_failed' = TRUE

-----------------------------------------------------------------------------
(* Draining the queue: drain_events *)

BeginDrain ==
  /\ ~drain.running /\ arrivals < MaxArrivals
  /\ drain' = [Idle EXCEPT !.running = TRUE, !.count_before = Len(events)]
  /\ UNCHANGED <<events, display, controls, arrivals, inputs>>

\* add_accepted_event for each of some events: each new row goes to the end of its list.
WithRows(history, lost) ==
  [view \in ListViews |->
     rows[view] \o InOrder(Listed(view, history, event_filter, lost) \ DOMAIN events)]

\* The alerts that the store takes: each may fail for want of memory.
Subsequences(alerts) == {Elements(alerts, kept) : kept \in SUBSET DOMAIN alerts}

\* One popped event that the store accepts, and the alerts it causes.
AcceptEvent ==
  /\ drain.running /\ arrivals < MaxArrivals
  /\ \E event \in Arrivals :
     \E alerts \in Subsequences(Evaluate(event, MaxAlertsPerEvent)) :
       LET history == events \o <<event>> \o alerts
       IN  /\ events' = history
           /\ IF rendering_paused THEN UNCHANGED <<rows, refused>>
              ELSE \E lost \in SUBSET Refusable(ListViews, history, event_filter, Len(events) + 1) :
                     rows' = WithRows(history, lost) /\ refused' = refused \union lost
           /\ drain' = [drain EXCEPT !.any_accepted = TRUE,
                                     !.tree_changed = @ \/ event.type \in {"start", "stop"}]
  /\ arrivals' = arrivals + 1
  /\ UNCHANGED <<recent, tree, tree_failed, metric, controls, inputs>>

\* One popped event that the store coalesces or drops.
SkipEvent ==
  /\ drain.running /\ arrivals < MaxArrivals
  /\ arrivals' = arrivals + 1
  /\ UNCHANGED <<events, drain, display, controls, inputs>>

\* The queue is empty.
EndDrain ==
  /\ drain.running
  /\ drain' = Idle
  /\ IF ~drain.any_accepted THEN UNCHANGED <<display, render_dirty>>
     ELSE IF rendering_paused THEN render_dirty' = TRUE /\ UNCHANGED display
     ELSE /\ IF drain.tree_changed THEN RebuildTree ELSE UNCHANGED <<tree, tree_failed>>
          /\ \E lost \in SUBSET Refusable({"overview"}, events, event_filter, 1) :
               /\ recent' = RebuiltRecent(event_filter, lost)
               /\ refused' = {row \in refused : row[1] # "overview"} \union lost
          /\ rows' = [view \in ListViews |->
                        SortView(sort_states[view], drain.count_before = 0, events, rows[view])]
          /\ metric' = Len(events)
          /\ UNCHANGED render_dirty
  /\ UNCHANGED <<events, view_floor, sort_states, search, event_filter, filter_timer_active,
                 filter_timer, rendering_paused, arrivals, inputs>>

-----------------------------------------------------------------------------
(* The user *)

Input == ~drain.running /\ inputs < MaxInputs /\ inputs' = inputs + 1

\* rebuild_event_lists and rebuild_overview_lists
RebuildLists(filter) ==
  \E lost \in SUBSET Refusable(ClearableViews, events, filter, 1) :
    rows' = RebuiltRows(filter, lost) /\ recent' = RebuiltRecent(filter, lost) /\ refused' = lost

\* Faulty variant: a filter that changes while the view is paused is not remembered.
RebuildFilteredViewsUnlessPaused(filter) ==
  IF rendering_paused THEN UNCHANGED <<rows, recent, refused, render_dirty>>
  ELSE RebuildLists(filter) /\ UNCHANGED render_dirty

\* rebuild_filtered_views
RebuildFilteredViews(filter) ==
  IF rendering_paused THEN render_dirty' = TRUE /\ UNCHANGED <<rows, recent, refused>>
  ELSE RebuildLists(filter) /\ UNCHANGED render_dirty

\* EN_CHANGE: every edit of the text restarts the timer, whether SetTimer gives one or not.
EditSearch ==
  /\ Input
  /\ search' \in Searches \ {search}
  /\ filter_timer_active' = TRUE /\ filter_timer' \in BOOLEAN
  /\ UNCHANGED <<events, drain, display, view_floor, sort_states, event_filter,
                 rendering_paused, render_dirty, arrivals>>

FilterTimer ==
  /\ ~drain.running /\ filter_timer
  /\ filter_timer_active' = FALSE /\ filter_timer' = FALSE
  /\ RebuildFilteredViews(event_filter)
  /\ UNCHANGED <<events, drain, tree, tree_failed, metric, view_floor, sort_states, search,
                 event_filter, rendering_paused, arrivals, inputs>>

\* CBN_SELCHANGE: the lists read the selection that the control already has.
SelectEventFilter ==
  /\ Input
  /\ event_filter' \in EventFilters \ {event_filter}
  /\ RebuildFilteredViews(event_filter')
  /\ UNCHANGED <<events, drain, tree, tree_failed, metric, view_floor, sort_states, search,
                 filter_timer_active, filter_timer, rendering_paused, arrivals>>

\* toggle_pause
TogglePause ==
  /\ Input
  /\ rendering_paused' = ~rendering_paused
  /\ IF rendering_paused /\ render_dirty
     THEN RebuildLists(event_filter) /\ RebuildTree /\ render_dirty' = FALSE
     ELSE UNCHANGED <<rows, recent, refused, tree, tree_failed, render_dirty>>
  /\ metric' = Len(events)
  /\ UNCHANGED <<events, drain, view_floor, sort_states, search, event_filter,
                 filter_timer_active, filter_timer, arrivals>>

\* clear_current_view: what is there now is no longer shown, paused or not.
ClearView(view) ==
  /\ Input
  /\ view_floor' = [view_floor EXCEPT ![view] = Len(events)]
  /\ rows' = IF view = "overview" THEN rows ELSE [rows EXCEPT ![view] = <<>>]
  /\ recent' = IF view = "overview" THEN [events |-> <<>>, alerts |-> <<>>] ELSE recent
  /\ UNCHANGED <<events, drain, refused, tree, tree_failed, metric, sort_states, search,
                 event_filter, filter_timer_active, filter_timer, rendering_paused,
                 render_dirty, arrivals>>

\* handle_column_click
ClickColumn(view, column) ==
  /\ Input
  /\ LET old == sort_states[view]
         sort == IF old.active /\ old.column = column
                 THEN [old EXCEPT !.ascending = ~@]
                 ELSE [column |-> column, ascending |-> TRUE, active |-> TRUE]
     IN  /\ sort_states' = [sort_states EXCEPT ![view] = sort]
         /\ rows' = [rows EXCEPT ![view] = SortView(sort, FALSE, events, @)]
  /\ UNCHANGED <<events, drain, recent, refused, tree, tree_failed, metric, view_floor, search,
                 event_filter, filter_timer_active, filter_timer, rendering_paused,
                 render_dirty, arrivals>>

-----------------------------------------------------------------------------
Drain == BeginDrain \/ AcceptEvent \/ SkipEvent \/ EndDrain
User ==
  \/ EditSearch \/ SelectEventFilter \/ TogglePause
  \/ \E view \in ClearableViews : ClearView(view)
  \/ \E view \in ListViews, column \in Columns : ClickColumn(view, column)
Next == Drain \/ FilterTimer \/ User

(* The collectors do not push faster than the GUI drains for good: a drain    *)
(* ends, and between drains the message loop comes to the timer, whose        *)
(* messages Windows gives only when no other is waiting.                      *)
Spec == Init /\ [][Next]_vars /\ WF_vars(EndDrain) /\ SF_vars(FilterTimer)

-----------------------------------------------------------------------------
(* Properties *)

\* Every variable has its type; no row and no floor points past the history, no
\* list holds an event twice, and a timer that exists is waited for.
TypeOK ==
  /\ events \in Seq(Event({"start", "stop", "network", "alert"}))
  /\ drain \in [running : BOOLEAN, count_before : 0 .. Len(events), any_accepted : BOOLEAN,
                tree_changed : BOOLEAN]
  /\ rows \in [ListViews -> Seq(DOMAIN events)] /\ \A view \in ListViews : IsInjective(rows[view])
  /\ recent \in [events : Seq(DOMAIN events), alerts : Seq(DOMAIN events)]
  /\ IsInjective(recent.events) /\ IsInjective(recent.alerts)
  /\ refused \subseteq {row \in MayRefuse : row[2] \in DOMAIN events}
  /\ tree \in 0 .. Len(events) /\ metric \in 0 .. Len(events)
  /\ view_floor \in [ClearableViews -> 0 .. Len(events)]
  /\ sort_states \in [ListViews -> SortStates]
  /\ search \in Searches /\ event_filter \in EventFilters
  /\ {filter_timer_active, filter_timer, rendering_paused, render_dirty, tree_failed}
       \subseteq BOOLEAN
  /\ (filter_timer => filter_timer_active) /\ (tree_failed => tree = 0)
  /\ arrivals \in 0 .. MaxArrivals /\ inputs \in 0 .. MaxInputs

\* What the lists should show, and the tree unless it could not be rebuilt.
Exact ==
  /\ \A view \in ListViews :
       ToSet(rows[view]) = Listed(view, events, event_filter, refused)
  /\ recent = RebuiltRecent(event_filter, refused)
  /\ \A i \in DOMAIN events :
       events[i].type \in {"start", "stop"} /\ ~tree_failed => i <= tree
  /\ metric = Len(events)

\* "Pause affects rendering only: producers and the GUI-side store continue to
\* accept events, then the controls are rebuilt on Resume" (docs/architecture.md:61-62):
\* whenever the view is not paused and no search text waits for its timer, every
\* list shows exactly the events that pass the filters, were not cleared and whose
\* row it did not refuse (gui.c:727, 748, 763, 994, 1007), and the tree every
\* process unless its last rebuild had no memory (gui.c:1072), whatever was typed,
\* selected, cleared, paused and drained in between.
ShowsExactly == ~drain.running /\ ~rendering_paused /\ ~filter_timer_active => Exact

\* "Event lists ... only re-sort continuously after a user selects a sort column"
\* (docs/architecture.md:102-103): from then on the list is always in that order.
SortedAsChosen ==
  ~drain.running =>
    \A view \in ListViews :
      sort_states[view].active =>
        \A i, j \in DOMAIN rows[view] :
          i < j => Before(sort_states[view], events, rows[view][i], rows[view][j])

\* Every alert in the history follows the event it is about, is one that the rules
\* give for it, and is there once; alerts cause no alerts (detection.c:41-114,
\* gui.c:1250-1258).
AlertsFollowCause ==
  \A i \in DOMAIN events :
    events[i].type = "alert" =>
      \E cause \in 1 .. i - 1 :
        /\ events[cause].type # "alert"
        /\ \A j \in cause + 1 .. i : events[j].type = "alert"
        /\ \E rule \in ToSet(Rules) :
             RuleApplies(rule, events[cause]) /\ events[i] = Alert(events[cause], rule)
        /\ \A j \in cause + 1 .. i - 1 : events[j] # events[i]

\* A changed search text is applied in the end, unless the view stays paused or
\* Windows gave no timer for it (gui.c:1800 ignores SetTimer's result): the
\* debouncing timer is never lost, and Resume does not forget the change.
SearchApplied == []<>(rendering_paused \/ (filter_timer_active /\ ~filter_timer) \/ Exact)
=============================================================================
