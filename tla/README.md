# TraceGlass in TLA+

TraceGlass is a Windows program that shows, as they happen, the processes that
start and stop, the TCP connections they open, and alerts that three rules derive
from them. It is small (about 4,200 lines of C) but concurrent: two collector
threads push into a queue that the GUI thread drains, two sources report the same
process transitions in different orders, PIDs are reused, and most calls of
Windows may fail. This directory models that behaviour, checks it with TLC, and
proves part of it with TLAPS.

    tlc -workers 2 -config EventStore.cfg MCEventStore     # see "Runs"
    tlapm EventStoreProofs.tla                             # see "Proofs"

Paths such as `event_queue.c:52` are relative to `src/src/`; `architecture.md` is
`src/docs/architecture.md`. `PROJECT.json` ties every definition to its lines.

## Inventory

| Component | Files | State | Operations |
|---|---|---|---|
| Event store | `event_store.c/.h` | history `events`, table `processes`, their capacities, three counters | initialize, destroy, find a process, add an event |
| Event queue | `event_queue.c/.h` | linked list, lock, `notification_pending`, window | initialize, set window, push, pop, destroy |
| Process monitor | `process_monitor.c/.h` | the previous snapshot | initialize, poll, destroy |
| ETW monitor | `etw_monitor.c/.h` | session and trace handles, thread, `running`, `enabled`, last error | start, stop, the callback and its thread |
| Network monitor | `network_monitor.c/.h` | sorted keys of the previous TCP table | initialize, poll, destroy |
| Telemetry engine | `telemetry.c/.h` | stop event, worker thread, the three monitors | initialize, start, shut down, the worker's loop |
| Detection | `detection.c/.h` | none | three rules over one event |
| GUI: event views | `gui.c` (drain, filters, lists, tree, shutdown) | list rows, sort states, clear floors, pause, search timer, the tree, shutdown flags | drain, search, filter, sort, clear, pause, rebuild, close |
| GUI: windows and dialogs | `gui.c` (the rest) | Win32 controls, details windows, the clipboard's block | create, lay out, paint, details, context menu, clipboard, message boxes, export command |
| Export | `export.c/.h` | none beyond the file | pick a path, name the file, write JSON, CSV, text |
| Event names, logger, utilities, entry point | `events.c`, `logger.c`, `utils.c`, `main.c` | a log file | names of event types, conversions, start |
| Export smoke test | `tests/` | none | writes one file per format |

How they interact. The **worker thread** polls processes and connections once a
second and pushes events; the **ETW thread** pushes from a callback. A push links
a node under the queue's lock and, if no notification is outstanding, posts one
window message after it has released the lock. The **GUI thread** receives the
message, pops until the queue is empty, adds each event to the store, runs the
detection rules on what the store accepted, adds the alerts, and updates the
lists. Only the GUI thread touches the store and the lists. Shutdown happens on
the GUI thread, waits for both collector threads, and then takes the queue and
the store away.

What is hard, and what makes each part correct:

* **Queue** – interleaving of pushes, pops, the posted message and shutdown. The
  list is intact, every node is owned once, no wakeup is lost or doubled,
  delivery is FIFO, no thread uses the queue after it is gone, shutdown ends.
* **Store** – reports repeat, arrive in the wrong order, and may lack the creation
  time that tells two lives of a PID apart; `realloc` may fail in the middle. One
  record per identity, a report with a creation time fits one running record, a stopped process is never revived, each transition enters
  the history once, the counters stay equal to what they count.
* **Collectors and store together** – two sources race, a query made after the
  transition sees another process, a record's fields cannot be decoded, snapshots are
  taken while processes end, a push finds no memory. The table settles on what runs, nothing alive is marked stopped,
  and a parent that is named is the real one.
* **Life cycle** – a dozen calls of the start may fail with something to undo;
  threads, handles, classes, fonts and memory must go in one order. No collector
  outlives what it uses, nothing is held at the end, every wait ends.
* **Network monitor** – the table grows between two calls, polls fail. What is newly
  observed is reported, and once.
* **Views** – draining, search timer, filter, sort, clear and pause interleave; a list
  may refuse a row, the tree find no memory, Windows give no timer. The lists show
  exactly what passes and was not refused, in the chosen order.
* **Process tree** – recorded parents may form cycles. The recursion ends, each
  process has one node under its parent.

* **Dialogs and export** – every dialog runs a message loop that may drain the queue
  and move the array of events; writes are partial or fail. No block is lost or freed
  twice, and a file the user is told was saved reads back as the whole session.

`PROJECT.json` lists these hazards one by one, at the line where each bites.

## Modules

```
ProcessRecords  <- EventStore  <- MCEventStore        ProcessLedger  (abstract store)
      ^     ^                                         EventFifo      (abstract queue)
      |     +--- ProcessTelemetry <- MCProcessTelemetry
      +--------- ProcessTree      <- MCProcessTree
EventQueue            TelemetryLifecycle
NetworkMonitor <- MCNetworkMonitor
Detection <- GuiViews <- MCGuiViews
Export <- GuiDialogs <- MCGuiDialogs
ProcessRecordsProofs <- EventStoreProofs              EventQueueProofs
      ^     ^---------- ProcessTreeProofs             NetworkMonitorProofs
      +---------------- ProcessTelemetryProofs        GuiViewsProofs
                                                      GuiDialogsProofs
```

The concurrency is cut where one part's promise is all that the next one needs.
`EventQueue` shows that the list under its lock is a FIFO, so `ProcessTelemetry`
uses a sequence for it; the table's transitions are one set of operators,
`ProcessRecords`, which `EventStore`, `ProcessTelemetry` and `ProcessTree` share.

**ProcessRecords** – the process table as a value: `ProcessKeysMatch`
(`process_keys_match`), `FindProcess` (`event_store_find_process`: newest record
of the same known identity, else the newest running record that a missing creation
time cannot tell apart, never for PID 0), and `Recorded`, what the start and stop
branches of `event_store_add` make of the table. The three strings of a record
follow one rule, so one name stands for them; creation time 0 means "unknown", as
in the code.

**EventStore** – `event_store.c`. `Add` is the whole of `event_store_add`, one
disjunct per path: coalesced, new record, no room for a new record, stop of a
running record, network, alert; each ends in `Store`, which appends to the history
or finds no memory. `drop_logged` is the GUI's log line about a failed add.
`ProcessLedger` is its promise: each identity is unseen, then running, then
stopped, or stopped at once, and never goes back. `LedgerStatus` is the refinement
mapping.

**EventQueue** – `event_queue.c`, the pushes of two producers, and the parts of the
GUI that drain and shut down. A critical section is one step; `malloc`, the copy,
`PostMessageW`, and `free` are steps of their own, because that is where threads
interleave. Nodes are heap blocks that are reused once freed; `chain` is a history
variable (the linked nodes in order). `EventFifo` is its promise.

**ProcessTelemetry** – the system's processes, the ETW buffer and callback, the
poller's three phases (snapshot; a query per entry; compare and push), the queue,
and the store's table. Process number *l* is the *l*-th created and *l* its
creation time; each report carries the process it is really about, which no
guard reads. `env` holds what does not change in one run of the program: which PIDs
are used, who creates whom, who runs before TraceGlass, which processes deny access,
whether the ETW session could be opened, whether records may be lost and pushes
fail, and which fields of a record TDH may fail to decode. `Callback` is the whole of
`etw_event_callback`: a creation time that cannot be decoded is 0, as is the parent's
PID (`etw_monitor.c:48-82`), and the PID is then the header's, which names the process
whose thread logged the record (`etw_monitor.c:142`; `LoggedBy`). A report names a parent as the code finds it: by a query (`ParentTime`,
`etw_monitor.c:160`) or in the snapshot (`ParentKey`, `process_monitor.c:234`), and
the record keeps the last one reported (`UpdateRecord`).

**TelemetryLifecycle** – `wWinMain` and the log, `gui_run` with its classes, window
and message loop, `WM_CREATE` with fonts and controls, `telemetry.c`, the start and
stop of `etw_monitor.c`, the loops of both threads and what the pollers keep,
`shutdown_gui_state`. One action per call that may fail, in the code's order, and one per undo. `os` is what Windows
holds; the other variables are the program's belief. Another program may stop the
session (`SessionStoppedOutside`), and the window may be closed at any time.

**NetworkMonitor** – `network_monitor_poll` as size query, capture, one step per
row, and the swap of the sorted keys, with `compare_connection_keys`, `bsearch` and
`qsort` as operators, while connections open and close between any two steps.

**Detection** – the three rules of `detection.c` as a function of an event.

**GuiViews** – `drain_events` event by event, the three event lists and two Overview
lists, `rebuild_filtered_views`, `rebuild_event_lists`, `sort_view`,
`toggle_pause`, `clear_current_view`, `handle_column_click`, the search timer.
Three failures that the code passes over are steps of it: `refused` holds the rows that
`ListView_InsertItem` refused since the list was last filled (`gui.c:727`, `748`,
`763`, `994`, `1007`), `tree_failed` that `rebuild_process_tree` emptied the tree and
then found no memory (`gui.c:1069-1077`), and `filter_timer` whether Windows gave the
timer that `filter_timer_active` says is there (`gui.c:1799-1801`).
Rows are indexes into the history (the code's sequence numbers). A sorted list is
given by rank: its k-th row is the one that k - 1 others come before (`SortedBy`,
`InOrder`), which is what `ListView_SortItems` leaves and can be reasoned about
without recursion.

**ProcessTree** – `rebuild_process_tree` and the recursion of
`insert_process_node`, its call stack being a sequence, over the tables that any
order of reports can make.

**Export** – `export.c` without its calls of Windows: how the file is named
(`NamedPath`), and what is written for the events in each format, as the sequence of
the pieces that reach `write_all`, over texts made of the characters that a format
must quote. `ReadJson` and `ReadCsv` are the reference: what a reader of the format
finds in the file. `Read` runs them over it as a recursive function; in each state at
most one transition fits a character, which the proofs rely on.

**GuiDialogs** – the message loops inside the message loop (context menu, About and
error boxes, Save As), the drains that run in them and may move the array of events,
the details windows and their state, `copy_text_to_clipboard` with every way out,
and the export: the dialog, the file that is emptied, pieces written in part or not
at all, the close. `blocks` is what the heap holds, with its owner derived from
everything else.

Operators headed "Faulty variant" are plausible bugs of the definition after
them. No specification uses them; `PROJECT.json` pairs each with the property
that fails when it replaces that definition, so that no property is vacuous.

## Runs

Each row: what TLC does with it, and the bounds.

| Configuration, module | States | Shows |
|---|---|---|
| `EventStore.cfg`, MCEventStore | 1,471,000 | Any order and repetition of the reports about two lives of one PID, with and without creation times, about the idle process, and of network and alert events, with either allocation failing: table, counters, history and storage are consistent; the store implements the ledger. |
| `EventQueue.cfg`, EventQueue | 63,000 | Two producers, drain and shutdown in every interleaving; malloc may fail. Integrity, FIFO refinement, exactly one notification when one is needed, delivery, shutdown ends. |
| `EventQueueLostWakeup.cfg` | violated | `PushedIsDelivered` when `PostMessageW` may fail, finding 1. |
| `ProcessTelemetry.cfg`, MCProcessTelemetry | 851,000 | Twelve environments of one to three processes: unless a report or an identity was lost, or a PID is used again under ETW, the table is right whenever all reports have been handled and stays right in the end; however much is lost, nothing alive is marked as stopped (but see finding 2), and only real parents are named. |
| `ProcessTelemetryReuse.cfg` | violated | `NoneStoppedAlive` with a reused PID under ETW, finding 2. |
| `TelemetryLifecycle.cfg` | 5,200 | Every call may fail, the window may be closed at any time and the message loop may break: collectors always have what they use, nothing is held at exit, and closing the window ends. |
| `TelemetryLifecycleMode.cfg` | violated | `ActiveModeShown`, finding 3. |
| `NetworkMonitor.cfg`, MCNetworkMonitor | 197,000 | Connections open and close during failing polls: each is reported when newly observed, and not again. |
| `GuiViews.cfg`, MCGuiViews | 377,000 | Any interleaving of arrivals with three inputs, with refused rows, a tree without memory and a timer that Windows does not give: lists exact but for those, sorted as chosen, alerts follow their cause, the search is applied. |
| `ProcessTree.cfg`, MCProcessTree | 59,000 | Every table of three reports, cycles included: the tree is faithful, the build ends. |
| `GuiDialogs.cfg`, MCGuiDialogs | 731,000 | Events arrive in every loop while the user copies, opens details, exports and closes: every block has one owner, what is said to be saved is the whole session in the format its name says, the export ends. |
| `GuiDialogsMenu.cfg` | violated | `CopiesChosenRow`: the context menu's pointer after its loop, finding 4. |

Why the bounds are enough:

* *Store.* `FindProcess` distinguishes equal, different and unknown creation times
  of one PID; two lives and an unknown one give all three, and four events let a
  record learn its time after a second record exists and then be stopped.
  Different PIDs never interact. First capacities of 1 instead of 256 and 128
  make both buffers grow (1, 2, 4) within four events.
* *Queue.* Lists of up to three nodes have a head, a middle and a tail; three heap
  blocks for four pushes force reuse of a freed block. Two producers is what the
  program has. The proofs remove the bounds on all three.
* *ProcessTelemetry.* A race needs one process that ends while a report about it is
  under way; identity needs one PID used twice. Three processes give both plus one
  that stays, or a parent whose PID its child's successor takes. Two processes that
  may end while a snapshot is queried, with and without ETW; one process alone where
  records and pushes are lost. Fields that cannot be decoded come in two pairs, PID with
  creation time (and a process that denies access, so that no query supplies the time)
  and creation time with parent. In the last environment ETW is active while a parent
  ends and its PID is used again, so that a query of the parent finds a younger process,
  which `etw_monitor.c:168` must refuse; the child of that parent runs on
  (`lasting`), which only limits the number of states.
* *NetworkMonitor.* Three connections that differ in the first or in the last field
  only; three openings let one be closed and reopened while another comes and goes.
* *GuiViews.* Two popped events (with the alerts they cause, up to four events in
  the history), three inputs: enough for pause, a change of search or filter, and
  resume, or for sort, clear and a later arrival. Overview limits of one are
  exceeded. Two rows may be refused (`MayRefuse`): the first of the timeline, and
  one of the Overview that would push another off it; the proofs let every list refuse
  any row.
* *ProcessTree.* Three records give self-parents, cycles of two and three, a chain
  of three, and a parent found by PID only.
* *GuiDialogs.* Two events: the array grows from nothing to one and to two (256 and
  512 in the code), so a pointer can outlive its array, and JSON has a last object and
  one before it. Their two texts hold each character that a format treats specially,
  pairs of them, and nothing. A file holds 5 characters or 100, so that a write fails
  for want of room early, or by itself anywhere. One details window open at a time
  beside the clipboard, one export.
* *TelemetryLifecycle* has no bound.

`CHECK_DEADLOCK FALSE` stands where the program ends (`EventQueue`,
`TelemetryLifecycle`, `GuiDialogs`) or a bound ends the behaviour (`EventStore`, `GuiViews`,
`ProcessTree`). In `NetworkMonitor` and `ProcessTelemetry` the pollers go on for
ever, and deadlock is checked.

### Fairness

* *EventQueue*: a producer that has allocated a node goes on (it holds no lock
  while it waits for one, and the critical sections are short and finite), one told
  to stop ends, and the GUI thread keeps running. No fairness makes a producer push
  or the user close the window.
* *ProcessTelemetry*: consumer, poller and GUI keep running; no fairness makes the
  system create or end a process.
* *TelemetryLifecycle*: threads run, the GUI goes on while it opens or closes,
  `ProcessTrace` returns once its trace is closed or its session gone, as Windows
  documents. No fairness for closing the window or for a new callback.
* *NetworkMonitor*: the worker polls, and a poll that is tried again and again
  does not fail every time (`SF_vars(Capture)`): the table cannot grow between
  every pair of adjacent calls.
* *GuiViews*: a drain ends, and the message of a timer that exists comes
  (`SF_vars(FilterTimer)`). Windows delivers `WM_TIMER` only when no other message waits, so this says that
  the collectors do not push faster than the GUI drains for good.
* *ProcessTree*: the build runs in one call, so it goes on.
* *GuiDialogs*: so does the writing of a file. Nobody has to answer a dialog.

### Findings

1. `push_event` ignores the result of `PostMessageW` (`event_queue.c:59`) and leaves
   `notification_pending` set. No later push posts again, contrary to the comment
   "The next producer owns posting a fresh notification." (`event_queue.c:78`): the
   GUI shows no further event.
2. The ETW callback queries the PID when it runs (`etw_monitor.c:148`) and prefers
   the answer to the creation time in the record. A STOP handled after the PID was
   given away stops the new process's record (`architecture.md:66` has PID and
   creation time identify a process for exactly this reason).
3. When the ETW thread ends early (`etw_monitor.c:204`), `enabled` stays set and the
   program goes on showing ETW, although only the poller collects
   (`architecture.md:81`: "always display the active mode").
4. `show_context_menu` keeps a pointer into the array of events while the menu's
   message loop runs (`gui.c:1585`, `1612`). A drain in that loop may reallocate the
   array; what is then copied (`gui.c:1618`) comes from freed memory and not from the
   row ("right-click to copy available fields", `README.md:129`). The details window
   copies its event first, and the export takes the store after its dialog, so
   neither is exposed.

Observations that have no run of their own:

* `event_store_add` changes the table and the counters before `reserve_events` can
  fail (`event_store.c:197`). The event that `gui.c:1223` logs as "dropped" has been
  counted, and since its process is in the table, a later duplicate is coalesced and
  the history never gets it. This is the exception in `CountersMatchHistory`.
* The poller can stop only processes that its own previous snapshot had
  (`process_monitor.c:310`). A process that ETW reported as started, and that ended
  before the next snapshot with its STOP lost, stays active, although the Overview
  says that reconciliation recovers missed events (`gui.c:1128`). The same happens
  when a push finds no memory. Hence `AllIdentified`, which has `~env.lossy`, in
  `Reconciled` and `EventuallyAgrees`.
* A START whose creation time cannot be decoded (`etw_monitor.c:136`) and whose process
  has ended when the callback queries it has a bare PID. If the poller has reported the
  start and the stop before, `event_store_find_process` finds no running record for it
  (`event_store.c:98-117`), and a second, running one is added. A STOP
  that has the time finds the stopped record, so that nothing stops the second.
  The table then shows a process that is gone, though no report was lost. The same holds
  for a PID that cannot be decoded. `AllIdentified` excludes these environments from
  `Reconciled` and `EventuallyAgrees`, and nothing else does: a process that denies its
  time to a query, with the time decoded, is in. `StoppedHasEnded` holds there too, and
  `ParentsAreReal` when the PID can be decoded.
* With ETW, a reused PID and a child that hides its time from the poller, the poller's
  entry has no time to compare its parent's with, and names the younger process as the
  parent. No environment of the run combines the three.
* The poller's report of a start that ETW has reported before is coalesced, and its
  parent replaces the one recorded (`event_store.c:126`). If the parent has ended in
  between, a full identity gives way to a bare PID. `ParentsAreReal` therefore speaks
  of parents that still run.
* An entry without a creation time accepts any process with the parent's PID as its
  parent, a younger one included (`process_monitor.c:235`). `ParentsAreReal` compares
  parents of processes whose time is known.
* The Save As dialog asks before it overwrites the path that was picked, but the
  extension of the chosen format is put on it afterwards (`export.c:458`): with
  "notes.json" picked and CSV chosen, an existing "notes.csv" is overwritten unasked.
  And the file is emptied when it is opened, so an export that fails has destroyed
  what was there; the user is told that it failed.
* Rules look at accepted reports only. When ETW's report of a start, which may lack
  the path, comes first, the poller's, which has it, is coalesced and judged by none.
* With Win32 polling alone, an entry whose query failed can bridge a reuse:
  snapshots with keys (5,1), (5,unknown), (5,2) match pairwise, so neither the stop
  of the first process nor the start of the second is reported, and the table shows
  the first. The passing run's environments leave out a reused PID together with
  processes that end between a snapshot and its queries; `Reconciled` does not hold
  there.
* `stop_session` needs memory for its properties. When `calloc` fails, at shutdown
  or after a failed `CreateThread`, the session outlives the program. This is the
  exception in `NothingHeldAtExit`.
* The shutdown does not follow the order that `architecture.md:87-94` gives. The document
  signals the worker and stops the ETW session, then waits for both threads, destroys
  the queue, and releases the snapshots after it. `shutdown_telemetry` joins the worker
  before it stops the session (`telemetry.c:81-89`) and releases the snapshots, Winsock
  and the stop event (`telemetry.c:90-98`) before `shutdown_gui_state` destroys the
  queue (`gui.c:1683-1687`). The model has the code's order; `CollectorsHaveMeans` states
  what any order must respect, that nothing goes before the thread that uses it.
* `rebuild_process_tree` empties the tree before its two `calloc` calls
  (`gui.c:1064-1077`), and its callers take no notice of a failure: the tree is empty until
  the next accepted start or stop, also after Resume, which has cleared `render_dirty`. A
  row that a list refuses is missing until that list is rebuilt. `ShowsExactly` names
  these two exceptions and excuses nothing else.
* `SetTimer`'s result is ignored (`gui.c:1800`). Without a timer the changed text is not
  applied until some other input rebuilds the lists, while rows that arrive meanwhile are
  already filtered by it. `SearchApplied` excuses the text for which Windows gave no timer.
* Where a report carries no creation time and two processes with its PID are shown as
  running, `event_store_find_process` takes the newer one. `RecordsDistinct` says that this
  happens to no other report: one that carries a time fits one running record at most.

## Proofs

All theorems are about the specification with arbitrary constants under the named
assumptions in the modules: for the store any set of well-typed reports in which
PID 0 has no creation time (`ReportsAssumption`), any positive first capacities,
failing allocations or not; for the queue any set of producers and of nodes, any
number of pushes, `Null` not a node; for the collectors any set of environments in
which a process is created by an older one, no two processes run with one PID before
the start, and PID 0 is the idle process's (`EnvironmentsAssumption`), with `None` not a
report (`NoEventAssumption`); for the network monitor any finite set of connections;
for the views any arrivals whose names have a place in the
alphabet (`NameOrderAssumption`, `ArrivalsAssumption`; two names may share one), any
texts and limits;
for the dialogs any events that export at least one text (`EventsAssumption`; the code
exports fourteen fields), any paths that have a name and an extension
(`PathsAssumption`), any files, rooms and bounds that are numbers
(`RoomsAssumption`, `BoundsAssumption`), and `None` unlike any block, menu or clipboard
content (`NoneAssumption`); for the tree any start and stop reports about a PID other
than 0 (`TreeReportsAssumption`), so any cycles and reused PIDs.

**ProcessRecordsProofs** – lemmas about the operators. `SoundTable(t)` is the
property that makes matching unambiguous: known identities are unique, running
records are pairwise distinguishable (PID 0 aside), and records of PID 0 have no
creation time. A report that was matched by PID only can give a record a time, so
uniqueness alone is not inductive: it takes the distinctness of running records to
know that no other record has, or could be confused with, the identity learned.
The main lemma: `Recorded` keeps `SoundTable` and changes the number of running
records by what `event_store_add` counts. `LeastNumber`, that a set of numbers has a
least member, is what every module uses where a proof on paper would use induction.

**EventStoreProofs** – `TableInv` = `TypeOK`, `SoundTable(processes)`,
`ActiveCountExact`, `BuffersFit` is inductive, one step per path of `Add`. It gives
`StoreStorageCorrect` (types and storage), `StoreCountsExactly` (the guarded decrement
never hits its guard), `StoreRecordsDistinct` (from `StoreRecordsIdentityOnce` and
`StoreReportsFindTheirRecord`, which follows because no two running records match each
other), and the action property `StoreOnlyLearns`. `StoreImplementsLedger` shows that each step
moves at most one identity of the ledger one step forward, by the same invariant
primed. `StoreTellsOneLife` needs more, `LifeInv`: every start or stop of a known
identity in the history has a record in the table, stopped if the event is a stop
(`HistoryInTable`), which is why a second one is coalesced. `StoreCountersMatch` rests on
`HistoryInv`: the counters are cardinalities over the history, which an append moves by
one (`CountAppended`), and every running record is `Told`, its start being in the history
with its creation time or, when the record has learned it since, with none. As it
stands, `CountersMatchHistory` is not inductive: a start that matches a record's PID may
stop matching it when the record learns another time.

**EventQueueProofs** – `ListInv` = `TypeOK`, `ListIntact`, `NodesOwnedOnce`,
`NothingOutlivesTheQueue`, `Shape` (which pointers are null in which state of the
threads) is inductive, one lemma per action that touches the list. It gives
`QueueTypeCorrect`, `QueueListIntact`, `QueueNodesOwnedOnce`, `QueueOutlived`. On
top of it, `NotifyInv` (at most one notification, owned while the flag is set, and
the window attached until it is detached) gives `QueueOneNotification` and
`QueueWakeupOwned`, together `QueueNotificationsExact`. `QueueImplementsFifo` maps each step to a step of `EventFifo` or
a stutter: linking is `Put`, unlinking is `Take`, destroying is `Discard`.

**ProcessTelemetryProofs** – `Base` says of everything that the threads hand to each
other (the trace's buffer, the callback's hand, both snapshots, the outbox, the queue,
the table) what it stands for: `Real` keys are those of processes there were (`Claimed` for a
report's own key: it has the PID that the callback took, which names another process
when the PID was not decoded),
a stop is about a process that has ended, an entry of a snapshot has the identity of
its process as long as that one runs, and the table is a `SoundTable`. `Sighted` adds
what a snapshot under way has still to find. Both are inductive in every environment,
lossy or not, with any reuse of PIDs and any fields undecodable (`TelemetryInvariant`), and give
`TelemetryTypeCorrect`. With unique PIDs, and PIDs and parents that can be decoded, `ParentsFit` (a record's parent is the parent
of its process, as well as that one can be known) is inductive with them and gives
`TelemetryParentsAreReal`: each collector may find a parent at a different time, and
the last report wins, but none can name another.

`TelemetryStopsRight` needs nothing decoded: when no PID is used twice, a stop is about a process that has ended and its key, whatever it lacks, fits no other. When the
poller is the only source, PIDs may be reused, and the argument is about order
(`OneSource`): an identity that is on its way and still runs is one that the last
snapshot had (`IdentitiesSeen`), and a stop without a creation time comes behind
every report and record of its PID that is not past (`BlindStopsLate`). This
hypothesis, `OneSourceOrUnique`, excludes exactly what finding 2 is about.
`TelemetryReconciled`, under `AllIdentified`, uses `ReportsInv`, which follows each change from its source to the
table: ETW tells the end of what it has told the start of (`EtwCloses`); what is shown
as running and has ended has its stop ahead, in the queue, the outbox, the trace or in
the comparison of the next two snapshots (`StopsFollow`), without a time if the record has
none (`BlindStopsFollow`); what the last snapshot had is shown or will be
(`StartsFollow`); that snapshot is the system as it is unless something changed
(`Fresh`); and the idle process, which no search ever finds, is reported once (`IdleOnce`).
When all pipes are empty, nothing is ahead, so the table agrees.
The theorem covers unique PIDs only: with a reuse, two processes share the reports that
a record without a time can match, and that these come in an order that does no harm is
shown by TLC for the three environments of `ProcessTelemetry.cfg` that reuse a PID under
polling alone, as is `ParentsAreReal` for them and for the one that reuses a PID under
ETW.

**NetworkMonitorProofs** – three lemmas replace trust in the C library's operators:
`LessIsOrder` (`compare_connection_keys` is a strict total order, field by field),
`SearchCorrect` (`bsearch`, a recursive function over the part still searched, finds
a key of an ordered array if and only if it is there) and `SortedCorrect` (what `qsort`
leaves is ordered and has the same members). `MonitorInv` = `TypeOK`, the previous keys
ordered, the rows still to visit apart from those visited, and: a connection that is
not new is among the previous keys or the visited ones. It gives `NetworkTypeCorrect` and
the action property `ReportsAreNew`.

**ProcessTreeProofs** – `TreeInv` = `TypeOK` and `Sized` (how long the tree is
relative to the table, and an empty stack between builds), one lemma per action on
top of `PushFrame` and `PopFrame`, which say that a call for a record that is not
being inserted keeps the stack free of repetitions. It gives `TreeTypeCorrect`, and by
the pigeonhole principle `TreeDepthBounded`: the recursion, which the code bounds
nowhere, is never deeper than the table is long, whatever parents the records name.
`TreeShowsParents` needs `FaithInv` as well, whose `Shape` says what holds between two
calls: records are visited in order, each call on the stack is for the parent of the one
below, every inserted record is under its parent or was cut, every closed set of inserted
records has a cut (`CyclesAreCut`), and the set of records that a cut closes, its `Ring`,
has no other (`CutOnce`). Following the parents for ever is expressed by sets that
contain the parents of their members, so no induction along a path is needed.

**GuiViewsProofs** – `Ranked` is the lemma under all lists: in a strict order of a
finite set, the ranks are a bijection to 1..n (an injection between finite sets of the
same size), so a list made by rank has every element once, in order. With
`BeforeIsOrder` (`compare_event_items` is a strict total order for either direction) it
gives `SortedByCorrect` and `SortViewCorrect`; `EvaluateCorrect` says what the rules
give. `ShowsExactly` speaks of idle, unpaused windows only and is not inductive.
`ViewsInv` says what each list owes in between: rows follow every accepted event but those that the list
refused, unless the view is paused (`RowsShown`); the Overview, the tree and the count follow at the end
of a drain (`RecentShown`, `TreeShown`, `MetricShown`); whatever was missed is remembered
in `render_dirty` or still in the drain's locals (`Behind`, `Quiet`); the order is lost
only while an unpaused drain appends (`RowsSorted`). It is inductive, one lemma per
action, and gives `ViewsTypeCorrect`, `ViewsShowExactly`, `ViewsSortedAsChosen` and
`ViewsAlertsFollowCause`, for any number of events, inputs and failures.

**GuiDialogsProofs** – `HeapInv` = the heap is finite, `KindsApart`, `Indexed`,
`BlocksOwned`. Ownership alone is not inductive: that an action which frees its block
leaves the others theirs takes that blocks of different purposes are different and
that a closed program has nothing open (`KindsApart`); that `malloc` returns a block
nobody has is the pigeonhole principle over a finite heap (`FreshIsFree`).
`DialogsOwnBlocks` follows: whatever fails, and wherever the main window is closed,
each block has exactly one owner. `DialogsTypeCorrect` comes from `DialogsTyped`, which
adds that every file has its entry and its room is a number.

`DialogsExportTruthful` has two parts. The first is about the serializers alone:
`ExportRoundTrip`, that a reader of a whole document finds in it exactly the events it
was made from. Its induction is written out with sets, from the least number of a set
that is not empty (`Reached`, `AllSequences`), first for what `FlattenSeq` and `Read` compute
(`FlattenConcat`; `ReadConcat`, a file is read in one go or in two), then over the
characters of a text (`CharactersRead`: what `write_json_string` and `write_csv_field`
write between the quotes gives back the text), the texts of an event (`MembersRead`,
`CellsRead`) and the events (`ObjectsRead`, `RowsRead`, where the reader has to meet no
comma after the last object, and a break after the last cell of every row).
The second part follows the file. `ExportTruthful` says nothing of an export under way;
`Underway` does: what the file holds, followed by the pieces that are left, is the whole
document of the store's events, which cannot change meanwhile because no message is
dispatched. A `WriteFile` that takes a part of a piece moves the border between the two
(`TakeKeepsDocument`), so that a file with no pieces left is the document. `ExportInv`
adds that all other files are what the user was told of them.

Only model-checked:

* all liveness, which is outside the prover's reach, as is `ENABLED`;
* `Reconciled` where a PID is reused, and `ParentsAreReal` where a PID is reused or the
  parent of an ETW record cannot be decoded, see above;
* `TelemetryLifecycle`: it has no constants and no bound, so that TLC's exploration of
  it is exhaustive already.

## Not modelled

* How ETW properties are decoded (that it may fail for PID, time and parent is modelled),
  names, paths, addresses, time formats, the encoding as UTF-8; the text of the log; the
  string and time utilities: conversions that keep no state. Where the encoding finds no
  memory the failure is modelled (`WriteFails`).
* A node that the tree control refuses: `TreeView_InsertItem`'s result is stored unchecked
  (`gui.c:1053`), and the children of such a node become roots.
* `CreateWindowExW` failing for a details window after its `WM_CREATE`: `WM_NCDESTROY`
  frees the state (`gui.c:1499`), and `open_event_details` frees it again (`gui.c:1529`).
  `details_window_proc` never refuses `WM_CREATE`, so only Windows itself can cause it.
* Placing, painting and rescaling of controls, the selection and focus of rows, the
  status texts: calls into Windows with no state of the program's own.
* A failing Toolhelp snapshot: it changes nothing and is a longer sleep.
* The `SIZE_MAX` tests of `reserve_*` and of the exporters: nothing that fits in
  memory reaches them.
* The export smoke test, which writes one file of each format.

## Plan

The order followed the weight of the behaviour: (1) the table and store, with the
ledger; (2) the queue with its users, with the FIFO; (3) both collectors over them;
(4) the proofs of 1 and 2; (5) start and shutdown, now from the first line of
`wWinMain` to its last; (6) network monitor; (7) views and detection; (8) process
tree; (9) parents and lost pushes; (10) dialogs, clipboard and export. These are
done. Left:

* *Prove more.* `Reconciled` for a PID that is reused under polling alone, where
  `OneSource` already orders the stops: what is missing is the same for the starts.
  And `TelemetryLifecycle`'s three safety properties, for a reader who wants the
  argument and not only the exhaustive search.
* *Model more.* Only what "Not modelled" lists is left, none of it with state of the
  program's own that a property could relate to another.
