---------------------------- MODULE NetworkMonitor ----------------------------
(***************************************************************************)
(* network_monitor.c: once a second the polling thread reads Windows' table *)
(* of TCP connections, reports the established ones that its previous table *)
(* did not have, and keeps the sorted keys of this table for the next poll. *)
(*                                                                         *)
(* The table changes while the program looks at it.  Winsock's start and    *)
(* end are in TelemetryLifecycle; the text of the events is left out.       *)
(***************************************************************************)
EXTENDS Naturals, FiniteSets, SequencesExt

CONSTANTS
  Connections,  \* the keys that occur: <<pid, local address, port, remote address, port>>
  MaxOpens      \* bound: connections opened in a behaviour

Fields == 1 .. 5

ASSUME ConnectionsAssumption == Connections \subseteq [Fields -> Nat] /\ IsFiniteSet(Connections)
ASSUME MaxOpensAssumption == MaxOpens \in Nat

VARIABLES
  table,     \* Windows' table: the TCP state of each connection
  opens,     \* how many connections were opened
  pc,        \* where network_monitor_poll is
  size,      \* table_size, in rows
  rows,      \* rows of the captured table not yet visited
  current,   \* keys of this poll
  previous,  \* keys of the last complete poll, sorted
  events,    \* the connections reported, in order
  new        \* connections that no complete poll has seen since they were absent,
             \* or ever, and that were not reported either (history)

vars == <<table, opens, pc, size, rows, current, previous, events, new>>
monitor == <<pc, size, rows, current, previous, events, new>>

TcpStates == {"closed", "established", "closing"}

Init ==
  /\ table = [c \in Connections |-> "closed"]
  /\ opens = 0
  /\ pc = "idle" /\ size = 0 /\ rows = {}
  /\ current = <<>> /\ previous = <<>> /\ events = <<>>
  /\ new = Connections

-----------------------------------------------------------------------------
(* Windows *)

Change(c, from, to) ==
  /\ table[c] = from
  /\ table' = [table EXCEPT ![c] = to]
  /\ UNCHANGED monitor

Open(c) == opens < MaxOpens /\ opens' = opens + 1 /\ Change(c, "closed", "established")
Close(c) == Change(c, "established", "closing") /\ UNCHANGED opens
Forget(c) == Change(c, "closing", "closed") /\ UNCHANGED opens

Rows == {c \in Connections : table[c] # "closed"}

-----------------------------------------------------------------------------
(* compare_connection_keys orders by the first field that differs. *)

Before(left, right, fields) ==
  \E i \in fields : left[i] < right[i] /\ \A j \in fields : j < i => left[j] = right[j]

\* Faulty variant: the last field is forgotten.
CompareAllButRemotePort(left, right) ==
  IF Before(left, right, 1 .. 4) THEN "less"
  ELSE IF Before(right, left, 1 .. 4) THEN "greater" ELSE "equal"

CompareConnectionKeys(left, right) ==
  IF Before(left, right, Fields) THEN "less"
  ELSE IF Before(right, left, Fields) THEN "greater" ELSE "equal"

\* bsearch in a sorted array: what is left of it is from low to high.
ConnectionExists(entries, key) ==
  LET found[part \in (1 .. Len(entries) + 1) \X (0 .. Len(entries))] ==
        LET low == part[1]  high == part[2]
            middle == (low + high) \div 2
            order == CompareConnectionKeys(key, entries[middle])
        IN  low <= high /\ (\/ order = "equal"
                            \/ order = "less" /\ found[<<low, middle - 1>>]
                            \/ order = "greater" /\ found[<<middle + 1, high>>])
  IN  found[<<1, Len(entries)>>]

\* qsort of the keys of a poll, of which each occurs once.
Sorted(entries) ==
  CHOOSE order \in [DOMAIN entries -> ToSet(entries)] :
    /\ Range(order) = ToSet(entries)
    /\ \A i, j \in DOMAIN order :
         i < j => CompareConnectionKeys(order[j], order[i]) # "less"

-----------------------------------------------------------------------------
(* network_monitor_poll *)

\* How large a buffer the table needs now.  When the query fails nothing happens.
QuerySize ==
  /\ pc = "idle"
  /\ pc' = "table" /\ size' = Cardinality(Rows)
  /\ UNCHANGED <<table, opens, rows, current, previous, events, new>>

\* Faulty variant: the poll reads the table into a buffer that may be too small.
CaptureUnchecked ==
  /\ pc = "table"
  /\ pc' = "scan" /\ rows' = {[key |-> c, state |-> table[c]] : c \in Rows}
  /\ current' = current
  /\ UNCHANGED <<table, opens, size, previous, events, new>>

\* The table still fits into the buffer.
Capture ==
  /\ pc = "table"
  /\ Cardinality(Rows) <= size
  /\ pc' = "scan" /\ rows' = {[key |-> c, state |-> table[c]] : c \in Rows} /\ current' = <<>>
  /\ UNCHANGED <<table, opens, size, previous, events, new>>

\* Faulty variant: a poll that fails forgets the previous keys.
CaptureFailsForgets ==
  /\ pc = "table"
  /\ pc' = "idle" /\ previous' = <<>>
  /\ UNCHANGED <<table, opens, size, rows, current, events, new>>

\* It has grown, or there is no memory for it or for its keys: the poll gives up
\* before it reports anything and keeps the previous keys.
CaptureFails ==
  /\ pc = "table"
  /\ pc' = "idle"
  /\ UNCHANGED <<table, opens, size, rows, current, previous, events, new>>

\* One row, in the order of the table.  push_event may fail, which nobody notices.
VisitRow ==
  /\ pc = "scan"
  /\ \E row \in rows :
       /\ rows' = rows \ {row}
       /\ IF row.state # "established" THEN UNCHANGED <<current, events, new>>
          ELSE /\ current' = Append(current, row.key)
               /\ IF ConnectionExists(previous, row.key) THEN UNCHANGED <<events, new>>
                  ELSE /\ events' \in {events, Append(events, row.key)}
                       /\ new' = new \ {row.key}
  /\ UNCHANGED <<table, opens, pc, size, previous>>

Finish ==
  /\ pc = "scan" /\ rows = {}
  /\ pc' = "idle"
  /\ previous' = Sorted(current)
  /\ new' = new \union (Connections \ ToSet(current))
  /\ UNCHANGED <<table, opens, size, rows, current, events>>

Poll == QuerySize \/ Capture \/ CaptureFails \/ VisitRow \/ Finish
Windows == \E c \in Connections : Open(c) \/ Close(c) \/ Forget(c)
Next == Poll \/ Windows

(* The worker polls again and again, and not every poll fails. *)
Fairness == WF_vars(Poll) /\ SF_vars(Capture)

Spec == Init /\ [][Next]_vars /\ Fairness

-----------------------------------------------------------------------------
(* Properties *)

\* The arrays hold keys, each at most once; the captured table is no larger than the
\* buffer that was sized for it by the call before, and each of its rows is a key of
\* current or still to visit (current is allocated from the captured table's own
\* count, network_monitor.c:158-159).
TypeOK ==
  /\ table \in [Connections -> TcpStates] /\ opens \in 0 .. MaxOpens
  /\ pc \in {"idle", "table", "scan"} /\ size \in 0 .. Cardinality(Connections)
  /\ rows \subseteq [key : Connections, state : TcpStates \ {"closed"}]
  /\ \A keys \in {current, previous} : keys \in Seq(Connections) /\ IsInjective(keys)
  /\ pc = "scan" => Len(current) + Cardinality(rows) <= size
  /\ events \in Seq(Connections)
  /\ new \subseteq Connections

\* "Newly observed" (docs/architecture.md:35): a connection is reported a second
\* time only if a complete poll in between did not see it established; a poll that
\* fails half way neither repeats reports nor loses what was known.
NewlyObserved == [][events' # events => Last(events') \in new]_vars

\* An established connection that the monitor does not know is reported, or its
\* report is lost by push_event, unless it closes first: neither a table that
\* grows under the query nor another connection that sorts next to it hides it.
OpenIsReported ==
  \A c \in Connections :
    (table[c] = "established" /\ c \in new) ~> (table[c] # "established" \/ c \notin new)
=============================================================================
