----------------------------- MODULE EventStore -----------------------------
(***************************************************************************)
(* event_store.c: the session's history, the process table and the three   *)
(* counters the Overview shows.  Only the GUI thread calls it, one report  *)
(* after the other, in whatever order the queue delivers them; the reports *)
(* of ETW and of the snapshot poller may repeat, contradict or half know   *)
(* each other.                                                             *)
(*                                                                         *)
(* A buffer grows when it is full, from a first size and then by doubling; *)
(* realloc may fail.  The required size is always one more than the count, *)
(* so the loop that doubles again never runs; the SIZE_MAX tests are out   *)
(* of reach of any history that fits in memory and are left out.  An event *)
(* at index i of the history has sequence number i.                        *)
(***************************************************************************)
EXTENDS ProcessRecords

CONSTANTS Reports,         \* the events the queue may deliver
          FirstEvents,     \* 256 in the code
          FirstProcesses,  \* 128 in the code
          AllocMayFail,    \* whether realloc may return NULL
          MaxEvents        \* bound of the model on each counter

ASSUME ReportsAssumption ==
  \A e \in Reports : /\ e.type \in EventTypes
                     /\ e.process \in ProcessKey
                     /\ e.parent \in ProcessKey
                     /\ e.process.pid = 0 => e.process.creation_time = 0

ASSUME SizesAssumption == /\ FirstEvents \in Nat \ {0}
                          /\ FirstProcesses \in Nat \ {0}
                          /\ MaxEvents \in Nat

ASSUME AllocAssumption == AllocMayFail \in BOOLEAN

VARIABLES events, event_capacity, processes, process_capacity,
          active_process_count, network_count, alert_count,
          store_ready,     \* the GUI's flag: initialized and not destroyed
          drop_logged      \* "Event store allocation failed" is in the log

storage == <<events, event_capacity>>
table   == <<processes, process_capacity, active_process_count>>
tallies == <<network_count, alert_count>>
vars    == <<storage, table, tallies, store_ready, drop_logged>>

Names == {e.name : e \in Reports}

TypeOK ==
  /\ events \in Seq(Reports)
  /\ event_capacity \in Nat
  /\ processes \in Seq(Record(Names))
  /\ process_capacity \in Nat
  /\ active_process_count \in Nat
  /\ network_count \in Nat
  /\ alert_count \in Nat
  /\ store_ready \in BOOLEAN
  /\ drop_logged \in BOOLEAN

Zeroed ==
  /\ events = <<>> /\ event_capacity = 0
  /\ processes = <<>> /\ process_capacity = 0
  /\ active_process_count = 0 /\ network_count = 0 /\ alert_count = 0

Init == Zeroed /\ store_ready = TRUE /\ drop_logged = FALSE

-----------------------------------------------------------------------------
\* Faulty variant of Reserved: the last slot is taken to be free.
ReservedOffByOne(count, capacity, first) ==
  IF count <= capacity THEN capacity
  ELSE IF capacity = 0 THEN first ELSE 2 * capacity

\* The capacity after a successful reserve for one more element.
Reserved(count, capacity, first) ==
  IF count < capacity THEN capacity
  ELSE IF capacity = 0 THEN first ELSE 2 * capacity

\* A reserve may fail only when it has to grow the buffer.
ReserveFails(count, capacity) == AllocMayFail /\ count >= capacity

\* The tail of event_store_add: the history takes the event, or has no room
\* for it and drops it.
Store(e) ==
  \/ /\ event_capacity' = Reserved(Len(events), event_capacity, FirstEvents)
     /\ events' = Append(events, e)
     /\ UNCHANGED drop_logged
  \/ /\ ReserveFails(Len(events), event_capacity)
     /\ drop_logged' = TRUE
     /\ UNCHANGED storage

\* Faulty variant of CoalesceReport: a duplicate start is counted again.
CoalesceCounted(e) ==
  /\ Coalesced(processes, e)
  /\ processes' = Recorded(processes, e)
  /\ active_process_count' = active_process_count + (IF e.type = "start" THEN 1 ELSE 0)
  /\ UNCHANGED <<storage, process_capacity, tallies, drop_logged>>

\* A duplicate of a start, or of the stop of a process known to be stopped.
CoalesceReport(e) ==
  /\ Coalesced(processes, e)
  /\ processes' = Recorded(processes, e)
  /\ UNCHANGED <<storage, process_capacity, active_process_count, tallies,
                 drop_logged>>

\* A start or stop of a process the table does not have.
AddRecord(e) ==
  /\ FindProcess(processes, e.process) = 0
  /\ process_capacity' =
       Reserved(Len(processes), process_capacity, FirstProcesses)
  /\ processes' = Recorded(processes, e)
  /\ active_process_count' = active_process_count + (IF e.type = "start" THEN 1 ELSE 0)
  /\ Store(e)
  /\ UNCHANGED tallies

\* The same when the table cannot grow.
DropTransition(e) ==
  /\ FindProcess(processes, e.process) = 0
  /\ ReserveFails(Len(processes), process_capacity)
  /\ drop_logged' = TRUE
  /\ UNCHANGED <<storage, table, tallies>>

\* The stop of a running process.
StopRecord(e) ==
  /\ e.type = "stop"
  /\ FindProcess(processes, e.process) # 0
  /\ ~Coalesced(processes, e)
  /\ processes' = Recorded(processes, e)
  /\ active_process_count' =
       IF active_process_count > 0 THEN active_process_count - 1 ELSE 0
  /\ Store(e)
  /\ UNCHANGED <<process_capacity, tallies>>

CountNetwork(e) ==
  /\ e.type = "network"
  /\ network_count' = network_count + 1
  /\ Store(e)
  /\ UNCHANGED <<table, alert_count>>

CountAlert(e) ==
  /\ e.type = "alert"
  /\ alert_count' = alert_count + 1
  /\ Store(e)
  /\ UNCHANGED <<table, network_count>>

Add(e) ==
  /\ store_ready
  /\ \/ e.type \in {"start", "stop"}
        /\ (CoalesceReport(e) \/ AddRecord(e) \/ DropTransition(e) \/ StopRecord(e))
     \/ CountNetwork(e)
     \/ CountAlert(e)
  /\ UNCHANGED store_ready

\* shutdown_gui_state: the store goes last, after every producer has ended.
Destroy ==
  /\ store_ready
  /\ store_ready' = FALSE
  /\ events' = <<>> /\ event_capacity' = 0
  /\ processes' = <<>> /\ process_capacity' = 0
  /\ active_process_count' = 0 /\ network_count' = 0 /\ alert_count' = 0
  /\ UNCHANGED drop_logged

\* The model stops adding when a counter reaches its bound.
InBounds == /\ Len(events) < MaxEvents
            /\ Len(processes) < MaxEvents
            /\ network_count + alert_count < MaxEvents

Next == \/ InBounds /\ \E e \in Reports : Add(e)
        \/ Destroy

Spec == Init /\ [][Next]_vars

-----------------------------------------------------------------------------
(* Properties. *)

\* The Overview's number of active processes, which event_store_add keeps by
\* increments and a guarded decrement, is the number of running records.
ActiveCountExact ==
  active_process_count = Cardinality(ActiveRecords(processes))

\* PID plus creation time identifies a record: no identity, however many
\* reports of it were merged or learned late, has two records.
OneRecordPerIdentity ==
  \A i, j \in DOMAIN processes :
    /\ processes[i].key = processes[j].key
    /\ processes[i].key.creation_time # 0
    => i = j

\* Which running records a report may be about (find_process takes the newest of
\* them without looking further, event_store.c:98-117): with a creation time at
\* most one; without a time perhaps several, but only such as are themselves told
\* apart by two known times.  (PID 0 is never searched for.)
ReportsFindTheirRecord ==
  \A e \in Reports :
    e.process.pid # 0 =>
      \A i, j \in ActiveMatches(processes, e.process) :
        i # j =>
          /\ e.process.creation_time = 0
          /\ 0 \notin {processes[i].key.creation_time, processes[j].key.creation_time}
          /\ processes[i].key # processes[j].key

\* A report that carries a creation time leaves find_process no choice: one record
\* has its identity at most, and one running record matches it at most.  A report
\* without a time may meet several running processes, and the newest is taken; then
\* each of them has a time of its own.
RecordsDistinct == OneRecordPerIdentity /\ ReportsFindTheirRecord

\* The history tells at most one life of each identity: its start and then
\* its stop, each once, whatever duplicates and orders the queue delivered.
OneLifePerIdentity ==
  \A i, j \in DOMAIN events :
    /\ i < j
    /\ {events[i].type, events[j].type} \subseteq {"start", "stop"}
    /\ events[i].process = events[j].process
    /\ events[i].process.creation_time # 0
    => events[i].type = "start" /\ events[j].type = "stop"

CountOf(type) == Cardinality({i \in DOMAIN events : events[i].type = type})

\* What the Overview counts is what the history holds, and every process it
\* counts as active has a start there; unless a failed allocation was logged.
CountersMatchHistory ==
  ~drop_logged =>
    /\ network_count = CountOf("network")
    /\ alert_count = CountOf("alert")
    /\ active_process_count <= CountOf("start")
    /\ \A i \in ActiveRecords(processes) : \E j \in DOMAIN events :
         events[j].type = "start" /\ ProcessKeysMatch(events[j].process, processes[i].key)

\* The elements of both arrays lie in the allocated storage.
BuffersFit == /\ Len(events) <= event_capacity
              /\ Len(processes) <= process_capacity

\* The types of the store, and what its types in C only promise: the counts
\* never run past the arrays reserve_events and reserve_processes allocated.
StorageOK == TypeOK /\ BuffersFit

\* What a step may do to the records that are already there.
OnlyLearns ==
  \A i \in DOMAIN processes :
    LET old == processes[i]
        new == processes'[i]
    IN  /\ i \in DOMAIN processes'
        /\ new.key.pid = old.key.pid
        /\ old.key.creation_time # 0 => new.key = old.key
        /\ old.name # NoName => new.name # NoName
        /\ ~old.active => ~new.active

\* A report never moves a record to another process, forgets its creation
\* time or its name, or brings a stopped process back.
RecordsOnlyLearn == [][store_ready' => OnlyLearns]_vars

(* The abstract specification: one life cycle per identity. *)

Identities == {k \in {e.process : e \in Reports} : k.creation_time # 0}

StatusOf(k) ==
  IF SameIdentity(processes, k) = {} THEN "unseen"
  ELSE IF \E i \in SameIdentity(processes, k) : processes[i].active THEN "running"
  ELSE "stopped"

LedgerStatus == [k \in Identities |-> StatusOf(k)]

Ledger == INSTANCE ProcessLedger WITH status <- LedgerStatus, open <- store_ready

\* The store implements the ledger of process lives.
ImplementsLedger == Ledger!Spec
=============================================================================
