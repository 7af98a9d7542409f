--------------------------- MODULE ProcessTelemetry ---------------------------
(***************************************************************************)
(* From the operating system's processes to the process table: the ETW     *)
(* consumer (etw_monitor.c), the snapshot poller (process_monitor.c), the  *)
(* queue between them and the GUI, and the table of event_store.c.         *)
(*                                                                         *)
(* Process number l is the l-th the system creates; l is its creation      *)
(* time, so times are unique and increase, and env.pids[l] is its PID,     *)
(* which is used again only after the process before it has gone.  Every   *)
(* report carries, as an auxiliary field, the process it is really about.  *)
(* The queue is the FIFO that EventQueue implements; names and paths play  *)
(* no part here.  A poll whose snapshot fails changes nothing and is a     *)
(* longer sleep.  The poller's initialized flag only guards a loop over an *)
(* empty previous snapshot, and is left out.                               *)
(***************************************************************************)
EXTENDS ProcessRecords, Functions

CONSTANTS Environments,  \* the circumstances the program may run under
          None           \* no event in the callback's hand

\* pids: the PID of each process; parents: the process that creates it, 0 when
\* it has none; baseline: how many run before TraceGlass does; hidden: those
\* whose creation time cannot be queried; lasting: those that outlive TraceGlass,
\* which bounds the instances; etw: whether the session could be
\* opened; lossy: whether the session may lose records, and a push fail for
\* want of memory; undecoded: the fields TDH may be unable to decode in a record
\* of the session; atomic: no process ends between a snapshot and the queries
\* about its entries.
Environment ==
  [pids : Seq(Nat), parents : Seq(Nat), baseline : Nat, hidden : SUBSET Nat,
   lasting : SUBSET Nat,
   etw : BOOLEAN, lossy : BOOLEAN, undecoded : SUBSET {"pid", "time", "parent"},
   atomic : BOOLEAN]

\* What holds of any system: a process is created by an older one, no two run
\* with one PID, and PID 0 is that of the idle process, which is always there.
ASSUME EnvironmentsAssumption ==
  \A en \in Environments :
    /\ en \in Environment
    /\ Len(en.parents) = Len(en.pids) /\ en.baseline <= Len(en.pids)
    /\ en.etw \/ en.undecoded = {}
    /\ \A l \in 1..Len(en.pids) : en.parents[l] < l /\ (en.pids[l] = 0 => l <= en.baseline)
    /\ \A l, m \in 1..en.baseline : en.pids[l] = en.pids[m] => l = m

\* The reports in the queue and on the way to it.
Reported ==
  [type : {"start", "stop"}, process : ProcessKey, parent : ProcessKey, name : {NoName},
   life : Nat]

ASSUME NoEventAssumption == None \notin Reported

VARIABLES
  env,         \* this run's circumstances, see Environment
  started,     \* processes 1..started have been created
  gone,        \* those that have ended
  etw_buffer,  \* the session's records not yet delivered to the callback
  etw_hand,    \* the event the callback is about to push
  phase,       \* where the poller is: "sleep", "query", "emit"
  snapshot,    \* processes of the Toolhelp snapshot not yet queried
  current,     \* entries of the snapshot being taken
  previous,    \* entries of the last complete snapshot
  outbox,      \* the events this poll has still to push
  stale,       \* the system has changed since the last snapshot
  queue,
  processes    \* the store's table

system  == <<started, gone, stale>>
etw     == <<etw_buffer, etw_hand>>
poller  == <<phase, snapshot, current, previous, outbox>>
vars    == <<env, system, etw, poller, queue, processes>>

Lives(en) == 1..Len(en.pids)
Alive == (1..started) \ gone

KeyOf(l, time) == [pid |-> env.pids[l], creation_time |-> time]

\* The parent's PID, which the system keeps with the process even when the
\* parent has gone.
ParentPid(l) == IF env.parents[l] = 0 THEN 0 ELSE env.pids[env.parents[l]]

Event(type, key, parent, l) ==
  [type |-> type, process |-> key, parent |-> parent, name |-> NoName, life |-> l]

Init ==
  /\ env \in Environments
  /\ started = env.baseline /\ gone = {} /\ stale = TRUE
  /\ etw_buffer = <<>> /\ etw_hand = None
  /\ phase = "sleep" /\ snapshot = {} /\ current = {} /\ previous = {}
  /\ outbox = <<>> /\ queue = <<>> /\ processes = <<>>

-----------------------------------------------------------------------------
(* The system *)

\* The session records a transition, unless it loses it.
Trace(type, l) ==
  \/ /\ etw_buffer' = IF env.etw THEN Append(etw_buffer, [type |-> type, life |-> l])
                      ELSE etw_buffer
  \/ env.etw /\ env.lossy /\ UNCHANGED etw_buffer

CreateProcess ==
  /\ started < Len(env.pids)
  /\ \A l \in Alive : env.pids[l] # env.pids[started + 1]
  /\ env.parents[started + 1] \in Alive \cup {0}
  /\ started' = started + 1
  /\ Trace("start", started + 1)
  /\ stale' = TRUE
  /\ UNCHANGED <<env, gone, etw_hand, poller, queue, processes>>

\* The idle process, PID 0, never ends.
EndProcess(l) ==
  /\ l \in Alive \ env.lasting /\ env.pids[l] # 0
  /\ gone' = gone \cup {l}
  /\ Trace("stop", l)
  /\ stale' = TRUE
  /\ UNCHANGED <<env, started, etw_hand, poller, queue, processes>>

\* query_process_identity: the creation time of the process that has this PID
\* at the moment of the call, 0 when there is none or it denies access.
QueriedTime(pid) ==
  IF \E l \in Alive \ env.hidden : env.pids[l] = pid /\ pid # 0
  THEN CHOOSE l \in Alive : env.pids[l] = pid
  ELSE 0

-----------------------------------------------------------------------------
(* The ETW consumer thread *)

\* A time that is later than the child's cannot be the parent's.
ParentTime(time, child) == IF child # 0 /\ time > child THEN 0 ELSE time

\* The processes that EventHeader.ProcessId may name: the one whose thread logged
\* the record, which is the creating process for a start.
LoggedBy(r) ==
  {l \in {r.life, IF r.type = "start" THEN env.parents[r.life] ELSE r.life} \ {0} :
     env.pids[l] # 0}

\* etw_event_callback up to the push.  The payload has the PID and the creation
\* time of the process the record is about, and that of a start the parent's PID;
\* a field that cannot be decoded is 0, and the PID then the header's.  A
\* successful query replaces the time; the parent's identity is queried.
Callback ==
  /\ etw_hand = None /\ etw_buffer # <<>>
  /\ LET r == Head(etw_buffer)
     IN  \E lost \in SUBSET env.undecoded :
         \E l \in IF "pid" \in lost THEN LoggedBy(r) ELSE {r.life} :
           LET t    == QueriedTime(env.pids[l])
               time == IF t # 0 THEN t ELSE IF "time" \in lost THEN 0 ELSE r.life
               ppid == IF r.type = "start" /\ "parent" \notin lost THEN ParentPid(r.life)
                       ELSE 0
               parent == [pid |-> ppid, creation_time |-> ParentTime(QueriedTime(ppid), time)]
           IN  etw_hand' = Event(r.type, KeyOf(l, time), parent, l)
  /\ etw_buffer' = Tail(etw_buffer)
  /\ UNCHANGED <<env, system, poller, queue, processes>>

\* push_event, whose failing allocation nobody looks at.
Push(e) == queue' = Append(queue, e) \/ (env.lossy /\ UNCHANGED queue)

CallbackPush ==
  /\ etw_hand # None
  /\ Push(etw_hand)
  /\ etw_hand' = None
  /\ UNCHANGED <<env, system, etw_buffer, poller, processes>>

-----------------------------------------------------------------------------
(* The polling worker *)

\* The key a query would give the snapshot's entry for process l now.
Entry(l) == [key |-> KeyOf(l, QueriedTime(env.pids[l])), life |-> l]

\* capture_processes: CreateToolhelp32Snapshot ...
TakeSnapshot ==
  /\ phase = "sleep"
  /\ phase' = "query"
  /\ snapshot' = IF env.atomic THEN {} ELSE Alive
  /\ current' = IF env.atomic THEN {Entry(l) : l \in Alive} ELSE {}
  /\ stale' = FALSE
  /\ UNCHANGED <<env, started, gone, etw, previous, outbox, queue, processes>>

\* ... and the loop that queries its entries one after the other.
QueryEntry ==
  /\ phase = "query"
  /\ \E l \in snapshot :
       /\ snapshot' = snapshot \ {l}
       /\ current' = current \cup {Entry(l)}
  /\ UNCHANGED <<env, system, etw, phase, previous, outbox, queue, processes>>

\* Faulty variant of FindEntry: PIDs only.
FindPid(entries, key) == {x \in entries : x.key.pid = key.pid}

\* find_entry: the entries that may be the process with this key.
FindEntry(entries, key) == {x \in entries : ProcessKeysMatch(x.key, key)}

\* The entries in the order qsort puts them.
Sorted(entries) ==
  CHOOSE order \in [1..Cardinality(entries) -> entries] :
    /\ Range(order) = entries
    /\ \A i, j \in DOMAIN order : i < j => order[i].key.pid <= order[j].key.pid

\* Faulty variant of ParentKey: whoever has the PID is the parent.
ParentKeyAny(entries, x) ==
  LET found == {y.key : y \in {y \in entries : y.key.pid = ParentPid(x.life)}}
  IN  IF found # {} THEN CHOOSE key \in found : TRUE
      ELSE [pid |-> ParentPid(x.life), creation_time |-> 0]

\* The parent's key is that of the entry with its PID, if that is not younger
\* than the child, as far as their times are known.
ParentKey(entries, x) ==
  LET older == {y \in entries : /\ y.key.pid = ParentPid(x.life)
                                /\ \/ 0 \in {y.key.creation_time, x.key.creation_time}
                                   \/ y.key.creation_time <= x.key.creation_time}
  IN  IF older # {} THEN (CHOOSE y \in older : TRUE).key
      ELSE [pid |-> ParentPid(x.life), creation_time |-> 0]

\* The reports about some entries of a snapshot.
Report(type, some, entries) ==
  LET order == Sorted(some)
  IN  [i \in DOMAIN order |->
         Event(type, order[i].key, ParentKey(entries, order[i]), order[i].life)]

\* The entries of one snapshot that are not in the other.
Missing(entries, other) == {x \in entries : FindEntry(other, x.key) = {}}

\* Faulty variant of Compare: the stop loop looks the wrong way.
CompareSwapped ==
  /\ phase = "query" /\ snapshot = {}
  /\ outbox' = Report("start", Missing(current, previous), current)
                 \o Report("stop", Missing(current, previous), current)
  /\ previous' = current
  /\ phase' = "emit"
  /\ UNCHANGED <<env, system, etw, snapshot, current, queue, processes>>

\* Faulty variant of Compare: a poll only reports starts.
CompareStarts ==
  /\ phase = "query" /\ snapshot = {}
  /\ outbox' = Report("start", Missing(current, previous), current)
  /\ previous' = current
  /\ phase' = "emit"
  /\ UNCHANGED <<env, system, etw, snapshot, current, queue, processes>>

\* process_monitor_poll's two loops: starts, then stops.
Compare ==
  /\ phase = "query" /\ snapshot = {}
  /\ outbox' = Report("start", Missing(current, previous), current)
                 \o Report("stop", Missing(previous, current), previous)
  /\ previous' = current
  /\ phase' = "emit"
  /\ UNCHANGED <<env, system, etw, snapshot, current, queue, processes>>

PollerPush ==
  /\ phase = "emit" /\ outbox # <<>>
  /\ Push(Head(outbox))
  /\ outbox' = Tail(outbox)
  /\ UNCHANGED <<env, system, etw, phase, snapshot, current, previous, processes>>

\* Faulty variant of Sleep: the poll ends before it has reported everything.
SleepEarly ==
  /\ phase = "emit"
  /\ phase' = "sleep" /\ current' = {}
  /\ UNCHANGED <<env, system, etw, snapshot, previous, outbox, queue, processes>>

\* telemetry_worker waits for the next interval.
Sleep ==
  /\ phase = "emit" /\ outbox = <<>>
  /\ phase' = "sleep" /\ current' = {}
  /\ UNCHANGED <<env, system, etw, snapshot, previous, outbox, queue, processes>>

-----------------------------------------------------------------------------
(* The GUI thread: drain_events pops a report and adds it to the store *)

Drain ==
  /\ queue # <<>>
  /\ processes' = Recorded(processes, Head(queue))
  /\ queue' = Tail(queue)
  /\ UNCHANGED <<env, system, etw, poller>>

System == CreateProcess \/ \E l \in Lives(env) : EndProcess(l)
Consumer == Callback \/ CallbackPush
Poller == TakeSnapshot \/ QueryEntry \/ Compare \/ PollerPush \/ Sleep

Next == System \/ Consumer \/ Poller \/ Drain

Spec == Init /\ [][Next]_vars

\* The collectors' threads and the GUI's message loop keep running; nothing
\* makes the system create or end a process.
FairSpec == Spec /\ WF_vars(Consumer) /\ WF_vars(Poller) /\ WF_vars(Drain)

-----------------------------------------------------------------------------
(* Properties. *)

Shown(l) == {i \in ActiveRecords(processes) :
               ProcessKeysMatch(processes[i].key, KeyOf(l, l))}

TypeOK ==
  /\ env \in Environments
  /\ started \in 0..Len(env.pids) /\ gone \subseteq 1..started
  /\ phase \in {"sleep", "query", "emit"} /\ stale \in BOOLEAN
  /\ snapshot \subseteq 1..started
  /\ phase # "query" => snapshot = {}
  /\ phase = "sleep" => outbox = <<>> /\ current = {}
  /\ \A x \in current \cup previous :
       x.life \in 1..started /\ x.key.creation_time \in 0..started
  /\ \A i \in DOMAIN processes : processes[i].key.creation_time \in 0..started

\* Nothing is under way and the last snapshot saw the system as it is.
Settled == /\ ~stale /\ phase = "sleep" /\ queue = <<>>
           /\ etw_buffer = <<>> /\ etw_hand = None

\* The running records are the running processes, one for one.
TableAgrees ==
  /\ \A l \in Alive : Cardinality(Shown(l)) = 1
  /\ \A i \in ActiveRecords(processes) : \E l \in Alive : i \in Shown(l)

PidsUnique == \A l, m \in Lives(env) : env.pids[l] = env.pids[m] => l = m

\* ETW and the poller disagree about a PID only when it is used again.
OneSourceOrUnique == ~env.etw \/ PidsUnique

\* Every record of the session and every push gets through, and every record says
\* which process it is about.  A start handled after the stop of its process would
\* otherwise, without the creation time, be taken for that of another process with
\* the PID (event_store.c:98-117), which then runs for ever in the table.
AllIdentified == ~env.lossy /\ env.undecoded \cap {"pid", "time"} = {}

\* Once every report of a change has been handled, the table is right, though
\* ETW and the poller reported the changes twice, in either order, and partly
\* without a creation time; as long as no ETW record is lost or undecodable.
Reconciled == Settled /\ OneSourceOrUnique /\ AllIdentified => TableAgrees

\* No record says of a running process that it has stopped (architecture.md:66: a
\* process is its PID and creation time, because PIDs are reused).
NoneStoppedAlive ==
  \A i \in DOMAIN processes \ ActiveRecords(processes) :
    \A l \in Alive : processes[i].key # KeyOf(l, l)

\* However late the stop of a process is reported, whatever could not be queried,
\* decoded or was lost, and whoever uses the PID by then: as long as not both, ETW
\* is active and a PID used again.
StoppedHasEnded == OneSourceOrUnique => NoneStoppedAlive

\* "Parent records carry the same identity shape" (architecture.md:69): when a
\* process and its parent are both known by their times, the parent is the
\* process that created it, never a younger one that has its PID; and once every
\* report has been handled, a process whose parent still runs and can be queried
\* is shown under that parent's identity, whichever collector came last.  A start
\* whose own PID cannot be decoded gives the creating process itself as parent.
ParentsAreReal ==
  /\ "pid" \notin env.undecoded =>
       \A i \in DOMAIN processes :
         LET child  == processes[i].key.creation_time
             parent == processes[i].parent.creation_time
         IN  child # 0 /\ parent # 0 => parent = env.parents[child]
  /\ Settled /\ ~env.lossy /\ "pid" \notin env.undecoded =>
       \A l \in Alive : env.parents[l] \in Alive \ env.hidden =>
         \A i \in Shown(l) : processes[i].parent =
           KeyOf(env.parents[l], IF env.pids[env.parents[l]] = 0 THEN 0 ELSE env.parents[l])

\* After the last change of the system (the model has only so many) the table
\* comes to show exactly the running processes and stays so, as long as no ETW
\* record is lost or undecodable: no report is stuck and none undoes another for
\* good.
EventuallyAgrees == OneSourceOrUnique /\ AllIdentified => <>[]TableAgrees
===============================================================================
