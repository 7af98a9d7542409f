--------------------------- MODULE ProcessRecords ---------------------------
(***************************************************************************)
(* The process table of event_store.c as values: how a report is matched   *)
(* with a record (process_keys_match, event_store_find_process) and what   *)
(* the process branches of event_store_add make of the table.  A table is  *)
(* a sequence of records, oldest first; a record is never removed.         *)
(*                                                                         *)
(* A process key is [pid, creation_time]; creation time 0 means that       *)
(* GetProcessTimes failed.  The three strings of a record (name, parent's  *)
(* name, path) follow one rule, so a single name stands for them.          *)
(***************************************************************************)
EXTENDS Integers, Sequences, FiniteSets, FiniteSetsExt

CONSTANT NoName        \* the empty string

ProcessKey == [pid : Nat, creation_time : Nat]

NoKey == [pid |-> 0, creation_time |-> 0]

\* The records whose name is one of names.
Record(names) ==
  [key : ProcessKey, parent : ProcessKey, name : names, active : BOOLEAN]

EventTypes == {"start", "stop", "network", "alert"}

\* Two keys match when a missing creation time cannot tell them apart.
ProcessKeysMatch(left, right) ==
  /\ left.pid = right.pid
  /\ \/ left.creation_time = right.creation_time
     \/ left.creation_time = 0
     \/ right.creation_time = 0

\* The records that carry exactly this, known, identity.
SameIdentity(processes, key) ==
  {i \in DOMAIN processes : key.creation_time # 0 /\ processes[i].key = key}

\* The running records that a report about key may be about.
ActiveMatches(processes, key) ==
  {i \in DOMAIN processes :
     processes[i].active /\ ProcessKeysMatch(processes[i].key, key)}

\* Faulty variant of FindProcess: stopped records are skipped.
FindRunning(processes, key) ==
  LET running == ActiveMatches(processes, key)
  IN  IF key.pid = 0 \/ running = {} THEN 0 ELSE Max(running)

\* The index of the record a report about key refers to, 0 for NULL: the
\* newest one with its identity, else the newest running match.
FindProcess(processes, key) ==
  LET same    == SameIdentity(processes, key)
      running == ActiveMatches(processes, key)
  IN  IF key.pid = 0 \/ same \cup running = {} THEN 0
      ELSE IF same # {} THEN Max(same) ELSE Max(running)

\* Faulty variant of UpdateRecord: the report's fields replace the record's.
OverwriteRecord(record, e) ==
  [record EXCEPT !.key = e.process, !.parent = e.parent, !.name = e.name]

\* What a report adds to the record it refers to; nothing known is blanked.
UpdateRecord(record, e) ==
  [key    |-> [pid |-> record.key.pid,
               creation_time |-> IF e.process.creation_time # 0
                                 THEN e.process.creation_time
                                 ELSE record.key.creation_time],
   parent |-> IF e.parent.pid # 0 THEN e.parent ELSE record.parent,
   name   |-> IF e.name # NoName THEN e.name ELSE record.name,
   active |-> record.active]

NewRecord(e) ==
  [key |-> e.process, parent |-> e.parent, name |-> e.name,
   active |-> e.type = "start"]

\* event_store_add answers TRUE without accepting the report.
Coalesced(processes, e) ==
  LET i == FindProcess(processes, e.process)
  IN  /\ i # 0
      /\ \/ e.type = "start"
         \/ e.type = "stop" /\ ~processes[i].active

\* Faulty variant of Recorded: a late start marks a stopped record running.
RecordedRevives(processes, e) ==
  LET i == FindProcess(processes, e.process)
  IN  IF i = 0 THEN Append(processes, NewRecord(e))
      ELSE [processes EXCEPT ![i] = [UpdateRecord(@, e) EXCEPT !.active = e.type = "start"]]

\* The table after a start or stop report.
Recorded(processes, e) ==
  LET i == FindProcess(processes, e.process)
  IN  IF i = 0 THEN Append(processes, NewRecord(e))
      ELSE IF e.type = "start"
           THEN [processes EXCEPT ![i] = UpdateRecord(@, e)]
      ELSE IF processes[i].active
           THEN [processes EXCEPT ![i] = [UpdateRecord(@, e) EXCEPT !.active = FALSE]]
      ELSE processes

ActiveRecords(processes) == {i \in DOMAIN processes : processes[i].active}
=============================================================================
