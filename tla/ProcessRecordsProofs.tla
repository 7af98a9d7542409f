------------------------- MODULE ProcessRecordsProofs -------------------------
(***************************************************************************)
(* Lemmas about the operators of ProcessRecords: what a search of the      *)
(* process table returns and what a report makes of the table.             *)
(***************************************************************************)
EXTENDS ProcessRecords, SequenceTheorems, FiniteSetTheorems, NaturalsInduction,
        WellFoundedInduction, TLAPS

\* Every set of numbers has a least one: what the proofs use for induction.
LEMMA LeastNumber ==
  ASSUME NEW S, S \subseteq Nat, S # {}
  PROVE  \E n \in S : \A m \in S : n <= m
<1> DEFINE R == OpToRel(<, Nat)
<1>1. \E x \in S : \A y \in S : ~(<<y, x>> \in R)
  <2> HIDE DEF R
  <2> QED BY NatLessThanWellFounded, WFMin DEF R
<1>2. PICK n \in S : \A y \in S : ~(<<y, n>> \in R)
  BY <1>1
<1>3. n \in Nat /\ \A y \in S : ~(y < n)
  BY <1>2 DEF OpToRel
<1>4. \A y \in S : n <= y
  <2> HIDE DEF R
  <2> QED BY <1>3
<1> QED BY <1>4

\* A non-empty set of indices of a table has a newest one: the scan from the
\* end in event_store_find_process stops at an element of the set.
LEMMA MaxOfIndices ==
  ASSUME NEW n \in Nat, NEW S \in SUBSET (1..n), S # {}
  PROVE  Max(S) \in S /\ \A j \in S : j <= Max(S)
<1> DEFINE T == {n - i : i \in S}
<1>1. T \subseteq Nat /\ T # {}
  <2>1. \A i \in S : n - i \in Nat
    OBVIOUS
  <2>2. PICK i \in S : n - i \in T
    OBVIOUS
  <2> QED BY <2>1, <2>2
<1>2. PICK x \in T : \A y \in T : x <= y
  <2> HIDE DEF T
  <2> QED BY <1>1, LeastNumber
<1>3. PICK m \in S : x = n - m
  OBVIOUS
<1>4. \A j \in S : m >= j
  <2> TAKE j \in S
  <2>1. n - m <= n - j
    BY <1>2, <1>3
  <2> QED BY <2>1
<1>5. Max(S) \in S /\ \A j \in S : Max(S) >= j
  BY <1>4 DEF Max
<1> QED BY <1>5

\* What event_store_find_process returns: NULL only if no record has the
\* identity and no running record matches; else a record with the identity,
\* or a running match when none has it.
LEMMA FindProcessProperties ==
  ASSUME NEW names, NEW processes \in Seq(Record(names)), NEW key \in ProcessKey,
         NEW i, i = FindProcess(processes, key)
  PROVE  /\ i \in {0} \cup DOMAIN processes
         /\ i = 0 /\ key.pid # 0 => /\ SameIdentity(processes, key) = {}
                                  /\ ActiveMatches(processes, key) = {}
         /\ i # 0 => /\ i \in DOMAIN processes
                     /\ key.pid # 0
                     /\ \/ i \in SameIdentity(processes, key)
                        \/ /\ i \in ActiveMatches(processes, key)
                           /\ SameIdentity(processes, key) = {}
<1> DEFINE same    == SameIdentity(processes, key)
           running == ActiveMatches(processes, key)
<1>1. Len(processes) \in Nat /\ DOMAIN processes = 1..Len(processes)
  BY LenProperties
<1>2. same \in SUBSET (1..Len(processes)) /\ running \in SUBSET (1..Len(processes))
  BY <1>1 DEF SameIdentity, ActiveMatches
<1>3. i = IF key.pid = 0 \/ same \cup running = {} THEN 0
          ELSE IF same # {} THEN Max(same) ELSE Max(running)
  BY DEF FindProcess
<1>4. same # {} => Max(same) \in same
  <2> HIDE DEF same
  <2> QED BY <1>1, <1>2, MaxOfIndices
<1>5. running # {} => Max(running) \in running
  <2> HIDE DEF running
  <2> QED BY <1>1, <1>2, MaxOfIndices
<1> HIDE DEF same, running
<1>6. i # 0 => i \in same \/ (i \in running /\ same = {})
  BY <1>3, <1>4, <1>5
<1>7. i = 0 /\ key.pid # 0 => same = {} /\ running = {}
  BY <1>1, <1>2, <1>3, <1>4, <1>5
<1>8. i # 0 => key.pid # 0
  BY <1>3
<1> QED BY <1>1, <1>2, <1>6, <1>7, <1>8 DEF same, running

\* What update_record_from_event does to a record with the report's PID.
LEMMA UpdateRecordProperties ==
  ASSUME NEW names, NEW record \in Record(names), NEW e,
         e.process \in ProcessKey, e.parent \in ProcessKey, e.name \in names,
         record.key.pid = e.process.pid
  PROVE  /\ UpdateRecord(record, e) \in Record(names)
         /\ UpdateRecord(record, e).active = record.active
         /\ UpdateRecord(record, e).key =
              IF e.process.creation_time # 0 THEN e.process ELSE record.key
         /\ record.name # NoName => UpdateRecord(record, e).name # NoName
<1> DEFINE key == UpdateRecord(record, e).key
<1>1. /\ record.key \in ProcessKey /\ record.parent \in ProcessKey
      /\ record.name \in names /\ record.active \in BOOLEAN
  BY DEF Record
<1>2. key \in ProcessKey
      /\ key = IF e.process.creation_time # 0 THEN e.process ELSE record.key
  BY <1>1 DEF ProcessKey, UpdateRecord
<1>3. /\ UpdateRecord(record, e).parent \in ProcessKey
      /\ UpdateRecord(record, e).name \in names
      /\ UpdateRecord(record, e).active = record.active
      /\ record.name # NoName => UpdateRecord(record, e).name # NoName
  BY <1>1 DEF UpdateRecord
<1> QED BY <1>1, <1>2, <1>3 DEF Record, UpdateRecord

\* A new record.
LEMMA NewRecordProperties ==
  ASSUME NEW names, NEW e,
         e.process \in ProcessKey, e.parent \in ProcessKey, e.name \in names
  PROVE  /\ NewRecord(e) \in Record(names)
         /\ NewRecord(e).key = e.process
         /\ NewRecord(e).active = (e.type = "start")
BY DEF NewRecord, Record

\* What a start or stop report makes of a record it refers to.
LEMMA RecordedKnown ==
  ASSUME NEW names, NEW processes \in Seq(Record(names)), NEW e,
         e.process \in ProcessKey, e.parent \in ProcessKey, e.name \in names,
         e.type \in {"start", "stop"},
         NEW i, i = FindProcess(processes, e.process), i # 0
  PROVE  LET new == Recorded(processes, e)
         IN  /\ i \in 1..Len(processes)
             /\ new \in Seq(Record(names)) /\ Len(new) = Len(processes)
             /\ \A j \in 1..Len(processes) : j # i => new[j] = processes[j]
             /\ new[i].active = (processes[i].active /\ e.type = "start")
             /\ processes[i].name # NoName => new[i].name # NoName
             /\ processes[i].key.pid = e.process.pid
             /\ new[i].key = processes[i].key \/ new[i].key = e.process
             /\ processes[i].key.creation_time # 0 => new[i].key = processes[i].key
             /\ e.process.creation_time # 0 => new[i].key = e.process
<1> DEFINE new == Recorded(processes, e)
           up == UpdateRecord(processes[i], e)
           stopped == [up EXCEPT !.active = FALSE]
<1>1. /\ i \in 1..Len(processes) /\ DOMAIN processes = 1..Len(processes)
      /\ Len(processes) \in Nat
  BY FindProcessProperties, LenProperties
<1>2. processes[i] \in Record(names)
  BY <1>1, ElementOfSeq
<1>3. ProcessKeysMatch(processes[i].key, e.process)
  <2>1. CASE i \in SameIdentity(processes, e.process)
    BY <2>1 DEF SameIdentity, ProcessKeysMatch
  <2>2. CASE i \in ActiveMatches(processes, e.process)
    BY <2>2 DEF ActiveMatches
  <2> QED BY <2>1, <2>2, FindProcessProperties
<1>4. processes[i].key \in ProcessKey /\ processes[i].active \in BOOLEAN
  BY <1>2 DEF Record
<1>5. processes[i].key.pid = e.process.pid
  BY <1>3 DEF ProcessKeysMatch
<1>6. /\ up \in Record(names) /\ up.active = processes[i].active
      /\ up.key = IF e.process.creation_time # 0 THEN e.process ELSE processes[i].key
      /\ processes[i].name # NoName => up.name # NoName
  <2> HIDE DEF up
  <2> QED BY <1>2, <1>5, UpdateRecordProperties DEF up
<1>7. processes[i].key.creation_time # 0 => up.key = processes[i].key
  <2> HIDE DEF up
  <2> QED BY <1>3, <1>4, <1>6 DEF ProcessKeysMatch, ProcessKey
<1> HIDE DEF up
<1>8. /\ stopped \in Record(names) /\ stopped.active = FALSE
      /\ stopped.key = up.key /\ stopped.name = up.name
  BY <1>6 DEF Record
<1>9. CASE e.type = "start"
  <2>1. new = [processes EXCEPT ![i] = up]
    BY <1>9 DEF Recorded, up
  <2>2. /\ new \in Seq(Record(names)) /\ Len(new) = Len(processes)
        /\ \A j \in 1..Len(processes) : new[j] = IF j = i THEN up ELSE processes[j]
    <3> HIDE DEF new
    <3> QED BY <1>1, <1>6, <2>1, ExceptSeq
  <2> QED BY <1>1, <1>4, <1>5, <1>6, <1>7, <1>9, <2>2
<1>10. CASE e.type = "stop" /\ processes[i].active
  <2>1. new = [processes EXCEPT ![i] = stopped]
    BY <1>10 DEF Recorded, up
  <2>2. /\ new \in Seq(Record(names)) /\ Len(new) = Len(processes)
        /\ \A j \in 1..Len(processes) : new[j] = IF j = i THEN stopped ELSE processes[j]
    <3> HIDE DEF new, stopped
    <3> QED BY <1>1, <1>8, <2>1, ExceptSeq
  <2> HIDE DEF new, stopped
  <2> QED BY <1>1, <1>5, <1>6, <1>7, <1>8, <1>10, <2>2 DEF new
<1>11. CASE e.type = "stop" /\ ~processes[i].active
  <2>1. new = processes
    BY <1>11 DEF Recorded
  <2>2. i \in SameIdentity(processes, e.process) \/ processes[i].active
    BY FindProcessProperties DEF ActiveMatches
  <2>3. e.process.creation_time # 0 => processes[i].key = e.process
    BY <1>11, <2>2 DEF SameIdentity
  <2> QED BY <1>1, <1>4, <1>5, <1>11, <2>1, <2>3
<1> QED BY <1>9, <1>10, <1>11

\* What it takes for a report to be coalesced.
LEMMA CoalescedMeans ==
  ASSUME NEW processes, NEW e, e.type \in {"start", "stop"},
         NEW i, i = FindProcess(processes, e.process)
  PROVE  Coalesced(processes, e) <=> i # 0 /\ (e.type = "start" \/ ~processes[i].active)
BY DEF Coalesced

\* What a report that refers to no record makes of the table.
LEMMA RecordedUnknown ==
  ASSUME NEW names, NEW processes \in Seq(Record(names)), NEW e,
         e.process \in ProcessKey, e.parent \in ProcessKey, e.name \in names,
         0 = FindProcess(processes, e.process)
  PROVE  LET new == Recorded(processes, e)
         IN  /\ new = Append(processes, NewRecord(e))
             /\ new \in Seq(Record(names)) /\ Len(new) = Len(processes) + 1
             /\ \A j \in 1..Len(processes) : new[j] = processes[j]
             /\ new[Len(processes) + 1].key = e.process
             /\ new[Len(processes) + 1].active = (e.type = "start")
<1>1. Recorded(processes, e) = Append(processes, NewRecord(e))
  BY DEF Recorded
<1>2. Len(processes) \in Nat
  BY LenProperties
<1>3. NewRecord(e) \in Record(names) /\ NewRecord(e).key = e.process
      /\ NewRecord(e).active = (e.type = "start")
  BY NewRecordProperties
<1> QED BY <1>1, <1>2, <1>3, AppendProperties

-----------------------------------------------------------------------------
(* What makes a table sound, and that no report makes it unsound. *)

UniqueIdentities(t) ==
  \A i, j \in DOMAIN t :
    t[i].key = t[j].key /\ t[i].key.creation_time # 0 => i = j

DistinctRunning(t) ==
  \A i, j \in ActiveRecords(t) :
    ProcessKeysMatch(t[i].key, t[j].key) /\ t[i].key.pid # 0 => i = j

IdleUntimed(t) ==
  \A i \in DOMAIN t : t[i].key.pid = 0 => t[i].key.creation_time = 0

SoundTable(t) == UniqueIdentities(t) /\ DistinctRunning(t) /\ IdleUntimed(t)

\* Merging a report into a record keeps the table sound: the record can only
\* take an identity that no other record has, and only while it is the only
\* running record of its PID.
LEMMA SoundAfterKnown ==
  ASSUME NEW names, NEW processes \in Seq(Record(names)), NEW e,
         e.process \in ProcessKey, e.parent \in ProcessKey, e.name \in names,
         e.type \in {"start", "stop"},
         0 # FindProcess(processes, e.process),
         SoundTable(processes)
  PROVE  SoundTable(Recorded(processes, e))
<1> DEFINE i == FindProcess(processes, e.process)
           new == Recorded(processes, e)
<1>1. /\ i \in 1..Len(processes)
      /\ new \in Seq(Record(names)) /\ Len(new) = Len(processes)
      /\ \A j \in 1..Len(processes) : j # i => new[j] = processes[j]
      /\ new[i].active = (processes[i].active /\ e.type = "start")
      /\ processes[i].key.pid = e.process.pid
      /\ new[i].key = processes[i].key \/ new[i].key = e.process
      /\ processes[i].key.creation_time # 0 => new[i].key = processes[i].key
  <2> HIDE DEF i
  <2>1. i = FindProcess(processes, e.process)
    BY DEF i
  <2> QED BY <2>1, RecordedKnown
<1>2. DOMAIN processes = 1..Len(processes) /\ DOMAIN new = 1..Len(processes)
  BY <1>1, LenProperties
<1>3. e.process.pid # 0 /\ (i \in SameIdentity(processes, e.process)
                             \/ SameIdentity(processes, e.process) = {})
  <2> HIDE DEF i
  <2>1. i = FindProcess(processes, e.process)
    BY DEF i
  <2> QED BY <2>1, FindProcessProperties
<1> HIDE DEF i, new
<1>4. new[i].key # processes[i].key =>
        /\ new[i].key = e.process
        /\ processes[i].key.creation_time = 0
        /\ \A j \in 1..Len(processes) :
             e.process.creation_time # 0 => processes[j].key # e.process
  <2> HAVE new[i].key # processes[i].key
  <2>1. new[i].key = e.process /\ processes[i].key.creation_time = 0
    BY <1>1
  <2>2. i \notin SameIdentity(processes, e.process)
    BY <2>1 DEF SameIdentity
  <2> QED BY <1>2, <1>3, <2>1, <2>2 DEF SameIdentity
<1>5. UniqueIdentities(new)
  <2> SUFFICES ASSUME NEW j \in DOMAIN new, NEW k \in DOMAIN new,
                      new[j].key = new[k].key, new[j].key.creation_time # 0, j # k
               PROVE  FALSE
    BY DEF UniqueIdentities
  <2>1. CASE new[i].key = processes[i].key
    BY <1>1, <1>2, <2>1 DEF SoundTable, UniqueIdentities
  <2>2. CASE new[i].key # processes[i].key
    BY <1>1, <1>2, <1>4, <2>2 DEF SoundTable, UniqueIdentities
  <2> QED BY <2>1, <2>2
<1>6. DistinctRunning(new)
  <2> SUFFICES ASSUME NEW j \in ActiveRecords(new), NEW k \in ActiveRecords(new),
                      ProcessKeysMatch(new[j].key, new[k].key), new[j].key.pid # 0,
                      j # k
               PROVE  FALSE
    BY DEF DistinctRunning
  <2>1. \A m \in ActiveRecords(new) : m \in ActiveRecords(processes)
    BY <1>1, <1>2 DEF ActiveRecords
  <2>2. j \in 1..Len(processes) /\ k \in 1..Len(processes)
    BY <1>2 DEF ActiveRecords
  <2>3. ProcessKeysMatch(processes[j].key, processes[k].key)
    BY <1>1, <1>4, <2>2 DEF ProcessKeysMatch
  <2>4. processes[j].key.pid # 0
    BY <1>1, <1>3, <2>2
  <2> QED BY <2>1, <2>3, <2>4 DEF SoundTable, DistinctRunning
<1>7. IdleUntimed(new)
  BY <1>1, <1>2, <1>3 DEF SoundTable, IdleUntimed
<1> QED BY <1>5, <1>6, <1>7 DEF SoundTable, new

\* A record is only added when nothing in the table has its identity or, if it
\* is to be running, could be taken for it.
LEMMA SoundAfterUnknown ==
  ASSUME NEW names, NEW processes \in Seq(Record(names)), NEW e,
         e.process \in ProcessKey, e.parent \in ProcessKey, e.name \in names,
         e.process.pid = 0 => e.process.creation_time = 0,
         0 = FindProcess(processes, e.process),
         SoundTable(processes)
  PROVE  SoundTable(Recorded(processes, e))
<1> DEFINE n == Len(processes)
           new == Recorded(processes, e)
<1>1. /\ new \in Seq(Record(names)) /\ Len(new) = n + 1
      /\ \A j \in 1..n : new[j] = processes[j]
      /\ new[n + 1].key = e.process
      /\ new[n + 1].active = (e.type = "start")
  BY RecordedUnknown
<1>2. /\ n \in Nat /\ DOMAIN processes = 1..n /\ DOMAIN new = 1..(n + 1)
      /\ \A j \in 1..(n + 1) : j \in 1..n \/ j = n + 1
  BY <1>1, LenProperties
<1>3. e.process.pid # 0 => /\ SameIdentity(processes, e.process) = {}
                          /\ ActiveMatches(processes, e.process) = {}
  BY FindProcessProperties
<1> HIDE DEF n, new
<1>4. UniqueIdentities(new)
  <2> SUFFICES ASSUME NEW j \in DOMAIN new, NEW k \in DOMAIN new,
                      new[j].key = new[k].key, new[j].key.creation_time # 0, j # k
               PROVE  FALSE
    BY DEF UniqueIdentities
  <2>1. CASE j \in 1..n /\ k \in 1..n
    BY <1>1, <1>2, <2>1 DEF SoundTable, UniqueIdentities
  <2>2. CASE j = n + 1 /\ k \in 1..n
    BY <1>1, <1>2, <1>3, <2>2 DEF SameIdentity
  <2>3. CASE j \in 1..n /\ k = n + 1
    BY <1>1, <1>2, <1>3, <2>3 DEF SameIdentity
  <2> QED BY <1>2, <2>1, <2>2, <2>3
<1>5. DistinctRunning(new)
  <2> SUFFICES ASSUME NEW j \in ActiveRecords(new), NEW k \in ActiveRecords(new),
                      ProcessKeysMatch(new[j].key, new[k].key), new[j].key.pid # 0,
                      j # k
               PROVE  FALSE
    BY DEF DistinctRunning
  <2>1. j \in DOMAIN new /\ k \in DOMAIN new /\ new[j].active /\ new[k].active
    BY DEF ActiveRecords
  <2>2. CASE j \in 1..n /\ k \in 1..n
    <3>1. j \in ActiveRecords(processes) /\ k \in ActiveRecords(processes)
      BY <1>1, <1>2, <2>1, <2>2 DEF ActiveRecords
    <3> QED BY <1>1, <2>2, <3>1 DEF SoundTable, DistinctRunning
  <2>3. CASE j = n + 1 /\ k \in 1..n
    BY <1>1, <1>2, <1>3, <2>1, <2>3 DEF ActiveMatches, ProcessKeysMatch
  <2>4. CASE j \in 1..n /\ k = n + 1
    BY <1>1, <1>2, <1>3, <2>1, <2>4 DEF ActiveMatches, ProcessKeysMatch
  <2> QED BY <1>2, <2>1, <2>2, <2>3, <2>4
<1>6. IdleUntimed(new)
  BY <1>1, <1>2 DEF SoundTable, IdleUntimed
<1> QED BY <1>4, <1>5, <1>6 DEF SoundTable, new

\* How a report changes the set of running records.
LEMMA RunningAfter ==
  ASSUME NEW names, NEW processes \in Seq(Record(names)), NEW e,
         e.process \in ProcessKey, e.parent \in ProcessKey, e.name \in names,
         e.type \in {"start", "stop"},
         NEW i, i = FindProcess(processes, e.process)
  PROVE  ActiveRecords(Recorded(processes, e)) =
           IF i = 0 THEN IF e.type = "start"
                         THEN ActiveRecords(processes) \cup {Len(processes) + 1}
                         ELSE ActiveRecords(processes)
           ELSE IF e.type = "start" THEN ActiveRecords(processes)
           ELSE ActiveRecords(processes) \ {i}
<1> DEFINE n == Len(processes)
           new == Recorded(processes, e)
<1>1. n \in Nat /\ DOMAIN processes = 1..n
  BY LenProperties
<1>2. CASE i = 0
  <2>1. /\ new \in Seq(Record(names)) /\ Len(new) = n + 1
        /\ \A j \in 1..n : new[j] = processes[j]
        /\ new[n + 1].active = (e.type = "start")
    <3>1. 0 = FindProcess(processes, e.process)
      BY <1>2
    <3> QED BY <3>1, RecordedUnknown
  <2>2. DOMAIN new = 1..(n + 1) /\ \A j \in 1..(n + 1) : j \in 1..n \/ j = n + 1
    BY <1>1, <2>1, LenProperties
  <2> HIDE DEF n, new
  <2>3. CASE e.type = "start"
    <3>1. new[n + 1].active
      BY <2>1, <2>3
    <3>2. ActiveRecords(new) = ActiveRecords(processes) \cup {n + 1}
      BY <1>1, <2>1, <2>2, <3>1 DEF ActiveRecords
    <3> QED BY <1>2, <2>3, <3>2 DEF new, n
  <2>4. CASE e.type # "start"
    <3>1. ~new[n + 1].active
      BY <2>1, <2>4
    <3>2. ActiveRecords(new) = ActiveRecords(processes)
      BY <1>1, <2>1, <2>2, <3>1 DEF ActiveRecords
    <3> QED BY <1>2, <2>4, <3>2 DEF new, n
  <2> QED BY <2>3, <2>4
<1>3. CASE i # 0
  <2>1. /\ i \in 1..n /\ new \in Seq(Record(names)) /\ Len(new) = n
        /\ \A j \in 1..n : j # i => new[j] = processes[j]
        /\ new[i].active = (processes[i].active /\ e.type = "start")
    BY <1>3, RecordedKnown
  <2>2. DOMAIN new = 1..n
    BY <2>1, LenProperties
  <2> HIDE DEF n, new
  <2>3. \A j : j \in ActiveRecords(new) <=>
               j \in ActiveRecords(processes) /\ (j # i \/ e.type = "start")
    BY <1>1, <2>1, <2>2 DEF ActiveRecords
  <2> QED BY <1>3, <2>3 DEF new
<1> QED BY <1>2, <1>3
===============================================================================
