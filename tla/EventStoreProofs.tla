--------------------------- MODULE EventStoreProofs ---------------------------
(***************************************************************************)
(* Theorems about EventStore for every set of reports, every buffer size   *)
(* and every pattern of allocation failures.                               *)
(***************************************************************************)
EXTENDS EventStore, ProcessRecordsProofs

LEMMA ReportTypes ==
  ASSUME NEW e \in Reports
  PROVE  /\ e.type \in EventTypes /\ e.process \in ProcessKey
         /\ e.parent \in ProcessKey /\ e.name \in Names
         /\ e.process.pid = 0 => e.process.creation_time = 0
BY ReportsAssumption DEF Names

\* reserve_events and reserve_processes make room for one more element.
LEMMA ReservedFits ==
  ASSUME NEW count \in Nat, NEW capacity \in Nat, NEW first \in Nat \ {0},
         count <= capacity
  PROVE  /\ Reserved(count, capacity, first) \in Nat
         /\ count + 1 <= Reserved(count, capacity, first)
         /\ capacity <= Reserved(count, capacity, first)
BY DEF Reserved

\* The tail of event_store_add keeps the history in its buffer.
LEMMA StoreFits ==
  ASSUME TypeOK, BuffersFit, NEW e \in Reports, Store(e)
  PROVE  /\ events' \in Seq(Reports) /\ event_capacity' \in Nat
         /\ Len(events') <= event_capacity'
         /\ drop_logged' \in BOOLEAN
<1>1. /\ Len(events) \in Nat /\ event_capacity \in Nat
      /\ Len(events) <= event_capacity /\ events \in Seq(Reports)
  BY LenProperties DEF TypeOK, BuffersFit
<1>2. CASE /\ event_capacity' = Reserved(Len(events), event_capacity, FirstEvents)
           /\ events' = Append(events, e)
           /\ UNCHANGED drop_logged
  <2>1. /\ event_capacity' \in Nat /\ Len(events) + 1 <= event_capacity'
    BY <1>1, <1>2, ReservedFits, SizesAssumption
  <2>2. events' \in Seq(Reports) /\ Len(events') = Len(events) + 1
    BY <1>1, <1>2, AppendProperties
  <2> QED BY <1>2, <2>1, <2>2 DEF TypeOK
<1>3. CASE drop_logged' = TRUE /\ UNCHANGED storage
  BY <1>1, <1>3 DEF storage
<1> QED BY <1>2, <1>3 DEF Store

-----------------------------------------------------------------------------
\* The inductive invariant behind the table's properties: typing, a sound
\* table (SoundTable needs all three of its parts to be preserved), the count
\* of running records, and the bounds of both arrays.
TableInv == TypeOK /\ SoundTable(processes) /\ ActiveCountExact /\ BuffersFit

LEMMA RunningFinite ==
  ASSUME NEW names, NEW t \in Seq(Record(names))
  PROVE  IsFiniteSet(ActiveRecords(t)) /\ Cardinality(ActiveRecords(t)) \in Nat
         /\ ActiveRecords(t) \in SUBSET (1..Len(t)) /\ Len(t) \in Nat
<1>1. Len(t) \in Nat /\ DOMAIN t = 1..Len(t)
  BY LenProperties
<1>2. ActiveRecords(t) \in SUBSET (1..Len(t))
  BY <1>1 DEF ActiveRecords
<1>3. IsFiniteSet(1..Len(t))
  BY <1>1, FS_Interval
<1>4. IsFiniteSet(ActiveRecords(t))
  BY <1>2, <1>3, FS_Subset
<1> QED BY <1>1, <1>2, <1>4, FS_CardinalityType

LEMMA TableInvInit == Init => TableInv
<1> SUFFICES ASSUME Init PROVE TableInv
  OBVIOUS
<1> USE DEF Init, Zeroed
<1>1. TypeOK
  BY EmptySeq DEF TypeOK
<1>2. SoundTable(processes)
  BY DEF SoundTable, UniqueIdentities, DistinctRunning, IdleUntimed, ActiveRecords
<1>3. ActiveCountExact
  <2>1. ActiveRecords(processes) = {}
    BY DEF ActiveRecords
  <2> QED BY <2>1, FS_EmptySet DEF ActiveCountExact
<1>4. BuffersFit
  BY DEF BuffersFit
<1> QED BY <1>1, <1>2, <1>3, <1>4 DEF TableInv

\* One step of event_store_add or event_store_destroy.
LEMMA TableInvNext == TableInv /\ [Next]_vars => TableInv'
<1> SUFFICES ASSUME TableInv, [Next]_vars PROVE TableInv'
  OBVIOUS
<1>0. /\ TypeOK /\ SoundTable(processes) /\ BuffersFit
      /\ active_process_count = Cardinality(ActiveRecords(processes))
      /\ active_process_count \in Nat
      /\ processes \in Seq(Record(Names))
      /\ Len(processes) \in Nat /\ process_capacity \in Nat
      /\ Len(processes) <= process_capacity
  BY LenProperties DEF TableInv, TypeOK, ActiveCountExact, BuffersFit
<1>fin. IsFiniteSet(ActiveRecords(processes))
        /\ ActiveRecords(processes) \in SUBSET (1..Len(processes))
  BY <1>0, RunningFinite
<1>1. ASSUME NEW e \in Reports, e.type \in {"start", "stop"}, CoalesceReport(e),
             UNCHANGED store_ready
      PROVE  TableInv'
  <2>1. /\ FindProcess(processes, e.process) # 0
        /\ processes' = Recorded(processes, e)
        /\ UNCHANGED <<storage, process_capacity, active_process_count, tallies, drop_logged>>
    BY <1>1 DEF CoalesceReport, Coalesced
  <2>2. SoundTable(processes')
    BY <1>0, <1>1, <2>1, ReportTypes, SoundAfterKnown
  <2>3. processes' \in Seq(Record(Names)) /\ Len(processes') = Len(processes)
    BY <1>0, <1>1, <2>1, ReportTypes, RecordedKnown
  <2>4. ActiveRecords(processes') = ActiveRecords(processes)
    <3> DEFINE i == FindProcess(processes, e.process)
    <3>1. i # 0 /\ (e.type = "start" \/ ~processes[i].active)
      <4>1. Coalesced(processes, e)
        BY <1>1 DEF CoalesceReport
      <4> HIDE DEF i
      <4>2. i = FindProcess(processes, e.process)
        BY DEF i
      <4> QED BY <1>1, <4>1, <4>2, CoalescedMeans
    <3>2. ActiveRecords(processes') =
            IF e.type = "start" THEN ActiveRecords(processes)
            ELSE ActiveRecords(processes) \ {i}
      <4> HIDE DEF i
      <4>1. i = FindProcess(processes, e.process)
        BY DEF i
      <4> QED BY <1>0, <1>1, <2>1, <3>1, <4>1, ReportTypes, RunningAfter
    <3> QED BY <3>1, <3>2 DEF ActiveRecords
  <2> QED BY <1>0, <1>1, <2>1, <2>2, <2>3, <2>4
          DEF TableInv, TypeOK, ActiveCountExact, BuffersFit, storage, tallies
<1>2. ASSUME NEW e \in Reports, e.type \in {"start", "stop"}, AddRecord(e),
             UNCHANGED store_ready
      PROVE  TableInv'
  <2>1. /\ 0 = FindProcess(processes, e.process)
        /\ process_capacity' = Reserved(Len(processes), process_capacity, FirstProcesses)
        /\ processes' = Recorded(processes, e)
        /\ active_process_count' = active_process_count + (IF e.type = "start" THEN 1 ELSE 0)
        /\ Store(e) /\ UNCHANGED tallies
    BY <1>2 DEF AddRecord
  <2>2. SoundTable(processes')
    BY <1>0, <1>2, <2>1, ReportTypes, SoundAfterUnknown
  <2>3. processes' \in Seq(Record(Names)) /\ Len(processes') = Len(processes) + 1
    BY <1>0, <1>2, <2>1, ReportTypes, RecordedUnknown
  <2>4. process_capacity' \in Nat /\ Len(processes') <= process_capacity'
    BY <1>0, <2>1, <2>3, ReservedFits, SizesAssumption
  <2>5. ActiveRecords(processes') =
          IF e.type = "start" THEN ActiveRecords(processes) \cup {Len(processes) + 1}
          ELSE ActiveRecords(processes)
    BY <1>0, <1>2, <2>1, ReportTypes, RunningAfter
  <2>6. Len(processes) + 1 \notin ActiveRecords(processes)
    BY <1>0, <1>fin
  <2>7. active_process_count' = Cardinality(ActiveRecords(processes'))
    <3>1. CASE e.type = "start"
      <4>1. Cardinality(ActiveRecords(processes) \cup {Len(processes) + 1})
              = Cardinality(ActiveRecords(processes)) + 1
        BY <1>fin, <2>6, FS_AddElement
      <4> QED BY <1>0, <2>1, <2>5, <3>1, <4>1
    <3>2. CASE e.type # "start"
      BY <1>0, <2>1, <2>5, <3>2
    <3> QED BY <3>1, <3>2
  <2>8. /\ events' \in Seq(Reports) /\ event_capacity' \in Nat
                      /\ Len(events') <= event_capacity' /\ drop_logged' \in BOOLEAN
    BY <1>0, <1>2, <2>1, StoreFits
  <2>9. active_process_count' \in Nat
    BY <1>0, <2>1
  <2> QED BY <1>0, <1>2, <2>1, <2>2, <2>3, <2>4, <2>7, <2>8, <2>9
          DEF TableInv, TypeOK, ActiveCountExact, BuffersFit, tallies
<1>3. ASSUME NEW e \in Reports, StopRecord(e), UNCHANGED store_ready
      PROVE  TableInv'
  <2> DEFINE i == FindProcess(processes, e.process)
  <2>1. /\ e.type = "stop" /\ i # 0 /\ ~Coalesced(processes, e)
        /\ processes' = Recorded(processes, e)
        /\ active_process_count' =
             IF active_process_count > 0 THEN active_process_count - 1 ELSE 0
        /\ Store(e) /\ UNCHANGED <<process_capacity, tallies>>
    BY <1>3 DEF StopRecord
  <2>2. SoundTable(processes')
    BY <1>0, <2>1, ReportTypes, SoundAfterKnown
  <2>i. i = FindProcess(processes, e.process)
    OBVIOUS
  <2> HIDE DEF i
  <2>3. /\ processes' \in Seq(Record(Names)) /\ Len(processes') = Len(processes)
        /\ i \in 1..Len(processes)
    BY <1>0, <2>1, <2>i, ReportTypes, RecordedKnown
  <2>4. processes[i].active
    BY <2>1, <2>i, CoalescedMeans
  <2>5. i \in ActiveRecords(processes)
    BY <1>0, <2>3, <2>4, LenProperties DEF ActiveRecords
  <2>6. ActiveRecords(processes') = ActiveRecords(processes) \ {i}
    BY <1>0, <2>1, <2>i, ReportTypes, RunningAfter
  <2>7. /\ Cardinality(ActiveRecords(processes')) = active_process_count - 1
        /\ active_process_count # 0
    BY <1>0, <1>fin, <2>5, <2>6, FS_RemoveElement, FS_EmptySet
  <2>8. /\ active_process_count' = Cardinality(ActiveRecords(processes'))
        /\ active_process_count' \in Nat
    BY <1>0, <2>1, <2>7
  <2>9. /\ events' \in Seq(Reports) /\ event_capacity' \in Nat
        /\ Len(events') <= event_capacity' /\ drop_logged' \in BOOLEAN
    BY <1>0, <2>1, StoreFits
  <2> QED BY <1>0, <1>3, <2>1, <2>2, <2>3, <2>8, <2>9
          DEF TableInv, TypeOK, ActiveCountExact, BuffersFit, tallies
<1>4. ASSUME NEW e \in Reports, CountNetwork(e) \/ CountAlert(e), UNCHANGED store_ready
      PROVE  TableInv'
  <2>1. /\ Store(e) /\ UNCHANGED table
        /\ network_count' \in Nat /\ alert_count' \in Nat
    BY <1>0, <1>4 DEF CountNetwork, CountAlert, TypeOK
  <2>2. /\ events' \in Seq(Reports) /\ event_capacity' \in Nat
        /\ Len(events') <= event_capacity' /\ drop_logged' \in BOOLEAN
    BY <1>0, <2>1, StoreFits
  <2> QED BY <1>0, <1>4, <2>1, <2>2 DEF TableInv, TypeOK, ActiveCountExact, BuffersFit, table
<1>5. ASSUME NEW e \in Reports, DropTransition(e), UNCHANGED store_ready
      PROVE  TableInv'
  BY <1>0, <1>5 DEF DropTransition, TableInv, TypeOK, ActiveCountExact, BuffersFit,
                    storage, table, tallies
<1>6. CASE Destroy
  <2>1. /\ events' = <<>> /\ processes' = <<>>
        /\ event_capacity' = 0 /\ process_capacity' = 0
        /\ active_process_count' = 0 /\ network_count' = 0 /\ alert_count' = 0
        /\ store_ready' = FALSE /\ drop_logged' = drop_logged
    BY <1>6 DEF Destroy
  <2>2. ActiveRecords(processes') = {}
    BY <2>1 DEF ActiveRecords
  <2>3. SoundTable(processes')
    <3>1. DOMAIN processes' = {}
      BY <2>1
    <3> QED BY <2>2, <3>1 DEF SoundTable, UniqueIdentities, DistinctRunning, IdleUntimed
  <2>4. ActiveCountExact'
    BY <2>1, <2>2, FS_EmptySet DEF ActiveCountExact
  <2>5. BuffersFit'
    BY <2>1 DEF BuffersFit
  <2>6. TypeOK'
    BY <1>0, <2>1, EmptySeq DEF TypeOK
  <2> QED BY <2>3, <2>4, <2>5, <2>6 DEF TableInv
<1>7. CASE UNCHANGED vars
  BY <1>0, <1>7 DEF vars, TableInv, TypeOK, ActiveCountExact, BuffersFit,
                    storage, table, tallies
<1> QED BY <1>1, <1>2, <1>3, <1>4, <1>5, <1>6, <1>7 DEF Next, Add

\* The type invariant, for every set of reports and every bound.
THEOREM StoreTypeCorrect == Spec => []TypeOK
<1>1. TableInv => TypeOK
  BY DEF TableInv
<1> QED BY TableInvInit, TableInvNext, <1>1, PTL DEF Spec

\* The Overview's count of active processes is the number of running records,
\* whatever is reported and whatever allocation fails.
THEOREM StoreCountsExactly == Spec => []ActiveCountExact
<1>1. TableInv => ActiveCountExact
  BY DEF TableInv
<1> QED BY TableInvInit, TableInvNext, <1>1, PTL DEF Spec

\* No identity ever has two records.
THEOREM StoreRecordsIdentityOnce == Spec => []OneRecordPerIdentity
<1>1. TableInv => OneRecordPerIdentity
  BY DEF TableInv, SoundTable, UniqueIdentities, OneRecordPerIdentity
<1> QED BY TableInvInit, TableInvNext, <1>1, PTL DEF Spec

\* A report that carries a creation time matches one running record at most; one
\* without may match several, each with a time of its own.
THEOREM StoreReportsFindTheirRecord == Spec => []ReportsFindTheirRecord
<1>1. ASSUME TableInv, NEW e \in Reports, e.process.pid # 0,
             NEW i \in ActiveMatches(processes, e.process),
             NEW j \in ActiveMatches(processes, e.process), i # j
      PROVE  /\ e.process.creation_time = 0
             /\ 0 \notin {processes[i].key.creation_time, processes[j].key.creation_time}
             /\ processes[i].key # processes[j].key
  <2>1. /\ i \in ActiveRecords(processes) /\ j \in ActiveRecords(processes)
        /\ processes[i].key.pid = e.process.pid /\ processes[j].key.pid = e.process.pid
        /\ ProcessKeysMatch(processes[i].key, e.process)
        /\ ProcessKeysMatch(processes[j].key, e.process)
    BY DEF ActiveMatches, ActiveRecords, ProcessKeysMatch
  <2>2. ~ProcessKeysMatch(processes[i].key, processes[j].key)
    BY <1>1, <2>1 DEF TableInv, SoundTable, DistinctRunning
  <2> QED BY <2>1, <2>2 DEF ProcessKeysMatch
<1>2. TableInv => ReportsFindTheirRecord
  BY <1>1 DEF ReportsFindTheirRecord
<1> QED BY TableInvInit, TableInvNext, <1>2, PTL DEF Spec

\* Together: what find_process may find for a report.
THEOREM StoreRecordsDistinct == Spec => []RecordsDistinct
BY StoreRecordsIdentityOnce, StoreReportsFindTheirRecord, PTL DEF RecordsDistinct

\* The types, and the counts that never run past the allocated arrays.
THEOREM StoreStorageCorrect == Spec => []StorageOK
<1>1. TableInv => StorageOK
  BY DEF TableInv, StorageOK
<1> QED BY TableInvInit, TableInvNext, <1>1, PTL DEF Spec

-----------------------------------------------------------------------------
\* What one step does to the table: nothing, or what Recorded says of a start
\* or stop, or everything is freed.
LEMMA TableSteps ==
  ASSUME [Next]_vars
  PROVE  \/ UNCHANGED <<processes, store_ready>>
         \/ /\ store_ready /\ UNCHANGED store_ready
            /\ \E e \in Reports : /\ e.type \in {"start", "stop"}
                                  /\ processes' = Recorded(processes, e)
         \/ store_ready /\ ~store_ready' /\ processes' = <<>>
<1>1. ASSUME NEW e \in Reports, Add(e)
      PROVE  \/ UNCHANGED <<processes, store_ready>>
             \/ /\ store_ready /\ UNCHANGED store_ready
                /\ e.type \in {"start", "stop"} /\ processes' = Recorded(processes, e)
  BY <1>1 DEF Add, CoalesceReport, AddRecord, DropTransition, StopRecord,
              CountNetwork, CountAlert, table
<1>2. CASE Destroy
  BY <1>2 DEF Destroy
<1>3. CASE UNCHANGED vars
  BY <1>3 DEF vars, table
<1> QED BY <1>1, <1>2, <1>3 DEF Next

LEMMA OnlyLearnsNext == TableInv /\ [Next]_vars => (store_ready' => OnlyLearns)
<1> SUFFICES ASSUME TableInv, [Next]_vars, store_ready' PROVE OnlyLearns
  OBVIOUS
<1>0. /\ processes \in Seq(Record(Names)) /\ Len(processes) \in Nat
      /\ DOMAIN processes = 1..Len(processes)
  BY LenProperties DEF TableInv, TypeOK
<1>1. CASE processes' = processes
  BY <1>1 DEF OnlyLearns
<1>2. ASSUME NEW e \in Reports, e.type \in {"start", "stop"},
             processes' = Recorded(processes, e),
             0 = FindProcess(processes, e.process)
      PROVE  OnlyLearns
  <2>1. /\ processes' \in Seq(Record(Names)) /\ Len(processes') = Len(processes) + 1
        /\ \A j \in 1..Len(processes) : processes'[j] = processes[j]
    BY <1>0, <1>2, ReportTypes, RecordedUnknown
  <2>2. DOMAIN processes' = 1..(Len(processes) + 1)
    BY <2>1, LenProperties
  <2> QED BY <1>0, <2>1, <2>2 DEF OnlyLearns
<1>3. ASSUME NEW e \in Reports, e.type \in {"start", "stop"},
             processes' = Recorded(processes, e),
             NEW i, i = FindProcess(processes, e.process), i # 0
      PROVE  OnlyLearns
  <2>1. /\ i \in 1..Len(processes)
        /\ processes' \in Seq(Record(Names)) /\ Len(processes') = Len(processes)
        /\ \A j \in 1..Len(processes) : j # i => processes'[j] = processes[j]
        /\ processes'[i].active = (processes[i].active /\ e.type = "start")
        /\ processes[i].name # NoName => processes'[i].name # NoName
        /\ processes[i].key.pid = e.process.pid
        /\ processes'[i].key = processes[i].key \/ processes'[i].key = e.process
        /\ processes[i].key.creation_time # 0 => processes'[i].key = processes[i].key
    BY <1>0, <1>3, ReportTypes, RecordedKnown
  <2>2. DOMAIN processes' = 1..Len(processes)
    BY <2>1, LenProperties
  <2>3. ~processes[i].active => ~processes'[i].active
    BY <2>1
  <2> QED BY <1>0, <2>1, <2>2, <2>3 DEF OnlyLearns
<1>4. ASSUME NEW e \in Reports, e.type \in {"start", "stop"},
             processes' = Recorded(processes, e)
      PROVE  OnlyLearns
  <2> DEFINE i == FindProcess(processes, e.process)
  <2> HIDE DEF i
  <2>1. i = FindProcess(processes, e.process)
    BY DEF i
  <2> QED BY <1>2, <1>3, <1>4, <2>1
<1>5. \/ processes' = processes
      \/ \E e \in Reports : /\ e.type \in {"start", "stop"}
                           /\ processes' = Recorded(processes, e)
  BY TableSteps
<1> QED BY <1>1, <1>4, <1>5

\* No report moves, blanks or revives a record, in any history.
THEOREM StoreOnlyLearns == Spec => RecordsOnlyLearn
<1>1. TableInv /\ [Next]_vars => [store_ready' => OnlyLearns]_vars
  BY OnlyLearnsNext
<1> QED BY TableInvInit, TableInvNext, <1>1, PTL DEF Spec, RecordsOnlyLearn

-----------------------------------------------------------------------------
\* How the status of an identity may move.
Advances(k) ==
  /\ StatusOf(k)' \in {"running", "stopped"}
  /\ \/ StatusOf(k) = "unseen"
     \/ StatusOf(k) = "running" /\ StatusOf(k)' = "stopped"

\* A report about a record in the table moves at most the record's identity.
LEMMA StatusAfterKnown ==
  ASSUME processes \in Seq(Record(Names)), SoundTable(processes),
         NEW e \in Reports, e.type \in {"start", "stop"},
         processes' = Recorded(processes, e),
         NEW i, i = FindProcess(processes, e.process), i # 0
  PROVE  \A k \in Identities :
           StatusOf(k)' # StatusOf(k) => k = processes'[i].key /\ Advances(k)
<1> DEFINE n == Len(processes)
<1>1. /\ i \in 1..n
      /\ processes' \in Seq(Record(Names)) /\ Len(processes') = n
      /\ \A j \in 1..n : j # i => processes'[j] = processes[j]
      /\ processes'[i].active = (processes[i].active /\ e.type = "start")
      /\ processes[i].key.pid = e.process.pid
      /\ processes'[i].key = processes[i].key \/ processes'[i].key = e.process
      /\ processes[i].key.creation_time # 0 => processes'[i].key = processes[i].key
  BY ReportTypes, RecordedKnown
<1>2. n \in Nat /\ DOMAIN processes = 1..n /\ DOMAIN processes' = 1..n
  BY <1>1, LenProperties
<1> HIDE DEF n
<1>3. SUFFICES ASSUME NEW k \in Identities, StatusOf(k)' # StatusOf(k)
               PROVE  k = processes'[i].key /\ Advances(k)
  OBVIOUS
<1>4. k.creation_time # 0
  BY DEF Identities
<1>5. k = processes'[i].key
  <2> SUFFICES ASSUME k # processes'[i].key PROVE StatusOf(k)' = StatusOf(k)
    BY <1>3
  <2>1. k # processes[i].key
    BY <1>1, <1>4
  <2>2. \A j \in 1..n : processes'[j].key = k <=> processes[j].key = k
    BY <1>1, <2>1
  <2>3. SameIdentity(processes, k)' = SameIdentity(processes, k)
    BY <1>2, <2>2 DEF SameIdentity
  <2>4. \A j \in SameIdentity(processes, k) : processes'[j] = processes[j]
    BY <1>1, <1>2, <2>1 DEF SameIdentity
  <2> QED BY <2>3, <2>4 DEF StatusOf
<1>6. StatusOf(k)' = IF processes'[i].active THEN "running" ELSE "stopped"
  <2>1. SoundTable(processes')
    BY <1>1, ReportTypes, SoundAfterKnown
  <2>2. SameIdentity(processes, k)' = {i}
    BY <1>1, <1>2, <1>4, <1>5, <2>1 DEF SameIdentity, SoundTable, UniqueIdentities
  <2> QED BY <2>2 DEF StatusOf
<1>7. CASE processes[i].key = k
  <2>1. SameIdentity(processes, k) = {i}
    BY <1>1, <1>2, <1>4, <1>7 DEF SameIdentity, SoundTable, UniqueIdentities
  <2>2. StatusOf(k) = IF processes[i].active THEN "running" ELSE "stopped"
    BY <2>1 DEF StatusOf
  <2>3. processes[i].active /\ ~processes'[i].active
    BY <1>1, <1>3, <1>6, <2>2
  <2> QED BY <1>5, <1>6, <2>2, <2>3 DEF Advances
<1>8. CASE processes[i].key # k
  <2>1. k = e.process
    BY <1>1, <1>5, <1>8
  <2>2. i \notin SameIdentity(processes, e.process)
    BY <1>8, <2>1 DEF SameIdentity
  <2>3. SameIdentity(processes, e.process) = {}
    BY <2>2, ReportTypes, FindProcessProperties
  <2>4. StatusOf(k) = "unseen"
    BY <2>1, <2>3 DEF StatusOf
  <2> QED BY <1>5, <1>6, <2>4 DEF Advances
<1> QED BY <1>7, <1>8

\* A report about no record in the table moves at most its own identity.
LEMMA StatusAfterUnknown ==
  ASSUME processes \in Seq(Record(Names)),
         NEW e \in Reports, e.type \in {"start", "stop"},
         processes' = Recorded(processes, e),
         0 = FindProcess(processes, e.process)
  PROVE  \A k \in Identities :
           StatusOf(k)' # StatusOf(k) => k = e.process /\ Advances(k)
<1> DEFINE n == Len(processes)
<1>1. /\ processes' \in Seq(Record(Names)) /\ Len(processes') = n + 1
      /\ \A j \in 1..n : processes'[j] = processes[j]
      /\ processes'[n + 1].key = e.process
      /\ processes'[n + 1].active = (e.type = "start")
  BY ReportTypes, RecordedUnknown
<1>2. n \in Nat /\ DOMAIN processes = 1..n /\ DOMAIN processes' = 1..(n + 1)
  BY <1>1, LenProperties
<1> HIDE DEF n
<1>3. SUFFICES ASSUME NEW k \in Identities, StatusOf(k)' # StatusOf(k)
               PROVE  k = e.process /\ Advances(k)
  OBVIOUS
<1>4. k.creation_time # 0
  BY DEF Identities
<1>5. k = e.process
  <2> SUFFICES ASSUME k # e.process PROVE StatusOf(k)' = StatusOf(k)
    BY <1>3
  <2>1. SameIdentity(processes, k)' = SameIdentity(processes, k)
    BY <1>1, <1>2 DEF SameIdentity
  <2>2. \A j \in SameIdentity(processes, k) : processes'[j] = processes[j]
    BY <1>1, <1>2 DEF SameIdentity
  <2> QED BY <2>1, <2>2 DEF StatusOf
<1>6. e.process.pid # 0
  BY <1>4, <1>5, ReportTypes
<1>7. SameIdentity(processes, k) = {}
  BY <1>5, <1>6, ReportTypes, FindProcessProperties
<1>8. SameIdentity(processes, k)' = {n + 1}
  BY <1>1, <1>2, <1>4, <1>5, <1>7 DEF SameIdentity
<1>9. /\ StatusOf(k) = "unseen"
      /\ StatusOf(k)' = IF processes'[n + 1].active THEN "running" ELSE "stopped"
  BY <1>7, <1>8 DEF StatusOf
<1> QED BY <1>5, <1>9 DEF Advances

\* Every step of the store is a step of the ledger or changes nothing in it.
LEMMA StoreStepsLedger ==
  TableInv /\ [Next]_vars => [Ledger!Next]_<<LedgerStatus, store_ready>>
<1> SUFFICES ASSUME TableInv, [Next]_vars
             PROVE  [Ledger!Next]_<<LedgerStatus, store_ready>>
  OBVIOUS
<1>0. processes \in Seq(Record(Names)) /\ SoundTable(processes)
  BY DEF TableInv, TypeOK
<1>1. CASE UNCHANGED <<processes, store_ready>>
  BY <1>1 DEF LedgerStatus, StatusOf, SameIdentity
<1>2. ASSUME NEW e \in Reports, e.type \in {"start", "stop"},
             processes' = Recorded(processes, e), store_ready, UNCHANGED store_ready
      PROVE  [Ledger!Next]_<<LedgerStatus, store_ready>>
  <2>1. \E key : \A k \in Identities :
          StatusOf(k)' # StatusOf(k) => k = key /\ Advances(k)
    <3> DEFINE i == FindProcess(processes, e.process)
    <3> HIDE DEF i
    <3>1. i = FindProcess(processes, e.process)
      BY DEF i
    <3>2. CASE i = 0
      <4>1. \A k \in Identities :
              StatusOf(k)' # StatusOf(k) => k = e.process /\ Advances(k)
        BY <1>0, <1>2, <3>1, <3>2, StatusAfterUnknown
      <4> QED BY <4>1
    <3>3. CASE i # 0
      <4>1. \A k \in Identities :
              StatusOf(k)' # StatusOf(k) => k = processes'[i].key /\ Advances(k)
        BY <1>0, <1>2, <3>1, <3>3, StatusAfterKnown
      <4> QED BY <4>1
    <3> QED BY <3>2, <3>3
  <2>2. CASE \A k \in Identities : StatusOf(k)' = StatusOf(k)
    BY <1>2, <2>2 DEF LedgerStatus
  <2>3. ASSUME NEW k \in Identities, StatusOf(k)' # StatusOf(k)
        PROVE  Ledger!Next
    <3>1. Advances(k)
      BY <2>1, <2>3
    <3>2. \A other \in Identities : other # k => StatusOf(other)' = StatusOf(other)
      BY <2>1, <2>3
    <3>3. LedgerStatus' = [LedgerStatus EXCEPT ![k] = StatusOf(k)']
      BY <3>2 DEF LedgerStatus
    <3>4. LedgerStatus[k] = StatusOf(k)
      BY DEF LedgerStatus
    <3>5. Ledger!Start(k) \/ Ledger!Stop(k)
      BY <3>1, <3>3, <3>4 DEF Advances, Ledger!Start, Ledger!Stop
    <3> QED BY <1>2, <3>5 DEF Ledger!Next
  <2> QED BY <2>2, <2>3
<1>3. CASE store_ready /\ ~store_ready' /\ processes' = <<>>
  <2>1. store_ready' = FALSE
    BY <1>3, TableInvNext DEF TableInv, TypeOK
  <2>2. \A k : SameIdentity(processes, k)' = {}
    BY <1>3 DEF SameIdentity
  <2>3. LedgerStatus' = [k \in Identities |-> "unseen"]
    BY <2>2 DEF LedgerStatus, StatusOf
  <2> QED BY <1>3, <2>1, <2>3 DEF Ledger!Next, Ledger!Close
<1> QED BY <1>1, <1>2, <1>3, TableSteps

\* event_store_add keeps a ledger of process lives: seen from the identities
\* it knows, each process runs at most once and never returns.
THEOREM StoreImplementsLedger == Spec => ImplementsLedger
<1>1. Init => Ledger!Init
  <2> SUFFICES ASSUME Init PROVE Ledger!Init
    OBVIOUS
  <2>1. processes = <<>> /\ store_ready = TRUE
    BY DEF Init, Zeroed
  <2>2. \A k : SameIdentity(processes, k) = {}
    BY <2>1 DEF SameIdentity
  <2>3. LedgerStatus = [k \in Identities |-> "unseen"]
    BY <2>2 DEF LedgerStatus, StatusOf
  <2> QED BY <2>1, <2>3 DEF Ledger!Init
<1> QED BY TableInvInit, TableInvNext, StoreStepsLedger, <1>1, PTL
        DEF Spec, ImplementsLedger, Ledger!Spec

-----------------------------------------------------------------------------
Transitions(j) == events[j].type \in {"start", "stop"}

\* What the table remembers of the history: the process of every start or
\* stop in it has a record, which is not running once the stop is there.
\* Without this, a report could be accepted twice.
HistoryInTable ==
  \A j \in DOMAIN events :
    Transitions(j) /\ events[j].process.creation_time # 0 =>
      \E i \in DOMAIN processes :
        /\ processes[i].key = events[j].process
        /\ events[j].type = "stop" => ~processes[i].active

LifeInv == TableInv /\ HistoryInTable /\ OneLifePerIdentity

\* How a step changes the history: not at all, by one report, or by freeing it.
LEMMA HistorySteps ==
  ASSUME [Next]_vars
  PROVE  \/ UNCHANGED events
         \/ events' = <<>> /\ ~store_ready'
         \/ /\ store_ready'
            /\ \E e \in Reports :
                 /\ events' = Append(events, e)
                 /\ \/ e.type \notin {"start", "stop"}
                    \/ /\ e.type \in {"start", "stop"}
                       /\ processes' = Recorded(processes, e)
                       /\ \/ FindProcess(processes, e.process) = 0
                          \/ /\ e.type = "stop"
                             /\ ~Coalesced(processes, e)
                             /\ FindProcess(processes, e.process) # 0
<1>1. ASSUME NEW e \in Reports, Add(e), ~UNCHANGED events
      PROVE  /\ store_ready' /\ events' = Append(events, e)
             /\ \/ e.type \notin {"start", "stop"}
                \/ /\ e.type \in {"start", "stop"}
                   /\ processes' = Recorded(processes, e)
                   /\ \/ FindProcess(processes, e.process) = 0
                      \/ /\ e.type = "stop"
                         /\ ~Coalesced(processes, e)
                         /\ FindProcess(processes, e.process) # 0
  BY <1>1 DEF Add, CoalesceReport, AddRecord, DropTransition, StopRecord,
              CountNetwork, CountAlert, Store, storage
<1>2. CASE Destroy
  BY <1>2 DEF Destroy
<1>3. CASE UNCHANGED vars
  BY <1>3 DEF vars, storage
<1> QED BY <1>1, <1>2, <1>3 DEF Next

\* What the table remembers it goes on remembering.
LEMMA MemoryKept ==
  ASSUME HistoryInTable, OnlyLearns, NEW j \in DOMAIN events,
         Transitions(j), events[j].process.creation_time # 0
  PROVE  \E i \in DOMAIN processes' :
           /\ processes'[i].key = events[j].process
           /\ events[j].type = "stop" => ~processes'[i].active
<1>1. PICK i \in DOMAIN processes :
        /\ processes[i].key = events[j].process
        /\ events[j].type = "stop" => ~processes[i].active
  BY DEF HistoryInTable
<1> QED BY <1>1 DEF OnlyLearns

\* The record of a start or stop that was accepted.
LEMMA AcceptedIsRecorded ==
  ASSUME processes \in Seq(Record(Names)),
         NEW e \in Reports, e.type \in {"start", "stop"},
         processes' = Recorded(processes, e),
         e.process.creation_time # 0,
         FindProcess(processes, e.process) = 0 \/ e.type = "stop"
  PROVE  \E i \in DOMAIN processes' :
           /\ processes'[i].key = e.process
           /\ e.type = "stop" => ~processes'[i].active
<1> DEFINE i == FindProcess(processes, e.process)
<1> HIDE DEF i
<1>1. i = FindProcess(processes, e.process)
  BY DEF i
<1>2. CASE i = 0
  <2>0. 0 = FindProcess(processes, e.process)
    BY <1>1, <1>2
  <2>1. /\ Len(processes) \in Nat
        /\ processes' \in Seq(Record(Names)) /\ Len(processes') = Len(processes) + 1
        /\ processes'[Len(processes) + 1].key = e.process
        /\ processes'[Len(processes) + 1].active = (e.type = "start")
    BY <2>0, ReportTypes, RecordedUnknown, LenProperties
  <2>2. Len(processes) + 1 \in DOMAIN processes'
    BY <2>1, LenProperties
  <2> QED BY <2>1, <2>2
<1>3. CASE i # 0
  <2>1. /\ i \in 1..Len(processes)
        /\ processes' \in Seq(Record(Names)) /\ Len(processes') = Len(processes)
        /\ processes'[i].key = e.process
        /\ processes'[i].active = (processes[i].active /\ e.type = "start")
    BY <1>1, <1>3, ReportTypes, RecordedKnown
  <2>2. i \in DOMAIN processes'
    BY <2>1, LenProperties
  <2> QED BY <1>1, <1>3, <2>1, <2>2
<1> QED BY <1>2, <1>3

\* An accepted report is the first about its process, or the stop after the
\* start.
LEMMA AcceptedFollowsStart ==
  ASSUME LifeInv, NEW e \in Reports, e.type \in {"start", "stop"},
         e.process.creation_time # 0,
         \/ FindProcess(processes, e.process) = 0
         \/ /\ e.type = "stop"
            /\ ~Coalesced(processes, e)
            /\ FindProcess(processes, e.process) # 0,
         NEW j \in DOMAIN events, Transitions(j), events[j].process = e.process
  PROVE  events[j].type = "start" /\ e.type = "stop"
<1> DEFINE i == FindProcess(processes, e.process)
<1> HIDE DEF i
<1>1. i = FindProcess(processes, e.process)
  BY DEF i
<1>2. processes \in Seq(Record(Names)) /\ SoundTable(processes)
  BY DEF LifeInv, TableInv, TypeOK
<1>3. PICK r \in DOMAIN processes :
        /\ processes[r].key = e.process
        /\ events[j].type = "stop" => ~processes[r].active
  BY DEF LifeInv, HistoryInTable
<1>4. r \in SameIdentity(processes, e.process)
  BY <1>3 DEF SameIdentity
<1>5. i # 0
  <2>1. e.process.pid # 0
    BY ReportTypes
  <2> QED BY <1>1, <1>2, <1>4, <2>1, ReportTypes, FindProcessProperties
<1>6. i \in SameIdentity(processes, e.process)
  BY <1>1, <1>2, <1>4, <1>5, ReportTypes, FindProcessProperties
<1>7. i = r
  BY <1>2, <1>3, <1>6 DEF SameIdentity, SoundTable, UniqueIdentities
<1>8. e.type = "stop" /\ ~Coalesced(processes, e)
  BY <1>1, <1>5
<1>9. processes[i].active
  BY <1>1, <1>5, <1>8, CoalescedMeans
<1> QED BY <1>3, <1>7, <1>8, <1>9 DEF Transitions

LEMMA LifeInvNext == LifeInv /\ [Next]_vars => LifeInv'
<1> SUFFICES ASSUME LifeInv, [Next]_vars PROVE LifeInv'
  OBVIOUS
<1>0. /\ TableInv /\ TableInv'
      /\ processes \in Seq(Record(Names)) /\ events \in Seq(Reports)
      /\ Len(events) \in Nat /\ DOMAIN events = 1..Len(events)
  BY TableInvNext, LenProperties DEF LifeInv, TableInv, TypeOK
<1>1. CASE events' = <<>>
  <2>1. DOMAIN events' = {}
    BY <1>1
  <2> QED BY <1>0, <2>1 DEF LifeInv, HistoryInTable, OneLifePerIdentity
<1>2. CASE UNCHANGED events /\ store_ready'
  <2>1. OnlyLearns
    BY <1>0, <1>2, OnlyLearnsNext
  <2>2. \A j \in DOMAIN events :
          Transitions(j) /\ events[j].process.creation_time # 0 =>
            \E i \in DOMAIN processes' :
              /\ processes'[i].key = events[j].process
              /\ events[j].type = "stop" => ~processes'[i].active
    BY <2>1, MemoryKept DEF LifeInv
  <2>3. HistoryInTable'
    BY <1>2, <2>2 DEF HistoryInTable, Transitions
  <2> QED BY <1>0, <1>2, <2>3 DEF LifeInv, OneLifePerIdentity
<1>3. CASE UNCHANGED events /\ ~store_ready'
  <2>1. (processes' = <<>> /\ events' = <<>>) \/ UNCHANGED <<processes, events>>
    BY <1>3 DEF Next, Add, Destroy, vars, storage, table
  <2> QED BY <1>0, <1>1, <1>3, <2>1
          DEF LifeInv, HistoryInTable, OneLifePerIdentity, Transitions
<1>4. ASSUME NEW e \in Reports, events' = Append(events, e), store_ready',
             \/ e.type \notin {"start", "stop"}
             \/ /\ e.type \in {"start", "stop"}
                /\ processes' = Recorded(processes, e)
                /\ \/ FindProcess(processes, e.process) = 0
                   \/ /\ e.type = "stop"
                      /\ ~Coalesced(processes, e)
                      /\ FindProcess(processes, e.process) # 0
      PROVE  LifeInv'
  <2> DEFINE n == Len(events)
  <2>1. /\ n \in Nat /\ DOMAIN events = 1..n /\ DOMAIN events' = 1..(n + 1)
        /\ \A j \in 1..n : events'[j] = events[j]
        /\ events'[n + 1] = e
    BY <1>0, <1>4, AppendProperties, LenProperties
  <2> HIDE DEF n
  <2>2. HistoryInTable'
    <3> SUFFICES ASSUME NEW j \in 1..(n + 1), events'[j].type \in {"start", "stop"},
                        events'[j].process.creation_time # 0
                 PROVE  \E i \in DOMAIN processes' :
                          /\ processes'[i].key = events'[j].process
                          /\ events'[j].type = "stop" => ~processes'[i].active
      BY <2>1 DEF HistoryInTable, Transitions
    <3>1. CASE j \in 1..n
      <4>1. OnlyLearns
        BY <1>0, <1>4, OnlyLearnsNext
      <4>2. events'[j] = events[j] /\ j \in DOMAIN events /\ Transitions(j)
        BY <2>1, <3>1 DEF Transitions
      <4> QED BY <4>1, <4>2, MemoryKept DEF LifeInv
    <3>2. CASE j = n + 1
      BY <1>0, <1>4, <2>1, <3>2, AcceptedIsRecorded
    <3> QED BY <2>1, <3>1, <3>2
  <2>3. OneLifePerIdentity'
    <3> SUFFICES ASSUME NEW i \in 1..(n + 1), NEW j \in 1..(n + 1), i < j,
                        {events'[i].type, events'[j].type} \subseteq {"start", "stop"},
                        events'[i].process = events'[j].process,
                        events'[i].process.creation_time # 0
                 PROVE  events'[i].type = "start" /\ events'[j].type = "stop"
      BY <2>1 DEF OneLifePerIdentity
    <3>1. CASE j \in 1..n
      <4>1. i \in 1..n
        BY <2>1, <3>1
      <4>2. events'[i] = events[i] /\ events'[j] = events[j]
        BY <2>1, <3>1, <4>1
      <4> QED BY <2>1, <3>1, <4>1, <4>2 DEF LifeInv, OneLifePerIdentity
    <3>2. CASE j = n + 1
      <4>1. i \in 1..n
        BY <2>1, <3>2
      <4>2. events'[i] = events[i] /\ events'[j] = e /\ Transitions(i) /\ i \in DOMAIN events
        BY <2>1, <3>2, <4>1 DEF Transitions
      <4> QED BY <1>4, <4>2, AcceptedFollowsStart
    <3> QED BY <2>1, <3>1, <3>2
  <2> QED BY <1>0, <2>2, <2>3 DEF LifeInv
<1> QED BY <1>1, <1>2, <1>3, <1>4, HistorySteps

\* The history holds at most one start and then one stop of each identity.
THEOREM StoreTellsOneLife == Spec => []OneLifePerIdentity
<1>1. Init => LifeInv
  <2> SUFFICES ASSUME Init PROVE LifeInv
    OBVIOUS
  <2>1. DOMAIN events = {}
    BY DEF Init, Zeroed
  <2> QED BY <2>1, TableInvInit DEF LifeInv, HistoryInTable, OneLifePerIdentity
<1>2. LifeInv => OneLifePerIdentity
  BY DEF LifeInv
<1> QED BY LifeInvNext, <1>1, <1>2, PTL DEF Spec

-----------------------------------------------------------------------------
(* What the Overview counts is what the history holds *)

\* The report that made a record is in the history; it had the record's creation
\* time, or none when the record has learned its time since.
Told ==
  \A i \in ActiveRecords(processes) : \E j \in DOMAIN events :
    /\ events[j].type = "start" /\ events[j].process.pid = processes[i].key.pid
    /\ events[j].process.creation_time \in {0, processes[i].key.creation_time}

HistoryInv ==
  ~drop_logged => /\ network_count = CountOf("network") /\ alert_count = CountOf("alert")
                  /\ active_process_count <= CountOf("start")
                  /\ Told

CountIn(s, type) == Cardinality({i \in DOMAIN s : s[i].type = type})

LEMMA CountFinite ==
  ASSUME NEW S, NEW s \in Seq(S), NEW type
  PROVE  /\ IsFiniteSet({i \in DOMAIN s : s[i].type = type})
         /\ CountIn(s, type) \in Nat
<1>1. Len(s) \in Nat /\ DOMAIN s = 1..Len(s)
  BY LenProperties
<1>2. IsFiniteSet(1..Len(s))
  BY <1>1, FS_Interval
<1>3. IsFiniteSet({i \in DOMAIN s : s[i].type = type})
  BY <1>1, <1>2, FS_Subset
<1> QED BY <1>3, FS_CardinalityType DEF CountIn

LEMMA CountAppended ==
  ASSUME NEW S, NEW s \in Seq(S), NEW e \in S, NEW type
  PROVE  CountIn(Append(s, e), type) = CountIn(s, type) + (IF e.type = type THEN 1 ELSE 0)
<1> DEFINE n == Len(s)
           t == Append(s, e)
           old == {i \in DOMAIN s : s[i].type = type}
           new == {i \in DOMAIN t : t[i].type = type}
<1>1. n \in Nat /\ DOMAIN s = 1..n
  BY LenProperties
<1>2. DOMAIN t = 1..(n + 1) /\ t[n + 1] = e /\ \A i \in 1..n : t[i] = s[i]
  <2>1. t \in Seq(S) /\ Len(t) = n + 1 /\ t[n + 1] = e /\ \A i \in 1..n : t[i] = s[i]
    BY AppendProperties
  <2> HIDE DEF t
  <2> QED BY <2>1, LenProperties
<1>3. IsFiniteSet(old) /\ Cardinality(old) \in Nat
  BY CountFinite DEF CountIn
<1>4. n + 1 \notin old
  BY <1>1
<1> HIDE DEF n, t
<1>5. new = IF e.type = type THEN old \cup {n + 1} ELSE old
  <2>1. \A i : i \in new <=> i \in old \/ (i = n + 1 /\ e.type = type)
    BY <1>1, <1>2
  <2> HIDE DEF new, old
  <2> QED BY <2>1
<1>6. Cardinality(new) = Cardinality(old) + (IF e.type = type THEN 1 ELSE 0)
  <2> HIDE DEF new, old
  <2>1. Cardinality(old \cup {n + 1}) = Cardinality(old) + 1
    BY <1>3, <1>4, FS_AddElement
  <2> QED BY <1>3, <1>5, <2>1
<1> QED BY <1>6 DEF t, CountIn

\* What an event that is stored does to the counts of the history.
LEMMA StoreCounts ==
  ASSUME TypeOK, NEW e \in Reports, Store(e), ~drop_logged'
  PROVE  /\ ~drop_logged
         /\ \A type : CountOf(type) \in Nat
         /\ \A type : CountOf(type)' = CountOf(type) + (IF e.type = type THEN 1 ELSE 0)
         /\ \A j \in DOMAIN events : j \in DOMAIN events' /\ events'[j] = events[j]
         /\ \E j \in DOMAIN events' : events'[j] = e
<1>1. events' = Append(events, e) /\ ~drop_logged /\ events \in Seq(Reports)
  BY DEF Store, TypeOK
<1>2. \A type : CountOf(type) \in Nat
  BY <1>1, CountFinite DEF CountOf, CountIn
<1>3. \A type : CountOf(type)' = CountOf(type) + (IF e.type = type THEN 1 ELSE 0)
  <2> TAKE type
  <2>1. CountIn(Append(events, e), type)
           = CountIn(events, type) + (IF e.type = type THEN 1 ELSE 0)
    BY <1>1, CountAppended
  <2>2. CountOf(type) = CountIn(events, type) /\ CountOf(type)' = CountIn(events', type)
    BY DEF CountOf, CountIn
  <2> QED BY <1>1, <2>1, <2>2
<1>4. /\ Len(events) \in Nat /\ DOMAIN events = 1..Len(events)
      /\ events' \in Seq(Reports) /\ Len(events') = Len(events) + 1
      /\ \A j \in 1..Len(events) : events'[j] = events[j]
      /\ events'[Len(events) + 1] = e
  BY <1>1, LenProperties, AppendProperties
<1>5. DOMAIN events' = 1..(Len(events) + 1)
  BY <1>4, LenProperties
<1> QED BY <1>1, <1>2, <1>3, <1>4, <1>5

LEMMA HistoryInvNext == TableInv /\ HistoryInv /\ [Next]_vars => HistoryInv'
<1> SUFFICES ASSUME TableInv, HistoryInv, [Next]_vars, ~drop_logged'
             PROVE  /\ network_count' = CountOf("network")' /\ alert_count' = CountOf("alert")'
                    /\ active_process_count' <= CountOf("start")'
                    /\ Told'
  BY DEF HistoryInv
<1>0. /\ TypeOK /\ processes \in Seq(Record(Names)) /\ active_process_count \in Nat
      /\ network_count \in Nat /\ alert_count \in Nat
      /\ DOMAIN processes = 1..Len(processes)
  BY LenProperties DEF TableInv, TypeOK
<1>1. ASSUME ~drop_logged
      PROVE  /\ network_count = CountOf("network") /\ alert_count = CountOf("alert")
             /\ active_process_count <= CountOf("start") /\ Told
  BY <1>1 DEF HistoryInv
\* Every record that runs afterwards ran before, with the time it has or none, or is
\* the one that the event has made.
<1>2. ASSUME NEW e \in Reports, e.type \in {"start", "stop"},
             processes' = Recorded(processes, e),
             NEW i \in ActiveRecords(processes')
      PROVE  \/ /\ i \in ActiveRecords(processes)
                /\ processes'[i].key.pid = processes[i].key.pid
                /\ processes[i].key.creation_time \in {0, processes'[i].key.creation_time}
             \/ /\ FindProcess(processes, e.process) = 0 /\ e.type = "start"
                /\ processes'[i].key = e.process
  <2> DEFINE k == FindProcess(processes, e.process)
  <2>1. k = FindProcess(processes, e.process)
    OBVIOUS
  <2> HIDE DEF k
  <2>2. ActiveRecords(processes') =
          IF k = 0 THEN IF e.type = "start"
                        THEN ActiveRecords(processes) \cup {Len(processes) + 1}
                        ELSE ActiveRecords(processes)
          ELSE IF e.type = "start" THEN ActiveRecords(processes)
          ELSE ActiveRecords(processes) \ {k}
    BY <1>0, <1>2, <2>1, ReportTypes, RunningAfter
  <2>3. ActiveRecords(processes) \subseteq 1..Len(processes)
    BY <1>0 DEF ActiveRecords
  <2>5. CASE k = 0
    <3>1. /\ \A j \in 1..Len(processes) : processes'[j] = processes[j]
          /\ processes'[Len(processes) + 1].key = e.process
      <4>1. 0 = FindProcess(processes, e.process)
        BY <2>1, <2>5
      <4>2. /\ e.process \in ProcessKey /\ e.parent \in ProcessKey /\ e.name \in Names
        BY ReportTypes
      <4> QED BY <1>0, <1>2, <4>1, <4>2, RecordedUnknown
    <3> QED BY <1>2, <2>1, <2>2, <2>3, <2>5, <3>1
  <2>6. CASE k # 0
    <3>1. /\ \A j \in 1..Len(processes) : j # k => processes'[j] = processes[j]
          /\ processes[k].key.pid = e.process.pid
          /\ processes'[k].key = processes[k].key \/ processes'[k].key = e.process
          /\ processes[k].key.creation_time # 0 => processes'[k].key = processes[k].key
      BY <1>0, <1>2, <2>1, <2>6, ReportTypes, RecordedKnown
    <3>2. i \in ActiveRecords(processes) /\ i \in 1..Len(processes)
      BY <1>2, <2>2, <2>3, <2>6
    <3> QED BY <3>1, <3>2
  <2> QED BY <2>5, <2>6
<1>3. ASSUME NEW e \in Reports, e.type \in {"start", "stop"}, CoalesceReport(e)
      PROVE  /\ network_count' = CountOf("network")' /\ alert_count' = CountOf("alert")'
             /\ active_process_count' <= CountOf("start")'
             /\ Told'
  <2>1. /\ UNCHANGED <<events, active_process_count, network_count, alert_count, drop_logged>>
        /\ processes' = Recorded(processes, e) /\ FindProcess(processes, e.process) # 0
    BY <1>3 DEF CoalesceReport, Coalesced, storage, tallies
  <2>2. Told'
    BY <1>1, <1>2, <1>3, <2>1 DEF Told
  <2> QED BY <1>1, <2>1, <2>2 DEF CountOf
<1>4. ASSUME NEW e \in Reports, e.type \in {"start", "stop"}, AddRecord(e) \/ StopRecord(e)
      PROVE  /\ network_count' = CountOf("network")' /\ alert_count' = CountOf("alert")'
             /\ active_process_count' <= CountOf("start")'
             /\ Told'
  <2>1. /\ Store(e) /\ UNCHANGED tallies /\ processes' = Recorded(processes, e)
        /\ active_process_count' <= active_process_count + (IF e.type = "start" THEN 1 ELSE 0)
        /\ active_process_count' \in Nat
    BY <1>0, <1>4 DEF AddRecord, StopRecord
  <2>2. /\ ~drop_logged
        /\ \A type : CountOf(type) \in Nat
        /\ \A type : CountOf(type)' = CountOf(type) + (IF e.type = type THEN 1 ELSE 0)
        /\ \A j \in DOMAIN events : j \in DOMAIN events' /\ events'[j] = events[j]
        /\ \E j \in DOMAIN events' : events'[j] = e
    BY <1>0, <2>1, StoreCounts
  <2>3. Told'
    <3> SUFFICES ASSUME NEW i \in ActiveRecords(processes')
                 PROVE  \E j \in DOMAIN events' :
                          /\ events'[j].type = "start"
                          /\ events'[j].process.pid = processes'[i].key.pid
                          /\ events'[j].process.creation_time
                               \in {0, processes'[i].key.creation_time}
      BY DEF Told
    <3>1. CASE e.type = "start" /\ processes'[i].key = e.process
      BY <2>2, <3>1
    <3>2. CASE /\ i \in ActiveRecords(processes)
               /\ processes'[i].key.pid = processes[i].key.pid
               /\ processes[i].key.creation_time \in {0, processes'[i].key.creation_time}
      <4>1. PICK j \in DOMAIN events :
              /\ events[j].type = "start" /\ events[j].process.pid = processes[i].key.pid
              /\ events[j].process.creation_time \in {0, processes[i].key.creation_time}
        BY <1>1, <2>2, <3>2 DEF Told
      <4> QED BY <2>2, <3>2, <4>1
    <3> QED BY <1>2, <1>4, <2>1, <3>1, <3>2
  <2>4. active_process_count' <= CountOf("start")'
    BY <1>0, <1>1, <2>1, <2>2
  <2>5. network_count' = CountOf("network")' /\ alert_count' = CountOf("alert")'
    BY <1>1, <1>4, <2>1, <2>2 DEF tallies
  <2> QED BY <2>3, <2>4, <2>5
<1>5. ASSUME NEW e \in Reports, CountNetwork(e) \/ CountAlert(e)
      PROVE  /\ network_count' = CountOf("network")' /\ alert_count' = CountOf("alert")'
             /\ active_process_count' <= CountOf("start")'
             /\ Told'
  <2>1. Store(e) /\ UNCHANGED table
    BY <1>5 DEF CountNetwork, CountAlert
  <2>2. /\ ~drop_logged
        /\ \A type : CountOf(type) \in Nat
        /\ \A type : CountOf(type)' = CountOf(type) + (IF e.type = type THEN 1 ELSE 0)
        /\ \A j \in DOMAIN events : j \in DOMAIN events' /\ events'[j] = events[j]
    BY <1>0, <2>1, StoreCounts
  <2>3. Told'
    BY <1>1, <2>1, <2>2 DEF Told, table, ActiveRecords
  <2>4. active_process_count' <= CountOf("start")'
    BY <1>0, <1>1, <1>5, <2>1, <2>2 DEF table, CountNetwork, CountAlert
  <2>5. network_count' = CountOf("network")' /\ alert_count' = CountOf("alert")'
    BY <1>1, <1>5, <2>2 DEF CountNetwork, CountAlert
  <2> QED BY <2>3, <2>4, <2>5
<1>6. CASE Destroy
  <2>1. /\ events' = <<>> /\ processes' = <<>> /\ active_process_count' = 0
        /\ network_count' = 0 /\ alert_count' = 0
    BY <1>6 DEF Destroy
  <2>2. \A type : CountOf(type)' = 0
    <3>1. \A type : {i \in DOMAIN events' : events'[i].type = type} = {}
      BY <2>1
    <3> QED BY <3>1, FS_EmptySet DEF CountOf
  <2> QED BY <2>1, <2>2 DEF Told, ActiveRecords
<1>7. CASE UNCHANGED vars
  <2>1. UNCHANGED <<events, processes, active_process_count, network_count, alert_count,
                    drop_logged>>
    BY <1>7 DEF vars, storage, table, tallies
  <2> QED BY <1>1, <2>1 DEF Told, ActiveRecords, CountOf
<1>8. ASSUME NEW e \in Reports, DropTransition(e) PROVE FALSE
  BY <1>8 DEF DropTransition
<1> QED BY <1>3, <1>4, <1>5, <1>6, <1>7, <1>8 DEF Next, Add

\* The Overview's counters are what the history holds, and a process it counts as active
\* has its start there, whatever is reported in whatever order, until an allocation fails.
THEOREM StoreCountersMatch == Spec => []CountersMatchHistory
<1>1. Init => HistoryInv
  <2> SUFFICES ASSUME Init PROVE HistoryInv
    OBVIOUS
  <2>1. events = <<>> /\ processes = <<>> /\ active_process_count = 0
        /\ network_count = 0 /\ alert_count = 0
    BY DEF Init, Zeroed
  <2>2. \A type : CountOf(type) = 0
    <3>1. \A type : {i \in DOMAIN events : events[i].type = type} = {}
      BY <2>1
    <3> QED BY <3>1, FS_EmptySet DEF CountOf
  <2> QED BY <2>1, <2>2 DEF HistoryInv, Told, ActiveRecords
<1>2. HistoryInv => CountersMatchHistory
  BY DEF HistoryInv, CountersMatchHistory, Told, ProcessKeysMatch
<1> QED BY TableInvInit, TableInvNext, HistoryInvNext, <1>1, <1>2, PTL DEF Spec
===============================================================================
