------------------------ MODULE ProcessTelemetryProofs ------------------------
(***************************************************************************)
(* What the process table shows, for any number of processes, whichever of *)
(* them hide their creation time, however the threads interleave, and for  *)
(* any backlog of the queue: whose record it is, under which parent, that   *)
(* no process is marked stopped before its end, and that once every report *)
(* has been handled the running records are the running processes.         *)
(***************************************************************************)
EXTENDS ProcessTelemetry, ProcessRecordsProofs

-----------------------------------------------------------------------------
(* Types, and what every identity stands for *)

\* A key with a creation time is that of a process there was, and has its PID.
Real(key) ==
  /\ key \in ProcessKey
  /\ key.creation_time # 0 => /\ key.pid # 0
                              /\ key.creation_time \in 1..started
                              /\ env.pids[key.creation_time] = key.pid

\* A report's own key, which may name the wrong process when its PID could not be
\* decoded.
Claimed(key) ==
  /\ key \in ProcessKey
  /\ key.creation_time # 0 =>
       /\ key.pid # 0
       /\ key.creation_time \in 1..started
       /\ "pid" \notin env.undecoded => env.pids[key.creation_time] = key.pid

\* The creation time that a query about a running process gives.
Known(l) == IF l \in env.hidden \/ env.pids[l] = 0 THEN 0 ELSE l

\* The identity of a process's parent, as long as it can be had.
KnownParent(l) ==
  IF env.parents[l] = 0 THEN NoKey ELSE KeyOf(env.parents[l], Known(env.parents[l]))

\* The parent of a report about l, or of a record of it.
ParentFits(l, parent) == parent.pid \in {0, ParentPid(l)}

ParentsDecoded == env.undecoded \cap {"pid", "parent"} = {}

Queryable(l) == l # 0 => l \in Alive \ env.hidden

ReportOK(e) ==
  /\ e \in Reported
  /\ Claimed(e.process) /\ Real(e.parent)
  /\ e.life \in 1..started /\ e.process.pid = env.pids[e.life]
  /\ e.type = "stop" => e.life \in gone
  /\ ParentsDecoded =>
       /\ ParentFits(e.life, e.parent)
       /\ e.type = "start" /\ Queryable(env.parents[e.life]) => e.parent = KnownParent(e.life)

EntryOK(x) ==
  /\ x \in [key : ProcessKey, life : Nat]
  /\ Real(x.key)
  /\ x.key.creation_time # 0 => x.key.creation_time >= x.life
                               /\ x.key.creation_time \notin env.hidden
  /\ x.life \in 1..started /\ x.key.pid = env.pids[x.life]
  /\ x.life \notin gone => x.key = KeyOf(x.life, Known(x.life))

OnePerPid(entries) == \A x, y \in entries : x.key.pid = y.key.pid => x = y

LivesOf(entries) == {x.life : x \in entries}

SystemOK ==
  /\ env \in Environments
  /\ started \in env.baseline..Len(env.pids) /\ gone \subseteq 1..started
  /\ \A l, m \in 1..started : l < m /\ env.pids[l] = env.pids[m] => l \in gone
  /\ \A l \in gone : env.pids[l] # 0
  /\ stale \in BOOLEAN

Transition == [type : {"start", "stop"}, life : Nat]

TransitionOK(r) ==
  /\ r.life \in 1..started /\ env.pids[r.life] # 0
  /\ r.type = "stop" => r.life \in gone

HandOK ==
  etw_hand # None => /\ ReportOK(etw_hand)
                     /\ etw_hand.process.pid # 0
                     /\ "time" \notin env.undecoded => etw_hand.process.creation_time # 0

EtwOK ==
  /\ etw_buffer \in Seq(Transition)
  /\ \A i \in DOMAIN etw_buffer : TransitionOK(etw_buffer[i])
  /\ HandOK
  /\ ~env.etw => etw_buffer = <<>> /\ etw_hand = None

PollerOK ==
  /\ phase \in {"sleep", "query", "emit"}
  /\ phase # "query" => snapshot = {}
  /\ phase # "emit" => outbox = <<>>
  /\ phase = "sleep" => current = {}
  /\ snapshot \subseteq 1..started
  /\ IsFiniteSet(current) /\ IsFiniteSet(previous)
  /\ \A x \in current \cup previous : EntryOK(x)
  /\ OnePerPid(current) /\ OnePerPid(previous)
  /\ \A l \in snapshot : \A m \in snapshot \cup LivesOf(current) :
       env.pids[l] = env.pids[m] => l = m
  /\ snapshot \cap LivesOf(current) = {}
  /\ phase = "query" => \A l \in snapshot \cup LivesOf(current) : \A m \in 1..l :
                          m \in gone \cup snapshot \cup LivesOf(current)

PipelineOK ==
  /\ queue \in Seq(Reported) /\ \A i \in DOMAIN queue : ReportOK(queue[i])
  /\ outbox \in Seq(Reported) /\ \A i \in DOMAIN outbox : ReportOK(outbox[i])

RecordOK(r) ==
  /\ Claimed(r.key) /\ Real(r.parent)
  /\ \E l \in 1..started : r.key.pid = env.pids[l]

TableOK ==
  /\ processes \in Seq(Record({NoName}))
  /\ SoundTable(processes)
  /\ \A i \in DOMAIN processes : RecordOK(processes[i])

Base == SystemOK /\ EtwOK /\ PollerOK /\ PipelineOK /\ TableOK

\* What a snapshot that is being taken still has to find: the processes of the
\* last one that still run.  One that was found without its time hides it.
Sighted ==
  phase = "query" =>
    \A x \in previous :
      /\ x.life \in gone \/ x.life \in snapshot \cup LivesOf(current)
      /\ x.key.creation_time \notin {0} \cup gone =>
           x.key.creation_time \in snapshot \cup LivesOf(current)
      /\ x.key.creation_time = 0 /\ x.key.pid # 0
           /\ x.life \in snapshot \cup LivesOf(current) => x.life \in env.hidden

\* A record's parent, when all of its reports are about one process.
ParentsFit ==
  PidsUnique /\ ParentsDecoded =>
    \A i \in DOMAIN processes : \A l \in 1..started :
      env.pids[l] = processes[i].key.pid =>
        /\ ParentFits(l, processes[i].parent)
        /\ (processes[i].active /\ l \notin gone /\ Queryable(env.parents[l]))
             => processes[i].parent = KnownParent(l)


-----------------------------------------------------------------------------
(* Lemmas about the system *)

LEMMA EnvFacts ==
  ASSUME SystemOK
  PROVE  /\ Len(env.pids) \in Nat /\ started \in Nat /\ env.baseline \in Nat
         /\ env.baseline <= started /\ started <= Len(env.pids)
         /\ Lives(env) = 1..Len(env.pids)
         /\ env.etw \in BOOLEAN /\ env.lossy \in BOOLEAN /\ env.atomic \in BOOLEAN
         /\ env.etw \/ env.undecoded = {}
         /\ \A l \in 1..Len(env.pids) :
              /\ env.pids[l] \in Nat /\ env.parents[l] \in 0..(l - 1)
              /\ env.pids[l] = 0 => l <= env.baseline
         /\ \A l, m \in 1..env.baseline : env.pids[l] = env.pids[m] => l = m
<1>1. /\ env \in Environment
      /\ Len(env.parents) = Len(env.pids) /\ env.baseline <= Len(env.pids)
      /\ env.etw \/ env.undecoded = {}
      /\ \A l \in 1..Len(env.pids) :
           env.parents[l] < l /\ (env.pids[l] = 0 => l <= env.baseline)
      /\ \A l, m \in 1..env.baseline : env.pids[l] = env.pids[m] => l = m
      /\ started \in env.baseline..Len(env.pids)
  BY EnvironmentsAssumption DEF SystemOK
<1>2. /\ env.pids \in Seq(Nat) /\ env.parents \in Seq(Nat) /\ env.baseline \in Nat
      /\ env.etw \in BOOLEAN /\ env.lossy \in BOOLEAN /\ env.atomic \in BOOLEAN
  BY <1>1 DEF Environment
<1>3. /\ Len(env.pids) \in Nat
      /\ \A l \in 1..Len(env.pids) : env.pids[l] \in Nat /\ env.parents[l] \in Nat
  BY <1>1, <1>2, LenProperties, ElementOfSeq
<1> QED BY <1>1, <1>2, <1>3 DEF Lives

\* A key that was queried is what it claims; and so is every other, when no PID had to
\* be taken from the header.
LEMMA ClaimedReal ==
  /\ \A key : Real(key) => Claimed(key)
  /\ "pid" \notin env.undecoded => \A key : Claimed(key) => Real(key)
BY DEF Real, Claimed

\* No two running processes have one PID.
LEMMA AliveDistinct ==
  ASSUME SystemOK
  PROVE  \A l, m \in Alive : env.pids[l] = env.pids[m] => l = m
BY EnvFacts DEF SystemOK, Alive

\* What query_process_identity finds.
LEMMA QueriedTimeProperties ==
  ASSUME SystemOK
  PROVE  /\ \A pid : \/ QueriedTime(pid) = 0
                     \/ /\ QueriedTime(pid) \in Alive \ env.hidden /\ pid # 0
                        /\ env.pids[QueriedTime(pid)] = pid
         /\ \A l \in Alive : QueriedTime(env.pids[l]) = Known(l)
<1>1. ASSUME NEW pid, QueriedTime(pid) # 0
      PROVE  /\ QueriedTime(pid) \in Alive \ env.hidden /\ pid # 0
             /\ env.pids[QueriedTime(pid)] = pid
  <2>1. PICK l \in Alive \ env.hidden : env.pids[l] = pid /\ pid # 0
    BY <1>1 DEF QueriedTime
  <2>2. QueriedTime(pid) = CHOOSE m \in Alive : env.pids[m] = pid
    BY <2>1 DEF QueriedTime
  <2>3. QueriedTime(pid) \in Alive /\ env.pids[QueriedTime(pid)] = pid
    BY <2>1, <2>2
  <2> QED BY <2>1, <2>3, AliveDistinct
<1>2. ASSUME NEW l \in Alive PROVE QueriedTime(env.pids[l]) = Known(l)
  <2>1. CASE Known(l) = 0
    <3>1. l \in env.hidden \/ env.pids[l] = 0
      BY <2>1, EnvFacts DEF Known, Alive
    <3>2. QueriedTime(env.pids[l]) = 0
      BY <1>1, <1>2, <3>1, AliveDistinct
    <3> QED BY <2>1, <3>2
  <2>2. CASE Known(l) # 0
    <3>1. l \notin env.hidden /\ env.pids[l] # 0 /\ Known(l) = l
      BY <2>2 DEF Known
    <3>2. QueriedTime(env.pids[l]) = CHOOSE m \in Alive : env.pids[m] = env.pids[l]
      BY <1>2, <3>1 DEF QueriedTime
    <3>3. (CHOOSE m \in Alive : env.pids[m] = env.pids[l]) = l
      BY <1>2, AliveDistinct
    <3> QED BY <3>1, <3>2, <3>3
  <2> QED BY <2>1, <2>2
<1> QED BY <1>1, <1>2

\* Taking an element out of a finite set.
LEMMA OneLess ==
  ASSUME NEW S, IsFiniteSet(S), NEW x \in S
  PROVE  /\ IsFiniteSet(S \ {x}) /\ Cardinality(S) \in Nat /\ Cardinality(S \ {x}) \in Nat
         /\ Cardinality(S \ {x}) = Cardinality(S) - 1
<1>1. IsFiniteSet(S \ {x}) /\ Cardinality(S \ {x}) = Cardinality(S) - 1
  BY FS_RemoveElement
<1> QED BY <1>1, FS_CardinalityType

LEMMA LargestPid ==
  ASSUME NEW entries, IsFiniteSet(entries), \A y \in entries : y.key.pid \in Nat,
         entries # {}
  PROVE  \E x \in entries : \A y \in entries : y.key.pid <= x.key.pid
<1> DEFINE HasLargest(S) == \E x \in S : \A y \in S : y.key.pid <= x.key.pid
           Counter == {S \in SUBSET entries : S # {} /\ ~HasLargest(S)}
           Bad == {Cardinality(S) : S \in Counter}
<1>1. \A S \in SUBSET entries : IsFiniteSet(S) /\ Cardinality(S) \in Nat
  BY FS_Subset, FS_CardinalityType
<1> SUFFICES ASSUME Bad # {} PROVE FALSE
  OBVIOUS
<1>2. PICK n \in Bad : \A m \in Bad : n <= m
  <2>1. Bad \subseteq Nat
    BY <1>1
  <2> HIDE DEF Bad
  <2> QED BY <2>1, LeastNumber
<1>3. PICK S \in Counter : Cardinality(S) = n
  OBVIOUS
<1>4. PICK x \in S : TRUE
  OBVIOUS
<1> DEFINE T == S \ {x}
<1>5. Cardinality(T) \in Nat /\ n \in Nat /\ Cardinality(T) < n
  BY <1>1, <1>3, <1>4, OneLess
<1>6. ASSUME T \in Counter PROVE FALSE
  <2>1. Cardinality(T) \in Bad
    BY <1>6
  <2>2. n <= Cardinality(T)
    BY <1>2, <2>1
  <2> HIDE DEF Bad, T
  <2> QED BY <1>5, <2>2
<1>7. CASE T = {}
  BY <1>1, <1>3, <1>4, <1>7
<1>8. CASE T # {}
  <2>1. PICK y \in T : \A z \in T : z.key.pid <= y.key.pid
    BY <1>6, <1>8
  <2>2. x.key.pid \in Nat /\ \A z \in T : z.key.pid \in Nat
    BY <1>3, <1>4
  <2>3. CASE x.key.pid <= y.key.pid
    BY <1>3, <2>1, <2>3
  <2>4. CASE y.key.pid <= x.key.pid
    <3>1. ASSUME NEW z \in S PROVE z.key.pid <= x.key.pid
      <4>1. CASE z = x
        BY <2>2, <4>1
      <4>2. CASE z \in T
        <5>1. z.key.pid <= y.key.pid
          BY <2>1, <4>2
        <5> HIDE DEF T
        <5> QED BY <2>2, <2>4, <4>2, <5>1
      <4> QED BY <4>1, <4>2
    <3> QED BY <1>3, <1>4, <3>1
  <2> QED BY <2>2, <2>3, <2>4
<1> QED BY <1>7, <1>8

\* The reports about some entries are one for each, whatever the order.
LEMMA SortedProperties ==
  ASSUME NEW entries, IsFiniteSet(entries), \A x \in entries : x.key.pid \in Nat
  PROVE  /\ Sorted(entries) \in Seq(entries)
         /\ DOMAIN Sorted(entries) = 1..Cardinality(entries)
         /\ Cardinality(entries) \in Nat
         /\ Range(Sorted(entries)) = entries
         /\ \A i, j \in DOMAIN Sorted(entries) : Sorted(entries)[i] = Sorted(entries)[j] => i = j
<1> DEFINE Order(S, o) ==
             /\ o \in [1..Cardinality(S) -> S] /\ Range(o) = S
             /\ \A i, j \in DOMAIN o : i < j => o[i].key.pid <= o[j].key.pid
           Counter == {S \in SUBSET entries : ~\E o : Order(S, o)}
           Bad == {Cardinality(S) : S \in Counter}
<1>1. \A S \in SUBSET entries : IsFiniteSet(S) /\ Cardinality(S) \in Nat
  BY FS_Subset, FS_CardinalityType
<1>2. Bad = {}
  <2> SUFFICES ASSUME Bad # {} PROVE FALSE
    OBVIOUS
  <2>1. PICK n \in Bad : \A m \in Bad : n <= m
    <3>1. Bad \subseteq Nat
      BY <1>1
    <3> HIDE DEF Bad
    <3> QED BY <3>1, LeastNumber
  <2>2. PICK S \in Counter : Cardinality(S) = n
    OBVIOUS
  <2>3. S \in SUBSET entries /\ ~\E o : Order(S, o)
    OBVIOUS
  <2>4. CASE S = {}
    <3> DEFINE o == <<>>
    <3>1. Cardinality(S) = 0
      BY <2>4, FS_EmptySet
    <3>2. Order(S, o)
      BY <2>4, <3>1 DEF Range
    <3> QED BY <2>3, <3>2
  <2>5. CASE S # {}
    <3>1. PICK x \in S : \A y \in S : y.key.pid <= x.key.pid
      <4>1. IsFiniteSet(S) /\ \A y \in S : y.key.pid \in Nat
        BY <1>1, <2>3
      <4> QED BY <2>5, <4>1, LargestPid
    <3> DEFINE T == S \ {x}
               m == Cardinality(T)
    <3>2. Cardinality(S) = m + 1 /\ m \in Nat
      BY <1>1, <2>3, OneLess
    <3>3. PICK o : Order(T, o)
      <4>1. m \in Nat /\ n \in Nat /\ m < n
        <5> HIDE DEF T, Counter, Bad
        <5> QED BY <2>2, <3>2
      <4>2. ASSUME T \in Counter PROVE FALSE
        <5>1. m \in Bad
          BY <4>2
        <5>2. n <= m
          BY <2>1, <5>1
        <5> HIDE DEF m, Bad, Counter
        <5> QED BY <4>1, <5>2
      <4> QED BY <2>3, <4>2
    <3>4. /\ o \in [1..m -> T] /\ Range(o) = T
          /\ \A i, j \in 1..m : i < j => o[i].key.pid <= o[j].key.pid
      BY <3>3
    <3>5. /\ T \subseteq S /\ x \in S /\ \A y \in S : y = x \/ y \in T
      OBVIOUS
    <3>6. \E o1 : Order(S, o1)
      <4> HIDE DEF Order, Counter, Bad, T, m
      <4> DEFINE o1 == [i \in 1..(m + 1) |-> IF i = m + 1 THEN x ELSE o[i]]
      <4>1. \A i \in 1..(m + 1) : i = m + 1 \/ i \in 1..m
        BY <3>2
      <4>2. o1 \in [1..(m + 1) -> S]
        BY <3>4, <3>5, <4>1
      <4>3. o1[m + 1] = x /\ \A i \in 1..m : o1[i] = o[i] /\ i \in 1..(m + 1)
        BY <3>2
      <4>4. Range(o1) = S
        <5>1. \A y \in S : \E i \in 1..(m + 1) : o1[i] = y
          BY <3>2, <3>4, <3>5, <4>3 DEF Range
        <5> QED
          <6> HIDE DEF o1
          <6> QED BY <4>2, <5>1 DEF Range
      <4>5. \A i, j \in 1..(m + 1) : i < j => o1[i].key.pid <= o1[j].key.pid
        <5> TAKE i, j \in 1..(m + 1)
        <5> HAVE i < j
        <5>1. i \in 1..m /\ o[i] \in S
          BY <3>2, <3>4, <3>5
        <5>2. CASE j = m + 1
          BY <3>1, <4>3, <5>1, <5>2
        <5>3. CASE j \in 1..m
          <6>1. o[i].key.pid <= o[j].key.pid
            BY <3>4, <5>1, <5>3
          <6> QED BY <4>3, <5>1, <5>3, <6>1
        <5> QED BY <4>1, <5>2, <5>3
      <4>6. DOMAIN o1 = 1..Cardinality(S)
        BY <3>2
      <4> HIDE DEF o1
      <4> QED BY <3>2, <4>2, <4>4, <4>5, <4>6 DEF Order
    <3> QED BY <2>3, <3>6
  <2> QED BY <2>4, <2>5
<1>3. \E o : Order(entries, o)
  <2>1. entries \notin Counter
    BY <1>2
  <2> HIDE DEF Order
  <2> QED BY <2>1
<1> DEFINE s == Sorted(entries)
           c == Cardinality(entries)
<1>4. Order(entries, s)
  BY <1>3 DEF Sorted
<1>5. s \in [1..c -> entries] /\ Range(s) = entries /\ c \in Nat
  BY <1>1, <1>4
<1>6. s \in Seq(entries)
  BY <1>5, SeqDef
<1>7. \A i, j \in 1..c : s[i] = s[j] => i = j
  <2>1. s \in Surjection(1..c, entries)
    BY <1>5 DEF Surjection, Range
  <2>2. IsFiniteSet(1..c) /\ Cardinality(1..c) = c
    BY <1>5, FS_Interval
  <2>3. s \in Injection(1..c, entries)
    <3> HIDE DEF s
    <3> QED BY <2>1, <2>2, FS_SurjSameCardinalityImpliesInj
  <2> QED BY <1>5, <2>3 DEF Injection, IsInjective
<1> QED BY <1>5, <1>6, <1>7

\* Creating and ending a process leaves every identity, report and entry right.
LEMMA Stays ==
  ASSUME SystemOK, env' = env, started' \in Nat, started <= started', gone \subseteq gone'
  PROVE  /\ \A key : (Real(key) => Real(key)') /\ (Claimed(key) => Claimed(key)')
         /\ \A e : ReportOK(e) => ReportOK(e)'
         /\ \A x : EntryOK(x) => EntryOK(x)'
         /\ \A l : Known(l)' = Known(l)
<1>1. 1..started \subseteq 1..started'
  BY EnvFacts
<1>2. \A key : (Real(key) => Real(key)') /\ (Claimed(key) => Claimed(key)')
  BY <1>1 DEF Real, Claimed
<1>3. \A l : Known(l)' = Known(l)
  BY DEF Known
<1>4. ASSUME NEW e, ReportOK(e) PROVE ReportOK(e)'
  <2>1. /\ e \in Reported
        /\ Claimed(e.process) /\ Real(e.parent)
        /\ e.life \in 1..started /\ e.process.pid = env.pids[e.life]
        /\ e.type = "stop" => e.life \in gone
        /\ ParentsDecoded => ParentFits(e.life, e.parent)
        /\ ParentsDecoded /\ e.type = "start" /\ Queryable(env.parents[e.life])
             => e.parent = KnownParent(e.life)
    BY <1>4 DEF ReportOK
  <2>2. Claimed(e.process)' /\ Real(e.parent)'
    BY <1>2, <2>1
  <2>3. /\ ParentsDecoded' = ParentsDecoded
        /\ ParentFits(e.life, e.parent)' = ParentFits(e.life, e.parent)
    BY <2>1 DEF ParentFits, ParentPid, ParentsDecoded
  <2>4. KnownParent(e.life)' = KnownParent(e.life)
    BY <1>3 DEF KnownParent, KeyOf
  <2>5. ASSUME Queryable(env.parents[e.life])' PROVE Queryable(env.parents[e.life])
    <3>1. env.parents[e.life] \in 0..(e.life - 1) /\ e.life \in 1..started
      BY <2>1, EnvFacts
    <3>2. env.parents[e.life] # 0 => env.parents[e.life] \in 1..started
      BY <3>1, EnvFacts
    <3> QED BY <2>5, <3>2 DEF Queryable, Alive
  <2> QED BY <1>1, <2>1, <2>2, <2>3, <2>4, <2>5 DEF ReportOK
<1>5. ASSUME NEW x, EntryOK(x) PROVE EntryOK(x)'
  <2>1. /\ x \in [key : ProcessKey, life : Nat]
        /\ Real(x.key)
        /\ x.key.creation_time # 0 => x.key.creation_time >= x.life
                                     /\ x.key.creation_time \notin env.hidden
        /\ x.life \in 1..started /\ x.key.pid = env.pids[x.life]
        /\ x.life \notin gone => x.key = KeyOf(x.life, Known(x.life))
    BY <1>5 DEF EntryOK
  <2>2. Real(x.key)' /\ KeyOf(x.life, Known(x.life))' = KeyOf(x.life, Known(x.life))
    BY <1>2, <1>3, <2>1 DEF KeyOf
  <2> QED BY <1>1, <2>1, <2>2 DEF EntryOK
<1> QED BY <1>2, <1>3, <1>4, <1>5

\* The store and the queue on the way to it are not touched by a step of the system.
LEMMA PipelineStays ==
  ASSUME SystemOK, PipelineOK, TableOK, env' = env, started' \in Nat, started <= started',
         gone \subseteq gone', UNCHANGED <<queue, outbox, processes>>
  PROVE  PipelineOK' /\ TableOK'
<1>1. PipelineOK'
  BY Stays DEF PipelineOK
<1>2. TableOK'
  <2>1. \A r : RecordOK(r) => RecordOK(r)'
    BY Stays, EnvFacts DEF RecordOK
  <2>2. SoundTable(processes)'
    BY DEF TableOK
  <2> QED BY <2>1, <2>2 DEF TableOK
<1> QED BY <1>1, <1>2

-----------------------------------------------------------------------------
(* Lemmas about queues *)

LEMMA Appended ==
  ASSUME NEW S, NEW s \in Seq(S), NEW e \in S
  PROVE  /\ Append(s, e) \in Seq(S) /\ Len(s) \in Nat
         /\ DOMAIN s = 1..Len(s) /\ DOMAIN Append(s, e) = 1..(Len(s) + 1)
         /\ \A i \in DOMAIN s : i \in DOMAIN Append(s, e) /\ Append(s, e)[i] = s[i]
         /\ \A i \in DOMAIN Append(s, e) : i \in DOMAIN s \/ i = Len(s) + 1
         /\ Len(s) + 1 \in DOMAIN Append(s, e) /\ Append(s, e)[Len(s) + 1] = e
<1>1. Len(s) \in Nat /\ DOMAIN s = 1..Len(s)
  BY LenProperties
<1>2. /\ Append(s, e) \in Seq(S) /\ Len(Append(s, e)) = Len(s) + 1
      /\ \A i \in 1..Len(s) : Append(s, e)[i] = s[i]
      /\ Append(s, e)[Len(s) + 1] = e
  BY AppendProperties
<1>3. DOMAIN Append(s, e) = 1..(Len(s) + 1)
  BY <1>2, LenProperties
<1> QED BY <1>1, <1>2, <1>3

LEMMA Popped ==
  ASSUME NEW S, NEW s \in Seq(S), s # <<>>
  PROVE  /\ 1 \in DOMAIN s /\ Head(s) = s[1] /\ Head(s) \in S /\ Tail(s) \in Seq(S)
         /\ \A i \in DOMAIN Tail(s) : /\ i \in Nat \ {0} /\ i + 1 \in DOMAIN s
                                      /\ Tail(s)[i] = s[i + 1]
         /\ \A i \in DOMAIN s : i # 1 => /\ i - 1 \in DOMAIN Tail(s)
                                         /\ Tail(s)[i - 1] = s[i]
<1>1. Len(s) \in Nat \ {0} /\ DOMAIN s = 1..Len(s)
  BY LenProperties, EmptySeq
<1>2. /\ Head(s) \in S /\ Tail(s) \in Seq(S) /\ Len(Tail(s)) = Len(s) - 1
      /\ \A i \in 1..Len(Tail(s)) : Tail(s)[i] = s[i + 1]
  BY HeadTailProperties
<1>3. DOMAIN Tail(s) = 1..(Len(s) - 1)
  BY <1>2, LenProperties
<1>4. Head(s) = s[1]
  OBVIOUS
<1>5. \A i \in DOMAIN s : i # 1 => i - 1 \in DOMAIN Tail(s) /\ Tail(s)[i - 1] = s[i]
  <2> TAKE i \in DOMAIN s
  <2> HAVE i # 1
  <2>1. i \in Int /\ i - 1 \in 1..(Len(s) - 1) /\ (i - 1) + 1 = i
    BY <1>1
  <2> QED BY <1>2, <1>3, <2>1
<1> QED BY <1>1, <1>2, <1>3, <1>4, <1>5

\* The members of a sequence are those of the set it is a sequence of.
LEMMA Members ==
  ASSUME NEW S, NEW s \in Seq(S)
  PROVE  \A i \in DOMAIN s : i \in Nat \ {0} /\ s[i] \in S
BY LenProperties, ElementOfSeq

-----------------------------------------------------------------------------
(* Every step leaves the system sound *)

LEMMA SystemStep ==
  ASSUME SystemOK, Next
  PROVE  /\ SystemOK'
         /\ env' = env /\ started' \in Nat /\ started <= started' /\ gone \subseteq gone'
<1>1. CASE CreateProcess
  <2>1. /\ env' = env /\ gone' = gone /\ started' = started + 1 /\ stale' = TRUE
        /\ started < Len(env.pids)
        /\ \A l \in Alive : env.pids[l] # env.pids[started + 1]
    BY <1>1 DEF CreateProcess
  <2>2. \A l, m \in 1..(started + 1) : l < m /\ env.pids[l] = env.pids[m] => l \in gone
    <3>1. /\ \A l, m \in 1..started : l < m /\ env.pids[l] = env.pids[m] => l \in gone
          /\ started \in Nat
      BY EnvFacts DEF SystemOK
    <3>2. \A l \in 1..started : env.pids[l] = env.pids[started + 1] => l \in gone
      BY <2>1 DEF Alive
    <3> TAKE l, m \in 1..(started + 1)
    <3> HAVE l < m /\ env.pids[l] = env.pids[m]
    <3>3. l \in 1..started /\ (m = started + 1 \/ m \in 1..started)
      BY <3>1
    <3> QED BY <3>1, <3>2, <3>3
  <2>3. /\ started + 1 \in env.baseline..Len(env.pids) /\ gone \subseteq 1..(started + 1)
        /\ started \in Nat
    BY <2>1, EnvFacts DEF SystemOK
  <2>4. SystemOK'
    BY <2>1, <2>2, <2>3 DEF SystemOK
  <2> QED BY <2>1, <2>3, <2>4
<1>2. ASSUME NEW l \in Lives(env), EndProcess(l)
      PROVE  /\ SystemOK' /\ env' = env /\ started' = started /\ gone \subseteq gone'
  BY <1>2, EnvFacts DEF SystemOK, EndProcess, Alive
<1>3. CASE Consumer \/ Poller \/ Drain
  <2>1. /\ env' = env /\ started' = started /\ gone' = gone
        /\ stale' = stale \/ stale' = FALSE
    BY <1>3 DEF Consumer, Callback, CallbackPush, Poller, TakeSnapshot, QueryEntry, Compare,
                PollerPush, Sleep, Drain, system
  <2>2. SystemOK'
    BY <2>1 DEF SystemOK
  <2> QED BY <2>1, <2>2, EnvFacts
<1>4. started \in Nat
  BY EnvFacts
<1>5. CASE \E l \in Lives(env) : EndProcess(l)
  <2>1. PICK l \in Lives(env) : EndProcess(l)
    BY <1>5
  <2>2. SystemOK' /\ env' = env /\ started' = started /\ gone \subseteq gone'
    BY <1>2, <2>1
  <2> QED BY <1>4, <2>2
<1> QED BY <1>1, <1>3, <1>4, <1>5 DEF Next, System

\* A process that has a PID again was created after the one that had it.
LEMMA QueriedNotOlder ==
  ASSUME SystemOK, NEW l \in 1..started
  PROVE  LET t == QueriedTime(env.pids[l])
         IN  /\ t # 0 => /\ t \in Alive \ env.hidden /\ t >= l
                         /\ env.pids[t] = env.pids[l] /\ env.pids[l] # 0
             /\ t \in Nat /\ (t # 0 => t \in 1..started)
             /\ l \notin gone => t = Known(l)
<1> DEFINE t == QueriedTime(env.pids[l])
<1>1. t # 0 => /\ t \in Alive \ env.hidden /\ env.pids[t] = env.pids[l] /\ env.pids[l] # 0
  BY QueriedTimeProperties
<1>2. l \notin gone => t = Known(l)
  BY QueriedTimeProperties DEF Alive
<1> HIDE DEF t
<1>3. t # 0 => t >= l
  BY <1>1, EnvFacts DEF SystemOK, Alive
<1>4. t \in Nat /\ (t # 0 => t \in 1..started)
  BY <1>1, EnvFacts DEF Alive
<1> QED BY <1>1, <1>2, <1>3, <1>4 DEF t

LEMMA KeyOfProcess ==
  ASSUME NEW l, NEW t, env.pids[l] \in Nat, t \in Nat
  PROVE  /\ KeyOf(l, t) \in ProcessKey
         /\ KeyOf(l, t).pid = env.pids[l] /\ KeyOf(l, t).creation_time = t
BY DEF KeyOf, ProcessKey

LEMMA EntryProperties ==
  ASSUME SystemOK, NEW l \in 1..started
  PROVE  EntryOK(Entry(l)) /\ Entry(l).life = l
<1> DEFINE t == QueriedTime(env.pids[l])
<1>1. /\ t # 0 => /\ t \in Alive \ env.hidden /\ t >= l
                  /\ env.pids[t] = env.pids[l] /\ env.pids[l] # 0
      /\ t \in Nat /\ (t # 0 => t \in 1..started)
      /\ l \notin gone => t = Known(l)
  BY QueriedNotOlder
<1>2. env.pids[l] \in Nat /\ l \in Nat
  BY EnvFacts
<1>3. Entry(l) = [key |-> KeyOf(l, t), life |-> l]
  BY DEF Entry
<1> HIDE DEF t
<1>4. /\ KeyOf(l, t) \in ProcessKey
      /\ KeyOf(l, t).pid = env.pids[l] /\ KeyOf(l, t).creation_time = t
  BY <1>1, <1>2, KeyOfProcess
<1>5. Real(KeyOf(l, t))
  BY <1>1, <1>4 DEF Real
<1> QED BY <1>1, <1>2, <1>3, <1>4, <1>5 DEF EntryOK

\* What the callback makes of a record, of which it could not decode some fields.
LEMMA CallbackReports ==
  ASSUME SystemOK, NEW r \in Transition,
         TransitionOK(r),
         NEW lost \in SUBSET env.undecoded,
         NEW l \in (IF "pid" \in lost THEN LoggedBy(r) ELSE {r.life}),
         NEW t, t = QueriedTime(env.pids[l]),
         NEW time, time = (IF t # 0 THEN t ELSE IF "time" \in lost THEN 0 ELSE r.life),
         NEW ppid,
         ppid = (IF r.type = "start" /\ "parent" \notin lost THEN ParentPid(r.life) ELSE 0),
         NEW parent,
         parent = [pid |-> ppid, creation_time |-> ParentTime(QueriedTime(ppid), time)],
         NEW e, e = Event(r.type, KeyOf(l, time), parent, l)
  PROVE  /\ ReportOK(e) /\ e.process.pid # 0 /\ e.type = r.type
         /\ "pid" \notin env.undecoded => e.life = r.life
         /\ "time" \notin env.undecoded => e.process.creation_time # 0
<1> DEFINE p == env.parents[l]
           pt == QueriedTime(ppid)
<1>0. /\ r.life \in 1..started /\ env.pids[r.life] # 0
      /\ r.type \in {"start", "stop"} /\ (r.type = "stop" => r.life \in gone)
  BY DEF Transition, TransitionOK
<1>1. /\ l \in 1..started /\ l \in Nat /\ env.pids[l] \in Nat /\ env.pids[l] # 0
      /\ p \in 0..(l - 1)
      /\ p # 0 => p \in 1..started /\ env.pids[p] \in Nat
      /\ started \in Nat /\ (r.type = "stop" => l \in gone)
      /\ "pid" \notin env.undecoded => l = r.life
      /\ ParentPid(r.life) \in Nat
  <2>1. /\ started \in Nat /\ 1..started \subseteq 1..Len(env.pids) /\ r.life \in Nat
        /\ \A m \in 1..Len(env.pids) : env.pids[m] \in Nat /\ env.parents[m] \in 0..(m - 1)
    BY <1>0, EnvFacts
  <2>2. l = r.life \/ ("pid" \in env.undecoded /\ l \in LoggedBy(r))
    OBVIOUS
  <2>3. env.parents[r.life] \in 0..(r.life - 1)
    BY <1>0, <2>1
  <2>4. l \in LoggedBy(r) => /\ env.pids[l] # 0 /\ l # 0
                             /\ l = r.life \/ (r.type = "start" /\ l = env.parents[r.life])
    BY DEF LoggedBy
  <2>5. l \in 1..started /\ env.pids[l] # 0 /\ (r.type = "stop" => l = r.life)
    BY <1>0, <2>1, <2>2, <2>3, <2>4
  <2>6. l \in 1..Len(env.pids) /\ p \in 0..(l - 1) /\ l <= started /\ l \in Nat
    BY <2>1, <2>5
  <2>7. p # 0 => p \in 1..started
    BY <2>1, <2>6
  <2>8. ParentPid(r.life) \in Nat
    <3>1. env.parents[r.life] # 0 => env.parents[r.life] \in 1..started
      BY <1>0, <2>1, <2>3
    <3> QED BY <2>1, <3>1 DEF ParentPid
  <2> HIDE DEF p
  <2> QED BY <1>0, <2>1, <2>2, <2>5, <2>6, <2>7, <2>8
<1>2. /\ time \in 0..started /\ ("time" \notin env.undecoded => time # 0)
      /\ time # 0 /\ "pid" \notin env.undecoded => time >= l /\ env.pids[time] = env.pids[l]
  <2>1. /\ t # 0 => t >= l /\ t \in 1..started /\ env.pids[t] = env.pids[l]
    BY <1>1, QueriedNotOlder
  <2>2. "time" \notin env.undecoded => "time" \notin lost
    OBVIOUS
  <2> QED BY <1>0, <1>1, <2>1, <2>2
<1>4. /\ ppid \in Nat
      /\ ParentsDecoded => /\ ppid \in {0, ParentPid(l)}
                           /\ r.type = "start" => ppid = ParentPid(l)
  <2>1. ParentsDecoded => "parent" \notin lost /\ l = r.life
    BY <1>1 DEF ParentsDecoded
  <2> QED BY <1>1, <2>1
<1>5. /\ pt # 0 => pt \in Alive \ env.hidden /\ ppid # 0 /\ env.pids[pt] = ppid
      /\ pt = 0 \/ pt \in 1..started
  BY QueriedTimeProperties DEF Alive
<1> DEFINE q == ParentTime(pt, time)
<1>6. q \in {0, pt} /\ (pt <= time => q = pt) /\ (time = 0 => q = pt)
  BY <1>2, <1>5, <1>1 DEF ParentTime
<1>7. parent \in ProcessKey /\ Real(parent) /\ parent = [pid |-> ppid, creation_time |-> q]
  <2>1. parent = [pid |-> ppid, creation_time |-> q] /\ q \in Nat
    BY <1>5, <1>6, <1>1
  <2> HIDE DEF q, pt
  <2> QED BY <1>4, <1>5, <1>6, <2>1 DEF Real, ProcessKey
<1>8. /\ KeyOf(l, time) \in ProcessKey
      /\ KeyOf(l, time).pid = env.pids[l] /\ KeyOf(l, time).creation_time = time
  <2>1. time \in Nat
    BY <1>2
  <2> QED BY <1>1, <2>1, KeyOfProcess
<1>9. Claimed(KeyOf(l, time))
  BY <1>1, <1>2, <1>8 DEF Claimed
<1>10. ASSUME ParentsDecoded, r.type = "start", Queryable(p) PROVE parent = KnownParent(l)
  <2>1. CASE p = 0
    <3>1. ppid = 0 /\ pt = 0
      BY <1>4, <1>5, <1>10, <2>1 DEF ParentPid
    <3>2. q = 0
      BY <1>6, <3>1
    <3> HIDE DEF q, pt
    <3> QED BY <1>7, <2>1, <3>1, <3>2 DEF KnownParent, NoKey
  <2>2. CASE p # 0
    <3>1. p \in Alive /\ ppid = env.pids[p]
      BY <1>4, <1>10, <2>2 DEF Queryable, ParentPid
    <3>2. pt = Known(p) /\ Known(p) \in {0, p}
      BY <3>1, QueriedTimeProperties DEF Known
    <3>3. time = 0 \/ pt <= time
      <4>1. "pid" \notin env.undecoded
        BY <1>10 DEF ParentsDecoded
      <4> QED BY <1>1, <1>2, <3>2, <4>1
    <3>4. q = Known(p)
      BY <1>6, <3>2, <3>3
    <3> HIDE DEF q, pt
    <3> QED BY <1>7, <2>2, <3>1, <3>4 DEF KnownParent, KeyOf
  <2> QED BY <2>1, <2>2
<1>11. e = [type |-> r.type, process |-> KeyOf(l, time), parent |-> parent, name |-> NoName,
            life |-> l]
  BY DEF Event
<1>12. e \in Reported
  BY <1>0, <1>1, <1>7, <1>8, <1>11 DEF Reported
<1>13. ParentsDecoded => ParentFits(l, parent)
  BY <1>4, <1>7 DEF ParentFits
<1>14. /\ e.type = r.type /\ e.process = KeyOf(l, time) /\ e.parent = parent /\ e.life = l
       /\ e.process.pid = env.pids[l] /\ e.process.creation_time = time
  BY <1>8, <1>11
<1>15. e.process.pid # 0 /\ ("time" \notin env.undecoded => e.process.creation_time # 0)
  BY <1>1, <1>2, <1>14
<1> HIDE DEF pt, q, p
<1>16. ParentsDecoded /\ e.type = "start" /\ Queryable(env.parents[e.life])
         => e.parent = KnownParent(e.life)
  BY <1>10, <1>14 DEF p
<1>17. ReportOK(e)
  BY <1>1, <1>7, <1>9, <1>12, <1>13, <1>14, <1>16 DEF ReportOK
<1> QED BY <1>1, <1>14, <1>15, <1>17

LEMMA CallbackStep ==
  ASSUME SystemOK, EtwOK, Callback
  PROVE  /\ etw_buffer # <<>> /\ etw_hand = None /\ etw_buffer' = Tail(etw_buffer)
         /\ ReportOK(etw_hand') /\ etw_hand'.process.pid # 0
         /\ "time" \notin env.undecoded => etw_hand'.process.creation_time # 0
         /\ etw_hand'.type = Head(etw_buffer).type
         /\ "pid" \notin env.undecoded => etw_hand'.life = Head(etw_buffer).life
         /\ UNCHANGED <<env, system, poller, queue, processes>>
<1> DEFINE r == Head(etw_buffer)
<1>1. r \in Transition /\ TransitionOK(r) /\ etw_buffer # <<>>
  <2>1. etw_buffer # <<>> /\ etw_buffer \in Seq(Transition)
    BY DEF EtwOK, Callback
  <2>2. 1 \in DOMAIN etw_buffer /\ r = etw_buffer[1] /\ r \in Transition
    BY <2>1, Popped
  <2> QED BY <2>1, <2>2 DEF EtwOK
<1>2. /\ etw_hand = None /\ etw_buffer' = Tail(etw_buffer)
      /\ UNCHANGED <<env, system, poller, queue, processes>>
  BY DEF Callback
<1>6. PICK lost \in SUBSET env.undecoded :
        \E l \in IF "pid" \in lost THEN LoggedBy(r) ELSE {r.life} :
          LET t    == QueriedTime(env.pids[l])
              time == IF t # 0 THEN t ELSE IF "time" \in lost THEN 0 ELSE r.life
              ppid == IF r.type = "start" /\ "parent" \notin lost THEN ParentPid(r.life) ELSE 0
              parent == [pid |-> ppid, creation_time |-> ParentTime(QueriedTime(ppid), time)]
          IN  etw_hand' = Event(r.type, KeyOf(l, time), parent, l)
  BY DEF Callback
<1>3. PICK l \in (IF "pid" \in lost THEN LoggedBy(r) ELSE {r.life}) :
        LET t    == QueriedTime(env.pids[l])
            time == IF t # 0 THEN t ELSE IF "time" \in lost THEN 0 ELSE r.life
            ppid == IF r.type = "start" /\ "parent" \notin lost THEN ParentPid(r.life) ELSE 0
            parent == [pid |-> ppid, creation_time |-> ParentTime(QueriedTime(ppid), time)]
        IN  etw_hand' = Event(r.type, KeyOf(l, time), parent, l)
  BY <1>6
<1> DEFINE t == QueriedTime(env.pids[l])
           time == IF t # 0 THEN t ELSE IF "time" \in lost THEN 0 ELSE r.life
           ppid == IF r.type = "start" /\ "parent" \notin lost THEN ParentPid(r.life) ELSE 0
           parent == [pid |-> ppid, creation_time |-> ParentTime(QueriedTime(ppid), time)]
           e == Event(r.type, KeyOf(l, time), parent, l)
<1>4. etw_hand' = e
  BY <1>3
<1>5. /\ ReportOK(e) /\ e.process.pid # 0 /\ e.type = r.type
      /\ "pid" \notin env.undecoded => e.life = r.life
      /\ "time" \notin env.undecoded => e.process.creation_time # 0
  <2>1. /\ t = QueriedTime(env.pids[l])
        /\ time = (IF t # 0 THEN t ELSE IF "time" \in lost THEN 0 ELSE r.life)
        /\ ppid = (IF r.type = "start" /\ "parent" \notin lost THEN ParentPid(r.life) ELSE 0)
        /\ parent = [pid |-> ppid, creation_time |-> ParentTime(QueriedTime(ppid), time)]
        /\ e = Event(r.type, KeyOf(l, time), parent, l)
    OBVIOUS
  <2>2. l \in (IF "pid" \in lost THEN LoggedBy(r) ELSE {r.life})
    BY <1>3
  <2> HIDE DEF t, time, ppid, parent, e, r
  <2> QED BY <1>1, <2>1, <2>2, CallbackReports
<1> HIDE DEF e, r
<1> QED BY <1>1, <1>2, <1>4, <1>5 DEF r

LEMMA EtwStep ==
  ASSUME SystemOK, EtwOK, Next
  PROVE  EtwOK'
<1>1. /\ etw_buffer \in Seq(Transition)
      /\ \A i \in DOMAIN etw_buffer : TransitionOK(etw_buffer[i])
      /\ HandOK
      /\ ~env.etw => etw_buffer = <<>> /\ etw_hand = None
  BY DEF EtwOK
<1>2. /\ env' = env /\ started' \in Nat /\ started <= started' /\ gone \subseteq gone'
      /\ started \in Nat
  BY SystemStep, EnvFacts
<1>3. \A r : TransitionOK(r) => TransitionOK(r)'
  BY <1>2 DEF TransitionOK
<1>4. \A e : ReportOK(e) => ReportOK(e)'
  BY <1>2, Stays
<1>5. ASSUME etw_buffer' \in Seq(Transition),
             \A i \in DOMAIN etw_buffer' : TransitionOK(etw_buffer[i])',
             HandOK', (~env.etw => etw_buffer = <<>> /\ etw_hand = None)'
      PROVE  EtwOK'
  BY <1>5 DEF EtwOK
<1>6. UNCHANGED etw_hand => HandOK'
  BY <1>1, <1>2, <1>4 DEF HandOK
<1>7. ASSUME NEW r \in Transition, TransitionOK(r)', UNCHANGED etw_hand,
             \/ etw_buffer' = etw_buffer
             \/ env.etw /\ etw_buffer' = Append(etw_buffer, r)
      PROVE  EtwOK'
  <2>1. CASE etw_buffer' = etw_buffer
    BY <1>1, <1>2, <1>3, <1>5, <1>6, <1>7, <2>1
  <2>2. CASE etw_buffer' = Append(etw_buffer, r) /\ env.etw
    <3>1. /\ Append(etw_buffer, r) \in Seq(Transition)
          /\ \A i \in DOMAIN Append(etw_buffer, r) :
               \/ Append(etw_buffer, r)[i] = r
               \/ i \in DOMAIN etw_buffer /\ Append(etw_buffer, r)[i] = etw_buffer[i]
      BY <1>1, <1>7, Appended
    <3>2. \A i \in DOMAIN etw_buffer' : TransitionOK(etw_buffer[i])'
      BY <1>1, <1>3, <1>7, <2>2, <3>1
    <3> QED BY <1>2, <1>5, <1>6, <1>7, <2>2, <3>1, <3>2
  <2> QED BY <1>7, <2>1, <2>2
<1>8. CASE CreateProcess
  <2>1. /\ started' = started + 1 /\ Trace("start", started + 1) /\ UNCHANGED etw_hand
        /\ started + 1 \in 1..Len(env.pids) /\ started < Len(env.pids)
    BY <1>2, <1>8, EnvFacts DEF CreateProcess
  <2>2. env.pids[started + 1] # 0
    BY <1>2, <2>1, EnvFacts
  <2>5. PICK n \in Nat : n = started + 1
    BY <1>2
  <2> DEFINE r == [type |-> "start", life |-> n]
  <2>3. r \in Transition /\ TransitionOK(r)'
    BY <1>2, <2>1, <2>2, <2>5 DEF Transition, TransitionOK
  <2>4. \/ etw_buffer' = etw_buffer
        \/ env.etw /\ etw_buffer' = Append(etw_buffer, r)
    BY <2>1, <2>5 DEF Trace
  <2> HIDE DEF r
  <2> QED BY <1>7, <2>1, <2>3, <2>4
<1>9. ASSUME NEW l \in Lives(env), EndProcess(l) PROVE EtwOK'
  <2>1. /\ l \in Alive /\ env.pids[l] # 0 /\ gone' = gone \cup {l} /\ UNCHANGED etw_hand
        /\ Trace("stop", l)
    BY <1>9 DEF EndProcess
  <2> DEFINE r == [type |-> "stop", life |-> l]
  <2>2. r \in Transition /\ TransitionOK(r)'
    BY <1>2, <2>1 DEF Alive, Transition, TransitionOK
  <2>3. \/ etw_buffer' = etw_buffer
        \/ env.etw /\ etw_buffer' = Append(etw_buffer, r)
    BY <2>1 DEF Trace
  <2> HIDE DEF r
  <2> QED BY <1>7, <2>1, <2>2, <2>3
<1>10. CASE Callback
  <2>1. /\ etw_buffer # <<>> /\ etw_buffer' = Tail(etw_buffer)
        /\ ReportOK(etw_hand') /\ etw_hand'.process.pid # 0
        /\ "time" \notin env.undecoded => etw_hand'.process.creation_time # 0
        /\ UNCHANGED <<env, system>>
    BY <1>10, CallbackStep
  <2>2. /\ Tail(etw_buffer) \in Seq(Transition)
        /\ \A i \in DOMAIN Tail(etw_buffer) : /\ i + 1 \in DOMAIN etw_buffer
                                              /\ Tail(etw_buffer)[i] = etw_buffer[i + 1]
    BY <1>1, <2>1, Popped
  <2>3. \A i \in DOMAIN etw_buffer' : TransitionOK(etw_buffer[i])'
    BY <1>1, <1>3, <2>1, <2>2
  <2>4. HandOK' /\ env.etw
    BY <1>1, <1>4, <2>1 DEF HandOK
  <2> QED BY <1>2, <1>5, <2>1, <2>2, <2>3, <2>4
<1>11. CASE CallbackPush
  <2>1. etw_hand' = None /\ etw_buffer' = etw_buffer
    BY <1>11 DEF CallbackPush
  <2>2. \A i \in DOMAIN etw_buffer' : TransitionOK(etw_buffer[i])'
    BY <1>1, <1>3, <2>1
  <2>3. HandOK'
    BY <2>1 DEF HandOK
  <2> QED BY <1>1, <1>2, <1>5, <2>1, <2>2, <2>3
<1>12. CASE UNCHANGED etw
  <2>1. etw_hand' = etw_hand /\ etw_buffer' = etw_buffer
    BY <1>12 DEF etw
  <2>2. \A i \in DOMAIN etw_buffer' : TransitionOK(etw_buffer[i])'
    BY <1>1, <1>3, <2>1
  <2> QED BY <1>1, <1>2, <1>5, <1>6, <2>1, <2>2
<1>13. Poller \/ Drain => UNCHANGED etw
  BY DEF Poller, TakeSnapshot, QueryEntry, Compare, PollerPush, Sleep, Drain
<1> QED BY <1>8, <1>9, <1>10, <1>11, <1>12, <1>13 DEF Next, System, Consumer

-----------------------------------------------------------------------------
(* The poller's comparison of two snapshots *)

\* The key that a snapshot gives an entry's parent.
LEMMA ParentKeyProperties ==
  ASSUME SystemOK, NEW entries, \A y \in entries : EntryOK(y), OnePerPid(entries),
         NEW x \in entries
  PROVE  LET key == ParentKey(entries, x)
             p   == env.parents[x.life]
         IN  /\ Real(key) /\ key.pid = ParentPid(x.life)
             /\ p = 0 => key = NoKey
             /\ p \in Alive \cap LivesOf(entries) => key = KnownParent(x.life)
<1> DEFINE p == env.parents[x.life]
           ppid == ParentPid(x.life)
           older == {y \in entries : /\ y.key.pid = ppid
                                     /\ \/ 0 \in {y.key.creation_time, x.key.creation_time}
                                        \/ y.key.creation_time <= x.key.creation_time}
           none == [pid |-> ppid, creation_time |-> 0]
           key == ParentKey(entries, x)
<1>1. /\ x.life \in 1..started /\ x.life \in Nat
      /\ p \in 0..(x.life - 1)
      /\ p # 0 => p \in 1..started /\ env.pids[p] \in Nat
  BY EnvFacts DEF EntryOK
<1>2. ppid = (IF p = 0 THEN 0 ELSE env.pids[p]) /\ ppid \in Nat
  BY <1>1 DEF ParentPid
<1>3. \A y \in entries : y.key \in ProcessKey /\ Real(y.key)
  BY DEF EntryOK, Real
<1>4. \/ key = none
      \/ \E y \in older : key = y.key
  BY DEF ParentKey
<1>5. Real(none) /\ none.pid = ppid
  BY <1>2 DEF Real, ProcessKey
<1>6. \A y \in older : Real(y.key) /\ y.key.pid = ppid
  BY <1>3
<1>7. Real(key) /\ key.pid = ppid
  <2> HIDE DEF key, none, older
  <2> QED BY <1>4, <1>5, <1>6
<1>8. ASSUME p = 0 PROVE key = NoKey
  <2>1. key \in ProcessKey /\ key.creation_time = 0 /\ key.pid = 0
    BY <1>2, <1>7, <1>8 DEF Real
  <2> HIDE DEF key
  <2> QED BY <2>1 DEF ProcessKey, NoKey
<1>9. ASSUME p \in Alive \cap LivesOf(entries) PROVE key = KnownParent(x.life)
  <2>1. PICK y \in entries : y.life = p
    BY <1>9 DEF LivesOf
  <2>2. p \in 1..started /\ p \notin gone /\ p # 0 /\ p < x.life /\ p \in Nat
    BY <1>1, <1>9, EnvFacts DEF Alive
  <2>3. y.key = KeyOf(p, Known(p)) /\ y.key.pid = env.pids[p]
    BY <2>1, <2>2 DEF EntryOK
  <2>4. Known(p) \in {0, p} /\ y.key.creation_time = Known(p)
    BY <2>3 DEF Known, KeyOf
  <2>5. x.key.creation_time = 0 \/ (x.key.creation_time \in Nat /\ x.key.creation_time >= x.life)
    BY <1>3 DEF EntryOK, ProcessKey
  <2>6. y \in older
    BY <1>1, <1>2, <2>1, <2>2, <2>3, <2>4, <2>5
  <2>7. \A z \in older : z = y
    BY <1>2, <2>2, <2>3 DEF OnePerPid
  <2>8. key = y.key
    BY <2>6, <2>7 DEF ParentKey
  <2> QED BY <2>2, <2>3, <2>8 DEF KnownParent
<1> HIDE DEF key, none, older
<1> QED BY <1>7, <1>8, <1>9 DEF key

\* The reports about some entries of a snapshot: one for each of them.
LEMMA ReportProperties ==
  ASSUME SystemOK, NEW entries, \A y \in entries : EntryOK(y), OnePerPid(entries),
         IsFiniteSet(entries), NEW some \in SUBSET entries, NEW type \in {"start", "stop"},
         type = "stop" => \A x \in some : x.life \in gone,
         type = "start" => \A x \in some :
           env.parents[x.life] \in Alive => env.parents[x.life] \in LivesOf(entries)
  PROVE  LET new == Report(type, some, entries)
         IN  /\ new \in Seq(Reported)
             /\ \A i \in DOMAIN new :
                  /\ ReportOK(new[i]) /\ new[i].type = type
                  /\ new[i].parent.pid = ParentPid(new[i].life)
                  /\ \E x \in some : new[i].process = x.key /\ new[i].life = x.life
             /\ \A x \in some : \E i \in DOMAIN new :
                  new[i].process = x.key /\ new[i].life = x.life
             /\ \A i, j \in DOMAIN new : new[i].life = new[j].life => i = j
<1> DEFINE order == Sorted(some)
           new == Report(type, some, entries)
           n == Cardinality(some)
<1>1. \A x \in some : x \in entries /\ EntryOK(x) /\ x.key.pid \in Nat
  BY DEF EntryOK, Real, ProcessKey
<1>2. /\ order \in Seq(some) /\ DOMAIN order = 1..n /\ n \in Nat /\ Range(order) = some
      /\ \A i, j \in DOMAIN order : order[i] = order[j] => i = j
  <2>1. IsFiniteSet(some)
    BY FS_Subset
  <2> HIDE DEF order, n
  <2> QED BY <1>1, <2>1, SortedProperties DEF order, n
<1>3. /\ DOMAIN new = 1..n
      /\ \A i \in 1..n : new[i] = Event(type, order[i].key, ParentKey(entries, order[i]),
                                        order[i].life)
  BY <1>2 DEF Report
<1> HIDE DEF new
<1>4. ASSUME NEW i \in 1..n
      PROVE  /\ order[i] \in some
             /\ new[i] \in Reported /\ ReportOK(new[i]) /\ new[i].type = type
             /\ new[i].parent.pid = ParentPid(new[i].life)
             /\ new[i].process = order[i].key /\ new[i].life = order[i].life
  <2> DEFINE x == order[i]
             key == ParentKey(entries, x)
             p == env.parents[x.life]
  <2>1. x \in some
    BY <1>2, Members
  <2> HIDE DEF x
  <2>2. /\ x \in entries /\ x.key \in ProcessKey /\ x.life \in Nat /\ Real(x.key)
        /\ x.life \in 1..started /\ x.key.pid = env.pids[x.life]
    BY <1>1, <2>1, EnvFacts DEF EntryOK
  <2>3. /\ Real(key) /\ key.pid = ParentPid(x.life)
        /\ p = 0 => key = NoKey
        /\ p \in Alive \cap LivesOf(entries) => key = KnownParent(x.life)
    BY <2>2, ParentKeyProperties
  <2>4. new[i] = [type |-> type, process |-> x.key, parent |-> key, name |-> NoName,
                  life |-> x.life]
    BY <1>3 DEF Event, x
  <2> HIDE DEF key
  <2>5. new[i] \in Reported
    BY <2>2, <2>3, <2>4 DEF Reported, Real
  <2>6. type = "start" /\ Queryable(p) => key = KnownParent(x.life)
    BY <2>1, <2>3 DEF Queryable, KnownParent
  <2>7. ReportOK(new[i])
    BY <2>1, <2>2, <2>3, <2>4, <2>5, <2>6, ClaimedReal DEF ReportOK, ParentFits
  <2> QED BY <2>1, <2>3, <2>4, <2>5, <2>7 DEF x
<1>5. new \in Seq(Reported)
  <2>1. new = [i \in 1..n |-> new[i]]
    BY <1>2, <1>3 DEF Report, new
  <2>2. new \in [1..n -> Reported]
    BY <1>4, <2>1
  <2> QED BY <1>2, <2>2, SeqDef
<1>6. \A x \in some : \E i \in 1..n : new[i].process = x.key /\ new[i].life = x.life
  <2>1. \A x \in some : \E i \in 1..n : order[i] = x
    BY <1>2 DEF Range
  <2> QED BY <1>4, <2>1
<1>7. ASSUME NEW i \in 1..n, NEW j \in 1..n, new[i].life = new[j].life PROVE i = j
  <2>1. /\ order[i] \in entries /\ order[j] \in entries
        /\ order[i].life = order[j].life
    BY <1>1, <1>4, <1>7
  <2>2. order[i].key.pid = order[j].key.pid
    BY <1>1, <2>1 DEF EntryOK
  <2> QED BY <1>2, <2>1, <2>2 DEF OnePerPid
<1> HIDE DEF order, n
<1> QED BY <1>3, <1>4, <1>5, <1>6, <1>7 DEF new

LEMMA Concatenated ==
  ASSUME NEW S, NEW s \in Seq(S), NEW t \in Seq(S)
  PROVE  /\ s \o t \in Seq(S)
         /\ \A i \in DOMAIN (s \o t) :
              \/ i \in DOMAIN s /\ (s \o t)[i] = s[i]
              \/ /\ i \notin DOMAIN s /\ i - Len(s) \in DOMAIN t /\ i \in Int /\ Len(s) \in Int
                 /\ (s \o t)[i] = t[i - Len(s)]
         /\ \A i \in DOMAIN s : i \in DOMAIN (s \o t) /\ (s \o t)[i] = s[i]
         /\ \A i \in DOMAIN t : \E j \in DOMAIN (s \o t) : (s \o t)[j] = t[i]
<1>1. /\ s \o t \in Seq(S) /\ Len(s \o t) = Len(s) + Len(t)
      /\ \A i \in 1 .. Len(s) + Len(t) :
           (s \o t)[i] = IF i <= Len(s) THEN s[i] ELSE t[i - Len(s)]
  BY ConcatProperties
<1>2. /\ Len(s) \in Nat /\ Len(t) \in Nat /\ DOMAIN s = 1..Len(s) /\ DOMAIN t = 1..Len(t)
      /\ DOMAIN (s \o t) = 1..(Len(s) + Len(t))
  BY <1>1, LenProperties
<1> DEFINE st == s \o t
<1> HIDE DEF st
<1>3. ASSUME NEW i \in DOMAIN t PROVE \E j \in DOMAIN st : st[j] = t[i]
  <2>1. /\ Len(s) + i \in 1..(Len(s) + Len(t)) /\ ~(Len(s) + i <= Len(s))
        /\ (Len(s) + i) - Len(s) = i
    BY <1>2
  <2>2. st[Len(s) + i] = t[i]
    BY <1>1, <2>1 DEF st
  <2> QED BY <1>2, <2>1, <2>2 DEF st
<1>4. ASSUME NEW i \in DOMAIN st
      PROVE  \/ i \in DOMAIN s /\ st[i] = s[i]
             \/ /\ i \notin DOMAIN s /\ i - Len(s) \in DOMAIN t /\ i \in Int
                /\ st[i] = t[i - Len(s)]
  BY <1>1, <1>2 DEF st
<1>5. \A i \in DOMAIN s : i \in DOMAIN st /\ st[i] = s[i]
  BY <1>1, <1>2 DEF st
<1> QED BY <1>1, <1>2, <1>3, <1>4, <1>5 DEF st

\* An entry of the last snapshot whose process still runs is in the next one.
LEMMA SeenAgain ==
  ASSUME SystemOK, PollerOK, Sighted, phase = "query", snapshot = {}
  PROVE  /\ \A x \in previous : x.life \notin gone =>
              \E y \in current : y.life = x.life /\ y.key = x.key
         /\ \A x \in Missing(previous, current) : x \in previous /\ x.life \in gone
<1>1. ASSUME NEW x \in previous, x.life \notin gone
      PROVE  \E y \in current : y.life = x.life /\ y.key = x.key
  <2>1. PICK y \in current : y.life = x.life
    BY <1>1 DEF Sighted, LivesOf
  <2>2. EntryOK(x) /\ EntryOK(y)
    BY DEF PollerOK
  <2> QED BY <1>1, <2>1, <2>2 DEF EntryOK
<1>2. ASSUME NEW x \in Missing(previous, current) PROVE x \in previous /\ x.life \in gone
  <2>1. \A y \in current : y.key # x.key
    BY DEF Missing, FindEntry, ProcessKeysMatch
  <2> QED BY <1>1, <2>1 DEF Missing
<1> QED BY <1>1, <1>2

\* What a poll has to report.
LEMMA CompareReports ==
  ASSUME SystemOK, PollerOK, Sighted, Compare
  PROVE  /\ phase = "query" /\ snapshot = {} /\ phase' = "emit" /\ previous' = current
         /\ UNCHANGED <<env, system, etw, snapshot, current, queue, processes>>
         /\ outbox' \in Seq(Reported)
         /\ \A i \in DOMAIN outbox' :
              /\ ReportOK(outbox'[i])
              /\ \/ /\ outbox'[i].type = "start"
                    /\ \E x \in Missing(current, previous) :
                         outbox'[i].process = x.key /\ outbox'[i].life = x.life
                 \/ /\ outbox'[i].type = "stop"
                    /\ \E x \in Missing(previous, current) :
                         outbox'[i].process = x.key /\ outbox'[i].life = x.life
         /\ \A x \in Missing(current, previous) : \E i \in DOMAIN outbox' :
              /\ outbox'[i].type = "start" /\ outbox'[i].process = x.key
              /\ outbox'[i].life = x.life
         /\ \A x \in Missing(previous, current) : \E i \in DOMAIN outbox' :
              /\ outbox'[i].type = "stop" /\ outbox'[i].process = x.key
              /\ outbox'[i].life = x.life
         /\ \A i, j \in DOMAIN outbox' :
              outbox'[i].type = "start" /\ outbox'[j].type = "start"
                /\ outbox'[i].life = outbox'[j].life => i = j
<1> DEFINE born == Missing(current, previous)
           lost == Missing(previous, current)
           s == Report("start", born, current)
           t == Report("stop", lost, previous)
<1>1. /\ phase = "query" /\ snapshot = {} /\ phase' = "emit" /\ previous' = current
      /\ UNCHANGED <<env, system, etw, snapshot, current, queue, processes>>
      /\ outbox' = s \o t
  BY DEF Compare
<1>2. /\ \A y \in current : EntryOK(y)
      /\ \A y \in previous : EntryOK(y)
      /\ OnePerPid(current) /\ IsFiniteSet(current)
      /\ OnePerPid(previous) /\ IsFiniteSet(previous)
  BY DEF PollerOK
<1>3. born \in SUBSET current /\ lost \in SUBSET previous
  BY DEF Missing
<1>4. \A x \in lost : x.life \in gone
  BY <1>1, SeenAgain
<1>5. ASSUME NEW x \in born, env.parents[x.life] \in Alive
      PROVE  env.parents[x.life] \in LivesOf(current)
  <2>1. x \in current /\ x.life \in LivesOf(current) /\ x.life \in 1..started
    BY <1>2, <1>3 DEF LivesOf, EntryOK
  <2>2. x.life \in 1..Len(env.pids)
    BY <2>1, EnvFacts
  <2>3. env.parents[x.life] \in 0..(x.life - 1)
    BY <2>2, EnvFacts
  <2>4. env.parents[x.life] \in 1..started /\ env.parents[x.life] \notin gone
    BY <1>5 DEF Alive
  <2>5. env.parents[x.life] \in 1..x.life
    BY <2>2, <2>3, <2>4
  <2> QED BY <1>1, <2>1, <2>4, <2>5 DEF PollerOK
<1> HIDE DEF born, lost
<1>6. /\ s \in Seq(Reported)
      /\ \A i \in DOMAIN s : /\ ReportOK(s[i]) /\ s[i].type = "start"
                             /\ \E x \in born : s[i].process = x.key /\ s[i].life = x.life
      /\ \A x \in born : \E i \in DOMAIN s : s[i].process = x.key /\ s[i].life = x.life
      /\ \A i, j \in DOMAIN s : s[i].life = s[j].life => i = j
  <2>1. \A x \in born :
          env.parents[x.life] \in Alive => env.parents[x.life] \in LivesOf(current)
    BY <1>5
  <2> HIDE DEF s
  <2> QED BY <1>2, <1>3, <2>1, ReportProperties DEF s
<1>7. /\ t \in Seq(Reported)
      /\ \A i \in DOMAIN t : /\ ReportOK(t[i]) /\ t[i].type = "stop"
                             /\ \E x \in lost : t[i].process = x.key /\ t[i].life = x.life
      /\ \A x \in lost : \E i \in DOMAIN t : t[i].process = x.key /\ t[i].life = x.life
  <2> HIDE DEF t
  <2> QED BY <1>2, <1>3, <1>4, ReportProperties DEF t
<1> DEFINE st == s \o t
<1>8. /\ st \in Seq(Reported)
      /\ \A i \in DOMAIN st :
           \/ i \in DOMAIN s /\ st[i] = s[i]
           \/ i - Len(s) \in DOMAIN t /\ st[i] = t[i - Len(s)]
      /\ \A i \in DOMAIN s : i \in DOMAIN st /\ st[i] = s[i]
      /\ \A i \in DOMAIN t : \E j \in DOMAIN st : st[j] = t[i]
  <2> HIDE DEF s, t
  <2>1. s \in Seq(Reported) /\ t \in Seq(Reported)
    BY <1>6, <1>7
  <2> QED BY <2>1, Concatenated
<1> HIDE DEF s, t, st
<1>9. ASSUME NEW i \in DOMAIN st
      PROVE  /\ ReportOK(st[i])
             /\ \/ /\ st[i].type = "start"
                   /\ \E x \in born : st[i].process = x.key /\ st[i].life = x.life
                \/ /\ st[i].type = "stop"
                   /\ \E x \in lost : st[i].process = x.key /\ st[i].life = x.life
  <2>1. CASE i \in DOMAIN s /\ st[i] = s[i]
    BY <1>6, <2>1
  <2>2. ASSUME NEW k \in DOMAIN t, st[i] = t[k]
        PROVE  /\ ReportOK(st[i]) /\ st[i].type = "stop"
               /\ \E x \in lost : st[i].process = x.key /\ st[i].life = x.life
    BY <1>7, <2>2
  <2> QED BY <1>8, <2>1, <2>2
<1>10. \A x \in born : \E i \in DOMAIN st :
         st[i].type = "start" /\ st[i].process = x.key /\ st[i].life = x.life
  BY <1>6, <1>8
<1>11. \A x \in lost : \E i \in DOMAIN st :
         st[i].type = "stop" /\ st[i].process = x.key /\ st[i].life = x.life
  <2> TAKE x \in lost
  <2>1. PICK k \in DOMAIN t : t[k].process = x.key /\ t[k].life = x.life /\ t[k].type = "stop"
    BY <1>7
  <2>2. PICK i \in DOMAIN st : st[i] = t[k]
    BY <1>8
  <2> QED BY <2>1, <2>2
<1>12. ASSUME NEW i \in DOMAIN st, NEW j \in DOMAIN st, st[i].type = "start",
              st[j].type = "start", st[i].life = st[j].life
       PROVE  i = j
  <2>1. i \in DOMAIN s /\ j \in DOMAIN s /\ st[i] = s[i] /\ st[j] = s[j]
    BY <1>7, <1>8, <1>12
  <2> QED BY <1>6, <1>12, <2>1
<1>13. outbox' = st
  BY <1>1 DEF st
<1> QED BY <1>1, <1>8, <1>9, <1>10, <1>11, <1>12, <1>13 DEF born, lost

-----------------------------------------------------------------------------
(* Every step leaves the poller and the pipeline sound *)

LEMMA AliveFacts ==
  ASSUME SystemOK
  PROVE  /\ Alive \subseteq 1..started /\ IsFiniteSet(Alive)
         /\ \A l \in 1..started : l \in gone \/ l \in Alive
         /\ \A l \in Alive : l \notin gone
<1>1. IsFiniteSet(1..started)
  BY EnvFacts, FS_Interval
<1>2. Alive \subseteq 1..started
  BY DEF Alive
<1>3. IsFiniteSet(Alive)
  BY <1>1, <1>2, FS_Subset
<1> QED BY <1>2, <1>3 DEF Alive

\* The first look at the system of a poll.
LEMMA SnapshotTaken ==
  ASSUME SystemOK, PollerOK, TakeSnapshot
  PROVE  /\ phase = "sleep" /\ phase' = "query" /\ stale' = FALSE
         /\ UNCHANGED <<env, started, gone, etw, previous, outbox, queue, processes>>
         /\ snapshot' \cup LivesOf(current') = Alive /\ snapshot' \cap LivesOf(current') = {}
         /\ snapshot' \subseteq 1..started
         /\ \A y \in current' : EntryOK(y)
         /\ OnePerPid(current') /\ IsFiniteSet(current')
<1>1. /\ phase = "sleep" /\ phase' = "query" /\ stale' = FALSE
      /\ UNCHANGED <<env, started, gone, etw, previous, outbox, queue, processes>>
  BY DEF TakeSnapshot
<1>2. CASE env.atomic
  <2>1. snapshot' = {} /\ current' = {Entry(l) : l \in Alive}
    BY <1>2 DEF TakeSnapshot
  <2>2. \A l \in Alive : EntryOK(Entry(l)) /\ Entry(l).life = l
    BY AliveFacts, EntryProperties
  <2>3. LivesOf(current') = Alive
    BY <2>1, <2>2 DEF LivesOf
  <2>4. OnePerPid(current')
    BY <2>1, <2>2, AliveDistinct DEF OnePerPid, EntryOK
  <2>5. IsFiniteSet(current')
    <3> DEFINE f == [l \in Alive |-> Entry(l)]
    <3>1. f \in Surjection(Alive, current')
      BY <2>1 DEF Surjection
    <3> HIDE DEF f
    <3> QED BY <3>1, AliveFacts, FS_Surjection
  <2> QED BY <1>1, <2>1, <2>2, <2>3, <2>4, <2>5, AliveFacts
<1>3. CASE ~env.atomic
  <2>1. snapshot' = Alive /\ current' = {}
    BY <1>3 DEF TakeSnapshot
  <2>2. LivesOf(current') = {} /\ OnePerPid(current') /\ IsFiniteSet(current')
    BY <2>1, FS_EmptySet DEF LivesOf, OnePerPid
  <2> QED BY <1>1, <2>1, <2>2, AliveFacts
<1> QED BY <1>2, <1>3

\* A look at one entry of the snapshot.
LEMMA EntryQueried ==
  ASSUME SystemOK, PollerOK, QueryEntry
  PROVE  /\ phase = "query"
         /\ UNCHANGED <<env, system, etw, phase, previous, outbox, queue, processes>>
         /\ snapshot' \cup LivesOf(current') = snapshot \cup LivesOf(current)
         /\ snapshot' \cap LivesOf(current') = {} /\ snapshot' \subseteq snapshot
         /\ \A y \in current' : EntryOK(y)
         /\ OnePerPid(current') /\ IsFiniteSet(current')
<1>1. PICK l \in snapshot : snapshot' = snapshot \ {l} /\ current' = current \cup {Entry(l)}
  BY DEF QueryEntry
<1>2. /\ phase = "query"
      /\ UNCHANGED <<env, system, etw, phase, previous, outbox, queue, processes>>
  BY DEF QueryEntry
<1>3. EntryOK(Entry(l)) /\ Entry(l).life = l
  BY EntryProperties DEF PollerOK
<1>4. LivesOf(current') = LivesOf(current) \cup {l}
  BY <1>1, <1>3 DEF LivesOf
<1>5. IsFiniteSet(current')
  <2>1. IsFiniteSet(current)
    BY DEF PollerOK
  <2> QED BY <1>1, <2>1, FS_AddElement
<1>6. ASSUME NEW x \in current, x.key.pid = Entry(l).key.pid PROVE FALSE
  <2>1. EntryOK(x) /\ x.life \in LivesOf(current)
    BY DEF PollerOK, LivesOf
  <2>2. env.pids[l] = env.pids[x.life]
    BY <1>3, <1>6, <2>1 DEF EntryOK
  <2>3. l = x.life
    BY <2>1, <2>2 DEF PollerOK
  <2> QED BY <2>1, <2>3 DEF PollerOK
<1>7. OnePerPid(current')
  <2>1. OnePerPid(current)
    BY DEF PollerOK
  <2> QED BY <1>1, <1>6, <2>1 DEF OnePerPid
<1>8. \A y \in current' : EntryOK(y)
  BY <1>1, <1>3 DEF PollerOK
<1>9. snapshot \cap LivesOf(current) = {}
  BY DEF PollerOK
<1> QED BY <1>1, <1>2, <1>4, <1>5, <1>7, <1>8, <1>9

LEMMA PollerStep ==
  ASSUME SystemOK, PollerOK, Sighted, Next
  PROVE  PollerOK'
<1>1. /\ env' = env /\ started' \in Nat /\ started <= started' /\ gone \subseteq gone'
      /\ started \in Nat /\ 1..started \subseteq 1..started'
  BY SystemStep, EnvFacts
<1>2. \A x : EntryOK(x) => EntryOK(x)'
  BY <1>1, Stays
<1>3. CASE UNCHANGED poller
  <2>1. UNCHANGED <<phase, snapshot, current, previous, outbox>>
    BY <1>3 DEF poller
  <2>2. UNCHANGED <<LivesOf(current), OnePerPid(current), OnePerPid(previous)>>
    BY <2>1 DEF LivesOf, OnePerPid
  <2> QED BY <1>1, <1>2, <2>1, <2>2 DEF PollerOK
<1>4. CASE TakeSnapshot
  <2>1. /\ phase' = "query" /\ outbox' = <<>> /\ UNCHANGED <<env, started, gone, previous>>
        /\ snapshot' \cup LivesOf(current') = Alive /\ snapshot' \cap LivesOf(current') = {}
        /\ snapshot' \subseteq 1..started
        /\ \A y \in current' : EntryOK(y)
        /\ OnePerPid(current') /\ IsFiniteSet(current')
    BY <1>4, SnapshotTaken DEF PollerOK
  <2>2. \A l \in snapshot' : \A m \in snapshot' \cup LivesOf(current') :
          env.pids[l] = env.pids[m] => l = m
    BY <2>1, AliveDistinct
  <2>3. \A l \in snapshot' \cup LivesOf(current') : \A m \in 1..l :
          m \in gone \cup snapshot' \cup LivesOf(current')
    BY <1>1, <2>1, AliveFacts
  <2>4. UNCHANGED OnePerPid(previous) /\ LivesOf(current)' = LivesOf(current')
        /\ OnePerPid(current)' = OnePerPid(current')
    BY <2>1 DEF OnePerPid, LivesOf
  <2> QED BY <1>2, <2>1, <2>2, <2>3, <2>4 DEF PollerOK
<1>5. CASE QueryEntry
  <2>1. /\ phase = "query" /\ UNCHANGED <<env, started, gone, phase, previous, outbox>>
        /\ snapshot' \cup LivesOf(current') = snapshot \cup LivesOf(current)
        /\ snapshot' \cap LivesOf(current') = {} /\ snapshot' \subseteq snapshot
        /\ \A y \in current' : EntryOK(y)
        /\ OnePerPid(current') /\ IsFiniteSet(current')
    BY <1>5, EntryQueried DEF system
  <2>2. \A l \in snapshot' : \A m \in snapshot' \cup LivesOf(current') :
          env.pids[l] = env.pids[m] => l = m
    BY <2>1 DEF PollerOK
  <2>3. \A l \in snapshot' \cup LivesOf(current') : \A m \in 1..l :
          m \in gone \cup snapshot' \cup LivesOf(current')
    BY <2>1 DEF PollerOK
  <2>4. UNCHANGED OnePerPid(previous) /\ LivesOf(current)' = LivesOf(current')
        /\ OnePerPid(current)' = OnePerPid(current')
    BY <2>1 DEF OnePerPid, LivesOf
  <2>5. /\ snapshot \subseteq 1..started /\ phase # "emit" => outbox = <<>>
        /\ \A x \in previous : EntryOK(x)
        /\ OnePerPid(previous) /\ IsFiniteSet(previous)
    BY DEF PollerOK
  <2> QED BY <1>2, <2>1, <2>2, <2>3, <2>4, <2>5 DEF PollerOK
<1>6. CASE Compare
  <2>1. /\ snapshot = {} /\ phase' = "emit" /\ previous' = current
        /\ UNCHANGED <<env, started, gone, snapshot, current>>
    BY <1>6 DEF Compare, system
  <2>2. /\ OnePerPid(current)' = OnePerPid(current)
        /\ OnePerPid(previous)' = OnePerPid(current) /\ LivesOf(current)' = LivesOf(current)
    BY <2>1 DEF OnePerPid, LivesOf
  <2> QED BY <1>2, <2>1, <2>2 DEF PollerOK
<1>7. CASE PollerPush
  <2>1. /\ phase = "emit" /\ UNCHANGED <<env, started, gone, phase, snapshot, current, previous>>
    BY <1>7 DEF PollerPush, system
  <2>2. UNCHANGED <<LivesOf(current), OnePerPid(current), OnePerPid(previous)>>
    BY <2>1 DEF LivesOf, OnePerPid
  <2> QED BY <1>2, <2>1, <2>2 DEF PollerOK
<1>8. CASE Sleep
  <2>1. /\ phase = "emit" /\ phase' = "sleep" /\ current' = {} /\ outbox = <<>>
        /\ UNCHANGED <<env, started, gone, snapshot, previous, outbox>>
    BY <1>8 DEF Sleep, system
  <2>2. /\ UNCHANGED OnePerPid(previous) /\ OnePerPid(current)' /\ LivesOf(current)' = {}
        /\ IsFiniteSet(current')
    BY <2>1, FS_EmptySet DEF LivesOf, OnePerPid
  <2>3. snapshot = {}
    BY <2>1 DEF PollerOK
  <2> QED BY <1>2, <2>1, <2>2, <2>3 DEF PollerOK
<1>9. System \/ Consumer \/ Drain => UNCHANGED poller
  BY DEF System, Consumer, CreateProcess, EndProcess, Callback, CallbackPush, Drain
<1> QED BY <1>3, <1>4, <1>5, <1>6, <1>7, <1>8, <1>9 DEF Next, Poller

LEMMA SightedStep ==
  ASSUME SystemOK, PollerOK, Sighted, Next
  PROVE  Sighted'
<1> DEFINE found == snapshot \cup LivesOf(current)
<1>1. /\ env' = env /\ started' \in Nat /\ started <= started' /\ gone \subseteq gone'
      /\ started \in Nat
  BY SystemStep, EnvFacts
<1>2. CASE UNCHANGED poller
  <2>1. UNCHANGED <<phase, previous, found>>
    BY <1>2 DEF poller, LivesOf
  <2> HIDE DEF found
  <2> QED BY <1>1, <2>1 DEF Sighted, found
<1>3. CASE TakeSnapshot
  <2>1. /\ UNCHANGED <<env, started, gone, previous>> /\ snapshot' \cup LivesOf(current)' = Alive
    BY <1>3, SnapshotTaken DEF LivesOf
  <2>2. ASSUME NEW x \in previous
        PROVE  /\ x.life \in gone \/ x.life \in Alive
               /\ x.key.creation_time \notin {0} \cup gone => x.key.creation_time \in Alive
               /\ x.key.creation_time = 0 /\ x.key.pid # 0 /\ x.life \in Alive
                    => x.life \in env.hidden
    <3>1. EntryOK(x)
      BY DEF PollerOK
    <3>2. x.life \in 1..started
      BY <3>1 DEF EntryOK
    <3>3. x.key.creation_time # 0 => x.key.creation_time \in 1..started
      BY <3>1 DEF EntryOK, Real
    <3>4. ASSUME x.key.creation_time = 0, x.key.pid # 0, x.life \in Alive
          PROVE  x.life \in env.hidden
      <4>1. x.key = KeyOf(x.life, Known(x.life)) /\ x.life # 0
        BY <3>1, <3>4, EnvFacts DEF EntryOK, Alive
      <4>2. x.key.pid = env.pids[x.life] /\ x.key.creation_time = Known(x.life)
        BY <4>1 DEF KeyOf
      <4> QED BY <3>4, <4>1, <4>2 DEF Known
    <3> QED BY <3>2, <3>3, <3>4, AliveFacts
  <2> QED BY <2>1, <2>2 DEF Sighted
<1>4. CASE QueryEntry
  <2>1. /\ UNCHANGED <<env, gone, phase, previous>>
        /\ snapshot' \cup LivesOf(current)' = snapshot \cup LivesOf(current)
    BY <1>4, EntryQueried DEF LivesOf, system
  <2> QED BY <2>1 DEF Sighted
<1>5. CASE Compare \/ PollerPush \/ Sleep
  <2>1. phase' # "query"
    BY <1>5 DEF Compare, PollerPush, Sleep
  <2> QED BY <2>1 DEF Sighted
<1>6. System \/ Consumer \/ Drain => UNCHANGED poller
  BY DEF System, Consumer, CreateProcess, EndProcess, Callback, CallbackPush, Drain
<1> QED BY <1>2, <1>3, <1>4, <1>5, <1>6 DEF Next, Poller

LEMMA Pushed ==
  ASSUME queue \in Seq(Reported), NEW e \in Reported, Push(e)
  PROVE  /\ queue' \in Seq(Reported) /\ Len(queue) \in Nat
         /\ \A i \in DOMAIN queue : i \in DOMAIN queue' /\ queue'[i] = queue[i]
         /\ \A i \in DOMAIN queue' :
              \/ i \in DOMAIN queue /\ queue'[i] = queue[i]
              \/ /\ i \notin DOMAIN queue /\ i = Len(queue) + 1 /\ queue'[i] = e
                 /\ \A j \in DOMAIN queue : j < i
         /\ env.lossy \/ (Len(queue) + 1 \in DOMAIN queue' /\ queue'[Len(queue) + 1] = e)
<1>1. /\ Len(queue) \in Nat /\ DOMAIN queue = 1..Len(queue)
  BY LenProperties
<1>3. CASE queue' = Append(queue, e)
  <2> DEFINE n == Len(queue)
  <2>1. /\ queue' \in Seq(Reported) /\ n \in Nat
        /\ DOMAIN queue = 1..n /\ DOMAIN queue' = 1..(n + 1)
        /\ \A i \in DOMAIN queue : i \in DOMAIN queue' /\ queue'[i] = queue[i]
        /\ \A i \in DOMAIN queue' : i \in DOMAIN queue \/ i = n + 1
        /\ n + 1 \in DOMAIN queue' /\ queue'[n + 1] = e
    BY <1>3, Appended
  <2>2. n + 1 \notin DOMAIN queue /\ \A j \in DOMAIN queue : j < n + 1
    BY <2>1
  <2> HIDE DEF n
  <2> QED BY <2>1, <2>2 DEF n
<1>4. CASE queue' = queue /\ env.lossy
  BY <1>1, <1>4
<1> QED BY <1>3, <1>4 DEF Push

\* A report comes out of the poller's list or of the callback's hand into the queue.
LEMMA PushedReport ==
  ASSUME EtwOK, PipelineOK, CallbackPush \/ PollerPush
  PROVE  /\ UNCHANGED <<env, system, etw_buffer, phase, snapshot, current, previous, processes>>
         /\ \E e \in Reported :
              /\ ReportOK(e) /\ Push(e)
              /\ \/ etw_hand # None /\ e = etw_hand /\ etw_hand' = None /\ outbox' = outbox
                 \/ /\ outbox # <<>> /\ e = Head(outbox) /\ outbox' = Tail(outbox)
                    /\ etw_hand' = etw_hand /\ phase = "emit"
<1>1. CASE CallbackPush
  <2>1. /\ etw_hand # None /\ Push(etw_hand) /\ etw_hand' = None /\ outbox' = outbox
        /\ UNCHANGED <<env, system, etw_buffer, phase, snapshot, current, previous, processes>>
    BY <1>1 DEF CallbackPush, poller
  <2>2. etw_hand \in Reported /\ ReportOK(etw_hand)
    BY <2>1 DEF EtwOK, HandOK, ReportOK
  <2> QED BY <2>1, <2>2
<1>2. CASE PollerPush
  <2>1. /\ outbox # <<>> /\ Push(Head(outbox)) /\ outbox' = Tail(outbox) /\ etw_hand' = etw_hand
        /\ UNCHANGED <<env, system, etw_buffer, phase, snapshot, current, previous, processes>>
        /\ phase = "emit"
    BY <1>2 DEF PollerPush, etw
  <2>2. Head(outbox) \in Reported /\ ReportOK(Head(outbox))
    BY <2>1, Popped DEF PipelineOK
  <2> QED BY <2>1, <2>2
<1> QED BY <1>1, <1>2

LEMMA PipelineStep ==
  ASSUME SystemOK, EtwOK, PollerOK, Sighted, PipelineOK, Next
  PROVE  PipelineOK'
<1>1. /\ env' = env /\ started' \in Nat /\ started <= started' /\ gone \subseteq gone'
      /\ started \in Nat
  BY SystemStep, EnvFacts
<1>2. \A e : ReportOK(e) => ReportOK(e)'
  BY <1>1, Stays
<1>3. /\ queue \in Seq(Reported) /\ \A i \in DOMAIN queue : ReportOK(queue[i])
      /\ outbox \in Seq(Reported) /\ \A i \in DOMAIN outbox : ReportOK(outbox[i])
  BY DEF PipelineOK
<1>4. CASE UNCHANGED <<queue, outbox>>
  BY <1>2, <1>3, <1>4 DEF PipelineOK
<1>5. CASE CallbackPush \/ PollerPush
  <2>1. PICK e \in Reported :
          /\ ReportOK(e) /\ Push(e)
          /\ \/ outbox' = outbox
             \/ outbox # <<>> /\ outbox' = Tail(outbox)
    BY <1>5, PushedReport
  <2>2. /\ queue' \in Seq(Reported)
        /\ \A i \in DOMAIN queue' : ReportOK(queue'[i])
    BY <1>3, <2>1, Pushed
  <2>3. /\ outbox' \in Seq(Reported)
        /\ \A i \in DOMAIN outbox' : ReportOK(outbox'[i])
    BY <1>3, <2>1, Popped
  <2> QED BY <1>2, <2>2, <2>3 DEF PipelineOK
<1>6. CASE Compare
  <2>1. /\ outbox' \in Seq(Reported) /\ queue' = queue
        /\ \A i \in DOMAIN outbox' : ReportOK(outbox'[i])
    BY <1>6, CompareReports
  <2> QED BY <1>2, <1>3, <2>1 DEF PipelineOK
<1>7. CASE Drain
  <2>1. queue # <<>> /\ queue' = Tail(queue) /\ outbox' = outbox
    BY <1>7 DEF Drain, poller
  <2>2. /\ queue' \in Seq(Reported)
        /\ \A i \in DOMAIN queue' : ReportOK(queue'[i])
    BY <1>3, <2>1, Popped
  <2> QED BY <1>2, <1>3, <2>1, <2>2 DEF PipelineOK
<1>8. System \/ Callback \/ TakeSnapshot \/ QueryEntry \/ Sleep => UNCHANGED <<queue, outbox>>
  BY DEF System, CreateProcess, EndProcess, Callback, TakeSnapshot, QueryEntry, Sleep, poller
<1> QED BY <1>4, <1>5, <1>6, <1>7, <1>8 DEF Next, Consumer, Poller

-----------------------------------------------------------------------------
(* What the GUI thread makes of a report *)

LEMMA Drained ==
  ASSUME PipelineOK, TableOK, Drain,
         NEW e, e = Head(queue), NEW i, i = FindProcess(processes, e.process),
         NEW n, n = Len(processes)
  PROVE  /\ UNCHANGED <<env, system, etw, poller>>
         /\ queue # <<>> /\ queue' = Tail(queue) /\ 1 \in DOMAIN queue /\ e = queue[1]
         /\ e \in Reported /\ ReportOK(e)
         /\ processes' = Recorded(processes, e) /\ processes' \in Seq(Record({NoName}))
         /\ n \in Nat /\ DOMAIN processes = 1..n
         /\ i = 0 => /\ DOMAIN processes' = 1..(n + 1)
                     /\ \A j \in DOMAIN processes : processes'[j] = processes[j]
                     /\ processes'[n + 1].key = e.process
                     /\ processes'[n + 1].parent = e.parent
                     /\ processes'[n + 1].active = (e.type = "start")
                     /\ e.process.pid # 0 => ActiveMatches(processes, e.process) = {}
         /\ i # 0 => /\ i \in DOMAIN processes /\ DOMAIN processes' = 1..n
                     /\ \A j \in DOMAIN processes : j # i => processes'[j] = processes[j]
                     /\ processes'[i].active = (processes[i].active /\ e.type = "start")
                     /\ processes[i].key.pid = e.process.pid /\ e.process.pid # 0
                     /\ processes'[i].key = processes[i].key \/ processes'[i].key = e.process
                     /\ processes[i].key.creation_time # 0 => processes'[i].key = processes[i].key
                     /\ e.process.creation_time # 0 => processes'[i].key = e.process
                     /\ \/ processes'[i].parent = processes[i].parent
                        \/ e.parent.pid # 0 /\ processes'[i].parent = e.parent
                     /\ e.type = "start" /\ e.parent.pid # 0 => processes'[i].parent = e.parent
                     /\ \/ i \in SameIdentity(processes, e.process)
                        \/ /\ i \in ActiveMatches(processes, e.process)
                           /\ SameIdentity(processes, e.process) = {}
<1>1. /\ UNCHANGED <<env, system, etw, poller>>
      /\ queue # <<>> /\ queue' = Tail(queue) /\ processes' = Recorded(processes, e)
  BY DEF Drain
<1>2. /\ 1 \in DOMAIN queue /\ e = queue[1] /\ e \in Reported /\ ReportOK(e)
  BY <1>1, Popped DEF PipelineOK
<1>3. /\ e.process \in ProcessKey /\ e.parent \in ProcessKey /\ e.name \in {NoName}
      /\ e.type \in {"start", "stop"}
  BY <1>2 DEF Reported
<1>4. processes \in Seq(Record({NoName})) /\ n \in Nat /\ DOMAIN processes = 1..n
  <2>1. processes \in Seq(Record({NoName}))
    BY DEF TableOK
  <2> QED BY <2>1, LenProperties
<1>5. /\ i # 0 => \/ i \in SameIdentity(processes, e.process)
                  \/ /\ i \in ActiveMatches(processes, e.process)
                     /\ SameIdentity(processes, e.process) = {}
      /\ i # 0 => e.process.pid # 0
      /\ i = 0 /\ e.process.pid # 0 => ActiveMatches(processes, e.process) = {}
  BY <1>3, <1>4, FindProcessProperties
<1>6. CASE i = 0
  <2>1. /\ processes' = Append(processes, NewRecord(e))
        /\ processes' \in Seq(Record({NoName})) /\ Len(processes') = n + 1
        /\ \A j \in 1..n : processes'[j] = processes[j]
        /\ processes'[n + 1].key = e.process
        /\ processes'[n + 1].active = (e.type = "start")
    BY <1>1, <1>3, <1>4, <1>6, RecordedUnknown
  <2>2. processes'[n + 1] = NewRecord(e)
    <3>1. NewRecord(e) \in Record({NoName})
      BY <1>3, NewRecordProperties
    <3> QED BY <1>4, <2>1, <3>1, AppendProperties
  <2>3. processes'[n + 1].parent = e.parent
    BY <2>2 DEF NewRecord
  <2>4. DOMAIN processes' = 1..(n + 1)
    BY <2>1, LenProperties
  <2> QED BY <1>1, <1>2, <1>4, <1>5, <1>6, <2>1, <2>3, <2>4
<1>7. CASE i # 0
  <2> DEFINE new == Recorded(processes, e)
  <2>1. /\ i \in 1..n
        /\ new \in Seq(Record({NoName})) /\ Len(new) = n
        /\ \A j \in 1..n : j # i => new[j] = processes[j]
        /\ new[i].active = (processes[i].active /\ e.type = "start")
        /\ processes[i].key.pid = e.process.pid
        /\ new[i].key = processes[i].key \/ new[i].key = e.process
        /\ processes[i].key.creation_time # 0 => new[i].key = processes[i].key
        /\ e.process.creation_time # 0 => new[i].key = e.process
    <3> HIDE DEF new
    <3> QED BY <1>3, <1>4, <1>7, RecordedKnown DEF new
  <2>2. /\ \/ new[i].parent = processes[i].parent
           \/ e.parent.pid # 0 /\ new[i].parent = e.parent
        /\ e.type = "start" /\ e.parent.pid # 0 => new[i].parent = e.parent
    <3> DEFINE up == UpdateRecord(processes[i], e)
    <3>1. /\ up.parent = IF e.parent.pid # 0 THEN e.parent ELSE processes[i].parent
          /\ DOMAIN up = {"key", "parent", "name", "active"}
      BY DEF UpdateRecord
    <3>2. new = processes \/ new[i] = up \/ new[i] = [up EXCEPT !.active = FALSE]
      BY <1>4, <1>7, <2>1 DEF Recorded
    <3>3. e.type = "start" => new[i] = up
      BY <1>4, <1>7, <2>1 DEF Recorded
    <3>4. [up EXCEPT !.active = FALSE].parent = up.parent
      OBVIOUS
    <3> HIDE DEF up, new
    <3> QED BY <3>1, <3>2, <3>3, <3>4
  <2>3. DOMAIN new = 1..n
    <3> HIDE DEF new
    <3> QED BY <2>1, LenProperties
  <2> HIDE DEF new
  <2>4. processes' = new
    BY <1>1 DEF new
  <2> QED BY <1>1, <1>2, <1>4, <1>5, <1>7, <2>1, <2>2, <2>3, <2>4
<1> QED BY <1>6, <1>7

LEMMA TableStep ==
  ASSUME SystemOK, PipelineOK, TableOK, Next
  PROVE  TableOK'
<1>1. /\ env' = env /\ started' \in Nat /\ started <= started' /\ gone \subseteq gone'
  BY SystemStep
<1>2. CASE UNCHANGED processes
  <2>1. \A key : (Real(key) => Real(key)') /\ (Claimed(key) => Claimed(key)')
    BY <1>1, Stays
  <2>2. \A r : RecordOK(r) => RecordOK(r)'
    BY <1>1, <2>1, EnvFacts DEF RecordOK
  <2> QED BY <1>2, <2>2 DEF TableOK
<1>3. CASE Drain
  <2> DEFINE e == Head(queue)
             i == FindProcess(processes, e.process)
             n == Len(processes)
  <2>1. e = Head(queue) /\ i = FindProcess(processes, e.process) /\ n = Len(processes)
    OBVIOUS
  <2> HIDE DEF e, i, n
  <2>9. /\ UNCHANGED <<env, system>> /\ e \in Reported /\ ReportOK(e)
        /\ processes' = Recorded(processes, e) /\ processes' \in Seq(Record({NoName}))
        /\ n \in Nat /\ DOMAIN processes = 1..n
    BY <1>3, <2>1, Drained
  <2>10. i = 0 => /\ DOMAIN processes' = 1..(n + 1)
                  /\ \A j \in DOMAIN processes : processes'[j] = processes[j]
                  /\ processes'[n + 1].key = e.process
                  /\ processes'[n + 1].parent = e.parent
    BY <1>3, <2>1, Drained
  <2>11. i # 0 => /\ i \in DOMAIN processes /\ DOMAIN processes' = 1..n
                  /\ \A j \in DOMAIN processes : j # i => processes'[j] = processes[j]
                  /\ processes'[i].key = processes[i].key \/ processes'[i].key = e.process
                  /\ \/ processes'[i].parent = processes[i].parent
                     \/ processes'[i].parent = e.parent
    BY <1>3, <2>1, Drained
  <2>3. /\ Claimed(e.process) /\ Real(e.parent) /\ e.process.pid = env.pids[e.life]
        /\ e.life \in 1..started /\ e.type \in {"start", "stop"} /\ e.name \in {NoName}
        /\ e.process \in ProcessKey /\ e.parent \in ProcessKey
    BY <2>9, <2>10, <2>11 DEF ReportOK, Reported
  <2>4. SoundTable(processes') /\ processes \in Seq(Record({NoName}))
    <3>1. processes \in Seq(Record({NoName})) /\ SoundTable(processes)
      BY DEF TableOK
    <3>2. e.process.pid = 0 => e.process.creation_time = 0
      BY <2>3 DEF Claimed
    <3>3. CASE i = 0
      BY <2>1, <2>9, <2>10, <2>11, <2>3, <3>1, <3>2, <3>3, SoundAfterUnknown
    <3>4. CASE i # 0
      BY <2>1, <2>9, <2>10, <2>11, <2>3, <3>1, <3>4, SoundAfterKnown
    <3> QED BY <3>1, <3>3, <3>4
  <2>5. \A j \in DOMAIN processes : RecordOK(processes[j])
    BY DEF TableOK
  <2>6. \A j \in DOMAIN processes' : RecordOK(processes'[j])
    <3> TAKE j \in DOMAIN processes'
    <3>1. CASE j \in DOMAIN processes /\ processes'[j] = processes[j]
      BY <2>5, <3>1
    <3>2. CASE i = 0 /\ j = n + 1
      BY <2>9, <2>10, <2>11, <2>3, <3>2 DEF RecordOK
    <3>3. CASE i # 0 /\ j = i
      BY <2>9, <2>10, <2>11, <2>3, <2>5, <3>3 DEF RecordOK
    <3> QED BY <2>9, <2>10, <2>11, <3>1, <3>2, <3>3
  <2>7. \A r : RecordOK(r) => RecordOK(r)'
    BY <2>9, <2>10, <2>11 DEF RecordOK, Real, Claimed, system
  <2>8. SoundTable(processes)'
    BY <2>4 DEF SoundTable, UniqueIdentities, DistinctRunning, IdleUntimed
  <2> QED BY <2>9, <2>10, <2>11, <2>6, <2>7, <2>8 DEF TableOK
<1>4. System \/ Consumer \/ Poller => UNCHANGED processes
  BY DEF System, CreateProcess, EndProcess, Consumer, Callback, CallbackPush, Poller,
         TakeSnapshot, QueryEntry, Compare, PollerPush, Sleep
<1> QED BY <1>2, <1>3, <1>4 DEF Next

-----------------------------------------------------------------------------
(* Types *)

LEMMA BaseInit ==
  ASSUME Init
  PROVE  Base /\ Sighted
<1>1. /\ env \in Environment /\ env.baseline <= Len(env.pids)
      /\ \A l \in 1..Len(env.pids) : env.pids[l] = 0 => l <= env.baseline
      /\ \A l, m \in 1..env.baseline : env.pids[l] = env.pids[m] => l = m
  BY EnvironmentsAssumption DEF Init
<1>2. env.baseline \in Nat /\ Len(env.pids) \in Nat
  <2>1. env.pids \in Seq(Nat) /\ env.baseline \in Nat
    BY <1>1 DEF Environment
  <2> QED BY <2>1, LenProperties
<1>3. SystemOK
  BY <1>1, <1>2 DEF Init, SystemOK
<1>4. /\ \A S : <<>> \in Seq(S)
      /\ DOMAIN <<>> = {}
  OBVIOUS
<1>5. EtwOK
  BY <1>4 DEF Init, EtwOK, HandOK
<1>6. PollerOK
  BY <1>4, FS_EmptySet DEF Init, PollerOK, OnePerPid, LivesOf
<1>7. PipelineOK
  BY <1>4 DEF Init, PipelineOK
<1>8. TableOK
  BY <1>4 DEF Init, TableOK, SoundTable, UniqueIdentities, DistinctRunning, IdleUntimed,
               ActiveRecords
<1>9. Sighted
  BY DEF Init, Sighted
<1> QED BY <1>3, <1>5, <1>6, <1>7, <1>8, <1>9 DEF Base

LEMMA BaseStep ==
  ASSUME Base, Sighted, [Next]_vars
  PROVE  Base' /\ Sighted'
<1>1. CASE Next
  BY <1>1, SystemStep, EtwStep, PollerStep, SightedStep, PipelineStep, TableStep DEF Base
<1>2. CASE UNCHANGED vars
  <2>1. UNCHANGED <<env, started, gone, stale, etw_buffer, etw_hand, phase, snapshot, current,
                    previous, outbox, queue, processes>>
    BY <1>2 DEF vars, system, etw, poller
  <2>2. SystemOK' /\ Sighted'
    BY <2>1 DEF Base, SystemOK, Sighted, LivesOf
  <2>3. /\ env' = env /\ started' \in Nat /\ started <= started' /\ gone \subseteq gone'
    BY <2>1, EnvFacts DEF Base
  <2>4. /\ \A e : ReportOK(e) => ReportOK(e)'
        /\ \A x : EntryOK(x) => EntryOK(x)'
    BY <2>3, Stays DEF Base
  <2>5. EtwOK'
    BY <2>1, <2>4 DEF Base, EtwOK, HandOK, TransitionOK
  <2>6. UNCHANGED <<LivesOf(current), OnePerPid(current), OnePerPid(previous)>>
    BY <2>1 DEF LivesOf, OnePerPid
  <2>7. PollerOK'
    BY <2>1, <2>4, <2>6 DEF Base, PollerOK
  <2>8. PipelineOK' /\ TableOK'
    BY <2>1, <2>3, PipelineStays DEF Base
  <2> QED BY <2>2, <2>5, <2>7, <2>8 DEF Base
<1> QED BY <1>1, <1>2

\* Everything the threads hand to each other is well-formed, whatever the circumstances:
\* no identity in a report, a snapshot or the table is one that no process has had, and
\* the creation time that goes with a PID is that of a process that had it.
THEOREM TelemetryInvariant == Spec => [](Base /\ Sighted)
<1>1. Init => Base /\ Sighted
  BY BaseInit
<1>2. Base /\ Sighted /\ [Next]_vars => Base' /\ Sighted'
  BY BaseStep
<1> QED BY <1>1, <1>2, PTL DEF Spec

\* The state of the ETW consumer, the poller and the table has its types
\* (ProcessTelemetry's TypeOK), for every environment.
THEOREM TelemetryTypeCorrect == Spec => []TypeOK
<1>1. Base => TypeOK
  <2> SUFFICES ASSUME Base PROVE TypeOK
    OBVIOUS
  <2>1. \A key : Claimed(key) \/ Real(key) => key.creation_time \in 0..started
    <3>1. started \in Nat
      BY EnvFacts DEF Base
    <3> QED BY <3>1 DEF Real, Claimed, ProcessKey
  <2>2. \A x \in current \cup previous :
          x.life \in 1..started /\ x.key.creation_time \in 0..started
    BY <2>1 DEF Base, PollerOK, EntryOK
  <2>3. \A i \in DOMAIN processes : processes[i].key.creation_time \in 0..started
    BY <2>1 DEF Base, TableOK, RecordOK
  <2>4. started \in 0..Len(env.pids)
    BY EnvFacts DEF Base
  <2> QED BY <2>2, <2>3, <2>4 DEF Base, SystemOK, PollerOK, TypeOK
<1> QED BY <1>1, TelemetryInvariant, PTL

-----------------------------------------------------------------------------
(* Parents *)

LEMMA ParentsFitStep ==
  ASSUME Base, ParentsFit, [Next]_vars
  PROVE  ParentsFit'
<1> DEFINE Fits(l, r) ==
             /\ ParentFits(l, r.parent)
             /\ (r.active /\ l \notin gone /\ Queryable(env.parents[l]))
                  => r.parent = KnownParent(l)
<1>1. /\ SystemOK /\ PipelineOK /\ TableOK
      /\ env' = env /\ started' \in Nat /\ started <= started' /\ gone \subseteq gone'
  <2>1. CASE Next
    BY <2>1, SystemStep DEF Base
  <2>2. CASE UNCHANGED vars
    BY <2>2, EnvFacts DEF vars, system, Base
  <2> QED BY <2>1, <2>2 DEF Base
<1>2. SystemOK'
  BY BaseStep, SystemStep DEF Base, vars, SystemOK, system
<1> SUFFICES ASSUME PidsUnique', ParentsDecoded',
                    NEW i \in DOMAIN processes', NEW l \in 1..started',
                    env.pids[l] = processes'[i].key.pid
             PROVE  /\ ParentFits(l, processes'[i].parent)
                    /\ (processes'[i].active /\ l \notin gone' /\ Queryable(env.parents[l])')
                         => processes'[i].parent = KnownParent(l)
  <2>1. \A m, parent : /\ ParentFits(m, parent)' = ParentFits(m, parent)
                       /\ KnownParent(m)' = KnownParent(m)
    BY <1>1 DEF ParentFits, ParentPid, KnownParent, KeyOf, Known
  <2> QED BY <1>1, <2>1 DEF ParentsFit
<1>3. /\ PidsUnique /\ 1..started \subseteq Lives(env) /\ 1..started' \subseteq Lives(env)
      /\ ParentsDecoded
  <2>1. started \in Nat /\ started <= Len(env.pids) /\ Len(env.pids) \in Nat
    BY <1>1, EnvFacts
  <2>2. started' <= Len(env.pids)
    BY <1>1, <1>2, <2>1 DEF SystemOK
  <2> QED BY <1>1, <2>1, <2>2 DEF PidsUnique, Lives, ParentsDecoded
<1>4. ASSUME Queryable(env.parents[l])', l \in 1..started PROVE Queryable(env.parents[l])
  <2>1. env.parents[l] # 0 => env.parents[l] \in 1..started
    BY <1>1, <1>4, EnvFacts
  <2> QED BY <1>1, <1>4, <2>1 DEF Queryable, Alive
\* Only a process there has already been has records.
<1>5. ASSUME NEW m \in 1..started, env.pids[m] = env.pids[l] PROVE l = m /\ l \in 1..started
  BY <1>3, <1>5 DEF PidsUnique
<1>6. ASSUME NEW j \in DOMAIN processes, processes[j].key.pid = env.pids[l]
      PROVE  l \in 1..started /\ Fits(l, processes[j])
  <2>1. \E m \in 1..started : processes[j].key.pid = env.pids[m]
    BY <1>1 DEF TableOK, RecordOK
  <2>2. l \in 1..started
    BY <1>5, <1>6, <2>1
  <2> QED BY <1>3, <1>6, <2>2 DEF ParentsFit
<1>7. CASE processes' = processes
  BY <1>1, <1>4, <1>6, <1>7
<1>8. CASE Drain
  <2> DEFINE e == Head(queue)
             k == FindProcess(processes, e.process)
             n == Len(processes)
  <2>1. e = Head(queue) /\ k = FindProcess(processes, e.process) /\ n = Len(processes)
    OBVIOUS
  <2> HIDE DEF e, k, n
  <2>2. /\ UNCHANGED <<env, system>> /\ e \in Reported /\ ReportOK(e)
        /\ n \in Nat /\ DOMAIN processes = 1..n
    BY <1>1, <1>8, <2>1, Drained
  <2>3. k = 0 => /\ DOMAIN processes' = 1..(n + 1)
                 /\ \A j \in DOMAIN processes : processes'[j] = processes[j]
                 /\ processes'[n + 1].key = e.process
                 /\ processes'[n + 1].parent = e.parent
                 /\ processes'[n + 1].active = (e.type = "start")
    BY <1>1, <1>8, <2>1, Drained
  <2>4. k # 0 => /\ k \in DOMAIN processes /\ DOMAIN processes' = 1..n
                 /\ \A j \in DOMAIN processes : j # k => processes'[j] = processes[j]
                 /\ processes'[k].key = processes[k].key \/ processes'[k].key = e.process
                 /\ processes[k].key.pid = e.process.pid
                 /\ processes'[k].active = (processes[k].active /\ e.type = "start")
    BY <1>1, <1>8, <2>1, Drained
  <2>5. k # 0 => /\ \/ processes'[k].parent = processes[k].parent
                    \/ e.parent.pid # 0 /\ processes'[k].parent = e.parent
                 /\ e.type = "start" /\ e.parent.pid # 0 => processes'[k].parent = e.parent
    BY <1>1, <1>8, <2>1, Drained
  <2>6. /\ e.life \in 1..started /\ e.process.pid = env.pids[e.life]
        /\ e.type \in {"start", "stop"} /\ (e.type = "stop" => e.life \in gone)
        /\ ParentFits(e.life, e.parent)
        /\ e.type = "start" /\ Queryable(env.parents[e.life]) => e.parent = KnownParent(e.life)
    BY <1>3, <2>2 DEF ReportOK, Reported
  <2>7. gone' = gone /\ started' = started
    BY <2>2 DEF system
  <2>8. CASE i \in DOMAIN processes /\ processes'[i] = processes[i]
    BY <1>4, <1>6, <2>7, <2>8
  <2>9. CASE k = 0 /\ i = n + 1
    <3>1. e.life = l
      BY <1>5, <2>3, <2>6, <2>9
    <3> QED BY <1>4, <2>3, <2>6, <2>7, <2>9, <3>1
  <2>10. CASE k # 0 /\ i = k
    <3>1. e.life = l /\ l \in 1..started
      BY <1>5, <2>4, <2>6, <2>10
    <3>2. Fits(l, processes[k])
      BY <1>6, <2>4, <2>6, <2>10, <3>1
    <3>3. ParentFits(l, processes'[i].parent)
      BY <2>5, <2>6, <2>10, <3>1, <3>2
    <3>4. ASSUME processes'[i].active, l \notin gone', Queryable(env.parents[l])'
          PROVE  processes'[i].parent = KnownParent(l)
      <4>1. e.type = "start" /\ processes[k].active /\ l \notin gone
        BY <2>4, <2>7, <2>10, <3>4
      <4>2. e.parent = KnownParent(l) /\ processes[k].parent = KnownParent(l)
        BY <1>4, <2>6, <3>1, <3>2, <3>4, <4>1
      <4> QED BY <2>5, <2>10, <4>2
    <3> QED BY <3>3, <3>4
  <2> QED BY <2>2, <2>3, <2>4, <2>8, <2>9, <2>10
<1>9. System \/ Consumer \/ Poller \/ UNCHANGED vars => UNCHANGED processes
  BY DEF System, CreateProcess, EndProcess, Consumer, Callback, CallbackPush, Poller,
         TakeSnapshot, QueryEntry, Compare, PollerPush, Sleep, vars
<1> QED BY <1>7, <1>8, <1>9 DEF Next

LEMMA ParentsFitMeans ==
  ASSUME Base, ParentsFit, PidsUnique, "parent" \notin env.undecoded
  PROVE  ParentsAreReal
<1> SUFFICES ASSUME "pid" \notin env.undecoded PROVE ParentsAreReal
  BY DEF ParentsAreReal
<1>1. /\ SystemOK /\ TableOK /\ started \in Nat /\ 1..started \subseteq Lives(env)
      /\ ParentsDecoded
  BY EnvFacts DEF Base, ParentsDecoded
<1>2. ASSUME NEW i \in DOMAIN processes,
             processes[i].key.creation_time # 0, processes[i].parent.creation_time # 0
      PROVE  processes[i].parent.creation_time = env.parents[processes[i].key.creation_time]
  <2> DEFINE c == processes[i].key.creation_time
             q == processes[i].parent.creation_time
  <2>1. /\ c \in 1..started /\ env.pids[c] = processes[i].key.pid
        /\ q \in 1..started /\ env.pids[q] = processes[i].parent.pid
        /\ processes[i].parent.pid # 0
    BY <1>1, <1>2 DEF TableOK, RecordOK, Real, Claimed
  <2>2. processes[i].parent.pid = ParentPid(c)
    BY <1>1, <2>1 DEF ParentsFit, ParentFits
  <2>3. env.parents[c] \in 1..started /\ env.pids[q] = env.pids[env.parents[c]]
    <3>1. env.parents[c] \in 0..(c - 1)
      BY <1>1, <2>1, EnvFacts
    <3>2. env.parents[c] # 0 /\ ParentPid(c) = env.pids[env.parents[c]]
      BY <2>1, <2>2 DEF ParentPid
    <3> QED BY <1>1, <2>1, <2>2, <3>1, <3>2
  <2> QED BY <1>1, <2>1, <2>3 DEF PidsUnique
<1>3. ASSUME NEW l \in Alive, env.parents[l] \in Alive \ env.hidden, NEW i \in Shown(l)
      PROVE  processes[i].parent =
               KeyOf(env.parents[l], IF env.pids[env.parents[l]] = 0 THEN 0 ELSE env.parents[l])
  <2>1. /\ l \in 1..started /\ l \notin gone
        /\ i \in DOMAIN processes /\ processes[i].active
        /\ processes[i].key.pid = env.pids[l]
    BY <1>3 DEF Shown, ActiveRecords, ProcessKeysMatch, KeyOf, Alive
  <2>2. processes[i].parent = KnownParent(l)
    BY <1>1, <1>3, <2>1 DEF ParentsFit, Queryable
  <2>3. env.parents[l] # 0
    BY <1>3, AliveFacts, <1>1
  <2> QED BY <1>3, <2>2, <2>3 DEF KnownParent, Known
<1> QED BY <1>2, <1>3 DEF ParentsAreReal

\* When no PID is used twice and the parents can be decoded, a process is never shown
\* under a parent that did not create it, and one whose parent still runs and can be
\* queried is shown under that parent, whichever collector came last (ProcessTelemetry's
\* ParentsAreReal): for any processes, any of which may hide their time, any creation
\* time that cannot be decoded, and any loss of records.
THEOREM TelemetryParentsAreReal ==
  Spec => [](PidsUnique /\ "parent" \notin env.undecoded => ParentsAreReal)
<1>1. Init => ParentsFit
  BY DEF Init, ParentsFit
<1>2. Base /\ ParentsFit /\ [Next]_vars => ParentsFit'
  BY ParentsFitStep
<1>3. Base /\ ParentsFit => (PidsUnique /\ "parent" \notin env.undecoded => ParentsAreReal)
  BY ParentsFitMeans
<1>4. Spec => []Base
  BY TelemetryInvariant, PTL
<1> QED BY <1>1, <1>2, <1>3, <1>4, PTL DEF Spec

-----------------------------------------------------------------------------
(* No process is marked stopped before its end *)

Past(key) == key.creation_time \in {0} \cup gone

Stopped == DOMAIN processes \ ActiveRecords(processes)
StoppedPast == \A i \in Stopped : Past(processes[i].key)

\* The process whose stop was handled, which need not be the one that the time names.
StoppedGone == \A i \in Stopped : \E m \in gone : processes[i].key.pid = env.pids[m]

\* Every identity that is on its way or in the table, and still runs, is one that
\* the last snapshot had.
Reappears(key) ==
  ~Past(key) => \E x \in previous : x.key = key
IdentitiesSeen ==
  ~env.etw =>
    /\ \A i \in DOMAIN processes : Reappears(processes[i].key)
    /\ \A i \in DOMAIN queue : Reappears(queue[i].process)
    /\ \A i \in DOMAIN outbox : Reappears(outbox[i].process)

IsBlindStop(e) == e.type = "stop" /\ e.process.creation_time = 0

\* A stop without a creation time comes after every report, and every record, that
\* it could be taken to be about and that is about another process.
BlindStopsLate ==
  /\ \A j \in DOMAIN outbox : IsBlindStop(outbox[j]) =>
       /\ \A i \in DOMAIN processes :
            processes[i].key.pid = outbox[j].process.pid => Past(processes[i].key)
       /\ \A i \in DOMAIN queue :
            queue[i].process.pid = outbox[j].process.pid => Past(queue[i].process)
       /\ \A i \in DOMAIN outbox :
            outbox[i].process.pid = outbox[j].process.pid => Past(outbox[i].process)
  /\ \A j \in DOMAIN queue : IsBlindStop(queue[j]) =>
       /\ \A i \in DOMAIN processes :
            processes[i].key.pid = queue[j].process.pid => Past(processes[i].key)
       /\ \A i \in 1..j :
            queue[i].process.pid = queue[j].process.pid => Past(queue[i].process)

\* Every stop is about a process that has ended.
StopsPast ==
  /\ \A i \in DOMAIN queue : queue[i].type = "stop" => Past(queue[i].process)
  /\ \A i \in DOMAIN outbox : outbox[i].type = "stop" => Past(outbox[i].process)

-----------------------------------------------------------------------------
(* Every report in the end *)

Start(e, l) == e.type = "start" /\ e.life = l
Stop(e, l) == e.type = "stop" /\ e.life = l
Blind(e) == e.process.creation_time = 0

\* A stop of l comes after position i of the queue, or will, once its last
\* snapshot has been compared with the next.
Ahead(i, l) ==
  \/ \E j \in DOMAIN queue : j > i /\ Stop(queue[j], l)
  \/ \E j \in DOMAIN outbox : Stop(outbox[j], l)
  \/ etw_hand # None /\ Stop(etw_hand, l)
  \/ \E j \in DOMAIN etw_buffer : Stop(etw_buffer[j], l)
  \/ l \in LivesOf(previous)

\* The same for one that gives no creation time.
BlindAhead(i, l) ==
  \/ \E j \in DOMAIN queue : j > i /\ Stop(queue[j], l) /\ Blind(queue[j])
  \/ \E j \in DOMAIN outbox : Stop(outbox[j], l) /\ Blind(outbox[j])
  \/ \E x \in previous : x.life = l /\ x.key.creation_time = 0

\* The running records of a process.
Running(l) == {i \in ActiveRecords(processes) : processes[i].key.pid = env.pids[l]}

Regular == {l \in 1..started : env.pids[l] # 0}

\* ETW tells the end of every process whose start it has told.
EtwCloses ==
  /\ \A l \in gone : etw_hand # None /\ Start(etw_hand, l) =>
       \E j \in DOMAIN etw_buffer : Stop(etw_buffer[j], l)
  /\ \A l \in gone : \A i \in DOMAIN etw_buffer : Start(etw_buffer[i], l) =>
       \E j \in DOMAIN etw_buffer : j > i /\ Stop(etw_buffer[j], l)

\* A start in the outbox is about an entry of the last snapshot.
OutboxFresh ==
  \A i \in DOMAIN outbox : outbox[i].type = "start" =>
    \E x \in previous : x.life = outbox[i].life /\ x.key = outbox[i].process

\* What is shown as running, or will be, is also told to have ended.
StopsFollow ==
  \A l \in Regular :
    l \in gone \/ ~env.etw =>
      /\ Running(l) # {} => Ahead(0, l)
      /\ \A i \in DOMAIN queue : Start(queue[i], l) => Ahead(i, l)

\* A record without a creation time can only be stopped by a report without one
\* when another record has the identity.
BlindStopsFollow ==
  \A l \in Regular :
    /\ (\E i \in Running(l) : processes[i].key.creation_time = 0) => BlindAhead(0, l)
    /\ \A i \in DOMAIN queue : Start(queue[i], l) /\ Blind(queue[i]) => BlindAhead(i, l)

\* What the last snapshot had is shown, or will be.
Shows(l) ==
  \/ Running(l) # {}
  \/ \E i \in DOMAIN queue : Start(queue[i], l)
  \/ \E i \in DOMAIN outbox : Start(outbox[i], l)
StartsFollow == \A l \in Regular : l \in LivesOf(previous) \ gone => Shows(l)

\* The last snapshot, as long as nothing has changed since.
Fresh ==
  ~stale => IF phase = "query" THEN Alive = snapshot \cup LivesOf(current)
            ELSE Alive = LivesOf(previous)

\* The idle process has no identity that could match, so that one record is the
\* outcome of one report.
IdleRecords == {i \in DOMAIN processes : processes[i].key.pid = 0}
IdleQueued == {i \in DOMAIN queue : queue[i].process.pid = 0}
IdlePosted == {i \in DOMAIN outbox : outbox[i].process.pid = 0}
Single(S) == \A i, j \in S : i = j
IdleOnce ==
  /\ Single(IdleRecords) /\ Single(IdleQueued) /\ Single(IdlePosted)
  /\ IdleRecords # {} => IdleQueued = {} /\ IdlePosted = {}
  /\ IdleQueued # {} => IdlePosted = {}
  /\ IdleRecords \subseteq ActiveRecords(processes)
  /\ (\E x \in previous : x.key.pid = 0) <=>
       IdleRecords # {} \/ IdleQueued # {} \/ IdlePosted # {}

ReportsInv ==
  PidsUnique /\ AllIdentified =>
    /\ EtwCloses /\ OutboxFresh /\ StopsFollow /\ BlindStopsFollow /\ StartsFollow
    /\ Fresh /\ IdleOnce

-----------------------------------------------------------------------------
(* Stops *)

\* When no PID is used twice, every key of a process that has ended is past.
LEMMA UniquePast ==
  ASSUME SystemOK, PidsUnique, NEW l \in gone, NEW key, Real(key), key.pid = env.pids[l]
  PROVE  Past(key)
<1>1. l \in Lives(env) /\ 1..started \subseteq Lives(env)
  BY EnvFacts DEF SystemOK
<1> QED BY <1>1 DEF Past, Real, PidsUnique

\* So that what was stopped is past.
LEMMA UniqueStops ==
  ASSUME Base, PidsUnique, "pid" \notin env.undecoded, StoppedGone
  PROVE  StoppedPast
<1>1. \A i \in Stopped : Real(processes[i].key)
  BY ClaimedReal DEF Stopped, Base, TableOK, RecordOK
<1> QED BY <1>1, UniquePast DEF StoppedPast, StoppedGone, Base

\* A process that the last snapshot knew by its time, and that still runs, is in the next.
LEMMA KnownAgain ==
  ASSUME SystemOK, PollerOK, Sighted, phase = "query", snapshot = {},
         NEW x \in previous, ~Past(x.key)
  PROVE  \E y \in current : y.key = x.key
<1> DEFINE t == x.key.creation_time
<1>1. EntryOK(x) /\ t \notin {0} \cup gone
  BY DEF PollerOK, Past
<1>2. PICK y \in current : y.life = t
  BY <1>1 DEF Sighted, LivesOf
<1>3. /\ x.key \in ProcessKey /\ env.pids[t] = x.key.pid /\ x.key.pid # 0
      /\ t \notin env.hidden
  BY <1>1 DEF EntryOK, Real
<1>4. y.key = KeyOf(t, Known(t))
  BY <1>1, <1>2 DEF PollerOK, EntryOK
<1>5. y.key = [pid |-> x.key.pid, creation_time |-> x.key.creation_time]
  BY <1>3, <1>4 DEF Known, KeyOf
<1> QED BY <1>3, <1>5 DEF ProcessKey

LEMMA PastStays ==
  ASSUME gone \subseteq gone'
  PROVE  \A key : Past(key) => Past(key)'
BY DEF Past

\* A stop of the GUI thread's marks only records of processes that have ended.
LEMMA StoppedStep ==
  ASSUME Base, StoppedPast, BlindStopsLate, StopsPast, Next
  PROVE  StoppedPast'
<1>1. gone \subseteq gone' /\ PipelineOK /\ TableOK
  BY SystemStep DEF Base
<1>2. CASE UNCHANGED processes
  BY <1>1, <1>2 DEF StoppedPast, Stopped, ActiveRecords, Past
<1>3. CASE Drain
  <2> DEFINE e == Head(queue)
             k == FindProcess(processes, e.process)
             n == Len(processes)
  <2>1. e = Head(queue) /\ k = FindProcess(processes, e.process) /\ n = Len(processes)
    OBVIOUS
  <2> HIDE DEF e, k, n
  <2>2. /\ UNCHANGED <<env, system>> /\ e \in Reported
        /\ n \in Nat /\ DOMAIN processes = 1..n /\ 1 \in DOMAIN queue /\ e = queue[1]
    BY <1>1, <1>3, <2>1, Drained
  <2>3. k = 0 => /\ DOMAIN processes' = 1..(n + 1)
                 /\ \A j \in DOMAIN processes : processes'[j] = processes[j]
                 /\ processes'[n + 1].key = e.process
                 /\ processes'[n + 1].active = (e.type = "start")
    BY <1>1, <1>3, <2>1, Drained
  <2>4. k # 0 => /\ k \in DOMAIN processes /\ DOMAIN processes' = 1..n
                 /\ \A j \in DOMAIN processes : j # k => processes'[j] = processes[j]
                 /\ processes'[k].active = (processes[k].active /\ e.type = "start")
                 /\ processes[k].key.pid = e.process.pid
                 /\ processes'[k].key = processes[k].key \/ processes'[k].key = e.process
                 /\ e.process.creation_time # 0 => processes'[k].key = e.process
    BY <1>1, <1>3, <2>1, Drained
  <2>5. k # 0 => \/ k \in SameIdentity(processes, e.process)
                 \/ k \in ActiveMatches(processes, e.process)
    BY <1>1, <1>3, <2>1, Drained
  <2>6. gone' = gone
    BY <2>2 DEF system
  <2>7. \A i \in DOMAIN processes : ~processes[i].active => Past(processes[i].key)
    BY DEF StoppedPast, Stopped, ActiveRecords
  <2>8. e.type = "stop" => Past(e.process)
    BY <2>2 DEF StopsPast
  <2>9. ASSUME NEW i \in DOMAIN processes', ~processes'[i].active
        PROVE  Past(processes'[i].key)
    <3>1. CASE i \in DOMAIN processes /\ processes'[i] = processes[i]
      BY <2>7, <2>9, <3>1
    <3>2. CASE k = 0 /\ i = n + 1
      BY <2>2, <2>3, <2>8, <2>9, <3>2 DEF Reported
    <3>3. CASE k # 0 /\ i = k
      <4>1. CASE ~processes[k].active
        <5>1. processes[k].key = e.process
          BY <2>5, <3>3, <4>1 DEF SameIdentity, ActiveMatches
        <5> QED BY <2>4, <2>7, <3>3, <4>1, <5>1
      <4>2. CASE e.type = "stop" /\ e.process.creation_time # 0
        BY <2>4, <2>8, <3>3, <4>2
      <4>3. CASE e.type = "stop" /\ e.process.creation_time = 0
        <5>1. Past(processes[k].key)
          BY <2>2, <2>4, <3>3, <4>3 DEF BlindStopsLate, IsBlindStop
        <5> QED BY <2>4, <2>8, <3>3, <4>3, <5>1
      <4>4. e.type \in {"start", "stop"} /\ (processes[k].active => e.type # "start")
        BY <2>2, <2>4, <2>9, <3>3 DEF Reported
      <4> QED BY <4>1, <4>2, <4>3, <4>4
    <3> QED BY <2>2, <2>3, <2>4, <3>1, <3>2, <3>3
  <2> QED BY <2>6, <2>9 DEF StoppedPast, Stopped, ActiveRecords, Past
<1>4. System \/ Consumer \/ Poller => UNCHANGED processes
  BY DEF System, CreateProcess, EndProcess, Consumer, Callback, CallbackPush, Poller,
         TakeSnapshot, QueryEntry, Compare, PollerPush, Sleep
<1> QED BY <1>2, <1>3, <1>4 DEF Next

\* A record is stopped by a report of a process that has ended and has its PID.
LEMMA StoppedGoneStep ==
  ASSUME Base, StoppedGone, Next
  PROVE  StoppedGone'
<1>1. env' = env /\ gone \subseteq gone' /\ PipelineOK /\ TableOK
  BY SystemStep DEF Base
<1>2. CASE UNCHANGED processes
  BY <1>1, <1>2 DEF StoppedGone, Stopped, ActiveRecords
<1>3. CASE Drain
  <2> DEFINE e == Head(queue)
             k == FindProcess(processes, e.process)
             n == Len(processes)
             Ended(pid) == \E m \in gone : pid = env.pids[m]
  <2>1. e = Head(queue) /\ k = FindProcess(processes, e.process) /\ n = Len(processes)
    OBVIOUS
  <2> HIDE DEF e, k, n
  <2>2. /\ e \in Reported /\ ReportOK(e) /\ n \in Nat /\ DOMAIN processes = 1..n
        /\ UNCHANGED <<env, system>>
    BY <1>1, <1>3, <2>1, Drained
  <2>3. k = 0 => /\ DOMAIN processes' = 1..(n + 1)
                 /\ \A j \in DOMAIN processes : processes'[j] = processes[j]
                 /\ processes'[n + 1].key = e.process
                 /\ processes'[n + 1].active = (e.type = "start")
    BY <1>1, <1>3, <2>1, Drained
  <2>4. k # 0 => /\ k \in DOMAIN processes /\ DOMAIN processes' = 1..n
                 /\ \A j \in DOMAIN processes : j # k => processes'[j] = processes[j]
                 /\ processes'[k].active = (processes[k].active /\ e.type = "start")
                 /\ processes[k].key.pid = e.process.pid
                 /\ processes'[k].key = processes[k].key \/ processes'[k].key = e.process
    BY <1>1, <1>3, <2>1, Drained
  <2>5. \A i \in DOMAIN processes : ~processes[i].active => Ended(processes[i].key.pid)
    BY DEF StoppedGone, Stopped, ActiveRecords
  <2>6. e.type # "start" => Ended(e.process.pid)
    BY <2>2 DEF ReportOK, Reported
  <2> HIDE DEF Ended
  <2>7. ASSUME NEW i \in DOMAIN processes', ~processes'[i].active
        PROVE  Ended(processes'[i].key.pid)
    <3>1. CASE i \in DOMAIN processes /\ processes'[i] = processes[i]
      BY <2>5, <2>7, <3>1
    <3>2. CASE k = 0 /\ i = n + 1
      BY <2>3, <2>6, <2>7, <3>2
    <3>3. CASE k # 0 /\ i = k
      <4>1. processes'[k].key.pid = processes[k].key.pid
        BY <2>4, <3>3
      <4>2. ~processes[k].active \/ e.type # "start"
        BY <2>4, <2>7, <3>3
      <4> QED BY <2>4, <2>5, <2>6, <3>3, <4>1, <4>2
    <3> QED BY <2>2, <2>3, <2>4, <3>1, <3>2, <3>3
  <2>8. env' = env /\ gone' = gone
    BY <2>2 DEF system
  <2> QED BY <2>7, <2>8 DEF StoppedGone, Stopped, ActiveRecords, Ended
<1>4. System \/ Consumer \/ Poller => UNCHANGED processes
  BY DEF System, CreateProcess, EndProcess, Consumer, Callback, CallbackPush, Poller,
         TakeSnapshot, QueryEntry, Compare, PollerPush, Sleep
<1> QED BY <1>2, <1>3, <1>4 DEF Next

\* With one source of reports, stops come in the order of the snapshots.
OneSource == ~env.etw /\ IdentitiesSeen /\ BlindStopsLate /\ StopsPast

LEMMA OneSourceCompare ==
  ASSUME Base, Sighted, OneSource, Compare
  PROVE  OneSource'
<1>1. /\ SystemOK /\ PollerOK /\ phase = "query" /\ snapshot = {} /\ previous' = current
      /\ UNCHANGED <<env, gone, queue, processes>>
      /\ \A i \in DOMAIN outbox' :
           \/ /\ outbox'[i].type = "start"
              /\ \E x \in Missing(current, previous) : outbox'[i].process = x.key
           \/ /\ outbox'[i].type = "stop"
              /\ \E x \in Missing(previous, current) : outbox'[i].process = x.key
  BY CompareReports DEF Base, system
<1>2. OnePerPid(previous) /\ OnePerPid(current) /\ \A x \in previous \cup current : EntryOK(x)
  BY <1>1 DEF PollerOK
<1>3. \A x \in Missing(previous, current) : x \in previous /\ Past(x.key)
  <2> TAKE x \in Missing(previous, current)
  <2>1. x \in previous /\ \A y \in current : y.key # x.key
    BY DEF Missing, FindEntry, ProcessKeysMatch
  <2> QED BY <1>1, <2>1, KnownAgain
<1>4. \A x \in Missing(current, previous) : x \in current
  BY DEF Missing
<1>5. ASSUME NEW key, Reappears(key) PROVE Reappears(key)'
  <2>1. CASE Past(key)
    BY <1>1, <2>1 DEF Past, Reappears
  <2>2. CASE ~Past(key)
    <3>1. PICK x \in previous : x.key = key
      BY <2>2, <1>5 DEF Reappears
    <3>2. \E y \in current : y.key = key
      BY <1>1, <2>2, <3>1, KnownAgain
    <3> QED BY <1>1, <3>2 DEF Reappears
  <2> QED BY <2>1, <2>2
<1>6. \A i \in DOMAIN outbox' : Reappears(outbox[i].process)'
  <2> TAKE i \in DOMAIN outbox'
  <2>1. CASE \E x \in current : outbox'[i].process = x.key
    BY <1>1, <2>1 DEF Reappears
  <2>2. CASE \E x \in Missing(previous, current) : outbox'[i].process = x.key
    BY <1>1, <1>3, <2>2 DEF Reappears, Past
  <2> QED BY <1>1, <1>4, <2>1, <2>2
<1>7. IdentitiesSeen'
  BY <1>1, <1>5, <1>6 DEF OneSource, IdentitiesSeen
<1>8. \A key : Past(key)' = Past(key)
  BY <1>1 DEF Past
<1>9. StopsPast'
  <2>1. \A i \in DOMAIN outbox' : outbox'[i].type = "stop" => Past(outbox'[i].process)
    BY <1>1, <1>3
  <2> QED BY <1>1, <1>8, <2>1 DEF OneSource, StopsPast
\* What a blind stop could be taken to be about was in the last snapshot with it.
<1>10. ASSUME NEW x \in Missing(previous, current), x.key.creation_time = 0,
              NEW key, Reappears(key), key.pid = x.key.pid
       PROVE  Past(key)
  <2> SUFFICES ASSUME ~Past(key) PROVE FALSE
    OBVIOUS
  <2>1. PICK y \in previous : y.key = key
    BY <1>10 DEF Reappears
  <2>2. y = x
    BY <1>2, <1>3, <1>10, <2>1 DEF OnePerPid
  <2> QED BY <1>10, <2>1, <2>2 DEF Past
<1>11. ASSUME NEW x \in Missing(previous, current), x.key.creation_time = 0,
              NEW i \in DOMAIN outbox', outbox'[i].process.pid = x.key.pid
       PROVE  Past(outbox'[i].process)
  <2>1. CASE \E y \in Missing(current, previous) : outbox'[i].process = y.key
    <3>1. PICK y \in Missing(current, previous) : outbox'[i].process = y.key
      BY <2>1
    <3>2. ProcessKeysMatch(x.key, y.key)
      BY <1>11, <3>1 DEF ProcessKeysMatch
    <3> QED BY <1>3, <3>2 DEF Missing, FindEntry
  <2>2. CASE \E y \in Missing(previous, current) : outbox'[i].process = y.key
    BY <1>3, <2>2
  <2> QED BY <1>1, <2>1, <2>2
<1>12. BlindStopsLate'
  <2>1. \A j \in DOMAIN queue : IsBlindStop(queue[j]) =>
          /\ \A i \in DOMAIN processes :
               processes[i].key.pid = queue[j].process.pid => Past(processes[i].key)
          /\ \A i \in 1..j :
               queue[i].process.pid = queue[j].process.pid => Past(queue[i].process)
    BY DEF OneSource, BlindStopsLate
  <2>2. /\ \A i \in DOMAIN processes : Reappears(processes[i].key)
        /\ \A i \in DOMAIN queue : Reappears(queue[i].process)
    BY DEF OneSource, IdentitiesSeen
  <2>3. ASSUME NEW j \in DOMAIN outbox', IsBlindStop(outbox'[j])
        PROVE  \E x \in Missing(previous, current) :
                 outbox'[j].process = x.key /\ x.key.creation_time = 0
    BY <1>1, <2>3 DEF IsBlindStop
  <2>4. \A j \in DOMAIN outbox' : IsBlindStop(outbox'[j]) =>
          /\ \A i \in DOMAIN processes :
               processes[i].key.pid = outbox'[j].process.pid => Past(processes[i].key)
          /\ \A i \in DOMAIN queue :
               queue[i].process.pid = outbox'[j].process.pid => Past(queue[i].process)
          /\ \A i \in DOMAIN outbox' :
               outbox'[i].process.pid = outbox'[j].process.pid => Past(outbox'[i].process)
    BY <1>10, <1>11, <2>2, <2>3
  <2> QED BY <1>1, <1>8, <2>1, <2>4 DEF BlindStopsLate
<1> QED BY <1>1, <1>7, <1>9, <1>12 DEF OneSource

LEMMA OneSourcePush ==
  ASSUME Base, OneSource, PollerPush
  PROVE  OneSource'
<1>1. /\ UNCHANGED <<env, gone, previous, processes>>
      /\ outbox # <<>> /\ outbox' = Tail(outbox) /\ Push(Head(outbox))
  BY DEF PollerPush, system
<1> DEFINE e == Head(outbox)
<1>2. /\ 1 \in DOMAIN outbox /\ e = outbox[1] /\ e \in Reported
      /\ \A i \in DOMAIN outbox' : i + 1 \in DOMAIN outbox /\ outbox'[i] = outbox[i + 1]
  BY <1>1, Popped DEF Base, PipelineOK
<1> HIDE DEF e
<1>3. /\ queue \in Seq(Reported)
      /\ \A i \in DOMAIN queue' :
           \/ i \in DOMAIN queue /\ queue'[i] = queue[i]
           \/ i \notin DOMAIN queue /\ queue'[i] = e
  <2>1. queue \in Seq(Reported)
    BY DEF Base, PipelineOK
  <2> QED BY <1>1, <1>2, <2>1, Pushed DEF e
<1>4. \A key : Past(key)' = Past(key) /\ Reappears(key)' = Reappears(key)
  BY <1>1 DEF Past, Reappears
<1>5. IdentitiesSeen'
  BY <1>1, <1>2, <1>3, <1>4 DEF OneSource, IdentitiesSeen
<1>6. StopsPast'
  BY <1>1, <1>2, <1>3, <1>4 DEF OneSource, StopsPast
<1>7. \A j \in DOMAIN outbox : IsBlindStop(outbox[j]) =>
        /\ \A i \in DOMAIN processes :
             processes[i].key.pid = outbox[j].process.pid => Past(processes[i].key)
        /\ \A i \in DOMAIN queue :
             queue[i].process.pid = outbox[j].process.pid => Past(queue[i].process)
        /\ \A i \in DOMAIN outbox :
             outbox[i].process.pid = outbox[j].process.pid => Past(outbox[i].process)
  BY DEF OneSource, BlindStopsLate
<1>8. \A j \in DOMAIN outbox' : IsBlindStop(outbox'[j]) =>
        /\ \A i \in DOMAIN processes :
             processes[i].key.pid = outbox'[j].process.pid => Past(processes[i].key)
        /\ \A i \in DOMAIN queue' :
             queue'[i].process.pid = outbox'[j].process.pid => Past(queue'[i].process)
        /\ \A i \in DOMAIN outbox' :
             outbox'[i].process.pid = outbox'[j].process.pid => Past(outbox'[i].process)
  BY <1>2, <1>3, <1>7
<1>9. ASSUME NEW j \in DOMAIN queue', IsBlindStop(queue'[j])
      PROVE  /\ \A i \in DOMAIN processes :
                  processes[i].key.pid = queue'[j].process.pid => Past(processes[i].key)
             /\ \A i \in 1..j :
                  queue'[i].process.pid = queue'[j].process.pid => Past(queue'[i].process)
  <2>1. /\ queue' \in Seq(Reported) /\ j \in Nat /\ 1..j \subseteq DOMAIN queue'
    <3>1. queue' \in Seq(Reported)
      BY <1>1, <1>2, <1>3, Pushed DEF e
    <3> QED BY <3>1, LenProperties
  <2>2. CASE j \in DOMAIN queue /\ queue'[j] = queue[j]
    <3>1. 1..j \subseteq DOMAIN queue
      BY <1>3, <2>2, LenProperties
    <3>2. \A i \in 1..j : queue'[i] = queue[i]
      BY <1>3, <2>1, <3>1
    <3> QED BY <1>9, <2>2, <3>2 DEF OneSource, BlindStopsLate
  <2>3. CASE queue'[j] = e
    BY <1>2, <1>3, <1>7, <1>9, <2>1, <2>3
  <2> QED BY <1>3, <2>2, <2>3
<1>10. BlindStopsLate'
  BY <1>1, <1>4, <1>8, <1>9 DEF BlindStopsLate
<1> QED BY <1>1, <1>5, <1>6, <1>10 DEF OneSource

LEMMA OneSourceDrain ==
  ASSUME Base, OneSource, Drain
  PROVE  OneSource'
<1> DEFINE e == Head(queue)
           k == FindProcess(processes, e.process)
           n == Len(processes)
<1>1. e = Head(queue) /\ k = FindProcess(processes, e.process) /\ n = Len(processes)
  OBVIOUS
<1> HIDE DEF e, k, n
<1>2. /\ UNCHANGED <<env, system, etw, poller>> /\ 1 \in DOMAIN queue /\ e = queue[1]
      /\ queue # <<>> /\ queue' = Tail(queue) /\ n \in Nat /\ DOMAIN processes = 1..n
  BY <1>1, Drained DEF Base
<1>3. k = 0 => /\ DOMAIN processes' = 1..(n + 1)
               /\ \A j \in DOMAIN processes : processes'[j] = processes[j]
               /\ processes'[n + 1].key = e.process
  BY <1>1, Drained DEF Base
<1>4. k # 0 => /\ k \in DOMAIN processes /\ DOMAIN processes' = 1..n
               /\ \A j \in DOMAIN processes : j # k => processes'[j] = processes[j]
               /\ processes'[k].key = processes[k].key \/ processes'[k].key = e.process
  BY <1>1, Drained DEF Base
<1>5. UNCHANGED <<env, gone, previous, outbox>>
  BY <1>2 DEF system, poller
<1>6. \A i \in DOMAIN queue' : /\ i \in Nat \ {0} /\ i + 1 \in DOMAIN queue
                               /\ queue'[i] = queue[i + 1]
  <2>1. queue \in Seq(Reported)
    BY DEF Base, PipelineOK
  <2> QED BY <1>2, <2>1, Popped
\* Every key in the table is one that was there or the report's.
<1>7. \A i \in DOMAIN processes' :
        \/ processes'[i].key = e.process
        \/ i \in DOMAIN processes /\ processes'[i].key = processes[i].key
  BY <1>2, <1>3, <1>4
<1>8. \A key : Past(key)' = Past(key) /\ Reappears(key)' = Reappears(key)
  BY <1>5 DEF Past, Reappears
<1>9. IdentitiesSeen'
  BY <1>2, <1>5, <1>6, <1>7, <1>8 DEF OneSource, IdentitiesSeen
<1>10. StopsPast'
  BY <1>5, <1>6, <1>8 DEF OneSource, StopsPast
<1>11. ASSUME NEW j \in DOMAIN outbox, IsBlindStop(outbox[j])
       PROVE  /\ \A i \in DOMAIN processes' :
                   processes'[i].key.pid = outbox[j].process.pid => Past(processes'[i].key)
              /\ \A i \in DOMAIN queue' :
                   queue'[i].process.pid = outbox[j].process.pid => Past(queue'[i].process)
              /\ \A i \in DOMAIN outbox :
                   outbox[i].process.pid = outbox[j].process.pid => Past(outbox[i].process)
  BY <1>2, <1>6, <1>7, <1>11 DEF OneSource, BlindStopsLate
<1>12. ASSUME NEW j \in DOMAIN queue', IsBlindStop(queue'[j])
       PROVE  /\ \A i \in DOMAIN processes' :
                   processes'[i].key.pid = queue'[j].process.pid => Past(processes'[i].key)
              /\ \A i \in 1..j :
                   queue'[i].process.pid = queue'[j].process.pid => Past(queue'[i].process)
  <2> DEFINE m == j + 1
  <2>1. m \in DOMAIN queue /\ queue'[j] = queue[m] /\ j \in Nat /\ 1 \in 1..m
        /\ \A i \in 1..j : i + 1 \in 1..m
    BY <1>6
  <2>2. /\ \A i \in DOMAIN processes :
             processes[i].key.pid = queue[m].process.pid => Past(processes[i].key)
        /\ \A i \in 1..m :
             queue[i].process.pid = queue[m].process.pid => Past(queue[i].process)
    <3> HIDE DEF m
    <3> QED BY <1>12, <2>1 DEF OneSource, BlindStopsLate
  <2>3. \A i \in 1..j : i \in DOMAIN queue'
    <3>1. queue' \in Seq(Reported)
      BY <1>2, Popped DEF Base, PipelineOK
    <3> QED BY <1>12, <3>1, LenProperties
  <2> QED BY <1>2, <1>6, <1>7, <2>1, <2>2, <2>3
<1>13. BlindStopsLate'
  BY <1>5, <1>8, <1>11, <1>12 DEF BlindStopsLate
<1> QED BY <1>5, <1>9, <1>10, <1>13 DEF OneSource

LEMMA OneSourceStep ==
  ASSUME Base, Sighted, OneSource, Next
  PROVE  OneSource'
<1>1. env' = env /\ gone \subseteq gone' /\ etw_hand = None /\ etw_buffer = <<>>
  BY SystemStep DEF Base, EtwOK, OneSource
<1>2. CASE UNCHANGED <<previous, outbox, queue, processes>>
  <2>1. \A key : (Past(key) => Past(key)') /\ (Reappears(key) => Reappears(key)')
    BY <1>1, <1>2 DEF Past, Reappears
  <2>2. IdentitiesSeen'
    BY <1>1, <1>2, <2>1 DEF OneSource, IdentitiesSeen
  <2>3. StopsPast'
    BY <1>2, <2>1 DEF OneSource, StopsPast
  <2>4. BlindStopsLate'
    BY <1>2, <2>1 DEF OneSource, BlindStopsLate
  <2> QED BY <1>1, <2>2, <2>3, <2>4 DEF OneSource
<1>3. ~Consumer
  BY <1>1 DEF Consumer, Callback, CallbackPush
<1>4. System \/ TakeSnapshot \/ QueryEntry \/ Sleep
        => UNCHANGED <<previous, outbox, queue, processes>>
  BY DEF System, CreateProcess, EndProcess, TakeSnapshot, QueryEntry, Sleep, poller
<1> QED BY <1>2, <1>3, <1>4, OneSourceCompare, OneSourcePush, OneSourceDrain DEF Next, Poller

StopsRight ==
  OneSourceOrUnique => (PidsUnique /\ StoppedGone) \/ (OneSource /\ StoppedPast)

LEMMA StopsRightStep ==
  ASSUME Base, Sighted, StopsRight, [Next]_vars
  PROVE  StopsRight'
<1>1. CASE Next
  <2>1. env' = env
    BY <1>1, SystemStep DEF Base
  <2> SUFFICES ASSUME OneSourceOrUnique'
               PROVE  (PidsUnique /\ StoppedGone)' \/ (OneSource /\ StoppedPast)'
    BY DEF StopsRight
  <2>2. OneSourceOrUnique
    BY <2>1 DEF OneSourceOrUnique, PidsUnique, Lives
  <2>3. CASE PidsUnique /\ StoppedGone
    <3>1. StoppedGone'
      BY <1>1, <2>3, StoppedGoneStep
    <3>2. PidsUnique'
      BY <2>1, <2>3 DEF PidsUnique, Lives
    <3> QED BY <3>1, <3>2
  <2>4. CASE OneSource /\ StoppedPast
    <3>1. StoppedPast'
      BY <1>1, <2>4, StoppedStep DEF OneSource
    <3> QED BY <1>1, <2>4, <3>1, OneSourceStep
  <2> QED BY <2>2, <2>3, <2>4 DEF StopsRight
<1>2. CASE UNCHANGED vars
  <2>1. UNCHANGED <<env, gone, previous, outbox, queue, processes>>
    BY <1>2 DEF vars, system, poller
  <2>2. UNCHANGED <<StoppedPast, StoppedGone, PidsUnique, OneSourceOrUnique>>
    BY <2>1 DEF StoppedPast, StoppedGone, Stopped, Past, ActiveRecords, PidsUnique,
                OneSourceOrUnique, Lives
  <2>3. \A key : Past(key)' = Past(key) /\ Reappears(key)' = Reappears(key)
    BY <2>1 DEF Past, Reappears
  <2>4. OneSource => OneSource'
    BY <2>1, <2>3 DEF OneSource, IdentitiesSeen, BlindStopsLate, StopsPast
  <2> QED BY <2>2, <2>4 DEF StopsRight
<1> QED BY <1>1, <1>2

LEMMA StopsRightInit ==
  ASSUME Init
  PROVE  StopsRight
BY DEF Init, StopsRight, StoppedPast, StoppedGone, Stopped, ActiveRecords, OneSource,
       IdentitiesSeen, BlindStopsLate, StopsPast, OneSourceOrUnique

LEMMA StopsRightMeans ==
  ASSUME Base, StopsRight
  PROVE  StoppedHasEnded
<1> SUFFICES ASSUME OneSourceOrUnique, NEW i \in Stopped, NEW l \in Alive,
                    processes[i].key = KeyOf(l, l)
             PROVE  FALSE
  BY DEF StoppedHasEnded, NoneStoppedAlive, Stopped
<1>1. /\ processes[i].key.pid = env.pids[l] /\ processes[i].key.creation_time = l
      /\ l \in 1..started /\ l \notin gone /\ l # 0
      /\ gone \subseteq 1..started /\ 1..started \subseteq Lives(env)
  BY EnvFacts DEF KeyOf, Alive, Base, SystemOK
<1>2. CASE PidsUnique /\ StoppedGone
  <2>1. PICK m \in gone : processes[i].key.pid = env.pids[m]
    BY <1>2 DEF StoppedGone
  <2> QED BY <1>1, <1>2, <2>1 DEF PidsUnique
<1>3. CASE StoppedPast
  BY <1>1, <1>3 DEF StoppedPast, Past
<1> QED BY <1>2, <1>3 DEF StopsRight

\* A record that names a process by its creation time is marked stopped only when that
\* process has ended (ProcessTelemetry's StoppedHasEnded), in both modes, unless ETW is
\* active and a PID is used twice: neither a stop without a time, nor a process that
\* hides its time, nor a field that cannot be decoded, nor a PID that is used again
\* while the snapshot's entries are being queried makes the table lose a running
\* process.
THEOREM TelemetryStopsRight == Spec => []StoppedHasEnded
<1>1. Init => StopsRight
  BY StopsRightInit
<1>2. Base /\ Sighted /\ StopsRight /\ [Next]_vars => StopsRight'
  BY StopsRightStep
<1>3. Base /\ StopsRight => StoppedHasEnded
  BY StopsRightMeans
<1> QED BY <1>1, <1>2, <1>3, TelemetryInvariant, PTL DEF Spec

-----------------------------------------------------------------------------
(* Every report in the end *)

Lossless == PidsUnique /\ AllIdentified

LEMMA LosslessFacts ==
  ASSUME Lossless
  PROVE  PidsUnique /\ ~env.lossy /\ "pid" \notin env.undecoded /\ "time" \notin env.undecoded
BY DEF Lossless, AllIdentified

LEMMA ReportsReal ==
  ASSUME Base, Lossless
  PROVE  /\ \A i \in DOMAIN processes : Real(processes[i].key)
         /\ \A e : ReportOK(e) => Real(e.process)
BY LosslessFacts, ClaimedReal DEF Base, TableOK, RecordOK, ReportOK

LEMMA UniqueLives ==
  ASSUME SystemOK, PidsUnique
  PROVE  /\ \A l, m \in 1..started : env.pids[l] = env.pids[m] => l = m
         /\ \A key : \A l \in 1..started :
              Real(key) /\ key.pid = env.pids[l] => key.creation_time \in {0, l}
<1>1. 1..started \subseteq Lives(env)
  BY EnvFacts
<1>2. \A l, m \in 1..started : env.pids[l] = env.pids[m] => l = m
  BY <1>1 DEF PidsUnique
<1> QED BY <1>2 DEF Real

LEMMA LosslessStep ==
  ASSUME Base, Next
  PROVE  Lossless' = Lossless
<1>1. env' = env
  BY SystemStep DEF Base
<1> QED BY <1>1 DEF Lossless, AllIdentified, PidsUnique, Lives

LEMMA EtwClosesStep ==
  ASSUME Base, Lossless, EtwCloses, Next
  PROVE  EtwCloses'
<1>1. SystemOK /\ EtwOK /\ etw_buffer \in Seq(Transition) /\ gone \subseteq 1..started
      /\ started \in Nat
  BY EnvFacts DEF Base, EtwOK, SystemOK
<1>2. /\ \A l \in gone : etw_hand # None /\ Start(etw_hand, l) =>
           \E j \in DOMAIN etw_buffer : Stop(etw_buffer[j], l)
      /\ \A l \in gone : \A i \in DOMAIN etw_buffer : Start(etw_buffer[i], l) =>
           \E j \in DOMAIN etw_buffer : j > i /\ Stop(etw_buffer[j], l)
  BY DEF EtwCloses
<1>3. CASE UNCHANGED <<gone, etw_hand, etw_buffer>>
  BY <1>2, <1>3 DEF EtwCloses
<1>4. CASE CreateProcess
  <2>1. /\ UNCHANGED <<gone, etw_hand>>
        /\ \/ etw_buffer' = etw_buffer
           \/ etw_buffer' = Append(etw_buffer, [type |-> "start", life |-> started + 1])
    BY <1>4 DEF CreateProcess, Trace
  <2>2. CASE etw_buffer' = Append(etw_buffer, [type |-> "start", life |-> started + 1])
    <3> DEFINE r == [type |-> "start", life |-> started + 1]
    <3>1. r \in Transition /\ \A l \in gone : ~Start(r, l)
      BY <1>1 DEF Transition, Start
    <3> HIDE DEF r
    <3>2. /\ \A i \in DOMAIN etw_buffer : i \in DOMAIN etw_buffer' /\ etw_buffer'[i] = etw_buffer[i]
          /\ \A i \in DOMAIN etw_buffer' : i \in DOMAIN etw_buffer \/ etw_buffer'[i] = r
      BY <1>1, <2>2, <3>1, Appended DEF r
    <3> QED BY <1>2, <2>1, <3>1, <3>2 DEF EtwCloses
  <2> QED BY <1>3, <2>1, <2>2
<1>5. ASSUME NEW l \in Lives(env), EndProcess(l) PROVE EtwCloses'
  <2>1. gone' = gone \cup {l} /\ etw_hand' = etw_hand
    BY <1>5 DEF EndProcess
  <2>2. CASE env.etw
    <3> DEFINE r == [type |-> "stop", life |-> l]
               n == Len(etw_buffer)
    <3>1. r \in Transition /\ Stop(r, l) /\ (\A m : ~Start(r, m))
          /\ etw_buffer' = Append(etw_buffer, r)
      BY <1>1, <1>5, <2>2, EnvFacts, LosslessFacts
         DEF Transition, Start, Stop, EndProcess, Trace
    <3> HIDE DEF r
    <3>2. /\ \A i \in DOMAIN etw_buffer : i \in DOMAIN etw_buffer' /\ etw_buffer'[i] = etw_buffer[i]
          /\ \A i \in DOMAIN etw_buffer' : i \in DOMAIN etw_buffer \/ etw_buffer'[i] = r
          /\ n + 1 \in DOMAIN etw_buffer' /\ etw_buffer'[n + 1] = r
          /\ DOMAIN etw_buffer = 1..n /\ n \in Nat
      BY <1>1, <3>1, Appended
    <3>3. \A i \in DOMAIN etw_buffer : n + 1 > i
      BY <3>2
    <3> HIDE DEF n
    <3> QED BY <1>2, <2>1, <3>1, <3>2, <3>3 DEF EtwCloses
  <2>3. CASE ~env.etw
    <3>1. etw_buffer' = <<>> /\ etw_hand = None
      BY <1>1, <1>5, <2>3 DEF EndProcess, Trace, EtwOK
    <3> QED BY <2>1, <3>1 DEF EtwCloses
  <2> QED BY <2>2, <2>3
<1>6. CASE Callback
  <2>1. /\ etw_buffer # <<>> /\ etw_buffer' = Tail(etw_buffer) /\ gone' = gone
        /\ etw_hand'.type = Head(etw_buffer).type /\ etw_hand'.life = Head(etw_buffer).life
    BY <1>1, <1>6, CallbackStep, LosslessFacts DEF system
  <2>2. /\ 1 \in DOMAIN etw_buffer /\ Head(etw_buffer) = etw_buffer[1]
        /\ \A i \in DOMAIN etw_buffer' : /\ i \in Nat \ {0} /\ i + 1 \in DOMAIN etw_buffer
                                         /\ etw_buffer'[i] = etw_buffer[i + 1]
        /\ \A i \in DOMAIN etw_buffer : i # 1 => /\ i - 1 \in DOMAIN etw_buffer'
                                                 /\ etw_buffer'[i - 1] = etw_buffer[i]
    BY <1>1, <2>1, Popped
  <2>3. \A i \in DOMAIN etw_buffer : i \in Nat \ {0}
    BY <1>1, Members
  <2>4. ASSUME NEW l \in gone, Start(etw_hand', l)
        PROVE  \E j \in DOMAIN etw_buffer' : Stop(etw_buffer'[j], l)
    <3>1. Start(etw_buffer[1], l)
      BY <2>1, <2>2, <2>4 DEF Start
    <3>2. PICK j \in DOMAIN etw_buffer : j > 1 /\ Stop(etw_buffer[j], l)
      BY <1>2, <2>2, <3>1
    <3> QED BY <2>2, <2>3, <3>2
  <2>5. ASSUME NEW l \in gone, NEW i \in DOMAIN etw_buffer', Start(etw_buffer'[i], l)
        PROVE  \E j \in DOMAIN etw_buffer' : j > i /\ Stop(etw_buffer'[j], l)
    <3>1. PICK j \in DOMAIN etw_buffer : j > i + 1 /\ Stop(etw_buffer[j], l)
      BY <1>2, <2>2, <2>5
    <3>2. j - 1 \in DOMAIN etw_buffer' /\ j - 1 > i /\ etw_buffer'[j - 1] = etw_buffer[j]
      BY <2>2, <2>3, <3>1
    <3> QED BY <3>1, <3>2
  <2> QED BY <2>1, <2>4, <2>5 DEF EtwCloses
<1>7. CASE CallbackPush
  <2>1. UNCHANGED <<gone, etw_buffer>> /\ etw_hand' = None
    BY <1>7 DEF CallbackPush, system
  <2> QED BY <1>2, <2>1 DEF EtwCloses
<1>8. Poller \/ Drain => UNCHANGED <<gone, etw_hand, etw_buffer>>
  BY DEF Poller, TakeSnapshot, QueryEntry, Compare, PollerPush, Sleep, Drain, system, etw
<1> QED BY <1>3, <1>4, <1>5, <1>6, <1>7, <1>8 DEF Next, System, Consumer

LEMMA OutboxFreshStep ==
  ASSUME Base, Sighted, OutboxFresh, Next
  PROVE  OutboxFresh'
<1>1. CASE UNCHANGED <<outbox, previous>>
  BY <1>1 DEF OutboxFresh
<1>2. CASE Compare
  <2>1. previous' = current
        /\ \A i \in DOMAIN outbox' : outbox'[i].type = "start" =>
             \E x \in Missing(current, previous) :
               outbox'[i].process = x.key /\ outbox'[i].life = x.life
    BY <1>2, CompareReports DEF Base
  <2>2. Missing(current, previous) \subseteq current
    BY DEF Missing
  <2> QED BY <2>1, <2>2 DEF OutboxFresh
<1>3. CASE PollerPush
  <2>1. outbox # <<>> /\ outbox' = Tail(outbox) /\ previous' = previous
    BY <1>3 DEF PollerPush
  <2>2. \A i \in DOMAIN outbox' : i + 1 \in DOMAIN outbox /\ outbox'[i] = outbox[i + 1]
    BY <2>1, Popped DEF Base, PipelineOK
  <2> QED BY <2>1, <2>2 DEF OutboxFresh
<1>4. System \/ Consumer \/ TakeSnapshot \/ QueryEntry \/ Sleep \/ Drain
        => UNCHANGED <<outbox, previous>>
  BY DEF System, CreateProcess, EndProcess, Consumer, Callback, CallbackPush, TakeSnapshot,
         QueryEntry, Sleep, Drain, poller
<1> QED BY <1>1, <1>2, <1>3, <1>4 DEF Next, Poller

LEMMA FreshStep ==
  ASSUME Base, Sighted, Fresh, Next
  PROVE  Fresh'
<1>1. SystemOK /\ PollerOK
  BY DEF Base
<1>2. CASE System
  BY <1>2 DEF System, CreateProcess, EndProcess, Fresh
<1>3. CASE Consumer \/ Drain \/ PollerPush
  <2>1. UNCHANGED <<started, gone, stale, phase, snapshot, current, previous>>
    BY <1>3 DEF Consumer, Callback, CallbackPush, Drain, PollerPush, system, poller
  <2> QED BY <2>1 DEF Fresh, Alive, LivesOf
<1>4. CASE TakeSnapshot
  <2>1. /\ phase' = "query" /\ UNCHANGED <<started, gone>>
        /\ snapshot' \cup LivesOf(current)' = Alive
    BY <1>1, <1>4, SnapshotTaken DEF LivesOf
  <2> QED BY <2>1 DEF Fresh, Alive
<1>5. CASE QueryEntry
  <2>1. /\ phase = "query" /\ UNCHANGED <<started, gone, stale, phase>>
        /\ snapshot' \cup LivesOf(current)' = snapshot \cup LivesOf(current)
    BY <1>1, <1>5, EntryQueried DEF LivesOf, system
  <2> QED BY <2>1 DEF Fresh, Alive
<1>6. CASE Compare
  <2>1. /\ phase = "query" /\ snapshot = {} /\ phase' = "emit" /\ previous' = current
        /\ UNCHANGED <<started, gone, stale>>
    BY <1>6 DEF Compare, system
  <2> QED BY <2>1 DEF Fresh, Alive, LivesOf
<1>7. CASE Sleep
  <2>1. phase = "emit" /\ phase' = "sleep" /\ UNCHANGED <<started, gone, stale, previous>>
    BY <1>7 DEF Sleep, system
  <2> QED BY <2>1 DEF Fresh, Alive, LivesOf
<1> QED BY <1>2, <1>3, <1>4, <1>5, <1>6, <1>7 DEF Next, Poller

LEMMA IdleOnceCompare ==
  ASSUME Base, Sighted, PidsUnique, IdleOnce, Compare
  PROVE  IdleOnce'
<1>1. /\ SystemOK /\ PollerOK /\ phase = "query" /\ snapshot = {} /\ previous' = current
      /\ UNCHANGED <<env, system, queue, processes>>
      /\ \A i \in DOMAIN outbox' :
           \/ /\ outbox'[i].type = "start"
              /\ \E x \in Missing(current, previous) :
                   outbox'[i].process = x.key /\ outbox'[i].life = x.life
           \/ /\ outbox'[i].type = "stop"
              /\ \E x \in Missing(previous, current) :
                   outbox'[i].process = x.key /\ outbox'[i].life = x.life
      /\ \A x \in Missing(current, previous) : \E i \in DOMAIN outbox' :
           outbox'[i].process = x.key /\ outbox'[i].life = x.life
      /\ \A i, j \in DOMAIN outbox' :
           outbox'[i].type = "start" /\ outbox'[j].type = "start"
             /\ outbox'[i].life = outbox'[j].life => i = j
  BY CompareReports DEF Base
<1>2. /\ \A x \in previous \cup current : x.life \in 1..started /\ x.key.pid = env.pids[x.life]
      /\ \A x \in previous \cup current : x.key.pid = 0 => x.key = NoKey
  BY <1>1 DEF PollerOK, EntryOK, Real, ProcessKey, NoKey
<1>3. \A l, m \in 1..started : env.pids[l] = env.pids[m] => l = m
  BY <1>1, UniqueLives
<1>4. outbox = <<>> /\ IdlePosted = {}
  BY <1>1 DEF PollerOK, IdlePosted
<1>5. UNCHANGED <<IdleRecords, IdleQueued, ActiveRecords(processes)>>
  BY <1>1 DEF IdleRecords, IdleQueued, ActiveRecords
<1>6. \A i \in IdlePosted' : outbox'[i].type = "start" /\
        \E x \in Missing(current, previous) : x.key.pid = 0 /\ outbox'[i].life = x.life
  <2> TAKE i \in IdlePosted'
  <2>1. i \in DOMAIN outbox' /\ outbox'[i].process.pid = 0
    BY DEF IdlePosted
  <2>2. ASSUME NEW x \in Missing(previous, current), outbox'[i].process = x.key PROVE FALSE
    <3>1. x \in previous /\ x.life \in gone
      BY <1>1, SeenAgain
    <3> QED BY <1>1, <1>2, <2>1, <2>2, <3>1 DEF SystemOK
  <2> QED BY <1>1, <2>1, <2>2
<1>7. Single(IdlePosted')
  <2> SUFFICES ASSUME NEW i \in IdlePosted', NEW j \in IdlePosted' PROVE i = j
    BY DEF Single
  <2>1. outbox'[i].life = outbox'[j].life
    <3>1. \A x \in Missing(current, previous) : x \in current
      BY DEF Missing
    <3> QED BY <1>2, <1>3, <1>6, <3>1
  <2>2. i \in DOMAIN outbox' /\ j \in DOMAIN outbox'
    BY DEF IdlePosted
  <2> QED BY <1>1, <1>6, <2>1, <2>2
<1>8. CASE \E x \in previous : x.key.pid = 0
  <2>1. PICK x \in previous : x.key.pid = 0
    BY <1>8
  <2>2. x.key = NoKey /\ x.life \notin gone
    BY <1>1, <1>2, <2>1 DEF SystemOK
  <2>3. \E y \in current : y.key.pid = 0
    BY <1>1, <2>1, <2>2, SeenAgain
  <2>4. IdlePosted' = {}
    <3> SUFFICES ASSUME NEW i \in IdlePosted' PROVE FALSE
      OBVIOUS
    <3>1. PICK y \in Missing(current, previous) : y.key.pid = 0
      BY <1>6
    <3>2. y.key = NoKey
      BY <1>2, <3>1 DEF Missing
    <3> QED BY <2>1, <2>2, <3>1, <3>2 DEF Missing, FindEntry, ProcessKeysMatch
  <2>5. IdleRecords # {} \/ IdleQueued # {}
    BY <1>4, <1>8 DEF IdleOnce
  <2>6. Single(IdlePosted)'
    BY <2>4 DEF Single
  <2> HIDE DEF IdleRecords, IdleQueued, IdlePosted
  <2> QED BY <1>1, <1>5, <2>3, <2>4, <2>5, <2>6 DEF IdleOnce, Single
<1>9. CASE ~\E x \in previous : x.key.pid = 0
  <2>1. IdleRecords' = {} /\ IdleQueued' = {}
    BY <1>5, <1>9 DEF IdleOnce
  <2>2. (\E x \in current : x.key.pid = 0) <=> IdlePosted' # {}
    <3>1. ASSUME NEW x \in current, x.key.pid = 0 PROVE IdlePosted' # {}
      <4>1. x \in Missing(current, previous)
        BY <1>9, <3>1 DEF Missing, FindEntry, ProcessKeysMatch
      <4>2. PICK i \in DOMAIN outbox' : outbox'[i].process = x.key
        BY <1>1, <4>1
      <4> QED BY <3>1, <4>2 DEF IdlePosted
    <3>2. ASSUME NEW i \in IdlePosted' PROVE \E x \in current : x.key.pid = 0
      BY <1>6 DEF Missing
    <3> QED BY <3>1, <3>2
  <2>3. Single(IdlePosted)'
    BY <1>7 DEF Single
  <2>4. Single(IdleRecords)' /\ Single(IdleQueued)' /\ (IdleRecords \subseteq ActiveRecords(processes))'
    BY <2>1 DEF Single
  <2> HIDE DEF IdleRecords, IdleQueued, IdlePosted
  <2> QED BY <1>1, <2>1, <2>2, <2>3, <2>4 DEF IdleOnce
<1> QED BY <1>8, <1>9

LEMMA IdleOncePush ==
  ASSUME Base, ~env.lossy, IdleOnce, CallbackPush \/ PollerPush
  PROVE  IdleOnce'
<1>1. PICK e \in Reported :
        /\ ReportOK(e) /\ Push(e)
        /\ \/ etw_hand # None /\ e = etw_hand /\ outbox' = outbox
           \/ outbox # <<>> /\ e = Head(outbox) /\ outbox' = Tail(outbox)
  BY PushedReport DEF Base
<1>2. UNCHANGED <<env, previous, processes>>
  BY PushedReport DEF Base
<1> DEFINE n == Len(queue)
<1>3. /\ \A i \in DOMAIN queue : i \in DOMAIN queue' /\ queue'[i] = queue[i]
      /\ \A i \in DOMAIN queue' :
           \/ i \in DOMAIN queue /\ queue'[i] = queue[i]
           \/ i = n + 1 /\ queue'[i] = e
      /\ n + 1 \in DOMAIN queue' /\ queue'[n + 1] = e
  BY <1>1, Pushed DEF Base, PipelineOK
<1> HIDE DEF n
<1>4. UNCHANGED <<IdleRecords, ActiveRecords(processes)>>
  BY <1>2 DEF IdleRecords, ActiveRecords
<1>5. CASE e.process.pid # 0
  <2>1. IdleQueued' = IdleQueued
    BY <1>3, <1>5 DEF IdleQueued
  <2>2. (IdlePosted' = {} <=> IdlePosted = {}) /\ (Single(IdlePosted) => Single(IdlePosted)')
    <3>1. CASE outbox' = outbox
      BY <3>1 DEF IdlePosted, Single
    <3>2. CASE outbox # <<>> /\ e = Head(outbox) /\ outbox' = Tail(outbox)
      <4>1. /\ 1 \in DOMAIN outbox /\ e = outbox[1]
            /\ \A i \in DOMAIN outbox' : /\ i \in Nat \ {0} /\ i + 1 \in DOMAIN outbox
                                         /\ outbox'[i] = outbox[i + 1]
            /\ \A i \in DOMAIN outbox : i # 1 => /\ i - 1 \in DOMAIN outbox'
                                                 /\ outbox'[i - 1] = outbox[i]
        BY <3>2, Popped DEF Base, PipelineOK
      <4>2. \A i \in IdlePosted' : i + 1 \in IdlePosted /\ i \in Nat
        BY <4>1 DEF IdlePosted
      <4>3. \A i \in IdlePosted : i - 1 \in IdlePosted'
        BY <1>5, <4>1 DEF IdlePosted
      <4>4. Single(IdlePosted) => Single(IdlePosted')
        BY <4>2 DEF Single
      <4> QED BY <4>2, <4>3, <4>4 DEF Single
    <3> QED BY <1>1, <3>1, <3>2
  <2> HIDE DEF IdleRecords, IdleQueued, IdlePosted
  <2> QED BY <1>2, <1>4, <2>1, <2>2 DEF IdleOnce, Single
<1>6. CASE e.process.pid = 0
  <2>1. outbox # <<>> /\ e = Head(outbox) /\ outbox' = Tail(outbox)
    BY <1>1, <1>6 DEF Base, EtwOK, HandOK
  <2>2. /\ 1 \in DOMAIN outbox /\ e = outbox[1]
        /\ \A i \in DOMAIN outbox' : /\ i \in Nat \ {0} /\ i + 1 \in DOMAIN outbox
                                     /\ outbox'[i] = outbox[i + 1]
    BY <2>1, Popped DEF Base, PipelineOK
  <2>3. 1 \in IdlePosted
    BY <1>6, <2>2 DEF IdlePosted
  <2>4. IdleRecords = {} /\ IdleQueued = {} /\ Single(IdlePosted)
        /\ \E x \in previous : x.key.pid = 0
    BY <2>3 DEF IdleOnce
  <2>5. IdlePosted' = {}
    <3> SUFFICES ASSUME NEW i \in IdlePosted' PROVE FALSE
      OBVIOUS
    <3>1. i + 1 \in IdlePosted /\ i \in Nat \ {0}
      BY <2>2 DEF IdlePosted
    <3> QED BY <2>3, <2>4, <3>1 DEF Single
  <2>6. IdleQueued' = {n + 1}
    BY <1>3, <1>6, <2>4 DEF IdleQueued
  <2>7. Single(IdleQueued)' /\ Single(IdlePosted)' /\ Single(IdleRecords)'
    BY <1>4, <2>4, <2>5, <2>6 DEF Single
  <2>8. (IdleRecords \subseteq ActiveRecords(processes))'
    BY <1>4, <2>4
  <2> HIDE DEF IdleRecords, IdleQueued, IdlePosted
  <2> QED BY <1>2, <1>4, <2>4, <2>5, <2>6, <2>7, <2>8 DEF IdleOnce
<1> QED BY <1>5, <1>6

LEMMA IdleOnceDrain ==
  ASSUME Base, IdleOnce, Drain
  PROVE  IdleOnce'
<1> DEFINE e == Head(queue)
           k == FindProcess(processes, e.process)
           n == Len(processes)
<1>1. e = Head(queue) /\ k = FindProcess(processes, e.process) /\ n = Len(processes)
  OBVIOUS
<1> HIDE DEF e, k, n
<1>2. /\ UNCHANGED <<env, system, etw, poller>> /\ 1 \in DOMAIN queue /\ e = queue[1]
      /\ queue # <<>> /\ queue' = Tail(queue) /\ n \in Nat /\ DOMAIN processes = 1..n
      /\ ReportOK(e)
  BY <1>1, Drained DEF Base
<1>3. k = 0 => /\ DOMAIN processes' = 1..(n + 1)
               /\ \A j \in DOMAIN processes : processes'[j] = processes[j]
               /\ processes'[n + 1].key = e.process
               /\ processes'[n + 1].active = (e.type = "start")
  BY <1>1, Drained DEF Base
<1>4. k # 0 => /\ k \in DOMAIN processes /\ DOMAIN processes' = 1..n
               /\ \A j \in DOMAIN processes : j # k => processes'[j] = processes[j]
               /\ processes'[k].key = processes[k].key \/ processes'[k].key = e.process
               /\ processes[k].key.pid = e.process.pid /\ e.process.pid # 0
  BY <1>1, Drained DEF Base
<1>5. UNCHANGED <<previous, outbox>> /\ UNCHANGED IdlePosted
  BY <1>2 DEF poller, IdlePosted
<1>6. /\ \A i \in DOMAIN queue' : /\ i \in Nat \ {0} /\ i + 1 \in DOMAIN queue
                                  /\ queue'[i] = queue[i + 1]
      /\ \A i \in DOMAIN queue : i # 1 => i - 1 \in DOMAIN queue' /\ queue'[i - 1] = queue[i]
  BY <1>2, Popped DEF Base, PipelineOK
<1>7. CASE e.process.pid = 0
  <2>1. k = 0 /\ e.type = "start"
    <3>1. e.type \in {"start", "stop"} /\ e.process.pid = env.pids[e.life]
          /\ (e.type = "stop" => e.life \in gone)
      BY <1>2 DEF ReportOK, Reported
    <3> QED BY <1>4, <1>7, <3>1 DEF Base, SystemOK
  <2>2. 1 \in IdleQueued
    BY <1>2, <1>7 DEF IdleQueued
  <2>3. IdleRecords = {} /\ IdlePosted = {} /\ Single(IdleQueued)
        /\ \E x \in previous : x.key.pid = 0
    BY <2>2 DEF IdleOnce
  <2>4. IdleQueued' = {}
    <3> SUFFICES ASSUME NEW i \in IdleQueued' PROVE FALSE
      OBVIOUS
    <3>1. i + 1 \in IdleQueued /\ i \in Nat \ {0}
      BY <1>6 DEF IdleQueued
    <3> QED BY <2>2, <2>3, <3>1 DEF Single
  <2>5. IdleRecords' = {n + 1}
    BY <1>2, <1>3, <1>7, <2>1, <2>3 DEF IdleRecords
  <2>6. (IdleRecords \subseteq ActiveRecords(processes))'
    <3>1. n + 1 \in DOMAIN processes' /\ processes'[n + 1].active
      <4>1. n + 1 \in DOMAIN processes'
        BY <1>2, <1>3, <2>1
      <4>2. processes'[n + 1].active = (e.type = "start")
        BY <1>3, <2>1
      <4> QED BY <2>1, <4>1, <4>2
    <3> HIDE DEF IdleRecords
    <3> QED BY <2>5, <3>1 DEF ActiveRecords
  <2>7. Single(IdleQueued)' /\ Single(IdlePosted)' /\ Single(IdleRecords)'
    BY <1>5, <2>3, <2>4, <2>5 DEF Single
  <2> HIDE DEF IdleRecords, IdleQueued, IdlePosted
  <2> QED BY <1>5, <2>3, <2>4, <2>5, <2>6, <2>7 DEF IdleOnce
<1>8. CASE e.process.pid # 0
  <2>1. IdleRecords' = IdleRecords
        /\ \A i \in IdleRecords : processes'[i].active = processes[i].active
    BY <1>2, <1>3, <1>4, <1>8 DEF IdleRecords
  <2>2. \A i \in IdleQueued' : i + 1 \in IdleQueued /\ i \in Nat
    BY <1>6 DEF IdleQueued
  <2>3. \A i \in IdleQueued : i - 1 \in IdleQueued'
    BY <1>2, <1>6, <1>8 DEF IdleQueued
  <2>4. Single(IdleQueued) => Single(IdleQueued)'
    <3>1. Single(IdleQueued) => Single(IdleQueued')
      BY <2>2 DEF Single
    <3> QED BY <3>1 DEF Single
  <2>5. (IdleRecords \subseteq ActiveRecords(processes))'
    <3>1. IdleRecords \subseteq ActiveRecords(processes)
      BY DEF IdleOnce
    <3>2. \A i \in IdleRecords : i \in DOMAIN processes'
      BY <1>2, <1>3, <1>4 DEF IdleRecords
    <3>3. \A i \in IdleRecords : i \in DOMAIN processes' /\ processes'[i].active
      BY <2>1, <3>1, <3>2 DEF ActiveRecords
    <3> HIDE DEF IdleRecords
    <3> QED BY <2>1, <3>3 DEF ActiveRecords
  <2>6. Single(IdleRecords)' = Single(IdleRecords) /\ Single(IdlePosted)' = Single(IdlePosted)
    BY <1>5, <2>1 DEF Single
  <2> HIDE DEF IdleRecords, IdleQueued, IdlePosted
  <2> QED BY <1>5, <2>1, <2>2, <2>3, <2>4, <2>5, <2>6 DEF IdleOnce
<1> QED BY <1>7, <1>8

LEMMA IdleOnceStep ==
  ASSUME Base, Sighted, Lossless, IdleOnce, Next
  PROVE  IdleOnce'
<1>1. CASE UNCHANGED <<previous, outbox, queue, processes>>
  <2>1. UNCHANGED <<IdleRecords, IdleQueued, IdlePosted, ActiveRecords(processes)>>
    BY <1>1 DEF IdleRecords, IdleQueued, IdlePosted, ActiveRecords
  <2> HIDE DEF IdleRecords, IdleQueued, IdlePosted
  <2> QED BY <1>1, <2>1 DEF IdleOnce, Single
<1>2. System \/ Callback \/ TakeSnapshot \/ QueryEntry \/ Sleep
        => UNCHANGED <<previous, outbox, queue, processes>>
  BY DEF System, CreateProcess, EndProcess, Callback, TakeSnapshot, QueryEntry, Sleep, poller
<1> QED BY <1>1, <1>2, IdleOnceCompare, IdleOncePush, IdleOnceDrain
        DEF Next, Poller, Consumer, Lossless, AllIdentified

\* A stop that is still to come stays so until the GUI thread takes it.
LEMMA AheadCompare ==
  ASSUME Base, Sighted, PidsUnique, Compare, NEW l \in Regular, NEW i
  PROVE  /\ Ahead(i, l) => Ahead(i, l)'
         /\ BlindAhead(i, l) => BlindAhead(i, l)'
<1>1. /\ SystemOK /\ PollerOK /\ phase = "query" /\ snapshot = {} /\ previous' = current
      /\ UNCHANGED <<env, system, etw, queue, processes>>
      /\ \A x \in Missing(previous, current) : \E j \in DOMAIN outbox' :
           /\ outbox'[j].type = "stop" /\ outbox'[j].process = x.key
           /\ outbox'[j].life = x.life
  BY CompareReports DEF Base
<1>2. /\ \A x \in previous \cup current : EntryOK(x) /\ x.life \in 1..started
                                          /\ x.key.pid = env.pids[x.life] /\ Real(x.key)
      /\ outbox = <<>>
  BY <1>1 DEF PollerOK, EntryOK
<1>3. \A k, m \in 1..started : env.pids[k] = env.pids[m] => k = m
  BY <1>1, UniqueLives
<1>4. ASSUME NEW x \in previous, x.life = l
      PROVE  \/ \E y \in current : y.life = l
             \/ \E j \in DOMAIN outbox' : Stop(outbox'[j], l) /\ outbox'[j].process = x.key
  <2>1. CASE x \in Missing(previous, current)
    BY <1>1, <1>4, <2>1 DEF Stop
  <2>2. CASE x \notin Missing(previous, current)
    <3>1. PICK y \in current : y.key.pid = x.key.pid
      BY <1>4, <2>2 DEF Missing, FindEntry, ProcessKeysMatch
    <3> QED BY <1>2, <1>3, <1>4, <3>1
  <2> QED BY <2>1, <2>2
<1>5. ASSUME Ahead(i, l) PROVE Ahead(i, l)'
  <2>1. CASE l \in LivesOf(previous)
    <3>1. PICK x \in previous : x.life = l
      BY <2>1 DEF LivesOf
    <3>2. \/ l \in LivesOf(current)
          \/ \E j \in DOMAIN outbox' : Stop(outbox'[j], l)
      BY <1>4, <3>1 DEF LivesOf
    <3>3. LivesOf(previous)' = LivesOf(current)
      BY <1>1 DEF LivesOf
    <3> QED BY <3>2, <3>3 DEF Ahead
  <2>2. CASE l \notin LivesOf(previous)
    <3>1. UNCHANGED <<queue, etw_hand, etw_buffer>> /\ DOMAIN outbox = {}
      BY <1>1, <1>2 DEF etw
    <3> QED BY <1>5, <2>2, <3>1 DEF Ahead
  <2> QED BY <2>1, <2>2
<1>6. ASSUME BlindAhead(i, l) PROVE BlindAhead(i, l)'
  <2>1. CASE \E x \in previous : x.life = l /\ x.key.creation_time = 0
    <3>1. PICK x \in previous : x.life = l /\ x.key.creation_time = 0
      BY <2>1
    <3>2. CASE \E y \in current : y.life = l
      <4>1. PICK y \in current : y.life = l
        BY <3>2
      <4>2. l \in env.hidden
        <5>1. x.key.pid # 0 /\ l \in LivesOf(current)
          BY <1>2, <3>1, <4>1 DEF Regular, LivesOf
        <5> QED BY <1>1, <3>1, <5>1 DEF Sighted
      <4>3. y.key.creation_time \in {0, l} /\ (y.key.creation_time # 0 => y.key.creation_time \notin env.hidden)
        BY <1>1, <1>2, <4>1, UniqueLives DEF EntryOK
      <4> QED BY <1>1, <4>1, <4>2, <4>3 DEF BlindAhead
    <3>3. CASE \E j \in DOMAIN outbox' : Stop(outbox'[j], l) /\ outbox'[j].process = x.key
      BY <3>1, <3>3 DEF BlindAhead, Blind
    <3> QED BY <1>4, <3>1, <3>2, <3>3
  <2>2. CASE ~\E x \in previous : x.life = l /\ x.key.creation_time = 0
    <3>1. UNCHANGED queue /\ DOMAIN outbox = {}
      BY <1>1, <1>2
    <3> QED BY <1>6, <2>2, <3>1 DEF BlindAhead
  <2> QED BY <2>1, <2>2
<1> QED BY <1>5, <1>6

LEMMA AheadPush ==
  ASSUME Base, ~env.lossy, CallbackPush \/ PollerPush, NEW l, NEW i \in {0} \cup DOMAIN queue
  PROVE  /\ Ahead(i, l) => Ahead(i, l)'
         /\ BlindAhead(i, l) => BlindAhead(i, l)'
<1> DEFINE n == Len(queue)
<1>1. PICK e \in Reported :
        /\ ReportOK(e) /\ Push(e)
        /\ \/ etw_hand # None /\ e = etw_hand /\ outbox' = outbox
           \/ outbox # <<>> /\ e = Head(outbox) /\ outbox' = Tail(outbox) /\ etw_hand' = etw_hand
  BY PushedReport DEF Base
<1>2. UNCHANGED <<previous, etw_buffer>>
  BY PushedReport DEF Base
<1>3. /\ \A j \in DOMAIN queue : j \in DOMAIN queue' /\ queue'[j] = queue[j]
      /\ n + 1 \in DOMAIN queue' /\ queue'[n + 1] = e
      /\ n + 1 > i
  <2>1. queue \in Seq(Reported)
    BY DEF Base, PipelineOK
  <2>2. n \in Nat /\ DOMAIN queue = 1..n
    BY <2>1, LenProperties
  <2> QED BY <1>1, <2>1, <2>2, Pushed
<1> HIDE DEF n
\* The report that is pushed is ahead of all those in the queue.
<1>4. \A j \in DOMAIN outbox : (j = 1 /\ outbox[j] = e) \/ \E m \in DOMAIN outbox' : outbox'[m] = outbox[j]
  <2>1. CASE outbox' = outbox
    BY <2>1
  <2>2. CASE outbox # <<>> /\ e = Head(outbox) /\ outbox' = Tail(outbox)
    <3>1. outbox \in Seq(Reported)
      BY DEF Base, PipelineOK
    <3>2. /\ 1 \in DOMAIN outbox /\ e = outbox[1]
          /\ \A j \in DOMAIN outbox :
               j # 1 => j - 1 \in DOMAIN outbox' /\ outbox'[j - 1] = outbox[j]
      <4>1. /\ 1 \in DOMAIN outbox /\ Head(outbox) = outbox[1]
            /\ \A j \in DOMAIN outbox :
                 j # 1 => /\ j - 1 \in DOMAIN Tail(outbox)
                          /\ Tail(outbox)[j - 1] = outbox[j]
        BY <2>2, <3>1, Popped
      <4> QED BY <2>2, <4>1
    <3> TAKE j \in DOMAIN outbox
    <3>3. CASE j = 1
      BY <3>2, <3>3
    <3>4. CASE j # 1
      BY <3>2, <3>4
    <3> QED BY <3>3, <3>4
  <2> QED BY <1>1, <2>1, <2>2
<1>5. ASSUME Stop(e, l) PROVE Ahead(i, l)' /\ (Blind(e) => BlindAhead(i, l)')
  BY <1>3, <1>5 DEF Ahead, BlindAhead
<1>6. ASSUME Ahead(i, l) PROVE Ahead(i, l)'
  <2>1. CASE \E j \in DOMAIN queue : j > i /\ Stop(queue[j], l)
    BY <1>3, <2>1 DEF Ahead
  <2>2. CASE \E j \in DOMAIN outbox : Stop(outbox[j], l)
    BY <1>4, <1>5, <2>2 DEF Ahead
  <2>3. CASE etw_hand # None /\ Stop(etw_hand, l)
    BY <1>1, <1>5, <2>3 DEF Ahead
  <2>4. CASE \/ \E j \in DOMAIN etw_buffer : Stop(etw_buffer[j], l)
             \/ l \in LivesOf(previous)
    BY <1>2, <2>4 DEF Ahead, LivesOf
  <2> QED BY <1>6, <2>1, <2>2, <2>3, <2>4 DEF Ahead
<1>7. ASSUME BlindAhead(i, l) PROVE BlindAhead(i, l)'
  <2>1. CASE \E j \in DOMAIN queue : j > i /\ Stop(queue[j], l) /\ Blind(queue[j])
    BY <1>3, <2>1 DEF BlindAhead
  <2>2. CASE \E j \in DOMAIN outbox : Stop(outbox[j], l) /\ Blind(outbox[j])
    BY <1>4, <1>5, <2>2 DEF BlindAhead
  <2>3. CASE \E x \in previous : x.life = l /\ x.key.creation_time = 0
    BY <1>2, <2>3 DEF BlindAhead
  <2> QED BY <1>7, <2>1, <2>2, <2>3 DEF BlindAhead
<1> QED BY <1>6, <1>7

LEMMA AheadSystem ==
  ASSUME Base, Lossless, System \/ Callback, NEW l, NEW i
  PROVE  /\ Ahead(i, l) => Ahead(i, l)'
         /\ BlindAhead(i, l) => BlindAhead(i, l)'
<1>1. UNCHANGED <<queue, outbox, previous>>
  BY DEF System, CreateProcess, EndProcess, Callback, poller
<1>2. etw_buffer \in Seq(Transition)
  BY DEF Base, EtwOK
<1>3. CASE Callback
  <2>1. /\ etw_buffer # <<>> /\ etw_hand = None /\ etw_buffer' = Tail(etw_buffer)
        /\ etw_hand'.type = Head(etw_buffer).type /\ etw_hand'.life = Head(etw_buffer).life
        /\ ReportOK(etw_hand')
    BY <1>3, CallbackStep, LosslessFacts DEF Base
  <2>2. etw_hand' # None
    BY <2>1, NoEventAssumption DEF ReportOK
  <2>3. /\ 1 \in DOMAIN etw_buffer /\ Head(etw_buffer) = etw_buffer[1]
        /\ \A j \in DOMAIN etw_buffer : j # 1 => /\ j - 1 \in DOMAIN etw_buffer'
                                                 /\ etw_buffer'[j - 1] = etw_buffer[j]
    BY <1>2, <2>1, Popped
  <2>4. ASSUME NEW j \in DOMAIN etw_buffer, Stop(etw_buffer[j], l) PROVE Ahead(i, l)'
    <3>1. CASE j = 1
      BY <2>1, <2>2, <2>3, <2>4, <3>1 DEF Ahead, Stop
    <3>2. CASE j # 1
      BY <2>3, <2>4, <3>2 DEF Ahead
    <3> QED BY <3>1, <3>2
  <2>5. BlindAhead(i, l) => BlindAhead(i, l)'
    BY <1>1 DEF BlindAhead
  <2>6. Ahead(i, l) => Ahead(i, l)'
    BY <1>1, <2>1, <2>4 DEF Ahead, LivesOf
  <2> QED BY <2>5, <2>6
<1>4. CASE System
  <2>1. etw_hand' = etw_hand
    BY <1>4 DEF System, CreateProcess, EndProcess
  <2>2. \A j \in DOMAIN etw_buffer : j \in DOMAIN etw_buffer' /\ etw_buffer'[j] = etw_buffer[j]
    <3>1. CASE etw_buffer' = etw_buffer
      BY <3>1
    <3>2. ASSUME NEW r \in Transition, etw_buffer' = Append(etw_buffer, r)
          PROVE  \A j \in DOMAIN etw_buffer :
                   j \in DOMAIN etw_buffer' /\ etw_buffer'[j] = etw_buffer[j]
      BY <1>2, <3>2, Appended
    <3>3. CASE CreateProcess
      <4>1. [type |-> "start", life |-> started + 1] \in Transition
        BY EnvFacts DEF Base, Transition
      <4> QED BY <3>1, <3>2, <3>3, <4>1 DEF CreateProcess, Trace
    <3>4. ASSUME NEW m \in Lives(env), EndProcess(m)
          PROVE  \A j \in DOMAIN etw_buffer :
                   j \in DOMAIN etw_buffer' /\ etw_buffer'[j] = etw_buffer[j]
      <4>1. [type |-> "stop", life |-> m] \in Transition
        BY EnvFacts DEF Base, Transition
      <4> QED BY <3>1, <3>2, <3>4, <4>1 DEF EndProcess, Trace
    <3> QED BY <1>4, <3>3, <3>4 DEF System
  <2> QED BY <1>1, <2>1, <2>2 DEF Ahead, BlindAhead, LivesOf
<1> QED BY <1>3, <1>4

LEMMA AheadDrain ==
  ASSUME Base, Drain, NEW l, NEW i \in Nat
  PROVE  /\ Ahead(i + 1, l) => Ahead(i, l)'
         /\ BlindAhead(i + 1, l) => BlindAhead(i, l)'
         /\ Ahead(0, l) => Ahead(0, l)' \/ Stop(Head(queue), l)
         /\ BlindAhead(0, l) => BlindAhead(0, l)' \/ (Stop(Head(queue), l) /\ Blind(Head(queue)))
<1>1. /\ UNCHANGED <<outbox, previous, etw_hand, etw_buffer>>
      /\ queue # <<>> /\ queue' = Tail(queue)
  BY DEF Drain, poller, etw
<1>2. /\ 1 \in DOMAIN queue /\ Head(queue) = queue[1]
      /\ \A j \in DOMAIN queue : j # 1 => j - 1 \in DOMAIN queue' /\ queue'[j - 1] = queue[j]
      /\ \A j \in DOMAIN queue : j \in Nat \ {0}
  <2>1. queue \in Seq(Reported)
    BY DEF Base, PipelineOK
  <2> QED BY <1>1, <2>1, Popped, Members
<1>3. ASSUME NEW j \in DOMAIN queue, NEW m \in Nat, j > m + 1
      PROVE  j - 1 \in DOMAIN queue' /\ j - 1 > m /\ queue'[j - 1] = queue[j]
  BY <1>2, <1>3
<1>4. Ahead(i + 1, l) => Ahead(i, l)'
  BY <1>1, <1>3 DEF Ahead, LivesOf
<1>5. BlindAhead(i + 1, l) => BlindAhead(i, l)'
  BY <1>1, <1>3 DEF BlindAhead
<1>6. ASSUME NEW j \in DOMAIN queue
      PROVE  \/ j = 1
             \/ j - 1 \in DOMAIN queue' /\ j - 1 > 0 /\ queue'[j - 1] = queue[j]
  BY <1>2
<1>7. Ahead(0, l) => Ahead(0, l)' \/ Stop(Head(queue), l)
  BY <1>1, <1>2, <1>6 DEF Ahead, LivesOf
<1>8. BlindAhead(0, l) => BlindAhead(0, l)' \/ (Stop(Head(queue), l) /\ Blind(Head(queue)))
  BY <1>1, <1>2, <1>6 DEF BlindAhead
<1> QED BY <1>4, <1>5, <1>7, <1>8

LEMMA RunningSingle ==
  ASSUME Base, Lossless, NEW l \in Regular
  PROVE  /\ \A i : i \in Running(l) <=> /\ i \in DOMAIN processes /\ processes[i].active
                                        /\ processes[i].key.pid = env.pids[l]
         /\ \A i \in Running(l) : processes[i].key.creation_time \in {0, l}
         /\ \A i, j \in Running(l) : i = j
<1>1. \A i : i \in Running(l) <=> /\ i \in DOMAIN processes /\ processes[i].active
                                  /\ processes[i].key.pid = env.pids[l]
  BY DEF Running, ActiveRecords
<1>2. l \in 1..started /\ env.pids[l] # 0
  BY DEF Regular
<1>3. \A i \in DOMAIN processes : Real(processes[i].key)
  BY ReportsReal
<1>4. \A i \in Running(l) : processes[i].key.creation_time \in {0, l}
  BY <1>1, <1>2, <1>3, UniqueLives, LosslessFacts DEF Base
<1>5. DistinctRunning(processes)
  BY DEF Base, TableOK, SoundTable
<1>6. ASSUME NEW i \in Running(l), NEW j \in Running(l) PROVE i = j
  <2>1. ProcessKeysMatch(processes[i].key, processes[j].key)
    BY <1>1, <1>4 DEF ProcessKeysMatch
  <2> QED BY <1>1, <1>2, <1>5, <2>1 DEF DistinctRunning, ActiveRecords
<1> QED BY <1>1, <1>4, <1>6

\* What a report makes of the running records of a process.
LEMMA RunningDrained ==
  ASSUME Base, Lossless, Drain, NEW l \in Regular, NEW e, e = Head(queue)
  PROVE  /\ Running(l)' # {} => Running(l) # {} \/ Start(e, l)
         /\ ~Stop(e, l) => Running(l) \subseteq Running(l)'
         /\ Stop(e, l) =>
              \/ Running(l)' = {}
              \/ ~Blind(e) /\ \E i \in Running(l) : processes[i].key.creation_time = 0
         /\ StoppedPast /\ l \notin gone /\ Start(e, l) => Running(l)' # {}
         /\ (\E i \in Running(l)' : processes'[i].key.creation_time = 0) =>
              \/ \E i \in Running(l) : processes[i].key.creation_time = 0
              \/ Start(e, l) /\ Blind(e)
<1> DEFINE k == FindProcess(processes, e.process)
           n == Len(processes)
<1>1. k = FindProcess(processes, e.process) /\ n = Len(processes)
  OBVIOUS
<1> HIDE DEF k, n
<1>2. /\ UNCHANGED <<env, system, etw, poller>> /\ n \in Nat /\ DOMAIN processes = 1..n
      /\ e \in Reported /\ ReportOK(e)
  BY <1>1, Drained DEF Base
<1>3. k = 0 => /\ DOMAIN processes' = 1..(n + 1)
               /\ \A j \in DOMAIN processes : processes'[j] = processes[j]
               /\ processes'[n + 1].key = e.process
               /\ processes'[n + 1].active = (e.type = "start")
               /\ e.process.pid # 0 => ActiveMatches(processes, e.process) = {}
  BY <1>1, Drained DEF Base
<1>4. k # 0 => /\ k \in DOMAIN processes /\ DOMAIN processes' = 1..n
               /\ \A j \in DOMAIN processes : j # k => processes'[j] = processes[j]
               /\ processes'[k].active = (processes[k].active /\ e.type = "start")
               /\ processes[k].key.pid = e.process.pid /\ e.process.pid # 0
               /\ processes'[k].key = processes[k].key \/ processes'[k].key = e.process
               /\ processes[k].key.creation_time # 0 => processes'[k].key = processes[k].key
  BY <1>1, Drained DEF Base
<1>5. k # 0 => \/ k \in SameIdentity(processes, e.process)
               \/ k \in ActiveMatches(processes, e.process)
  BY <1>1, Drained DEF Base
<1>6. /\ \A i : i \in Running(l) <=> /\ i \in DOMAIN processes /\ processes[i].active
                                     /\ processes[i].key.pid = env.pids[l]
      /\ \A i \in Running(l) : processes[i].key.creation_time \in {0, l}
      /\ \A i, j \in Running(l) : i = j
  BY RunningSingle
<1>7. \A i : i \in Running(l)' <=> /\ i \in DOMAIN processes' /\ processes'[i].active
                                   /\ processes'[i].key.pid = env.pids[l]
  BY <1>2 DEF Running, ActiveRecords
\* The report is about l when it has l's PID.
<1>8. /\ e.type \in {"start", "stop"} /\ Real(e.process) /\ e.process.pid = env.pids[e.life]
      /\ e.process.pid = env.pids[l] <=> e.life = l
      /\ e.life = l => e.process.creation_time \in {0, l} /\ e.process.pid # 0
      /\ l \in 1..started
  <2>1. e.life \in 1..started /\ l \in 1..started /\ env.pids[l] # 0
        /\ e.process.pid = env.pids[e.life] /\ Real(e.process)
    BY <1>2, ReportsReal DEF ReportOK, Regular
  <2>2. \A a, b \in 1..started : env.pids[a] = env.pids[b] => a = b
    BY UniqueLives, LosslessFacts DEF Base
  <2>3. e.life = l => e.process.creation_time \in {0, l}
    BY <2>1, UniqueLives, LosslessFacts DEF Base
  <2>4. e.type \in {"start", "stop"}
    BY <1>2 DEF Reported
  <2> QED BY <2>1, <2>2, <2>3, <2>4
<1>9. Start(e, l) <=> e.type = "start" /\ e.life = l
  BY DEF Start
<1>10. Stop(e, l) <=> e.type = "stop" /\ e.life = l
  BY DEF Stop
<1> HIDE DEF Running
<1>11. CASE k = 0
  <2>1. \A i : i \in Running(l)' <=> i \in Running(l) \/ (i = n + 1 /\ Start(e, l))
    <3>1. processes'[n + 1].active <=> e.type = "start"
      BY <1>3, <1>11, Zenon
    <3>2. /\ n + 1 \notin DOMAIN processes /\ n + 1 \in DOMAIN processes'
          /\ \A i \in DOMAIN processes' : i \in DOMAIN processes \/ i = n + 1
          /\ \A i \in DOMAIN processes : i \in DOMAIN processes'
      BY <1>2, <1>3, <1>11
    <3>3. processes'[n + 1].key.pid = env.pids[l] <=> e.life = l
      BY <1>3, <1>8, <1>11
    <3>4. \A j \in DOMAIN processes : processes'[j] = processes[j]
      BY <1>3, <1>11
    <3> QED BY <1>6, <1>7, <1>9, <3>1, <3>2, <3>3, <3>4
  <2>2. Stop(e, l) => Running(l)' = {}
    <3> SUFFICES ASSUME Stop(e, l), NEW i \in Running(l)' PROVE FALSE
      OBVIOUS
    <3>1. i \in Running(l)
      BY <1>9, <1>10, <2>1
    <3>2. i \in ActiveMatches(processes, e.process)
      BY <1>6, <1>8, <1>10, <3>1 DEF ActiveMatches, ProcessKeysMatch
    <3> QED BY <1>3, <1>8, <1>10, <1>11, <3>2
  <2>3. (\E i \in Running(l)' : processes'[i].key.creation_time = 0) =>
              \/ \E i \in Running(l) : processes[i].key.creation_time = 0
              \/ Start(e, l) /\ Blind(e)
    BY <1>3, <1>6, <1>11, <2>1 DEF Blind
  <2>4. Start(e, l) => n + 1 \in Running(l)'
    BY <2>1
  <2>5. Running(l) \subseteq Running(l)' /\ (Running(l)' # {} => Running(l) # {} \/ Start(e, l))
    BY <2>1
  <2> QED BY <2>2, <2>3, <2>4, <2>5
<1>12. CASE k # 0
  <2>1. /\ \A i : i \in Running(l)' <=> i \in Running(l) /\ (i # k \/ e.type = "start")
        /\ (k \in Running(l) \/ k \in Running(l)') => e.life = l
    <3>1. processes'[k].active <=> processes[k].active /\ e.type = "start"
      BY <1>4, <1>12, Zenon
    <3>2. processes'[k].key.pid = processes[k].key.pid
      BY <1>4, <1>12
    <3>3. \A j \in DOMAIN processes : j # k => processes'[j] = processes[j]
      BY <1>4, <1>12
    <3>4. DOMAIN processes' = DOMAIN processes /\ processes[k].key.pid = e.process.pid
      BY <1>2, <1>4, <1>12
    <3> QED BY <1>6, <1>7, <1>8, <3>1, <3>2, <3>3, <3>4
  <2>2. ~Stop(e, l) => Running(l) \subseteq Running(l)'
    BY <1>8, <1>10, <2>1
  <2>3. e.life = l => \/ k \in Running(l)
                      \/ /\ processes[k].key = e.process /\ e.process.creation_time = l
                         /\ ~processes[k].active
    <3>1. e.life = l /\ k \in ActiveMatches(processes, e.process) => k \in Running(l)
      BY <1>6, <1>8 DEF ActiveMatches, ProcessKeysMatch
    <3>2. e.life = l /\ k \in SameIdentity(processes, e.process)
            => \/ k \in Running(l)
               \/ /\ processes[k].key = e.process /\ e.process.creation_time = l
                  /\ ~processes[k].active
      BY <1>4, <1>6, <1>8, <1>12 DEF SameIdentity
    <3> QED BY <1>5, <1>12, <3>1, <3>2
  <2>4. ASSUME Stop(e, l)
        PROVE  \/ Running(l)' = {}
               \/ ~Blind(e) /\ \E i \in Running(l) : processes[i].key.creation_time = 0
    <3>1. CASE k \in Running(l)
      BY <1>6, <1>10, <2>1, <2>4, <3>1
    <3>2. CASE k \notin Running(l)
      <4>1. processes[k].key = e.process /\ e.process.creation_time = l /\ ~processes[k].active
        BY <1>10, <2>3, <2>4, <3>2
      <4>2. l # 0
        BY <1>8, EnvFacts DEF Base
      <4>3. ASSUME NEW i \in Running(l) PROVE processes[i].key.creation_time = 0
        <5> SUFFICES ASSUME processes[i].key.creation_time # 0 PROVE FALSE
          OBVIOUS
        <5>1. processes[i].key.creation_time = l /\ processes[i].key.pid = env.pids[l]
              /\ processes[k].key.creation_time = l /\ processes[k].key.pid = env.pids[l]
              /\ i \in DOMAIN processes /\ k \in DOMAIN processes
          BY <1>4, <1>6, <1>8, <1>10, <1>12, <2>4, <4>1
        <5>2. processes[i].key \in ProcessKey /\ processes[k].key \in ProcessKey
          BY <5>1 DEF Base, TableOK, RecordOK, Claimed
        <5>3. processes[i].key = processes[k].key
          BY <5>1, <5>2 DEF ProcessKey
        <5>4. UniqueIdentities(processes)
          BY DEF Base, TableOK, SoundTable
        <5>5. i = k
          BY <4>2, <5>1, <5>3, <5>4 DEF UniqueIdentities
        <5> QED BY <3>2, <5>5
      <4> QED BY <2>1, <4>1, <4>2, <4>3 DEF Blind
    <3> QED BY <3>1, <3>2
  <2>5. StoppedPast /\ l \notin gone /\ Start(e, l) => Running(l)' # {}
    <3> SUFFICES ASSUME StoppedPast, l \notin gone, Start(e, l) PROVE k \in Running(l)'
      OBVIOUS
    <3>1. k \in Running(l)
      <4> SUFFICES ASSUME k \notin Running(l) PROVE FALSE
        OBVIOUS
      <4>1. processes[k].key.creation_time = l /\ ~processes[k].active /\ k \in DOMAIN processes
        BY <1>4, <1>9, <1>12, <2>3
      <4>2. l \in {0} \cup gone
        BY <4>1 DEF StoppedPast, Stopped, Past, ActiveRecords
      <4> QED BY <1>8, <4>2, EnvFacts DEF Base
    <3> QED BY <1>9, <2>1, <3>1
  <2>6. (\E i \in Running(l)' : processes'[i].key.creation_time = 0) =>
              \E i \in Running(l) : processes[i].key.creation_time = 0
    <3> SUFFICES ASSUME NEW i \in Running(l)', processes'[i].key.creation_time = 0
                 PROVE  processes[i].key.creation_time = 0
      BY <2>1
    <3>1. i \in DOMAIN processes
      BY <1>6, <2>1
    <3> QED BY <1>4, <1>12, <3>1
  <2> QED BY <2>1, <2>2, <2>4, <2>5, <2>6
<1> QED BY <1>11, <1>12

\* A process that is created has no records and no reports yet.
LEMMA NewHasNothing ==
  ASSUME Base, PidsUnique, NEW l \in Lives(env) \ (1..started), env.pids[l] # 0
  PROVE  Running(l) = {} /\ \A i \in DOMAIN queue : queue[i].life # l
<1>1. \A i \in DOMAIN queue : queue[i].life \in 1..started
  BY DEF Base, PipelineOK, ReportOK
<1>2. 1..started \subseteq Lives(env)
  BY EnvFacts DEF Base
<1>3. \A i \in DOMAIN processes : \E m \in 1..started : processes[i].key.pid = env.pids[m]
  BY DEF Base, TableOK, RecordOK
<1>4. \A i \in DOMAIN processes : processes[i].key.pid # env.pids[l]
  <2> TAKE i \in DOMAIN processes
  <2>1. PICK m \in 1..started : processes[i].key.pid = env.pids[m]
    BY <1>3
  <2> QED BY <1>2, <2>1 DEF PidsUnique
<1> QED BY <1>1, <1>4 DEF Running, ActiveRecords

LEMMA FollowSystem ==
  ASSUME Base, Lossless, StopsFollow, BlindStopsFollow, System \/ Callback
  PROVE  StopsFollow' /\ BlindStopsFollow'
<1>1. /\ UNCHANGED <<env, queue, processes>> /\ SystemOK /\ SystemOK'
      /\ started' \in Nat /\ started <= started'
  BY SystemStep DEF Base, Next, Consumer, System, CreateProcess, EndProcess, Callback
<1>2. \A l : Running(l)' = Running(l)
  BY <1>1 DEF Running, ActiveRecords
<1>3. ASSUME NEW l \in Regular'
      PROVE  l \in Regular \/ (Running(l) = {} /\ \A i \in DOMAIN queue : queue[i].life # l)
  <2>1. l \in Lives(env) /\ env.pids[l] # 0
    <3>1. started' <= Len(env.pids)
      BY <1>1, EnvFacts DEF SystemOK
    <3> QED BY <1>1, <1>3, <3>1, EnvFacts DEF Regular
  <2> QED BY <2>1, NewHasNothing DEF Regular, Lossless
<1>4. ASSUME NEW l \in Regular, NEW i
      PROVE  (Ahead(i, l) => Ahead(i, l)') /\ (BlindAhead(i, l) => BlindAhead(i, l)')
  BY AheadSystem
\* The session records the end of a process.
<1>5. ASSUME NEW l \in gone' \ gone, env.etw PROVE \A i : Ahead(i, l)'
  <2>1. EndProcess(l)
    BY <1>5 DEF System, CreateProcess, EndProcess, Callback, system
  <2> DEFINE r == [type |-> "stop", life |-> l]
  <2>2. etw_buffer' = Append(etw_buffer, r)
    BY <1>5, <2>1 DEF EndProcess, Trace, Lossless, AllIdentified
  <2>3. etw_buffer \in Seq(Transition) /\ r \in Transition
    <3>1. l \in Nat
      BY <1>1, <2>1, EnvFacts DEF EndProcess, Alive
    <3> QED BY <3>1 DEF Base, EtwOK, Transition
  <2>4. Len(etw_buffer) + 1 \in DOMAIN etw_buffer' /\ etw_buffer'[Len(etw_buffer) + 1] = r
    <3> HIDE DEF r
    <3> QED BY <2>2, <2>3, Appended
  <2>5. \E j \in DOMAIN etw_buffer' : Stop(etw_buffer'[j], l)
    BY <2>4 DEF Stop
  <2> QED BY <2>5 DEF Ahead
<1>6. StopsFollow'
  <2> SUFFICES ASSUME NEW l \in Regular', l \in gone' \/ ~env.etw
               PROVE  /\ Running(l)' # {} => Ahead(0, l)'
                      /\ \A i \in DOMAIN queue' : Start(queue[i], l)' => Ahead(i, l)'
    BY <1>1 DEF StopsFollow
  <2>1. CASE l \notin Regular
    BY <1>1, <1>2, <1>3, <2>1 DEF Start
  <2>2. CASE l \in Regular /\ l \in gone' \ gone /\ env.etw
    BY <1>5, <2>2
  <2>3. CASE l \in Regular /\ (l \in gone \/ ~env.etw)
    <3>1. /\ Running(l) # {} => Ahead(0, l)
          /\ \A i \in DOMAIN queue : Start(queue[i], l) => Ahead(i, l)
      BY <2>3 DEF StopsFollow
    <3>2. \A i : Start(queue[i], l)' <=> Start(queue[i], l)
      BY <1>1 DEF Start
    <3> QED BY <1>1, <1>2, <1>4, <2>3, <3>1, <3>2
  <2> QED BY <2>1, <2>2, <2>3
<1>7. BlindStopsFollow'
  <2> SUFFICES ASSUME NEW l \in Regular'
               PROVE  /\ (\E i \in Running(l)' : processes'[i].key.creation_time = 0)
                           => BlindAhead(0, l)'
                      /\ \A i \in DOMAIN queue' :
                           Start(queue[i], l)' /\ Blind(queue[i])' => BlindAhead(i, l)'
    BY DEF BlindStopsFollow
  <2>1. CASE l \notin Regular
    BY <1>1, <1>2, <1>3, <2>1 DEF Start
  <2>2. CASE l \in Regular
    <3>1. /\ (\E i \in Running(l) : processes[i].key.creation_time = 0) => BlindAhead(0, l)
          /\ \A i \in DOMAIN queue :
               Start(queue[i], l) /\ Blind(queue[i]) => BlindAhead(i, l)
      BY <2>2 DEF BlindStopsFollow
    <3>2. \A i : /\ Start(queue[i], l)' <=> Start(queue[i], l)
                 /\ Blind(queue[i])' <=> Blind(queue[i])
      BY <1>1 DEF Start, Blind
    <3> QED BY <1>1, <1>2, <1>4, <2>2, <3>1, <3>2
  <2> QED BY <2>1, <2>2
<1> QED BY <1>6, <1>7

\* Nothing that is shown or queued changes, and no stop that is to come is dropped.
LEMMA FollowKept ==
  ASSUME StopsFollow, BlindStopsFollow, UNCHANGED <<env, started, gone, queue, processes>>,
         \A l \in Regular : \A i \in {0} \cup DOMAIN queue :
           (Ahead(i, l) => Ahead(i, l)') /\ (BlindAhead(i, l) => BlindAhead(i, l)')
  PROVE  StopsFollow' /\ BlindStopsFollow'
<1>1. /\ \A l : Running(l)' = Running(l)
      /\ Regular' = Regular
      /\ \A i, l : /\ Start(queue[i], l)' <=> Start(queue[i], l)
                   /\ Blind(queue[i])' <=> Blind(queue[i])
  BY DEF Running, ActiveRecords, Regular, Start, Blind
<1>2. StopsFollow'
  <2> SUFFICES ASSUME NEW l \in Regular', l \in gone' \/ ~env'.etw
               PROVE  /\ Running(l)' # {} => Ahead(0, l)'
                      /\ \A i \in DOMAIN queue' : Start(queue[i], l)' => Ahead(i, l)'
    BY DEF StopsFollow
  <2>1. /\ Running(l) # {} => Ahead(0, l)
        /\ \A i \in DOMAIN queue : Start(queue[i], l) => Ahead(i, l)
    BY <1>1 DEF StopsFollow
  <2> QED BY <1>1, <2>1
<1>3. BlindStopsFollow'
  <2> SUFFICES ASSUME NEW l \in Regular'
               PROVE  /\ (\E i \in Running(l)' : processes'[i].key.creation_time = 0)
                           => BlindAhead(0, l)'
                      /\ \A i \in DOMAIN queue' :
                           Start(queue[i], l)' /\ Blind(queue[i])' => BlindAhead(i, l)'
    BY DEF BlindStopsFollow
  <2>1. /\ (\E i \in Running(l) : processes[i].key.creation_time = 0) => BlindAhead(0, l)
        /\ \A i \in DOMAIN queue :
             Start(queue[i], l) /\ Blind(queue[i]) => BlindAhead(i, l)
    BY <1>1 DEF BlindStopsFollow
  <2> QED BY <1>1, <2>1
<1> QED BY <1>2, <1>3

LEMMA FollowPoller ==
  ASSUME Base, Sighted, Lossless, StopsFollow, BlindStopsFollow,
         TakeSnapshot \/ QueryEntry \/ Compare \/ Sleep
  PROVE  StopsFollow' /\ BlindStopsFollow'
<1>1. UNCHANGED <<env, started, gone, queue, processes>>
  BY DEF TakeSnapshot, QueryEntry, Compare, Sleep, system
<1>2. CASE Compare
  <2>1. \A l \in Regular : \A i \in {0} \cup DOMAIN queue :
          (Ahead(i, l) => Ahead(i, l)') /\ (BlindAhead(i, l) => BlindAhead(i, l)')
    BY <1>2, AheadCompare DEF Lossless
  <2> QED BY <1>1, <2>1, FollowKept
<1>3. CASE TakeSnapshot \/ QueryEntry \/ Sleep
  <2>1. UNCHANGED <<queue, outbox, etw_hand, etw_buffer, previous>>
    BY <1>3 DEF TakeSnapshot, QueryEntry, Sleep, etw
  <2>2. \A l, i : (Ahead(i, l) => Ahead(i, l)') /\ (BlindAhead(i, l) => BlindAhead(i, l)')
    BY <2>1 DEF Ahead, BlindAhead, LivesOf
  <2> QED BY <1>1, <2>2, FollowKept
<1> QED BY <1>2, <1>3

LEMMA FollowPush ==
  ASSUME Base, Lossless, EtwCloses, OutboxFresh, StopsFollow, BlindStopsFollow,
         CallbackPush \/ PollerPush
  PROVE  StopsFollow' /\ BlindStopsFollow'
<1> DEFINE n == Len(queue)
<1>1. PICK e \in Reported :
        /\ ReportOK(e) /\ Push(e)
        /\ \/ etw_hand # None /\ e = etw_hand /\ etw_hand' = None /\ outbox' = outbox
           \/ /\ outbox # <<>> /\ e = Head(outbox) /\ outbox' = Tail(outbox)
              /\ etw_hand' = etw_hand /\ phase = "emit"
  BY PushedReport DEF Base
<1>2. UNCHANGED <<env, system, etw_buffer, previous, processes>>
  BY PushedReport DEF Base
<1>3. \A i \in DOMAIN queue' :
           \/ i \in DOMAIN queue /\ queue'[i] = queue[i]
           \/ queue'[i] = e
  <2>1. queue \in Seq(Reported)
    BY DEF Base, PipelineOK
  <2> QED BY <1>1, <2>1, Pushed
<1>4. /\ \A l : Running(l)' = Running(l)
      /\ Regular' = Regular
      /\ \A l : l \in LivesOf(previous)' <=> \E x \in previous : x.life = l
  BY <1>2 DEF Running, ActiveRecords, Regular, LivesOf, system
<1>5. ASSUME NEW l \in Regular, NEW i \in {0} \cup DOMAIN queue
      PROVE  (Ahead(i, l) => Ahead(i, l)') /\ (BlindAhead(i, l) => BlindAhead(i, l)')
  BY <1>5, AheadPush, LosslessFacts
\* The report that is pushed is a start whose stop is on its way ...
<1>6. ASSUME NEW l \in Regular, Start(e, l), l \in gone \/ ~env.etw, NEW i
      PROVE  Ahead(i, l)'
  <2>1. CASE etw_hand # None /\ e = etw_hand
    <3>1. env.etw
      BY <2>1 DEF Base, EtwOK
    <3>2. \E j \in DOMAIN etw_buffer : Stop(etw_buffer[j], l)
      BY <1>6, <2>1, <3>1 DEF EtwCloses
    <3> QED BY <1>2, <3>2 DEF Ahead
  <2>2. CASE outbox # <<>> /\ e = Head(outbox)
    <3>1. 1 \in DOMAIN outbox /\ e = outbox[1]
      BY <2>2, Popped DEF Base, PipelineOK
    <3>2. \E x \in previous : x.life = l
      BY <1>6, <3>1 DEF OutboxFresh, Start
    <3> QED BY <1>4, <3>2 DEF Ahead
  <2> QED BY <1>1, <2>1, <2>2
\* ... and without a time if it has none.
<1>7. ASSUME NEW l \in Regular, Start(e, l), Blind(e), NEW i
      PROVE  BlindAhead(i, l)'
  <2>1. CASE etw_hand # None /\ e = etw_hand
    BY <1>7, <2>1, LosslessFacts DEF Base, EtwOK, HandOK, Blind
  <2>2. CASE outbox # <<>> /\ e = Head(outbox)
    <3>1. 1 \in DOMAIN outbox /\ e = outbox[1]
      BY <2>2, Popped DEF Base, PipelineOK
    <3>2. \E x \in previous : x.life = l /\ x.key = e.process
      BY <1>7, <3>1 DEF OutboxFresh, Start
    <3> QED BY <1>2, <1>7, <3>2 DEF BlindAhead, Blind
  <2> QED BY <1>1, <2>1, <2>2
<1>8. StopsFollow'
  <2> SUFFICES ASSUME NEW l \in Regular, l \in gone \/ ~env.etw
               PROVE  /\ Running(l)' # {} => Ahead(0, l)'
                      /\ \A i \in DOMAIN queue' : Start(queue[i], l)' => Ahead(i, l)'
    BY <1>2, <1>4 DEF StopsFollow, system
  <2>1. /\ Running(l) # {} => Ahead(0, l)
        /\ \A i \in DOMAIN queue : Start(queue[i], l) => Ahead(i, l)
    BY DEF StopsFollow
  <2>2. ASSUME NEW i \in DOMAIN queue', Start(queue[i], l)' PROVE Ahead(i, l)'
    <3>1. Start(queue'[i], l)
      BY <2>2 DEF Start
    <3> QED BY <1>3, <1>5, <1>6, <2>1, <3>1
  <2> QED BY <1>4, <1>5, <2>1, <2>2
<1>9. BlindStopsFollow'
  <2> SUFFICES ASSUME NEW l \in Regular
               PROVE  /\ (\E i \in Running(l)' : processes'[i].key.creation_time = 0)
                           => BlindAhead(0, l)'
                      /\ \A i \in DOMAIN queue' :
                           Start(queue[i], l)' /\ Blind(queue[i])' => BlindAhead(i, l)'
    BY <1>4 DEF BlindStopsFollow
  <2>1. /\ (\E i \in Running(l) : processes[i].key.creation_time = 0) => BlindAhead(0, l)
        /\ \A i \in DOMAIN queue :
             Start(queue[i], l) /\ Blind(queue[i]) => BlindAhead(i, l)
    BY DEF BlindStopsFollow
  <2>2. ASSUME NEW i \in DOMAIN queue', Start(queue[i], l)', Blind(queue[i])'
        PROVE  BlindAhead(i, l)'
    <3>1. Start(queue'[i], l) /\ Blind(queue'[i])
      BY <2>2 DEF Start, Blind
    <3> QED BY <1>3, <1>5, <1>7, <2>1, <3>1
  <2> QED BY <1>2, <1>4, <1>5, <2>1, <2>2
<1> QED BY <1>8, <1>9

LEMMA FollowDrain ==
  ASSUME Base, Lossless, StopsFollow, BlindStopsFollow, Drain
  PROVE  StopsFollow' /\ BlindStopsFollow'
<1>1. /\ UNCHANGED <<env, system, etw, poller>>
      /\ queue # <<>> /\ queue' = Tail(queue)
  BY DEF Drain
<1>2. PICK e : e = Head(queue)
  OBVIOUS
<1>3. /\ 1 \in DOMAIN queue /\ e = queue[1]
      /\ \A i \in DOMAIN queue' : /\ i \in Nat \ {0} /\ i + 1 \in DOMAIN queue
                                  /\ queue'[i] = queue[i + 1]
  BY <1>1, <1>2, Popped DEF Base, PipelineOK
<1>4. Regular' = Regular /\ UNCHANGED <<env, gone>>
  BY <1>1 DEF Regular, system
<1>5. ASSUME NEW l \in Regular
      PROVE  /\ Running(l)' # {} => Running(l) # {} \/ Start(e, l)
             /\ Stop(e, l) =>
                  \/ Running(l)' = {}
                  \/ ~Blind(e) /\ \E i \in Running(l) : processes[i].key.creation_time = 0
             /\ (\E i \in Running(l)' : processes'[i].key.creation_time = 0) =>
                  \/ \E i \in Running(l) : processes[i].key.creation_time = 0
                  \/ Start(e, l) /\ Blind(e)
  BY <1>2, <1>5, RunningDrained
<1>6. ASSUME NEW l, NEW i \in Nat
      PROVE  /\ Ahead(i + 1, l) => Ahead(i, l)'
             /\ BlindAhead(i + 1, l) => BlindAhead(i, l)'
             /\ Ahead(0, l) => Ahead(0, l)' \/ Stop(e, l)
             /\ BlindAhead(0, l) => BlindAhead(0, l)' \/ (Stop(e, l) /\ Blind(e))
  BY <1>2, <1>6, AheadDrain
<1>7. \A l : (Ahead(1, l) => Ahead(0, l)') /\ (BlindAhead(1, l) => BlindAhead(0, l)')
  BY <1>6
<1>8. \A l : BlindAhead(0, l)' => Ahead(0, l)'
  BY DEF BlindAhead, Ahead, LivesOf
<1>9. BlindStopsFollow'
  <2> SUFFICES ASSUME NEW l \in Regular
               PROVE  /\ (\E i \in Running(l)' : processes'[i].key.creation_time = 0)
                           => BlindAhead(0, l)'
                      /\ \A i \in DOMAIN queue' :
                           Start(queue[i], l)' /\ Blind(queue[i])' => BlindAhead(i, l)'
    BY <1>4 DEF BlindStopsFollow
  <2>1. /\ (\E i \in Running(l) : processes[i].key.creation_time = 0) => BlindAhead(0, l)
        /\ \A i \in DOMAIN queue :
             Start(queue[i], l) /\ Blind(queue[i]) => BlindAhead(i, l)
    BY DEF BlindStopsFollow
  <2>2. ASSUME NEW i \in DOMAIN queue', Start(queue[i], l)', Blind(queue[i])'
        PROVE  BlindAhead(i, l)'
    <3>1. Start(queue[i + 1], l) /\ Blind(queue[i + 1]) /\ i \in Nat
      BY <1>3, <2>2 DEF Start, Blind
    <3> QED BY <1>3, <1>6, <2>1, <3>1
  <2>3. Start(e, l) /\ Blind(e) => BlindAhead(0, l)'
    BY <1>3, <1>7, <2>1
  <2>4. ASSUME \E i \in Running(l) : processes[i].key.creation_time = 0, Running(l)' # {}
        PROVE  BlindAhead(0, l)'
    BY <1>5, <1>6, <2>1, <2>4
  <2> QED BY <1>5, <2>2, <2>3, <2>4
<1>10. StopsFollow'
  <2> SUFFICES ASSUME NEW l \in Regular, l \in gone \/ ~env.etw
               PROVE  /\ Running(l)' # {} => Ahead(0, l)'
                      /\ \A i \in DOMAIN queue' : Start(queue[i], l)' => Ahead(i, l)'
    BY <1>4 DEF StopsFollow
  <2>1. /\ Running(l) # {} => Ahead(0, l)
        /\ \A i \in DOMAIN queue : Start(queue[i], l) => Ahead(i, l)
    BY DEF StopsFollow
  <2>2. ASSUME NEW i \in DOMAIN queue', Start(queue[i], l)' PROVE Ahead(i, l)'
    <3>1. Start(queue[i + 1], l) /\ i \in Nat
      BY <1>3, <2>2 DEF Start
    <3> QED BY <1>3, <1>6, <2>1, <3>1
  <2>3. ASSUME Running(l)' # {} PROVE Ahead(0, l)'
    <3>1. CASE Start(e, l)
      BY <1>3, <1>7, <2>1, <3>1
    <3>2. CASE Running(l) # {} /\ Stop(e, l)
      <4>1. ~Blind(e) /\ \E i \in Running(l) : processes[i].key.creation_time = 0
        BY <1>5, <2>3, <3>2
      <4>2. BlindAhead(0, l)
        BY <4>1 DEF BlindStopsFollow
      <4>3. BlindAhead(0, l)'
        BY <1>6, <4>1, <4>2
      <4> QED BY <1>8, <4>3
    <3>3. CASE Running(l) # {} /\ ~Stop(e, l)
      BY <1>6, <2>1, <3>3
    <3> QED BY <1>5, <2>3, <3>1, <3>2, <3>3
  <2> QED BY <2>2, <2>3
<1> QED BY <1>9, <1>10

LEMMA StartsFollowCompare ==
  ASSUME Base, Sighted, Lossless, StartsFollow, Compare
  PROVE  StartsFollow'
<1>1. /\ SystemOK /\ PollerOK /\ phase = "query" /\ previous' = current
      /\ UNCHANGED <<env, system, etw, queue, processes>>
      /\ \A x \in Missing(current, previous) : \E i \in DOMAIN outbox' :
           /\ outbox'[i].type = "start" /\ outbox'[i].process = x.key
           /\ outbox'[i].life = x.life
  BY CompareReports DEF Base
<1>2. \A x \in previous \cup current : x.life \in 1..started /\ x.key.pid = env.pids[x.life]
  BY <1>1 DEF PollerOK, EntryOK
<1>3. \A k, m \in 1..started : env.pids[k] = env.pids[m] => k = m
  BY <1>1, UniqueLives DEF Lossless
<1>4. Regular' = Regular /\ UNCHANGED <<env, gone, queue, processes>> /\ DOMAIN outbox = {}
  BY <1>1 DEF Regular, system, PollerOK
<1>5. SUFFICES ASSUME NEW l \in Regular, NEW y \in current, y.life = l, l \notin gone
               PROVE  Shows(l)'
  BY <1>1, <1>4 DEF StartsFollow, LivesOf
<1>6. CASE y \in Missing(current, previous)
  <2>1. \E i \in DOMAIN outbox' : Start(outbox'[i], l)
    BY <1>1, <1>5, <1>6 DEF Start
  <2> QED BY <2>1 DEF Shows, Start
<1>7. CASE y \notin Missing(current, previous)
  <2>1. PICK x \in previous : x.key.pid = y.key.pid
    BY <1>5, <1>7 DEF Missing, FindEntry, ProcessKeysMatch
  <2>2. x.life = l
    BY <1>2, <1>3, <1>5, <2>1
  <2>3. Running(l) # {} \/ \E i \in DOMAIN queue : Start(queue[i], l)
    BY <1>4, <1>5, <2>2 DEF StartsFollow, LivesOf, Shows
  <2>4. Running(l)' = Running(l)
    BY <1>4 DEF Running, ActiveRecords
  <2> QED BY <1>4, <2>3, <2>4 DEF Shows, Start
<1> QED BY <1>6, <1>7

LEMMA StartsFollowStep ==
  ASSUME Base, Sighted, Lossless, StoppedPast, StartsFollow, Next
  PROVE  StartsFollow'
<1>1. /\ env' = env /\ gone \subseteq gone' /\ SystemOK /\ PollerOK
  BY SystemStep DEF Base
\* What was shown, and has not ended, is still.
<1>2. ASSUME previous' = previous,
             \A l \in Regular \ gone : Shows(l) => Shows(l)'
      PROVE  StartsFollow'
  <2> SUFFICES ASSUME NEW l \in Regular', l \in LivesOf(previous) \ gone'
               PROVE  Shows(l)'
    BY <1>2 DEF StartsFollow, LivesOf
  <2>1. l \in Regular /\ l \notin gone
    BY <1>1 DEF LivesOf, PollerOK, EntryOK, Regular
  <2> QED BY <1>2, <2>1 DEF StartsFollow
<1>3. CASE UNCHANGED <<previous, outbox, queue, processes>>
  <2>1. \A l : Shows(l)' <=> Shows(l)
    BY <1>1, <1>3 DEF Shows, Running, ActiveRecords, Start
  <2> QED BY <1>2, <1>3, <2>1
<1>4. CASE CallbackPush \/ PollerPush
  <2>1. PICK e \in Reported :
          /\ Push(e)
          /\ \/ outbox' = outbox
             \/ outbox # <<>> /\ e = Head(outbox) /\ outbox' = Tail(outbox)
    BY <1>4, PushedReport DEF Base
  <2>2. UNCHANGED <<env, previous, processes>>
    BY <1>4, PushedReport DEF Base
  <2>3. /\ \A j \in DOMAIN queue : j \in DOMAIN queue' /\ queue'[j] = queue[j]
        /\ \E j \in DOMAIN queue' : queue'[j] = e
    <3>1. queue \in Seq(Reported)
      BY DEF Base, PipelineOK
    <3> QED BY <2>1, <3>1, Pushed, LosslessFacts
  <2>4. \A j \in DOMAIN outbox : outbox[j] = e \/ \E m \in DOMAIN outbox' : outbox'[m] = outbox[j]
    <3>1. CASE outbox' = outbox
      BY <3>1
    <3>2. CASE outbox # <<>> /\ e = Head(outbox) /\ outbox' = Tail(outbox)
      <4>1. outbox \in Seq(Reported)
        BY DEF Base, PipelineOK
      <4>2. /\ Head(outbox) = outbox[1]
            /\ \A j \in DOMAIN outbox :
                 j # 1 => j - 1 \in DOMAIN Tail(outbox) /\ Tail(outbox)[j - 1] = outbox[j]
        BY <3>2, <4>1, Popped
      <4> TAKE j \in DOMAIN outbox
      <4>3. CASE j = 1
        BY <3>2, <4>2, <4>3
      <4>4. CASE j # 1
        BY <3>2, <4>2, <4>4
      <4> QED BY <4>3, <4>4
    <3> QED BY <2>1, <3>1, <3>2
  <2>5. ASSUME NEW l, Shows(l) PROVE Shows(l)'
    <3>1. \/ Running(l) # {}
          \/ \E j \in DOMAIN queue' : Start(queue'[j], l)
          \/ \E j \in DOMAIN outbox' : Start(outbox'[j], l)
      <4>1. CASE \E i \in DOMAIN outbox : Start(outbox[i], l)
        BY <2>3, <2>4, <4>1
      <4> QED BY <2>3, <2>5, <4>1 DEF Shows
    <3>2. Running(l)' = Running(l)
      BY <2>2 DEF Running, ActiveRecords
    <3> QED BY <3>1, <3>2 DEF Shows, Start
  <2> QED BY <1>2, <2>2, <2>5
<1>5. CASE Drain
  <2>1. /\ UNCHANGED <<env, gone, previous, outbox>> /\ queue # <<>> /\ queue' = Tail(queue)
    BY <1>5 DEF Drain, poller, system
  <2>2. PICK e : e = Head(queue)
    OBVIOUS
  <2>3. /\ 1 \in DOMAIN queue /\ e = queue[1] /\ ReportOK(e)
        /\ \A j \in DOMAIN queue : j # 1 => j - 1 \in DOMAIN queue' /\ queue'[j - 1] = queue[j]
    BY <2>1, <2>2, Popped DEF Base, PipelineOK
  <2>4. ASSUME NEW l \in Regular \ gone, Shows(l) PROVE Shows(l)'
    <3>1. ~Stop(e, l)
      BY <2>3 DEF ReportOK, Stop
    <3>2. Running(l) \subseteq Running(l)' /\ (Start(e, l) => Running(l)' # {})
      BY <1>5, <2>2, <3>1, RunningDrained
    <3>3. CASE Running(l) # {}
      BY <3>2, <3>3 DEF Shows
    <3>4. ASSUME NEW j \in DOMAIN queue, Start(queue[j], l) PROVE Shows(l)'
      <4>1. CASE j = 1
        BY <2>3, <3>2, <3>4, <4>1 DEF Shows
      <4>2. CASE j # 1
        BY <2>3, <3>4, <4>2 DEF Shows
      <4> QED BY <4>1, <4>2
    <3>5. CASE \E j \in DOMAIN outbox : Start(outbox[j], l)
      BY <2>1, <3>5 DEF Shows
    <3> QED BY <2>4, <3>3, <3>4, <3>5 DEF Shows
  <2> QED BY <1>2, <2>1, <2>4
<1>6. System \/ Callback \/ TakeSnapshot \/ QueryEntry \/ Sleep
        => UNCHANGED <<previous, outbox, queue, processes>>
  BY DEF System, CreateProcess, EndProcess, Callback, TakeSnapshot, QueryEntry, Sleep, poller
<1> QED BY <1>3, <1>4, <1>5, <1>6, StartsFollowCompare DEF Next, Poller, Consumer

LEMMA ReportsInvStep ==
  ASSUME Base, Sighted, StopsRight, ReportsInv, [Next]_vars
  PROVE  ReportsInv'
<1>1. CASE Next
  <2> SUFFICES ASSUME Lossless' PROVE ReportsInv'
    BY DEF ReportsInv, Lossless
  <2>1. Lossless
    BY <1>1, LosslessStep
  <2>2. /\ EtwCloses /\ OutboxFresh /\ StopsFollow /\ BlindStopsFollow /\ StartsFollow
        /\ Fresh /\ IdleOnce
    BY <2>1 DEF ReportsInv, Lossless
  <2>3. StoppedPast
    BY <2>1, UniqueStops, LosslessFacts DEF StopsRight, OneSourceOrUnique
  <2>4. EtwCloses' /\ OutboxFresh' /\ Fresh' /\ IdleOnce' /\ StartsFollow'
    BY <1>1, <2>1, <2>2, <2>3, EtwClosesStep, OutboxFreshStep, FreshStep, IdleOnceStep,
       StartsFollowStep, LosslessFacts
  <2>5. StopsFollow' /\ BlindStopsFollow'
    BY <1>1, <2>1, <2>2, FollowSystem, FollowPoller, FollowPush, FollowDrain
       DEF Next, Consumer, Poller
  <2> QED BY <2>4, <2>5 DEF ReportsInv
<1>2. CASE UNCHANGED vars
  <2>1. UNCHANGED <<env, started, gone, stale, etw_buffer, etw_hand, phase, snapshot,
                    current, previous, outbox, queue, processes>>
    BY <1>2 DEF vars, system, poller, etw
  <2>2. \A e, l : Start(e, l)' = Start(e, l) /\ Stop(e, l)' = Stop(e, l) /\ Blind(e)' = Blind(e)
    BY DEF Start, Stop, Blind
  <2>3. UNCHANGED <<PidsUnique, AllIdentified, EtwCloses, OutboxFresh, Fresh>>
    BY <2>1 DEF PidsUnique, AllIdentified, Lives, EtwCloses, OutboxFresh, Fresh, Start, Stop, Alive, LivesOf
  <2>4. UNCHANGED <<Regular, LivesOf(previous), IdleOnce>>
        /\ \A l : Running(l)' = Running(l)
    BY <2>1 DEF Regular, LivesOf, Running, ActiveRecords, IdleOnce, Single, IdleRecords,
                IdleQueued, IdlePosted
  <2>5. \A i, l : /\ Ahead(i, l)' <=> Ahead(i, l)
                  /\ BlindAhead(i, l)' <=> BlindAhead(i, l)
                  /\ Shows(l)' <=> Shows(l)
    BY <2>1, <2>4 DEF Ahead, BlindAhead, Shows, Start, Stop, Blind
  <2>6. StopsFollow /\ BlindStopsFollow => StopsFollow' /\ BlindStopsFollow'
    BY <2>1, <2>5, FollowKept
  <2>7. StartsFollow => StartsFollow'
    BY <2>1, <2>4, <2>5 DEF StartsFollow
  <2> QED BY <2>1, <2>3, <2>4, <2>6, <2>7 DEF ReportsInv
<1> QED BY <1>1, <1>2

\* When all reports have been handled, the table is right.
LEMMA ReportsInvMeans ==
  ASSUME Base, ReportsInv, PidsUnique
  PROVE  Reconciled
<1> SUFFICES ASSUME Settled, AllIdentified PROVE TableAgrees
  BY DEF Reconciled
<1>1. /\ SystemOK /\ PollerOK /\ TableOK /\ Lossless
      /\ StopsFollow /\ StartsFollow /\ Fresh /\ IdleOnce
  BY DEF Base, ReportsInv, Lossless
<1>2. /\ queue = <<>> /\ outbox = <<>> /\ etw_hand = None /\ etw_buffer = <<>>
      /\ Alive = LivesOf(previous)
  BY <1>1 DEF Settled, PollerOK, Fresh
<1>3. /\ \A l : (l \in Alive <=> l \in 1..started /\ l \notin gone)
      /\ \A l \in gone : env.pids[l] # 0
      /\ \A i \in DOMAIN processes : \E l \in 1..started : processes[i].key.pid = env.pids[l]
  BY <1>1 DEF Alive, SystemOK, TableOK, RecordOK
<1>4. \A l, i : i \in Shown(l) <=> /\ i \in DOMAIN processes /\ processes[i].active
                                   /\ processes[i].key.pid = env.pids[l]
                                   /\ \/ processes[i].key.creation_time \in {0, l}
                                      \/ l = 0
  BY DEF Shown, ActiveRecords, ProcessKeysMatch, KeyOf
<1>5. \A l \in Regular : Shown(l) = Running(l) /\ \A i, j \in Running(l) : i = j
  <2> TAKE l \in Regular
  <2>1. /\ \A i : i \in Running(l) <=> /\ i \in DOMAIN processes /\ processes[i].active
                                       /\ processes[i].key.pid = env.pids[l]
        /\ \A i \in Running(l) : processes[i].key.creation_time \in {0, l}
        /\ \A i, j \in Running(l) : i = j
    BY <1>1, RunningSingle
  <2> HIDE DEF Running
  <2>2. \A i : i \in Shown(l) <=> i \in Running(l)
    BY <1>4, <2>1
  <2> QED BY <2>1, <2>2
<1>6. ASSUME NEW l \in Regular PROVE l \in Alive <=> Running(l) # {}
  <2>1. l \in Alive => Running(l) # {}
    BY <1>1, <1>2, <1>3 DEF StartsFollow, Shows
  <2>2. l \in gone /\ Running(l) # {} => l \in Alive
    BY <1>1, <1>2 DEF StopsFollow, Ahead
  <2> QED BY <1>3, <2>1, <2>2 DEF Regular
<1>7. ASSUME NEW l \in 1..started, env.pids[l] = 0
      PROVE  Shown(l) = IdleRecords /\ l \in Alive
  <2>1. \A i \in DOMAIN processes :
          processes[i].key.pid = 0 => processes[i].key.creation_time = 0
    BY <1>1 DEF TableOK, SoundTable, IdleUntimed
  <2>2. \A i \in IdleRecords : processes[i].active
    BY <1>1 DEF IdleOnce, ActiveRecords
  <2>3. \A i : i \in IdleRecords <=> i \in DOMAIN processes /\ processes[i].key.pid = 0
    BY DEF IdleRecords
  <2> HIDE DEF IdleRecords
  <2>4. \A i : i \in Shown(l) <=> i \in IdleRecords
    BY <1>4, <1>7, <2>1, <2>2, <2>3
  <2> QED BY <1>3, <1>7, <2>4
<1>8. ASSUME NEW l \in Alive PROVE Cardinality(Shown(l)) = 1
  <2>1. Shown(l) # {} /\ \A i, j \in Shown(l) : i = j
    <3>1. CASE l \in Regular
      BY <1>5, <1>6, <3>1
    <3>2. CASE l \notin Regular
      <4>1. l \in 1..started /\ env.pids[l] = 0
        BY <1>3, <3>2 DEF Regular
      <4>2. PICK x \in previous : x.life = l
        BY <1>2 DEF LivesOf
      <4>3. x.key.pid = 0
        BY <1>1, <4>1, <4>2 DEF PollerOK, EntryOK
      <4>4. IdleRecords # {} /\ \A i, j \in IdleRecords : i = j
        BY <1>1, <1>2, <4>3 DEF IdleOnce, Single, IdleQueued, IdlePosted
      <4> QED BY <1>7, <4>1, <4>4
    <3> QED BY <3>1, <3>2
  <2>2. PICK i : i \in Shown(l)
    BY <2>1
  <2>3. Shown(l) = {i}
    BY <2>1, <2>2
  <2> QED BY <2>3, FS_Singleton
<1>9. ASSUME NEW i \in ActiveRecords(processes) PROVE \E l \in Alive : i \in Shown(l)
  <2>1. i \in DOMAIN processes /\ processes[i].active
    BY DEF ActiveRecords
  <2>2. PICK l \in 1..started : processes[i].key.pid = env.pids[l]
    BY <1>3, <2>1
  <2>3. CASE env.pids[l] = 0
    <3>1. i \in IdleRecords
      BY <2>1, <2>2, <2>3 DEF IdleRecords
    <3> QED BY <1>7, <2>2, <2>3, <3>1
  <2>4. CASE env.pids[l] # 0
    <3>1. l \in Regular /\ i \in Running(l)
      BY <2>1, <2>2, <2>4 DEF Regular, Running, ActiveRecords
    <3> QED BY <1>5, <1>6, <3>1
  <2> QED BY <2>3, <2>4
<1> QED BY <1>8, <1>9 DEF TableAgrees

\* Once every report of a change has been handled, the running records are the running
\* processes, one for one, though ETW and the poller reported the changes twice, in
\* either order, and partly without a creation time (ProcessTelemetry's Reconciled):
\* whenever no PID is used twice and every record of the session is delivered and says
\* by its PID and creation time which process it is about, whatever the number of
\* processes and whichever of them hide their time.
THEOREM TelemetryReconciled == Spec => [](PidsUnique => Reconciled)
<1>1. Init => ReportsInv
  <2> SUFFICES ASSUME Init PROVE ReportsInv
    OBVIOUS
  <2>1. /\ etw_buffer = <<>> /\ etw_hand = None /\ previous = {} /\ outbox = <<>>
        /\ queue = <<>> /\ processes = <<>> /\ stale = TRUE
    BY DEF Init
  <2>2. EtwCloses /\ OutboxFresh /\ Fresh
    BY <2>1 DEF EtwCloses, OutboxFresh, Fresh
  <2>3. StopsFollow /\ BlindStopsFollow /\ StartsFollow
    BY <2>1 DEF StopsFollow, BlindStopsFollow, StartsFollow, Running, ActiveRecords, LivesOf
  <2>4. IdleOnce
    BY <2>1 DEF IdleOnce, Single, IdleRecords, IdleQueued, IdlePosted
  <2> QED BY <2>2, <2>3, <2>4 DEF ReportsInv
<1>2. Init => StopsRight
  BY StopsRightInit
<1>3. Base /\ Sighted /\ StopsRight /\ [Next]_vars => StopsRight'
  BY StopsRightStep
<1>4. Base /\ Sighted /\ StopsRight /\ ReportsInv /\ [Next]_vars => ReportsInv'
  BY ReportsInvStep
<1>5. Base /\ ReportsInv => (PidsUnique => Reconciled)
  BY ReportsInvMeans
<1> QED BY <1>1, <1>2, <1>3, <1>4, <1>5, TelemetryInvariant, PTL DEF Spec
===============================================================================
