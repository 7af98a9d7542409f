--------------------------- MODULE ProcessTreeProofs ---------------------------
(***************************************************************************)
(* The process tree for any reports and any number of them: the recursion  *)
(* of insert_process_node never enters a record twice, so its depth is     *)
(* bounded by the table, and no node is put under one that does not exist. *)
(***************************************************************************)
EXTENDS ProcessTree, ProcessRecordsProofs

Names == {e.name : e \in Reports}

\* A finished tree keeps its nodes while the table grows; a running build has a
\* node or none for each record, and between builds nothing is being inserted.
Sized ==
  /\ building => Len(items) = Len(processes)
  /\ ~building => frames = <<>>
  /\ \A i \in DOMAIN items : items[i] > 0 => items[i] \in DOMAIN items

TreeInv == TypeOK /\ Sized

\* There are never more calls of insert_process_node on the stack than records in
\* the table (gui.c:1003-1061): the recursion has no other bound.
DepthBounded == Len(frames) <= Len(processes)

-----------------------------------------------------------------------------
\* A call for a record that is not on the stack.
LEMMA PushFrame ==
  ASSUME NEW S, NEW f \in Seq(S), IsInjective(f), NEW x \in S, x \notin Range(f)
  PROVE  /\ Append(f, x) \in Seq(S) /\ IsInjective(Append(f, x))
         /\ Range(Append(f, x)) = Range(f) \union {x}
<1> DEFINE g == Append(f, x)
<1>1. /\ Len(f) \in Nat /\ DOMAIN f = 1..Len(f)
      /\ g \in Seq(S) /\ DOMAIN g = 1..(Len(f) + 1)
      /\ \A i \in 1..Len(f) : g[i] = f[i]
      /\ g[Len(f) + 1] = x
  OBVIOUS
<1> HIDE DEF g
<1>2. IsInjective(g)
  BY <1>1 DEF IsInjective, Range
<1>3. Range(g) = Range(f) \union {x}
  BY <1>1 DEF Range
<1> QED BY <1>1, <1>2, <1>3 DEF g

\* A call that returns.
LEMMA PopFrame ==
  ASSUME NEW S, NEW f \in Seq(S), IsInjective(f), f # <<>>
  PROVE  LET top == f[Len(f)]
             g   == SubSeq(f, 1, Len(f) - 1)
         IN  /\ top \in S /\ top \in Range(f)
             /\ g \in Seq(S) /\ IsInjective(g)
             /\ Len(g) = Len(f) - 1 /\ \A i \in 1..(Len(f) - 1) : g[i] = f[i]
             /\ Range(g) = Range(f) \ {top}
<1> DEFINE top == f[Len(f)]
           g   == SubSeq(f, 1, Len(f) - 1)
<1>1. /\ Len(f) \in Nat \ {0} /\ DOMAIN f = 1..Len(f)
      /\ \A i \in 1..Len(f) : f[i] \in S
  OBVIOUS
<1>2. /\ g \in Seq(S) /\ DOMAIN g = 1..(Len(f) - 1) /\ Len(g) = Len(f) - 1
      /\ \A i \in 1..(Len(f) - 1) : g[i] = f[i]
  BY <1>1
<1> HIDE DEF g
<1>3. IsInjective(g)
  BY <1>1, <1>2 DEF IsInjective
<1>4. Range(g) = Range(f) \ {top}
  <2>1. \A i \in 1..(Len(f) - 1) : f[i] # top
    BY <1>1 DEF IsInjective
  <2> QED BY <1>1, <1>2, <2>1 DEF Range
<1>5. top \in S /\ top \in Range(f)
  BY <1>1 DEF Range
<1> QED BY <1>2, <1>3, <1>4, <1>5 DEF g

\* Whom the code takes for the parent is a record of the table, if any.
LEMMA ParentInTable ==
  ASSUME NEW names, processes \in Seq(Record(names)), NEW child \in DOMAIN processes
  PROVE  FindParent(child) \in {0} \union DOMAIN processes
<1>1. processes[child] \in Record(names)
  BY LenProperties, ElementOfSeq
<1>2. processes[child].parent \in ProcessKey
  BY <1>1 DEF Record
<1>3. FindProcess(processes, processes[child].parent) \in {0} \union DOMAIN processes
  BY <1>2, FindProcessProperties
<1> QED BY <1>3 DEF FindParent

\* A report keeps the table's type and makes no record disappear.
LEMMA RecordedGrows ==
  ASSUME NEW names, NEW table \in Seq(Record(names)), NEW e,
         e.process \in ProcessKey, e.parent \in ProcessKey, e.name \in names,
         e.type \in {"start", "stop"}
  PROVE  /\ Recorded(table, e) \in Seq(Record(names))
         /\ Len(table) <= Len(Recorded(table, e))
<1> DEFINE i == FindProcess(table, e.process)
<1>1. Len(table) \in Nat
  BY LenProperties
<1>2. CASE i = 0
  <2>1. Recorded(table, e) = Append(table, NewRecord(e))
    BY <1>2 DEF Recorded
  <2>2. NewRecord(e) \in Record(names)
    BY NewRecordProperties
  <2> QED BY <1>1, <2>1, <2>2, AppendProperties
<1>3. CASE i # 0
  <2> HIDE DEF i
  <2> QED BY <1>1, <1>3, RecordedKnown DEF i
<1> QED BY <1>2, <1>3

-----------------------------------------------------------------------------
LEMMA TreeInvInit == Init => TreeInv
<1> SUFFICES ASSUME Init PROVE TreeInv
  OBVIOUS
<1>1. /\ processes = <<>> /\ items = <<>> /\ frames = <<>> /\ reports = 0 /\ index = 1
      /\ building = FALSE /\ stale = FALSE
  BY DEF Init
<1>2. Len(processes) = 0 /\ DOMAIN items = {} /\ DOMAIN frames = {}
  BY <1>1
<1>3. IsInjective(frames)
  BY <1>2 DEF IsInjective
<1>4. /\ processes \in Seq(Record({e.name : e \in Reports}))
      /\ frames \in Seq(DOMAIN processes)
      /\ items \in Seq({NoNode, Root} \union DOMAIN processes)
  BY <1>1, EmptySeq
<1>5. reports \in 0..MaxReports /\ index \in 1..Len(processes) + 1
  BY <1>1, <1>2, MaxReportsAssumption
<1>6. TypeOK
  BY <1>1, <1>2, <1>3, <1>4, <1>5 DEF TypeOK
<1>7. Sized
  BY <1>1, <1>2 DEF Sized
<1> QED BY <1>6, <1>7 DEF TreeInv

LEMMA KeptByReport == TreeInv /\ Report => TreeInv'
<1> SUFFICES ASSUME TreeInv, Report PROVE TreeInv'
  OBVIOUS
<1>1. PICK e \in Reports : processes' = Recorded(processes, e)
  BY DEF Report
<1>2. /\ ~building /\ building' = building /\ reports < MaxReports /\ reports' = reports + 1
      /\ stale' = TRUE /\ index' = index /\ frames' = frames /\ items' = items
  BY DEF Report
<1>3. processes \in Seq(Record(Names)) /\ e.name \in Names
  BY DEF TreeInv, TypeOK, Names
<1>4. /\ processes' \in Seq(Record(Names)) /\ Len(processes) <= Len(processes')
      /\ Len(processes) \in Nat /\ Len(processes') \in Nat
      /\ DOMAIN processes = 1..Len(processes) /\ DOMAIN processes' = 1..Len(processes')
  <2>1. e.process \in ProcessKey /\ e.parent \in ProcessKey /\ e.type \in {"start", "stop"}
    BY TreeReportsAssumption
  <2>2. processes' \in Seq(Record(Names)) /\ Len(processes) <= Len(processes')
    BY <1>1, <1>3, <2>1, RecordedGrows
  <2> QED BY <1>3, <2>2, LenProperties
<1>5. frames = <<>> /\ frames' \in Seq(DOMAIN processes') /\ IsInjective(frames')
  BY <1>2 DEF TreeInv, TypeOK, Sized, IsInjective
<1>6. items' \in Seq({NoNode, Root} \union DOMAIN processes')
  <2>1. items \in Seq({NoNode, Root} \union DOMAIN processes)
    BY DEF TreeInv, TypeOK
  <2>2. {NoNode, Root} \union DOMAIN processes \subseteq {NoNode, Root} \union DOMAIN processes'
    BY <1>4
  <2>3. \A i \in 1..Len(items) : items[i] \in {NoNode, Root} \union DOMAIN processes'
    BY <2>1, <2>2, ElementOfSeq
  <2> QED BY <1>2, <2>1, <2>3, LenProperties, IsASeq
<1>7. index' \in 1..Len(processes') + 1
  BY <1>2, <1>4 DEF TreeInv, TypeOK
<1>8. reports' \in 0..MaxReports
  BY <1>2, MaxReportsAssumption DEF TreeInv, TypeOK
<1>9. Sized'
  BY <1>2, <1>5 DEF TreeInv, Sized
<1>10. \A i \in DOMAIN items' : items'[i] > 0 => items'[items'[i]] # NoNode
  BY <1>2 DEF TreeInv, TypeOK
<1> QED BY <1>2, <1>4, <1>5, <1>6, <1>7, <1>8, <1>9, <1>10 DEF TreeInv, TypeOK, Names

LEMMA KeptByBegin == TreeInv /\ Begin => TreeInv'
<1> SUFFICES ASSUME TreeInv, Begin PROVE TreeInv'
  OBVIOUS
<1>1. /\ building' \in BOOLEAN /\ index' = 1 /\ frames' = <<>>
      /\ states' = [i \in DOMAIN processes |-> 0]
      /\ items' = [i \in DOMAIN processes |-> NoNode]
      /\ processes' = processes /\ reports' = reports /\ stale' = stale
  BY DEF Begin
<1>2. Len(processes) \in Nat /\ DOMAIN processes = 1..Len(processes)
  BY LenProperties DEF TreeInv, TypeOK
<1>3. /\ items' \in Seq({NoNode, Root} \union DOMAIN processes)
      /\ Len(items') = Len(processes) /\ DOMAIN items' = DOMAIN processes
      /\ \A i \in DOMAIN processes : items'[i] = NoNode
  <2>1. items' = [i \in 1..Len(processes) |-> NoNode]
    BY <1>1, <1>2
  <2> QED BY <1>2, <2>1, IsASeq
<1>4. /\ frames' \in Seq(DOMAIN processes) /\ IsInjective(frames') /\ Range(frames') = {}
  BY <1>1 DEF IsInjective, Range
<1>5. states' \in [DOMAIN processes -> 0..2] /\ \A i \in DOMAIN processes : states'[i] = 0
  BY <1>1
<1>6. index' \in 1..Len(processes') + 1
  BY <1>1, <1>2
<1>7. ~(NoNode > 0)
  BY DEF NoNode
<1>8. Sized'
  BY <1>1, <1>3, <1>7 DEF Sized
<1> QED BY <1>1, <1>3, <1>4, <1>5, <1>6, <1>7, <1>8 DEF TreeInv, TypeOK

\* A record that has not been visited is put on the stack.
LEMMA KeptByCall ==
  ASSUME TreeInv, building, NEW x \in DOMAIN processes, states[x] = 0,
         frames' = Append(frames, x), states' = [states EXCEPT ![x] = 1],
         index' \in 1..Len(processes) + 1,
         UNCHANGED <<processes, reports, building, stale, items>>
  PROVE  TreeInv'
<1>1. /\ frames \in Seq(DOMAIN processes) /\ IsInjective(frames)
      /\ states \in [DOMAIN processes -> 0..2]
      /\ \A i \in DOMAIN processes : /\ states[i] = 1 <=> i \in Range(frames)
                                     /\ states[i] = 2 <=> items[i] # NoNode
  BY DEF TreeInv, TypeOK
<1>2. x \notin Range(frames)
  BY <1>1
<1>3. /\ frames' \in Seq(DOMAIN processes) /\ IsInjective(frames')
      /\ Range(frames') = Range(frames) \union {x}
  BY <1>1, <1>2, PushFrame
<1>4. /\ states' \in [DOMAIN processes -> 0..2]
      /\ \A i \in DOMAIN processes : states'[i] = IF i = x THEN 1 ELSE states[i]
  BY <1>1
<1>5. \A i \in DOMAIN processes : /\ states'[i] = 1 <=> i \in Range(frames')
                                  /\ states'[i] = 2 <=> items[i] # NoNode
  BY <1>1, <1>3, <1>4
<1>6. Sized'
  BY DEF TreeInv, Sized
<1> QED BY <1>3, <1>4, <1>5, <1>6 DEF TreeInv, TypeOK

LEMMA KeptByVisit == TreeInv /\ Visit => TreeInv'
<1> SUFFICES ASSUME TreeInv, Visit PROVE TreeInv'
  OBVIOUS
<1>1. /\ building /\ frames = <<>> /\ index <= Len(processes) /\ index' = index + 1
      /\ UNCHANGED <<processes, reports, building, stale, items>>
  BY DEF Visit
<1>2. Len(processes) \in Nat /\ DOMAIN processes = 1..Len(processes)
  BY LenProperties DEF TreeInv, TypeOK
<1>3. index \in DOMAIN processes /\ index' \in 1..Len(processes) + 1
  BY <1>1, <1>2 DEF TreeInv, TypeOK
<1>4. CASE states[index] = 2
  <2>1. UNCHANGED <<frames, states>>
    BY <1>4 DEF Visit
  <2>2. Sized'
    BY <1>1, <2>1 DEF TreeInv, Sized
  <2> QED BY <1>1, <1>3, <2>1, <2>2 DEF TreeInv, TypeOK
<1>5. CASE states[index] # 2
  <2>1. states[index] = 0
    <3>1. states[index] \in 0..2 /\ index \notin Range(frames)
      BY <1>1, <1>3 DEF TreeInv, TypeOK, Range
    <3> QED BY <1>1, <1>3, <1>5, <3>1 DEF TreeInv, TypeOK
  <2>2. frames' = Append(frames, index) /\ states' = [states EXCEPT ![index] = 1]
    BY <1>1, <1>5 DEF Visit
  <2> QED BY <1>1, <1>3, <2>1, <2>2, KeptByCall
<1> QED BY <1>4, <1>5

LEMMA KeptByDescend == TreeInv /\ Descend => TreeInv'
<1> SUFFICES ASSUME TreeInv, Descend PROVE TreeInv'
  OBVIOUS
<1> DEFINE parent == FindParent(Top)
<1>1. /\ building /\ frames # <<>> /\ parent # 0 /\ states[parent] = 0
      /\ frames' = Append(frames, parent) /\ states' = [states EXCEPT ![parent] = 1]
      /\ UNCHANGED <<processes, reports, building, stale, index, items>>
  BY DEF Descend
<1>2. /\ frames \in Seq(DOMAIN processes) /\ IsInjective(frames)
      /\ processes \in Seq(Record(Names)) /\ index \in 1..Len(processes) + 1
  BY DEF TreeInv, TypeOK, Names
<1>3. Top \in DOMAIN processes
  BY <1>1, <1>2, PopFrame DEF Top
<1>4. parent \in DOMAIN processes
  BY <1>1, <1>2, <1>3, ParentInTable
<1> HIDE DEF parent
<1> QED BY <1>1, <1>2, <1>4, KeptByCall

LEMMA KeptByInsert == TreeInv /\ Insert => TreeInv'
<1> SUFFICES ASSUME TreeInv, Insert PROVE TreeInv'
  OBVIOUS
<1> DEFINE parent == FindParent(Top)
           above  == IF parent \in {0, Top} \/ states[parent] = 1 THEN Root ELSE parent
<1>1. /\ building /\ frames # <<>> /\ (parent \notin {0, Top} => states[parent] # 0)
      /\ items' = [items EXCEPT ![Top] = above]
      /\ frames' = Pop /\ states' = [states EXCEPT ![Top] = 2]
      /\ UNCHANGED <<processes, reports, building, stale, index>>
  BY DEF Insert
<1>2. /\ processes \in Seq(Record(Names))
      /\ frames \in Seq(DOMAIN processes) /\ IsInjective(frames)
      /\ states \in [DOMAIN processes -> 0..2]
      /\ \A i \in DOMAIN processes : /\ states[i] = 1 <=> i \in Range(frames)
                                     /\ states[i] = 2 <=> items[i] # NoNode
      /\ items \in Seq({NoNode, Root} \union DOMAIN processes)
      /\ \A i \in DOMAIN items : items[i] > 0 => /\ items[i] \in DOMAIN items
                                                 /\ items[items[i]] # NoNode
      /\ Len(items) = Len(processes)
  BY <1>1 DEF TreeInv, TypeOK, Sized, Names
<1>3. /\ DOMAIN items = DOMAIN processes /\ DOMAIN processes = 1..Len(processes)
      /\ Len(processes) \in Nat
  BY <1>2, LenProperties
<1>4. /\ Top \in DOMAIN processes /\ Top \in Range(frames)
      /\ frames' \in Seq(DOMAIN processes) /\ IsInjective(frames')
      /\ Range(frames') = Range(frames) \ {Top}
  BY <1>1, <1>2, PopFrame DEF Top, Pop
<1>5. parent \in {0} \union DOMAIN processes
  BY <1>2, <1>4, ParentInTable
<1> HIDE DEF parent
<1>6. above \in {Root} \union DOMAIN processes /\ above # NoNode
      /\ (above > 0 => above # Top /\ above \in DOMAIN processes /\ states[above] = 2)
  <2>1. CASE parent \in {0, Top} \/ states[parent] = 1
    BY <2>1 DEF Root, NoNode
  <2>2. CASE parent \notin {0, Top} /\ states[parent] # 1
    <3>1. above = parent /\ parent \in DOMAIN processes /\ parent # Top
      BY <1>5, <2>2
    <3>2. states[parent] \in 0..2 /\ states[parent] # 0
      BY <1>1, <1>2, <2>2, <3>1
    <3> QED BY <1>3, <2>2, <3>1, <3>2 DEF NoNode
  <2> QED BY <2>1, <2>2
<1> HIDE DEF above
<1>7. /\ items' \in Seq({NoNode, Root} \union DOMAIN processes)
      /\ Len(items') = Len(processes) /\ DOMAIN items' = DOMAIN processes
      /\ \A i \in DOMAIN processes : items'[i] = IF i = Top THEN above ELSE items[i]
  BY <1>1, <1>2, <1>3, <1>4, <1>6, ExceptSeq
<1>8. /\ states' \in [DOMAIN processes -> 0..2]
      /\ \A i \in DOMAIN processes : states'[i] = IF i = Top THEN 2 ELSE states[i]
  BY <1>1, <1>2, <1>4
<1>9. \A i \in DOMAIN processes : /\ states'[i] = 1 <=> i \in Range(frames')
                                  /\ states'[i] = 2 <=> items'[i] # NoNode
  <2> TAKE i \in DOMAIN processes
  <2>1. CASE i = Top
    BY <1>4, <1>6, <1>7, <1>8, <2>1
  <2>2. CASE i # Top
    <3>1. states'[i] = states[i] /\ items'[i] = items[i]
      BY <1>7, <1>8, <2>2
    <3>2. i \in Range(frames') <=> i \in Range(frames)
      BY <1>4, <2>2
    <3> QED BY <1>2, <3>1, <3>2
  <2> QED BY <2>1, <2>2
<1>10. \A i \in DOMAIN processes : items'[i] > 0 => /\ items'[i] \in DOMAIN processes
                                                    /\ items'[items'[i]] # NoNode
  <2> TAKE i \in DOMAIN processes
  <2> HAVE items'[i] > 0
  <2>1. CASE i = Top
    <3>1. items'[i] = above /\ above \in DOMAIN processes /\ above # Top /\ states[above] = 2
      BY <1>6, <1>7, <2>1
    <3>2. items'[above] = items[above] /\ items[above] # NoNode
      BY <1>2, <1>7, <3>1
    <3> QED BY <3>1, <3>2
  <2>2. CASE i # Top
    <3>1. items'[i] = items[i] /\ items[i] \in DOMAIN processes /\ items[items[i]] # NoNode
      BY <1>2, <1>3, <1>7, <2>2
    <3> QED BY <1>6, <1>7, <3>1
  <2> QED BY <2>1, <2>2
<1>11. Sized'
  BY <1>1, <1>7, <1>10 DEF Sized
<1> QED BY <1>1, <1>4, <1>7, <1>8, <1>9, <1>10, <1>11 DEF TreeInv, TypeOK

LEMMA KeptByEnd == TreeInv /\ End => TreeInv'
<1> SUFFICES ASSUME TreeInv, End PROVE TreeInv'
  OBVIOUS
<1>1. /\ frames = <<>> /\ building' = FALSE /\ stale' = FALSE
      /\ UNCHANGED <<processes, reports, index, frames, states, items>>
  BY DEF End
<1>2. Sized'
  BY <1>1 DEF TreeInv, Sized
<1> QED BY <1>1, <1>2 DEF TreeInv, TypeOK

\* TreeInv is inductive.
LEMMA TreeInvStep == TreeInv /\ [Next]_vars => TreeInv'
<1> SUFFICES ASSUME TreeInv, [Next]_vars PROVE TreeInv'
  OBVIOUS
<1>1. CASE Report
  BY <1>1, KeptByReport
<1>2. CASE Begin
  BY <1>2, KeptByBegin
<1>3. CASE Visit
  BY <1>3, KeptByVisit
<1>4. CASE Descend
  BY <1>4, KeptByDescend
<1>5. CASE Insert
  BY <1>5, KeptByInsert
<1>6. CASE End
  BY <1>6, KeptByEnd
<1>7. CASE UNCHANGED vars
  BY <1>7 DEF vars, TreeInv, TypeOK, Sized
<1> QED BY <1>1, <1>2, <1>3, <1>4, <1>5, <1>6, <1>7 DEF Next, Build

\* As many calls on the stack as records at most: each has its own.
LEMMA DepthFromInv == TreeInv => DepthBounded
<1> SUFFICES ASSUME TreeInv PROVE Len(frames) <= Len(processes)
  BY DEF DepthBounded
<1>1. /\ Len(processes) \in Nat /\ DOMAIN processes = 1..Len(processes)
      /\ Len(frames) \in Nat /\ DOMAIN frames = 1..Len(frames)
      /\ frames \in [1..Len(frames) -> 1..Len(processes)] /\ IsInjective(frames)
  BY LenProperties, ElementOfSeq DEF TreeInv, TypeOK
<1>2. /\ IsFiniteSet(1..Len(frames)) /\ Cardinality(1..Len(frames)) = Len(frames)
      /\ IsFiniteSet(1..Len(processes)) /\ Cardinality(1..Len(processes)) = Len(processes)
  <2>1. \A n \in Nat : IsFiniteSet(1..n) /\ Cardinality(1..n) = n
    BY FS_Interval
  <2> QED BY <1>1, <2>1
<1>3. ~(Len(processes) < Len(frames))
  <2> SUFFICES ASSUME Len(processes) < Len(frames) PROVE FALSE
    OBVIOUS
  <2>1. PICK x, y \in 1..Len(frames) : x # y /\ frames[x] = frames[y]
    BY <1>1, <1>2, FS_PigeonHole
  <2> QED BY <1>1, <2>1 DEF IsInjective
<1> QED BY <1>1, <1>3

-----------------------------------------------------------------------------
(* The finished tree *)

\* The node of a record that has a parent was put under the root.
Cut(i) == states[i] = 2 /\ items[i] = Root /\ FindParent(i) # 0

\* The node is under that of the record's parent, which was inserted before.
Placed(i) == items[i] = FindParent(i) /\ (FindParent(i) # 0 => states[FindParent(i)] = 2)

\* A cycle that has been entered, and cut at i: the calls that remain on the
\* stack have parents that are inserted when they return.
Ring(S, i) ==
  /\ i \in S
  /\ \A j \in S : FindParent(j) \in S /\ states[j] # 0 /\ (Cut(j) => j = i)
  /\ frames # <<>> /\ Top \in S => states[FindParent(Top)] = 2

VisitedInOrder == \A i \in DOMAIN processes : i < index => states[i] # 0
StackClimbs == \A k \in 1 .. Len(frames) - 1 : FindParent(frames[k]) = frames[k + 1]
AllPlaced == \A i \in DOMAIN processes : states[i] = 2 => Placed(i) \/ Cut(i)
CyclesAreCut ==
  \A S \in SUBSET DOMAIN processes :
    S # {} /\ (\A j \in S : states[j] = 2 /\ FindParent(j) \in S) => \E j \in S : Cut(j)
CutOnce ==
  \A i \in DOMAIN processes :
    Cut(i) => i \in Ancestors(i) /\ \E S \in SUBSET DOMAIN processes : Ring(S, i)

Shape == VisitedInOrder /\ StackClimbs /\ AllPlaced /\ CyclesAreCut /\ CutOnce

\* What holds while the tree is built, and of a tree that is finished.
FaithInv ==
  /\ building => stale
  /\ building \/ ~stale => Shape
  /\ ~building /\ ~stale => \A i \in DOMAIN processes : states[i] = 2

\* The table and the stack, as the steps use them.
LEMMA TreeFacts ==
  ASSUME TreeInv
  PROVE  /\ Len(processes) \in Nat /\ DOMAIN processes = 1 .. Len(processes)
         /\ Len(frames) \in Nat /\ DOMAIN frames = 1 .. Len(frames)
         /\ \A k \in 1 .. Len(frames) : frames[k] \in DOMAIN processes
         /\ \A i \in DOMAIN processes : FindParent(i) \in {0} \union DOMAIN processes
         /\ 0 \notin DOMAIN processes
         /\ frames # <<>> => /\ Len(frames) >= 1 /\ Top \in DOMAIN processes
                             /\ Top = frames[Len(frames)]
<1>1. /\ processes \in Seq(Record(Names)) /\ frames \in Seq(DOMAIN processes)
  BY DEF TreeInv, TypeOK, Names
<1>2. /\ Len(processes) \in Nat /\ DOMAIN processes = 1 .. Len(processes)
      /\ Len(frames) \in Nat /\ DOMAIN frames = 1 .. Len(frames)
      /\ \A k \in 1 .. Len(frames) : frames[k] \in DOMAIN processes
  BY <1>1, LenProperties, ElementOfSeq
<1>3. \A i \in DOMAIN processes : FindParent(i) \in {0} \union DOMAIN processes
  BY <1>1, ParentInTable
<1>4. frames # <<>> => Len(frames) >= 1
  BY <1>1, EmptySeq, <1>2
<1> QED BY <1>2, <1>3, <1>4 DEF Top

\* The part of the stack from a call to the last is a cycle when the last record's
\* parent is that of the first.
LEMMA StackCycle ==
  ASSUME TreeInv, StackClimbs, frames # <<>>,
         NEW k \in 1 .. Len(frames), FindParent(Top) = frames[k],
         NEW S, S = {frames[m] : m \in k .. Len(frames)}
  PROVE  /\ S \subseteq DOMAIN processes /\ Top \in S /\ S \subseteq Range(frames)
         /\ \A j \in S : FindParent(j) \in S
         /\ Top \in Ancestors(Top)
<1> DEFINE n == Len(frames)
<1>1. /\ n \in Nat /\ n >= 1 /\ DOMAIN frames = 1 .. n /\ k .. n \subseteq 1 .. n /\ n \in k .. n
      /\ \A m \in 1 .. n : frames[m] \in DOMAIN processes
      /\ Top = frames[n] /\ Top \in DOMAIN processes /\ 0 \notin DOMAIN processes
  BY TreeFacts
<1>2. S \subseteq DOMAIN processes /\ Top \in S /\ S \subseteq Range(frames)
  BY <1>1 DEF Range
<1>3. ASSUME NEW j \in S PROVE FindParent(j) \in S
  <2>1. PICK m \in k .. n : j = frames[m]
    OBVIOUS
  <2>2. CASE m = n
    BY <1>1, <2>1, <2>2
  <2>3. CASE m # n
    <3>1. m \in 1 .. n - 1 /\ m + 1 \in k .. n
      <4> HIDE DEF n
      <4> QED BY <1>1, <2>1, <2>3
    <3>2. FindParent(frames[m]) = frames[m + 1]
      BY <3>1 DEF StackClimbs
    <3> QED BY <2>1, <3>1, <3>2
  <2> QED BY <2>2, <2>3
<1>4. ASSUME NEW T \in SUBSET DOMAIN processes,
             \A j \in T \union {Top} : FindParent(j) \in T \union {0}
      PROVE  Top \in T
  <2> DEFINE Out == {m \in k .. n : frames[m] \notin T}
  <2> SUFFICES ASSUME Top \notin T PROVE FALSE
    OBVIOUS
  <2>1. Out # {} /\ Out \subseteq Nat
    BY <1>1
  <2>2. PICK m \in Out : \A l \in Out : m <= l
    <3> HIDE DEF Out
    <3> QED BY <2>1, LeastNumber
  <2>3. frames[k] \in T
    BY <1>1, <1>4
  <2>4. m - 1 \in k .. n /\ m - 1 \in 1 .. n - 1 /\ m \in Nat /\ frames[m] \notin T
    BY <1>1, <2>2, <2>3
  <2>5. m - 1 \notin Out
    <3> HIDE DEF Out
    <3> QED BY <2>2, <2>4
  <2>6. frames[m - 1] \in T
    BY <2>4, <2>5
  <2>7. FindParent(frames[m - 1]) = frames[m]
    BY <2>4 DEF StackClimbs
  <2>8. frames[m] \in DOMAIN processes
    BY <1>1, <2>2
  <2> QED BY <1>1, <1>4, <2>4, <2>6, <2>7, <2>8
<1>5. Top \in Ancestors(Top)
  BY <1>1, <1>4 DEF Ancestors
<1> QED BY <1>2, <1>3, <1>5

LEMMA FaithInit == Init => FaithInv
<1> SUFFICES ASSUME Init PROVE FaithInv
  OBVIOUS
<1>1. /\ DOMAIN processes = {} /\ Len(frames) = 0 /\ building = FALSE /\ stale = FALSE
  BY DEF Init
<1>2. Shape
  BY <1>1 DEF Shape, VisitedInOrder, StackClimbs, AllPlaced, CyclesAreCut, CutOnce
<1> QED BY <1>1, <1>2 DEF FaithInv

\* While the table stays, parents, ancestors and the meaning of a cut do.
LEMMA TableStays ==
  ASSUME processes' = processes
  PROVE  /\ \A i : FindParent(i)' = FindParent(i)
         /\ \A i : Ancestors(i)' = Ancestors(i)
<1>1. \A i : FindParent(i)' = FindParent(i)
  BY DEF FindParent
<1> QED BY <1>1 DEF Ancestors

LEMMA FaithByBegin ==
  ASSUME TreeInv, FaithInv, Begin PROVE FaithInv'
<1>1. /\ stale /\ stale' = stale /\ index' = 1 /\ frames' = <<>> /\ processes' = processes
      /\ states' = [i \in DOMAIN processes |-> 0]
  BY DEF Begin
<1>2. \A i \in DOMAIN processes : states'[i] = 0 /\ i >= 1
  BY <1>1, TreeFacts
<1>3. Len(frames') = 0
  BY <1>1
<1>4. /\ VisitedInOrder' /\ StackClimbs' /\ AllPlaced' /\ CyclesAreCut' /\ CutOnce'
  <2>1. VisitedInOrder'
    BY <1>1, <1>2, TreeFacts DEF VisitedInOrder
  <2>2. StackClimbs'
    BY <1>3 DEF StackClimbs
  <2>3. AllPlaced'
    BY <1>1, <1>2 DEF AllPlaced
  <2>4. CyclesAreCut'
    BY <1>1, <1>2 DEF CyclesAreCut
  <2>5. CutOnce'
    BY <1>1, <1>2 DEF CutOnce, Cut
  <2> QED BY <2>1, <2>2, <2>3, <2>4, <2>5
<1> QED BY <1>1, <1>4 DEF FaithInv, Shape

\* A call for a record that has no node: it is on no cycle that was entered.
LEMMA FaithByCall ==
  ASSUME TreeInv, FaithInv, building, NEW x \in DOMAIN processes, states[x] = 0,
         frames' = Append(frames, x), states' = [states EXCEPT ![x] = 1],
         frames # <<>> => FindParent(Top) = x,
         \A i \in DOMAIN processes : i < index' => i < index \/ i = x,
         UNCHANGED <<processes, building, stale, items>>
  PROVE  FaithInv'
<1>1. /\ Shape /\ stale
      /\ states \in [DOMAIN processes -> 0 .. 2]
      /\ frames \in Seq(DOMAIN processes)
  BY DEF FaithInv, TreeInv, TypeOK
<1>2. \A i \in DOMAIN processes : states'[i] = IF i = x THEN 1 ELSE states[i]
  BY <1>1
<1>3. /\ \A i : FindParent(i)' = FindParent(i) /\ Ancestors(i)' = Ancestors(i)
      /\ \A i \in DOMAIN processes : Cut(i)' <=> Cut(i)
  <2>1. \A i : FindParent(i)' = FindParent(i) /\ Ancestors(i)' = Ancestors(i)
    BY TableStays
  <2>2. \A i \in DOMAIN processes : Cut(i)' <=> Cut(i)
    BY <1>2, <2>1 DEF Cut
  <2> QED BY <2>1, <2>2
<1>4. /\ Len(frames) \in Nat /\ Len(frames') = Len(frames) + 1 /\ frames' # <<>>
      /\ \A k \in 1 .. Len(frames) : frames'[k] = frames[k]
      /\ frames'[Len(frames) + 1] = x /\ Top' = x
  BY <1>1, AppendProperties, LenProperties DEF Top
<1>5. VisitedInOrder'
  BY <1>1, <1>2 DEF Shape, VisitedInOrder
<1>6. StackClimbs'
  <2> SUFFICES ASSUME NEW k \in 1 .. Len(frames) PROVE FindParent(frames'[k]) = frames'[k + 1]
    BY <1>3, <1>4 DEF StackClimbs
  <2>1. CASE k = Len(frames)
    <3>1. frames # <<>>
      BY <1>4, EmptySeq
    <3>2. FindParent(frames[k]) = x
      BY <2>1, <3>1 DEF Top
    <3> QED BY <1>4, <2>1, <3>2
  <2>2. CASE k # Len(frames)
    <3>1. k \in 1 .. Len(frames) - 1 /\ k + 1 \in 1 .. Len(frames)
      BY <1>4, <2>2
    <3>2. FindParent(frames[k]) = frames[k + 1]
      BY <1>1, <3>1 DEF Shape, StackClimbs
    <3> QED BY <1>4, <3>1, <3>2
  <2> QED BY <2>1, <2>2
<1>7. AllPlaced'
  <2> SUFFICES ASSUME NEW i \in DOMAIN processes, states'[i] = 2 PROVE Placed(i)' \/ Cut(i)'
    BY DEF AllPlaced
  <2>1. states[i] = 2
    BY <1>2
  <2>2. Placed(i) \/ Cut(i)
    BY <1>1, <2>1 DEF Shape, AllPlaced
  <2>3. Placed(i) => Placed(i)'
    <3>1. FindParent(i) \in {0} \union DOMAIN processes
      BY TreeFacts
    <3> QED BY <1>2, <1>3, <3>1 DEF Placed
  <2> QED BY <1>3, <2>2, <2>3
<1>8. CyclesAreCut'
  <2> SUFFICES ASSUME NEW S \in SUBSET DOMAIN processes, S # {},
                      \A j \in S : states'[j] = 2 /\ FindParent(j)' \in S
               PROVE  \E j \in S : Cut(j)'
    BY DEF CyclesAreCut
  <2>1. \A j \in S : states[j] = 2 /\ FindParent(j) \in S
    BY <1>2, <1>3
  <2>2. PICK j \in S : Cut(j)
    BY <1>1, <2>1 DEF Shape, CyclesAreCut
  <2> QED BY <1>3, <2>2
<1>9. CutOnce'
  <2> SUFFICES ASSUME NEW i \in DOMAIN processes, Cut(i)'
               PROVE  /\ i \in Ancestors(i)'
                      /\ \E S \in SUBSET DOMAIN processes : Ring(S, i)'
    BY DEF CutOnce
  <2>1. i \in Ancestors(i) /\ \E S \in SUBSET DOMAIN processes : Ring(S, i)
    BY <1>1, <1>3 DEF Shape, CutOnce
  <2>2. PICK S \in SUBSET DOMAIN processes : Ring(S, i)
    BY <2>1
  <2>3. /\ i \in S /\ x \notin S
        /\ \A j \in S : FindParent(j) \in S /\ states[j] # 0 /\ (Cut(j) => j = i)
    BY <2>2 DEF Ring
  <2>4. \A j \in S : FindParent(j)' \in S /\ states'[j] # 0 /\ (Cut(j)' => j = i)
    BY <1>2, <1>3, <2>3
  <2>5. Ring(S, i)'
    BY <1>4, <2>3, <2>4 DEF Ring
  <2> QED BY <1>3, <2>1, <2>5
<1> QED BY <1>1, <1>5, <1>6, <1>7, <1>8, <1>9 DEF FaithInv, Shape

LEMMA FaithByVisit ==
  ASSUME TreeInv, FaithInv, Visit PROVE FaithInv'
<1>1. /\ building /\ frames = <<>> /\ index <= Len(processes) /\ index' = index + 1
      /\ UNCHANGED <<processes, reports, building, stale, items>>
  BY DEF Visit
<1>2. /\ Len(processes) \in Nat /\ DOMAIN processes = 1 .. Len(processes)
      /\ index \in DOMAIN processes /\ states \in [DOMAIN processes -> 0 .. 2]
      /\ \A i \in DOMAIN processes : i < index' => i < index \/ i = index
  BY <1>1, TreeFacts DEF TreeInv, TypeOK
<1>3. CASE states[index] = 2
  <2>1. UNCHANGED <<frames, states>>
    BY <1>3 DEF Visit
  <2>2. Shape /\ stale
    BY <1>1 DEF FaithInv
  <2>3. VisitedInOrder'
    BY <1>1, <1>2, <1>3, <2>1, <2>2 DEF Shape, VisitedInOrder
  <2>4. /\ \A i : FindParent(i)' = FindParent(i) /\ Ancestors(i)' = Ancestors(i)
        /\ \A i : Cut(i)' <=> Cut(i)
        /\ \A i : Placed(i)' <=> Placed(i)
        /\ \A S, i : Ring(S, i)' <=> Ring(S, i)
    <3>1. \A i : FindParent(i)' = FindParent(i) /\ Ancestors(i)' = Ancestors(i)
      BY <1>1, TableStays
    <3>2. \A i : Cut(i)' <=> Cut(i)
      BY <1>1, <2>1, <3>1 DEF Cut
    <3>3. \A i : Placed(i)' <=> Placed(i)
      BY <1>1, <2>1, <3>1 DEF Placed
    <3>4. \A S, i : Ring(S, i)' <=> Ring(S, i)
      BY <1>1, <2>1, <3>1, <3>2 DEF Ring, Top
    <3> QED BY <3>1, <3>2, <3>3, <3>4
  <2>5. StackClimbs'
    BY <2>1, <2>2, <2>4 DEF Shape, StackClimbs
  <2>6. AllPlaced' /\ CyclesAreCut' /\ CutOnce'
    BY <1>1, <2>1, <2>2, <2>4 DEF Shape, AllPlaced, CyclesAreCut, CutOnce
  <2> QED BY <1>1, <2>2, <2>3, <2>5, <2>6 DEF FaithInv, Shape
<1>4. CASE states[index] # 2
  <2>1. states[index] = 0
    <3>1. states[index] \in 0 .. 2 /\ index \notin Range(frames)
      BY <1>1, <1>2 DEF Range
    <3> QED BY <1>1, <1>2, <1>4, <3>1 DEF TreeInv, TypeOK
  <2>2. frames' = Append(frames, index) /\ states' = [states EXCEPT ![index] = 1]
    BY <1>1, <1>4 DEF Visit
  <2> QED BY <1>1, <1>2, <2>1, <2>2, FaithByCall
<1> QED BY <1>3, <1>4

LEMMA FaithByDescend ==
  ASSUME TreeInv, FaithInv, Descend PROVE FaithInv'
<1> DEFINE parent == FindParent(Top)
<1>1. /\ building /\ frames # <<>> /\ parent # 0 /\ states[parent] = 0
      /\ frames' = Append(frames, parent) /\ states' = [states EXCEPT ![parent] = 1]
      /\ UNCHANGED <<processes, reports, building, stale, index, items>>
  BY DEF Descend
<1>2. parent \in DOMAIN processes
  BY <1>1, TreeFacts
<1>3. \A i \in DOMAIN processes : i < index' => i < index
  BY <1>1
<1>4. FindParent(Top) = parent
  OBVIOUS
<1> HIDE DEF parent
<1> QED BY <1>1, <1>2, <1>3, <1>4, FaithByCall

LEMMA FaithByReport ==
  ASSUME FaithInv, Report PROVE FaithInv'
BY DEF Report, FaithInv

LEMMA FaithByEnd ==
  ASSUME TreeInv, FaithInv, End PROVE FaithInv'
<1>1. /\ building /\ frames = <<>> /\ index > Len(processes) /\ building' = FALSE /\ stale' = FALSE
      /\ UNCHANGED <<processes, reports, index, frames, states, items>>
  BY DEF End
<1>2. Shape
  BY <1>1 DEF FaithInv
<1>3. /\ \A i : FindParent(i)' = FindParent(i) /\ Ancestors(i)' = Ancestors(i)
      /\ \A i : Cut(i)' <=> Cut(i)
      /\ \A i : Placed(i)' <=> Placed(i)
      /\ \A S, i : Ring(S, i)' <=> Ring(S, i)
  <2>1. \A i : FindParent(i)' = FindParent(i) /\ Ancestors(i)' = Ancestors(i)
    BY <1>1, TableStays
  <2>2. \A i : Cut(i)' <=> Cut(i)
    BY <1>1, <2>1 DEF Cut
  <2>3. \A i : Placed(i)' <=> Placed(i)
    BY <1>1, <2>1 DEF Placed
  <2>4. \A S, i : Ring(S, i)' <=> Ring(S, i)
    BY <1>1, <2>1, <2>2 DEF Ring, Top
  <2> QED BY <2>1, <2>2, <2>3, <2>4
<1>4. Shape'
  BY <1>1, <1>2, <1>3 DEF Shape, VisitedInOrder, StackClimbs, AllPlaced, CyclesAreCut, CutOnce
<1>5. \A i \in DOMAIN processes : states'[i] = 2
  <2> TAKE i \in DOMAIN processes
  <2>1. states[i] \in 0 .. 2 /\ i \notin Range(frames)
    BY <1>1 DEF TreeInv, TypeOK, Range
  <2>2. states[i] # 1
    BY <1>1, <2>1 DEF TreeInv, TypeOK
  <2>3. states[i] # 0
    <3>1. i < index
      BY <1>1, TreeFacts DEF TreeInv, TypeOK
    <3> QED BY <1>2, <3>1 DEF Shape, VisitedInOrder
  <2> QED BY <1>1, <2>1, <2>2, <2>3
<1> QED BY <1>1, <1>4, <1>5 DEF FaithInv

\* A call that returns: the node goes under the parent's, or, if that is being
\* inserted, under the root, which cuts the cycle that the stack has closed.
LEMMA FaithByInsert ==
  ASSUME TreeInv, FaithInv, Insert PROVE FaithInv'
<1>0. PICK top, parent, above :
        /\ top = Top /\ parent = FindParent(Top)
        /\ above = IF parent \in {0, top} \/ states[parent] = 1 THEN Root ELSE parent
  OBVIOUS
<1>1. /\ building /\ frames # <<>> /\ (parent \notin {0, top} => states[parent] # 0)
      /\ items' = [items EXCEPT ![top] = above]
      /\ frames' = Pop /\ states' = [states EXCEPT ![top] = 2]
      /\ UNCHANGED <<processes, reports, building, stale, index>>
  BY <1>0 DEF Insert
<1>2. /\ Shape /\ stale
      /\ frames \in Seq(DOMAIN processes) /\ IsInjective(frames)
      /\ states \in [DOMAIN processes -> 0 .. 2]
      /\ \A i \in DOMAIN processes : states[i] = 1 <=> i \in Range(frames)
      /\ items \in Seq({NoNode, Root} \union DOMAIN processes)
      /\ DOMAIN items = DOMAIN processes
  <2>1. Len(items) = Len(processes) /\ items \in Seq({NoNode, Root} \union DOMAIN processes)
    BY <1>1 DEF TreeInv, TypeOK, Sized
  <2>2. DOMAIN items = DOMAIN processes
    BY <2>1, LenProperties, TreeFacts
  <2> QED BY <1>1, <2>1, <2>2 DEF FaithInv, TreeInv, TypeOK
<1>3. /\ top \in DOMAIN processes /\ states[top] = 1 /\ 0 \notin DOMAIN processes
      /\ parent \in {0} \union DOMAIN processes
  <2>1. top \in Range(frames)
    BY <1>0, <1>1, <1>2, PopFrame DEF Top
  <2> QED BY <1>0, <1>1, <1>2, <2>1, TreeFacts
<1>4. /\ Len(frames) \in Nat /\ Len(frames) >= 1 /\ Len(frames') = Len(frames) - 1
      /\ \A k \in 1 .. Len(frames) - 1 : frames'[k] = frames[k]
      /\ top = frames[Len(frames)]
  <2>1. Len(frames) \in Nat /\ Len(frames) >= 1 /\ top = frames[Len(frames)]
    BY <1>0, <1>1, TreeFacts
  <2>2. /\ Len(Pop) = Len(frames) - 1
        /\ \A k \in 1 .. Len(frames) - 1 : Pop[k] = frames[k]
    BY <1>1, <1>2, PopFrame DEF Pop
  <2> QED BY <1>1, <2>1, <2>2
<1>5. frames' # <<>> => /\ Len(frames) - 1 \in 1 .. Len(frames) - 1 /\ FindParent(Top') = top
                       /\ Top' = frames[Len(frames) - 1]
  <2> SUFFICES ASSUME frames' # <<>>
               PROVE  /\ Len(frames) - 1 \in 1 .. Len(frames) - 1 /\ FindParent(Top') = top
                      /\ Top' = frames[Len(frames) - 1]
    OBVIOUS
  <2>1. frames' \in Seq(DOMAIN processes)
    BY <1>1, <1>2, PopFrame DEF Pop
  <2>2. Len(frames) - 1 \in 1 .. Len(frames) - 1
    BY <1>4, <2>1, EmptySeq
  <2>3. Top' = frames[Len(frames) - 1]
    BY <1>4, <2>2 DEF Top
  <2>4. FindParent(frames[Len(frames) - 1]) = frames[Len(frames) - 1 + 1]
    BY <1>2, <2>2 DEF Shape, StackClimbs
  <2>5. Len(frames) - 1 + 1 = Len(frames)
    BY <1>4
  <2> QED BY <1>4, <2>2, <2>3, <2>4, <2>5
<1>6. \A i \in DOMAIN processes : /\ states'[i] = IF i = top THEN 2 ELSE states[i]
                                  /\ items'[i] = IF i = top THEN above ELSE items[i]
  BY <1>1, <1>2, <1>3
<1>7. /\ \A i : FindParent(i)' = FindParent(i) /\ Ancestors(i)' = Ancestors(i)
      /\ \A i \in DOMAIN processes : i # top => (Cut(i)' <=> Cut(i))
      /\ ~Cut(top) /\ FindParent(top) = parent
      /\ Cut(top)' <=> parent # 0 /\ (parent = top \/ states[parent] = 1)
  <2>1. \A i : FindParent(i)' = FindParent(i) /\ Ancestors(i)' = Ancestors(i)
    BY <1>1, TableStays
  <2>2. \A i \in DOMAIN processes : i # top => (Cut(i)' <=> Cut(i))
    BY <1>6, <2>1 DEF Cut
  <2>3. ~Cut(top) /\ FindParent(top) = parent
    BY <1>0, <1>3 DEF Cut
  <2>4. above = Root <=> parent = 0 \/ parent = top \/ states[parent] = 1
    BY <1>0, <1>3 DEF Root
  <2>5. Cut(top)' <=> parent # 0 /\ (parent = top \/ states[parent] = 1)
    <3>1. Cut(top)' <=> states'[top] = 2 /\ items'[top] = Root /\ FindParent(top)' # 0
      BY DEF Cut, Root
    <3>2. states'[top] = 2 /\ items'[top] = above /\ FindParent(top)' = parent
      BY <1>3, <1>6, <2>1, <2>3
    <3> QED BY <2>4, <3>1, <3>2
  <2> QED BY <2>1, <2>2, <2>3, <2>5
<1>8. VisitedInOrder'
  BY <1>1, <1>2, <1>6 DEF Shape, VisitedInOrder
<1>9. StackClimbs'
  <2> SUFFICES ASSUME NEW k \in 1 .. Len(frames) - 1 - 1
               PROVE  FindParent(frames'[k]) = frames'[k + 1]
    BY <1>4, <1>7 DEF StackClimbs
  <2>1. k \in 1 .. Len(frames) - 1 /\ k + 1 \in 1 .. Len(frames) - 1
    BY <1>4
  <2> QED BY <1>2, <1>4, <2>1 DEF Shape, StackClimbs
<1>10. AllPlaced'
  <2> SUFFICES ASSUME NEW i \in DOMAIN processes, states'[i] = 2, ~Cut(i)' PROVE Placed(i)'
    BY <1>1 DEF AllPlaced
  <2>1. CASE i = top
    <3>1. parent = 0 \/ (parent # top /\ states[parent] # 1)
      BY <1>7, <2>1
    <3>2. above = parent
      BY <1>0, <1>3, <3>1 DEF Root
    <3>3. parent # 0 => parent \in DOMAIN processes /\ states[parent] = 2
      BY <1>1, <1>2, <1>3, <3>1
    <3>4. items'[i] = parent /\ FindParent(i)' = parent /\ (parent # 0 => states'[parent] = 2)
      BY <1>3, <1>6, <1>7, <2>1, <3>2, <3>3
    <3> QED BY <3>4 DEF Placed
  <2>2. CASE i # top
    <3>1. states[i] = 2 /\ ~Cut(i)
      BY <1>6, <1>7, <2>2
    <3>2. Placed(i)
      BY <1>2, <3>1 DEF Shape, AllPlaced
    <3>3. FindParent(i) \in {0} \union DOMAIN processes
      BY TreeFacts
    <3> QED BY <1>6, <1>7, <2>2, <3>2, <3>3 DEF Placed
  <2> QED BY <2>1, <2>2
<1>11. CyclesAreCut'
  <2> SUFFICES ASSUME NEW S \in SUBSET DOMAIN processes, S # {},
                      \A j \in S : states'[j] = 2 /\ FindParent(j) \in S,
                      \A j \in S : ~Cut(j)'
               PROVE  FALSE
    BY <1>1, <1>7 DEF CyclesAreCut
  <2> DEFINE T == S \ {top}
  <2>1. T \in SUBSET DOMAIN processes /\ \A j \in T : states[j] = 2 /\ ~Cut(j)
    BY <1>6, <1>7
  <2>2. \A j \in T : FindParent(j) \in T
    <3> TAKE j \in T
    <3>1. Placed(j) /\ FindParent(j) \in S /\ FindParent(j) # 0
      BY <1>2, <1>3, <2>1 DEF Shape, AllPlaced
    <3>2. states[FindParent(j)] = 2
      BY <3>1 DEF Placed
    <3> QED BY <1>3, <3>1, <3>2
  <2>3. T # {}
    <3>1. CASE top \in S
      <4>1. parent \in S /\ parent # 0
        BY <1>3, <1>7, <3>1
      <4>2. parent # top
        BY <1>7, <3>1, <4>1
      <4> QED BY <4>1, <4>2
    <3>2. CASE top \notin S
      BY <3>2
    <3> QED BY <3>1, <3>2
  <2> HIDE DEF T
  <2>4. \E j \in T : Cut(j)
    BY <1>2, <2>1, <2>2, <2>3 DEF Shape, CyclesAreCut
  <2> QED BY <2>1, <2>4
<1>12. CutOnce'
  <2> SUFFICES ASSUME NEW i \in DOMAIN processes, Cut(i)'
               PROVE  i \in Ancestors(i) /\ \E S \in SUBSET DOMAIN processes : Ring(S, i)'
    BY <1>1, <1>7 DEF CutOnce
  <2>1. CASE i = top
    <3>1. parent # 0 /\ parent \in Range(frames)
      BY <1>2, <1>3, <1>7, <2>1
    <3>2. PICK k \in 1 .. Len(frames) : parent = frames[k]
      BY <3>1, TreeFacts DEF Range
    <3>3. PICK S : S = {frames[m] : m \in k .. Len(frames)}
      OBVIOUS
    <3>4. /\ S \subseteq DOMAIN processes /\ top \in S /\ S \subseteq Range(frames)
          /\ \A j \in S : FindParent(j) \in S
          /\ top \in Ancestors(top)
      BY <1>0, <1>1, <1>2, <3>2, <3>3, StackCycle DEF Shape
    <3>5. \A j \in S : states[j] = 1 /\ ~Cut(j)
      BY <1>2, <3>4 DEF Cut
    <3>6. \A j \in S : FindParent(j)' \in S /\ states'[j] # 0 /\ (Cut(j)' => j = top)
      BY <1>6, <1>7, <3>4, <3>5
    <3>7. frames' # <<>> => states'[FindParent(Top)'] = 2
      BY <1>3, <1>5, <1>6, <1>7
    <3>8. Ring(S, i)'
      BY <2>1, <3>4, <3>6, <3>7 DEF Ring
    <3> QED BY <2>1, <3>4, <3>8
  <2>2. CASE i # top
    <3>1. Cut(i)
      BY <1>7, <2>2
    <3>2. i \in Ancestors(i) /\ \E S \in SUBSET DOMAIN processes : Ring(S, i)
      BY <1>2, <3>1 DEF Shape, CutOnce
    <3>3. PICK S \in SUBSET DOMAIN processes : Ring(S, i)
      BY <3>2
    <3>4. /\ i \in S
          /\ \A j \in S : FindParent(j) \in S /\ states[j] # 0 /\ (Cut(j) => j = i)
          /\ top \in S => states[parent] = 2
      BY <1>0, <1>1, <3>3 DEF Ring
    <3>5. top \in S => ~Cut(top)'
      <4>1. top \in S => states[parent] = 2 /\ states[top] = 1
        BY <1>3, <3>4
      <4> QED BY <1>7, <4>1
    <3>6. \A j \in S : FindParent(j)' \in S /\ states'[j] # 0 /\ (Cut(j)' => j = i)
      BY <1>6, <1>7, <3>4, <3>5
    <3>7. frames' # <<>> => states'[FindParent(Top)'] = 2
      BY <1>3, <1>5, <1>6, <1>7
    <3>8. Ring(S, i)'
      BY <3>4, <3>6, <3>7 DEF Ring
    <3> QED BY <3>2, <3>8
  <2> QED BY <2>1, <2>2
<1> QED BY <1>1, <1>2, <1>8, <1>9, <1>10, <1>11, <1>12 DEF FaithInv, Shape

LEMMA FaithStep == TreeInv /\ FaithInv /\ [Next]_vars => FaithInv'
<1> SUFFICES ASSUME TreeInv, FaithInv, [Next]_vars PROVE FaithInv'
  OBVIOUS
<1>1. CASE UNCHANGED vars
  <2>1. /\ \A i : FindParent(i)' = FindParent(i) /\ Ancestors(i)' = Ancestors(i)
        /\ \A i : Cut(i)' <=> Cut(i)
        /\ \A i : Placed(i)' <=> Placed(i)
        /\ \A S, i : Ring(S, i)' <=> Ring(S, i)
    <3>1. \A i : FindParent(i)' = FindParent(i) /\ Ancestors(i)' = Ancestors(i)
      BY <1>1, TableStays DEF vars
    <3>2. \A i : Cut(i)' <=> Cut(i)
      BY <1>1, <3>1 DEF Cut, vars
    <3>3. \A i : Placed(i)' <=> Placed(i)
      BY <1>1, <3>1 DEF Placed, vars
    <3>4. \A S, i : Ring(S, i)' <=> Ring(S, i)
      BY <1>1, <3>1, <3>2 DEF Ring, Top, vars
    <3> QED BY <3>1, <3>2, <3>3, <3>4
  <2>2. Shape' <=> Shape
    BY <1>1, <2>1 DEF Shape, VisitedInOrder, StackClimbs, AllPlaced, CyclesAreCut, CutOnce, vars
  <2> QED BY <1>1, <2>2 DEF FaithInv, vars
<1> QED BY <1>1, FaithByReport, FaithByBegin, FaithByVisit, FaithByDescend, FaithByInsert,
           FaithByEnd DEF Next, Build

-----------------------------------------------------------------------------
(* Ancestors *)

\* The records above a record have their parents among them.
LEMMA AncestorsClosed ==
  ASSUME TreeInv, NEW i \in DOMAIN processes, NEW k \in Ancestors(i) \union {i}, FindParent(k) # 0
  PROVE  FindParent(k) \in Ancestors(i)
<1>1. k \in DOMAIN processes
  BY DEF Ancestors
<1>2. FindParent(k) \in DOMAIN processes
  BY <1>1, TreeFacts
<1>3. ASSUME NEW S \in SUBSET DOMAIN processes,
             \A j \in S \union {i} : FindParent(j) \in S \union {0}
      PROVE  FindParent(k) \in S
  <2>1. k \in S \union {i}
    BY <1>3 DEF Ancestors
  <2> QED BY <1>2, <1>3, <2>1
<1> QED BY <1>2, <1>3 DEF Ancestors

\* A set that has the parent of a record and of its own members has all above it.
LEMMA AncestorsLeast ==
  ASSUME NEW i, NEW S \in SUBSET DOMAIN processes,
         \A k \in S \union {i} : FindParent(k) \in S \union {0}
  PROVE  Ancestors(i) \subseteq S
BY DEF Ancestors

\* On a cycle every record is above every other, and nothing else is.
LEMMA CycleSymmetric ==
  ASSUME TreeInv, NEW i \in DOMAIN processes, OnCycle(i), NEW c \in Ancestors(i)
  PROVE  /\ i \in Ancestors(c)
         /\ \A j \in Ancestors(i) : FindParent(j) \in Ancestors(i)
         /\ Ancestors(i) \subseteq Ancestors(c)
<1> DEFINE X == {j \in Ancestors(i) : i \in Ancestors(j)}
<1>1. i \in Ancestors(i) /\ Ancestors(i) \subseteq DOMAIN processes
  BY DEF OnCycle, Ancestors
<1>2. ASSUME NEW j \in DOMAIN processes, i \in Ancestors(j)
      PROVE  FindParent(j) # 0 /\ (FindParent(j) = i \/ i \in Ancestors(FindParent(j)))
  <2> DEFINE p == FindParent(j)
             S == Ancestors(p) \union {p}
  <2>1. p # 0
    <3> SUFFICES ASSUME p = 0 PROVE FALSE
      OBVIOUS
    <3>1. Ancestors(j) \subseteq {}
      <4>1. PICK none : none = {}
        OBVIOUS
      <4>2. /\ none \in SUBSET DOMAIN processes
            /\ \A k \in none \union {j} : FindParent(k) \in none \union {0}
        BY <4>1
      <4> QED BY <4>1, <4>2, AncestorsLeast
    <3> QED BY <1>2, <3>1
  <2>2. p \in DOMAIN processes
    BY <2>1, TreeFacts
  <2>3. S \subseteq DOMAIN processes
    BY <2>2 DEF Ancestors
  <2>4. \A k \in S \union {j} : FindParent(k) \in S \union {0}
    <3>1. \A k \in S : FindParent(k) # 0 => FindParent(k) \in Ancestors(p)
      <4> HIDE DEF p
      <4> QED BY <2>2, AncestorsClosed
    <3> QED BY <3>1
  <2>5. Ancestors(j) \subseteq S
    <3> HIDE DEF S
    <3> QED BY <2>3, <2>4, AncestorsLeast
  <2> QED BY <1>2, <2>1, <2>5
<1>3. \A j \in X \union {i} : FindParent(j) \in X
  <2> TAKE j \in X \union {i}
  <2>1. j \in DOMAIN processes /\ i \in Ancestors(j) /\ j \in Ancestors(i) \union {i}
    BY <1>1
  <2>2. FindParent(j) # 0 /\ (FindParent(j) = i \/ i \in Ancestors(FindParent(j)))
    BY <1>2, <2>1
  <2>3. FindParent(j) \in Ancestors(i)
    BY <2>1, <2>2, AncestorsClosed
  <2> QED BY <1>1, <2>2, <2>3
<1>4. Ancestors(i) \subseteq X
  <2>1. X \in SUBSET DOMAIN processes
    BY <1>1
  <2> HIDE DEF X
  <2> QED BY <1>3, <2>1, AncestorsLeast
<1>5. i \in Ancestors(c) /\ \A j \in Ancestors(i) : FindParent(j) \in Ancestors(i)
  BY <1>3, <1>4
<1>6. Ancestors(i) \subseteq Ancestors(c)
  <2>1. c \in DOMAIN processes
    BY <1>1
  <2>2. Ancestors(c) \in SUBSET DOMAIN processes
    BY DEF Ancestors
  <2>3. \A k \in Ancestors(c) : FindParent(k) # 0 => FindParent(k) \in Ancestors(c)
    BY <2>1, AncestorsClosed
  <2>4. \A k \in Ancestors(c) \union {i} : FindParent(k) \in Ancestors(c) \union {0}
    BY <1>5, <2>3
  <2> QED BY <2>2, <2>4, AncestorsLeast
<1> QED BY <1>5, <1>6

LEMMA FaithfulFromInv == TreeInv /\ FaithInv => TreeIsFaithful
<1> SUFFICES ASSUME TreeInv, FaithInv, ~building, ~stale, NEW i \in DOMAIN processes
             PROVE  IF OnCycle(i)
                    THEN \E top \in Ancestors(i) :
                           \A j \in Ancestors(i) :
                             items[j] = IF j = top THEN Root ELSE FindParent(j)
                    ELSE items[i] = FindParent(i)
  BY DEF TreeIsFaithful
<1>1. Shape /\ \A j \in DOMAIN processes : states[j] = 2
  BY DEF FaithInv
<1>2. \A j \in DOMAIN processes : Placed(j) \/ Cut(j)
  BY <1>1 DEF Shape, AllPlaced
<1>3. CASE ~OnCycle(i)
  <2>1. ~Cut(i)
    BY <1>1, <1>3 DEF Shape, CutOnce, OnCycle
  <2> QED BY <1>2, <1>3, <2>1 DEF Placed
<1>4. CASE OnCycle(i)
  <2>1. i \in Ancestors(i) /\ Ancestors(i) \in SUBSET DOMAIN processes
    BY <1>4 DEF OnCycle, Ancestors
  <2>2. \A j \in Ancestors(i) : FindParent(j) \in Ancestors(i)
    BY <1>4, <2>1, CycleSymmetric
  <2>3. PICK top \in Ancestors(i) : Cut(top)
    BY <1>1, <2>1, <2>2 DEF Shape, CyclesAreCut
  <2>4. PICK S \in SUBSET DOMAIN processes : Ring(S, top)
    BY <1>1, <2>1, <2>3 DEF Shape, CutOnce
  <2>5. top \in S /\ \A j \in S : FindParent(j) \in S /\ (Cut(j) => j = top)
    BY <2>4 DEF Ring
  <2>6. Ancestors(i) \subseteq S
    <3>1. Ancestors(top) \subseteq S
      <4>1. \A k \in S \union {top} : FindParent(k) \in S \union {0}
        BY <2>5
      <4> QED BY <4>1, AncestorsLeast
    <3> QED BY <1>4, <2>3, <3>1, CycleSymmetric
  <2>7. ASSUME NEW j \in Ancestors(i)
        PROVE  items[j] = IF j = top THEN Root ELSE FindParent(j)
    <3>1. j = top => items[j] = Root
      BY <2>3 DEF Cut
    <3>2. j # top => Placed(j)
      BY <1>2, <2>1, <2>5, <2>6
    <3> QED BY <3>1, <3>2 DEF Placed
  <2> QED BY <1>4, <2>7
<1> QED BY <1>3, <1>4

-----------------------------------------------------------------------------
\* The variables have their types, the stack holds no record twice, and a node's
\* parent has a node, for any reports (gui.c:1003-1056).
THEOREM TreeTypeCorrect == Spec => []TypeOK
<1>1. TreeInv => TypeOK
  BY DEF TreeInv
<1> QED BY <1>1, TreeInvInit, TreeInvStep, PTL DEF Spec

\* The recursion is never deeper than the process table is long.
THEOREM TreeDepthBounded == Spec => []DepthBounded
BY DepthFromInv, TreeInvInit, TreeInvStep, PTL DEF Spec

\* A finished tree shows the recorded parents of every process; a cycle of them is
\* cut at exactly one place (gui.c:1003-1061).
THEOREM TreeShowsParents == Spec => []TreeIsFaithful
<1>1. Init => TreeInv /\ FaithInv
  BY TreeInvInit, FaithInit
<1>2. (TreeInv /\ FaithInv) /\ [Next]_vars => (TreeInv /\ FaithInv)'
  BY TreeInvStep, FaithStep
<1> QED BY <1>1, <1>2, FaithfulFromInv, PTL DEF Spec
================================================================================
