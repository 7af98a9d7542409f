------------------------------ MODULE ProcessTree ------------------------------
(***************************************************************************)
(* The process tree of gui.c: rebuild_process_tree inserts a node for every *)
(* record of the process table under its parent's node, which recursion     *)
(* inserts first.  A record names its parent by a key that may lack its     *)
(* creation time, PIDs are reused, and records learn late, so the relation  *)
(* "is the parent of" need not be a tree, nor even free of cycles.          *)
(*                                                                         *)
(* The table is that of ProcessRecords.  The call stack of                  *)
(* insert_process_node is the sequence frames, outermost call first.        *)
(***************************************************************************)
EXTENDS ProcessRecords, Functions

CONSTANTS
  Reports,     \* the start and stop reports that the store may get
  MaxReports   \* bound: reports in a behaviour

ASSUME TreeReportsAssumption ==
  \A e \in Reports : /\ e.type \in {"start", "stop"}
                     /\ e.process \in ProcessKey /\ e.parent \in ProcessKey
                     /\ e.process.pid # 0
ASSUME MaxReportsAssumption == MaxReports \in Nat

VARIABLES
  processes,  \* EventStore.processes
  reports,    \* how many reports there were
  building,   \* rebuild_process_tree is running
  stale,      \* the tree is not that of the table: not rebuilt yet, or no memory
  index,      \* the loop of rebuild_process_tree
  frames,     \* records whose insert_process_node has not returned
  states,     \* per record: 0 not visited, 1 being inserted, 2 inserted
  items       \* the tree: the record under whose node each record's node is, or Root

vars == <<processes, reports, building, stale, index, frames, states, items>>

Root == 0
NoNode == -1

Init ==
  /\ processes = <<>> /\ reports = 0
  /\ building = FALSE /\ stale = FALSE
  /\ index = 1 /\ frames = <<>>
  /\ states = <<>> /\ items = <<>>

\* A start or stop report, accepted or coalesced.
Report ==
  /\ ~building /\ reports < MaxReports
  /\ \E e \in Reports : processes' = Recorded(processes, e)
  /\ reports' = reports + 1
  /\ stale' = TRUE
  /\ UNCHANGED <<building, index, frames, states, items>>

-----------------------------------------------------------------------------
\* The record of a record's parent; 0 when there is none.
FindParent(child) ==
  LET record == processes[child]
  IN  IF record.parent.pid \in {0, record.key.pid} THEN 0
      ELSE FindProcess(processes, record.parent)

Top == frames[Len(frames)]
Pop == SubSeq(frames, 1, Len(frames) - 1)

\* All nodes are deleted; then calloc may find no memory, which leaves the tree empty.
Begin ==
  /\ ~building /\ stale
  /\ \E allocated \in BOOLEAN : building' = allocated
  /\ index' = 1 /\ frames' = <<>>
  /\ states' = [i \in DOMAIN processes |-> 0] /\ items' = [i \in DOMAIN processes |-> NoNode]
  /\ UNCHANGED <<processes, reports, stale>>

\* Faulty variant: the loop does not go on from a record that has its node.
VisitStays ==
  /\ building /\ frames = <<>> /\ index <= Len(processes)
  /\ states[index] # 2
  /\ index' = index + 1
  /\ frames' = <<index>> /\ states' = [states EXCEPT ![index] = 1]
  /\ UNCHANGED <<processes, reports, building, stale, items>>

\* The loop's next call; a record that its child's call inserted returns at once.
Visit ==
  /\ building /\ frames = <<>> /\ index <= Len(processes)
  /\ index' = index + 1
  /\ IF states[index] = 2 THEN UNCHANGED <<frames, states>>
     ELSE frames' = <<index>> /\ states' = [states EXCEPT ![index] = 1]
  /\ UNCHANGED <<processes, reports, building, stale, items>>

\* Faulty variant: the test for a record that is being inserted is missing.
DescendAlways ==
  /\ building /\ frames # <<>>
  /\ LET parent == FindParent(Top)
     IN  /\ parent # 0 /\ parent # Top /\ states[parent] # 2
         /\ frames' = Append(frames, parent)
         /\ states' = [states EXCEPT ![parent] = 1]
  /\ UNCHANGED <<processes, reports, building, stale, index, items>>

\* The recursive call for a parent that has not been visited.
Descend ==
  /\ building /\ frames # <<>>
  /\ LET parent == FindParent(Top)
     IN  /\ parent # 0 /\ parent # Top /\ states[parent] = 0
         /\ frames' = Append(frames, parent)
         /\ states' = [states EXCEPT ![parent] = 1]
  /\ UNCHANGED <<processes, reports, building, stale, index, items>>

\* Faulty variant: the node goes under a parent that has no node yet.
InsertUnderAny ==
  /\ building /\ frames # <<>>
  /\ LET parent == FindParent(Top)
     IN  /\ parent \notin {0, Top} => states[parent] # 0
         /\ items' = [items EXCEPT ![Top] = IF parent = Top THEN Root ELSE parent]
  /\ frames' = Pop /\ states' = [states EXCEPT ![Top] = 2]
  /\ UNCHANGED <<processes, reports, building, stale, index>>

\* The parent has its node, or there is none, or it is being inserted further down
\* the stack: then its call answered TVI_ROOT.
Insert ==
  /\ building /\ frames # <<>>
  /\ LET parent == FindParent(Top)
     IN  /\ parent \notin {0, Top} => states[parent] # 0
         /\ items' = [items EXCEPT ![Top] =
                      IF parent \in {0, Top} \/ states[parent] = 1 THEN Root ELSE parent]
  /\ frames' = Pop /\ states' = [states EXCEPT ![Top] = 2]
  /\ UNCHANGED <<processes, reports, building, stale, index>>

End ==
  /\ building /\ frames = <<>> /\ index > Len(processes)
  /\ building' = FALSE /\ stale' = FALSE
  /\ UNCHANGED <<processes, reports, index, frames, states, items>>

Build == Visit \/ Descend \/ Insert \/ End
Next == Report \/ Begin \/ Build

Spec == Init /\ [][Next]_vars /\ WF_vars(Build)

-----------------------------------------------------------------------------
(* Properties *)

\* Every variable has its type; the stack holds each record at most once, so the
\* recursion is no deeper than the table is long, and a node's parent has a node.
TypeOK ==
  /\ processes \in Seq(Record({e.name : e \in Reports}))
  /\ reports \in 0 .. MaxReports /\ building \in BOOLEAN /\ stale \in BOOLEAN
  /\ index \in 1 .. Len(processes) + 1
  /\ frames \in Seq(DOMAIN processes) /\ IsInjective(frames)
  /\ building => /\ states \in [DOMAIN processes -> 0 .. 2]
                 /\ \A i \in DOMAIN processes :
                      /\ states[i] = 1 <=> i \in Range(frames)
                      /\ states[i] = 2 <=> items[i] # NoNode
  /\ items \in Seq({NoNode, Root} \union DOMAIN processes)
  /\ \A i \in DOMAIN items : items[i] > 0 => items[items[i]] # NoNode

\* The records above a record: what every set contains that has the parents of the
\* record and of its own members.
Ancestors(i) ==
  {j \in DOMAIN processes :
     \A S \in SUBSET DOMAIN processes :
       (\A k \in S \union {i} : FindParent(k) \in S \union {0}) => j \in S}
OnCycle(i) == i \in Ancestors(i)

\* A finished tree has every process once, under the record of its parent.  Only
\* where the recorded parents form a cycle is exactly one of them put under the
\* root instead, so that the nodes form a forest (gui.c:1021-1056).
TreeIsFaithful ==
  ~building /\ ~stale =>
    \A i \in DOMAIN processes :
      IF OnCycle(i)
      THEN \E top \in Ancestors(i) :
             \A j \in Ancestors(i) : items[j] = IF j = top THEN Root ELSE FindParent(j)
      ELSE items[i] = FindParent(i)

\* The recursion ends, whatever parents the records name.
BuildEnds == building ~> ~building
================================================================================
